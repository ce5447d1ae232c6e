----------------------------- MODULE RouteDump -----------------------------
(***************************************************************************)
(* Reading a BSD routing dump (autonet-platform/src/rtparse.rs).  A dump   *)
(* is a sequence of messages                                               *)
(*   [sound, version, index, flags, addrs, block]                          *)
(* sound where rtm_msglen fits the buffer, addrs the slots the bitmask     *)
(* claims, block the bytes after the header in words of four: a sockaddr   *)
(*   [len, family, ip, octets, index]                                      *)
(* in the word it begins in (octets are what it has from the address on)   *)
(* and Filler in the others, which reads as a sockaddr of length zero.     *)
(***************************************************************************)
EXTENDS Network

CONSTANT LinkLocal     \* the addresses a BSD kernel embeds the index in

Embedding == 1000      \* above every address: one that is embedded is i * 1000 + ip

Filler == [len |-> 0, family |-> None, ip |-> 0, octets |-> <<>>, index |-> 0]

\* The bits of rtm_addrs, in the order the sockaddrs come in.
SlotOrder == <<"DST", "GATEWAY", "NETMASK", "GENMASK", "IFP", "IFA", "AUTHOR", "BRD">>

RtmVersion == 5

\* A mistake: the boundary of FreeBSD, where a long is eight bytes.
RoundUpLong(len) == IF len = 0 THEN 8 ELSE 8 * ((len + 7) \div 8)

\* Four bytes on Darwin, and even an empty sockaddr takes four.
RoundUp(len) == IF len = 0 THEN 4 ELSE 4 * ((len + 3) \div 4)

\* The sockaddrs by slot; their identity is nothing but their position.  after
\* is where, in words, the one behind a place begins, `cut' where the buffer is
\* spent or ends in the middle of one, and begin the walk over the slots.
Slots(block, addrs) ==
    LET cut == Len(block) + 1
        after == [at \in 0..cut |->
                    IF at >= Len(block) THEN cut
                    ELSE IF block[at + 1].len > 4 * (Len(block) - at) THEN cut
                    ELSE Min({at + RoundUp(block[at + 1].len) \div 4, Len(block)})]
        begin[k \in 1..9] ==
            IF k = 1 THEN 0
            ELSE IF SlotOrder[k - 1] \in addrs THEN after[begin[k - 1]] ELSE begin[k - 1]
    IN  IF begin[9] = cut THEN None
        ELSE [slot \in addrs |-> block[begin[CHOOSE k \in 1..8 : SlotOrder[k] = slot] + 1]]

FamilyOf(sa) == IF sa.len < 2 THEN None ELSE sa.family

\* A mistake: the address as the kernel keeps it.
KeepEmbeddedScopeId(ip) == ip

\* KAME keeps the interface's index inside a link-local address.
StripEmbeddedScopeId(ip) ==
    IF ip % Embedding \in LinkLocal THEN ip % Embedding ELSE ip

\* A link-layer sockaddr, as in the gateway of an on-link route, has no address.
IpOf(sa) ==
    CASE FamilyOf(sa) = "inet" /\ sa.len >= 8 -> sa.ip
      [] FamilyOf(sa) = "inet6" /\ sa.len >= 24 -> StripEmbeddedScopeId(sa.ip)
      [] OTHER -> None

IpIn(found, slot) == IF slot \in DOMAIN found THEN IpOf(found[slot]) ELSE None

SdlIndex(sa) == IF FamilyOf(sa) = "link" /\ sa.len >= 4 THEN sa.index ELSE 0

\* The bytes whose first bits are set, and no others.
FirstOnes == <<128, 192, 224, 240, 248, 252, 254, 255>>

LeadingOnes(byte) == Cardinality({k \in 1..8 : byte >= FirstOnes[k]})

\* A mask is cut off behind its last byte that is not zero.
PrefixLen(mask, family) ==
    LET width == IF family = "v4" THEN 4 ELSE 16
        Byte(i) == IF i \in DOMAIN mask.octets THEN mask.octets[i] ELSE 0
        short == {i \in 1..width : Byte(i) # 255}
    IN  IF short = {} THEN 8 * width
        ELSE 8 * (Min(short) - 1) + LeadingOnes(Byte(Min(short)))

HostPrefix(family) == IF family = "v4" THEN 32 ELSE 128

IsReportable(flags) ==
    /\ "UP" \in flags
    /\ flags \cap {"LLINFO", "WASCLONED", "MULTICAST", "BLACKHOLE", "REJECT"} = {}

\* The family comes from the destination, the dump's own only stands in.
FamilyFor(found, fallback) ==
    IF IpIn(found, "DST") = None THEN fallback
    ELSE IF FamilyOf(found["DST"]) = "inet" THEN "v4" ELSE "v6"

PrefixFor(found, flags, family) ==
    CASE "HOST" \in flags -> HostPrefix(family)
      [] "HOST" \notin flags /\ "NETMASK" \in DOMAIN found ->
            PrefixLen(found["NETMASK"], family)
      [] OTHER -> 0

\* The address 0 is the unspecified one.
RouteParts(found, m, family) ==
    LET ip == IpIn(found, "DST")
        prefix == PrefixFor(found, m.flags, family)
        network == [ip |-> ip, prefix |-> prefix]
    IN  IF \/ "DST" \in DOMAIN found /\ FamilyOf(found["DST"]) = "link"
           \/ ip = None /\ prefix # 0
        THEN None
        ELSE [destination |-> IF ip = None \/ (ip = 0 /\ prefix = 0) THEN None ELSE network,
              gateway |-> IpIn(found, "GATEWAY"),
              family |-> family,
              interface |-> IF "IFP" \in DOMAIN found THEN SdlIndex(found["IFP"]) ELSE 0]

\* rtm_index is authoritative; RTA_IFP is for a message that names no interface.
RouteOf(parts, m) ==
    [default |-> parts.destination = None, destination |-> parts.destination,
     gateway |-> parts.gateway, family |-> parts.family,
     index |-> IF m.index = 0 THEN parts.interface ELSE m.index]

RouteFrom(m, fallback) ==
    LET found == Slots(m.block, m.addrs)
        parts == RouteParts(found, m, FamilyFor(found, fallback))
    IN  IF found = None \/ parts = None THEN None ELSE RouteOf(parts, m)

\* rtm_msglen finds the next message, so nothing past a bad one is read.
Sound(buffer) ==
    LET bad == {k \in DOMAIN buffer : ~buffer[k].sound}
    IN  IF bad = {} THEN buffer ELSE SubSeq(buffer, 1, Min(bad) - 1)

\* The routes a dump of one family describes, and then with the metric of
\* their interface: macOS has none of its own for a route.
Decoded(buffer, family) ==
    LET sound == Sound(buffer)
        found == [k \in DOMAIN sound |-> RouteFrom(sound[k], family)]
    IN  Picked(found, {k \in DOMAIN sound : /\ sound[k].version = RtmVersion
                                            /\ IsReportable(sound[k].flags)
                                            /\ found[k] # None})

Scored(routes, metrics, unranked) ==
    [k \in DOMAIN routes |->
        LET r == routes[k]
        IN  [default |-> r.default, destination |-> r.destination, gateway |-> r.gateway,
             family |-> r.family, index |-> r.index,
             metric |-> IF r.index \in DOMAIN metrics THEN metrics[r.index] ELSE unranked]]

============================================================================
