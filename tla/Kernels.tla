------------------------------ MODULE Kernels ------------------------------
(***************************************************************************)
(* What the kernels of macOS, Windows and Linux report of one and the same *)
(* machine.  A scene is one state of it, told without reference to a       *)
(* system:                                                                 *)
(*   [links     : name -> [nature, oper, index, index6, luid, metric],     *)
(*    addresses : Seq([name, ip, family, scope, temporary, duplicate]),    *)
(*    routes    : Seq([name, family, kind, destination, prefix, gateway,   *)
(*                     metric]),                                           *)
(*    services  : Seq(name or None),  bulk : Nat]                          *)
(* Everything here is external to AutoNet.                                 *)
(***************************************************************************)
EXTENDS Darwin

CONSTANT Names      \* the names of links, in the order of names

ASSUME NamesAreListed == Names \in Seq(ToSet(Names))

\* nature -> the flags, SystemConfiguration's type and the driver's link type.
DarwinEvidence ==
    [loopback |-> [flags |-> {"LOOPBACK"}, sc |-> None, ifi_type |-> "LOOP"],
     wired |-> [flags |-> {}, sc |-> "Ethernet", ifi_type |-> "ETHER"],
     wifi |-> [flags |-> {}, sc |-> "IEEE80211", ifi_type |-> "ETHER"],
     bond |-> [flags |-> {}, sc |-> "Bond", ifi_type |-> "IEEE8023ADLAG"],
     tunnel |-> [flags |-> {"POINTOPOINT"}, sc |-> None, ifi_type |-> "OTHER"],
     ppp |-> [flags |-> {"POINTOPOINT"}, sc |-> "Ppp", ifi_type |-> "PPP"],
     switch |-> [flags |-> {}, sc |-> "Bridge", ifi_type |-> "BRIDGE"],
     modem |-> [flags |-> {"POINTOPOINT"}, sc |-> "Wwan", ifi_type |-> "CELLULAR"]]

Row(access_type, medium, media_type, hardware) ==
    [access_type |-> access_type, physical_medium |-> medium, media_type |-> media_type,
     hardware_interface |-> hardware]

\* A tunnel and a switch both come as Ethernet adapters.
WindowsEvidence ==
    [loopback |-> [if_type |-> "SOFTWARE_LOOPBACK", tunnel_type |-> "NONE",
                   ndis |-> Row("LOOPBACK", "UNSPECIFIED", "LOOPBACK", FALSE)],
     wired |-> [if_type |-> "ETHERNET_CSMACD", tunnel_type |-> "NONE",
                ndis |-> Row("BROADCAST", "ETHERNET_802_3", "ETHERNET_802_3", TRUE)],
     wifi |-> [if_type |-> "IEEE80211", tunnel_type |-> "NONE",
               ndis |-> Row("BROADCAST", "NATIVE_802_11", "ETHERNET_802_3", TRUE)],
     bond |-> [if_type |-> "IEEE8023AD_LAG", tunnel_type |-> "NONE",
               ndis |-> Row("BROADCAST", "ETHERNET_802_3", "ETHERNET_802_3", TRUE)],
     tunnel |-> [if_type |-> "ETHERNET_CSMACD", tunnel_type |-> "NONE",
                 ndis |-> Row("POINT_TO_POINT", "UNSPECIFIED", "ETHERNET_802_3", FALSE)],
     ppp |-> [if_type |-> "PPP", tunnel_type |-> "NONE",
              ndis |-> Row("POINT_TO_POINT", "UNSPECIFIED", "TUNNEL", FALSE)],
     switch |-> [if_type |-> "ETHERNET_CSMACD", tunnel_type |-> "NONE",
                 ndis |-> Row("BROADCAST", "UNSPECIFIED", "ETHERNET_802_3", FALSE)],
     modem |-> [if_type |-> "WWANPP", tunnel_type |-> "NONE",
                ndis |-> Row("POINT_TO_POINT", "UNSPECIFIED", "ETHERNET_802_3", TRUE)]]

LinuxEvidence ==
    [loopback |-> [kind |-> None, loopback |-> TRUE, wireless |-> FALSE],
     wired |-> [kind |-> None, loopback |-> FALSE, wireless |-> FALSE],
     wifi |-> [kind |-> None, loopback |-> FALSE, wireless |-> TRUE],
     bond |-> [kind |-> "bond", loopback |-> FALSE, wireless |-> FALSE],
     tunnel |-> [kind |-> "wireguard", loopback |-> FALSE, wireless |-> FALSE],
     ppp |-> [kind |-> "ppp", loopback |-> FALSE, wireless |-> FALSE],
     switch |-> [kind |-> "bridge", loopback |-> FALSE, wireless |-> FALSE],
     modem |-> [kind |-> "wwan", loopback |-> FALSE, wireless |-> FALSE]]

\* SystemConfiguration knows no tunnel and, hidden, nothing.
DarwinTypes(s, hidden) ==
    IF "types" \in hidden THEN <<>>
    ELSE [n \in {m \in DOMAIN s.links : DarwinEvidence[s.links[m].nature].sc # None} |->
             DarwinEvidence[s.links[n].nature].sc]

DarwinLinks(s) ==
    [n \in DOMAIN s.links |->
        LET evidence == DarwinEvidence[s.links[n].nature]
        IN  [index |-> s.links[n].index, ifi_type |-> evidence.ifi_type,
             flags |-> evidence.flags \cup [up |-> {"UP", "RUNNING"}, quiet |-> {"UP"},
                                            down |-> {}][s.links[n].oper]]]

Embedded(s, name, ip) ==
    IF ip \in LinkLocal THEN s.links[name].index * Embedding + ip ELSE ip

DarwinList(s) ==
    [k \in DOMAIN s.addresses |->
        LET a == s.addresses[k]
        IN  [name |-> a.name, index |-> s.links[a.name].index, family |-> a.family,
             scope |-> a.scope, ip |-> Embedded(s, a.name, a.ip)]]

\* The flags of an address that is asked for as the kernel has it.
Flags(s, record) ==
    UNION {(IF a.temporary THEN {"TEMPORARY"} ELSE {})
             \cup (IF a.duplicate THEN {"DUPLICATED"} ELSE {}) :
           a \in {a \in ToSet(s.addresses) :
                    a.name = record.name /\ Embedded(s, a.name, a.ip) = record.ip}}

Words(sa) == <<sa>> \o [k \in 1..(IF sa.len = 0 THEN 0 ELSE (sa.len + 3) \div 4 - 1) |-> Filler]

Inet(fam, ip) ==
    [len |-> IF fam = "v4" THEN 16 ELSE 28, family |-> IF fam = "v4" THEN "inet" ELSE "inet6",
     ip |-> ip, octets |-> <<>>, index |-> 0]

Sdl(index) == [len |-> 20, family |-> "link", ip |-> 0, octets |-> <<>>, index |-> index]

\* A mask of so many bits, without the bytes that are zero.
Mask(fam, bits) ==
    LET octets == [k \in 1..((bits + 7) \div 8) |->
                      IF 8 * k <= bits THEN 255 ELSE FirstOnes[bits % 8]]
    IN  [len |-> IF bits = 0 THEN 0 ELSE (IF fam = "v4" THEN 4 ELSE 8) + Len(octets),
         family |-> None, ip |-> 0, octets |-> octets, index |-> 0]

RouteFlags ==
    [route |-> {"UP"}, host |-> {"UP", "HOST"}, neighbour |-> {"UP", "HOST", "LLINFO"},
     arp |-> {"UP", "HOST"}, reject |-> {"UP", "REJECT"}, loop |-> {"UP", "MULTICAST"}]

\* One message of a dump; an on-link gateway is a link-layer address.
RoutingMessage(s, r) ==
    LET index == s.links[r.name].index
        destination == IF r.kind = "arp" THEN Sdl(index) ELSE Inet(r.family, r.destination)
        gateway == IF r.gateway = None THEN Sdl(index)
                   ELSE Inet(r.family, Embedded(s, r.name, r.gateway))
        mask == IF "HOST" \in RouteFlags[r.kind] THEN <<>> ELSE Words(Mask(r.family, r.prefix))
    IN  [sound |-> TRUE, version |-> RtmVersion, index |-> index,
         flags |-> RouteFlags[r.kind] \cup (IF r.gateway = None THEN {} ELSE {"GATEWAY"}),
         addrs |-> {"DST", "GATEWAY", "IFP", "IFA"}
                     \cup (IF "HOST" \in RouteFlags[r.kind] THEN {} ELSE {"NETMASK"}),
         block |-> Words(destination) \o Words(gateway) \o mask
                     \o Words(Sdl(index)) \o Words(Inet(r.family, 1))]

RoutesOf(s, fam) == Picked(s.routes, {k \in DOMAIN s.routes : s.routes[k].family = fam})

RoutingDump(s, fam) ==
    [k \in DOMAIN RoutesOf(s, fam) |-> RoutingMessage(s, RoutesOf(s, fam)[k])]

Bytes(s, fam) == IF RoutesOf(s, fam) = <<>> THEN 0 ELSE s.bulk

UnicastRecord(a) ==
    [dad |-> IF a.duplicate THEN "Duplicate" ELSE "Preferred",
     suffix |-> IF a.temporary THEN "Random" ELSE "LinkLayer", scope |-> a.scope,
     sockaddr |-> [len |-> IF a.family = "v4" THEN 16 ELSE 28, family |-> a.family, ip |-> a.ip]]

\* The adapter of a name; the friendly name of one may be empty.
AdapterOf(s, name) ==
    LET link == s.links[name]
        evidence == WindowsEvidence[link.nature]
    IN  [name |-> name, luid |-> link.luid, if_type |-> evidence.if_type,
         tunnel_type |-> evidence.tunnel_type, index |-> link.index, index6 |-> link.index6,
         oper |-> [up |-> "UP", down |-> "DOWN", quiet |-> "UNKNOWN"][link.oper],
         metrics |-> [v4 |-> link.metric, v6 |-> link.metric],
         unicast |-> Picked([k \in DOMAIN s.addresses |-> UnicastRecord(s.addresses[k])],
                            {k \in DOMAIN s.addresses : s.addresses[k].name = name})]

WindowsAdapters(s) == {AdapterOf(s, name) : name \in DOMAIN s.links}

\* The rows of the interface table; with the hardware bit misread, the
\* loopback claims it too.
WindowsRows(s, hidden) ==
    {[luid |-> s.links[name].luid, type |-> WindowsEvidence[s.links[name].nature].if_type,
      ndis |-> LET row == WindowsEvidence[s.links[name].nature].ndis
               IN  IF "hardware" \in hidden THEN [row EXCEPT !.hardware_interface = TRUE]
                   ELSE row] : name \in DOMAIN s.links}

ForwardRow(link, r) ==
    [luid |-> link.luid, index |-> IF r.family = "v4" THEN link.index ELSE link.index6,
     family |-> r.family, destination |-> r.destination,
     prefix |-> IF r.kind = "host" THEN 255 ELSE r.prefix,
     next_hop |-> IF r.gateway = None THEN 0 ELSE r.gateway,
     metric |-> r.metric, loopback |-> r.kind = "loop", multicast |-> FALSE]

WindowsRoutes(s) ==
    Picked([k \in DOMAIN s.routes |-> ForwardRow(s.links[s.routes[k].name], s.routes[k])],
           {k \in DOMAIN s.routes : s.routes[k].kind \in {"route", "host", "loop"}})

LinuxLinks(s) ==
    [i \in {s.links[n].index : n \in DOMAIN s.links} |->
        LET name == CHOOSE n \in DOMAIN s.links : s.links[n].index = i
            evidence == LinuxEvidence[s.links[name].nature]
        IN  [name |-> name, admin |-> TRUE, link_kind |-> evidence.kind,
             loopback |-> evidence.loopback, wireless |-> evidence.wireless,
             oper |-> [up |-> "up", down |-> "down", quiet |-> "unknown"][s.links[name].oper]]]

LinuxAddresses(s) ==
    [k \in DOMAIN s.addresses |->
        LET a == s.addresses[k]
        IN  [index |-> s.links[a.name].index, ip |-> a.ip, family |-> a.family,
             scope |-> a.scope, secondary |-> a.temporary, dadfailed |-> a.duplicate]]

RouteRow(link, r) ==
    [type |-> IF r.kind \in {"route", "host"} THEN "unicast" ELSE r.kind,
     default |-> r.destination = 0 /\ r.prefix = 0, family |-> r.family,
     index |-> link.index, metric |-> r.metric, gateway |-> r.gateway]

LinuxRoutes(s, fam) ==
    Picked([k \in DOMAIN s.routes |-> RouteRow(s.links[s.routes[k].name], s.routes[k])],
           {k \in DOMAIN s.routes : /\ s.routes[k].family = fam
                                    /\ s.routes[k].kind \notin {"neighbour", "arp"}})

============================================================================
