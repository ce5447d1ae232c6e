------------------------------ MODULE Backends ------------------------------
(***************************************************************************)
(* One snapshot of a machine that does not stand still, on each of the     *)
(* three systems AutoNet runs on (autonet-platform/src/macos, windows and  *)
(* linux).  No system answers everything at once: a backend asks for the   *)
(* links, the addresses and the routes in calls of their own and joins     *)
(* what it got, while links, leases and tunnels come and go between them.  *)
(* pc names the call that comes next.  A source in box.hidden does not     *)
(* answer: where the code can do without it, it does, and the snapshot     *)
(* fails where it cannot.                                                  *)
(***************************************************************************)
EXTENDS Kernels, Netlink, WinTables

CONSTANTS
    Scene,      \* the scenes, by their names
    Boxes,      \* machines: [platform, hidden, scenes]
    Broken      \* Err(PlatformError::Query)

\* What a machine is like, whatever else it is: its links are so many and no
\* more, and each has an index; what is bound or installed is so on a link it
\* has; what a BSD kernel embeds an index in is IPv6; and a route to one host
\* has a prefix.
Plausible(s) ==
    /\ Len(s.addresses) \in Nat /\ DOMAIN s.addresses = 1..Len(s.addresses)
    /\ Len(s.routes) \in Nat /\ DOMAIN s.routes = 1..Len(s.routes)
    /\ IsFiniteSet(DOMAIN s.links)
    /\ \A name \in DOMAIN s.links :
          /\ s.links[name].nature \in DOMAIN DarwinEvidence
          /\ s.links[name].oper \in {"up", "down", "quiet"}
          /\ s.links[name].index \in Nat /\ s.links[name].index6 \in Nat
    /\ \A k \in DOMAIN s.addresses :
          /\ s.addresses[k].name \in DOMAIN s.links
          /\ s.addresses[k].ip \in 0..(Embedding - 1) /\ s.addresses[k].family \in Families
          /\ s.addresses[k].temporary \in BOOLEAN /\ s.addresses[k].duplicate \in BOOLEAN
          /\ s.addresses[k].temporary => s.addresses[k].family = "v6"
    /\ \A k \in DOMAIN s.routes :
          /\ s.routes[k].name \in DOMAIN s.links
          /\ s.routes[k].kind \in DOMAIN RouteFlags /\ s.routes[k].family \in Families
          /\ s.routes[k].destination \in 0..(Embedding - 1)
          /\ s.routes[k].prefix \in 0..HostPrefix(s.routes[k].family)
          /\ s.routes[k].kind = "host" => s.routes[k].prefix # 0
          /\ s.routes[k].gateway \in {None} \cup 1..(Embedding - 1)
          /\ s.routes[k].gateway \in LinkLocal => s.routes[k].family = "v6"

\* What each system sees to: macOS and Linux number every link, Linux gives no
\* index to another name, Windows no LUID to another adapter, and a route of
\* IPv4 is on an adapter that has IPv4; duplicates are detected in IPv6, and an
\* address has its family and scope wherever it is.
Systematic(b) ==
    /\ b.platform # "windows" =>
          \A s \in b.scenes : \A n \in DOMAIN Scene[s].links : Scene[s].links[n].index # 0
    /\ b.platform = "linux" =>
          \A s, t \in b.scenes : \A n \in DOMAIN Scene[s].links, m \in DOMAIN Scene[t].links :
              Scene[s].links[n].index = Scene[t].links[m].index => n = m
    /\ b.platform = "windows" =>
          /\ \A s, t \in b.scenes : \A n \in DOMAIN Scene[s].links, m \in DOMAIN Scene[t].links :
                Scene[s].links[n].luid = Scene[t].links[m].luid =>
                    /\ n = m
                    /\ Scene[s].links[n].index = Scene[t].links[m].index
                    /\ Scene[s].links[n].index6 = Scene[t].links[m].index6
          /\ \A s \in b.scenes : \A r \in ToSet(Scene[s].routes) :
                r.family = "v4" => Scene[s].links[r.name].index # 0
    /\ b.platform = "macos" =>
          \A s, t \in b.scenes : \A a \in ToSet(Scene[s].addresses) :
              /\ a.duplicate => a.family = "v6"
              /\ \A c \in ToSet(Scene[t].addresses) :
                    a.ip = c.ip => a.family = c.family /\ a.scope = c.scope

\* What it takes for nothing to be lost: no two things of a scene look alike to
\* the system that lists them, and none is too much for it.  Every link has a
\* name of its own and is bound an address once; a table that has rows has a
\* size; macOS gives no index twice and ranks ten services; the metrics of
\* Windows add up; the names of Linux do not speak against their links.
Unmistakable(b) ==
    /\ \A j, k \in DOMAIN Names : Names[j] = Names[k] => j = k
    /\ \A s \in b.scenes :
          LET links == Scene[s].links
              addresses == Scene[s].addresses
              routes == Scene[s].routes
          IN  /\ DOMAIN links \subseteq ToSet(Names) \ {<<>>, None}
              /\ \A j, k \in DOMAIN addresses :
                    /\ addresses[j].name = addresses[k].name
                    /\ addresses[j].ip = addresses[k].ip
                    => j = k
              /\ Scene[s].bulk \in Nat /\ (DOMAIN routes # {} => Scene[s].bulk # 0)
              /\ \A k \in DOMAIN routes : routes[k].metric \in Nat
              /\ b.platform = "macos" =>
                    /\ \A n, m \in DOMAIN links : links[n].index = links[m].index => n = m
                    /\ Scene[s].services \in Seq(ToSet(Scene[s].services))
                    /\ MetricPerRank * Cardinality(ToSet(Scene[s].services) \ {None}) <= Unranked
              /\ b.platform = "windows" =>
                    /\ \A n \in DOMAIN links : links[n].metric \in Nat
                    /\ \A k \in DOMAIN routes :
                          routes[k].metric + links[routes[k].name].metric <= MaxMetric
              /\ b.platform = "linux" =>
                    \A n \in DOMAIN links :
                       /\ n = <<"lo">> => links[n].nature = "loopback"
                       /\ links[n].nature = "wired" => ClassifyByName(n, "ethernet") = "ethernet"
                       /\ links[n].nature = "switch" => ~IsContainerName(n) /\ ~IsVirtualName(n)
                       /\ links[n].nature = "modem" => ClassifyByName(n, "other") = "other"

ASSUME ScenesArePlausible == \A s \in DOMAIN Scene : Plausible(Scene[s])

ASSUME BoxesAreSystematic ==
    \A b \in Boxes :
        /\ b.platform \in {"macos", "windows", "linux"}
        /\ b.scenes \subseteq DOMAIN Scene
        /\ Systematic(b)

\* None is no number, no word and no network.
ASSUME NoneIsNoData ==
    /\ None \notin 0..(Embedding - 1) /\ None \notin {"inet", "inet6", "link"}
    /\ None \notin [ip : 0..(Embedding - 1), prefix : Nat]

VARIABLES
    box,        \* the machine, its system and the sources that do not answer
    scene,      \* the scene it is in
    been,       \* the scenes it was in since the snapshot began
    pc,         \* the call a snapshot makes next, "idle" when none is taken
    asked,      \* the family whose routes are next
    left,       \* attempts left for a buffer that was too small
    room,       \* the buffer there is, in bytes
    got,        \* what was gathered so far
    result      \* the last snapshot, Broken if it failed

allvars == <<box, scene, been, pc, asked, left, room, got, result>>

Nothing == [types |-> None, links |-> None, listed |-> None, metrics |-> None,
            adapters |-> None, addresses |-> None, routes |-> <<>>]

Now == Scene[scene]

\* What the dump of each scene and family says, worked out once.
Tables ==
    {[of |-> s, family |-> fam, routes |-> Decoded(RoutingDump(Scene[s], fam), fam) \o <<>>] :
        s \in DOMAIN Scene, fam \in Families}

TableOf(s, fam) == (CHOOSE t \in Tables : t.of = s /\ t.family = fam).routes

\* The calls no snapshot can do without.
Needed == {"links", "addresses", "size", "read", "adapters", "rows", "forward"}

BackendsInit ==
    /\ box \in Boxes
    /\ scene \in box.scenes
    /\ been = {scene}
    /\ pc = "idle" /\ asked = "v4" /\ left = 0 /\ room = 0
    /\ got = Nothing
    /\ result = None

\* The machine: anything may change between two calls, without end.
MoveTo(s) ==
    /\ s \in box.scenes \ {scene}
    /\ scene' = s
    /\ been' = been \cup {s}
    /\ UNCHANGED <<box, pc, asked, left, room, got, result>>

----------------------------------------------------------------------------
\* What every call does to the snapshot that is being taken.

Keep == UNCHANGED <<box, scene>>

Goes(next, gathered) ==
    /\ pc' = next
    /\ got' = gathered
    /\ UNCHANGED <<been, asked, left, room, result>>
    /\ Keep

Ends(outcome) ==
    /\ result' = outcome
    /\ pc' = "idle" /\ asked' = "v4" /\ left' = 0 /\ room' = 0
    /\ got' = Nothing
    /\ UNCHANGED been
    /\ Keep

Answers(call) == pc = call /\ call \notin box.hidden

\* The attempts there are: RESIZE_ATTEMPTS and MAX_ATTEMPTS.
ResizeAttempts == 4
MaxAttempts == 3
InitialBytes == 15000

\* A mistake: a table that grows is asked for again and again.
NeverSpent(attempts) == attempts

Spent(attempts) == attempts - 1

\* The buffer was too small: ask again from `next', or give up.
TooSmall(next, bytes) ==
    IF Spent(left) = 0 THEN Ends(Broken)
    ELSE /\ pc' = next
         /\ left' = Spent(left)
         /\ room' = bytes
         /\ UNCHANGED <<been, asked, got, result>>
         /\ Keep

FirstCall == [macos |-> "types", windows |-> "adapters", linux |-> "links"]

\* NetworkProvider::snapshot is called.
Ask ==
    /\ pc = "idle"
    /\ pc' = FirstCall[box.platform]
    /\ been' = {scene}
    /\ left' = IF box.platform = "windows" THEN MaxAttempts ELSE 0
    /\ room' = IF box.platform = "windows" THEN InitialBytes ELSE 0
    /\ result' = None
    /\ UNCHANGED <<asked, got>>
    /\ Keep

\* A call that fails takes the snapshot with it.
Fails ==
    /\ pc \in Needed \cap box.hidden
    /\ Ends(Broken)

----------------------------------------------------------------------------
\* macOS (macos/mod.rs): types, links, addresses, order, then two dumps.

OnMacos == box.platform = "macos"

InterfaceTypes ==
    /\ pc = "types"
    /\ Goes("links", [got EXCEPT !.types = DarwinTypes(Now, box.hidden)])

Links ==
    /\ OnMacos /\ Answers("links")
    /\ LET links == DarwinLinks(Now)
       IN  Goes("addresses",
                [got EXCEPT !.links = [n \in DOMAIN links |-> LinkFrom(n, links[n], got.types)],
                            !.types = None])

ListAddresses ==
    /\ OnMacos /\ Answers("addresses")
    /\ Goes("flags", [got EXCEPT !.listed = DarwinList(Now)])

\* The flags are asked for after the list was read; what nobody answers, or
\* what is not IPv6, has none.
AskFlags ==
    /\ pc = "flags"
    /\ LET flagged == [k \in DOMAIN got.listed |->
                          IF "flags" \in box.hidden \/ got.listed[k].family = "v4" THEN {}
                          ELSE Flags(Now, got.listed[k])]
       IN  Goes("order", [got EXCEPT !.links = AttachAddresses(@, got.listed, flagged),
                                     !.listed = None])

InOrder(links) ==
    LET known == {k \in DOMAIN Names : Names[k] \in DOMAIN links}
    IN  Picked([k \in known |-> links[Names[k]]], known)

ServiceOrder ==
    /\ pc = "order"
    /\ got' = [got EXCEPT !.metrics =
                  MetricsByIndex(InOrder(got.links),
                                 IF "order" \in box.hidden THEN <<>>
                                 ELSE Ranks(Now.services))]
    /\ pc' = "size" /\ left' = ResizeAttempts
    /\ UNCHANGED <<been, asked, room, result>>
    /\ Keep

\* One family's table was read; the IPv6 dump follows the IPv4 one.
Dumped(table) ==
    LET routes == got.routes \o Scored(table, got.metrics, Unranked)
    IN  IF asked = "v6"
        THEN Ends([interfaces |-> InOrder(got.links), routes |-> routes])
        ELSE /\ got' = [got EXCEPT !.routes = routes]
             /\ asked' = "v6" /\ pc' = "size" /\ left' = ResizeAttempts /\ room' = 0
             /\ UNCHANGED <<been, result>>
             /\ Keep

\* sysctl says how large the table is; none at all needs no second call.
SizeTable ==
    /\ Answers("size")
    /\ LET needed == Bytes(Now, asked)
       IN  IF needed = 0 THEN Dumped(<<>>)
           ELSE /\ pc' = "read" /\ room' = Slack(needed)
                /\ UNCHANGED <<been, asked, left, got, result>>
                /\ Keep

ReadTable ==
    /\ Answers("read")
    /\ IF Bytes(Now, asked) > room THEN TooSmall("size", 0)
       ELSE Dumped(TableOf(scene, asked))

----------------------------------------------------------------------------
\* Windows (windows/mod.rs): adapters, their rows, then the routes.

AdaptersAddresses ==
    /\ Answers("adapters")
    /\ IF DOMAIN Now.links = {} THEN Goes("forward", [got EXCEPT !.adapters = {},
                                                                 !.links = <<>>])
       ELSE IF Now.bulk > room THEN TooSmall("adapters", Now.bulk)
       ELSE Goes("rows", [got EXCEPT !.adapters = WindowsAdapters(Now)])

InterfaceRows ==
    /\ Answers("rows")
    /\ Goes("forward",
            [got EXCEPT !.links = Walk(got.adapters, ByLuid(WindowsRows(Now, box.hidden)), Names)])

ForwardTable ==
    /\ Answers("forward")
    /\ Ends([interfaces |-> got.links,
             routes |-> WinRoutes(WindowsRoutes(Now), LinksByLuid(got.adapters))])

----------------------------------------------------------------------------
\* Linux (linux/netlink.rs): links, addresses, then two dumps of routes.

OnLinux == box.platform = "linux"

DumpLinks ==
    /\ OnLinux /\ Answers("links")
    /\ LET links == LinuxLinks(Now)
           Kind(link) == ClassifyInterface(link.name, link.link_kind, link.loopback,
                                           link.wireless)
       IN  Goes("addresses",
                [got EXCEPT !.links = [i \in DOMAIN links |->
                    [name |-> links[i].name, kind |-> Kind(links[i]),
                     oper |-> links[i].oper, admin |-> links[i].admin]]])

DumpAddresses ==
    /\ OnLinux /\ Answers("addresses")
    /\ Goes("read", [got EXCEPT !.addresses = LinuxAddresses(Now)])

DumpRoutes ==
    /\ OnLinux /\ Answers("read")
    /\ LET routes == got.routes \o LinuxRoutes(Now, asked)
       IN  IF asked = "v6" THEN Ends(Collect(got.links, got.addresses, routes))
           ELSE /\ asked' = "v6"
                /\ got' = [got EXCEPT !.routes = routes]
                /\ UNCHANGED <<been, pc, left, room, result>>
                /\ Keep

----------------------------------------------------------------------------

Proceed ==
    \/ Fails
    \/ InterfaceTypes \/ Links \/ ListAddresses \/ AskFlags \/ ServiceOrder
    \/ SizeTable \/ (OnMacos /\ ReadTable)
    \/ AdaptersAddresses \/ InterfaceRows \/ ForwardTable
    \/ DumpLinks \/ DumpAddresses \/ DumpRoutes

BackendsNext == Ask \/ Proceed \/ \E s \in DOMAIN Scene : MoveTo(s)

\* The backend's calls return; a snapshot need never be asked for, nor the
\* machine ever stand still.
BackendsSpec == BackendsInit /\ [][BackendsNext]_allvars /\ WF_allvars(Proceed)

----------------------------------------------------------------------------
\* What a snapshot has to say.

Ready == pc = "idle" /\ result \notin {None, Broken}

Reported == IF Ready THEN ToSet(result.interfaces) ELSE {}
ReportedRoutes == IF Ready THEN ToSet(result.routes) ELSE {}

\* The kind a link of each nature is, whatever the system; what no system can
\* tell is neither preferred nor penalised.
KindOf ==
    [loopback |-> "loopback", wired |-> "ethernet", wifi |-> "wireless",
     bond |-> "ethernet", tunnel |-> "vpn", ppp |-> "vpn", modem |-> "other",
     switch |-> IF box.platform = "windows" THEN "other" ELSE "bridge"]

\* Without SystemConfiguration a radio looks wired, as any modem does that was
\* not named; without the hardware bit a switch does.
MayLook(nature) ==
    {KindOf[nature]}
      \cup (IF nature = "wifi" /\ "types" \in box.hidden THEN {"ethernet"} ELSE {})
      \cup (IF nature = "switch" /\ "hardware" \in box.hidden THEN {"ethernet"} ELSE {})

IndexIn(s, name) == AdapterIndex(Scene[s].links[name].index, Scene[s].links[name].index6)

StateOf == [up |-> "up", down |-> "down", quiet |-> "unknown"]

LinkHeld(s, i) ==
    /\ i.name \in DOMAIN Scene[s].links
    /\ i.index = IndexIn(s, i.name)
    /\ i.state = StateOf[Scene[s].links[i.name].oper]

Says(a, b) == a.ip = b.ip /\ a.family = b.family /\ a.scope = b.scope

\* The kernel of t knows the address by what it was called in s.
StillListed(t, s, name, a) ==
    \E b \in ToSet(Scene[t].addresses) :
        /\ b.name = name /\ Says(a, b)
        /\ Embedded(Scene[t], name, b.ip) = Embedded(Scene[s], name, b.ip)

\* An address another host has is reported only if nobody could tell.
AddressHeld(s, name, a) ==
    \E b \in ToSet(Scene[s].addresses) :
        /\ b.name = name /\ Says(a, b)
        /\ a.temporary => b.temporary
        /\ \/ ~b.duplicate
           \/ /\ OnMacos
              /\ "flags" \in box.hidden \/ \E t \in been : ~StillListed(t, s, name, a)

\* A row of an adapter the walk had not seen, or left out for want of a name,
\* keeps the index of its family.
OwnIndex(s, q) ==
    IF /\ box.platform = "windows"
       /\ \E t \in been : \A n \in DOMAIN Scene[t].links \ {<<>>} :
             Scene[t].links[n].luid # Scene[s].links[q.name].luid
    THEN {IndexIn(s, q.name), Scene[s].links[q.name].index6}
    ELSE {IndexIn(s, q.name)}

RouteHeld(s, r) ==
    \E q \in ToSet(Scene[s].routes) :
        /\ q.kind \in {"route", "host"}
        /\ r.family = q.family /\ r.gateway = q.gateway
        /\ r.index \in OwnIndex(s, q)
        /\ r.default <=> (q.destination = 0 /\ q.prefix = 0)

(***************************************************************************)
(* rtparse.rs:4, ifaddrs.rs:355: a snapshot may be of no single moment,    *)
(* but everything in it was so at some moment while it was taken: no       *)
(* address, gateway or default route that the machine never had, no index  *)
(* that is no link's.  An interface only the address list knew is said to  *)
(* be unknown.                                                             *)
(***************************************************************************)
NothingInvented ==
    /\ \A i \in Reported :
          \/ \E s \in been : LinkHeld(s, i)
          \/ /\ OnMacos /\ i.state = "unknown" /\ i.kind = "other"
             /\ \E s \in been : i.name \notin DOMAIN Scene[s].links
    /\ \A i \in Reported : \A a \in ToSet(i.addresses) :
          \E s \in been : AddressHeld(s, i.name, a)
    /\ \A r \in ReportedRoutes : \E s \in been : RouteHeld(s, r)

----------------------------------------------------------------------------
\* What held in every scene of the snapshot.

Lasting(name) ==
    \A s, t \in been : /\ name \in DOMAIN Scene[s].links
                      /\ name \in DOMAIN Scene[t].links
                      /\ Scene[s].links[name] = Scene[t].links[name]

LastingLinks == {n \in DOMAIN Now.links : Lasting(n)}

LastingAddresses(name) ==
    {a \in ToSet(Now.addresses) : /\ a.name = name /\ ~a.duplicate
                                  /\ \A s \in been : a \in ToSet(Scene[s].addresses)}

LastingRoutes ==
    {r \in ToSet(Now.routes) : /\ r.kind \in {"route", "host"} /\ Lasting(r.name)
                               /\ \A s \in been : r \in ToSet(Scene[s].routes)}

LinksKept ==
    \A n \in LastingLinks : \E i \in Reported :
        /\ i.name = n /\ LinkHeld(scene, i) /\ i.kind \in MayLook(Now.links[n].nature)

AddressesKept ==
    \A i \in Reported : i.name \in LastingLinks =>
        \A a \in LastingAddresses(i.name) : \E b \in ToSet(i.addresses) :
            /\ Says(a, b)
            /\ a.temporary = b.temporary \/ (OnMacos /\ "flags" \in box.hidden)

RoutesKept ==
    \A r \in LastingRoutes : \E q \in ReportedRoutes :
        /\ q.family = r.family /\ q.gateway = r.gateway
        /\ q.index = IndexIn(scene, r.name)
        /\ q.default <=> (r.destination = 0 /\ r.prefix = 0)

\* What the system itself ranks a default route by.
Cost(r) ==
    CASE box.platform = "linux" -> r.metric
      [] box.platform = "windows" -> r.metric + Now.links[r.name].metric
      [] OTHER -> Min({k \in 1..(Len(Now.services) + 1) :
                          k > Len(Now.services) \/ Now.services[k] = r.name})

Defaults(fam) ==
    {r \in ToSet(Now.routes) : /\ r.kind = "route" /\ r.family = fam
                               /\ r.destination = 0 /\ r.prefix = 0}

Favourites(fam) == {r \in Defaults(fam) : \A q \in Defaults(fam) : Cost(r) <= Cost(q)}

FavouriteKept ==
    \A fam \in Families :
        Defaults(fam) # {} =>
            \E r \in Favourites(fam) :
                DefaultRouteFor(result, fam).index = IndexIn(scene, r.name)

(***************************************************************************)
(* Whatever was so all the time a snapshot was taken is in it: each link   *)
(* once, with its kind (linktype.rs:161: the same on every system), each   *)
(* usable address and each route, on the interface it belongs to.  Of a    *)
(* machine that stands still there is a snapshot, and the default route    *)
(* the system prefers (servicerank.rs:52, winroute.rs:68) is the one       *)
(* default_route_for finds.                                                *)
(***************************************************************************)
NothingLost ==
    /\ Ready => /\ Cardinality({i.name : i \in Reported}) = Len(result.interfaces)
                /\ LinksKept /\ AddressesKept /\ RoutesKept
    /\ (been = {scene} /\ pc = "idle" /\ box.hidden \cap Needed = {}) => result # Broken
    /\ (Ready /\ been = {scene} /\ "order" \notin box.hidden) => FavouriteKept

(***************************************************************************)
(* route.rs:32, adapters.rs:46: a snapshot ends, although the machine may  *)
(* change between any two calls and its tables grow each time they are     *)
(* asked for.                                                              *)
(***************************************************************************)
SnapshotEnds == (pc # "idle") ~> (pc = "idle")

============================================================================
