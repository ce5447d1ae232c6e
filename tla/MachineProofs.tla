--------------------------- MODULE MachineProofs ---------------------------
(***************************************************************************)
(* What holds of the selector and of the gate on every machine: for any    *)
(* number of links, addresses and routes, in any order, with any metrics,  *)
(* and under every configuration.  The tables of weights are the code's,   *)
(* so that they keep the documented order is a fact about these fifteen    *)
(* numbers.  That the order of enumeration decides nothing is shown of any *)
(* two snapshots with the same contents, and then of the snapshots the     *)
(* Linux backend collects from one state of the machine.  The last two     *)
(* theorems are about a change no event reports: between any two snapshots *)
(* with one default route, and over every step of a machine with one       *)
(* uplink for each family.                                                 *)
(*                                                                         *)
(* The second half is about the snapshots themselves, of Backends: on each *)
(* of the three systems, whatever the machine does between two calls,      *)
(* nothing is reported that was never so.  It begins with what is read in  *)
(* a routing dump, goes on with the invariant, and then takes the calls of *)
(* the three systems one by one.  The last part is that nothing that lasts *)
(* is lost: first what a snapshot is made of, call by call, and that one   *)
(* that is taken of a machine at rest is never given up; then, for each    *)
(* system, that the links, the addresses, the routes and the route it      *)
(* prefers come through.                                                   *)
(***************************************************************************)
EXTENDS Machine, Backends, SelectProofs, SequenceTheorems

----------------------------------------------------------------------------
\* The parts that can decide, with the rest of either score at its extremes.
Ahead(rc, kc, nc, rb, kb, nb) ==
    \E low \in -320..125, high \in -320..125 : rc + kc + nc + low <= rb + kb + nb + high

\* Two candidates in the running, by what their scores consist of.
LEMMA Compared ==
  ASSUME NEW s, NEW config, NEW c, NEW b,
         InTheRunning(s, config, c), InTheRunning(s, config, b), c.score <= b.score
  PROVE  Ahead(RouteDelta(s, c.interface.index, c.address.family),
               KindDelta(config, c.interface.kind), Favoured(config, c.interface.name),
               RouteDelta(s, b.interface.index, b.address.family),
               KindDelta(config, b.interface.kind), Favoured(config, b.interface.name))
<1> DEFINE ic == c.interface.index
           ib == b.interface.index
           fc == c.address.family
           fb == b.address.family
           jc == c.interface.kind
           jb == b.interface.kind
           rc == RouteDelta(s, ic, fc)
           rb == RouteDelta(s, ib, fb)
           kc == KindDelta(config, jc)
           kb == KindDelta(config, jb)
           mc == Matched(config, c.address.family)
           mb == Matched(config, b.address.family)
           nc == Favoured(config, c.interface.name)
           nb == Favoured(config, b.interface.name)
<1>1. PICK low \in -320..125 : c.score = rc + kc + mc + nc + low
  BY ZenonT(30) DEF InTheRunning, SumsTo
<1>2. PICK high \in -320..125 : b.score = rb + kb + mb + nb + high
  BY Zenon DEF InTheRunning, SumsTo
<1>3. mc = mb
  BY FamilyCancels DEF InTheRunning
<1>4. mc \in Int /\ nc \in Int /\ nb \in Int
  BY DEF Matched, Favoured, FAMILY_MATCH, PREFERRED_INTERFACE
<1>5. rc \in Int /\ rb \in Int
  <2> HIDE DEF ic, ib, fc, fb, jc, jb
  <2>1. rc \in 0..1000
    BY RouteRange
  <2>2. rb \in 0..1000
    BY RouteRange
  <2> HIDE DEF rc, rb
  <2> QED BY <2>1, <2>2
<1>6. kc \in Int /\ kb \in Int
  <2> HIDE DEF ic, ib, fc, fb, jc, jb
  <2>1. kc \in -800..250
    BY KindRange
  <2>2. kb \in -800..250
    BY KindRange
  <2> HIDE DEF kc, kb
  <2> QED BY <2>1, <2>2
<1> HIDE DEF rc, rb, kc, kb, mc, mb, nc, nb
<1>7. rc + kc + nc + low <= rb + kb + nb + high
  BY <1>1, <1>2, <1>3, <1>4, <1>5, <1>6
<1>8. Ahead(rc, kc, nc, rb, kb, nb)
  BY <1>7, ZenonT(30) DEF Ahead
<1> QED BY <1>8 DEF rc, rb, kc, kb, nc, nb

\* An ordinary link with a route of its own, no link preferred: at least 830
\* points, against 775 without a route and 825 for a tunnel that has one.
LEMMA RouteDecides ==
  ASSUME NEW s, WellFormed(s), NEW config, config.prefer = {}, OrdinaryRoute(s, config)
  PROVE  LET w == Selected(s, config)
         IN  /\ HasDefaultRoute(s, w.index, w.family)
             /\ ~config.allow_vpn => w.kind # "vpn"
<1>1. PICK c \in Running(s, config) :
            c.interface.kind \in Ordinary
            /\ HasDefaultRoute(s, c.interface.index, c.address.family)
  BY DEF OrdinaryRoute
<1>2. PICK b : /\ InTheRunning(s, config, c) /\ InTheRunning(s, config, b) /\ c.score <= b.score
               /\ Selected(s, config).index = b.interface.index
               /\ Selected(s, config).family = b.address.family
               /\ Selected(s, config).kind = b.interface.kind
  BY WinnerIsBest
<1> DEFINE ic == c.interface.index
           ib == b.interface.index
           fc == c.address.family
           fb == b.address.family
           jc == c.interface.kind
           jb == b.interface.kind
           rc == RouteDelta(s, ic, fc)
           rb == RouteDelta(s, ib, fb)
           kc == KindDelta(config, jc)
           kb == KindDelta(config, jb)
           nc == Favoured(config, c.interface.name)
           nb == Favoured(config, b.interface.name)
<1>3. PICK low \in -320..125, high \in -320..125 : rc + kc + nc + low <= rb + kb + nb + high
  <2>1. Ahead(rc, kc, nc, rb, kb, nb)
    BY <1>2, Compared
  <2> HIDE DEF rc, rb, kc, kb, nc, nb
  <2> QED BY <2>1, Zenon DEF Ahead
<1>4. nc = 0 /\ nb = 0
  BY DEF Favoured
<1>5. rc = 1000
  <2>1. HasDefaultRoute(s, ic, fc)
    BY <1>1
  <2> HIDE DEF ic, ib, fc, fb, jc, jb
  <2> QED BY <2>1, RouteRange
<1>6. kc \in 150..250
  <2>1. jc \in Ordinary
    BY <1>1
  <2> HIDE DEF ic, ib, fc, fb, jc, jb
  <2>2. kc \in -800..250 /\ kc >= 150
    BY <2>1, KindRange
  <2> HIDE DEF kc
  <2> QED BY <2>2
<1>7. rb \in 0..1000 /\ kb \in -800..250
  <2> HIDE DEF ic, ib, fc, fb, jc, jb
  <2>1. rb \in 0..1000
    BY RouteRange
  <2>2. kb \in -800..250
    BY KindRange
  <2> HIDE DEF rb, kb
  <2> QED BY <2>1, <2>2
<1>8. HasDefaultRoute(s, ib, fb)
  <2> HIDE DEF ic, ib, fc, fb, jc, jb
  <2>1. SUFFICES ASSUME ~HasDefaultRoute(s, ib, fb) PROVE FALSE
    OBVIOUS
  <2>2. rb <= 400
    BY <2>1, RouteRange
  <2> HIDE DEF rc, rb, kc, kb, nc, nb
  <2> QED BY <1>3, <1>4, <1>5, <1>6, <1>7, <2>2
<1>9. ASSUME ~config.allow_vpn, jb = "vpn" PROVE FALSE
  <2> HIDE DEF ic, ib, fc, fb, jc, jb
  <2>1. kb = -300
    BY <1>9, KindRange
  <2> HIDE DEF rc, rb, kc, kb, nc, nb
  <2> QED BY <1>3, <1>4, <1>5, <1>6, <1>7, <2>1
<1> QED BY <1>2, <1>8, <1>9

\* A preferred link that is no container or virtual one: at least 1380 points,
\* against 1375 for one that nobody named.
LEMMA PreferenceDecides ==
  ASSUME NEW s, WellFormed(s), NEW config, NEW c \in Running(s, config),
         c.interface.name \in config.prefer, ~IsSynthetic(c.interface.kind)
  PROVE  Selected(s, config).interface \in config.prefer
<1>1. PICK b : /\ InTheRunning(s, config, c) /\ InTheRunning(s, config, b) /\ c.score <= b.score
               /\ Selected(s, config).interface = b.interface.name
  BY WinnerIsBest
<1> DEFINE ic == c.interface.index
           ib == b.interface.index
           fc == c.address.family
           fb == b.address.family
           jc == c.interface.kind
           jb == b.interface.kind
           rc == RouteDelta(s, ic, fc)
           rb == RouteDelta(s, ib, fb)
           kc == KindDelta(config, jc)
           kb == KindDelta(config, jb)
           nc == Favoured(config, c.interface.name)
           nb == Favoured(config, b.interface.name)
<1>2. PICK low \in -320..125, high \in -320..125 : rc + kc + nc + low <= rb + kb + nb + high
  <2>1. Ahead(rc, kc, nc, rb, kb, nb)
    BY <1>1, Compared
  <2> HIDE DEF rc, rb, kc, kb, nc, nb
  <2> QED BY <2>1, Zenon DEF Ahead
<1>3. nc = 2000
  BY DEF Favoured, PREFERRED_INTERFACE
<1>4. rc \in 0..1000 /\ rb \in 0..1000
  <2> HIDE DEF ic, ib, fc, fb, jc, jb
  <2>1. rc \in 0..1000
    BY RouteRange
  <2>2. rb \in 0..1000
    BY RouteRange
  <2> HIDE DEF rc, rb
  <2> QED BY <2>1, <2>2
<1>5. kc \in -300..250 /\ kb \in -800..250
  <2>1. ~IsSynthetic(jc)
    OBVIOUS
  <2> HIDE DEF ic, ib, fc, fb, jc, jb
  <2>2. kc \in -800..250 /\ kc >= -300
    BY <2>1, KindRange
  <2>3. kb \in -800..250
    BY KindRange
  <2> HIDE DEF kc, kb
  <2> QED BY <2>2, <2>3
<1>6. b.interface.name \in config.prefer
  <2>1. SUFFICES ASSUME b.interface.name \notin config.prefer PROVE FALSE
    OBVIOUS
  <2>2. nb = 0
    BY <2>1 DEF Favoured
  <2> HIDE DEF rc, rb, kc, kb, nc, nb
  <2>3. rc + kc + nc + low >= 1380
    BY <1>3, <1>4, <1>5
  <2>4. rb + kb + nb + high <= 1375
    BY <1>4, <1>5, <2>2
  <2>5. rc + kc + nc + low \in Int /\ rb + kb + nb + high \in Int
    BY <1>3, <1>4, <1>5, <2>2
  <2> QED BY <1>2, <2>3, <2>4, <2>5
<1> QED BY <1>1, <1>6

LEMMA WeightsOnSnapshot == WellFormed(Snapshot) => WeightsKeepOrder
<1> SUFFICES ASSUME WellFormed(Snapshot) PROVE WeightsKeepOrder
  OBVIOUS
<1>1. RoutedLinkWins(Snapshot, setting, Winner)
  BY RouteDecides DEF RoutedLinkWins, Winner
<1>2. VpnYields(Snapshot, setting, Winner)
  BY RouteDecides DEF VpnYields, Winner
<1>3. PreferredLinkWins(Snapshot, setting, Winner)
  BY PreferenceDecides DEF PreferredLinkWins, Winner
<1> QED BY <1>1, <1>2, <1>3 DEF WeightsKeepOrder

----------------------------------------------------------------------------
(***************************************************************************)
(* The order of enumeration.                                               *)
(***************************************************************************)
AddressSet(link) == {link.addresses[a] : a \in DOMAIN link.addresses}

SameLink(l, m) ==
    /\ l.name = m.name /\ l.index = m.index /\ l.kind = m.kind /\ l.state = m.state
    /\ AddressSet(l) = AddressSet(m)

HasAddress(link) == DOMAIN link.addresses # {}

DefaultsOf(s) == {s.routes[k] : k \in DefaultRoutes(s)}

\* Two snapshots with the same default routes and the same links that have
\* addresses, in whatever order: two enumerations of one machine, for one.
Equivalent(s, t) ==
    /\ \A i \in DOMAIN s.interfaces : HasAddress(s.interfaces[i]) =>
          \E j \in DOMAIN t.interfaces : SameLink(s.interfaces[i], t.interfaces[j])
    /\ \A j \in DOMAIN t.interfaces : HasAddress(t.interfaces[j]) =>
          \E i \in DOMAIN s.interfaces : SameLink(s.interfaces[i], t.interfaces[j])
    /\ DefaultsOf(s) = DefaultsOf(t)

\* An index is one link's and an address is bound to it once.
Keyed(s) ==
    /\ \A i, j \in DOMAIN s.interfaces :
          s.interfaces[i].index = s.interfaces[j].index
              => SameLink(s.interfaces[i], s.interfaces[j])
    /\ \A i \in DOMAIN s.interfaces :
          \A a, b \in AddressSet(s.interfaces[i]) : a.ip = b.ip => a = b

\* No two default routes of one link and family cost the same.
Untied(s) ==
    \A j, k \in DefaultRoutes(s) :
        (/\ s.routes[j].index = s.routes[k].index
         /\ s.routes[j].family = s.routes[k].family
         /\ s.routes[j].metric = s.routes[k].metric) => s.routes[j] = s.routes[k]

LEMMA EquivalentBack == ASSUME NEW s, NEW t, Equivalent(s, t) PROVE Equivalent(t, s)
  BY DEF Equivalent, SameLink

LEMMA UntiedToo ==
  ASSUME NEW s, NEW t, Equivalent(s, t), Untied(s) PROVE Untied(t)
<1>1. \A k \in DefaultRoutes(t) : \E l \in DefaultRoutes(s) : s.routes[l] = t.routes[k]
  BY DEF Equivalent, DefaultsOf
<1> QED BY <1>1 DEF Untied

LEMMA SameRoutes ==
  ASSUME NEW s, NEW t, Equivalent(s, t), NEW index, NEW family
  PROVE  /\ \A k \in DefaultRoutesVia(s, index, family) :
               \E l \in DefaultRoutesVia(t, index, family) : t.routes[l] = s.routes[k]
         /\ HasDefaultRoute(s, index, family) => HasDefaultRoute(t, index, family)
         /\ HasAnyDefaultRoute(s, index) => HasAnyDefaultRoute(t, index)
<1>2. \A k \in DefaultRoutes(s) : \E l \in DefaultRoutes(t) : t.routes[l] = s.routes[k]
  BY DEF Equivalent, DefaultsOf
<1>3. \A k \in DefaultRoutesVia(s, index, family) :
         \E l \in DefaultRoutesVia(t, index, family) : t.routes[l] = s.routes[k]
  BY <1>2 DEF DefaultRoutesVia
<1>4. HasDefaultRoute(s, index, family) => HasDefaultRoute(t, index, family)
  BY <1>3 DEF HasDefaultRoute
<1>5. HasAnyDefaultRoute(s, index) => HasAnyDefaultRoute(t, index)
  BY <1>2 DEF HasAnyDefaultRoute
<1> QED BY <1>3, <1>4, <1>5

LEMMA CheapestOfSome ==
  ASSUME NEW s, WellFormed(s), NEW index, NEW family, DefaultRoutesVia(s, index, family) # {}
  PROVE  \E k \in DefaultRoutesVia(s, index, family) :
            /\ CheapestRoute(s, index, family) = s.routes[k]
            /\ \A o \in DefaultRoutesVia(s, index, family) :
                  s.routes[k].metric <= s.routes[o].metric
<1> DEFINE at == DefaultRoutesVia(s, index, family)
           least == {k \in at : \A other \in at : ~(s.routes[other].metric < s.routes[k].metric)}
           cost == [k \in at |-> s.routes[k].metric]
<1>1. at \subseteq Nat /\ \A k \in at : s.routes[k].metric \in Nat
  BY DEF WellFormed, DefaultRoutesVia, DefaultRoutes
<1>2. cost \in [at -> Nat]
  BY <1>1
<1>3. PICK p \in at : \A q \in at : cost[p] <= cost[q]
  <2> HIDE DEF cost, at
  <2>1. at # {}
    BY DEF at
  <2> QED BY <1>2, <2>1, LeastKey
<1>4. p \in least
  BY <1>1, <1>3
<1>5. Min(least) \in least
  BY <1>1, <1>4, MinIsLeast
<1>6. CheapestRoute(s, index, family) = s.routes[Min(least)]
  BY <1>4 DEF CheapestRoute, FirstLeast
<1>7. PICK m \in least : m = Min(least)
  BY <1>5
<1>8. ASSUME NEW o \in at PROVE s.routes[m].metric <= s.routes[o].metric
  <2>1. ~(s.routes[o].metric < s.routes[m].metric) /\ m \in at
    OBVIOUS
  <2>2. s.routes[o].metric \in Nat /\ s.routes[m].metric \in Nat
    BY <1>1, <2>1
  <2> QED BY <2>1, <2>2
<1> QED BY <1>6, <1>7, <1>8

LEMMA SameCheapest ==
  ASSUME NEW s, NEW t, WellFormed(s), WellFormed(t), Equivalent(s, t), Untied(s),
         NEW index, NEW family
  PROVE  CheapestRoute(s, index, family) = CheapestRoute(t, index, family)
<1> DEFINE S == DefaultRoutesVia(s, index, family)
           T == DefaultRoutesVia(t, index, family)
<1>1. /\ \A k \in S : \E l \in T : t.routes[l] = s.routes[k]
      /\ \A l \in T : \E k \in S : s.routes[k] = t.routes[l]
  BY EquivalentBack, SameRoutes
<1>2. CASE S = {}
  <2>1. T = {}
    BY <1>1, <1>2
  <2> QED BY <1>2, <2>1 DEF CheapestRoute, FirstLeast
<1>3. CASE S # {}
  <2>1. T # {}
    BY <1>1, <1>3
  <2>2. PICK k \in S : /\ CheapestRoute(s, index, family) = s.routes[k]
                       /\ \A o \in S : s.routes[k].metric <= s.routes[o].metric
    BY <1>3, CheapestOfSome
  <2>3. PICK l \in T : /\ CheapestRoute(t, index, family) = t.routes[l]
                       /\ \A o \in T : t.routes[l].metric <= t.routes[o].metric
    BY <2>1, CheapestOfSome
  <2>4. PICK k2 \in S : s.routes[k2] = t.routes[l]
    BY <1>1
  <2>5. PICK l2 \in T : t.routes[l2] = s.routes[k]
    BY <1>1
  <2>6. s.routes[k].metric \in Nat /\ s.routes[k2].metric \in Nat
    BY DEF WellFormed, DefaultRoutesVia, DefaultRoutes
  <2>7. s.routes[k].metric = s.routes[k2].metric
    BY <2>2, <2>3, <2>4, <2>5, <2>6
  <2>8. s.routes[k] = s.routes[k2]
    BY <2>7 DEF Untied, DefaultRoutesVia
  <2> QED BY <2>2, <2>3, <2>4, <2>8
<1> QED BY <1>2, <1>3

\* One link and address have one verdict and one score in both.
LEMMA SameVerdict ==
  ASSUME NEW s, NEW t, WellFormed(s), WellFormed(t), Equivalent(s, t), Untied(s),
         NEW config, NEW l, NEW m, SameLink(l, m), NEW address
  PROVE  /\ Evaluate(s, config, l, address).disqualified
                = Evaluate(t, config, m, address).disqualified
         /\ Evaluate(s, config, l, address).score = Evaluate(t, config, m, address).score
<1>1. /\ HasAnyDefaultRoute(s, l.index) = HasAnyDefaultRoute(t, m.index)
      /\ HasDefaultRoute(s, l.index, address.family) = HasDefaultRoute(t, m.index, address.family)
  <2>1. l.index = m.index
    BY DEF SameLink
  <2>2. /\ HasAnyDefaultRoute(s, l.index) \in BOOLEAN /\ HasAnyDefaultRoute(t, l.index) \in BOOLEAN
        /\ HasDefaultRoute(s, l.index, address.family) \in BOOLEAN
        /\ HasDefaultRoute(t, l.index, address.family) \in BOOLEAN
    BY DEF HasAnyDefaultRoute, HasDefaultRoute
  <2> QED BY <2>1, <2>2, EquivalentBack, SameRoutes
<1>2. CheapestRoute(s, l.index, address.family) = CheapestRoute(t, m.index, address.family)
  BY SameCheapest DEF SameLink
<1>3. Filters(s, config, l, address) = Filters(t, config, m, address)
  BY <1>1 DEF Filters, SameLink
<1>4. Disqualify(s, config, l, address) = Disqualify(t, config, m, address)
  BY <1>3 DEF Disqualify
<1>5. RouteDelta(s, l.index, address.family) = RouteDelta(t, m.index, address.family)
  BY <1>1 DEF RouteDelta
<1>6. /\ DefaultRouteMetric(s, l.index, address.family) = DefaultRouteMetric(t, m.index, address.family)
      /\ GatewayFor(s, l.index, address.family) = GatewayFor(t, m.index, address.family)
  BY <1>2 DEF DefaultRouteMetric, GatewayFor
<1>7. Score(s, config, l, address) = Score(t, config, m, address)
  BY <1>5, <1>6 DEF Score, SameLink
<1> QED BY <1>4, <1>7 DEF Evaluate

\* A candidate of one enumeration is one of the other, somewhere else.
LEMMA MirrorAt ==
  ASSUME NEW s, NEW t, WellFormed(s), WellFormed(t), Equivalent(s, t), Untied(s),
         NEW config, NEW p \in DOMAIN Candidates(s, config)
  PROVE  \E q \in DOMAIN Candidates(t, config) :
            LET c == Candidates(s, config)[p]
                d == Candidates(t, config)[q]
            IN  Alike(c, d) /\ SameLink(c.interface, d.interface) /\ d.address = c.address
<1> DEFINE all == Candidates(s, config)
           other == Candidates(t, config)
           l == s.interfaces[p[1]]
           address == l.addresses[p[2]]
<1>1. Pair(s, p) /\ all[p] = Evaluate(s, config, l, address)
  BY CandidateAt
<1>2. PICK j \in DOMAIN t.interfaces : SameLink(l, t.interfaces[j])
  BY <1>1 DEF Equivalent, Pair, HasAddress
<1> DEFINE m == t.interfaces[j]
<1>3. address \in AddressSet(l)
  BY <1>1 DEF AddressSet, Pair
<1>4. PICK b \in DOMAIN m.addresses : m.addresses[b] = address
  BY <1>2, <1>3 DEF SameLink, AddressSet
<1> DEFINE q == <<j, b>>
           d == Evaluate(t, config, m, address)
<1>5. q \in DOMAIN other /\ other[q] = d
  BY <1>4 DEF Candidates
<1>6. all[p].disqualified = d.disqualified /\ all[p].score = d.score
  <2>1. SameLink(l, m)
    BY <1>2
  <2> HIDE DEF all, other, l, address, m
  <2>2. /\ d.disqualified = Evaluate(s, config, l, address).disqualified
        /\ d.score = Evaluate(s, config, l, address).score
    BY <2>1, SameVerdict
  <2> HIDE DEF d
  <2> QED BY <1>1, <2>2
<1>7. /\ all[p].interface = l /\ all[p].address = address
      /\ d.interface = m /\ d.address = address
  BY <1>1 DEF Evaluate
<1>8. Alike(all[p], d) /\ SameLink(all[p].interface, d.interface) /\ d.address = all[p].address
  BY <1>2, <1>6, <1>7 DEF Alike, SameLink
<1> QED BY <1>5, <1>8

\* What runs in one enumeration runs in the other, with the same score.
LEMMA MirrorOf ==
  ASSUME NEW s, NEW t, WellFormed(s), WellFormed(t), Equivalent(s, t), Untied(s),
         NEW config, NEW c \in Running(s, config)
  PROVE  \E d \in Running(t, config) :
            SameLink(c.interface, d.interface) /\ d.address = c.address /\ d.score = c.score
<1> DEFINE all == Candidates(s, config)
           other == Candidates(t, config)
<1>1. PICK p \in DOMAIN all : c = all[p] /\ all[p].disqualified = None
  BY DEF Running, Eligible
<1>2. PICK q \in DOMAIN other :
          /\ Alike(all[p], other[q]) /\ SameLink(all[p].interface, other[q].interface)
          /\ other[q].address = all[p].address
  BY MirrorAt
<1>3. other[q] \in Running(t, config)
  BY <1>1, <1>2 DEF Alike, Running, Eligible
<1> QED BY <1>1, <1>2, <1>3 DEF Alike

\* A candidate's link and address are the machine's.
LEMMA RunningOn ==
  ASSUME NEW s, WellFormed(s), NEW config, NEW c \in Running(s, config)
  PROVE  \E i \in DOMAIN s.interfaces :
            c.interface = s.interfaces[i] /\ c.address \in AddressSet(s.interfaces[i])
<1> DEFINE all == Candidates(s, config)
<1>1. PICK p \in DOMAIN all : c = all[p]
  BY DEF Running, Eligible
<1>2. Pair(s, p) /\ all[p] = Evaluate(s, config, s.interfaces[p[1]], s.interfaces[p[1]].addresses[p[2]])
  BY CandidateAt
<1>3. c.interface = s.interfaces[p[1]] /\ c.address = s.interfaces[p[1]].addresses[p[2]]
  BY <1>1, <1>2 DEF Evaluate
<1> QED BY <1>2, <1>3 DEF Pair, AddressSet

\* Of two candidates neither of which beats the other, the keys are the same.
LEMMA NeitherBeats ==
  ASSUME NEW s, NEW config, NEW c, NEW d, InTheRunning(s, config, c), InTheRunning(s, config, d),
         ~Beats(c, d), ~Beats(d, c)
  PROVE  /\ c.score = d.score /\ c.interface.index = d.interface.index
         /\ c.address.ip = d.address.ip
<1>1. c.score \in Int /\ d.score \in Int
  BY ScoreBounded
<1>2. /\ c.interface.index \in Nat /\ d.interface.index \in Nat
      /\ c.address.ip \in Nat /\ d.address.ip \in Nat
  BY DEF InTheRunning
<1> QED BY <1>1, <1>2 DEF Beats

(***************************************************************************)
(* README.md:726, "The answer never depends on the order the kernel        *)
(* happened to enumerate things": the whole selection is the same whatever *)
(* the order of links, addresses and routes, on every machine on which no  *)
(* two default routes of one link and family cost the same.  Links without *)
(* an address and routes that are no default decide nothing either.        *)
(***************************************************************************)
THEOREM OrderForgotten ==
  ASSUME NEW s, NEW t, WellFormed(s), WellFormed(t), Equivalent(s, t),
         Keyed(s), Untied(s), NEW config
  PROVE  Selected(s, config) = Selected(t, config)
<1>1. Equivalent(t, s) /\ Untied(t)
  BY EquivalentBack, UntiedToo
<1>2. CASE Running(s, config) = {}
  <2>1. Running(t, config) = {}
    <3>1. \A d \in Running(t, config) : \E c \in Running(s, config) : TRUE
      BY <1>1, MirrorOf
    <3> QED BY <1>2, <3>1
  <2>2. Eligible(Candidates(s, config)) = {} /\ Eligible(Candidates(t, config)) = {}
    BY <1>2, <2>1 DEF Running
  <2> QED BY <2>2 DEF Selected
<1>3. CASE Running(s, config) # {}
  <2> DEFINE c == Foremost(s, config)
             d == Foremost(t, config)
  <2>1. c \in Running(s, config)
    BY <1>3, ChosenFirst
  <2>2. PICK c2 \in Running(t, config) :
            SameLink(c.interface, c2.interface) /\ c2.address = c.address /\ c2.score = c.score
    BY <2>1, MirrorOf
  <2>3. d \in Running(t, config) /\ InTheRunning(t, config, d) /\ ~Beats(c2, d)
        /\ InTheRunning(t, config, c2)
    BY ChosenFirst
  <2>4. PICK d2 \in Running(s, config) :
            SameLink(d.interface, d2.interface) /\ d2.address = d.address /\ d2.score = d.score
    BY <1>1, <2>3, MirrorOf
  <2>5. ~Beats(d2, c)
    BY ChosenFirst
  <2>6. ~Beats(d, c2)
    BY <2>2, <2>4, <2>5 DEF Beats, SameLink
  <2>7. c2.score = d.score /\ c2.interface.index = d.interface.index /\ c2.address.ip = d.address.ip
    BY <2>3, <2>6, NeitherBeats
  <2>8. c.score = d2.score /\ c.interface.index = d2.interface.index /\ c.address.ip = d2.address.ip
    BY <2>2, <2>4, <2>7 DEF SameLink
  <2>9. PICK i \in DOMAIN s.interfaces :
            c.interface = s.interfaces[i] /\ c.address \in AddressSet(s.interfaces[i])
    BY <2>1, RunningOn
  <2>10. PICK j \in DOMAIN s.interfaces :
            d2.interface = s.interfaces[j] /\ d2.address \in AddressSet(s.interfaces[j])
    BY RunningOn
  <2>11. SameLink(c.interface, d2.interface)
    BY <2>8, <2>9, <2>10 DEF Keyed
  <2>12. c.address = d2.address
    BY <2>8, <2>9, <2>10, <2>11 DEF Keyed, SameLink
  <2>13. /\ c.address = d.address /\ c.score = d.score /\ c.interface.name = d.interface.name
         /\ c.interface.index = d.interface.index /\ c.interface.kind = d.interface.kind
    BY <2>4, <2>8, <2>11, <2>12 DEF SameLink
  <2>14. GatewayFor(s, c.interface.index, c.address.family)
            = GatewayFor(t, d.interface.index, d.address.family)
    BY <2>13, SameCheapest DEF GatewayFor
  <2>15. Eligible(Candidates(s, config)) # {} /\ Eligible(Candidates(t, config)) # {}
    BY <2>1, <2>3 DEF Running
  <2> QED BY <2>13, <2>14, <2>15 DEF Selected, Foremost
<1> QED BY <1>2, <1>3

----------------------------------------------------------------------------
(***************************************************************************)
(* A collected snapshot: what was dumped, each row once.                   *)
(***************************************************************************)
\* A dump of a table has each of its rows once, in some order.
Dumps(list, rows) ==
    /\ \E n \in Nat : DOMAIN list = 1..n
    /\ \A k \in DOMAIN list : list[k] \in rows
    /\ \A row \in rows : \E k \in DOMAIN list : list[k] = row
    /\ \A k, l \in DOMAIN list : list[k] = list[l] => k = l

LEMMA EveryOrderDumps ==
  ASSUME NEW S, IsFiniteSet(S), NEW list \in SetToSeqs(S)
  PROVE  Dumps(list, S)
<1> DEFINE D == 1..Cardinality(S)
<1>1. Cardinality(S) \in Nat
  BY FS_CardinalityType
<1>2. list \in [D -> S] /\ \A k, l \in D : list[k] = list[l] => k = l
  BY DEF SetToSeqs
<1>3. list \in Injection(D, S)
  BY <1>2 DEF Injection, IsInjective
<1>4. IsFiniteSet(D) /\ Cardinality(D) = Cardinality(S)
  BY <1>1, FS_Interval
<1>5. list \in Surjection(D, S)
  BY <1>3, <1>4, FS_Injection
<1>6. \A row \in S : \E k \in D : list[k] = row
  BY <1>5 DEF Surjection
<1>7. DOMAIN list = D
  BY <1>2
<1> QED BY <1>1, <1>2, <1>6, <1>7 DEF Dumps

LEMMA SomeOrder ==
  ASSUME NEW S, IsFiniteSet(S)
  PROVE  SetToSeq(S) \in SetToSeqs(S)
<1> DEFINE D == 1..Cardinality(S)
<1>1. \E f : f \in Bijection(D, S)
  BY FS_CardinalityType DEF ExistsBijection
<1>2. \E f \in [D -> S] : IsInjective(f)
  BY <1>1 DEF Bijection, Injection
<1>3. SetToSeq(S) \in [D -> S] /\ IsInjective(SetToSeq(S))
  BY <1>2 DEF SetToSeq
<1> QED BY <1>3 DEF SetToSeqs, IsInjective

\* The links a snapshot has, one for each index in use.
LinksOf(seen, links, addresses) ==
    /\ \E n \in Nat : DOMAIN seen = 1..n
    /\ \A k \in DOMAIN seen : /\ seen[k].index \in DOMAIN links
                              /\ seen[k] = InterfaceFrom(links, addresses, seen[k].index)
    /\ \A i \in DOMAIN links : \E k \in DOMAIN seen : seen[k].index = i
    /\ \A k, l \in DOMAIN seen : seen[k].index = seen[l].index => k = l

LEMMA LinksCollected ==
  ASSUME NEW links, DOMAIN links \subseteq Nat, IsFiniteSet(DOMAIN links),
         NEW addresses, NEW routes
  PROVE  LinksOf(Collect(links, addresses, routes).interfaces, links, addresses)
<1> DEFINE rows == [i \in DOMAIN links |-> InterfaceFrom(links, addresses, i)]
           S == DOMAIN links
           seen == Picked(rows, S)
<1>1. Collect(links, addresses, routes).interfaces = seen
  BY DEF Collect
<1>2. \A i \in S : rows[i] = InterfaceFrom(links, addresses, i) /\ rows[i].index = i
  BY DEF InterfaceFrom
<1>3. HoldsOf(seen, rows, S)
  BY PickedKeeps
<1> HIDE DEF rows, seen
<1>4. \A i, j \in S : rows[i] = rows[j] => i = j
  BY <1>2
<1>5. /\ \A k \in DOMAIN seen : \E i \in S : seen[k] = rows[i]
      /\ \A i \in S : \E k \in DOMAIN seen : seen[k] = rows[i]
      /\ \A k, l \in DOMAIN seen : seen[k] = seen[l] => k = l
  BY <1>3, <1>4 DEF HoldsOf
<1>6. \A k \in DOMAIN seen : /\ seen[k].index \in S
                             /\ seen[k] = InterfaceFrom(links, addresses, seen[k].index)
  BY <1>2, <1>5
<1>7. \A i \in S : \E k \in DOMAIN seen : seen[k].index = i
  BY <1>2, <1>5
<1>8. \A k, l \in DOMAIN seen : seen[k].index = seen[l].index => k = l
  BY <1>5, <1>6
<1>9. \E n \in Nat : DOMAIN seen = 1..n
  BY <1>3 DEF HoldsOf
<1> QED BY <1>1, <1>6, <1>7, <1>8, <1>9 DEF LinksOf

\* A row the snapshot takes an address from, and a route.
Usable(a, index) == a.index = index /\ ~a.dadfailed

Carries(r) == r.type = "unicast" /\ r.family \in Families

\* An address is bound to a link once.
BoundOnce(rows) == \A a, b \in rows : a.index = b.index /\ a.ip = b.ip => a = b

\* The addresses of a link of the snapshot, each row once.
AddressesFrom(seen, rows, index) ==
    /\ \E n \in Nat : DOMAIN seen = 1..n
    /\ \A k \in DOMAIN seen : \E a \in rows : Usable(a, index) /\ seen[k] = AddressFrom(a)
    /\ \A a \in rows : Usable(a, index) => \E k \in DOMAIN seen : seen[k] = AddressFrom(a)
    /\ BoundOnce(rows) => \A k, l \in DOMAIN seen : seen[k].ip = seen[l].ip => k = l

LEMMA AddressesCollected ==
  ASSUME NEW addresses, NEW rows, Dumps(addresses, rows), NEW index
  PROVE  AddressesFrom(AddressesAt(addresses, index), rows, index)
<1> DEFINE all == [k \in DOMAIN addresses |-> AddressFrom(addresses[k])]
           S == {k \in DOMAIN addresses : addresses[k].index = index /\ ~addresses[k].dadfailed}
           seen == Picked(all, S)
<1>1. AddressesAt(addresses, index) = seen
  BY DEF AddressesAt
<1>2. S \subseteq Nat /\ IsFiniteSet(S)
  <2>1. PICK n \in Nat : DOMAIN addresses = 1..n
    BY DEF Dumps
  <2>2. IsFiniteSet(1..n) /\ S \in SUBSET (1..n)
    BY <2>1, FS_Interval
  <2>3. IsFiniteSet(S)
    BY <2>2, FS_Subset
  <2> QED BY <2>2, <2>3
<1>3. HoldsOf(seen, all, S)
  <2> HIDE DEF all, S
  <2> QED BY <1>2, PickedKeeps
<1>4. \A k \in S : /\ addresses[k] \in rows /\ Usable(addresses[k], index)
                   /\ all[k] = AddressFrom(addresses[k])
  BY DEF Dumps, Usable
<1>5. \A a \in rows : Usable(a, index) => \E k \in S : addresses[k] = a
  BY DEF Dumps, Usable
<1>6. \A k, l \in S : addresses[k] = addresses[l] => k = l
  BY DEF Dumps
<1> HIDE DEF all, S, seen
<1>7. \A a : AddressFrom(a).ip = a.ip
  BY DEF AddressFrom
<1>8. /\ \A k \in DOMAIN seen : \E i \in S : seen[k] = all[i]
      /\ \A i \in S : \E k \in DOMAIN seen : seen[k] = all[i]
  BY <1>3 DEF HoldsOf
<1>9. ASSUME BoundOnce(rows), NEW k \in DOMAIN seen, NEW l \in DOMAIN seen,
             seen[k].ip = seen[l].ip
      PROVE  k = l
  <2>1. \A i, j \in S : all[i].ip = all[j].ip => i = j
    BY <1>4, <1>6, <1>7, <1>9 DEF BoundOnce, Usable
  <2>2. \A i, j \in S : all[i] = all[j] => i = j
    BY <2>1
  <2>3. \A x, y \in DOMAIN seen : seen[x] = seen[y] => x = y
    BY <1>3, <2>2 DEF HoldsOf
  <2>4. seen[k] = seen[l]
    BY <1>8, <1>9, <2>1
  <2> QED BY <2>3, <2>4
<1>10. \E n \in Nat : DOMAIN seen = 1..n
  BY <1>3 DEF HoldsOf
<1>11. \A k \in DOMAIN seen : \E a \in rows : Usable(a, index) /\ seen[k] = AddressFrom(a)
  BY <1>4, <1>8
<1>12. \A a \in rows : Usable(a, index) => \E k \in DOMAIN seen : seen[k] = AddressFrom(a)
  BY <1>4, <1>5, <1>8
<1> QED BY <1>1, <1>9, <1>10, <1>11, <1>12 DEF AddressesFrom

\* The routes of a snapshot are those that lead somewhere.
RoutesFrom(seen, rows) ==
    /\ \E n \in Nat : DOMAIN seen = 1..n
    /\ \A k \in DOMAIN seen : \E r \in rows : Carries(r) /\ seen[k] = NetlinkRoute(r)
    /\ \A r \in rows : Carries(r) => \E k \in DOMAIN seen : seen[k] = NetlinkRoute(r)

LEMMA FamilyCollected ==
  ASSUME NEW routes, NEW rows, Dumps(routes, rows), NEW family \in Families
  PROVE  LET seen == CollectRoutes(routes, family)
         IN  /\ \E n \in Nat : DOMAIN seen = 1..n
             /\ \A k \in DOMAIN seen : \E r \in rows : Carries(r) /\ seen[k] = NetlinkRoute(r)
             /\ \A r \in rows : Carries(r) /\ r.family = family
                                  => \E k \in DOMAIN seen : seen[k] = NetlinkRoute(r)
<1> DEFINE all == [k \in DOMAIN routes |-> NetlinkRoute(routes[k])]
           S == {k \in DOMAIN routes : routes[k].type = "unicast" /\ routes[k].family = family}
           seen == Picked(all, S)
<1>1. CollectRoutes(routes, family) = seen
  BY DEF CollectRoutes
<1>2. S \subseteq Nat /\ IsFiniteSet(S)
  <2>1. PICK n \in Nat : DOMAIN routes = 1..n
    BY DEF Dumps
  <2>2. IsFiniteSet(1..n) /\ S \in SUBSET (1..n)
    BY <2>1, FS_Interval
  <2>3. IsFiniteSet(S)
    BY <2>2, FS_Subset
  <2> QED BY <2>2, <2>3
<1>3. HoldsOf(seen, all, S)
  <2> HIDE DEF all, S
  <2> QED BY <1>2, PickedKeeps
<1>4. \A k \in S : routes[k] \in rows /\ Carries(routes[k]) /\ all[k] = NetlinkRoute(routes[k])
  BY DEF Dumps, Carries
<1>5. \A r \in rows : Carries(r) /\ r.family = family => \E k \in S : routes[k] = r
  BY DEF Dumps, Carries
<1> HIDE DEF all, S, seen
<1>6. /\ \E n \in Nat : DOMAIN seen = 1..n
      /\ \A k \in DOMAIN seen : \E i \in S : seen[k] = all[i]
      /\ \A i \in S : \E k \in DOMAIN seen : seen[k] = all[i]
  BY <1>3 DEF HoldsOf
<1>7. \A k \in DOMAIN seen : \E r \in rows : Carries(r) /\ seen[k] = NetlinkRoute(r)
  BY <1>4, <1>6
<1>8. \A r \in rows : Carries(r) /\ r.family = family => \E k \in DOMAIN seen : seen[k] = NetlinkRoute(r)
  BY <1>4, <1>5, <1>6
<1> QED BY <1>1, <1>6, <1>7, <1>8

LEMMA RoutesCollected ==
  ASSUME NEW links, NEW addresses, NEW routes, NEW rows, Dumps(routes, rows)
  PROVE  RoutesFrom(Collect(links, addresses, routes).routes, rows)
<1> DEFINE v4 == CollectRoutes(routes, "v4")
           v6 == CollectRoutes(routes, "v6")
           seen == v4 \o v6
<1>1. Collect(links, addresses, routes).routes = seen
  BY DEF Collect
<1>2. /\ \A k \in DOMAIN v4 : \E r \in rows : Carries(r) /\ v4[k] = NetlinkRoute(r)
      /\ \A r \in rows : Carries(r) /\ r.family = "v4" => \E k \in DOMAIN v4 : v4[k] = NetlinkRoute(r)
  BY FamilyCollected DEF Families
<1>3. /\ \A k \in DOMAIN v6 : \E r \in rows : Carries(r) /\ v6[k] = NetlinkRoute(r)
      /\ \A r \in rows : Carries(r) /\ r.family = "v6" => \E k \in DOMAIN v6 : v6[k] = NetlinkRoute(r)
  BY FamilyCollected DEF Families
<1>4. PICK m \in Nat : DOMAIN v4 = 1..m
  BY FamilyCollected DEF Families
<1>5. PICK n \in Nat : DOMAIN v6 = 1..n
  BY FamilyCollected DEF Families
<1> HIDE DEF v4, v6
<1>6. Len(v4) = m /\ Len(v6) = n
  BY <1>4, <1>5
<1>7. /\ DOMAIN seen = 1..(m + n)
      /\ \A k \in 1..(m + n) : seen[k] = IF k <= m THEN v4[k] ELSE v6[k - m]
  BY <1>6
<1> HIDE DEF seen
<1>8. \A k \in 1..m : k \in DOMAIN seen /\ seen[k] = v4[k]
  BY <1>7
<1>9. \A k \in 1..n : m + k \in DOMAIN seen /\ seen[m + k] = v6[k]
  BY <1>7
<1>10. ASSUME NEW k \in DOMAIN seen PROVE \E r \in rows : Carries(r) /\ seen[k] = NetlinkRoute(r)
  <2>1. CASE k <= m
    BY <2>1, <1>2, <1>4, <1>7
  <2>2. CASE k > m
    <3>1. k - m \in 1..n /\ seen[k] = v6[k - m]
      BY <2>2, <1>7
    <3> QED BY <3>1, <1>3, <1>5
  <2> QED BY <2>1, <2>2, <1>7
<1>11. ASSUME NEW r \in rows, Carries(r) PROVE \E k \in DOMAIN seen : seen[k] = NetlinkRoute(r)
  <2>1. CASE r.family = "v4"
    BY <2>1, <1>2, <1>4, <1>8, <1>11
  <2>2. CASE r.family = "v6"
    BY <2>2, <1>3, <1>5, <1>9, <1>11
  <2> QED BY <2>1, <2>2, <1>11 DEF Carries, Families
<1>12. m + n \in Nat /\ DOMAIN seen = 1..(m + n)
  BY <1>7
<1> QED BY <1>1, <1>10, <1>11, <1>12 DEF RoutesFrom

----------------------------------------------------------------------------
(***************************************************************************)
(* The machine as every enumeration shows it.                              *)
(***************************************************************************)
\* What is there is an option, there is not endlessly much of it, and addresses
\* and routes are on links that are there.
MachineOK ==
    /\ DOMAIN present \subseteq DOMAIN LinkOptions /\ IsFiniteSet(DOMAIN present)
    /\ \A i \in DOMAIN present : present[i] \in LinkOptions[i]
    /\ bound \subseteq AddressOptions /\ IsFiniteSet(bound)
    /\ \A a \in bound : a.index \in DOMAIN present
    /\ installed \subseteq RouteOptions /\ IsFiniteSet(installed)
    /\ \A r \in installed : r.index \in DOMAIN present

LEMMA MachineInit == Init => MachineOK
<1> SUFFICES ASSUME Init PROVE MachineOK
  OBVIOUS
<1>1. DOMAIN present = {}
  BY DEF Init
<1> QED BY <1>1, FS_EmptySet DEF Init, MachineOK

LEMMA MachineNext == MachineOK /\ [Next]_vars => MachineOK'
<1> SUFFICES ASSUME MachineOK, [Next]_vars PROVE MachineOK'
  OBVIOUS
<1> USE DEF MachineOK
<1>1. ASSUME NEW i \in DOMAIN LinkOptions, NEW link \in LinkOptions[i], LinkChanges(i, link)
      PROVE  MachineOK'
  <2>1. DOMAIN present' = DOMAIN present \cup {i}
    BY <1>1 DEF LinkChanges
  <2>2. IsFiniteSet(DOMAIN present \cup {i})
    BY FS_AddElement
  <2> QED BY <1>1, <2>1, <2>2 DEF LinkChanges
<1>2. ASSUME NEW i \in DOMAIN LinkOptions, LinkGoes(i) PROVE MachineOK'
  <2>1. DOMAIN present' = DOMAIN present \ {i}
    BY <1>2 DEF LinkGoes
  <2>2. bound' \in SUBSET bound /\ installed' \in SUBSET installed
    BY <1>2 DEF LinkGoes
  <2>3. /\ IsFiniteSet(DOMAIN present \ {i}) /\ IsFiniteSet(bound') /\ IsFiniteSet(installed')
    BY <2>2, FS_RemoveElement, FS_Subset
  <2>4. \A j \in DOMAIN present' : present'[j] = present[j]
    BY <1>2 DEF LinkGoes
  <2>5. (\A a \in bound' : a.index # i) /\ (\A r \in installed' : r.index # i)
    BY <1>2 DEF LinkGoes, At
  <2> QED BY <2>1, <2>2, <2>3, <2>4, <2>5
<1>3. ASSUME NEW a \in AddressOptions, AddressComes(a) PROVE MachineOK'
  <2>1. IsFiniteSet(bound \cup {a})
    BY FS_AddElement
  <2> QED BY <1>3, <2>1 DEF AddressComes
<1>4. ASSUME NEW a \in AddressOptions, AddressGoes(a) PROVE MachineOK'
  <2>1. IsFiniteSet(bound \ {a})
    BY FS_RemoveElement
  <2> QED BY <1>4, <2>1 DEF AddressGoes
<1>5. ASSUME NEW r \in RouteOptions, RouteComes(r) PROVE MachineOK'
  <2>1. IsFiniteSet(installed \cup {r})
    BY FS_AddElement
  <2> QED BY <1>5, <2>1 DEF RouteComes
<1>6. ASSUME NEW r \in RouteOptions, RouteGoes(r) PROVE MachineOK'
  <2>1. IsFiniteSet(installed \ {r})
    BY FS_RemoveElement
  <2> QED BY <1>6, <2>1 DEF RouteGoes
<1>7. CASE UNCHANGED vars
  BY <1>7 DEF vars
<1> QED BY <1>1, <1>2, <1>3, <1>4, <1>5, <1>6, <1>7 DEF Next

\* A link of a snapshot is the link of that index, with the addresses bound to it.
Shown(link, i, links, rows) ==
    /\ link.name = links[i].name /\ link.kind = links[i].kind
    /\ link.state = InterfaceState(links[i].oper, links[i].admin)
    /\ "addresses" \in DOMAIN link
    /\ AddressesFrom(link.addresses, rows, i)

\* A snapshot shows these links, addresses and routes, in some order.
Shows(s, links, rows, routes) ==
    /\ \E n \in Nat : DOMAIN s.interfaces = 1..n
    /\ \A k \in DOMAIN s.interfaces :
          /\ s.interfaces[k].index \in DOMAIN links
          /\ Shown(s.interfaces[k], s.interfaces[k].index, links, rows)
    /\ \A i \in DOMAIN links : \E k \in DOMAIN s.interfaces : s.interfaces[k].index = i
    /\ \A k, l \in DOMAIN s.interfaces :
          s.interfaces[k].index = s.interfaces[l].index => k = l
    /\ RoutesFrom(s.routes, routes)

\* A snapshot of the machine, in whatever order its tables were dumped.
Taken(s) == Shows(s, present, bound, installed)

LEMMA EveryOrderShows ==
  ASSUME MachineOK, NEW a \in SetToSeqs(bound), NEW r \in SetToSeqs(installed)
  PROVE  Taken(Enumerated(a, r))
<1> DEFINE s == Enumerated(a, r)
<1>1. Dumps(a, bound) /\ Dumps(r, installed)
  BY EveryOrderDumps DEF MachineOK
<1>2. DOMAIN present \subseteq Nat /\ IsFiniteSet(DOMAIN present)
  BY OptionsAreTyped DEF MachineOK
<1>3. LinksOf(s.interfaces, present, a)
  BY <1>2, LinksCollected DEF Enumerated
<1>4. RoutesFrom(s.routes, installed)
  BY <1>1, RoutesCollected DEF Enumerated
<1>5. ASSUME NEW i PROVE Shown(InterfaceFrom(present, a, i), i, present, bound)
  <2>1. AddressesFrom(AddressesAt(a, i), bound, i)
    BY <1>1, AddressesCollected
  <2> QED BY <2>1 DEF InterfaceFrom, Shown
<1> HIDE DEF s
<1> QED BY <1>3, <1>4, <1>5 DEF LinksOf, Taken, Shows, s

LEMMA SnapshotShows == ASSUME MachineOK PROVE Taken(Snapshot)
<1>1. SetToSeq(bound) \in SetToSeqs(bound) /\ SetToSeq(installed) \in SetToSeqs(installed)
  BY SomeOrder DEF MachineOK
<1> QED BY <1>1, EveryOrderShows DEF Snapshot

LEMMA TakenIsWellFormed ==
  ASSUME MachineOK, NEW s, Taken(s)
  PROVE  WellFormed(s)
<1>1. ASSUME NEW k \in DOMAIN s.interfaces
      PROVE  /\ k \in Nat /\ s.interfaces[k].index \in Nat
             /\ AddressesFrom(s.interfaces[k].addresses, bound, s.interfaces[k].index)
  <2>1. k \in Nat
    BY DEF Taken, Shows
  <2>2. s.interfaces[k].index \in DOMAIN LinkOptions
    BY DEF Taken, Shows, MachineOK
  <2> QED BY <2>1, <2>2, OptionsAreTyped DEF Taken, Shows, Shown
<1>2. ASSUME NEW list, NEW i, AddressesFrom(list, bound, i), NEW k \in DOMAIN list
      PROVE  /\ k \in Nat /\ list[k].ip \in Nat /\ list[k].family \in Families
             /\ list[k].temporary \in BOOLEAN
  <2>1. k \in Nat
    BY <1>2 DEF AddressesFrom
  <2>2. PICK a \in bound : list[k] = AddressFrom(a)
    BY <1>2 DEF AddressesFrom
  <2>3. a \in AddressOptions
    BY DEF MachineOK
  <2>4. a.ip \in Nat /\ a.family \in Families
    BY <2>3, OptionsAreTyped
  <2> QED BY <2>1, <2>2, <2>4 DEF AddressFrom
<1>3. ASSUME NEW k \in DOMAIN s.routes
      PROVE  /\ k \in Nat /\ s.routes[k] # None
             /\ s.routes[k].metric \in Nat /\ s.routes[k].index \in Nat
  <2>1. k \in Nat
    BY DEF Taken, Shows, RoutesFrom
  <2>2. PICK r \in installed : s.routes[k] = NetlinkRoute(r)
    BY DEF Taken, Shows, RoutesFrom
  <2>3. r \in RouteOptions
    BY DEF MachineOK
  <2>4. r.metric \in Nat /\ r.index \in Nat /\ NetlinkRoute(r) # None
    BY <2>3, OptionsAreTyped
  <2>5. NetlinkRoute(r).metric = r.metric /\ NetlinkRoute(r).index = r.index
    BY DEF NetlinkRoute
  <2> QED BY <2>1, <2>2, <2>4, <2>5
<1>4. ASSUME NEW k \in DOMAIN s.interfaces, NEW a \in DOMAIN s.interfaces[k].addresses
      PROVE  /\ a \in Nat
             /\ s.interfaces[k].addresses[a].ip \in Nat
             /\ s.interfaces[k].addresses[a].family \in Families
             /\ s.interfaces[k].addresses[a].temporary \in BOOLEAN
  BY <1>1, <1>2
<1> QED BY <1>1, <1>3, <1>4 DEF WellFormed

LEMMA TakenAlike ==
  ASSUME MachineOK, NEW s, Taken(s), NEW t, Taken(t)
  PROVE  Equivalent(s, t)
<1>1. ASSUME NEW x, NEW y, NEW i, AddressesFrom(x, bound, i), AddressesFrom(y, bound, i),
             NEW k \in DOMAIN x
      PROVE  \E l \in DOMAIN y : y[l] = x[k]
  <2>1. PICK a \in bound : Usable(a, i) /\ x[k] = AddressFrom(a)
    BY <1>1 DEF AddressesFrom
  <2>2. \E l \in DOMAIN y : y[l] = AddressFrom(a)
    BY <1>1, <2>1 DEF AddressesFrom
  <2> QED BY <2>1, <2>2
<1>2. ASSUME NEW x, NEW y, x.index = y.index,
             Shown(x, x.index, present, bound), Shown(y, y.index, present, bound)
      PROVE  SameLink(x, y)
  <2>1. /\ \A k \in DOMAIN x.addresses : \E l \in DOMAIN y.addresses : y.addresses[l] = x.addresses[k]
        /\ \A l \in DOMAIN y.addresses : \E k \in DOMAIN x.addresses : x.addresses[k] = y.addresses[l]
    BY <1>1, <1>2 DEF Shown
  <2>2. AddressSet(x) = AddressSet(y)
    BY <2>1 DEF AddressSet
  <2> QED BY <1>2, <2>2 DEF Shown, SameLink
<1>3. ASSUME NEW v, Taken(v), NEW w, Taken(w), NEW k \in DOMAIN v.interfaces
      PROVE  \E l \in DOMAIN w.interfaces :
                /\ v.interfaces[k].index = w.interfaces[l].index
                /\ SameLink(v.interfaces[k], w.interfaces[l])
                /\ SameLink(w.interfaces[l], v.interfaces[k])
  <2> DEFINE x == v.interfaces[k]
  <2>1. x.index \in DOMAIN present /\ Shown(x, x.index, present, bound)
    BY <1>3 DEF Taken, Shows
  <2>2. PICK l \in DOMAIN w.interfaces : w.interfaces[l].index = x.index
    BY <1>3, <2>1 DEF Taken, Shows
  <2>3. Shown(w.interfaces[l], w.interfaces[l].index, present, bound)
    BY <1>3 DEF Taken, Shows
  <2>4. SameLink(x, w.interfaces[l]) /\ SameLink(w.interfaces[l], x)
    BY <1>2, <2>1, <2>2, <2>3
  <2> QED BY <2>2, <2>4
<1>4. ASSUME NEW v, Taken(v), NEW w, Taken(w), NEW k \in DOMAIN v.routes
      PROVE  \E l \in DOMAIN w.routes : w.routes[l] = v.routes[k]
  <2>1. PICK r \in installed : Carries(r) /\ v.routes[k] = NetlinkRoute(r)
    BY <1>4 DEF Taken, Shows, RoutesFrom
  <2>2. \E l \in DOMAIN w.routes : w.routes[l] = NetlinkRoute(r)
    BY <1>4, <2>1 DEF Taken, Shows, RoutesFrom
  <2> QED BY <2>1, <2>2
<1>5. DefaultsOf(s) = DefaultsOf(t)
  <2>1. \A k \in DefaultRoutes(s) : \E l \in DefaultRoutes(t) : t.routes[l] = s.routes[k]
    BY <1>4 DEF DefaultRoutes
  <2>2. \A l \in DefaultRoutes(t) : \E k \in DefaultRoutes(s) : s.routes[k] = t.routes[l]
    BY <1>4 DEF DefaultRoutes
  <2> QED BY <2>1, <2>2 DEF DefaultsOf
<1>6. /\ \A k \in DOMAIN s.interfaces :
            \E l \in DOMAIN t.interfaces : SameLink(s.interfaces[k], t.interfaces[l])
      /\ \A l \in DOMAIN t.interfaces :
            \E k \in DOMAIN s.interfaces : SameLink(s.interfaces[k], t.interfaces[l])
  BY <1>3
<1> QED BY <1>5, <1>6 DEF Equivalent

LEMMA TakenIsKeyed ==
  ASSUME MachineOK, BoundOnce(bound), NEW s, Taken(s)
  PROVE  Keyed(s)
<1>1. \A i, j \in DOMAIN s.interfaces :
         s.interfaces[i].index = s.interfaces[j].index
             => SameLink(s.interfaces[i], s.interfaces[j])
  BY DEF Taken, Shows, SameLink
<1>2. ASSUME NEW i \in DOMAIN s.interfaces,
             NEW a \in AddressSet(s.interfaces[i]), NEW b \in AddressSet(s.interfaces[i]),
             a.ip = b.ip
      PROVE  a = b
  <2> DEFINE list == s.interfaces[i].addresses
  <2>1. AddressesFrom(list, bound, s.interfaces[i].index)
    BY DEF Taken, Shows, Shown
  <2>2. PICK k \in DOMAIN list, l \in DOMAIN list : a = list[k] /\ b = list[l]
    BY DEF AddressSet
  <2>3. k = l
    BY <1>2, <2>1, <2>2 DEF AddressesFrom
  <2> QED BY <2>2, <2>3
<1> QED BY <1>1, <1>2 DEF Keyed

\* No two of the default routes of one link and family cost the same and lead
\* to different gateways.
CostsDiffer(rows) ==
    \A q, r \in rows :
        (/\ Carries(q) /\ Carries(r) /\ q.default /\ r.default
         /\ q.index = r.index /\ q.family = r.family /\ q.metric = r.metric)
            => q.gateway = r.gateway

LEMMA TakenIsUntied ==
  ASSUME CostsDiffer(installed), NEW s, Taken(s)
  PROVE  Untied(s)
<1> SUFFICES ASSUME NEW j \in DefaultRoutes(s), NEW k \in DefaultRoutes(s),
                    s.routes[j].index = s.routes[k].index,
                    s.routes[j].family = s.routes[k].family,
                    s.routes[j].metric = s.routes[k].metric
             PROVE  s.routes[j] = s.routes[k]
  BY DEF Untied
<1>1. j \in DOMAIN s.routes /\ k \in DOMAIN s.routes /\ s.routes[j].default /\ s.routes[k].default
  BY DEF DefaultRoutes
<1>2. PICK q \in installed : Carries(q) /\ s.routes[j] = NetlinkRoute(q)
  BY <1>1 DEF Taken, Shows, RoutesFrom
<1>3. PICK r \in installed : Carries(r) /\ s.routes[k] = NetlinkRoute(r)
  BY <1>1 DEF Taken, Shows, RoutesFrom
<1>4. /\ q.index = r.index /\ q.family = r.family /\ q.metric = r.metric
      /\ q.default /\ r.default
  BY <1>1, <1>2, <1>3 DEF NetlinkRoute
<1>5. q.gateway = r.gateway
  BY <1>2, <1>3, <1>4 DEF CostsDiffer
<1>6. q.default = r.default
  BY <1>4
<1> QED BY <1>2, <1>3, <1>4, <1>5, <1>6 DEF NetlinkRoute

\* A candidate is an address of the machine, and no address is two.
LEMMA TakenCandidate ==
  ASSUME NEW s, WellFormed(s), Taken(s), NEW config, NEW p \in DOMAIN Candidates(s, config)
  PROVE  LET c == Candidates(s, config)[p]
         IN  \E a \in bound : a.index = c.interface.index /\ a.ip = c.address.ip
<1> DEFINE link == s.interfaces[p[1]]
           address == link.addresses[p[2]]
           c == Candidates(s, config)[p]
<1>1. Pair(s, p) /\ c = Evaluate(s, config, link, address)
  BY CandidateAt
<1>2. c.interface = link /\ c.address = address
  BY <1>1 DEF Evaluate
<1>3. AddressesFrom(link.addresses, bound, link.index)
  BY <1>1 DEF Pair, Taken, Shows, Shown
<1>4. PICK a \in bound : Usable(a, link.index) /\ address = AddressFrom(a)
  BY <1>1, <1>3 DEF Pair, AddressesFrom
<1>5. a.index = link.index /\ a.ip = address.ip
  BY <1>4 DEF Usable, AddressFrom
<1> QED BY <1>2, <1>5

LEMMA TakenIsApart ==
  ASSUME MachineOK, BoundOnce(bound), NEW s, WellFormed(s), Taken(s), NEW config
  PROVE  /\ Apart(Candidates(s, config))
         /\ IsFiniteSet(DOMAIN Candidates(s, config))
<1> DEFINE all == Candidates(s, config)
<1>1. ASSUME NEW p \in DOMAIN all, NEW q \in DOMAIN all,
             all[p].interface.index = all[q].interface.index,
             all[p].address.ip = all[q].address.ip
      PROVE  p = q
  <2>1. /\ Pair(s, p) /\ p = <<p[1], p[2]>>
        /\ all[p].interface = s.interfaces[p[1]]
        /\ all[p].address = s.interfaces[p[1]].addresses[p[2]]
    BY CandidateAt DEF Evaluate
  <2>2. /\ Pair(s, q) /\ q = <<q[1], q[2]>>
        /\ all[q].interface = s.interfaces[q[1]]
        /\ all[q].address = s.interfaces[q[1]].addresses[q[2]]
    BY CandidateAt DEF Evaluate
  <2>3. p[1] = q[1]
    BY <1>1, <2>1, <2>2 DEF Pair, Taken, Shows
  <2>4. AddressesFrom(s.interfaces[p[1]].addresses, bound, s.interfaces[p[1]].index)
    BY <2>1 DEF Pair, Taken, Shows, Shown
  <2> DEFINE list == s.interfaces[p[1]].addresses
  <2>5. /\ p[2] \in DOMAIN list /\ all[p].address = list[p[2]]
        /\ q[2] \in DOMAIN list /\ all[q].address = list[q[2]]
    BY <2>1, <2>2, <2>3 DEF Pair
  <2>6. \A k, n \in DOMAIN list : list[k].ip = list[n].ip => k = n
    BY <2>4 DEF AddressesFrom
  <2> HIDE DEF all, list
  <2>7. p[2] = q[2]
    BY <1>1, <2>5, <2>6
  <2> QED BY <2>1, <2>2, <2>3, <2>7
<1>2. Apart(all)
  <2> HIDE DEF all
  <2> QED BY <1>1 DEF Apart
<1> DEFINE row == [p \in DOMAIN all |-> CHOOSE a \in bound : /\ a.index = all[p].interface.index
                                                            /\ a.ip = all[p].address.ip]
<1>3. \A p \in DOMAIN all : /\ row[p] \in bound
                            /\ row[p].index = all[p].interface.index
                            /\ row[p].ip = all[p].address.ip
  BY TakenCandidate
<1> HIDE DEF row
<1>4. row \in Injection(DOMAIN all, bound)
  <2>1. \A p, q \in DOMAIN all : row[p] = row[q] => p = q
    BY <1>1, <1>3
  <2>2. row \in [DOMAIN all -> bound]
    BY <1>3 DEF row
  <2> QED BY <2>1, <2>2 DEF Injection, IsInjective
<1>5. IsFiniteSet(DOMAIN all)
  BY <1>4, FS_Injection DEF MachineOK
<1> QED BY <1>2, <1>5

\* Two enumerations have the same candidates, at other positions.
LEMMA CandidatesMove ==
  ASSUME NEW s, NEW t, WellFormed(s), WellFormed(t), Equivalent(s, t), Untied(s), NEW config,
         Apart(Candidates(s, config)), Apart(Candidates(t, config))
  PROVE  \E to : Moved(Candidates(s, config), Candidates(t, config), to)
<1> DEFINE all == Candidates(s, config)
           other == Candidates(t, config)
           to == [p \in DOMAIN all |-> CHOOSE q \in DOMAIN other : Alike(all[p], other[q])]
<1>1. Equivalent(t, s) /\ Untied(t)
  BY EquivalentBack, UntiedToo
<1>2. \A p \in DOMAIN all : \E q \in DOMAIN other : Alike(all[p], other[q])
  BY MirrorAt
<1>3. \A q \in DOMAIN other : \E p \in DOMAIN all : Alike(other[q], all[p])
  BY <1>1, MirrorAt
<1>4. \A p \in DOMAIN all : to[p] \in DOMAIN other /\ Alike(all[p], other[to[p]])
  BY <1>2
<1>5. to \in [DOMAIN all -> DOMAIN other]
  BY <1>4
<1> HIDE DEF to, all, other
<1>6. \A p, q \in DOMAIN all : to[p] = to[q] => p = q
  <2>1. ASSUME NEW p \in DOMAIN all, NEW q \in DOMAIN all, to[p] = to[q] PROVE p = q
    <3>1. /\ all[p].interface.index = all[q].interface.index
          /\ all[p].address.ip = all[q].address.ip
      BY <1>4, <2>1 DEF Alike
    <3> QED BY <3>1 DEF Apart, all
  <2> QED BY <2>1
<1>7. \A x \in DOMAIN other : \E p \in DOMAIN all : to[p] = x
  <2>1. ASSUME NEW x \in DOMAIN other, NEW p \in DOMAIN all, Alike(other[x], all[p])
        PROVE  to[p] = x
    <3>1. /\ other[x].interface.index = other[to[p]].interface.index
          /\ other[x].address.ip = other[to[p]].address.ip
          /\ to[p] \in DOMAIN other
      BY <1>4, <2>1 DEF Alike
    <3> QED BY <3>1 DEF Apart, other
  <2> QED BY <1>3, <2>1
<1>8. Moved(all, other, to)
  BY <1>4, <1>5, <1>6, <1>7 DEF Moved
<1> QED BY <1>8 DEF all, other

\* Each enumeration of the machine: one answer, or one reason for none.
LEMMA OrdersAgree ==
  ASSUME MachineOK, BoundOnce(bound), CostsDiffer(installed),
         NEW s, Taken(s), NEW t, Taken(t), NEW config
  PROVE  /\ WellFormed(s)
         /\ Selected(s, config) = Selected(t, config)
         /\ FailureReason(s, config) = FailureReason(t, config)
<1>1. WellFormed(s) /\ WellFormed(t)
  BY TakenIsWellFormed
<1>2. Equivalent(s, t) /\ Keyed(s) /\ Untied(s)
  BY TakenAlike, TakenIsKeyed, TakenIsUntied
<1>3. Selected(s, config) = Selected(t, config)
  BY <1>1, <1>2, OrderForgotten
<1>4. /\ Apart(Candidates(s, config)) /\ IsFiniteSet(DOMAIN Candidates(s, config))
      /\ Apart(Candidates(t, config))
  BY <1>1, TakenIsApart
<1>5. Ranked(Candidates(s, config)) /\ Ranked(Candidates(t, config))
  BY <1>1, CandidatesRanked
<1>6. PICK to : Moved(Candidates(s, config), Candidates(t, config), to)
  BY <1>1, <1>2, <1>4, CandidatesMove
<1>7. FailureReason(s, config) = FailureReason(t, config)
  BY <1>4, <1>5, <1>6, ReasonMoves
<1> QED BY <1>1, <1>3, <1>7

LEMMA TheWinnerIsBound == ASSUME MachineOK PROVE WinnerBound
<1> SUFFICES ASSUME Winner # None PROVE \E a \in bound : a.index = Winner.index /\ a.ip = Winner.ip
  BY DEF WinnerBound
<1> DEFINE all == Candidates(Snapshot, setting)
<1>1. Taken(Snapshot) /\ WellFormed(Snapshot)
  BY SnapshotShows, TakenIsWellFormed
<1>2. Running(Snapshot, setting) # {}
  BY DEF Winner, Selected, Running
<1>3. Foremost(Snapshot, setting) \in Running(Snapshot, setting)
  BY <1>1, <1>2, ChosenFirst
<1>4. PICK p \in DOMAIN all : Foremost(Snapshot, setting) = all[p]
  BY <1>3 DEF Running, Eligible
<1>5. \E a \in bound : a.index = all[p].interface.index /\ a.ip = all[p].address.ip
  BY <1>1, TakenCandidate
<1> QED BY <1>2, <1>4, <1>5, ChosenIs DEF Winner

(***************************************************************************)
(* README.md:700-720, select.rs:22-56: at every step of every machine, and *)
(* under every configuration, a default route decides, a VPN yields and an *)
(* explicit preference wins.                                               *)
(***************************************************************************)
THEOREM WeightsDecide == Spec => []WeightsKeepOrder
<1>1. MachineOK => WeightsKeepOrder
  BY SnapshotShows, TakenIsWellFormed, WeightsOnSnapshot
<1> QED BY <1>1, MachineInit, MachineNext, PTL DEF Spec

(***************************************************************************)
(* README.md:726 and select.rs:196, at every step of every machine: an     *)
(* address bound to a link once and no two of its default routes at one    *)
(* cost with different gateways, then whatever order the kernel dumps the  *)
(* tables in, the whole selection is the same, the reason given where      *)
(* there is none is the same, and the winner is an address of the machine. *)
(***************************************************************************)
THEOREM OrderNeverMatters ==
  Spec => [](BoundOnce(bound) /\ CostsDiffer(installed) => OrderIndependent)
<1>1. MachineOK /\ BoundOnce(bound) /\ CostsDiffer(installed) => OrderIndependent
  <2> SUFFICES ASSUME MachineOK, BoundOnce(bound), CostsDiffer(installed)
               PROVE  OrderIndependent
    OBVIOUS
  <2>1. Taken(Snapshot) /\ WinnerBound
    BY SnapshotShows, TheWinnerIsBound
  <2>2. ASSUME NEW a \in SetToSeqs(bound), NEW r \in SetToSeqs(installed)
        PROVE  /\ WellFormed(Enumerated(a, r))
               /\ Selected(Enumerated(a, r), setting) = Winner
               /\ FailureReason(Enumerated(a, r), setting) = FailureReason(Snapshot, setting)
    <3>1. Taken(Enumerated(a, r))
      BY EveryOrderShows
    <3> QED BY <2>1, <3>1, OrdersAgree DEF Winner
  <2> QED BY <2>1, <2>2 DEF OrderIndependent
<1> QED BY <1>1, MachineInit, MachineNext, PTL DEF Spec

(***************************************************************************)
(* Where no address may be bound twice and no two routes may tie, the      *)
(* order decides nothing, ever.                                            *)
(***************************************************************************)
THEOREM OrderForgottenForEver ==
  ASSUME BoundOnce(AddressOptions), CostsDiffer(RouteOptions)
  PROVE  Spec => []OrderIndependent
<1>1. MachineOK => BoundOnce(bound) /\ CostsDiffer(installed)
  BY DEF MachineOK, BoundOnce, CostsDiffer
<1> QED BY <1>1, OrderNeverMatters, MachineInit, MachineNext, PTL DEF Spec

----------------------------------------------------------------------------
(***************************************************************************)
(* The gate.                                                               *)
(***************************************************************************)
\* What two snapshots share that the gate would let pass.
GateClosed(s, t) == ~AffectsSelection(Diff(s, t))

LEMMA PartsOfDiff ==
  ASSUME NEW s, NEW t
  PROVE  /\ PresenceEvents(s, t) \subseteq Diff(s, t)
         /\ StateEvents(s, t) \subseteq Diff(s, t)
         /\ AddressEvents(s, t) \subseteq Diff(s, t)
         /\ RouteEvents(s, t) \subseteq Diff(s, t)
  BY DEF Diff

LEMMA NothingReported ==
  ASSUME NEW s, NEW t, GateClosed(s, t)
  PROVE  /\ \A i \in ToSet(s.interfaces) :
               \E j \in ToSet(t.interfaces) :
                  /\ j.name = i.name /\ j.state = i.state
                  /\ AddressesOf(j) = AddressesOf(i)
         /\ \A f \in Families : DefaultRouteInterface(s, f) = DefaultRouteInterface(t, f)
<1>1. \A e \in Diff(s, t) : e.event \notin Moving
  BY DEF GateClosed, AffectsSelection
<1>2. ASSUME NEW i \in ToSet(s.interfaces)
      PROVE  \E j \in ToSet(t.interfaces) :
                 /\ j.name = i.name /\ j.state = i.state
                 /\ AddressesOf(j) = AddressesOf(i)
  <2>1. \E j \in ToSet(t.interfaces) : j.name = i.name
    <3>1. SUFFICES ASSUME InterfaceByName(t, i.name) = {} PROVE FALSE
      BY DEF InterfaceByName
    <3> DEFINE e == [event |-> "interface_removed", interface |-> i.name]
    <3>2. e \in PresenceEvents(s, t)
      BY <3>1 DEF PresenceEvents, Unmatched
    <3>3. e \in Diff(s, t)
      BY <3>2, PartsOfDiff
    <3> QED BY <1>1, <3>3 DEF Moving
  <2>2. PICK j \in ToSet(t.interfaces) : j.name = i.name
    BY <2>1
  <2> DEFINE pair == <<i, j>>
  <2>3. pair \in Kept(s, t) /\ pair[1] = i /\ pair[2] = j
    BY <2>2 DEF Kept
  <2>4. j.state = i.state
    <3>1. SUFFICES ASSUME i.state # j.state PROVE FALSE
      OBVIOUS
    <3> DEFINE e == [event |-> "interface_state_changed", interface |-> i.name,
                     from |-> i.state, to |-> j.state]
    <3>2. e \in StateEvents(s, t)
      BY <2>3, <3>1 DEF StateEvents
    <3>3. e \in Diff(s, t)
      BY <3>2, PartsOfDiff
    <3> QED BY <1>1, <3>3 DEF Moving
  <2>5. AddressesOf(j) = AddressesOf(i)
    <3>1. ASSUME NEW a \in AddressesOf(i), a \notin AddressesOf(j) PROVE FALSE
      <4> DEFINE e == [event |-> "address_removed", interface |-> i.name, address |-> a]
      <4>1. e \in Lost(pair[1], pair[2])
        BY <2>3, <3>1 DEF Lost
      <4> HIDE DEF e
      <4>2. e \in Diff(s, t)
        BY <2>3, <4>1, PartsOfDiff DEF AddressEvents
      <4> QED BY <1>1, <4>2 DEF Moving, e
    <3>2. ASSUME NEW a \in AddressesOf(j), a \notin AddressesOf(i) PROVE FALSE
      <4> DEFINE e == [event |-> "address_added", interface |-> i.name, address |-> a]
      <4>1. e \in Gained(pair[1], pair[2])
        BY <2>3, <3>2 DEF Gained
      <4> HIDE DEF e
      <4>2. e \in Diff(s, t)
        BY <2>3, <4>1, PartsOfDiff DEF AddressEvents
      <4> QED BY <1>1, <4>2 DEF Moving, e
    <3> QED BY <3>1, <3>2
  <2> QED BY <2>2, <2>4, <2>5
<1>3. ASSUME NEW f \in Families PROVE DefaultRouteInterface(s, f) = DefaultRouteInterface(t, f)
  <2>1. SUFFICES ASSUME DefaultRouteInterface(s, f) # DefaultRouteInterface(t, f) PROVE FALSE
    OBVIOUS
  <2> DEFINE e == [event |-> "default_route_changed", family |-> f,
                   from_interface |-> DefaultRouteInterface(s, f),
                   to_interface |-> DefaultRouteInterface(t, f)]
  <2>2. e \in RouteEvents(s, t)
    BY <2>1 DEF RouteEvents
  <2>3. e \in Diff(s, t)
    BY <2>2, PartsOfDiff
  <2> QED BY <1>1, <2>3 DEF Moving
<1> QED BY <1>2, <1>3

\* Of the default routes the configuration admits there is one, of this family.
OneRoute(s, config, f) ==
    \E k \in DefaultRoutes(s) :
        /\ s.routes[k].family = f
        /\ \A o \in DefaultRoutes(s) : Admits(config.prefer_family, s.routes[o].family) <=> o = k

\* A name and an index are one link's.
Distinct(s) ==
    \A i, j \in ToSet(s.interfaces) : i.name = j.name \/ i.index = j.index => i = j

\* A link that keeps its name keeps its kind.
KeepsKinds(s, t) ==
    \A i \in ToSet(s.interfaces), j \in ToSet(t.interfaces) : i.name = j.name => i.kind = j.kind

\* A default route of a family that is admitted is this link's and this family's.
Only(s, config, index, f) ==
    \A i, g : Admits(config.prefer_family, g) /\ HasDefaultRoute(s, i, g) => i = index /\ g = f

\* The one default route is the best, and the links that own one are its own.
LEMMA TheRoute ==
  ASSUME NEW s, WellFormed(s), NEW config, NEW f, OneRoute(s, config, f)
  PROVE  \E index \in Nat :
            /\ HasDefaultRoute(s, index, f)
            /\ Only(s, config, index, f)
            /\ DefaultRouteInterface(s, f) = {i.name : i \in InterfaceByIndex(s, index)}
<1>1. PICK k \in DefaultRoutes(s) :
            /\ s.routes[k].family = f
            /\ \A o \in DefaultRoutes(s) : Admits(config.prefer_family, s.routes[o].family) <=> o = k
  BY DEF OneRoute
<1> DEFINE at == {o \in DefaultRoutes(s) : s.routes[o].family = f}
           index == s.routes[k].index
           least == {x \in at : \A other \in at :
                        ~(\/ s.routes[other].metric < s.routes[x].metric
                          \/ /\ s.routes[other].metric = s.routes[x].metric
                             /\ s.routes[other].index < s.routes[x].index)}
<1>2. at = {k}
  BY <1>1
<1>3. k \in Nat /\ s.routes[k] # None /\ s.routes[k].metric \in Nat /\ index \in Nat
  BY DEF WellFormed, DefaultRoutes
<1>4. least = {k}
  BY <1>2, <1>3
<1>5. Min({k}) = k
  BY <1>3 DEF Min
<1>6. DefaultRouteFor(s, f) = s.routes[k]
  <2>1. DefaultRouteFor(s, f) = IF least = {} THEN None ELSE s.routes[Min(least)]
    BY DEF DefaultRouteFor, FirstLeast
  <2> HIDE DEF least
  <2> QED BY <1>4, <1>5, <2>1
<1>7. DefaultRouteInterface(s, f) = {i.name : i \in InterfaceByIndex(s, index)}
  BY <1>3, <1>6 DEF DefaultRouteInterface
<1>8. HasDefaultRoute(s, index, f)
  BY <1>1 DEF HasDefaultRoute, DefaultRoutesVia
<1>9. ASSUME NEW i, NEW g, Admits(config.prefer_family, g), HasDefaultRoute(s, i, g)
      PROVE  i = index /\ g = f
  BY <1>1, <1>9 DEF HasDefaultRoute, DefaultRoutesVia
<1> QED BY <1>3, <1>7, <1>8, <1>9 DEF Only

\* What an address adds to its score by itself.
Own(address) ==
    ScopeDelta(address.scope) + (IF address.temporary THEN TEMPORARY_ADDRESS ELSE 0)

Based(s, config, link, f, base) ==
    \A a : a.family = f => Score(s, config, link, a) = base + Own(a)

\* On one link the addresses of one family differ by that alone.
LEMMA OnOneLink ==
  ASSUME NEW s, WellFormed(s), NEW config, NEW link, NEW f
  PROVE  \E base \in Int : Based(s, config, link, f, base)
<1> DEFINE index == link.index
           has == link.kind
           route == RouteDelta(s, index, f)
           kind == KindDelta(config, has)
           matched == IF Preferred(config.prefer_family) = f THEN FAMILY_MATCH ELSE 0
           gateway == IF GatewayFor(s, link.index, f) # None THEN HAS_GATEWAY ELSE 0
           metric == MetricDelta(DefaultRouteMetric(s, link.index, f))
           named == IF link.name \in config.prefer THEN PREFERRED_INTERFACE ELSE 0
           base == route + kind + matched + gateway + metric + named
<1>1. route \in Int
  <2> HIDE DEF index
  <2>1. route \in 0..1000
    BY RouteRange
  <2> HIDE DEF route
  <2> QED BY <2>1
<1>2. kind \in Int
  <2> HIDE DEF has
  <2>1. kind \in -800..250
    BY KindRange
  <2> HIDE DEF kind
  <2> QED BY <2>1
<1>3. metric \in Int
  <2>1. DefaultRouteMetric(s, link.index, f) \in Nat \cup {None}
    BY MetricOfARoute
  <2>2. metric \in -100..0
    BY <2>1, MetricRange
  <2> QED BY <2>2
<1>4. matched \in Int /\ gateway \in Int /\ named \in Int
  BY DEF FAMILY_MATCH, HAS_GATEWAY, PREFERRED_INTERFACE
<1>5. ASSUME NEW a, a.family = f PROVE Score(s, config, link, a) = base + Own(a)
  <2> DEFINE scope == ScopeDelta(a.scope)
             temporary == IF a.temporary THEN TEMPORARY_ADDRESS ELSE 0
  <2>1. scope \in Int
    BY ScopeRange
  <2>2. temporary \in Int
    BY DEF TEMPORARY_ADDRESS
  <2>3. Score(s, config, link, a) =
            route + kind + matched + scope + gateway + temporary + metric + named
    BY <1>5 DEF Score
  <2>4. Own(a) = scope + temporary
    BY DEF Own
  <2> HIDE DEF route, kind, matched, gateway, metric, named, scope, temporary
  <2> QED BY <1>1, <1>2, <1>3, <1>4, <2>1, <2>2, <2>3, <2>4
<1>6. base \in Int
  <2> HIDE DEF route, kind, matched, gateway, metric, named
  <2> QED BY <1>1, <1>2, <1>3, <1>4
<1> HIDE DEF base
<1>7. Based(s, config, link, f, base)
  BY <1>5 DEF Based
<1> QED BY <1>6, <1>7

LEMMA OwnRange == ASSUME NEW a PROVE Own(a) \in Int
<1>1. ScopeDelta(a.scope) \in Int
  BY ScopeRange
<1> QED BY <1>1 DEF Own, TEMPORARY_ADDRESS

\* A candidate in the running was admitted, and has its score.
LEMMA RunningScore ==
  ASSUME NEW s, WellFormed(s), NEW config, NEW c \in Running(s, config)
  PROVE  /\ Admits(config.prefer_family, c.address.family)
         /\ c.score = Score(s, config, c.interface, c.address)
         /\ c.interface \in ToSet(s.interfaces) /\ c.address \in AddressesOf(c.interface)
<1> DEFINE all == Candidates(s, config)
<1>1. PICK p \in DOMAIN all : c = all[p] /\ all[p].disqualified = None
  BY DEF Running, Eligible
<1> DEFINE link == s.interfaces[p[1]]
           address == link.addresses[p[2]]
<1>2. Pair(s, p) /\ all[p] = Evaluate(s, config, link, address)
  BY CandidateAt
<1>3. c.interface = link /\ c.address = address
  BY <1>1, <1>2 DEF Evaluate
<1>4. /\ Admits(config.prefer_family, address.family)
      /\ Evaluate(s, config, link, address).score = Score(s, config, link, address)
  <2>1. Evaluate(s, config, link, address).disqualified = None
    BY <1>1, <1>2
  <2> HIDE DEF all, link, address
  <2>2. /\ Admitted(s, config, link, address)
        /\ Evaluate(s, config, link, address).score = Score(s, config, link, address)
    BY <2>1, EligibleOne
  <2> QED BY <2>2 DEF Admitted
<1>5. link \in ToSet(s.interfaces) /\ address \in AddressesOf(link)
  BY <1>2 DEF Pair, ToSet, AddressesOf
<1> QED BY <1>1, <1>2, <1>3, <1>4, <1>5, Zenon

\* One ordinary link in two snapshots, its index apart.
Twins(x, y) ==
    /\ x.name = y.name /\ x.kind = y.kind /\ x.state = y.state
    /\ AddressesOf(x) = AddressesOf(y)
    /\ x.kind \in Ordinary

\* What is in the running on such a link is so in both.
LEMMA TwinRuns ==
  ASSUME NEW s, WellFormed(s), NEW t, WellFormed(t), NEW config,
         NEW c \in Running(s, config), NEW y \in ToSet(t.interfaces), Twins(c.interface, y)
  PROVE  \E d \in Running(t, config) : d.interface = y /\ d.address = c.address
<1> DEFINE all == Candidates(s, config)
           other == Candidates(t, config)
           address == c.address
<1>1. PICK p \in DOMAIN all : c = all[p] /\ all[p].disqualified = None
  BY DEF Running, Eligible
<1>2. Pair(s, p) /\ all[p] = Evaluate(s, config, s.interfaces[p[1]], s.interfaces[p[1]].addresses[p[2]])
  BY CandidateAt
<1>3. Disqualify(s, config, c.interface, address) = None
  BY <1>1, <1>2 DEF Evaluate
<1>4. ~IsSynthetic(c.interface.kind) /\ ~IsSynthetic(y.kind)
  BY DEF Twins, Ordinary, IsSynthetic
<1>5. Filters(s, config, c.interface, address) = Filters(t, config, y, address)
  BY <1>4 DEF Filters, Twins
<1>6. Disqualify(t, config, y, address) = None
  BY <1>3, <1>5 DEF Disqualify
<1>7. PICK j \in DOMAIN t.interfaces : y = t.interfaces[j]
  BY DEF ToSet
<1>8. address \in AddressesOf(y)
  BY RunningScore DEF Twins
<1>9. PICK b \in DOMAIN y.addresses : y.addresses[b] = address
  BY <1>8 DEF ToSet, AddressesOf
<1> DEFINE q == <<j, b>>
           d == Evaluate(t, config, y, address)
<1>10. q \in DOMAIN other /\ other[q] = d
  BY <1>7, <1>9 DEF Candidates
<1>11. d.disqualified = None /\ d.interface = y /\ d.address = address
  BY <1>6 DEF Evaluate
<1>12. q \in Eligible(other)
  BY <1>10, <1>11 DEF Eligible
<1>13. d \in Running(t, config)
  BY <1>10, <1>12 DEF Running
<1> QED BY <1>11, <1>13

\* Of two addresses of a link in the running, the winner's counts for as much or
\* more, and is the lower of those that count the same.
LEMMA BestOnLink ==
  ASSUME NEW s, WellFormed(s), NEW config, NEW c \in Running(s, config),
         c.interface = Foremost(s, config).interface,
         c.address.family = Foremost(s, config).address.family
  PROVE  LET w == Foremost(s, config)
         IN  /\ Own(c.address) <= Own(w.address)
             /\ Own(c.address) = Own(w.address) => w.address.ip <= c.address.ip
             /\ c.address.ip \in Nat /\ w.address.ip \in Nat
<1> DEFINE w == Foremost(s, config)
<1>0. PICK link, f : link = w.interface /\ f = w.address.family
  OBVIOUS
<1>1. w \in Running(s, config) /\ ~Beats(c, w) /\ InTheRunning(s, config, c) /\ InTheRunning(s, config, w)
  BY ChosenFirst
<1>2. PICK base \in Int : Based(s, config, link, f, base)
  BY OnOneLink
<1>3. c.score = Score(s, config, link, c.address) /\ w.score = Score(s, config, link, w.address)
  BY <1>0, <1>1, RunningScore
<1>4. c.score = base + Own(c.address) /\ w.score = base + Own(w.address)
  BY <1>0, <1>2, <1>3 DEF Based
<1>5. Own(c.address) \in Int /\ Own(w.address) \in Int
  BY OwnRange
<1>6. c.address.ip \in Nat /\ w.address.ip \in Nat /\ c.interface.index \in Nat
  BY <1>1 DEF InTheRunning
<1> QED BY <1>1, <1>4, <1>5, <1>6 DEF Beats

\* Where the one default route is an ordinary link's, the winner is on that link.
LEMMA WinnerOnTheLink ==
  ASSUME NEW s, WellFormed(s), Distinct(s), NEW config, config.prefer = {},
         NEW f, NEW index,
         Only(s, config, index, f),
         NEW x \in ToSet(s.interfaces), x.index = index,
         OrdinaryRoute(s, config)
  PROVE  /\ Foremost(s, config) \in Running(s, config)
         /\ Foremost(s, config).interface = x /\ Foremost(s, config).address.family = f
         /\ Selected(s, config).ip = Foremost(s, config).address.ip
         /\ Selected(s, config).interface = x.name
<1> DEFINE w == Foremost(s, config)
<1>1. Running(s, config) # {}
  BY DEF OrdinaryRoute
<1>2. w \in Running(s, config)
  BY <1>1, ChosenFirst
<1>3. HasDefaultRoute(s, w.interface.index, w.address.family)
  BY <1>1, RouteDecides, ChosenIs
<1>4. Admits(config.prefer_family, w.address.family) /\ w.interface \in ToSet(s.interfaces)
  BY <1>2, RunningScore
<1>5. w.interface.index = index /\ w.address.family = f
  BY <1>3, <1>4 DEF Only
<1>6. w.interface = x
  BY <1>4, <1>5 DEF Distinct
<1> QED BY <1>1, <1>2, <1>5, <1>6, ChosenIs

(***************************************************************************)
(* watch.rs:227 and event.rs:69: the gate may keep the answer it has.  When *)
(* no event between two snapshots affects selection, the selector would    *)
(* return the address and the interface it returned before, on every       *)
(* machine with one default route of the families that are admitted, which *)
(* is an ordinary link's with an eligible address of its own.  Links may   *)
(* change their index, the route its metric and its gateway, and every     *)
(* other link whatever no event reports.                                   *)
(***************************************************************************)
THEOREM GateHolds ==
  ASSUME NEW s, NEW t, WellFormed(s), WellFormed(t), Distinct(s), Distinct(t), KeepsKinds(s, t),
         NEW config, config.prefer = {}, NEW f \in Families,
         OneRoute(s, config, f), OneRoute(t, config, f), OrdinaryRoute(s, config),
         GateClosed(s, t)
  PROVE  /\ Selected(s, config).ip = Selected(t, config).ip
         /\ Selected(s, config).interface = Selected(t, config).interface
<1>1. PICK index \in Nat :
            /\ HasDefaultRoute(s, index, f)
            /\ Only(s, config, index, f)
            /\ DefaultRouteInterface(s, f) = {i.name : i \in InterfaceByIndex(s, index)}
  BY TheRoute
<1>2. PICK after \in Nat :
            /\ HasDefaultRoute(t, after, f)
            /\ Only(t, config, after, f)
            /\ DefaultRouteInterface(t, f) = {i.name : i \in InterfaceByIndex(t, after)}
  BY TheRoute
<1>3. PICK c \in Running(s, config) :
            c.interface.kind \in Ordinary
            /\ HasDefaultRoute(s, c.interface.index, c.address.family)
  BY DEF OrdinaryRoute
<1>0. PICK x : x = c.interface
  OBVIOUS
<1>4. /\ Admits(config.prefer_family, c.address.family)
      /\ x \in ToSet(s.interfaces) /\ c.address \in AddressesOf(x)
  BY <1>0, RunningScore
<1>5. x.index = index /\ c.address.family = f
  BY <1>0, <1>1, <1>3, <1>4 DEF Only
<1>6. PICK y \in ToSet(t.interfaces) :
            y.name = x.name /\ y.state = x.state /\ AddressesOf(y) = AddressesOf(x)
  BY <1>4, NothingReported
<1>7. y.index = after
  <2>1. x \in InterfaceByIndex(s, index)
    BY <1>4, <1>5 DEF InterfaceByIndex
  <2>2. x.name \in DefaultRouteInterface(t, f)
    BY <1>1, <2>1, NothingReported
  <2>3. PICK z \in InterfaceByIndex(t, after) : z.name = x.name
    BY <1>2, <2>2
  <2>4. z = y
    BY <1>6, <2>3 DEF InterfaceByIndex, Distinct
  <2> QED BY <2>3, <2>4 DEF InterfaceByIndex
<1>8. y.kind = x.kind
  BY <1>4, <1>6 DEF KeepsKinds
<1>9. Twins(x, y) /\ Twins(y, x)
  BY <1>0, <1>3, <1>6, <1>8 DEF Twins
<1>10. OrdinaryRoute(t, config)
  <2>1. PICK d \in Running(t, config) : d.interface = y /\ d.address = c.address
    BY <1>0, <1>9, TwinRuns
  <2> QED BY <1>0, <1>2, <1>3, <1>5, <1>7, <1>8, <2>1 DEF OrdinaryRoute
<1> DEFINE w == Foremost(s, config)
           v == Foremost(t, config)
<1>11. /\ w \in Running(s, config) /\ w.interface = x /\ w.address.family = f
       /\ Selected(s, config).ip = w.address.ip /\ Selected(s, config).interface = x.name
  BY <1>1, <1>4, <1>5, WinnerOnTheLink
<1>12. /\ v \in Running(t, config) /\ v.interface = y /\ v.address.family = f
       /\ Selected(t, config).ip = v.address.ip /\ Selected(t, config).interface = y.name
  BY <1>2, <1>7, <1>10, WinnerOnTheLink
<1>13. PICK d \in Running(t, config) : d.interface = y /\ d.address = w.address
  BY <1>9, <1>11, TwinRuns
<1>14. PICK e \in Running(s, config) : e.interface = x /\ e.address = v.address
  BY <1>4, <1>9, <1>12, TwinRuns
<1>15. /\ Own(w.address) <= Own(v.address)
       /\ Own(w.address) = Own(v.address) => v.address.ip <= w.address.ip
  BY <1>11, <1>12, <1>13, BestOnLink
<1>16. /\ Own(v.address) <= Own(w.address)
       /\ Own(v.address) = Own(w.address) => w.address.ip <= v.address.ip
       /\ v.address.ip \in Nat /\ w.address.ip \in Nat
  BY <1>11, <1>12, <1>14, BestOnLink
<1>17. Own(w.address) \in Int /\ Own(v.address) \in Int
  BY OwnRange
<1>18. w.address.ip = v.address.ip
  <2> HIDE DEF w, v
  <2> QED BY <1>15, <1>16, <1>17
<1> QED BY <1>6, <1>11, <1>12, <1>18

----------------------------------------------------------------------------
(***************************************************************************)
(* The gate on a machine with one uplink for each family.                  *)
(***************************************************************************)
\* A link that has addresses and was not there before is reported by them.
LEMMA NothingNew ==
  ASSUME NEW s, NEW t, GateClosed(s, t), NEW y \in ToSet(t.interfaces),
         "addresses" \in DOMAIN y, HasAddress(y)
  PROVE  \E x \in ToSet(s.interfaces) : x.name = y.name
<1>1. SUFFICES ASSUME InterfaceByName(s, y.name) = {} PROVE FALSE
  BY DEF InterfaceByName
<1>2. y \in Unmatched(t, s)
  BY <1>1 DEF Unmatched
<1>3. PICK k \in DOMAIN y.addresses : TRUE
  BY DEF HasAddress
<1> DEFINE a == y.addresses[k]
           bare == [y EXCEPT !.addresses = <<>>]
           e == [event |-> "address_added", interface |-> bare.name, address |-> a]
<1>4. bare.addresses = <<>>
  OBVIOUS
<1>5. a \in AddressesOf(y) /\ a \notin AddressesOf(bare)
  BY <1>4 DEF AddressesOf, ToSet
<1>6. e \in Gained(bare, y)
  BY <1>5 DEF Gained
<1> HIDE DEF e, a
<1>7. e \in PresenceEvents(s, t)
  BY <1>2, <1>6 DEF PresenceEvents
<1>8. e \in Diff(s, t)
  BY <1>7, PartsOfDiff
<1> QED BY <1>8 DEF GateClosed, AffectsSelection, Moving, e

\* The one default route of a family is the best, and where there is none there
\* is no link it leaves by.
LEMMA DefaultLeavesBy ==
  ASSUME NEW s, WellFormed(s), NEW f
  PROVE  /\ (\A k \in DefaultRoutes(s) : s.routes[k].family # f) => DefaultRouteInterface(s, f) = {}
         /\ \A k \in DefaultRoutes(s) :
               (/\ s.routes[k].family = f
                /\ \A o \in DefaultRoutes(s) :
                      s.routes[o].family = f => s.routes[o] = s.routes[k])
               => DefaultRouteInterface(s, f)
                     = {i.name : i \in InterfaceByIndex(s, s.routes[k].index)}
<1> DEFINE at == {o \in DefaultRoutes(s) : s.routes[o].family = f}
           least == {x \in at : \A other \in at :
                        ~(\/ s.routes[other].metric < s.routes[x].metric
                          \/ /\ s.routes[other].metric = s.routes[x].metric
                             /\ s.routes[other].index < s.routes[x].index)}
<1>1. DefaultRouteFor(s, f) = IF least = {} THEN None ELSE s.routes[Min(least)]
  BY DEF DefaultRouteFor, FirstLeast
<1>2. CASE at = {}
  <2>1. DefaultRouteFor(s, f) = None
    BY <1>1, <1>2
  <2> QED BY <1>2, <2>1 DEF DefaultRouteInterface
<1>3. ASSUME NEW k \in at, \A o \in at : s.routes[o] = s.routes[k]
      PROVE  DefaultRouteInterface(s, f) = {i.name : i \in InterfaceByIndex(s, s.routes[k].index)}
  <2>1. \A o \in at : o \in Nat /\ s.routes[o].metric \in Nat /\ s.routes[o].index \in Nat
    BY DEF WellFormed, DefaultRoutes
  <2>2. least = at
    BY <1>3, <2>1
  <2>3. Min(least) \in at
    BY <2>1, <2>2, MinIsLeast
  <2>4. DefaultRouteFor(s, f) = s.routes[k]
    BY <1>1, <1>3, <2>2, <2>3
  <2>5. s.routes[k] # None
    BY DEF WellFormed, DefaultRoutes
  <2> QED BY <2>4, <2>5 DEF DefaultRouteInterface
<1>4. ASSUME \A k \in DefaultRoutes(s) : s.routes[k].family # f PROVE at = {}
  BY <1>4
<1>5. ASSUME NEW k \in DefaultRoutes(s), s.routes[k].family = f,
             \A o \in DefaultRoutes(s) : s.routes[o].family = f => s.routes[o] = s.routes[k]
      PROVE  k \in at /\ \A o \in at : s.routes[o] = s.routes[k]
  BY <1>5
<1> HIDE DEF at
<1> QED BY <1>2, <1>3, <1>4, <1>5

\* Of each family one default route is installed.
OneUplink(rows) ==
    \A q, r \in rows : Carries(q) /\ Carries(r) /\ q.default /\ r.default /\ q.family = r.family
                          => q = r

\* No two links share a name.
NamesApart(links) ==
    \A i, j \in DOMAIN links : links[i].name = links[j].name => i = j

Rooted(routes, links) == \A r \in routes : r.index \in DOMAIN links

LEMMA ShownDefault ==
  ASSUME NEW s, NEW p, NEW b, NEW r, Shows(s, p, b, r), NEW k \in DefaultRoutes(s)
  PROVE  \E a \in r : /\ Carries(a) /\ a.default /\ s.routes[k] = NetlinkRoute(a)
                      /\ s.routes[k].family = a.family /\ s.routes[k].index = a.index
<1>1. PICK a \in r : Carries(a) /\ s.routes[k] = NetlinkRoute(a)
  BY DEF DefaultRoutes, Shows, RoutesFrom
<1>2. s.routes[k].default
  BY DEF DefaultRoutes
<1> QED BY <1>1, <1>2 DEF NetlinkRoute

\* With one uplink for each family, a link to leave by tells the route.
LEMMA SameUplinks ==
  ASSUME NEW s, NEW p, NEW b, NEW r, Shows(s, p, b, r), WellFormed(s), Rooted(r, p),
         NEW t, NEW q, NEW c, NEW u, Shows(t, q, c, u), WellFormed(t),
         OneUplink(r), OneUplink(u), r \subseteq u \/ u \subseteq r,
         \A f \in Families : DefaultRouteInterface(s, f) = DefaultRouteInterface(t, f)
  PROVE  DefaultsOf(s) \subseteq DefaultsOf(t)
<1> SUFFICES ASSUME NEW k \in DefaultRoutes(s)
             PROVE  \E l \in DefaultRoutes(t) : t.routes[l] = s.routes[k]
  BY DEF DefaultsOf
<1>1. PICK a \in r : /\ Carries(a) /\ a.default /\ s.routes[k] = NetlinkRoute(a)
                     /\ s.routes[k].family = a.family /\ s.routes[k].index = a.index
  BY ShownDefault
<1>2. PICK f \in Families : f = a.family
  BY <1>1 DEF Carries
<1>3. ASSUME NEW o \in DefaultRoutes(s), s.routes[o].family = f PROVE s.routes[o] = s.routes[k]
  <2>1. PICK d \in r : /\ Carries(d) /\ d.default /\ s.routes[o] = NetlinkRoute(d)
                       /\ s.routes[o].family = d.family
    BY ShownDefault
  <2>2. d = a
    BY <1>1, <1>2, <1>3, <2>1 DEF OneUplink
  <2> QED BY <1>1, <2>1, <2>2
<1>4. DefaultRouteInterface(s, f) = {i.name : i \in InterfaceByIndex(s, a.index)}
  BY <1>1, <1>2, <1>3, DefaultLeavesBy
<1>5. PICK n \in DOMAIN s.interfaces : s.interfaces[n].index = a.index
  BY DEF Rooted, Shows
<1>6. s.interfaces[n].name \in DefaultRouteInterface(s, f)
  BY <1>4, <1>5 DEF InterfaceByIndex, ToSet
<1>7. DefaultRouteInterface(t, f) # {}
  BY <1>6
<1>8. PICK l \in DefaultRoutes(t) : t.routes[l].family = f
  BY <1>7, DefaultLeavesBy
<1>9. PICK d \in u : /\ Carries(d) /\ d.default /\ t.routes[l] = NetlinkRoute(d)
                     /\ t.routes[l].family = d.family
  BY ShownDefault
<1>10. d = a
  BY <1>1, <1>2, <1>8, <1>9 DEF OneUplink
<1> QED BY <1>1, <1>9, <1>10

\* One step leaves every link its name and kind or removes it, and installs a
\* route or takes some away.
LEMMA OneStep ==
  ASSUME MachineOK, [Next]_vars, NamesApart(present), NamesApart(present')
  PROVE  /\ setting' = setting
         /\ installed \subseteq installed' \/ installed' \subseteq installed
         /\ \A i \in DOMAIN present, j \in DOMAIN present' :
               present[i].name = present'[j].name
                  => i = j /\ present[i].kind = present'[j].kind
<1> DEFINE Same(i, j) == present[i].name = present'[j].name
                            => i = j /\ present[i].kind = present'[j].kind
<1>1. ASSUME NEW i \in DOMAIN LinkOptions, NEW link \in LinkOptions[i], LinkChanges(i, link)
      PROVE  /\ setting' = setting /\ installed' = installed
             /\ \A j \in DOMAIN present, k \in DOMAIN present' : Same(j, k)
  <2>1. /\ DOMAIN present' = DOMAIN present \cup {i}
        /\ \A j \in DOMAIN present : j # i => present'[j] = present[j]
        /\ i \in DOMAIN present => present[i].kind = present'[i].kind
    BY <1>1 DEF LinkChanges
  <2>2. ASSUME NEW j \in DOMAIN present, NEW k \in DOMAIN present' PROVE Same(j, k)
    <3>1. CASE k # i
      <4>1. k \in DOMAIN present /\ present'[k] = present[k]
        BY <2>1, <3>1
      <4> QED BY <4>1 DEF NamesApart
    <3>2. CASE k = i /\ j # i
      <4>1. j \in DOMAIN present' /\ present'[j] = present[j]
        BY <2>1, <3>2
      <4> QED BY <3>2, <4>1 DEF NamesApart
    <3>3. CASE k = i /\ j = i
      BY <2>1, <3>3
    <3> QED BY <3>1, <3>2, <3>3
  <2> QED BY <1>1, <2>2 DEF LinkChanges
<1>2. ASSUME NEW i \in DOMAIN LinkOptions, LinkGoes(i)
      PROVE  /\ setting' = setting /\ installed' \subseteq installed
             /\ \A j \in DOMAIN present, k \in DOMAIN present' : Same(j, k)
  <2>1. \A k \in DOMAIN present' : k \in DOMAIN present /\ present'[k] = present[k]
    BY <1>2 DEF LinkGoes
  <2>2. \A j \in DOMAIN present, k \in DOMAIN present' : Same(j, k)
    BY <2>1 DEF NamesApart
  <2> QED BY <1>2, <2>2 DEF LinkGoes
<1>3. ASSUME present' = present PROVE \A j \in DOMAIN present, k \in DOMAIN present' : Same(j, k)
  BY <1>3 DEF NamesApart
<1>4. ASSUME NEW a \in AddressOptions, AddressComes(a) \/ AddressGoes(a)
      PROVE  setting' = setting /\ present' = present /\ installed' = installed
  BY <1>4 DEF AddressComes, AddressGoes
<1>5. ASSUME NEW r \in RouteOptions, RouteComes(r) \/ RouteGoes(r)
      PROVE  /\ setting' = setting /\ present' = present
             /\ installed \subseteq installed' \/ installed' \subseteq installed
  BY <1>5 DEF RouteComes, RouteGoes
<1>6. CASE UNCHANGED vars
  BY <1>3, <1>6 DEF vars
<1>7. CASE Next
  <2>1. CASE \E i \in DOMAIN LinkOptions :
                (\E link \in LinkOptions[i] : LinkChanges(i, link)) \/ LinkGoes(i)
    BY <1>1, <1>2, <2>1
  <2>2. CASE \E a \in AddressOptions : AddressComes(a) \/ AddressGoes(a)
    BY <1>3, <1>4, <2>2
  <2>3. CASE \E r \in RouteOptions : RouteComes(r) \/ RouteGoes(r)
    BY <1>3, <1>5, <2>3
  <2> QED BY <1>7, <2>1, <2>2, <2>3 DEF Next
<1> QED BY <1>6, <1>7

\* Where no event affects selection, the links that have addresses are the same,
\* and so are the default routes.
LEMMA GateLeaves ==
  ASSUME NEW s, NEW p, NEW b, NEW r, Shows(s, p, b, r), WellFormed(s), Rooted(r, p),
         NEW t, NEW q, NEW c, NEW u, Shows(t, q, c, u), WellFormed(t), Rooted(u, q),
         OneUplink(r), OneUplink(u), r \subseteq u \/ u \subseteq r,
         NamesApart(q),
         \A i \in DOMAIN p, j \in DOMAIN q :
            p[i].name = q[j].name => i = j /\ p[i].kind = q[j].kind,
         GateClosed(s, t)
  PROVE  Equivalent(s, t)
<1>1. ASSUME NEW i \in DOMAIN s.interfaces, NEW j \in DOMAIN t.interfaces,
             s.interfaces[i].name = t.interfaces[j].name,
             s.interfaces[i].state = t.interfaces[j].state,
             AddressesOf(s.interfaces[i]) = AddressesOf(t.interfaces[j])
      PROVE  SameLink(s.interfaces[i], t.interfaces[j])
  <2> DEFINE x == s.interfaces[i]
             y == t.interfaces[j]
  <2>1. /\ x.index \in DOMAIN p /\ x.name = p[x.index].name /\ x.kind = p[x.index].kind
        /\ y.index \in DOMAIN q /\ y.name = q[y.index].name /\ y.kind = q[y.index].kind
    BY DEF Shows, Shown
  <2>2. x.index = y.index /\ x.kind = y.kind
    BY <1>1, <2>1
  <2>3. AddressSet(x) = AddressSet(y)
    BY <1>1 DEF AddressSet, AddressesOf, ToSet
  <2> QED BY <1>1, <2>2, <2>3 DEF SameLink
<1>2. ASSUME NEW i \in DOMAIN s.interfaces
      PROVE  \E j \in DOMAIN t.interfaces : SameLink(s.interfaces[i], t.interfaces[j])
  <2>1. s.interfaces[i] \in ToSet(s.interfaces)
    BY DEF ToSet
  <2>2. PICK y \in ToSet(t.interfaces) :
            /\ y.name = s.interfaces[i].name /\ y.state = s.interfaces[i].state
            /\ AddressesOf(y) = AddressesOf(s.interfaces[i])
    BY <2>1, NothingReported
  <2>3. PICK j \in DOMAIN t.interfaces : y = t.interfaces[j]
    BY DEF ToSet
  <2> QED BY <1>1, <2>2, <2>3
<1>3. ASSUME NEW j \in DOMAIN t.interfaces, HasAddress(t.interfaces[j])
      PROVE  \E i \in DOMAIN s.interfaces : SameLink(s.interfaces[i], t.interfaces[j])
  <2> DEFINE y == t.interfaces[j]
  <2>1. y \in ToSet(t.interfaces) /\ "addresses" \in DOMAIN y
    BY DEF ToSet, Shows, Shown
  <2>2. PICK x \in ToSet(s.interfaces) : x.name = y.name
    BY <1>3, <2>1, NothingNew
  <2>3. PICK i \in DOMAIN s.interfaces : x = s.interfaces[i]
    BY DEF ToSet
  <2>4. PICK k \in DOMAIN t.interfaces : SameLink(x, t.interfaces[k])
    BY <1>2, <2>3
  <2>5. t.interfaces[k].name = y.name
    BY <2>2, <2>4 DEF SameLink
  <2>6. t.interfaces[k].index = y.index
    <3>1. ASSUME NEW n \in DOMAIN t.interfaces
          PROVE  /\ t.interfaces[n].index \in DOMAIN q
                 /\ t.interfaces[n].name = q[t.interfaces[n].index].name
      BY DEF Shows, Shown
    <3> QED BY <2>5, <3>1 DEF NamesApart
  <2>7. k = j
    BY <2>6 DEF Shows
  <2> QED BY <2>3, <2>4, <2>7
<1>4. \A f \in Families : DefaultRouteInterface(s, f) = DefaultRouteInterface(t, f)
  BY NothingReported
<1>5. DefaultsOf(s) \subseteq DefaultsOf(t) /\ DefaultsOf(t) \subseteq DefaultsOf(s)
  BY <1>4, SameUplinks
<1> QED BY <1>2, <1>3, <1>5 DEF Equivalent

(***************************************************************************)
(* watch.rs:227 and event.rs:69: a machine on which at every moment no two *)
(* links share a name, no address is bound twice to a link and each family *)
(* has one default route at most.  Whatever its links, addresses and       *)
(* routes do, and under every configuration, a step no event of which      *)
(* affects selection leaves the answer where it was.                       *)
(***************************************************************************)
THEOREM GateNeverLies ==
  Spec /\ [](NamesApart(present) /\ BoundOnce(bound) /\ OneUplink(installed)) => GateSound
<1> DEFINE Plain == NamesApart(present) /\ BoundOnce(bound) /\ OneUplink(installed)
           Unmoved == \A before \in {Snapshot}, after \in {Snapshot'} :
                         \/ AffectsSelection(Diff(before, after))
                         \/ Answer(Selected(before, setting)) = Answer(Selected(after, setting))
<1>1. MachineOK => Taken(Snapshot) /\ WellFormed(Snapshot) /\ Rooted(installed, present)
  BY SnapshotShows, TakenIsWellFormed DEF MachineOK, Rooted
<1>2. MachineOK' => Taken(Snapshot)' /\ WellFormed(Snapshot)' /\ Rooted(installed, present)'
  BY <1>1, PTL
<1>3. ASSUME MachineOK, MachineOK', Plain, Plain', [Next]_vars PROVE Unmoved
  <2>1. SUFFICES ASSUME NEW s, s = Snapshot, NEW t, t = Snapshot', GateClosed(s, t)
                 PROVE  Selected(s, setting) = Selected(t, setting)
    BY DEF GateClosed
  <2>2. Taken(s) /\ WellFormed(s) /\ Rooted(installed, present)
    BY <1>1, <1>3, <2>1
  <2>3. Shows(s, present, bound, installed)
    BY <2>2 DEF Taken
  <2>4. Shows(t, present', bound', installed') /\ WellFormed(t) /\ Rooted(installed', present')
    BY <1>2, <1>3, <2>1 DEF Taken
  <2>5. /\ NamesApart(present) /\ NamesApart(present')
        /\ BoundOnce(bound) /\ OneUplink(installed) /\ OneUplink(installed')
    BY <1>3
  <2>6. /\ installed \subseteq installed' \/ installed' \subseteq installed
        /\ \A i \in DOMAIN present, j \in DOMAIN present' :
              present[i].name = present'[j].name => i = j /\ present[i].kind = present'[j].kind
    BY <1>3, <2>5, OneStep
  <2>7. Equivalent(s, t)
    BY <2>1, <2>2, <2>3, <2>4, <2>5, <2>6, GateLeaves
  <2>8. CostsDiffer(installed)
    BY <2>5 DEF OneUplink, CostsDiffer
  <2>9. Keyed(s) /\ Untied(s)
    BY <1>3, <2>2, <2>5, <2>8, TakenIsKeyed, TakenIsUntied
  <2> QED BY <2>2, <2>4, <2>7, <2>9, OrderForgotten
<1>4. ASSUME MachineOK, MachineOK', Plain, Plain', [Next]_vars PROVE [Unmoved]_vars
  BY <1>3, <1>4
<1> QED BY <1>4, MachineInit, MachineNext, PTL DEF Spec, GateSound

----------------------------------------------------------------------------
(***************************************************************************)
(* Reading a routing dump.  The words a sockaddr takes are those the walk  *)
(* over the slots steps by, so the walk finds what the kernel wrote.       *)
(***************************************************************************)
Width(len) == IF len = 0 THEN 1 ELSE (len + 3) \div 4

LEMMA WidthSteps ==
  ASSUME NEW len \in 0..28
  PROVE  Width(len) \in 1..7 /\ RoundUp(len) \div 4 = Width(len) /\ len <= 4 * Width(len)
<1>1. len # 0 => (4 * ((len + 3) \div 4)) \div 4 = (len + 3) \div 4
  OBVIOUS
<1> QED BY <1>1 DEF Width, RoundUp

\* The words a sockaddr is written in: itself in the first, the rest filled.
LEMMA WordsHold ==
  ASSUME NEW S, NEW sa \in S, Filler \in S, sa.len \in 0..28
  PROVE  /\ Words(sa) \in Seq(S)
         /\ Len(Words(sa)) = Width(sa.len)
         /\ Words(sa)[1] = sa
<1> DEFINE n == IF sa.len = 0 THEN 0 ELSE (sa.len + 3) \div 4 - 1
           rest == [k \in 1..n |-> Filler]
<1>1. n \in Nat /\ Width(sa.len) = 1 + n
  BY DEF Width
<1> HIDE DEF n
<1>2. rest \in Seq(S) /\ Len(rest) = n
  BY <1>1
<1>3. <<sa>> \in Seq(S) /\ Len(<<sa>>) = 1 /\ <<sa>>[1] = sa
  OBVIOUS
<1> HIDE DEF rest
<1>4. /\ <<sa>> \o rest \in Seq(S) /\ Len(<<sa>> \o rest) = 1 + n
      /\ (<<sa>> \o rest)[1] = sa
  BY <1>1, <1>2, <1>3, ConcatProperties
<1>5. Words(sa) = <<sa>> \o rest
  BY DEF Words, n, rest
<1> QED BY <1>1, <1>4, <1>5

\* What is behind one list of words begins where that list ends.
LEMMA Behind ==
  ASSUME NEW S, NEW s \in Seq(S), NEW t \in Seq(S)
  PROVE  /\ s \o t \in Seq(S)
         /\ Len(s \o t) = Len(s) + Len(t)
         /\ Len(t) # 0 => (s \o t)[Len(s) + 1] = t[1]
         /\ \A i \in 1..Len(s) : (s \o t)[i] = s[i]
<1>1. Len(s) \in Nat /\ Len(t) \in Nat
  OBVIOUS
<1> QED BY <1>1, ConcatProperties

----------------------------------------------------------------------------
\* Where each slot begins, as the kernel wrote the block.
Laid(block, addrs, o) ==
    /\ o[1] = 0 /\ o[9] <= Len(block)
    /\ \A k \in 1..8 :
          IF SlotOrder[k] \in addrs
          THEN /\ o[k] < Len(block) /\ block[o[k] + 1].len \in 0..28
               /\ o[k + 1] = o[k] + Width(block[o[k] + 1].len)
               /\ o[k + 1] <= Len(block)
          ELSE o[k + 1] = o[k]

SlotAt(slot) == CHOOSE k \in 1..8 : SlotOrder[k] = slot

\* One step of the walk, where there is room for the sockaddr.
LEMMA OneSlot ==
  ASSUME NEW at \in Nat, NEW room0 \in Nat, NEW len \in 0..28,
         at < room0, at + Width(len) <= room0
  PROVE  /\ at \in 0..(room0 + 1) /\ ~(at >= room0)
         /\ ~(len > 4 * (room0 - at))
         /\ Min({at + RoundUp(len) \div 4, room0}) = at + Width(len)
<1>1. PICK w \in 1..7 : w = Width(len) /\ RoundUp(len) \div 4 = w /\ len <= 4 * w
  BY WidthSteps
<1>2. {at + w, room0} \subseteq Nat /\ {at + w, room0} # {}
  OBVIOUS
<1>3. Min({at + w, room0}) \in {at + w, room0} /\ Min({at + w, room0}) <= at + w
  BY <1>2, MinIsLeast
<1>4. Min({at + w, room0}) = at + w
  BY <1>1, <1>3
<1>5. Min({at + RoundUp(len) \div 4, room0}) = at + Width(len)
  BY <1>1, <1>4, Zenon
<1>6. at \in 0..(room0 + 1) /\ ~(at >= room0) /\ ~(len > 4 * (room0 - at))
  <2>1. at + w <= room0
    BY <1>1
  <2> QED BY <1>1, <2>1
<1> QED BY <1>5, <1>6

\* The walk over the slots begins each where the kernel did.
LEMMA SlotsWalk ==
  ASSUME NEW block, NEW addrs, Len(block) \in Nat,
         NEW o \in [1..9 -> Nat], Laid(block, addrs, o)
  PROVE  Slots(block, addrs) = [slot \in addrs |-> block[o[SlotAt(slot)] + 1]]
<1> DEFINE cut == Len(block) + 1
           after == [at \in 0..cut |->
                    IF at >= Len(block) THEN cut
                    ELSE IF block[at + 1].len > 4 * (Len(block) - at) THEN cut
                    ELSE Min({at + RoundUp(block[at + 1].len) \div 4, Len(block)})]
           Next1(f) == [k \in 1..9 |->
                          IF k = 1 THEN 0
                          ELSE IF SlotOrder[k - 1] \in addrs THEN after[f[k - 1]]
                          ELSE f[k - 1]]
           begin == CHOOSE f : f = Next1(f)
<1>1. Slots(block, addrs) =
         IF begin[9] = cut THEN None
         ELSE [slot \in addrs |-> block[begin[SlotAt(slot)] + 1]]
  BY DEF Slots, SlotAt
<1>2. ASSUME NEW k \in 1..8, SlotOrder[k] \in addrs
      PROVE  after[o[k]] = o[k + 1]
  <2>1. k \in 1..9 /\ k + 1 \in 1..9
    BY SMTT(30)
  <2>2. o[k] \in Nat /\ o[k + 1] \in Nat
    BY <2>1
  <2>3. /\ o[k] < Len(block) /\ block[o[k] + 1].len \in 0..28
        /\ o[k + 1] = o[k] + Width(block[o[k] + 1].len) /\ o[k + 1] <= Len(block)
    BY <1>2, Zenon DEF Laid
  <2>4. /\ o[k] \in 0..cut /\ ~(o[k] >= Len(block))
        /\ ~(block[o[k] + 1].len > 4 * (Len(block) - o[k]))
        /\ Min({o[k] + RoundUp(block[o[k] + 1].len) \div 4, Len(block)})
             = o[k] + Width(block[o[k] + 1].len)
    BY <2>2, <2>3, OneSlot, Zenon
  <2> QED BY <2>3, <2>4
<1> HIDE DEF after
<1>3. o = Next1(o)
  <2>1. \A k \in 1..9 : o[k] = Next1(o)[k]
    <3> SUFFICES ASSUME NEW k \in 1..9 PROVE o[k] = Next1(o)[k]
      OBVIOUS
    <3>1. CASE k = 1
      BY <3>1 DEF Laid
    <3>2. CASE k # 1
      <4>1. k - 1 \in 1..8 /\ (k - 1) + 1 = k
        BY <3>2
      <4>2. CASE SlotOrder[k - 1] \in addrs
        BY <1>2, <3>2, <4>1, <4>2
      <4>3. CASE SlotOrder[k - 1] \notin addrs
        BY <3>2, <4>1, <4>3, Zenon DEF Laid
      <4> QED BY <4>2, <4>3
    <3> QED BY <3>1, <3>2
  <2> QED BY <2>1
<1>4. begin = Next1(begin)
  BY <1>3, Zenon
<1> HIDE DEF begin
<1>5. begin[1] = o[1]
  BY <1>4 DEF Laid
<1>6. ASSUME NEW k \in 1..8, begin[k] = o[k] PROVE begin[k + 1] = o[k + 1]
  <2>1. k + 1 \in 1..9 /\ k + 1 # 1 /\ (k + 1) - 1 = k
    OBVIOUS
  <2>2. begin[k + 1] = IF SlotOrder[k] \in addrs THEN after[begin[k]] ELSE begin[k]
    BY <1>4, <2>1
  <2>3. CASE SlotOrder[k] \in addrs
    BY <1>2, <1>6, <2>2, <2>3
  <2>4. CASE SlotOrder[k] \notin addrs
    BY <1>6, <2>2, <2>4 DEF Laid
  <2> QED BY <2>3, <2>4
<1>7. /\ begin[1] = o[1] /\ begin[2] = o[2] /\ begin[3] = o[3] /\ begin[4] = o[4]
      /\ begin[5] = o[5] /\ begin[6] = o[6] /\ begin[7] = o[7] /\ begin[8] = o[8]
      /\ begin[9] = o[9]
  <2>1. /\ begin[1 + 1] = o[1 + 1]
    BY <1>5, <1>6
  <2>2. begin[2 + 1] = o[2 + 1]
    BY <2>1, <1>6
  <2>3. begin[3 + 1] = o[3 + 1]
    BY <2>2, <1>6
  <2>4. begin[4 + 1] = o[4 + 1]
    BY <2>3, <1>6
  <2>5. begin[5 + 1] = o[5 + 1]
    BY <2>4, <1>6
  <2>6. begin[6 + 1] = o[6 + 1]
    BY <2>5, <1>6
  <2>7. begin[7 + 1] = o[7 + 1]
    BY <2>6, <1>6
  <2>8. begin[8 + 1] = o[8 + 1]
    BY <2>7, <1>6
  <2> QED BY <1>5, <2>1, <2>2, <2>3, <2>4, <2>5, <2>6, <2>7, <2>8
<1>8. begin[9] # cut
  BY <1>7 DEF Laid
<1>9. begin = o
  BY <1>4, <1>7, SMTT(30)
<1> QED BY <1>1, <1>8, <1>9

LEMMA SlotsAt == SlotAt("DST") = 1 /\ SlotAt("GATEWAY") = 2 /\ SlotAt("NETMASK") = 3
<1>1. /\ SlotOrder[1] = "DST" /\ SlotOrder[2] = "GATEWAY" /\ SlotOrder[3] = "NETMASK"
      /\ SlotOrder[4] = "GENMASK" /\ SlotOrder[5] = "IFP" /\ SlotOrder[6] = "IFA"
      /\ SlotOrder[7] = "AUTHOR" /\ SlotOrder[8] = "BRD"
  BY DEF SlotOrder
<1>2. \A k \in 1..8 : k = 1 \/ k = 2 \/ k = 3 \/ k = 4 \/ k = 5 \/ k = 6 \/ k = 7 \/ k = 8
  OBVIOUS
<1>3. \A k \in 1..8 : /\ SlotOrder[k] = "DST" => k = 1
                      /\ SlotOrder[k] = "GATEWAY" => k = 2
                      /\ SlotOrder[k] = "NETMASK" => k = 3
  BY <1>1, <1>2
<1> QED BY <1>1, <1>3 DEF SlotAt

\* Five lists of words, of which the third may be empty, and where each begins.
Parted(block, D, G, M, I, A) ==
    LET g == Len(D)
        m == g + Len(G)
        i == m + Len(M)
        a == i + Len(I)
    IN  /\ Len(block) = a + Len(A)
        /\ block[0 + 1] = D[1] /\ block[g + 1] = G[1]
        /\ Len(M) # 0 => block[m + 1] = M[1]
        /\ block[i + 1] = I[1] /\ block[a + 1] = A[1]

LEMMA FiveParts ==
  ASSUME NEW S, NEW D \in Seq(S), NEW G \in Seq(S), NEW M \in Seq(S), NEW I \in Seq(S),
         NEW A \in Seq(S), Len(D) # 0, Len(G) # 0, Len(I) # 0, Len(A) # 0
  PROVE  Parted(D \o G \o M \o I \o A, D, G, M, I, A)
<1>1. /\ Len(D) \in Nat /\ Len(G) \in Nat /\ Len(M) \in Nat /\ Len(I) \in Nat /\ Len(A) \in Nat
  OBVIOUS
<1>2. PICK P : P = D \o G
  OBVIOUS
<1>3. PICK Q : Q = P \o M
  OBVIOUS
<1>4. PICK R : R = Q \o I
  OBVIOUS
<1>5. PICK B : B = R \o A
  OBVIOUS
<1>6. /\ P \in Seq(S) /\ Len(P) = Len(D) + Len(G) /\ P[Len(D) + 1] = G[1]
      /\ \A k \in 1..Len(D) : P[k] = D[k]
  BY <1>2, Behind
<1>7. /\ Q \in Seq(S) /\ Len(Q) = Len(P) + Len(M) /\ (Len(M) # 0 => Q[Len(P) + 1] = M[1])
      /\ \A k \in 1..Len(P) : Q[k] = P[k]
  <2>1. P \in Seq(S)
    BY <1>6
  <2> QED BY <1>3, <2>1, Behind
<1>8. /\ R \in Seq(S) /\ Len(R) = Len(Q) + Len(I) /\ R[Len(Q) + 1] = I[1]
      /\ \A k \in 1..Len(Q) : R[k] = Q[k]
  <2>1. Q \in Seq(S)
    BY <1>7
  <2> QED BY <1>4, <2>1, Behind
<1>9. /\ Len(B) = Len(R) + Len(A) /\ B[Len(R) + 1] = A[1]
      /\ \A k \in 1..Len(R) : B[k] = R[k]
  <2>1. R \in Seq(S)
    BY <1>8
  <2> QED BY <1>5, <2>1, Behind
<1>10. PICK d \in Nat, g \in Nat, m \in Nat, i \in Nat, a \in Nat :
          d = Len(D) /\ g = Len(G) /\ m = Len(M) /\ i = Len(I) /\ a = Len(A)
  BY <1>1
<1>11. /\ Len(P) = d + g /\ Len(Q) = d + g + m /\ Len(R) = d + g + m + i
       /\ Len(B) = d + g + m + i + a /\ d # 0 /\ g # 0 /\ i # 0
  BY <1>6, <1>7, <1>8, <1>9, <1>10
<1>12. /\ 1 \in 1..d /\ 1 \in 1..(d + g) /\ 1 \in 1..(d + g + m) /\ 1 \in 1..(d + g + m + i)
       /\ d + 1 \in 1..(d + g) /\ d + 1 \in 1..(d + g + m) /\ d + 1 \in 1..(d + g + m + i)
       /\ m # 0 => d + g + 1 \in 1..(d + g + m)
       /\ d + g + 1 \in 1..(d + g + m + i)
       /\ d + g + m + 1 \in 1..(d + g + m + i)
       /\ 0 + 1 = 1
  BY <1>11
<1>13. /\ B[0 + 1] = D[1] /\ B[d + 1] = G[1] /\ (m # 0 => B[d + g + 1] = M[1])
       /\ B[d + g + m + 1] = I[1] /\ B[d + g + m + i + 1] = A[1]
  <2>1. /\ P[1] = D[1] /\ P[d + 1] = G[1] /\ (m # 0 => Q[d + g + 1] = M[1])
        /\ R[d + g + m + 1] = I[1] /\ B[d + g + m + i + 1] = A[1]
    BY <1>6, <1>7, <1>8, <1>9, <1>10, <1>11, <1>12, Zenon
  <2>2. /\ \A k \in 1..(d + g) : Q[k] = P[k]
        /\ \A k \in 1..(d + g + m) : R[k] = Q[k]
        /\ \A k \in 1..(d + g + m + i) : B[k] = R[k]
    BY <1>7, <1>8, <1>9, <1>11, Zenon
  <2>3. B[1] = D[1]
    BY <1>12, <2>1, <2>2, Zenon
  <2>4. B[d + 1] = G[1]
    BY <1>12, <2>1, <2>2, Zenon
  <2>5. m # 0 => B[d + g + 1] = M[1]
    BY <1>12, <2>1, <2>2, Zenon
  <2>6. B[d + g + m + 1] = I[1]
    BY <1>12, <2>1, <2>2, Zenon
  <2> QED BY <1>12, <2>1, <2>3, <2>4, <2>5, <2>6, Zenon
<1>14. B = D \o G \o M \o I \o A
  BY <1>2, <1>3, <1>4, <1>5
<1> QED BY <1>10, <1>11, <1>13, <1>14, Zenon DEF Parted

\* The slots of a message: destination, gateway, a mask or none, the interface
\* by index and by address, in blocks of these widths.
Claimed(masked) == {"DST", "GATEWAY", "IFP", "IFA"} \cup (IF masked THEN {"NETMASK"} ELSE {})

Places(d, g, m, i, a) ==
    [k \in 1..9 |-> IF k = 1 THEN 0 ELSE IF k = 2 THEN d ELSE IF k = 3 THEN d + g
                    ELSE IF k = 4 \/ k = 5 THEN d + g + m
                    ELSE IF k = 6 THEN d + g + m + i ELSE d + g + m + i + a]

\* A sockaddr of so many words begins here.
Begins(block, at, width) == block[at + 1].len \in 0..28 /\ width = Width(block[at + 1].len)

Written(block, masked, d, g, m, i, a) ==
    /\ Len(block) = d + g + m + i + a
    /\ IF masked THEN m # 0 /\ Begins(block, d + g, m) ELSE m = 0
    /\ Begins(block, 0, d) /\ Begins(block, d, g) /\ Begins(block, d + g + m, i)
    /\ Begins(block, d + g + m + i, a)

LEMMA SlotsClaimed ==
  ASSUME NEW masked \in BOOLEAN
  PROVE  /\ SlotOrder[1] \in Claimed(masked) /\ SlotOrder[2] \in Claimed(masked)
         /\ (SlotOrder[3] \in Claimed(masked) <=> masked) /\ SlotOrder[4] \notin Claimed(masked)
         /\ SlotOrder[5] \in Claimed(masked) /\ SlotOrder[6] \in Claimed(masked)
         /\ SlotOrder[7] \notin Claimed(masked) /\ SlotOrder[8] \notin Claimed(masked)
<1>1. /\ SlotOrder[1] = "DST" /\ SlotOrder[2] = "GATEWAY" /\ SlotOrder[3] = "NETMASK"
      /\ SlotOrder[4] = "GENMASK" /\ SlotOrder[5] = "IFP" /\ SlotOrder[6] = "IFA"
      /\ SlotOrder[7] = "AUTHOR" /\ SlotOrder[8] = "BRD"
  BY DEF SlotOrder
<1> QED BY <1>1 DEF Claimed

LEMMA LaidInOrder ==
  ASSUME NEW block, NEW masked \in BOOLEAN,
         NEW d \in 1..7, NEW g \in 1..7, NEW m \in 0..7, NEW i \in 1..7, NEW a \in 1..7,
         Written(block, masked, d, g, m, i, a)
  PROVE  Laid(block, Claimed(masked), Places(d, g, m, i, a))
<1> DEFINE o == Places(d, g, m, i, a)
           Step(k) == IF SlotOrder[k] \in Claimed(masked)
                      THEN /\ o[k] < Len(block) /\ block[o[k] + 1].len \in 0..28
                           /\ o[k + 1] = o[k] + Width(block[o[k] + 1].len)
                           /\ o[k + 1] <= Len(block)
                      ELSE o[k + 1] = o[k]
<1>1. /\ o[1] = 0 /\ o[2] = d /\ o[3] = d + g /\ o[4] = d + g + m /\ o[5] = d + g + m
      /\ o[6] = d + g + m + i /\ o[7] = d + g + m + i + a /\ o[8] = d + g + m + i + a
      /\ o[9] = d + g + m + i + a
  BY DEF Places
<1> HIDE DEF o
<1>2. /\ SlotOrder[1] \in Claimed(masked) /\ SlotOrder[2] \in Claimed(masked)
      /\ (SlotOrder[3] \in Claimed(masked) <=> masked) /\ SlotOrder[4] \notin Claimed(masked)
      /\ SlotOrder[5] \in Claimed(masked) /\ SlotOrder[6] \in Claimed(masked)
      /\ SlotOrder[7] \notin Claimed(masked) /\ SlotOrder[8] \notin Claimed(masked)
  BY SlotsClaimed, Zenon
<1>3. /\ 0 + 1 = 1 /\ 1 + 1 = 2 /\ 2 + 1 = 3 /\ 3 + 1 = 4 /\ 4 + 1 = 5 /\ 5 + 1 = 6 /\ 6 + 1 = 7
      /\ 7 + 1 = 8 /\ 8 + 1 = 9
  OBVIOUS
<1>4. PICK len : len = Len(block)
  OBVIOUS
<1>5. len = d + g + m + i + a
  BY <1>4, Zenon DEF Written
<1>6. /\ 0 < len /\ d < len /\ (m # 0 => d + g < len)
      /\ d + g + m < len /\ d + g + m + i < len
      /\ d <= len /\ d + g <= len /\ d + g + m <= len
      /\ d + g + m + i <= len /\ d + g + m + i + a <= len
      /\ 0 + d = d /\ (m = 0 => d + g + m = d + g)
  BY <1>5
<1>7. Step(1)
  BY <1>1, <1>2, <1>3, <1>4, <1>6, ZenonT(60) DEF Written, Begins
<1>8. Step(2)
  BY <1>1, <1>2, <1>3, <1>4, <1>6, ZenonT(60) DEF Written, Begins
<1>9. Step(3)
  <2>1. CASE masked
    BY <1>1, <1>2, <1>3, <1>4, <1>6, <2>1, ZenonT(60) DEF Written, Begins
  <2>2. CASE ~masked
    BY <1>1, <1>2, <1>3, <1>6, <2>2, Zenon DEF Written
  <2> QED BY <2>1, <2>2
<1>10. Step(4)
  BY <1>1, <1>2, <1>3, Zenon
<1>11. Step(5)
  BY <1>1, <1>2, <1>3, <1>4, <1>6, Zenon DEF Written, Begins
<1>12. Step(6)
  BY <1>1, <1>2, <1>3, <1>4, <1>6, Zenon DEF Written, Begins
<1>13. Step(7) /\ Step(8)
  BY <1>1, <1>2, <1>3, Zenon
<1>14. o[1] = 0 /\ o[9] <= Len(block)
  BY <1>1, <1>4, <1>6, Zenon
<1> HIDE DEF Step
<1>15. \A k \in 1..8 : Step(k)
  <2>1. \A k \in 1..8 : k = 1 \/ k = 2 \/ k = 3 \/ k = 4 \/ k = 5 \/ k = 6 \/ k = 7 \/ k = 8
    OBVIOUS
  <2> QED BY <1>7, <1>8, <1>9, <1>10, <1>11, <1>12, <1>13, <2>1, Zenon
<1> QED BY <1>14, <1>15, Zenon DEF Laid, Step, o

\* What a message says of its block, and the kernel's words for it.
Composed(block, masked, d, g, m, i, a) ==
    block = Words(d) \o Words(g) \o (IF masked THEN Words(m) ELSE <<>>) \o Words(i) \o Words(a)

\* The slots come out as they were put in.
Decomposed(found, masked, d, g, m) ==
    /\ found = [slot \in DOMAIN found |-> found[slot]]
    /\ DOMAIN found = Claimed(masked)
    /\ found["DST"] = d /\ found["GATEWAY"] = g
    /\ masked => found["NETMASK"] = m

LEMMA BlockRead ==
  ASSUME NEW d, d.len \in 0..28, NEW g, g.len \in 0..28, NEW m, m.len \in 0..28,
         NEW i, i.len \in 0..28, NEW a, a.len \in 0..28, NEW masked \in BOOLEAN,
         NEW block, Composed(block, masked, d, g, m, i, a)
  PROVE  Decomposed(Slots(block, Claimed(masked)), masked, d, g, m)
<1> DEFINE S == {d, g, m, i, a, Filler}
           mask == IF masked THEN Words(m) ELSE <<>>
           WrittenAs(sa, W, w) == /\ W \in Seq(S) /\ w = Len(W) /\ W[1] = sa
                                  /\ w = Width(sa.len) /\ sa.len \in 0..28 /\ w \in 1..7
<1>1. /\ WrittenAs(d, Words(d), Width(d.len)) /\ WrittenAs(g, Words(g), Width(g.len))
      /\ WrittenAs(m, Words(m), Width(m.len)) /\ WrittenAs(i, Words(i), Width(i.len))
      /\ WrittenAs(a, Words(a), Width(a.len))
  <2>1. ASSUME NEW sa \in S, sa.len \in 0..28 PROVE WrittenAs(sa, Words(sa), Width(sa.len))
    <3>1. Filler \in S
      OBVIOUS
    <3> HIDE DEF S
    <3> QED BY <2>1, <3>1, WidthSteps, WordsHold
  <2>2. d \in S /\ g \in S /\ m \in S /\ i \in S /\ a \in S
    OBVIOUS
  <2> HIDE DEF S, WrittenAs
  <2> QED BY <2>1, <2>2
<1> HIDE DEF S
<1>2. PICK D, wd : D = Words(d) /\ WrittenAs(d, D, wd)
  BY <1>1, Zenon
<1>3. PICK G, wg : G = Words(g) /\ WrittenAs(g, G, wg)
  BY <1>1, Zenon
<1>4. PICK I, wi : I = Words(i) /\ WrittenAs(i, I, wi)
  BY <1>1, Zenon
<1>5. PICK A, wa : A = Words(a) /\ WrittenAs(a, A, wa)
  BY <1>1, Zenon
<1>6. PICK M, w : /\ M = mask /\ M \in Seq(S) /\ w = Len(M) /\ w \in 0..7
                  /\ IF masked THEN WrittenAs(m, M, w) ELSE w = 0
  <2>1. CASE masked
    <3>1. WrittenAs(m, mask, Width(m.len))
      BY <1>1, <2>1, Zenon
    <3>2. Width(m.len) \in 0..7
      BY <3>1
    <3> QED BY <2>1, <3>1, <3>2, Zenon
  <2>2. CASE ~masked
    <3>1. mask \in Seq(S) /\ 0 = Len(mask) /\ 0 \in 0..7
      BY <2>2
    <3> QED BY <2>2, <3>1, Zenon
  <2> QED BY <2>1, <2>2
<1> HIDE DEF WrittenAs
<1>7. block = D \o G \o M \o I \o A
  BY <1>2, <1>3, <1>4, <1>5, <1>6, Zenon DEF Composed
<1> HIDE DEF mask
<1>8. /\ wd \in 1..7 /\ wg \in 1..7 /\ wi \in 1..7 /\ wa \in 1..7 /\ w \in 0..7
      /\ masked => w \in 1..7
  BY <1>2, <1>3, <1>4, <1>5, <1>6, Zenon DEF WrittenAs
<1>9. /\ wd # 0 /\ wg # 0 /\ wi # 0 /\ wa # 0 /\ (masked => w # 0)
  BY <1>8
<1>10. /\ Len(block) = wd + wg + w + wi + wa
       /\ block[0 + 1] = d /\ block[wd + 1] = g
       /\ masked => block[wd + wg + 1] = m
       /\ block[wd + wg + w + 1] = i
       /\ block[wd + wg + w + wi + 1] = a
  <2>1. /\ Len(block) = wd + wg + w + wi + wa
        /\ block[0 + 1] = D[1] /\ block[wd + 1] = G[1]
        /\ w # 0 => block[wd + wg + 1] = M[1]
        /\ block[wd + wg + w + 1] = I[1]
        /\ block[wd + wg + w + wi + 1] = A[1]
    <3>1. /\ D \in Seq(S) /\ G \in Seq(S) /\ M \in Seq(S) /\ I \in Seq(S) /\ A \in Seq(S)
          /\ wd = Len(D) /\ wg = Len(G) /\ w = Len(M) /\ wi = Len(I) /\ wa = Len(A)
      BY <1>2, <1>3, <1>4, <1>5, <1>6, Zenon DEF WrittenAs
    <3>2. Parted(block, D, G, M, I, A)
      BY <1>7, <1>9, <3>1, FiveParts
    <3> QED BY <3>1, <3>2, Zenon DEF Parted
  <2> QED BY <1>2, <1>3, <1>4, <1>5, <1>6, <1>9, <2>1, Zenon DEF WrittenAs
<1>11. Written(block, masked, wd, wg, w, wi, wa)
  BY <1>2, <1>3, <1>4, <1>5, <1>6, <1>9, <1>10, Zenon DEF Written, Begins, WrittenAs
<1>12. PICK o : o = Places(wd, wg, w, wi, wa)
  OBVIOUS
<1>13. Laid(block, Claimed(masked), o)
  BY <1>8, <1>11, <1>12, LaidInOrder, Zenon
<1>14. o \in [1..9 -> Nat] /\ o[1] = 0 /\ o[2] = wd /\ o[3] = wd + wg
  BY <1>8, <1>12 DEF Places
<1>15. Len(block) \in Nat
  <2>1. PICK len : len = Len(block)
    OBVIOUS
  <2>2. len = wd + wg + w + wi + wa
    BY <1>10, <2>1
  <2>3. len \in Nat
    BY <1>8, <2>2
  <2> QED BY <2>1, <2>3
<1>16. PICK found : found = Slots(block, Claimed(masked))
  OBVIOUS
<1>17. found = [slot \in Claimed(masked) |-> block[o[SlotAt(slot)] + 1]]
  BY <1>13, <1>14, <1>15, <1>16, SlotsWalk, SMTT(40)
<1>18. /\ "DST" \in Claimed(masked) /\ "GATEWAY" \in Claimed(masked)
       /\ masked => "NETMASK" \in Claimed(masked)
  BY Zenon DEF Claimed
<1>19. found = [slot \in DOMAIN found |-> found[slot]]
  BY <1>17
<1>20. Decomposed(found, masked, d, g, m)
  BY <1>10, <1>14, <1>17, <1>18, <1>19, SlotsAt, Zenon DEF Decomposed
<1> QED BY <1>16, <1>20, Zenon

----------------------------------------------------------------------------
\* A mask is none at all where its first byte has no first bit.
LEMMA OnesLead ==
  /\ LeadingOnes(0) = 0
  /\ \A byte \in Nat : LeadingOnes(byte) \in Nat /\ (byte >= 128 => LeadingOnes(byte) # 0)
<1>1. \A k \in 1..8 : FirstOnes[k] \in Nat /\ FirstOnes[k] > 0
  BY DEF FirstOnes
<1>2. {k \in 1..8 : 0 >= FirstOnes[k]} = {}
  BY <1>1
<1>3. LeadingOnes(0) = 0
  BY <1>2, FS_EmptySet DEF LeadingOnes
<1>4. ASSUME NEW byte \in Nat
      PROVE  LeadingOnes(byte) \in Nat /\ (byte >= 128 => LeadingOnes(byte) # 0)
  <2> DEFINE T == {k \in 1..8 : byte >= FirstOnes[k]}
  <2>1. IsFiniteSet(1..8) /\ T \subseteq 1..8
    <3>1. 1 \in Int /\ 8 \in Int
      OBVIOUS
    <3> QED BY <3>1, FS_Interval
  <2>2. IsFiniteSet(T)
    BY <2>1, FS_Subset
  <2>3. byte >= 128 => 1 \in T
    BY DEF FirstOnes
  <2>4. 1 \in T => T # {}
    OBVIOUS
  <2> HIDE DEF T
  <2>5. Cardinality(T) \in Nat /\ (T # {} => Cardinality(T) # 0)
    BY <2>2, FS_CardinalityType, FS_EmptySet
  <2> QED BY <2>3, <2>4, <2>5 DEF LeadingOnes, T
<1> QED BY <1>3, <1>4

LEMMA MaskReads ==
  ASSUME NEW fam \in Families, NEW bits \in 0..HostPrefix(fam)
  PROVE  /\ Mask(fam, bits).len \in 0..28
         /\ PrefixLen(Mask(fam, bits), fam) \in Nat
         /\ PrefixLen(Mask(fam, bits), fam) = 0 <=> bits = 0
<1>1. bits \in 0..128 /\ (fam = "v4" => bits \in 0..32)
  BY DEF Families, HostPrefix
<1> DEFINE n == (bits + 7) \div 8
           octets == [k \in 1..n |-> IF 8 * k <= bits THEN 255 ELSE FirstOnes[bits % 8]]
           mask == Mask(fam, bits)
           width == IF fam = "v4" THEN 4 ELSE 16
           Byte(i) == IF i \in DOMAIN mask.octets THEN mask.octets[i] ELSE 0
           short == {i \in 1..width : Byte(i) # 255}
<1>2. /\ n \in 0..16 /\ (fam = "v4" => n \in 0..4) /\ (bits = 0 <=> n = 0)
  BY <1>1
<1>3. mask.octets = octets /\ mask.len = IF bits = 0 THEN 0 ELSE (IF fam = "v4" THEN 4 ELSE 8) + Len(octets)
  BY DEF Mask
<1> HIDE DEF mask, n
<1>4. Len(octets) = n
  BY <1>2
<1> HIDE DEF octets
<1>5. mask.len \in 0..28
  BY <1>2, <1>3, <1>4
<1>6. PrefixLen(mask, fam) = IF short = {} THEN 8 * width
                             ELSE 8 * (Min(short) - 1) + LeadingOnes(Byte(Min(short)))
  BY DEF PrefixLen
<1>7. width \in Nat /\ width > 0 /\ 1 \in 1..width /\ short \subseteq Nat /\ short \subseteq 1..width
  OBVIOUS
<1>8. CASE bits = 0
  <2>1. DOMAIN mask.octets = {}
    BY <1>2, <1>3, <1>8 DEF octets
  <2>2. Byte(1) = 0 /\ 1 \in short
    BY <1>7, <2>1
  <2> HIDE DEF short, Byte, width
  <2>3. Min(short) = 1
    <3>1. short # {}
      BY <2>2
    <3>2. Min(short) \in short /\ Min(short) <= 1
      BY <1>7, <2>2, <3>1, MinIsLeast
    <3>3. \A k \in short : k \in Nat /\ k >= 1
      <4> SUFFICES ASSUME NEW k \in short PROVE k \in Nat /\ k >= 1
        OBVIOUS
      <4>1. k \in 1..width
        BY <1>7
      <4> QED BY <1>7, <4>1
    <3> QED BY <3>2, <3>3
  <2>4. LeadingOnes(Byte(Min(short))) = 0
    BY <2>2, <2>3, OnesLead
  <2> QED BY <1>5, <1>6, <1>8, <2>2, <2>3, <2>4 DEF mask
<1>9. CASE bits # 0
  <2>1. 1 \in 1..n
    BY <1>2, <1>9
  <2>2. Byte(1) = 255 \/ (Byte(1) \in Nat /\ Byte(1) >= 128)
    <3>1. CASE 8 * 1 <= bits
      BY <1>3, <2>1, <3>1 DEF octets
    <3>2. CASE ~(8 * 1 <= bits)
      <4>1. bits \in 1..7 /\ bits % 8 = bits
        BY <1>1, <1>9, <3>2
      <4>2. FirstOnes[bits] \in Nat /\ FirstOnes[bits] >= 128
        BY <4>1 DEF FirstOnes
      <4> QED BY <1>3, <2>1, <3>2, <4>1, <4>2 DEF octets
    <3> QED BY <3>1, <3>2
  <2>3. CASE short = {}
    BY <1>5, <1>6, <1>7, <1>9, <2>3 DEF mask
  <2>4. CASE short # {}
    <3>1. Min(short) \in short
      BY <1>7, <2>4, MinIsLeast
    <3>2. CASE Min(short) = 1
      <4>1. Byte(Min(short)) = Byte(1) /\ Byte(1) # 255
        BY <3>1, <3>2
      <4>2. LeadingOnes(Byte(Min(short))) \in Nat /\ LeadingOnes(Byte(Min(short))) # 0
        BY <2>2, <4>1, OnesLead
      <4> HIDE DEF short, Byte, width
      <4> QED BY <1>5, <1>6, <1>9, <2>4, <3>2, <4>2 DEF mask
    <3>3. CASE Min(short) # 1
      <4>1. Min(short) \in 1..width /\ Min(short) >= 2
        BY <1>7, <3>1, <3>3
      <4>2. Byte(Min(short)) \in Nat
        <5>1. \A j \in 1..8 : FirstOnes[j] \in Nat
          BY DEF FirstOnes
        <5>2. \A j \in 1..n : octets[j] \in Nat
          <6> SUFFICES ASSUME NEW j \in 1..n PROVE octets[j] \in Nat
            OBVIOUS
          <6>1. CASE 8 * j <= bits
            BY <6>1 DEF octets
          <6>2. CASE ~(8 * j <= bits)
            <7>1. bits % 8 \in 1..7
              <8>1. j <= n /\ 8 * j > bits
                BY <1>1, <6>2
              <8> QED BY <1>1, <1>2, <6>2, <8>1 DEF n
            <7> QED BY <5>1, <6>2, <7>1 DEF octets
          <6> QED BY <6>1, <6>2
        <5>3. DOMAIN mask.octets = 1..n
          BY <1>3 DEF octets
        <5> QED BY <1>3, <5>2, <5>3
      <4>3. LeadingOnes(Byte(Min(short))) \in Nat
        BY <4>2, OnesLead
      <4> HIDE DEF short, Byte
      <4> QED BY <1>5, <1>6, <1>7, <1>9, <2>4, <4>1, <4>3 DEF mask
    <3> QED BY <3>2, <3>3
  <2> QED BY <2>3, <2>4
<1> QED BY <1>8, <1>9

----------------------------------------------------------------------------
\* An address comes out of the kernel's hands as it went in.
LEMMA NotEmbedded ==
  /\ \A ip \in 0..(Embedding - 1) : ip % Embedding = ip
  /\ 1..(Embedding - 1) \subseteq 0..(Embedding - 1)
  BY DEF Embedding

LEMMA EmbeddedStrips ==
  ASSUME NEW s, Plausible(s), NEW name \in DOMAIN s.links, NEW ip \in 0..(Embedding - 1)
  PROVE  StripEmbeddedScopeId(Embedded(s, name, ip)) = ip
<1>1. PICK i \in Nat : i = s.links[name].index
  BY DEF Plausible
<1>2. ip % Embedding = ip /\ (i * Embedding + ip) % Embedding = ip
  BY DEF Embedding
<1>3. CASE ip \in LinkLocal
  BY <1>1, <1>2, <1>3 DEF Embedded, StripEmbeddedScopeId
<1>4. CASE ip \notin LinkLocal
  BY <1>2, <1>4 DEF Embedded, StripEmbeddedScopeId
<1> QED BY <1>3, <1>4

\* The address in a sockaddr, whether or not it has the index in it.
LEMMA SockaddrRead ==
  ASSUME NEW s, Plausible(s), NEW name \in DOMAIN s.links, NEW ip \in 0..(Embedding - 1),
         NEW fam \in Families, ip \in LinkLocal => fam = "v6"
  PROVE  IpOf(Inet(fam, Embedded(s, name, ip))) = ip
<1>1. StripEmbeddedScopeId(Embedded(s, name, ip)) = ip
  BY EmbeddedStrips
<1>2. CASE fam = "v4"
  BY <1>2 DEF IpOf, FamilyOf, Inet, Embedded
<1>3. CASE fam # "v4"
  BY <1>1, <1>3 DEF IpOf, FamilyOf, Inet
<1> QED BY <1>2, <1>3

\* What the reader makes of a message that is reported.
Rendered(s, q, r) ==
    /\ q.kind \in {"route", "host"}
    /\ r.family = q.family /\ r.gateway = q.gateway /\ r.index = s.links[q.name].index
    /\ r.default <=> (q.destination = 0 /\ q.prefix = 0)

\* What the message of a route holds.
Destination(s, q) ==
    IF q.kind = "arp" THEN Sdl(s.links[q.name].index) ELSE Inet(q.family, q.destination)
Gateway(s, q) ==
    IF q.gateway = None THEN Sdl(s.links[q.name].index)
    ELSE Inet(q.family, Embedded(s, q.name, q.gateway))
Masked(q) == "HOST" \notin RouteFlags[q.kind]

Held(s, q, m) ==
    /\ m.index = s.links[q.name].index
    /\ m.flags = RouteFlags[q.kind] \cup (IF q.gateway = None THEN {} ELSE {"GATEWAY"})
    /\ Decomposed(Slots(m.block, m.addrs), Masked(q), Destination(s, q), Gateway(s, q),
                  Mask(q.family, q.prefix))

LEMMA MessageHolds ==
  ASSUME NEW q, q.family \in Families, q.prefix \in 0..HostPrefix(q.family), NEW s
  PROVE  Held(s, q, RoutingMessage(s, q))
<1> DEFINE index == s.links[q.name].index
           destination == Destination(s, q)
           gateway == Gateway(s, q)
           masked == Masked(q)
           mask == Mask(q.family, q.prefix)
           fam == q.family
<1>1. PICK m : m = RoutingMessage(s, q)
  OBVIOUS
<1>2. /\ m.index = index
      /\ m.flags = RouteFlags[q.kind] \cup (IF q.gateway = None THEN {} ELSE {"GATEWAY"})
  BY <1>1 DEF RoutingMessage
<1>3. m.addrs = Claimed(masked)
  BY <1>1 DEF RoutingMessage, Claimed, Masked
<1>4. PICK link, inet : link = Sdl(index) /\ inet = Inet(fam, 1)
  OBVIOUS
<1>5. Composed(m.block, masked, destination, gateway, mask, link, inet)
  <2>1. m.block = Words(destination) \o Words(gateway)
                    \o (IF "HOST" \in RouteFlags[q.kind] THEN <<>> ELSE Words(mask))
                    \o Words(Sdl(index)) \o Words(Inet(fam, 1))
    BY <1>1, Zenon DEF RoutingMessage, Destination, Gateway
  <2>2. (IF "HOST" \in RouteFlags[q.kind] THEN <<>> ELSE Words(mask))
          = (IF masked THEN Words(mask) ELSE <<>>)
    BY DEF Masked
  <2> QED BY <1>4, <2>1, <2>2, Zenon DEF Composed
<1>6. destination.len \in 0..28 /\ gateway.len \in 0..28 /\ link.len \in 0..28 /\ inet.len \in 0..28
  BY <1>4 DEF Inet, Sdl, Destination, Gateway
<1>7. mask.len \in 0..28
  BY MaskReads
<1>8. masked \in BOOLEAN
  BY DEF Masked
<1> HIDE DEF destination, gateway, mask, masked
<1>9. Decomposed(Slots(m.block, Claimed(masked)), masked, destination, gateway, mask)
  BY <1>5, <1>6, <1>7, <1>8, BlockRead
<1>10. Held(s, q, m)
  BY <1>2, <1>3, <1>9 DEF Held, destination, gateway, mask, masked
<1> QED BY <1>1, <1>10

LEMMA MessageRead ==
  ASSUME NEW s, Plausible(s), NEW k \in DOMAIN s.routes, NEW q, q = s.routes[k],
         s.links[q.name].index # 0,
         IsReportable(RoutingMessage(s, q).flags),
         RouteFrom(RoutingMessage(s, q), q.family) # None
  PROVE  Rendered(s, q, RouteFrom(RoutingMessage(s, q), q.family))
<1> DEFINE index == s.links[q.name].index
           destination == Destination(s, q)
           gateway == Gateway(s, q)
           masked == Masked(q)
           mask == Mask(q.family, q.prefix)
           fam == q.family
<1>1. /\ q.name \in DOMAIN s.links /\ q.kind \in DOMAIN RouteFlags /\ fam \in Families
      /\ q.destination \in 0..(Embedding - 1) /\ q.prefix \in 0..HostPrefix(fam)
      /\ q.kind = "host" => q.prefix # 0
      /\ q.gateway \in {None} \cup 1..(Embedding - 1)
      /\ q.gateway \in LinkLocal => fam = "v6"
  BY DEF Plausible
<1>2. PICK m : m = RoutingMessage(s, q)
  OBVIOUS
<1>3. Held(s, q, m)
  BY <1>1, <1>2, MessageHolds
<1>4. q.kind \in {"route", "host", "arp"}
  <2>1. DOMAIN RouteFlags = {"route", "host", "neighbour", "arp", "reject", "loop"}
    BY DEF RouteFlags
  <2>2. /\ "LLINFO" \in RouteFlags["neighbour"] /\ "REJECT" \in RouteFlags["reject"]
        /\ "MULTICAST" \in RouteFlags["loop"]
    BY DEF RouteFlags
  <2>3. m.flags \cap {"LLINFO", "WASCLONED", "MULTICAST", "BLACKHOLE", "REJECT"} = {}
    BY <1>2 DEF IsReportable
  <2>4. RouteFlags[q.kind] \subseteq m.flags
    BY <1>3 DEF Held
  <2>5. q.kind \notin {"neighbour", "reject", "loop"}
    BY <2>2, <2>3, <2>4
  <2> QED BY <1>1, <2>1, <2>5
<1>5. masked <=> q.kind = "route"
  BY <1>4 DEF RouteFlags, Masked
<1>6. PICK found : found = Slots(m.block, m.addrs)
  OBVIOUS
<1>7. /\ DOMAIN found = Claimed(masked)
      /\ found["DST"] = destination /\ found["GATEWAY"] = gateway
      /\ masked => found["NETMASK"] = mask
  BY <1>3, <1>6, Zenon DEF Held, Decomposed
<1>8. /\ "DST" \in DOMAIN found /\ "GATEWAY" \in DOMAIN found
      /\ "NETMASK" \in DOMAIN found <=> masked
  BY <1>7, Zenon DEF Claimed
<1>9. PICK parts : parts = RouteParts(found, m, FamilyFor(found, fam))
  OBVIOUS
<1>10. parts # None /\ RouteFrom(m, fam) = RouteOf(parts, m)
  BY <1>2, <1>6, <1>9 DEF RouteFrom
<1>11. FamilyOf(found["DST"]) # "link"
  BY <1>8, <1>9, <1>10 DEF RouteParts
<1>12. q.kind # "arp"
  <2>1. q.kind = "arp" => FamilyOf(found["DST"]) = "link"
    BY <1>7 DEF FamilyOf, Sdl, Destination
  <2> QED BY <1>11, <2>1
<1>13. /\ destination = Inet(fam, q.destination) /\ IpIn(found, "DST") = q.destination
       /\ FamilyOf(found["DST"]) = IF fam = "v4" THEN "inet" ELSE "inet6"
  <2>1. destination = Inet(fam, q.destination)
    BY <1>12 DEF Destination
  <2>2. FamilyOf(Inet(fam, q.destination)) = IF fam = "v4" THEN "inet" ELSE "inet6"
    BY DEF FamilyOf, Inet
  <2>3. IpOf(Inet(fam, q.destination)) = q.destination
    <3>1. q.destination % Embedding = q.destination
      BY <1>1, NotEmbedded
    <3> QED BY <3>1 DEF IpOf, FamilyOf, Inet, StripEmbeddedScopeId
  <2> QED BY <1>7, <1>8, <2>1, <2>2, <2>3 DEF IpIn
<1>14. IpIn(found, "GATEWAY") = q.gateway
  <2>1. CASE q.gateway = None
    <3>1. gateway = Sdl(index)
      BY <2>1 DEF Gateway
    <3>2. IpOf(Sdl(index)) = None
      BY DEF IpOf, FamilyOf, Sdl
    <3> QED BY <1>7, <1>8, <2>1, <3>1, <3>2 DEF IpIn
  <2>2. CASE q.gateway # None
    <3>1. q.gateway \in 0..(Embedding - 1)
      <4>1. q.gateway \in 1..(Embedding - 1)
        BY <1>1, <2>2
      <4> QED BY <4>1, NotEmbedded
    <3>2. IpOf(Inet(fam, Embedded(s, q.name, q.gateway))) = q.gateway
      BY <1>1, <3>1, SockaddrRead
    <3> QED BY <1>7, <1>8, <2>2, <3>2 DEF IpIn, Gateway
  <2> QED BY <2>1, <2>2
<1>15. FamilyFor(found, fam) = fam
  <2>1. None # q.destination
    BY <1>1, NoneIsNoData
  <2>2. fam = "v4" \/ fam = "v6"
    BY <1>1 DEF Families
  <2> QED BY <1>13, <2>1, <2>2 DEF FamilyFor
<1>16. PICK prefix : prefix = PrefixFor(found, m.flags, fam)
  OBVIOUS
<1>17. prefix \in Nat /\ (prefix = 0 <=> q.prefix = 0)
  <2>1. CASE q.kind = "host"
    <3>1. "HOST" \in m.flags
      <4>1. "HOST" \in RouteFlags["host"]
        BY DEF RouteFlags
      <4>2. RouteFlags[q.kind] \subseteq m.flags
        BY <1>3 DEF Held
      <4> QED BY <2>1, <4>1, <4>2
    <3>2. HostPrefix(fam) # 0 /\ HostPrefix(fam) \in Nat
      BY DEF HostPrefix
    <3> QED BY <1>1, <1>16, <2>1, <3>1, <3>2 DEF PrefixFor
  <2>2. CASE q.kind = "route"
    <3>1. "HOST" \notin m.flags
      <4>1. "HOST" \notin RouteFlags["route"]
        BY DEF RouteFlags
      <4>2. m.flags \subseteq RouteFlags[q.kind] \cup {"GATEWAY"}
        BY <1>3 DEF Held
      <4> QED BY <2>2, <4>1, <4>2
    <3>2. prefix = PrefixLen(mask, fam)
      BY <1>5, <1>7, <1>8, <1>16, <2>2, <3>1 DEF PrefixFor
    <3> QED BY <1>1, <3>2, MaskReads
  <2> QED BY <1>4, <1>12, <2>1, <2>2
<1>18. /\ parts.gateway = q.gateway /\ parts.family = fam
       /\ parts.destination = IF q.destination = 0 /\ prefix = 0 THEN None
                              ELSE [ip |-> q.destination, prefix |-> prefix]
  <2>1. None # q.destination
    BY <1>1, NoneIsNoData
  <2> QED BY <1>9, <1>10, <1>13, <1>14, <1>15, <1>16, <2>1 DEF RouteParts
<1>19. parts.destination = None <=> (q.destination = 0 /\ q.prefix = 0)
  <2>1. prefix \in Nat
    BY <1>17
  <2>2. [ip |-> q.destination, prefix |-> prefix] # None
    BY <1>1, <2>1, NoneIsNoData
  <2> QED BY <1>17, <1>18, <2>2
<1>20. Rendered(s, q, RouteOf(parts, m))
  BY <1>3, <1>4, <1>12, <1>18, <1>19 DEF Rendered, RouteOf, Held
<1> QED BY <1>2, <1>10, <1>20

\* No record stands for no answer.
NoFunction(mark) == mark # [x \in DOMAIN mark |-> mark[x]]

\* The message of a route that leads somewhere is reported.
LEMMA MessageKept ==
  ASSUME NoFunction(None), NEW s, Plausible(s), NEW k \in DOMAIN s.routes, NEW q, q = s.routes[k],
         q.kind \in {"route", "host"}
  PROVE  /\ RoutingMessage(s, q).version = RtmVersion
         /\ IsReportable(RoutingMessage(s, q).flags)
         /\ RouteFrom(RoutingMessage(s, q), q.family) # None
<1> DEFINE fam == q.family
<1>1. /\ fam \in Families /\ q.destination \in 0..(Embedding - 1) /\ q.prefix \in 0..HostPrefix(fam)
  BY DEF Plausible
<1>2. PICK m : m = RoutingMessage(s, q)
  OBVIOUS
<1>3. Held(s, q, m)
  BY <1>1, <1>2, MessageHolds
<1>4. m.version = RtmVersion
  BY <1>2, Zenon DEF RoutingMessage
<1>5. IsReportable(m.flags)
  <2>1. RouteFlags[q.kind] \subseteq {"UP", "HOST"} /\ "UP" \in RouteFlags[q.kind]
    BY DEF RouteFlags
  <2>2. m.flags \subseteq {"UP", "HOST", "GATEWAY"} /\ "UP" \in m.flags
    BY <1>3, <2>1 DEF Held
  <2> QED BY <2>2 DEF IsReportable
<1>6. PICK found : found = Slots(m.block, m.addrs)
  OBVIOUS
<1>7. /\ found = [slot \in DOMAIN found |-> found[slot]]
      /\ "DST" \in DOMAIN found /\ found["DST"] = Inet(fam, q.destination)
  <2>1. Destination(s, q) = Inet(fam, q.destination)
    BY DEF Destination
  <2> QED BY <1>3, <1>6, <2>1, Zenon DEF Held, Decomposed, Claimed
<1>8. FamilyOf(found["DST"]) # "link" /\ IpIn(found, "DST") = q.destination
  <2>1. q.destination % Embedding = q.destination
    BY <1>1, NotEmbedded
  <2>2. IpOf(Inet(fam, q.destination)) = q.destination /\ FamilyOf(Inet(fam, q.destination)) # "link"
    BY <2>1 DEF IpOf, FamilyOf, Inet, StripEmbeddedScopeId
  <2> QED BY <1>7, <2>2 DEF IpIn
<1>9. q.destination # None
  BY <1>1, NoneIsNoData
<1>10. PICK parts : parts = RouteParts(found, m, FamilyFor(found, fam))
  OBVIOUS
<1>11. parts = [x \in DOMAIN parts |-> parts[x]]
  BY <1>7, <1>8, <1>9, <1>10 DEF RouteParts
<1>12. RouteFrom(m, fam) = RouteOf(parts, m)
  BY <1>6, <1>7, <1>10, <1>11 DEF RouteFrom, NoFunction
<1>13. PICK route : route = RouteOf(parts, m)
  OBVIOUS
<1>14. route = [x \in DOMAIN route |-> route[x]]
  BY <1>13 DEF RouteOf
<1>15. route # None
  BY <1>14 DEF NoFunction
<1> QED BY <1>2, <1>4, <1>5, <1>12, <1>13, <1>15

----------------------------------------------------------------------------
(***************************************************************************)
(* Lists: what is filtered out of a list was in it, and of two lists one   *)
(* after the other each element is in one of them.                         *)
(***************************************************************************)
LEMMA PickedOut ==
  ASSUME NEW seq, NEW n \in Nat, NEW S \in SUBSET (1..n)
  PROVE  /\ \A x \in ToSet(Picked(seq, S)) : \E k \in S : x = seq[k]
         /\ \A k \in S : seq[k] \in ToSet(Picked(seq, S))
         /\ \E m \in Nat : DOMAIN Picked(seq, S) = 1..m
<1>1. IsFiniteSet(1..n)
  <2>1. 1 \in Int /\ n \in Int
    OBVIOUS
  <2> QED BY <2>1, FS_Interval
<1>2. S \subseteq Nat
  OBVIOUS
<1>3. IsFiniteSet(S)
  BY <1>1, FS_Subset
<1>4. HoldsOf(Picked(seq, S), seq, S)
  BY <1>2, <1>3, PickedKeeps
<1>5. PICK list : list = Picked(seq, S)
  OBVIOUS
<1>6. /\ \E m \in Nat : DOMAIN list = 1..m
      /\ \A k \in DOMAIN list : \E i \in S : list[k] = seq[i]
      /\ \A i \in S : \E k \in DOMAIN list : list[k] = seq[i]
  BY <1>4, <1>5, Zenon DEF HoldsOf
<1>7. \A x \in ToSet(list) : \E k \in S : x = seq[k]
  BY <1>6 DEF ToSet
<1>8. \A k \in S : seq[k] \in ToSet(list)
  BY <1>6 DEF ToSet
<1> QED BY <1>5, <1>6, <1>7, <1>8

LEMMA PickedIsList ==
  ASSUME NEW seq, NEW n \in Nat, NEW S \in SUBSET (1..n), NEW T, \A k \in S : seq[k] \in T
  PROVE  Picked(seq, S) \in Seq(T)
<1>1. PICK list : list = Picked(seq, S)
  OBVIOUS
<1>2. /\ \A x \in ToSet(Picked(seq, S)) : \E k \in S : x = seq[k]
      /\ \E m \in Nat : DOMAIN Picked(seq, S) = 1..m
  BY PickedOut
<1>3. PICK m \in Nat : DOMAIN list = 1..m
  BY <1>1, <1>2
<1>4. \A x \in ToSet(list) : x \in T
  BY <1>1, <1>2
<1>5. list = [k \in DOMAIN list |-> list[k]]
  BY <1>1 DEF Picked
<1>6. \A k \in 1..m : list[k] \in T
  BY <1>3, <1>4 DEF ToSet
<1>7. [k \in 1..m |-> list[k]] \in Seq(T)
  BY <1>6
<1> QED BY <1>1, <1>3, <1>5, <1>7

LEMMA Joined ==
  ASSUME NEW R, NEW s \in Seq(R), NEW T, NEW t \in Seq(T)
  PROVE  s \o t \in Seq(R \cup T)
<1>1. s \in Seq(R \cup T) /\ t \in Seq(R \cup T)
  BY SeqMonotonic
<1> QED BY <1>1, ConcatProperties

LEMMA ListedIn ==
  ASSUME NEW R, NEW s \in Seq(R), NEW x \in ToSet(s)
  PROVE  x \in R
  BY DEF ToSet

----------------------------------------------------------------------------
Numbered(s) == \A n \in DOMAIN s.links : s.links[n].index # 0

\* A dump says nothing but what the machine's routes are, and of each route that
\* leads somewhere it says so.
LEMMA DumpRead ==
  ASSUME NEW s, Plausible(s), Numbered(s), NEW fam \in Families
  PROVE  LET table == Decoded(RoutingDump(s, fam), fam)
         IN  /\ \E n \in Nat : DOMAIN table = 1..n
             /\ \A r \in ToSet(table) : \E q \in ToSet(s.routes) : Rendered(s, q, r)
             /\ NoFunction(None) =>
                   \A q \in ToSet(s.routes) : q.family = fam /\ q.kind \in {"route", "host"} =>
                      \E r \in ToSet(table) : Rendered(s, q, r)
<1> DEFINE S == {k \in DOMAIN s.routes : s.routes[k].family = fam}
           buffer == RoutingDump(s, fam)
           found == [k \in DOMAIN Sound(buffer) |-> RouteFrom(Sound(buffer)[k], fam)]
           P == {k \in DOMAIN Sound(buffer) : /\ Sound(buffer)[k].version = RtmVersion
                                               /\ IsReportable(Sound(buffer)[k].flags)
                                               /\ found[k] # None}
           table == Decoded(buffer, fam)
<1>1. PICK n \in Nat : DOMAIN s.routes = 1..n
  BY DEF Plausible
<1>2. PICK list : list = RoutesOf(s, fam)
  OBVIOUS
<1>3. S \in SUBSET (1..n)
  BY <1>1
<1>4. /\ \E m \in Nat : DOMAIN list = 1..m
      /\ \A q \in ToSet(list) : \E k \in S : q = s.routes[k]
      /\ \A k \in S : s.routes[k] \in ToSet(list)
  <2>1. PICK routes : routes = s.routes
    OBVIOUS
  <2>2. /\ \E m \in Nat : DOMAIN Picked(routes, S) = 1..m
        /\ \A q \in ToSet(Picked(routes, S)) : \E k \in S : q = routes[k]
        /\ \A k \in S : routes[k] \in ToSet(Picked(routes, S))
    BY <1>3, PickedOut
  <2>3. list = Picked(routes, S)
    BY <1>2, <2>1 DEF RoutesOf
  <2> QED BY <2>1, <2>2, <2>3
<1>5. PICK m \in Nat : DOMAIN list = 1..m
  BY <1>4
<1>6. buffer = [k \in 1..m |-> RoutingMessage(s, list[k])]
  BY <1>2, <1>5 DEF RoutingDump
<1>7. Sound(buffer) = buffer
  <2>1. \A k \in 1..m : buffer[k].sound = TRUE
    <3>1. \A q : RoutingMessage(s, q).sound = TRUE
      BY DEF RoutingMessage
    <3> QED BY <1>6, <3>1
  <2>2. {k \in DOMAIN buffer : ~buffer[k].sound} = {}
    BY <1>6, <2>1
  <2> QED BY <2>2 DEF Sound
<1> HIDE DEF buffer
<1>8. table = Picked(found, P)
  BY DEF Decoded
<1>9. P \in SUBSET (1..m)
  BY <1>6, <1>7
<1>10. ASSUME NEW k \in P PROVE \E q \in ToSet(s.routes) : Rendered(s, q, found[k])
  <2>1. k \in 1..m /\ found[k] # None /\ found[k] = RouteFrom(buffer[k], fam)
    BY <1>6, <1>7
  <2>2. IsReportable(buffer[k].flags) /\ buffer[k] = RoutingMessage(s, list[k])
    BY <1>6, <1>7
  <2>3. list[k] \in ToSet(list)
    BY <1>5, <2>1 DEF ToSet
  <2>4. PICK at \in DOMAIN s.routes : list[k] = s.routes[at] /\ list[k].family = fam
    BY <1>4, <2>3
  <2>5. list[k].name \in DOMAIN s.links
    BY <2>4 DEF Plausible
  <2>6. s.links[list[k].name].index # 0
    BY <2>5 DEF Numbered
  <2>7. Rendered(s, list[k], found[k])
    BY <2>1, <2>2, <2>4, <2>6, MessageRead
  <2>8. list[k] \in ToSet(s.routes)
    BY <2>4 DEF ToSet
  <2> QED BY <2>7, <2>8
<1>11. ASSUME NoFunction(None), NEW q \in ToSet(s.routes), q.family = fam,
              q.kind \in {"route", "host"}
       PROVE  \E k \in P : Rendered(s, q, found[k])
  <2>1. PICK at \in DOMAIN s.routes : q = s.routes[at]
    BY <1>1, <1>11 DEF ToSet
  <2>2. q \in ToSet(list)
    BY <1>4, <1>11, <2>1
  <2>3. PICK k \in 1..m : list[k] = q
    BY <1>5, <2>2 DEF ToSet
  <2>4. buffer[k] = RoutingMessage(s, q) /\ k \in DOMAIN buffer
    BY <1>6, <2>3
  <2>5. found[k] = RouteFrom(RoutingMessage(s, q), fam)
    BY <1>7, <2>4
  <2>6. /\ RoutingMessage(s, q).version = RtmVersion
        /\ IsReportable(RoutingMessage(s, q).flags)
        /\ RouteFrom(RoutingMessage(s, q), fam) # None
    BY <1>11, <2>1, MessageKept
  <2>7. k \in P
    BY <1>7, <2>4, <2>5, <2>6
  <2>8. q.name \in DOMAIN s.links
    BY <2>1 DEF Plausible
  <2>9. s.links[q.name].index # 0
    BY <2>8 DEF Numbered
  <2>10. Rendered(s, q, found[k])
    BY <1>11, <2>1, <2>5, <2>6, <2>9, MessageRead
  <2> QED BY <2>7, <2>10
<1> HIDE DEF P, found, table, S
<1>12. /\ \E i \in Nat : DOMAIN table = 1..i
       /\ \A r \in ToSet(table) : \E k \in P : r = found[k]
       /\ \A k \in P : found[k] \in ToSet(table)
  BY <1>8, <1>9, PickedOut
<1>13. \A r \in ToSet(table) : \E q \in ToSet(s.routes) : Rendered(s, q, r)
  BY <1>10, <1>12
<1>14. NoFunction(None) =>
          \A q \in ToSet(s.routes) : q.family = fam /\ q.kind \in {"route", "host"} =>
             \E r \in ToSet(table) : Rendered(s, q, r)
  BY <1>12, <1>11
<1> QED BY <1>12, <1>13, <1>14 DEF table, buffer

LEMMA TableIs ==
  ASSUME NEW s \in DOMAIN Scene, Numbered(Scene[s]), NEW fam \in Families
  PROVE  TableOf(s, fam) = Decoded(RoutingDump(Scene[s], fam), fam)
<1>1. PICK table : table = Decoded(RoutingDump(Scene[s], fam), fam)
  OBVIOUS
<1>2. \E n \in Nat : DOMAIN table = 1..n
  BY <1>1, ScenesArePlausible, DumpRead
<1>3. TableOf(s, fam) = table \o <<>>
  <2>1. PICK t : t = [of |-> s, family |-> fam, routes |-> table \o <<>>]
    OBVIOUS
  <2>2. t \in Tables /\ t.of = s /\ t.family = fam /\ t.routes = table \o <<>>
    BY <1>1, <2>1 DEF Tables
  <2>3. \A u \in Tables : u.of = s /\ u.family = fam => u.routes = table \o <<>>
    BY <1>1 DEF Tables
  <2>4. PICK u : u = CHOOSE v \in Tables : v.of = s /\ v.family = fam
    OBVIOUS
  <2>5. u \in Tables /\ u.of = s /\ u.family = fam
    BY <2>2, <2>4
  <2> QED BY <2>3, <2>4, <2>5 DEF TableOf
<1>4. table \o <<>> = table
  <2>1. PICK n \in Nat : DOMAIN table = 1..n
    BY <1>2
  <2>2. table = [k \in DOMAIN table |-> table[k]]
    BY <1>1 DEF Decoded, Picked
  <2>3. \A k \in 1..n : table[k] \in ToSet(table)
    BY <2>1 DEF ToSet
  <2>4. [k \in 1..n |-> table[k]] \in Seq(ToSet(table))
    BY <2>3
  <2>5. table \in Seq(ToSet(table))
    BY <2>1, <2>2, <2>4
  <2> QED BY <2>5, ConcatEmptySeq
<1> QED BY <1>1, <1>3, <1>4

LEMMA TableKeeps ==
  ASSUME NoFunction(None), NEW s \in DOMAIN Scene, Numbered(Scene[s]),
         NEW q \in ToSet(Scene[s].routes), q.kind \in {"route", "host"}
  PROVE  \E r \in ToSet(TableOf(s, q.family)) : Rendered(Scene[s], q, r)
<1>1. Plausible(Scene[s])
  BY ScenesArePlausible
<1>2. PICK k \in DOMAIN Scene[s].routes : q = Scene[s].routes[k]
  BY DEF ToSet
<1>3. q.family \in Families
  BY <1>1, <1>2 DEF Plausible
<1>4. PICK table : table = Decoded(RoutingDump(Scene[s], q.family), q.family)
  OBVIOUS
<1>5. \E r \in ToSet(table) : Rendered(Scene[s], q, r)
  BY <1>1, <1>3, <1>4, DumpRead
<1> QED BY <1>3, <1>4, <1>5, TableIs

LEMMA TableRead ==
  ASSUME NEW s \in DOMAIN Scene, Numbered(Scene[s]), NEW fam \in Families
  PROVE  /\ \E n \in Nat : DOMAIN TableOf(s, fam) = 1..n
         /\ \A r \in ToSet(TableOf(s, fam)) :
               \E q \in ToSet(Scene[s].routes) : Rendered(Scene[s], q, r)
<1>1. PICK table : table = Decoded(RoutingDump(Scene[s], fam), fam)
  OBVIOUS
<1>2. /\ \E n \in Nat : DOMAIN table = 1..n
      /\ \A r \in ToSet(table) : \E q \in ToSet(Scene[s].routes) : Rendered(Scene[s], q, r)
  BY <1>1, ScenesArePlausible, DumpRead
<1> QED BY <1>1, <1>2, TableIs

----------------------------------------------------------------------------
(***************************************************************************)
(* What was gathered so far was so in a scene the machine was in since the *)
(* snapshot began, and so is all that can still come of it.  The scenes    *)
(* only become more, so what was shown of one stays shown.                 *)
(***************************************************************************)
ShownLink(i) ==
    \/ \E s \in been : LinkHeld(s, i)
    \/ /\ OnMacos /\ i.state = "unknown" /\ i.kind = "other"
       /\ \E s \in been : i.name \notin DOMAIN Scene[s].links

ShownOne(i) ==
    /\ ShownLink(i)
    /\ \A a \in ToSet(i.addresses) : \E s \in been : AddressHeld(s, i.name, a)

ShownRoute(r) == \E s \in been : RouteHeld(s, r)

Listed(list) == list \in Seq(ToSet(list))

Situated ==
    /\ box \in Boxes /\ scene \in been /\ been \subseteq box.scenes
    /\ asked \in Families
    /\ DOMAIN got = DOMAIN Nothing /\ Listed(got.routes)

\* The links of macOS by name, before their addresses are known.
Fields == {"name", "index", "state", "kind", "addresses"}

LinksNamed(s, links) ==
    /\ DOMAIN links = DOMAIN Scene[s].links
    /\ \A n \in DOMAIN links :
          DOMAIN links[n] = Fields /\ links[n].name = n /\ LinkHeld(s, links[n])

MacosGathered ==
    /\ pc \in {"addresses", "flags"} => \E s \in been : LinksNamed(s, got.links)
    /\ pc = "flags" => \E s \in been : got.listed = DarwinList(Scene[s])
    /\ pc \in {"order", "size", "read"} => \A n \in DOMAIN got.links : ShownOne(got.links[n])
    /\ \A r \in ToSet(got.routes) : ShownRoute(r)

WindowsGathered ==
    /\ pc \in {"rows", "forward"} => \E s \in been : got.adapters = WindowsAdapters(Scene[s])
    /\ pc = "forward" => \A i \in ToSet(got.links) : ShownOne(i)

\* The links of Linux by index.
LinksAt(s, links) ==
    \A i \in DOMAIN links : \E n \in DOMAIN Scene[s].links :
        /\ i = Scene[s].links[n].index /\ links[i].name = n /\ links[i].admin
        /\ links[i].oper = StateOf[Scene[s].links[n].oper]

RowTold(r) ==
    \E s \in been : \E q \in ToSet(Scene[s].routes) :
        q.kind \notin {"neighbour", "arp"} /\ r = RouteRow(Scene[s].links[q.name], q)

LinuxGathered ==
    /\ pc \in {"addresses", "read"} =>
          /\ DOMAIN got.links \subseteq Nat /\ IsFiniteSet(DOMAIN got.links)
          /\ \E s \in been : LinksAt(s, got.links)
    /\ pc = "read" => \E s \in been : got.addresses = LinuxAddresses(Scene[s])
    /\ \A r \in ToSet(got.routes) : RowTold(r)

Gathered ==
    /\ pc \in CASE box.platform = "macos" -> {"idle", "types", "links", "addresses", "flags",
                                              "order", "size", "read"}
                [] box.platform = "windows" -> {"idle", "adapters", "rows", "forward"}
                [] OTHER -> {"idle", "links", "addresses", "read"}
    /\ pc = "idle" => got = Nothing
    /\ OnMacos => MacosGathered
    /\ box.platform = "windows" => WindowsGathered
    /\ OnLinux => LinuxGathered

AsItWas == Situated /\ Gathered /\ NothingInvented

LEMMA Surroundings ==
  ASSUME Situated
  PROVE  /\ \A s \in been : s \in DOMAIN Scene /\ Plausible(Scene[s])
         /\ Systematic(box)
         /\ scene \in DOMAIN Scene /\ Now = Scene[scene]
         /\ box.platform # "windows" => \A s \in been : Numbered(Scene[s])
         /\ box.platform \in {"macos", "windows", "linux"}
<1>1. box.platform \in {"macos", "windows", "linux"} /\ box.scenes \subseteq DOMAIN Scene /\ Systematic(box)
  BY BoxesAreSystematic DEF Situated
<1>2. \A s \in been : s \in DOMAIN Scene /\ s \in box.scenes /\ Plausible(Scene[s])
  BY <1>1, ScenesArePlausible DEF Situated
<1>3. box.platform # "windows" => \A s \in been : Numbered(Scene[s])
  BY <1>1, <1>2, Zenon DEF Systematic, Numbered
<1> QED BY <1>1, <1>2, <1>3 DEF Situated, Now

\* The scenes become more: nothing that was shown is doubted again.
LEMMA HeldStays ==
  ASSUME been \subseteq been', box' = box
  PROVE  \A s, name, a : AddressHeld(s, name, a) => AddressHeld(s, name, a)'
  BY DEF AddressHeld, OnMacos

LEMMA OwnStays ==
  ASSUME been \subseteq been', box' = box
  PROVE  \A s, q, i : i \in OwnIndex(s, q) => i \in OwnIndex(s, q)'
  BY DEF OwnIndex

LEMMA ShownStays ==
  ASSUME been \subseteq been', box' = box
  PROVE  /\ \A i : ShownOne(i) => ShownOne(i)'
         /\ \A r : ShownRoute(r) => ShownRoute(r)'
<1>1. ASSUME NEW i, ShownOne(i) PROVE ShownOne(i)'
  <2>1. ShownLink(i)'
    BY <1>1 DEF ShownOne, ShownLink, OnMacos
  <2>2. \A a \in ToSet(i.addresses) : \E s \in been' : AddressHeld(s, i.name, a)'
    BY <1>1, HeldStays DEF ShownOne
  <2> QED BY <2>1, <2>2 DEF ShownOne
<1>2. ASSUME NEW r, ShownRoute(r) PROVE ShownRoute(r)'
  BY <1>2, OwnStays DEF ShownRoute, RouteHeld
<1> QED BY <1>1, <1>2

\* Nothing is reported before a snapshot is complete.
LEMMA NothingYet ==
  ASSUME pc # "idle" \/ result \in {None, Broken}
  PROVE  NothingInvented
<1>1. ~Ready
  BY DEF Ready
<1> QED BY <1>1 DEF NothingInvented, Reported, ReportedRoutes

LEMMA AllShown ==
  ASSUME Ready => /\ \A i \in ToSet(result.interfaces) : ShownOne(i)
                  /\ \A r \in ToSet(result.routes) : ShownRoute(r)
  PROVE  NothingInvented
  BY DEF NothingInvented, Reported, ReportedRoutes, ShownOne, ShownLink, ShownRoute

LEMMA AllWasShown ==
  ASSUME NothingInvented, Ready
  PROVE  /\ \A i \in ToSet(result.interfaces) : ShownOne(i)
         /\ \A r \in ToSet(result.routes) : ShownRoute(r)
  BY DEF NothingInvented, Reported, ReportedRoutes, ShownOne, ShownLink, ShownRoute

----------------------------------------------------------------------------
\* In the order of their names, the interfaces are those of the map.
LEMMA OrderedAre ==
  ASSUME NEW links
  PROVE  /\ \A i \in ToSet(InOrder(links)) : \E n \in DOMAIN links : i = links[n]
         /\ \E m \in Nat : DOMAIN InOrder(links) = 1..m
<1> DEFINE known == {k \in DOMAIN Names : Names[k] \in DOMAIN links}
           seq == [k \in known |-> links[Names[k]]]
<1>1. PICK n \in Nat : DOMAIN Names = 1..n
  BY NamesAreListed
<1>2. known \in SUBSET (1..n)
  BY <1>1
<1>3. InOrder(links) = Picked(seq, known)
  BY DEF InOrder
<1>4. \A k \in known : seq[k] = links[Names[k]] /\ Names[k] \in DOMAIN links
  OBVIOUS
<1> HIDE DEF known, seq
<1>5. /\ \A i \in ToSet(Picked(seq, known)) : \E k \in known : i = seq[k]
      /\ \E m \in Nat : DOMAIN Picked(seq, known) = 1..m
  BY <1>2, PickedOut
<1> QED BY <1>3, <1>4, <1>5

(***************************************************************************)
(* macOS.                                                                  *)
(***************************************************************************)
\* A link as the kernel tells it has its index and its state.
LEMMA DarwinLinkHeld ==
  ASSUME NEW s \in DOMAIN Scene, Plausible(Scene[s]), Numbered(Scene[s]),
         NEW n \in DOMAIN Scene[s].links, NEW types
  PROVE  LET i == LinkFrom(n, DarwinLinks(Scene[s])[n], types)
         IN  DOMAIN i = Fields /\ i.name = n /\ LinkHeld(s, i)
<1> DEFINE link == Scene[s].links[n]
           told == DarwinLinks(Scene[s])[n]
           i == LinkFrom(n, told, types)
           evidence == DarwinEvidence[link.nature]
           raised == [up |-> {"UP", "RUNNING"}, quiet |-> {"UP"}, down |-> {}]
<1>1. /\ link.nature \in DOMAIN DarwinEvidence /\ link.oper \in {"up", "down", "quiet"}
      /\ link.index # 0
  BY DEF Plausible, Numbered
<1>2. told.index = link.index /\ told.flags = evidence.flags \cup raised[link.oper]
  BY DEF DarwinLinks
<1>3. evidence.flags \subseteq {"LOOPBACK", "POINTOPOINT"}
  BY <1>1 DEF DarwinEvidence
<1>4. DOMAIN i = Fields /\ i.name = n /\ i.index = told.index /\ i.state = DarwinState(told.flags)
  BY DEF LinkFrom, Fields
<1> HIDE DEF evidence, told, i
<1>5. i.state = StateOf[link.oper]
  <2>1. CASE link.oper = "up"
    <3>1. "UP" \in told.flags /\ {"UP", "RUNNING"} \subseteq told.flags
      BY <1>2, <2>1
    <3> QED BY <1>4, <2>1, <3>1 DEF DarwinState, StateOf
  <2>2. CASE link.oper = "quiet"
    <3>1. "UP" \in told.flags /\ "RUNNING" \notin told.flags
      BY <1>2, <1>3, <2>2
    <3> QED BY <1>4, <2>2, <3>1 DEF DarwinState, StateOf
  <2>3. CASE link.oper = "down"
    <3>1. "UP" \notin told.flags
      BY <1>2, <1>3, <2>3
    <3> QED BY <1>4, <2>3, <3>1 DEF DarwinState, StateOf
  <2> QED BY <1>1, <2>1, <2>2, <2>3
<1>6. i.index = IndexIn(s, i.name)
  BY <1>1, <1>2, <1>4 DEF IndexIn, AdapterIndex
<1>7. LinkHeld(s, i)
  BY <1>4, <1>5, <1>6 DEF LinkHeld
<1> QED BY <1>4, <1>7 DEF i, told

\* The flags that the kernel has for an address it lists.
LEMMA FlagsAre ==
  ASSUME NEW s, NEW record
  PROVE  LET its == {a \in ToSet(s.addresses) :
                        a.name = record.name /\ Embedded(s, a.name, a.ip) = record.ip}
         IN  /\ "TEMPORARY" \in Flags(s, record) => \E a \in its : a.temporary
             /\ "DUPLICATED" \notin Flags(s, record) => \A a \in its : ~a.duplicate
<1> DEFINE its == {a \in ToSet(s.addresses) :
                     a.name = record.name /\ Embedded(s, a.name, a.ip) = record.ip}
           F(a) == (IF a.temporary THEN {"TEMPORARY"} ELSE {})
                     \cup (IF a.duplicate THEN {"DUPLICATED"} ELSE {})
<1>1. Flags(s, record) = UNION {F(a) : a \in its}
  BY DEF Flags
<1> HIDE DEF its
<1>2. \A a : /\ "TEMPORARY" \in F(a) => a.temporary
             /\ a.duplicate => "DUPLICATED" \in F(a)
  OBVIOUS
<1> HIDE DEF F
<1>3. "TEMPORARY" \in Flags(s, record) => \E a \in its : a.temporary
  BY <1>1, <1>2
<1>4. "DUPLICATED" \notin Flags(s, record) => \A a \in its : ~a.duplicate
  BY <1>1, <1>2
<1> QED BY <1>3, <1>4 DEF its

\* What is attached of the address list was bound in the scene of the list, or
\* is so in the scene of the flags.  The temporary bit is of the flags' scene,
\* where the same address has the same family and scope; an address another
\* host had when it was listed is one the kernel no longer knows by that
\* name, or one nobody else has any more.
LEMMA ListedHeld ==
  ASSUME Situated, OnMacos, NEW t \in been, NEW k \in DOMAIN Scene[t].addresses,
         NEW record, record = DarwinList(Scene[t])[k],
         NEW flags, flags = IF "flags" \in box.hidden \/ record.family = "v4" THEN {}
                            ELSE Flags(Now, record),
         "DUPLICATED" \notin flags
  PROVE  \E s \in been : AddressHeld(s, record.name, DarwinAddress(record, flags))
<1>1. PICK b : b = Scene[t].addresses[k]
  OBVIOUS
<1>2. /\ \A s \in been : s \in DOMAIN Scene /\ Plausible(Scene[s])
      /\ Systematic(box) /\ scene \in been /\ been \subseteq box.scenes /\ Now = Scene[scene]
  BY Surroundings DEF Situated
<1>3. b \in ToSet(Scene[t].addresses)
  BY <1>1 DEF ToSet
<1>4. /\ b.name \in DOMAIN Scene[t].links /\ b.ip \in 0..(Embedding - 1)
      /\ b.temporary \in BOOLEAN /\ b.duplicate \in BOOLEAN
  BY <1>1, <1>2 DEF Plausible
<1>5. /\ record.name = b.name /\ record.family = b.family /\ record.scope = b.scope
      /\ record.ip = Embedded(Scene[t], b.name, b.ip)
  BY <1>1, Zenon DEF DarwinList
<1>6. PICK x : x = DarwinAddress(record, flags)
  OBVIOUS
<1>7. StripEmbeddedScopeId(record.ip) = b.ip
  BY <1>2, <1>4, <1>5, EmbeddedStrips
<1>8. /\ Says(x, b)
      /\ x.temporary <=> "TEMPORARY" \in flags
  BY <1>5, <1>6, <1>7 DEF DarwinAddress, Says
<1>9. \A s \in box.scenes : \A c \in ToSet(Scene[s].addresses) :
         /\ c.duplicate => c.family = "v6"
         /\ c.ip = b.ip => c.family = b.family /\ c.scope = b.scope
  <2>1. \A s, u \in box.scenes : \A a \in ToSet(Scene[s].addresses) :
           /\ a.duplicate => a.family = "v6"
           /\ \A c \in ToSet(Scene[u].addresses) :
                 a.ip = c.ip => a.family = c.family /\ a.scope = c.scope
    BY <1>2, Zenon DEF Systematic, OnMacos
  <2>2. t \in box.scenes
    BY <1>2
  <2> QED BY <1>3, <2>1, <2>2
<1> DEFINE its == {a \in ToSet(Now.addresses) :
                     a.name = record.name /\ Embedded(Now, a.name, a.ip) = record.ip}
<1>10. \A c \in its : c \in ToSet(Scene[scene].addresses) /\ c.name = b.name /\ Says(x, c)
  <2> SUFFICES ASSUME NEW c \in its PROVE /\ c \in ToSet(Scene[scene].addresses) /\ c.name = b.name
                                          /\ Says(x, c)
    OBVIOUS
  <2>1. /\ c \in ToSet(Scene[scene].addresses) /\ c.name = b.name
        /\ Embedded(Scene[scene], c.name, c.ip) = record.ip
    BY <1>2, <1>5
  <2>2. PICK j \in DOMAIN Scene[scene].addresses : c = Scene[scene].addresses[j]
    BY <2>1 DEF ToSet
  <2>3. c.name \in DOMAIN Scene[scene].links /\ c.ip \in 0..(Embedding - 1)
    BY <1>2, <2>2 DEF Plausible
  <2>4. StripEmbeddedScopeId(record.ip) = c.ip
    BY <1>2, <2>1, <2>3, EmbeddedStrips
  <2>5. c.ip = b.ip /\ c.family = b.family /\ c.scope = b.scope
    BY <1>2, <1>7, <1>9, <2>1, <2>4
  <2> QED BY <1>8, <2>1, <2>5 DEF Says
<1>11. /\ "TEMPORARY" \in Flags(Now, record) => \E c \in its : c.temporary
       /\ "DUPLICATED" \notin Flags(Now, record) => \A c \in its : ~c.duplicate
  BY FlagsAre
<1> HIDE DEF its
<1>12. CASE "TEMPORARY" \in flags
  <2>1. flags = Flags(Now, record)
    BY <1>12
  <2>2. PICK c \in its : c.temporary /\ ~c.duplicate
    BY <1>11, <1>12, <2>1
  <2>3. AddressHeld(scene, record.name, x)
    BY <1>5, <1>10, <2>2, Zenon DEF AddressHeld
  <2> QED BY <1>2, <1>6, <2>3
<1>13. CASE "TEMPORARY" \notin flags
  <2>1. CASE \/ ~b.duplicate \/ "flags" \in box.hidden
             \/ \E u \in been : ~StillListed(u, t, record.name, x)
    <3>1. AddressHeld(t, record.name, x)
      BY <1>3, <1>5, <1>8, <1>13, <2>1, Zenon DEF AddressHeld
    <3> QED BY <1>6, <3>1
  <2>2. CASE ~(\/ ~b.duplicate \/ "flags" \in box.hidden
               \/ \E u \in been : ~StillListed(u, t, record.name, x))
    <3>1. b.family = "v6"
      BY <1>2, <1>3, <1>9, <2>2
    <3>2. flags = Flags(Now, record)
      BY <1>5, <2>2, <3>1
    <3>3. StillListed(scene, t, record.name, x)
      BY <1>2, <2>2
    <3>4. PICK c \in ToSet(Scene[scene].addresses) :
             /\ c.name = record.name /\ Says(x, c)
             /\ Embedded(Scene[scene], record.name, c.ip) = Embedded(Scene[t], record.name, c.ip)
      BY <3>3 DEF StillListed
    <3>5. c.ip = b.ip
      BY <1>8, <3>4 DEF Says
    <3>6. c \in its
      BY <1>2, <1>5, <3>4, <3>5 DEF its
    <3>7. ~c.duplicate
      BY <1>11, <3>2, <3>6
    <3>8. AddressHeld(scene, record.name, x)
      BY <1>8, <1>13, <3>4, <3>7, Zenon DEF AddressHeld
    <3> QED BY <1>2, <1>6, <3>8
  <2> QED BY <2>1, <2>2
<1> QED BY <1>12, <1>13

\* What AskFlags keeps of a list it was handed.
FlagsAsked(listed) ==
    [k \in DOMAIN listed |->
        IF "flags" \in box.hidden \/ listed[k].family = "v4" THEN {} ELSE Flags(Now, listed[k])]

LEMMA AttachedShown ==
  ASSUME Situated, OnMacos, NEW s \in been, NEW links, LinksNamed(s, links),
         NEW t \in been, NEW listed, listed = DarwinList(Scene[t]),
         NEW flagged, flagged = FlagsAsked(listed)
  PROVE  \A n \in DOMAIN AttachAddresses(links, listed, flagged) :
            ShownOne(AttachAddresses(links, listed, flagged)[n])
<1> DEFINE kept == {k \in DOMAIN listed : "DUPLICATED" \notin flagged[k]}
           Its(n) == {k \in kept : listed[k].name = n}
           Owner(n) == IF n \in DOMAIN links THEN links[n] ELSE Orphan(n, listed[Min(Its(n))].index)
           seq == [k \in DOMAIN listed |-> DarwinAddress(listed[k], flagged[k])]
           all == AttachAddresses(links, listed, flagged)
<1>1. all = [n \in DOMAIN links \cup {listed[k].name : k \in kept} |->
               [Owner(n) EXCEPT !.addresses = Picked(seq, Its(n))]]
  BY DEF AttachAddresses
<1>2. PICK m \in Nat : DOMAIN listed = 1..m /\ DOMAIN Scene[t].addresses = 1..m
  BY Surroundings, Zenon DEF Plausible, DarwinList
<1>3. ASSUME NEW k \in kept
      PROVE  \E u \in been : AddressHeld(u, listed[k].name, seq[k])
  <2>1. k \in DOMAIN Scene[t].addresses /\ listed[k] = DarwinList(Scene[t])[k]
    BY <1>2
  <2>2. /\ flagged[k] = IF "flags" \in box.hidden \/ listed[k].family = "v4" THEN {}
                       ELSE Flags(Now, listed[k])
        /\ "DUPLICATED" \notin flagged[k] /\ seq[k] = DarwinAddress(listed[k], flagged[k])
    BY DEF FlagsAsked
  <2> HIDE DEF seq
  <2> QED BY <2>1, <2>2, ListedHeld
<1>4. \A n : Its(n) \in SUBSET (1..m) /\ Its(n) \subseteq kept /\ \A k \in Its(n) : listed[k].name = n
  BY <1>2
<1> HIDE DEF seq, kept, Its
<1>5. ASSUME NEW n \in DOMAIN all PROVE ShownOne(all[n])
  <2>1. PICK i : i = all[n]
    OBVIOUS
  <2>2. i = [Owner(n) EXCEPT !.addresses = Picked(seq, Its(n))]
    BY <1>1, <1>5, <2>1
  <2>3. DOMAIN Owner(n) = Fields
    BY DEF LinksNamed, Orphan, Fields
  <2>4. /\ i.name = Owner(n).name /\ i.index = Owner(n).index /\ i.state = Owner(n).state
        /\ i.kind = Owner(n).kind /\ i.addresses = Picked(seq, Its(n))
    <3>1. PICK o : o = Owner(n)
      OBVIOUS
    <3>2. PICK p : p = Picked(seq, Its(n))
      OBVIOUS
    <3>3. i = [o EXCEPT !.addresses = p] /\ DOMAIN o = Fields
      BY <2>2, <2>3, <3>1, <3>2
    <3>4. /\ i.name = o.name /\ i.index = o.index /\ i.state = o.state /\ i.kind = o.kind
          /\ i.addresses = p
      BY <3>3 DEF Fields
    <3> QED BY <3>1, <3>2, <3>4
  <2>5. i.name = n
    BY <2>4 DEF LinksNamed, Orphan
  <2>6. ShownLink(i)
    <3>1. CASE n \in DOMAIN links
      <4>1. LinkHeld(s, links[n]) /\ Owner(n) = links[n] /\ links[n].name = n
        BY <3>1 DEF LinksNamed
      <4> HIDE DEF Owner
      <4>2. LinkHeld(s, i)
        BY <2>4, <4>1 DEF LinkHeld
      <4> QED BY <4>2 DEF ShownLink
    <3>2. CASE n \notin DOMAIN links
      <4>1. Owner(n).state = "unknown" /\ Owner(n).kind = "other"
        BY <3>2 DEF Orphan
      <4>2. i.name \notin DOMAIN Scene[s].links
        BY <2>5, <3>2 DEF LinksNamed
      <4> HIDE DEF Owner
      <4> QED BY <2>4, <4>1, <4>2 DEF ShownLink
    <3> QED BY <3>1, <3>2
  <2> HIDE DEF Owner, all
  <2>7. \A a \in ToSet(i.addresses) : \E u \in been : AddressHeld(u, i.name, a)
    <3> SUFFICES ASSUME NEW a \in ToSet(i.addresses) PROVE \E u \in been : AddressHeld(u, i.name, a)
      OBVIOUS
    <3>1. a \in ToSet(Picked(seq, Its(n)))
      BY <2>4
    <3>2. PICK k \in Its(n) : a = seq[k]
      <4>1. PICK S : S = Its(n)
        OBVIOUS
      <4>2. S \in SUBSET (1..m)
        BY <1>4, <4>1
      <4>3. \A x \in ToSet(Picked(seq, S)) : \E k \in S : x = seq[k]
        BY <4>2, PickedOut
      <4> QED BY <3>1, <4>1, <4>3
    <3>3. k \in kept /\ listed[k].name = n
      BY <1>4, <3>2
    <3> QED BY <1>3, <2>5, <3>2, <3>3
  <2> QED BY <2>1, <2>6, <2>7 DEF ShownOne
<1> QED BY <1>5 DEF all

LEMMA RenderedShown ==
  ASSUME Situated, box.platform # "windows", NEW s \in been, NEW q \in ToSet(Scene[s].routes), NEW r,
         Rendered(Scene[s], q, r)
  PROVE  ShownRoute(r)
<1>1. Plausible(Scene[s]) /\ Numbered(Scene[s])
  BY Surroundings
<1>2. q.name \in DOMAIN Scene[s].links
  BY <1>1 DEF Plausible, ToSet
<1>3. Scene[s].links[q.name].index # 0
  BY <1>1, <1>2 DEF Numbered
<1>4. r.index \in OwnIndex(s, q)
  BY <1>3 DEF OwnIndex, IndexIn, AdapterIndex, Rendered
<1>5. RouteHeld(s, r)
  BY <1>4 DEF RouteHeld, Rendered
<1> QED BY <1>5 DEF ShownRoute

LEMMA ScoredShown ==
  ASSUME Situated, OnMacos, NEW table, \E n \in Nat : DOMAIN table = 1..n,
         \A r \in ToSet(table) : \E s \in been : \E q \in ToSet(Scene[s].routes) :
            Rendered(Scene[s], q, r),
         NEW metrics, NEW unranked
  PROVE  \E R : Scored(table, metrics, unranked) \in Seq(R) /\ \A r \in R : ShownRoute(r)
<1> DEFINE list == Scored(table, metrics, unranked)
<1>1. PICK n \in Nat : DOMAIN table = 1..n
  OBVIOUS
<1>2. PICK e : e = [k \in DOMAIN table |-> list[k]]
  OBVIOUS
<1>3. list = e /\ DOMAIN e = 1..n
  BY <1>1, <1>2 DEF Scored
<1>4. ASSUME NEW k \in 1..n PROVE ShownRoute(list[k])
  <2>1. /\ list[k].default = table[k].default /\ list[k].gateway = table[k].gateway
        /\ list[k].family = table[k].family /\ list[k].index = table[k].index
    BY <1>1 DEF Scored
  <2>2. table[k] \in ToSet(table)
    BY <1>1 DEF ToSet
  <2>3. PICK s \in been : \E q \in ToSet(Scene[s].routes) : Rendered(Scene[s], q, table[k])
    BY <2>2
  <2>6. PICK q \in ToSet(Scene[s].routes) : Rendered(Scene[s], q, table[k])
    BY <2>3
  <2>4. Rendered(Scene[s], q, list[k])
    BY <2>1, <2>6 DEF Rendered
  <2>5. box.platform # "windows"
    BY DEF OnMacos
  <2> QED BY <2>4, <2>5, RenderedShown
<1> HIDE DEF list
<1>5. e \in Seq({list[k] : k \in 1..n})
  BY <1>1, <1>2
<1>6. \A r \in {list[k] : k \in 1..n} : ShownRoute(r)
  BY <1>4
<1> QED BY <1>3, <1>5, <1>6 DEF list

----------------------------------------------------------------------------
(***************************************************************************)
(* The steps.                                                              *)
(***************************************************************************)
\* A snapshot that ends with what was shown.
LEMMA EndsTold ==
  ASSUME Situated, NEW I, NEW R, Ends([interfaces |-> I, routes |-> R]),
         \A i \in ToSet(I) : ShownOne(i), \A r \in ToSet(R) : ShownRoute(r)
  PROVE  AsItWas'
<1>1. /\ box' = box /\ been' = been /\ scene' = scene /\ pc' = "idle" /\ asked' = "v4"
      /\ got' = Nothing /\ result' = [interfaces |-> I, routes |-> R]
  BY DEF Ends, Keep
<1>2. got'.routes = <<>> /\ Listed(<<>>) /\ ToSet(<<>>) = {}
  BY <1>1 DEF Nothing, Listed, ToSet
<1>3. Situated'
  BY <1>1, <1>2 DEF Situated, Families
<1>4. box.platform \in {"macos", "windows", "linux"}
  BY Surroundings
<1>5. Gathered'
  BY <1>1, <1>2, <1>4, Zenon DEF Gathered, MacosGathered, WindowsGathered, LinuxGathered
<1>6. /\ \A i \in ToSet(I) : ShownOne(i)'
      /\ \A r \in ToSet(R) : ShownRoute(r)'
  BY <1>1, ShownStays
<1>7. NothingInvented'
  BY <1>1, <1>6 DEF NothingInvented, Reported, ReportedRoutes, ShownOne, ShownLink, ShownRoute
<1> QED BY <1>3, <1>5, <1>7 DEF AsItWas

LEMMA BrokenTold ==
  ASSUME Situated, Ends(Broken)
  PROVE  AsItWas'
<1>1. /\ box' = box /\ been' = been /\ scene' = scene /\ pc' = "idle" /\ asked' = "v4"
      /\ got' = Nothing /\ result' = Broken
  BY DEF Ends, Keep
<1>2. got'.routes = <<>> /\ Listed(<<>>) /\ ToSet(<<>>) = {}
  BY <1>1 DEF Nothing, Listed, ToSet
<1>3. Situated'
  BY <1>1, <1>2 DEF Situated, Families
<1>4. box.platform \in {"macos", "windows", "linux"}
  BY Surroundings
<1>5. Gathered'
  BY <1>1, <1>2, <1>4, Zenon DEF Gathered, MacosGathered, WindowsGathered, LinuxGathered
<1>6. NothingInvented'
  BY <1>1 DEF NothingInvented, Ready, Reported, ReportedRoutes
<1> QED BY <1>3, <1>5, <1>6 DEF AsItWas

\* A snapshot that goes on: what it gathered is all there is to show.
LEMMA GoesOnTold ==
  ASSUME Situated, been' = been, box' = box, scene' = scene, asked' \in Families,
         DOMAIN got' = DOMAIN Nothing, Listed(got'.routes), pc' # "idle", Gathered'
  PROVE  AsItWas'
<1>1. Situated'
  BY DEF Situated, Listed
<1>2. NothingInvented'
  BY DEF NothingInvented, Ready, Reported, ReportedRoutes
<1> QED BY <1>1, <1>2 DEF AsItWas

LEMMA AskTold ==
  ASSUME AsItWas, Ask
  PROVE  AsItWas'
<1>1. /\ box' = box /\ been' = {scene} /\ scene' = scene /\ asked' = asked /\ got' = got
      /\ pc = "idle" /\ pc' = FirstCall[box.platform] /\ result' = None
  BY DEF Ask, Keep
<1>2. got = Nothing /\ Situated
  BY <1>1 DEF AsItWas, Gathered
<1>3. got.routes = <<>> /\ ToSet(<<>>) = {}
  BY <1>2 DEF Nothing, ToSet
<1>4. Situated'
  BY <1>1, <1>2 DEF Situated, Listed
<1>5. box.platform \in {"macos", "windows", "linux"}
  BY <1>2, Surroundings
<1>6. pc' = CASE box.platform = "macos" -> "types" [] box.platform = "windows" -> "adapters"
              [] OTHER -> "links"
  BY <1>1, <1>5 DEF FirstCall
<1>7. Gathered'
  <2>1. CASE box.platform = "macos"
    BY <1>1, <1>3, <1>6, <2>1 DEF Gathered, MacosGathered, OnMacos, OnLinux
  <2>2. CASE box.platform = "windows"
    BY <1>1, <1>3, <1>6, <2>2 DEF Gathered, WindowsGathered, OnMacos, OnLinux
  <2>3. CASE box.platform = "linux"
    BY <1>1, <1>3, <1>6, <2>3 DEF Gathered, LinuxGathered, OnMacos, OnLinux
  <2> QED BY <1>5, <2>1, <2>2, <2>3
<1>8. NothingInvented'
  BY <1>1 DEF NothingInvented, Ready, Reported, ReportedRoutes
<1> QED BY <1>4, <1>7, <1>8 DEF AsItWas

\* The machine moves, or nothing happens.
LEMMA MovesTold ==
  ASSUME AsItWas, been \subseteq been', been' \subseteq box.scenes, scene' \in been',
         UNCHANGED <<box, pc, asked, got, result>>
  PROVE  AsItWas'
<1>1. /\ box' = box /\ asked' = asked /\ got' = got /\ pc' = pc /\ result' = result
      /\ been \subseteq been'
  OBVIOUS
<1>2. Situated'
  BY <1>1 DEF AsItWas, Situated, Listed
<1>3. /\ \A i : ShownOne(i) => ShownOne(i)'
      /\ \A r : ShownRoute(r) => ShownRoute(r)'
  BY <1>1, ShownStays
<1>4. \A r : RowTold(r) => RowTold(r)'
  BY <1>1 DEF RowTold
<1>5. Gathered'
  <2>1. OnMacos' <=> OnMacos
    BY <1>1 DEF OnMacos
  <2>2. MacosGathered => MacosGathered'
    BY <1>1, <1>3 DEF MacosGathered
  <2>3. WindowsGathered => WindowsGathered'
    BY <1>1, <1>3 DEF WindowsGathered
  <2>4. LinuxGathered => LinuxGathered'
    BY <1>1, <1>4 DEF LinuxGathered
  <2> QED BY <1>1, <2>1, <2>2, <2>3, <2>4, Zenon DEF AsItWas, Gathered, OnLinux
<1>6. NothingInvented'
  <2>1. CASE Ready
    <3>1. /\ \A i \in ToSet(result.interfaces) : ShownOne(i)
          /\ \A r \in ToSet(result.routes) : ShownRoute(r)
      BY <2>1, AllWasShown DEF AsItWas
    <3>2. /\ \A i \in ToSet(result.interfaces) : ShownOne(i)'
          /\ \A r \in ToSet(result.routes) : ShownRoute(r)'
      BY <1>3, <3>1
    <3> QED BY <1>1, <3>2 DEF NothingInvented, Reported, ReportedRoutes, ShownOne, ShownLink,
                              ShownRoute
  <2>2. CASE ~Ready
    BY <1>1, <2>2 DEF NothingInvented, Ready, Reported, ReportedRoutes
  <2> QED BY <2>1, <2>2
<1> QED BY <1>2, <1>5, <1>6 DEF AsItWas

LEMMA RestTold ==
  ASSUME AsItWas, (\E s \in DOMAIN Scene : MoveTo(s)) \/ UNCHANGED allvars
  PROVE  AsItWas'
<1>1. scene \in been /\ been \subseteq box.scenes
  BY DEF AsItWas, Situated
<1>2. CASE \E s \in DOMAIN Scene : MoveTo(s)
  BY <1>1, <1>2, MovesTold DEF MoveTo
<1>3. CASE UNCHANGED allvars
  BY <1>1, <1>3, MovesTold DEF allvars
<1> QED BY <1>2, <1>3

----------------------------------------------------------------------------
\* The calls of macOS.
LEMMA OneSystem ==
  ASSUME AsItWas
  PROVE  /\ pc \in {"types", "flags", "order", "size"} => OnMacos
         /\ pc \in {"adapters", "rows", "forward"} => box.platform = "windows"
         /\ OnMacos => MacosGathered
         /\ box.platform = "windows" => WindowsGathered
         /\ OnLinux => LinuxGathered
         /\ Situated
<1>1. box.platform \in {"macos", "windows", "linux"} /\ Situated
  BY Surroundings DEF AsItWas
<1>2. CASE box.platform = "macos"
  BY <1>1, <1>2 DEF AsItWas, Gathered, OnMacos, OnLinux
<1>3. CASE box.platform = "windows"
  BY <1>1, <1>3 DEF AsItWas, Gathered, OnMacos, OnLinux
<1>4. CASE box.platform = "linux"
  BY <1>1, <1>4 DEF AsItWas, Gathered, OnMacos, OnLinux
<1> QED BY <1>1, <1>2, <1>3, <1>4

\* A step of macOS that goes on.
LEMMA MacosTold ==
  ASSUME Situated, OnMacos, been' = been, box' = box, scene' = scene, asked' \in Families,
         DOMAIN got' = DOMAIN Nothing, Listed(got'.routes),
         pc' \in {"links", "addresses", "flags", "order", "size", "read"}, MacosGathered'
  PROVE  AsItWas'
<1>1. OnMacos' /\ box'.platform = "macos" /\ ~OnLinux' /\ pc' # "idle"
  BY DEF OnMacos, OnLinux
<1>2. Gathered'
  BY <1>1 DEF Gathered
<1> QED BY <1>1, <1>2, GoesOnTold

LEMMA TypesTold ==
  ASSUME AsItWas, InterfaceTypes
  PROVE  AsItWas'
<1>1. /\ box' = box /\ been' = been /\ scene' = scene /\ asked' = asked
      /\ pc = "types" /\ pc' = "links"
      /\ got' = [got EXCEPT !.types = DarwinTypes(Now, box.hidden)]
  BY DEF InterfaceTypes, Goes, Keep
<1>2. Situated /\ OnMacos /\ MacosGathered
  BY <1>1, OneSystem
<1>3. DOMAIN got' = DOMAIN Nothing /\ got'.routes = got.routes
  BY <1>1, <1>2 DEF Situated, Nothing
<1>4. \A r : ShownRoute(r) => ShownRoute(r)'
  BY <1>1, ShownStays
<1>5. MacosGathered'
  BY <1>1, <1>2, <1>3, <1>4 DEF MacosGathered
<1>6. asked' \in Families /\ Listed(got'.routes)
  BY <1>1, <1>2, <1>3 DEF Situated, Listed
<1> QED BY <1>1, <1>2, <1>3, <1>5, <1>6, MacosTold

LEMMA LinksTold ==
  ASSUME AsItWas, Links
  PROVE  AsItWas'
<1> DEFINE links == DarwinLinks(Now)
           mapped == [n \in DOMAIN links |-> LinkFrom(n, links[n], got.types)]
<1>1. /\ box' = box /\ been' = been /\ scene' = scene /\ asked' = asked
      /\ OnMacos /\ pc' = "addresses"
      /\ got' = [got EXCEPT !.links = mapped, !.types = None]
  BY DEF Links, Goes, Keep
<1>2. Situated /\ MacosGathered
  BY <1>1, OneSystem
<1>3. /\ scene \in been /\ scene \in DOMAIN Scene /\ Now = Scene[scene] /\ Plausible(Scene[scene])
      /\ Numbered(Scene[scene])
  BY <1>1, <1>2, Surroundings DEF Situated, OnMacos
<1>4. DOMAIN links = DOMAIN Scene[scene].links
  BY <1>3 DEF DarwinLinks
<1>5. LinksNamed(scene, mapped)
  <2>1. \A n \in DOMAIN mapped :
           DOMAIN mapped[n] = Fields /\ mapped[n].name = n /\ LinkHeld(scene, mapped[n])
    BY <1>3, <1>4, DarwinLinkHeld
  <2> QED BY <1>4, <2>1 DEF LinksNamed
<1> HIDE DEF mapped
<1>6. DOMAIN got' = DOMAIN Nothing /\ got'.routes = got.routes /\ got'.links = mapped
  BY <1>1, <1>2 DEF Situated, Nothing
<1>7. \A r : ShownRoute(r) => ShownRoute(r)'
  BY <1>1, ShownStays
<1>8. MacosGathered'
  BY <1>1, <1>2, <1>3, <1>5, <1>6, <1>7 DEF MacosGathered
<1>9. asked' \in Families /\ Listed(got'.routes)
  BY <1>1, <1>2, <1>6 DEF Situated, Listed
<1> QED BY <1>1, <1>2, <1>6, <1>8, <1>9, MacosTold

LEMMA ListTold ==
  ASSUME AsItWas, ListAddresses
  PROVE  AsItWas'
<1>1. /\ box' = box /\ been' = been /\ scene' = scene /\ asked' = asked
      /\ OnMacos /\ pc = "addresses" /\ pc' = "flags"
      /\ got' = [got EXCEPT !.listed = DarwinList(Now)]
  BY DEF ListAddresses, Answers, Goes, Keep
<1>2. Situated /\ MacosGathered /\ scene \in been /\ Now = Scene[scene]
  BY <1>1, OneSystem, Surroundings DEF Situated
<1>3. /\ DOMAIN got' = DOMAIN Nothing /\ got'.routes = got.routes /\ got'.links = got.links
      /\ got'.listed = DarwinList(Scene[scene])
  BY <1>1, <1>2 DEF Situated, Nothing
<1>4. \A r : ShownRoute(r) => ShownRoute(r)'
  BY <1>1, ShownStays
<1>5. MacosGathered'
  BY <1>1, <1>2, <1>3, <1>4 DEF MacosGathered
<1>6. asked' \in Families /\ Listed(got'.routes)
  BY <1>1, <1>2, <1>3 DEF Situated, Listed
<1> QED BY <1>1, <1>2, <1>3, <1>5, <1>6, MacosTold

LEMMA FlagsTold ==
  ASSUME AsItWas, AskFlags
  PROVE  AsItWas'
<1> DEFINE flagged == [k \in DOMAIN got.listed |->
                          IF "flags" \in box.hidden \/ got.listed[k].family = "v4" THEN {}
                          ELSE Flags(Now, got.listed[k])]
           attached == AttachAddresses(got.links, got.listed, flagged)
<1>1. /\ box' = box /\ been' = been /\ scene' = scene /\ asked' = asked
      /\ pc = "flags" /\ pc' = "order"
      /\ got' = [got EXCEPT !.links = attached, !.listed = None]
  BY DEF AskFlags, Goes, Keep
<1>2. Situated /\ OnMacos /\ MacosGathered
  BY <1>1, OneSystem
<1>3. PICK s \in been : LinksNamed(s, got.links)
  BY <1>1, <1>2 DEF MacosGathered
<1>4. PICK t \in been : got.listed = DarwinList(Scene[t])
  BY <1>1, <1>2 DEF MacosGathered
<1>5. PICK flags : flags = flagged
  OBVIOUS
<1>6. \A n \in DOMAIN attached : ShownOne(attached[n])
  <2> HIDE DEF flagged
  <2>1. PICK links, listed : links = got.links /\ listed = got.listed
    OBVIOUS
  <2>2. flags = FlagsAsked(listed)
    BY <1>5, <2>1 DEF flagged, FlagsAsked
  <2>3. \A n \in DOMAIN AttachAddresses(links, listed, flags) :
           ShownOne(AttachAddresses(links, listed, flags)[n])
    BY <1>2, <1>3, <1>4, <2>1, <2>2, AttachedShown
  <2> QED BY <1>5, <2>1, <2>3
<1> HIDE DEF attached
<1>7. DOMAIN got' = DOMAIN Nothing /\ got'.routes = got.routes /\ got'.links = attached
  BY <1>1, <1>2 DEF Situated, Nothing
<1>8. /\ \A i : ShownOne(i) => ShownOne(i)'
      /\ \A r : ShownRoute(r) => ShownRoute(r)'
  BY <1>1, ShownStays
<1>9. MacosGathered'
  BY <1>1, <1>2, <1>6, <1>7, <1>8 DEF MacosGathered
<1>10. asked' \in Families /\ Listed(got'.routes)
  BY <1>1, <1>2, <1>7 DEF Situated, Listed
<1> QED BY <1>1, <1>2, <1>7, <1>9, <1>10, MacosTold

LEMMA OrderTold ==
  ASSUME AsItWas, ServiceOrder
  PROVE  AsItWas'
<1>1. PICK ranked : got' = [got EXCEPT !.metrics = ranked]
  BY DEF ServiceOrder
<1>2. /\ box' = box /\ been' = been /\ scene' = scene /\ asked' = asked
      /\ pc = "order" /\ pc' = "size"
  BY DEF ServiceOrder, Keep
<1>3. Situated /\ OnMacos /\ MacosGathered
  BY <1>2, OneSystem
<1>4. DOMAIN got' = DOMAIN Nothing /\ got'.routes = got.routes /\ got'.links = got.links
  BY <1>1, <1>3 DEF Situated, Nothing
<1>5. /\ \A i : ShownOne(i) => ShownOne(i)'
      /\ \A r : ShownRoute(r) => ShownRoute(r)'
  BY <1>2, ShownStays
<1>6. MacosGathered'
  BY <1>2, <1>3, <1>4, <1>5 DEF MacosGathered
<1>7. asked' \in Families /\ Listed(got'.routes)
  BY <1>2, <1>3, <1>4 DEF Situated, Listed
<1> QED BY <1>2, <1>3, <1>4, <1>6, <1>7, MacosTold

LEMMA IsListed ==
  ASSUME NEW T, NEW s \in Seq(T)
  PROVE  Listed(s)
<1>1. PICK n \in Nat : DOMAIN s = 1..n /\ s = [k \in 1..n |-> s[k]]
  <2>1. s = [k \in 1..Len(s) |-> s[k]] /\ Len(s) \in Nat
    OBVIOUS
  <2> QED BY <2>1
<1>2. \A k \in 1..n : s[k] \in ToSet(s)
  BY <1>1 DEF ToSet
<1>3. [k \in 1..n |-> s[k]] \in Seq(ToSet(s))
  BY <1>2
<1> QED BY <1>1, <1>3 DEF Listed

LEMMA DumpedTold ==
  ASSUME AsItWas, OnMacos, pc \in {"size", "read"}, NEW table, Dumped(table),
         \E n \in Nat : DOMAIN table = 1..n,
         \A r \in ToSet(table) : \E s \in been : \E q \in ToSet(Scene[s].routes) :
            Rendered(Scene[s], q, r)
  PROVE  AsItWas'
<1> DEFINE scored == Scored(table, got.metrics, Unranked)
           routes == got.routes \o scored
           ordered == InOrder(got.links)
<1>1. Situated /\ MacosGathered
  BY OneSystem
<1>2. PICK R : scored \in Seq(R) /\ \A r \in R : ShownRoute(r)
  BY <1>1, ScoredShown
<1>3. got.routes \in Seq(ToSet(got.routes)) /\ \A r \in ToSet(got.routes) : ShownRoute(r)
  BY <1>1 DEF Situated, Listed, MacosGathered
<1>4. routes \in Seq(ToSet(got.routes) \cup R)
  <2> HIDE DEF scored
  <2> QED BY <1>2, <1>3, Joined
<1> HIDE DEF scored, routes
<1>5. Listed(routes) /\ \A r \in ToSet(routes) : ShownRoute(r)
  <2>1. \A r \in ToSet(routes) : r \in ToSet(got.routes) \cup R
    BY <1>4, ListedIn
  <2> QED BY <1>2, <1>3, <1>4, <2>1, IsListed
<1>6. CASE asked = "v6"
  <2>1. Ends([interfaces |-> ordered, routes |-> routes])
    BY <1>6 DEF Dumped, routes, scored
  <2>2. \A i \in ToSet(ordered) : ShownOne(i)
    <3>1. \A i \in ToSet(ordered) : \E n \in DOMAIN got.links : i = got.links[n]
      BY OrderedAre
    <3>2. \A n \in DOMAIN got.links : ShownOne(got.links[n])
      BY <1>1 DEF MacosGathered
    <3> QED BY <3>1, <3>2
  <2> HIDE DEF ordered
  <2> QED BY <1>1, <1>5, <2>1, <2>2, EndsTold
<1>7. CASE asked # "v6"
  <2>1. /\ box' = box /\ been' = been /\ scene' = scene /\ asked' = "v6" /\ pc' = "size"
        /\ got' = [got EXCEPT !.routes = routes]
    BY <1>7 DEF Dumped, Keep, routes, scored
  <2>2. DOMAIN got' = DOMAIN Nothing /\ got'.routes = routes /\ got'.links = got.links
    BY <1>1, <2>1 DEF Situated, Nothing
  <2>3. /\ \A i : ShownOne(i) => ShownOne(i)'
        /\ \A r : ShownRoute(r) => ShownRoute(r)'
    BY <2>1, ShownStays
  <2>4. MacosGathered'
    BY <1>1, <1>5, <2>1, <2>2, <2>3 DEF MacosGathered
  <2>5. asked' \in Families /\ Listed(got'.routes)
    BY <1>5, <2>1, <2>2 DEF Families, Listed
  <2> QED BY <1>1, <2>1, <2>2, <2>4, <2>5, MacosTold
<1> QED BY <1>6, <1>7

LEMMA SizeTold ==
  ASSUME AsItWas, SizeTable
  PROVE  AsItWas'
<1>1. pc = "size"
  BY DEF SizeTable, Answers
<1>2. Situated /\ OnMacos /\ MacosGathered
  BY <1>1, OneSystem
<1>3. CASE Dumped(<<>>)
  <2>1. DOMAIN <<>> = 1..0 /\ ToSet(<<>>) = {}
    BY DEF ToSet
  <2> QED BY <1>1, <1>2, <1>3, <2>1, DumpedTold
<1>4. CASE ~Dumped(<<>>)
  <2>1. /\ box' = box /\ been' = been /\ scene' = scene /\ asked' = asked
        /\ pc' = "read" /\ got' = got
    BY <1>4 DEF SizeTable, Keep
  <2>2. /\ \A i : ShownOne(i) => ShownOne(i)'
        /\ \A r : ShownRoute(r) => ShownRoute(r)'
    BY <2>1, ShownStays
  <2>3. MacosGathered'
    BY <1>1, <1>2, <2>1, <2>2 DEF MacosGathered
  <2>4. asked' \in Families /\ DOMAIN got' = DOMAIN Nothing /\ Listed(got'.routes)
    BY <1>2, <2>1 DEF Situated, Listed
  <2> QED BY <1>2, <2>1, <2>3, <2>4, MacosTold
<1> QED BY <1>3, <1>4

LEMMA ReadTold ==
  ASSUME AsItWas, OnMacos, ReadTable
  PROVE  AsItWas'
<1>1. pc = "read"
  BY DEF ReadTable, Answers
<1>2. Situated /\ MacosGathered
  BY OneSystem
<1>3. CASE Dumped(TableOf(scene, asked))
  <2>1. /\ scene \in been /\ asked \in Families /\ scene \in DOMAIN Scene
        /\ Numbered(Scene[scene])
    BY <1>2, Surroundings DEF Situated, OnMacos
  <2>2. PICK table : table = TableOf(scene, asked)
    OBVIOUS
  <2>3. /\ \E n \in Nat : DOMAIN table = 1..n
        /\ \A r \in ToSet(table) : \E q \in ToSet(Scene[scene].routes) : Rendered(Scene[scene], q, r)
    BY <2>1, <2>2, TableRead
  <2> QED BY <1>1, <1>3, <2>1, <2>2, <2>3, DumpedTold
<1>4. CASE Ends(Broken)
  BY <1>2, <1>4, BrokenTold
<1>5. CASE ~Dumped(TableOf(scene, asked)) /\ ~Ends(Broken)
  <2>1. TooSmall("size", 0)
    BY <1>5 DEF ReadTable
  <2>2. /\ box' = box /\ been' = been /\ scene' = scene /\ asked' = asked
        /\ pc' = "size" /\ got' = got
    BY <1>5, <2>1 DEF TooSmall, Keep
  <2>3. /\ \A i : ShownOne(i) => ShownOne(i)'
        /\ \A r : ShownRoute(r) => ShownRoute(r)'
    BY <2>2, ShownStays
  <2>4. MacosGathered'
    BY <1>1, <1>2, <2>2, <2>3 DEF MacosGathered
  <2>5. asked' \in Families /\ DOMAIN got' = DOMAIN Nothing /\ Listed(got'.routes)
    BY <1>2, <2>2 DEF Situated, Listed
  <2> QED BY <1>2, <2>2, <2>4, <2>5, MacosTold
<1> QED BY <1>3, <1>4, <1>5

----------------------------------------------------------------------------
(***************************************************************************)
(* Windows.                                                                *)
(***************************************************************************)
\* What an adapter's address is when it is read back.
LEMMA UnicastIp ==
  ASSUME NEW b, b.family \in Families, NEW u, u = UnicastRecord(b)
  PROVE  SockaddrIp(u.sockaddr) = b.ip
<1>1. /\ u.sockaddr.family = b.family /\ u.sockaddr.ip = b.ip
      /\ u.sockaddr.len = IF b.family = "v4" THEN 16 ELSE 28
  BY DEF UnicastRecord
<1>2. Min({u.sockaddr.len, 28}) = u.sockaddr.len
  <2>1. {u.sockaddr.len, 28} \subseteq Nat /\ 28 \in {u.sockaddr.len, 28}
    BY <1>1
  <2>2. /\ Min({u.sockaddr.len, 28}) \in {u.sockaddr.len, 28}
        /\ \A y \in {u.sockaddr.len, 28} : Min({u.sockaddr.len, 28}) <= y
    BY <2>1, MinIsLeast
  <2> QED BY <1>1, <2>2
<1>3. CASE b.family = "v4"
  BY <1>1, <1>2, <1>3 DEF SockaddrIp
<1>4. CASE b.family = "v6"
  BY <1>1, <1>2, <1>4 DEF SockaddrIp
<1> QED BY <1>3, <1>4 DEF Families

LEMMA UnicastRead ==
  ASSUME NEW b, b.family \in Families, NEW u, u = UnicastRecord(b), IsUsable(u)
  PROVE  ~b.duplicate /\ SockaddrIp(u.sockaddr) = b.ip /\ (u.suffix = "Random" => b.temporary)
<1>1. /\ u.dad = IF b.duplicate THEN "Duplicate" ELSE "Preferred"
      /\ u.suffix = IF b.temporary THEN "Random" ELSE "LinkLayer"
  BY DEF UnicastRecord
<1> QED BY <1>1, UnicastIp DEF IsUsable

LEMMA AdapterHeld ==
  ASSUME Situated, NEW s \in been, NEW n \in DOMAIN Scene[s].links, NEW ndis
  PROVE  LinkHeld(s, AdapterFrom(AdapterOf(Scene[s], n), ndis))
<1>1. PICK link, adapter, i : /\ link = Scene[s].links[n] /\ adapter = AdapterOf(Scene[s], n)
                              /\ i = AdapterFrom(adapter, ndis)
  OBVIOUS
<1>2. /\ adapter.name = n /\ adapter.index = link.index /\ adapter.index6 = link.index6
      /\ adapter.oper = [up |-> "UP", down |-> "DOWN", quiet |-> "UNKNOWN"][link.oper]
  BY <1>1 DEF AdapterOf
<1>3. /\ i.name = n /\ i.index = AdapterIndex(link.index, link.index6)
      /\ i.state = WinState(adapter.oper)
  BY <1>1, <1>2 DEF AdapterFrom
<1>4. /\ WinState("UP") = "up" /\ WinState("DOWN") = "down" /\ WinState("UNKNOWN") = "unknown"
      /\ StateOf["up"] = "up" /\ StateOf["down"] = "down" /\ StateOf["quiet"] = "unknown"
  BY DEF WinState, StateOf
<1>5. PICK oper, state : oper = link.oper /\ state = i.state
  OBVIOUS
<1>6. state = WinState([up |-> "UP", down |-> "DOWN", quiet |-> "UNKNOWN"][oper])
  BY <1>2, <1>3, <1>5
<1>7. oper \in {"up", "down", "quiet"}
  BY <1>1, <1>5, Surroundings DEF Plausible
<1>8. i.state = StateOf[link.oper]
  BY <1>4, <1>5, <1>6, <1>7
<1> QED BY <1>1, <1>3, <1>8 DEF LinkHeld, IndexIn

LEMMA AdapterShown ==
  ASSUME Situated, box.platform = "windows", NEW s \in been, NEW n \in DOMAIN Scene[s].links, NEW ndis
  PROVE  ShownOne(AdapterFrom(AdapterOf(Scene[s], n), ndis))
<1> DEFINE link == Scene[s].links[n]
           adapter == AdapterOf(Scene[s], n)
           i == AdapterFrom(adapter, ndis)
           S == {k \in DOMAIN Scene[s].addresses : Scene[s].addresses[k].name = n}
           records == [k \in DOMAIN Scene[s].addresses |-> UnicastRecord(Scene[s].addresses[k])]
<1>1. Plausible(Scene[s])
  BY Surroundings
<1>2. /\ adapter.name = n /\ adapter.index = link.index /\ adapter.index6 = link.index6
      /\ adapter.oper = [up |-> "UP", down |-> "DOWN", quiet |-> "UNKNOWN"][link.oper]
      /\ adapter.unicast = Picked(records, S)
  BY DEF AdapterOf
<1>3. PICK m \in Nat : DOMAIN Scene[s].addresses = 1..m
  BY <1>1 DEF Plausible
<1>4. S \in SUBSET (1..m) /\ (\A k \in S : records[k] = UnicastRecord(Scene[s].addresses[k]))
      /\ \A k \in S : k \in DOMAIN Scene[s].addresses /\ Scene[s].addresses[k].name = n
  BY <1>3
<1> HIDE DEF records, S, adapter
<1>5. /\ i.name = n /\ i.index = AdapterIndex(link.index, link.index6)
      /\ i.state = WinState(adapter.oper) /\ i.addresses = UsableAddresses(adapter)
  BY <1>2 DEF AdapterFrom
<1>6. LinkHeld(s, i)
  BY AdapterHeld DEF i, adapter
<1> HIDE DEF i
<1>7. \A a \in ToSet(i.addresses) : AddressHeld(s, i.name, a)
  <2> DEFINE read == [k \in DOMAIN adapter.unicast |->
                        LET u == adapter.unicast[k]
                        IN  [ip |-> SockaddrIp(u.sockaddr), family |-> u.sockaddr.family,
                             scope |-> u.scope, temporary |-> u.suffix = "Random"]]
             usable == {k \in DOMAIN adapter.unicast : IsUsable(adapter.unicast[k])}
  <2>1. UsableAddresses(adapter) = Picked(read, usable)
    BY DEF UsableAddresses
  <2>2. /\ \E j \in Nat : DOMAIN Picked(records, S) = 1..j
        /\ \A u \in ToSet(Picked(records, S)) : \E k \in S : u = records[k]
    BY <1>4, PickedOut
  <2>3. PICK j \in Nat : DOMAIN adapter.unicast = 1..j
    BY <1>2, <2>2
  <2>4. usable \in SUBSET (1..j)
    BY <2>3
  <2>5. ASSUME NEW k \in usable PROVE AddressHeld(s, n, read[k])
    <3>1. PICK u : u = adapter.unicast[k]
      OBVIOUS
    <3>2. u \in ToSet(Picked(records, S)) /\ IsUsable(u)
      BY <1>2, <3>1 DEF ToSet
    <3>3. PICK l \in S : u = records[l]
      BY <2>2, <3>2
    <3>4. PICK b : b = Scene[s].addresses[l]
      OBVIOUS
    <3>5. /\ b \in ToSet(Scene[s].addresses) /\ b.name = n /\ u = UnicastRecord(b)
          /\ b.family \in Families
      BY <1>1, <1>4, <3>3, <3>4 DEF ToSet, Plausible
    <3>6. ~b.duplicate /\ SockaddrIp(u.sockaddr) = b.ip /\ (u.suffix = "Random" => b.temporary)
      BY <3>2, <3>5, UnicastRead
    <3>7. u.sockaddr.family = b.family /\ u.scope = b.scope
      BY <3>5 DEF UnicastRecord
    <3>8. PICK x : x = read[k]
      OBVIOUS
    <3>9. /\ x.ip = SockaddrIp(u.sockaddr) /\ x.family = u.sockaddr.family /\ x.scope = u.scope
          /\ x.temporary <=> u.suffix = "Random"
      BY <3>1, <3>8
    <3>10. Says(x, b) /\ (x.temporary => b.temporary)
      BY <3>6, <3>7, <3>9 DEF Says
    <3>11. AddressHeld(s, n, x)
      BY <3>5, <3>6, <3>10, Zenon DEF AddressHeld
    <3> QED BY <3>8, <3>11
  <2> HIDE DEF read, usable
  <2>6. \A a \in ToSet(Picked(read, usable)) : \E k \in usable : a = read[k]
    BY <2>4, PickedOut
  <2> QED BY <1>5, <2>1, <2>5, <2>6
<1> QED BY <1>6, <1>7 DEF ShownOne, ShownLink, i, adapter

LEMMA WalkShown ==
  ASSUME Situated, box.platform = "windows", NEW s \in been,
         NEW adapters, adapters = WindowsAdapters(Scene[s]), NEW ndis
  PROVE  \A i \in ToSet(Walk(adapters, ndis, Names)) : ShownOne(i)
<1> DEFINE Of(name) == CHOOSE a \in Named(adapters) : a.name = name
           shown == {k \in DOMAIN Names : \E a \in Named(adapters) : a.name = Names[k]}
           seq == [k \in shown |-> AdapterFrom(Of(Names[k]), ndis)]
<1>1. Walk(adapters, ndis, Names) = Picked(seq, shown)
  BY DEF Walk
<1>2. PICK n \in Nat : DOMAIN Names = 1..n
  BY NamesAreListed
<1>3. shown \in SUBSET (1..n)
  BY <1>2
<1>4. ASSUME NEW k \in shown PROVE ShownOne(seq[k])
  <2>1. Of(Names[k]) \in Named(adapters)
    OBVIOUS
  <2>2. PICK a : a = Of(Names[k])
    OBVIOUS
  <2>3. a \in Named(adapters) /\ seq[k] = AdapterFrom(a, ndis)
    BY <2>1, <2>2
  <2>4. PICK m \in DOMAIN Scene[s].links : a = AdapterOf(Scene[s], m)
    BY <2>3 DEF Named, WindowsAdapters
  <2> QED BY <2>3, <2>4, AdapterShown
<1> HIDE DEF seq, shown
<1>5. \A i \in ToSet(Picked(seq, shown)) : \E k \in shown : i = seq[k]
  BY <1>3, PickedOut
<1> QED BY <1>1, <1>4, <1>5

\* The prefix of a row is the route's, however the kernel writes a host's.
LEMMA PrefixRead ==
  ASSUME NEW q, q.family \in Families, q.prefix \in 0..HostPrefix(q.family),
         q.kind = "host" => q.prefix # 0,
         NEW raw, raw = IF q.kind = "host" THEN 255 ELSE q.prefix
  PROVE  ClampedPrefix(raw, q.family) = 0 <=> q.prefix = 0
<1> DEFINE bits == IF q.family = "v4" THEN 32 ELSE 128
<1>1. bits \in {32, 128} /\ raw \in Nat /\ q.prefix \in Nat
  BY DEF HostPrefix, Families
<1>2. ClampedPrefix(raw, q.family) = Min({raw, bits})
  BY DEF ClampedPrefix
<1>3. Min({raw, bits}) \in {raw, bits} /\ \A y \in {raw, bits} : Min({raw, bits}) <= y
  <2>1. {raw, bits} \subseteq Nat /\ raw \in {raw, bits}
    BY <1>1
  <2> QED BY <2>1, MinIsLeast
<1> HIDE DEF bits
<1>4. CASE q.kind = "host"
  BY <1>1, <1>2, <1>3, <1>4
<1>5. CASE q.kind # "host"
  BY <1>1, <1>2, <1>3, <1>5
<1> QED BY <1>4, <1>5

\* The index a row is given is its adapter's, or its own where the walk over
\* the adapters of s had not seen that adapter.
LEMMA IndexRead ==
  ASSUME Situated, box.platform = "windows", NEW s \in been,
         NEW links, links = LinksByLuid(WindowsAdapters(Scene[s])),
         NEW q \in ToSet(Scene[scene].routes),
         NEW row, row = ForwardRow(Scene[scene].links[q.name], q)
  PROVE  RouteIndex(row, links) \in OwnIndex(scene, q)
<1> DEFINE link == Scene[scene].links[q.name]
           adapters == WindowsAdapters(Scene[s])
<1>1. /\ scene \in been /\ been \subseteq box.scenes /\ Plausible(Scene[scene])
      /\ scene \in box.scenes /\ s \in box.scenes
  BY Surroundings DEF Situated
<1>2. q.name \in DOMAIN Scene[scene].links /\ q.family \in Families
  BY <1>1 DEF Plausible, ToSet
<1>3. \A u, t \in box.scenes : \A n \in DOMAIN Scene[u].links, m \in DOMAIN Scene[t].links :
         Scene[u].links[n].luid = Scene[t].links[m].luid =>
             /\ n = m
             /\ Scene[u].links[n].index = Scene[t].links[m].index
             /\ Scene[u].links[n].index6 = Scene[t].links[m].index6
  BY Surroundings DEF Systematic
<1>4. row.luid = link.luid /\ row.index = IF q.family = "v4" THEN link.index ELSE link.index6
  BY DEF ForwardRow
<1>5. IndexIn(scene, q.name) \in OwnIndex(scene, q)
  BY DEF OwnIndex
<1>6. DOMAIN links = {a.luid : a \in Named(adapters)}
  BY DEF LinksByLuid
<1>7. CASE row.luid \in DOMAIN links
  <2>1. PICK a : a = CHOOSE c \in Named(adapters) : c.luid = row.luid
    OBVIOUS
  <2>2. a \in Named(adapters) /\ a.luid = row.luid
    BY <1>6, <1>7, <2>1
  <2>3. links[row.luid].index = AdapterIndex(a.index, a.index6)
    BY <1>7, <2>1 DEF LinksByLuid
  <2>4. PICK n \in DOMAIN Scene[s].links : a = AdapterOf(Scene[s], n)
    BY <2>2 DEF Named, WindowsAdapters
  <2>5. /\ a.luid = Scene[s].links[n].luid /\ a.index = Scene[s].links[n].index
        /\ a.index6 = Scene[s].links[n].index6
    BY <2>4 DEF AdapterOf
  <2>6. Scene[s].links[n].luid = Scene[scene].links[q.name].luid
    BY <1>4, <2>2, <2>5
  <2>7. /\ Scene[s].links[n].index = Scene[scene].links[q.name].index
        /\ Scene[s].links[n].index6 = Scene[scene].links[q.name].index6
    <3>1. s \in box.scenes /\ scene \in box.scenes
      BY <1>1
    <3>2. \A j \in DOMAIN Scene[s].links, m \in DOMAIN Scene[scene].links :
             Scene[s].links[j].luid = Scene[scene].links[m].luid =>
                 /\ j = m
                 /\ Scene[s].links[j].index = Scene[scene].links[m].index
                 /\ Scene[s].links[j].index6 = Scene[scene].links[m].index6
      BY <1>3, <3>1
    <3>3. PICK m \in DOMAIN Scene[scene].links : m = q.name
      BY <1>2
    <3>4. Scene[s].links[n].luid = Scene[scene].links[m].luid
      BY <2>6, <3>3
    <3>5. /\ Scene[s].links[n].index = Scene[scene].links[m].index
          /\ Scene[s].links[n].index6 = Scene[scene].links[m].index6
      BY <3>2, <3>4
    <3> QED BY <3>3, <3>5
  <2>8. a.index = link.index /\ a.index6 = link.index6
    BY <2>5, <2>7
  <2> QED BY <1>5, <1>7, <2>3, <2>8 DEF RouteIndex, IndexIn
<1>8. CASE row.luid \notin DOMAIN links
  <2>1. ASSUME NEW n \in DOMAIN Scene[s].links \ {<<>>}
        PROVE  Scene[s].links[n].luid # link.luid
    <3>1. PICK a : a = AdapterOf(Scene[s], n)
      OBVIOUS
    <3>2. a.luid = Scene[s].links[n].luid /\ a.name = n
      BY <3>1 DEF AdapterOf
    <3>3. a \in Named(adapters)
      BY <3>1, <3>2 DEF Named, WindowsAdapters
    <3> QED BY <1>4, <1>6, <1>8, <3>2, <3>3
  <2>2. OwnIndex(scene, q) = {IndexIn(scene, q.name), link.index6}
    BY <2>1 DEF OwnIndex
  <2>3. q.family = "v4" => link.index # 0
    BY <1>1, Surroundings DEF Systematic
  <2>4. q.family = "v4" => IndexIn(scene, q.name) = link.index
    BY <2>3 DEF IndexIn, AdapterIndex
  <2>5. RouteIndex(row, links) = row.index
    BY <1>8 DEF RouteIndex
  <2> QED BY <1>2, <1>4, <2>2, <2>4, <2>5
<1> QED BY <1>7, <1>8

LEMMA ForwardShown ==
  ASSUME Situated, box.platform = "windows", NEW s \in been,
         NEW links, links = LinksByLuid(WindowsAdapters(Scene[s]))
  PROVE  \A r \in ToSet(WinRoutes(WindowsRoutes(Scene[scene]), links)) : ShownRoute(r)
<1> DEFINE m == Scene[scene]
           rows == WindowsRoutes(m)
           all == [k \in DOMAIN m.routes |-> ForwardRow(m.links[m.routes[k].name], m.routes[k])]
           S == {k \in DOMAIN m.routes : m.routes[k].kind \in {"route", "host", "loop"}}
           read == [k \in DOMAIN rows |-> RouteFromRow(rows[k], links)]
           P == {k \in DOMAIN rows : WinReportable(rows[k])}
<1>1. Plausible(m) /\ scene \in been
  BY Surroundings DEF Situated
<1>2. PICK n \in Nat : DOMAIN m.routes = 1..n
  BY <1>1 DEF Plausible
<1>3. S \in SUBSET (1..n) /\ rows = Picked(all, S)
      /\ \A k \in S : /\ all[k] = ForwardRow(m.links[m.routes[k].name], m.routes[k])
                      /\ m.routes[k].kind \in {"route", "host", "loop"}
                      /\ m.routes[k] \in ToSet(m.routes)
  BY <1>2 DEF WindowsRoutes, ToSet
<1> HIDE DEF rows, all, S
<1>4. /\ \E j \in Nat : DOMAIN rows = 1..j
      /\ \A row \in ToSet(rows) : \E k \in S : row = all[k]
  <2>1. S \in SUBSET (1..n)
    BY <1>3
  <2>2. /\ \E j \in Nat : DOMAIN Picked(all, S) = 1..j
        /\ \A row \in ToSet(Picked(all, S)) : \E k \in S : row = all[k]
    BY <2>1, PickedOut
  <2>3. rows = Picked(all, S)
    BY <1>3
  <2> QED BY <2>2, <2>3
<1>5. PICK j \in Nat : DOMAIN rows = 1..j
  BY <1>4
<1>6. P \in SUBSET (1..j) /\ WinRoutes(rows, links) = Picked(read, P)
  BY <1>5 DEF WinRoutes
<1>7. ASSUME NEW k \in P PROVE ShownRoute(read[k])
  <2>1. PICK row, r : row = rows[k] /\ r = read[k]
    OBVIOUS
  <2>2. row \in ToSet(rows) /\ WinReportable(row) /\ r = RouteFromRow(row, links)
    BY <2>1 DEF ToSet
  <2>3. PICK l \in S : row = all[l]
    BY <1>4, <2>2
  <2>4. PICK q : q = m.routes[l]
    OBVIOUS
  <2>5. /\ q \in ToSet(m.routes) /\ q.kind \in {"route", "host", "loop"}
        /\ row = ForwardRow(m.links[q.name], q)
    BY <1>3, <2>3, <2>4
  <2>6. /\ row.family = q.family /\ row.destination = q.destination
        /\ row.prefix = IF q.kind = "host" THEN 255 ELSE q.prefix
        /\ row.next_hop = IF q.gateway = None THEN 0 ELSE q.gateway
        /\ row.loopback <=> q.kind = "loop"
    BY <2>5 DEF ForwardRow
  <2>7. q.kind \in {"route", "host"}
    BY <2>2, <2>5, <2>6 DEF WinReportable
  <2>8. /\ q.family \in Families /\ q.prefix \in 0..HostPrefix(q.family)
        /\ q.kind = "host" => q.prefix # 0
        /\ q.gateway \in {None} \cup 1..(Embedding - 1)
    BY <1>1, <2>5 DEF Plausible, ToSet
  <2>9. ClampedPrefix(row.prefix, row.family) = 0 <=> q.prefix = 0
    BY <2>6, <2>8, PrefixRead
  <2>10. /\ r.default <=> (q.destination = 0 /\ q.prefix = 0)
         /\ r.family = q.family /\ r.index = RouteIndex(row, links)
    BY <2>2, <2>6, <2>9 DEF RouteFromRow
  <2>11. r.gateway = q.gateway
    <3>1. r.gateway = IF row.next_hop = 0 THEN None ELSE row.next_hop
      BY <2>2 DEF RouteFromRow
    <3> QED BY <2>6, <2>8, <3>1
  <2>12. r.index \in OwnIndex(scene, q)
    BY <2>5, <2>10, IndexRead
  <2>13. RouteHeld(scene, r)
    BY <2>5, <2>7, <2>10, <2>11, <2>12 DEF RouteHeld
  <2> QED BY <1>1, <2>1, <2>13 DEF ShownRoute
<1> HIDE DEF read, P
<1>8. \A r \in ToSet(Picked(read, P)) : \E k \in P : r = read[k]
  BY <1>6, PickedOut
<1>9. \A r \in ToSet(WinRoutes(rows, links)) : ShownRoute(r)
  BY <1>6, <1>7, <1>8
<1> QED BY <1>9 DEF rows

\* A step of Windows that goes on.
LEMMA WindowsTold ==
  ASSUME Situated, box.platform = "windows", been' = been, box' = box, scene' = scene,
         asked' \in Families, DOMAIN got' = DOMAIN Nothing, Listed(got'.routes),
         pc' \in {"adapters", "rows", "forward"}, WindowsGathered'
  PROVE  AsItWas'
<1>1. ~OnMacos' /\ box'.platform = "windows" /\ ~OnLinux' /\ pc' # "idle"
  BY DEF OnMacos, OnLinux
<1>2. Gathered'
  BY <1>1 DEF Gathered
<1> QED BY <1>1, <1>2, GoesOnTold

LEMMA AdaptersTold ==
  ASSUME AsItWas, AdaptersAddresses
  PROVE  AsItWas'
<1>1. pc = "adapters"
  BY DEF AdaptersAddresses, Answers
<1>2. Situated /\ box.platform = "windows"
  BY <1>1, OneSystem
<1>3. scene \in been /\ Now = Scene[scene]
  BY <1>2, Surroundings DEF Situated
<1>4. Listed(got.routes)' <=> got'.routes \in Seq(ToSet(got'.routes))
  BY DEF Listed
<1>5. CASE DOMAIN Now.links = {}
  <2>1. /\ box' = box /\ been' = been /\ scene' = scene /\ asked' = asked /\ pc' = "forward"
        /\ got' = [got EXCEPT !.adapters = {}, !.links = <<>>]
    BY <1>5 DEF AdaptersAddresses, Goes, Keep
  <2>2. /\ DOMAIN got' = DOMAIN Nothing /\ got'.routes = got.routes
        /\ got'.adapters = {} /\ got'.links = <<>>
    BY <1>2, <2>1 DEF Situated, Nothing
  <2>3. got'.adapters = WindowsAdapters(Scene[scene]) /\ ToSet(got'.links) = {}
    BY <1>3, <1>5, <2>2 DEF WindowsAdapters, ToSet
  <2>4. WindowsGathered'
    BY <1>3, <2>1, <2>3 DEF WindowsGathered
  <2>5. asked' \in Families /\ Listed(got'.routes)
    BY <1>2, <2>1, <2>2 DEF Situated, Listed
  <2> QED BY <1>2, <2>1, <2>2, <2>4, <2>5, WindowsTold
<1>6. CASE Ends(Broken)
  BY <1>2, <1>6, BrokenTold
<1>7. CASE DOMAIN Now.links # {} /\ ~Ends(Broken) /\ Now.bulk > room
  <2>1. TooSmall("adapters", Now.bulk)
    BY <1>7 DEF AdaptersAddresses
  <2>2. /\ box' = box /\ been' = been /\ scene' = scene /\ asked' = asked
        /\ pc' = "adapters" /\ got' = got
    BY <1>7, <2>1 DEF TooSmall, Keep
  <2>3. WindowsGathered'
    BY <2>2 DEF WindowsGathered
  <2>4. asked' \in Families /\ DOMAIN got' = DOMAIN Nothing /\ Listed(got'.routes)
    BY <1>2, <2>2 DEF Situated, Listed
  <2> QED BY <1>2, <2>2, <2>3, <2>4, WindowsTold
<1>8. CASE DOMAIN Now.links # {} /\ ~(Now.bulk > room)
  <2>1. /\ box' = box /\ been' = been /\ scene' = scene /\ asked' = asked /\ pc' = "rows"
        /\ got' = [got EXCEPT !.adapters = WindowsAdapters(Now)]
    BY <1>8 DEF AdaptersAddresses, Goes, Keep
  <2>2. /\ DOMAIN got' = DOMAIN Nothing /\ got'.routes = got.routes
        /\ got'.adapters = WindowsAdapters(Scene[scene])
    BY <1>2, <1>3, <2>1 DEF Situated, Nothing
  <2>3. WindowsGathered'
    BY <1>3, <2>1, <2>2 DEF WindowsGathered
  <2>4. asked' \in Families /\ Listed(got'.routes)
    BY <1>2, <2>1, <2>2 DEF Situated, Listed
  <2> QED BY <1>2, <2>1, <2>2, <2>3, <2>4, WindowsTold
<1> QED BY <1>5, <1>6, <1>7, <1>8

LEMMA RowsTold ==
  ASSUME AsItWas, InterfaceRows
  PROVE  AsItWas'
<1>1. PICK ndis :
         /\ box' = box /\ been' = been /\ scene' = scene /\ asked' = asked
         /\ pc = "rows" /\ pc' = "forward"
         /\ got' = [got EXCEPT !.links = Walk(got.adapters, ndis, Names)]
  BY DEF InterfaceRows, Answers, Goes, Keep
<1>2. Situated /\ box.platform = "windows" /\ WindowsGathered
  BY <1>1, OneSystem
<1>3. PICK s \in been : got.adapters = WindowsAdapters(Scene[s])
  BY <1>1, <1>2 DEF WindowsGathered
<1>4. /\ DOMAIN got' = DOMAIN Nothing /\ got'.routes = got.routes
      /\ got'.adapters = got.adapters /\ got'.links = Walk(got.adapters, ndis, Names)
  BY <1>1, <1>2 DEF Situated, Nothing
<1>5. \A i \in ToSet(got'.links) : ShownOne(i)
  BY <1>2, <1>3, <1>4, WalkShown
<1>6. \A i : ShownOne(i) => ShownOne(i)'
  BY <1>1, ShownStays
<1>7. WindowsGathered'
  BY <1>1, <1>3, <1>4, <1>5, <1>6 DEF WindowsGathered
<1>8. asked' \in Families /\ Listed(got'.routes)
  BY <1>1, <1>2, <1>4 DEF Situated, Listed
<1> QED BY <1>1, <1>2, <1>4, <1>7, <1>8, WindowsTold

LEMMA ForwardTold ==
  ASSUME AsItWas, ForwardTable
  PROVE  AsItWas'
<1> DEFINE links == LinksByLuid(got.adapters)
           routes == WinRoutes(WindowsRoutes(Now), links)
<1>1. pc = "forward" /\ Ends([interfaces |-> got.links, routes |-> routes])
  BY DEF ForwardTable, Answers
<1>2. Situated /\ box.platform = "windows" /\ WindowsGathered
  BY <1>1, OneSystem
<1>3. PICK s \in been : got.adapters = WindowsAdapters(Scene[s])
  BY <1>1, <1>2 DEF WindowsGathered
<1>4. \A i \in ToSet(got.links) : ShownOne(i)
  BY <1>1, <1>2 DEF WindowsGathered
<1>5. \A r \in ToSet(routes) : ShownRoute(r)
  <2>1. Now = Scene[scene]
    BY <1>2, Surroundings
  <2>2. PICK l : l = links
    OBVIOUS
  <2>3. \A r \in ToSet(WinRoutes(WindowsRoutes(Scene[scene]), l)) : ShownRoute(r)
    BY <1>2, <1>3, <2>2, ForwardShown
  <2> QED BY <2>1, <2>2, <2>3
<1> HIDE DEF routes
<1> QED BY <1>1, <1>2, <1>4, <1>5, EndsTold

----------------------------------------------------------------------------
(***************************************************************************)
(* Linux.                                                                  *)
(***************************************************************************)
LEMMA LinuxLinkAt ==
  ASSUME NEW s, Plausible(s), NEW i \in DOMAIN LinuxLinks(s)
  PROVE  LET link == LinuxLinks(s)[i]
         IN  /\ link.name \in DOMAIN s.links /\ i = s.links[link.name].index /\ link.admin
             /\ link.oper = StateOf[s.links[link.name].oper]
<1> DEFINE link == LinuxLinks(s)[i]
<1>1. i \in {s.links[n].index : n \in DOMAIN s.links}
  BY DEF LinuxLinks
<1>2. PICK name : name = CHOOSE n \in DOMAIN s.links : s.links[n].index = i
  OBVIOUS
<1>3. name \in DOMAIN s.links /\ s.links[name].index = i
  BY <1>1, <1>2
<1>4. /\ link.name = name /\ link.admin
      /\ link.oper = [up |-> "up", down |-> "down", quiet |-> "unknown"][s.links[name].oper]
  BY <1>1, <1>2, Zenon DEF LinuxLinks
<1> QED BY <1>3, <1>4 DEF StateOf

LEMMA LinuxLinksFinite ==
  ASSUME NEW s, Plausible(s)
  PROVE  DOMAIN LinuxLinks(s) \subseteq Nat /\ IsFiniteSet(DOMAIN LinuxLinks(s))
<1>1. DOMAIN LinuxLinks(s) = {s.links[n].index : n \in DOMAIN s.links}
  BY DEF LinuxLinks
<1>2. DOMAIN LinuxLinks(s) \subseteq Nat
  BY <1>1 DEF Plausible
<1>3. PICK f : f = [n \in DOMAIN s.links |-> s.links[n].index]
  OBVIOUS
<1>4. {f[n] : n \in DOMAIN s.links} = {s.links[n].index : n \in DOMAIN s.links}
  BY <1>3
<1>5. f \in Surjection(DOMAIN s.links, {s.links[n].index : n \in DOMAIN s.links})
  BY <1>3 DEF Surjection
<1>6. IsFiniteSet({s.links[n].index : n \in DOMAIN s.links})
  BY <1>5, FS_Surjection DEF Plausible
<1> QED BY <1>1, <1>2, <1>6

\* An address is reported by Linux of the link whose index it has, and that
\* index is no other link's in any scene.
LEMMA AttributedHeld ==
  ASSUME Situated, OnLinux, NEW s \in been, NEW n \in DOMAIN Scene[s].links, NEW t \in been,
         NEW addresses, addresses = LinuxAddresses(Scene[t])
  PROVE  \A a \in ToSet(AddressesAt(addresses, Scene[s].links[n].index)) : AddressHeld(t, n, a)
<1> DEFINE index == Scene[s].links[n].index
           read == [k \in DOMAIN addresses |-> AddressFrom(addresses[k])]
           S == {k \in DOMAIN addresses : addresses[k].index = index /\ ~addresses[k].dadfailed}
<1>1. Plausible(Scene[t]) /\ s \in box.scenes /\ t \in box.scenes
  BY Surroundings DEF Situated
<1>2. PICK m \in Nat : DOMAIN addresses = 1..m /\ DOMAIN Scene[t].addresses = 1..m
  BY <1>1 DEF Plausible, LinuxAddresses
<1>3. S \in SUBSET (1..m) /\ AddressesAt(addresses, index) = Picked(read, S)
  BY <1>2 DEF AddressesAt
<1>4. \A j \in DOMAIN Scene[s].links, l \in DOMAIN Scene[t].links :
         Scene[s].links[j].index = Scene[t].links[l].index => j = l
  BY <1>1, Surroundings DEF Systematic, OnLinux
<1>5. ASSUME NEW k \in S PROVE AddressHeld(t, n, read[k])
  <2>1. PICK b, a : b = Scene[t].addresses[k] /\ a = addresses[k]
    OBVIOUS
  <2>2. /\ a.index = Scene[t].links[b.name].index /\ a.ip = b.ip /\ a.family = b.family
        /\ a.scope = b.scope /\ (a.secondary <=> b.temporary) /\ (a.dadfailed <=> b.duplicate)
    <3>1. b.temporary \in BOOLEAN /\ b.duplicate \in BOOLEAN
      BY <1>1, <1>2, <2>1 DEF Plausible
    <3> QED BY <1>2, <2>1, <3>1, Zenon DEF LinuxAddresses
  <2>3. b.name \in DOMAIN Scene[t].links /\ b \in ToSet(Scene[t].addresses)
    BY <1>1, <1>2, <2>1 DEF Plausible, ToSet
  <2>4. a.index = index /\ ~a.dadfailed
    BY <2>1
  <2>5. b.name = n
    BY <1>4, <2>2, <2>3, <2>4
  <2>6. PICK x : x = AddressFrom(a)
    OBVIOUS
  <2>7. Says(x, b) /\ (x.temporary => b.temporary)
    BY <2>2, <2>6 DEF AddressFrom, Says
  <2>8. AddressHeld(t, n, x)
    BY <2>2, <2>3, <2>4, <2>5, <2>7, Zenon DEF AddressHeld
  <2> QED BY <2>1, <2>6, <2>8
<1> HIDE DEF read, S
<1>6. \A a \in ToSet(Picked(read, S)) : \E k \in S : a = read[k]
  BY <1>3, PickedOut
<1> QED BY <1>3, <1>5, <1>6

LEMMA CollectedShown ==
  ASSUME Situated, OnLinux, NEW s \in been, NEW links, LinksAt(s, links),
         DOMAIN links \subseteq Nat, IsFiniteSet(DOMAIN links),
         NEW t \in been, NEW addresses, addresses = LinuxAddresses(Scene[t]), NEW routes
  PROVE  \A i \in ToSet(Collect(links, addresses, routes).interfaces) : ShownOne(i)
<1> DEFINE seq == [i \in DOMAIN links |-> InterfaceFrom(links, addresses, i)]
<1>1. Collect(links, addresses, routes).interfaces = Picked(seq, DOMAIN links)
  BY DEF Collect
<1>2. Numbered(Scene[s]) /\ Plausible(Scene[s])
  BY Surroundings DEF OnLinux
<1>3. ASSUME NEW k \in DOMAIN links PROVE ShownOne(seq[k])
  <2>1. PICK n \in DOMAIN Scene[s].links :
           /\ k = Scene[s].links[n].index /\ links[k].name = n /\ links[k].admin
           /\ links[k].oper = StateOf[Scene[s].links[n].oper]
    BY DEF LinksAt
  <2>2. PICK i : i = InterfaceFrom(links, addresses, k)
    OBVIOUS
  <2>3. /\ i.name = n /\ i.index = k
        /\ i.state = InterfaceState(links[k].oper, links[k].admin)
        /\ i.addresses = AddressesAt(addresses, k)
    BY <2>1, <2>2 DEF InterfaceFrom
  <2>4. Scene[s].links[n].oper \in {"up", "down", "quiet"} /\ Scene[s].links[n].index # 0
    BY <1>2 DEF Plausible, Numbered
  <2>5. i.state = StateOf[Scene[s].links[n].oper]
    <3>1. PICK oper, told, admin :
             oper = Scene[s].links[n].oper /\ told = links[k].oper /\ admin = links[k].admin
      OBVIOUS
    <3>2. oper \in {"up", "down", "quiet"} /\ told = StateOf[oper] /\ admin
      BY <2>1, <2>4, <3>1
    <3>3. StateOf[oper] \in {"up", "down", "unknown"}
      BY <3>2 DEF StateOf
    <3>4. InterfaceState(told, admin) = told
      BY <3>2, <3>3 DEF InterfaceState
    <3> QED BY <2>3, <3>1, <3>2, <3>4
  <2>6. LinkHeld(s, i)
    BY <2>1, <2>3, <2>4, <2>5 DEF LinkHeld, IndexIn, AdapterIndex
  <2>7. \A a \in ToSet(AddressesAt(addresses, k)) : AddressHeld(t, n, a)
    BY <2>1, AttributedHeld
  <2> QED BY <2>2, <2>3, <2>6, <2>7 DEF ShownOne, ShownLink
<1> HIDE DEF seq
<1>4. HoldsOf(Picked(seq, DOMAIN links), seq, DOMAIN links)
  BY PickedKeeps
<1>5. \A x \in ToSet(Picked(seq, DOMAIN links)) : \E k \in DOMAIN links : x = seq[k]
  <2>1. PICK list, S : list = Picked(seq, DOMAIN links) /\ S = DOMAIN links
    OBVIOUS
  <2>2. \A k \in DOMAIN list : \E j \in S : list[k] = seq[j]
    BY <1>4, <2>1 DEF HoldsOf
  <2>3. \A x \in ToSet(list) : \E k \in S : x = seq[k]
    BY <2>2 DEF ToSet
  <2> QED BY <2>1, <2>3
<1> QED BY <1>1, <1>3, <1>5

\* A row of the dump that leads somewhere is a route of its scene.
LEMMA RowShown ==
  ASSUME Situated, OnLinux, NEW r, RowTold(r), r.type = "unicast"
  PROVE  ShownRoute(NetlinkRoute(r))
<1>1. PICK s \in been : \E q \in ToSet(Scene[s].routes) :
         q.kind \notin {"neighbour", "arp"} /\ r = RouteRow(Scene[s].links[q.name], q)
  BY DEF RowTold
<1>2. PICK q \in ToSet(Scene[s].routes) :
         q.kind \notin {"neighbour", "arp"} /\ r = RouteRow(Scene[s].links[q.name], q)
  BY <1>1
<1>3. Plausible(Scene[s]) /\ Numbered(Scene[s])
  BY Surroundings DEF OnLinux
<1>4. q.kind \in DOMAIN RouteFlags /\ q.name \in DOMAIN Scene[s].links
  BY <1>3 DEF Plausible, ToSet
<1>5. Scene[s].links[q.name].index # 0
  BY <1>3, <1>4 DEF Numbered
<1>6. PICK x : x = NetlinkRoute(r)
  OBVIOUS
<1>7. /\ x.default <=> (q.destination = 0 /\ q.prefix = 0)
      /\ x.family = q.family /\ x.gateway = q.gateway
      /\ x.index = Scene[s].links[q.name].index
  BY <1>2, <1>6 DEF NetlinkRoute, RouteRow
<1>8. q.kind \in {"route", "host"}
  <2>1. r.type = IF q.kind \in {"route", "host"} THEN "unicast" ELSE q.kind
    BY <1>2 DEF RouteRow
  <2>2. q.kind # "unicast"
    BY <1>4 DEF RouteFlags
  <2> QED BY <2>1, <2>2
<1>9. x.index \in OwnIndex(s, q)
  BY <1>5, <1>7 DEF OwnIndex, IndexIn, AdapterIndex, OnLinux
<1>10. RouteHeld(s, x)
  BY <1>7, <1>8, <1>9 DEF RouteHeld
<1> QED BY <1>6, <1>10 DEF ShownRoute

LEMMA OneFamilyShown ==
  ASSUME Situated, OnLinux, NEW routes, \E n \in Nat : DOMAIN routes = 1..n,
         \A r \in ToSet(routes) : RowTold(r), NEW fam
  PROVE  \E R : CollectRoutes(routes, fam) \in Seq(R) /\ \A r \in R : ShownRoute(r)
<1> DEFINE seq == [k \in DOMAIN routes |-> NetlinkRoute(routes[k])]
           S == {k \in DOMAIN routes : routes[k].type = "unicast" /\ routes[k].family = fam}
           R == {seq[k] : k \in S}
<1>1. PICK n \in Nat : DOMAIN routes = 1..n
  OBVIOUS
<1>2. S \in SUBSET (1..n) /\ CollectRoutes(routes, fam) = Picked(seq, S)
  BY <1>1 DEF CollectRoutes
<1>3. ASSUME NEW k \in S PROVE ShownRoute(seq[k])
  <2>1. routes[k] \in ToSet(routes) /\ routes[k].type = "unicast"
    BY DEF ToSet
  <2> QED BY <2>1, RowShown
<1>4. \A r \in R : ShownRoute(r)
  BY <1>3
<1>5. \A k \in S : seq[k] \in R
  OBVIOUS
<1> HIDE DEF seq, S, R
<1>6. Picked(seq, S) \in Seq(R)
  BY <1>2, <1>5, PickedIsList
<1> QED BY <1>2, <1>4, <1>6

LEMMA RowsShown ==
  ASSUME Situated, OnLinux, NEW routes, Listed(routes), \A r \in ToSet(routes) : RowTold(r),
         NEW links, NEW addresses
  PROVE  \A r \in ToSet(Collect(links, addresses, routes).routes) : ShownRoute(r)
<1>1. \E n \in Nat : DOMAIN routes = 1..n
  BY DEF Listed
<1>2. PICK R4 : CollectRoutes(routes, "v4") \in Seq(R4) /\ \A r \in R4 : ShownRoute(r)
  BY <1>1, OneFamilyShown
<1>3. PICK R6 : CollectRoutes(routes, "v6") \in Seq(R6) /\ \A r \in R6 : ShownRoute(r)
  BY <1>1, OneFamilyShown
<1>4. PICK list : list = CollectRoutes(routes, "v4") \o CollectRoutes(routes, "v6")
  OBVIOUS
<1>5. list \in Seq(R4 \cup R6)
  BY <1>2, <1>3, <1>4, Joined
<1>6. \A r \in ToSet(list) : ShownRoute(r)
  BY <1>2, <1>3, <1>5, ListedIn
<1> QED BY <1>4, <1>6 DEF Collect

\* A step of Linux that goes on.
LEMMA LinuxTold ==
  ASSUME Situated, OnLinux, been' = been, box' = box, scene' = scene, asked' \in Families,
         DOMAIN got' = DOMAIN Nothing, Listed(got'.routes), pc' \in {"addresses", "read"},
         LinuxGathered'
  PROVE  AsItWas'
<1>1. ~OnMacos' /\ box'.platform = "linux" /\ OnLinux' /\ pc' # "idle"
  BY DEF OnMacos, OnLinux
<1>2. Gathered'
  BY <1>1 DEF Gathered
<1> QED BY <1>1, <1>2, GoesOnTold

LEMMA DumpLinksTold ==
  ASSUME AsItWas, DumpLinks
  PROVE  AsItWas'
<1> DEFINE links == LinuxLinks(Now)
<1>1. PICK kinds, mapped :
         /\ mapped = [i \in DOMAIN links |->
                        [name |-> links[i].name, kind |-> kinds[i],
                         oper |-> links[i].oper, admin |-> links[i].admin]]
         /\ box' = box /\ been' = been /\ scene' = scene /\ asked' = asked
         /\ OnLinux /\ pc' = "addresses" /\ got' = [got EXCEPT !.links = mapped]
  <2> DEFINE Kind(link) == ClassifyInterface(link.name, link.link_kind, link.loopback,
                                             link.wireless)
             whole == [i \in DOMAIN links |->
                         [name |-> links[i].name, kind |-> Kind(links[i]),
                          oper |-> links[i].oper, admin |-> links[i].admin]]
  <2>1. /\ box' = box /\ been' = been /\ scene' = scene /\ asked' = asked
        /\ OnLinux /\ pc' = "addresses" /\ got' = [got EXCEPT !.links = whole]
    BY DEF DumpLinks, Goes, Keep
  <2>2. PICK kinds : kinds = [i \in DOMAIN links |-> Kind(links[i])]
    OBVIOUS
  <2>3. whole = [i \in DOMAIN links |->
                   [name |-> links[i].name, kind |-> kinds[i],
                    oper |-> links[i].oper, admin |-> links[i].admin]]
    BY <2>2
  <2> HIDE DEF whole
  <2> QED BY <2>1, <2>3
<1>2. Situated /\ LinuxGathered
  BY <1>1, OneSystem
<1>3. scene \in been /\ Now = Scene[scene] /\ Plausible(Scene[scene])
  BY <1>2, Surroundings DEF Situated
<1>4. /\ DOMAIN got' = DOMAIN Nothing /\ got'.routes = got.routes /\ got'.links = mapped
  BY <1>1, <1>2 DEF Situated, Nothing
<1>5. DOMAIN mapped = DOMAIN links
  BY <1>1
<1>6. DOMAIN mapped \subseteq Nat /\ IsFiniteSet(DOMAIN mapped)
  BY <1>3, <1>5, LinuxLinksFinite
<1>7. LinksAt(scene, mapped)
  <2> SUFFICES ASSUME NEW i \in DOMAIN mapped
               PROVE  \E n \in DOMAIN Scene[scene].links :
                         /\ i = Scene[scene].links[n].index /\ mapped[i].name = n
                         /\ mapped[i].admin
                         /\ mapped[i].oper = StateOf[Scene[scene].links[n].oper]
    BY DEF LinksAt
  <2>1. PICK link : link = links[i]
    OBVIOUS
  <2>2. /\ link.name \in DOMAIN Scene[scene].links
        /\ i = Scene[scene].links[link.name].index /\ link.admin
        /\ link.oper = StateOf[Scene[scene].links[link.name].oper]
    BY <1>3, <1>5, <2>1, LinuxLinkAt
  <2>3. /\ mapped[i].name = link.name /\ mapped[i].oper = link.oper /\ mapped[i].admin = link.admin
    BY <1>1, <1>5, <2>1
  <2> QED BY <2>2, <2>3
<1>8. \A r : RowTold(r) => RowTold(r)'
  BY <1>1 DEF RowTold
<1>9. LinuxGathered'
  BY <1>1, <1>2, <1>3, <1>4, <1>6, <1>7, <1>8 DEF LinuxGathered
<1>10. asked' \in Families /\ Listed(got'.routes)
  BY <1>1, <1>2, <1>4 DEF Situated, Listed
<1> QED BY <1>1, <1>2, <1>4, <1>9, <1>10, LinuxTold

LEMMA DumpAddressesTold ==
  ASSUME AsItWas, DumpAddresses
  PROVE  AsItWas'
<1>1. /\ box' = box /\ been' = been /\ scene' = scene /\ asked' = asked
      /\ OnLinux /\ pc = "addresses" /\ pc' = "read"
      /\ got' = [got EXCEPT !.addresses = LinuxAddresses(Now)]
  BY DEF DumpAddresses, Answers, Goes, Keep
<1>2. Situated /\ LinuxGathered
  BY <1>1, OneSystem
<1>3. scene \in been /\ Now = Scene[scene]
  BY <1>2, Surroundings DEF Situated
<1>4. /\ DOMAIN got' = DOMAIN Nothing /\ got'.routes = got.routes /\ got'.links = got.links
      /\ got'.addresses = LinuxAddresses(Scene[scene])
  BY <1>1, <1>2, <1>3 DEF Situated, Nothing
<1>5. \A r : RowTold(r) => RowTold(r)'
  BY <1>1 DEF RowTold
<1>6. LinuxGathered'
  BY <1>1, <1>2, <1>3, <1>4, <1>5 DEF LinuxGathered
<1>7. asked' \in Families /\ Listed(got'.routes)
  BY <1>1, <1>2, <1>4 DEF Situated, Listed
<1> QED BY <1>1, <1>2, <1>4, <1>6, <1>7, LinuxTold

\* The rows of a dump are those of the machine's routes.
LEMMA RowsAreTold ==
  ASSUME Situated, NEW fam
  PROVE  \E R : LinuxRoutes(Scene[scene], fam) \in Seq(R) /\ \A r \in R : RowTold(r)
<1> DEFINE m == Scene[scene]
           seq == [k \in DOMAIN m.routes |-> RouteRow(m.links[m.routes[k].name], m.routes[k])]
           S == {k \in DOMAIN m.routes : /\ m.routes[k].family = fam
                                         /\ m.routes[k].kind \notin {"neighbour", "arp"}}
           R == {seq[k] : k \in S}
<1>1. Plausible(m) /\ scene \in been
  BY Surroundings DEF Situated
<1>2. PICK n \in Nat : DOMAIN m.routes = 1..n
  BY <1>1 DEF Plausible
<1>3. S \in SUBSET (1..n) /\ LinuxRoutes(m, fam) = Picked(seq, S)
  BY <1>2 DEF LinuxRoutes
<1>4. ASSUME NEW k \in S PROVE RowTold(seq[k])
  <2>1. PICK q : q = m.routes[k]
    OBVIOUS
  <2>2. /\ q \in ToSet(m.routes) /\ q.kind \notin {"neighbour", "arp"}
        /\ seq[k] = RouteRow(m.links[q.name], q)
    BY <2>1 DEF ToSet
  <2> HIDE DEF seq
  <2> QED BY <1>1, <2>2 DEF RowTold
<1>5. \A r \in R : RowTold(r)
  BY <1>4
<1>6. \A k \in S : seq[k] \in R
  OBVIOUS
<1> HIDE DEF seq, S, R
<1>7. Picked(seq, S) \in Seq(R)
  BY <1>3, <1>6, PickedIsList
<1>8. LinuxRoutes(m, fam) \in Seq(R)
  BY <1>3, <1>7
<1> QED BY <1>5, <1>8

LEMMA DumpRoutesTold ==
  ASSUME AsItWas, DumpRoutes
  PROVE  AsItWas'
<1> DEFINE routes == got.routes \o LinuxRoutes(Now, asked)
           whole == Collect(got.links, got.addresses, routes)
<1>1. OnLinux /\ pc = "read"
  BY DEF DumpRoutes, Answers
<1>2. Situated /\ LinuxGathered
  BY <1>1, OneSystem
<1>3. PICK R : LinuxRoutes(Now, asked) \in Seq(R) /\ \A r \in R : RowTold(r)
  BY <1>2, RowsAreTold, Surroundings
<1>4. got.routes \in Seq(ToSet(got.routes)) /\ \A r \in ToSet(got.routes) : RowTold(r)
  BY <1>2 DEF Situated, Listed, LinuxGathered
<1>5. routes \in Seq(ToSet(got.routes) \cup R)
  BY <1>3, <1>4, Joined
<1>6. CASE asked = "v6"
  <2>1. Ends(whole)
    BY <1>6 DEF DumpRoutes
  <2>2. PICK s \in been : LinksAt(s, got.links)
    BY <1>1, <1>2 DEF LinuxGathered
  <2>3. PICK t \in been : got.addresses = LinuxAddresses(Scene[t])
    BY <1>1, <1>2 DEF LinuxGathered
  <2>4. DOMAIN got.links \subseteq Nat /\ IsFiniteSet(DOMAIN got.links)
    BY <1>1, <1>2 DEF LinuxGathered
  <2> HIDE DEF routes
  <2>5. Listed(routes) /\ \A r \in ToSet(routes) : RowTold(r)
    <3>1. \A r \in ToSet(routes) : r \in ToSet(got.routes) \cup R
      BY <1>5, ListedIn
    <3> QED BY <1>3, <1>4, <1>5, <3>1, IsListed
  <2>6. PICK links, addresses : links = got.links /\ addresses = got.addresses
    OBVIOUS
  <2>7. /\ \A i \in ToSet(Collect(links, addresses, routes).interfaces) : ShownOne(i)
        /\ \A r \in ToSet(Collect(links, addresses, routes).routes) : ShownRoute(r)
    <3>1. \A i \in ToSet(Collect(links, addresses, routes).interfaces) : ShownOne(i)
      BY <1>1, <1>2, <2>2, <2>3, <2>4, <2>6, CollectedShown
    <3>2. \A r \in ToSet(Collect(links, addresses, routes).routes) : ShownRoute(r)
      BY <1>1, <1>2, <2>5, RowsShown
    <3> QED BY <3>1, <3>2
  <2>8. whole = [interfaces |-> whole.interfaces, routes |-> whole.routes]
    BY DEF Collect
  <2>9. /\ \A i \in ToSet(whole.interfaces) : ShownOne(i)
        /\ \A r \in ToSet(whole.routes) : ShownRoute(r)
    BY <2>6, <2>7
  <2> HIDE DEF whole
  <2>10. PICK I, L : I = whole.interfaces /\ L = whole.routes
    OBVIOUS
  <2>11. Ends([interfaces |-> I, routes |-> L])
    BY <2>1, <2>8, <2>10
  <2> QED BY <1>2, <2>9, <2>10, <2>11, EndsTold
<1>7. CASE asked # "v6"
  <2>1. /\ box' = box /\ been' = been /\ scene' = scene /\ asked' = "v6" /\ pc' = pc
        /\ got' = [got EXCEPT !.routes = routes]
    BY <1>7 DEF DumpRoutes, Keep
  <2> HIDE DEF routes
  <2>2. /\ DOMAIN got' = DOMAIN Nothing /\ got'.routes = routes /\ got'.links = got.links
        /\ got'.addresses = got.addresses
    BY <1>2, <2>1 DEF Situated, Nothing
  <2>3. \A r \in ToSet(routes) : RowTold(r)
    <3>1. \A r \in ToSet(routes) : r \in ToSet(got.routes) \cup R
      BY <1>5, ListedIn
    <3> QED BY <1>3, <1>4, <3>1
  <2>4. \A r : RowTold(r) => RowTold(r)'
    BY <2>1 DEF RowTold
  <2>5. LinuxGathered'
    BY <1>1, <1>2, <2>1, <2>2, <2>3, <2>4 DEF LinuxGathered
  <2>6. Listed(routes)
    BY <1>5, IsListed
  <2>7. asked' \in Families /\ Listed(got'.routes)
    BY <2>1, <2>2, <2>6 DEF Families, Listed
  <2> QED BY <1>1, <1>2, <2>1, <2>2, <2>5, <2>7, LinuxTold
<1> QED BY <1>6, <1>7

----------------------------------------------------------------------------
LEMMA FailsTold ==
  ASSUME AsItWas, Fails
  PROVE  AsItWas'
  BY BrokenTold DEF Fails, AsItWas

LEMMA ProceedTold ==
  ASSUME AsItWas, Proceed
  PROVE  AsItWas'
<1>1. CASE Fails
  BY <1>1, FailsTold
<1>2. CASE InterfaceTypes
  BY <1>2, TypesTold
<1>3. CASE Links
  BY <1>3, LinksTold
<1>4. CASE ListAddresses
  BY <1>4, ListTold
<1>5. CASE AskFlags
  BY <1>5, FlagsTold
<1>6. CASE ServiceOrder
  BY <1>6, OrderTold
<1>7. CASE SizeTable
  BY <1>7, SizeTold
<1>8. CASE OnMacos /\ ReadTable
  BY <1>8, ReadTold
<1>9. CASE AdaptersAddresses
  BY <1>9, AdaptersTold
<1>10. CASE InterfaceRows
  BY <1>10, RowsTold
<1>11. CASE ForwardTable
  BY <1>11, ForwardTold
<1>12. CASE DumpLinks
  BY <1>12, DumpLinksTold
<1>13. CASE DumpAddresses
  BY <1>13, DumpAddressesTold
<1>14. CASE DumpRoutes
  BY <1>14, DumpRoutesTold
<1> QED BY <1>1, <1>2, <1>3, <1>4, <1>5, <1>6, <1>7, <1>8, <1>9, <1>10, <1>11, <1>12,
           <1>13, <1>14 DEF Proceed

LEMMA InitTold ==
  ASSUME BackendsInit
  PROVE  AsItWas
<1>1. /\ box \in Boxes /\ scene \in box.scenes /\ been = {scene} /\ pc = "idle"
      /\ asked = "v4" /\ got = Nothing /\ result = None
  BY DEF BackendsInit
<1>2. got.routes = <<>> /\ Listed(<<>>) /\ ToSet(<<>>) = {}
  BY <1>1 DEF Nothing, Listed, ToSet
<1>3. Situated
  BY <1>1, <1>2 DEF Situated, Families
<1>4. box.platform \in {"macos", "windows", "linux"}
  BY <1>3, Surroundings
<1>5. Gathered
  BY <1>1, <1>2, <1>4, Zenon DEF Gathered, MacosGathered, WindowsGathered, LinuxGathered
<1>6. NothingInvented
  BY <1>1, NothingYet
<1> QED BY <1>3, <1>5, <1>6 DEF AsItWas

(***************************************************************************)
(* rtparse.rs:4, ifaddrs.rs:355: whatever machine a snapshot is taken of,  *)
(* on whatever system, whichever sources do not answer and however often   *)
(* it changes between two calls: every link, address, gateway and default  *)
(* route that is reported was there at some moment while it was taken.     *)
(***************************************************************************)
THEOREM SnapshotsInventNothing == BackendsSpec => []NothingInvented
<1>1. BackendsInit => AsItWas
  BY InitTold
<1>2. AsItWas /\ [BackendsNext]_allvars => AsItWas'
  <2> SUFFICES ASSUME AsItWas, [BackendsNext]_allvars PROVE AsItWas'
    OBVIOUS
  <2>1. CASE Ask
    BY <2>1, AskTold
  <2>2. CASE Proceed
    BY <2>2, ProceedTold
  <2>3. CASE (\E s \in DOMAIN Scene : MoveTo(s)) \/ UNCHANGED allvars
    BY <2>3, RestTold
  <2> QED BY <2>1, <2>2, <2>3 DEF BackendsNext
<1>3. AsItWas => NothingInvented
  BY DEF AsItWas
<1> QED BY <1>1, <1>2, <1>3, PTL DEF BackendsSpec

----------------------------------------------------------------------------
(***************************************************************************)
(* Nothing that lasts is lost.  A snapshot is made of the scenes its calls *)
(* fell into: what each system makes of a scene for the links (l), one for *)
(* the types (t), one for the addresses (a), one for the flags (f), one for *)
(* the service order (o) and one for each dump of routes (v, w).           *)
(***************************************************************************)
MacLinks(l, t, hidden) ==
    [n \in DOMAIN DarwinLinks(l) |-> LinkFrom(n, DarwinLinks(l)[n], DarwinTypes(t, hidden))]

MacFlagged(a, f, hidden) ==
    [k \in DOMAIN DarwinList(a) |->
        IF "flags" \in hidden \/ DarwinList(a)[k].family = "v4" THEN {}
        ELSE Flags(f, DarwinList(a)[k])]

MacFull(l, t, a, f, hidden) ==
    AttachAddresses(MacLinks(l, t, hidden), DarwinList(a), MacFlagged(a, f, hidden))

MacMetrics(full, o, hidden) ==
    MetricsByIndex(InOrder(full), IF "order" \in hidden THEN <<>> ELSE Ranks(o.services))

MacSnapshot(full, metrics, v, w) ==
    [interfaces |-> InOrder(full),
     routes |-> (<<>> \o Scored(TableOf(v, "v4"), metrics, Unranked))
                  \o Scored(TableOf(w, "v6"), metrics, Unranked)]

WinWalk(l, a, hidden) == Walk(WindowsAdapters(l), ByLuid(WindowsRows(a, hidden)), Names)

WinSnapshot(l, a, v, hidden) ==
    [interfaces |-> WinWalk(l, a, hidden),
     routes |-> WinRoutes(WindowsRoutes(v), LinksByLuid(WindowsAdapters(l)))]

LinkMap(l) ==
    [i \in DOMAIN LinuxLinks(l) |->
        [name |-> LinuxLinks(l)[i].name,
         kind |-> ClassifyInterface(LinuxLinks(l)[i].name, LinuxLinks(l)[i].link_kind,
                                    LinuxLinks(l)[i].loopback, LinuxLinks(l)[i].wireless),
         oper |-> LinuxLinks(l)[i].oper, admin |-> LinuxLinks(l)[i].admin]]

LinuxSnapshot(l, a, v, w) ==
    Collect(LinkMap(l), LinuxAddresses(a), (<<>> \o LinuxRoutes(v, "v4")) \o LinuxRoutes(w, "v6"))

\* at[call] is the scene the machine was in when the call was made, "v4" and
\* "v6" those the routes of a family were dumped in.
Calls == {"types", "links", "addresses", "flags", "order", "v4", "v6"}

LinksThen(at) == MacLinks(Scene[at["links"]], Scene[at["types"]], box.hidden)
FullThen(at) == MacFull(Scene[at["links"]], Scene[at["types"]], Scene[at["addresses"]],
                     Scene[at["flags"]], box.hidden)
MetricsThen(at) == MacMetrics(FullThen(at), Scene[at["order"]], box.hidden)

MacMade(at) ==
    /\ pc = "links" => got.types = DarwinTypes(Scene[at["types"]], box.hidden)
    /\ pc \in {"addresses", "flags"} => got.links = LinksThen(at)
    /\ pc = "flags" => got.listed = DarwinList(Scene[at["addresses"]])
    /\ pc \in {"order", "size", "read"} => got.links = FullThen(at)
    /\ pc \in {"size", "read"} => got.metrics = MetricsThen(at)
    /\ asked = "v6" => got.routes = <<>> \o Scored(TableOf(at["v4"], "v4"), MetricsThen(at), Unranked)
    /\ Ready => result = MacSnapshot(FullThen(at), MetricsThen(at), at["v4"], at["v6"])

\* The interface rows stand for the addresses of the other systems.
WinMade(at) ==
    /\ pc \in {"rows", "forward"} => got.adapters = WindowsAdapters(Scene[at["links"]])
    /\ pc = "forward" => got.links = WinWalk(Scene[at["links"]], Scene[at["addresses"]], box.hidden)
    /\ Ready => result = WinSnapshot(Scene[at["links"]], Scene[at["addresses"]], Scene[at["v4"]],
                                     box.hidden)

LinuxMade(at) ==
    /\ pc \in {"addresses", "read"} => got.links = LinkMap(Scene[at["links"]])
    /\ pc = "read" => got.addresses = LinuxAddresses(Scene[at["addresses"]])
    /\ asked = "v6" => got.routes = <<>> \o LinuxRoutes(Scene[at["v4"]], "v4")
    /\ Ready => result = LinuxSnapshot(Scene[at["links"]], Scene[at["addresses"]],
                                       Scene[at["v4"]], Scene[at["v6"]])

MadeAt(at) ==
    /\ OnMacos => MacMade(at)
    /\ box.platform = "windows" => WinMade(at)
    /\ OnLinux => LinuxMade(at)

Made ==
    /\ asked = "v4" => got.routes = <<>>
    /\ asked = "v6" => pc \in {"size", "read"}
    /\ \E at \in [Calls -> been] : MadeAt(at)

\* Of a machine that stands still and answers there is a snapshot: the buffer is
\* large enough, on Windows at the second attempt.
Enough ==
    /\ room \in Nat
    /\ (been = {scene} /\ box.hidden \cap Needed = {}) =>
          /\ result # Broken
          /\ (OnMacos /\ pc = "read") => Bytes(Now, asked) <= room
          /\ pc = "adapters" => left = MaxAttempts \/ (left = MaxAttempts - 1 /\ Now.bulk <= room)

\* What the systems and the code call a kind of link.
Vocabulary ==
    {"Ethernet", "Bond", "Vlan", "FireWire", "IEEE80211", "Bridge", "IpSec", "L2tp", "Ppp", "Pptp",
     "SixToFour", "Wwan", "Bluetooth", "Modem", "Serial", "IrDa"}
    \cup {"loopback", "ethernet", "wireless", "bridge", "vpn", "other"}
    \cup {"bond", "wireguard", "ppp", "wwan"}

\* What stands for no answer and for a snapshot that failed is neither: it is no
\* record, no truth value and no word.
Marked ==
    /\ None # Broken
    /\ NoFunction(None) /\ NoFunction(Broken)
    /\ None \notin BOOLEAN \cup Vocabulary

Unmistaken == \A b \in Boxes : Unmistakable(b)

\* The moment of one call is the present scene, those of the others stay.
LEMMA NowAt ==
  ASSUME Situated, been' = been, NEW at \in [Calls -> been], NEW call \in Calls
  PROVE  LET next == [at EXCEPT ![call] = scene]
         IN  /\ next \in [Calls -> been]
             /\ next[call] = scene /\ \A c \in Calls \ {call} : next[c] = at[c]
  BY DEF Situated

LEMMA MacGoesOn ==
  ASSUME OnMacos, box' = box, been' = been, NEW at \in [Calls -> been], MacMade(at)',
         asked' = "v4" => got'.routes = <<>>, asked' = "v6" => pc' \in {"size", "read"}
  PROVE  Made'
<1>1. OnMacos' /\ box'.platform # "windows" /\ ~OnLinux'
  BY DEF OnMacos, OnLinux
<1>2. MadeAt(at)'
  BY <1>1 DEF MadeAt
<1> QED BY <1>2 DEF Made

LEMMA WinGoesOn ==
  ASSUME box.platform = "windows", box' = box, been' = been, NEW at \in [Calls -> been],
         WinMade(at)', asked' = "v4", got'.routes = <<>>
  PROVE  Made'
<1>1. ~OnMacos' /\ ~OnLinux'
  BY DEF OnMacos, OnLinux
<1>2. MadeAt(at)'
  BY <1>1 DEF MadeAt
<1> QED BY <1>2 DEF Made

LEMMA LinuxGoesOn ==
  ASSUME OnLinux, box' = box, been' = been, NEW at \in [Calls -> been], LinuxMade(at)',
         asked' = "v4" => got'.routes = <<>>, asked' = "v6" => pc' \in {"size", "read"}
  PROVE  Made'
<1>1. ~OnMacos' /\ box'.platform # "windows"
  BY DEF OnMacos, OnLinux
<1>2. MadeAt(at)'
  BY <1>1 DEF MadeAt
<1> QED BY <1>2 DEF Made

\* A snapshot that failed is none.
LEMMA BrokenMade ==
  ASSUME AsItWas, Made, Ends(Broken)
  PROVE  Made'
<1>1. /\ box' = box /\ been' = been /\ pc' = "idle" /\ asked' = "v4" /\ got' = Nothing
      /\ result' = Broken
  BY DEF Ends, Keep
<1>2. PICK at \in [Calls -> been] : MadeAt(at)
  BY DEF Made
<1>3. MadeAt(at)' /\ got'.routes = <<>>
  BY <1>1 DEF MadeAt, MacMade, WinMade, LinuxMade, Ready, Nothing
<1> QED BY <1>1, <1>3 DEF Made

LEMMA AskMade ==
  ASSUME AsItWas, Made, Ask
  PROVE  Made'
<1>1. /\ box' = box /\ been' = {scene} /\ asked' = asked /\ got' = got
      /\ pc = "idle" /\ pc' = FirstCall[box.platform] /\ result' = None
  BY DEF Ask, Keep
<1>2. box.platform \in {"macos", "windows", "linux"}
  BY Surroundings DEF AsItWas
<1>3. pc' = CASE box.platform = "macos" -> "types" [] box.platform = "windows" -> "adapters"
              [] OTHER -> "links"
  BY <1>1, <1>2 DEF FirstCall
<1>4. asked # "v6"
  BY <1>1 DEF Made
<1>5. PICK at : at = [c \in Calls |-> scene]
  OBVIOUS
<1>6. MadeAt(at)'
  BY <1>1, <1>2, <1>3, <1>4 DEF MadeAt, MacMade, WinMade, LinuxMade, Ready, OnMacos, OnLinux
<1>7. at \in [Calls -> been']
  BY <1>1, <1>5
<1> QED BY <1>1, <1>4, <1>6, <1>7 DEF Made

LEMMA MovesMade ==
  ASSUME AsItWas, Made, (\E s \in DOMAIN Scene : MoveTo(s)) \/ UNCHANGED allvars
  PROVE  Made'
<1>1. box' = box /\ asked' = asked /\ got' = got /\ pc' = pc /\ result' = result /\ been \subseteq been'
  BY DEF MoveTo, allvars
<1>2. PICK at \in [Calls -> been] : MadeAt(at)
  BY DEF Made
<1>3. MadeAt(at)'
  BY <1>1, <1>2 DEF MadeAt, MacMade, WinMade, LinuxMade, Ready, OnMacos, OnLinux, LinksThen, FullThen, MetricsThen
<1>4. at \in [Calls -> been']
  BY <1>1
<1> QED BY <1>1, <1>3, <1>4 DEF Made

LEMMA TypesMade ==
  ASSUME AsItWas, Made, InterfaceTypes
  PROVE  Made'
<1>1. /\ box' = box /\ been' = been /\ asked' = asked /\ pc = "types" /\ pc' = "links"
      /\ got' = [got EXCEPT !.types = DarwinTypes(Now, box.hidden)]
  BY DEF InterfaceTypes, Goes, Keep
<1>2. Situated /\ OnMacos /\ asked # "v6"
  BY <1>1, OneSystem DEF Made
<1>3. got'.routes = got.routes /\ got'.types = DarwinTypes(Scene[scene], box.hidden)
  BY <1>1, <1>2 DEF Situated, Nothing, Now
<1>4. PICK at \in [Calls -> been] : MadeAt(at)
  BY DEF Made
<1>5. PICK next \in [Calls -> been] : next["types"] = scene
  BY <1>2, <1>4, NowAt, <1>1 DEF Calls
<1>6. MacMade(next)'
  BY <1>1, <1>2, <1>3, <1>5 DEF MacMade, Ready
<1> QED BY <1>1, <1>2, <1>3, <1>6, MacGoesOn DEF Made

LEMMA LinksMade ==
  ASSUME AsItWas, Made, Links
  PROVE  Made'
<1> DEFINE links == DarwinLinks(Now)
           mapped == [n \in DOMAIN links |-> LinkFrom(n, links[n], got.types)]
<1>1. /\ box' = box /\ been' = been /\ asked' = asked
      /\ OnMacos /\ pc = "links" /\ pc' = "addresses"
      /\ got' = [got EXCEPT !.links = mapped, !.types = None]
  BY DEF Links, Answers, Goes, Keep
<1>2. Situated /\ asked # "v6"
  BY <1>1, OneSystem DEF Made
<1>3. PICK at \in [Calls -> been] : MadeAt(at)
  BY DEF Made
<1>4. got.types = DarwinTypes(Scene[at["types"]], box.hidden)
  BY <1>1, <1>3 DEF MadeAt, MacMade
<1>5. mapped = MacLinks(Scene[scene], Scene[at["types"]], box.hidden)
  BY <1>4 DEF MacLinks, Now
<1> HIDE DEF mapped
<1>6. got'.routes = got.routes /\ got'.links = mapped
  BY <1>1, <1>2 DEF Situated, Nothing
<1>7. PICK next \in [Calls -> been] : next["links"] = scene /\ next["types"] = at["types"]
  <2>1. "links" \in Calls /\ {"types"} \subseteq Calls \ {"links"}
    BY DEF Calls
  <2>2. PICK next \in [Calls -> been] : next["links"] = scene /\ \A c \in Calls \ {"links"} : next[c] = at[c]
    BY <1>1, <1>2, <1>3, <2>1, NowAt
  <2> QED BY <2>1, <2>2
<1>8. MacMade(next)'
  BY <1>1, <1>2, <1>5, <1>6, <1>7 DEF MacMade, Ready, LinksThen
<1> QED BY <1>1, <1>2, <1>6, <1>8, MacGoesOn DEF Made

LEMMA ListMade ==
  ASSUME AsItWas, Made, ListAddresses
  PROVE  Made'
<1>1. /\ box' = box /\ been' = been /\ asked' = asked
      /\ OnMacos /\ pc = "addresses" /\ pc' = "flags"
      /\ got' = [got EXCEPT !.listed = DarwinList(Now)]
  BY DEF ListAddresses, Answers, Goes, Keep
<1>2. Situated /\ asked # "v6"
  BY <1>1, OneSystem DEF Made
<1>3. /\ got'.routes = got.routes /\ got'.links = got.links
      /\ got'.listed = DarwinList(Scene[scene])
  BY <1>1, <1>2 DEF Situated, Nothing, Now
<1>4. PICK at \in [Calls -> been] : MadeAt(at)
  BY DEF Made
<1>5. PICK next \in [Calls -> been] :
         /\ next["addresses"] = scene /\ next["links"] = at["links"] /\ next["types"] = at["types"]
  <2>1. "addresses" \in Calls /\ {"links", "types"} \subseteq Calls \ {"addresses"}
    BY DEF Calls
  <2>2. PICK next \in [Calls -> been] : next["addresses"] = scene /\ \A c \in Calls \ {"addresses"} : next[c] = at[c]
    BY <1>1, <1>2, <1>4, <2>1, NowAt
  <2> QED BY <2>1, <2>2
<1>6. got.links = LinksThen(at)
  BY <1>1, <1>4 DEF MadeAt, MacMade
<1>7. MacMade(next)'
  BY <1>1, <1>2, <1>3, <1>5, <1>6 DEF MacMade, Ready, LinksThen
<1> QED BY <1>1, <1>2, <1>3, <1>7, MacGoesOn DEF Made

LEMMA FlagsMade ==
  ASSUME AsItWas, Made, AskFlags
  PROVE  Made'
<1> DEFINE flagged == [k \in DOMAIN got.listed |->
                          IF "flags" \in box.hidden \/ got.listed[k].family = "v4" THEN {}
                          ELSE Flags(Now, got.listed[k])]
           attached == AttachAddresses(got.links, got.listed, flagged)
<1>1. /\ box' = box /\ been' = been /\ asked' = asked /\ pc = "flags" /\ pc' = "order"
      /\ got' = [got EXCEPT !.links = attached, !.listed = None]
  BY DEF AskFlags, Goes, Keep
<1>2. Situated /\ OnMacos /\ asked # "v6"
  BY <1>1, OneSystem DEF Made
<1>3. PICK at \in [Calls -> been] : MadeAt(at)
  BY DEF Made
<1>4. got.links = LinksThen(at) /\ got.listed = DarwinList(Scene[at["addresses"]])
  BY <1>1, <1>2, <1>3 DEF MadeAt, MacMade
<1>5. flagged = MacFlagged(Scene[at["addresses"]], Scene[scene], box.hidden)
  BY <1>4 DEF MacFlagged, Now
<1> HIDE DEF flagged
<1>6. attached = MacFull(Scene[at["links"]], Scene[at["types"]], Scene[at["addresses"]],
                         Scene[scene], box.hidden)
  BY <1>4, <1>5 DEF MacFull, LinksThen
<1> HIDE DEF attached
<1>7. got'.routes = got.routes /\ got'.links = attached
  BY <1>1, <1>2 DEF Situated, Nothing
<1>8. PICK next \in [Calls -> been] :
         /\ next["flags"] = scene /\ next["links"] = at["links"] /\ next["types"] = at["types"]
         /\ next["addresses"] = at["addresses"]
  <2>1. "flags" \in Calls /\ {"links", "types", "addresses"} \subseteq Calls \ {"flags"}
    BY DEF Calls
  <2>2. PICK next \in [Calls -> been] : next["flags"] = scene /\ \A c \in Calls \ {"flags"} : next[c] = at[c]
    BY <1>1, <1>2, <1>3, <2>1, NowAt
  <2> QED BY <2>1, <2>2
<1>9. MacMade(next)'
  BY <1>1, <1>2, <1>6, <1>7, <1>8 DEF MacMade, Ready, FullThen
<1> QED BY <1>1, <1>2, <1>7, <1>9, MacGoesOn DEF Made

LEMMA OrderMade ==
  ASSUME AsItWas, Made, ServiceOrder
  PROVE  Made'
<1> DEFINE ranked == MetricsByIndex(InOrder(got.links), IF "order" \in box.hidden THEN <<>>
                                                        ELSE Ranks(Now.services))
<1>1. /\ box' = box /\ been' = been /\ asked' = asked /\ pc = "order" /\ pc' = "size"
      /\ got' = [got EXCEPT !.metrics = ranked]
  BY DEF ServiceOrder, Keep
<1>2. Situated /\ OnMacos /\ asked # "v6"
  BY <1>1, OneSystem DEF Made
<1>3. PICK at \in [Calls -> been] : MadeAt(at)
  BY DEF Made
<1>4. got.links = FullThen(at)
  BY <1>1, <1>2, <1>3 DEF MadeAt, MacMade
<1>5. ranked = MacMetrics(FullThen(at), Scene[scene], box.hidden)
  BY <1>4 DEF MacMetrics, Now
<1> HIDE DEF ranked
<1>6. got'.routes = got.routes /\ got'.links = got.links /\ got'.metrics = ranked
  BY <1>1, <1>2 DEF Situated, Nothing
<1>7. PICK next \in [Calls -> been] :
         /\ next["order"] = scene /\ next["links"] = at["links"] /\ next["types"] = at["types"]
         /\ next["addresses"] = at["addresses"] /\ next["flags"] = at["flags"]
  <2>1. "order" \in Calls /\ {"links", "types", "addresses", "flags"} \subseteq Calls \ {"order"}
    BY DEF Calls
  <2>2. PICK next \in [Calls -> been] : next["order"] = scene /\ \A c \in Calls \ {"order"} : next[c] = at[c]
    BY <1>1, <1>2, <1>3, <2>1, NowAt
  <2> QED BY <2>1, <2>2
<1>8. MacMade(next)'
  BY <1>1, <1>2, <1>4, <1>5, <1>6, <1>7 DEF MacMade, Ready, FullThen, MetricsThen
<1> QED BY <1>1, <1>2, <1>6, <1>8, MacGoesOn DEF Made

\* Of a family that has no routes there is no table to read.
LEMMA EmptyTable ==
  ASSUME NEW s \in DOMAIN Scene, Numbered(Scene[s]), NEW fam \in Families,
         DOMAIN Scene[s].routes # {} => Scene[s].bulk # 0, Bytes(Scene[s], fam) = 0
  PROVE  TableOf(s, fam) = <<>>
<1> DEFINE routes == Scene[s].routes
           S == {k \in DOMAIN routes : routes[k].family = fam}
<1>1. PICK n \in Nat : DOMAIN routes = 1..n
  BY ScenesArePlausible DEF Plausible
<1>2. S \in SUBSET (1..n)
  BY <1>1
<1>3. RoutesOf(Scene[s], fam) = <<>>
  <2>1. CASE DOMAIN routes = {}
    <3>1. S = {}
      BY <2>1
    <3>2. \A seq : Picked(seq, {}) = <<>>
      BY FS_EmptySet DEF Picked
    <3> QED BY <3>1, <3>2 DEF RoutesOf
  <2>2. CASE DOMAIN routes # {}
    BY <2>2 DEF Bytes
  <2> QED BY <2>1, <2>2
<1>4. RoutingDump(Scene[s], fam) = <<>>
  BY <1>3 DEF RoutingDump
<1>5. Decoded(<<>>, fam) = <<>>
  <2>1. Sound(<<>>) = <<>>
    BY DEF Sound
  <2>2. \A seq : Picked(seq, {}) = <<>>
    BY FS_EmptySet DEF Picked
  <2> DEFINE found == [k \in DOMAIN Sound(<<>>) |-> RouteFrom(Sound(<<>>)[k], fam)]
             P == {k \in DOMAIN Sound(<<>>) : /\ Sound(<<>>)[k].version = RtmVersion
                                              /\ IsReportable(Sound(<<>>)[k].flags)
                                              /\ found[k] # None}
  <2>3. Decoded(<<>>, fam) = Picked(found, P)
    BY DEF Decoded
  <2>4. P = {}
    BY <2>1
  <2> HIDE DEF found, P
  <2> QED BY <2>2, <2>3, <2>4
<1> QED BY <1>4, <1>5, TableIs

LEMMA DumpedMade ==
  ASSUME AsItWas, Made, OnMacos, pc \in {"size", "read"}, Dumped(TableOf(scene, asked))
  PROVE  Made'
<1>1. Situated /\ asked \in Families
  BY OneSystem DEF Situated
<1>2. PICK at \in [Calls -> been] : MadeAt(at)
  BY DEF Made
<1>3. /\ got.links = FullThen(at) /\ got.metrics = MetricsThen(at)
      /\ asked = "v6" => got.routes = <<>> \o Scored(TableOf(at["v4"], "v4"), MetricsThen(at), Unranked)
      /\ asked = "v4" => got.routes = <<>>
  BY <1>2 DEF MadeAt, MacMade, Made
<1>4. PICK table : table = TableOf(scene, asked)
  OBVIOUS
<1>5. PICK routes : routes = got.routes \o Scored(table, got.metrics, Unranked)
  OBVIOUS
<1>6. CASE asked = "v6"
  <2>1. Ends([interfaces |-> InOrder(got.links), routes |-> routes])
    BY <1>4, <1>5, <1>6 DEF Dumped
  <2>2. /\ box' = box /\ been' = been /\ pc' = "idle" /\ asked' = "v4" /\ got' = Nothing
        /\ result' = [interfaces |-> InOrder(got.links), routes |-> routes]
    BY <2>1 DEF Ends, Keep
  <2>3. PICK next \in [Calls -> been] : 
           /\ next["v6"] = scene /\ next["links"] = at["links"] /\ next["types"] = at["types"]
           /\ next["addresses"] = at["addresses"] /\ next["flags"] = at["flags"]
           /\ next["order"] = at["order"] /\ next["v4"] = at["v4"]
    <3>1. "v6" \in Calls /\ {"links", "types", "addresses", "flags", "order", "v4"} \subseteq Calls \ {"v6"}
      BY DEF Calls
    <3>2. PICK next \in [Calls -> been] : next["v6"] = scene /\ \A c \in Calls \ {"v6"} : next[c] = at[c]
      <4>1. been' = been
        BY <2>2
      <4>2. "v6" \in Calls
        BY <3>1
      <4> QED BY <1>1, <1>2, <4>1, <4>2, NowAt
    <3> QED BY <3>1, <3>2
  <2>4. FullThen(next) = FullThen(at) /\ MetricsThen(next) = MetricsThen(at)
    BY <2>3 DEF FullThen, MetricsThen
  <2>5. MacSnapshot(FullThen(at), MetricsThen(at), next["v4"], next["v6"])
          = [interfaces |-> InOrder(got.links), routes |-> routes]
    BY <1>3, <1>4, <1>5, <1>6, <2>3 DEF MacSnapshot
  <2>6. FullThen(next)' = FullThen(next) /\ MetricsThen(next)' = MetricsThen(next)
    BY <2>2 DEF FullThen, MetricsThen
  <2>7. MacMade(next)'
    BY <2>2, <2>4, <2>5, <2>6 DEF MacMade
  <2>8. got'.routes = <<>>
    BY <2>2 DEF Nothing
  <2> QED BY <2>2, <2>7, <2>8, MacGoesOn
<1>7. CASE asked # "v6"
  <2>1. asked = "v4" /\ got.routes = <<>>
    BY <1>1, <1>3, <1>7 DEF Families
  <2>2. /\ box' = box /\ been' = been /\ asked' = "v6" /\ pc' = "size"
        /\ got' = [got EXCEPT !.routes = routes]
    BY <1>4, <1>5, <1>7 DEF Dumped, Keep
  <2>3. got'.routes = routes /\ got'.links = got.links /\ got'.metrics = got.metrics
    BY <1>1, <2>2 DEF Situated, Nothing
  <2>4. PICK next \in [Calls -> been] : 
           /\ next["v4"] = scene /\ next["links"] = at["links"] /\ next["types"] = at["types"]
           /\ next["addresses"] = at["addresses"] /\ next["flags"] = at["flags"]
           /\ next["order"] = at["order"]
    <3>1. "v4" \in Calls /\ {"links", "types", "addresses", "flags", "order"} \subseteq Calls \ {"v4"}
      BY DEF Calls
    <3>2. PICK next \in [Calls -> been] : next["v4"] = scene /\ \A c \in Calls \ {"v4"} : next[c] = at[c]
      BY <1>1, <1>2, <2>2, <3>1, NowAt
    <3> QED BY <3>1, <3>2
  <2>5. FullThen(next) = FullThen(at) /\ MetricsThen(next) = MetricsThen(at)
    BY <2>4 DEF FullThen, MetricsThen
  <2>6. FullThen(next)' = FullThen(next) /\ MetricsThen(next)' = MetricsThen(next)
    BY <2>2 DEF FullThen, MetricsThen
  <2>7. routes = <<>> \o Scored(TableOf(next["v4"], "v4"), MetricsThen(next), Unranked)
    BY <1>3, <1>4, <1>5, <2>1, <2>4, <2>5
  <2>8. MacMade(next)'
    BY <1>3, <2>2, <2>3, <2>5, <2>6, <2>7 DEF MacMade, Ready
  <2> QED BY <2>2, <2>8, MacGoesOn
<1> QED BY <1>6, <1>7

LEMMA SizeMade ==
  ASSUME AsItWas, Made, Unmistakable(box), SizeTable
  PROVE  Made'
<1>1. pc = "size"
  BY DEF SizeTable, Answers
<1>2. Situated /\ OnMacos
  BY <1>1, OneSystem
<1>3. CASE Bytes(Now, asked) = 0
  <2>1. /\ Now = Scene[scene] /\ scene \in DOMAIN Scene /\ scene \in box.scenes /\ asked \in Families
        /\ Numbered(Scene[scene])
    BY <1>2, Surroundings DEF Situated, OnMacos
  <2>2. DOMAIN Scene[scene].routes # {} => Scene[scene].bulk # 0
    BY <2>1 DEF Unmistakable
  <2>3. TableOf(scene, asked) = <<>>
    BY <1>3, <2>1, <2>2, EmptyTable
  <2>4. Dumped(<<>>)
    BY <1>3 DEF SizeTable
  <2> QED BY <1>1, <1>2, <2>3, <2>4, DumpedMade
<1>4. CASE Bytes(Now, asked) # 0
  <2>1. /\ box' = box /\ been' = been /\ asked' = asked /\ pc' = "read" /\ got' = got
    BY <1>4 DEF SizeTable, Keep
  <2>2. PICK at \in [Calls -> been] : MadeAt(at)
    BY DEF Made
  <2>3. MacMade(at)
    BY <1>2, <2>2 DEF MadeAt
  <2>4. MacMade(at)'
    BY <1>1, <2>1, <2>3 DEF MacMade, Ready, FullThen, MetricsThen
  <2> QED BY <1>2, <2>1, <2>4, MacGoesOn DEF Made
<1> QED BY <1>3, <1>4

LEMMA ReadMade ==
  ASSUME AsItWas, Made, OnMacos, ReadTable
  PROVE  Made'
<1>1. pc = "read" /\ Situated
  BY OneSystem DEF ReadTable, Answers
<1>2. CASE Dumped(TableOf(scene, asked))
  BY <1>1, <1>2, DumpedMade
<1>3. CASE Ends(Broken)
  BY <1>3, BrokenMade
<1>4. CASE ~Dumped(TableOf(scene, asked)) /\ ~Ends(Broken)
  <2>1. TooSmall("size", 0)
    BY <1>4 DEF ReadTable
  <2>2. /\ box' = box /\ been' = been /\ asked' = asked /\ pc' = "size" /\ got' = got
    BY <1>4, <2>1 DEF TooSmall, Keep
  <2>3. PICK at \in [Calls -> been] : MadeAt(at)
    BY DEF Made
  <2>4. MacMade(at)
    BY <2>3 DEF MadeAt
  <2>5. MacMade(at)'
    BY <1>1, <2>2, <2>4 DEF MacMade, Ready, FullThen, MetricsThen
  <2> QED BY <2>2, <2>5, MacGoesOn DEF Made
<1> QED BY <1>2, <1>3, <1>4

----------------------------------------------------------------------------
\* The calls of Windows.
LEMMA AdaptersMade ==
  ASSUME AsItWas, Made, AdaptersAddresses
  PROVE  Made'
<1>1. pc = "adapters"
  BY DEF AdaptersAddresses, Answers
<1>2. Situated /\ box.platform = "windows" /\ asked \in Families
  BY <1>1, OneSystem DEF Situated
<1>3. asked = "v4" /\ got.routes = <<>>
  BY <1>1, <1>2 DEF Made, Families
<1>4. PICK at \in [Calls -> been] : MadeAt(at)
  BY DEF Made
<1>5. CASE DOMAIN Now.links = {}
  <2>1. /\ box' = box /\ been' = been /\ asked' = asked /\ pc' = "forward"
        /\ got' = [got EXCEPT !.adapters = {}, !.links = <<>>]
    BY <1>5 DEF AdaptersAddresses, Goes, Keep
  <2>2. got'.routes = got.routes /\ got'.adapters = {} /\ got'.links = <<>>
    BY <1>2, <2>1 DEF Situated, Nothing
  <2>3. PICK next \in [Calls -> been] : next["links"] = scene
    <3>1. "links" \in Calls
      BY DEF Calls
    <3> QED BY <1>2, <1>4, <2>1, <3>1, NowAt
  <2>4. WindowsAdapters(Scene[scene]) = {}
    BY <1>5 DEF WindowsAdapters, Now
  <2>5. \A ndis : Walk({}, ndis, Names) = <<>>
    <3> SUFFICES ASSUME NEW ndis PROVE Walk({}, ndis, Names) = <<>>
      OBVIOUS
    <3>1. \A seq : Picked(seq, {}) = <<>>
      BY FS_EmptySet DEF Picked
    <3>2. Named({}) = {}
      BY DEF Named
    <3>3. {k \in DOMAIN Names : \E a \in Named({}) : a.name = Names[k]} = {}
      BY <3>2
    <3> QED BY <3>1, <3>3 DEF Walk
  <2>6. WinWalk(Scene[scene], Scene[next["addresses"]], box.hidden) = <<>>
    BY <2>4, <2>5 DEF WinWalk
  <2>7. WinMade(next)'
    BY <2>1, <2>2, <2>3, <2>4, <2>6 DEF WinMade, Ready
  <2> QED BY <1>2, <1>3, <2>1, <2>2, <2>7, WinGoesOn
<1>6. CASE Ends(Broken)
  BY <1>6, BrokenMade
<1>7. CASE DOMAIN Now.links # {} /\ ~Ends(Broken) /\ Now.bulk > room
  <2>1. TooSmall("adapters", Now.bulk)
    BY <1>7 DEF AdaptersAddresses
  <2>2. /\ box' = box /\ been' = been /\ asked' = asked /\ pc' = "adapters" /\ got' = got
    BY <1>7, <2>1 DEF TooSmall, Keep
  <2>3. WinMade(at)'
    BY <2>2 DEF WinMade, Ready
  <2> QED BY <1>2, <1>3, <2>2, <2>3, WinGoesOn
<1>8. CASE DOMAIN Now.links # {} /\ ~(Now.bulk > room)
  <2>1. /\ box' = box /\ been' = been /\ asked' = asked /\ pc' = "rows"
        /\ got' = [got EXCEPT !.adapters = WindowsAdapters(Now)]
    BY <1>8 DEF AdaptersAddresses, Goes, Keep
  <2>2. got'.routes = got.routes /\ got'.adapters = WindowsAdapters(Scene[scene])
    BY <1>2, <2>1 DEF Situated, Nothing, Now
  <2>3. PICK next \in [Calls -> been] : next["links"] = scene
    <3>1. "links" \in Calls
      BY DEF Calls
    <3> QED BY <1>2, <1>4, <2>1, <3>1, NowAt
  <2>4. WinMade(next)'
    BY <2>1, <2>2, <2>3 DEF WinMade, Ready
  <2> QED BY <1>2, <1>3, <2>1, <2>2, <2>4, WinGoesOn
<1> QED BY <1>5, <1>6, <1>7, <1>8

LEMMA RowsMade ==
  ASSUME AsItWas, Made, InterfaceRows
  PROVE  Made'
<1> DEFINE walked == Walk(got.adapters, ByLuid(WindowsRows(Now, box.hidden)), Names)
<1>1. /\ box' = box /\ been' = been /\ asked' = asked /\ pc = "rows" /\ pc' = "forward"
      /\ got' = [got EXCEPT !.links = walked]
  BY DEF InterfaceRows, Answers, Goes, Keep
<1>2. Situated /\ box.platform = "windows" /\ asked \in Families
  BY <1>1, OneSystem DEF Situated
<1>3. asked = "v4" /\ got.routes = <<>>
  BY <1>1, <1>2 DEF Made, Families
<1>4. PICK at \in [Calls -> been] : MadeAt(at)
  BY DEF Made
<1>5. got.adapters = WindowsAdapters(Scene[at["links"]])
  BY <1>1, <1>2, <1>4 DEF MadeAt, WinMade
<1>6. walked = WinWalk(Scene[at["links"]], Scene[scene], box.hidden)
  BY <1>5 DEF WinWalk, Now
<1> HIDE DEF walked
<1>7. got'.routes = got.routes /\ got'.adapters = got.adapters /\ got'.links = walked
  BY <1>1, <1>2 DEF Situated, Nothing
<1>8. PICK next \in [Calls -> been] : next["addresses"] = scene /\ next["links"] = at["links"]
  <2>1. "addresses" \in Calls /\ {"links"} \subseteq Calls \ {"addresses"}
    BY DEF Calls
  <2>2. PICK next \in [Calls -> been] : next["addresses"] = scene /\ \A c \in Calls \ {"addresses"} : next[c] = at[c]
    BY <1>1, <1>2, <1>4, <2>1, NowAt
  <2> QED BY <2>1, <2>2
<1>9. WinMade(next)'
  BY <1>1, <1>5, <1>6, <1>7, <1>8 DEF WinMade, Ready
<1> QED BY <1>1, <1>2, <1>3, <1>7, <1>9, WinGoesOn

LEMMA ForwardMade ==
  ASSUME AsItWas, Made, ForwardTable
  PROVE  Made'
<1>1. PICK whole : whole = [interfaces |-> got.links,
                            routes |-> WinRoutes(WindowsRoutes(Now), LinksByLuid(got.adapters))]
  OBVIOUS
<1>2. /\ box' = box /\ been' = been /\ asked' = "v4" /\ pc = "forward" /\ pc' = "idle"
      /\ got' = Nothing /\ result' = whole
  BY <1>1 DEF ForwardTable, Answers, Ends, Keep
<1>3. Situated /\ box.platform = "windows"
  BY <1>2, OneSystem
<1>4. PICK at \in [Calls -> been] : MadeAt(at)
  BY DEF Made
<1>5. /\ got.adapters = WindowsAdapters(Scene[at["links"]])
      /\ got.links = WinWalk(Scene[at["links"]], Scene[at["addresses"]], box.hidden)
  BY <1>2, <1>3, <1>4 DEF MadeAt, WinMade
<1>6. PICK next \in [Calls -> been] :
         next["v4"] = scene /\ next["links"] = at["links"] /\ next["addresses"] = at["addresses"]
  <2>1. "v4" \in Calls /\ {"links", "addresses"} \subseteq Calls \ {"v4"}
    BY DEF Calls
  <2>2. PICK next \in [Calls -> been] : next["v4"] = scene /\ \A c \in Calls \ {"v4"} : next[c] = at[c]
    <3>1. been' = been /\ "v4" \in Calls
      BY <1>2, <2>1
    <3> QED BY <1>3, <1>4, <3>1, NowAt
  <2> QED BY <2>1, <2>2
<1>7. whole = WinSnapshot(Scene[next["links"]], Scene[next["addresses"]], Scene[next["v4"]], box.hidden)
  BY <1>1, <1>5, <1>6 DEF WinSnapshot, Now
<1>8. WinMade(next)'
  BY <1>2, <1>7 DEF WinMade
<1>9. got'.routes = <<>>
  BY <1>2 DEF Nothing
<1> QED BY <1>2, <1>3, <1>8, <1>9, WinGoesOn

----------------------------------------------------------------------------
\* The calls of Linux.
LEMMA DumpLinksMade ==
  ASSUME AsItWas, Made, DumpLinks
  PROVE  Made'
<1> DEFINE links == LinuxLinks(Now)
           Kind(link) == ClassifyInterface(link.name, link.link_kind, link.loopback, link.wireless)
           mapped == [i \in DOMAIN links |->
                        [name |-> links[i].name, kind |-> Kind(links[i]),
                         oper |-> links[i].oper, admin |-> links[i].admin]]
<1>1. /\ box' = box /\ been' = been /\ asked' = asked
      /\ OnLinux /\ pc = "links" /\ pc' = "addresses" /\ got' = [got EXCEPT !.links = mapped]
  BY DEF DumpLinks, Answers, Goes, Keep
<1>2. Situated /\ asked # "v6"
  BY <1>1, OneSystem DEF Made
<1>3. mapped = LinkMap(Scene[scene])
  BY DEF LinkMap, Now
<1> HIDE DEF mapped
<1>4. got'.routes = got.routes /\ got'.links = mapped
  BY <1>1, <1>2 DEF Situated, Nothing
<1>5. PICK at \in [Calls -> been] : MadeAt(at)
  BY DEF Made
<1>6. PICK next \in [Calls -> been] : next["links"] = scene
  <2>1. been' = been /\ "links" \in Calls
    BY <1>1 DEF Calls
  <2> QED BY <1>2, <1>5, <2>1, NowAt
<1>7. LinuxMade(next)'
  BY <1>1, <1>2, <1>3, <1>4, <1>6 DEF LinuxMade, Ready
<1> QED BY <1>1, <1>2, <1>4, <1>7, LinuxGoesOn DEF Made

LEMMA DumpAddressesMade ==
  ASSUME AsItWas, Made, DumpAddresses
  PROVE  Made'
<1>1. /\ box' = box /\ been' = been /\ asked' = asked
      /\ OnLinux /\ pc = "addresses" /\ pc' = "read"
      /\ got' = [got EXCEPT !.addresses = LinuxAddresses(Now)]
  BY DEF DumpAddresses, Answers, Goes, Keep
<1>2. Situated /\ asked # "v6"
  BY <1>1, OneSystem DEF Made
<1>3. /\ got'.routes = got.routes /\ got'.links = got.links
      /\ got'.addresses = LinuxAddresses(Scene[scene])
  BY <1>1, <1>2 DEF Situated, Nothing, Now
<1>4. PICK at \in [Calls -> been] : MadeAt(at)
  BY DEF Made
<1>5. got.links = LinkMap(Scene[at["links"]])
  BY <1>1, <1>4 DEF MadeAt, LinuxMade
<1>6. PICK next \in [Calls -> been] : next["addresses"] = scene /\ next["links"] = at["links"]
  <2>1. "addresses" \in Calls /\ {"links"} \subseteq Calls \ {"addresses"} /\ been' = been
    BY <1>1 DEF Calls
  <2>2. PICK next \in [Calls -> been] : next["addresses"] = scene /\ \A c \in Calls \ {"addresses"} : next[c] = at[c]
    BY <1>2, <1>4, <2>1, NowAt
  <2> QED BY <2>1, <2>2
<1>7. LinuxMade(next)'
  BY <1>1, <1>2, <1>3, <1>5, <1>6 DEF LinuxMade, Ready
<1> QED BY <1>1, <1>2, <1>3, <1>7, LinuxGoesOn DEF Made

LEMMA DumpRoutesMade ==
  ASSUME AsItWas, Made, DumpRoutes
  PROVE  Made'
<1>1. OnLinux /\ pc = "read"
  BY DEF DumpRoutes, Answers
<1>2. Situated /\ asked \in Families
  BY OneSystem DEF Situated
<1>3. PICK at \in [Calls -> been] : MadeAt(at)
  BY DEF Made
<1>4. /\ got.links = LinkMap(Scene[at["links"]]) /\ got.addresses = LinuxAddresses(Scene[at["addresses"]])
      /\ asked = "v6" => got.routes = <<>> \o LinuxRoutes(Scene[at["v4"]], "v4")
      /\ asked = "v4" => got.routes = <<>>
  BY <1>1, <1>3 DEF MadeAt, LinuxMade, Made
<1>5. PICK routes : routes = got.routes \o LinuxRoutes(Now, asked)
  OBVIOUS
<1>6. CASE asked = "v6"
  <2>1. Ends(Collect(got.links, got.addresses, routes))
    BY <1>5, <1>6 DEF DumpRoutes
  <2>2. /\ box' = box /\ been' = been /\ pc' = "idle" /\ asked' = "v4" /\ got' = Nothing
        /\ result' = Collect(got.links, got.addresses, routes)
    BY <2>1 DEF Ends, Keep
  <2>3. PICK next \in [Calls -> been] :
           /\ next["v6"] = scene /\ next["links"] = at["links"]
           /\ next["addresses"] = at["addresses"] /\ next["v4"] = at["v4"]
    <3>1. "v6" \in Calls /\ {"links", "addresses", "v4"} \subseteq Calls \ {"v6"} /\ been' = been
      BY <2>2 DEF Calls
    <3>2. PICK next \in [Calls -> been] : next["v6"] = scene /\ \A c \in Calls \ {"v6"} : next[c] = at[c]
      <4>1. "v6" \in Calls /\ been' = been
        BY <3>1
      <4> QED BY <1>2, <1>3, <4>1, NowAt
    <3> QED BY <3>1, <3>2
  <2>4. Collect(got.links, got.addresses, routes)
          = LinuxSnapshot(Scene[next["links"]], Scene[next["addresses"]], Scene[next["v4"]], Scene[next["v6"]])
    BY <1>4, <1>5, <1>6, <2>3 DEF LinuxSnapshot, Now
  <2>5. LinuxMade(next)'
    BY <2>2, <2>4 DEF LinuxMade
  <2>6. got'.routes = <<>>
    BY <2>2 DEF Nothing
  <2> QED BY <1>1, <2>2, <2>5, <2>6, LinuxGoesOn
<1>7. CASE asked # "v6"
  <2>1. asked = "v4" /\ got.routes = <<>>
    BY <1>2, <1>4, <1>7 DEF Families
  <2>2. /\ box' = box /\ been' = been /\ asked' = "v6" /\ pc' = pc
        /\ got' = [got EXCEPT !.routes = routes]
    BY <1>5, <1>7 DEF DumpRoutes, Keep
  <2>3. got'.routes = routes /\ got'.links = got.links /\ got'.addresses = got.addresses
    BY <1>2, <2>2 DEF Situated, Nothing
  <2>4. PICK next \in [Calls -> been] :
           /\ next["v4"] = scene /\ next["links"] = at["links"] /\ next["addresses"] = at["addresses"]
    <3>1. "v4" \in Calls /\ {"links", "addresses"} \subseteq Calls \ {"v4"} /\ been' = been
      BY <2>2 DEF Calls
    <3>2. PICK next \in [Calls -> been] : next["v4"] = scene /\ \A c \in Calls \ {"v4"} : next[c] = at[c]
      <4>1. "v4" \in Calls /\ been' = been
        BY <3>1
      <4> QED BY <1>2, <1>3, <4>1, NowAt
    <3> QED BY <3>1, <3>2
  <2>5. routes = <<>> \o LinuxRoutes(Scene[next["v4"]], "v4")
    BY <1>5, <2>1, <2>4 DEF Now
  <2>6. LinuxMade(next)'
    BY <1>1, <1>4, <2>2, <2>3, <2>4, <2>5 DEF LinuxMade, Ready
  <2> QED BY <1>1, <2>2, <2>6, LinuxGoesOn
<1> QED BY <1>6, <1>7

----------------------------------------------------------------------------
LEMMA ProceedMade ==
  ASSUME AsItWas, Made, Unmistakable(box), Proceed
  PROVE  Made'
<1>1. CASE Fails
  BY <1>1, BrokenMade DEF Fails
<1>2. CASE InterfaceTypes
  BY <1>2, TypesMade
<1>3. CASE Links
  BY <1>3, LinksMade
<1>4. CASE ListAddresses
  BY <1>4, ListMade
<1>5. CASE AskFlags
  BY <1>5, FlagsMade
<1>6. CASE ServiceOrder
  BY <1>6, OrderMade
<1>7. CASE SizeTable
  BY <1>7, SizeMade
<1>8. CASE OnMacos /\ ReadTable
  BY <1>8, ReadMade
<1>9. CASE AdaptersAddresses
  BY <1>9, AdaptersMade
<1>10. CASE InterfaceRows
  BY <1>10, RowsMade
<1>11. CASE ForwardTable
  BY <1>11, ForwardMade
<1>12. CASE DumpLinks
  BY <1>12, DumpLinksMade
<1>13. CASE DumpAddresses
  BY <1>13, DumpAddressesMade
<1>14. CASE DumpRoutes
  BY <1>14, DumpRoutesMade
<1> QED BY <1>1, <1>2, <1>3, <1>4, <1>5, <1>6, <1>7, <1>8, <1>9, <1>10, <1>11, <1>12,
           <1>13, <1>14 DEF Proceed

LEMMA InitMade ==
  ASSUME BackendsInit
  PROVE  Made
<1>1. been = {scene} /\ pc = "idle" /\ asked = "v4" /\ got = Nothing /\ result = None
  BY DEF BackendsInit
<1>2. got.routes = <<>>
  BY <1>1 DEF Nothing
<1>3. PICK at : at = [c \in Calls |-> scene]
  OBVIOUS
<1>4. at \in [Calls -> been]
  BY <1>1, <1>3
<1>5. MadeAt(at)
  BY <1>1 DEF MadeAt, MacMade, WinMade, LinuxMade, Ready
<1> QED BY <1>1, <1>2, <1>4, <1>5 DEF Made

----------------------------------------------------------------------------
LEMMA RecordsAreNoMarks ==
  ASSUME Marked, NEW I, NEW R
  PROVE  [interfaces |-> I, routes |-> R] \notin {None, Broken}
<1>1. PICK r : r = [interfaces |-> I, routes |-> R]
  OBVIOUS
<1>2. r = [x \in DOMAIN r |-> r[x]]
  BY <1>1
<1>3. r # None /\ r # Broken
  BY <1>2 DEF Marked, NoFunction
<1> QED BY <1>1, <1>3

LEMMA EnoughStays ==
  ASSUME Enough, been' = been, box' = box, scene' = scene, room' \in Nat,
         result' = result \/ result' # Broken, pc' # "adapters", OnMacos => pc' # "read"
  PROVE  Enough'
  BY DEF Enough, OnMacos

LEMMA Sized ==
  ASSUME Situated, Unmistakable(box)
  PROVE  Now.bulk \in Nat /\ \A fam : Bytes(Now, fam) \in Nat
<1>1. scene \in box.scenes /\ Now = Scene[scene]
  BY DEF Situated, Now
<1>2. Scene[scene].bulk \in Nat
  BY <1>1 DEF Unmistakable
<1> QED BY <1>1, <1>2 DEF Bytes

LEMMA GoesEnough ==
  ASSUME Enough, NEW next, NEW gathered, Goes(next, gathered), next \notin {"read", "adapters"}
  PROVE  Enough'
  BY EnoughStays DEF Goes, Keep, Enough

LEMMA EndsEnough ==
  ASSUME Marked, Enough, NEW I, NEW R, Ends([interfaces |-> I, routes |-> R])
  PROVE  Enough'
<1>1. PICK r : r = [interfaces |-> I, routes |-> R]
  OBVIOUS
<1>2. /\ been' = been /\ box' = box /\ scene' = scene /\ room' = 0 /\ result' = r /\ pc' = "idle"
  BY <1>1 DEF Ends, Keep
<1>3. r # Broken
  BY <1>1, RecordsAreNoMarks
<1> QED BY <1>2, <1>3, EnoughStays

LEMMA DumpedEnough ==
  ASSUME Marked, Enough, NEW table, Dumped(table)
  PROVE  Enough'
<1> DEFINE routes == got.routes \o Scored(table, got.metrics, Unranked)
<1>1. CASE asked = "v6"
  <2>1. Ends([interfaces |-> InOrder(got.links), routes |-> routes])
    BY <1>1 DEF Dumped
  <2> HIDE DEF routes
  <2> QED BY <2>1, EndsEnough
<1>2. CASE asked # "v6"
  <2>1. /\ been' = been /\ box' = box /\ scene' = scene /\ room' = 0 /\ result' = result
        /\ pc' = "size"
    BY <1>2 DEF Dumped, Keep
  <2> QED BY <2>1, EnoughStays
<1> QED BY <1>1, <1>2

LEMMA BrokenEnough ==
  ASSUME Enough, Ends(Broken), ~(been = {scene} /\ box.hidden \cap Needed = {})
  PROVE  Enough'
  BY DEF Enough, Ends, Keep

LEMMA SizeEnough ==
  ASSUME AsItWas, Marked, Unmistakable(box), Enough, SizeTable
  PROVE  Enough'
<1>1. PICK needed : needed = Bytes(Now, asked)
  OBVIOUS
<1>2. needed \in Nat
  BY <1>1, Sized DEF AsItWas
<1>3. CASE needed = 0
  BY <1>1, <1>3, DumpedEnough DEF SizeTable
<1>4. CASE needed # 0
  <2>1. /\ been' = been /\ box' = box /\ scene' = scene /\ room' = Slack(needed) /\ result' = result
        /\ pc' = "read" /\ asked' = asked
    BY <1>1, <1>4 DEF SizeTable, Keep
  <2>2. Slack(needed) \in Nat /\ needed <= Slack(needed)
    BY <1>2 DEF Slack
  <2>3. Bytes(Now, asked)' = needed
    BY <1>1, <2>1 DEF Now
  <2> QED BY <2>1, <2>2, <2>3 DEF Enough
<1> QED BY <1>3, <1>4

LEMMA ReadEnough ==
  ASSUME AsItWas, Marked, Unmistakable(box), Enough, OnMacos, ReadTable
  PROVE  Enough'
<1>1. pc = "read" /\ room \in Nat
  BY DEF ReadTable, Answers, Enough
<1>2. Bytes(Now, asked) \in Nat
  BY Sized DEF AsItWas
<1>3. CASE Bytes(Now, asked) > room
  <2>1. ~(been = {scene} /\ box.hidden \cap Needed = {})
    BY <1>1, <1>2, <1>3 DEF Enough
  <2>2. TooSmall("size", 0)
    BY <1>3 DEF ReadTable
  <2>3. CASE Ends(Broken)
    BY <2>1, <2>3, BrokenEnough
  <2>4. CASE ~Ends(Broken)
    <3>1. /\ been' = been /\ box' = box /\ scene' = scene /\ room' = 0 /\ result' = result
          /\ pc' = "size"
      BY <2>2, <2>4 DEF TooSmall, Keep
    <3> QED BY <3>1, EnoughStays
  <2> QED BY <2>3, <2>4
<1>4. CASE ~(Bytes(Now, asked) > room)
  BY <1>4, DumpedEnough DEF ReadTable
<1> QED BY <1>3, <1>4

LEMMA AdaptersEnough ==
  ASSUME AsItWas, Unmistakable(box), Enough, AdaptersAddresses
  PROVE  Enough'
<1>1. pc = "adapters" /\ room \in Nat
  BY DEF AdaptersAddresses, Answers, Enough
<1>2. Now.bulk \in Nat
  BY Sized DEF AsItWas
<1>3. CASE DOMAIN Now.links = {}
  BY <1>3, GoesEnough DEF AdaptersAddresses
<1>4. CASE DOMAIN Now.links # {} /\ Now.bulk > room
  <2>1. TooSmall("adapters", Now.bulk)
    BY <1>4 DEF AdaptersAddresses
  <2>2. CASE Spent(left) = 0
    <3>1. Ends(Broken)
      BY <2>1, <2>2 DEF TooSmall
    <3>2. ~(been = {scene} /\ box.hidden \cap Needed = {})
      BY <1>1, <1>2, <1>4, <2>2 DEF Enough, Spent, MaxAttempts
    <3> QED BY <3>1, <3>2, BrokenEnough
  <2>3. CASE Spent(left) # 0
    <3>1. /\ been' = been /\ box' = box /\ scene' = scene /\ room' = Now.bulk /\ result' = result
          /\ pc' = "adapters" /\ left' = left - 1
      BY <2>1, <2>3 DEF TooSmall, Keep, Spent
    <3>2. Now' = Now
      BY <3>1 DEF Now
    <3>3. (been = {scene} /\ box.hidden \cap Needed = {}) => left = MaxAttempts
      BY <1>1, <1>2, <1>4 DEF Enough
    <3>4. room' \in Nat /\ Now'.bulk <= room'
      BY <1>2, <3>1, <3>2
    <3> QED BY <3>1, <3>3, <3>4 DEF Enough, MaxAttempts
  <2> QED BY <2>2, <2>3
<1>5. CASE DOMAIN Now.links # {} /\ ~(Now.bulk > room)
  BY <1>5, GoesEnough DEF AdaptersAddresses
<1> QED BY <1>3, <1>4, <1>5

LEMMA RoutesEnough ==
  ASSUME Marked, Enough, DumpRoutes
  PROVE  Enough'
<1> DEFINE routes == got.routes \o LinuxRoutes(Now, asked)
<1>1. OnLinux /\ pc = "read" /\ ~OnMacos
  BY DEF DumpRoutes, Answers, OnLinux, OnMacos
<1>2. CASE asked = "v6"
  <2>1. Ends(Collect(got.links, got.addresses, routes))
    BY <1>2 DEF DumpRoutes
  <2> HIDE DEF routes
  <2>2. PICK I, R : Collect(got.links, got.addresses, routes) = [interfaces |-> I, routes |-> R]
    BY DEF Collect
  <2> QED BY <2>1, <2>2, EndsEnough
<1>3. CASE asked # "v6"
  <2>1. /\ been' = been /\ box' = box /\ scene' = scene /\ room' = room /\ result' = result
        /\ pc' = pc
    BY <1>3 DEF DumpRoutes, Keep
  <2> QED BY <1>1, <2>1, EnoughStays DEF Enough
<1> QED BY <1>2, <1>3

LEMMA ProceedEnough ==
  ASSUME AsItWas, Marked, Unmistakable(box), Enough, Proceed
  PROVE  Enough'
<1>1. CASE Fails
  <2>1. ~(been = {scene} /\ box.hidden \cap Needed = {})
    BY <1>1 DEF Fails
  <2> QED BY <1>1, <2>1, BrokenEnough DEF Fails
<1>2. CASE InterfaceTypes
  BY <1>2, GoesEnough DEF InterfaceTypes
<1>3. CASE Links
  <2>1. PICK gathered : Goes("addresses", gathered)
    BY <1>3 DEF Links
  <2> QED BY <2>1, GoesEnough
<1>4. CASE ListAddresses
  BY <1>4, GoesEnough DEF ListAddresses
<1>5. CASE AskFlags
  <2>1. PICK gathered : Goes("order", gathered)
    BY <1>5 DEF AskFlags
  <2> QED BY <2>1, GoesEnough
<1>6. CASE ServiceOrder
  <2>1. /\ been' = been /\ box' = box /\ scene' = scene /\ room' = room /\ result' = result
        /\ pc' = "size"
    BY <1>6 DEF ServiceOrder, Keep
  <2> QED BY <2>1, EnoughStays DEF Enough
<1>7. CASE SizeTable
  BY <1>7, SizeEnough
<1>8. CASE OnMacos /\ ReadTable
  BY <1>8, ReadEnough
<1>9. CASE AdaptersAddresses
  BY <1>9, AdaptersEnough
<1>10. CASE InterfaceRows
  <2>1. PICK gathered : Goes("forward", gathered)
    BY <1>10 DEF InterfaceRows
  <2> QED BY <2>1, GoesEnough
<1>11. CASE ForwardTable
  <2>1. PICK R : Ends([interfaces |-> got.links, routes |-> R])
    BY <1>11 DEF ForwardTable
  <2> QED BY <2>1, EndsEnough
<1>12. CASE DumpLinks
  <2>1. PICK gathered : Goes("addresses", gathered)
    BY <1>12 DEF DumpLinks
  <2> QED BY <2>1, GoesEnough
<1>13. CASE DumpAddresses
  <2>1. PICK gathered : OnLinux /\ Goes("read", gathered)
    BY <1>13 DEF DumpAddresses
  <2>2. /\ been' = been /\ box' = box /\ scene' = scene /\ room' = room /\ result' = result
        /\ pc' = "read" /\ ~OnMacos
    BY <2>1 DEF Goes, Keep, OnLinux, OnMacos
  <2> QED BY <2>2, EnoughStays DEF Enough
<1>14. CASE DumpRoutes
  BY <1>14, RoutesEnough
<1> QED BY <1>1, <1>2, <1>3, <1>4, <1>5, <1>6, <1>7, <1>8, <1>9, <1>10, <1>11, <1>12,
           <1>13, <1>14 DEF Proceed

LEMMA AskEnough ==
  ASSUME Situated, Marked, Enough, Ask
  PROVE  Enough'
<1>1. /\ been' = {scene} /\ box' = box /\ scene' = scene /\ room' \in Nat /\ result' = None
      /\ pc' = FirstCall[box.platform]
      /\ left' = IF box.platform = "windows" THEN MaxAttempts ELSE 0
  BY DEF Ask, Keep, InitialBytes
<1>2. None # Broken
  BY DEF Marked
<1>3. box.platform \in {"macos", "windows", "linux"}
  BY Surroundings
<1>4. pc' # "read" /\ (pc' = "adapters" => left' = MaxAttempts)
  BY <1>1, <1>3 DEF FirstCall
<1> QED BY <1>1, <1>2, <1>4 DEF Enough, OnMacos

LEMMA MovesEnough ==
  ASSUME Situated, Enough, (\E s \in DOMAIN Scene : MoveTo(s)) \/ UNCHANGED allvars
  PROVE  Enough'
<1>1. CASE \E s \in DOMAIN Scene : MoveTo(s)
  <2>1. been' # {scene'} /\ room' = room
    BY <1>1 DEF MoveTo, Situated
  <2> QED BY <2>1 DEF Enough
<1>2. CASE UNCHANGED allvars
  BY <1>2 DEF Enough, allvars, OnMacos, Now
<1> QED BY <1>1, <1>2

LEMMA InitEnough ==
  ASSUME Marked, BackendsInit
  PROVE  Enough
<1>1. pc = "idle" /\ room = 0 /\ result = None /\ None # Broken
  BY DEF BackendsInit, Marked
<1> QED BY <1>1 DEF Enough

----------------------------------------------------------------------------
(***************************************************************************)
(* What a snapshot has to say, of its lists.                               *)
(***************************************************************************)
HasLinks(I) ==
    /\ Cardinality({i.name : i \in ToSet(I)}) = Len(I)
    /\ \A n \in LastingLinks : \E i \in ToSet(I) :
          /\ i.name = n /\ LinkHeld(scene, i) /\ i.kind \in MayLook(Now.links[n].nature)

HasAddresses(I) ==
    \A i \in ToSet(I) : i.name \in LastingLinks =>
        \A a \in LastingAddresses(i.name) : \E b \in ToSet(i.addresses) :
            /\ Says(a, b)
            /\ a.temporary = b.temporary \/ (OnMacos /\ "flags" \in box.hidden)

HasRoutes(R) ==
    \A r \in LastingRoutes : \E q \in ToSet(R) :
        /\ q.family = r.family /\ q.gateway = r.gateway
        /\ q.index = IndexIn(scene, r.name)
        /\ q.default <=> (r.destination = 0 /\ r.prefix = 0)

\* Of a filtered list in which no name comes twice there are as many names as
\* elements.
LEMMA NamedOnce ==
  ASSUME NEW seq, NEW S, S \subseteq Nat, IsFiniteSet(S),
         \A j, k \in S : seq[j].name = seq[k].name => j = k
  PROVE  /\ Cardinality({i.name : i \in ToSet(Picked(seq, S))}) = Len(Picked(seq, S))
         /\ \A x \in ToSet(Picked(seq, S)) : \E k \in S : x = seq[k]
         /\ \A k \in S : seq[k] \in ToSet(Picked(seq, S))
<1>1. PICK list : list = Picked(seq, S)
  OBVIOUS
<1>2. HoldsOf(list, seq, S)
  BY <1>1, PickedKeeps
<1>3. PICK n \in Nat : DOMAIN list = 1..n
  BY <1>2 DEF HoldsOf
<1>4. /\ \A k \in 1..n : \E i \in S : list[k] = seq[i]
      /\ \A i \in S : \E k \in 1..n : list[k] = seq[i]
  BY <1>2, <1>3 DEF HoldsOf
<1>5. \A k, l \in 1..n : list[k] = list[l] => k = l
  <2>1. \A i, j \in S : seq[i] = seq[j] => i = j
    OBVIOUS
  <2> QED BY <1>2, <1>3, <2>1 DEF HoldsOf
<1>6. \A k, l \in 1..n : list[k].name = list[l].name => k = l
  BY <1>4, <1>5
<1>7. Len(list) = n
  <2>1. list = [k \in 1..n |-> list[k]]
    BY <1>1, <1>3 DEF Picked
  <2>2. [k \in 1..n |-> list[k]] \in Seq({list[k] : k \in 1..n})
    OBVIOUS
  <2>3. list \in Seq({list[k] : k \in 1..n})
    BY <2>1, <2>2
  <2> QED BY <1>3, <2>3, LenProperties
<1>8. ToSet(list) = {list[k] : k \in 1..n}
  BY <1>3 DEF ToSet
<1> DEFINE names == {i.name : i \in ToSet(list)}
           name == [k \in 1..n |-> list[k].name]
<1>9. name \in Surjection(1..n, names) /\ name \in Injection(1..n, names)
  <2>1. name \in [1..n -> names]
    BY <1>8
  <2>2. \A x \in names : \E k \in 1..n : name[k] = x
    BY <1>8
  <2>3. \A k, l \in 1..n : name[k] = name[l] => k = l
    BY <1>6
  <2> HIDE DEF name, names
  <2> QED BY <2>1, <2>2, <2>3 DEF Surjection, Injection, IsInjective
<1> HIDE DEF name, names
<1>10. IsFiniteSet(1..n) /\ Cardinality(1..n) = n
  BY FS_Interval
<1>11. Cardinality(names) = n
  BY <1>9, <1>10, FS_Surjection
<1>12. \A x \in ToSet(list) : \E k \in S : x = seq[k]
  BY <1>4, <1>8
<1>13. \A k \in S : seq[k] \in ToSet(list)
  BY <1>4, <1>8
<1> QED BY <1>1, <1>7, <1>11, <1>12, <1>13 DEF names

\* macOS lists its links in the order of their names.
OrderedAs(list, links) ==
    /\ Cardinality({i.name : i \in ToSet(list)}) = Len(list)
    /\ \A n \in DOMAIN links \cap ToSet(Names) : links[n] \in ToSet(list)
    /\ \A i \in ToSet(list) : i.name \in DOMAIN links /\ i = links[i.name]

LEMMA OrderedOnce ==
  ASSUME \A j, k \in DOMAIN Names : Names[j] = Names[k] => j = k,
         NEW links, \A n \in DOMAIN links : links[n].name = n
  PROVE  OrderedAs(InOrder(links), links)
<1> DEFINE known == {k \in DOMAIN Names : Names[k] \in DOMAIN links}
           seq == [k \in known |-> links[Names[k]]]
<1>1. PICK n \in Nat : DOMAIN Names = 1..n
  BY NamesAreListed
<1>2. known \subseteq Nat /\ IsFiniteSet(known)
  <2>1. IsFiniteSet(1..n)
    BY FS_Interval
  <2>2. known \in SUBSET (1..n)
    BY <1>1
  <2> HIDE DEF known
  <2>3. known \subseteq Nat
    BY <2>2
  <2> QED BY <2>1, <2>2, <2>3, FS_Subset
<1>3. InOrder(links) = Picked(seq, known)
  BY DEF InOrder
<1>4. \A k \in known : seq[k] = links[Names[k]] /\ Names[k] \in DOMAIN links /\ k \in DOMAIN Names
  OBVIOUS
<1>5. \A m \in DOMAIN links \cap ToSet(Names) : \E k \in known : seq[k] = links[m]
  <2> SUFFICES ASSUME NEW m \in DOMAIN links, m \in ToSet(Names) PROVE \E k \in known : seq[k] = links[m]
    OBVIOUS
  <2>1. PICK k \in DOMAIN Names : m = Names[k]
    BY DEF ToSet
  <2> QED BY <2>1
<1> HIDE DEF known, seq
<1>6. \A j, k \in known : seq[j].name = seq[k].name => j = k
  BY <1>4
<1>7. /\ Cardinality({i.name : i \in ToSet(Picked(seq, known))}) = Len(Picked(seq, known))
      /\ \A x \in ToSet(Picked(seq, known)) : \E k \in known : x = seq[k]
      /\ \A k \in known : seq[k] \in ToSet(Picked(seq, known))
  BY <1>2, <1>6, NamedOnce
<1>8. \A i \in ToSet(Picked(seq, known)) : i.name \in DOMAIN links /\ i = links[i.name]
  BY <1>4, <1>7
<1>9. \A m \in DOMAIN links \cap ToSet(Names) : links[m] \in ToSet(Picked(seq, known))
  BY <1>5, <1>7
<1> QED BY <1>3, <1>7, <1>8, <1>9 DEF OrderedAs

----------------------------------------------------------------------------
(***************************************************************************)
(* The kind of a link: the first rule that holds decides.                  *)
(***************************************************************************)
LEMMA Decided ==
  ASSUME NEW n \in Nat, NEW rules, DOMAIN rules = 1..n, NEW k \in 1..n, rules[k][1],
         \A j \in 1..n : j < k => ~rules[j][1], NEW otherwise
  PROVE  Decide(rules, otherwise) = rules[k][2]
<1> DEFINE hold == {j \in DOMAIN rules : rules[j][1]}
<1>1. hold \subseteq Nat /\ k \in hold
  OBVIOUS
<1>2. \A j \in hold : ~(j < k)
  OBVIOUS
<1> HIDE DEF hold
<1>3. Min(hold) \in hold /\ Min(hold) <= k
  BY <1>1, MinIsLeast
<1>4. Min(hold) = k
  <2>1. Min(hold) \in Nat /\ ~(Min(hold) < k)
    BY <1>1, <1>2, <1>3
  <2> QED BY <1>3, <2>1
<1> QED BY <1>1, <1>4 DEF Decide, hold

LEMMA Undecided ==
  ASSUME NEW rules, \A j \in DOMAIN rules : ~rules[j][1], NEW otherwise
  PROVE  Decide(rules, otherwise) = otherwise
  BY DEF Decide

LEMMA DarwinKind ==
  ASSUME None \notin Vocabulary, OnMacos, NEW e, NEW nature \in DOMAIN DarwinEvidence,
         e.loopback <=> nature = "loopback",
         e.point_to_point <=> nature \in {"tunnel", "ppp", "modem"},
         e.ifi_type = DarwinEvidence[nature].ifi_type,
         e.sc = DarwinEvidence[nature].sc \/ (e.sc = None /\ "types" \in box.hidden)
  PROVE  ClassifyDarwin(e) \in MayLook(nature)
<1> DEFINE rules == <<<<e.loopback, "loopback">>,
                      <<FromSc(e.sc) # None, FromSc(e.sc)>>,
                      <<FromIfiType(e.ifi_type) # None, FromIfiType(e.ifi_type)>>,
                      <<e.point_to_point, "vpn">>>>
<1>1. ClassifyDarwin(e) = Decide(rules, "other")
  BY DEF ClassifyDarwin
<1>2. DOMAIN rules = 1..4
  OBVIOUS
<1>3. /\ rules[1][1] <=> e.loopback
      /\ rules[1][2] = "loopback"
      /\ rules[2][1] <=> FromSc(e.sc) # None
      /\ rules[2][2] = FromSc(e.sc)
      /\ rules[3][1] <=> FromIfiType(e.ifi_type) # None
      /\ rules[3][2] = FromIfiType(e.ifi_type)
      /\ rules[4][1] <=> e.point_to_point
      /\ rules[4][2] = "vpn"
  OBVIOUS
<1> HIDE DEF rules
<1>4. \A k \in 1..4 : rules[k][1] /\ (\A j \in 1..4 : j < k => ~rules[j][1])
                         => Decide(rules, "other") = rules[k][2]
  <2> SUFFICES ASSUME NEW k \in 1..4, rules[k][1], \A j \in 1..4 : j < k => ~rules[j][1]
               PROVE  Decide(rules, "other") = rules[k][2]
    OBVIOUS
  <2>1. 4 \in Nat
    OBVIOUS
  <2> QED BY <1>2, <2>1, Decided
<1>5. /\ rules[1][1] => Decide(rules, "other") = rules[1][2]
      /\ ~rules[1][1] /\ rules[2][1] => Decide(rules, "other") = rules[2][2]
      /\ ~rules[1][1] /\ ~rules[2][1] /\ rules[3][1] => Decide(rules, "other") = rules[3][2]
      /\ ~rules[1][1] /\ ~rules[2][1] /\ ~rules[3][1] /\ rules[4][1]
            => Decide(rules, "other") = rules[4][2]
  BY <1>4
<1>6. nature \in {"loopback", "wired", "wifi", "bond", "tunnel", "ppp", "modem", "switch"}
  BY DEF DarwinEvidence
<1>7. FromSc(None) = None
  BY DEF FromSc, Vocabulary
<1>8. KindOf[nature] \in MayLook(nature)
  BY DEF MayLook
<1>9. CASE nature = "loopback"
  BY <1>1, <1>3, <1>5, <1>8, <1>9 DEF KindOf
<1>10. CASE nature = "wired"
  <2>1. FromSc("Ethernet") = "ethernet" /\ FromIfiType("ETHER") = "ethernet" /\ "ethernet" # None
    BY DEF FromSc, FromIfiType, Vocabulary
  <2>2. e.ifi_type = "ETHER" /\ (e.sc = "Ethernet" \/ e.sc = None)
    BY <1>10 DEF DarwinEvidence
  <2> QED BY <1>1, <1>3, <1>5, <1>7, <1>8, <1>10, <2>1, <2>2 DEF KindOf
<1>11. CASE nature = "wifi"
  <2>1. /\ FromSc("IEEE80211") = "wireless" /\ FromIfiType("ETHER") = "ethernet"
        /\ "ethernet" # None /\ "wireless" # None
    BY DEF FromSc, FromIfiType, Vocabulary
  <2>2. e.ifi_type = "ETHER" /\ (e.sc = "IEEE80211" \/ (e.sc = None /\ "types" \in box.hidden))
    BY <1>11 DEF DarwinEvidence
  <2>3. "types" \in box.hidden => "ethernet" \in MayLook(nature)
    BY <1>11 DEF MayLook
  <2> QED BY <1>1, <1>3, <1>5, <1>7, <1>8, <1>11, <2>1, <2>2, <2>3 DEF KindOf
<1>12. CASE nature = "bond"
  <2>1. FromSc("Bond") = "ethernet" /\ FromIfiType("IEEE8023ADLAG") = "ethernet" /\ "ethernet" # None
    BY DEF FromSc, FromIfiType, Vocabulary
  <2>2. e.ifi_type = "IEEE8023ADLAG" /\ (e.sc = "Bond" \/ e.sc = None)
    BY <1>12 DEF DarwinEvidence
  <2> QED BY <1>1, <1>3, <1>5, <1>7, <1>8, <1>12, <2>1, <2>2 DEF KindOf
<1>13. CASE nature = "tunnel"
  <2>1. FromIfiType("OTHER") = None
    BY DEF FromIfiType
  <2>2. e.ifi_type = "OTHER" /\ e.sc = None
    BY <1>13 DEF DarwinEvidence
  <2> QED BY <1>1, <1>3, <1>5, <1>7, <1>8, <1>13, <2>1, <2>2 DEF KindOf
<1>14. CASE nature = "ppp"
  <2>1. FromSc("Ppp") = "vpn" /\ FromIfiType("PPP") = "vpn" /\ "vpn" # None
    BY DEF FromSc, FromIfiType, Vocabulary
  <2>2. e.ifi_type = "PPP" /\ (e.sc = "Ppp" \/ e.sc = None)
    BY <1>14 DEF DarwinEvidence
  <2> QED BY <1>1, <1>3, <1>5, <1>7, <1>8, <1>14, <2>1, <2>2 DEF KindOf
<1>15. CASE nature = "modem"
  <2>1. FromSc("Wwan") = "other" /\ FromIfiType("CELLULAR") = "other" /\ "other" # None
    BY DEF FromSc, FromIfiType, Vocabulary
  <2>2. e.ifi_type = "CELLULAR" /\ (e.sc = "Wwan" \/ e.sc = None)
    BY <1>15 DEF DarwinEvidence
  <2> QED BY <1>1, <1>3, <1>5, <1>7, <1>8, <1>15, <2>1, <2>2 DEF KindOf
<1>16. CASE nature = "switch"
  <2>1. FromSc("Bridge") = "bridge" /\ FromIfiType("BRIDGE") = "bridge" /\ "bridge" # None
    BY DEF FromSc, FromIfiType, Vocabulary
  <2>2. e.ifi_type = "BRIDGE" /\ (e.sc = "Bridge" \/ e.sc = None)
    BY <1>16 DEF DarwinEvidence
  <2>3. KindOf[nature] = "bridge"
    BY <1>16 DEF KindOf, OnMacos
  <2> QED BY <1>1, <1>3, <1>5, <1>7, <1>8, <1>16, <2>1, <2>2, <2>3
<1> QED BY <1>6, <1>9, <1>10, <1>11, <1>12, <1>13, <1>14, <1>15, <1>16

LEMMA WindowsKind ==
  ASSUME None \notin BOOLEAN, box.platform = "windows",
         NEW nature \in DOMAIN WindowsEvidence, NEW e, NEW ndis, ndis # None, e.ndis = ndis,
         e.if_type = WindowsEvidence[nature].if_type, e.tunnel_type = "NONE",
         ndis.access_type = WindowsEvidence[nature].ndis.access_type,
         ndis.physical_medium = WindowsEvidence[nature].ndis.physical_medium,
         ndis.media_type = WindowsEvidence[nature].ndis.media_type,
         \/ ndis.hardware_interface = WindowsEvidence[nature].ndis.hardware_interface
         \/ "hardware" \in box.hidden /\ ndis.hardware_interface \in {TRUE, None}
  PROVE  ClassifyWindows(e) \in MayLook(nature)
<1> DEFINE rules ==
             <<<<e.if_type = "SOFTWARE_LOOPBACK" \/ IsLoopbackRow(e.ndis), "loopback">>,
               <<e.if_type = "IEEE80211" \/ IsWireless(e.ndis), "wireless">>,
               <<\/ e.if_type \in {"TUNNEL", "PPP"}
                 \/ IsDeclaredTunnel(e.tunnel_type)
                 \/ IsTunnelRow(e.ndis), "vpn">>,
               <<e.if_type \in {"WWANPP", "WWANPP2", "IEEE80216_WMAN"}, "other">>,
               <<IsPointToPoint(e.ndis), "vpn">>,
               <<IsEthernetFamily(e.if_type) /\ ~IsSoftware(e.ndis), "ethernet">>>>
           type == e.if_type
           access == ndis.access_type
           medium == ndis.physical_medium
           media == ndis.media_type
           hw == ndis.hardware_interface
<1>1. ClassifyWindows(e) = Decide(rules, "other")
  BY DEF ClassifyWindows
<1>2. DOMAIN rules = 1..6
  OBVIOUS
<1>3. /\ rules[1][1] <=> (type = "SOFTWARE_LOOPBACK" \/ media = "LOOPBACK" \/ access = "LOOPBACK")
      /\ rules[2][1] <=> (\/ type = "IEEE80211"
                          \/ medium \in {"NATIVE_802_11", "WIRELESS_LAN"}
                          \/ media = "NATIVE_802_11")
      /\ rules[3][1] <=> (type \in {"TUNNEL", "PPP"} \/ media = "TUNNEL")
      /\ rules[4][1] <=> type \in {"WWANPP", "WWANPP2", "IEEE80216_WMAN"}
      /\ rules[5][1] <=> access = "POINT_TO_POINT"
      /\ rules[6][1] <=> (IsEthernetFamily(type) /\ hw # FALSE)
  BY DEF IsLoopbackRow, IsWireless, IsDeclaredTunnel, IsTunnelRow, IsPointToPoint, IsSoftware
<1>4. /\ rules[1][2] = "loopback" /\ rules[2][2] = "wireless" /\ rules[3][2] = "vpn"
      /\ rules[4][2] = "other" /\ rules[5][2] = "vpn" /\ rules[6][2] = "ethernet"
  OBVIOUS
<1> HIDE DEF rules
<1>5. \A k \in 1..6 : rules[k][1] /\ (\A j \in 1..6 : j < k => ~rules[j][1])
                         => Decide(rules, "other") = rules[k][2]
  <2> SUFFICES ASSUME NEW k \in 1..6, rules[k][1], \A j \in 1..6 : j < k => ~rules[j][1]
               PROVE  Decide(rules, "other") = rules[k][2]
    OBVIOUS
  <2>1. PICK n \in Nat : n = 6
    OBVIOUS
  <2>2. PICK otherwise : otherwise = "other"
    OBVIOUS
  <2>3. DOMAIN rules = 1..n /\ k \in 1..n /\ \A j \in 1..n : j < k => ~rules[j][1]
    BY <1>2, <2>1
  <2>4. Decide(rules, otherwise) = rules[k][2]
    BY <2>3, Decided
  <2> QED BY <2>2, <2>4
<1>6. /\ rules[1][1] => Decide(rules, "other") = "loopback"
      /\ ~rules[1][1] /\ rules[2][1] => Decide(rules, "other") = "wireless"
      /\ ~rules[1][1] /\ ~rules[2][1] /\ rules[3][1] => Decide(rules, "other") = "vpn"
      /\ ~rules[1][1] /\ ~rules[2][1] /\ ~rules[3][1] /\ rules[4][1]
            => Decide(rules, "other") = "other"
      /\ ~rules[1][1] /\ ~rules[2][1] /\ ~rules[3][1] /\ ~rules[4][1] /\ rules[5][1]
            => Decide(rules, "other") = "vpn"
      /\ ~rules[1][1] /\ ~rules[2][1] /\ ~rules[3][1] /\ ~rules[4][1] /\ ~rules[5][1] /\ rules[6][1]
            => Decide(rules, "other") = "ethernet"
  BY <1>4, <1>5
<1>7. (\A k \in 1..6 : ~rules[k][1]) => Decide(rules, "other") = "other"
  BY <1>2, Undecided
<1>8. nature \in {"loopback", "wired", "wifi", "bond", "tunnel", "ppp", "modem", "switch"}
  BY DEF WindowsEvidence
<1>9. KindOf[nature] \in MayLook(nature)
  BY DEF MayLook
<1> HIDE DEF type, access, medium, media, hw
<1>10. CASE nature = "loopback"
  <2>1. type = "SOFTWARE_LOOPBACK"
    BY <1>10 DEF type, WindowsEvidence
  <2> QED BY <1>1, <1>3, <1>6, <1>9, <1>10, <2>1 DEF KindOf
<1>11. CASE nature \in {"wired", "bond"}
  <2>1. /\ type \in {"ETHERNET_CSMACD", "IEEE8023AD_LAG"} /\ access = "BROADCAST"
        /\ medium = "ETHERNET_802_3" /\ media = "ETHERNET_802_3"
    <3>1. CASE nature = "wired"
      BY <3>1 DEF type, access, medium, media, WindowsEvidence, Row
    <3>2. CASE nature = "bond"
      BY <3>2 DEF type, access, medium, media, WindowsEvidence, Row
    <3> QED BY <1>11, <3>1, <3>2
  <2>2. hw # FALSE
    <3>1. CASE nature = "wired"
      BY <3>1 DEF hw, WindowsEvidence, Row
    <3>2. CASE nature = "bond"
      BY <3>2 DEF hw, WindowsEvidence, Row
    <3> QED BY <1>11, <3>1, <3>2
  <2>3. IsEthernetFamily(type)
    BY <2>1 DEF IsEthernetFamily
  <2>4. ~rules[1][1] /\ ~rules[2][1] /\ ~rules[3][1] /\ ~rules[4][1] /\ ~rules[5][1] /\ rules[6][1]
    BY <1>3, <2>1, <2>2, <2>3
  <2>5. KindOf[nature] = "ethernet"
    BY <1>11 DEF KindOf
  <2> QED BY <1>1, <1>6, <1>9, <2>4, <2>5
<1>12. CASE nature = "wifi"
  <2>1. type = "IEEE80211" /\ access = "BROADCAST" /\ media = "ETHERNET_802_3"
    BY <1>12 DEF type, access, media, WindowsEvidence, Row
  <2> QED BY <1>1, <1>3, <1>6, <1>9, <1>12, <2>1 DEF KindOf
<1>13. CASE nature = "tunnel"
  <2>1. /\ type = "ETHERNET_CSMACD" /\ access = "POINT_TO_POINT"
        /\ medium = "UNSPECIFIED" /\ media = "ETHERNET_802_3"
    BY <1>13 DEF type, access, medium, media, WindowsEvidence, Row
  <2> QED BY <1>1, <1>3, <1>6, <1>9, <1>13, <2>1 DEF KindOf
<1>14. CASE nature = "ppp"
  <2>1. /\ type = "PPP" /\ access = "POINT_TO_POINT" /\ medium = "UNSPECIFIED" /\ media = "TUNNEL"
    BY <1>14 DEF type, access, medium, media, WindowsEvidence, Row
  <2> QED BY <1>1, <1>3, <1>6, <1>9, <1>14, <2>1 DEF KindOf
<1>15. CASE nature = "modem"
  <2>1. /\ type = "WWANPP" /\ access = "POINT_TO_POINT"
        /\ medium = "UNSPECIFIED" /\ media = "ETHERNET_802_3"
    BY <1>15 DEF type, access, medium, media, WindowsEvidence, Row
  <2> QED BY <1>1, <1>3, <1>6, <1>9, <1>15, <2>1 DEF KindOf
<1>16. CASE nature = "switch"
  <2>1. /\ type = "ETHERNET_CSMACD" /\ access = "BROADCAST"
        /\ medium = "UNSPECIFIED" /\ media = "ETHERNET_802_3"
        /\ hw = FALSE \/ "hardware" \in box.hidden
    BY <1>16 DEF type, access, medium, media, hw, WindowsEvidence, Row
  <2>2. "hardware" \in box.hidden => "ethernet" \in MayLook(nature)
    BY <1>16 DEF MayLook
  <2>3. KindOf[nature] = "other"
    BY <1>16 DEF KindOf
  <2>4. ~rules[1][1] /\ ~rules[2][1] /\ ~rules[3][1] /\ ~rules[4][1] /\ ~rules[5][1]
    BY <1>3, <2>1
  <2>5. CASE rules[6][1]
    <3>1. "hardware" \in box.hidden
      BY <1>3, <2>1, <2>5
    <3> QED BY <1>1, <1>6, <2>2, <2>4, <2>5, <3>1
  <2>6. CASE ~rules[6][1]
    <3>1. \A k \in 1..6 : ~rules[k][1]
      BY <2>4, <2>6
    <3> QED BY <1>1, <1>7, <1>9, <2>3, <3>1
  <2> QED BY <2>5, <2>6
<1> QED BY <1>8, <1>10, <1>11, <1>12, <1>13, <1>14, <1>15, <1>16

LEMMA LinuxKind ==
  ASSUME None \notin Vocabulary, OnLinux, NEW nature \in DOMAIN LinuxEvidence, NEW n,
         n = <<"lo">> => nature = "loopback",
         nature = "wired" => ClassifyByName(n, "ethernet") = "ethernet",
         nature = "switch" => ~IsContainerName(n) /\ ~IsVirtualName(n),
         nature = "modem" => ClassifyByName(n, "other") = "other",
         NEW link_kind, link_kind = LinuxEvidence[nature].kind,
         NEW loopback, loopback = LinuxEvidence[nature].loopback,
         NEW wireless, wireless = LinuxEvidence[nature].wireless
  PROVE  ClassifyInterface(n, link_kind, loopback, wireless) \in MayLook(nature)
<1> DEFINE rules ==
             <<<<loopback \/ n = <<"lo">>, "loopback">>,
               <<wireless, "wireless">>,
               <<link_kind = None, ClassifyByName(n, "ethernet")>>,
               <<link_kind = "veth", "container">>,
               <<link_kind = "bridge" /\ IsContainerName(n), "container">>,
               <<link_kind = "bridge" /\ IsVirtualName(n), "virtual">>,
               <<link_kind = "bridge", "bridge">>,
               <<link_kind \in Tunnels, "vpn">>,
               <<link_kind \in {"bond", "vlan", "macvlan", "team"}, "ethernet">>,
               <<link_kind \in {"dummy", "ifb", "nlmon"}, "virtual">>>>
           otherwise == ClassifyByName(n, "other")
<1>1. ClassifyInterface(n, link_kind, loopback, wireless) = Decide(rules, otherwise)
  BY DEF ClassifyInterface
<1>2. DOMAIN rules = 1..10
  OBVIOUS
<1>3. /\ rules[1][1] <=> (loopback \/ n = <<"lo">>)
      /\ rules[2][1] <=> wireless
      /\ rules[3][1] <=> link_kind = None
      /\ rules[4][1] <=> link_kind = "veth"
      /\ rules[5][1] <=> (link_kind = "bridge" /\ IsContainerName(n))
      /\ rules[6][1] <=> (link_kind = "bridge" /\ IsVirtualName(n))
      /\ rules[7][1] <=> link_kind = "bridge"
      /\ rules[8][1] <=> link_kind \in Tunnels
      /\ rules[9][1] <=> link_kind \in {"bond", "vlan", "macvlan", "team"}
      /\ rules[10][1] <=> link_kind \in {"dummy", "ifb", "nlmon"}
  OBVIOUS
<1>4. /\ rules[1][2] = "loopback" /\ rules[2][2] = "wireless"
      /\ rules[3][2] = ClassifyByName(n, "ethernet") /\ rules[7][2] = "bridge"
      /\ rules[8][2] = "vpn" /\ rules[9][2] = "ethernet"
  OBVIOUS
<1> HIDE DEF rules, otherwise
<1>5. ASSUME NEW k \in 1..10, rules[k][1], \A j \in 1..10 : j < k => ~rules[j][1]
      PROVE  ClassifyInterface(n, link_kind, loopback, wireless) = rules[k][2]
  <2>1. 10 \in Nat
    OBVIOUS
  <2> QED BY <1>1, <1>2, <1>5, <2>1, Decided
<1>6. nature \in {"loopback", "wired", "wifi", "bond", "tunnel", "ppp", "modem", "switch"}
  BY DEF LinuxEvidence
<1>7. KindOf[nature] \in MayLook(nature)
  BY DEF MayLook
<1>8. CASE nature = "loopback"
  <2>1. rules[1][1]
    BY <1>3, <1>8 DEF LinuxEvidence
  <2> QED BY <1>4, <1>5, <1>7, <1>8, <2>1 DEF KindOf
<1>9. nature # "loopback" => ~rules[1][1]
  BY <1>3, <1>6 DEF LinuxEvidence
<1>10. CASE nature = "wired"
  <2>1. rules[3][1] /\ ~rules[2][1] /\ ~rules[1][1]
    BY <1>3, <1>9, <1>10 DEF LinuxEvidence
  <2>2. \A j \in 1..10 : j < 3 => ~rules[j][1]
    BY <2>1
  <2> QED BY <1>4, <1>5, <1>7, <1>10, <2>1, <2>2 DEF KindOf
<1>11. CASE nature = "wifi"
  <2>1. rules[2][1] /\ ~rules[1][1]
    BY <1>3, <1>9, <1>11 DEF LinuxEvidence
  <2>2. \A j \in 1..10 : j < 2 => ~rules[j][1]
    BY <2>1
  <2> QED BY <1>4, <1>5, <1>7, <1>11, <2>1, <2>2 DEF KindOf
<1>12. CASE nature \in {"bond", "tunnel", "ppp", "modem", "switch"}
  <2>1. link_kind # None /\ ~wireless
    BY <1>12 DEF LinuxEvidence, Vocabulary
  <2>2. ~rules[1][1] /\ ~rules[2][1] /\ ~rules[3][1]
    BY <1>3, <1>9, <1>12, <2>1
  <2>3. CASE nature = "switch"
    <3>1. link_kind = "bridge"
      BY <2>3 DEF LinuxEvidence
    <3>2. rules[7][1] /\ ~rules[4][1] /\ ~rules[5][1] /\ ~rules[6][1]
      BY <1>3, <2>3, <3>1
    <3>3. \A j \in 1..10 : j < 7 => ~rules[j][1]
      BY <2>2, <3>2
    <3>4. KindOf[nature] = "bridge"
      BY <2>3 DEF KindOf, OnLinux
    <3> QED BY <1>4, <1>5, <1>7, <3>2, <3>3, <3>4
  <2>4. nature # "switch" =>
           ~rules[4][1] /\ ~rules[5][1] /\ ~rules[6][1] /\ ~rules[7][1]
    BY <1>3, <1>12 DEF LinuxEvidence
  <2>5. CASE nature \in {"tunnel", "ppp"}
    <3>1. rules[8][1]
      BY <1>3, <2>5 DEF LinuxEvidence, Tunnels
    <3>2. \A j \in 1..10 : j < 8 => ~rules[j][1]
      BY <2>2, <2>4, <2>5
    <3> QED BY <1>4, <1>5, <1>7, <2>5, <3>1, <3>2 DEF KindOf
  <2>6. CASE nature = "bond"
    <3>1. rules[9][1] /\ ~rules[8][1]
      BY <1>3, <2>6 DEF LinuxEvidence, Tunnels
    <3>2. \A j \in 1..10 : j < 9 => ~rules[j][1]
      BY <2>2, <2>4, <2>6, <3>1
    <3> QED BY <1>4, <1>5, <1>7, <2>6, <3>1, <3>2 DEF KindOf
  <2>7. CASE nature = "modem"
    <3>1. ~rules[8][1] /\ ~rules[9][1] /\ ~rules[10][1]
      BY <1>3, <2>7 DEF LinuxEvidence, Tunnels
    <3>2. \A j \in 1..10 : ~rules[j][1]
      BY <2>2, <2>4, <2>7, <3>1
    <3>3. ClassifyInterface(n, link_kind, loopback, wireless) = otherwise
      BY <1>1, <1>2, <3>2, Undecided
    <3> QED BY <1>7, <2>7, <3>3 DEF KindOf, otherwise
  <2> QED BY <1>12, <2>3, <2>5, <2>6, <2>7
<1> QED BY <1>6, <1>8, <1>10, <1>11, <1>12

----------------------------------------------------------------------------
(***************************************************************************)
(* macOS.                                                                  *)
(***************************************************************************)
\* What is attached to each link, and what stays as it was.
Its(listed, flagged, n) == {k \in DOMAIN listed : "DUPLICATED" \notin flagged[k] /\ listed[k].name = n}
Read(listed, flagged) == [k \in DOMAIN listed |-> DarwinAddress(listed[k], flagged[k])]

AttachedTo(all, links, listed, flagged) ==
    /\ DOMAIN links \subseteq DOMAIN all
    /\ \A n \in DOMAIN all : n \in DOMAIN links \/ \E k \in DOMAIN listed : n = listed[k].name
    /\ \A n \in DOMAIN all :
          /\ all[n].name = n
          /\ all[n].addresses = Picked(Read(listed, flagged), Its(listed, flagged, n))
    /\ \A n \in DOMAIN links :
          /\ all[n].index = links[n].index /\ all[n].state = links[n].state
          /\ all[n].kind = links[n].kind

LEMMA Attached ==
  ASSUME NEW links, \A n \in DOMAIN links : DOMAIN links[n] = Fields /\ links[n].name = n,
         NEW listed, NEW flagged, NEW all, all = AttachAddresses(links, listed, flagged)
  PROVE  AttachedTo(all, links, listed, flagged)
<1> DEFINE kept == {k \in DOMAIN listed : "DUPLICATED" \notin flagged[k]}
           Of(n) == {k \in kept : listed[k].name = n}
           Owner(n) == IF n \in DOMAIN links THEN links[n] ELSE Orphan(n, listed[Min(Of(n))].index)
           seq == [k \in DOMAIN listed |-> DarwinAddress(listed[k], flagged[k])]
<1>1. all = [n \in DOMAIN links \cup {listed[k].name : k \in kept} |->
               [Owner(n) EXCEPT !.addresses = Picked(seq, Of(n))]]
  BY DEF AttachAddresses
<1>2. \A n : Of(n) = Its(listed, flagged, n)
  BY DEF Its
<1>3. seq = Read(listed, flagged)
  BY DEF Read
<1>4. \A n \in DOMAIN all : n \in DOMAIN links \/ \E k \in DOMAIN listed : n = listed[k].name
  BY <1>1
<1>5. DOMAIN links \subseteq DOMAIN all
  BY <1>1
<1>6. ASSUME NEW n \in DOMAIN all
      PROVE  /\ all[n].name = n /\ all[n].addresses = Picked(Read(listed, flagged), Its(listed, flagged, n))
             /\ all[n].index = Owner(n).index /\ all[n].state = Owner(n).state
             /\ all[n].kind = Owner(n).kind
  <2>1. PICK o : o = Owner(n)
    OBVIOUS
  <2>2. PICK p : p = Picked(seq, Of(n))
    OBVIOUS
  <2>3. DOMAIN o = Fields /\ o.name = n
    BY <2>1 DEF Orphan, Fields
  <2>4. all[n] = [o EXCEPT !.addresses = p]
    BY <1>1, <1>6, <2>1, <2>2
  <2>5. /\ all[n].name = o.name /\ all[n].index = o.index /\ all[n].state = o.state
        /\ all[n].kind = o.kind /\ all[n].addresses = p
    BY <2>3, <2>4 DEF Fields
  <2>6. p = Picked(Read(listed, flagged), Its(listed, flagged, n))
    BY <1>2, <1>3, <2>2
  <2> HIDE DEF Owner
  <2> QED BY <2>1, <2>3, <2>5, <2>6
<1>7. ASSUME NEW n \in DOMAIN links
      PROVE  /\ all[n].index = links[n].index /\ all[n].state = links[n].state
             /\ all[n].kind = links[n].kind
  <2>1. n \in DOMAIN all /\ Owner(n) = links[n]
    BY <1>5
  <2> HIDE DEF Owner
  <2> QED BY <1>6, <2>1
<1> HIDE DEF Owner
<1> QED BY <1>4, <1>5, <1>6, <1>7 DEF AttachedTo

\* The flags of an address are those of the addresses it may be.
LEMMA FlagsExactly ==
  ASSUME NEW s, NEW record, NEW a \in ToSet(s.addresses),
         \A c \in ToSet(s.addresses) :
            (c.name = record.name /\ Embedded(s, c.name, c.ip) = record.ip) <=> c = a
  PROVE  /\ "TEMPORARY" \in Flags(s, record) <=> a.temporary
         /\ "DUPLICATED" \in Flags(s, record) <=> a.duplicate
<1> DEFINE F(c) == (IF c.temporary THEN {"TEMPORARY"} ELSE {})
                     \cup (IF c.duplicate THEN {"DUPLICATED"} ELSE {})
           its == {c \in ToSet(s.addresses) :
                     c.name = record.name /\ Embedded(s, c.name, c.ip) = record.ip}
<1>1. its = {a}
  OBVIOUS
<1>2. Flags(s, record) = UNION {F(c) : c \in its}
  BY DEF Flags
<1> HIDE DEF its
<1>3. Flags(s, record) = UNION {F(c) : c \in {a}}
  BY <1>1, <1>2
<1>4. Flags(s, record) = F(a)
  BY <1>3
<1> QED BY <1>4

\* What the links of a scene become.
LinksAsHeld(links, l, t) ==
    /\ DOMAIN links = DOMAIN Scene[l].links
    /\ \A n \in DOMAIN links :
          /\ DOMAIN links[n] = Fields /\ links[n].name = n /\ LinkHeld(l, links[n])
          /\ links[n] = LinkFrom(n, DarwinLinks(Scene[l])[n], DarwinTypes(Scene[t], box.hidden))

LEMMA MacLinked ==
  ASSUME Situated, OnMacos, NEW l \in been, NEW t \in been
  PROVE  LinksAsHeld(MacLinks(Scene[l], Scene[t], box.hidden), l, t)
<1> DEFINE links == MacLinks(Scene[l], Scene[t], box.hidden)
<1>1. l \in DOMAIN Scene /\ Plausible(Scene[l]) /\ Numbered(Scene[l])
  BY Surroundings DEF OnMacos
<1>2. DOMAIN DarwinLinks(Scene[l]) = DOMAIN Scene[l].links
  BY DEF DarwinLinks
<1>3. /\ DOMAIN links = DOMAIN Scene[l].links
      /\ \A n \in DOMAIN links :
            links[n] = LinkFrom(n, DarwinLinks(Scene[l])[n], DarwinTypes(Scene[t], box.hidden))
  BY <1>2 DEF MacLinks
<1> HIDE DEF links
<1>4. LinksAsHeld(links, l, t)
  BY <1>1, <1>3, DarwinLinkHeld DEF LinksAsHeld
<1> QED BY <1>4 DEF links

\* An address is bound once to a link.
LEMMA BoundOnceThere ==
  ASSUME Unmistakable(box), NEW s \in box.scenes,
         NEW j \in DOMAIN Scene[s].addresses, NEW k \in DOMAIN Scene[s].addresses,
         Scene[s].addresses[j].name = Scene[s].addresses[k].name,
         Scene[s].addresses[j].ip = Scene[s].addresses[k].ip
  PROVE  j = k
  BY Zenon DEF Unmistakable

\* A link that lasts is the same in every scene.
LEMMA SameLasting ==
  ASSUME Situated, NEW n \in LastingLinks, NEW s \in been
  PROVE  n \in DOMAIN Scene[s].links /\ Scene[s].links[n] = Now.links[n]
  BY Surroundings DEF LastingLinks, Lasting, Situated

LEMMA HeldNow ==
  ASSUME Situated, NEW n \in LastingLinks, NEW s \in been, NEW i, i.name = n, LinkHeld(s, i)
  PROVE  LinkHeld(scene, i)
<1>1. scene \in been /\ Now = Scene[scene]
  BY Surroundings DEF Situated
<1>2. n \in DOMAIN Scene[s].links /\ Scene[s].links[n] = Now.links[n]
  BY SameLasting
<1>3. n \in DOMAIN Scene[scene].links
  BY <1>1, SameLasting
<1> QED BY <1>1, <1>2, <1>3 DEF LinkHeld, IndexIn

\* Each link that lasts is there once, of its kind.
LEMMA MacLinksKept ==
  ASSUME Situated, OnMacos, Unmistakable(box), None \notin Vocabulary,
         NEW l \in been, NEW t \in been, NEW a \in been, NEW f \in been,
         NEW full, full = MacFull(Scene[l], Scene[t], Scene[a], Scene[f], box.hidden)
  PROVE  HasLinks(InOrder(full))
<1>1. PICK links : links = MacLinks(Scene[l], Scene[t], box.hidden)
  OBVIOUS
<1>2. PICK listed : listed = DarwinList(Scene[a])
  OBVIOUS
<1>3. PICK flagged : flagged = MacFlagged(Scene[a], Scene[f], box.hidden)
  OBVIOUS
<1>4. full = AttachAddresses(links, listed, flagged)
  BY <1>1, <1>2, <1>3 DEF MacFull
<1>5. /\ DOMAIN links = DOMAIN Scene[l].links
      /\ \A n \in DOMAIN links :
            /\ DOMAIN links[n] = Fields /\ links[n].name = n /\ LinkHeld(l, links[n])
            /\ links[n] = LinkFrom(n, DarwinLinks(Scene[l])[n], DarwinTypes(Scene[t], box.hidden))
  <2>1. LinksAsHeld(links, l, t)
    BY <1>1, MacLinked
  <2> QED BY <2>1, Zenon DEF LinksAsHeld
<1>6. /\ DOMAIN links \subseteq DOMAIN full
      /\ \A n \in DOMAIN full : full[n].name = n
      /\ \A n \in DOMAIN links :
            /\ full[n].index = links[n].index /\ full[n].state = links[n].state
            /\ full[n].kind = links[n].kind
  <2>1. AttachedTo(full, links, listed, flagged)
    BY <1>4, <1>5, Attached
  <2> QED BY <2>1 DEF AttachedTo
<1>7. (\A j, k \in DOMAIN Names : Names[j] = Names[k] => j = k)
      /\ DOMAIN Scene[l].links \subseteq ToSet(Names)
  BY DEF Unmistakable, Situated
<1>8. /\ Cardinality({i.name : i \in ToSet(InOrder(full))}) = Len(InOrder(full))
      /\ \A n \in DOMAIN full \cap ToSet(Names) : full[n] \in ToSet(InOrder(full))
  <2>1. OrderedAs(InOrder(full), full)
    BY <1>6, <1>7, OrderedOnce
  <2> QED BY <2>1 DEF OrderedAs
<1>9. ASSUME NEW n \in LastingLinks
      PROVE  \E i \in ToSet(InOrder(full)) :
                /\ i.name = n /\ LinkHeld(scene, i) /\ i.kind \in MayLook(Now.links[n].nature)
  <2>1. /\ n \in DOMAIN Scene[l].links /\ Scene[l].links[n] = Now.links[n]
        /\ n \in DOMAIN Scene[t].links /\ Scene[t].links[n] = Now.links[n]
    BY SameLasting
  <2>2. n \in DOMAIN links /\ full[n] \in ToSet(InOrder(full)) /\ full[n].name = n
    BY <1>5, <1>6, <1>7, <1>8, <2>1
  <2>3. LinkHeld(l, full[n])
    BY <1>5, <1>6, <2>2 DEF LinkHeld
  <2>4. LinkHeld(scene, full[n])
    BY <2>2, <2>3, HeldNow
  <2>5. full[n].kind \in MayLook(Now.links[n].nature)
    <3> DEFINE link == Now.links[n]
               nature == link.nature
               told == DarwinLinks(Scene[l])[n]
               types == DarwinTypes(Scene[t], box.hidden)
    <3>1. PICK e : e = [loopback |-> "LOOPBACK" \in told.flags,
                        point_to_point |-> "POINTOPOINT" \in told.flags,
                        sc |-> IF n \in DOMAIN types THEN types[n] ELSE None,
                        ifi_type |-> told.ifi_type]
      OBVIOUS
    <3>2. full[n].kind = ClassifyDarwin(e)
      <4>1. links[n] = LinkFrom(n, told, types)
        BY <1>5, <2>2
      <4> HIDE DEF told, types
      <4>2. LinkFrom(n, told, types).kind = ClassifyDarwin(e)
        BY <3>1 DEF LinkFrom
      <4> QED BY <1>6, <2>2, <4>1, <4>2
    <3>3. nature \in DOMAIN DarwinEvidence /\ link.oper \in {"up", "down", "quiet"}
      BY <2>1, Surroundings DEF Plausible
    <3>4. /\ told.ifi_type = DarwinEvidence[nature].ifi_type
          /\ told.flags = DarwinEvidence[nature].flags
                            \cup [up |-> {"UP", "RUNNING"}, quiet |-> {"UP"}, down |-> {}][link.oper]
      BY <2>1, Zenon DEF DarwinLinks
    <3>5. e.loopback <=> nature = "loopback"
      <4>1. "LOOPBACK" \in told.flags <=> "LOOPBACK" \in DarwinEvidence[nature].flags
        BY <3>3, <3>4
      <4>2. "LOOPBACK" \in DarwinEvidence[nature].flags <=> nature = "loopback"
        BY <3>3 DEF DarwinEvidence
      <4> QED BY <3>1, <4>1, <4>2
    <3>6. e.point_to_point <=> nature \in {"tunnel", "ppp", "modem"}
      <4>1. "POINTOPOINT" \in told.flags <=> "POINTOPOINT" \in DarwinEvidence[nature].flags
        BY <3>3, <3>4
      <4>2. "POINTOPOINT" \in DarwinEvidence[nature].flags <=> nature \in {"tunnel", "ppp", "modem"}
        BY <3>3 DEF DarwinEvidence
      <4> QED BY <3>1, <4>1, <4>2
    <3>7. e.sc = DarwinEvidence[nature].sc \/ (e.sc = None /\ "types" \in box.hidden)
      <4>1. CASE "types" \in box.hidden
        <5>1. DOMAIN types = {}
          BY <4>1 DEF DarwinTypes
        <5> QED BY <3>1, <4>1, <5>1
      <4>2. CASE "types" \notin box.hidden
        <5>1. types = [m \in {m \in DOMAIN Scene[t].links :
                                DarwinEvidence[Scene[t].links[m].nature].sc # None} |->
                         DarwinEvidence[Scene[t].links[m].nature].sc]
          BY <4>2 DEF DarwinTypes
        <5>2. CASE DarwinEvidence[nature].sc = None
          <6>1. n \notin DOMAIN types
            BY <2>1, <5>1, <5>2
          <6> QED BY <3>1, <5>2, <6>1
        <5>3. CASE DarwinEvidence[nature].sc # None
          <6>1. n \in DOMAIN types /\ types[n] = DarwinEvidence[nature].sc
            BY <2>1, <5>1, <5>3, Zenon
          <6> QED BY <3>1, <6>1
        <5> QED BY <5>2, <5>3
      <4> QED BY <4>1, <4>2
    <3>8. e.ifi_type = DarwinEvidence[nature].ifi_type
      BY <3>1, <3>4
    <3> HIDE DEF nature, told, types
    <3>9. ClassifyDarwin(e) \in MayLook(nature)
      BY <3>3, <3>5, <3>6, <3>7, <3>8, DarwinKind
    <3> QED BY <3>2, <3>9 DEF nature
  <2> QED BY <2>2, <2>4, <2>5
<1> QED BY <1>8, <1>9 DEF HasLinks

\* What the list and the flags say of an address that lasts.
LEMMA MacAddressRead ==
  ASSUME Situated, OnMacos, Unmistakable(box), NEW a \in been, NEW f \in been,
         NEW n \in LastingLinks, NEW x \in LastingAddresses(n),
         NEW k \in DOMAIN Scene[a].addresses, x = Scene[a].addresses[k],
         NEW record, record = DarwinList(Scene[a])[k],
         NEW flags, flags = IF "flags" \in box.hidden \/ record.family = "v4" THEN {}
                            ELSE Flags(Scene[f], record)
  PROVE  /\ record.name = n /\ "DUPLICATED" \notin flags
         /\ Says(x, DarwinAddress(record, flags))
         /\ \/ x.temporary = DarwinAddress(record, flags).temporary
            \/ "flags" \in box.hidden
<1>1. /\ x.name = n /\ ~x.duplicate
      /\ \A s \in been : x \in ToSet(Scene[s].addresses)
  BY DEF LastingAddresses
<1>2. /\ \A s \in been : s \in DOMAIN Scene /\ Plausible(Scene[s])
      /\ been \subseteq box.scenes
  BY Surroundings DEF Situated
<1>3. /\ record.name = x.name /\ record.family = x.family /\ record.scope = x.scope
      /\ record.ip = Embedded(Scene[a], x.name, x.ip)
  BY Zenon DEF DarwinList
<1>4. /\ x.ip \in 0..(Embedding - 1) /\ x.temporary \in BOOLEAN /\ x.duplicate \in BOOLEAN
      /\ (x.temporary => x.family = "v6") /\ x.family \in Families
  BY <1>2 DEF Plausible
<1>5. /\ n \in DOMAIN Scene[a].links /\ n \in DOMAIN Scene[f].links
      /\ Scene[a].links[n] = Scene[f].links[n]
  BY SameLasting
<1>6. StripEmbeddedScopeId(record.ip) = x.ip
  BY <1>1, <1>2, <1>3, <1>4, <1>5, EmbeddedStrips
<1>7. Embedded(Scene[f], x.name, x.ip) = record.ip
  BY <1>1, <1>3, <1>5 DEF Embedded
<1>8. ASSUME NEW c \in ToSet(Scene[f].addresses)
      PROVE  (c.name = record.name /\ Embedded(Scene[f], c.name, c.ip) = record.ip) <=> c = x
  <2>1. CASE c = x
    BY <1>3, <1>7, <2>1
  <2>2. ASSUME c.name = record.name, Embedded(Scene[f], c.name, c.ip) = record.ip PROVE c = x
    <3>1. PICK i \in DOMAIN Scene[f].addresses : c = Scene[f].addresses[i]
      BY DEF ToSet
    <3>2. PICK j \in DOMAIN Scene[f].addresses : x = Scene[f].addresses[j]
      BY <1>1 DEF ToSet
    <3>3. c.name \in DOMAIN Scene[f].links /\ c.ip \in 0..(Embedding - 1)
      BY <1>2, <3>1 DEF Plausible
    <3>4. StripEmbeddedScopeId(record.ip) = c.ip
      BY <1>2, <2>2, <3>3, EmbeddedStrips
    <3>5. c.name = x.name /\ c.ip = x.ip
      BY <1>3, <1>6, <2>2, <3>4
    <3>6. i = j
      BY <1>2, <3>1, <3>2, <3>5, BoundOnceThere
    <3> QED BY <3>1, <3>2, <3>6
  <2> QED BY <2>1, <2>2
<1>9. /\ "TEMPORARY" \in Flags(Scene[f], record) <=> x.temporary
      /\ "DUPLICATED" \in Flags(Scene[f], record) <=> x.duplicate
  BY <1>1, <1>8, FlagsExactly
<1>10. "DUPLICATED" \notin flags
  BY <1>1, <1>9
<1>11. "flags" \in box.hidden \/ (x.temporary <=> "TEMPORARY" \in flags)
  BY <1>3, <1>4, <1>9 DEF Families
<1>12. PICK b : b = DarwinAddress(record, flags)
  OBVIOUS
<1>13. Says(x, b) /\ b.temporary = ("TEMPORARY" \in flags)
  BY <1>3, <1>6, <1>12 DEF Says, DarwinAddress
<1>14. x.temporary = b.temporary \/ "flags" \in box.hidden
  BY <1>4, <1>11, <1>13
<1> QED BY <1>1, <1>3, <1>10, <1>12, <1>13, <1>14

\* Each address that lasts is on its link.
LEMMA MacAddressesKept ==
  ASSUME Situated, OnMacos, Unmistakable(box),
         NEW l \in been, NEW t \in been, NEW a \in been, NEW f \in been,
         NEW full, full = MacFull(Scene[l], Scene[t], Scene[a], Scene[f], box.hidden)
  PROVE  HasAddresses(InOrder(full))
<1>1. PICK links : links = MacLinks(Scene[l], Scene[t], box.hidden)
  OBVIOUS
<1>2. PICK listed : listed = DarwinList(Scene[a])
  OBVIOUS
<1>3. PICK flagged : flagged = MacFlagged(Scene[a], Scene[f], box.hidden)
  OBVIOUS
<1>4. full = AttachAddresses(links, listed, flagged)
  BY <1>1, <1>2, <1>3 DEF MacFull
<1>5. \A n \in DOMAIN links : DOMAIN links[n] = Fields /\ links[n].name = n
  <2>1. LinksAsHeld(links, l, t)
    BY <1>1, MacLinked
  <2> QED BY <2>1, Zenon DEF LinksAsHeld
<1>6. \A n \in DOMAIN full :
         /\ full[n].name = n
         /\ full[n].addresses = Picked(Read(listed, flagged), Its(listed, flagged, n))
  <2>1. AttachedTo(full, links, listed, flagged)
    BY <1>4, <1>5, Attached
  <2> QED BY <2>1 DEF AttachedTo
<1>7. \A j, k \in DOMAIN Names : Names[j] = Names[k] => j = k
  BY Zenon DEF Unmistakable
<1>8. \A i \in ToSet(InOrder(full)) : i.name \in DOMAIN full /\ i = full[i.name]
  <2>1. OrderedAs(InOrder(full), full)
    BY <1>6, <1>7, OrderedOnce
  <2> QED BY <2>1 DEF OrderedAs
<1>9. PICK m \in Nat : DOMAIN Scene[a].addresses = 1..m
  BY Surroundings DEF Plausible
<1>10. DOMAIN listed = 1..m
  BY <1>2, <1>9 DEF DarwinList
<1>11. ASSUME NEW i \in ToSet(InOrder(full)), i.name \in LastingLinks,
              NEW x \in LastingAddresses(i.name)
       PROVE  \E b \in ToSet(i.addresses) :
                 /\ Says(x, b)
                 /\ x.temporary = b.temporary \/ (OnMacos /\ "flags" \in box.hidden)
  <2>1. PICK n : n = i.name
    OBVIOUS
  <2>2. n \in LastingLinks /\ x \in LastingAddresses(n)
    BY <1>11, <2>1
  <2>3. i.addresses = Picked(Read(listed, flagged), Its(listed, flagged, n))
    BY <1>6, <1>8, <2>1
  <2>4. x \in ToSet(Scene[a].addresses)
    BY <2>2 DEF LastingAddresses
  <2>5. PICK k \in 1..m : x = Scene[a].addresses[k]
    BY <1>9, <2>4 DEF ToSet
  <2>6. flagged[k] = IF "flags" \in box.hidden \/ listed[k].family = "v4" THEN {}
                     ELSE Flags(Scene[f], listed[k])
    BY <1>2, <1>3, <1>10 DEF MacFlagged
  <2>7. PICK b : b = DarwinAddress(listed[k], flagged[k])
    OBVIOUS
  <2>8. /\ listed[k].name = n /\ "DUPLICATED" \notin flagged[k]
        /\ Says(x, b) /\ (x.temporary = b.temporary \/ "flags" \in box.hidden)
    <3>1. PICK record : record = listed[k]
      OBVIOUS
    <3>2. PICK flags : flags = flagged[k]
      OBVIOUS
    <3>3. record = DarwinList(Scene[a])[k] /\ k \in DOMAIN Scene[a].addresses
      BY <1>2, <1>9, <3>1
    <3>4. flags = IF "flags" \in box.hidden \/ record.family = "v4" THEN {} ELSE Flags(Scene[f], record)
      BY <2>6, <3>1, <3>2
    <3>5. /\ record.name = n /\ "DUPLICATED" \notin flags
          /\ Says(x, DarwinAddress(record, flags))
          /\ \/ x.temporary = DarwinAddress(record, flags).temporary
             \/ "flags" \in box.hidden
      BY <2>2, <2>5, <3>3, <3>4, MacAddressRead, SMTT(30)
    <3> QED BY <2>7, <3>1, <3>2, <3>5
  <2>9. b \in ToSet(i.addresses)
    <3>1. PICK S : S = Its(listed, flagged, n)
      OBVIOUS
    <3>2. S \in SUBSET (1..m) /\ k \in S
      BY <1>10, <2>8, <3>1 DEF Its
    <3>3. PICK seq : seq = Read(listed, flagged)
      OBVIOUS
    <3>4. seq[k] = b
      BY <1>10, <2>7, <3>3 DEF Read
    <3>5. seq[k] \in ToSet(Picked(seq, S))
      BY <3>2, PickedOut
    <3> QED BY <2>3, <3>1, <3>3, <3>4, <3>5
  <2> QED BY <2>8, <2>9
<1> QED BY <1>11 DEF HasAddresses

\* Two lists one after the other have what each has.
LEMMA JoinedHas ==
  ASSUME NEW R, NEW s \in Seq(R), NEW t \in Seq(R)
  PROVE  s \o t \in Seq(R) /\ ToSet(s \o t) = ToSet(s) \cup ToSet(t)
<1>1. /\ s \o t \in Seq(R) /\ Len(s \o t) = Len(s) + Len(t)
      /\ \A i \in 1..(Len(s) + Len(t)) :
            (s \o t)[i] = IF i <= Len(s) THEN s[i] ELSE t[i - Len(s)]
  BY ConcatProperties
<1>2. DOMAIN s = 1..Len(s) /\ DOMAIN t = 1..Len(t) /\ Len(s) \in Nat /\ Len(t) \in Nat
  BY LenProperties
<1>3. DOMAIN (s \o t) = 1..(Len(s) + Len(t))
  BY <1>1, LenProperties
<1>4. ASSUME NEW x \in ToSet(s \o t) PROVE x \in ToSet(s) \cup ToSet(t)
  <2>1. PICK i \in 1..(Len(s) + Len(t)) : x = (s \o t)[i]
    BY <1>3, <1>4 DEF ToSet
  <2>2. CASE i <= Len(s)
    BY <1>1, <1>2, <2>1, <2>2 DEF ToSet
  <2>3. CASE ~(i <= Len(s))
    <3>1. i - Len(s) \in 1..Len(t) /\ x = t[i - Len(s)]
      BY <1>1, <1>2, <2>1, <2>3
    <3> QED BY <1>2, <3>1 DEF ToSet
  <2> QED BY <2>2, <2>3
<1>5. ASSUME NEW x \in ToSet(s) PROVE x \in ToSet(s \o t)
  <2>1. PICK i \in 1..Len(s) : x = s[i]
    BY <1>2, <1>5 DEF ToSet
  <2>2. i \in 1..(Len(s) + Len(t)) /\ (s \o t)[i] = x
    BY <1>1, <1>2, <2>1
  <2> QED BY <1>3, <2>2 DEF ToSet
<1>6. ASSUME NEW x \in ToSet(t) PROVE x \in ToSet(s \o t)
  <2>1. PICK i \in 1..Len(t) : x = t[i]
    BY <1>2, <1>6 DEF ToSet
  <2>2. Len(s) + i \in 1..(Len(s) + Len(t)) /\ (s \o t)[Len(s) + i] = x
    BY <1>1, <1>2, <2>1
  <2> QED BY <1>3, <2>2 DEF ToSet
<1> QED BY <1>1, <1>4, <1>5, <1>6

\* With its metric a route is what it was.
LEMMA ScoredHas ==
  ASSUME NEW table, \E n \in Nat : DOMAIN table = 1..n, NEW metrics, NEW unranked
  PROVE  LET list == Scored(table, metrics, unranked)
             Same(x, r) == /\ x.default = r.default /\ x.gateway = r.gateway
                           /\ x.family = r.family /\ x.index = r.index
                           /\ x.metric = IF r.index \in DOMAIN metrics THEN metrics[r.index]
                                         ELSE unranked
         IN  /\ list \in Seq(ToSet(list))
             /\ \A x \in ToSet(list) : \E r \in ToSet(table) : Same(x, r)
             /\ \A r \in ToSet(table) : \E x \in ToSet(list) : Same(x, r)
<1> DEFINE Same(x, r) == /\ x.default = r.default /\ x.gateway = r.gateway
                         /\ x.family = r.family /\ x.index = r.index
                         /\ x.metric = IF r.index \in DOMAIN metrics THEN metrics[r.index]
                                       ELSE unranked
<1>1. PICK list : list = Scored(table, metrics, unranked)
  OBVIOUS
<1>2. PICK n \in Nat : DOMAIN table = 1..n
  OBVIOUS
<1>3. DOMAIN list = 1..n /\ list = [k \in 1..n |-> list[k]]
  BY <1>1, <1>2 DEF Scored
<1>4. \A k \in 1..n : Same(list[k], table[k])
  BY <1>1, <1>2 DEF Scored
<1> HIDE DEF Same
<1>5. \A k \in 1..n : list[k] \in ToSet(list) /\ table[k] \in ToSet(table)
  BY <1>2, <1>3 DEF ToSet
<1>6. [k \in 1..n |-> list[k]] \in Seq(ToSet(list))
  BY <1>5
<1>7. \A x \in ToSet(list) : \E k \in 1..n : x = list[k]
  BY <1>3 DEF ToSet
<1>8. \A r \in ToSet(table) : \E k \in 1..n : r = table[k]
  BY <1>2 DEF ToSet
<1>9. list \in Seq(ToSet(list))
  BY <1>3, <1>6
<1>10. /\ \A x \in ToSet(list) : \E r \in ToSet(table) : Same(x, r)
       /\ \A r \in ToSet(table) : \E x \in ToSet(list) : Same(x, r)
  BY <1>4, <1>5, <1>7, <1>8
<1> QED BY <1>1, <1>9, <1>10 DEF Same

\* The routes of a snapshot are those of both tables.
BothTables(routes, v, w, metrics) ==
    /\ routes \in Seq(ToSet(routes))
    /\ ToSet(routes) = ToSet(Scored(TableOf(v, "v4"), metrics, Unranked))
                         \cup ToSet(Scored(TableOf(w, "v6"), metrics, Unranked))

LEMMA MacRoutesAre ==
  ASSUME Situated, OnMacos, NEW v \in been, NEW w \in been, NEW metrics, NEW routes,
         routes = (<<>> \o Scored(TableOf(v, "v4"), metrics, Unranked))
                     \o Scored(TableOf(w, "v6"), metrics, Unranked)
  PROVE  BothTables(routes, v, w, metrics)
<1>1. /\ v \in DOMAIN Scene /\ w \in DOMAIN Scene /\ Numbered(Scene[v]) /\ Numbered(Scene[w])
  BY Surroundings DEF OnMacos
<1>2. /\ \E n \in Nat : DOMAIN TableOf(v, "v4") = 1..n
      /\ \E n \in Nat : DOMAIN TableOf(w, "v6") = 1..n
  <2>1. "v4" \in Families /\ "v6" \in Families
    BY DEF Families
  <2> QED BY <1>1, <2>1, TableRead
<1>3. PICK p : p = Scored(TableOf(v, "v4"), metrics, Unranked)
  OBVIOUS
<1>4. PICK q : q = Scored(TableOf(w, "v6"), metrics, Unranked)
  OBVIOUS
<1>5. p \in Seq(ToSet(p)) /\ q \in Seq(ToSet(q))
  BY <1>2, <1>3, <1>4, ScoredHas
<1>6. <<>> \o p = p
  BY <1>5, ConcatEmptySeq
<1>7. routes = p \o q
  BY <1>3, <1>4, <1>6
<1>8. PICK R : R = ToSet(p) \cup ToSet(q)
  OBVIOUS
<1>9. p \in Seq(R) /\ q \in Seq(R)
  BY <1>5, <1>8, SeqMonotonic
<1>10. routes \in Seq(R) /\ ToSet(routes) = R
  <2>1. p \o q \in Seq(R) /\ ToSet(p \o q) = ToSet(p) \cup ToSet(q)
    BY <1>9, JoinedHas
  <2> QED BY <1>7, <1>8, <2>1
<1> QED BY <1>3, <1>4, <1>8, <1>10 DEF BothTables

LEMMA MacRoutesKept ==
  ASSUME Situated, OnMacos, NoFunction(None), NEW v \in been, NEW w \in been, NEW metrics, NEW routes,
         routes = (<<>> \o Scored(TableOf(v, "v4"), metrics, Unranked))
                     \o Scored(TableOf(w, "v6"), metrics, Unranked)
  PROVE  HasRoutes(routes)
<1>1. ToSet(routes) = ToSet(Scored(TableOf(v, "v4"), metrics, Unranked))
                        \cup ToSet(Scored(TableOf(w, "v6"), metrics, Unranked))
  BY MacRoutesAre DEF BothTables
<1>2. ASSUME NEW r \in LastingRoutes
      PROVE  \E q \in ToSet(routes) :
                /\ q.family = r.family /\ q.gateway = r.gateway
                /\ q.index = IndexIn(scene, r.name)
                /\ q.default <=> (r.destination = 0 /\ r.prefix = 0)
  <2>1. /\ r.kind \in {"route", "host"} /\ Lasting(r.name)
        /\ \A s \in been : r \in ToSet(Scene[s].routes)
    BY DEF LastingRoutes
  <2>2. /\ \A s \in been : s \in DOMAIN Scene /\ Plausible(Scene[s]) /\ Numbered(Scene[s])
        /\ scene \in been /\ Now = Scene[scene]
    BY Surroundings DEF OnMacos, Situated
  <2>3. /\ r.family \in Families /\ r.name \in DOMAIN Now.links
    BY <2>1, <2>2 DEF Plausible, ToSet
  <2>4. r.name \in LastingLinks
    BY <2>1, <2>3 DEF LastingLinks
  <2>5. PICK s \in {v, w} : s = IF r.family = "v4" THEN v ELSE w
    OBVIOUS
  <2>6. s \in been
    BY <2>5
  <2>7. PICK x \in ToSet(TableOf(s, r.family)) : Rendered(Scene[s], r, x)
    BY <2>1, <2>2, <2>6, TableKeeps
  <2>8. \E n \in Nat : DOMAIN TableOf(s, r.family) = 1..n
    BY <2>2, <2>3, <2>6, TableRead
  <2>9. PICK q \in ToSet(Scored(TableOf(s, r.family), metrics, Unranked)) :
           /\ q.default = x.default /\ q.gateway = x.gateway
           /\ q.family = x.family /\ q.index = x.index
    BY <2>7, <2>8, ScoredHas
  <2>10. q \in ToSet(routes)
    BY <1>1, <2>3, <2>5, <2>9 DEF Families
  <2>11. q.index = IndexIn(scene, r.name)
    <3>1. Scene[s].links[r.name] = Now.links[r.name] /\ r.name \in DOMAIN Scene[s].links
      BY <2>4, <2>6, SameLasting
    <3>2. Now.links[r.name].index # 0
      BY <2>2, <2>3 DEF Numbered
    <3> QED BY <2>2, <2>7, <2>9, <3>1, <3>2 DEF IndexIn, AdapterIndex, Rendered
  <2> QED BY <2>7, <2>9, <2>10, <2>11 DEF Rendered
<1> QED BY <1>2 DEF HasRoutes

----------------------------------------------------------------------------
(***************************************************************************)
(* Linux.                                                                  *)
(***************************************************************************)
\* What the links of a scene become, by their indices.
MappedAs(links, l) ==
    /\ DOMAIN links \subseteq Nat /\ IsFiniteSet(DOMAIN links)
    /\ \A i \in DOMAIN links :
          /\ links[i].name \in DOMAIN Scene[l].links
          /\ i = Scene[l].links[links[i].name].index
          /\ links[i].admin
          /\ links[i].oper = StateOf[Scene[l].links[links[i].name].oper]
          /\ links[i].kind \in MayLook(Scene[l].links[links[i].name].nature)
    /\ \A n \in DOMAIN Scene[l].links :
          /\ Scene[l].links[n].index \in DOMAIN links
          /\ links[Scene[l].links[n].index].name = n

LEMMA LinuxEvidenceAt ==
  ASSUME NEW s, NEW i \in DOMAIN LinuxLinks(s)
  PROVE  LET link == LinuxLinks(s)[i]
             evidence == LinuxEvidence[s.links[link.name].nature]
         IN  /\ link.link_kind = evidence.kind /\ link.loopback = evidence.loopback
             /\ link.wireless = evidence.wireless
<1> DEFINE link == LinuxLinks(s)[i]
<1>1. i \in {s.links[n].index : n \in DOMAIN s.links}
  BY DEF LinuxLinks
<1>2. PICK name : name = CHOOSE n \in DOMAIN s.links : s.links[n].index = i
  OBVIOUS
<1>3. /\ link.name = name
      /\ link.link_kind = LinuxEvidence[s.links[name].nature].kind
      /\ link.loopback = LinuxEvidence[s.links[name].nature].loopback
      /\ link.wireless = LinuxEvidence[s.links[name].nature].wireless
  BY <1>1, <1>2, Zenon DEF LinuxLinks
<1> QED BY <1>3

LEMMA LinuxMapped ==
  ASSUME Situated, OnLinux, Unmistakable(box), None \notin Vocabulary, NEW l \in been,
         NEW links, links = LinkMap(Scene[l])
  PROVE  MappedAs(links, l)
<1>1. PICK m : m = Scene[l]
  OBVIOUS
<1>2. Plausible(m) /\ l \in box.scenes
  BY <1>1, Surroundings DEF Situated
<1>3. PICK told : told = LinuxLinks(m)
  OBVIOUS
<1>4. DOMAIN links = DOMAIN told /\ DOMAIN told = {m.links[n].index : n \in DOMAIN m.links}
  <2>1. DOMAIN links = DOMAIN told
    BY <1>1, <1>3 DEF LinkMap
  <2>2. DOMAIN told = {m.links[n].index : n \in DOMAIN m.links}
    BY <1>3, Zenon DEF LinuxLinks
  <2> QED BY <2>1, <2>2
<1>5. DOMAIN links \subseteq Nat /\ IsFiniteSet(DOMAIN links)
  BY <1>2, <1>3, <1>4, LinuxLinksFinite
<1>6. \A n \in DOMAIN m.links, k \in DOMAIN m.links : m.links[n].index = m.links[k].index => n = k
  BY <1>1, <1>2, Surroundings DEF Systematic, OnLinux
<1>7. \A n \in DOMAIN m.links :
         /\ n = <<"lo">> => m.links[n].nature = "loopback"
         /\ m.links[n].nature = "wired" => ClassifyByName(n, "ethernet") = "ethernet"
         /\ m.links[n].nature = "switch" => ~IsContainerName(n) /\ ~IsVirtualName(n)
         /\ m.links[n].nature = "modem" => ClassifyByName(n, "other") = "other"
  BY <1>1, <1>2, Zenon DEF Unmistakable, OnLinux
<1>8. ASSUME NEW i \in DOMAIN links
      PROVE  /\ links[i].name \in DOMAIN m.links
             /\ i = m.links[links[i].name].index
             /\ links[i].admin
             /\ links[i].oper = StateOf[m.links[links[i].name].oper]
             /\ links[i].kind \in MayLook(m.links[links[i].name].nature)
  <2>1. PICK link : link = told[i]
    OBVIOUS
  <2>2. /\ links[i].name = link.name /\ links[i].oper = link.oper /\ links[i].admin = link.admin
        /\ links[i].kind = ClassifyInterface(link.name, link.link_kind, link.loopback, link.wireless)
    BY <1>1, <1>3, <1>4, <2>1 DEF LinkMap
  <2>3. /\ link.name \in DOMAIN m.links /\ i = m.links[link.name].index /\ link.admin
        /\ link.oper = StateOf[m.links[link.name].oper]
    BY <1>2, <1>3, <1>4, <2>1, LinuxLinkAt
  <2>4. PICK n, nature, lk, lb, wl : /\ n = link.name /\ nature = m.links[n].nature
                                     /\ lk = link.link_kind /\ lb = link.loopback /\ wl = link.wireless
    OBVIOUS
  <2>5. /\ lk = LinuxEvidence[nature].kind /\ lb = LinuxEvidence[nature].loopback
        /\ wl = LinuxEvidence[nature].wireless
    BY <1>3, <1>4, <2>1, <2>4, LinuxEvidenceAt, SMTT(30)
  <2>6. nature \in DOMAIN LinuxEvidence
    BY <1>2, <2>3, <2>4 DEF Plausible, DarwinEvidence, LinuxEvidence
  <2>7. ClassifyInterface(n, lk, lb, wl) \in MayLook(nature)
    BY <1>7, <2>3, <2>4, <2>5, <2>6, LinuxKind
  <2> QED BY <2>2, <2>3, <2>4, <2>7
<1>9. ASSUME NEW n \in DOMAIN m.links
      PROVE  m.links[n].index \in DOMAIN links /\ links[m.links[n].index].name = n
  <2>1. PICK i : i = m.links[n].index
    OBVIOUS
  <2>2. i \in DOMAIN links
    BY <1>4, <2>1
  <2> QED BY <1>6, <1>8, <2>1, <2>2
<1> QED BY <1>1, <1>5, <1>8, <1>9 DEF MappedAs

\* A link of the map is the one it was in its scene.
LEMMA LinuxLinkHeld ==
  ASSUME Situated, OnLinux, NEW l \in been, NEW links, MappedAs(links, l),
         NEW addresses, NEW k \in DOMAIN links, NEW i, i = InterfaceFrom(links, addresses, k)
  PROVE  LinkHeld(l, i)
<1>1. PICK n : n = links[k].name
  OBVIOUS
<1>2. /\ n \in DOMAIN Scene[l].links /\ k = Scene[l].links[n].index /\ links[k].admin
      /\ links[k].oper = StateOf[Scene[l].links[n].oper]
  BY <1>1 DEF MappedAs
<1>3. /\ i.name = n /\ i.index = k /\ i.state = InterfaceState(links[k].oper, links[k].admin)
  BY <1>1 DEF InterfaceFrom
<1>4. Scene[l].links[n].oper \in {"up", "down", "quiet"} /\ Scene[l].links[n].index # 0
  BY <1>2, Surroundings DEF Plausible, Numbered, OnLinux
<1>5. PICK oper, told, admin :
         oper = Scene[l].links[n].oper /\ told = links[k].oper /\ admin = links[k].admin
  OBVIOUS
<1>6. oper \in {"up", "down", "quiet"} /\ told = StateOf[oper] /\ admin
  BY <1>2, <1>4, <1>5
<1>7. StateOf[oper] \in {"up", "down", "unknown"}
  BY <1>6 DEF StateOf
<1>8. InterfaceState(told, admin) = told
  BY <1>6, <1>7 DEF InterfaceState
<1>9. i.state = StateOf[Scene[l].links[n].oper]
  BY <1>3, <1>5, <1>6, <1>8
<1> QED BY <1>2, <1>3, <1>4, <1>9 DEF LinkHeld, IndexIn, AdapterIndex

LEMMA LinuxInterfacesKept ==
  ASSUME Situated, OnLinux, NEW l \in been, NEW links, MappedAs(links, l), NEW a \in been,
         NEW addresses, addresses = LinuxAddresses(Scene[a]), NEW routes,
         NEW I, I = Collect(links, addresses, routes).interfaces
  PROVE  HasLinks(I) /\ HasAddresses(I)
<1>1. PICK seq : seq = [i \in DOMAIN links |-> InterfaceFrom(links, addresses, i)]
  OBVIOUS
<1>2. I = Picked(seq, DOMAIN links)
  BY <1>1 DEF Collect
<1>3. /\ DOMAIN links \subseteq Nat /\ IsFiniteSet(DOMAIN links)
      /\ \A i \in DOMAIN links :
            /\ links[i].name \in DOMAIN Scene[l].links
            /\ i = Scene[l].links[links[i].name].index
            /\ links[i].kind \in MayLook(Scene[l].links[links[i].name].nature)
      /\ \A n \in DOMAIN Scene[l].links :
            Scene[l].links[n].index \in DOMAIN links /\ links[Scene[l].links[n].index].name = n
  BY Zenon DEF MappedAs
<1>4. \A k \in DOMAIN links : /\ seq[k].name = links[k].name /\ seq[k].kind = links[k].kind
                              /\ seq[k].addresses = AddressesAt(addresses, k)
  BY <1>1 DEF InterfaceFrom
<1>5. \A k \in DOMAIN links : LinkHeld(l, seq[k])
  <2> SUFFICES ASSUME NEW k \in DOMAIN links PROVE LinkHeld(l, seq[k])
    OBVIOUS
  <2>1. PICK i : i = InterfaceFrom(links, addresses, k)
    OBVIOUS
  <2>2. LinkHeld(l, i)
    BY <2>1, LinuxLinkHeld
  <2> QED BY <1>1, <2>1, <2>2
<1>6. \A j, k \in DOMAIN links : seq[j].name = seq[k].name => j = k
  BY <1>3, <1>4
<1>7. PICK S : S = DOMAIN links
  OBVIOUS
<1>8. /\ Cardinality({i.name : i \in ToSet(I)}) = Len(I)
      /\ \A x \in ToSet(I) : \E k \in S : x = seq[k]
      /\ \A k \in S : seq[k] \in ToSet(I)
  <2>1. /\ S \subseteq Nat /\ IsFiniteSet(S) /\ I = Picked(seq, S)
        /\ \A j, k \in S : seq[j].name = seq[k].name => j = k
    BY <1>2, <1>3, <1>6, <1>7
  <2>2. /\ Cardinality({i.name : i \in ToSet(Picked(seq, S))}) = Len(Picked(seq, S))
        /\ \A x \in ToSet(Picked(seq, S)) : \E k \in S : x = seq[k]
        /\ \A k \in S : seq[k] \in ToSet(Picked(seq, S))
    BY <2>1, NamedOnce
  <2> QED BY <2>1, <2>2
<1>9. HasLinks(I)
  <2> SUFFICES ASSUME NEW n \in LastingLinks
               PROVE  \E i \in ToSet(I) :
                         /\ i.name = n /\ LinkHeld(scene, i) /\ i.kind \in MayLook(Now.links[n].nature)
    BY <1>8 DEF HasLinks
  <2>1. n \in DOMAIN Scene[l].links /\ Scene[l].links[n] = Now.links[n]
    BY SameLasting
  <2>2. PICK k : k = Scene[l].links[n].index
    OBVIOUS
  <2>3. k \in S /\ seq[k].name = n /\ seq[k].kind \in MayLook(Now.links[n].nature)
    BY <1>3, <1>4, <1>7, <2>1, <2>2
  <2>4. PICK i : i = seq[k]
    OBVIOUS
  <2>5. LinkHeld(l, i) /\ i.name = n
    BY <1>5, <1>7, <2>3, <2>4
  <2>6. LinkHeld(scene, i)
    BY <2>5, HeldNow
  <2> QED BY <1>8, <2>3, <2>4, <2>6
<1>10. HasAddresses(I)
  <2> SUFFICES ASSUME NEW i \in ToSet(I), i.name \in LastingLinks, NEW x \in LastingAddresses(i.name)
               PROVE  \E b \in ToSet(i.addresses) : Says(x, b) /\ x.temporary = b.temporary
    BY DEF HasAddresses
  <2>1. PICK k \in S : i = seq[k]
    BY <1>8
  <2>2. PICK n : n = i.name
    OBVIOUS
  <2>3. /\ n \in LastingLinks /\ n = links[k].name /\ k = Scene[l].links[n].index
        /\ i.addresses = AddressesAt(addresses, k)
    BY <1>3, <1>4, <1>7, <2>1, <2>2
  <2>4. /\ n \in DOMAIN Scene[a].links /\ Scene[a].links[n] = Scene[l].links[n]
    BY <2>3, SameLasting, Zenon
  <2>5. x.name = n /\ ~x.duplicate /\ x \in ToSet(Scene[a].addresses)
    BY <2>2 DEF LastingAddresses
  <2>6. Plausible(Scene[a])
    BY Surroundings
  <2>7. PICK m \in Nat : DOMAIN Scene[a].addresses = 1..m
    BY <2>6 DEF Plausible
  <2>8. PICK j \in 1..m : x = Scene[a].addresses[j]
    BY <2>5, <2>7 DEF ToSet
  <2>9. x.temporary \in BOOLEAN /\ (x.temporary => x.family = "v6")
    BY <2>6, <2>7, <2>8 DEF Plausible
  <2>10. DOMAIN addresses = 1..m
    BY <2>7, Zenon DEF LinuxAddresses
  <2>11. PICK y : y = addresses[j]
    OBVIOUS
  <2>12. /\ y.index = k /\ y.ip = x.ip /\ y.family = x.family /\ y.scope = x.scope
         /\ y.secondary = x.temporary /\ y.dadfailed = x.duplicate
    BY <2>3, <2>4, <2>5, <2>7, <2>8, <2>11, Zenon DEF LinuxAddresses
  <2>13. PICK read : read = [d \in DOMAIN addresses |-> AddressFrom(addresses[d])]
    OBVIOUS
  <2>14. PICK T : T = {d \in DOMAIN addresses : addresses[d].index = k /\ ~addresses[d].dadfailed}
    OBVIOUS
  <2>15. T \in SUBSET (1..m) /\ j \in T
    BY <2>5, <2>10, <2>11, <2>12, <2>14
  <2>16. i.addresses = Picked(read, T)
    BY <2>3, <2>13, <2>14, Zenon DEF AddressesAt
  <2>17. read[j] \in ToSet(i.addresses)
    <3>1. read[j] \in ToSet(Picked(read, T))
      BY <2>15, PickedOut
    <3> QED BY <2>16, <3>1
  <2>18. PICK b : b = AddressFrom(y)
    OBVIOUS
  <2>19. read[j] = b
    BY <2>10, <2>11, <2>13, <2>18
  <2>20. Says(x, b) /\ x.temporary = b.temporary
    BY <2>9, <2>12, <2>18 DEF AddressFrom, Says
  <2> QED BY <2>17, <2>19, <2>20
<1> QED BY <1>9, <1>10

\* The scene the routes of a family were dumped in, the first dump in one, the
\* second in another.
DumpedIn(fam, v, w) == IF fam = "v4" THEN v ELSE w

\* A route of a scene as the snapshot tells it, with the metric the system gives.
Tells(s, r, metric, q) ==
    /\ q.family = r.family /\ q.gateway = r.gateway /\ q.index = IndexIn(s, r.name)
    /\ q.metric = metric
    /\ q.default <=> (r.destination = 0 /\ r.prefix = 0)

Leads(r) == r.kind \in {"route", "host"}

\* The rows of a dump are the routes of its scene.
RowsOf(rows, s, fam) ==
    /\ rows \in Seq(ToSet(rows))
    /\ \A y \in ToSet(rows) : \E r \in ToSet(Scene[s].routes) :
          /\ r.family = fam /\ r.kind \in DOMAIN RouteFlags
          /\ y = RouteRow(Scene[s].links[r.name], r)
    /\ \A r \in ToSet(Scene[s].routes) :
          r.family = fam /\ Leads(r) => RouteRow(Scene[s].links[r.name], r) \in ToSet(rows)

LEMMA LinuxRowsAre ==
  ASSUME NEW s, Plausible(Scene[s]), NEW fam
  PROVE  RowsOf(LinuxRoutes(Scene[s], fam), s, fam)
<1>1. PICK m : m = Scene[s]
  OBVIOUS
<1>2. PICK seq : seq = [k \in DOMAIN m.routes |-> RouteRow(m.links[m.routes[k].name], m.routes[k])]
  OBVIOUS
<1>3. PICK S : S = {k \in DOMAIN m.routes : /\ m.routes[k].family = fam
                                            /\ m.routes[k].kind \notin {"neighbour", "arp"}}
  OBVIOUS
<1>4. PICK n \in Nat : DOMAIN m.routes = 1..n
  BY <1>1 DEF Plausible
<1>5. S \in SUBSET (1..n)
  BY <1>3, <1>4
<1>6. PICK rows : rows = Picked(seq, S)
  OBVIOUS
<1>7. rows = LinuxRoutes(Scene[s], fam)
  BY <1>1, <1>2, <1>3, <1>6 DEF LinuxRoutes
<1>8. /\ \A x \in ToSet(rows) : \E k \in S : x = seq[k]
      /\ \A k \in S : seq[k] \in ToSet(rows)
  BY <1>5, <1>6, PickedOut
<1>9. rows \in Seq(ToSet(rows))
  <2>1. Picked(seq, S) \in Seq(ToSet(rows))
    BY <1>5, <1>8, PickedIsList
  <2> QED BY <1>6, <2>1
<1>10. ASSUME NEW y \in ToSet(rows)
       PROVE  \E r \in ToSet(m.routes) : /\ r.family = fam /\ r.kind \in DOMAIN RouteFlags
                                         /\ y = RouteRow(m.links[r.name], r)
  <2>1. PICK k \in S : y = seq[k]
    BY <1>8
  <2>2. PICK r : r = m.routes[k]
    OBVIOUS
  <2>3. k \in DOMAIN m.routes /\ r.family = fam
    BY <1>3, <2>2
  <2>4. r \in ToSet(m.routes) /\ r.kind \in DOMAIN RouteFlags
    BY <1>1, <2>2, <2>3 DEF ToSet, Plausible
  <2>5. y = RouteRow(m.links[r.name], r)
    BY <1>2, <2>1, <2>2, <2>3
  <2> QED BY <2>3, <2>4, <2>5
<1>11. ASSUME NEW r \in ToSet(m.routes), r.family = fam, Leads(r)
       PROVE  RouteRow(m.links[r.name], r) \in ToSet(rows)
  <2>1. PICK k \in DOMAIN m.routes : r = m.routes[k]
    BY DEF ToSet
  <2>2. k \in S
    BY <1>3, <1>11, <2>1 DEF Leads
  <2>3. seq[k] = RouteRow(m.links[r.name], r)
    BY <1>2, <2>1
  <2> QED BY <1>8, <2>2, <2>3
<1> QED BY <1>1, <1>7, <1>9, <1>10, <1>11 DEF RowsOf

\* The routes of one family that lead somewhere are collected.
CollectedAs(list, routes, fam) ==
    /\ list \in Seq(ToSet(list))
    /\ \A q \in ToSet(list) : \E y \in ToSet(routes) :
          y.type = "unicast" /\ y.family = fam /\ q = NetlinkRoute(y)
    /\ \A y \in ToSet(routes) :
          y.type = "unicast" /\ y.family = fam => NetlinkRoute(y) \in ToSet(list)

LEMMA OneFamilyCollected ==
  ASSUME NEW routes, \E n \in Nat : DOMAIN routes = 1..n, NEW fam
  PROVE  CollectedAs(CollectRoutes(routes, fam), routes, fam)
<1>1. PICK seq : seq = [k \in DOMAIN routes |-> NetlinkRoute(routes[k])]
  OBVIOUS
<1>2. PICK S : S = {k \in DOMAIN routes : routes[k].type = "unicast" /\ routes[k].family = fam}
  OBVIOUS
<1>3. PICK n \in Nat : DOMAIN routes = 1..n
  OBVIOUS
<1>4. S \in SUBSET (1..n)
  BY <1>2, <1>3
<1>5. PICK list : list = Picked(seq, S)
  OBVIOUS
<1>6. list = CollectRoutes(routes, fam)
  BY <1>1, <1>2, <1>5 DEF CollectRoutes
<1>7. /\ \A x \in ToSet(list) : \E k \in S : x = seq[k]
      /\ \A k \in S : seq[k] \in ToSet(list)
  BY <1>4, <1>5, PickedOut
<1>8. list \in Seq(ToSet(list))
  <2>1. Picked(seq, S) \in Seq(ToSet(list))
    BY <1>4, <1>7, PickedIsList
  <2> QED BY <1>5, <2>1
<1>9. ASSUME NEW q \in ToSet(list)
      PROVE  \E y \in ToSet(routes) : y.type = "unicast" /\ y.family = fam /\ q = NetlinkRoute(y)
  <2>1. PICK k \in S : q = seq[k]
    BY <1>7
  <2>2. /\ routes[k].type = "unicast" /\ routes[k].family = fam /\ q = NetlinkRoute(routes[k])
        /\ routes[k] \in ToSet(routes)
    BY <1>1, <1>2, <2>1 DEF ToSet
  <2> QED BY <2>2
<1>10. ASSUME NEW y \in ToSet(routes), y.type = "unicast", y.family = fam
       PROVE  NetlinkRoute(y) \in ToSet(list)
  <2>1. PICK k \in DOMAIN routes : y = routes[k]
    BY DEF ToSet
  <2>2. k \in S /\ seq[k] = NetlinkRoute(y)
    BY <1>1, <1>2, <1>10, <2>1
  <2> QED BY <1>7, <2>2
<1> QED BY <1>6, <1>8, <1>9, <1>10 DEF CollectedAs

\* The routes of a snapshot are those of the scenes they were dumped in, each with
\* the metric it has there.
ToldOf(R, v, w, metric) ==
    /\ R \in Seq(ToSet(R))
    /\ \A q \in ToSet(R) :
          /\ q.family \in Families
          /\ \E r \in ToSet(Scene[DumpedIn(q.family, v, w)].routes) :
                /\ Leads(r)
                /\ Tells(DumpedIn(q.family, v, w), r, metric[DumpedIn(q.family, v, w)][r], q)
    /\ \A fam \in Families : \A r \in ToSet(Scene[DumpedIn(fam, v, w)].routes) :
          r.family = fam /\ Leads(r) =>
             \E q \in ToSet(R) : Tells(DumpedIn(fam, v, w), r, metric[DumpedIn(fam, v, w)][r], q)

RouteMetric == [s \in been |-> [r \in ToSet(Scene[s].routes) |-> r.metric]]

LEMMA ToldAtRest ==
  ASSUME NEW R, R \in Seq(ToSet(R)), NEW metric,
         \A q \in ToSet(R) :
            /\ q.family \in Families
            /\ \E r \in ToSet(Scene[scene].routes) : Leads(r) /\ Tells(scene, r, metric[scene][r], q),
         \A fam \in Families : \A r \in ToSet(Scene[scene].routes) : r.family = fam /\ Leads(r) =>
            \E q \in ToSet(R) : Tells(scene, r, metric[scene][r], q)
  PROVE  ToldOf(R, scene, scene, metric)
<1>1. \A f : DumpedIn(f, scene, scene) = scene
  BY DEF DumpedIn
<1>2. ASSUME NEW q \in ToSet(R)
      PROVE  /\ q.family \in Families
             /\ \E r \in ToSet(Scene[DumpedIn(q.family, scene, scene)].routes) :
                   /\ Leads(r)
                   /\ Tells(DumpedIn(q.family, scene, scene), r,
                            metric[DumpedIn(q.family, scene, scene)][r], q)
  <2>1. PICK s : s = DumpedIn(q.family, scene, scene)
    OBVIOUS
  <2>2. s = scene
    BY <1>1, <2>1
  <2> QED BY <2>1, <2>2
<1>3. ASSUME NEW f \in Families
      PROVE  \A r \in ToSet(Scene[DumpedIn(f, scene, scene)].routes) : r.family = f /\ Leads(r) =>
                \E q \in ToSet(R) :
                   Tells(DumpedIn(f, scene, scene), r, metric[DumpedIn(f, scene, scene)][r], q)
  <2>1. PICK s : s = DumpedIn(f, scene, scene)
    OBVIOUS
  <2>2. s = scene
    BY <1>1, <2>1
  <2> QED BY <2>1, <2>2
<1> QED BY <1>2, <1>3 DEF ToldOf

LEMMA LinuxRoutesAre ==
  ASSUME Situated, OnLinux, NEW v \in been, NEW w \in been, NEW links, NEW addresses, NEW rows,
         rows = (<<>> \o LinuxRoutes(Scene[v], "v4")) \o LinuxRoutes(Scene[w], "v6"),
         NEW R, R = Collect(links, addresses, rows).routes
  PROVE  ToldOf(R, v, w, RouteMetric)
<1>1. PICK p, q : p = LinuxRoutes(Scene[v], "v4") /\ q = LinuxRoutes(Scene[w], "v6")
  OBVIOUS
<1>2. RowsOf(p, v, "v4") /\ RowsOf(q, w, "v6")
  BY <1>1, LinuxRowsAre, Surroundings
<1>3. p \in Seq(ToSet(p)) /\ q \in Seq(ToSet(q))
  BY <1>2 DEF RowsOf
<1>4. rows = p \o q
  BY <1>1, <1>3, ConcatEmptySeq
<1>5. PICK T : T = ToSet(p) \cup ToSet(q)
  OBVIOUS
<1>6. p \in Seq(T) /\ q \in Seq(T)
  BY <1>3, <1>5, SeqMonotonic
<1>7. rows \in Seq(T) /\ ToSet(rows) = T
  <2>1. p \o q \in Seq(T) /\ ToSet(p \o q) = ToSet(p) \cup ToSet(q)
    BY <1>6, JoinedHas
  <2> QED BY <1>4, <1>5, <2>1
<1>8. \E n \in Nat : DOMAIN rows = 1..n
  BY <1>7, LenProperties
<1>9. PICK a, b : a = CollectRoutes(rows, "v4") /\ b = CollectRoutes(rows, "v6")
  OBVIOUS
<1>10. CollectedAs(a, rows, "v4") /\ CollectedAs(b, rows, "v6")
  BY <1>8, <1>9, OneFamilyCollected
<1>11. R = a \o b
  BY <1>9 DEF Collect
<1>12. a \in Seq(ToSet(a)) /\ b \in Seq(ToSet(b))
  BY <1>10 DEF CollectedAs
<1>13. PICK U : U = ToSet(a) \cup ToSet(b)
  OBVIOUS
<1>14. a \in Seq(U) /\ b \in Seq(U)
  BY <1>12, <1>13, SeqMonotonic
<1>15. R \in Seq(U) /\ ToSet(R) = U
  <2>1. a \o b \in Seq(U) /\ ToSet(a \o b) = ToSet(a) \cup ToSet(b)
    BY <1>14, JoinedHas
  <2> QED BY <1>11, <1>13, <2>1
<1>16. R \in Seq(ToSet(R))
  BY <1>15
<1>17. \A x \in ToSet(R) : \E fam \in Families : \E y \in ToSet(rows) :
          y.type = "unicast" /\ y.family = fam /\ x = NetlinkRoute(y)
  BY <1>10, <1>13, <1>15 DEF CollectedAs, Families
<1>18. \A y \in ToSet(rows) : y.type = "unicast" /\ y.family \in Families => NetlinkRoute(y) \in ToSet(R)
  BY <1>10, <1>13, <1>15 DEF CollectedAs, Families
<1>19. ASSUME NEW s \in been, NEW r \in ToSet(Scene[s].routes), NEW y,
              y = RouteRow(Scene[s].links[r.name], r)
       PROVE  /\ y.family = r.family /\ Tells(s, r, RouteMetric[s][r], NetlinkRoute(y))
              /\ y.type = IF Leads(r) THEN "unicast" ELSE r.kind
  <2>1. Plausible(Scene[s]) /\ Numbered(Scene[s])
    BY Surroundings DEF OnLinux
  <2>2. r.name \in DOMAIN Scene[s].links
    BY <2>1 DEF Plausible, ToSet
  <2>3. IndexIn(s, r.name) = Scene[s].links[r.name].index
    BY <2>1, <2>2 DEF Numbered, IndexIn, AdapterIndex
  <2>4. PICK link : link = Scene[s].links[r.name]
    OBVIOUS
  <2>5. /\ y.type = IF Leads(r) THEN "unicast" ELSE r.kind
        /\ y.default <=> (r.destination = 0 /\ r.prefix = 0)
        /\ y.family = r.family /\ y.index = link.index /\ y.metric = r.metric
        /\ y.gateway = r.gateway
    BY <1>19, <2>4 DEF RouteRow, Leads
  <2>6. PICK x : x = NetlinkRoute(y)
    OBVIOUS
  <2>7. /\ x.default = y.default /\ x.family = y.family /\ x.index = y.index
        /\ x.metric = y.metric /\ x.gateway = y.gateway
    BY <2>6 DEF NetlinkRoute
  <2> QED BY <2>3, <2>4, <2>5, <2>6, <2>7 DEF Tells, RouteMetric
<1>20. ASSUME NEW x \in ToSet(R)
       PROVE  /\ x.family \in Families
              /\ \E r \in ToSet(Scene[DumpedIn(x.family, v, w)].routes) :
                    /\ Leads(r)
                    /\ Tells(DumpedIn(x.family, v, w), r, RouteMetric[DumpedIn(x.family, v, w)][r], x)
  <2>1. PICK fam \in Families : \E y \in ToSet(rows) :
           y.type = "unicast" /\ y.family = fam /\ x = NetlinkRoute(y)
    BY <1>17
  <2>2. PICK y \in ToSet(rows) : y.type = "unicast" /\ y.family = fam /\ x = NetlinkRoute(y)
    BY <2>1
  <2>3. PICK s \in been, own \in Families :
           /\ s = DumpedIn(own, v, w)
           /\ \E r \in ToSet(Scene[s].routes) :
                 /\ r.family = own /\ r.kind \in DOMAIN RouteFlags
                 /\ y = RouteRow(Scene[s].links[r.name], r)
    <3>1. CASE y \in ToSet(p)
      <4>1. "v4" \in Families /\ v = DumpedIn("v4", v, w)
        BY DEF Families, DumpedIn
      <4> QED BY <1>2, <3>1, <4>1 DEF RowsOf
    <3>2. CASE y \in ToSet(q)
      <4>1. "v6" \in Families /\ w = DumpedIn("v6", v, w)
        BY DEF Families, DumpedIn
      <4> QED BY <1>2, <3>2, <4>1 DEF RowsOf
    <3> QED BY <1>5, <1>7, <3>1, <3>2
  <2>4. PICK r \in ToSet(Scene[s].routes) :
           /\ r.family = own /\ r.kind \in DOMAIN RouteFlags
           /\ y = RouteRow(Scene[s].links[r.name], r)
    BY <2>3
  <2>5. /\ y.family = r.family /\ Tells(s, r, RouteMetric[s][r], x)
        /\ y.type = IF Leads(r) THEN "unicast" ELSE r.kind
    BY <1>19, <2>2, <2>4
  <2>6. Leads(r)
    <3>1. r.kind # "unicast"
      BY <2>4 DEF RouteFlags
    <3> QED BY <2>2, <2>5, <3>1
  <2>7. x.family = own
    BY <2>4, <2>5 DEF Tells
  <2> QED BY <2>3, <2>5, <2>6, <2>7
<1>21. ASSUME NEW fam \in Families, NEW r \in ToSet(Scene[DumpedIn(fam, v, w)].routes),
              r.family = fam, Leads(r)
       PROVE  \E x \in ToSet(R) : Tells(DumpedIn(fam, v, w), r, RouteMetric[DumpedIn(fam, v, w)][r], x)
  <2>1. PICK s : s = DumpedIn(fam, v, w)
    OBVIOUS
  <2>2. s \in been /\ r \in ToSet(Scene[s].routes)
    BY <2>1 DEF DumpedIn
  <2>3. PICK y : y = RouteRow(Scene[s].links[r.name], r)
    OBVIOUS
  <2>4. y \in ToSet(rows)
    <3>1. CASE fam = "v4"
      <4>1. s = v
        BY <2>1, <3>1 DEF DumpedIn
      <4> QED BY <1>2, <1>5, <1>7, <1>21, <2>2, <2>3, <3>1, <4>1 DEF RowsOf
    <3>2. CASE fam = "v6"
      <4>1. s = w
        BY <2>1, <3>2 DEF DumpedIn
      <4> QED BY <1>2, <1>5, <1>7, <1>21, <2>2, <2>3, <3>2, <4>1 DEF RowsOf
    <3> QED BY <3>1, <3>2 DEF Families
  <2>5. /\ y.family = r.family /\ Tells(s, r, RouteMetric[s][r], NetlinkRoute(y))
        /\ y.type = "unicast"
    BY <1>19, <1>21, <2>2, <2>3
  <2>6. NetlinkRoute(y) \in ToSet(R)
    BY <1>18, <1>21, <2>4, <2>5
  <2> QED BY <2>1, <2>5, <2>6
<1> QED BY <1>16, <1>20, <1>21 DEF ToldOf

\* What is told of the routes that last is that they are there.
LEMMA ToldKept ==
  ASSUME Situated, NEW v \in been, NEW w \in been, NEW metric, NEW R,
         ToldOf(R, v, w, metric)
  PROVE  HasRoutes(R)
<1>1. ASSUME NEW r \in LastingRoutes
      PROVE  \E q \in ToSet(R) :
                /\ q.family = r.family /\ q.gateway = r.gateway
                /\ q.index = IndexIn(scene, r.name)
                /\ q.default <=> (r.destination = 0 /\ r.prefix = 0)
  <2>1. /\ r.kind \in {"route", "host"} /\ Lasting(r.name) /\ r \in ToSet(Now.routes)
        /\ \A s \in been : r \in ToSet(Scene[s].routes)
    BY DEF LastingRoutes
  <2>2. scene \in been /\ Now = Scene[scene] /\ Plausible(Scene[scene])
    BY Surroundings DEF Situated
  <2>3. r.family \in Families /\ r.name \in DOMAIN Now.links
    BY <2>1, <2>2 DEF Plausible, ToSet
  <2>4. r.name \in LastingLinks
    BY <2>1, <2>3 DEF LastingLinks
  <2>5. PICK s : s = DumpedIn(r.family, v, w)
    OBVIOUS
  <2>6. s \in been
    BY <2>5 DEF DumpedIn
  <2>7. PICK q \in ToSet(R) : Tells(s, r, metric[s][r], q)
    BY <2>1, <2>3, <2>5, <2>6 DEF ToldOf, Leads
  <2>8. IndexIn(s, r.name) = IndexIn(scene, r.name)
    BY <2>2, <2>4, <2>6, SameLasting DEF IndexIn
  <2> QED BY <2>7, <2>8 DEF Tells
<1> QED BY <1>1 DEF HasRoutes

----------------------------------------------------------------------------
(***************************************************************************)
(* Windows.                                                                *)
(***************************************************************************)
\* What the rows say of each link of their scene.
NdisOf(ndis, nature) ==
    LET evidence == WindowsEvidence[nature].ndis
    IN  /\ ndis # None
        /\ ndis.access_type = evidence.access_type
        /\ ndis.physical_medium = evidence.physical_medium
        /\ ndis.media_type = evidence.media_type
        /\ \/ ndis.hardware_interface = evidence.hardware_interface
           \/ "hardware" \in box.hidden /\ ndis.hardware_interface \in {TRUE, None}

RowsAsHeld(ndis, a) ==
    \A n \in DOMAIN Scene[a].links :
        /\ Scene[a].links[n].luid \in DOMAIN ndis
        /\ NdisOf(ndis[Scene[a].links[n].luid], Scene[a].links[n].nature)

\* One row, with the hardware bit as it is, misread or not trusted.
LEMMA OneRowHeld ==
  ASSUME NoFunction(None), NEW nature, NEW row,
         row = IF "hardware" \in box.hidden
               THEN [WindowsEvidence[nature].ndis EXCEPT !.hardware_interface = TRUE]
               ELSE WindowsEvidence[nature].ndis,
         nature \in DOMAIN WindowsEvidence,
         NEW trusted \in BOOLEAN, "hardware" \in box.hidden \/ trusted,
         NEW ndis, ndis = IF trusted THEN row ELSE [row EXCEPT !.hardware_interface = None]
  PROVE  NdisOf(ndis, nature)
<1>1. PICK e : e = WindowsEvidence[nature].ndis
  OBVIOUS
<1>2. /\ DOMAIN e = {"access_type", "physical_medium", "media_type", "hardware_interface"}
      /\ e = [x \in DOMAIN e |-> e[x]]
  BY <1>1 DEF WindowsEvidence, Row
<1>3. /\ DOMAIN row = DOMAIN e /\ row = [x \in DOMAIN row |-> row[x]]
      /\ row.access_type = e.access_type /\ row.physical_medium = e.physical_medium
      /\ row.media_type = e.media_type
      /\ row.hardware_interface = IF "hardware" \in box.hidden THEN TRUE ELSE e.hardware_interface
  <2>1. row = IF "hardware" \in box.hidden THEN [e EXCEPT !.hardware_interface = TRUE] ELSE e
    BY <1>1
  <2>2. CASE "hardware" \in box.hidden
    BY <1>2, <2>1, <2>2
  <2>3. CASE "hardware" \notin box.hidden
    BY <1>2, <2>1, <2>3
  <2> QED BY <2>2, <2>3
<1>4. /\ ndis = [x \in DOMAIN ndis |-> ndis[x]]
      /\ ndis.access_type = e.access_type /\ ndis.physical_medium = e.physical_medium
      /\ ndis.media_type = e.media_type
      /\ ndis.hardware_interface = IF trusted THEN row.hardware_interface ELSE None
  <2>1. CASE trusted
    BY <1>3, <2>1
  <2>2. CASE ~trusted
    BY <1>2, <1>3, <2>2
  <2> QED BY <2>1, <2>2
<1>5. ndis # None
  BY <1>4 DEF NoFunction
<1>6. \/ ndis.hardware_interface = e.hardware_interface
      \/ "hardware" \in box.hidden /\ ndis.hardware_interface \in {TRUE, None}
  BY <1>3, <1>4
<1> QED BY <1>1, <1>4, <1>5, <1>6 DEF NdisOf

LEMMA RowsHeld ==
  ASSUME Situated, box.platform = "windows", NoFunction(None), NEW a \in been,
         NEW ndis, ndis = ByLuid(WindowsRows(Scene[a], box.hidden))
  PROVE  RowsAsHeld(ndis, a)
<1>1. PICK m : m = Scene[a]
  OBVIOUS
<1>2. Plausible(m) /\ a \in box.scenes
  BY <1>1, Surroundings DEF Situated
<1> DEFINE RowAt(n) == [luid |-> m.links[n].luid, type |-> WindowsEvidence[m.links[n].nature].if_type,
                        ndis |-> IF "hardware" \in box.hidden
                                 THEN [WindowsEvidence[m.links[n].nature].ndis
                                         EXCEPT !.hardware_interface = TRUE]
                                 ELSE WindowsEvidence[m.links[n].nature].ndis]
<1>3. PICK rows : rows = WindowsRows(m, box.hidden)
  OBVIOUS
<1>4. rows = {RowAt(n) : n \in DOMAIN m.links}
  BY <1>3, Zenon DEF WindowsRows
<1>5. \A n : /\ RowAt(n).luid = m.links[n].luid
             /\ RowAt(n).type = WindowsEvidence[m.links[n].nature].if_type
             /\ RowAt(n).ndis = IF "hardware" \in box.hidden
                                THEN [WindowsEvidence[m.links[n].nature].ndis
                                        EXCEPT !.hardware_interface = TRUE]
                                ELSE WindowsEvidence[m.links[n].nature].ndis
  OBVIOUS
<1> HIDE DEF RowAt
<1>6. \A n, k \in DOMAIN m.links : m.links[n].luid = m.links[k].luid => n = k
  BY <1>1, <1>2, Surroundings DEF Systematic
<1>7. \A n \in DOMAIN m.links : m.links[n].nature \in DOMAIN WindowsEvidence
  BY <1>2 DEF Plausible, DarwinEvidence, WindowsEvidence
<1>8. PICK trusted \in BOOLEAN : trusted = TrustHardwareBit(rows)
  BY DEF TrustHardwareBit
<1>9. "hardware" \in box.hidden \/ trusted
  <2> SUFFICES ASSUME "hardware" \notin box.hidden, NEW row \in rows, row.type = "SOFTWARE_LOOPBACK"
               PROVE  ~row.ndis.hardware_interface
    BY <1>8 DEF TrustHardwareBit
  <2>1. PICK n \in DOMAIN m.links : row = RowAt(n)
    BY <1>4
  <2>2. PICK nature : nature = m.links[n].nature
    OBVIOUS
  <2>3. /\ nature \in DOMAIN WindowsEvidence /\ WindowsEvidence[nature].if_type = "SOFTWARE_LOOPBACK"
        /\ row.ndis = WindowsEvidence[nature].ndis
    BY <1>5, <1>7, <2>1, <2>2
  <2>4. nature = "loopback"
    BY <2>3 DEF WindowsEvidence
  <2> QED BY <2>3, <2>4 DEF WindowsEvidence, Row
<1>10. ASSUME NEW n \in DOMAIN m.links
       PROVE  m.links[n].luid \in DOMAIN ndis /\ NdisOf(ndis[m.links[n].luid], m.links[n].nature)
  <2>1. PICK luid, nature : luid = m.links[n].luid /\ nature = m.links[n].nature
    OBVIOUS
  <2>2. RowAt(n) \in rows /\ RowAt(n).luid = luid
    BY <1>4, <1>5, <2>1
  <2>3. PICK row : row = CHOOSE r \in rows : r.luid = luid
    OBVIOUS
  <2>4. row \in rows /\ row.luid = luid
    BY <2>2, <2>3
  <2>5. PICK k \in DOMAIN m.links : row = RowAt(k)
    BY <1>4, <2>4
  <2>6. k = n
    BY <1>5, <1>6, <2>1, <2>4, <2>5
  <2>7. luid \in DOMAIN ndis
        /\ ndis[luid] = IF trusted THEN row.ndis ELSE [row.ndis EXCEPT !.hardware_interface = None]
    <3>1. luid \in {r.luid : r \in rows}
      BY <2>2
    <3>2. ndis = ByLuid(rows)
      BY <1>1, <1>3
    <3> QED BY <1>8, <2>3, <3>1, <3>2 DEF ByLuid
  <2>8. PICK held, seen : held = row.ndis /\ seen = ndis[luid]
    OBVIOUS
  <2>9. held = IF "hardware" \in box.hidden
               THEN [WindowsEvidence[nature].ndis EXCEPT !.hardware_interface = TRUE]
               ELSE WindowsEvidence[nature].ndis
    BY <1>5, <2>1, <2>5, <2>6, <2>8
  <2>10. seen = IF trusted THEN held ELSE [held EXCEPT !.hardware_interface = None]
    BY <2>7, <2>8
  <2>11. nature \in DOMAIN WindowsEvidence
    BY <1>7, <2>1
  <2>12. NdisOf(seen, nature)
    BY <1>9, <2>9, <2>10, <2>11, OneRowHeld
  <2> QED BY <2>1, <2>7, <2>8, <2>12
<1> QED BY <1>1, <1>10 DEF RowsAsHeld

\* An address nobody else has is usable.
LEMMA UnicastUsable ==
  ASSUME NoFunction(None), NEW b, b.family \in Families, b.ip \in 0..(Embedding - 1),
         ~b.duplicate, NEW u, u = UnicastRecord(b)
  PROVE  IsUsable(u)
<1>1. u.dad = "Preferred" /\ SockaddrIp(u.sockaddr) = b.ip
  BY UnicastIp DEF UnicastRecord
<1>2. u.sockaddr # None
  BY DEF UnicastRecord, NoFunction
<1>3. b.ip # None
  BY NoneIsNoData
<1> QED BY <1>1, <1>2, <1>3 DEF IsUsable

\* Each address that lasts is among an adapter's.
LEMMA AdapterAddresses ==
  ASSUME Situated, NoFunction(None), NEW l \in been,
         NEW n \in LastingLinks, NEW ndis, NEW i, i = AdapterFrom(AdapterOf(Scene[l], n), ndis),
         NEW x \in LastingAddresses(n)
  PROVE  \E b \in ToSet(i.addresses) : Says(x, b) /\ x.temporary = b.temporary
<1>1. PICK m : m = Scene[l]
  OBVIOUS
<1>2. Plausible(m) /\ x.name = n /\ ~x.duplicate /\ x \in ToSet(m.addresses)
  BY <1>1, Surroundings DEF LastingAddresses
<1>3. PICK adapter : adapter = AdapterOf(m, n)
  OBVIOUS
<1>4. PICK S : S = {k \in DOMAIN m.addresses : m.addresses[k].name = n}
  OBVIOUS
<1>5. PICK records : records = [k \in DOMAIN m.addresses |-> UnicastRecord(m.addresses[k])]
  OBVIOUS
<1>6. adapter.unicast = Picked(records, S)
  BY <1>3, <1>4, <1>5 DEF AdapterOf
<1>7. PICK c \in Nat : DOMAIN m.addresses = 1..c
  BY <1>2 DEF Plausible
<1>8. PICK k \in 1..c : x = m.addresses[k]
  BY <1>2, <1>7 DEF ToSet
<1>9. S \in SUBSET (1..c) /\ k \in S
  BY <1>2, <1>4, <1>7, <1>8
<1>10. PICK u : u = UnicastRecord(x)
  OBVIOUS
<1>11. records[k] = u
  BY <1>5, <1>7, <1>8, <1>10
<1>12. /\ u \in ToSet(adapter.unicast) /\ \E j \in Nat : DOMAIN adapter.unicast = 1..j
  <2>1. /\ records[k] \in ToSet(Picked(records, S))
        /\ \E j \in Nat : DOMAIN Picked(records, S) = 1..j
    BY <1>9, PickedOut
  <2> QED BY <1>6, <1>11, <2>1
<1>13. x.family \in Families /\ x.ip \in 0..(Embedding - 1) /\ x.temporary \in BOOLEAN
  BY <1>2, <1>7, <1>8 DEF Plausible
<1>14. IsUsable(u) /\ SockaddrIp(u.sockaddr) = x.ip
  BY <1>2, <1>10, <1>13, UnicastUsable, UnicastIp
<1>15. PICK j \in Nat : DOMAIN adapter.unicast = 1..j
  BY <1>12
<1>16. PICK d \in 1..j : u = adapter.unicast[d]
  BY <1>12, <1>15 DEF ToSet
<1>17. PICK usable : usable = {e \in DOMAIN adapter.unicast : IsUsable(adapter.unicast[e])}
  OBVIOUS
<1>18. usable \in SUBSET (1..j) /\ d \in usable
  BY <1>14, <1>15, <1>16, <1>17
<1>19. PICK read : read = [e \in DOMAIN adapter.unicast |->
                              LET v == adapter.unicast[e]
                              IN  [ip |-> SockaddrIp(v.sockaddr), family |-> v.sockaddr.family,
                                   scope |-> v.scope, temporary |-> v.suffix = "Random"]]
  OBVIOUS
<1>20. i.addresses = Picked(read, usable)
  <2>1. i.addresses = UsableAddresses(adapter)
    BY <1>1, <1>3 DEF AdapterFrom
  <2> QED BY <1>17, <1>19, <2>1 DEF UsableAddresses
<1>21. read[d] \in ToSet(Picked(read, usable))
  BY <1>18, PickedOut
<1>22. PICK b : b = read[d]
  OBVIOUS
<1>23. /\ b.ip = SockaddrIp(u.sockaddr) /\ b.family = u.sockaddr.family /\ b.scope = u.scope
       /\ b.temporary = (u.suffix = "Random")
  BY <1>15, <1>16, <1>19, <1>22
<1>24. /\ u.sockaddr.family = x.family /\ u.scope = x.scope
       /\ (u.suffix = "Random") = x.temporary
  <2>1. /\ u.sockaddr.family = x.family /\ u.scope = x.scope
        /\ u.suffix = IF x.temporary THEN "Random" ELSE "LinkLayer"
    BY <1>10 DEF UnicastRecord
  <2> QED BY <1>13, <2>1
<1> QED BY <1>14, <1>20, <1>21, <1>22, <1>23, <1>24 DEF Says

\* The walk shows each adapter that has a name, once.
WalkedAs(list, s, ndis) ==
    /\ Cardinality({i.name : i \in ToSet(list)}) = Len(list)
    /\ \A i \in ToSet(list) : /\ i.name \in DOMAIN Scene[s].links
                              /\ i = AdapterFrom(AdapterOf(Scene[s], i.name), ndis)
    /\ \A n \in DOMAIN Scene[s].links : AdapterFrom(AdapterOf(Scene[s], n), ndis) \in ToSet(list)

LEMMA WalkedOnce ==
  ASSUME Situated, Unmistakable(box), NEW s \in been, NEW ndis
  PROVE  WalkedAs(Walk(WindowsAdapters(Scene[s]), ndis, Names), s, ndis)
<1>1. PICK m, adapters : m = Scene[s] /\ adapters = WindowsAdapters(m)
  OBVIOUS
<1>2. /\ \A j, k \in DOMAIN Names : Names[j] = Names[k] => j = k
      /\ DOMAIN m.links \subseteq ToSet(Names) \ {<<>>, None}
  <2>1. s \in box.scenes
    BY DEF Situated
  <2> QED BY <1>1, <2>1, Zenon DEF Unmistakable
<1>3. \A n : AdapterOf(m, n).name = n
  BY DEF AdapterOf
<1>4. Named(adapters) = {AdapterOf(m, n) : n \in DOMAIN m.links}
  <2>1. \A n \in DOMAIN m.links : n # <<>>
    BY <1>2
  <2> QED BY <1>1, <1>3, <2>1 DEF Named, WindowsAdapters
<1> DEFINE Of(name) == CHOOSE a \in Named(adapters) : a.name = name
           shown == {k \in DOMAIN Names : \E a \in Named(adapters) : a.name = Names[k]}
           seq == [k \in shown |-> AdapterFrom(Of(Names[k]), ndis)]
<1>5. Walk(adapters, ndis, Names) = Picked(seq, shown)
  BY DEF Walk
<1>6. shown \subseteq Nat /\ IsFiniteSet(shown)
  <2>1. PICK n \in Nat : DOMAIN Names = 1..n
    BY NamesAreListed
  <2>2. IsFiniteSet(1..n) /\ shown \in SUBSET (1..n)
    BY <2>1, FS_Interval
  <2> HIDE DEF shown
  <2>3. shown \subseteq Nat
    BY <2>2
  <2> QED BY <2>2, <2>3, FS_Subset
<1>7. \A k \in shown : k \in DOMAIN Names /\ Names[k] \in DOMAIN m.links
  BY <1>3, <1>4
<1>8. \A n \in DOMAIN m.links : \E k \in shown : Names[k] = n
  <2> SUFFICES ASSUME NEW n \in DOMAIN m.links PROVE \E k \in shown : Names[k] = n
    OBVIOUS
  <2>1. PICK k \in DOMAIN Names : Names[k] = n
    BY <1>2 DEF ToSet
  <2>2. AdapterOf(m, n) \in Named(adapters) /\ AdapterOf(m, n).name = Names[k]
    BY <1>3, <1>4, <2>1
  <2> QED BY <2>1, <2>2
<1>9. \A k \in shown : seq[k] = AdapterFrom(AdapterOf(m, Names[k]), ndis) /\ seq[k].name = Names[k]
  <2> SUFFICES ASSUME NEW k \in shown
               PROVE  seq[k] = AdapterFrom(AdapterOf(m, Names[k]), ndis) /\ seq[k].name = Names[k]
    OBVIOUS
  <2>1. PICK n : n = Names[k]
    OBVIOUS
  <2>2. n \in DOMAIN m.links
    BY <1>7, <2>1
  <2>3. AdapterOf(m, n) \in Named(adapters) /\ AdapterOf(m, n).name = n
    BY <1>3, <1>4, <2>2
  <2>4. PICK a : a = Of(n)
    OBVIOUS
  <2>5. a \in Named(adapters) /\ a.name = n
    BY <2>3, <2>4
  <2>6. PICK j \in DOMAIN m.links : a = AdapterOf(m, j)
    BY <1>4, <2>5
  <2>7. a = AdapterOf(m, n)
    BY <1>3, <2>5, <2>6
  <2>8. seq[k] = AdapterFrom(a, ndis)
    BY <2>1, <2>4
  <2>9. AdapterFrom(a, ndis).name = n
    BY <2>5 DEF AdapterFrom
  <2> HIDE DEF seq, shown
  <2> QED BY <2>1, <2>7, <2>8, <2>9
<1> HIDE DEF seq, shown
<1>10. \A j, k \in shown : seq[j].name = seq[k].name => j = k
  BY <1>2, <1>7, <1>9
<1>11. /\ Cardinality({i.name : i \in ToSet(Picked(seq, shown))}) = Len(Picked(seq, shown))
       /\ \A x \in ToSet(Picked(seq, shown)) : \E k \in shown : x = seq[k]
       /\ \A k \in shown : seq[k] \in ToSet(Picked(seq, shown))
  BY <1>6, <1>10, NamedOnce
<1>12. PICK list : list = Picked(seq, shown)
  OBVIOUS
<1>13. /\ Cardinality({i.name : i \in ToSet(list)}) = Len(list)
       /\ \A i \in ToSet(list) : /\ i.name \in DOMAIN m.links
                                 /\ i = AdapterFrom(AdapterOf(m, i.name), ndis)
       /\ \A n \in DOMAIN m.links : AdapterFrom(AdapterOf(m, n), ndis) \in ToSet(list)
  BY <1>7, <1>8, <1>9, <1>11, <1>12
<1> QED BY <1>1, <1>5, <1>12, <1>13 DEF WalkedAs

LEMMA WinInterfacesKept ==
  ASSUME Situated, box.platform = "windows", Unmistakable(box), NoFunction(None),
         None \notin BOOLEAN, NEW l \in been, NEW a \in been,
         NEW I, I = WinWalk(Scene[l], Scene[a], box.hidden)
  PROVE  HasLinks(I) /\ HasAddresses(I)
<1>1. PICK ndis : ndis = ByLuid(WindowsRows(Scene[a], box.hidden))
  OBVIOUS
<1>2. RowsAsHeld(ndis, a)
  BY <1>1, RowsHeld
<1>3. WalkedAs(I, l, ndis)
  BY <1>1, WalkedOnce DEF WinWalk
<1>4. HasLinks(I)
  <2> SUFFICES ASSUME NEW n \in LastingLinks
               PROVE  \E i \in ToSet(I) :
                         /\ i.name = n /\ LinkHeld(scene, i) /\ i.kind \in MayLook(Now.links[n].nature)
    BY <1>3 DEF HasLinks, WalkedAs
  <2>1. PICK link : link = Now.links[n]
    OBVIOUS
  <2>2. /\ n \in DOMAIN Scene[l].links /\ Scene[l].links[n] = link
        /\ n \in DOMAIN Scene[a].links /\ Scene[a].links[n] = link
    BY <2>1, SameLasting
  <2>3. PICK adapter, i : adapter = AdapterOf(Scene[l], n) /\ i = AdapterFrom(adapter, ndis)
    OBVIOUS
  <2>4. i \in ToSet(I)
    BY <1>3, <2>2, <2>3 DEF WalkedAs
  <2>5. LinkHeld(l, i)
    BY <2>2, <2>3, AdapterHeld
  <2>6. PICK nature : nature = link.nature
    OBVIOUS
  <2>7. /\ adapter.name = n /\ adapter.luid = link.luid
        /\ adapter.if_type = WindowsEvidence[nature].if_type
        /\ adapter.tunnel_type = WindowsEvidence[nature].tunnel_type
    BY <2>2, <2>3, <2>6 DEF AdapterOf
  <2>8. i.name = n
    BY <2>3, <2>7 DEF AdapterFrom
  <2>9. LinkHeld(scene, i)
    BY <2>5, <2>8, HeldNow
  <2>10. link.luid \in DOMAIN ndis /\ NdisOf(ndis[link.luid], nature)
    BY <1>2, <2>2, <2>6 DEF RowsAsHeld
  <2>11. nature \in DOMAIN WindowsEvidence
    <3>1. Plausible(Scene[l])
      BY Surroundings
    <3> QED BY <2>2, <2>6, <3>1 DEF Plausible, DarwinEvidence, WindowsEvidence
  <2>12. PICK told : told = ndis[link.luid]
    OBVIOUS
  <2>13. PICK e : e = [if_type |-> adapter.if_type, tunnel_type |-> adapter.tunnel_type, ndis |-> told]
    OBVIOUS
  <2>14. i.kind = ClassifyWindows(e)
    <3>1. i.kind = ClassifyWindows([if_type |-> adapter.if_type, tunnel_type |-> adapter.tunnel_type,
                                    ndis |-> IF adapter.luid \in DOMAIN ndis
                                             THEN ndis[adapter.luid] ELSE None])
      BY <2>3 DEF AdapterFrom
    <3> QED BY <2>7, <2>10, <2>12, <2>13, <3>1
  <2>15. WindowsEvidence[nature].tunnel_type = "NONE"
    BY <2>11 DEF WindowsEvidence
  <2>16. /\ e.ndis = told /\ e.if_type = WindowsEvidence[nature].if_type /\ e.tunnel_type = "NONE"
    BY <2>7, <2>13, <2>15
  <2>17. /\ told # None
         /\ told.access_type = WindowsEvidence[nature].ndis.access_type
         /\ told.physical_medium = WindowsEvidence[nature].ndis.physical_medium
         /\ told.media_type = WindowsEvidence[nature].ndis.media_type
         /\ \/ told.hardware_interface = WindowsEvidence[nature].ndis.hardware_interface
            \/ "hardware" \in box.hidden /\ told.hardware_interface \in {TRUE, None}
    BY <2>10, <2>12 DEF NdisOf
  <2>18. ClassifyWindows(e) \in MayLook(nature)
    BY <2>11, <2>16, <2>17, WindowsKind
  <2> QED BY <2>1, <2>4, <2>6, <2>8, <2>9, <2>14, <2>18
<1>5. HasAddresses(I)
  <2> SUFFICES ASSUME NEW i \in ToSet(I), i.name \in LastingLinks, NEW x \in LastingAddresses(i.name)
               PROVE  \E b \in ToSet(i.addresses) : Says(x, b) /\ x.temporary = b.temporary
    BY DEF HasAddresses
  <2>1. PICK n : n = i.name
    OBVIOUS
  <2>2. i = AdapterFrom(AdapterOf(Scene[l], n), ndis)
    BY <1>3, <2>1 DEF WalkedAs
  <2> QED BY <2>1, <2>2, AdapterAddresses
<1> QED BY <1>4, <1>5

\* A route of v as it is read back with what the walk saw.
ReadBack(v, r, links) == RouteFromRow(ForwardRow(Scene[v].links[r.name], r), links)

ReadAs(R, v, links) ==
    /\ R \in Seq(ToSet(R))
    /\ \A q \in ToSet(R) : \E r \in ToSet(Scene[v].routes) : Leads(r) /\ q = ReadBack(v, r, links)
    /\ \A r \in ToSet(Scene[v].routes) : Leads(r) => ReadBack(v, r, links) \in ToSet(R)

LEMMA WinRoutesAre ==
  ASSUME NEW v, Plausible(Scene[v]), NEW links, NEW R, R = WinRoutes(WindowsRoutes(Scene[v]), links)
  PROVE  ReadAs(R, v, links)
<1>1. PICK m, rows : m = Scene[v] /\ rows = WindowsRoutes(m)
  OBVIOUS
<1>2. PICK all : all = [k \in DOMAIN m.routes |-> ForwardRow(m.links[m.routes[k].name], m.routes[k])]
  OBVIOUS
<1>3. PICK S : S = {k \in DOMAIN m.routes : m.routes[k].kind \in {"route", "host", "loop"}}
  OBVIOUS
<1>4. PICK n \in Nat : DOMAIN m.routes = 1..n
  BY <1>1 DEF Plausible
<1>5. S \in SUBSET (1..n) /\ rows = Picked(all, S)
  BY <1>1, <1>2, <1>3, <1>4 DEF WindowsRoutes
<1>6. /\ \E j \in Nat : DOMAIN rows = 1..j
      /\ \A row \in ToSet(rows) : \E k \in S : row = all[k]
      /\ \A k \in S : all[k] \in ToSet(rows)
  <2>1. /\ \E j \in Nat : DOMAIN Picked(all, S) = 1..j
        /\ \A row \in ToSet(Picked(all, S)) : \E k \in S : row = all[k]
        /\ \A k \in S : all[k] \in ToSet(Picked(all, S))
    BY <1>5, PickedOut
  <2> QED BY <1>5, <2>1
<1>7. PICK j \in Nat : DOMAIN rows = 1..j
  BY <1>6
<1>8. PICK read : read = [k \in DOMAIN rows |-> RouteFromRow(rows[k], links)]
  OBVIOUS
<1>9. PICK P : P = {k \in DOMAIN rows : WinReportable(rows[k])}
  OBVIOUS
<1>10. P \in SUBSET (1..j) /\ R = Picked(read, P)
  BY <1>1, <1>7, <1>8, <1>9 DEF WinRoutes
<1>11. /\ \A q \in ToSet(R) : \E k \in P : q = read[k]
       /\ \A k \in P : read[k] \in ToSet(R)
  <2>1. /\ \A q \in ToSet(Picked(read, P)) : \E k \in P : q = read[k]
        /\ \A k \in P : read[k] \in ToSet(Picked(read, P))
    BY <1>10, PickedOut
  <2> QED BY <1>10, <2>1
<1>12. R \in Seq(ToSet(R))
  BY <1>10, <1>11, PickedIsList
<1>13. ASSUME NEW r, NEW row, row = ForwardRow(m.links[r.name], r)
       PROVE  WinReportable(row) <=> r.kind # "loop"
  BY <1>13 DEF ForwardRow, WinReportable
<1>14. ASSUME NEW q \in ToSet(R)
       PROVE  \E r \in ToSet(m.routes) : Leads(r) /\ q = ReadBack(v, r, links)
  <2>1. PICK k \in P : q = read[k]
    BY <1>11
  <2>2. PICK row : row = rows[k]
    OBVIOUS
  <2>3. row \in ToSet(rows) /\ WinReportable(row) /\ q = RouteFromRow(row, links)
    BY <1>8, <1>9, <2>1, <2>2 DEF ToSet
  <2>4. PICK l \in S : row = all[l]
    BY <1>6, <2>3
  <2>5. PICK r : r = m.routes[l]
    OBVIOUS
  <2>6. /\ r \in ToSet(m.routes) /\ r.kind \in {"route", "host", "loop"}
        /\ row = ForwardRow(m.links[r.name], r)
    BY <1>2, <1>3, <2>4, <2>5 DEF ToSet
  <2>7. Leads(r)
    BY <1>13, <2>3, <2>6 DEF Leads
  <2> QED BY <1>1, <2>3, <2>6, <2>7 DEF ReadBack
<1>15. ASSUME NEW r \in ToSet(m.routes), Leads(r)
       PROVE  ReadBack(v, r, links) \in ToSet(R)
  <2>1. PICK l \in DOMAIN m.routes : r = m.routes[l]
    BY DEF ToSet
  <2>2. PICK row : row = ForwardRow(m.links[r.name], r)
    OBVIOUS
  <2>3. l \in S /\ row = all[l]
    BY <1>2, <1>3, <1>15, <2>1, <2>2 DEF Leads
  <2>4. PICK k \in DOMAIN rows : row = rows[k]
    BY <1>6, <2>3 DEF ToSet
  <2>5. WinReportable(row)
    BY <1>13, <1>15, <2>2 DEF Leads
  <2>6. k \in P /\ read[k] = RouteFromRow(row, links)
    BY <1>8, <1>9, <2>4, <2>5
  <2> QED BY <1>1, <1>11, <2>2, <2>6 DEF ReadBack
<1> QED BY <1>1, <1>12, <1>14, <1>15 DEF ReadAs

\* Where the adapter of the route was seen as it is, so is the route.
WinMetric(s, r) == EffectiveMetric(r.metric, Scene[s].links[r.name].metric)

LEMMA ReadBackTells ==
  ASSUME Situated, box.platform = "windows", Unmistakable(box), NEW v \in been, NEW l \in been,
         NEW links, links = LinksByLuid(WindowsAdapters(Scene[l])),
         NEW r \in ToSet(Scene[v].routes), Leads(r),
         r.name \in DOMAIN Scene[l].links, Scene[l].links[r.name] = Scene[v].links[r.name]
  PROVE  Tells(v, r, WinMetric(v, r), ReadBack(v, r, links))
<1>1. PICK name, link : name = r.name /\ link = Scene[v].links[name]
  OBVIOUS
<1>2. PICK row, q : row = ForwardRow(link, r) /\ q = RouteFromRow(row, links)
  OBVIOUS
<1>3. Plausible(Scene[v]) /\ l \in box.scenes
  BY Surroundings DEF Situated
<1>4. /\ r.family \in Families /\ r.prefix \in 0..HostPrefix(r.family)
      /\ r.kind = "host" => r.prefix # 0
      /\ r.gateway \in {None} \cup 1..(Embedding - 1)
  BY <1>3 DEF Plausible, ToSet
<1>5. /\ row.luid = link.luid /\ row.family = r.family /\ row.destination = r.destination
      /\ row.prefix = IF r.kind = "host" THEN 255 ELSE r.prefix
      /\ row.next_hop = IF r.gateway = None THEN 0 ELSE r.gateway
      /\ row.metric = r.metric
  BY <1>2 DEF ForwardRow
<1>6. /\ link.luid \in DOMAIN links
      /\ links[link.luid].index = AdapterIndex(link.index, link.index6)
      /\ links[link.luid].metrics = [v4 |-> link.metric, v6 |-> link.metric]
  <2>1. PICK adapters : adapters = WindowsAdapters(Scene[l])
    OBVIOUS
  <2>2. name # <<>>
    <3>1. DOMAIN Scene[l].links \subseteq ToSet(Names) \ {<<>>, None}
      BY <1>3, Zenon DEF Unmistakable
    <3> QED BY <1>1, <3>1
  <2>3. PICK a : a = AdapterOf(Scene[l], name)
    OBVIOUS
  <2>4. /\ a.name = name /\ a.luid = link.luid /\ a.index = link.index /\ a.index6 = link.index6
        /\ a.metrics = [v4 |-> link.metric, v6 |-> link.metric]
    BY <1>1, <2>3 DEF AdapterOf
  <2>5. a \in Named(adapters)
    BY <1>1, <2>1, <2>2, <2>3, <2>4 DEF Named, WindowsAdapters
  <2>6. PICK c : c = CHOOSE d \in Named(adapters) : d.luid = link.luid
    OBVIOUS
  <2>7. c \in Named(adapters) /\ c.luid = link.luid
    BY <2>4, <2>5, <2>6
  <2>8. PICK n \in DOMAIN Scene[l].links : c = AdapterOf(Scene[l], n)
    BY <2>1, <2>7 DEF Named, WindowsAdapters
  <2>9. c.luid = Scene[l].links[n].luid /\ Scene[l].links[name].luid = link.luid
    BY <1>1, <2>8 DEF AdapterOf
  <2>10. n = name
    BY <1>1, <1>3, <2>7, <2>8, <2>9, Surroundings DEF Systematic
  <2>11. c = a
    BY <2>3, <2>8, <2>10
  <2>12. link.luid \in {d.luid : d \in Named(adapters)}
    BY <2>4, <2>5
  <2>13. /\ link.luid \in DOMAIN links
         /\ links[link.luid] = [index |-> AdapterIndex(c.index, c.index6), metrics |-> c.metrics]
    BY <2>1, <2>6, <2>12 DEF LinksByLuid
  <2> QED BY <2>4, <2>11, <2>13
<1>7. q.index = IndexIn(v, r.name)
  <2>1. q.index = RouteIndex(row, links)
    BY <1>2 DEF RouteFromRow
  <2> QED BY <1>1, <1>5, <1>6, <2>1 DEF RouteIndex, IndexIn
<1>8. q.metric = WinMetric(v, r)
  <2>1. q.metric = EffectiveMetric(row.metric, links[row.luid].metrics[row.family])
    BY <1>2, <1>5, <1>6 DEF RouteFromRow
  <2>2. links[row.luid].metrics[row.family] = link.metric
    BY <1>4, <1>5, <1>6 DEF Families
  <2> QED BY <1>1, <1>5, <2>1, <2>2 DEF WinMetric
<1>9. ClampedPrefix(row.prefix, row.family) = 0 <=> r.prefix = 0
  BY <1>4, <1>5, PrefixRead
<1>10. /\ q.default <=> (r.destination = 0 /\ r.prefix = 0)
       /\ q.family = r.family
  BY <1>2, <1>5, <1>9 DEF RouteFromRow
<1>11. q.gateway = r.gateway
  <2>1. q.gateway = IF row.next_hop = 0 THEN None ELSE row.next_hop
    BY <1>2 DEF RouteFromRow
  <2> QED BY <1>4, <1>5, <2>1
<1> QED BY <1>1, <1>2, <1>7, <1>8, <1>10, <1>11 DEF ReadBack, Tells

LEMMA WinRoutesKept ==
  ASSUME Situated, box.platform = "windows", Unmistakable(box), NEW v \in been, NEW l \in been,
         NEW R, R = WinRoutes(WindowsRoutes(Scene[v]), LinksByLuid(WindowsAdapters(Scene[l])))
  PROVE  HasRoutes(R)
<1>1. PICK links : links = LinksByLuid(WindowsAdapters(Scene[l]))
  OBVIOUS
<1>2. Plausible(Scene[v])
  BY Surroundings
<1>3. ReadAs(R, v, links)
  BY <1>1, <1>2, WinRoutesAre
<1>4. ASSUME NEW r \in LastingRoutes
      PROVE  \E q \in ToSet(R) :
                /\ q.family = r.family /\ q.gateway = r.gateway
                /\ q.index = IndexIn(scene, r.name)
                /\ q.default <=> (r.destination = 0 /\ r.prefix = 0)
  <2>1. Leads(r) /\ Lasting(r.name) /\ r \in ToSet(Now.routes) /\ r \in ToSet(Scene[v].routes)
    BY DEF LastingRoutes, Leads
  <2>2. scene \in been /\ Now = Scene[scene] /\ Plausible(Scene[scene])
    BY Surroundings DEF Situated
  <2>3. r.name \in LastingLinks
    BY <2>1, <2>2 DEF Plausible, ToSet, LastingLinks
  <2>4. /\ r.name \in DOMAIN Scene[l].links /\ Scene[l].links[r.name] = Scene[v].links[r.name]
        /\ Scene[v].links[r.name] = Scene[scene].links[r.name]
    BY <2>2, <2>3, SameLasting
  <2>5. PICK q : q = ReadBack(v, r, links)
    OBVIOUS
  <2>6. q \in ToSet(R)
    BY <1>3, <2>1, <2>5 DEF ReadAs
  <2>7. Tells(v, r, WinMetric(v, r), q)
    BY <1>1, <2>1, <2>4, <2>5, ReadBackTells
  <2>8. IndexIn(v, r.name) = IndexIn(scene, r.name)
    BY <2>4 DEF IndexIn
  <2> QED BY <2>6, <2>7, <2>8 DEF Tells
<1> QED BY <1>4 DEF HasRoutes

----------------------------------------------------------------------------
(***************************************************************************)
(* The default route a system prefers.  Where the metrics a snapshot has   *)
(* tell the costs of the system apart, the route found is a favourite.     *)
(***************************************************************************)
Faithful(metric, fam) ==
    /\ \A r \in Defaults(fam) : metric[scene][r] \in Nat
    /\ \A r, q \in Defaults(fam) :
          Cost(q) < Cost(r) => metric[scene][q] < metric[scene][r]

LEMMA FavouriteFound ==
  ASSUME Situated, NEW metric, NEW s, ToldOf(s.routes, scene, scene, metric), NEW fam \in Families,
         Defaults(fam) # {}, Faithful(metric, fam), \A r \in Defaults(fam) : Cost(r) \in Nat
  PROVE  \E r \in Favourites(fam) : DefaultRouteFor(s, fam).index = IndexIn(scene, r.name)
<1> DEFINE R == s.routes
           at == {k \in DefaultRoutes(s) : R[k].family = fam}
           Less(a, b) == \/ a.metric < b.metric
                         \/ a.metric = b.metric /\ a.index < b.index
           least == {k \in at : \A other \in at : ~Less(R[other], R[k])}
<1>1. Plausible(Scene[scene]) /\ Now = Scene[scene]
  BY Surroundings DEF Situated
<1>2. /\ R \in Seq(ToSet(R))
      /\ \A q \in ToSet(R) : \E r \in ToSet(Now.routes) :
            Leads(r) /\ Tells(scene, r, metric[scene][r], q)
      /\ \A r \in ToSet(Now.routes) : r.family = fam /\ Leads(r) =>
            \E q \in ToSet(R) : Tells(scene, r, metric[scene][r], q)
  <2>1. \A f : DumpedIn(f, scene, scene) = scene
    BY DEF DumpedIn
  <2> QED BY <1>1, <2>1 DEF ToldOf
<1>3. PICK n \in Nat : DOMAIN R = 1..n
  BY <1>2, LenProperties
<1>4. ASSUME NEW r \in ToSet(Now.routes), Leads(r), r.family = fam,
             r.destination = 0, r.prefix = 0
      PROVE  r \in Defaults(fam)
  <2>1. r.kind = "host" => r.prefix # 0
    BY <1>1 DEF Plausible, ToSet
  <2> QED BY <1>4, <2>1 DEF Defaults, Leads
<1>5. ASSUME NEW k \in at
      PROVE  \E r \in Defaults(fam) : /\ R[k].metric = metric[scene][r]
                                      /\ R[k].index = IndexIn(scene, r.name)
  <2>1. k \in DOMAIN R /\ R[k] \in ToSet(R) /\ R[k].default /\ R[k].family = fam
    BY DEF DefaultRoutes, ToSet
  <2>2. PICK r \in ToSet(Now.routes) : Leads(r) /\ Tells(scene, r, metric[scene][r], R[k])
    BY <1>2, <2>1
  <2>3. r \in Defaults(fam)
    BY <1>4, <2>1, <2>2 DEF Tells
  <2> QED BY <2>2, <2>3 DEF Tells
<1>6. ASSUME NEW r \in Defaults(fam)
      PROVE  \E k \in at : R[k].metric = metric[scene][r]
  <2>1. r \in ToSet(Now.routes) /\ Leads(r) /\ r.family = fam /\ r.destination = 0 /\ r.prefix = 0
    BY DEF Defaults, Leads
  <2>2. PICK q \in ToSet(R) : Tells(scene, r, metric[scene][r], q)
    BY <1>2, <2>1
  <2>3. PICK k \in DOMAIN R : q = R[k]
    BY <2>2 DEF ToSet
  <2>4. k \in at
    BY <2>1, <2>2, <2>3 DEF DefaultRoutes, Tells
  <2> QED BY <2>2, <2>3, <2>4 DEF Tells
<1>7. at \subseteq Nat /\ at # {}
  <2>1. at \subseteq DOMAIN R
    BY DEF DefaultRoutes
  <2> QED BY <1>3, <1>6, <2>1
<1>8. ASSUME NEW k \in at PROVE R[k].metric \in Nat /\ R[k].index \in Nat
  <2>1. PICK r \in Defaults(fam) : R[k].metric = metric[scene][r] /\ R[k].index = IndexIn(scene, r.name)
    BY <1>5
  <2>2. metric[scene][r] \in Nat
    BY DEF Faithful
  <2>3. IndexIn(scene, r.name) \in Nat
    <3>1. r.name \in DOMAIN Now.links
      BY <1>1 DEF Defaults, Plausible, ToSet
    <3> QED BY <1>1, <3>1 DEF Plausible, IndexIn, AdapterIndex
  <2> QED BY <2>1, <2>2, <2>3
<1> HIDE DEF at, R
<1>9. least # {}
  <2>1. PICK key : key = [k \in at |-> R[k].metric]
    OBVIOUS
  <2>2. key \in [at -> Nat]
    BY <1>8, <2>1
  <2>3. PICK p \in at : \A k \in at : key[p] <= key[k]
    BY <1>7, <2>2, LeastKey
  <2>4. PICK same : same = {k \in at : R[k].metric = R[p].metric}
    OBVIOUS
  <2>5. p \in same /\ same \subseteq at
    BY <2>4
  <2>6. PICK index : index = [k \in same |-> R[k].index]
    OBVIOUS
  <2>7. index \in [same -> Nat]
    BY <1>8, <2>5, <2>6
  <2>8. PICK b \in same : \A k \in same : index[b] <= index[k]
    BY <2>5, <2>7, LeastKey
  <2>9. ASSUME NEW k \in at PROVE ~Less(R[k], R[b])
    <3>1. /\ R[k].metric \in Nat /\ R[k].index \in Nat
          /\ R[b].metric \in Nat /\ R[b].index \in Nat /\ R[b].metric = R[p].metric
          /\ R[p].metric <= R[k].metric
      BY <1>8, <2>1, <2>3, <2>4, <2>5
    <3>2. R[k].metric = R[b].metric => R[b].index <= R[k].index
      BY <2>4, <2>6, <2>8, <3>1
    <3> QED BY <3>1, <3>2
  <2> QED BY <2>5, <2>9
<1>10. PICK k : k = Min(least)
  OBVIOUS
<1>11. k \in least
  <2>1. least \subseteq Nat
    BY <1>7
  <2> HIDE DEF least
  <2> QED BY <1>9, <1>10, <2>1, MinIsLeast
<1>12. DefaultRouteFor(s, fam) = R[k]
  <2>1. DefaultRouteFor(s, fam) = IF least = {} THEN None ELSE R[Min(least)]
    BY DEF DefaultRouteFor, FirstLeast, at, R
  <2> HIDE DEF least
  <2> QED BY <1>9, <1>10, <2>1
<1>13. k \in at /\ \A other \in at : ~(R[other].metric < R[k].metric)
  BY <1>11
<1>14. PICK r \in Defaults(fam) : R[k].metric = metric[scene][r] /\ R[k].index = IndexIn(scene, r.name)
  BY <1>5, <1>13
<1>15. r \in Favourites(fam)
  <2> SUFFICES ASSUME NEW q \in Defaults(fam) PROVE Cost(r) <= Cost(q)
    BY DEF Favourites
  <2>1. Cost(r) \in Nat /\ Cost(q) \in Nat
    OBVIOUS
  <2>2. ~(Cost(q) < Cost(r))
    <3> SUFFICES ASSUME Cost(q) < Cost(r) PROVE FALSE
      OBVIOUS
    <3>1. metric[scene][q] < metric[scene][r]
      BY DEF Faithful
    <3>2. PICK j \in at : R[j].metric = metric[scene][q]
      BY <1>6
    <3> QED BY <1>13, <1>14, <3>1, <3>2
  <2> QED BY <2>1, <2>2
<1> QED BY <1>12, <1>14, <1>15

\* Linux ranks a route by the metric it has.
LEMMA LinuxFavourite ==
  ASSUME Situated, OnLinux, Unmistakable(box), NEW fam
  PROVE  Faithful(RouteMetric, fam) /\ \A r \in Defaults(fam) : Cost(r) \in Nat
<1>1. scene \in been /\ scene \in box.scenes /\ Now = Scene[scene]
  BY Surroundings DEF Situated
<1>2. \A r \in Defaults(fam) : r \in ToSet(Now.routes) /\ r.metric \in Nat
  <2>1. \A k \in DOMAIN Scene[scene].routes : Scene[scene].routes[k].metric \in Nat
    BY <1>1, Zenon DEF Unmistakable
  <2> QED BY <1>1, <2>1 DEF Defaults, ToSet
<1>3. \A r \in Defaults(fam) : Cost(r) = r.metric /\ RouteMetric[scene][r] = r.metric
  BY <1>1, <1>2 DEF Cost, RouteMetric, OnLinux
<1> QED BY <1>2, <1>3 DEF Faithful

\* Windows ranks a route by its metric and its adapter's.
Summed == [s \in been |-> [r \in ToSet(Scene[s].routes) |-> WinMetric(s, r)]]

LEMMA WinFavourite ==
  ASSUME Situated, box.platform = "windows", Unmistakable(box), NEW fam
  PROVE  Faithful(Summed, fam) /\ \A r \in Defaults(fam) : Cost(r) \in Nat
<1>1. scene \in been /\ scene \in box.scenes /\ Now = Scene[scene] /\ Plausible(Scene[scene])
  BY Surroundings DEF Situated
<1>2. /\ \A k \in DOMAIN Scene[scene].routes : Scene[scene].routes[k].metric \in Nat
      /\ \A n \in DOMAIN Scene[scene].links : Scene[scene].links[n].metric \in Nat
      /\ \A k \in DOMAIN Scene[scene].routes :
            Scene[scene].routes[k].metric + Scene[scene].links[Scene[scene].routes[k].name].metric
               <= MaxMetric
  BY <1>1, Zenon DEF Unmistakable
<1>3. ASSUME NEW r \in Defaults(fam)
      PROVE  Cost(r) \in Nat /\ Summed[scene][r] = Cost(r)
  <2>1. r \in ToSet(Now.routes)
    BY DEF Defaults
  <2>2. PICK k \in DOMAIN Now.routes : r = Now.routes[k]
    BY <2>1 DEF ToSet
  <2>3. r.name \in DOMAIN Now.links
    BY <1>1, <2>2 DEF Plausible
  <2>4. PICK x, y : x = r.metric /\ y = Now.links[r.name].metric
    OBVIOUS
  <2>5. x \in Nat /\ y \in Nat /\ x + y <= MaxMetric
    BY <1>1, <1>2, <2>2, <2>3, <2>4
  <2>6. Cost(r) = x + y
    BY <2>4 DEF Cost
  <2>7. Summed[scene][r] = Min({x + y, MaxMetric})
    BY <1>1, <2>1, <2>4 DEF Summed, WinMetric, EffectiveMetric
  <2>8. Min({x + y, MaxMetric}) = x + y
    <3>1. {x + y, MaxMetric} \subseteq Nat
      BY <2>5 DEF MaxMetric
    <3>2. /\ Min({x + y, MaxMetric}) \in {x + y, MaxMetric}
          /\ \A z \in {x + y, MaxMetric} : Min({x + y, MaxMetric}) <= z
      BY <3>1, MinIsLeast
    <3> QED BY <2>5, <3>1, <3>2
  <2> QED BY <2>5, <2>6, <2>7, <2>8
<1> QED BY <1>3 DEF Faithful

LEMMA WinTold ==
  ASSUME Situated, box.platform = "windows", Unmistakable(box), NEW R,
         R = WinRoutes(WindowsRoutes(Scene[scene]), LinksByLuid(WindowsAdapters(Scene[scene])))
  PROVE  ToldOf(R, scene, scene, Summed)
<1>1. PICK links : links = LinksByLuid(WindowsAdapters(Scene[scene]))
  OBVIOUS
<1>2. scene \in been /\ Plausible(Scene[scene])
  BY Surroundings DEF Situated
<1>3. ReadAs(R, scene, links)
  BY <1>1, <1>2, WinRoutesAre
<1>4. ASSUME NEW r \in ToSet(Scene[scene].routes), Leads(r)
      PROVE  /\ Tells(scene, r, Summed[scene][r], ReadBack(scene, r, links))
             /\ r.family \in Families
  <2>1. r.name \in DOMAIN Scene[scene].links /\ r.family \in Families
    BY <1>2 DEF Plausible, ToSet
  <2>2. Tells(scene, r, WinMetric(scene, r), ReadBack(scene, r, links))
    BY <1>1, <1>2, <1>4, <2>1, ReadBackTells
  <2>3. Summed[scene][r] = WinMetric(scene, r)
    BY <1>2 DEF Summed
  <2> QED BY <2>1, <2>2, <2>3
<1>5. \A q \in ToSet(R) : \E r \in ToSet(Scene[scene].routes) :
         Leads(r) /\ q = ReadBack(scene, r, links)
  BY <1>3 DEF ReadAs
<1>6. \A q \in ToSet(R) : /\ q.family \in Families
                          /\ \E r \in ToSet(Scene[scene].routes) :
                                Leads(r) /\ Tells(scene, r, Summed[scene][r], q)
  BY <1>4, <1>5 DEF Tells
<1>7. \A r \in ToSet(Scene[scene].routes) : Leads(r) =>
         \E q \in ToSet(R) : Tells(scene, r, Summed[scene][r], q)
  BY <1>3, <1>4 DEF ReadAs
<1>8. PICK metric : metric = Summed
  OBVIOUS
<1>9. R \in Seq(ToSet(R))
  BY <1>3 DEF ReadAs
<1>10. ToldOf(R, scene, scene, metric)
  BY <1>6, <1>7, <1>8, <1>9, ToldAtRest
<1> QED BY <1>8, <1>10

\* macOS ranks a route by the first service of its link.
LEMMA MaxIsGreatest ==
  ASSUME NEW m \in Nat, NEW T \in SUBSET (1..m), T # {}
  PROVE  Max(T) \in T /\ \A y \in T : y <= Max(T)
<1>1. PICK key : key = [k \in T |-> m - k]
  OBVIOUS
<1>2. key \in [T -> Nat]
  BY <1>1
<1>3. PICK p \in T : \A k \in T : key[p] <= key[k]
  BY <1>2, LeastKey
<1>4. \A k \in T : k <= p
  <2> SUFFICES ASSUME NEW k \in T PROVE k <= p
    OBVIOUS
  <2>1. k \in Nat /\ p \in Nat /\ m - p <= m - k
    BY <1>1, <1>3
  <2> QED BY <2>1
<1>5. \E x \in T : \A y \in T : x >= y
  <2>1. \A y \in T : p >= y
    BY <1>4
  <2> QED BY <2>1
<1>6. Max(T) \in T /\ \A y \in T : Max(T) >= y
  BY <1>5 DEF Max
<1> QED BY <1>6

FirstOf(order, name) == Min({k \in DOMAIN order : order[k] = name})

RankedAs(ranks, order) ==
    LET names == ToSet(order) \ {None}
    IN  /\ DOMAIN ranks = names /\ Cardinality(names) \in Nat
        /\ \A n \in names : /\ FirstOf(order, n) \in DOMAIN order
                            /\ ranks[n] \in Nat /\ ranks[n] < Cardinality(names)
        /\ \A n, k \in names : FirstOf(order, n) < FirstOf(order, k) => ranks[n] < ranks[k]

LEMMA RanksAre ==
  ASSUME NEW order, order \in Seq(ToSet(order))
  PROVE  RankedAs(Ranks(order), order)
<1>1. PICK m \in Nat : DOMAIN order = 1..m
  BY LenProperties
<1>2. PICK names : names = ToSet(order) \ {None}
  OBVIOUS
<1> DEFINE First(name) == Min({k \in DOMAIN order : order[k] = name})
           Before(name) == {n \in names : First(n) < First(name)}
<1>3. IsFiniteSet(names) /\ Cardinality(names) \in Nat
  <2>1. PICK f : f = [k \in 1..m |-> order[k]]
    OBVIOUS
  <2>2. f \in Surjection(1..m, ToSet(order))
    BY <1>1, <2>1 DEF Surjection, ToSet
  <2>3. IsFiniteSet(1..m)
    BY FS_Interval
  <2>4. IsFiniteSet(ToSet(order))
    BY <2>2, <2>3, FS_Surjection
  <2>5. names \in SUBSET ToSet(order)
    BY <1>2
  <2>6. IsFiniteSet(names)
    BY <2>4, <2>5, FS_Subset
  <2> QED BY <2>6, FS_CardinalityType
<1>4. ASSUME NEW n \in names PROVE First(n) \in 1..m /\ order[First(n)] = n
  <2>1. PICK T : T = {k \in DOMAIN order : order[k] = n}
    OBVIOUS
  <2>2. T \subseteq Nat /\ T # {} /\ T \subseteq 1..m
    BY <1>1, <1>2, <2>1 DEF ToSet
  <2>3. Min(T) \in T
    BY <2>2, MinIsLeast
  <2> QED BY <2>1, <2>2, <2>3
<1>5. Ranks(order) = [n \in names |-> Cardinality(Before(n))]
  BY <1>2 DEF Ranks
<1>6. \A n : First(n) = FirstOf(order, n)
  BY DEF FirstOf
<1> HIDE DEF First
<1>7. ASSUME NEW n \in names
      PROVE  /\ IsFiniteSet(Before(n)) /\ Cardinality(Before(n)) \in Nat
             /\ Cardinality(Before(n)) < Cardinality(names)
  <2>1. PICK B : B = Before(n)
    OBVIOUS
  <2>2. B \in SUBSET names /\ n \notin B
    BY <1>4, <2>1
  <2>3. IsFiniteSet(B) /\ Cardinality(B) <= Cardinality(names) /\ B # names
        /\ (Cardinality(names) = Cardinality(B) => names = B)
    BY <1>3, <2>2, FS_Subset
  <2>4. Cardinality(B) \in Nat
    BY <2>3, FS_CardinalityType
  <2> QED BY <1>3, <2>1, <2>3, <2>4
<1>8. ASSUME NEW n \in names, NEW k \in names, First(n) < First(k)
      PROVE  Cardinality(Before(n)) < Cardinality(Before(k))
  <2>1. PICK B, C : B = Before(n) /\ C = Before(k)
    OBVIOUS
  <2>2. First(n) \in Nat /\ First(k) \in Nat /\ \A j \in names : First(j) \in Nat
    BY <1>4
  <2>3. B \in SUBSET C /\ n \in C /\ n \notin B
    BY <1>8, <2>1, <2>2
  <2>4. IsFiniteSet(C) /\ Cardinality(C) \in Nat /\ Cardinality(B) \in Nat
    BY <1>7, <2>1
  <2>5. Cardinality(B) <= Cardinality(C) /\ (Cardinality(C) = Cardinality(B) => C = B)
    BY <2>3, <2>4, FS_Subset
  <2> QED BY <2>1, <2>3, <2>4, <2>5
<1>9. PICK ranks : ranks = Ranks(order)
  OBVIOUS
<1>10. /\ DOMAIN ranks = names
       /\ \A n \in names : ranks[n] = Cardinality(Before(n))
  BY <1>5, <1>9
<1> HIDE DEF Before
<1>11. \A n \in names : /\ FirstOf(order, n) \in DOMAIN order
                        /\ ranks[n] \in Nat /\ ranks[n] < Cardinality(names)
  BY <1>1, <1>4, <1>6, <1>7, <1>10
<1>12. \A n, k \in names : FirstOf(order, n) < FirstOf(order, k) => ranks[n] < ranks[k]
  BY <1>6, <1>8, <1>10
<1> QED BY <1>2, <1>3, <1>9, <1>10, <1>11, <1>12 DEF RankedAs

\* The metric of a link, by the rank of its first service.
LinkMetric(n) ==
    LET ranks == Ranks(Now.services)
    IN  MetricForRank(IF n \in DOMAIN ranks THEN ranks[n] ELSE None)

ByService == [s \in been |-> [r \in ToSet(Scene[s].routes) |-> LinkMetric(r.name)]]

LEMMA MacMetricsAre ==
  ASSUME Situated, OnMacos, Unmistakable(box), "order" \notin box.hidden,
         NEW full, full = MacFull(Now, Now, Now, Now, box.hidden),
         NEW metrics, metrics = MacMetrics(full, Now, box.hidden),
         NEW n \in DOMAIN Now.links
  PROVE  /\ Now.links[n].index \in DOMAIN metrics
         /\ metrics[Now.links[n].index] = LinkMetric(n)
<1>1. /\ scene \in been /\ scene \in box.scenes /\ Now = Scene[scene] /\ Plausible(Now)
  BY Surroundings DEF Situated
<1>2. PICK links : links = MacLinks(Now, Now, box.hidden)
  OBVIOUS
<1>3. PICK listed : listed = DarwinList(Now)
  OBVIOUS
<1>4. PICK flagged : flagged = MacFlagged(Now, Now, box.hidden)
  OBVIOUS
<1>5. full = AttachAddresses(links, listed, flagged)
  BY <1>2, <1>3, <1>4 DEF MacFull
<1>6. /\ DOMAIN links = DOMAIN Now.links
      /\ \A k \in DOMAIN links : /\ DOMAIN links[k] = Fields /\ links[k].name = k
                                 /\ links[k].index = Now.links[k].index
  <2>1. links = MacLinks(Scene[scene], Scene[scene], box.hidden)
    BY <1>1, <1>2
  <2>2. LinksAsHeld(links, scene, scene)
    BY <1>1, <2>1, MacLinked
  <2>3. /\ DOMAIN links = DOMAIN Scene[scene].links
        /\ \A k \in DOMAIN links : DOMAIN links[k] = Fields /\ links[k].name = k
    BY <2>2, Zenon DEF LinksAsHeld
  <2>4. \A k \in DOMAIN links : links[k].index = Now.links[k].index
    <3> SUFFICES ASSUME NEW k \in DOMAIN links PROVE links[k].index = Now.links[k].index
      OBVIOUS
    <3>1. links[k] = LinkFrom(k, DarwinLinks(Now)[k], DarwinTypes(Now, box.hidden))
      BY <1>1, <2>2 DEF LinksAsHeld
    <3>2. PICK told, types : told = DarwinLinks(Now)[k] /\ types = DarwinTypes(Now, box.hidden)
      OBVIOUS
    <3>3. told.index = Now.links[k].index
      BY <1>1, <2>3, <3>2, Zenon DEF DarwinLinks
    <3>4. LinkFrom(k, told, types).index = told.index
      BY DEF LinkFrom
    <3> QED BY <3>1, <3>2, <3>3, <3>4
  <2> QED BY <1>1, <2>3, <2>4
<1>7. /\ DOMAIN full = DOMAIN Now.links
      /\ \A k \in DOMAIN full : full[k].name = k /\ full[k].index = Now.links[k].index
  <2>1. AttachedTo(full, links, listed, flagged)
    BY <1>5, <1>6, Attached
  <2>2. \A k \in DOMAIN listed : listed[k].name \in DOMAIN Now.links
    <3>1. DOMAIN DarwinList(Now) = DOMAIN Now.addresses
      BY DEF DarwinList
    <3>2. \A k \in DOMAIN Now.addresses : DarwinList(Now)[k].name = Now.addresses[k].name
      BY DEF DarwinList
    <3>3. \A k \in DOMAIN Now.addresses : Now.addresses[k].name \in DOMAIN Now.links
      BY <1>1 DEF Plausible
    <3> QED BY <1>3, <3>1, <3>2, <3>3
  <2>3. /\ DOMAIN links \subseteq DOMAIN full
        /\ \A k \in DOMAIN full : k \in DOMAIN links \/ \E i \in DOMAIN listed : k = listed[i].name
    BY <2>1, Zenon DEF AttachedTo
  <2>4. \A k \in DOMAIN full : full[k].name = k
    BY <2>1, Zenon DEF AttachedTo
  <2>5. \A k \in DOMAIN links : full[k].index = links[k].index
    BY <2>1, Zenon DEF AttachedTo
  <2>6. DOMAIN full = DOMAIN Now.links
    <3>1. PICK D, E : D = DOMAIN full /\ E = DOMAIN Now.links
      OBVIOUS
    <3>2. E \subseteq D
      BY <1>6, <2>3, <3>1
    <3>3. ASSUME NEW k \in D PROVE k \in E
      BY <1>6, <2>2, <2>3, <3>1
    <3> QED BY <3>1, <3>2, <3>3
  <2> QED BY <1>6, <2>4, <2>5, <2>6
<1>8. /\ \A j, k \in DOMAIN Names : Names[j] = Names[k] => j = k
      /\ DOMAIN Now.links \subseteq ToSet(Names)
      /\ \A j, k \in DOMAIN Now.links : Now.links[j].index = Now.links[k].index => j = k
  <2>1. /\ \A j, k \in DOMAIN Names : Names[j] = Names[k] => j = k
        /\ DOMAIN Scene[scene].links \subseteq ToSet(Names) \ {<<>>, None}
        /\ \A j, k \in DOMAIN Scene[scene].links :
              Scene[scene].links[j].index = Scene[scene].links[k].index => j = k
    BY <1>1, Zenon DEF Unmistakable, OnMacos
  <2> QED BY <1>1, <2>1
<1>9. PICK list : list = InOrder(full)
  OBVIOUS
<1>10. /\ \A k \in DOMAIN full \cap ToSet(Names) : full[k] \in ToSet(list)
       /\ \A i \in ToSet(list) : i.name \in DOMAIN full /\ i = full[i.name]
  <2>1. OrderedAs(list, full)
    BY <1>7, <1>8, <1>9, OrderedOnce
  <2> QED BY <2>1 DEF OrderedAs
<1>11. \E m \in Nat : DOMAIN list = 1..m
  <2>1. PICK known : known = {k \in DOMAIN Names : Names[k] \in DOMAIN full}
    OBVIOUS
  <2>2. PICK seq : seq = [k \in known |-> full[Names[k]]]
    OBVIOUS
  <2>3. list = Picked(seq, known)
    BY <1>9, <2>1, <2>2 DEF InOrder
  <2>4. PICK c \in Nat : DOMAIN Names = 1..c
    BY NamesAreListed
  <2>5. known \in SUBSET (1..c)
    BY <2>1, <2>4
  <2>6. \E m \in Nat : DOMAIN Picked(seq, known) = 1..m
    BY <2>5, PickedOut
  <2> QED BY <2>3, <2>6
<1>12. PICK m \in Nat : DOMAIN list = 1..m
  BY <1>11
<1>13. PICK index : index = Now.links[n].index
  OBVIOUS
<1>14. full[n] \in ToSet(list) /\ full[n].index = index
  BY <1>7, <1>8, <1>10, <1>13
<1>15. PICK T : T = {k \in DOMAIN list : list[k].index = index}
  OBVIOUS
<1>16. T \in SUBSET (1..m) /\ T # {}
  BY <1>12, <1>14, <1>15 DEF ToSet
<1>17. PICK last : last = Max(T)
  OBVIOUS
<1>18. last \in T
  BY <1>16, <1>17, MaxIsGreatest
<1>19. list[last].name = n
  <2>1. list[last] \in ToSet(list) /\ list[last].index = index
    BY <1>15, <1>18 DEF ToSet
  <2>2. PICK k : k = list[last].name
    OBVIOUS
  <2>3. k \in DOMAIN full /\ list[last] = full[k]
    BY <1>10, <2>1, <2>2
  <2> QED BY <1>7, <1>8, <1>13, <2>1, <2>2, <2>3
<1>20. PICK ranks : ranks = Ranks(Now.services)
  OBVIOUS
<1>21. metrics = MetricsByIndex(list, ranks)
  BY <1>9, <1>20 DEF MacMetrics
<1>22. index \in {i.index : i \in ToSet(list)}
  BY <1>14
<1>23. /\ index \in DOMAIN metrics
       /\ metrics[index] = MetricForRank(IF list[last].name \in DOMAIN ranks
                                         THEN ranks[list[last].name] ELSE None)
  BY <1>15, <1>17, <1>21, <1>22 DEF MetricsByIndex
<1> QED BY <1>13, <1>19, <1>20, <1>23 DEF LinkMetric

LEMMA MacTold ==
  ASSUME Situated, OnMacos, Unmistakable(box), NoFunction(None), "order" \notin box.hidden,
         NEW full, full = MacFull(Now, Now, Now, Now, box.hidden),
         NEW metrics, metrics = MacMetrics(full, Now, box.hidden), NEW routes,
         NEW v \in been, v = scene, NEW w \in been, w = scene,
         routes = (<<>> \o Scored(TableOf(v, "v4"), metrics, Unranked))
                     \o Scored(TableOf(w, "v6"), metrics, Unranked)
  PROVE  ToldOf(routes, scene, scene, ByService)
<1>1. /\ scene \in been /\ Now = Scene[scene] /\ Plausible(Scene[scene])
      /\ scene \in DOMAIN Scene /\ Numbered(Scene[scene])
  BY Surroundings DEF Situated, OnMacos
<1>2. /\ routes \in Seq(ToSet(routes))
      /\ ToSet(routes) = ToSet(Scored(TableOf(scene, "v4"), metrics, Unranked))
                           \cup ToSet(Scored(TableOf(scene, "v6"), metrics, Unranked))
  <2>1. BothTables(routes, v, w, metrics)
    BY MacRoutesAre
  <2> QED BY <2>1 DEF BothTables
<1>3. ASSUME NEW r \in ToSet(Now.routes), NEW x, Rendered(Scene[scene], r, x), NEW q,
             q.default = x.default, q.gateway = x.gateway, q.family = x.family, q.index = x.index,
             q.metric = IF x.index \in DOMAIN metrics THEN metrics[x.index] ELSE Unranked
      PROVE  q.family \in Families /\ Leads(r) /\ Tells(scene, r, ByService[scene][r], q)
  <2>1. r.name \in DOMAIN Now.links /\ r.family \in Families
    BY <1>1 DEF Plausible, ToSet
  <2>2. /\ r.kind \in {"route", "host"} /\ x.family = r.family /\ x.gateway = r.gateway
        /\ x.index = Now.links[r.name].index
        /\ x.default <=> (r.destination = 0 /\ r.prefix = 0)
    BY <1>1, <1>3 DEF Rendered
  <2>3. x.index \in DOMAIN metrics /\ metrics[x.index] = LinkMetric(r.name)
    BY <2>1, <2>2, MacMetricsAre
  <2>4. IndexIn(scene, r.name) = x.index
    BY <1>1, <2>1, <2>2 DEF IndexIn, AdapterIndex, Numbered
  <2>5. ByService[scene][r] = LinkMetric(r.name)
    BY <1>1 DEF ByService
  <2> QED BY <1>3, <2>1, <2>2, <2>3, <2>4, <2>5 DEF Tells, Leads
<1>4. ASSUME NEW fam \in Families
      PROVE  /\ \A q \in ToSet(Scored(TableOf(scene, fam), metrics, Unranked)) :
                   /\ q.family \in Families
                   /\ \E r \in ToSet(Now.routes) :
                         Leads(r) /\ Tells(scene, r, ByService[scene][r], q)
             /\ \A r \in ToSet(Now.routes) : r.family = fam /\ Leads(r) =>
                   \E q \in ToSet(Scored(TableOf(scene, fam), metrics, Unranked)) :
                      Tells(scene, r, ByService[scene][r], q)
  <2>1. PICK table : table = TableOf(scene, fam)
    OBVIOUS
  <2>2. /\ \E n \in Nat : DOMAIN table = 1..n
        /\ \A x \in ToSet(table) : \E r \in ToSet(Now.routes) : Rendered(Scene[scene], r, x)
    BY <1>1, <2>1, TableRead
  <2> DEFINE Same(q, x) == /\ q.default = x.default /\ q.gateway = x.gateway
                           /\ q.family = x.family /\ q.index = x.index
                           /\ q.metric = IF x.index \in DOMAIN metrics THEN metrics[x.index]
                                         ELSE Unranked
  <2>3. PICK list : list = Scored(table, metrics, Unranked)
    OBVIOUS
  <2>4. /\ \A q \in ToSet(list) : \E x \in ToSet(table) : Same(q, x)
        /\ \A x \in ToSet(table) : \E q \in ToSet(list) : Same(q, x)
    BY <2>2, <2>3, ScoredHas
  <2>5. ASSUME NEW q \in ToSet(list)
        PROVE  /\ q.family \in Families
               /\ \E r \in ToSet(Now.routes) : Leads(r) /\ Tells(scene, r, ByService[scene][r], q)
    <3>1. PICK x \in ToSet(table) : Same(q, x)
      BY <2>4
    <3>2. PICK r \in ToSet(Now.routes) : Rendered(Scene[scene], r, x)
      BY <2>2
    <3> QED BY <1>3, <3>1, <3>2
  <2>6. ASSUME NEW r \in ToSet(Now.routes), r.family = fam, Leads(r)
        PROVE  \E q \in ToSet(list) : Tells(scene, r, ByService[scene][r], q)
    <3>1. r \in ToSet(Scene[scene].routes) /\ r.kind \in {"route", "host"}
      BY <1>1, <2>6 DEF Leads
    <3>2. PICK x \in ToSet(table) : Rendered(Scene[scene], r, x)
      BY <1>1, <2>1, <2>6, <3>1, TableKeeps
    <3>3. PICK q \in ToSet(list) : Same(q, x)
      BY <2>4
    <3> QED BY <1>3, <3>2, <3>3
  <2> QED BY <2>1, <2>3, <2>5, <2>6
<1>5. "v4" \in Families /\ "v6" \in Families /\ \A f \in Families : f = "v4" \/ f = "v6"
  BY DEF Families
<1>6. PICK metric : metric = ByService
  OBVIOUS
<1>7. \A q \in ToSet(routes) : /\ q.family \in Families
                               /\ \E r \in ToSet(Scene[scene].routes) :
                                     Leads(r) /\ Tells(scene, r, metric[scene][r], q)
  BY <1>1, <1>2, <1>4, <1>5, <1>6
<1>8. \A fam \in Families : \A r \in ToSet(Scene[scene].routes) : r.family = fam /\ Leads(r) =>
         \E q \in ToSet(routes) : Tells(scene, r, metric[scene][r], q)
  BY <1>1, <1>2, <1>4, <1>5, <1>6
<1>9. ToldOf(routes, scene, scene, metric)
  BY <1>2, <1>7, <1>8, ToldAtRest
<1> QED BY <1>6, <1>9

LEMMA MacFavourite ==
  ASSUME Situated, OnMacos, Unmistakable(box), NEW fam
  PROVE  Faithful(ByService, fam) /\ \A r \in Defaults(fam) : Cost(r) \in Nat
<1>1. scene \in been /\ scene \in box.scenes /\ Now = Scene[scene] /\ Plausible(Scene[scene])
  BY Surroundings DEF Situated
<1>2. PICK order : order = Now.services
  OBVIOUS
<1>3. PICK names : names = ToSet(order) \ {None}
  OBVIOUS
<1>4. /\ order \in Seq(ToSet(order))
      /\ MetricPerRank * Cardinality(names) <= Unranked
      /\ None \notin DOMAIN Now.links
  <2>1. /\ Scene[scene].services \in Seq(ToSet(Scene[scene].services))
        /\ MetricPerRank * Cardinality(ToSet(Scene[scene].services) \ {None}) <= Unranked
        /\ DOMAIN Scene[scene].links \subseteq ToSet(Names) \ {<<>>, None}
    BY <1>1, Zenon DEF Unmistakable, OnMacos
  <2> QED BY <1>1, <1>2, <1>3, <2>1
<1>5. PICK ranks : ranks = Ranks(order)
  OBVIOUS
<1>6. RankedAs(ranks, order)
  BY <1>4, <1>5, RanksAre
<1>7. /\ DOMAIN ranks = names /\ Cardinality(names) \in Nat
      /\ \A n \in names : /\ FirstOf(order, n) \in DOMAIN order
                          /\ ranks[n] \in Nat /\ ranks[n] < Cardinality(names)
      /\ \A n, k \in names : FirstOf(order, n) < FirstOf(order, k) => ranks[n] < ranks[k]
  BY <1>3, <1>6 DEF RankedAs
<1>8. /\ DOMAIN order = 1..Len(order) /\ Len(order) \in Nat
  BY <1>4, LenProperties
<1>9. \A n : LinkMetric(n) = MetricForRank(IF n \in names THEN ranks[n] ELSE None)
  BY <1>2, <1>5, <1>7 DEF LinkMetric
<1>10. ASSUME NEW n \in names
       PROVE  LinkMetric(n) = 100 * ranks[n] /\ 100 * ranks[n] < Unranked
  <2>1. PICK rank : rank = ranks[n]
    OBVIOUS
  <2>2. PICK c : c = Cardinality(names)
    OBVIOUS
  <2>3. rank \in Nat /\ c \in Nat /\ rank < c /\ 100 * c <= 1000
    BY <1>4, <1>7, <2>1, <2>2 DEF MetricPerRank, Unranked
  <2>4. rank \in 0..9 /\ 100 * rank < 1000
    BY <2>3
  <2>5. rank # None
    <3>1. rank \in 0..(Embedding - 1)
      BY <2>4 DEF Embedding
    <3> QED BY <3>1, NoneIsNoData
  <2>6. MetricForRank(rank) = Min({rank * MetricPerRank, Unranked})
    BY <2>5 DEF MetricForRank
  <2>7. Min({rank * MetricPerRank, Unranked}) = 100 * rank
    <3>1. PICK x : x = rank * MetricPerRank
      OBVIOUS
    <3>2. x = 100 * rank /\ x \in Nat /\ x < 1000
      BY <2>4, <3>1 DEF MetricPerRank
    <3>3. {x, 1000} \subseteq Nat
      BY <3>2
    <3>4. Min({x, 1000}) \in {x, 1000} /\ \A y \in {x, 1000} : Min({x, 1000}) <= y
      BY <3>3, MinIsLeast
    <3>5. Min({x, 1000}) = x
      BY <3>2, <3>4
    <3> QED BY <3>1, <3>2, <3>5 DEF Unranked
  <2>8. LinkMetric(n) = MetricForRank(rank)
    BY <1>9, <2>1
  <2> QED BY <2>1, <2>4, <2>6, <2>7, <2>8 DEF Unranked
<1>11. \A n : n \notin names => LinkMetric(n) = Unranked
  BY <1>9 DEF MetricForRank
<1>12. ASSUME NEW r \in Defaults(fam)
       PROVE  /\ ByService[scene][r] = LinkMetric(r.name)
              /\ Cost(r) \in Nat
              /\ r.name \in names => Cost(r) = FirstOf(order, r.name)
              /\ r.name \notin names => Cost(r) = Len(order) + 1
              /\ Cost(r) <= Len(order) + 1
  <2>1. r \in ToSet(Now.routes)
    BY DEF Defaults
  <2>2. r.name # None
    BY <1>1, <1>4, <2>1 DEF Plausible, ToSet
  <2>3. ByService[scene][r] = LinkMetric(r.name)
    BY <1>1, <2>1 DEF ByService
  <2>4. PICK T : T = {k \in 1..(Len(order) + 1) : k > Len(order) \/ order[k] = r.name}
    OBVIOUS
  <2>5. Cost(r) = Min(T)
    BY <1>2, <2>4 DEF Cost, OnMacos
  <2>6. Len(order) + 1 \in T /\ T \subseteq Nat
    BY <1>8, <2>4
  <2>7. Min(T) \in T /\ \A y \in T : Min(T) <= y
    BY <2>6, MinIsLeast
  <2>8. CASE r.name \in names
    <3>1. PICK S : S = {k \in DOMAIN order : order[k] = r.name}
      OBVIOUS
    <3>2. S \subseteq Nat /\ S # {}
      BY <1>3, <1>8, <2>8, <3>1 DEF ToSet
    <3>3. Min(S) \in S /\ \A y \in S : Min(S) <= y
      BY <3>2, MinIsLeast
    <3>4. Min(S) \in T
      BY <1>8, <2>4, <3>1, <3>3
    <3>5. Min(T) <= Min(S) /\ Min(S) <= Len(order)
      BY <1>8, <2>7, <3>1, <3>3, <3>4
    <3>6. Min(T) \in S
      <4>1. PICK x : x = Min(T)
        OBVIOUS
      <4>2. x \in 1..(Len(order) + 1) /\ (x > Len(order) \/ order[x] = r.name)
        BY <2>4, <2>7, <4>1
      <4>3. x <= Len(order)
        BY <1>8, <3>1, <3>2, <3>3, <3>5, <4>1, <4>2
      <4>4. x \in DOMAIN order /\ order[x] = r.name
        BY <1>8, <4>2, <4>3
      <4> QED BY <3>1, <4>1, <4>4
    <3>7. Min(T) = Min(S)
      <4>1. PICK x, y : x = Min(T) /\ y = Min(S)
        OBVIOUS
      <4>2. x \in Nat /\ y \in Nat /\ x <= y /\ y <= x
        BY <2>6, <2>7, <3>2, <3>3, <3>5, <3>6, <4>1
      <4> QED BY <4>1, <4>2
    <3>8. FirstOf(order, r.name) = Min(S)
      BY <3>1 DEF FirstOf
    <3> QED BY <2>3, <2>5, <2>6, <2>7, <2>8, <3>7, <3>8
  <2>9. CASE r.name \notin names
    <3>1. \A k \in DOMAIN order : order[k] # r.name
      BY <1>3, <2>2, <2>9 DEF ToSet
    <3>2. T = {Len(order) + 1}
      BY <1>8, <2>4, <3>1
    <3> QED BY <2>3, <2>5, <2>6, <2>7, <2>9, <3>2
  <2> QED BY <2>8, <2>9
<1>13. \A r \in Defaults(fam) : ByService[scene][r] \in Nat
  <2> SUFFICES ASSUME NEW r \in Defaults(fam) PROVE ByService[scene][r] \in Nat
    OBVIOUS
  <2>1. CASE r.name \in names
    BY <1>7, <1>10, <1>12, <2>1
  <2>2. CASE r.name \notin names
    BY <1>11, <1>12, <2>2 DEF Unranked
  <2> QED BY <2>1, <2>2
<1>14. ASSUME NEW r \in Defaults(fam), NEW q \in Defaults(fam), Cost(q) < Cost(r)
       PROVE  ByService[scene][q] < ByService[scene][r]
  <2>1. q.name \in names
    BY <1>8, <1>12, <1>14
  <2>2. CASE r.name \in names
    <3>1. ranks[q.name] < ranks[r.name]
      BY <1>7, <1>12, <1>14, <2>1, <2>2
    <3> QED BY <1>7, <1>10, <1>12, <2>1, <2>2, <3>1
  <2>3. CASE r.name \notin names
    BY <1>10, <1>11, <1>12, <2>1, <2>3
  <2> QED BY <2>2, <2>3
<1> QED BY <1>12, <1>13, <1>14 DEF Faithful

(***************************************************************************)
(* What each system's snapshot keeps.                                      *)
(***************************************************************************)
Keeps(s) == HasLinks(s.interfaces) /\ HasAddresses(s.interfaces) /\ HasRoutes(s.routes)

\* What was asked of a machine that stands still was answered by the one scene.
AllNow(at) == been = {scene} => \A c \in Calls : at[c] = scene

\* The route found for a family is one of those the system prefers.
Finds(s) ==
    \A fam \in Families :
        Defaults(fam) # {} =>
            \E r \in Favourites(fam) : DefaultRouteFor(s, fam).index = IndexIn(scene, r.name)

LEMMA FoundBy ==
  ASSUME Situated, NEW metric, NEW s, ToldOf(s.routes, scene, scene, metric),
         \A fam \in Families : /\ Faithful(metric, fam)
                               /\ \A r \in Defaults(fam) : Cost(r) \in Nat
  PROVE  Finds(s)
<1> SUFFICES ASSUME NEW fam \in Families, Defaults(fam) # {}
             PROVE  \E r \in Favourites(fam) :
                       DefaultRouteFor(s, fam).index = IndexIn(scene, r.name)
  BY DEF Finds
<1>1. Faithful(metric, fam) /\ \A r \in Defaults(fam) : Cost(r) \in Nat
  OBVIOUS
<1> QED BY <1>1, FavouriteFound

LEMMA MacKeeps ==
  ASSUME Situated, OnMacos, Unmistakable(box), Marked, NEW at \in [Calls -> been], NEW s,
         s = MacSnapshot(FullThen(at), MetricsThen(at), at["v4"], at["v6"])
  PROVE  Keeps(s)
<1>1. PICK l, t, a, f, v, w : /\ l = at["links"] /\ t = at["types"] /\ a = at["addresses"]
                              /\ f = at["flags"] /\ v = at["v4"] /\ w = at["v6"]
  OBVIOUS
<1>2. l \in been /\ t \in been /\ a \in been /\ f \in been /\ v \in been /\ w \in been
  BY <1>1 DEF Calls
<1>3. None \notin Vocabulary /\ NoFunction(None)
  BY DEF Marked
<1>4. PICK full : full = MacFull(Scene[l], Scene[t], Scene[a], Scene[f], box.hidden)
  OBVIOUS
<1>5. PICK metrics : metrics = MetricsThen(at)
  OBVIOUS
<1>6. PICK routes : routes = (<<>> \o Scored(TableOf(v, "v4"), metrics, Unranked))
                                \o Scored(TableOf(w, "v6"), metrics, Unranked)
  OBVIOUS
<1>7. s.interfaces = InOrder(full) /\ s.routes = routes
  BY <1>1, <1>4, <1>5, <1>6 DEF MacSnapshot, FullThen
<1>8. HasLinks(InOrder(full))
  BY <1>2, <1>3, <1>4, MacLinksKept
<1>9. HasAddresses(InOrder(full))
  BY <1>2, <1>4, MacAddressesKept
<1>10. HasRoutes(routes)
  BY <1>2, <1>3, <1>6, MacRoutesKept
<1> QED BY <1>7, <1>8, <1>9, <1>10 DEF Keeps

LEMMA MacFinds ==
  ASSUME Situated, OnMacos, Unmistakable(box), Marked, NEW at \in [Calls -> been], NEW s,
         s = MacSnapshot(FullThen(at), MetricsThen(at), at["v4"], at["v6"]),
         been = {scene}, "order" \notin box.hidden
  PROVE  Finds(s)
<1>1. /\ at["links"] = scene /\ at["types"] = scene /\ at["addresses"] = scene
      /\ at["flags"] = scene /\ at["order"] = scene /\ at["v4"] = scene /\ at["v6"] = scene
  BY DEF Calls
<1>2. Now = Scene[scene] /\ scene \in been
  BY Surroundings
<1>3. PICK full : full = MacFull(Now, Now, Now, Now, box.hidden)
  OBVIOUS
<1>4. PICK metrics : metrics = MacMetrics(full, Now, box.hidden)
  OBVIOUS
<1>5. FullThen(at) = full
  BY <1>1, <1>2, <1>3 DEF FullThen
<1>6. MetricsThen(at) = metrics
  BY <1>1, <1>2, <1>4, <1>5 DEF MetricsThen
<1>7. PICK v \in been : v = scene
  BY <1>2
<1>8. PICK routes : routes = (<<>> \o Scored(TableOf(v, "v4"), metrics, Unranked))
                                \o Scored(TableOf(v, "v6"), metrics, Unranked)
  OBVIOUS
<1>9. s.routes = routes
  BY <1>1, <1>6, <1>7, <1>8 DEF MacSnapshot
<1>10. NoFunction(None)
  BY DEF Marked
<1>11. ToldOf(routes, scene, scene, ByService)
  BY <1>3, <1>4, <1>7, <1>8, <1>10, MacTold
<1>12. \A fam \in Families : /\ Faithful(ByService, fam)
                             /\ \A r \in Defaults(fam) : Cost(r) \in Nat
  BY MacFavourite
<1>13. PICK metric : metric = ByService
  OBVIOUS
<1> QED BY <1>9, <1>11, <1>12, <1>13, FoundBy

LEMMA WinKeeps ==
  ASSUME Situated, box.platform = "windows", Unmistakable(box), Marked,
         NEW at \in [Calls -> been], NEW s,
         s = WinSnapshot(Scene[at["links"]], Scene[at["addresses"]], Scene[at["v4"]], box.hidden)
  PROVE  Keeps(s)
<1>1. PICK l, a, v : l = at["links"] /\ a = at["addresses"] /\ v = at["v4"]
  OBVIOUS
<1>2. l \in been /\ a \in been /\ v \in been
  BY <1>1 DEF Calls
<1>3. None \notin BOOLEAN /\ NoFunction(None)
  BY DEF Marked
<1>4. PICK I : I = WinWalk(Scene[l], Scene[a], box.hidden)
  OBVIOUS
<1>5. PICK R : R = WinRoutes(WindowsRoutes(Scene[v]), LinksByLuid(WindowsAdapters(Scene[l])))
  OBVIOUS
<1>6. s.interfaces = I /\ s.routes = R
  BY <1>1, <1>4, <1>5 DEF WinSnapshot
<1>7. HasLinks(I) /\ HasAddresses(I)
  BY <1>2, <1>3, <1>4, WinInterfacesKept
<1>8. HasRoutes(R)
  BY <1>2, <1>5, WinRoutesKept
<1> QED BY <1>6, <1>7, <1>8 DEF Keeps

LEMMA WinFinds ==
  ASSUME Situated, box.platform = "windows", Unmistakable(box),
         NEW at \in [Calls -> been], NEW s,
         s = WinSnapshot(Scene[at["links"]], Scene[at["addresses"]], Scene[at["v4"]], box.hidden),
         been = {scene}
  PROVE  Finds(s)
<1>1. at["links"] = scene /\ at["v4"] = scene
  BY DEF Calls
<1>2. PICK R : R = WinRoutes(WindowsRoutes(Scene[scene]), LinksByLuid(WindowsAdapters(Scene[scene])))
  OBVIOUS
<1>3. s.routes = R
  BY <1>1, <1>2 DEF WinSnapshot
<1>4. ToldOf(R, scene, scene, Summed)
  BY <1>2, WinTold
<1>5. \A fam \in Families : /\ Faithful(Summed, fam)
                            /\ \A r \in Defaults(fam) : Cost(r) \in Nat
  BY WinFavourite
<1>6. PICK metric : metric = Summed
  OBVIOUS
<1> QED BY <1>3, <1>4, <1>5, <1>6, FoundBy

LEMMA LinuxKeeps ==
  ASSUME Situated, OnLinux, Unmistakable(box), Marked, NEW at \in [Calls -> been], NEW s,
         s = LinuxSnapshot(Scene[at["links"]], Scene[at["addresses"]],
                           Scene[at["v4"]], Scene[at["v6"]])
  PROVE  Keeps(s) /\ (been = {scene} => Finds(s))
<1>1. PICK l, a, v, w : l = at["links"] /\ a = at["addresses"] /\ v = at["v4"] /\ w = at["v6"]
  OBVIOUS
<1>2. l \in been /\ a \in been /\ v \in been /\ w \in been
  BY <1>1 DEF Calls
<1>3. PICK links : links = LinkMap(Scene[l])
  OBVIOUS
<1>4. PICK addresses : addresses = LinuxAddresses(Scene[a])
  OBVIOUS
<1>5. PICK rows : rows = (<<>> \o LinuxRoutes(Scene[v], "v4")) \o LinuxRoutes(Scene[w], "v6")
  OBVIOUS
<1>6. s = Collect(links, addresses, rows)
  BY <1>1, <1>3, <1>4, <1>5 DEF LinuxSnapshot
<1>7. PICK I, R : I = s.interfaces /\ R = s.routes
  OBVIOUS
<1>8. HasLinks(I) /\ HasAddresses(I)
  <2>1. None \notin Vocabulary
    BY DEF Marked
  <2>2. MappedAs(links, l)
    BY <1>2, <1>3, <2>1, LinuxMapped
  <2>3. I = Collect(links, addresses, rows).interfaces
    BY <1>6, <1>7
  <2> QED BY <1>2, <1>4, <2>2, <2>3, LinuxInterfacesKept
<1>9. ToldOf(R, v, w, RouteMetric)
  <2>1. R = Collect(links, addresses, rows).routes
    BY <1>6, <1>7
  <2> QED BY <1>2, <1>5, <2>1, LinuxRoutesAre
<1>10. HasRoutes(R)
  BY <1>2, <1>9, ToldKept
<1>11. CASE been = {scene}
  <2>1. v = scene /\ w = scene
    BY <1>2, <1>11
  <2>2. ToldOf(s.routes, scene, scene, RouteMetric)
    BY <1>7, <1>9, <2>1
  <2>3. \A fam \in Families : /\ Faithful(RouteMetric, fam)
                              /\ \A r \in Defaults(fam) : Cost(r) \in Nat
    BY LinuxFavourite
  <2>4. PICK metric : metric = RouteMetric
    OBVIOUS
  <2>5. Finds(s)
    BY <2>2, <2>3, <2>4, FoundBy
  <2> QED BY <1>7, <1>8, <1>10, <2>5 DEF Keeps
<1> QED BY <1>7, <1>8, <1>10, <1>11 DEF Keeps

LEMMA SnapshotKeeps ==
  ASSUME Situated, Made, Unmistakable(box), Marked, Ready
  PROVE  /\ Keeps(result)
         /\ (been = {scene} /\ "order" \notin box.hidden) => Finds(result)
<1>1. PICK at \in [Calls -> been] : MadeAt(at)
  BY DEF Made
<1>2. PICK s : s = result
  OBVIOUS
<1>3. box.platform \in {"macos", "windows", "linux"}
  BY Surroundings
<1>4. CASE box.platform = "macos"
  <2>1. OnMacos
    BY <1>4 DEF OnMacos
  <2>2. s = MacSnapshot(FullThen(at), MetricsThen(at), at["v4"], at["v6"])
    BY <1>1, <1>2, <2>1 DEF MadeAt, MacMade
  <2>3. Keeps(s)
    BY <2>1, <2>2, MacKeeps
  <2>4. (been = {scene} /\ "order" \notin box.hidden) => Finds(s)
    BY <2>1, <2>2, MacFinds
  <2> QED BY <1>2, <2>3, <2>4
<1>5. CASE box.platform = "windows"
  <2>1. s = WinSnapshot(Scene[at["links"]], Scene[at["addresses"]], Scene[at["v4"]], box.hidden)
    BY <1>1, <1>2, <1>5 DEF MadeAt, WinMade
  <2>2. Keeps(s)
    BY <1>5, <2>1, WinKeeps
  <2>3. been = {scene} => Finds(s)
    BY <1>5, <2>1, WinFinds
  <2> QED BY <1>2, <2>2, <2>3
<1>6. CASE box.platform = "linux"
  <2>1. OnLinux
    BY <1>6 DEF OnLinux
  <2>2. s = LinuxSnapshot(Scene[at["links"]], Scene[at["addresses"]],
                          Scene[at["v4"]], Scene[at["v6"]])
    BY <1>1, <1>2, <2>1 DEF MadeAt, LinuxMade
  <2>3. Keeps(s) /\ (been = {scene} => Finds(s))
    BY <2>1, <2>2, LinuxKeeps
  <2> QED BY <1>2, <2>3
<1> QED BY <1>3, <1>4, <1>5, <1>6

LEMMA AllKept ==
  ASSUME Situated, Made, Enough, Unmistakable(box), Marked
  PROVE  NothingLost
<1>1. ASSUME Ready
      PROVE  /\ Cardinality({i.name : i \in Reported}) = Len(result.interfaces)
             /\ LinksKept /\ AddressesKept /\ RoutesKept
  <2>1. HasLinks(result.interfaces) /\ HasAddresses(result.interfaces) /\ HasRoutes(result.routes)
    BY <1>1, SnapshotKeeps DEF Keeps
  <2>2. Reported = ToSet(result.interfaces) /\ ReportedRoutes = ToSet(result.routes)
    BY <1>1 DEF Reported, ReportedRoutes
  <2>3. Cardinality({i.name : i \in Reported}) = Len(result.interfaces) /\ LinksKept
    BY <2>1, <2>2 DEF HasLinks, LinksKept
  <2>4. AddressesKept
    BY <2>1, <2>2 DEF HasAddresses, AddressesKept
  <2>5. RoutesKept
    BY <2>1, <2>2 DEF HasRoutes, RoutesKept
  <2> QED BY <2>3, <2>4, <2>5
<1>2. (been = {scene} /\ pc = "idle" /\ box.hidden \cap Needed = {}) => result # Broken
  BY DEF Enough
<1>3. ASSUME Ready, been = {scene}, "order" \notin box.hidden
      PROVE  FavouriteKept
  <2>1. Finds(result)
    BY <1>3, SnapshotKeeps
  <2> QED BY <2>1 DEF Finds, FavouriteKept
<1> QED BY <1>1, <1>2, <1>3 DEF NothingLost

\* The machine a snapshot is taken of stays the same machine.
LEMMA BoxStays ==
  ASSUME [BackendsNext]_allvars
  PROVE  box' = box
<1>1. CASE Ask \/ (\E s \in DOMAIN Scene : MoveTo(s)) \/ UNCHANGED allvars
  BY <1>1 DEF Ask, Keep, MoveTo, allvars
<1>2. \A outcome : Ends(outcome) => box' = box
  BY DEF Ends, Keep
<1>3. \A next, gathered : Goes(next, gathered) => box' = box
  BY DEF Goes, Keep
<1>4. \A next, bytes : TooSmall(next, bytes) => box' = box
  BY <1>2 DEF TooSmall, Keep
<1>5. \A table : Dumped(table) => box' = box
  <2> SUFFICES ASSUME NEW table, Dumped(table) PROVE box' = box
    OBVIOUS
  <2> QED BY <1>2 DEF Dumped, Keep
<1>6. CASE Fails \/ InterfaceTypes \/ Links \/ ListAddresses \/ AskFlags \/ InterfaceRows \/ DumpLinks
           \/ DumpAddresses \/ ForwardTable
  BY <1>2, <1>3, <1>6 DEF Fails, InterfaceTypes, Links, ListAddresses, AskFlags, InterfaceRows,
     DumpLinks, DumpAddresses, ForwardTable
<1>7. CASE ServiceOrder \/ SizeTable \/ ReadTable
  BY <1>2, <1>4, <1>5, <1>7 DEF ServiceOrder, SizeTable, ReadTable, Keep
<1>8. CASE AdaptersAddresses \/ DumpRoutes
  BY <1>2, <1>3, <1>4, <1>8 DEF AdaptersAddresses, DumpRoutes, Keep
<1> QED BY <1>1, <1>6, <1>7, <1>8 DEF BackendsNext, Proceed

(***************************************************************************)
(* linktype.rs:161, servicerank.rs:52, winroute.rs:68: of whatever machine *)
(* a snapshot is taken, on whatever system and however often it changes:   *)
(* the links, usable addresses and routes that were there all the time are *)
(* in it, each link once with its kind, each route on its interface; a     *)
(* machine that stands still and answers is never given up, and the        *)
(* default route found is one the system prefers.  No two things of a      *)
(* scene look alike (Unmistaken), and None is no answer (Marked).          *)
(***************************************************************************)
THEOREM SnapshotsLoseNothing == Marked /\ Unmistaken => (BackendsSpec => []NothingLost)
<1> SUFFICES ASSUME Marked, Unmistaken PROVE BackendsSpec => []NothingLost
  OBVIOUS
<1> DEFINE Keeping == AsItWas /\ Made /\ Enough /\ Unmistakable(box)
<1>1. BackendsInit => Keeping
  <2> SUFFICES ASSUME BackendsInit PROVE Keeping
    OBVIOUS
  <2>1. Unmistakable(box)
    BY DEF BackendsInit, Unmistaken
  <2> QED BY <2>1, InitTold, InitMade, InitEnough
<1>2. Keeping /\ [BackendsNext]_allvars => Keeping'
  <2> SUFFICES ASSUME Keeping, [BackendsNext]_allvars PROVE Keeping'
    OBVIOUS
  <2>1. Situated /\ box' = box
    BY BoxStays DEF AsItWas
  <2> USE <2>1
  <2>2. CASE Ask
    BY <2>2, AskTold, AskMade, AskEnough
  <2>3. CASE Proceed
    BY <2>3, ProceedTold, ProceedMade, ProceedEnough
  <2>4. CASE (\E s \in DOMAIN Scene : MoveTo(s)) \/ UNCHANGED allvars
    BY <2>4, RestTold, MovesMade, MovesEnough
  <2> QED BY <2>2, <2>3, <2>4 DEF BackendsNext
<1>3. Keeping => NothingLost
  BY AllKept DEF AsItWas
<1> QED BY <1>1, <1>2, <1>3, PTL DEF BackendsSpec

============================================================================
