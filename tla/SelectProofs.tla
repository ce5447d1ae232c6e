---------------------------- MODULE SelectProofs ----------------------------
(***************************************************************************)
(* What the selector does with any snapshot and under every configuration: *)
(* a score is the sum of its parts, the sort has a first element, and what *)
(* is selected is an eligible candidate that none comes before.            *)
(***************************************************************************)
EXTENDS Select, WellFoundedInduction, FiniteSetTheorems, TLAPS

----------------------------------------------------------------------------
(***************************************************************************)
(* Least elements.  A set of naturals that is not empty has one, which is  *)
(* the library's well-foundedness of < with the relation named, so that    *)
(* the solvers need not look into it.                                      *)
(***************************************************************************)
LEMMA LessRelates == ASSUME NEW x \in Nat, NEW y \in Nat PROVE y < x => <<y, x>> \in OpToRel(<, Nat)
  BY Zenon DEF OpToRel

LEMMA Founded == \E R : IsWellFoundedOn(R, Nat) /\ \A x, y \in Nat : y < x => <<y, x>> \in R
<1>1. \A x, y \in Nat : y < x => <<y, x>> \in OpToRel(<, Nat)
  BY LessRelates, Zenon
<1> QED BY <1>1, NatLessThanWellFounded, Zenon

LEMMA LeastNumber ==
  ASSUME NEW T, T \subseteq Nat, T # {}
  PROVE  \E x \in T : \A y \in T : x <= y
<1>1. PICK R : IsWellFoundedOn(R, Nat) /\ \A x, y \in Nat : y < x => <<y, x>> \in R
  BY Founded
<1>2. \E x \in T : \A y \in T : ~ (<<y, x>> \in R)
  BY <1>1, WFMin
<1>3. PICK x \in T : \A y \in T : ~ (<<y, x>> \in R)
  BY <1>2
<1>4. ASSUME NEW y \in T PROVE x <= y
  <2>1. x \in Nat /\ y \in Nat
    OBVIOUS
  <2>2. ~(y < x)
    BY <1>1, <1>3, <2>1, Zenon
  <2> QED BY <2>1, <2>2
<1> QED BY <1>4

\* Min is one of the elements.
LEMMA MinIsLeast ==
  ASSUME NEW T, T \subseteq Nat, T # {}
  PROVE  Min(T) \in T /\ \A y \in T : Min(T) <= y
  BY LeastNumber DEF Min

----------------------------------------------------------------------------
(***************************************************************************)
(* Filtering: the positions picked are those of the set, each once.  The   *)
(* rank of a position in the set numbers it from 1 to its size.            *)
(***************************************************************************)
Rank(S, i) == Cardinality({j \in S : j <= i})

LEMMA RankCounts ==
  ASSUME NEW S, S \subseteq Nat, IsFiniteSet(S)
  PROVE  /\ Cardinality(S) \in Nat
         /\ \A i \in S : Rank(S, i) \in 1..Cardinality(S)
         /\ \A i, j \in S : i < j => Rank(S, i) < Rank(S, j)
<1>1. Cardinality(S) \in Nat
  BY FS_CardinalityType
<1>2. ASSUME NEW i \in S PROVE Rank(S, i) \in 1..Cardinality(S)
  <2>1. {j \in S : j <= i} \in SUBSET S /\ i \in {j \in S : j <= i}
    OBVIOUS
  <2>2. IsFiniteSet({j \in S : j <= i}) /\ Rank(S, i) <= Cardinality(S) /\ Rank(S, i) \in Nat
    BY <1>1, <2>1, FS_Subset, FS_CardinalityType DEF Rank
  <2>3. Rank(S, i) # 0
    BY <2>1, <2>2, FS_EmptySet DEF Rank
  <2> QED BY <1>1, <2>2, <2>3
<1>3. ASSUME NEW i \in S, NEW j \in S, i < j PROVE Rank(S, i) < Rank(S, j)
  <2> DEFINE I == {k \in S : k <= i}
             J == {k \in S : k <= j}
  <2>1. i \in Nat /\ j \in Nat /\ \A k \in S : k \in Nat
    OBVIOUS
  <2>2. j <= j /\ ~(j <= i)
    BY <1>3, <2>1
  <2>3. J \in SUBSET S /\ j \in J /\ j \notin I
    BY <2>2
  <2>4. \A k \in Nat : k <= i => k <= j
    BY <1>3, <2>1
  <2>5. I \in SUBSET J
    BY <2>1, <2>4
  <2>6. IsFiniteSet(J) /\ IsFiniteSet(I)
    BY <2>3, <2>5, FS_Subset
  <2>7. Cardinality(I) <= Cardinality(J) /\ Cardinality(I) # Cardinality(J)
    BY <2>3, <2>6, <2>5, FS_Subset
  <2>8. Cardinality(I) \in Nat /\ Cardinality(J) \in Nat
    BY <2>6, FS_CardinalityType
  <2> QED BY <2>7, <2>8 DEF Rank
<1> QED BY <1>1, <1>2, <1>3

\* Every number up to the size is the rank of one position.
LEMMA RankOnto ==
  ASSUME NEW S, S \subseteq Nat, IsFiniteSet(S)
  PROVE  /\ \A i, j \in S : Rank(S, i) = Rank(S, j) => i = j
         /\ \A k \in 1..Cardinality(S) : \E i \in S : Rank(S, i) = k
<1> DEFINE rank == [i \in S |-> Rank(S, i)]
           N == 1..Cardinality(S)
<1>1. /\ Cardinality(S) \in Nat
      /\ \A i \in S : Rank(S, i) \in N
      /\ \A i, j \in S : i < j => Rank(S, i) < Rank(S, j)
  BY RankCounts
<1>2. ASSUME NEW i \in S, NEW j \in S, Rank(S, i) = Rank(S, j) PROVE i = j
  <2>1. ~(i < j) /\ ~(j < i)
    BY <1>1, <1>2
  <2>2. i \in Nat /\ j \in Nat
    OBVIOUS
  <2> QED BY <2>1, <2>2
<1>3. rank \in Injection(S, N)
  BY <1>1, <1>2 DEF Injection, IsInjective
<1>4. IsFiniteSet(N) /\ Cardinality(N) = Cardinality(S)
  BY <1>1, FS_Interval
<1>5. rank \in Surjection(S, N)
  BY <1>3, <1>4, FS_Injection
<1>6. ASSUME NEW k \in N PROVE \E i \in S : Rank(S, i) = k
  BY <1>5 DEF Surjection
<1> QED BY <1>2, <1>6

\* A filtered list has what is at the positions, and nothing else; where no two
\* of the positions hold the same, nor do two places of the list.
HoldsOf(list, seq, S) ==
    /\ \E n \in Nat : DOMAIN list = 1..n
    /\ \A k \in DOMAIN list : \E i \in S : list[k] = seq[i]
    /\ \A i \in S : \E k \in DOMAIN list : list[k] = seq[i]
    /\ (\A i, j \in S : seq[i] = seq[j] => i = j)
          => \A k, l \in DOMAIN list : list[k] = list[l] => k = l

LEMMA PickedKeeps ==
  ASSUME NEW seq, NEW S, S \subseteq Nat, IsFiniteSet(S)
  PROVE  HoldsOf(Picked(seq, S), seq, S)
<1> DEFINE N == 1..Cardinality(S)
           at == [k \in N |-> CHOOSE i \in S : Rank(S, i) = k]
           list == Picked(seq, S)
<1>1. Cardinality(S) \in Nat /\ \A i \in S : Rank(S, i) \in N
  BY RankCounts
<1>2. \A k \in N : at[k] \in S /\ Rank(S, at[k]) = k
  BY RankOnto
<1>3. \A i \in S : at[Rank(S, i)] = i
  BY <1>1, <1>2, RankOnto
<1>4. \A k, l \in N : at[k] = at[l] => k = l
  BY <1>2
<1>5. list = [k \in N |-> seq[at[k]]]
  BY DEF Picked, Rank
<1> HIDE DEF at, list
<1>6. DOMAIN list = N /\ \A k \in N : list[k] = seq[at[k]]
  BY <1>5
<1>7. \A i \in S : list[Rank(S, i)] = seq[i]
  BY <1>1, <1>3, <1>6
<1>8. HoldsOf(list, seq, S)
  <2>1. \A k \in DOMAIN list : \E i \in S : list[k] = seq[i]
    BY <1>2, <1>6
  <2>2. \A i \in S : \E k \in DOMAIN list : list[k] = seq[i]
    BY <1>1, <1>6, <1>7
  <2>3. ASSUME \A i, j \in S : seq[i] = seq[j] => i = j,
               NEW k \in DOMAIN list, NEW l \in DOMAIN list, list[k] = list[l]
        PROVE  k = l
    <3>1. k \in N /\ l \in N
      BY <1>6
    <3>2. /\ at[k] \in S /\ list[k] = seq[at[k]]
          /\ at[l] \in S /\ list[l] = seq[at[l]]
      BY <1>2, <1>6, <3>1
    <3> HIDE DEF N
    <3>3. seq[at[k]] = seq[at[l]]
      BY <2>3, <3>2
    <3>4. at[k] = at[l]
      BY <2>3, <3>2, <3>3
    <3> QED BY <1>4, <3>1, <3>4
  <2> QED BY <1>1, <1>6, <2>1, <2>2, <2>3 DEF HoldsOf
<1> QED BY <1>8 DEF list

----------------------------------------------------------------------------
\* Some element has the least key.
LEMMA LeastKey ==
  ASSUME NEW S, S # {}, NEW key \in [S -> Nat]
  PROVE  \E p \in S : \A q \in S : key[p] <= key[q]
<1> DEFINE T == {key[p] : p \in S}
<1>1. T \subseteq Nat /\ T # {}
  OBVIOUS
<1> HIDE DEF T
<1>2. PICK x \in T : \A y \in T : x <= y
  BY <1>1, LeastNumber
<1> QED BY <1>2 DEF T

----------------------------------------------------------------------------
(***************************************************************************)
(* The parts of a score.                                                   *)
(***************************************************************************)
\* Of the routes of a link, the cheapest has a metric, and where there is none
\* there is no metric.
LEMMA MetricOfARoute ==
  ASSUME NEW s, WellFormed(s), NEW index, NEW family
  PROVE  DefaultRouteMetric(s, index, family) \in Nat \cup {None}
<1> DEFINE at == DefaultRoutesVia(s, index, family)
           least == {k \in at : \A other \in at : ~(s.routes[other].metric < s.routes[k].metric)}
<1>1. least \subseteq DOMAIN s.routes /\ DOMAIN s.routes \subseteq Nat
  BY DEF WellFormed, DefaultRoutesVia, DefaultRoutes
<1>2. CASE least = {}
  <2>1. CheapestRoute(s, index, family) = None
    BY <1>2 DEF CheapestRoute, FirstLeast
  <2> QED BY <2>1 DEF DefaultRouteMetric
<1>3. CASE least # {}
  <2>1. Min(least) \in DOMAIN s.routes
    BY <1>1, <1>3, MinIsLeast
  <2>2. CheapestRoute(s, index, family) = s.routes[Min(least)]
    BY <1>3 DEF CheapestRoute, FirstLeast
  <2>3. s.routes[Min(least)].metric \in Nat
    BY <2>1 DEF WellFormed
  <2> QED BY <2>2, <2>3 DEF DefaultRouteMetric
<1> QED BY <1>2, <1>3

LEMMA MetricRange ==
  ASSUME NEW m \in Nat \cup {None}
  PROVE  MetricDelta(m) \in -100..0
<1>1. CASE m = None
  BY <1>1 DEF MetricDelta
<1>2. CASE m # None
  <2>1. m \in Nat
    BY <1>2
  <2> QED BY <1>2, <2>1 DEF MetricDelta, METRIC_CAP, METRIC_DIVISOR
<1> QED BY <1>1, <1>2

LEMMA KindRange ==
  ASSUME NEW config, NEW kind
  PROVE  /\ KindDelta(config, kind) \in -800..250
         /\ kind \in Ordinary => KindDelta(config, kind) >= 150
         /\ kind = "vpn" /\ ~config.allow_vpn => KindDelta(config, kind) = -300
         /\ ~IsSynthetic(kind) => KindDelta(config, kind) >= -300
<1>1. CASE kind = "ethernet"
  BY <1>1 DEF KindDelta, Ordinary, IsSynthetic
<1>2. CASE kind = "wireless"
  BY <1>2 DEF KindDelta, Ordinary, IsSynthetic
<1>3. CASE kind = "bridge"
  BY <1>3 DEF KindDelta, Ordinary, IsSynthetic
<1>4. CASE IsSynthetic(kind)
  BY <1>4 DEF KindDelta, Ordinary, IsSynthetic
<1>5. CASE kind = "vpn"
  BY <1>5 DEF KindDelta, Ordinary, IsSynthetic
<1>6. CASE kind \notin {"ethernet", "wireless", "bridge", "vpn"} /\ ~IsSynthetic(kind)
  BY <1>6 DEF KindDelta, Ordinary, IsSynthetic
<1> QED BY <1>1, <1>2, <1>3, <1>4, <1>5, <1>6

LEMMA ScopeRange ==
  ASSUME NEW scope
  PROVE  ScopeDelta(scope) \in -200..100
  BY DEF ScopeDelta

LEMMA RouteRange ==
  ASSUME NEW s, NEW index, NEW family
  PROVE  /\ RouteDelta(s, index, family) \in 0..1000
         /\ HasDefaultRoute(s, index, family) => RouteDelta(s, index, family) = 1000
         /\ ~HasDefaultRoute(s, index, family) => RouteDelta(s, index, family) <= 400
<1>1. CASE HasDefaultRoute(s, index, family)
  BY <1>1 DEF RouteDelta, DEFAULT_ROUTE_SAME_FAMILY
<1>2. CASE ~HasDefaultRoute(s, index, family) /\ HasAnyDefaultRoute(s, index)
  BY <1>2 DEF RouteDelta, DEFAULT_ROUTE_OTHER_FAMILY
<1>3. CASE ~HasDefaultRoute(s, index, family) /\ ~HasAnyDefaultRoute(s, index)
  BY <1>3 DEF RouteDelta
<1> QED BY <1>1, <1>2, <1>3

\* What a matching family is worth, and an explicit preference.
Matched(config, family) == IF Preferred(config.prefer_family) = family THEN FAMILY_MATCH ELSE 0
Favoured(config, name) == IF name \in config.prefer THEN PREFERRED_INTERFACE ELSE 0

\* A score is the route, the kind, the family and the preference, and between
\* -320 and 125 points for the rest.
SumsTo(score, s, config, link, address) ==
    \E rest \in -320..125 :
        score = RouteDelta(s, link.index, address.family) + KindDelta(config, link.kind)
                + Matched(config, address.family) + Favoured(config, link.name) + rest

LEMMA ScoreParts ==
  ASSUME NEW s, WellFormed(s), NEW config, NEW i \in DOMAIN s.interfaces,
         NEW a \in DOMAIN s.interfaces[i].addresses
  PROVE  LET link == s.interfaces[i]
             address == link.addresses[a]
         IN  SumsTo(Score(s, config, link, address), s, config, link, address)
<1> DEFINE link == s.interfaces[i]
           address == link.addresses[a]
           metric == MetricDelta(DefaultRouteMetric(s, link.index, address.family))
           scope == ScopeDelta(address.scope)
           gateway == IF GatewayFor(s, link.index, address.family) # None THEN HAS_GATEWAY ELSE 0
           temporary == IF address.temporary THEN TEMPORARY_ADDRESS ELSE 0
           index == link.index
           family == address.family
           has == link.kind
           route == RouteDelta(s, index, family)
           kind == KindDelta(config, has)
           matched == Matched(config, address.family)
           named == Favoured(config, link.name)
<1>1. metric \in -100..0
  BY MetricOfARoute, MetricRange
<1>2. scope \in -200..100
  BY ScopeRange
<1>3. gateway \in 0..25
  BY DEF HAS_GATEWAY
<1>4. temporary \in -20..0
  BY DEF TEMPORARY_ADDRESS
<1>5. route \in Int /\ kind \in Int
  <2> HIDE DEF index, family, has
  <2>1. route \in 0..1000
    BY RouteRange
  <2>2. kind \in -800..250
    BY KindRange
  <2> HIDE DEF route, kind
  <2> QED BY <2>1, <2>2
<1>6. matched \in Int /\ named \in Int
  BY DEF Matched, Favoured, FAMILY_MATCH, PREFERRED_INTERFACE
<1>7. Score(s, config, link, address) =
        route + kind + matched + scope + gateway + temporary + metric + named
  BY DEF Score, Matched, Favoured
<1> HIDE DEF metric, scope, gateway, temporary, route, kind, matched, named
<1>8. scope + gateway + temporary + metric \in -320..125
  BY <1>1, <1>2, <1>3, <1>4
<1>9. route + kind + matched + scope + gateway + temporary + metric + named
        = route + kind + matched + named + (scope + gateway + temporary + metric)
  BY <1>1, <1>2, <1>3, <1>4, <1>5, <1>6
<1>10. \E rest \in -320..125 :
          Score(s, config, link, address) = route + kind + matched + named + rest
  BY <1>7, <1>8, <1>9
<1> QED BY <1>10 DEF route, kind, matched, named, SumsTo

----------------------------------------------------------------------------
(***************************************************************************)
(* The candidates, and the one the sort puts first.                        *)
(***************************************************************************)
Pair(s, p) == p[1] \in DOMAIN s.interfaces /\ p[2] \in DOMAIN s.interfaces[p[1]].addresses

LEMMA CandidateAt ==
  ASSUME NEW s, WellFormed(s), NEW config, NEW p \in DOMAIN Candidates(s, config)
  PROVE  /\ p[1] \in Nat /\ p[2] \in Nat /\ p = <<p[1], p[2]>>
         /\ Pair(s, p)
         /\ Candidates(s, config)[p] =
                Evaluate(s, config, s.interfaces[p[1]], s.interfaces[p[1]].addresses[p[2]])
<1>1. PICK i \in DOMAIN s.interfaces : p \in {i} \X DOMAIN s.interfaces[i].addresses
  BY DEF Candidates
<1>2. p[1] = i /\ p[2] \in DOMAIN s.interfaces[i].addresses /\ p = <<p[1], p[2]>>
  BY <1>1
<1>3. p[1] \in Nat /\ p[2] \in Nat
  BY <1>2 DEF WellFormed
<1> QED BY <1>2, <1>3 DEF Candidates, Pair

\* What the filters let through, one clause for each reason to be out.
Admitted(s, config, link, address) ==
    /\ config.require \in {None, link.name}
    /\ link.name \notin config.exclude
    /\ IsDown(link.state) => config.include_down
    /\ address.scope = "loopback" => config.allow_loopback
    /\ address.scope = "link_local" => config.allow_link_local
    /\ address.scope # "special"
    /\ Admits(config.prefer_family, address.family)

\* A candidate that is eligible was admitted by every filter, and has its score.
LEMMA EligibleOne ==
  ASSUME NEW s, NEW config, NEW link, NEW address,
         Evaluate(s, config, link, address).disqualified = None
  PROVE  /\ Admitted(s, config, link, address)
         /\ Evaluate(s, config, link, address).score = Score(s, config, link, address)
<1> DEFINE filters == Filters(s, config, link, address)
           hits == {k \in DOMAIN filters : filters[k].applies}
<1>1. Disqualify(s, config, link, address) = None
  BY DEF Evaluate
<1>2. DOMAIN filters = 1..8
  BY DEF Filters
<1>3. \A k \in 1..8 : filters[k].why # None
  BY NoneIsNoWord DEF Filters, Disqualifications
<1>4. hits = {}
  <2>1. SUFFICES ASSUME hits # {} PROVE FALSE
    OBVIOUS
  <2>2. Min(hits) \in 1..8
    BY <1>2, <2>1, MinIsLeast
  <2>3. Disqualify(s, config, link, address) = filters[Min(hits)].why
    BY <2>1 DEF Disqualify
  <2> QED BY <1>1, <1>3, <2>2, <2>3
<1>5. \A k \in 1..8 : ~filters[k].applies
  BY <1>2, <1>4
<1>6. /\ ~filters[1].applies /\ ~filters[2].applies /\ ~filters[3].applies
      /\ ~filters[5].applies /\ ~filters[6].applies /\ ~filters[7].applies
      /\ ~filters[8].applies
  BY <1>5
<1>7. Admitted(s, config, link, address)
  BY <1>6 DEF Filters, Admitted
<1> QED BY <1>1, <1>7 DEF Evaluate

InTheRunning(s, config, c) ==
    /\ c.interface.index \in Nat /\ c.address.ip \in Nat
    /\ c.address.family \in Families
    /\ Admits(config.prefer_family, c.address.family)
    /\ SumsTo(c.score, s, config, c.interface, c.address)

LEMMA ScoreSums ==
  ASSUME NEW s, WellFormed(s), NEW config, NEW p \in Eligible(Candidates(s, config))
  PROVE  InTheRunning(s, config, Candidates(s, config)[p])
<1> DEFINE link == s.interfaces[p[1]]
           address == link.addresses[p[2]]
           c == Candidates(s, config)[p]
<1>1. p \in DOMAIN Candidates(s, config) /\ c.disqualified = None
  BY DEF Eligible
<1>2. Pair(s, p) /\ c = Evaluate(s, config, link, address)
  BY <1>1, CandidateAt
<1>3. c.interface = link /\ c.address = address
  BY <1>2 DEF Evaluate
<1>4. Admits(config.prefer_family, address.family) /\ c.score = Score(s, config, link, address)
  <2> HIDE DEF link, address, c
  <2>1. /\ Admitted(s, config, link, address)
        /\ Evaluate(s, config, link, address).score = Score(s, config, link, address)
    BY <1>1, <1>2, EligibleOne
  <2> QED BY <1>2, <2>1 DEF Admitted
<1>5. link.index \in Nat /\ address.ip \in Nat /\ address.family \in Families
  BY <1>2 DEF Pair, WellFormed
<1>6. SumsTo(Score(s, config, link, address), s, config, link, address)
  BY <1>2, ScoreParts DEF Pair
<1> QED BY <1>3, <1>4, <1>5, <1>6 DEF InTheRunning

\* Every eligible candidate counts the same for its family: a preference
\* excludes the other family.
LEMMA FamilyCancels ==
  ASSUME NEW config, NEW f \in Families, NEW g \in Families,
         Admits(config.prefer_family, f), Admits(config.prefer_family, g)
  PROVE  Matched(config, f) = Matched(config, g)
<1>1. CASE config.prefer_family = "any"
  <2>1. None # f /\ None # g
    BY NoneIsNoWord
  <2> QED BY <1>1, <2>1 DEF Matched, Preferred
<1>2. CASE config.prefer_family # "any"
  BY <1>2 DEF Matched, Admits
<1> QED BY <1>1, <1>2

LEMMA ScoreBounded ==
  ASSUME NEW s, NEW config, NEW c, InTheRunning(s, config, c)
  PROVE  c.score \in Int /\ 4000 - c.score \in Nat
<1> DEFINE index == c.interface.index
           family == c.address.family
           has == c.interface.kind
           route == RouteDelta(s, index, family)
           kind == KindDelta(config, has)
           matched == Matched(config, c.address.family)
           named == Favoured(config, c.interface.name)
<1>1. PICK rest \in -320..125 : c.score = route + kind + matched + named + rest
  BY DEF InTheRunning, SumsTo
<1>2. route \in 0..1000
  <2> HIDE DEF index, family
  <2> QED BY RouteRange
<1>3. kind \in -800..250
  <2> HIDE DEF has
  <2> QED BY KindRange
<1>4. matched \in 0..150 /\ named \in 0..2000
  BY DEF Matched, Favoured, FAMILY_MATCH, PREFERRED_INTERFACE
<1> HIDE DEF route, kind, matched, named
<1> QED BY <1>1, <1>2, <1>3, <1>4

----------------------------------------------------------------------------
(***************************************************************************)
(* The sort has a first element: of the candidates with the least key      *)
(* those with the least second key, and so on through all five.            *)
(***************************************************************************)
Least(S, key) == {p \in S : \A q \in S : key[p] <= key[q]}

LEMMA LeastSome ==
  ASSUME NEW S, S # {}, NEW key, \A p \in S : key[p] \in Nat
  PROVE  Least(S, key) # {} /\ Least(S, key) \subseteq S
<1> DEFINE part == [p \in S |-> key[p]]
<1>1. part \in [S -> Nat]
  OBVIOUS
<1>2. \A p \in S : part[p] = key[p]
  OBVIOUS
<1> HIDE DEF part
<1>3. PICK p \in S : \A q \in S : part[p] <= part[q]
  BY <1>1, LeastKey
<1>4. \A q \in S : key[p] <= key[q]
  BY <1>2, <1>3
<1> QED BY <1>4 DEF Least

LEMMA SortedFirst ==
  ASSUME NEW all, NEW some, some # {},
         \A p \in some : /\ p[1] \in Nat /\ p[2] \in Nat /\ p = <<p[1], p[2]>>
                         /\ all[p].score \in Int /\ 4000 - all[p].score \in Nat
                         /\ all[p].interface.index \in Nat /\ all[p].address.ip \in Nat
  PROVE  /\ FirstSorted(all, some) \in some
         /\ \A q \in some : ~Beats(all[q], all[FirstSorted(all, some)])
<1> DEFINE loss  == [p \in some |-> 4000 - all[p].score]
           index == [p \in some |-> all[p].interface.index]
           ip    == [p \in some |-> all[p].address.ip]
           outer == [p \in some |-> p[1]]
           inner == [p \in some |-> p[2]]
<1>2. loss \in [some -> Nat] /\ index \in [some -> Nat] /\ ip \in [some -> Nat]
      /\ outer \in [some -> Nat] /\ inner \in [some -> Nat]
  OBVIOUS
<1> HIDE DEF loss, index, ip, outer, inner
<1>3. PICK S1 : S1 = Least(some, loss) /\ S1 # {} /\ S1 \subseteq some
  <2>1. some # {} /\ \A p \in some : loss[p] \in Nat
    BY <1>2
  <2>2. Least(some, loss) # {} /\ Least(some, loss) \subseteq some
    BY <2>1, LeastSome
  <2> QED BY <2>2
<1>4. PICK S2 : S2 = Least(S1, index) /\ S2 # {} /\ S2 \subseteq S1
  <2>1. S1 # {} /\ \A p \in S1 : index[p] \in Nat
    BY <1>2, <1>3
  <2>2. Least(S1, index) # {} /\ Least(S1, index) \subseteq S1
    BY <2>1, LeastSome
  <2> QED BY <2>2
<1>5. PICK S3 : S3 = Least(S2, ip) /\ S3 # {} /\ S3 \subseteq S2
  <2>1. S2 # {} /\ \A p \in S2 : ip[p] \in Nat
    BY <1>2, <1>3, <1>4
  <2>2. Least(S2, ip) # {} /\ Least(S2, ip) \subseteq S2
    BY <2>1, LeastSome
  <2> QED BY <2>2
<1>6. PICK S4 : S4 = Least(S3, outer) /\ S4 # {} /\ S4 \subseteq S3
  <2>1. S3 # {} /\ \A p \in S3 : outer[p] \in Nat
    BY <1>2, <1>3, <1>4, <1>5
  <2>2. Least(S3, outer) # {} /\ Least(S3, outer) \subseteq S3
    BY <2>1, LeastSome
  <2> QED BY <2>2
<1>7. PICK S5 : S5 = Least(S4, inner) /\ S5 # {} /\ S5 \subseteq S4
  <2>1. S4 # {} /\ \A p \in S4 : inner[p] \in Nat
    BY <1>2, <1>3, <1>4, <1>5, <1>6
  <2>2. Least(S4, inner) # {} /\ Least(S4, inner) \subseteq S4
    BY <2>1, LeastSome
  <2> QED BY <2>2
<1>8. PICK p \in S5 : p \in some /\ p \in S1 /\ p \in S2 /\ p \in S3 /\ p \in S4
  BY <1>3, <1>4, <1>5, <1>6, <1>7
<1>9. ASSUME NEW q \in some \ {p} PROVE Precedes(all, p, q)
  <2>1. CASE all[q].score < all[p].score
    BY <2>1, <1>8 DEF Precedes, Beats
  <2>2. all[q].score <= all[p].score
    <3>1. loss[p] <= loss[q]
      BY <1>8, <1>3 DEF Least
    <3> QED BY <3>1, <1>8 DEF loss
  <2>3. CASE all[q].score = all[p].score
    <3>1. q \in S1
      BY <2>3, <1>8, <1>9, <1>3 DEF Least, loss
    <3>2. all[p].interface.index <= all[q].interface.index
      <4>1. index[p] <= index[q]
        BY <3>1, <1>8, <1>4 DEF Least
      <4> QED BY <4>1, <1>8 DEF index
    <3>3. CASE all[p].interface.index < all[q].interface.index
      BY <2>3, <3>3 DEF Precedes, Beats
    <3>4. CASE all[p].interface.index = all[q].interface.index
      <4>1. q \in S2
        BY <3>1, <3>4, <1>3, <1>8, <1>4 DEF Least, index
      <4>2. all[p].address.ip <= all[q].address.ip
        <5>1. ip[p] <= ip[q]
          BY <4>1, <1>8, <1>5 DEF Least
        <5> QED BY <5>1, <1>8 DEF ip
      <4>3. CASE all[p].address.ip < all[q].address.ip
        BY <2>3, <3>4, <4>3 DEF Precedes, Beats
      <4>4. CASE all[p].address.ip = all[q].address.ip
        <5>1. q \in S3
          BY <4>1, <4>4, <1>3, <1>4, <1>8, <1>5 DEF Least, ip
        <5>2. p[1] <= q[1]
          <6>1. outer[p] <= outer[q]
            BY <5>1, <1>8, <1>6 DEF Least
          <6> QED BY <6>1, <1>8 DEF outer
        <5>3. ~Beats(all[q], all[p])
          BY <2>3, <3>4, <4>4, <1>8 DEF Beats
        <5>4. CASE p[1] < q[1]
          BY <5>3, <5>4 DEF Precedes
        <5>5. CASE p[1] = q[1]
          <6>1. q \in S4
            <7>1. outer[q] = outer[p]
              BY <5>5, <1>8 DEF outer
            <7> QED BY <5>1, <7>1, <1>8, <1>6 DEF Least
          <6>2. p[2] <= q[2]
            <7>1. inner[p] <= inner[q]
              BY <6>1, <1>8, <1>7 DEF Least
            <7> QED BY <7>1, <1>8 DEF inner
          <6>3. p[2] # q[2]
            BY <5>5, <1>8, <1>9
          <6>4. p[2] < q[2]
            BY <6>2, <6>3, <1>8, <1>9
          <6> QED BY <5>3, <5>5, <6>4 DEF Precedes
        <5> QED BY <5>2, <5>4, <5>5, <1>8
      <4> QED BY <4>2, <4>3, <4>4, <1>8
    <3> QED BY <3>2, <3>3, <3>4, <1>8
  <2> QED BY <2>1, <2>2, <2>3, <1>8
<1> DEFINE f == FirstSorted(all, some)
<1>10. f \in some /\ \A q \in some \ {f} : Precedes(all, f, q)
  BY <1>8, <1>9 DEF FirstSorted
<1>11. ASSUME NEW q \in some PROVE ~Beats(all[q], all[f])
  <2>1. /\ all[f].score \in Int /\ all[q].score \in Int
        /\ all[f].interface.index \in Nat /\ all[q].interface.index \in Nat
        /\ all[f].address.ip \in Nat /\ all[q].address.ip \in Nat
    BY <1>10
  <2>2. CASE q = f
    BY <2>1, <2>2 DEF Beats
  <2>3. CASE q # f
    <3>1. Precedes(all, f, q)
      BY <2>3, <1>10
    <3>2. Beats(all[f], all[q]) => ~Beats(all[q], all[f])
      BY <2>1 DEF Beats
    <3> QED BY <3>1, <3>2 DEF Precedes
  <2> QED BY <2>2, <2>3
<1> QED BY <1>10, <1>11

----------------------------------------------------------------------------
(***************************************************************************)
(* The order of importance.                                                *)
(***************************************************************************)
\* What is selected, where anything may be.
Foremost(s, config) ==
    LET all == Candidates(s, config) IN all[FirstSorted(all, Eligible(all))]

LEMMA ChosenFirst ==
  ASSUME NEW s, WellFormed(s), NEW config, NEW c \in Running(s, config)
  PROVE  /\ InTheRunning(s, config, c)
         /\ Foremost(s, config) \in Running(s, config)
         /\ InTheRunning(s, config, Foremost(s, config))
         /\ ~Beats(c, Foremost(s, config))
<1> DEFINE all == Candidates(s, config)
           b == all[FirstSorted(all, Eligible(all))]
<1>1. PICK p \in Eligible(all) : c = all[p]
  BY DEF Running
<1>2. \A q \in Eligible(all) : InTheRunning(s, config, all[q])
  BY ScoreSums
<1>3. \A q \in Eligible(all) : /\ q[1] \in Nat /\ q[2] \in Nat /\ q = <<q[1], q[2]>>
                               /\ all[q].score \in Int /\ 4000 - all[q].score \in Nat
                               /\ all[q].interface.index \in Nat /\ all[q].address.ip \in Nat
  <2>1. ASSUME NEW q \in Eligible(all)
        PROVE  /\ q[1] \in Nat /\ q[2] \in Nat /\ q = <<q[1], q[2]>>
               /\ all[q].score \in Int /\ 4000 - all[q].score \in Nat
               /\ all[q].interface.index \in Nat /\ all[q].address.ip \in Nat
    <3>1. q \in DOMAIN all
      BY DEF Eligible
    <3>2. q[1] \in Nat /\ q[2] \in Nat /\ q = <<q[1], q[2]>>
      BY <3>1, CandidateAt
    <3>3. InTheRunning(s, config, all[q])
      BY <1>2
    <3>4. all[q].score \in Int /\ 4000 - all[q].score \in Nat
      BY <3>3, ScoreBounded
    <3> QED BY <3>2, <3>3, <3>4 DEF InTheRunning
  <2> QED BY <2>1
<1>4. /\ FirstSorted(all, Eligible(all)) \in Eligible(all)
      /\ \A q \in Eligible(all) : ~Beats(all[q], b)
  <2> HIDE DEF all
  <2> QED BY <1>1, <1>3, SortedFirst
<1>5. b = Foremost(s, config)
  BY DEF Foremost
<1>6. b \in Running(s, config)
  BY <1>4 DEF Running
<1> QED BY <1>1, <1>2, <1>4, <1>5, <1>6

LEMMA ChosenIs ==
  ASSUME NEW s, NEW config, Running(s, config) # {}
  PROVE  /\ Selected(s, config).ip = Foremost(s, config).address.ip
         /\ Selected(s, config).index = Foremost(s, config).interface.index
         /\ Selected(s, config).family = Foremost(s, config).address.family
         /\ Selected(s, config).scope = Foremost(s, config).address.scope
         /\ Selected(s, config).kind = Foremost(s, config).interface.kind
         /\ Selected(s, config).interface = Foremost(s, config).interface.name
<1>1. Eligible(Candidates(s, config)) # {}
  BY DEF Running
<1> QED BY <1>1 DEF Selected, Foremost

\* The winner is a candidate in the running that none outscores.
LEMMA WinnerIsBest ==
  ASSUME NEW s, WellFormed(s), NEW config, NEW c \in Running(s, config)
  PROVE  /\ InTheRunning(s, config, c)
         /\ \E b : /\ InTheRunning(s, config, b) /\ c.score <= b.score
                   /\ Selected(s, config).index = b.interface.index
                   /\ Selected(s, config).family = b.address.family
                   /\ Selected(s, config).kind = b.interface.kind
                   /\ Selected(s, config).interface = b.interface.name
<1> DEFINE b == Foremost(s, config)
<1>1. /\ InTheRunning(s, config, c) /\ InTheRunning(s, config, b) /\ ~Beats(c, b)
  BY ChosenFirst
<1>2. c.score \in Int /\ b.score \in Int
  BY <1>1, ScoreBounded
<1>3. c.score <= b.score
  BY <1>1, <1>2 DEF Beats
<1>4. /\ Selected(s, config).index = b.interface.index
      /\ Selected(s, config).family = b.address.family
      /\ Selected(s, config).kind = b.interface.kind
      /\ Selected(s, config).interface = b.interface.name
  BY ChosenIs
<1> HIDE DEF b
<1> QED BY <1>1, <1>3, <1>4

\* Where something is selected, it is an address of the snapshot that every
\* filter admits, on the link that has it.
Wins(s, config, link, address) ==
    /\ link \in ToSet(s.interfaces) /\ address \in ToSet(link.addresses)
    /\ address.family \in Families
    /\ Admitted(s, config, link, address)
    /\ Selected(s, config).interface = link.name
    /\ Selected(s, config).index = link.index
    /\ Selected(s, config).kind = link.kind
    /\ Selected(s, config).family = address.family
    /\ Selected(s, config).scope = address.scope

LEMMA SomeAddressWins ==
  ASSUME NEW s, WellFormed(s), NEW config, Selected(s, config) # None
  PROVE  \E p \in Eligible(Candidates(s, config)) :
            /\ Pair(s, p)
            /\ Wins(s, config, s.interfaces[p[1]], s.interfaces[p[1]].addresses[p[2]])
<1> DEFINE all == Candidates(s, config)
<1>1. Eligible(all) # {}
  BY DEF Selected
<1>2. PICK c : c \in Running(s, config)
  BY <1>1 DEF Running
<1>3. Foremost(s, config) \in Running(s, config)
  BY <1>2, ChosenFirst
<1>4. PICK p \in Eligible(all) : Foremost(s, config) = all[p]
  BY <1>3 DEF Running
<1> DEFINE link == s.interfaces[p[1]]
           address == link.addresses[p[2]]
<1>5. p \in DOMAIN all /\ all[p].disqualified = None
  BY DEF Eligible
<1>6. Pair(s, p) /\ all[p] = Evaluate(s, config, link, address)
  BY <1>5, CandidateAt
<1>7. all[p].interface = link /\ all[p].address = address
  BY <1>6 DEF Evaluate
<1>8. Admitted(s, config, link, address)
  BY <1>5, <1>6, EligibleOne
<1>9. link \in ToSet(s.interfaces) /\ address \in ToSet(link.addresses)
  BY <1>6 DEF Pair, ToSet
<1>10. address.family \in Families
  BY <1>6 DEF Pair, WellFormed
<1>11. /\ Selected(s, config).interface = link.name
       /\ Selected(s, config).index = link.index
       /\ Selected(s, config).kind = link.kind
       /\ Selected(s, config).family = address.family
       /\ Selected(s, config).scope = address.scope
  BY <1>2, <1>4, <1>7, ChosenIs
<1>12. Wins(s, config, link, address)
  BY <1>8, <1>9, <1>10, <1>11 DEF Wins
<1> QED BY <1>6, <1>12

----------------------------------------------------------------------------
(***************************************************************************)
(* Why nothing was selected, told without positions: candidates that are   *)
(* the same in another order are given the same reason.                    *)
(***************************************************************************)
Considered(all) == {p \in DOMAIN all : all[p].disqualified \notin Narrowing \cup {None}}

Reasons(all) == {all[p].disqualified : p \in Considered(all)}

Giving(all, why) == {p \in Considered(all) : all[p].disqualified = why}

MostCommon(all) ==
    {w \in Reasons(all) :
        \A o \in Reasons(all) : Cardinality(Giving(all, o)) <= Cardinality(Giving(all, w))}

LastCommon(all) ==
    {w \in MostCommon(all) :
        \A o \in MostCommon(all) \ {w} :
            Precedes(all, FirstSorted(all, Giving(all, o)), FirstSorted(all, Giving(all, w)))}

InFamily(all, config) ==
    {p \in DOMAIN all : Admits(config.prefer_family, all[p].address.family)}

ScopesSeen(all, config) == {all[p].address.scope : p \in InFamily(all, config)}

Unreachable(all, config) ==
    InFamily(all, config) # {} /\ ~\E scope \in ScopesSeen(all, config) : IsReachableByPeers(scope)

NotRequired(all) == \E p \in DOMAIN all : all[p].disqualified = "NotRequiredInterface"

\* What is said, from what there is to say.
Told(none, nobody, named, unreachable, family, scopes, why, count) ==
    CASE none -> <<"no addresses">>
      [] ~none /\ nobody ->
            IF named THEN <<"requested interface unusable">>
            ELSE <<"every interface excluded">>
      [] OTHER ->
            IF unreachable THEN <<"no address for peers", family, scopes>>
            ELSE <<"most common", why, count>>

LEMMA ReasonIs ==
  ASSUME NEW s, NEW config, NEW all, all = Candidates(s, config)
  PROVE  FailureReason(s, config) =
            Told(all = <<>>, Considered(all) = {}, NotRequired(all), Unreachable(all, config),
                 Preferred(config.prefer_family), ScopesSeen(all, config),
                 CHOOSE w \in LastCommon(all) : TRUE, Cardinality(Considered(all)))
  BY DEF FailureReason, Considered, Reasons, Giving, MostCommon, LastCommon, InFamily,
         ScopesSeen, Unreachable, NotRequired, Told

\* Two candidates the comparison and the reasons cannot tell apart.
Alike(c, d) ==
    /\ c.disqualified = d.disqualified /\ c.score = d.score
    /\ c.interface.index = d.interface.index
    /\ c.address.ip = d.address.ip /\ c.address.family = d.address.family
    /\ c.address.scope = d.address.scope

\* The same candidates at other positions.
Moved(all, other, to) ==
    /\ to \in [DOMAIN all -> DOMAIN other]
    /\ \A p, q \in DOMAIN all : to[p] = to[q] => p = q
    /\ \A x \in DOMAIN other : \E p \in DOMAIN all : to[p] = x
    /\ \A p \in DOMAIN all : Alike(all[p], other[to[p]])

Ranked(all) ==
    \A p \in DOMAIN all :
        /\ p[1] \in Nat /\ p[2] \in Nat /\ p = <<p[1], p[2]>>
        /\ all[p].score \in Int /\ 4000 - all[p].score \in Nat
        /\ all[p].interface.index \in Nat /\ all[p].address.ip \in Nat

\* No two candidates are one address of one link.
Apart(all) ==
    \A p, q \in DOMAIN all :
        (/\ all[p].interface.index = all[q].interface.index
         /\ all[p].address.ip = all[q].address.ip) => p = q

LEMMA CandidatesRanked ==
  ASSUME NEW s, WellFormed(s), NEW config
  PROVE  Ranked(Candidates(s, config))
<1> DEFINE all == Candidates(s, config)
<1>1. SUFFICES ASSUME NEW p \in DOMAIN all
               PROVE  /\ p[1] \in Nat /\ p[2] \in Nat /\ p = <<p[1], p[2]>>
                      /\ all[p].score \in Int /\ 4000 - all[p].score \in Nat
                      /\ all[p].interface.index \in Nat /\ all[p].address.ip \in Nat
  BY DEF Ranked
<1> DEFINE link == s.interfaces[p[1]]
           address == link.addresses[p[2]]
<1>2. /\ p[1] \in Nat /\ p[2] \in Nat /\ p = <<p[1], p[2]>>
      /\ Pair(s, p) /\ all[p] = Evaluate(s, config, link, address)
  BY CandidateAt
<1>3. all[p].interface = link /\ all[p].address = address
  BY <1>2 DEF Evaluate
<1>4. link.index \in Nat /\ address.ip \in Nat
  BY <1>2 DEF Pair, WellFormed
<1>5. CASE all[p].disqualified = None
  <2>1. p \in Eligible(all)
    BY <1>5 DEF Eligible
  <2>2. InTheRunning(s, config, all[p])
    BY <2>1, ScoreSums
  <2>3. all[p].score \in Int /\ 4000 - all[p].score \in Nat
    BY <2>2, ScoreBounded
  <2> HIDE DEF all, link, address
  <2> QED BY <1>2, <1>3, <1>4, <2>3
<1>6. CASE all[p].disqualified # None
  <2>1. all[p].score = 0
    BY <1>2, <1>6 DEF Evaluate
  <2> HIDE DEF all, link, address
  <2> QED BY <1>2, <1>3, <1>4, <2>1
<1> QED BY <1>5, <1>6

\* Of candidates that are apart the first one beats every other.
LEMMA FirstBeats ==
  ASSUME NEW all, Ranked(all), Apart(all), NEW some, some \subseteq DOMAIN all, some # {}
  PROVE  LET f == FirstSorted(all, some)
         IN  f \in some /\ \A q \in some \ {f} : Beats(all[f], all[q]) /\ ~Beats(all[q], all[f])
<1> DEFINE f == FirstSorted(all, some)
<1>1. f \in some /\ \A q \in some : ~Beats(all[q], all[f])
  <2>1. \A p \in some : /\ p[1] \in Nat /\ p[2] \in Nat /\ p = <<p[1], p[2]>>
                        /\ all[p].score \in Int /\ 4000 - all[p].score \in Nat
                        /\ all[p].interface.index \in Nat /\ all[p].address.ip \in Nat
    BY DEF Ranked
  <2> QED BY <2>1, SortedFirst
<1> HIDE DEF f
<1>2. ASSUME NEW q \in some \ {f} PROVE Beats(all[f], all[q])
  <2>1. /\ all[f].score \in Int /\ all[q].score \in Int
        /\ all[f].interface.index \in Nat /\ all[q].interface.index \in Nat
        /\ all[f].address.ip \in Nat /\ all[q].address.ip \in Nat
    BY <1>1 DEF Ranked
  <2>2. ~(/\ all[f].interface.index = all[q].interface.index
          /\ all[f].address.ip = all[q].address.ip)
    BY <1>1 DEF Apart
  <2>3. ~Beats(all[q], all[f])
    BY <1>1
  <2> QED BY <2>1, <2>2, <2>3 DEF Beats
<1> QED BY <1>1, <1>2 DEF f

LEMMA FirstMoves ==
  ASSUME NEW all, Ranked(all), Apart(all), NEW other, Ranked(other), Apart(other),
         NEW to, Moved(all, other, to), NEW some, some \subseteq DOMAIN all, some # {},
         NEW those, those = {to[p] : p \in some}
  PROVE  FirstSorted(other, those) = to[FirstSorted(all, some)]
<1>1. those \subseteq DOMAIN other /\ those # {}
  BY DEF Moved
<1>2. PICK f \in some : /\ f = FirstSorted(all, some)
                        /\ \A q \in some \ {f} : Beats(all[f], all[q])
  BY FirstBeats
<1>3. PICK g \in those : /\ g = FirstSorted(other, those)
                         /\ \A q \in those \ {g} : ~Beats(other[q], other[g])
  BY <1>1, FirstBeats
<1>4. PICK q \in some : g = to[q]
  OBVIOUS
<1>5. SUFFICES ASSUME q # f PROVE FALSE
  BY <1>2, <1>3, <1>4
<1>6. Beats(all[f], all[q])
  BY <1>2, <1>5
<1>7. Beats(other[to[f]], other[to[q]])
  BY <1>6 DEF Moved, Alike, Beats
<1>8. to[f] \in those \ {g}
  BY <1>4, <1>5 DEF Moved
<1> QED BY <1>3, <1>4, <1>7, <1>8

LEMMA CountMoves ==
  ASSUME NEW all, NEW other, NEW to, Moved(all, other, to), IsFiniteSet(DOMAIN all),
         NEW some, some \subseteq DOMAIN all, NEW those, those = {to[p] : p \in some}
  PROVE  /\ Cardinality(those) = Cardinality(some)
         /\ those = {} <=> some = {}
<1> DEFINE f == [p \in some |-> to[p]]
<1>1. f \in [some -> those] /\ \A p, q \in some : f[p] = f[q] => p = q
  BY DEF Moved
<1>2. \A x \in those : \E p \in some : f[p] = x
  OBVIOUS
<1>3. f \in Bijection(some, those)
  BY <1>1, <1>2 DEF Bijection, Injection, Surjection, IsInjective
<1>4. IsFiniteSet(some)
  BY FS_Subset
<1>5. Cardinality(those) = Cardinality(some)
  BY <1>3, <1>4, FS_Bijection DEF ExistsBijection
<1> QED BY <1>5

LEMMA ReasonsMove ==
  ASSUME NEW all, NEW other, NEW to, Moved(all, other, to)
  PROVE  /\ Considered(other) = {to[p] : p \in Considered(all)}
         /\ \A why : Giving(other, why) = {to[p] : p \in Giving(all, why)}
         /\ Reasons(other) = Reasons(all)
         /\ NotRequired(other) <=> NotRequired(all)
         /\ \A config : /\ InFamily(other, config) = {to[p] : p \in InFamily(all, config)}
                        /\ ScopesSeen(other, config) = ScopesSeen(all, config)
<1>1. \A p \in DOMAIN all : to[p] \in DOMAIN other /\ Alike(all[p], other[to[p]])
  BY DEF Moved
<1>2. \A x \in DOMAIN other : \E p \in DOMAIN all : to[p] = x
  BY DEF Moved
<1>3. Considered(other) = {to[p] : p \in Considered(all)}
  BY <1>1, <1>2 DEF Considered, Alike
<1>4. ASSUME NEW why PROVE Giving(other, why) = {to[p] : p \in Giving(all, why)}
  BY <1>1, <1>3 DEF Giving, Considered, Alike
<1>5. \A p \in Considered(all) : other[to[p]].disqualified = all[p].disqualified
  BY <1>1 DEF Considered, Alike
<1>6. Reasons(other) = Reasons(all)
  BY <1>3, <1>5 DEF Reasons
<1>7. NotRequired(other) <=> NotRequired(all)
  BY <1>1, <1>2 DEF NotRequired, Alike
<1>8. ASSUME NEW config
      PROVE  /\ InFamily(other, config) = {to[p] : p \in InFamily(all, config)}
             /\ ScopesSeen(other, config) = ScopesSeen(all, config)
  <2>1. InFamily(other, config) = {to[p] : p \in InFamily(all, config)}
    BY <1>1, <1>2 DEF InFamily, Alike
  <2>2. \A p \in InFamily(all, config) : other[to[p]].address.scope = all[p].address.scope
    BY <1>1 DEF InFamily, Alike
  <2> QED BY <2>1, <2>2 DEF ScopesSeen
<1> QED BY <1>3, <1>4, <1>6, <1>7, <1>8

LEMMA LastMoves ==
  ASSUME NEW all, Ranked(all), Apart(all), IsFiniteSet(DOMAIN all),
         NEW other, Ranked(other), Apart(other), NEW to, Moved(all, other, to)
  PROVE  /\ LastCommon(other) = LastCommon(all)
         /\ Cardinality(Considered(other)) = Cardinality(Considered(all))
<1>1. Cardinality(Considered(other)) = Cardinality(Considered(all))
  BY ReasonsMove, CountMoves DEF Considered
<1>2. ASSUME NEW w PROVE Cardinality(Giving(other, w)) = Cardinality(Giving(all, w))
  BY ReasonsMove, CountMoves, SMTT(30) DEF Giving, Considered
<1>3. MostCommon(other) = MostCommon(all)
  BY <1>2, ReasonsMove DEF MostCommon
<1>4. ASSUME NEW w \in Reasons(all)
      PROVE  /\ FirstSorted(all, Giving(all, w)) \in Giving(all, w)
             /\ FirstSorted(other, Giving(other, w)) = to[FirstSorted(all, Giving(all, w))]
  <2>1. Giving(all, w) \subseteq DOMAIN all /\ Giving(all, w) # {}
    BY DEF Giving, Considered, Reasons
  <2>2. Giving(other, w) = {to[p] : p \in Giving(all, w)}
    BY ReasonsMove
  <2> QED BY <2>1, <2>2, FirstBeats, FirstMoves
<1>5. ASSUME NEW o \in Reasons(all), NEW w \in Reasons(all), o # w
      PROVE  Precedes(all, FirstSorted(all, Giving(all, o)), FirstSorted(all, Giving(all, w)))
             <=> Precedes(other, FirstSorted(other, Giving(other, o)),
                                 FirstSorted(other, Giving(other, w)))
  <2>1. PICK p, q : p = FirstSorted(all, Giving(all, o)) /\ q = FirstSorted(all, Giving(all, w))
    OBVIOUS
  <2>2. p \in DOMAIN all /\ q \in DOMAIN all /\ p # q
    BY <1>4, <1>5, <2>1 DEF Giving, Considered
  <2>3. to[p] \in DOMAIN other /\ to[q] \in DOMAIN other
        /\ Alike(all[p], other[to[p]]) /\ Alike(all[q], other[to[q]])
    BY <2>2 DEF Moved
  <2>4. Beats(all[p], all[q]) \/ Beats(all[q], all[p])
    BY <2>2 DEF Ranked, Apart, Beats
  <2>5. ~(Beats(all[p], all[q]) /\ Beats(all[q], all[p]))
    BY <2>2 DEF Ranked, Beats
  <2>6. /\ Beats(other[to[p]], other[to[q]]) <=> Beats(all[p], all[q])
        /\ Beats(other[to[q]], other[to[p]]) <=> Beats(all[q], all[p])
    BY <2>3 DEF Alike, Beats
  <2>7. Precedes(all, p, q) <=> Precedes(other, to[p], to[q])
    BY <2>4, <2>5, <2>6 DEF Precedes
  <2> QED BY <1>4, <2>1, <2>7
<1>6. LastCommon(other) = LastCommon(all)
  <2>1. MostCommon(all) \subseteq Reasons(all)
    BY DEF MostCommon
  <2> QED BY <1>3, <1>5, <2>1 DEF LastCommon
<1> QED BY <1>1, <1>6

\* Candidates that have only moved are given one reason.
LEMMA ReasonMoves ==
  ASSUME NEW s, NEW t, NEW config,
         NEW all, all = Candidates(s, config), NEW other, other = Candidates(t, config),
         Ranked(all), Apart(all), IsFiniteSet(DOMAIN all), Ranked(other), Apart(other),
         NEW to, Moved(all, other, to)
  PROVE  FailureReason(s, config) = FailureReason(t, config)
<1>1. all = <<>> <=> other = <<>>
  <2>1. all = [p \in DOMAIN all |-> all[p]] /\ other = [p \in DOMAIN other |-> other[p]]
    BY DEF Candidates
  <2>2. all = <<>> <=> DOMAIN all = {}
    BY <2>1
  <2>3. other = <<>> <=> DOMAIN other = {}
    BY <2>1
  <2>4. DOMAIN all = {} <=> DOMAIN other = {}
    BY DEF Moved
  <2> QED BY <2>2, <2>3, <2>4
<1>2. Considered(all) = {} <=> Considered(other) = {}
  BY ReasonsMove
<1>3. NotRequired(all) <=> NotRequired(other)
  BY ReasonsMove
<1>4. ScopesSeen(all, config) = ScopesSeen(other, config)
  BY ReasonsMove
<1>5. Unreachable(all, config) <=> Unreachable(other, config)
  <2>1. InFamily(all, config) = {} <=> InFamily(other, config) = {}
    BY ReasonsMove
  <2> QED BY <1>4, <2>1 DEF Unreachable
<1>6. LastCommon(other) = LastCommon(all)
      /\ Cardinality(Considered(other)) = Cardinality(Considered(all))
  BY LastMoves
<1>7. PICK last, count, scopes, family :
          /\ last = (CHOOSE w \in LastCommon(all) : TRUE) /\ count = Cardinality(Considered(all))
          /\ scopes = ScopesSeen(all, config) /\ family = Preferred(config.prefer_family)
  OBVIOUS
<1>8. /\ FailureReason(s, config) =
            Told(all = <<>>, Considered(all) = {}, NotRequired(all), Unreachable(all, config),
                 family, scopes, last, count)
      /\ FailureReason(t, config) =
            Told(other = <<>>, Considered(other) = {}, NotRequired(other), Unreachable(other, config),
                 family, scopes, last, count)
  BY <1>4, <1>6, <1>7, ReasonIs
<1>9. CASE all = <<>>
  BY <1>1, <1>8, <1>9 DEF Told
<1>10. CASE all # <<>> /\ Considered(all) = {}
  BY <1>1, <1>2, <1>3, <1>8, <1>10 DEF Told
<1>11. CASE all # <<>> /\ Considered(all) # {}
  BY <1>1, <1>2, <1>5, <1>8, <1>11 DEF Told
<1> QED BY <1>9, <1>10, <1>11

=============================================================================
