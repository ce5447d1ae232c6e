------------------------------- MODULE Select -------------------------------
(***************************************************************************)
(* Address selection (autonet-core/src/select.rs): every address of every  *)
(* interface is disqualified or scored, and the best eligible one wins.    *)
(*                                                                         *)
(* A configuration is a record                                             *)
(*   [prefer_family, allow_loopback, allow_link_local, allow_vpn,          *)
(*    allow_container, include_down : BOOLEAN (the family apart),          *)
(*    exclude, prefer : sets of the names the patterns match,              *)
(*    require : a name or None]                                            *)
(***************************************************************************)
EXTENDS Network, FiniteSets

\* Why a candidate is out.
Disqualifications == {"NotRequiredInterface", "ExcludedByConfig", "InterfaceDown",
            "SyntheticWithoutRoute", "Loopback", "LinkLocal", "SpecialAddress",
            "FamilyMismatch"}

\* None stands for no family and for no reason.
ASSUME NoneIsNoWord == None \notin Families \cup Disqualifications

\* The module "weights", name for name.
DEFAULT_ROUTE_SAME_FAMILY == 1000
DEFAULT_ROUTE_OTHER_FAMILY == 400
HAS_GATEWAY == 25
FAMILY_MATCH == 150
TEMPORARY_ADDRESS == -20
\* A mistake: no more than a default route.
PREFERRED_LIKE_A_ROUTE == 1000
PREFERRED_INTERFACE == 2000
METRIC_DIVISOR == 10
METRIC_CAP == 1000

\* The links that need no permission to compete.
Ordinary == {"ethernet", "wireless", "bridge"}

KindDelta(config, kind) ==
    CASE kind = "ethernet" -> 250
      [] kind = "wireless" -> 200
      [] kind = "bridge"   -> 150
      [] IsSynthetic(kind) -> IF config.allow_container THEN 0 ELSE -800
      [] kind = "vpn"      -> IF config.allow_vpn THEN 50 ELSE -300
      [] OTHER             -> 0

ScopeDelta(scope) ==
    CASE scope \in {"private", "unique_local"} -> 100
      [] scope = "global" -> 60
      [] scope = "cgnat"  -> -200
      [] OTHER            -> 0

(***************************************************************************)
(* The filters, in the order they are tried: the reason is that of the     *)
(* first one that applies, None when the pair may compete.                 *)
(***************************************************************************)
Filters(s, config, interface, address) ==
    LET requested == \/ config.require = interface.name
                     \/ interface.name \in config.prefer
    IN  << [why |-> "NotRequiredInterface",
            applies |-> config.require \notin {None, interface.name}],
           [why |-> "ExcludedByConfig",
            applies |-> interface.name \in config.exclude],
           [why |-> "InterfaceDown",
            applies |-> IsDown(interface.state) /\ ~config.include_down],
           [why |-> "SyntheticWithoutRoute",
            applies |-> /\ IsSynthetic(interface.kind)
                        /\ ~config.allow_container
                        /\ ~requested
                        /\ ~HasAnyDefaultRoute(s, interface.index)],
           [why |-> "Loopback",
            applies |-> address.scope = "loopback" /\ ~config.allow_loopback],
           [why |-> "LinkLocal",
            applies |-> address.scope = "link_local" /\ ~config.allow_link_local],
           [why |-> "SpecialAddress", applies |-> address.scope = "special"],
           [why |-> "FamilyMismatch",
            applies |-> ~Admits(config.prefer_family, address.family)] >>

Disqualify(s, config, interface, address) ==
    LET filters == Filters(s, config, interface, address)
        hits    == {k \in DOMAIN filters : filters[k].applies}
    IN  IF hits = {} THEN None ELSE filters[Min(hits)].why

RouteDelta(s, index, family) ==
    CASE HasDefaultRoute(s, index, family) -> DEFAULT_ROUTE_SAME_FAMILY
      [] ~HasDefaultRoute(s, index, family) /\ HasAnyDefaultRoute(s, index) ->
            DEFAULT_ROUTE_OTHER_FAMILY
      [] OTHER -> 0

MetricDelta(metric) ==
    IF metric = None THEN 0
    ELSE -((IF metric < METRIC_CAP THEN metric ELSE METRIC_CAP) \div METRIC_DIVISOR)

Score(s, config, interface, address) ==
    LET Points(holds, points) == IF holds THEN points ELSE 0
        index  == interface.index
        family == address.family
    IN  RouteDelta(s, index, family)
        + KindDelta(config, interface.kind)
        + Points(Preferred(config.prefer_family) = family, FAMILY_MATCH)
        + ScopeDelta(address.scope)
        + Points(GatewayFor(s, index, family) # None, HAS_GATEWAY)
        + Points(address.temporary, TEMPORARY_ADDRESS)
        + MetricDelta(DefaultRouteMetric(s, index, family))
        + Points(interface.name \in config.prefer, PREFERRED_INTERFACE)

\* One interface/address pair with the verdict on it.
Evaluate(s, config, interface, address) ==
    LET why == Disqualify(s, config, interface, address)
    IN  [interface |-> interface, address |-> address, disqualified |-> why,
         score |-> IF why = None THEN Score(s, config, interface, address) ELSE 0]

\* Every pair, by its position in the enumeration: the interface's and, on it,
\* the address's.
Candidates(s, config) ==
    [p \in UNION {{i} \X DOMAIN s.interfaces[i].addresses : i \in DOMAIN s.interfaces} |->
        Evaluate(s, config, s.interfaces[p[1]], s.interfaces[p[1]].addresses[p[2]])]

Eligible(all) == {p \in DOMAIN all : all[p].disqualified = None}

\* The candidates that no filter removed.
Running(s, config) ==
    LET all == Candidates(s, config) IN {all[p] : p \in Eligible(all)}

\* A mistake: the address left out of the comparison.
BeatsByIndex(a, b) ==
    \/ a.score > b.score
    \/ a.score = b.score /\ a.interface.index < b.interface.index

\* The comparison candidates are sorted by, the eligible ones apart: higher
\* score, then lower interface index, then lower address.
Beats(a, b) ==
    \/ a.score > b.score
    \/ a.score = b.score /\ a.interface.index < b.interface.index
    \/ /\ a.score = b.score /\ a.interface.index = b.interface.index
       /\ a.address.ip < b.address.ip

\* The sort is stable: a tie is broken by the order of enumeration.
Precedes(all, p, q) ==
    \/ Beats(all[p], all[q])
    \/ /\ ~Beats(all[q], all[p])
       /\ p[1] < q[1] \/ (p[1] = q[1] /\ p[2] < q[2])

\* The first of some candidates after the sort.
FirstSorted(all, some) == CHOOSE p \in some : \A q \in some \ {p} : Precedes(all, p, q)

\* The first eligible candidate is taken.
Selected(s, config) ==
    LET all  == Candidates(s, config)
        best == all[FirstSorted(all, Eligible(all))]
    IN  IF Eligible(all) = {} THEN None
        ELSE [ip        |-> best.address.ip,
              family    |-> best.address.family,
              scope     |-> best.address.scope,
              interface |-> best.interface.name,
              index     |-> best.interface.index,
              kind      |-> best.interface.kind,
              gateway   |-> GatewayFor(s, best.interface.index, best.address.family),
              score     |-> best.score]

\* What the user asked to be left out is no fault of the network's.
Narrowing == {"NotRequiredInterface", "ExcludedByConfig"}

(***************************************************************************)
(* Why no address was selected, as far as what is said of it differs.  The *)
(* most common reason is the last of those most common, in the order in    *)
(* which the sorted candidates first give them.                            *)
(***************************************************************************)
FailureReason(s, config) ==
    LET all        == Candidates(s, config)
        considered == {p \in DOMAIN all : all[p].disqualified \notin Narrowing \cup {None}}
        inFamily   == {p \in DOMAIN all : Admits(config.prefer_family, all[p].address.family)}
        scopes     == {all[p].address.scope : p \in inFamily}
        reasons    == {all[p].disqualified : p \in considered}
        Giving(why) == {p \in considered : all[p].disqualified = why}
        First(why) == FirstSorted(all, Giving(why))
        most == {w \in reasons : \A o \in reasons :
                    Cardinality(Giving(o)) <= Cardinality(Giving(w))}
        last == {w \in most : \A o \in most \ {w} : Precedes(all, First(o), First(w))}
    IN  CASE all = <<>> -> <<"no addresses">>
          [] all # <<>> /\ considered = {} ->
                IF \E p \in DOMAIN all : all[p].disqualified = "NotRequiredInterface"
                THEN <<"requested interface unusable">>
                ELSE <<"every interface excluded">>
          [] OTHER ->
                IF inFamily # {} /\ ~\E scope \in scopes : IsReachableByPeers(scope)
                THEN <<"no address for peers", Preferred(config.prefer_family), scopes>>
                ELSE <<"most common", CHOOSE w \in last : TRUE, Cardinality(considered)>>

============================================================================
