------------------------------ MODULE Network ------------------------------
(***************************************************************************)
(* A snapshot of the machine's network (autonet-core/src/model.rs): the    *)
(* interfaces and the routes in the order the kernel enumerated them, and  *)
(* the questions the selector and the differ ask of it.                    *)
(*                                                                         *)
(* A snapshot is [interfaces : Seq(Interface), routes : Seq(Route)] with   *)
(*   Interface = [name, index, kind, state, addresses : Seq(Address)]      *)
(*   Address   = [ip, family, scope, temporary]                            *)
(*   Route     = [default, family, index, metric, gateway]                 *)
(* IP addresses are numbers, ordered as IpAddr orders them.  Flags, MAC,   *)
(* MTU, prefix lengths and the capture time decide nothing here.           *)
(***************************************************************************)
EXTENDS Integers, Sequences, SequencesExt, FiniteSetsExt, Option, Filter

Families == {"v4", "v6"}

\* The families a preference lets through; "any" favours none of them.
Preferred(preference) == IF preference = "any" THEN None ELSE preference

Admits(preference, family) == preference \in {"any", family}

IsSynthetic(kind) == kind \in {"container", "virtual"}

\* Whether an address of this scope can be handed to another device.
IsReachableByPeers(scope) == scope \in {"private", "unique_local", "global", "cgnat"}

\* "unknown" is what a healthy tunnel reports, so only "down" counts as down.
IsDown(oper) == oper = "down"

(***************************************************************************)
(* Iterator::min_by_key over the elements that were not filtered out, those *)
(* at the positions `at`: of the elements no other one is less than, the   *)
(* first in the order of the sequence; None where nothing is left.         *)
(***************************************************************************)
FirstLeast(seq, at, Less(_, _)) ==
    LET least == {k \in at : \A other \in at : ~Less(seq[other], seq[k])}
    IN  IF least = {} THEN None ELSE seq[Min(least)]

InterfaceByName(s, name) ==
    {i \in ToSet(s.interfaces) : i.name = name}

InterfaceByIndex(s, index) ==
    {i \in ToSet(s.interfaces) : i.index = index}

\* Routes are told by their positions among the routes of a snapshot.
DefaultRoutes(s) == {k \in DOMAIN s.routes : s.routes[k].default}

\* The default routes that leave by one interface, for one family.
DefaultRoutesVia(s, index, family) ==
    {k \in DefaultRoutes(s) : s.routes[k].index = index /\ s.routes[k].family = family}

\* The best default route of a family: lowest metric, then lowest index.
DefaultRouteFor(s, family) ==
    FirstLeast(s.routes, {k \in DefaultRoutes(s) : s.routes[k].family = family},
               LAMBDA a, b : \/ a.metric < b.metric
                             \/ a.metric = b.metric /\ a.index < b.index)

HasDefaultRoute(s, index, family) == DefaultRoutesVia(s, index, family) # {}

HasAnyDefaultRoute(s, index) ==
    \E k \in DefaultRoutes(s) : s.routes[k].index = index

\* The default route of an interface that costs least; the metric and the
\* gateway the selector reads both come from here, the gateway from the FIRST
\* of several that cost the same.
CheapestRoute(s, index, family) ==
    FirstLeast(s.routes, DefaultRoutesVia(s, index, family),
               LAMBDA a, b : a.metric < b.metric)

DefaultRouteMetric(s, index, family) ==
    LET r == CheapestRoute(s, index, family)
    IN  IF r = None THEN None ELSE r.metric

GatewayFor(s, index, family) ==
    LET r == CheapestRoute(s, index, family)
    IN  IF r = None THEN None ELSE r.gateway

\* What every backend makes of its machine, in numbers the selector can order.
WellFormed(s) ==
    /\ \A i \in DOMAIN s.interfaces :
          /\ i \in Nat
          /\ s.interfaces[i].index \in Nat
          /\ \A a \in DOMAIN s.interfaces[i].addresses :
                /\ a \in Nat
                /\ s.interfaces[i].addresses[a].ip \in Nat
                /\ s.interfaces[i].addresses[a].family \in Families
                /\ s.interfaces[i].addresses[a].temporary \in BOOLEAN
    /\ \A k \in DOMAIN s.routes :
          /\ k \in Nat /\ s.routes[k] # None
          /\ s.routes[k].metric \in Nat /\ s.routes[k].index \in Nat

============================================================================
