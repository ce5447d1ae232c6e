------------------------------ MODULE Netlink ------------------------------
(***************************************************************************)
(* How the Linux backend builds a snapshot                                 *)
(* (autonet-platform/src/linux/netlink.rs): three dumps - links, addresses *)
(* and routes - taken one after the other and joined by interface index.   *)
(*                                                                         *)
(* The kernel's side of it, what the dumps report, is a record             *)
(*   [links     : a function from the indices in use to                    *)
(*                [name, kind, oper, admin],                               *)
(*    addresses : Seq([index, ip, family, scope, secondary, dadfailed]),   *)
(*    routes    : Seq([type, default, family, index, metric, gateway])]    *)
(***************************************************************************)
EXTENDS Network

\* IF_OPER_* onto the coarser state; the administrative flag decides only
\* where the kernel reports no operational state at all.
InterfaceState(oper, admin) ==
    CASE oper = "up" -> "up"
      [] oper \in {"down", "not_present", "lower_layer_down"} -> "down"
      [] oper \in {"dormant", "testing"} -> "dormant"
      [] oper = None /\ ~admin -> "down"
      [] OTHER -> "unknown"

\* IFA_F_TEMPORARY and IFA_F_SECONDARY are one bit, temporary only on IPv6.
AddressFrom(a) ==
    [ip |-> a.ip, family |-> a.family, scope |-> a.scope,
     temporary |-> a.family = "v6" /\ a.secondary]

\* An address that failed duplicate-address detection is someone else's.
AddressesAt(addresses, index) ==
    Picked([k \in DOMAIN addresses |-> AddressFrom(addresses[k])],
           {k \in DOMAIN addresses : addresses[k].index = index /\ ~addresses[k].dadfailed})

InterfaceFrom(links, addresses, index) ==
    LET link == links[index]
    IN  [name |-> link.name, index |-> index, kind |-> link.kind,
         state |-> InterfaceState(link.oper, link.admin),
         addresses |-> AddressesAt(addresses, index)]

NetlinkRoute(r) ==
    [default |-> r.default, family |-> r.family, index |-> r.index,
     metric |-> r.metric, gateway |-> r.gateway]

\* The routes of one family that lead somewhere.
CollectRoutes(routes, family) ==
    Picked([k \in DOMAIN routes |-> NetlinkRoute(routes[k])],
           {k \in DOMAIN routes : routes[k].type = "unicast" /\ routes[k].family = family})

\* Interfaces come out of a BTreeMap, so in index order; an address whose
\* index no dumped link has is dropped; IPv4 routes are dumped before IPv6.
Collect(links, addresses, routes) ==
    [interfaces |-> Picked([i \in DOMAIN links |-> InterfaceFrom(links, addresses, i)],
                           DOMAIN links),
     routes |-> CollectRoutes(routes, "v4") \o CollectRoutes(routes, "v6")]

============================================================================
