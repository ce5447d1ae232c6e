------------------------------ MODULE MCWatch ------------------------------
(***************************************************************************)
(* The observation loop over the real snapshot, selector and differ, on a  *)
(* laptop that moves between a wired and a wireless network.               *)
(***************************************************************************)
EXTENDS Watch, Netlink, Select, Event, TLC

Wired    == [name |-> "eth", kind |-> "ethernet", oper |-> "up", admin |-> TRUE]
Wireless == [name |-> "wlan", kind |-> "wireless", oper |-> "up", admin |-> TRUE]
Tunnel   == [name |-> "wg", kind |-> "vpn", oper |-> None, admin |-> TRUE]

Addr(i, ip) == [index |-> i, ip |-> ip, family |-> "v4", scope |-> "private",
                secondary |-> FALSE, dadfailed |-> FALSE]

Route(i, metric, gateway) ==
    [type |-> "unicast", default |-> TRUE, family |-> "v4", index |-> i,
     metric |-> metric, gateway |-> gateway]

Config == [prefer_family |-> "v4", allow_loopback |-> FALSE,
           allow_link_local |-> FALSE, allow_vpn |-> FALSE,
           allow_container |-> FALSE, include_down |-> FALSE,
           exclude |-> {}, prefer |-> {}, require |-> None]

Seen(s) == Collect(s.links, s.addresses, s.routes)

\* Evaluated once for every snapshot and every pair; @@ makes TLC do it early.
Choice == [s \in Snapshots |-> Selected(Seen(s), Config)] @@ <<>>
Gate   == [p \in Snapshots \X Snapshots |->
             AffectsSelection(Diff(Seen(p[1]), Seen(p[2])))] @@ <<>>

MCResolve(s) == Choice[s]
MCAnswer(selection) ==
    IF selection = None THEN None ELSE <<selection.ip, selection.interface>>
MCAffects(a, b) == Gate[<<a, b>>]
MCRequested(s) == InterfaceByName(Seen(s), "wlan") # {}

(* The cable and the access point come and go, each with its address and   *)
(* its route; dumps taken in between mix them.                             *)
LanLinks == {<<Wired, Wireless>>, <<[Wired EXCEPT !.oper = "down"], Wireless>>}
LanAddresses == {<<Addr(1, 10), Addr(2, 20)>>, <<Addr(2, 20)>>, <<Addr(2, 21)>>}
LanRoutes == {<<Route(1, 100, 1), Route(2, 600, 2)>>, <<Route(2, 600, 2)>>}

(* A tunnel carries the best default route while the wireless link's own   *)
(* route goes.                                                             *)
TunnelLinks == {<<Wireless, Tunnel>>}
TunnelAddresses == {<<Addr(1, 20), Addr(2, 30)>>, <<Addr(2, 30)>>}
TunnelRoutes == {<<Route(1, 600, 1), Route(2, 50, None)>>, <<Route(2, 50, None)>>}

============================================================================
