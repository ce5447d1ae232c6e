----------------------------- MODULE MCMachine -----------------------------
(***************************************************************************)
(* Machine on small universes.  Each run takes the one whose options bring *)
(* out what it asks.                                                       *)
(***************************************************************************)
EXTENDS Machine

Link(name, kind, oper) == [name |-> name, kind |-> kind, oper |-> oper, admin |-> TRUE]

Addr(i, ip, family, scope, secondary) ==
    [index |-> i, ip |-> ip, family |-> family, scope |-> scope,
     secondary |-> secondary, dadfailed |-> FALSE]

Route(i, family, metric, gateway) ==
    [type |-> "unicast", default |-> TRUE, family |-> family, index |-> i,
     metric |-> metric, gateway |-> gateway]

Plain == [prefer_family |-> "any", allow_loopback |-> FALSE,
          allow_link_local |-> FALSE, allow_vpn |-> FALSE,
          allow_container |-> FALSE, include_down |-> FALSE,
          exclude |-> {}, prefer |-> {}, require |-> None]

(* Two links of any kind, at most one address and one route each: the      *)
(* extremes of every weight against one another.                           *)
WeightLinks ==
    [i \in 1..2 |->
        {Link(<<"a", "b">>[i], kind, oper) :
            kind \in {"ethernet", "bridge", "container", "vpn", "other"},
            oper \in {"up", "down"}}]
WeightAddresses ==
    UNION {{Addr(i, i, "v4", "private", FALSE), Addr(i, i, "v4", "cgnat", FALSE),
            Addr(i, i + 2, "v6", "global", TRUE), Addr(i, i, "v4", "link_local", FALSE)}
            : i \in 1..2}
WeightRoutes ==
    UNION {{Route(i, "v4", 0, i), Route(i, "v4", 2000, None), Route(i, "v6", 1000, None)}
            : i \in 1..2}
WeightConfigs ==
    {Plain, [Plain EXCEPT !.prefer = {"b"}],
     [Plain EXCEPT !.prefer_family = "v4", !.allow_vpn = TRUE],
     [Plain EXCEPT !.prefer_family = "v6"]}

(* A wired link at metric 100, with a second and dearer default route, a   *)
(* wireless one at 600, as NetworkManager assigns them, and a container    *)
(* bridge; no two default routes of one link share a metric.               *)
LanLinks ==
    [i \in 1..3 |->
        {Link(<<"eth", "wlan", "docker">>[i],
              <<"ethernet", "wireless", "container">>[i], oper) :
            oper \in {"up", "down"}}]
LanAddresses ==
    {Addr(1, 10, "v4", "private", FALSE), Addr(1, 11, "v4", "private", FALSE),
     Addr(2, 20, "v4", "private", FALSE), Addr(2, 21, "v4", "link_local", FALSE),
     Addr(3, 30, "v4", "private", FALSE)}
LanRoutes ==
    {Route(1, "v4", 100, 1), Route(1, "v4", 600, None),
     Route(2, "v4", 600, 2)}
LanConfigs == {Plain, [Plain EXCEPT !.prefer_family = "v4"]}

============================================================================
