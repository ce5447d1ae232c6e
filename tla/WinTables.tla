----------------------------- MODULE WinTables -----------------------------
(***************************************************************************)
(* How the Windows backend joins what the IP Helper API returns            *)
(* (autonet-platform/src/windows/adapters.rs, iftable.rs and route.rs, and *)
(* winparse.rs and winroute.rs): adapters, interface rows and routes, each *)
(* from a call of its own, by LUID.  Adapters and rows are sets here: they *)
(* are sorted by name and looked up by LUID, whatever order they come in.  *)
(*   adapter [name, luid, if_type, tunnel_type, index, index6, oper,       *)
(*            metrics, unicast : Seq([dad, suffix, sockaddr])]             *)
(*   row     [luid, type, ndis]                                            *)
(*   route   [luid, index, destination, prefix, next_hop, metric,          *)
(*            loopback]                                                    *)
(***************************************************************************)
EXTENDS Network, LinkKinds

WinState(oper) ==
    CASE oper = "UP" -> "up"
      [] oper \in {"DOWN", "NOT_PRESENT", "LOWER_LAYER_DOWN"} -> "down"
      [] oper \in {"DORMANT", "TESTING"} -> "dormant"
      [] OTHER -> "unknown"

\* The bytes of a sockaddr may hold no address of the family they claim; no
\* more of them are read than the largest sockaddr has.
SockaddrIp(sa) ==
    LET len == Min({sa.len, 28})
    IN  IF \/ sa.family = "v4" /\ len >= 8
           \/ sa.family = "v6" /\ len >= 24
        THEN sa.ip
        ELSE None

ClampedPrefix(raw, family) == Min({raw, IF family = "v4" THEN 32 ELSE 128})

IsUsable(unicast) ==
    /\ unicast.dad # "Duplicate"
    /\ unicast.sockaddr # None
    /\ SockaddrIp(unicast.sockaddr) # None

UsableAddresses(adapter) ==
    Picked([k \in DOMAIN adapter.unicast |->
               LET u == adapter.unicast[k]
               IN  [ip |-> SockaddrIp(u.sockaddr), family |-> u.sockaddr.family,
                    scope |-> u.scope, temporary |-> u.suffix = "Random"]],
           {k \in DOMAIN adapter.unicast : IsUsable(adapter.unicast[k])})

\* The loopback is no hardware: a table that says otherwise is misread.
TrustHardwareBit(rows) ==
    \A row \in rows : row.type = "SOFTWARE_LOOPBACK" => ~row.ndis.hardware_interface

ByLuid(rows) ==
    LET trusted == TrustHardwareBit(rows)
        Ndis(row) == IF trusted THEN row.ndis
                     ELSE [row.ndis EXCEPT !.hardware_interface = None]
    IN  [luid \in {row.luid : row \in rows} |-> Ndis(CHOOSE row \in rows : row.luid = luid)]

\* IPv4 and IPv6 number the interfaces apart; the model has one index.
AdapterIndex(ipv4_index, ipv6_index) == IF ipv4_index = 0 THEN ipv6_index ELSE ipv4_index

AdapterFrom(adapter, ndis) ==
    [name |-> adapter.name, index |-> AdapterIndex(adapter.index, adapter.index6),
     kind |-> ClassifyWindows([if_type |-> adapter.if_type,
                               tunnel_type |-> adapter.tunnel_type,
                               ndis |-> IF adapter.luid \in DOMAIN ndis
                                        THEN ndis[adapter.luid] ELSE None]),
     state |-> WinState(adapter.oper), addresses |-> UsableAddresses(adapter)]

\* The adapters that have a name, by name; names gives the order of names.
Named(adapters) == {a \in adapters : a.name # <<>>}

Walk(adapters, ndis, names) ==
    LET Of(name) == CHOOSE a \in Named(adapters) : a.name = name
        shown == {k \in DOMAIN names : \E a \in Named(adapters) : a.name = names[k]}
    IN  Picked([k \in shown |-> AdapterFrom(Of(names[k]), ndis)], shown)

\* What the route walk reads back: the index the interface was given and its
\* metric for each family.
LinksByLuid(adapters) ==
    [luid \in {a.luid : a \in Named(adapters)} |->
        LET a == CHOOSE a \in Named(adapters) : a.luid = luid
        IN  [index |-> AdapterIndex(a.index, a.index6), metrics |-> a.metrics]]

MaxMetric == 1073741824    \* stands for u32::MAX, which TLC's integers cannot hold

EffectiveMetric(route, interface) == Min({route + interface, MaxMetric})

RouteIndex(row, links) == IF row.luid \in DOMAIN links THEN links[row.luid].index ELSE row.index

WinReportable(row) == ~row.loopback /\ ~row.multicast

\* An on-link row names the unspecified address, which is 0, for a next hop.
RouteFromRow(row, links) ==
    [default |-> row.destination = 0 /\ ClampedPrefix(row.prefix, row.family) = 0,
     family |-> row.family, index |-> RouteIndex(row, links),
     gateway |-> IF row.next_hop = 0 THEN None ELSE row.next_hop,
     metric |-> EffectiveMetric(row.metric,
                    IF row.luid \in DOMAIN links THEN links[row.luid].metrics[row.family] ELSE 0)]

WinRoutes(rows, links) ==
    Picked([k \in DOMAIN rows |-> RouteFromRow(rows[k], links)],
           {k \in DOMAIN rows : WinReportable(rows[k])})

============================================================================
