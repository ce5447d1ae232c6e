------------------------------- MODULE Darwin -------------------------------
(***************************************************************************)
(* How the macOS backend joins what it gathers (autonet-platform/src/      *)
(* macos/ifaddrs.rs, macos/scnetwork.rs and servicerank.rs): links and     *)
(* addresses by BSD name, the service order by name and then by index,     *)
(* because routing messages know nothing else.                             *)
(***************************************************************************)
EXTENDS RouteDump, LinkKinds

\* Up without a carrier is what a healthy tunnel reports.
DarwinState(flags) ==
    CASE "UP" \notin flags -> "down"
      [] {"UP", "RUNNING"} \subseteq flags -> "up"
      [] OTHER -> "unknown"

\* An AF_LINK record [index, flags, ifi_type], with the type
\* SystemConfiguration gave the name when it was asked.
LinkFrom(name, link, types) ==
    [name |-> name, index |-> link.index, state |-> DarwinState(link.flags),
     kind |-> ClassifyDarwin([loopback |-> "LOOPBACK" \in link.flags,
                              point_to_point |-> "POINTOPOINT" \in link.flags,
                              sc |-> IF name \in DOMAIN types THEN types[name] ELSE None,
                              ifi_type |-> link.ifi_type]),
     addresses |-> <<>>]

\* An interface the address list has and the walk over the links had not.
Orphan(name, index) ==
    [name |-> name, index |-> index, state |-> "unknown", kind |-> "other",
     addresses |-> <<>>]

\* A record of the address list, with the flags the kernel has for it.
DarwinAddress(record, flags) ==
    [ip |-> StripEmbeddedScopeId(record.ip), family |-> record.family,
     scope |-> record.scope, temporary |-> "TEMPORARY" \in flags]

\* Of an IPv6 address that another host on the segment has, nothing is kept;
\* the others go to the interface of their name, in the order of the list.
AttachAddresses(interfaces, listed, flagged) ==
    LET kept == {k \in DOMAIN listed : "DUPLICATED" \notin flagged[k]}
        At(name) == {k \in kept : listed[k].name = name}
        Owner(name) == IF name \in DOMAIN interfaces THEN interfaces[name]
                       ELSE Orphan(name, listed[Min(At(name))].index)
    IN  [name \in DOMAIN interfaces \cup {listed[k].name : k \in kept} |->
            [Owner(name) EXCEPT !.addresses =
                Picked([k \in DOMAIN listed |-> DarwinAddress(listed[k], flagged[k])], At(name))]]

(***************************************************************************)
(* The service order: services name interfaces, None where the ID does not *)
(* resolve; ranks are dense and the first service of an interface counts.  *)
(***************************************************************************)
Ranks(order) ==
    LET First(name) == Min({k \in DOMAIN order : order[k] = name})
        names == ToSet(order) \ {None}
    IN  [name \in names |-> Cardinality({n \in names : First(n) < First(name)})]

MetricPerRank == 100
Unranked == 1000

MetricForRank(rank) ==
    IF rank = None THEN Unranked ELSE Min({rank * MetricPerRank, Unranked})

\* Of two interfaces with one index the later one counts.
MetricsByIndex(interfaces, ranks) ==
    [index \in {i.index : i \in ToSet(interfaces)} |->
        LET last == Max({k \in DOMAIN interfaces : interfaces[k].index = index})
            name == interfaces[last].name
        IN  MetricForRank(IF name \in DOMAIN ranks THEN ranks[name] ELSE None)]

\* Room for a table that grows between the two calls, in bytes.
Slack(needed) == needed + needed \div 8 + 1024

============================================================================
