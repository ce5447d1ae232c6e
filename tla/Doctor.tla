------------------------------- MODULE Doctor -------------------------------
(***************************************************************************)
(* The checklist of `autonet doctor' (autonet-cli/src/doctor.rs): a row    *)
(* for each layer between the machine and an address another device can    *)
(* use, and the verdict over them.  The sentences are left out, all but    *)
(* the last, which answers the user's question.                            *)
(***************************************************************************)
EXTENDS Select

Statuses == {"pass", "warn", "fail", "unknown"}

Checked(id, status) == [id |-> id, status |-> status]

IsUsableLink(interface) == interface.kind # "loopback" /\ ~IsDown(interface.state)

UsableLinks(s) == {i \in ToSet(s.interfaces) : IsUsableLink(i)}

Addressed(s, family) ==
    \E i \in UsableLinks(s) : \E a \in ToSet(i.addresses) : a.family = family

NetworkInterface(s) == IF UsableLinks(s) # {} THEN "pass" ELSE "fail"

\* No IPv4 is a fault only where there is no IPv6 either, and not worth a
\* warning where the user prefers IPv6.
Ipv4Address(s, config) ==
    CASE Addressed(s, "v4") -> "pass"
      [] ~Addressed(s, "v4") /\ ~Addressed(s, "v6") -> "fail"
      [] OTHER -> IF Preferred(config.prefer_family) = "v6" THEN "pass" ELSE "warn"

DefaultRoute(s) == IF DefaultRoutes(s) # {} THEN "pass" ELSE "fail"

SelectedRow(selected) ==
    IF selected = None THEN "fail"
    ELSE IF selected.scope = "loopback" THEN "warn" ELSE "pass"

LanCandidate(s, config) ==
    LET all == Candidates(s, config)
    IN  IF \E p \in Eligible(all) : IsReachableByPeers(all[p].address.scope)
        THEN "pass" ELSE "fail"

\* A busy port is a hint and no fault of the machine's, one that could not be
\* tested neither.
PortRow(onAddress, onWildcard) ==
    CASE onAddress = "in_use" -> "warn"
      [] onAddress = "free"   -> IF onWildcard = "in_use" THEN "warn" ELSE "pass"
      [] onAddress = "undetermined" -> "unknown"

Deferred == << "network_interface", "ipv4_address", "default_route",
               "selected_address", "lan_candidate" >>

\* checks: the rows in order.  probe is None where no port was probed.
Checks(s, config, probe) ==
    IF s = None
    THEN <<Checked("operating_system", "fail")>>
         \o [k \in DOMAIN Deferred |-> Checked(Deferred[k], "unknown")]
         \o <<Checked("bind_address", "unknown")>>
    ELSE << Checked("operating_system", "pass"),
            Checked("network_interface", NetworkInterface(s)),
            Checked("ipv4_address", Ipv4Address(s, config)),
            Checked("default_route", DefaultRoute(s)),
            Checked("selected_address", SelectedRow(Selected(s, config))),
            Checked("lan_candidate", LanCandidate(s, config)) >>
         \o (IF probe = None THEN <<>>
             ELSE <<Checked("port", PortRow(probe[1], probe[2]))>>)
         \o <<Checked("bind_address", "unknown")>>

Worst(checks, status) == \E c \in ToSet(checks) : c.status = status

Verdict(checks) ==
    IF Worst(checks, "fail") THEN "fail"
    ELSE IF Worst(checks, "warn") THEN "warn" ELSE "pass"

\* A mistake: a warning counts as a failure.
HealthyIfVerified(checks) == Verdict(checks) = "pass"

Healthy(checks) == Verdict(checks) # "fail"

\* The second clause of the summary, read off the row of the selected address.
Outcome(checks) ==
    LET row == {c \in ToSet(checks) : c.id = "selected_address"}
        of  == [pass |-> "reaches_this_machine", warn |-> "loopback_only",
                fail |-> "nothing_to_offer", unknown |-> "did_not_look"]
    IN  IF row = {} THEN "did_not_look" ELSE of[(CHOOSE c \in row : TRUE).status]

============================================================================
