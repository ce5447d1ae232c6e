------------------------------- MODULE Event -------------------------------
(***************************************************************************)
(* What changed between two snapshots (autonet-core/src/event.rs), and     *)
(* whether the watch loop takes it for a change that can move the answer.  *)
(* Interfaces are matched by name.                                         *)
(***************************************************************************)
EXTENDS Network

AddressesOf(interface) == ToSet(interface.addresses)

\* The interface that carries the best default route of a family; the set is
\* empty when there is no route or its interface is not in the snapshot.
DefaultRouteInterface(s, family) ==
    LET best == DefaultRouteFor(s, family)
    IN  IF best = None THEN {}
        ELSE {i.name : i \in InterfaceByIndex(s, best.index)}

\* An interface of each snapshot, by the name they have in common.
Kept(before, after) ==
    {pair \in ToSet(before.interfaces) \X ToSet(after.interfaces) : pair[1].name = pair[2].name}

\* Those of one snapshot that the other has none of the name of.
Unmatched(these, others) == {i \in ToSet(these.interfaces) : InterfaceByName(others, i.name) = {}}

StateEvents(before, after) ==
    {[event |-> "interface_state_changed", interface |-> p[1].name,
      from |-> p[1].state, to |-> p[2].state] :
        p \in {q \in Kept(before, after) : q[1].state # q[2].state}}

Lost(i, j) == {[event |-> "address_removed", interface |-> i.name, address |-> a] :
                  a \in AddressesOf(i) \ AddressesOf(j)}

Gained(i, j) == {[event |-> "address_added", interface |-> i.name, address |-> a] :
                    a \in AddressesOf(j) \ AddressesOf(i)}

AddressEvents(before, after) ==
    UNION {Lost(p[1], p[2]) \cup Gained(p[1], p[2]) : p \in Kept(before, after)}

RouteEvents(before, after) ==
    {[event |-> "default_route_changed", family |-> f,
      from_interface |-> DefaultRouteInterface(before, f),
      to_interface |-> DefaultRouteInterface(after, f)] :
        f \in {g \in Families : DefaultRouteInterface(before, g) # DefaultRouteInterface(after, g)}}

PresenceEvents(before, after) ==
    {[event |-> "interface_removed", interface |-> i.name] : i \in Unmatched(before, after)}
    \cup {[event |-> "interface_added", interface |-> i.name] : i \in Unmatched(after, before)}
    \cup UNION {Gained([i EXCEPT !.addresses = <<>>], i) : i \in Unmatched(after, before)}

Diff(before, after) ==
    PresenceEvents(before, after) \cup StateEvents(before, after)
    \cup AddressEvents(before, after) \cup RouteEvents(before, after)

\* A mistake: a removed interface taken for one with nothing to lose.
MovingWithoutRemoval == {"address_added", "address_removed", "default_route_changed",
                         "interface_state_changed"}

\* The events that make the loop run the selector again.
Moving == {"address_added", "address_removed", "default_route_changed",
           "interface_state_changed", "interface_removed"}

AffectsSelection(events) == \E e \in events : e.event \in Moving

============================================================================
