------------------------------ MODULE Machine ------------------------------
(***************************************************************************)
(* A machine whose network is reconfigured under AutoNet: links appear,    *)
(* change state and go, addresses and routes come and go, and after every  *)
(* change the snapshot the Linux backend would take of it is what the      *)
(* selector and the differ work on.  The machine itself is external; the   *)
(* snapshot, the selection and the diff are the code's.                    *)
(***************************************************************************)
EXTENDS Netlink, Select, Event, FiniteSets

CONSTANTS
    LinkOptions,      \* [index -> what a link of that index may be]
    AddressOptions,   \* the addresses that may be bound
    RouteOptions,     \* the routes that may be installed
    Configs,          \* selection configurations
    MaxAddresses,     \* addresses per interface
    MaxRoutes         \* routes per interface and family

\* Indices, addresses and metrics are numbers, and a route is not nothing.
ASSUME OptionsAreTyped ==
    /\ DOMAIN LinkOptions \subseteq Nat
    /\ \A a \in AddressOptions : a.ip \in Nat /\ a.family \in Families
    /\ \A r \in RouteOptions : /\ r.metric \in Nat /\ r.index \in Nat
                              /\ NetlinkRoute(r) # None

VARIABLES
    setting,    \* the configuration of the run; it never changes
    present,    \* the links there are, by index
    bound,      \* the set of addresses bound
    installed   \* the set of routes installed

vars == <<setting, present, bound, installed>>

At(rows, index) == {row \in rows : row.index = index}

Init ==
    /\ setting \in Configs
    /\ present = [i \in {} |-> None]
    /\ bound = {}
    /\ installed = {}

\* A link appears, or one that is there changes its operational state.
LinkChanges(i, link) ==
    /\ link \in LinkOptions[i]
    /\ i \in DOMAIN present => present[i].kind = link.kind /\ present[i] # link
    /\ present' = [j \in DOMAIN present \cup {i} |-> IF j = i THEN link ELSE present[j]]
    /\ UNCHANGED <<setting, bound, installed>>

\* A link goes, and the kernel takes its addresses and routes with it.
LinkGoes(i) ==
    /\ i \in DOMAIN present
    /\ present' = [j \in DOMAIN present \ {i} |-> present[j]]
    /\ bound' = bound \ At(bound, i)
    /\ installed' = installed \ At(installed, i)
    /\ UNCHANGED setting

AddressComes(a) ==
    /\ a \in AddressOptions \ bound
    /\ a.index \in DOMAIN present
    /\ Cardinality(At(bound, a.index)) < MaxAddresses
    /\ bound' = bound \cup {a}
    /\ UNCHANGED <<setting, present, installed>>

AddressGoes(a) ==
    /\ a \in bound
    /\ bound' = bound \ {a}
    /\ UNCHANGED <<setting, present, installed>>

RouteComes(r) ==
    /\ r \in RouteOptions \ installed
    /\ r.index \in DOMAIN present
    /\ Cardinality({q \in At(installed, r.index) : q.family = r.family}) < MaxRoutes
    /\ installed' = installed \cup {r}
    /\ UNCHANGED <<setting, present, bound>>

RouteGoes(r) ==
    /\ r \in installed
    /\ installed' = installed \ {r}
    /\ UNCHANGED <<setting, present, bound>>

Next ==
    \/ \E i \in DOMAIN LinkOptions :
          \/ \E link \in LinkOptions[i] : LinkChanges(i, link)
          \/ LinkGoes(i)
    \/ \E a \in AddressOptions : AddressComes(a) \/ AddressGoes(a)
    \/ \E r \in RouteOptions : RouteComes(r) \/ RouteGoes(r)

Spec == Init /\ [][Next]_vars

----------------------------------------------------------------------------
\* What AutoNet makes of the machine.

\* One enumeration of it: any order the kernel may dump the tables in.
Enumerated(addressOrder, routeOrder) == Collect(present, addressOrder, routeOrder)

Snapshot == Enumerated(SetToSeq(bound), SetToSeq(installed))

Winner == Selected(Snapshot, setting)

\* What the loop compares two selections by.
Answer(selected) ==
    IF selected = None THEN None ELSE <<selected.ip, selected.interface>>

\* Some wired, wireless or bridge link owns a default route for an address of
\* its own that may be chosen.
OrdinaryRoute(s, config) ==
    \E c \in Running(s, config) :
        /\ c.interface.kind \in Ordinary
        /\ HasDefaultRoute(s, c.interface.index, c.address.family)

(***************************************************************************)
(* README.md:700: a default route of its own family outweighs everything a *)
(* link without one can collect.  While some eligible address of a wired,  *)
(* wireless or bridge link has such a route, and no interface is           *)
(* explicitly preferred, the winner has one too.  It relates eight weights *)
(* and the metric's cap, and holds because a preferred family excludes the *)
(* other one (model.rs:76).                                                *)
(***************************************************************************)
RoutedLinkWins(s, config, winner) ==
    config.prefer = {} /\ OrdinaryRoute(s, config)
        => HasDefaultRoute(s, winner.index, winner.family)

(***************************************************************************)
(* select.rs:772: a VPN loses by default, even a full tunnel that owns a   *)
(* default route and has the better metric and scope, as long as an        *)
(* ordinary link owns one.                                                 *)
(***************************************************************************)
VpnYields(s, config, winner) ==
    ~config.allow_vpn /\ config.prefer = {} /\ OrdinaryRoute(s, config)
        => winner.kind # "vpn"

(***************************************************************************)
(* select.rs:47: naming an interface in prefer_interfaces decides, as long *)
(* as the interface is not a container or virtual device.                  *)
(***************************************************************************)
PreferredLinkWins(s, config, winner) ==
    (\E c \in Running(s, config) : /\ c.interface.name \in config.prefer
                                   /\ ~IsSynthetic(c.interface.kind))
        => winner.interface \in config.prefer

(***************************************************************************)
(* README.md:700-720: the documented order of importance, which has to     *)
(* survive every sum of the other weights: a default route decides, a VPN  *)
(* yields, and an explicit preference decides over both.                   *)
(***************************************************************************)
WeightsKeepOrder ==
    \A s \in {Snapshot}, winner \in {Winner} :
        /\ RoutedLinkWins(s, setting, winner)
        /\ VpnYields(s, setting, winner)
        /\ PreferredLinkWins(s, setting, winner)

\* netlink.rs:161: a winner is one of the machine's addresses, on the link that
\* has it.
WinnerBound ==
    Winner # None => \E a \in bound : a.index = Winner.index /\ a.ip = Winner.ip

(***************************************************************************)
(* README.md:726: the answer never depends on the order the kernel         *)
(* enumerated the tables in.  The whole selection is compared, its gateway *)
(* and score included, and where there is none the reason that is given    *)
(* (select.rs:196), over every order of both dumps; and it is an address   *)
(* of the machine.  Every enumeration is well formed.                      *)
(***************************************************************************)
OrderIndependent ==
    /\ WinnerBound
    /\ \A winner \in {Winner}, a \in SetToSeqs(bound), r \in SetToSeqs(installed) :
          \A seen \in {Enumerated(a, r)} :
              /\ WellFormed(seen)
              /\ Selected(seen, setting) = winner
              /\ winner = None =>
                    FailureReason(seen, setting) = FailureReason(Snapshot, setting)

(***************************************************************************)
(* watch.rs:227 and event.rs:69: a change the differ does not call         *)
(* affecting leaves the answer where it was, whatever two snapshots it     *)
(* compares.  Here, over each single reconfiguration.                      *)
(***************************************************************************)
GateSound ==
    [][\A before \in {Snapshot}, after \in {Snapshot'} :
          \/ AffectsSelection(Diff(before, after))
          \/ Answer(Selected(before, setting)) = Answer(Selected(after, setting))]_vars

============================================================================
