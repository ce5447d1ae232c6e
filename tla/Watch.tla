------------------------------- MODULE Watch -------------------------------
(***************************************************************************)
(* The observation loop (autonet-cli/src/watch.rs, observe): the one       *)
(* pipeline behind watch, advertise, run --state-file and dev.  It         *)
(* subscribes to the kernel's change events, takes a snapshot - three      *)
(* dumps, between which the machine may move - compares it with the last   *)
(* one, selects again when the difference may matter, and calls back when  *)
(* the answer moved.                                                       *)
(*                                                                         *)
(* The pure parts (selection, diff, the --interface check) are parameters, *)
(* so the loop can be checked with the real ones or with small stand-ins,  *)
(* and what it needs of them can be stated.                                *)
(***************************************************************************)
EXTENDS Naturals, Option

CONSTANTS
    LinkTables, AddressTables, RouteTables,  \* what each dump may report
    Resolve(_),       \* snapshot -> the selected address, or None
    Answer(_),        \* selection -> the part `differs` compares
    Affects(_, _),    \* diff(a, b).affects_selection()
    Requested(_),     \* check_requested_interface passes
    MaxChanges,       \* bound on the machine's changes
    MaxFailures       \* bound on failing snapshots

ASSUME BoundsAreNat == MaxChanges \in Nat /\ MaxFailures \in Nat

Snapshots == [links : LinkTables, addresses : AddressTables, routes : RouteTables]

\* An Option<NetworkState> can tell its None from a snapshot.
ASSUME NoneIsNoSnapshot == None \notin Snapshots

Selections == {Resolve(s) : s \in Snapshots} \cup {None}

VARIABLES
    net,          \* the machine as it is
    changes,      \* how often it has changed
    failures,     \* how many snapshots have failed
    interrupted,  \* the termination flag
    source,       \* whether the loop holds an event subscription
    queued,       \* whether messages wait in its socket
    pc,           \* where the loop is
    fresh,        \* the snapshot being taken, dump by dump
    state,        \* the last complete snapshot, None before the first
    selected,     \* the answer the consumer has accepted
    current,      \* the answer last handed to the callback
    blind         \* history: a change went unannounced, or its wake-up was
                  \* spent on a snapshot that failed

env  == <<net, changes>>
loop == <<source, pc, fresh, state, selected, current>>
vars == <<net, changes, failures, interrupted, source, queued, pc, fresh,
          state, selected, current, blind>>

Reading == {"links", "addresses", "routes"}
Ended   == {"stopped", "failed"}

TypeOK ==
    /\ net \in Snapshots
    /\ changes \in 0..MaxChanges
    /\ failures \in 0..MaxFailures
    /\ interrupted \in BOOLEAN
    /\ source \in BOOLEAN
    /\ queued \in BOOLEAN
    /\ pc \in {"subscribe", "compare", "deliver", "wait", "settle", "woken"}
              \cup Reading \cup Ended
    /\ fresh \in Snapshots
    /\ state \in Snapshots \cup {None}
    /\ selected \in Selections
    /\ current \in Selections
    /\ blind \in BOOLEAN

Init ==
    /\ net \in Snapshots
    /\ fresh = net
    /\ changes = 0
    /\ failures = 0
    /\ interrupted = FALSE
    /\ source = FALSE
    /\ queued = FALSE
    /\ pc = "subscribe"
    /\ state = None
    /\ selected = None
    /\ current = None
    /\ blind = FALSE

----------------------------------------------------------------------------
\* The machine and the user.

\* The machine is reconfigured in one of its tables, and the kernel announces
\* it; `heard` is FALSE when the message is lost, as a full buffer loses it.
Change(now, heard) ==
    /\ changes < MaxChanges
    /\ now # net
    /\ \/ now.addresses = net.addresses /\ now.routes = net.routes
       \/ now.links = net.links /\ now.routes = net.routes
       \/ now.links = net.links /\ now.addresses = net.addresses
    /\ net' = now
    /\ changes' = changes + 1
    /\ queued' = (queued \/ (source /\ heard))
    /\ blind' = (blind \/ (source /\ ~heard))
    /\ UNCHANGED <<failures, interrupted, loop>>

\* The kernel announces what no table shows: a lifetime renewed, a counter.
\* Nothing bounds how often.
Announce ==
    /\ source /\ ~queued
    /\ queued' = TRUE
    /\ UNCHANGED <<env, failures, interrupted, blind, loop>>

\* A termination signal reaches the handler.
Interrupt ==
    /\ ~interrupted
    /\ interrupted' = TRUE
    /\ UNCHANGED <<env, failures, queued, blind, loop>>

----------------------------------------------------------------------------
\* Starting up.

\* The signal flag is installed, then the event source opened: a platform
\* without one, or one that refuses, leaves the loop polling.
Subscribe ==
    /\ pc = "subscribe"
    /\ source' \in BOOLEAN
    /\ pc' = "links"
    /\ UNCHANGED <<env, failures, interrupted, queued, blind, fresh, state,
                   selected, current>>

InstallFails ==
    /\ pc = "subscribe"
    /\ pc' = "failed"
    /\ UNCHANGED <<env, failures, interrupted, queued, blind, source, fresh,
                   state, selected, current>>

----------------------------------------------------------------------------
\* Taking a snapshot: links, then addresses, then routes.

ReadLinks ==
    /\ pc = "links"
    /\ fresh' = [links |-> net.links, addresses |-> fresh.addresses,
                 routes |-> fresh.routes]
    /\ pc' = "addresses"
    /\ UNCHANGED <<env, failures, interrupted, queued, blind, source, state,
                   selected, current>>

ReadAddresses ==
    /\ pc = "addresses"
    /\ fresh' = [links |-> fresh.links, addresses |-> net.addresses,
                 routes |-> fresh.routes]
    /\ pc' = "routes"
    /\ UNCHANGED <<env, failures, interrupted, queued, blind, source, state,
                   selected, current>>

ReadRoutes ==
    /\ pc = "routes"
    /\ fresh' = [links |-> fresh.links, addresses |-> fresh.addresses,
                 routes |-> net.routes]
    /\ pc' = "compare"
    /\ UNCHANGED <<env, failures, interrupted, queued, blind, source, state,
                   selected, current>>

\* A dump fails.  Fatal in the first snapshot; later ones are reported and the
\* loop goes back to waiting, whatever woke it being spent.
SnapshotFails ==
    /\ pc \in Reading
    /\ failures < MaxFailures
    /\ failures' = failures + 1
    /\ pc' = IF state = None THEN "failed" ELSE "wait"
    /\ blind' = TRUE
    /\ UNCHANGED <<env, interrupted, queued, source, fresh, state, selected, current>>

----------------------------------------------------------------------------
\* What the snapshot means.

\* The first one: --interface must exist, and the opening report follows.
Open ==
    /\ pc = "compare" /\ state = None
    /\ IF Requested(fresh)
         THEN /\ state' = fresh
              /\ current' = Resolve(fresh)
              /\ pc' = "deliver"
         ELSE /\ pc' = "failed"
              /\ UNCHANGED <<state, current>>
    /\ UNCHANGED <<env, failures, interrupted, queued, blind, source, fresh, selected>>

\* A mistake: the messages that came in meanwhile dropped as seen.
CompareAndDrain ==
    /\ pc = "compare" /\ state # None
    /\ state' = fresh
    /\ queued' = FALSE
    /\ IF Affects(state, fresh) /\ Answer(Resolve(fresh)) # Answer(selected)
         THEN /\ current' = Resolve(fresh)
              /\ pc' = "deliver"
         ELSE /\ pc' = "wait"
              /\ UNCHANGED current
    /\ UNCHANGED <<env, failures, interrupted, blind, source, fresh, selected>>

\* A mistake: `differs` not asked.
CompareWithoutDiffers ==
    /\ pc = "compare" /\ state # None
    /\ state' = fresh
    /\ IF Affects(state, fresh)
         THEN /\ current' = Resolve(fresh)
              /\ pc' = "deliver"
         ELSE /\ pc' = "wait"
              /\ UNCHANGED current
    /\ UNCHANGED <<env, failures, interrupted, queued, blind, source, fresh, selected>>

\* A later one replaces the last one BEFORE the gate is asked: what the gate
\* lets pass unreported is never compared again.
Compare ==
    /\ pc = "compare" /\ state # None
    /\ state' = fresh
    /\ IF Affects(state, fresh) /\ Answer(Resolve(fresh)) # Answer(selected)
         THEN /\ current' = Resolve(fresh)
              /\ pc' = "deliver"
         ELSE /\ pc' = "wait"
              /\ UNCHANGED current
    /\ UNCHANGED <<env, failures, interrupted, queued, blind, source, fresh, selected>>

\* A mistake: the snapshot kept where the selection belongs.
ReturnSnapshot(outcome) ==
    /\ pc = "deliver"
    /\ IF outcome = "ok"
         THEN /\ selected' = state
              /\ pc' = "wait"
         ELSE /\ pc' = outcome
              /\ UNCHANGED selected
    /\ UNCHANGED <<env, failures, interrupted, queued, blind, source, fresh,
                   state, current>>

\* The callback returns: Ok, Err(Stopped) for a closed pipe, or an error.
Return(outcome) ==
    /\ pc = "deliver"
    /\ IF outcome = "ok"
         THEN /\ selected' = current
              /\ pc' = "wait"
         ELSE /\ pc' = outcome
              /\ UNCHANGED selected
    /\ UNCHANGED <<env, failures, interrupted, queued, blind, source, fresh,
                   state, current>>

----------------------------------------------------------------------------
\* Waiting.

\* The source reports; the burst is let finish before the loop looks.
WakeOnEvent ==
    /\ pc = "wait" /\ source /\ queued
    /\ queued' = FALSE
    /\ pc' = "settle"
    /\ UNCHANGED <<env, failures, interrupted, blind, source, fresh, state,
                   selected, current>>

\* The settle window: messages are taken and dropped, the flag is not read.
Swallow ==
    /\ pc = "settle" /\ queued
    /\ queued' = FALSE
    /\ UNCHANGED <<env, failures, interrupted, blind, loop>>

\* A mistake: the window ends once no message is waiting.
DeadlineWhenQuiet ==
    /\ pc = "settle" /\ ~queued
    /\ pc' = "woken"
    /\ UNCHANGED <<env, failures, interrupted, queued, blind, source, fresh, state,
                   selected, current>>

\* A quarter of a second is over, however many messages wait: the select is
\* biased towards the deadline, and no message moves it.  So it does when the
\* stream ends within the window; the next wait has that error.
Deadline ==
    /\ pc = "settle"
    /\ pc' = "woken"
    /\ UNCHANGED <<env, failures, interrupted, queued, blind, source, fresh, state,
                   selected, current>>

\* A mistake: a source trusted to report everything.
WakeWithoutBackstop ==
    /\ pc = "wait" /\ ~source
    /\ pc' = "woken"
    /\ UNCHANGED <<env, failures, interrupted, queued, blind, source, fresh, state,
                   selected, current>>

\* BACKSTOP with a source, INTERVAL without: look anyway.
WakeOnTimeout ==
    /\ pc = "wait"
    /\ pc' = "woken"
    /\ UNCHANGED <<env, failures, interrupted, queued, blind, source, fresh,
                   state, selected, current>>

\* The tick reads the flag.
WakeOnInterrupt ==
    /\ pc = "wait" /\ interrupted
    /\ pc' = "woken"
    /\ UNCHANGED <<env, failures, interrupted, queued, blind, source, fresh,
                   state, selected, current>>

\* The subscription fails; it is dropped, and the loop looks at once.
SourceFails ==
    /\ pc = "wait" /\ source
    /\ source' = FALSE
    /\ queued' = FALSE
    /\ pc' = "woken"
    /\ UNCHANGED <<env, failures, interrupted, blind, fresh, state, selected, current>>

Woken ==
    /\ pc = "woken"
    /\ IF interrupted
         THEN pc' = "stopped" /\ UNCHANGED blind
         ELSE pc' = "links" /\ blind' = FALSE
    /\ UNCHANGED <<env, failures, interrupted, queued, source, fresh, state,
                   selected, current>>

----------------------------------------------------------------------------
\* The loop between two callbacks.
Observe ==
    \/ Subscribe
    \/ ReadLinks \/ ReadAddresses \/ ReadRoutes
    \/ Open \/ Compare
    \/ WakeOnEvent \/ WakeOnTimeout \/ WakeOnInterrupt
    \/ Swallow \/ Deadline \/ Woken

\* What the thread does when nothing goes wrong.
Progress == Observe \/ Return("ok")

Failure ==
    \/ InstallFails \/ SnapshotFails \/ SourceFails
    \/ \E outcome \in Ended : Return(outcome)

Step == Progress \/ Failure

World ==
    \/ Interrupt \/ Announce
    \/ \E now \in Snapshots, heard \in BOOLEAN : Change(now, heard)

Next == Step \/ World

\* The thread runs, callbacks return and time passes, with a message ready or
\* not; nothing is assumed of the machine or of the user, and no failure is
\* ever owed.
Spec == Init /\ [][Next]_vars /\ WF_vars(Progress) /\ WF_vars(Deadline)

----------------------------------------------------------------------------
\* What the loop needs of the differ, and has no way to check.
GateSound ==
    \A a, b \in Snapshots : Affects(a, b) \/ Answer(Resolve(a)) = Answer(Resolve(b))

\* The loop rests with nothing left to tell it of a change.
Quiet == pc = "wait" /\ source /\ ~queued /\ ~blind

(***************************************************************************)
(* watch.rs:158-164, 224-237: when the loop rests and no announcement is   *)
(* outstanding, the consumer's answer is the one selection gives of the    *)
(* machine as it is - although the subscription, the three dumps, the gate *)
(* and the comparison each happen at another moment.                       *)
(***************************************************************************)
QuietMeansTold == Quiet => Answer(selected) = Answer(Resolve(net))

(***************************************************************************)
(* watch.rs:131-142: the loop keeps the promise of AnswerFeed - one        *)
(* opening report, then only answers that moved, nothing after the end -   *)
(* and, once the machine rests, catches up with it: lost announcements,    *)
(* failing snapshots and a lost source cost latency only.                  *)
(***************************************************************************)
Feed == INSTANCE AnswerFeed WITH
    Answers <- {Answer(s) : s \in Selections},
    truth <- Answer(Resolve(net)),
    told  <- Answer(current),
    phase <- CASE pc \in Ended -> "ended"
               [] pc = "deliver" -> "telling"
               [] pc \notin Ended \cup {"deliver"} ->
                    IF state = None THEN "opening" ELSE "open"

FeedSafe  == Feed!Safe
CatchesUp == Feed!CatchesUp

(***************************************************************************)
(* watch.rs:209, 335: one Ctrl-C ends the loop, wherever it finds it.      *)
(***************************************************************************)
StopsWhenInterrupted == interrupted ~> pc \in Ended

============================================================================
