---------------------------- MODULE WatchProofs ----------------------------
(***************************************************************************)
(* What the observation loop guarantees for every machine, selector and    *)
(* differ: the types, the accuracy of a resting loop (given a sound gate), *)
(* and that it implements the safety part of AnswerFeed.                   *)
(***************************************************************************)
EXTENDS Watch, TLAPS

----------------------------------------------------------------------------
\* Every reachable state is well typed.

\* The initial states are well typed.
LEMMA TypeInit == Init => TypeOK
<1>1. None \in Selections
  BY DEF Selections
<1>2. 0 \in 0..MaxChanges /\ 0 \in 0..MaxFailures
  BY BoundsAreNat
<1> QED
  BY <1>1, <1>2 DEF Init, TypeOK

\* The steps of the loop itself keep the types.
LEMMA TypeStep ==
  ASSUME TypeOK, Step
  PROVE  TypeOK'
<1> USE BoundsAreNat DEF TypeOK, Reading, Ended, env, loop
<1>1. CASE Subscribe \/ InstallFails
  BY <1>1 DEF Subscribe, InstallFails
<1>2. CASE ReadLinks \/ ReadAddresses \/ ReadRoutes
  BY <1>2 DEF ReadLinks, ReadAddresses, ReadRoutes, Snapshots
<1>3. CASE SnapshotFails
  BY <1>3 DEF SnapshotFails
<1>4. CASE Open
  BY <1>4 DEF Open, Selections
<1>5. CASE Compare
  BY <1>5 DEF Compare, Selections
<1>6. ASSUME NEW outcome \in {"ok"} \cup Ended, Return(outcome)
      PROVE  TypeOK'
  BY <1>6 DEF Return
<1>7. CASE WakeOnEvent \/ WakeOnTimeout \/ WakeOnInterrupt \/ SourceFails
  BY <1>7 DEF WakeOnEvent, WakeOnTimeout, WakeOnInterrupt, SourceFails
<1>7a. CASE Swallow \/ Deadline
  BY <1>7a DEF Swallow, Deadline, loop
<1>8. CASE Woken
  BY <1>8 DEF Woken
<1> QED
  BY <1>1, <1>2, <1>3, <1>4, <1>5, <1>6, <1>7, <1>7a, <1>8 DEF Step, Progress, Observe, Failure

\* So do the steps of the machine and the user.
LEMMA TypeWorld ==
  ASSUME TypeOK, World
  PROVE  TypeOK'
<1> USE BoundsAreNat DEF TypeOK, env, loop
<1>1. CASE Interrupt \/ Announce
  BY <1>1 DEF Interrupt, Announce
<1>2. ASSUME NEW now \in Snapshots, NEW heard \in BOOLEAN, Change(now, heard)
      PROVE  TypeOK'
  BY <1>2 DEF Change
<1> QED
  BY <1>1, <1>2 DEF World

\* A stuttering step keeps the types.
LEMMA TypeUnchanged == TypeOK /\ UNCHANGED vars => TypeOK'
  BY DEF TypeOK, vars

(***************************************************************************)
(* The type invariant, for every value of the constants.                   *)
(***************************************************************************)
THEOREM TypeCorrect == Spec => []TypeOK
<1>1. Init => TypeOK
  BY TypeInit
<1>2. TypeOK /\ [Next]_vars => TypeOK'
  BY TypeStep, TypeWorld, TypeUnchanged DEF Next
<1> QED
  BY <1>1, <1>2, PTL DEF Spec

----------------------------------------------------------------------------
(***************************************************************************)
(* The inductive invariant behind QuietMeansTold.  While every change has  *)
(* left a trace the loop will follow (Attentive), each dump already taken  *)
(* still agrees with the machine, and so does the snapshot the loop rests  *)
(* on; and whatever the gate let pass, the consumer's answer is the one    *)
(* the last snapshot gives.                                                *)
(***************************************************************************)
Attentive == source /\ ~queued /\ ~blind

Started == state # None /\ pc \notin Ended

DumpsAgree ==
    Attentive =>
        /\ pc \in {"addresses", "routes", "compare"} => fresh.links = net.links
        /\ pc \in {"routes", "compare"} => fresh.addresses = net.addresses
        /\ pc = "compare" => fresh.routes = net.routes
        /\ pc \in {"deliver", "wait"} => state = net

AnswerKept == Started => Answer(current) = Answer(Resolve(state))

\* Where the loop can be with and without a first snapshot, and when the
\* answer handed over is the answer accepted.
PhaseKept ==
    /\ pc \in {"deliver", "wait", "settle", "woken"} => state # None
    /\ pc = "subscribe" => state = None
    /\ state = None => current = None
    /\ Started /\ pc # "deliver" => selected = current

FInv == TypeOK /\ PhaseKept

IInv == FInv /\ DumpsAgree /\ AnswerKept

\* Two snapshots whose dumps agree are one snapshot.
LEMMA SameDumps ==
  ASSUME NEW a \in Snapshots, NEW b \in Snapshots,
         a.links = b.links, a.addresses = b.addresses, a.routes = b.routes
  PROVE  a = b
  BY DEF Snapshots

\* The invariant holds before the loop has looked at anything.
LEMMA IInvInit == Init => IInv
<1>1. Init => PhaseKept /\ DumpsAgree /\ AnswerKept
  BY DEF Init, PhaseKept, DumpsAgree, AnswerKept, Attentive, Started
<1> QED
  BY <1>1, TypeInit DEF IInv, FInv

\* The phases need neither the gate nor the dumps.
LEMMA PhaseNext == FInv /\ [Next]_vars => FInv'
<1> SUFFICES ASSUME FInv, [Next]_vars PROVE FInv'
  OBVIOUS
<1>1. TypeOK'
  BY TypeStep, TypeWorld, TypeUnchanged DEF FInv, Next
<1> USE DEF FInv, TypeOK, PhaseKept, Started, Reading, Ended, loop
<1>2. CASE World
  <2>1. UNCHANGED loop
    BY <1>2 DEF World, Interrupt, Announce, Change
  <2> QED
    BY <1>1, <2>1
<1>3. CASE Step
  <2>1. CASE Subscribe \/ InstallFails
    BY <1>1, <2>1 DEF Subscribe, InstallFails
  <2>2. CASE ReadLinks \/ ReadAddresses \/ ReadRoutes
    BY <1>1, <2>2 DEF ReadLinks, ReadAddresses, ReadRoutes
  <2>3. CASE SnapshotFails
    BY <1>1, <2>3 DEF SnapshotFails
  <2>4. CASE Open \/ Compare
    <3>1. fresh # None
      BY NoneIsNoSnapshot
    <3> QED
      BY <1>1, <2>4, <3>1 DEF Open, Compare
  <2>5. ASSUME NEW outcome \in {"ok"} \cup Ended, Return(outcome)
        PROVE  FInv'
    BY <1>1, <2>5 DEF Return
  <2>6. CASE WakeOnEvent \/ WakeOnTimeout \/ WakeOnInterrupt \/ SourceFails
    BY <1>1, <2>6 DEF WakeOnEvent, WakeOnTimeout, WakeOnInterrupt, SourceFails
  <2>6a. CASE Swallow \/ Deadline
    BY <1>1, <2>6a DEF Swallow, Deadline, loop
  <2>7. CASE Woken
    BY <1>1, <2>7 DEF Woken
  <2> QED
    BY <1>3, <2>1, <2>2, <2>3, <2>4, <2>5, <2>6, <2>6a, <2>7 DEF Step, Progress, Observe, Failure
<1>4. CASE UNCHANGED vars
  BY <1>1, <1>4 DEF vars
<1> QED
  BY <1>2, <1>3, <1>4 DEF Next

\* A change either leaves a message or blinds the loop; nothing else the
\* world does touches what the dumps are compared with.
LEMMA DumpsWorld == ASSUME IInv, World PROVE DumpsAgree'
<1> USE DEF IInv, FInv, TypeOK, DumpsAgree, Attentive, loop, env
<1>1. CASE Interrupt \/ Announce
  BY <1>1 DEF Interrupt, Announce
<1>2. ASSUME NEW now \in Snapshots, NEW heard \in BOOLEAN, Change(now, heard)
      PROVE  DumpsAgree'
  <2>1. ~Attentive'
    BY <1>2 DEF Change
  <2> QED
    BY <2>1
<1> QED
  BY <1>1, <1>2 DEF World

\* A dump taken agrees with the machine until the machine changes, and the
\* loop drops a message only to look again.
LEMMA DumpsStep == ASSUME IInv, Step PROVE DumpsAgree'
<1> USE DEF IInv, FInv, TypeOK, DumpsAgree, Attentive, env, Reading, Ended
<1>1. CASE Subscribe \/ InstallFails
  BY <1>1 DEF Subscribe, InstallFails
<1>2. CASE ReadLinks
  BY <1>2 DEF ReadLinks
<1>3. CASE ReadAddresses
  BY <1>3 DEF ReadAddresses
<1>4. CASE ReadRoutes
  BY <1>4 DEF ReadRoutes
<1>5. CASE SnapshotFails
  BY <1>5 DEF SnapshotFails
<1>6. CASE Open
  <2>1. Attentive => fresh = net
    BY <1>6, SameDumps DEF Open
  <2> QED
    BY <1>6, <2>1 DEF Open
<1>7. CASE Compare
  <2>1. Attentive => fresh = net
    BY <1>7, SameDumps DEF Compare
  <2> QED
    BY <1>7, <2>1 DEF Compare
<1>8. ASSUME NEW outcome \in {"ok"} \cup Ended, Return(outcome)
      PROVE  DumpsAgree'
  BY <1>8 DEF Return
<1>9. CASE WakeOnEvent \/ WakeOnTimeout \/ WakeOnInterrupt \/ SourceFails
  BY <1>9 DEF WakeOnEvent, WakeOnTimeout, WakeOnInterrupt, SourceFails
<1>9a. CASE Swallow \/ Deadline
  BY <1>9a DEF Swallow, Deadline, loop
<1>10. CASE Woken
  BY <1>10 DEF Woken
<1> QED
  BY <1>1, <1>2, <1>3, <1>4, <1>5, <1>6, <1>7, <1>8, <1>9, <1>9a, <1>10 DEF Step, Progress, Observe, Failure

\* The world moves neither the answer nor the snapshot it was taken from.
LEMMA AnswerWorld == ASSUME IInv, World PROVE AnswerKept'
<1> USE DEF IInv, AnswerKept, Started, loop
<1>1. CASE Interrupt \/ Announce
  BY <1>1 DEF Interrupt, Announce
<1>2. ASSUME NEW now \in Snapshots, NEW heard \in BOOLEAN, Change(now, heard)
      PROVE  AnswerKept'
  BY <1>2 DEF Change
<1> QED
  BY <1>1, <1>2 DEF World

\* The one step that needs the gate: a snapshot it lets pass unreported has
\* the answer of the one before it.
LEMMA AnswerCompare == ASSUME GateSound, IInv, Compare PROVE AnswerKept'
<1> USE DEF Compare, IInv, FInv, PhaseKept, TypeOK, AnswerKept, Started, Ended
<1>1. state \in Snapshots /\ fresh \in Snapshots /\ fresh # None
  BY NoneIsNoSnapshot
<1>2. selected = current /\ Answer(current) = Answer(Resolve(state))
  OBVIOUS
<1>3. Resolve(fresh) \in Selections
  BY <1>1 DEF Selections
<1>4. CASE Affects(state, fresh) /\ Answer(Resolve(fresh)) # Answer(selected)
  BY <1>1, <1>3, <1>4
<1>5. CASE ~(Affects(state, fresh) /\ Answer(Resolve(fresh)) # Answer(selected))
  <2>1. Answer(Resolve(fresh)) = Answer(current)
    BY <1>1, <1>2, <1>5 DEF GateSound
  <2> QED
    BY <1>1, <1>2, <1>5, <2>1
<1> QED
  BY <1>4, <1>5

\* The answer handed over is the last snapshot's, after every step of the loop.
LEMMA AnswerStep == ASSUME GateSound, IInv, Step PROVE AnswerKept'
<1> USE DEF IInv, FInv, PhaseKept, TypeOK, AnswerKept, Started, Reading, Ended
<1>1. CASE Subscribe \/ InstallFails
  BY <1>1 DEF Subscribe, InstallFails
<1>2. CASE ReadLinks \/ ReadAddresses \/ ReadRoutes
  BY <1>2 DEF ReadLinks, ReadAddresses, ReadRoutes
<1>3. CASE SnapshotFails
  BY <1>3 DEF SnapshotFails
<1>4. CASE Open
  <2>1. fresh \in Snapshots /\ fresh # None /\ Resolve(fresh) \in Selections
    BY NoneIsNoSnapshot DEF Selections
  <2> QED
    BY <1>4, <2>1 DEF Open
<1>5. CASE Compare
  BY <1>5, AnswerCompare
<1>6. ASSUME NEW outcome \in {"ok"} \cup Ended, Return(outcome)
      PROVE  AnswerKept'
  BY <1>6 DEF Return
<1>7. CASE WakeOnEvent \/ WakeOnTimeout \/ WakeOnInterrupt \/ SourceFails
  BY <1>7 DEF WakeOnEvent, WakeOnTimeout, WakeOnInterrupt, SourceFails
<1>7a. CASE Swallow \/ Deadline
  BY <1>7a DEF Swallow, Deadline, loop
<1>8. CASE Woken
  BY <1>8 DEF Woken
<1> QED
  BY <1>1, <1>2, <1>3, <1>4, <1>5, <1>6, <1>7, <1>7a, <1>8 DEF Step, Progress, Observe, Failure

\* A stuttering step keeps both.
LEMMA IInvUnchanged == IInv /\ UNCHANGED vars => DumpsAgree' /\ AnswerKept'
  BY DEF IInv, DumpsAgree, AnswerKept, Attentive, Started, vars

(***************************************************************************)
(* watch.rs:158-164, 224-237: with a differ whose silence can be trusted,  *)
(* a resting loop that has missed nothing holds the machine's own answer,  *)
(* whatever the tables, the selector and the order of changes and dumps.   *)
(***************************************************************************)
THEOREM Accurate == ASSUME GateSound PROVE Spec => []QuietMeansTold
<1>1. Init => IInv
  BY IInvInit
<1>2. IInv /\ [Next]_vars => IInv'
  <2> SUFFICES ASSUME IInv, [Next]_vars PROVE IInv'
    OBVIOUS
  <2>1. FInv'
    BY PhaseNext DEF IInv
  <2>2. DumpsAgree' /\ AnswerKept'
    BY DumpsStep, DumpsWorld, AnswerStep, AnswerWorld, IInvUnchanged DEF Next
  <2> QED
    BY <2>1, <2>2 DEF IInv
<1>3. IInv => QuietMeansTold
  BY DEF IInv, FInv, PhaseKept, DumpsAgree, AnswerKept, Attentive, Started, Ended,
         QuietMeansTold, Quiet
<1> QED
  BY <1>1, <1>2, <1>3, PTL DEF Spec

----------------------------------------------------------------------------
\* The loop implements AnswerFeed: each of its steps is a step of the feed or
\* leaves it alone.

\* Before the first snapshot the feed is opening, whatever its truth.
LEMMA FeedInit == Init => Feed!Init
<1>1. ASSUME Init PROVE Resolve(net) \in Selections /\ current \in Selections
  BY <1>1 DEF Init, Selections
<1> QED
  BY <1>1 DEF Init, Feed!Init, Ended

\* The machine's changes move the feed's truth, and nothing else of it.
LEMMA FeedWorld == ASSUME FInv, World PROVE [Feed!Next]_Feed!vars
<1>1. CASE Interrupt \/ Announce
  BY <1>1 DEF Interrupt, Announce, Feed!vars, env, loop
<1>2. ASSUME NEW now \in Snapshots, NEW heard \in BOOLEAN, Change(now, heard)
      PROVE  Feed!Move
  <2>1. Resolve(now) \in Selections
    BY DEF Selections
  <2> QED
    BY <1>2, <2>1 DEF Change, Feed!Move, loop
<1> QED
  BY <1>1, <1>2 DEF World, Feed!Next

\* Each step of the loop is an opening report, a report that moved, an end, or
\* nothing the feed can see.
LEMMA FeedStep == ASSUME FInv, Step PROVE [Feed!Next]_Feed!vars
<1> USE DEF FInv, TypeOK, PhaseKept, Started, Reading, Ended, env
<1>1. CASE Subscribe \/ ReadLinks \/ ReadAddresses \/ ReadRoutes
  BY <1>1 DEF Subscribe, ReadLinks, ReadAddresses, ReadRoutes, Feed!vars
<1>2. CASE InstallFails
  BY <1>2 DEF InstallFails, Feed!Next, Feed!End
<1>3. CASE SnapshotFails
  <2>1. CASE state = None
    BY <1>3, <2>1 DEF SnapshotFails, Feed!Next, Feed!End
  <2>2. CASE state # None
    BY <1>3, <2>2 DEF SnapshotFails, Feed!vars
  <2> QED
    BY <2>1, <2>2
<1>4. CASE Open
  <2>1. CASE Requested(fresh)
    <3>1. Resolve(fresh) \in Selections /\ fresh # None
      BY NoneIsNoSnapshot DEF Selections
    <3>2. Feed!Tell(Answer(Resolve(fresh)))
      BY <1>4, <2>1, <3>1 DEF Open, Feed!Tell
    <3> QED
      BY <3>1, <3>2 DEF Feed!Next
  <2>2. CASE ~Requested(fresh)
    BY <1>4, <2>2 DEF Open, Feed!Next, Feed!End
  <2> QED
    BY <2>1, <2>2
<1>5. CASE Compare
  <2>1. fresh # None /\ Resolve(fresh) \in Selections /\ selected = current
    BY <1>5, NoneIsNoSnapshot DEF Compare, Selections
  <2>2. CASE Affects(state, fresh) /\ Answer(Resolve(fresh)) # Answer(selected)
    <3>1. Feed!Tell(Answer(Resolve(fresh)))
      BY <1>5, <2>1, <2>2 DEF Compare, Feed!Tell
    <3> QED
      BY <2>1, <3>1 DEF Feed!Next
  <2>3. CASE ~(Affects(state, fresh) /\ Answer(Resolve(fresh)) # Answer(selected))
    BY <1>5, <2>1, <2>3 DEF Compare, Feed!vars
  <2> QED
    BY <2>2, <2>3
<1>6. ASSUME NEW outcome \in {"ok"} \cup Ended, Return(outcome)
      PROVE  [Feed!Next]_Feed!vars
  <2>1. CASE outcome = "ok"
    BY <1>6, <2>1 DEF Return, Feed!Next, Feed!Taken
  <2>2. CASE outcome \in Ended
    BY <1>6, <2>2 DEF Return, Feed!Next, Feed!End
  <2> QED
    BY <2>1, <2>2
<1>7. CASE WakeOnEvent \/ WakeOnTimeout \/ WakeOnInterrupt \/ SourceFails
  BY <1>7 DEF WakeOnEvent, WakeOnTimeout, WakeOnInterrupt, SourceFails, Feed!vars
<1>7a. CASE Swallow \/ Deadline
  BY <1>7a DEF Swallow, Deadline, Feed!vars, loop
<1>8. CASE Woken
  <2>1. CASE interrupted
    BY <1>8, <2>1 DEF Woken, Feed!Next, Feed!End
  <2>2. CASE ~interrupted
    BY <1>8, <2>2 DEF Woken, Feed!vars
  <2> QED
    BY <2>1, <2>2
<1> QED
  BY <1>1, <1>2, <1>3, <1>4, <1>5, <1>6, <1>7, <1>7a, <1>8 DEF Step, Progress, Observe, Failure

(***************************************************************************)
(* watch.rs:131-142: one opening report, then only answers that moved, and *)
(* nothing after the end.  No assumption on the differ is needed.          *)
(***************************************************************************)
THEOREM ImplementsFeed == Spec => FeedSafe
<1>1. Init => FInv /\ Feed!Init
  BY IInvInit, FeedInit DEF IInv
<1>2. FInv /\ [Next]_vars => FInv'
  BY PhaseNext
<1>3. FInv /\ [Next]_vars => [Feed!Next]_Feed!vars
  <2>1. UNCHANGED vars => UNCHANGED Feed!vars
    BY DEF vars, Feed!vars
  <2> QED
    BY FeedStep, FeedWorld, <2>1 DEF Next
<1> QED
  BY <1>1, <1>2, <1>3, PTL DEF Spec, FeedSafe, Feed!Safe

============================================================================
