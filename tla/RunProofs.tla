----------------------------- MODULE RunProofs -----------------------------
(***************************************************************************)
(* What `autonet run` guarantees for every machine, child and bound: the   *)
(* types, that a reader never meets a half-written file, that what is in   *)
(* the file is true, that no file survives a command that was started, and *)
(* what the exit code says.                                                *)
(***************************************************************************)
EXTENDS Run, TLAPS

----------------------------------------------------------------------------
\* Every reachable state is well typed.

\* The initial states are well typed.
LEMMA TypeInit == Init => TypeOK
<1>1. None \in W!Selections
  BY DEF W!Selections
<1> QED
  BY <1>1 DEF Init, W!Init, TypeOK, Documents, Contents, Phases

\* Whatever becomes of a removal, both files are well typed.
LEMMA TypeRemove ==
  ASSUME TypeOK, Remove
  PROVE  target' \in Contents /\ temporary' \in Contents /\ stuck' \in BOOLEAN
  BY DEF TypeOK, Remove, Contents

\* The main thread's steps keep the types.
LEMMA TypeMain == ASSUME TypeOK, Main PROVE TypeOK'
<1> USE DEF TypeOK, Phases, Scope, Waiting, Over, watching, file, process, verdict
<1>1. CASE ResolveAddress
  <2>1. \A s \in W!Snapshots : Resolve(s) \in Documents
    BY DEF Documents, W!Selections
  <2> QED
    BY <1>1, <2>1 DEF ResolveAddress, Exit, NO_ADDRESS, FAILED
<1>2. CASE Install \/ CreateDirectory \/ Spawn
  BY <1>2 DEF Install, CreateDirectory, Spawn, Exit, FAILED
<1>3. CASE Reap \/ ArmGrace \/ Kill
  <2>1. CASE Reap
    BY <2>1 DEF Reap, Reaped
  <2>2. CASE ArmGrace
    BY <2>2 DEF ArmGrace
  <2>3. CASE Kill
    <3>1. child' \in {child, "killed"} /\ code' \in ChildCodes \cup {1, None}
      BY <2>3 DEF Kill
    <3> QED
      BY <2>3, <3>1 DEF Kill
  <2> QED
    BY <1>3, <2>1, <2>2, <2>3
<1>4. CASE ReadFlag
  BY <1>4 DEF ReadFlag
<1>5. CASE RaiseFlag
  BY <1>5 DEF RaiseFlag
<1>6. CASE Join
  BY <1>6 DEF Join
<1>7. CASE RemoveFile
  BY <1>7, TypeRemove DEF RemoveFile
<1>8. CASE Report
  <2>1. ExitCode(code, seen) \in 0..255
    BY DEF ExitCode, FAILED
  <2> QED
    BY <1>8, <2>1 DEF Report, Exit, FAILED
<1> QED
  BY <1>1, <1>2, <1>3, <1>4, <1>5, <1>6, <1>7, <1>8 DEF Main

\* A write by either thread keeps the types.
LEMMA TypeWrite == ASSUME TypeOK, Write \/ WriteFails PROVE TypeOK'
<1> USE DEF TypeOK, Phases, Scope, Waiting, Over, watching, process, verdict
<1>1. CASE OpenTemporary
  BY <1>1 DEF OpenTemporary, Contents
<1>2. CASE FillTemporary
  BY <1>2 DEF FillTemporary, Document, Contents
<1>3. CASE Rename \/ Discard
  <2>1. target' \in Contents /\ temporary' \in Contents /\ stuck' \in BOOLEAN
    BY <1>3, TypeRemove DEF Rename, Discard, Contents
  <2>2. writing' = "open" /\ UNCHANGED <<tracked, launch, process, verdict, signal>>
    BY <1>3 DEF Rename, Discard
  <2>3. CASE main = "write"
    <3>1. main' = "spawn" /\ UNCHANGED <<watching, interrupted>>
      BY <1>3, <2>3 DEF Rename, Discard, Written
    <3> QED
      BY <2>1, <2>2, <3>1
  <2>4. CASE main # "write"
    <3>1. W!Return("ok") /\ UNCHANGED main
      BY <1>3, <2>4 DEF Rename, Discard, Written
    <3> QED
      BY <2>1, <2>2, <3>1 DEF W!Return, W!env
  <2> QED
    BY <2>3, <2>4
<1>4. CASE WriteFails
  BY <1>4 DEF WriteFails, Contents, Exit, FAILED
<1> QED
  BY <1>1, <1>2, <1>3, <1>4 DEF Write

\* So do the tracker's steps.
LEMMA TypeTracker == ASSUME TypeOK, Tracker \/ TrackFails PROVE TypeOK'
<1> USE DEF TypeOK, running, file, process, verdict, W!Reading, W!Ended, W!env
<1>1. CASE Track
  <2>0. W!Observe /\ UNCHANGED running
    BY <1>1 DEF Track
  <2>1. CASE W!Subscribe
    BY <2>0, <2>1 DEF W!Subscribe
  <2>2. CASE W!ReadLinks \/ W!ReadAddresses \/ W!ReadRoutes
    BY <2>0, <2>2 DEF W!ReadLinks, W!ReadAddresses, W!ReadRoutes, W!Snapshots
  <2>3. CASE W!Open \/ W!Compare
    <3>1. Resolve(fresh) \in Documents
      BY DEF Documents, W!Selections
    <3>2. CASE W!Open
      BY <2>0, <3>2, <3>1 DEF W!Open
    <3>3. CASE W!Compare
      BY <2>0, <3>3, <3>1 DEF W!Compare
    <3> QED
      BY <2>3, <3>2, <3>3
  <2>4. CASE W!WakeOnEvent
    <3>1. queued' \in BOOLEAN /\ tracker' = "settle"
      BY <2>4 DEF W!WakeOnEvent
    <3> QED
      BY <2>0, <2>4, <3>1 DEF W!WakeOnEvent
  <2>5. CASE W!WakeOnTimeout \/ W!WakeOnInterrupt
    BY <2>0, <2>5 DEF W!WakeOnTimeout, W!WakeOnInterrupt
  <2>5a. CASE W!Swallow
    <3>1. queued' \in BOOLEAN
      BY <2>5a DEF W!Swallow
    <3> QED
      BY <2>0, <2>5a, <3>1 DEF W!Swallow, W!loop
  <2>5b. CASE W!Deadline
    BY <2>0, <2>5b DEF W!Deadline
  <2>6. CASE W!Woken
    <3>1. blind' \in BOOLEAN /\ tracker' \in {"stopped", "links"}
      BY <2>6 DEF W!Woken
    <3> QED
      BY <2>0, <2>6, <3>1 DEF W!Woken
  <2> QED
    BY <2>0, <2>1, <2>2, <2>3, <2>4, <2>5, <2>5a, <2>5b, <2>6 DEF W!Observe
<1>2. CASE TrackEnds
  <2>1. target' \in Contents /\ temporary' \in Contents /\ stuck' \in BOOLEAN
    BY <1>2, TypeRemove DEF TrackEnds
  <2> QED
    BY <1>2, <2>1 DEF TrackEnds
<1>3. CASE TrackFails
  <2>1. UNCHANGED running
    BY <1>3 DEF TrackFails
  <2>2. CASE W!SnapshotFails
    BY <2>1, <2>2 DEF W!SnapshotFails
  <2>3. CASE W!SourceFails
    <3>1. source' \in BOOLEAN /\ queued' \in BOOLEAN /\ tracker' = "woken"
      BY <2>3 DEF W!SourceFails
    <3> QED
      BY <2>1, <2>3, <3>1 DEF W!SourceFails
  <2> QED
    BY <1>3, <2>2, <2>3 DEF TrackFails
<1> QED
  BY <1>1, <1>2, <1>3 DEF Tracker

\* And those of the child, the user, the handler and the machine.
LEMMA TypeWorld == ASSUME TypeOK, World \/ WaitFails PROVE TypeOK'
<1> USE DEF TypeOK, Phases, Scope, Waiting, Over, watching, running, file,
            process, verdict, W!env, W!loop
<1>1. CASE ChildExits
  BY <1>1 DEF ChildExits
<1>2. CASE Signal
  BY <1>2 DEF Signal
<1>3. CASE Handle
  BY <1>3 DEF Handle, W!Interrupt
<1>4. CASE Crash
  BY <1>4 DEF Crash
<1>5. CASE MachineChanges
  BY <1>5 DEF MachineChanges, W!Change
<1>6. CASE WaitFails
  BY <1>6 DEF WaitFails, Reaped
<1> QED
  BY <1>1, <1>2, <1>3, <1>4, <1>5, <1>6 DEF World

\* A stuttering step keeps the types.
LEMMA TypeUnchanged == TypeOK /\ UNCHANGED vars => TypeOK'
  BY DEF TypeOK, vars, watching, running, file, process, verdict

\* Every step keeps the types.
LEMMA TypeNext == TypeOK /\ [Next]_vars => TypeOK'
  BY TypeMain, TypeWrite, TypeTracker, TypeWorld, TypeUnchanged DEF Next, Failure

(***************************************************************************)
(* The type invariant, for every value of the constants.                   *)
(***************************************************************************)
THEOREM TypeCorrect == Spec => []TypeOK
<1>1. Init => TypeOK
  BY TypeInit
<1>2. TypeOK /\ [Next]_vars => TypeOK'
  BY TypeNext
<1> QED
  BY <1>1, <1>2, PTL DEF Spec

----------------------------------------------------------------------------
(***************************************************************************)
(* A temporary is complete by the time it is renamed, so the target never  *)
(* holds anything but a complete document.                                 *)
(***************************************************************************)
Whole ==
    /\ target # Torn
    /\ writing = "rename" => temporary # Torn

\* Nothing is written yet.
LEMMA WholeInit == Init => Whole
  BY TornIsNoDocument DEF Init, Whole

\* Only the steps of a write and a removal touch the files, and each keeps
\* the order of StateFile::write.
LEMMA WholeNext == TypeOK /\ Whole /\ [Next]_vars => Whole'
<1> SUFFICES ASSUME TypeOK, Whole, [Next]_vars PROVE Whole'
  OBVIOUS
<1> USE DEF Whole, file
<1>1. CASE UNCHANGED file
  BY <1>1
<1>2. CASE OpenTemporary
  BY <1>2 DEF OpenTemporary
<1>3. CASE FillTemporary
  <2>1. Document \in Documents
    BY DEF Document, TypeOK
  <2> QED
    BY <1>3, <2>1, TornIsNoDocument DEF FillTemporary
<1>4. CASE Rename
  BY <1>4 DEF Rename
<1>5. CASE WriteFails
  BY <1>5 DEF WriteFails
<1>6. CASE Discard
  BY <1>6, TornIsNoDocument DEF Discard, Remove
<1>7. CASE TrackEnds
  BY <1>7, TornIsNoDocument DEF TrackEnds, Remove
<1>8. CASE RemoveFile
  BY <1>8, TornIsNoDocument DEF RemoveFile, Remove
<1>9. CASE Main /\ ~RemoveFile
  BY <1>1, <1>9 DEF Main, ResolveAddress, Install, CreateDirectory, Spawn, Reap,
     Reaped, ArmGrace, Kill, ReadFlag, RaiseFlag, Join, Report
<1>10. CASE Track \/ TrackFails \/ World
  BY <1>1, <1>10 DEF Track, TrackFails, World, ChildExits, Signal, Handle, Crash,
     MachineChanges, running
<1>11. CASE WaitFails \/ UNCHANGED vars
  BY <1>1, <1>11 DEF WaitFails, Reaped, vars, running
<1> QED
  BY <1>2, <1>3, <1>4, <1>5, <1>6, <1>7, <1>8, <1>9, <1>10, <1>11
     DEF Next, Write, Tracker, Failure

(***************************************************************************)
(* state.rs:14-16: a reader never sees a half-written file, however often  *)
(* updates fail and wherever AutoNet is killed.                            *)
(***************************************************************************)
THEOREM NeverHalfWritten == Spec => []ReaderSeesWhole
<1>1. Init => TypeOK /\ Whole
  BY TypeInit, WholeInit
<1>2. TypeOK /\ Whole /\ [Next]_vars => (TypeOK /\ Whole)'
  BY TypeNext, WholeNext
<1>3. Whole => ReaderSeesWhole
  BY DEF Whole, ReaderSeesWhole
<1> QED
  BY <1>1, <1>2, <1>3, PTL DEF Spec

----------------------------------------------------------------------------
(***************************************************************************)
(* Why no file survives a started command: run removes it only after the   *)
(* tracker, the one other writer, has been joined; and without a state     *)
(* file there never was one.                                               *)
(***************************************************************************)
NoFiles == target = Absent /\ temporary = Absent

Gone ==
    /\ ~tracked => NoFiles
    /\ child # "none" => main \in Scope \cup {"remove", "exit"} \cup Over
    /\ main \in {"create", "write", "raise", "join", "remove"} => tracked
    /\ tracked /\ main \in {"remove", "exit"} => tracker = "gone"
    /\ tracked /\ main = "exit" /\ ~stuck => NoFiles
    /\ FileGoneAtEnd

\* No file, no child.
LEMMA GoneInit == Init => Gone
  BY DEF Init, Gone, NoFiles, FileGoneAtEnd

\* A tracker that is gone takes no step.
LEMMA GoneIsGone == tracker = "gone" => ~W!Observe /\ ~TrackFails
  BY DEF W!Observe, W!Subscribe, W!ReadLinks, W!ReadAddresses, W!ReadRoutes, W!Open,
     W!Compare, W!WakeOnEvent, W!WakeOnTimeout, W!WakeOnInterrupt, W!Swallow,
     W!Deadline, W!Woken, TrackFails, W!SnapshotFails, W!SourceFails,
     W!Reading

\* The main thread's steps.
LEMMA GoneMain == ASSUME TypeOK, Gone, Main PROVE Gone'
<1> USE DEF Gone, NoFiles, FileGoneAtEnd, Scope, Waiting, Over, watching, file,
            process, verdict
<1>1. CASE ResolveAddress
  BY <1>1 DEF ResolveAddress, Exit
<1>2. CASE Install \/ CreateDirectory
  BY <1>2 DEF Install, CreateDirectory, Exit
<1>3. CASE Spawn
  BY <1>3 DEF Spawn, Exit
<1>4. CASE Reap \/ ArmGrace
  BY <1>4 DEF Reap, Reaped, ArmGrace
<1>5. CASE Kill
  BY <1>5 DEF Kill
<1>6. CASE ReadFlag
  BY <1>6 DEF ReadFlag
<1>7. CASE RaiseFlag \/ Join
  BY <1>7 DEF RaiseFlag, Join
<1>8. CASE RemoveFile
  BY <1>8 DEF RemoveFile, Remove
<1>9. CASE Report
  BY <1>9 DEF Report, Exit
<1> QED
  BY <1>1, <1>2, <1>3, <1>4, <1>5, <1>6, <1>7, <1>8, <1>9 DEF Main

\* A write happens before the child or inside the scope, never after.
LEMMA GoneWrite == ASSUME TypeOK, Gone, Write \/ WriteFails PROVE Gone'
<1> USE DEF Gone, NoFiles, FileGoneAtEnd, Scope, Waiting, Over
<1>1. tracked /\ main \in {"write"} \cup Scope
  BY DEF Write, OpenTemporary, FillTemporary, Rename, Discard, WriteFails, Writing,
         Tracking
<1>2. tracked' = tracked /\ child' = child
  BY DEF Write, OpenTemporary, FillTemporary, Rename, Discard, WriteFails, process
<1>3. \/ main' = main /\ main \in Scope
      \/ main' \in {"write", "spawn", "over"} /\ child = "none"
  <2>1. CASE OpenTemporary \/ FillTemporary
    BY <1>1, <2>1 DEF OpenTemporary, FillTemporary
  <2>2. CASE Rename \/ Discard
    BY <1>1, <2>2 DEF Rename, Discard, Written
  <2>3. CASE WriteFails
    BY <1>1, <2>3 DEF WriteFails, Exit
  <2> QED
    BY <2>1, <2>2, <2>3 DEF Write
<1> QED
  BY <1>1, <1>2, <1>3

\* The tracker's steps happen while it is there.
LEMMA GoneTracker == ASSUME TypeOK, Gone, Tracker \/ TrackFails PROVE Gone'
<1> USE DEF Gone, NoFiles, FileGoneAtEnd, Scope, Waiting, Over, running, file,
            process, verdict
<1>1. tracked /\ main \in Scope
  <2>1. tracker # "gone"
    BY GoneIsGone DEF Tracker, Track, TrackEnds, W!Ended
  <2>2. Tracking
    BY DEF Tracker, Track, TrackEnds, TrackFails
  <2> QED
    BY <2>1, <2>2 DEF Tracking
<1>2. tracked' = tracked /\ main' = main /\ child' = child
  BY DEF Tracker, Track, TrackEnds, TrackFails
<1> QED
  BY <1>1, <1>2

\* The world's steps touch no file; a crash is not an exit.
LEMMA GoneWorld == ASSUME TypeOK, Gone, World \/ WaitFails PROVE Gone'
<1> USE DEF Gone, NoFiles, FileGoneAtEnd, Scope, Waiting, Over, watching, running,
            file, process, verdict
<1>1. CASE ChildExits
  BY <1>1 DEF ChildExits
<1>2. CASE Signal
  BY <1>2 DEF Signal
<1>3. CASE Handle
  BY <1>3 DEF Handle, W!Interrupt, W!loop
<1>4. CASE Crash
  BY <1>4 DEF Crash
<1>5. CASE MachineChanges
  BY <1>5 DEF MachineChanges, W!Change, W!loop
<1>6. CASE WaitFails
  BY <1>6 DEF WaitFails, Reaped
<1> QED
  BY <1>1, <1>2, <1>3, <1>4, <1>5, <1>6 DEF World

(***************************************************************************)
(* spawn.rs:165-170: once a child has been started, an exit leaves neither *)
(* the file nor its temporary, whatever the wait and the tracker met,      *)
(* unless the last removal itself was refused.                             *)
(***************************************************************************)
THEOREM NothingLeftBehind == Spec => []FileGoneAtEnd
<1>1. Init => TypeOK /\ Gone
  BY TypeInit, GoneInit
<1>2. TypeOK /\ Gone /\ [Next]_vars => (TypeOK /\ Gone)'
  <2>1. Gone /\ UNCHANGED vars => Gone'
    BY DEF Gone, NoFiles, FileGoneAtEnd, vars, watching, running, file, process
  <2> QED
    BY TypeNext, GoneMain, GoneWrite, GoneTracker, GoneWorld, <2>1 DEF Next, Failure
<1>3. Gone => FileGoneAtEnd
  BY DEF Gone
<1> QED
  BY <1>1, <1>2, <1>3, PTL DEF Spec

----------------------------------------------------------------------------
(***************************************************************************)
(* Why the exit code can be trusted: the flag is read before run raises it *)
(* for its own tracker, and a child that has been reaped changes its code  *)
(* no more.                                                                *)
(***************************************************************************)
Honest ==
    /\ interrupted => signal # "none" \/ main \in {"join", "remove", "exit"} \cup Over
    /\ seen => signal # "none"
    /\ waited = "status" =>
         /\ child \in {"exited", "killed"}
         /\ main \in {"read", "raise", "join", "remove", "exit"} \cup Over
    /\ main = "over" /\ waited = "status" => exitcode = ExitCode(code, seen)

\* Nothing has been waited for, and no flag raised.
LEMMA HonestInit == Init => Honest
  BY DEF Init, W!Init, Honest

\* The main thread's steps.
LEMMA HonestMain == ASSUME TypeOK, Honest, Main PROVE Honest'
<1> USE DEF Honest, Over, watching, process, verdict, Exit
<1>1. CASE ResolveAddress
  BY <1>1 DEF ResolveAddress
<1>2. CASE Install \/ CreateDirectory \/ Spawn
  BY <1>2 DEF Install, CreateDirectory, Spawn
<1>3. CASE Reap
  BY <1>3 DEF Reap, Reaped, Waiting
<1>4. CASE ArmGrace \/ Kill
  BY <1>4 DEF ArmGrace, Kill
<1>5. CASE ReadFlag
  BY <1>5 DEF ReadFlag
<1>6. CASE RaiseFlag \/ Join \/ RemoveFile
  BY <1>6 DEF RaiseFlag, Join, RemoveFile
<1>7. CASE Report
  BY <1>7 DEF Report
<1> QED
  BY <1>1, <1>2, <1>3, <1>4, <1>5, <1>6, <1>7 DEF Main

\* The other threads and the world: only the handler touches the flag.
LEMMA HonestOther ==
  ASSUME TypeOK, Honest, Write \/ Tracker \/ Failure \/ World
  PROVE  Honest'
<1> USE DEF Honest, Over, watching, running, process, verdict
<1>1. CASE OpenTemporary \/ FillTemporary
  BY <1>1 DEF OpenTemporary, FillTemporary
<1>2. CASE Rename \/ Discard
  BY <1>2 DEF Rename, Discard, Written, W!Return
<1>3. CASE WriteFails
  BY <1>3 DEF WriteFails, Exit
<1>4. CASE Track
  <2>1. UNCHANGED <<interrupted, running>>
    BY <1>4 DEF Track, W!Observe, W!Subscribe, W!ReadLinks, W!ReadAddresses,
       W!ReadRoutes, W!Open, W!Compare, W!WakeOnEvent, W!WakeOnTimeout,
       W!WakeOnInterrupt, W!Swallow, W!Deadline, W!Woken, W!loop
  <2> QED
    BY <2>1
<1>5. CASE TrackFails \/ TrackEnds
  BY <1>5 DEF TrackFails, TrackEnds, W!SnapshotFails, W!SourceFails
<1>6. CASE WaitFails
  BY <1>6 DEF WaitFails, Reaped, Waiting
<1>7. CASE ChildExits
  BY <1>7 DEF ChildExits
<1>8. CASE Signal
  BY <1>8 DEF Signal
<1>9. CASE Handle
  BY <1>9 DEF Handle, W!Interrupt
<1>10. CASE Crash
  BY <1>10 DEF Crash
<1>11. CASE MachineChanges
  BY <1>11 DEF MachineChanges, W!Change
<1> QED
  BY <1>1, <1>2, <1>3, <1>4, <1>5, <1>6, <1>7, <1>8, <1>9, <1>10, <1>11
     DEF Write, Tracker, Failure, World

(***************************************************************************)
(* spawn.rs:314-336: the exit code is the child's where a u8 can carry it, *)
(* zero only for the child's own zero, and 130 for a child without a code  *)
(* only after a real signal - for every set of codes.                      *)
(***************************************************************************)
THEOREM ExitCodeHonest == Spec => []ExitCodeFaithful
<1>1. Init => TypeOK /\ Honest
  BY TypeInit, HonestInit
<1>2. TypeOK /\ Honest /\ [Next]_vars => (TypeOK /\ Honest)'
  <2>1. Honest /\ UNCHANGED vars => Honest'
    BY DEF Honest, vars, running, process, verdict
  <2> QED
    BY TypeNext, HonestMain, HonestOther, <2>1 DEF Next
<1>3. TypeOK /\ Honest => ExitCodeFaithful
  BY CodesAreIntegers DEF TypeOK, Honest, ExitCodeFaithful, ExitCode, FAILED
<1> QED
  BY <1>1, <1>2, <1>3, PTL DEF Spec

----------------------------------------------------------------------------
(***************************************************************************)
(* Why the file can be believed.  While the tracker is there its loop      *)
(* keeps what WatchProofs shows of it; the file has the answer handed over *)
(* last, or has gone; and a tracker that has ended was told to, or has     *)
(* taken the file with it.                                                 *)
(***************************************************************************)
WP == INSTANCE WatchProofs WITH pc <- tracker

LoopKept == tracker # "gone" => WP!IInv

Told == tracker \notin {"gone", "deliver"} \cup W!Ended /\ state # None

Follows ==
    /\ main \notin Scope \cup {"remove", "exit"} \cup Over => tracker = "subscribe"
    /\ writing # "open" => main = "write" \/ main \in Over \/ tracker = "deliver"
    /\ tracker = "deliver" /\ writing = "rename" => temporary = current
    /\ Told /\ ~stuck => target \in {Absent, current}
    /\ tracker \in W!Ended \ {"failed"} => interrupted
    /\ tracker = "gone" => interrupted \/ stuck \/ target = Absent

\* The loop's definitions as Run and as its own proofs name them are the same.
LEMMA SameLoop ==
  /\ W!Snapshots = WP!Snapshots
  /\ W!GateSound => WP!GateSound
  /\ W!Init => WP!Init
  /\ W!Observe => WP!Observe
  /\ W!Return("ok") => WP!Return("ok")
  /\ W!SnapshotFails => WP!SnapshotFails
  /\ W!SourceFails => WP!SourceFails
  /\ W!Interrupt => WP!Interrupt
<1> USE DEF W!Snapshots, WP!Snapshots, W!env, WP!env, W!loop, WP!loop,
            W!Reading, WP!Reading
<1>1. W!Snapshots = WP!Snapshots
  OBVIOUS
<1>2. W!GateSound => WP!GateSound
  BY DEF W!GateSound, WP!GateSound
<1>3. W!Init => WP!Init
  BY DEF W!Init, WP!Init
<1>4. W!Observe => WP!Observe
  <2>1. /\ W!Subscribe => WP!Subscribe
        /\ W!ReadLinks => WP!ReadLinks
        /\ W!ReadAddresses => WP!ReadAddresses
        /\ W!ReadRoutes => WP!ReadRoutes
    BY DEF W!Subscribe, WP!Subscribe, W!ReadLinks, WP!ReadLinks, W!ReadAddresses,
           WP!ReadAddresses, W!ReadRoutes, WP!ReadRoutes
  <2>2. W!Open => WP!Open
    BY DEF W!Open, WP!Open
  <2>3. W!Compare => WP!Compare
    BY DEF W!Compare, WP!Compare
  <2>4. /\ W!WakeOnEvent => WP!WakeOnEvent
        /\ W!WakeOnTimeout => WP!WakeOnTimeout
        /\ W!WakeOnInterrupt => WP!WakeOnInterrupt
    BY DEF W!WakeOnEvent, WP!WakeOnEvent, W!WakeOnTimeout, WP!WakeOnTimeout,
           W!WakeOnInterrupt, WP!WakeOnInterrupt
  <2>5. /\ W!Swallow => WP!Swallow
        /\ W!Deadline => WP!Deadline
        /\ W!Woken => WP!Woken
    BY DEF W!Swallow, WP!Swallow, W!Deadline, WP!Deadline, W!Woken, WP!Woken
  <2> QED
    BY <2>1, <2>2, <2>3, <2>4, <2>5 DEF W!Observe, WP!Observe
<1>5. W!Return("ok") => WP!Return("ok")
  BY DEF W!Return, WP!Return
<1>6. W!SnapshotFails => WP!SnapshotFails
  BY DEF W!SnapshotFails, WP!SnapshotFails
<1>7. W!SourceFails => WP!SourceFails
  BY DEF W!SourceFails, WP!SourceFails
<1>8. W!Interrupt => WP!Interrupt
  BY DEF W!Interrupt, WP!Interrupt
<1> QED
  BY <1>1, <1>2, <1>3, <1>4, <1>5, <1>6, <1>7, <1>8

\* The steps of the loop and of the machine keep what the loop keeps.
LEMMA LoopStep ==
  ASSUME W!GateSound, WP!IInv,
         \/ W!Observe \/ W!Return("ok") \/ W!SnapshotFails \/ W!SourceFails
         \/ W!Interrupt
         \/ \E now \in W!Snapshots, heard \in BOOLEAN : W!Change(now, heard)
  PROVE  WP!IInv'
<1>0. MaxChanges \in Nat /\ MaxFailures \in Nat /\ None \notin WP!Snapshots
  BY LoopBoundsAreNat, NoneIsNoSnapshot, SameLoop
<1>1. WP!GateSound
  BY SameLoop
<1>2. WP!Step \/ WP!World
  <2>1. CASE W!Observe \/ W!Return("ok") \/ W!SnapshotFails \/ W!SourceFails
    BY <2>1, SameLoop DEF WP!Step, WP!Progress, WP!Failure
  <2>2. CASE W!Interrupt
    BY <2>2, SameLoop DEF WP!World
  <2>3. ASSUME NEW now \in W!Snapshots, NEW heard \in BOOLEAN, W!Change(now, heard)
        PROVE  WP!World
    <3>1. WP!Change(now, heard)
      BY <2>3 DEF W!Change, WP!Change, W!loop, WP!loop
    <3> QED
      BY <3>1, SameLoop DEF WP!World
  <2> QED
    BY <2>1, <2>2, <2>3
<1>3. WP!FInv'
  BY <1>0, <1>2, WP!PhaseNext DEF WP!IInv, WP!Next
<1>4. WP!DumpsAgree'
  BY <1>0, <1>2, WP!DumpsStep, WP!DumpsWorld
<1>5. WP!AnswerKept'
  BY <1>0, <1>1, <1>2, WP!AnswerStep, WP!AnswerWorld
<1> QED
  BY <1>3, <1>4, <1>5 DEF WP!IInv

\* It is about what Run calls watching, and the flag's type.
LEMMA LoopFrame ==
  ASSUME TypeOK, LoopKept, UNCHANGED watching, interrupted' \in {interrupted, TRUE}
  PROVE  LoopKept'
<1>1. interrupted' \in BOOLEAN
  BY DEF TypeOK
<1>2. tracker' = tracker
  BY DEF watching
<1>3. ASSUME WP!IInv PROVE WP!IInv'
  BY <1>1, <1>3
  DEF watching, WP!IInv, WP!FInv, WP!TypeOK, WP!PhaseKept, WP!DumpsAgree, WP!AnswerKept,
      WP!Attentive, WP!Started, WP!Snapshots, WP!Selections, WP!Ended, WP!Reading
<1> QED
  BY <1>2, <1>3 DEF LoopKept

\* What both say of the state, in one.
Believed == LoopKept /\ Follows

LEMMA BelievedInit == Init => Believed
<1>1. Init => WP!IInv
  BY SameLoop, WP!IInvInit, LoopBoundsAreNat, NoneIsNoSnapshot DEF Init
<1> QED
  BY <1>1 DEF Believed, LoopKept, Follows, Init, W!Init, Told, Scope, Over, Waiting, W!Ended

\* The main thread before the child, around it and at the end.
LEMMA BelievedMain == ASSUME TypeOK, Gone, Believed, Main PROVE Believed'
<1> USE DEF Believed, Follows, Told, Scope, Over, Waiting, W!Ended, Exit
<1>1. CASE ResolveAddress \/ Install \/ CreateDirectory \/ Spawn
  <2>1. UNCHANGED <<watching, file>> /\ interrupted' = interrupted
    BY <1>1 DEF ResolveAddress, Install, CreateDirectory, Spawn
  <2>2. LoopKept'
    BY <2>1, LoopFrame
  <2> QED
    BY <1>1, <2>1, <2>2 DEF ResolveAddress, Install, CreateDirectory, Spawn, watching, file
<1>2. CASE Reap \/ ArmGrace \/ Kill \/ ReadFlag \/ Join \/ Report
  <2>1. UNCHANGED <<watching, file>> /\ interrupted' = interrupted
    BY <1>2 DEF Reap, Reaped, ArmGrace, Kill, ReadFlag, Join, Report
  <2>2. LoopKept'
    BY <2>1, LoopFrame
  <2> QED
    BY <1>2, <2>1, <2>2
    DEF Reap, Reaped, ArmGrace, Kill, ReadFlag, Join, Report, watching, file
<1>3. CASE RaiseFlag
  <2>1. LoopKept'
    BY <1>3, LoopFrame DEF RaiseFlag
  <2> QED
    BY <1>3, <2>1 DEF RaiseFlag, watching, file
<1>4. CASE RemoveFile
  <2>1. LoopKept'
    BY <1>4, LoopFrame DEF RemoveFile
  <2>2. tracker = "gone"
    BY <1>4 DEF Gone, RemoveFile
  <2>3. stuck' \/ target' = Absent
    BY <1>4 DEF RemoveFile, Remove
  <2> QED
    BY <1>4, <2>1, <2>2, <2>3 DEF RemoveFile, watching
<1> QED
  BY <1>1, <1>2, <1>3, <1>4 DEF Main

\* A write of either thread: the tracker's has what its loop hands over.
LEMMA BelievedWrite ==
  ASSUME W!GateSound, TypeOK, Believed, Write \/ WriteFails
  PROVE  Believed'
<1> USE DEF Believed, Follows, Told, Scope, Over, Waiting, W!Ended
<1>1. Writing /\ (tracker = "deliver" \/ tracker = "subscribe")
      /\ (main = "write" <=> tracker = "subscribe")
      /\ (tracker = "deliver" => main \notin {"write"} \cup Over)
  BY DEF Write, OpenTemporary, FillTemporary, Rename, Discard, WriteFails, Writing, Tracking
<1>2. CASE OpenTemporary \/ FillTemporary
  <2>1. UNCHANGED <<watching, interrupted, target, stuck, main>>
    BY <1>2 DEF OpenTemporary, FillTemporary
  <2>2. LoopKept'
    BY <2>1, LoopFrame
  <2> QED
    BY <1>1, <1>2, <2>1, <2>2 DEF OpenTemporary, FillTemporary, Document, watching
<1>3. CASE WriteFails
  <2>1. UNCHANGED <<watching, interrupted, target, stuck>>
    BY <1>3 DEF WriteFails
  <2>2. LoopKept'
    BY <2>1, LoopFrame
  <2> QED
    BY <1>1, <1>3, <2>1, <2>2 DEF WriteFails, Exit, watching
<1>4. CASE Rename \/ Discard
  <2>1. writing' = "open" /\ (~stuck' => target' \in {Absent, temporary})
        /\ (Discard /\ ~stuck' => target' = Absent)
        /\ (Rename => writing = "rename")
        /\ Written
    BY <1>4 DEF Rename, Discard, Remove
  <2>2. CASE main = "write"
    <3>1. main' = "spawn" /\ UNCHANGED <<watching, interrupted>>
      BY <2>1, <2>2 DEF Written
    <3>2. LoopKept'
      BY <3>1, LoopFrame
    <3>3. tracker = "subscribe" /\ state = None
      BY <1>1, <2>2 DEF LoopKept, WP!IInv, WP!FInv, WP!PhaseKept
    <3> QED
      BY <1>1, <2>1, <2>2, <3>1, <3>2, <3>3 DEF watching
  <2>3. CASE main # "write"
    <3>1. W!Return("ok") /\ UNCHANGED main
      BY <2>1, <2>3 DEF Written
    <3>2. LoopKept'
      BY <3>1, <1>1, LoopStep DEF LoopKept
    <3>3. tracker' = "wait" /\ current' = current /\ interrupted' = interrupted
      BY <3>1 DEF W!Return
    <3>4. ~stuck' => target' \in {Absent, current}
      BY <1>1, <1>4, <2>1, <2>3
    <3> QED
      BY <1>1, <2>1, <2>3, <3>1, <3>2, <3>3, <3>4
  <2> QED
    BY <2>2, <2>3
<1> QED
  BY <1>2, <1>3, <1>4 DEF Write

\* The tracker between two writes, and its end.
LEMMA BelievedTracker ==
  ASSUME W!GateSound, TypeOK, Believed, Tracker \/ TrackFails
  PROVE  Believed'
<1> USE DEF Believed, Follows, Told, Scope, Over, Waiting, W!Ended
<1>1. CASE Track \/ TrackFails
  <2>1. /\ W!Observe \/ W!SnapshotFails \/ W!SourceFails
        /\ UNCHANGED running
        /\ tracker # "gone"
    BY <1>1, GoneIsGone DEF Track, TrackFails
  <2>2. LoopKept'
    BY <2>1, LoopStep DEF LoopKept
  <2>3. /\ tracker \notin {"gone", "deliver"} \cup W!Ended
        /\ tracker' # "gone"
        /\ tracker' \in W!Ended \ {"failed"} => interrupted
        /\ interrupted' = interrupted
        /\ Told' => Told /\ current' = current
    BY <2>1 DEF W!Observe, W!SnapshotFails, W!SourceFails, W!Subscribe, W!ReadLinks,
       W!ReadAddresses, W!ReadRoutes, W!Open, W!Compare, W!WakeOnEvent, W!WakeOnTimeout,
       W!WakeOnInterrupt, W!Swallow, W!Deadline, W!Woken, W!Reading, W!loop, W!env
  <2>4. main \in Scope \cup {"remove", "exit"}
    BY <1>1 DEF Track, TrackFails, Tracking
  <2>5. UNCHANGED <<main, writing, target, temporary, stuck>>
    BY <2>1 DEF running, file
  <2> QED
    BY <2>2, <2>3, <2>4, <2>5
<1>2. CASE TrackEnds
  <2>1. tracker' = "gone" /\ tracker \in W!Ended /\ UNCHANGED <<main, interrupted, writing>>
    BY <1>2 DEF TrackEnds
  <2>2. tracker = "failed" => stuck' \/ target' = Absent
    BY <1>2 DEF TrackEnds, Remove
  <2>3. main \in Scope \cup {"remove", "exit"}
    BY <1>2 DEF TrackEnds, Tracking
  <2> QED
    BY <2>1, <2>2, <2>3 DEF LoopKept
<1> QED
  BY <1>1, <1>2 DEF Tracker

\* The child, the user and the machine touch no file.
LEMMA BelievedWorld ==
  ASSUME W!GateSound, TypeOK, Believed, World \/ WaitFails
  PROVE  Believed'
<1> USE DEF Believed, Follows, Told, Scope, Over, Waiting, W!Ended
<1>1. CASE ChildExits \/ Signal \/ Crash \/ WaitFails
  <2>1. UNCHANGED <<watching, interrupted, file>>
    BY <1>1 DEF ChildExits, Signal, Crash, WaitFails, Reaped
  <2>2. LoopKept'
    BY <2>1, LoopFrame
  <2> QED
    BY <1>1, <2>1, <2>2 DEF ChildExits, Signal, Crash, WaitFails, Reaped, watching, file
<1>2. CASE Handle \/ MachineChanges
  <2>1. UNCHANGED <<main, writing, target, temporary, stuck, tracker, state, current>>
    BY <1>2 DEF Handle, MachineChanges, W!Interrupt, W!Change, W!loop, running, file
  <2>2. interrupted => interrupted'
    BY <1>2 DEF Handle, MachineChanges, W!Interrupt, W!Change
  <2>3. LoopKept'
    BY <1>2, <2>1, LoopStep DEF LoopKept, Handle, MachineChanges
  <2> QED
    BY <2>1, <2>2, <2>3
<1> QED
  BY <1>1, <1>2 DEF World

(***************************************************************************)
(* state.rs:18-21, spawn.rs:200-219: with a differ whose silence can be    *)
(* trusted, the file gives the machine's own answer whenever the tracker   *)
(* rests with nothing outstanding, and goes when the tracker gives up -    *)
(* for every machine, selector and bound.                                  *)
(***************************************************************************)
THEOREM FileFollows == ASSUME W!GateSound PROVE Spec => []FileAccurate
<1> DEFINE All == TypeOK /\ Gone /\ Believed
<1>1. Init => All
  BY TypeInit, GoneInit, BelievedInit
<1>2. All /\ [Next]_vars => All'
  <2> SUFFICES ASSUME TypeOK, Gone, Believed, [Next]_vars PROVE All'
    OBVIOUS
  <2>1. TypeOK'
    BY TypeNext
  <2>2. Gone'
    <3>1. Gone /\ UNCHANGED vars => Gone'
      BY DEF Gone, NoFiles, FileGoneAtEnd, vars, watching, running, file, process
    <3> QED
      BY <3>1, GoneMain, GoneWrite, GoneTracker, GoneWorld DEF Next, Failure
  <2>3. CASE UNCHANGED vars
    <3>1. LoopKept'
      BY <2>3, LoopFrame DEF Believed, vars
    <3> QED
      BY <2>1, <2>2, <2>3, <3>1
      DEF Believed, Follows, Told, vars, watching, running, file
  <2>4. CASE Next
    BY <2>1, <2>2, <2>4, BelievedMain, BelievedWrite, BelievedTracker, BelievedWorld
    DEF Next, Failure
  <2> QED
    BY <2>3, <2>4
<1>3. All => FileAccurate
  <2> SUFFICES ASSUME All, main = "wait", ~interrupted, tracked, target # Absent
               PROVE  /\ W!Quiet /\ ~stuck => Answer(target) = Answer(Resolve(net))
                      /\ tracker = "gone" => stuck
    BY DEF FileAccurate
  <2>1. tracker = "gone" => stuck
    BY DEF Believed, Follows
  <2>2. ASSUME W!Quiet, ~stuck PROVE Answer(target) = Answer(Resolve(net))
    <3>1. WP!IInv /\ tracker = "wait" /\ source /\ ~queued /\ ~blind
      BY <2>2 DEF Believed, LoopKept, W!Quiet
    <3>2. state = net /\ state # None /\ Answer(current) = Answer(Resolve(state))
      BY <3>1 DEF WP!IInv, WP!FInv, WP!PhaseKept, WP!DumpsAgree, WP!AnswerKept,
         WP!Attentive, WP!Started, WP!Ended
    <3>3. target = current
      BY <2>2, <3>1, <3>2 DEF Believed, Follows, Told, W!Ended
    <3> QED
      BY <3>2, <3>3
  <2> QED
    BY <2>1, <2>2
<1> QED
  BY <1>1, <1>2, <1>3, PTL DEF Spec

============================================================================
