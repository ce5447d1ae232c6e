-------------------------------- MODULE Run --------------------------------
(***************************************************************************)
(* `autonet run [--state-file]` (autonet-cli/src/spawn.rs, state.rs,       *)
(* signal.rs): resolve an address, write it to the state file, launch the  *)
(* command, wait, and exit with its code - while a second thread, the      *)
(* tracker, runs the loop of Watch and rewrites the file.                  *)
(*                                                                         *)
(* Main thread, tracker, signal handler, child, machine and user           *)
(* interleave; they share the flag `interrupted` and the file.             *)
(***************************************************************************)
EXTENDS Integers, Option

CONSTANTS
    LinkTables, AddressTables, RouteTables, Resolve(_), Answer(_), Affects(_, _),
    Requested(_), MaxChanges, MaxFailures,   \* as in Watch
    ChildCodes,   \* the codes a child may report
    Absent,       \* no file there
    Torn          \* a file whose writing has begun and not ended

ASSUME CodesAreIntegers == ChildCodes \subseteq Int /\ None \notin Int

NO_ADDRESS == 1
FAILED == 2

VARIABLES
    net, changes, failures, interrupted, source, queued, tracker, fresh, state,
    selected, current, blind,   \* as in Watch, with `tracker` for its pc
    tracked,    \* --state-file was given
    main,       \* where the main thread is
    launch,     \* the answer the child is launched with
    writing,    \* how far StateFile::write has come, whoever called it
    target,     \* what a reader of the state file finds
    temporary,  \* the sibling an update is assembled in
    stuck,      \* the last removal of the two failed
    child,      \* "none", "running", "exited", or "killed" by AutoNet
    code,       \* ExitStatus::code: None for a death by signal
    deadline,   \* GRACE has begun
    waited,     \* what wait_for returned
    seen,       \* was_interrupted
    exitcode,   \* AutoNet's own, None until it exits
    signal      \* history: "none", "terminal" if it reached the child too,
                \* "direct" if it reached AutoNet alone

W == INSTANCE Watch WITH pc <- tracker

watching == <<net, changes, failures, source, queued, tracker, fresh, state,
              selected, current, blind>>
file     == <<writing, target, temporary, stuck>>
process  == <<child, code>>
verdict  == <<deadline, waited, seen, exitcode>>
running  == <<tracked, main, launch, file, process, verdict, signal>>
vars     == <<watching, interrupted, running>>

Documents == W!Selections
Contents  == Documents \cup {Absent, Torn}

\* What Watch assumes of the same constants.
ASSUME LoopBoundsAreNat == MaxChanges \in Nat /\ MaxFailures \in Nat
ASSUME NoneIsNoSnapshot == None \notin W!Snapshots

ASSUME TornIsNoDocument == Torn \notin Documents \cup {Absent}

Waiting   == {"wait", "reap"}
Scope     == Waiting \cup {"read", "raise", "join"}   \* of thread::scope
Over      == {"over", "dead"}
Phases    == {"resolve", "install", "create", "write", "spawn", "remove", "exit"}
               \cup Scope \cup Over

TypeOK ==
    /\ net \in W!Snapshots
    /\ fresh \in W!Snapshots
    /\ state \in W!Snapshots \cup {None}
    /\ selected \in Documents /\ current \in Documents
    /\ tracker \in {"subscribe", "compare", "deliver", "wait", "settle", "woken",
                     "gone"}
                     \cup W!Reading \cup W!Ended
    /\ interrupted \in BOOLEAN /\ source \in BOOLEAN
    /\ queued \in BOOLEAN /\ blind \in BOOLEAN
    /\ tracked \in BOOLEAN /\ stuck \in BOOLEAN
    /\ deadline \in BOOLEAN /\ seen \in BOOLEAN
    /\ main \in Phases
    /\ launch \in Documents
    /\ writing \in {"open", "fill", "rename", "discard"}
    /\ target \in Contents /\ temporary \in Contents
    /\ child \in {"none", "running", "exited", "killed"}
    /\ code \in ChildCodes \cup {1, None}
    /\ waited \in {"unknown", "status", "error"}
    /\ exitcode \in 0..255 \cup {None}
    /\ signal \in {"none", "terminal", "direct"}

Init ==
    /\ W!Init
    /\ tracked \in BOOLEAN
    /\ main = "resolve"
    /\ launch = None
    /\ writing = "open"
    /\ target = Absent /\ temporary = Absent /\ stuck = FALSE
    /\ child = "none" /\ code = None
    /\ deadline = FALSE /\ waited = "unknown" /\ seen = FALSE /\ exitcode = None
    /\ signal = "none"

----------------------------------------------------------------------------
\* Before the child.

Exit(status) ==
    /\ main' = "over"
    /\ exitcode' = status

\* A snapshot, --interface, and an address - or an early exit.  The machine
\* may move between the dumps, so any snapshot may come of them.
ResolveAddress ==
    /\ main = "resolve"
    /\ \/ /\ \E s \in W!Snapshots : Requested(s) /\ launch' = Resolve(s)
          /\ IF launch' = None
               THEN Exit(NO_ADDRESS)
               ELSE main' = "install" /\ UNCHANGED exitcode
       \/ Exit(FAILED) /\ UNCHANGED launch
    /\ UNCHANGED <<watching, interrupted, tracked, file, process, deadline,
                   waited, seen, signal>>

\* From here on a signal sets a flag instead of killing AutoNet.
Install ==
    /\ main = "install"
    /\ \/ main' = (IF tracked THEN "create" ELSE "spawn") /\ UNCHANGED exitcode
       \/ Exit(FAILED)
    /\ UNCHANGED <<watching, interrupted, tracked, launch, file, process,
                   deadline, waited, seen, signal>>

CreateDirectory ==
    /\ main = "create"
    /\ \/ main' = "write" /\ UNCHANGED exitcode
       \/ Exit(FAILED)
    /\ UNCHANGED <<watching, interrupted, tracked, launch, file, process,
                   deadline, waited, seen, signal>>

\* A child that cannot be started is an error returned at once: the file
\* already written stays where it is.
Spawn ==
    /\ main = "spawn"
    /\ \/ child' = "running" /\ main' = "wait" /\ UNCHANGED exitcode
       \/ Exit(FAILED) /\ UNCHANGED child
    /\ UNCHANGED <<watching, interrupted, tracked, launch, file, code,
                   deadline, waited, seen, signal>>

----------------------------------------------------------------------------
\* StateFile::write and remove, called by either thread.

\* The tracker's thread lives from the spawn until it returns, or AutoNet does.
Tracking == tracked /\ main \in Scope \cup {"remove", "exit"}
Writing  == main = "write" \/ (Tracking /\ tracker = "deliver")
Document == IF main = "write" THEN launch ELSE current

\* The caller goes on: run to its spawn, the tracker's callback returns Ok.
Written ==
    IF main = "write"
      THEN main' = "spawn" /\ UNCHANGED <<watching, interrupted>>
      ELSE W!Return("ok") /\ UNCHANGED main

\* A mistake: the file itself truncated.
OpenTarget ==
    /\ Writing /\ writing = "open"
    /\ temporary' = Torn /\ target' = Torn
    /\ writing' = "fill"
    /\ UNCHANGED <<watching, interrupted, tracked, main, launch, stuck, process,
                   verdict, signal>>

OpenTemporary ==
    /\ Writing /\ writing = "open"
    /\ temporary' = Torn
    /\ writing' = "fill"
    /\ UNCHANGED <<watching, interrupted, tracked, main, launch, target, stuck,
                   process, verdict, signal>>

FillTemporary ==
    /\ Writing /\ writing = "fill"
    /\ temporary' = Document
    /\ writing' = "rename"
    /\ UNCHANGED <<watching, interrupted, tracked, main, launch, target, stuck,
                   process, verdict, signal>>

Rename ==
    /\ Writing /\ writing = "rename"
    /\ target' = temporary
    /\ temporary' = Absent
    /\ stuck' = FALSE
    /\ writing' = "open"
    /\ Written
    /\ UNCHANGED <<tracked, launch, process, verdict, signal>>

\* Only a failing rename takes the temporary with it.  The error ends run
\* with the files as they are; the tracker goes on to remove them.
WriteFails ==
    /\ Writing /\ writing # "discard"
    /\ temporary' = IF writing = "rename" THEN Absent ELSE temporary
    /\ IF main = "write"
         THEN Exit(FAILED) /\ writing' = "open"
         ELSE writing' = "discard" /\ UNCHANGED <<main, exitcode>>
    /\ UNCHANGED <<watching, interrupted, tracked, launch, target, stuck,
                   process, deadline, waited, seen, signal>>

\* Best effort: both files go, or a failure is ignored.
Remove ==
    \/ target' = Absent /\ temporary' = Absent /\ stuck' = FALSE
    \/ UNCHANGED <<target, temporary>> /\ stuck' = TRUE

\* A mistake: the last good document left after an update that failed.
DiscardNothing ==
    /\ Writing /\ writing = "discard"
    /\ writing' = "open"
    /\ Written
    /\ UNCHANGED <<tracked, launch, target, temporary, stuck, process, verdict,
                   signal>>

Discard ==
    /\ Writing /\ writing = "discard"
    /\ Remove
    /\ writing' = "open"
    /\ Written
    /\ UNCHANGED <<tracked, launch, process, verdict, signal>>

----------------------------------------------------------------------------
\* The tracker.

Track ==
    /\ Tracking
    /\ W!Observe
    /\ UNCHANGED running

\* The handler is installed already, and the callback returns nothing but Ok.
TrackFails ==
    /\ Tracking
    /\ W!SnapshotFails \/ W!SourceFails
    /\ UNCHANGED running

\* observe has returned: Ok, or an error that takes the file away.
TrackEnds ==
    /\ Tracking /\ tracker \in W!Ended
    /\ tracker' = "gone"
    /\ IF tracker = "failed" THEN Remove ELSE UNCHANGED <<target, temporary, stuck>>
    /\ UNCHANGED <<net, changes, failures, interrupted, source, queued, fresh,
                   state, selected, current, blind, tracked, main, launch,
                   writing, process, verdict, signal>>

----------------------------------------------------------------------------
\* wait_for.

Reaped(outcome) ==
    /\ waited' = outcome
    /\ main' = "read"
    /\ UNCHANGED <<watching, interrupted, tracked, launch, file, process,
                   deadline, seen, exitcode, signal>>

\* try_wait finds it ended; after the kill, wait blocks for the same.
Reap ==
    /\ main \in Waiting /\ child \in {"exited", "killed"}
    /\ Reaped("status")

WaitFails ==
    /\ main \in Waiting
    /\ Reaped("error")

ArmGrace ==
    /\ main = "wait" /\ child = "running"
    /\ interrupted /\ ~deadline
    /\ deadline' = TRUE
    /\ UNCHANGED <<watching, interrupted, tracked, main, launch, file, process,
                   waited, seen, exitcode, signal>>

\* A mistake: the grace period begun again instead of ended.
KillNever ==
    /\ main = "wait"
    /\ interrupted /\ deadline
    /\ deadline' = FALSE
    /\ UNCHANGED <<watching, interrupted, tracked, main, launch, file, process,
                   waited, seen, exitcode, signal>>

\* GRACE is over.  The child may have ended since the last look, or belong to
\* a user AutoNet may not kill; the error is ignored and wait blocks on it.
Kill ==
    /\ main = "wait"
    /\ interrupted /\ deadline
    /\ main' = "reap"
    /\ \/ /\ child = "running" /\ child' = "killed"
          /\ code' \in {1, None}
       \/ UNCHANGED process
    /\ UNCHANGED <<watching, interrupted, tracked, launch, file, verdict, signal>>

----------------------------------------------------------------------------
\* After the child.

ReadFlag ==
    /\ main = "read"
    /\ seen' = interrupted
    /\ main' = IF tracked THEN "raise" ELSE "exit"
    /\ UNCHANGED <<watching, interrupted, tracked, launch, file, process,
                   deadline, waited, exitcode, signal>>

\* A mistake: the tracker never told.
RaiseNothing ==
    /\ main = "raise"
    /\ main' = "join"
    /\ UNCHANGED <<watching, interrupted, tracked, launch, file, process, verdict,
                   signal>>

RaiseFlag ==
    /\ main = "raise"
    /\ interrupted' = TRUE
    /\ main' = "join"
    /\ UNCHANGED <<watching, tracked, launch, file, process, verdict, signal>>

\* A mistake: the tracker detached.
JoinNothing ==
    /\ main = "join"
    /\ main' = "remove"
    /\ UNCHANGED <<watching, interrupted, tracked, launch, file, process,
                   verdict, signal>>

Join ==
    /\ main = "join" /\ tracker = "gone"
    /\ main' = "remove"
    /\ UNCHANGED <<watching, interrupted, tracked, launch, file, process,
                   verdict, signal>>

RemoveFile ==
    /\ main = "remove"
    /\ Remove
    /\ main' = "exit"
    /\ UNCHANGED <<watching, interrupted, tracked, launch, writing, process,
                   verdict, signal>>

\* A mistake: the code passed on as it is.
ExitCodeUnchecked(status, wasInterrupted) ==
    IF status = None THEN IF wasInterrupted THEN 130 ELSE FAILED ELSE status

\* A mistake: the code truncated.
ExitCodeTruncated(status, wasInterrupted) ==
    IF status = None THEN IF wasInterrupted THEN 130 ELSE FAILED ELSE status % 256

\* exit_code: 130 for a child without a code after a signal, and a code no u8
\* can carry is a plain failure.
ExitCode(status, wasInterrupted) ==
    IF status = None
      THEN IF wasInterrupted THEN 130 ELSE FAILED
      ELSE IF status \in 0..255 THEN status ELSE FAILED

Report ==
    /\ main = "exit"
    /\ Exit(IF waited = "error" THEN FAILED ELSE ExitCode(code, seen))
    /\ UNCHANGED <<watching, interrupted, tracked, launch, file, process,
                   deadline, waited, seen, signal>>

----------------------------------------------------------------------------
\* The child, the user, the handler's thread and the machine.

ChildExits ==
    /\ child = "running"
    /\ child' = "exited"
    /\ code' \in ChildCodes \cup {None}
    /\ UNCHANGED <<watching, interrupted, tracked, main, launch, file, verdict,
                   signal>>

\* One termination signal: Ctrl-C to the whole foreground group, or `kill` of
\* AutoNet alone.  Before Install it kills AutoNet at its default disposition.
Signal ==
    /\ signal = "none" /\ main \notin Over
    /\ signal' \in {"direct"} \cup (IF child = "running" THEN {"terminal"} ELSE {})
    /\ main' = IF main \in {"resolve", "install"} THEN "dead" ELSE main
    /\ UNCHANGED <<watching, interrupted, tracked, launch, file, process, verdict>>

Handle ==
    /\ signal # "none" /\ main \notin Over
    /\ W!Interrupt
    /\ UNCHANGED running

\* SIGKILL: AutoNet is gone, tracker and all; the child lives on.
Crash ==
    /\ main \notin Over
    /\ main' = "dead"
    /\ UNCHANGED <<watching, interrupted, tracked, launch, file, process,
                   verdict, signal>>

MachineChanges ==
    /\ main \notin Over
    /\ \E now \in W!Snapshots, heard \in BOOLEAN : W!Change(now, heard)
    /\ UNCHANGED running

----------------------------------------------------------------------------
\* The main thread's steps; StateFile's belong to whichever thread calls it.
Main ==
    \/ ResolveAddress \/ Install \/ CreateDirectory \/ Spawn
    \/ Reap \/ ArmGrace \/ Kill
    \/ ReadFlag \/ RaiseFlag \/ Join \/ RemoveFile \/ Report

Write == OpenTemporary \/ FillTemporary \/ Rename \/ Discard

Tracker == Track \/ TrackEnds

Failure == WaitFails \/ WriteFails \/ TrackFails

World == ChildExits \/ Signal \/ Handle \/ Crash \/ MachineChanges

Next == Main \/ Write \/ Tracker \/ Failure \/ World

\* Both threads and the handler's are scheduled; the child, the user and the
\* machine owe nothing, and no failure ever has to happen.
Spec ==
    /\ Init /\ [][Next]_vars
    /\ WF_vars(Main) /\ WF_vars(Write) /\ WF_vars(Tracker) /\ WF_vars(Handle)

----------------------------------------------------------------------------
(***************************************************************************)
(* state.rs:14-16: whatever a reader finds is a whole document, with both  *)
(* threads writing, updates failing half way, and AutoNet killed anywhere. *)
(***************************************************************************)
ReaderSeesWhole == target # Torn

(***************************************************************************)
(* state.rs:18-21, spawn.rs:200-219: while the command runs undisturbed, a *)
(* file that is there gives the machine's own answer whenever the tracker  *)
(* rests with nothing outstanding; and once the tracker has given up there *)
(* is no file, unless it could not be removed.                             *)
(***************************************************************************)
FileAccurate ==
    main = "wait" /\ ~interrupted /\ tracked /\ target # Absent =>
        /\ W!Quiet /\ ~stuck => Answer(target) = Answer(Resolve(net))
        /\ tracker = "gone" => stuck

(***************************************************************************)
(* spawn.rs:165-170: once a child has been started, run leaves no file     *)
(* behind, however the wait, the tracker and an update in flight ended.    *)
(***************************************************************************)
FileGoneAtEnd ==
    main = "over" /\ child # "none" /\ ~stuck =>
        target = Absent /\ temporary = Absent

(***************************************************************************)
(* spawn.rs:150-160, 314-336: the exit code is the child's wherever a u8   *)
(* can carry it; 130 stands for a signal that really came, although the    *)
(* flag it is read from is also how run stops its own tracker; and a       *)
(* failure of the child never reads as success.                            *)
(***************************************************************************)
ExitCodeFaithful ==
    main = "over" /\ waited = "status" =>
        /\ exitcode = 130 /\ code = None => signal # "none"
        /\ code \in 0..255 => exitcode = code
        /\ exitcode = 0 => code = 0

(***************************************************************************)
(* spawn.rs:157-160: run ends once its child has, and once it has been     *)
(* told to; only a child it may not kill can hold it.                      *)
(***************************************************************************)
Ended == main \in Over \/ (main = "reap" /\ child = "running")
EndsWithChild == child \in {"exited", "killed"} ~> main \in Over
EndsOnSignal  == signal # "none" ~> Ended

(***************************************************************************)
(* docs/json-schema.md:356: the state file is removed when the command     *)
(* exits, for any reason, including a failure.                             *)
(***************************************************************************)
RemovedOnExit == main = "over" /\ ~stuck => target = Absent

============================================================================
