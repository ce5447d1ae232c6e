----------------------------- MODULE DevProofs -----------------------------
(***************************************************************************)
(* What `autonet dev` guarantees for every project, machine and command:   *)
(* the types, that no process it started outlives it, that none is stopped *)
(* without a reason, what its exit code says, and that its files say what  *)
(* the loop last told.                                                     *)
(***************************************************************************)
EXTENDS Dev, TLAPS

----------------------------------------------------------------------------
\* Every reachable state is well typed.

\* What a report makes of the values is values.
LEMMA ValuesMade ==
  /\ OfflineValue \in Values
  /\ \A a \in Answers : a # None => Current(a) \in Values
  /\ \A v \in Values : [v EXCEPT !.online = FALSE] \in Values
  BY DEF Values, OfflineValue, Current

\* The initial states are well typed.
LEMMA TypeInit == DevInit => TypeOK
  BY ValuesMade DEF DevInit, Init, TypeOK, Phases, Before, Over

\* What stop_all begins with.
LEMMA TypeStop ==
  ASSUME NEW commands, commands \subseteq Commands,
         NEW return \in {"failed", "read", "raise"}, Stop(commands, return)
  PROVE  /\ main' \in Phases
         /\ todo' \subseteq Commands /\ doomed' \subseteq Commands
         /\ then' \in {"failed", "read", "raise"}
         /\ deadline' \in BOOLEAN
  BY DEF Stop, Phases

\* Before the commands run.
LEMMA TypeBefore ==
  ASSUME TypeOK, Plan \/ Check \/ Written \/ Install \/ \E o \in Outputs : WriteOne(o)
  PROVE  TypeOK'
<1> USE DEF TypeOK, Phases, Before, Over, user, stopping, feed, observer, files,
            children, verdict, Exit, FAILED
<1>1. CASE Plan
  <2>1. last' \in Values
    BY <1>1, ValuesMade DEF Plan
  <2> QED
    BY <1>1, <2>1 DEF Plan
<1>2. CASE Check \/ Written
  BY <1>2 DEF Check, Written
<1>3. CASE Install
  <2>1. observing' \in BOOLEAN
    BY <1>3 DEF Install
  <2>2. main' \in Phases /\ todo' \subseteq Commands /\ exitcode' \in 0..255 \cup {None}
    BY <1>3 DEF Install, Commands
  <2> QED
    BY <1>3, <2>1, <2>2 DEF Install
<1>4. ASSUME NEW o \in Outputs, WriteOne(o) PROVE TypeOK'
  BY <1>4 DEF WriteOne
<1> QED
  BY <1>1, <1>2, <1>3, <1>4

\* Starting, waiting and ending.
LEMMA TypeMain ==
  ASSUME TypeOK,
         \/ Started \/ Spawn \/ Reap \/ WaitFails \/ PassOn \/ ServicesEnd \/ Asked \/ Expire
         \/ Stopped \/ ReadFlag \/ RaiseFlag \/ Join \/ Report
  PROVE  TypeOK'
<1> USE DEF TypeOK, user, stopping, feed, observer, files, children, verdict
<1>1. CASE Started
  <2>1. observing' \in BOOLEAN
    BY <1>1 DEF Started
  <2>2. main' \in Phases
    BY <1>1 DEF Started, Phases
  <2> QED
    BY <1>1, <2>1, <2>2 DEF Started
<1>2. CASE Spawn
  <2>1. observing' \in BOOLEAN
    BY <1>2 DEF Spawn
  <2>2. watched \subseteq Commands
    BY DEF Commands
  <2>3. CASE Stop(watched, "failed") /\ UNCHANGED child
    BY <1>2, <2>1, <2>2, <2>3, TypeStop DEF Spawn
  <2>4. CASE main' = "wait" /\ child' = [child EXCEPT ![Primary] = "running"]
             /\ UNCHANGED stopping
    <3>1. /\ UNCHANGED <<user, mode, feed, result, last, next, pending, files, tree,
                         watched, code, verdict>>
          /\ UNCHANGED <<todo, doomed, then, deadline>>
          /\ main' \in Phases
      BY <1>2, <2>4 DEF Spawn, Phases
    <3>2. child' \in [Commands -> {"none", "running", "exited", "killed"}]
      BY <2>4 DEF Commands
    <3> QED
      BY <2>1, <3>1, <3>2
  <2> QED
    BY <1>2, <2>3, <2>4 DEF Spawn
<1>3. CASE Reap \/ WaitFails \/ Asked
  BY <1>3 DEF Reap, WaitFails, Waited, Asked, Phases
<1>4. CASE Expire
  BY <1>4 DEF Expire
<1>5. CASE PassOn \/ ServicesEnd
  <2>1. watched \subseteq Commands /\ {Primary} \subseteq Commands
    BY DEF Commands
  <2>2. Stop({Primary}, "read") \/ Stop(watched, "raise")
    BY <1>5 DEF PassOn, ServicesEnd
  <2> QED
    BY <1>5, <2>1, <2>2, TypeStop DEF PassOn, ServicesEnd
<1>6. CASE Stopped
  <2>1. /\ main' \in Phases /\ waited' \in {"unknown", "status", "error"}
        /\ exitcode' \in 0..255 \cup {None}
    <3>1. CASE then = "failed"
      BY <1>6, <3>1 DEF Stopped, Exit, FAILED, Phases, Over
    <3>2. CASE then = "read"
      BY <1>6, <3>2 DEF Stopped, Phases
    <3>3. CASE then = "raise"
      BY <1>6, <3>3 DEF Stopped, Phases
    <3> QED
      BY <3>1, <3>2, <3>3
  <2>2. UNCHANGED <<user, mode, stopping, observer, files, children, seen>>
    BY <1>6 DEF Stopped
  <2> QED
    BY <2>1, <2>2
<1>7. CASE ReadFlag
  <2>1. seen' \in BOOLEAN
    BY <1>7 DEF ReadFlag
  <2>2. watched \subseteq Commands
    BY DEF Commands
  <2>3. Stop(watched, "raise")
    BY <1>7 DEF ReadFlag
  <2> QED
    BY <1>7, <2>1, <2>2, <2>3, TypeStop DEF ReadFlag
<1>8. CASE RaiseFlag
  BY <1>8 DEF RaiseFlag, Phases
<1>9. CASE Join
  BY <1>9 DEF Join, Phases
<1>10. CASE Report
  <2>1. Status \in 0..255
    BY DEF Status, FAILED
  <2> QED
    BY <1>10, <2>1 DEF Report, Exit, Phases, Over
<1> QED
  BY <1>1, <1>2, <1>3, <1>4, <1>5, <1>6, <1>7, <1>8, <1>9, <1>10

\* One command started, reported, asked, gone or killed.
LEMMA TypeCommand ==
  ASSUME TypeOK,
         \/ \E c \in Services : Start(c) \/ ReportFinished(c)
         \/ \E c \in Commands : Ask(c) \/ Gone(c) \/ Kill(c)
  PROVE  TypeOK'
<1> USE DEF TypeOK, Phases, user, stopping, feed, observer, files, children, verdict
<1>1. ASSUME NEW c \in Services, Start(c) PROVE TypeOK'
  <2>1. watched \subseteq Commands
    BY DEF Commands
  <2>2. CASE Stop(watched, "failed") /\ UNCHANGED <<child, watched>>
    BY <1>1, <2>1, <2>2, TypeStop DEF Start
  <2>3. CASE /\ child' = [child EXCEPT ![c] = "running"]
             /\ watched' = watched \cup {c} /\ todo' = todo \ {c}
             /\ UNCHANGED <<main, doomed, then, deadline>>
    BY <1>1, <2>3 DEF Start
  <2> QED
    BY <1>1, <2>2, <2>3 DEF Start
<1>2. ASSUME NEW c \in Services, ReportFinished(c) PROVE TypeOK'
  BY <1>2 DEF ReportFinished
<1>3. ASSUME NEW c \in Commands, Ask(c) PROVE TypeOK'
  BY <1>3 DEF Ask
<1>4. ASSUME NEW c \in Commands, Gone(c) PROVE TypeOK'
  BY <1>4 DEF Gone
<1>5. ASSUME NEW c \in Commands, Kill(c) PROVE TypeOK'
  BY <1>5 DEF Kill
<1> QED
  BY <1>1, <1>2, <1>3, <1>4, <1>5

\* The observer's steps.
LEMMA TypeObserver ==
  ASSUME TypeOK,
         \/ \E a \in Answers : Track(a)
         \/ \E o \in Outputs : Update(o)
         \/ Tracked \/ Returns("ok") \/ Returns("error")
  PROVE  TypeOK'
<1> USE DEF TypeOK, Phases, user, stopping, feed, files, children, verdict
<1>1. ASSUME NEW a \in Answers, Track(a) PROVE TypeOK'
  <2>1. next' \in Values
    BY <1>1, ValuesMade DEF Track
  <2>2. pending' \subseteq Outputs
    BY <1>1 DEF Track
  <2> QED
    BY <1>1, <2>1, <2>2 DEF Track, Tell
<1>2. ASSUME NEW o \in Outputs, Update(o) PROVE TypeOK'
  BY <1>2 DEF Update
<1>3. CASE Tracked
  BY <1>3 DEF Tracked, Taken
<1>4. CASE Returns("ok") \/ Returns("error")
  BY <1>4 DEF Returns, End
<1> QED
  BY <1>1, <1>2, <1>3, <1>4

\* The commands' and the user's steps.
LEMMA TypeWorld == ASSUME TypeOK, World PROVE TypeOK'
<1> USE DEF TypeOK, Phases, Before, Over, user, stopping, feed, observer, files,
            children, verdict
<1>1. ASSUME NEW c \in Commands, ChildExits(c) PROVE TypeOK'
  BY <1>1 DEF ChildExits
<1>2. ASSUME NEW c \in Commands, Forks(c) \/ TreeExits(c) PROVE TypeOK'
  BY <1>2 DEF Forks, TreeExits
<1>3. ASSUME NEW o \in Outputs, Edit(o) PROVE TypeOK'
  BY <1>3 DEF Edit
<1>4. CASE Signal \/ Handle
  <2>1. interrupted' \in BOOLEAN /\ signal' \in BOOLEAN /\ main' \in Phases
    BY <1>4 DEF Signal, Handle
  <2> QED
    BY <1>4, <2>1 DEF Signal, Handle
<1> QED
  BY <1>1, <1>2, <1>3, <1>4 DEF World

\* Every step keeps the types.
LEMMA TypeNext == TypeOK /\ [DevNext]_allvars => TypeOK'
<1>1. TypeOK /\ UNCHANGED allvars => TypeOK'
  BY DEF TypeOK, allvars, user, stopping, feed, observer, files, children, verdict
<1> QED
  BY <1>1, TypeBefore, TypeMain, TypeCommand, TypeObserver, TypeWorld
     DEF DevNext, Main, Observer

(***************************************************************************)
(* dev.rs: the state of a session, its files and processes, is well typed  *)
(* for every project, set of answers and set of exit codes.                *)
(***************************************************************************)
THEOREM TypeCorrect == DevSpec => []TypeOK
  BY TypeInit, TypeNext, PTL DEF DevSpec

----------------------------------------------------------------------------
(***************************************************************************)
(* Why nothing is left running.  A background command that runs is one     *)
(* still watched; stop_all is called with all that are watched, and keeps  *)
(* each on its list until it is gone; so where the services have been      *)
(* stopped none runs.  The primary runs while it is waited for, or is on   *)
(* that list itself, or its wait has failed.                               *)
(***************************************************************************)
Running(c) == child[c] = "running"

\* Where no service runs: none yet, or none any more.
Settled == Before \cup {"observe", "raise", "join", "exit", "over"}

ServicesKept ==
    /\ \A c \in Services : Running(c) => c \in watched
    /\ main = "ask" /\ then # "read" => doomed = watched
    /\ main = "grace" /\ then # "read" => \A c \in Services : Running(c) => c \in todo
    /\ main \in Settled => \A c \in Services : ~Running(c)

\* Where the primary has not been waited for yet.
Unwaited ==
    \/ main \in Before \cup {"start", "spawn", "wait", "observe"}
    \/ main \in {"ask", "grace"} /\ then # "raise"

PrimaryKept ==
    /\ Unwaited => waited = "unknown"
    /\ main = "spawn" => mode = "primary"
    /\ Running(Primary) =>
         /\ mode = "primary"
         /\ \/ waited = "error"
            \/ main = "wait"
            \/ main = "ask" /\ then = "read" /\ doomed = {Primary}
            \/ main = "grace" /\ then = "read" /\ Primary \in todo

\* No command has been started.
LEMMA LeftInit == DevInit => ServicesKept /\ PrimaryKept
  BY DEF DevInit, ServicesKept, PrimaryKept, Unwaited, Running, Settled, Before, Commands

\* Before the commands run.
LEMMA LeftBefore ==
  ASSUME TypeOK, ServicesKept, PrimaryKept,
         Plan \/ Check \/ Written \/ Install \/ \E o \in Outputs : WriteOne(o)
  PROVE  ServicesKept' /\ PrimaryKept'
<1>1. /\ main \in Before
      /\ main' \in Before \cup {"observe", "start", "over"}
  BY DEF Plan, Check, Written, Install, WriteOne, Exit, Before
<1>2. UNCHANGED <<child, watched, doomed, then, mode, waited>>
  BY DEF Plan, Check, Written, Install, WriteOne, stopping, children, verdict
<1> QED
  BY <1>1, <1>2 DEF ServicesKept, PrimaryKept, Unwaited, Running, Settled, Before

\* Starting.
LEMMA LeftStart ==
  ASSUME TypeOK, ServicesKept, PrimaryKept,
         Started \/ Spawn \/ \E c \in Services : Start(c)
  PROVE  ServicesKept' /\ PrimaryKept'
<1> USE DEF ServicesKept, PrimaryKept, Unwaited, Running, Settled, Before
<1>1. CASE Started
  <2>1. /\ main' \in {"spawn", "wait"} /\ (main' = "spawn" => mode = "primary")
        /\ UNCHANGED <<child, watched, todo, doomed, then, mode, waited>>
        /\ main = "start"
    BY <1>1 DEF Started, stopping, children, verdict
  <2> QED
    BY <2>1
<1>2. CASE Spawn
  <2>1. main = "spawn" /\ UNCHANGED <<mode, watched, waited>>
    BY <1>2 DEF Spawn, verdict
  <2>2. CASE main' = "wait" /\ child' = [child EXCEPT ![Primary] = "running"]
    <3>1. \A c \in Services : child'[c] = child[c]
      BY <2>2, PrimaryIsNoService DEF TypeOK, Commands
    <3> QED
      BY <2>1, <2>2, <3>1
  <2>3. CASE Stop(watched, "failed") /\ UNCHANGED child
    BY <2>1, <2>3 DEF Stop
  <2> QED
    BY <1>2, <2>2, <2>3 DEF Spawn
<1>3. ASSUME NEW c \in Services, Start(c) PROVE ServicesKept' /\ PrimaryKept'
  <2>1. main = "start" /\ UNCHANGED <<mode, waited>>
    BY <1>3 DEF Start, verdict
  <2>2. CASE /\ child' = [child EXCEPT ![c] = "running"]
             /\ watched' = watched \cup {c}
             /\ UNCHANGED <<main, doomed, then>>
    <3>1. child'[Primary] = child[Primary]
      BY <2>2, PrimaryIsNoService DEF TypeOK, Commands
    <3>2. \A d \in Services : child'[d] = IF d = c THEN "running" ELSE child[d]
      BY <2>2 DEF TypeOK, Commands
    <3> QED
      BY <2>1, <2>2, <3>1, <3>2
  <2>3. CASE Stop(watched, "failed") /\ UNCHANGED <<child, watched>>
    BY <2>1, <2>3 DEF Stop
  <2> QED
    BY <1>3, <2>2, <2>3 DEF Start
<1> QED
  BY <1>1, <1>2, <1>3

\* Waiting.
LEMMA LeftWait ==
  ASSUME TypeOK, ServicesKept, PrimaryKept,
         Reap \/ WaitFails \/ PassOn \/ ServicesEnd \/ \E c \in Services : ReportFinished(c)
  PROVE  ServicesKept' /\ PrimaryKept'
<1> USE DEF ServicesKept, PrimaryKept, Unwaited, Running, Settled, Before
<1>1. main = "wait" /\ UNCHANGED <<child, mode>>
  BY DEF Reap, WaitFails, Waited, PassOn, ServicesEnd, ReportFinished, children
<1>2. CASE Reap \/ WaitFails
  BY <1>1, <1>2 DEF Reap, WaitFails, Waited, Ended, stopping, children
<1>3. CASE PassOn \/ ServicesEnd
  BY <1>1, <1>3 DEF PassOn, ServicesEnd, Stop, children, verdict
<1>4. ASSUME NEW c \in Services, ReportFinished(c) PROVE ServicesKept' /\ PrimaryKept'
  <2>1. /\ main' = main /\ UNCHANGED <<waited, todo, doomed, then>>
        /\ watched' = watched \ {c} /\ ~Running(c)
    BY <1>4 DEF ReportFinished, Ended, stopping, verdict
  <2> QED
    BY <1>1, <2>1
<1> QED
  BY <1>2, <1>3, <1>4

\* Stopping.
LEMMA LeftStop ==
  ASSUME TypeOK, ServicesKept, PrimaryKept,
         \/ Asked \/ Expire \/ Stopped
         \/ \E c \in Commands : Ask(c) \/ Gone(c) \/ Kill(c)
  PROVE  ServicesKept' /\ PrimaryKept'
<1> USE DEF ServicesKept, PrimaryKept, Unwaited, Running, Settled, Before
<1>1. CASE Asked \/ Expire
  BY <1>1 DEF Asked, Expire, children, verdict
<1>2. CASE Stopped
  <2>1. /\ main = "grace" /\ todo = {}
        /\ UNCHANGED <<child, watched, todo, doomed, then, mode>>
    BY <1>2 DEF Stopped, stopping, children
  <2>2. \/ then = "read" /\ main' = "read"
        \/ then = "failed" /\ main' = "over" /\ waited' = waited
        \/ then = "raise" /\ main' = "raise" /\ waited' = waited
    BY <1>2 DEF Stopped, Exit, TypeOK
  <2> QED
    BY <2>1, <2>2
<1>3. ASSUME NEW c \in Commands, Ask(c) PROVE ServicesKept' /\ PrimaryKept'
  BY <1>3 DEF Ask, verdict
<1>4. ASSUME NEW c \in Commands, Gone(c) PROVE ServicesKept' /\ PrimaryKept'
  BY <1>4 DEF Gone, children, verdict
<1>5. ASSUME NEW c \in Commands, Kill(c) PROVE ServicesKept' /\ PrimaryKept'
  <2>1. /\ main = "grace" /\ todo' = todo \ {c}
        /\ UNCHANGED <<main, watched, doomed, then, mode, waited>>
    BY <1>5 DEF Kill, verdict
  <2>2. \A d \in Commands : child'[d] = IF d = c THEN "killed" ELSE child[d]
    BY <1>5 DEF Kill, TypeOK
  <2> QED
    BY <2>1, <2>2 DEF Commands
<1> QED
  BY <1>1, <1>2, <1>3, <1>4, <1>5

\* Ending.
LEMMA LeftEnd ==
  ASSUME TypeOK, ServicesKept, PrimaryKept, ReadFlag \/ RaiseFlag \/ Join \/ Report
  PROVE  ServicesKept' /\ PrimaryKept'
<1> USE DEF ServicesKept, PrimaryKept, Unwaited, Running, Settled, Before
<1>1. CASE ReadFlag
  BY <1>1 DEF ReadFlag, Stop, children
<1>2. CASE RaiseFlag \/ Join
  BY <1>2 DEF RaiseFlag, Join, stopping, children, verdict
<1>3. CASE Report
  BY <1>3 DEF Report, Exit, stopping, children
<1> QED
  BY <1>1, <1>2, <1>3

\* The observer, the commands and the user start no command, and the observer
\* and the user move the main thread only where nothing runs.
LEMMA LeftOther ==
  ASSUME TypeOK, ServicesKept, PrimaryKept,
         \/ Observer \/ World \/ Returns("ok") \/ Returns("error")
         \/ \E a \in Answers : Track(a)
  PROVE  ServicesKept' /\ PrimaryKept'
<1> USE DEF ServicesKept, PrimaryKept, Unwaited, Running, Settled, Before
<1>1. ASSUME UNCHANGED <<main, child, watched, todo, doomed, then, mode, waited>>
      PROVE  ServicesKept' /\ PrimaryKept'
  BY <1>1
<1>2. CASE Observer \/ Returns("ok") \/ Returns("error") \/ \E a \in Answers : Track(a)
  BY <1>1, <1>2 DEF Observer, Track, Update, Tracked, Returns, stopping, children, verdict
<1>3. CASE Signal
  BY <1>3 DEF Signal, stopping, children, verdict
<1>4. CASE Handle
  BY <1>1, <1>4 DEF Handle, stopping, children, verdict
<1>5. ASSUME NEW o \in Outputs, Edit(o) PROVE ServicesKept' /\ PrimaryKept'
  BY <1>1, <1>5 DEF Edit, stopping, children, verdict
<1>6. ASSUME NEW c \in Commands, Forks(c) \/ TreeExits(c)
      PROVE  ServicesKept' /\ PrimaryKept'
  BY <1>1, <1>6 DEF Forks, TreeExits, stopping, verdict
<1>7. ASSUME NEW c \in Commands, ChildExits(c) PROVE ServicesKept' /\ PrimaryKept'
  <2>1. UNCHANGED <<main, watched, todo, doomed, then, mode, waited>>
    BY <1>7 DEF ChildExits, stopping, verdict
  <2>2. \A d \in Commands : child'[d] = IF d = c THEN "exited" ELSE child[d]
    BY <1>7 DEF ChildExits, TypeOK
  <2> QED
    BY <2>1, <2>2 DEF Commands
<1> QED
  BY <1>2, <1>3, <1>4, <1>5, <1>6, <1>7 DEF World

\* Every step keeps what keeps the commands.
LEMMA LeftNext ==
  TypeOK /\ ServicesKept /\ PrimaryKept /\ [DevNext]_allvars => ServicesKept' /\ PrimaryKept'
<1>1. ServicesKept /\ PrimaryKept /\ UNCHANGED allvars => ServicesKept' /\ PrimaryKept'
  BY DEF ServicesKept, PrimaryKept, Unwaited, Running, allvars, stopping, children, verdict
<1> QED
  BY <1>1, LeftBefore, LeftStart, LeftWait, LeftStop, LeftEnd, LeftOther DEF DevNext, Main

(***************************************************************************)
(* dev.rs:148-176: once a session is over, by whatever way, none of its    *)
(* commands runs, however many services and whatever failed - except a     *)
(* primary whose own wait failed.                                          *)
(***************************************************************************)
THEOREM NothingOutlives == DevSpec => []NothingLeftRunning
<1>1. DevInit => TypeOK /\ ServicesKept /\ PrimaryKept
  BY TypeInit, LeftInit
<1>2. TypeOK /\ ServicesKept /\ PrimaryKept /\ [DevNext]_allvars
        => (TypeOK /\ ServicesKept /\ PrimaryKept)'
  BY TypeNext, LeftNext
<1>3. ServicesKept /\ PrimaryKept => NothingLeftRunning
  BY DEF ServicesKept, PrimaryKept, NothingLeftRunning, Running, Settled, Commands
<1> QED
  BY <1>1, <1>2, <1>3, PTL DEF DevSpec

----------------------------------------------------------------------------
(***************************************************************************)
(* Why the flag can be trusted.  dev raises it itself only after it has    *)
(* read it, so until then it stands for a signal; and the observer returns *)
(* Ok for nothing but the flag.                                            *)
(***************************************************************************)
FlagTrue ==
    /\ interrupted => signal \/ main \in {"join", "exit"} \cup Over
    /\ seen => signal
    /\ result = "ok" => interrupted
    /\ main = "read" => waited # "unknown"

\* The code of a primary that has been waited for changes no more.
CodeFinal ==
    /\ waited = "status" => ~Running(Primary)
    /\ main = "over" /\ mode = "primary" /\ waited = "status" =>
          exitcode = IF seen THEN 0 ELSE IF code \in 0..255 THEN code ELSE FAILED

Reasons == FlagTrue /\ CodeFinal /\ StoppedForAReason

\* No flag, no status, nothing stopped.
LEMMA ReasonsInit == DevInit => Reasons
  BY DEF DevInit, Reasons, FlagTrue, CodeFinal, StoppedForAReason

\* Before the commands run, and starting them.
LEMMA ReasonsStart ==
  ASSUME TypeOK, PrimaryKept, Reasons,
         \/ Plan \/ Check \/ Written \/ Install \/ \E o \in Outputs : WriteOne(o)
         \/ Started \/ Spawn \/ \E c \in Services : Start(c)
  PROVE  Reasons'
<1>1. /\ main \in Before \cup {"start", "spawn"}
      /\ main' \in Before \cup {"observe", "start", "spawn", "wait", "ask", "over"}
      /\ main' = "ask" => then' = "failed"
  BY DEF Plan, Check, Written, Install, WriteOne, Started, Spawn, Start, Stop, Exit, Before
<1>2. UNCHANGED <<interrupted, signal, seen, result, waited, mode>>
  BY DEF Plan, Check, Written, Install, WriteOne, Started, Spawn, Start, user, feed,
     observer, children, verdict
<1>3. waited = "unknown"
  BY <1>1 DEF PrimaryKept, Unwaited, Before
<1> QED
  BY <1>1, <1>2, <1>3 DEF Reasons, FlagTrue, CodeFinal, StoppedForAReason, Before, Over

\* Waiting.
LEMMA ReasonsWait ==
  ASSUME TypeOK, PrimaryKept, Reasons,
         Reap \/ WaitFails \/ PassOn \/ ServicesEnd \/ \E c \in Services : ReportFinished(c)
  PROVE  Reasons'
<1> USE DEF Reasons, FlagTrue, CodeFinal, StoppedForAReason, Running, Over
<1>1. main = "wait" /\ waited = "unknown"
  BY DEF Reap, WaitFails, Waited, PassOn, ServicesEnd, ReportFinished, PrimaryKept, Unwaited
<1>2. UNCHANGED <<interrupted, signal, seen, result, mode, child, code>>
  BY DEF Reap, WaitFails, Waited, PassOn, ServicesEnd, ReportFinished, user, observer, children, verdict
<1>3. CASE Reap \/ WaitFails
  BY <1>1, <1>2, <1>3 DEF Reap, WaitFails, Waited, Ended
<1>4. CASE PassOn
  BY <1>1, <1>2, <1>4 DEF PassOn, Stop, verdict
<1>5. CASE ServicesEnd
  <2>1. signal \/ (mode = "services" /\ result = "error")
    BY <1>1, <1>5 DEF ServicesEnd, TypeOK
  <2>2. main' = "ask" /\ waited' = waited
    BY <1>5 DEF ServicesEnd, Stop, verdict
  <2> QED
    BY <1>1, <1>2, <2>1, <2>2
<1>6. ASSUME NEW c \in Services, ReportFinished(c) PROVE Reasons'
  BY <1>1, <1>2, <1>6 DEF ReportFinished, verdict
<1> QED
  BY <1>3, <1>4, <1>5, <1>6

\* Stopping.
LEMMA ReasonsStop ==
  ASSUME TypeOK, PrimaryKept, Reasons,
         \/ Asked \/ Expire \/ Stopped
         \/ \E c \in Commands : Ask(c) \/ Gone(c) \/ Kill(c)
  PROVE  Reasons'
<1> USE DEF Reasons, FlagTrue, CodeFinal, StoppedForAReason, Running, Over
<1>1. main \in {"ask", "grace"} /\ UNCHANGED <<interrupted, signal, seen, result, mode>>
  BY DEF Asked, Expire, Stopped, Ask, Gone, Kill, user, observer, verdict
<1>2. CASE Asked \/ Expire
  BY <1>1, <1>2 DEF Asked, Expire, children, verdict
<1>3. CASE Stopped
  <2>1. main = "grace" /\ todo = {} /\ UNCHANGED <<child, code>>
    BY <1>3 DEF Stopped, children
  <2>2. \/ then = "read" /\ main' = "read" /\ waited' \in {"status", "error"}
        \/ then = "failed" /\ main' = "over" /\ waited' = waited
        \/ then = "raise" /\ main' = "raise" /\ waited' = waited
    <3>1. then \in {"failed", "read", "raise"}
      BY DEF TypeOK
    <3>2. CASE then = "failed"
      BY <1>3, <3>2 DEF Stopped, Exit
    <3>3. CASE then = "read"
      BY <1>3, <3>3 DEF Stopped
    <3>4. CASE then = "raise"
      BY <1>3, <3>4 DEF Stopped
    <3> QED
      BY <3>1, <3>2, <3>3, <3>4
  <2> QED
    BY <1>1, <2>1, <2>2 DEF PrimaryKept, Unwaited
<1>4. ASSUME NEW c \in Commands, Ask(c) \/ Gone(c) PROVE Reasons'
  BY <1>1, <1>4 DEF Ask, Gone, children, verdict
<1>5. ASSUME NEW c \in Commands, Kill(c) PROVE Reasons'
  <2>1. main' = "grace" /\ main = "grace" /\ waited' = waited
    BY <1>5 DEF Kill, verdict
  <2>2. child'[Primary] \in {child[Primary], "killed"}
    BY <1>5 DEF Kill, TypeOK, Commands
  <2> QED
    BY <1>1, <2>1, <2>2
<1> QED
  BY <1>2, <1>3, <1>4, <1>5

\* Ending.
LEMMA ReasonsEnd ==
  ASSUME TypeOK, Reasons, ReadFlag \/ RaiseFlag \/ Join \/ Report
  PROVE  Reasons'
<1> USE DEF Reasons, FlagTrue, CodeFinal, StoppedForAReason, Running, Over
<1>1. CASE ReadFlag
  <2>1. /\ main = "read" /\ main' = "ask"
        /\ UNCHANGED <<interrupted, signal, result, mode, child, code, waited>>
    BY <1>1 DEF ReadFlag, Stop, user, observer, children
  <2>2. seen' => signal
    BY <1>1, <2>1 DEF ReadFlag
  <2> QED
    BY <2>1, <2>2
<1>2. CASE RaiseFlag
  BY <1>2 DEF RaiseFlag, observer, children, verdict
<1>3. CASE Join
  BY <1>3 DEF Join, user, observer, children, verdict
<1>4. CASE Report
  BY <1>4 DEF Report, Exit, Status, user, observer, children
<1> QED
  BY <1>1, <1>2, <1>3, <1>4

\* The observer, the commands and the user.
LEMMA ReasonsOther ==
  ASSUME TypeOK, Reasons,
         \/ Observer \/ World \/ Returns("ok") \/ Returns("error")
         \/ \E a \in Answers : Track(a)
  PROVE  Reasons'
<1> USE DEF Reasons, FlagTrue, CodeFinal, StoppedForAReason, Running, Over
<1>1. ASSUME UNCHANGED <<interrupted, signal, main, doomed, then, mode, result, child,
                         code, waited, seen, exitcode>>
      PROVE  Reasons'
  BY <1>1
<1>2. CASE Observer \/ \E a \in Answers : Track(a)
  BY <1>1, <1>2 DEF Observer, Track, Update, Tracked, user, stopping, children, verdict
<1>3. CASE Returns("ok") \/ Returns("error")
  <2>1. /\ result = "none" /\ (result' = "ok" => interrupted)
        /\ UNCHANGED <<interrupted, signal, main, doomed, then, mode, child, code, waited,
                       seen, exitcode>>
    BY <1>3 DEF Returns, TypeOK, user, stopping, children, verdict
  <2> QED
    BY <2>1
<1>4. CASE Signal
  <2>1. /\ signal' /\ main' \in {main, "dead"}
        /\ UNCHANGED <<interrupted, mode, result, child, code, waited, seen, exitcode>>
    BY <1>4 DEF Signal, observer, children, verdict
  <2> QED
    BY <2>1
<1>5. CASE Handle
  <2>1. /\ signal /\ interrupted'
        /\ UNCHANGED <<signal, main, doomed, mode, result, child, code, waited, seen,
                       exitcode>>
    BY <1>5 DEF Handle, stopping, observer, children, verdict
  <2> QED
    BY <2>1
<1>6. ASSUME NEW o \in Outputs, Edit(o) PROVE Reasons'
  BY <1>1, <1>6 DEF Edit, user, stopping, observer, children, verdict
<1>7. ASSUME NEW c \in Commands, Forks(c) \/ TreeExits(c) PROVE Reasons'
  BY <1>1, <1>7 DEF Forks, TreeExits, user, stopping, observer, verdict
<1>8. ASSUME NEW c \in Commands, ChildExits(c) PROVE Reasons'
  <2>1. UNCHANGED <<interrupted, signal, main, doomed, then, mode, result, waited, seen,
                    exitcode>>
    BY <1>8 DEF ChildExits, user, stopping, observer, verdict
  <2>2. /\ child'[Primary] \in {child[Primary], "exited"}
        /\ ~Running(Primary) => code' = code
    BY <1>8 DEF ChildExits, TypeOK, Commands
  <2> QED
    BY <2>1, <2>2
<1> QED
  BY <1>2, <1>3, <1>4, <1>5, <1>6, <1>7, <1>8 DEF World

\* Every step keeps the reasons.
LEMMA ReasonsNext == TypeOK /\ PrimaryKept /\ Reasons /\ [DevNext]_allvars => Reasons'
<1>1. Reasons /\ UNCHANGED allvars => Reasons'
  BY DEF Reasons, FlagTrue, CodeFinal, StoppedForAReason, Running, Over, allvars, user,
     stopping, observer, children, verdict
<1> QED
  BY <1>1, ReasonsStart, ReasonsWait, ReasonsStop, ReasonsEnd, ReasonsOther
     DEF DevNext, Main

\* The invariant of the two theorems below.
Inv == TypeOK /\ ServicesKept /\ PrimaryKept /\ Reasons

LEMMA Invariant == DevSpec => []Inv
<1>1. DevInit => Inv
  BY TypeInit, LeftInit, ReasonsInit DEF Inv
<1>2. Inv /\ [DevNext]_allvars => Inv'
  BY TypeNext, LeftNext, ReasonsNext DEF Inv
<1> QED
  BY <1>1, <1>2, PTL DEF DevSpec

(***************************************************************************)
(* docs/adr/0004, section 1: a command is stopped because of a signal, the *)
(* primary's own end or a command that could not be started, and never     *)
(* because of what the network or the observer does; a session of services *)
(* alone ends with its observer.                                           *)
(***************************************************************************)
THEOREM StopsForAReason == DevSpec => []StoppedForAReason
<1>1. Inv => StoppedForAReason
  BY DEF Inv, Reasons
<1> QED
  BY <1>1, Invariant, PTL

(***************************************************************************)
(* dev.rs:178-187: without a signal the exit code is the primary's wherever*)
(* a byte can carry it, and success only for its success.                  *)
(***************************************************************************)
THEOREM StatusHonest == DevSpec => []ExitCodeHonest
<1>1. Inv => ExitCodeHonest
  BY DevCodesAreIntegers DEF Inv, Reasons, FlagTrue, CodeFinal, ExitCodeHonest, FAILED
<1> QED
  BY <1>1, Invariant, PTL

----------------------------------------------------------------------------
(***************************************************************************)
(* Why the files can be trusted.  Each output that is not spoiled holds    *)
(* the values the writer is at: the last ones, or while a report is taken  *)
(* the next ones, up to the outputs that are still to be written.  So a    *)
(* report that changes nothing may write nothing.                          *)
(***************************************************************************)
Hold(values, outputs) == \A o \in outputs : o \in spoiled \/ file[o] = values

\* What values say of an answer.
Say(values, a) ==
    /\ values.online <=> a # None
    /\ a # None => values.ip = IpOf(a)

Kept ==
    /\ main = "write" => Hold(last, Outputs \ pending)
    /\ main \notin {"plan", "check", "write"} \cup Over /\ phase \in {"opening", "open"}
          => pending = {} /\ Hold(last, Outputs)

Reported ==
    /\ main \in Before \cup {"start", "spawn"} => ~observing
    /\ ~observing => phase \in {"opening", "ended"}
    /\ phase = "open" => Say(last, told)
    /\ phase = "telling" => Say(next, told)
    /\ phase = "telling" /\ main \notin Over => Hold(next, Outputs \ pending)

Told == Kept /\ Reported

\* What a report makes of the values says the answer.
LEMMA SaysAnswer ==
  ASSUME NEW v \in Values, NEW a
  PROVE  Say(IF a = None THEN [v EXCEPT !.online = FALSE] ELSE Current(a), a)
  BY DEF Say, Values, Current

LEMMA ToldInit == DevInit => Told
  BY DEF DevInit, Init, Told, Kept, Reported, Over, Before

\* The files as they are first written.
LEMMA ToldBefore ==
  ASSUME TypeOK, Told, Plan \/ Check \/ Written \/ Install \/ \E o \in Outputs : WriteOne(o)
  PROVE  Told'
<1> USE DEF Told, Kept, Reported, Hold, Say, Over, Before, Exit
<1>1. CASE Plan
  BY <1>1 DEF Plan, feed, files
<1>2. CASE Check
  BY <1>2 DEF Check, feed, files
<1>3. CASE Written
  BY <1>3 DEF Written, observer, feed, files
<1>4. CASE Install
  BY <1>4 DEF Install, feed, files
<1>5. ASSUME NEW o \in Outputs, WriteOne(o) PROVE Told'
  <2>1. CASE main' = "over"
    BY <1>5, <2>1 DEF WriteOne, feed
  <2>2. CASE main' # "over"
    <3>1. file' = [file EXCEPT ![o] = last] /\ spoiled' = spoiled \ {o}
          /\ pending' = pending \ {o} /\ main' = "write" /\ last' = last
      BY <1>5, <2>2 DEF WriteOne
    <3>2. \A p \in Outputs : file'[p] = IF p = o THEN last ELSE file[p]
      BY <3>1 DEF TypeOK
    <3> QED
      BY <1>5, <3>1, <3>2 DEF WriteOne, feed
  <2> QED
    BY <2>1, <2>2
<1> QED
  BY <1>1, <1>2, <1>3, <1>4, <1>5

\* What the main thread does with the commands does nothing to the files.
LEMMA ToldMain ==
  ASSUME TypeOK, Told,
         \/ Started \/ Spawn \/ Reap \/ WaitFails \/ PassOn \/ ServicesEnd
         \/ Asked \/ Expire \/ Stopped
         \/ ReadFlag \/ RaiseFlag \/ Join \/ Report
         \/ \E c \in Services : Start(c) \/ ReportFinished(c)
         \/ \E c \in Commands : Ask(c) \/ Gone(c) \/ Kill(c)
  PROVE  Told'
<1>1. /\ UNCHANGED <<phase, told, last, next, pending, file, spoiled>>
      /\ main \notin Before \cup Over
      /\ main' \notin Before
      /\ observing => observing'
      /\ main' \in {"start", "spawn"} => ~observing'
  <2> USE DEF Before, Over, observer, feed, files
  <2>1. CASE Started \/ Spawn
    BY <2>1 DEF Started, Spawn, Stop, Told, Reported
  <2>2. CASE Reap \/ WaitFails \/ PassOn \/ ServicesEnd
    BY <2>2 DEF Reap, WaitFails, Waited, PassOn, ServicesEnd, Stop
  <2>3. CASE Asked \/ Expire
    BY <2>3 DEF Asked, Expire
  <2>3a. CASE Stopped
    <3>1. then \in {"failed", "read", "raise"}
      BY DEF TypeOK
    <3>2. main' \in {"over", "read", "raise"}
      BY <2>3a, <3>1 DEF Stopped, Exit
    <3> QED
      BY <2>3a, <3>2 DEF Stopped
  <2>4. CASE ReadFlag \/ RaiseFlag \/ Join \/ Report
    BY <2>4 DEF ReadFlag, RaiseFlag, Join, Report, Exit, Stop
  <2>5. CASE \E c \in Services : Start(c) \/ ReportFinished(c)
    BY <2>5 DEF Start, ReportFinished, Stop, Told, Reported
  <2>6. CASE \E c \in Commands : Ask(c) \/ Gone(c) \/ Kill(c)
    BY <2>6 DEF Ask, Gone, Kill
  <2> QED
    BY <2>1, <2>2, <2>3, <2>3a, <2>4, <2>5, <2>6
<1> QED
  BY <1>1 DEF Told, Kept, Reported, Hold, Say, Before, Over

\* A report, the writes it asks for, and its end.
LEMMA ToldObserver ==
  ASSUME TypeOK, Told,
         Observer \/ Returns("ok") \/ Returns("error") \/ \E a \in Answers : Track(a)
  PROVE  Told'
<1> USE DEF Told, Kept, Reported, Over
<1>0. observing /\ main \notin Over /\ main \notin Before
  BY DEF Observer, Track, Update, Tracked, Returns, Observing
<1>1. ASSUME NEW a \in Answers, Track(a) PROVE Told'
  <2>1. /\ phase \in {"opening", "open"} /\ phase' = "telling" /\ told' = a
        /\ next' = IF a = None THEN [last EXCEPT !.online = FALSE] ELSE Current(a)
        /\ pending' = IF next' = last THEN {} ELSE Outputs
        /\ UNCHANGED <<main, observing, last, file, spoiled>>
    BY <1>1 DEF Track, Tell, files
  <2>2. Say(next', a)
    BY <2>1, SaysAnswer DEF TypeOK
  <2>3. Hold(last, Outputs)
    BY <1>0, <2>1 DEF Before
  <2>4. CASE next' = last
    BY <1>0, <2>1, <2>2, <2>3, <2>4 DEF Hold, Say, Before
  <2>5. CASE next' # last
    BY <1>0, <2>1, <2>2, <2>5 DEF Hold, Say, Before
  <2> QED
    BY <2>4, <2>5
<1>2. ASSUME NEW o \in Outputs, Update(o) PROVE Told'
  <2>1. /\ pending' = pending \ {o}
        /\ \/ file' = [file EXCEPT ![o] = next] /\ spoiled' = spoiled \ {o}
           \/ UNCHANGED file /\ spoiled' = spoiled \cup {o}
        /\ UNCHANGED <<main, observing, phase, told, last, next>>
    BY <1>2 DEF Update, feed
  <2>2. \A p \in Outputs : p # o => file'[p] = file[p] /\ (p \in spoiled' <=> p \in spoiled)
    BY <2>1 DEF TypeOK
  <2>3. o \in spoiled' \/ file'[o] = next
    BY <2>1 DEF TypeOK
  <2>4. phase \notin {"opening", "open"}
    BY <1>0, <1>2 DEF Update, Before
  <2> QED
    BY <1>0, <2>1, <2>2, <2>3, <2>4 DEF Hold, Say, Before
<1>3. CASE Tracked
  BY <1>0, <1>3 DEF Tracked, Taken, Hold, Say, Before, files
<1>4. CASE Returns("ok") \/ Returns("error")
  BY <1>0, <1>4 DEF Returns, End, Hold, Say, Before, files
<1> QED
  BY <1>1, <1>2, <1>3, <1>4 DEF Observer

\* A file that is edited is spoiled.
LEMMA ToldWorld == ASSUME TypeOK, Told, World PROVE Told'
<1> USE DEF Told, Kept, Reported, Hold, Say, Over, Before
<1>1. ASSUME NEW o \in Outputs, Edit(o) PROVE Told'
  <2>1. /\ spoiled' = spoiled \cup {o}
        /\ UNCHANGED <<main, observing, phase, told, last, next, pending>>
    BY <1>1 DEF Edit, observer, feed
  <2>2. \A p \in Outputs : p # o => file'[p] = file[p]
    BY <1>1 DEF Edit, TypeOK
  <2> QED
    BY <2>1, <2>2
<1>2. CASE \E c \in Commands : ChildExits(c) \/ Forks(c) \/ TreeExits(c)
  BY <1>2 DEF ChildExits, Forks, TreeExits, observer, feed, files
<1>3. CASE Signal
  BY <1>3 DEF Signal, observer, feed, files
<1>4. CASE Handle
  BY <1>4 DEF Handle, observer, feed, files
<1> QED
  BY <1>1, <1>2, <1>3, <1>4 DEF World

(***************************************************************************)
(* Between two reports each file says what the loop last told (dev.rs,     *)
(* outputs.rs), for any number of outputs and any answers, unless its last *)
(* write failed or someone edited it.                                      *)
(***************************************************************************)
THEOREM FilesFollow == DevSpec => []FilesTell
<1>1. DevInit => TypeOK /\ Told
  BY TypeInit, ToldInit
<1>2. TypeOK /\ Told /\ [DevNext]_allvars => (TypeOK /\ Told)'
  <2>1. Told /\ UNCHANGED allvars => Told'
    BY DEF Told, Kept, Reported, Hold, Say, allvars, observer, feed, files
  <2> QED
    BY <2>1, TypeNext, ToldBefore, ToldMain, ToldObserver, ToldWorld DEF DevNext, Main
<1>3. Told => FilesTell
  BY DEF Told, Kept, Reported, Hold, Say, FilesTell, Observing, Before
<1> QED
  BY <1>1, <1>2, <1>3, PTL DEF DevSpec

============================================================================
