-------------------------------- MODULE Dev --------------------------------
(***************************************************************************)
(* `autonet dev` (autonet-cli/src/dev.rs, outputs.rs): write the project's *)
(* generated files, start its commands, keep the files current while they  *)
(* run, and stop every one of them on the way out.                         *)
(*                                                                         *)
(* The observer, on a thread of its own, is AnswerFeed - the promise Watch *)
(* is shown to keep - with the files as its callback.  Any answer may be   *)
(* told at any time, so the truth behind it need not move.  The observer   *)
(* shares the termination flag with the main thread.  A command is the     *)
(* process AutoNet starts and the tree of those it starts in turn.         *)
(***************************************************************************)
EXTENDS AnswerFeed, Integers

CONSTANTS
    IpOf(_),      \* an answer's address
    Loopback,     \* 127.0.0.1
    Outputs,      \* the generated files of the plan
    Services,     \* its background commands
    Primary,      \* its own command
    Wrappers,     \* the commands that start processes of their own
    Codes,        \* what a process may report
    Absent,       \* no file there
    Foreign       \* a file AutoNet did not write

Commands == Services \cup {Primary}

ASSUME PrimaryIsNoService == Primary \notin Services
ASSUME DevCodesAreIntegers == Codes \subseteq Int /\ None \notin Int

FAILED == 2

VARIABLES
    interrupted,  \* the termination flag
    signal,       \* history: whether a termination signal was sent
    mode,         \* what the plan runs: "primary", "services" or "files"
    main,         \* where the main thread is
    todo,         \* the commands its current pass has left
    doomed,       \* the commands stop_all was called with
    then,         \* where stop_all returns to
    deadline,     \* its grace period is over
    observing,    \* the observer has been started
    result,       \* what it returned: "none" yet, "ok" or "error"
    last,         \* the values it wrote last
    next,         \* the values it is writing
    pending,      \* the outputs left to write, at first or in this report
    file,         \* what is found at each output's path
    spoiled,      \* history: outputs whose last write failed, or edited since
    child,        \* each command's process
    tree,         \* each command's descendants: "none", "running", or "asked"
                  \* once SIGTERM was sent to the process and all of them
    watched,      \* background commands not yet reported as finished
    code,         \* ExitStatus::code of the primary
    waited,       \* what wait_for_primary returned
    seen,         \* was_interrupted
    exitcode      \* AutoNet's own, None until it exits

feed     == <<truth, told, phase>>
stopping == <<todo, doomed, then, deadline>>
observer == <<feed, observing, result, last, next, pending>>
files    == <<file, spoiled>>
children == <<child, tree, watched, code>>
verdict  == <<waited, seen, exitcode>>
user     == <<interrupted, signal>>
allvars  == <<user, mode, main, stopping, observer, files, children, verdict>>

Current(a)   == [ip |-> IpOf(a), online |-> TRUE]
OfflineValue == [ip |-> Loopback, online |-> FALSE]
Values       == [ip : {IpOf(a) : a \in Answers \ {None}} \cup {Loopback},
                 online : BOOLEAN]

Over   == {"over", "dead"}
Before == {"plan", "check", "write", "install"}
Phases == Before \cup Over \cup
            {"start", "spawn", "observe", "wait", "ask", "grace", "read",
             "raise", "join", "exit"}

TypeOK ==
    /\ truth \in Answers /\ told \in Answers
    /\ phase \in {"opening", "open", "telling", "ended"}
    /\ interrupted \in BOOLEAN /\ signal \in BOOLEAN /\ observing \in BOOLEAN
    /\ deadline \in BOOLEAN /\ seen \in BOOLEAN
    /\ mode \in {"primary", "services", "files"}
    /\ main \in Phases
    /\ then \in {"failed", "read", "raise"}
    /\ result \in {"none", "ok", "error"}
    /\ last \in Values /\ next \in Values
    /\ pending \subseteq Outputs /\ spoiled \subseteq Outputs
    /\ file \in [Outputs -> Values \cup {Absent, Foreign}]
    /\ child \in [Commands -> {"none", "running", "exited", "killed"}]
    /\ tree \in [Commands -> {"none", "running", "asked"}]
    /\ watched \subseteq Services
    /\ todo \subseteq Commands /\ doomed \subseteq Commands
    /\ code \in Codes \cup {1, None}
    /\ waited \in {"unknown", "status", "error"}
    /\ exitcode \in 0..255 \cup {None}
    /\ result = "none" <=> phase # "ended"

DevInit ==
    /\ Init /\ truth = None /\ told = None
    /\ interrupted = FALSE /\ signal = FALSE
    /\ mode \in {"primary", "services", "files"}
    /\ main = "plan"
    /\ todo = {} /\ doomed = {} /\ then = "failed" /\ deadline = FALSE
    /\ observing = FALSE /\ result = "none"
    /\ last = OfflineValue /\ next = OfflineValue /\ pending = {}
    /\ file \in [Outputs -> {Absent, OfflineValue, Foreign}]
    /\ spoiled = {}
    /\ child = [c \in Commands |-> "none"]
    /\ tree = [c \in Commands |-> "none"]
    /\ watched = {} /\ code = None
    /\ waited = "unknown" /\ seen = FALSE /\ exitcode = None

----------------------------------------------------------------------------
\* Before anything runs.

Exit(status) ==
    /\ main' = "over"
    /\ exitcode' = status

\* A snapshot, and a plan: or a refusal (no such interface, nothing to run, a
\* public address without --allow-public).
Plan ==
    /\ main = "plan"
    /\ \/ /\ \E a \in Answers : last' = IF a = None THEN OfflineValue ELSE Current(a)
          /\ main' = "check" /\ UNCHANGED exitcode
       \/ Exit(FAILED) /\ UNCHANGED last
    /\ UNCHANGED <<user, mode, stopping, feed, observing, result, next, pending,
                   files, children, waited, seen>>

\* check_ownership: all of them before any is written.  A file that cannot be
\* read refuses as well.
Check ==
    /\ main = "check"
    /\ \/ /\ Foreign \notin {file[o] : o \in Outputs}
          /\ main' = "write" /\ pending' = Outputs /\ UNCHANGED exitcode
       \/ Exit(FAILED) /\ UNCHANGED pending
    /\ UNCHANGED <<user, mode, stopping, feed, observing, result, last, next,
                   files, children, waited, seen>>

WriteOne(o) ==
    /\ main = "write" /\ o \in pending
    /\ \/ /\ file' = [file EXCEPT ![o] = last]
          /\ spoiled' = spoiled \ {o}
          /\ pending' = pending \ {o} /\ UNCHANGED <<main, exitcode>>
       \/ Exit(FAILED) /\ UNCHANGED <<file, spoiled, pending>>
    /\ UNCHANGED <<user, mode, stopping, feed, observing, result, last, next,
                   children, waited, seen>>

Written ==
    /\ main = "write" /\ pending = {}
    /\ main' = "install"
    /\ UNCHANGED <<user, mode, stopping, observer, files, children, verdict>>

\* From here on a signal sets a flag instead of killing AutoNet.  A plan that
\* runs nothing observes on the main thread.
Install ==
    /\ main = "install"
    /\ \/ /\ main' = IF mode = "files" THEN "observe" ELSE "start"
          /\ observing' = (mode = "files")
          /\ todo' = Services /\ UNCHANGED exitcode
       \/ Exit(FAILED) /\ UNCHANGED <<observing, todo>>
    /\ UNCHANGED <<user, mode, doomed, then, deadline, feed, result, last, next,
                   pending, files, children, waited, seen>>

----------------------------------------------------------------------------
\* Starting the commands.

Stop(commands, return) ==
    /\ main' = "ask"
    /\ todo' = commands /\ doomed' = commands
    /\ then' = return
    /\ deadline' = FALSE

\* One that cannot be started takes the earlier ones with it.
Start(c) ==
    /\ main = "start" /\ c \in todo
    /\ \/ /\ child' = [child EXCEPT ![c] = "running"]
          /\ watched' = watched \cup {c}
          /\ todo' = todo \ {c}
          /\ UNCHANGED <<main, doomed, then, deadline>>
       \/ Stop(watched, "failed") /\ UNCHANGED <<child, watched>>
    /\ UNCHANGED <<user, mode, observer, files, tree, code, verdict>>

Started ==
    /\ main = "start" /\ todo = {}
    /\ main' = IF mode = "primary" THEN "spawn" ELSE "wait"
    /\ observing' = (mode = "services")
    /\ UNCHANGED <<user, mode, stopping, feed, result, last, next, pending,
                   files, children, verdict>>

\* A mistake: what was started before left running.
SpawnForgets ==
    /\ main = "spawn"
    /\ \/ /\ child' = [child EXCEPT ![Primary] = "running"]
          /\ main' = "wait" /\ observing' = TRUE
          /\ UNCHANGED exitcode
       \/ Exit(FAILED) /\ UNCHANGED <<child, observing>>
    /\ UNCHANGED <<user, mode, stopping, feed, result, last, next, pending, files,
                   tree, watched, code, waited, seen>>

\* The project's own command, and with it the observer.
Spawn ==
    /\ main = "spawn"
    /\ \/ /\ child' = [child EXCEPT ![Primary] = "running"]
          /\ main' = "wait" /\ observing' = TRUE
          /\ UNCHANGED stopping
       \/ Stop(watched, "failed") /\ UNCHANGED <<child, observing>>
    /\ UNCHANGED <<user, mode, feed, result, last, next, pending, files, tree,
                   watched, code, verdict>>

----------------------------------------------------------------------------
\* Waiting.

Ended(c) == child[c] \in {"exited", "killed"}

\* A finished background command is reported once and no longer watched.
ReportFinished(c) ==
    /\ main = "wait" /\ c \in watched /\ Ended(c)
    /\ watched' = watched \ {c}
    /\ UNCHANGED <<user, mode, main, stopping, observer, files, child, tree, code,
                   verdict>>

Waited(outcome) ==
    /\ main = "wait" /\ mode = "primary"
    /\ waited' = outcome
    /\ main' = "read"
    /\ UNCHANGED <<user, mode, stopping, observer, files, children, seen, exitcode>>

Reap == Ended(Primary) /\ Waited("status")

\* try_wait fails: the session ends, its primary's state unknown.
WaitFails == Waited("error")

\* A mistake: the observer's end taken for a reason to stop.
PassOnEither ==
    /\ main = "wait" /\ mode = "primary"
    /\ interrupted \/ result # "none"
    /\ Stop({Primary}, "read")
    /\ UNCHANGED <<user, mode, observer, files, children, verdict>>

\* A mistake: the terminal's Ctrl-C counted on to reach the primary.
PassOnNever ==
    /\ main = "wait" /\ mode = "primary"
    /\ interrupted /\ Ended(Primary)
    /\ Stop({Primary}, "read")
    /\ UNCHANGED <<user, mode, observer, files, children, verdict>>

\* SIGNAL_REACH after the signal: it is passed on to a primary still there.
PassOn ==
    /\ main = "wait" /\ mode = "primary"
    /\ interrupted
    /\ Stop({Primary}, "read")
    /\ UNCHANGED <<user, mode, observer, files, children, verdict>>

\* Without a primary the services run until the signal, or the observer's end.
ServicesEnd ==
    /\ main = "wait" /\ mode = "services"
    /\ interrupted \/ result # "none"
    /\ Stop(watched, "raise")
    /\ UNCHANGED <<user, mode, observer, files, children, verdict>>

----------------------------------------------------------------------------
\* stop_all.

\* request_stop: one SIGTERM to a process still there and to its tree, listed
\* just before.
Ask(c) ==
    /\ main = "ask" /\ c \in todo
    /\ todo' = todo \ {c}
    /\ tree' = IF child[c] = "running" THEN [tree EXCEPT ![c] = "asked"] ELSE tree
    /\ UNCHANGED <<user, mode, main, doomed, then, deadline, observer, files,
                   child, watched, code, verdict>>

Asked ==
    /\ main = "ask" /\ todo = {}
    /\ main' = "grace" /\ todo' = doomed
    /\ UNCHANGED <<user, mode, doomed, then, deadline, observer, files, children,
                   verdict>>

Expire ==
    /\ main = "grace" /\ ~deadline
    /\ deadline' = TRUE
    /\ UNCHANGED <<user, mode, main, todo, doomed, then, observer, files,
                   children, verdict>>

Gone(c) ==
    /\ main = "grace" /\ c \in todo /\ child[c] # "running"
    /\ todo' = todo \ {c}
    /\ UNCHANGED <<user, mode, main, doomed, then, deadline, observer, files,
                   children, verdict>>

\* kill and wait, of the process alone.  It is one AutoNet may kill.
Kill(c) ==
    /\ main = "grace" /\ c \in todo /\ child[c] = "running" /\ deadline
    /\ child' = [child EXCEPT ![c] = "killed"]
    /\ code' \in IF c = Primary THEN {1, None} ELSE {code}
    /\ todo' = todo \ {c}
    /\ UNCHANGED <<user, mode, main, doomed, then, deadline, observer, files,
                   tree, watched, verdict>>

\* stop_all returns: from a failed start to the exit, from the primary to its
\* status, from the services to the end of the observer.
Stopped ==
    /\ main = "grace" /\ todo = {}
    /\ CASE then = "failed" -> Exit(FAILED) /\ UNCHANGED waited
         [] then = "read"   -> /\ main' = "read" /\ waited' \in {"status", "error"}
                               /\ UNCHANGED exitcode
         [] then = "raise"  -> main' = "raise" /\ UNCHANGED <<waited, exitcode>>
    /\ UNCHANGED <<user, mode, stopping, observer, files, children, seen>>

----------------------------------------------------------------------------
\* Ending.

\* Was it the user?  Asked before the flag is raised for the observer.
ReadFlag ==
    /\ main = "read"
    /\ seen' = interrupted
    /\ Stop(watched, "raise")
    /\ UNCHANGED <<user, mode, observer, files, children, waited, exitcode>>

RaiseFlag ==
    /\ main = "raise"
    /\ interrupted' = TRUE
    /\ main' = "join"
    /\ UNCHANGED <<signal, mode, stopping, observer, files, children, verdict>>

Join ==
    /\ main \in {"join", "observe"} /\ result # "none"
    /\ main' = "exit"
    /\ UNCHANGED <<user, mode, stopping, observer, files, children, verdict>>

\* A mistake: the flag read when it means nothing any more.
StatusLate ==
    IF mode = "primary"
      THEN IF interrupted THEN 0
           ELSE IF waited = "status" /\ code \in 0..255 THEN code ELSE FAILED
      ELSE IF result = "ok" THEN 0 ELSE FAILED

\* Success for an interrupted session, otherwise the primary's own code; a
\* session without one ends as its observer did.
Status ==
    IF mode = "primary"
      THEN IF seen THEN 0
           ELSE IF waited = "status" /\ code \in 0..255 THEN code ELSE FAILED
      ELSE IF result = "ok" THEN 0 ELSE FAILED

Report ==
    /\ main = "exit"
    /\ Exit(Status)
    /\ UNCHANGED <<user, mode, stopping, observer, files, children, waited, seen>>

----------------------------------------------------------------------------
\* The observer.

Observing == observing /\ main \notin Over

\* A mistake: the opening report taken for what was written just before.
TrackSkipsOpening(a) ==
    /\ Observing /\ Tell(a)
    /\ next' = IF phase = "opening" THEN last
               ELSE IF a = None THEN [last EXCEPT !.online = FALSE] ELSE Current(a)
    /\ pending' = IF next' = last THEN {} ELSE Outputs
    /\ UNCHANGED <<user, mode, main, stopping, observing, result, last, files,
                   children, verdict>>

\* A report: the values it makes, the last ones marked offline if it is none.
\* What was written already is not written again.
Track(a) ==
    /\ Observing /\ Tell(a)
    /\ next' = IF a = None THEN [last EXCEPT !.online = FALSE] ELSE Current(a)
    /\ pending' = IF next' = last THEN {} ELSE Outputs
    /\ UNCHANGED <<user, mode, main, stopping, observing, result, last, files,
                   children, verdict>>

\* One output, replaced atomically.  A failure is reported, and the next
\* output's turn.
Update(o) ==
    /\ Observing /\ o \in pending
    /\ pending' = pending \ {o}
    /\ \/ file' = [file EXCEPT ![o] = next] /\ spoiled' = spoiled \ {o}
       \/ UNCHANGED file /\ spoiled' = spoiled \cup {o}
    /\ UNCHANGED <<user, mode, main, stopping, feed, observing, result, last,
                   next, children, verdict>>

\* Never an error: last moves on whatever failed.
Tracked ==
    /\ Observing /\ pending = {}
    /\ Taken
    /\ last' = next
    /\ UNCHANGED <<user, mode, main, stopping, observing, result, next, pending,
                   files, children, verdict>>

\* A mistake: the observer's end known to nobody.
ReturnsSilently(outcome) ==
    /\ Observing
    /\ IF outcome = "ok" THEN phase = "open" /\ interrupted ELSE phase = "opening"
    /\ End
    /\ UNCHANGED <<user, mode, main, stopping, observing, result, last, next,
                   pending, files, children, verdict>>

\* observe returns: an error before the opening report, Ok on the flag.
Returns(outcome) ==
    /\ Observing
    /\ IF outcome = "ok" THEN phase = "open" /\ interrupted ELSE phase = "opening"
    /\ End
    /\ result' = outcome
    /\ UNCHANGED <<user, mode, main, stopping, observing, last, next, pending,
                   files, children, verdict>>

----------------------------------------------------------------------------
\* The commands and the user.

\* By itself, from the terminal's Ctrl-C or because it was asked.
ChildExits(c) ==
    /\ child[c] = "running"
    /\ child' = [child EXCEPT ![c] = "exited"]
    /\ code' \in IF c = Primary THEN Codes \cup {None} ELSE {code}
    /\ UNCHANGED <<user, mode, main, stopping, observer, files, tree, watched,
                   verdict>>

\* What is sent SIGTERM starts no more.
Forks(c) ==
    /\ c \in Wrappers /\ child[c] = "running" /\ tree[c] = "none"
    /\ tree' = [tree EXCEPT ![c] = "running"]
    /\ UNCHANGED <<user, mode, main, stopping, observer, files, child, watched,
                   code, verdict>>

TreeExits(c) ==
    /\ tree[c] = "running"
    /\ tree' = [tree EXCEPT ![c] = "none"]
    /\ UNCHANGED <<user, mode, main, stopping, observer, files, child, watched,
                   code, verdict>>

Signal ==
    /\ ~signal /\ main \notin Over
    /\ signal' = TRUE
    /\ main' = IF main \in Before THEN "dead" ELSE main
    /\ UNCHANGED <<interrupted, mode, stopping, observer, files, children,
                   verdict>>

Handle ==
    /\ signal /\ ~interrupted /\ main \notin Over
    /\ interrupted' = TRUE
    /\ UNCHANGED <<signal, mode, main, stopping, observer, files, children,
                   verdict>>

\* Someone puts a file of their own in an output's place.
Edit(o) ==
    /\ main \notin Over /\ file[o] # Foreign
    /\ file' = [file EXCEPT ![o] = Foreign]
    /\ spoiled' = spoiled \cup {o}
    /\ UNCHANGED <<user, mode, main, stopping, observer, children, verdict>>

----------------------------------------------------------------------------
Main ==
    \/ Plan \/ Check \/ Written \/ Install \/ Started \/ Spawn
    \/ Reap \/ PassOn \/ ServicesEnd
    \/ Asked \/ Expire \/ Stopped
    \/ ReadFlag \/ RaiseFlag \/ Join \/ Report
    \/ \E o \in Outputs : WriteOne(o)
    \/ \E c \in Services : Start(c) \/ ReportFinished(c)
    \/ \E c \in Commands : Ask(c) \/ Gone(c) \/ Kill(c)

\* What the observer owes: its opening and a report begun.
Observer ==
    \/ \E a \in Answers : phase = "opening" /\ Track(a)
    \/ \E o \in Outputs : Update(o)
    \/ Tracked

World ==
    \/ \E c \in Commands : ChildExits(c) \/ Forks(c) \/ TreeExits(c)
    \/ \E o \in Outputs : Edit(o)
    \/ Signal \/ Handle

DevNext ==
    \/ Main \/ WaitFails \/ Observer \/ World
    \/ Returns("ok") \/ Returns("error")
    \/ \E a \in Answers : Track(a)

\* The threads and the handler's are scheduled; commands and user owe nothing,
\* and nothing ever has to fail: a step of Main may, where it could as well
\* succeed, and a wait that fails is outside it.  Between any two reports the observer reads
\* the flag (Watch!StopsWhenInterrupted), so it cannot miss it for ever.
DevSpec ==
    /\ DevInit /\ [][DevNext]_allvars
    /\ WF_allvars(Main) /\ WF_allvars(Observer) /\ WF_allvars(Handle)
    /\ SF_allvars(Returns("ok"))

----------------------------------------------------------------------------
(***************************************************************************)
(* docs/adr/0004, section 3, dev.rs:354-377: between two reports a         *)
(* generated file says "online" exactly if the loop has an address, and    *)
(* then that address - through the opening report, moves during the        *)
(* writes, and losses that keep the old values - unless its last write     *)
(* failed or someone edited it.                                            *)
(***************************************************************************)
FilesTell ==
    Observing /\ phase = "open" =>
        \A o \in Outputs \ spoiled :
            /\ file[o].online <=> told # None
            /\ told # None => file[o].ip = IpOf(told)

(***************************************************************************)
(* dev.rs:148-176: AutoNet leaves none of the processes it started, on     *)
(* every way out: a later command that cannot be started, a signal at any  *)
(* moment, an observer that fails.  Only a primary whose wait failed may   *)
(* still run.                                                              *)
(***************************************************************************)
NothingLeftRunning ==
    main = "over" =>
        \A c \in Commands : child[c] = "running" => c = Primary /\ waited = "error"

(***************************************************************************)
(* dev.rs:3-4, docs/adr/0004, section 1: commands are stopped when the     *)
(* session ends and for nothing the network does: a signal, the primary's  *)
(* own end, or a command that could not be started.  A session of services *)
(* alone also ends with its observer.                                      *)
(***************************************************************************)
StoppedForAReason ==
    main = "ask" /\ doomed # {} =>
        \/ signal
        \/ waited # "unknown"
        \/ then = "failed"
        \/ mode = "services" /\ result = "error"

(***************************************************************************)
(* dev.rs:178-187: success without a signal is the primary's success, and  *)
(* a server that fell over by itself reports its own code, although dev's  *)
(* flag is raised by AutoNet itself too.                                   *)
(***************************************************************************)
ExitCodeHonest ==
    main = "over" /\ mode = "primary" /\ waited = "status" /\ ~signal =>
        /\ exitcode = 0 => code = 0
        /\ code \in 0..255 => exitcode = code

(***************************************************************************)
(* dev.rs:172-176, 326-343: the session ends once its primary has, and     *)
(* once it is told to, whatever its commands make of SIGTERM; the main     *)
(* thread waits for an observer that waits for the network.                *)
(***************************************************************************)
SessionEnds == signal \/ Ended(Primary) ~> main \in Over

============================================================================
