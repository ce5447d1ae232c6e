----------------------------- MODULE Advertise -----------------------------
(***************************************************************************)
(* `autonet advertise` (autonet-cli/src/advertise.rs): the callback that   *)
(* keeps one mDNS record in step with the observation loop, and the way    *)
(* out that withdraws it.                                                  *)
(*                                                                         *)
(* The loop is AnswerFeed, the promise Watch is shown to keep.  The mDNS   *)
(* responder is a thread of the mdns-sd library, external here: it takes   *)
(* commands from a bounded queue in order and may be slow.                 *)
(***************************************************************************)
EXTENDS AnswerFeed, Naturals, Sequences

CONSTANTS
    Stop,       \* the command that ends the responder
    QueueSize,  \* commands that may wait in its queue
    MaxMoves    \* bound on the moves of the network

\* What the responder may be asked.
Commands == Answers \cup {None, Stop}

ASSUME QueueHolds == QueueSize \in Nat \ {0} /\ MaxMoves \in Nat
ASSUME StopIsNoAnswer == Stop \notin Answers \cup {None}

VARIABLES
    moves,        \* how often the network has moved
    interrupted,  \* the termination flag
    initial,      \* whether the report being handled is the opening one
    at,           \* where the callback or the way out is
    published,    \* whether AutoNet believes a record is on the wire
    queue,        \* commands on their way: an answer to register, None to
                  \* unregister, or Stop
    wire,         \* the address the record on the wire gives, None without
    responder,    \* whether the responder's thread runs
    lost          \* history: a command the queue refused, a wait that timed
                  \* out, or a report that failed on a record just registered

feed    == <<truth, told, phase>>
daemon  == <<wire, responder>>
allvars == <<feed, moves, interrupted, initial, at, published, queue, daemon, lost>>

Callback == {"register", "report", "withdraw"}
Leaving  == {"leave", "goodbye", "shutdown", "farewell"}

TypeOK ==
    /\ truth \in Answers /\ told \in Answers
    /\ phase \in {"opening", "open", "telling", "ended"}
    /\ moves \in 0..MaxMoves
    /\ interrupted \in BOOLEAN /\ initial \in BOOLEAN /\ published \in BOOLEAN
    /\ at \in Callback \cup Leaving \cup {"loop", "over"}
    /\ queue \in Seq(Commands) /\ Len(queue) <= QueueSize
    /\ wire \in Answers \cup {None}
    /\ responder \in BOOLEAN
    /\ lost \subseteq {"command", "wait", "report"}
    /\ phase = "telling" <=> at \in Callback
    /\ phase = "ended" <=> at \in Leaving \cup {"over"}

AdvertiseInit ==
    /\ Init
    /\ moves = 0
    /\ interrupted = FALSE
    /\ initial = FALSE
    /\ at = "loop"
    /\ published = FALSE
    /\ queue = <<>>
    /\ wire = None
    /\ responder = TRUE
    /\ lost = {}

\* A command is taken or, the queue being full or closed, refused.
Accepts == responder /\ Len(queue) < QueueSize
Send(command) == queue' = Append(queue, command)

----------------------------------------------------------------------------
\* The loop.

\* One report, and the branch of the callback it takes.
Told(a) ==
    /\ at = "loop"
    /\ Tell(a)
    /\ initial' = (phase = "opening")
    /\ at' = IF a = None THEN "withdraw" ELSE "register"
    /\ UNCHANGED <<moves, interrupted, published, queue, daemon, lost>>

\* observe returns by itself: an error before the opening report, Ctrl-C
\* between two reports.
Returns ==
    /\ at = "loop"
    /\ phase = "opening" \/ (phase = "open" /\ interrupted)
    /\ End
    /\ at' = "leave"
    /\ UNCHANGED <<moves, interrupted, initial, published, queue, daemon, lost>>

----------------------------------------------------------------------------
\* The callback.

\* A mistake: a record that is published already taken for up to date.
RegisterOnce ==
    /\ at = "register"
    /\ IF published
         THEN at' = "report" /\ UNCHANGED <<feed, queue>>
         ELSE \/ Accepts /\ Send(told) /\ at' = "report" /\ UNCHANGED feed
              \/ End /\ at' = "leave" /\ UNCHANGED queue
    /\ UNCHANGED <<moves, interrupted, initial, published, daemon, lost>>

\* A mistake: the error kept for later, the loop left running.
RegisterFailsQuietly ==
    /\ at = "register"
    /\ \/ Accepts /\ Send(told) /\ at' = "report" /\ UNCHANGED feed
       \/ at' = "leave" /\ UNCHANGED <<feed, queue>>
    /\ UNCHANGED <<moves, interrupted, initial, published, daemon, lost>>

\* A record that cannot be built, or that the responder refuses, ends the
\* loop with an error; the record of an earlier report stays as it is.
Register ==
    /\ at = "register"
    /\ \/ Accepts /\ Send(told) /\ at' = "report" /\ UNCHANGED feed
       \/ End /\ at' = "leave" /\ UNCHANGED queue
    /\ UNCHANGED <<moves, interrupted, initial, published, daemon, lost>>

\* A mistake: the registration not remembered.
ReportForgets ==
    /\ at = "report"
    /\ Taken /\ at' = "loop"
    /\ UNCHANGED <<moves, interrupted, initial, published, queue, daemon, lost>>

\* published is set after the report, so a failing one - the opening report, a
\* URL too long for its QR code - leaves a record nobody remembers.
Report ==
    /\ at = "report"
    /\ \/ Taken /\ at' = "loop" /\ published' = TRUE /\ UNCHANGED lost
       \/ /\ initial
          /\ End /\ at' = "leave" /\ UNCHANGED published
          /\ lost' = lost \cup {"report"}
    /\ UNCHANGED <<moves, interrupted, initial, queue, daemon>>

\* A mistake: a record that no answer stands behind left on the wire.
WithdrawNothing ==
    /\ at = "withdraw"
    /\ Taken /\ at' = "loop"
    /\ UNCHANGED <<moves, interrupted, initial, published, queue, daemon, lost>>

\* No usable address: the record goes.  A refusal is ignored.
Withdraw ==
    /\ at = "withdraw"
    /\ IF published
         THEN \/ Accepts /\ Send(None) /\ UNCHANGED lost
              \/ ~Accepts /\ UNCHANGED queue /\ lost' = lost \cup {"command"}
         ELSE UNCHANGED <<queue, lost>>
    /\ published' = FALSE
    /\ Taken /\ at' = "loop"
    /\ UNCHANGED <<moves, interrupted, initial, daemon>>

----------------------------------------------------------------------------
\* The way out.

\* What is published is withdrawn first.
Leave ==
    /\ at = "leave"
    /\ \/ ~published /\ at' = "shutdown" /\ UNCHANGED <<queue, lost>>
       \/ published /\ Accepts /\ Send(None) /\ at' = "goodbye" /\ UNCHANGED lost
       \/ /\ published /\ ~Accepts /\ at' = "shutdown"
          /\ lost' = lost \cup {"command"} /\ UNCHANGED queue
    /\ UNCHANGED <<feed, moves, interrupted, initial, published, daemon>>

\* A mistake: no bound on the wait.
GoodbyeUnbounded ==
    /\ at = "goodbye" /\ queue = <<>>
    /\ at' = "shutdown"
    /\ UNCHANGED <<feed, moves, interrupted, initial, published, queue, daemon, lost>>

\* The responder answers when it has withdrawn the record; GOODBYE bounds the
\* wait.
Goodbye ==
    /\ at = "goodbye"
    /\ at' = "shutdown"
    /\ lost' = IF queue = <<>> THEN lost ELSE lost \cup {"wait"}
    /\ UNCHANGED <<feed, moves, interrupted, initial, published, queue, daemon>>

Shutdown ==
    /\ at = "shutdown"
    /\ \/ Accepts /\ Send(Stop) /\ at' = "farewell"
       \/ ~Accepts /\ at' = "over" /\ UNCHANGED queue
    /\ lost' = IF Accepts THEN lost ELSE lost \cup {"command"}
    /\ UNCHANGED <<feed, moves, interrupted, initial, published, daemon>>

\* The second wait, answered or timed out; then the process is gone and the
\* responder's thread with it.
Farewell ==
    /\ at = "farewell"
    /\ at' = "over"
    /\ lost' = IF responder THEN lost \cup {"wait"} ELSE lost
    /\ UNCHANGED <<feed, moves, interrupted, initial, published, queue, daemon>>

----------------------------------------------------------------------------
\* Everybody else.

\* The responder carries out the next command.
Respond ==
    /\ at # "over" /\ responder /\ queue # <<>>
    /\ queue' = Tail(queue)
    /\ IF Head(queue) = Stop
         THEN responder' = FALSE /\ UNCHANGED wire
         ELSE wire' = Head(queue) /\ UNCHANGED responder
    /\ UNCHANGED <<feed, moves, interrupted, initial, at, published, lost>>

\* The network moves.
Moves ==
    /\ moves < MaxMoves /\ at # "over"
    /\ Move /\ truth' # truth
    /\ moves' = moves + 1
    /\ UNCHANGED <<interrupted, initial, at, published, queue, daemon, lost>>

Interrupt ==
    /\ ~interrupted /\ at # "over"
    /\ interrupted' = TRUE
    /\ UNCHANGED <<feed, moves, initial, at, published, queue, daemon, lost>>

Steps == Register \/ Report \/ Withdraw \/ Leave \/ Goodbye \/ Shutdown \/ Farewell

Loop == Returns \/ \E a \in Answers : Told(a)

AdvertiseNext == Steps \/ Loop \/ Respond \/ Moves \/ Interrupt

\* The thread runs; the responder owes nothing.  What the loop owes is what
\* AnswerFeed promises, and that Ctrl-C between two reports is noticed.
AdvertiseSpec ==
    /\ AdvertiseInit /\ [][AdvertiseNext]_allvars
    /\ WF_allvars(Steps)
    /\ WF_allvars(interrupted /\ phase = "open" /\ Returns)
    /\ CatchesUp

----------------------------------------------------------------------------
(***************************************************************************)
(* advertise.rs:97-99, 117-126: between two reports, once the responder    *)
(* has done what it was asked, the record on the wire gives the answer     *)
(* last told and there is none without an answer - unless a withdrawal     *)
(* was refused.                                                            *)
(***************************************************************************)
WireFollows ==
    at = "loop" /\ phase = "open" /\ queue = <<>> /\ "command" \notin lost => wire = told

(***************************************************************************)
(* docs/adr/0002:189-190: the record is withdrawn on exit, on every way    *)
(* out: an error of the loop, of the registration or Ctrl-C, in any order  *)
(* with the commands under way.  What may leave it behind is a queue that  *)
(* refused, a wait that ran out, and a failed report.                      *)
(***************************************************************************)
WithdrawnOnExit == at = "over" /\ lost = {} => wire = None

(***************************************************************************)
(* advertise.rs:43-48: neither a full queue nor a slow responder keeps     *)
(* Ctrl-C waiting.                                                         *)
(***************************************************************************)
LeavesWhenInterrupted == interrupted /\ phase = "open" ~> at = "over"

(***************************************************************************)
(* docs/adr/0002:146-148: no stale record is left standing.  Once the      *)
(* network rests and the responder keeps up, the wire gives its answer for *)
(* good, or the command has ended.                                         *)
(***************************************************************************)
WireCatchesUp ==
    <>[][FALSE]_truth /\ []<>(queue = <<>>) =>
        <>[](phase = "ended" \/ wire = truth \/ "command" \in lost)

============================================================================
