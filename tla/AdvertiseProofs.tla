-------------------------- MODULE AdvertiseProofs --------------------------
(***************************************************************************)
(* What `autonet advertise` guarantees for every set of answers and size   *)
(* of the responder's queue: the types, that the wire follows what was     *)
(* told, and that the record is withdrawn on every way out.                *)
(***************************************************************************)
EXTENDS Advertise, SequenceTheorems, TLAPS

----------------------------------------------------------------------------
\* A command sent is the last of the queue, and nothing else of it changes.
LEMMA Sending ==
  ASSUME queue \in Seq(Commands), NEW command \in Commands, Send(command)
  PROVE  /\ queue' \in Seq(Commands)
         /\ Len(queue) \in Nat
         /\ Len(queue') = Len(queue) + 1
         /\ queue'[Len(queue')] = command
         /\ \A k \in 1..Len(queue) : queue'[k] = queue[k]
<1>1. queue' = Append(queue, command)
  BY DEF Send
<1>2. Len(queue) \in Nat
  BY LenProperties
<1> QED
  BY <1>1, <1>2, AppendProperties

\* A command carried out is the first of the queue, and the rest moves up.
LEMMA Responding ==
  ASSUME queue \in Seq(Commands), queue # <<>>, queue' = Tail(queue)
  PROVE  /\ queue' \in Seq(Commands)
         /\ Len(queue) \in Nat \ {0}
         /\ Head(queue) = queue[1] /\ Head(queue) \in Commands
         /\ Len(queue') = Len(queue) - 1
         /\ \A k \in 1..Len(queue') : queue'[k] = queue[k + 1]
<1>1. Len(queue) \in Nat \ {0}
  BY EmptySeq
<1>2. Head(queue) = queue[1]
  OBVIOUS
<1> QED
  BY <1>1, <1>2, HeadTailProperties

----------------------------------------------------------------------------
\* Every reachable state is well typed.

\* The initial states are well typed.
LEMMA TypeInit == AdvertiseInit => TypeOK
<1>1. <<>> \in Seq(Commands) /\ Len(<<>>) = 0
  BY EmptySeq
<1> SUFFICES ASSUME AdvertiseInit PROVE TypeOK
  OBVIOUS
<1>2. queue \in Seq(Commands) /\ Len(queue) <= QueueSize
  BY <1>1, QueueHolds DEF AdvertiseInit
<1>3. /\ interrupted \in BOOLEAN /\ initial \in BOOLEAN /\ published \in BOOLEAN
      /\ responder \in BOOLEAN
  BY DEF AdvertiseInit
<1>4. /\ truth \in Answers /\ told \in Answers /\ phase = "opening"
      /\ moves = 0 /\ at = "loop" /\ wire = None /\ lost = {}
  BY DEF AdvertiseInit, Init
<1> QED
  BY <1>2, <1>3, <1>4, QueueHolds DEF TypeOK, Callback, Leaving

\* The thread's own steps keep the types.
LEMMA TypeSteps == ASSUME TypeOK, Steps \/ Loop PROVE TypeOK'
<1> USE DEF TypeOK, Callback, Leaving, feed, daemon
<1>1. /\ queue' \in Seq(Commands)
      /\ Len(queue') <= QueueSize
  <2>1. CASE UNCHANGED queue
    BY <2>1
  <2>2. CASE \E command \in Commands : Accepts /\ Send(command)
    <3>1. PICK command \in Commands : Accepts /\ Send(command)
      BY <2>2
    <3>2. /\ queue' \in Seq(Commands)
          /\ Len(queue) \in Nat
          /\ Len(queue') = Len(queue) + 1
      BY <3>1, Sending
    <3>3. Len(queue) < QueueSize
      BY <3>1 DEF Accepts
    <3> QED
      BY <3>2, <3>3, QueueHolds
  <2>3. UNCHANGED queue \/ \E command \in Commands : Accepts /\ Send(command)
    BY DEF Steps, Loop, Register, Report, Withdraw, Leave, Goodbye, Shutdown, Farewell,
       Returns, Told, Commands
  <2> QED
    BY <2>1, <2>2, <2>3
<1>2. CASE Register
  BY <1>1, <1>2 DEF Register, End
<1>3. CASE Report
  BY <1>1, <1>3 DEF Report, Taken, End
<1>4. CASE Withdraw
  BY <1>1, <1>4 DEF Withdraw, Taken
<1>5. CASE Leave
  BY <1>1, <1>5 DEF Leave
<1>6. CASE Goodbye
  BY <1>1, <1>6 DEF Goodbye
<1>7. CASE Shutdown
  BY <1>1, <1>7 DEF Shutdown
<1>8. CASE Farewell
  BY <1>1, <1>8 DEF Farewell
<1>9. CASE Returns
  BY <1>1, <1>9 DEF Returns, End
<1>10. ASSUME NEW a \in Answers, Told(a) PROVE TypeOK'
  BY <1>1, <1>10 DEF Told, Tell
<1> QED
  BY <1>2, <1>3, <1>4, <1>5, <1>6, <1>7, <1>8, <1>9, <1>10 DEF Steps, Loop

\* So do everybody else's.
LEMMA TypeOthers == ASSUME TypeOK, Respond \/ Moves \/ Interrupt PROVE TypeOK'
<1> USE DEF TypeOK, Callback, Leaving, feed, daemon
<1>1. CASE Respond
  <2>1. /\ queue' \in Seq(Commands) /\ Head(queue) \in Commands
        /\ Len(queue) \in Nat /\ Len(queue') = Len(queue) - 1
    BY <1>1, Responding DEF Respond
  <2>2. wire' \in Answers \cup {None} /\ responder' \in BOOLEAN
    BY <1>1, <2>1 DEF Respond, Commands
  <2> QED
    BY <1>1, <2>1, <2>2, QueueHolds DEF Respond
<1>2. CASE Moves
  BY <1>2, QueueHolds DEF Moves, Move
<1>3. CASE Interrupt
  BY <1>3 DEF Interrupt
<1> QED
  BY <1>1, <1>2, <1>3

\* Every step keeps the types.
LEMMA TypeNext == TypeOK /\ [AdvertiseNext]_allvars => TypeOK'
<1>1. TypeOK /\ UNCHANGED allvars => TypeOK'
  BY DEF TypeOK, allvars, feed, daemon
<1> QED
  BY <1>1, TypeSteps, TypeOthers DEF AdvertiseNext

(***************************************************************************)
(* advertise.rs: callback, way out and the responder's queue are well      *)
(* typed, and the queue never holds more than it can.                      *)
(***************************************************************************)
THEOREM TypeCorrect == AdvertiseSpec => []TypeOK
  BY TypeInit, TypeNext, PTL DEF AdvertiseSpec

----------------------------------------------------------------------------
(***************************************************************************)
(* Why the wire follows.  The queue is carried out in order, so what the   *)
(* wire will give is the last command of the queue, or what it gives now   *)
(* if there is none; every branch of the callback and every step of the    *)
(* way out says what that is, as long as nothing was lost.                 *)
(***************************************************************************)
EndsIn(x) ==
    /\ Len(queue) = 0 => wire = x
    /\ Len(queue) > 0 => queue[Len(queue)] = x

\* Stop is sent last, and ends the responder.
StopLast ==
    /\ at \notin {"farewell", "over"} =>
         responder /\ \A k \in 1..Len(queue) : queue[k] # Stop
    /\ at = "farewell" /\ responder =>
         /\ Len(queue) > 0
         /\ queue[Len(queue)] = Stop
         /\ \A k \in 1..(Len(queue) - 1) : queue[k] # Stop

\* What the callback knows at each of its branches.
CallbackKnows ==
    /\ at = "loop" /\ phase = "opening" => ~published
    /\ at = "loop" /\ phase = "open" => (published <=> told # None)
    /\ at = "loop" /\ published => EndsIn(told)
    /\ at = "register" => told # None
    /\ at = "report" => told # None /\ EndsIn(told)
    /\ at = "withdraw" => told = None
    /\ at \in Callback \cup {"loop"} => "report" \notin lost

\* What the way out knows at each of its steps.
WayOutKnows ==
    /\ at \in {"loop", "register", "withdraw", "leave"} /\ ~published
         /\ lost \cap {"command", "report"} = {} => EndsIn(None)
    /\ at = "goodbye" => EndsIn(None)
    /\ at = "shutdown" /\ lost = {} => EndsIn(None)
    /\ at = "farewell" /\ lost = {} =>
         IF responder
           THEN /\ Len(queue) = 1 => wire = None
                /\ Len(queue) > 1 => queue[Len(queue) - 1] = None
           ELSE wire = None
    /\ at = "over" /\ lost = {} => wire = None

Follows == StopLast /\ CallbackKnows /\ WayOutKnows

\* Nothing has been sent, and nothing is on the wire.
LEMMA FollowsInit == AdvertiseInit => Follows
<1> SUFFICES ASSUME AdvertiseInit PROVE Follows
  OBVIOUS
<1>1. Len(queue) = 0 /\ 1..Len(queue) = {}
  BY EmptySeq DEF AdvertiseInit
<1>2. /\ responder /\ ~published /\ at = "loop" /\ phase = "opening"
      /\ wire = None /\ lost = {}
  BY DEF AdvertiseInit, Init
<1> QED
  BY <1>1, <1>2 DEF Follows, StopLast, CallbackKnows, WayOutKnows, EndsIn, Callback

\* Whoever sends a command other than Stop keeps Stop out of the queue.
LEMMA SendKeeps ==
  ASSUME TypeOK, StopLast, at \notin {"farewell", "over"},
         NEW command \in Commands, command # Stop, Send(command),
         responder' = responder
  PROVE  /\ Len(queue') > 0
         /\ queue'[Len(queue')] = command
         /\ responder'
         /\ \A k \in 1..Len(queue') : queue'[k] # Stop
<1>1. /\ Len(queue) \in Nat
      /\ Len(queue') = Len(queue) + 1
      /\ queue'[Len(queue')] = command
      /\ \A k \in 1..Len(queue) : queue'[k] = queue[k]
  BY Sending DEF TypeOK
<1>2. Len(queue') > 0
  BY <1>1
<1>3. ASSUME NEW k \in 1..Len(queue') PROVE queue'[k] # Stop
  <2>1. k = Len(queue') \/ k \in 1..Len(queue)
    BY <1>1
  <2> QED
    BY <1>1, <2>1 DEF StopLast
<1> QED
  BY <1>1, <1>2, <1>3 DEF StopLast

\* A report.
LEMMA FollowsTold ==
  ASSUME TypeOK, Follows, NEW a \in Answers, Told(a)
  PROVE  Follows'
<1>1. /\ at = "loop" /\ at' = (IF a = None THEN "withdraw" ELSE "register") /\ told' = a
      /\ UNCHANGED <<published, queue, wire, responder, lost>>
  BY DEF Told, Tell, daemon
<1> QED
  BY <1>1 DEF Follows, StopLast, CallbackKnows, WayOutKnows, EndsIn, Callback

\* The callback.
LEMMA FollowsCallback ==
  ASSUME TypeOK, Follows, Register \/ Report \/ Withdraw
  PROVE  Follows'
<1> USE DEF Callback, daemon
<1>1. CASE Register
  <2>1. /\ at = "register" /\ UNCHANGED <<told, published, wire, responder, lost>>
    BY <1>1 DEF Register, End, feed
  <2>2. CASE Send(told) /\ at' = "report"
    <3>1. told \in Commands /\ told # Stop
      BY StopIsNoAnswer DEF TypeOK, Commands
    <3>2. /\ Len(queue') > 0 /\ queue'[Len(queue')] = told
          /\ responder' /\ \A k \in 1..Len(queue') : queue'[k] # Stop
      BY <2>1, <2>2, <3>1, SendKeeps DEF Follows
    <3> QED
      BY <2>1, <2>2, <3>2 DEF Follows, StopLast, CallbackKnows, WayOutKnows, EndsIn
  <2>3. CASE UNCHANGED queue /\ at' = "leave"
    BY <2>1, <2>3 DEF Follows, StopLast, CallbackKnows, WayOutKnows, EndsIn
  <2> QED
    BY <1>1, <2>2, <2>3 DEF Register
<1>2. CASE Report
  <2>1. at = "report" /\ UNCHANGED <<told, queue, wire, responder>>
    BY <1>2 DEF Report, Taken, End
  <2>2. CASE at' = "loop" /\ published' = TRUE /\ phase' = "open" /\ lost' = lost
    BY <2>1, <2>2 DEF Follows, StopLast, CallbackKnows, WayOutKnows, EndsIn
  <2>3. CASE at' = "leave" /\ lost' = lost \cup {"report"}
    BY <2>1, <2>3 DEF Follows, StopLast, CallbackKnows, WayOutKnows, EndsIn
  <2> QED
    BY <1>2, <2>2, <2>3 DEF Report, Taken
<1>3. CASE Withdraw
  <2>1. /\ at = "withdraw" /\ at' = "loop" /\ ~published' /\ phase' = "open"
        /\ UNCHANGED <<told, wire, responder>>
    BY <1>3 DEF Withdraw, Taken
  <2>2. CASE Send(None) /\ lost' = lost
    <3>1. None \in Commands /\ None # Stop
      BY StopIsNoAnswer DEF Commands
    <3>2. /\ Len(queue') > 0 /\ queue'[Len(queue')] = None
          /\ responder' /\ \A k \in 1..Len(queue') : queue'[k] # Stop
      BY <2>1, <2>2, <3>1, SendKeeps DEF Follows
    <3> QED
      BY <2>1, <2>2, <3>2 DEF Follows, StopLast, CallbackKnows, WayOutKnows, EndsIn
  <2>3. CASE UNCHANGED queue /\ lost' = lost \cup {"command"}
    BY <2>1, <2>3 DEF Follows, StopLast, CallbackKnows, WayOutKnows, EndsIn
  <2>4. CASE ~published /\ UNCHANGED <<queue, lost>>
    BY <2>1, <2>4 DEF Follows, StopLast, CallbackKnows, WayOutKnows, EndsIn
  <2> QED
    BY <1>3, <2>2, <2>3, <2>4 DEF Withdraw
<1> QED
  BY <1>1, <1>2, <1>3

\* The way out.
LEMMA FollowsWayOut ==
  ASSUME TypeOK, Follows, Returns \/ Leave \/ Goodbye \/ Shutdown \/ Farewell
  PROVE  Follows'
<1> USE DEF Callback, daemon
<1>1. CASE Returns
  <2>1. at = "loop" /\ at' = "leave" /\ UNCHANGED <<published, queue, wire, responder, lost>>
    BY <1>1 DEF Returns, End
  <2> QED
    BY <2>1 DEF Follows, StopLast, CallbackKnows, WayOutKnows, EndsIn
<1>2. CASE Leave
  <2>1. at = "leave" /\ UNCHANGED <<published, wire, responder>>
    BY <1>2 DEF Leave
  <2>2. CASE ~published /\ at' = "shutdown" /\ UNCHANGED <<queue, lost>>
    BY <2>1, <2>2 DEF Follows, StopLast, CallbackKnows, WayOutKnows, EndsIn
  <2>3. CASE Send(None) /\ at' = "goodbye" /\ UNCHANGED lost
    <3>1. None \in Commands /\ None # Stop
      BY StopIsNoAnswer DEF Commands
    <3>2. /\ Len(queue') > 0 /\ queue'[Len(queue')] = None
          /\ responder' /\ \A k \in 1..Len(queue') : queue'[k] # Stop
      BY <2>1, <2>3, <3>1, SendKeeps DEF Follows
    <3> QED
      BY <2>1, <2>3, <3>2 DEF Follows, StopLast, CallbackKnows, WayOutKnows, EndsIn
  <2>4. CASE at' = "shutdown" /\ lost' = lost \cup {"command"} /\ UNCHANGED queue
    BY <2>1, <2>4 DEF Follows, StopLast, CallbackKnows, WayOutKnows, EndsIn
  <2> QED
    BY <1>2, <2>2, <2>3, <2>4 DEF Leave
<1>3. CASE Goodbye
  <2>1. /\ at = "goodbye" /\ at' = "shutdown" /\ UNCHANGED <<queue, wire, responder>>
    BY <1>3 DEF Goodbye
  <2> QED
    BY <2>1 DEF Follows, StopLast, CallbackKnows, WayOutKnows, EndsIn
<1>4. CASE Shutdown
  <2>1. at = "shutdown" /\ UNCHANGED <<wire, responder>>
    BY <1>4 DEF Shutdown
  <2>2. CASE Send(Stop) /\ at' = "farewell" /\ lost' = lost
    <3>1. /\ Len(queue) \in Nat
          /\ Len(queue') = Len(queue) + 1
          /\ queue'[Len(queue')] = Stop
          /\ \A k \in 1..Len(queue) : queue'[k] = queue[k]
      BY <2>2, Sending DEF TypeOK, Commands
    <3>2. StopLast'
      BY <2>1, <2>2, <3>1 DEF Follows, StopLast
    <3>3. ASSUME lost = {} PROVE /\ Len(queue') = 1 => wire' = None
                                 /\ Len(queue') > 1 => queue'[Len(queue') - 1] = None
      BY <2>1, <3>1, <3>3 DEF Follows, WayOutKnows, EndsIn
    <3>4. responder'
      BY <2>1 DEF Follows, StopLast
    <3> QED
      BY <2>2, <3>2, <3>3, <3>4 DEF Follows, CallbackKnows, WayOutKnows
  <2>3. CASE at' = "over" /\ lost' = lost \cup {"command"}
    BY <2>3 DEF Follows, StopLast, CallbackKnows, WayOutKnows
  <2> QED
    BY <1>4, <2>2, <2>3 DEF Shutdown
<1>5. CASE Farewell
  <2>1. /\ at = "farewell" /\ at' = "over" /\ UNCHANGED wire
        /\ lost' = {} => lost = {} /\ ~responder
    BY <1>5 DEF Farewell
  <2> QED
    BY <2>1 DEF Follows, StopLast, CallbackKnows, WayOutKnows
<1> QED
  BY <1>1, <1>2, <1>3, <1>4, <1>5

\* The responder: what the queue ends in stays what it ends in.
LEMMA FollowsRespond == ASSUME TypeOK, Follows, Respond PROVE Follows'
<1>1. /\ Len(queue) \in Nat \ {0}
      /\ Head(queue) = queue[1]
      /\ Len(queue') = Len(queue) - 1
      /\ \A k \in 1..Len(queue') : queue'[k] = queue[k + 1]
  BY Responding DEF Respond, TypeOK
<1>2. at # "over" /\ responder /\ UNCHANGED <<told, phase, at, published, lost>>
  BY DEF Respond, feed
<1>3. CASE at # "farewell"
  <2>1. queue[1] # Stop
    BY <1>1, <1>2, <1>3 DEF Follows, StopLast
  <2>2. wire' = queue[1] /\ responder' = responder
    BY <1>1, <2>1 DEF Respond
  <2>3. ASSUME NEW x, EndsIn(x) PROVE EndsIn(x)'
    BY <1>1, <2>2, <2>3 DEF EndsIn
  <2>4. StopLast'
    BY <1>1, <1>2, <1>3, <2>2 DEF Follows, StopLast
  <2>5. EndsIn(told) => EndsIn(told)'
    BY <1>1, <1>2, <2>2 DEF EndsIn
  <2>6. EndsIn(None) => EndsIn(None)'
    BY <2>3
  <2>7. CallbackKnows'
    BY <1>2, <2>5 DEF Follows, CallbackKnows, Callback
  <2>8. WayOutKnows'
    BY <1>2, <1>3, <2>6 DEF Follows, WayOutKnows
  <2> QED
    BY <2>4, <2>7, <2>8 DEF Follows
<1>4. CASE at = "farewell"
  <2>1. CASE Len(queue) = 1
    <3>1. ~responder' /\ wire' = wire
      BY <1>1, <1>2, <1>4, <2>1 DEF Respond, Follows, StopLast
    <3> QED
      BY <1>2, <1>4, <2>1, <3>1 DEF Follows, StopLast, CallbackKnows, WayOutKnows, Callback
  <2>2. CASE Len(queue) > 1
    <3>1. queue[1] # Stop
      BY <1>1, <1>2, <1>4, <2>2 DEF Follows, StopLast
    <3>2. responder' = responder /\ wire' = queue[1]
      BY <1>1, <3>1 DEF Respond
    <3>3. StopLast'
      BY <1>1, <1>2, <1>4, <2>2, <3>2 DEF Follows, StopLast
    <3>4. ASSUME lost = {} PROVE /\ Len(queue') = 1 => wire' = None
                                 /\ Len(queue') > 1 => queue'[Len(queue') - 1] = None
      BY <1>1, <1>2, <1>4, <2>2, <3>2, <3>4 DEF Follows, WayOutKnows
    <3> QED
      BY <1>2, <1>4, <3>2, <3>3, <3>4 DEF Follows, CallbackKnows, WayOutKnows, Callback
  <2> QED
    BY <1>1, <2>1, <2>2
<1> QED
  BY <1>3, <1>4

\* Every step follows.
LEMMA FollowsNext == TypeOK /\ Follows /\ [AdvertiseNext]_allvars => Follows'
<1>1. Follows /\ UNCHANGED <<told, phase, at, published, queue, wire, responder, lost>>
        => Follows'
  BY DEF Follows, StopLast, CallbackKnows, WayOutKnows, EndsIn, Callback
<1>2. Moves \/ Interrupt \/ UNCHANGED allvars
        => UNCHANGED <<told, phase, at, published, queue, wire, responder, lost>>
  BY DEF Moves, Move, Interrupt, allvars, feed, daemon
<1> QED
  BY <1>1, <1>2, FollowsTold, FollowsCallback, FollowsWayOut, FollowsRespond
     DEF AdvertiseNext, Steps, Loop

LEMMA Invariant == AdvertiseSpec => [](TypeOK /\ Follows)
<1>1. AdvertiseInit => TypeOK /\ Follows
  BY TypeInit, FollowsInit
<1>2. TypeOK /\ Follows /\ [AdvertiseNext]_allvars => (TypeOK /\ Follows)'
  BY TypeNext, FollowsNext
<1> QED
  BY <1>1, <1>2, PTL DEF AdvertiseSpec

(***************************************************************************)
(* advertise.rs:97-99, 117-126: between two reports, with nothing left in  *)
(* the responder's queue, the wire gives the answer last told, unless a    *)
(* withdrawal was refused.                                                 *)
(***************************************************************************)
THEOREM FollowsTheLoop == AdvertiseSpec => []WireFollows
<1>1. TypeOK /\ Follows => WireFollows
  <2> SUFFICES ASSUME TypeOK, Follows, at = "loop", phase = "open", queue = <<>>,
                      "command" \notin lost
               PROVE  wire = told
    BY DEF WireFollows
  <2>1. Len(queue) = 0
    BY EmptySeq
  <2>2. CASE told # None
    BY <2>1, <2>2 DEF Follows, CallbackKnows, EndsIn
  <2>3. CASE told = None
    BY <2>1, <2>3 DEF Follows, CallbackKnows, WayOutKnows, EndsIn, Callback
  <2> QED
    BY <2>2, <2>3
<1> QED
  BY <1>1, Invariant, PTL

(***************************************************************************)
(* docs/adr/0002:189-190: on every way out the record is withdrawn, unless *)
(* a command was refused, a wait ran out or a report failed.               *)
(***************************************************************************)
THEOREM NothingLeftOnTheWire == AdvertiseSpec => []WithdrawnOnExit
<1>1. TypeOK /\ Follows => WithdrawnOnExit
  BY DEF Follows, WayOutKnows, WithdrawnOnExit
<1> QED
  BY <1>1, Invariant, PTL

============================================================================
