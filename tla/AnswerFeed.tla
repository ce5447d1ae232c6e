----------------------------- MODULE AnswerFeed -----------------------------
(***************************************************************************)
(* What watch::observe promises its consumer, whatever it is built from:   *)
(* one opening report, then a report of every answer that differs from the *)
(* last one reported, each handled before the next, and nothing after the  *)
(* end.  The truth moves on its own; once it rests, the last report agrees *)
(* with it for good.                                                       *)
(***************************************************************************)
EXTENDS Option

CONSTANT Answers    \* what a report may say, "no address" included

VARIABLES
    truth,   \* the answer for the network as it is
    told,    \* the answer last reported
    phase    \* "opening", "open", "telling" or "ended"

vars == <<truth, told, phase>>

Init ==
    /\ truth \in Answers
    /\ told \in Answers
    /\ phase = "opening"

Move ==
    /\ truth' \in Answers
    /\ UNCHANGED <<told, phase>>

\* The opening report, then reports of what moved.
Tell(a) ==
    /\ phase = "opening" \/ (phase = "open" /\ a # told)
    /\ told' = a
    /\ phase' = "telling"
    /\ UNCHANGED truth

\* The consumer has taken the report.
Taken ==
    /\ phase = "telling"
    /\ phase' = "open"
    /\ UNCHANGED <<truth, told>>

End ==
    /\ phase # "ended"
    /\ phase' = "ended"
    /\ UNCHANGED <<truth, told>>

Next == Move \/ Taken \/ End \/ \E a \in Answers : Tell(a)

Safe == Init /\ [][Next]_vars

\* Once the truth rests, the consumer ends up knowing it.
CatchesUp ==
    <>[][FALSE]_truth => <>[](phase = "ended" \/ (phase = "open" /\ told = truth))

Spec == Safe /\ CatchesUp

============================================================================
