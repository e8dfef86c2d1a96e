----------------------------- MODULE TaskScore -----------------------------
(* What one a-interact task promises, whatever happens on the way: a phase  *)
(* is credited when and only when it is accepted, once and in order, and a  *)
(* task is scored with what was accepted or voided without a score.         *)
EXTENDS Naturals

VARIABLES
    accepted,   \* the phases the DB service accepted
    reward,     \* what the task is credited with, in tenths
    verdict     \* "open", "scored" or "void"

vars == <<accepted, reward, verdict>>

Prize(p) == IF p = 1 THEN 7 ELSE 3

Init == accepted = {} /\ reward = 0 /\ verdict = "open"

\* Phase p passes: the second only after the first.
Accept(p) ==
    /\ verdict = "open"
    /\ p \notin accepted
    /\ p = 2 => 1 \in accepted
    /\ accepted' = accepted \cup {p}
    /\ reward' = reward + Prize(p)
    /\ UNCHANGED verdict

Conclude ==
    /\ verdict = "open"
    /\ verdict' \in {"scored", "void"}
    /\ UNCHANGED <<accepted, reward>>

Next == (\E p \in {1, 2} : Accept(p)) \/ Conclude

Spec == Init /\ [][Next]_vars
=============================================================================
