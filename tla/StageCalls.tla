----------------------------- MODULE StageCalls -----------------------------
(***************************************************************************)
(* What the chains of Grounding take for granted of their Provider calls:  *)
(* an accepted stage spends one call of the task, or two when its Mapping  *)
(* was repaired and the second is counted as a repair, the calls never     *)
(* exceed the fuse, and a stage that is not accepted ends the chain with   *)
(* at most two more calls counted.  Grounding counts its calls in this way *)
(* (CountCalls, ProviderFails); GroundingCall is the code that does it.    *)
(***************************************************************************)
EXTENDS Naturals

CONSTANTS Tasks, MaxCalls

VARIABLES
  calls,    \* the counter of the task
  repairs,  \* those of them that were repairs
  live      \* the chain goes on

vars == <<calls, repairs, live>>

Init ==
  /\ calls = [t \in Tasks |-> 0]
  /\ repairs = [t \in Tasks |-> 0]
  /\ live = [t \in Tasks |-> TRUE]

Count(t, n, r) ==
  /\ live[t] /\ calls[t] + n <= MaxCalls
  /\ calls' = [calls EXCEPT ![t] = @ + n]
  /\ repairs' = [repairs EXCEPT ![t] = @ + r]

Accepted(t) ==
  /\ \E n \in 1..2 : Count(t, n, n - 1)
  /\ UNCHANGED live

Failed(t) ==
  /\ \E n \in 0..2, r \in 0..1 : r < n + 1 /\ Count(t, n, r)
  /\ live' = [live EXCEPT ![t] = FALSE]

Next == \E t \in Tasks : Accepted(t) \/ Failed(t)

Spec == Init /\ [][Next]_vars
=============================================================================
