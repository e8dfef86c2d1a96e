-------------------------- MODULE GroundingLedger --------------------------
(***************************************************************************)
(* What the staged Grounding of a task promises (docs/architecture.md and  *)
(* _PhaseGroundingOutcome), without Provider calls, tools or Drafts: one   *)
(* verdict per phase, given once, on the formal State of that moment.  A   *)
(* phase that has its verdict leaves the State alone, the second phase     *)
(* begins only when the first has succeeded, and it keeps what the first   *)
(* one established.                                                        *)
(***************************************************************************)
EXTENDS Naturals

CONSTANTS
  States,     \* contents of the formal State
  Initial,    \* those the task begins with
  Complete,   \* those a phase may succeed on
  Preserves   \* pairs of a Phase 1 State and a Phase 2 State that keeps it

VARIABLES
  phase,      \* 1 or 2
  state,      \* the formal State
  verdict     \* of each phase: its status and the State it was given on

vars == <<phase, state, verdict>>

Init ==
  /\ phase = 1
  /\ state = Initial
  /\ verdict = [p \in 1..2 |-> [status |-> "none", state |-> Initial]]

Undecided == verdict[phase].status = "none"

Decide(status) ==
  /\ Undecided
  /\ verdict' = [verdict EXCEPT ![phase] = [status |-> status, state |-> state']]
  /\ UNCHANGED phase

Refine ==
  /\ Undecided
  /\ state' \in States
  /\ UNCHANGED <<phase, verdict>>

Accept ==
  /\ state' \in Complete
  /\ phase = 2 => <<verdict[1].state, state'>> \in Preserves
  /\ Decide("succeeded")

\* A rejection may roll the State back.
Reject == state' \in States /\ Decide("failed")

Advance ==
  /\ phase = 1 /\ verdict[1].status = "succeeded"
  /\ phase' = 2
  /\ UNCHANGED <<state, verdict>>

Next == Refine \/ Accept \/ Reject \/ Advance

Spec == Init /\ [][Next]_vars
=============================================================================
