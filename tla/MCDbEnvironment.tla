-------------------------- MODULE MCDbEnvironment --------------------------
(* Small instances of DbEnvironment for TLC. *)
EXTENDS DbEnvironment, TLC

CONSTANTS r1, r2

AllTasks == [pre : BOOLEAN, followUp : BOOLEAN]
FollowUpTask == {[pre |-> FALSE, followUp |-> TRUE]}

Symmetry == Permutations(Req)
=============================================================================
