---------------------------- MODULE MCGrounding ----------------------------
(* Small instances of Grounding for TLC. *)
EXTENDS Grounding, TLC

CONSTANTS t1, c1

OneTable == (c1 :> t1)
=============================================================================
