---------------------------- MODULE MCCInteract ----------------------------
(* Two calls in a model turn, seven turns over all runs, one lost answer. *)
EXTENDS CInteract
=============================================================================
