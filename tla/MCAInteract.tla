---------------------------- MODULE MCAInteract ----------------------------
(* Instances of one a-interact task for TLC: eight to ten coins, two or three *)
(* paid submissions, and a few model turns instead of the repository's cap.   *)
EXTENDS AInteract
=============================================================================
