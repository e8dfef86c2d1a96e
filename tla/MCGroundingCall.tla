-------------------------- MODULE MCGroundingCall --------------------------
(* Small instances of GroundingCall for TLC. *)
EXTENDS GroundingCall

CONSTANTS a, b
=============================================================================
