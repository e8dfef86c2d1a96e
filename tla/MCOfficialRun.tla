--------------------------- MODULE MCOfficialRun ---------------------------
(* Three tasks, two configurations to start with, three starts. *)
EXTENDS OfficialRun
=============================================================================
