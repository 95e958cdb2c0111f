--------------------------- MODULE MCFailureReport ---------------------------
(* Instances of FailureReport for TLC; the constants are in the .cfg files. *)
EXTENDS FailureReport
=============================================================================
