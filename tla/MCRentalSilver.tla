---------------------------- MODULE MCRentalSilver ----------------------------
(* Instances of RentalSilver for TLC; the constants are in the .cfg files.   *)
EXTENDS RentalSilver_proofs
=============================================================================
