--------------------------- MODULE MCRentalBronze ---------------------------
(* Instances of RentalBronze for TLC; the constants are in the .cfg files. *)
EXTENDS RentalBronze
=============================================================================
