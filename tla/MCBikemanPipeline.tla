-------------------------- MODULE MCBikemanPipeline --------------------------
(* Instances of BikemanPipeline for TLC; the constants are in the .cfg files. *)
EXTENDS BikemanPipeline
=============================================================================
