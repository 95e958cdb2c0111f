------------------------- MODULE MCRentalDeployments -------------------------
(* Five deployments of RentalBronze, one of them chosen in the initial      *)
(* state, checked in one run.  Each is an instance of the specification     *)
(* with its own constants; the invariants are those of the module itself.   *)
EXTENDS RentalBronze_proofs

VARIABLE deployment

\* The morning observation of the day before is there as a fallback.
Recovery == INSTANCE RentalBronze WITH
    FirstDay <- 3, T0Enabled <- FALSE, FallbackEnabled <- TRUE,
    Active <- {"preliminary", "daily", "catchup"},
    ApiOutcomes <- {"COMPLETE", "INCOMPLETE"}

\* Three dates are waiting when the DAGs are switched on; the batches of the
\* catch-up hold two.
Backlog == INSTANCE RentalBronze WITH
    FirstDay <- 4, BatchSize <- 2, T0Enabled <- FALSE, FallbackEnabled <- TRUE,
    Active <- {"daily", "catchup"},
    ApiOutcomes <- {"COMPLETE", "INCOMPLETE"}

\* Empty dates and the operator who confirms them.
Operator == INSTANCE RentalBronze WITH
    FirstDay <- 2, T0Enabled <- FALSE, FallbackEnabled <- FALSE,
    Active <- {"daily", "operator"},
    ApiOutcomes <- {"COMPLETE", "COMPLETE_EMPTY"}

\* The same with two dates waiting, and the Silver job behind.
Followed == INSTANCE RentalBronze WITH
    FirstDay <- 3, T0Enabled <- FALSE, FallbackEnabled <- FALSE,
    Active <- {"daily", "operator", "silver"},
    ApiOutcomes <- {"COMPLETE", "COMPLETE_EMPTY"}

\* The date of the run itself is collected too.
SameDay == INSTANCE RentalBronze WITH
    FirstDay <- 2, T0Enabled <- TRUE, FallbackEnabled <- TRUE,
    Active <- {"daily", "catchup"},
    ApiOutcomes <- {"COMPLETE", "INCOMPLETE"}

DeploymentsInit ==
    \/ deployment = "recovery" /\ Recovery!Init
    \/ deployment = "backlog" /\ Backlog!Init
    \/ deployment = "operator" /\ Operator!Init
    \/ deployment = "followed" /\ Followed!Init
    \/ deployment = "sameday" /\ SameDay!Init

\* Bound: the day on which the clock of a deployment stops.
ClockStops == deployment # "backlog" => today' <= 3

DeploymentsNext ==
    /\ \/ deployment = "recovery" /\ Recovery!Next
       \/ deployment = "backlog" /\ Backlog!Next
       \/ deployment = "operator" /\ Operator!Next
       \/ deployment = "followed" /\ Followed!Next
       \/ deployment = "sameday" /\ SameDay!Next
    /\ ClockStops
    /\ UNCHANGED deployment

DeploymentsSpec ==
    DeploymentsInit /\ [][DeploymentsNext]_<<vars, deployment>>
=============================================================================
