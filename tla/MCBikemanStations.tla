-------------------------- MODULE MCBikemanStations --------------------------
(* The small daily sources, which share no state, checked in one run: the   *)
(* initial state chooses between the bikeman events and the stations, the   *)
(* other source stays as it is.                                             *)
EXTENDS BikemanPipeline, Stations

VARIABLE source

SourcesInit == source \in {"bikeman", "stations"} /\ Init /\ StationsInit

SourcesNext ==
    /\ \/ source = "bikeman" /\ Next /\ UNCHANGED stationVars
       \/ source = "stations" /\ StationsNext /\ UNCHANGED vars
    /\ UNCHANGED source

SourcesSpec == SourcesInit /\ [][SourcesNext]_<<source, vars, stationVars>>
=============================================================================
