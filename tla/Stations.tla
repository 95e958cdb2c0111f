------------------------------- MODULE Stations -------------------------------
(***************************************************************************)
(* The two sources without a watermark: station_master and station_active. *)
(* The Bronze run of a day replaces that day's snapshot, its asset starts  *)
(* the Silver run, which takes the latest snapshot, and the sensors of     *)
(* gold_dim_fact look for the day among the directories of the Silver      *)
(* table.  A directory appears with the first data file of a write, before *)
(* Iceberg commits it.  Of each table only the latest date matters.        *)
(***************************************************************************)
EXTENDS Integers, FiniteSets

CONSTANTS
    StationTables,      \* station_master and station_active
    LastStationDay      \* bound: the last day looked at

ASSUME StationConstants == LastStationDay \in Nat \ {0}

VARIABLES
    stationDay,     \* the date
    stored,         \* by table: the latest snapshot in Bronze and whether it is sound
    published,      \* by table: an asset update or a retry Silver has still to take
    cleaning,       \* by table: the Silver run, what it has read
    listed,         \* by table: the latest directory of the Silver table
    committed,      \* by table: the latest date of the Silver table
    building        \* build_station_active: its date, the sensors that passed, and
                    \* what it wrote to gold.station_active, until the next run

stationVars == <<stationDay, stored, published, cleaning, listed, committed,
                 building>>

Never == [t \in StationTables |-> 0]
LaterDay(a, b) == IF a > b THEN a ELSE b
Unread == [pc |-> "idle", day |-> 0, sound |-> TRUE]
NoBuild == [pc |-> "idle", ds |-> 0, seen |-> {}, misled |-> {}, from |-> Never]

StationsInit ==
    /\ stationDay = 1
    /\ stored = [t \in StationTables |-> [day |-> 0, sound |-> TRUE]]
    /\ published = [t \in StationTables |-> FALSE]
    /\ cleaning = [t \in StationTables |-> Unread]
    /\ listed = Never /\ committed = Never
    /\ building = NoBuild

StationMidnight ==
    /\ stationDay < LastStationDay
    /\ stationDay' = stationDay + 1
    /\ UNCHANGED <<stored, published, cleaning, listed, committed, building>>

-----------------------------------------------------------------------------
(* Bronze: fetch_*_raw puts what the API says now under the date of the run *)
(* (today's, or an earlier one that is cleared), and daily_batch_* replaces *)
(* the partition.  An answer without rows is passed over, and the task ends *)
(* well; a task that fails changes nothing.                                 *)

Answers(ds) == [day : {ds}, sound : BOOLEAN]

TakeSnapshot(t, ds) ==
    /\ ds \in 1 .. stationDay
    /\ \/ UNCHANGED stored
       \/ \E answer \in Answers(ds) :
             /\ ds >= stored[t].day
             /\ stored' = [stored EXCEPT ![t] = answer]
    /\ published' = [published EXCEPT ![t] = TRUE]
    /\ UNCHANGED <<stationDay, cleaning, listed, committed, building>>

-----------------------------------------------------------------------------
(* Silver: silver_station_master and silver_station_active.                 *)

OnlyCleaning == UNCHANGED <<stationDay, stored, building>>

Reads(t) == [pc |-> "read", day |-> stored[t].day, sound |-> stored[t].sound]

ReadSnapshot(t) ==
    /\ cleaning[t].pc = "idle"
    /\ published[t]
    /\ published' = [published EXCEPT ![t] = FALSE]
    /\ cleaning' = IF stored[t].day = 0 THEN cleaning
                   ELSE [cleaning EXCEPT ![t] = Reads(t)]
    /\ UNCHANGED <<listed, committed>> /\ OnlyCleaning

(* A district nobody knows (master) or no station left (active) stops the   *)
(* run before it writes.                                                    *)
WriteFiles(t) ==
    /\ cleaning[t].pc = "read"
    /\ cleaning[t].sound
    /\ cleaning' = [cleaning EXCEPT ![t].pc = "written"]
    /\ listed' = [listed EXCEPT ![t] = LaterDay(@, cleaning[t].day)]
    /\ UNCHANGED <<published, committed>> /\ OnlyCleaning

CommitSnapshot(t) ==
    /\ cleaning[t].pc = "written"
    /\ cleaning' = [cleaning EXCEPT ![t] = Unread]
    /\ committed' = [committed EXCEPT ![t] = LaterDay(@, cleaning[t].day)]
    /\ UNCHANGED <<published, listed>> /\ OnlyCleaning

(* The run fails or is killed, and is tried again or given up.              *)
CleaningDies(t) ==
    /\ cleaning[t].pc # "idle"
    /\ cleaning' = [cleaning EXCEPT ![t] = Unread]
    /\ \E again \in BOOLEAN :
          published' = [published EXCEPT ![t] = @ \/ again]
    /\ UNCHANGED <<listed, committed>> /\ OnlyCleaning

-----------------------------------------------------------------------------
(* Gold: the run of a day, or one that is cleared later.                    *)

OnlyBuilding == UNCHANGED <<stationDay, stored, published, cleaning, listed,
                            committed>>

BuildBegins ==
    /\ building.pc # "wait"
    /\ \E ds \in 1 .. stationDay :
          building' = [NoBuild EXCEPT !.pc = "wait", !.ds = ds]
    /\ OnlyBuilding

\* Mutant: the offset of the rental history.
ArrivedYesterday(t, ds) == listed[t] >= ds - 1
(* check_silver_snapshot_date *)
Arrived(t, ds) == listed[t] >= ds

SensorPasses(t) ==
    /\ building.pc = "wait"
    /\ t \notin building.seen
    /\ Arrived(t, building.ds)
    /\ building' = [building EXCEPT
                      !.seen = @ \cup {t},
                      !.misled = @ \cup {u \in {t} : building.ds \in
                                              committed[u] + 1 .. listed[u]}]
    /\ OnlyBuilding

(* Each table is read by itself, after the sensors; what is committed only  *)
(* grows.                                                                   *)
BuildStationActive ==
    /\ building.pc = "wait"
    /\ building.seen = StationTables
    /\ building' = [building EXCEPT !.pc = "built", !.seen = {},
                                     !.from = committed]
    /\ OnlyBuilding

BuildGivesUp ==
    /\ building.pc = "wait"
    /\ building' = NoBuild
    /\ OnlyBuilding

-----------------------------------------------------------------------------
Cleaning == \E t \in StationTables :
    ReadSnapshot(t) \/ WriteFiles(t) \/ CommitSnapshot(t) \/ CleaningDies(t)

Building == \/ BuildBegins \/ BuildStationActive \/ BuildGivesUp
            \/ \E t \in StationTables : SensorPasses(t)

StationsNext ==
    \/ StationMidnight
    \/ \E t \in StationTables, ds \in 1 .. LastStationDay : TakeSnapshot(t, ds)
    \/ Cleaning
    \/ Building

StationsSpec == StationsInit /\ [][StationsNext]_stationVars

-----------------------------------------------------------------------------
(* Properties *)

(* The stations Gold has for a day come from snapshots of that day or later,*)
(* although the sensors look at directories, Silver takes whatever is the   *)
(* latest, a day may lack its snapshot and any run may be cleared; unless a *)
(* sensor looked while the files of a write were there and its commit was   *)
(* not (check_silver_snapshot_date.py takes the two for one).               *)
StationsAreOfTheDay ==
    building.pc = "built" =>
        \A t \in StationTables \ building.misled : building.from[t] >= building.ds
=============================================================================
