------------------------------ MODULE GoldState ------------------------------
(***************************************************************************)
(* gold_dim_fact: what Gold knows of a bike.  build_dim_bike writes down    *)
(* the day a bike was first rented on, build_bike_location keeps its last   *)
(* return as a baseline to which each run adds a delta, and                 *)
(* build_fact_station_inventory does the same with its last COLLECT or      *)
(* DEPLOY and counts the bike where the later of the two puts it.           *)
(* Runs are missed, given up, retried, and cleared on a later day; one is   *)
(* at work at a time.  A place is the event that brought the bike there.    *)
(***************************************************************************)
EXTENDS Integers, FiniteSets, FiniteSetsExt

CONSTANTS
    Fleet,
    Rides,      \* bound: the returns [bike, at] that may happen
    Actions,    \* bound: the events [bike, at, type] of the field workers
    ColdStart,  \* COLD_START_LOOKBACK_DAYS
    DimCaps,    \* what an operator may put into max_days_per_run, 0: nothing
    StartDay,   \* the first day of the DAG
    EndDay      \* bound: the day on which the clock stops

\* A day has two times, an odd one in the morning and an even one.
DayOf(time) == (time + 1) \div 2

ASSUME GoldConstants ==
    /\ {ColdStart, StartDay, EndDay} \subseteq Nat \ {0} /\ DimCaps \subseteq Nat
    /\ \A e \in Rides \cup Actions : e.bike \in Fleet /\ e.at \in 1 .. 2 * EndDay
    /\ \A e \in Actions : e.type \in {"COLLECT", "DEPLOY"}

VARIABLES
    date,
    rides, actions, \* what happens
    rentals,        \* silver.rental_history: rows, watermark
    actionsTo,      \* the watermark of silver.bikeman_action
    run,            \* the DagRun: its ds, what it has left, is it a whole one
    dim, dimTo,     \* gold.dim_bike: bike and day; its watermark
    dimJob,         \* build_dim_bike at work: end of its range, partitions left
    location,       \* gold.bike_location: last return, snapshot_date
    lastAction,     \* gold.bike_last_action
    inventory       \* by bike: the event it is counted after

goldVars == <<date, rides, actions, rentals, actionsTo, run, dim, dimTo,
              dimJob, location, lastAction, inventory>>

Nothing == [at |-> 0]
Empty == [last |-> [b \in Fleet |-> Nothing], snapshot |-> 0]
NoJob == [end |-> 0, rest |-> {}]
All == {"dim", "location", "inventory"}

GoldInit ==
    /\ date = StartDay
    /\ rides \in SUBSET Rides
    /\ actions \in SUBSET Actions
    /\ rentals = [rows |-> {}, to |-> 0]
    /\ actionsTo = 0
    /\ run = [ds |-> 0, left |-> {}, acted |-> FALSE, whole |-> FALSE]
    /\ dim = {} /\ dimTo = 0 /\ dimJob = NoJob
    /\ location = Empty /\ lastAction = Empty
    /\ inventory = [b \in Fleet |-> Nothing]

-----------------------------------------------------------------------------
(* Silver.  A day whose T0 load was promoted is there in part.              *)

OnlySilver == UNCHANGED <<date, rides, actions, run, dim, dimTo, dimJob,
                          location, lastAction, inventory>>

SilverDay ==
    /\ rentals.to < date - 1
    /\ rentals' = [rows |-> rentals.rows \cup {r \in rides : DayOf(r.at) = rentals.to + 1},
                   to |-> rentals.to + 1]
    /\ UNCHANGED actionsTo /\ OnlySilver

SilverSameDay ==
    /\ rentals' = [rentals EXCEPT !.rows = @ \cup {r \in rides : r.at = 2 * date - 1}]
    /\ UNCHANGED actionsTo /\ OnlySilver

SilverActions ==
    /\ actionsTo < date - 1
    /\ actionsTo' = actionsTo + 1
    /\ UNCHANGED rentals /\ OnlySilver

Tomorrow ==
    /\ date < EndDay
    /\ date' = date + 1
    /\ UNCHANGED <<rides, actions, rentals, actionsTo, run, dim, dimTo, dimJob,
                   location, lastAction, inventory>>

-----------------------------------------------------------------------------
(* The DagRun.                                                              *)

OnlyRun == UNCHANGED <<date, rides, actions, rentals, actionsTo, dim, dimTo,
                       location, lastAction, inventory>>

(* A scheduled run, or a run that is cleared as a whole; of a run that has   *)
(* been through, tasks may be cleared one by one.                           *)
StartRun ==
    /\ run.left = {}
    /\ \E ds \in StartDay .. date, cleared \in SUBSET All \ {{}} :
          /\ cleared # All => ds <= location.snapshot
          /\ run' = [ds |-> ds, left |-> cleared, acted |-> FALSE,
                     whole |-> {"location", "inventory"} \subseteq cleared]
    /\ UNCHANGED dimJob /\ OnlyRun

\* The retries are used up, or a sensor has waited too long.
RunGivesUp ==
    /\ run.left # {}
    /\ run' = [run EXCEPT !.left = {}, !.whole = FALSE]
    /\ dimJob' = NoJob
    /\ OnlyRun

Done(task) == [run EXCEPT !.left = @ \ {task}]

\* wait_for_silver_rental_history, wait_for_silver_bikeman_action
RentalsReady == rentals.to >= run.ds - 1
ActionsReady == actionsTo >= run.ds - 1

-----------------------------------------------------------------------------
(* build_dim_bike commits one partition after the other.                    *)

OnlyDim == UNCHANGED <<date, rides, actions, rentals, actionsTo, location,
                       lastAction, inventory>>

FirstSeen(rows, bike) ==
    [bike |-> bike, day |-> Min({DayOf(r.at) : r \in {r \in rows : r.bike = bike}})]

\* Mutant: every bike of the range, known or not.
SeenBikes(rows) == {FirstSeen(rows, b) : b \in {r.bike : r \in rows}}
\* _compute_new_bikes
NewBikes(rows) ==
    {FirstSeen(rows, b) : b \in {r.bike : r \in rows} \ {known.bike : known \in dim}}

RangeEnd(cap) ==
    IF cap = 0 THEN rentals.to ELSE Min({rentals.to, dimTo + cap})

DimRead ==
    /\ "dim" \in run.left /\ RentalsReady
    /\ dimJob = NoJob
    /\ \E cap \in DimCaps :
          LET end == RangeEnd(cap)
              new == NewBikes({r \in rentals.rows : DayOf(r.at) \in dimTo + 1 .. end})
          IN IF new = {}
             THEN /\ dimTo' = Max({dimTo, end})
                  /\ run' = Done("dim")
                  /\ UNCHANGED dimJob
             ELSE /\ dimJob' = [end |-> end, rest |-> new]
                  /\ UNCHANGED <<dimTo, run>>
    /\ UNCHANGED dim /\ OnlyDim

DimCommit ==
    /\ dimJob.rest # {}
    /\ LET day == Min({n.day : n \in dimJob.rest})
           chunk == {n \in dimJob.rest : n.day = day}
       IN /\ dim' = {known \in dim : known.day # day} \cup chunk
          /\ dimJob' = [dimJob EXCEPT !.rest = @ \ chunk]
    /\ UNCHANGED <<run, dimTo>> /\ OnlyDim

\* _validate_dim_bike, and the watermark when it passes.
DimEnds ==
    /\ dimJob # NoJob /\ dimJob.rest = {}
    /\ Cardinality({known.bike : known \in dim}) = Cardinality(dim)
    /\ dimTo' = dimJob.end
    /\ dimJob' = NoJob
    /\ run' = Done("dim")
    /\ UNCHANGED dim /\ OnlyDim

\* The task is tried again.
DimDies ==
    /\ dimJob # NoJob
    /\ dimJob' = NoJob
    /\ UNCHANGED <<run, dim, dimTo>> /\ OnlyDim

-----------------------------------------------------------------------------
(* Baseline and delta: build_bike_location and build_bike_last_action.      *)

Newest(events, bike) ==
    LET mine == {e \in events : e.bike = bike}
    IN IF mine = {} THEN Nothing ELSE CHOOSE e \in mine : \A f \in mine : f.at <= e.at

(* The later event of a bike; a table without rows has no snapshot_date.     *)
Merged(table, delta, ds) ==
    LET last == [b \in Fleet |->
                    LET d == Newest(delta, b)
                    IN IF d.at > table.last[b].at THEN d ELSE table.last[b]]
    IN [last |-> last,
        snapshot |-> IF \A b \in Fleet : last[b] = Nothing THEN 0 ELSE ds]

\* Mutant: the day of the last snapshot counts as read.
DeltaStartAfter(end) ==
    IF location.snapshot = 0 THEN end - (ColdStart - 1) ELSE location.snapshot + 1
\* _effective_delta_start
DeltaStart(end) ==
    IF location.snapshot = 0 THEN end - (ColdStart - 1) ELSE location.snapshot

OnlyTables == UNCHANGED <<date, rides, actions, rentals, actionsTo, dim, dimTo, dimJob>>

\* The flag RENTAL_HISTORY_T0_ENABLED may be changed between two runs.
BuildLocation ==
    /\ "location" \in run.left /\ RentalsReady
    /\ \E t0 \in BOOLEAN :
          LET end == IF t0 THEN run.ds ELSE run.ds - 1
              delta == {r \in rentals.rows : DayOf(r.at) \in DeltaStart(end) .. end}
          IN location' = Merged(location, delta, run.ds)
    /\ run' \in {run, Done("location")}  \* the answer is lost or not
    /\ UNCHANGED <<lastAction, inventory>> /\ OnlyTables

\* The first half of build_fact_station_inventory, with a commit of its own.
BuildLastActions ==
    /\ "inventory" \in run.left /\ "location" \notin run.left
    /\ ActionsReady
    /\ LET known == {a \in actions : DayOf(a.at) <= actionsTo}
           delta == {a \in known : DayOf(a.at) \in lastAction.snapshot .. run.ds - 1}
       IN lastAction' = Merged(lastAction, delta, run.ds)
    /\ run' = [run EXCEPT !.acted = TRUE]
    /\ UNCHANGED <<location, inventory>> /\ OnlyTables

(* _RESOLVE_SQL: the action when it is later than the return.  A bike that   *)
(* was never returned is not counted, one that was collected neither.       *)
Resolved(bike) ==
    LET return == location.last[bike]
        action == lastAction.last[bike]
    IN IF return # Nothing /\ action.at > return.at THEN action ELSE return

BuildInventory ==
    /\ "inventory" \in run.left /\ run.acted
    /\ inventory' = [b \in Fleet |-> Resolved(b)]
    /\ run' = Done("inventory")
    /\ UNCHANGED <<location, lastAction>> /\ OnlyTables

-----------------------------------------------------------------------------
SilverSteps == SilverDay \/ SilverSameDay \/ SilverActions

DimSteps == DimRead \/ DimCommit \/ DimEnds \/ DimDies

GoldNext == \/ SilverSteps \/ Tomorrow \/ StartRun \/ RunGivesUp \/ DimSteps
            \/ BuildLocation \/ BuildLastActions \/ BuildInventory

GoldSpec == GoldInit /\ [][GoldNext]_goldVars

-----------------------------------------------------------------------------
(* Properties *)

(* gold.dim_bike holds no bike twice, and every bike that was rented on a    *)
(* day its watermark has passed, with the first of these days, wherever a    *)
(* run of several days died between its commits (build_dim_bike.py:11-17).  *)
EachBikeOnce ==
    \A b \in Fleet :
        LET known == {row \in dim : row.bike = b}
            rented == {r \in rides : r.bike = b /\ DayOf(r.at) <= dimTo}
        IN /\ Cardinality(known) <= 1
           /\ rented # {} => known = {FirstSeen(rented, b)}

(* When a run has been through, every bike is counted after an event that   *)
(* no return and no action before its snapshot date is later than; and if   *)
(* it is the run of the day, every bike that was returned in the days a     *)
(* first run would look back at is counted.  This whatever runs were        *)
(* missed, given up, repeated or cleared out of order before                *)
(* (build_bike_location.py:10-27).                                          *)
InventoryShowsLatest ==
    run.whole /\ run.left = {} =>
        \A b \in Fleet :
            /\ inventory[b] # Nothing =>
                  \A e \in rides \cup actions :
                      e.bike = b /\ DayOf(e.at) < run.ds => e.at <= inventory[b].at
            /\ run.ds = date =>
                  \A r \in rides :
                      r.bike = b /\ DayOf(r.at) \in run.ds - ColdStart + 1 .. run.ds - 1
                      => inventory[b] # Nothing
=============================================================================
