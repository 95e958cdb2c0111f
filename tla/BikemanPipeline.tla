--------------------------- MODULE BikemanPipeline ---------------------------
(***************************************************************************)
(* The events of the field workers (bikeman) on their way from Postgres to *)
(* Bronze, Silver and gold.bike_last_action.  Workers submit from offline  *)
(* devices, so an event may be received days after it occurred; every      *)
(* layer therefore re-reads a few days behind its watermark and replaces   *)
(* whole date partitions.                                                  *)
(*                                                                         *)
(*   daily_batch_bikeman_event   Postgres -> Bronze, one watermark put at  *)
(*                               the end of the run                        *)
(*   silver_bikeman_action       Bronze -> Silver, one watermark put a day *)
(*   build_fact_station_inventory  Silver -> last action of each bike, as  *)
(*                               baseline plus delta                       *)
(*                                                                         *)
(* Reading a partition and committing it are separate steps, so that       *)
(* events arrive and the other layer commits in between.                   *)
(***************************************************************************)
EXTENDS Integers, FiniteSetsExt

CONSTANTS
    Bikes,
    EventDays,       \* the dates on which events may occur
    LastDay,         \* the horizon: dates 1 .. LastDay, 1 = SERVICE_START_DATE
    FirstDay,        \* the date on which the DAGs are switched on
    MaxDelay,        \* days from occurred_at to received_at, at most
    Lookback,        \* LOOKBACK_DAYS of both jobs
    MaxDays,         \* MAX_DAYS_PER_RUN of the Bronze job, 0 when not given
    RunLag,          \* midnights a run or a pending asset may live through
    SnapshotLag      \* days from the ds of the Gold run to the date it runs on

Dates == 1 .. LastDay

ASSUME HorizonAssumption == LastDay \in Nat /\ FirstDay \in Dates
ASSUME EventAssumption == EventDays \subseteq Dates /\ MaxDelay \in Nat
ASSUME WindowAssumption ==
    Lookback \in Nat \ {0} /\ MaxDays \in Nat /\ RunLag \in Nat /\ SnapshotLag \in Nat

(* An event is identified by its bike and the date it occurred on.         *)
Events == [bike : Bikes, day : EventDays]
NoEvent(b) == [bike |-> b, day |-> 0]

VARIABLES
    today,        \* the date in Seoul
    received,     \* date of received_at in bikeman.fact_worker_event, 0: not there
    bronze,       \* rows of bronze.bikeman_event
    bronzeWm,     \* the Bronze watermark
    bronzeRun,    \* the run of daily_batch_bikeman_event
    asset,        \* date of a pending update of BIKEMAN_EVENT_BRONZE, 0: none
    silver,       \* rows of silver.bikeman_action
    silverWm,     \* the Silver watermark
    silverRun,    \* the run of silver_bikeman_action
    lastAction,   \* gold.bike_last_action: the latest event of each bike
    snapshot      \* its snapshot_date, 0: empty

bronzeVars == <<bronze, bronzeWm, bronzeRun>>
silverVars == <<silver, silverWm, silverRun>>
goldVars == <<lastAction, snapshot>>
vars == <<today, received, bronzeVars, asset, silverVars, goldVars>>

NoRun == [pc |-> "idle", run |-> 0, next |-> 1, last |-> 0, rows |-> {}]
NewRun(date) == [pc |-> "read", run |-> date, next |-> 1, last |-> 0, rows |-> {}]

Later(a, b) == IF a < b THEN b ELSE a
Earlier(a, b) == IF a < b THEN a ELSE b

OfDay(rows, d) == {e \in rows : e.day = d}
(* overwrite_partition: the partition of date d becomes rows.  A day       *)
(* without rows is left alone by every caller.                             *)
Overwritten(tab, d, rows) ==
    IF rows = {} THEN tab ELSE {e \in tab : e.day # d} \cup rows

(* Events of the days before the DAGs were switched on may be there        *)
(* already.                                                                *)
Init ==
    /\ today = FirstDay
    /\ received \in [Events -> {0} \cup EventDays]
    /\ \A e \in Events : received[e] # 0 => received[e] = e.day /\ e.day < FirstDay
    /\ bronze = {}
    /\ bronzeWm = 0
    /\ bronzeRun = NoRun
    /\ asset = 0
    /\ silver = {}
    /\ silverWm = 0
    /\ silverRun = NoRun
    /\ lastAction = [b \in Bikes |-> NoEvent(b)]
    /\ snapshot = 0

Prompt(date) == date = 0 \/ today < date + RunLag

(* Midnight; RunLag bounds how long runs and asset updates may linger.     *)
Midnight ==
    /\ today < LastDay
    /\ bronzeRun.pc # "idle" => Prompt(bronzeRun.run)
    /\ Prompt(asset)
    /\ today' = today + 1
    /\ UNCHANGED <<received, bronzeVars, asset, silverVars, goldVars>>

(* The device of a worker submits an event, at once or days later.         *)
Receive(e) ==
    /\ received[e] = 0
    /\ e.day <= today
    /\ today <= e.day + MaxDelay
    /\ received' = [received EXCEPT ![e] = today]
    /\ UNCHANGED <<today, bronzeVars, asset, silverVars, goldVars>>

-----------------------------------------------------------------------------
(* daily_batch_bikeman_event *)

\* Mutant: the lookback counts from the first new date.
BronzeStartFromNew(wm) == Later(1, wm + 1 - (Lookback - 1))

\* Mutant: the window is not cut at the start of the service.
BronzeStartUnclamped(wm) == wm - (Lookback - 1)

BronzeWindowStart(wm) == Later(1, wm - (Lookback - 1))

BronzeWindowEnd(wm, run) ==
    IF MaxDays = 0 THEN run - 1
    ELSE Earlier(run - 1, BronzeWindowStart(wm) + MaxDays - 1)

(* A scheduled or manual DagRun; the DAG has max_active_runs = 1.          *)
BronzeStart ==
    /\ bronzeRun.pc = "idle"
    /\ bronzeRun' = NewRun(today)
    /\ UNCHANGED <<today, received, bronze, bronzeWm, asset, silverVars, goldVars>>

(* The watermark is read and the window fixed.  An empty window ends the   *)
(* task with success.                                                      *)
BronzeRead ==
    /\ bronzeRun.pc = "read"
    /\ LET first == BronzeWindowStart(bronzeWm)
           last == BronzeWindowEnd(bronzeWm, bronzeRun.run)
       IN  bronzeRun' = IF first > last
                        THEN [bronzeRun EXCEPT !.pc = "publish"]
                        ELSE [bronzeRun EXCEPT !.pc = "fetch", !.next = first,
                                               !.last = last]
    /\ UNCHANGED <<today, received, bronze, bronzeWm, asset, silverVars, goldVars>>

BronzeFetch ==
    /\ bronzeRun.pc = "fetch"
    /\ bronzeRun' = [bronzeRun EXCEPT !.pc = "commit",
          !.rows = {e \in Events : e.day = bronzeRun.next /\ received[e] # 0}]
    /\ UNCHANGED <<today, received, bronze, bronzeWm, asset, silverVars, goldVars>>

BronzeCommit ==
    /\ bronzeRun.pc = "commit"
    /\ bronze' = Overwritten(bronze, bronzeRun.next, bronzeRun.rows)
    /\ bronzeRun' = [bronzeRun EXCEPT
          !.pc = IF bronzeRun.next < bronzeRun.last THEN "fetch" ELSE "mark",
          !.next = @ + 1, !.rows = {}]
    /\ UNCHANGED <<today, received, bronzeWm, asset, silverVars, goldVars>>

(* One put of the watermark after the whole window.                        *)
BronzeMark ==
    /\ bronzeRun.pc = "mark"
    /\ bronzeWm' = bronzeRun.last
    /\ bronzeRun' = [bronzeRun EXCEPT !.pc = "publish"]
    /\ UNCHANGED <<today, received, bronze, asset, silverVars, goldVars>>

(* The task succeeds: its outlet is updated.                               *)
BronzePublish ==
    /\ bronzeRun.pc = "publish"
    /\ asset' = today
    /\ bronzeRun' = NoRun
    /\ UNCHANGED <<today, received, bronze, bronzeWm, silverVars, goldVars>>

(* The process dies, or Postgres does; the task is retried from its start  *)
(* or has no retries left.                                                 *)
BronzeDies ==
    /\ bronzeRun.pc \notin {"idle", "read"}
    /\ \/ bronzeRun' = NewRun(bronzeRun.run)
       \/ bronzeRun' = NoRun
    /\ UNCHANGED <<today, received, bronze, bronzeWm, asset, silverVars, goldVars>>

BronzeNext ==
    \/ BronzeStart \/ BronzeRead \/ BronzeFetch \/ BronzeCommit \/ BronzeMark
    \/ BronzePublish \/ BronzeDies

-----------------------------------------------------------------------------
(* silver_bikeman_action.  The DAG gives no MAX_DAYS_PER_RUN.              *)

\* Mutant: the lookback includes the first new date.
SilverStartFromNew(wm) == Later(1, wm + 2 - Lookback)

SilverWindowStart(wm) == Later(1, wm + 1 - Lookback)

(* The asset update starts a run that takes its date from the moment it is *)
(* created.                                                                *)
SilverStart ==
    /\ silverRun.pc = "idle"
    /\ asset # 0
    /\ asset' = 0
    /\ silverRun' = NewRun(today)
    /\ UNCHANGED <<today, received, bronzeVars, silver, silverWm, goldVars>>

(* _processing_window: nothing to do only when the watermark lies in the   *)
(* future of the run.                                                      *)
SilverRead ==
    /\ silverRun.pc = "read"
    /\ LET first == SilverWindowStart(silverWm)
           last == silverRun.run - 1
       IN  silverRun' = IF silverWm > last \/ first > last
                        THEN NoRun
                        ELSE [silverRun EXCEPT !.pc = "scan", !.next = first,
                                               !.last = last]
    /\ UNCHANGED <<today, received, bronzeVars, asset, silver, silverWm, goldVars>>

SilverScan ==
    /\ silverRun.pc = "scan"
    /\ silverRun' = [silverRun EXCEPT !.pc = "commit",
                                      !.rows = OfDay(bronze, silverRun.next)]
    /\ UNCHANGED <<today, received, bronzeVars, asset, silver, silverWm, goldVars>>

SilverCommit ==
    /\ silverRun.pc = "commit"
    /\ silver' = Overwritten(silver, silverRun.next, silverRun.rows)
    /\ silverRun' = [silverRun EXCEPT !.pc = "mark", !.rows = {}]
    /\ UNCHANGED <<today, received, bronzeVars, asset, silverWm, goldVars>>

(* The watermark follows day by day, from the first new date on; a day     *)
(* without Bronze rows has passed like any other.                          *)
SilverMark ==
    /\ silverRun.pc = "mark"
    /\ silverWm' = Later(silverWm, silverRun.next)
    /\ silverRun' = IF silverRun.next < silverRun.last
                    THEN [silverRun EXCEPT !.pc = "scan", !.next = @ + 1]
                    ELSE NoRun
    /\ UNCHANGED <<today, received, bronzeVars, asset, silver, goldVars>>

SilverDies ==
    /\ silverRun.pc \notin {"idle", "read"}
    /\ \/ silverRun' = NewRun(silverRun.run)
       \/ silverRun' = NoRun
    /\ UNCHANGED <<today, received, bronzeVars, asset, silver, silverWm, goldVars>>

SilverNext ==
    \/ SilverStart \/ SilverRead \/ SilverScan \/ SilverCommit \/ SilverMark
    \/ SilverDies

-----------------------------------------------------------------------------
(* build_fact_station_inventory, the incremental last action of each bike. *)

\* Mutant: the delta is fixed to the day before the snapshot.
DeltaOfYesterday(s) == {e \in silver : e.day = s - 1}

(* The dates from the previous snapshot to the day before this one.        *)
Delta(s) == {e \in silver : snapshot <= e.day /\ e.day <= s - 1}

Newest(rows, b) ==
    LET days == {e.day : e \in {r \in rows : r.bike = b}}
    IN  IF days = {} THEN NoEvent(b) ELSE [bike |-> b, day |-> Max(days)]

(* The sensor wait_for_silver_bikeman_action wants the Silver watermark at *)
(* the day before the snapshot.  Days may be skipped and runs repeated.    *)
BuildLastAction ==
    /\ \E s \in Dates :
          /\ s = today - SnapshotLag
          /\ silverWm >= s - 1
          /\ lastAction' = [b \in Bikes |->
                LET delta == Newest(Delta(s), b)
                IN  IF delta.day > lastAction[b].day THEN delta ELSE lastAction[b]]
          /\ snapshot' = s
    /\ UNCHANGED <<today, received, bronzeVars, asset, silverVars>>

-----------------------------------------------------------------------------
Next ==
    \/ Midnight
    \/ \E e \in Events : Receive(e)
    \/ BronzeNext
    \/ SilverNext
    \/ BuildLastAction

Spec == Init /\ [][Next]_vars

-----------------------------------------------------------------------------
(* Properties *)

BronzeRuns ==
    [pc : {"idle", "read", "fetch", "commit", "mark", "publish"},
     run : Nat, next : Nat, last : Nat, rows : SUBSET Events]
SilverRuns ==
    [pc : {"idle", "read", "scan", "commit", "mark"},
     run : Nat, next : Nat, last : Nat, rows : SUBSET Events]

(* Every variable stays in its domain.                                     *)
TypeOK ==
    /\ today \in Nat
    /\ received \in [Events -> Nat]
    /\ bronze \subseteq Events
    /\ bronzeWm \in Nat
    /\ bronzeRun \in BronzeRuns
    /\ asset \in Nat
    /\ silver \subseteq Events
    /\ silverWm \in Nat
    /\ silverRun \in SilverRuns
    /\ lastAction \in [Bikes -> [bike : Bikes, day : Nat]]
    /\ snapshot \in Nat

(* A late event is not lost: once the Bronze watermark has reached the     *)
(* date on which it was received, Bronze holds it, whichever runs died and *)
(* were retried (daily_batch_bikeman_event.py:8-14).                       *)
LateEventsReachBronze ==
    \A e \in Events : received[e] # 0 /\ received[e] <= bronzeWm => e \in bronze

(* What Bronze has and Silver lacks lies in the window that the next       *)
(* Silver run reads, so every correction is propagated in the end          *)
(* (silver_bikeman_action.py:366-372).                                     *)
CorrectionsWithinReach ==
    \A e \in bronze \ silver : e.day >= SilverWindowStart(silverWm)

(* A Bronze run that has new dates to process moves the watermark forward: *)
(* the rest of a backlog is left to the runs of the next days              *)
(* (bronze_daily_batch_all_sources_dag.py:27-29).                          *)
BacklogShrinks ==
    [][bronzeRun.pc = "mark" /\ bronzeRun'.pc = "publish" /\ bronzeWm < bronzeRun.run - 1
       => bronzeWm < bronzeWm']_vars

(* An event that was received on its day is in the baseline once the       *)
(* snapshot is past it, whichever Gold runs were skipped or repeated and   *)
(* whichever Silver run came first (build_fact_station_inventory.py:37-43).*)
PunctualEventsReachBaseline ==
    \A e \in silver :
        e.day < snapshot /\ received[e] = e.day => e.day <= lastAction[e.bike].day

(* The last action of a bike is at least as new as every Silver event of   *)
(* the bike before the snapshot date                                       *)
(* (build_fact_station_inventory.py:275-277).                              *)
BaselineIsComplete ==
    \A e \in silver : e.day < snapshot => e.day <= lastAction[e.bike].day
=============================================================================
