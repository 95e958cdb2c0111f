# Verification of the WaitForDdaman pipeline

TLA+ models of the data pipeline behind the collection of risky public bikes:
Airflow DAGs that bring rental history, failure reports, station data and the
events of the field workers from their sources through Raw, Bronze, Silver and
Gold to a serving database. The models are about control: which process may
write which watermark, partition or document, in which order, and what happens
when a run dies, is repeated, is late, or meets another one. What a row contains
is abstracted to what the properties distinguish.

- [Parts of the system](#parts-of-the-system)
- [Modules and how they correspond to the code](#modules-and-how-they-correspond-to-the-code)
- [Runs](#runs)
- [Bounds](#bounds), [fairness](#fairness)
- [Proofs](#proofs)
- [What the checks found](#what-the-checks-found)
- [What is not modelled](#what-is-not-modelled)
- [Plan](#plan)

Model-check a run with `tlc -config RentalSilver.cfg MCRentalSilver.tla`,
check proofs with `tlapm RentalBronze_proofs.tla`. `PROJECT.json` lists every run,
the source lines each definition stands for, and for each checked property a
mutated definition under which the property fails.

## Parts of the system

All parts share three stores: an object store (Raw payloads and manifests,
selection, promotion and completion documents, one JSON file per watermark),
Iceberg tables (one atomic commit per write), and Postgres (events of the field
workers, serving marts). There are no locks. Concurrency control is
`max_active_runs = 1` per DAG and one-slot pools; two DAGs that write the same
watermark or table are not excluded from each other.

| part | state it keeps | operations | hard behaviour | what makes it correct |
|---|---|---|---|---|
| rental history collection (`collect_rental_history_raw`, `raw_preliminary_dag`) | Raw payload and manifest per (date, run, collector) | collect a window, reuse a COMPLETE manifest | retry or clear over the same key, three collectors | what was promoted is never replaced; no promotion without COMPLETE |
| snapshot selection (`rental_history_snapshot_policy`, `select_rental_history_snapshot`) | selection.json | all required dates or none, FINAL before PRELIMINARY | the watermark moves between collection and selection | no hole below a promoted date |
| daily promotion and confirmation (`promote_rental_history_raw`, `update_rental_history_confirmed_watermark`) | Bronze partitions, promotion.json, Bronze watermark | one commit, one document, read then put of the watermark | crash between them; the catch-up puts the same watermark | a watermark never passes a date that Bronze does not hold |
| catch-up (`bronze_catchup_all_sources_dag` and its jobs) | completion markers, promotion documents per date, Bronze partitions, Bronze watermark | gap, mapped preparation, batches, markers, watermark | partial failure of mapped tasks, concurrent daily batch | the same; failed dates stop the watermark, not the others |
| manual confirmation of an empty date (`confirm_rental_history_empty`) | completion marker, both watermarks | three puts | crash between puts; rerun with newer evidence | empty only with evidence; can be resumed |
| Silver rental history (`transform_silver_rental_history` and the backfill jobs) | Silver partitions, Silver watermark, chunk documents | daily, T0, parallel backfill, finalizer | follows a watermark that may move back; parallel chunks | Silver passes only what Bronze holds |
| bikeman events (`daily_batch_bikeman_event`, `silver_bikeman_action`) | Bronze and Silver partitions, two watermarks | window with lookback, one overwrite a date | events received late, runs that die, Bronze committing under a Silver run | late events and corrections reach every layer |
| incremental last action (`build_fact_station_inventory`) | gold.bike_last_action | baseline and delta | skipped and repeated runs, late events | the baseline contains everything before its date |
| failure report (daily, catch-up, initial load, Silver, sensor) | Bronze by request date, Silver by report date, two watermarks, completion markers | window, catch-up, backlog and sliding window, wait of the risk DAG | two jobs put one watermark and overwrite the same partitions; Silver reads while Bronze commits | no watermark passes a report that is missing; no date falls between backlog and window; the risk DAG need not wait for what is done |
| initial load (`initial_load_dag` and its jobs) | local files, staged objects, EMR JobRuns, Bronze by date, both watermarks | download, stage, batch, load, watermarks, Silver backfill | broken downloads; a JobRun goes on after its task was given up; chunks that fail | a watermark only behind everything that was to be loaded |
| station master and active (`daily_batch_station_*`, `silver_station_*`, `build_station_active`) | one snapshot a day in Bronze and Silver, no watermark; gold.station_active | replace the day, take the latest, wait for a directory, join | a day without a snapshot; files before their commit | Gold of a day uses stations of that day or later |
| Gold state (`build_dim_bike`, `build_bike_location`, `build_fact_station_inventory`) | one row per bike, a watermark | range commits; baseline and delta | runs missed, capped, cleared and repeated; a partial day in Silver | a bike is in the dimension once; it is counted where it was last seen |
| risk features, ranking, decision (`gold_risk_decision_dag`) | one partition per date | replace the partition, then trigger | the same date computed again while its copy is on the way | candidates are not in the workshop |
| serving sync, event generator | marts and serving tables per date; field events | replace a date, check, insert events once | resets, repeated runs, days given up | serving shows the ranking Gold ends up with; a bike that was collected is back the day after |
| collection API (`services/api`) | rows of `app.action_log` | insert a batch; read the latest batch | transactions that commit in another order than they were stamped; the ranking is replaced meanwhile | a page shows one batch |
| model training and registry (`train_risk_model`) | samples by anchor, models by run key, champion pointer | plan, Spark samples, train, judge, store, promote | JobRuns of earlier plans; two trainings with the same end | a model is judged on what it has not seen; a held one changes nothing |
| data quality, maintenance, infrastructure, web client | reports, configuration | | | not part of the control plane |

How they interact: a Bronze task that succeeds updates an Airflow *asset*; the
Silver DAG of that source is started by the update and reads the Bronze watermark
itself (bikeman: the calendar). Gold DAGs are started by the clock and wait in
sensors for Silver watermarks; the last Gold DAG triggers the serving sync.

## Modules and how they correspond to the code

### RentalSnapshots, RentalBronze: the rental history control plane

`RentalSnapshots` has the Raw keys, the manifest statuses and the selection
policy as plain operators (`ConfirmedWindow`, `RequiredWindow`, `Candidates`,
`Missing`, `Selected`, `FullDayPartitions`), named for the functions of
`rental_history_snapshot_policy.py`. An observation is identified by date, date
of the run, and collector; since the collectors run at fixed times this also
orders observations of one date (`ObservedAt`).

`RentalBronze` has the five processes that write the shared state.

| variable | in the code |
|---|---|
| `raw` | manifest.json of each Raw key: `COMPLETE`, `INVALID` (rows, wrong schema), `COMPLETE_EMPTY`, `INCOMPLETE`, or no object |
| `bronze` | for each partition of `bronze.rental_history` the observation it holds |
| `wm`, `silverWm` | the two watermark files |
| `marker`, `catchupDoc` | completion marker and catch-up promotion.json of each date |
| `selection`, `promotion` | selection.json and promotion.json of the current daily run |
| `daily`, `catchup`, `confirm`, `silver` | position and local variables of each DagRun, with every value that is read in one step and used in a later one |
| `asset` | an unconsumed update of `RENTAL_HISTORY_BRONZE` |
| `approved` | history: dates an operator vouched for |

Each object put, each watermark read that is used later, and each Iceberg commit
is one action, so that every other process may act in between, and a crash is
possible between any two. `DailyRetry`, `DailyFail`, `DailyClear`,
`CatchupPromotionEnds`, `CatchupRetry`, `ConfirmCrash` and `SilverFail` are the
ways a task dies, is retried, gives up or is cleared. The collection of one
window (payload put, then manifest put) is one action because a payload without
a manifest is never read. A `COMPLETE` manifest with an invalid schema is a
status of its own since selection refuses it and the confirmation of an empty
date counts it as rows.

`ConfirmedPrefix` is the abstract specification: a set of reliable dates and a
mark per layer that may be put anywhere as long as every date up to it is
reliable. A mark may move back (a watermark is a plain put), a reliable date
behind a mark stays reliable. `RentalBronze` is shown to implement it with
`backed <- Reliable` and `mark <- MarkOf`.

`RentalBronzeLive` adds the schedule beyond the horizon and the fairness.

### BikemanPipeline: events that arrive late

Events are (bike, date) pairs that a device may submit up to `MaxDelay` days
after they occurred. `BronzeStart .. BronzePublish` is
`daily_batch_bikeman_event`: the watermark is read and the window fixed in
`BronzeRead`, a date is queried in `BronzeFetch` and overwritten in
`BronzeCommit`, one put of the watermark follows in `BronzeMark`, and
`BronzePublish` updates the asset. `SilverStart .. SilverMark` is
`silver_bikeman_action`, whose watermark moves date by date. `BuildLastAction`
is the part of `build_fact_station_inventory` that updates
`gold.bike_last_action`; it is guarded by the sensor of `gold_dim_fact`. Because
that DAG is the only writer of the table and has one active run, reading the
baseline, scanning the delta and overwriting the table is one action.

Left out: the rows that quality rules divert to quarantine (they never enter the
table and so no property speaks of them). The rebuild of the Silver table when
its partition spec is old is in `SilverRebuild`.

### FailureReport: request dates and report dates

One response of the API carries the reports of 31 days from the requested date
on (`Response`, `Span`). Bronze is partitioned by the request date, Silver by the
date of the report, so that Silver reads up to 30 earlier partitions for a date
(`Collected`).

| in the model | in the code |
|---|---|
| `DailyStart .. DailyPublish` | `daily_batch_failure_report`: per date a request, an overwrite, a marker and a put of the watermark; then, with same-day loads, the partition of the current date with no marker and no watermark |
| `CatchupStart .. CatchupAdvance` | the failure-report half of the catch-up: `check_bronze_gap`, one `catchup_failure_report_date` per date in any order, `advance_completion_watermark` |
| `SilverStart .. SilverReplaceWindow` | `silver_failure_report`: both watermarks, the cutoff, a backlog that moves the Silver watermark, a sliding window that does not |
| `Report`, `reported` | the API, which shows the report of a day on that day or up to `MaxDelay` days later |
| `DailyDies`, `CatchupDateFails`, `CatchupAdvanceFails`, `SilverDies` | exceptions and killed processes at every step, with a retry or without |

Which reports a request returns is fixed when it is made and committed later: a
commit may be older than what the other job has written in the meantime. A
*punctual* report is one the API showed on its own day; the properties speak of
those. A report that appears only after its date was requested is in no later
response (a response reaches forward from the requested date and a confirmed date
is not requested again), although `silver_failure_report.py:164-165` counts on
the window for reports that arrive late; how late the API really is cannot be
read from the code.

`ReportsAreKept` is about dates that were confirmed when the Silver run read the
Bronze watermark, and not about everything Silver has shown. With a Bronze run
that `MAX_DAYS_PER_RUN` cuts short and a span of three or more, the only
partition that carries a report may be one that a catch-up task overwrites with a
response from before the report: Silver then drops the report until its own date
is loaded (TLC finds it with `Span = 3` and three report dates).

Left out: the initial load, which has ended before the DAGs run and is in the
initial state (its file half is in `InitialLoad`); the Raw payloads, which nothing reads back; deduplication (a
report is in a set); and the quarantine audit table.

### RentalSilver: what Silver holds behind its watermark

`silver.rental_history` and its quarantine table, two Iceberg tables written one
after the other (`DailyQuarantine`, `DailyReplace`; `ChunkQuarantine`,
`ChunkReplace`), each from rows of Bronze read in an earlier step (`DailyScan`,
`ChunkBegin`). A partition holds nothing, the hours of a same-day promotion, or
the whole day. The daily run does the confirmed range first, then the partition
of the promotion its asset update names, then the watermark, then the document.
`initial_load` writes Bronze files in any order, sets the Bronze watermark,
bootstraps Silver's, plans ranges, runs a chunk for each (`ChunkMark` is its
completion marker) and ends with a finalizer that walks the markers from the
watermark it finds (`FinalizerRead`, `FinalizerWrite`).

`SlotFree` is `SILVER_POOL`. Production gives it one slot
(`docker-compose.prod.yml:164`, `docker-compose.airflow.prod.yml:125`) and the
model depends on that: with the two slots of the local files
(`docker-compose.yml:206`, `docker-compose.local.yml:178`) TLC finds a chunk that
puts rows it read before the day was whole over the daily run's, behind the
watermark. The watermark puts are unconditional as in the code, and
`check_watermark_date` only warns. An `initial_load` that is triggered again for
earlier files brings Bronze what was missing, but never Silver:
`bootstrap_silver_watermark` leaves a watermark that exists where it is.

### InitialLoad: files, batches and JobRuns

Download into the local directory (`Leaves`: a broken transfer leaves nothing
under the file's own name), upload under a name without Korean letters, batches by
count and size (`ChunkFilesBySize` folds `Packed`, the body of its loop, over the
list), one JobRun a batch, then the watermarks. A task that gives up
polling does not cancel its JobRun (`PollGivesUp`): the retry starts another over
the same files. `JobFile` replaces the dates of one file. The module assumes what
the pipeline counts on: no two files share a safe name
(`stage_initial_load_files.py:51-52` would overwrite one by the other) or a date,
and an object uploaded by an older version has the same content.

### DailyLoop: ranking, serving, field events, and back

One chain a day: `BuildFeatures`, `BuildRisk`, `BuildDecision`, `TriggerSync` are
the tasks of `gold_risk_decision`; `BuildMart`, `Write`, `Verify` those of each
branch of `gold_to_serving_sync`; `DeployReturnedBikes` and
`GenerateCollectEvents` those of `bikeman_event_generator`. `reset_dag_run` starts
a run of the same date again while it is at work. The events come back through
`SilverRun` (in detail: `BikemanPipeline`) and decide who is a candidate. A
ranking is a function from the bikes to their places; scores are not computed, any
order may come out. Every task may be repeated or given up. Only the tables of the current date are kept, a
chain ends or is given up before midnight, and some bike is always eligible.

Inside that, these behaviours of the code have no run of their own:
`_LATEST_COLLECTED_SQL` (`build_fact_bike_risk.py:99`) takes any of two events of
the same time where `bikeman_db.py:52-60` asks for a tie-breaker, which is harmless
only while no bike is deployed and collected on one day; a day that was given up,
or a past date that is processed again, strands what was collected on it, since the
generator looks at the day before only; and an empty ranking leaves the old
partition of `fact_bike_risk` in place.

### RiskTraining: plans, samples, gate and pointer

`ResolveAnchors` fixes training and holdout anchors from what Silver holds,
`SubmitSamples` starts a Spark JobRun that overwrites one anchor at a time
(`WritePart`) and may outlive its task, `AssertTrainTable`, `Train`, `Evaluate`,
`SaveRun` and `Promote` follow. A model is the anchors and labels it was trained
and judged on, with any score. The operator may name the end date, the number of
training days, and whether the gate is skipped.

### GoldState: one row per bike

`DimRead`, `DimCommit`, `DimEnds` are the ranges of `build_dim_bike` and its
watermark; `BuildLocation`, `BuildLastActions`, `BuildInventory` the other tasks
of `gold_dim_fact`, each one commit. Runs are started for a day or cleared for an
earlier one, die, are repeated, and meet a Silver that may hold part of a day.
Field events are punctual here; late ones are in `BikemanPipeline`. A place is
the event that brought the bike there; bikes that never came back are not counted,
as in the code. The quality check of `build_dim_bike` runs behind the commits: a
retry finds no new bikes, skips the check and moves the watermark
(`build_dim_bike.py:178-204`); the model has that behaviour and no property about
it.

### ConfirmCollection: the console

`Confirm`, `Insert`, `Commit` are a request of the API (the snapshot date, then one
`INSERT .. SELECT` stamped with the start of its transaction), `WritePool` and
`WriteStations` the two serving branches, `OpenPage`, `CountBatch`, `ReadBikes` the
reads of a page. Also seen in this module: if `station_daily` advances between the
first read of a request and its insert, the batch goes to the previous date and
the answer counts zero (the comment at `state.py:260-262` holds for the statement
alone); and bikes that leave the ranking leave the list while the count still has
them.

### SilverRebuild: names in a catalog

The tables `silver`, `backup` and `rebuild` by name, and a run that finds, fills,
sets aside and swaps them (`FindsTable` .. `TakeBack`). A rename may fail, or
succeed with its answer lost; the process may die between any two calls; an
operator may drop the backup of a table that is back. While the names are swapped
there is no table to read, and a backup that nobody removes stops every later
rebuild: both are what the code says it does.

### Stations: a snapshot a day

Bronze, Silver and `build_station_active` for both tables, which behave alike.
`WriteFiles` and `CommitSnapshot` are the two halves of one Iceberg overwrite:
`check_silver_snapshot_date` lists directories and so takes the first for the
second, also when the run died in between, although its comment excludes false
positives. `StationsAreOfTheDay` says that this is the only way in which Gold gets
stations older than its date.

### MCRentalDeployments, MCBikemanStations, MCWorkflows: several models in one run

`MCRentalDeployments` chooses one of five deployments of `RentalBronze`
(`recovery`, `backlog`, `operator`, `followed`, `sameday`) in the initial state, each with the
processes and faults one question needs. `MCBikemanStations` does the same with
`BikemanPipeline` and `Stations`, and `MCWorkflows` with the six modules from
`InitialLoad` to `SilverRebuild`. The modules of a run share no state: the run is
the sum of their state spaces, never the product.

## Runs

| run | configuration | shows |
|---|---|---|
| deployments | morning recovery with collections that fail; a backlog of three dates, one beyond the cap, in batches of two; an operator who confirms empty dates next to dying processes and across a midnight; the same with two dates waiting and Silver behind; same-day promotion across one midnight | partitions are backed by observations stored as COMPLETE; the daily batch promotes past no hole; neither watermark passes a date without data; documents never lead their commit; the pair implements `ConfirmedPrefix`; the inductive invariant of the proofs |
| live | faults until the last day, then a healthy API | both watermarks reach yesterday and stay there |
| resume, t0_lag | | violations, see [below](#what-the-checks-found) |
| small_sources | the two modules of `MCBikemanStations`: bikeman events up to three days late; Bronze and Silver runs that die and repeat, Bronze commits between any two steps of a Silver run, Gold runs skipped and repeated; station snapshots that fail or are cleared while sensors look | no event received behind the Bronze watermark is missing from Bronze; what Silver lacks stays inside the window it reads next; the incremental last action misses no event that was received on its day; stations are of the day |
| bikeman_stuck, bikeman_late_gold | | violations, see [below](#what-the-checks-found) |
| failure_windows | daily batch with same-day loads, catch-up and Silver over the same dates, reports a day late, runs that die and that cross a midnight | neither watermark passes a punctual report; no Silver run drops one that was confirmed when it began; a run that ends has brought all of those |
| failure_sensor | | violation, see [below](#what-the-checks-found) |
| silver | daily Silver run with same-day promotion, up to two initial loads with chunks of one or two days, two midnights, a failure at every step | both tables hold whole days behind the watermark; markers and documents come after what they stand for; a load that ends has filled Silver; the watermark implements `ConfirmedPrefix`; the inductive invariant of the proofs |
| workflows | the six modules of `MCWorkflows` | a watermark follows a complete load only; no bike is collected twice or forgotten; a quiet serving database shows Gold's ranking; models are judged honestly; the dimension has a bike once and the inventory has it where it was last seen; a page shows one batch; a rebuild never shows part of a table |
| registry | two trainings with one end date | violation, see [below](#what-the-checks-found) |

`live`, `workflows` and `registry` turn deadlock checking off: after the last day,
the last training or the last confirmation nothing may be left to do.

## Bounds

`LastDay` is the horizon. Three or four days suffice for the rental history
because the control plane tells apart today, yesterday, the day before (the
latest date the catch-up touches) and, with a window of `MaxDays = 2`, one date
beyond the cap. `FirstDay` is the day the DAGs are switched on: with
`FirstDay = LastDay` the whole horizon is a backlog, with a smaller one midnights
happen while runs are going. `MaxLag` (rental) and `RunLag` (bikeman) say how
many midnights a run may outlive; without a bound a run could be arbitrarily
late. `BatchSize = 1` gives several batches, `2` (`backlog`) a batch whose documents can
be half written. `Active` and `ApiOutcomes` deploy the processes and outcomes a run
is about; every process and every outcome occurs in some run.

For bikeman the lookback has its real value, three. The horizon of six days lets
an event be three days late and leave the window; two event dates and one bike
are enough since dates are replaced as a whole and bikes do not interact. Runs
end on the day they start (`RunLag = 0`), which `CorrectionsWithinReach` needs;
the theorem about late events holds without it. A Gold run has the `ds` of the
previous day (`SnapshotLag = 1`).

For the failure report `Span = 2` stands for the 31 days: it is the smallest span
with a window, a backlog before it and a report under two request dates. Four
days from a backlog of three hold each of them together with same-day loads and
one midnight. `MaxDays = 1` cuts the Bronze window, so that the daily batch and
the catch-up have dates in common; `SilverMaxDays = 3` cuts none. Two report
dates, one before and one after the start, are enough since reports do not
interact. The proofs hold for every value.

`RentalSilver` has three dates: files up to the first, two midnights, a cap of one
day, and chunks of one or both of the planned days. In `MCWorkflows`, `InitialLoad`
has three files, one too large for any company, one of another data set or broken,
two tries per task; `DailyLoop` has two bikes of which one may be collected a day,
three days (the shortest in which a bike is collected, a day is given up, and the
bike is a candidate again) and two chains a day; `RiskTraining` two trainings over
three end dates with one or two training days, and a label of one day; `GoldState`
two bikes with fixed rides, one returned twice on one day with a field action
before and one after, over three days of runs; `ConfirmCollection` two operators,
two bikes, two confirmations and two snapshot dates; and `SilverRebuild` three
days. `Stations` has two tables and two days.

## Fairness

`live` is the only run that needs fairness: weak fairness of midnight and of the
steps of each DagRun (the scheduler starts a due run and a task that does not
fail ends), and of the two runs that come after the horizon. Retries, failures,
clears, crashes and bad collections have none: they may happen at any time
before the last day and stop then. `BronzeCatchesUp` is thus a statement about
recovery from any state faults can lead to, not about a run without faults.

## Proofs

Every invariant and every action property that a passing run checks is also a
theorem, for every value of the constants that satisfies the assumptions named
below, and so is each refinement.

| module | theorems | assumed beyond the domains of the constants |
|---|---|---|
| `RentalBronze_proofs` | `TypeCorrect`, `Invariant`, `ConfirmedDatesAreBacked`, `SilverDatesAreBacked`, `DocumentsNeverLead`, `PartitionsTraceToRaw`, `DailyBatchLeavesNoHole`, `RefinesConfirmedPrefix` | `LagAssumption` |
| `RentalSilver_proofs` | `TypeCorrect`, `Invariant`, `ConfirmedSilverStaysWhole`, `MarkersAreTrue`, `DocumentsComeLast`, `LoadsThatEndReachSilver`, `RefinesConfirmedPrefix` | `OneSlot`, `FilesFromTheFirstDate` |
| `BikemanPipeline_proofs` | `TypeCorrect`, `LateEventsAreNotLost`, `CorrectionsStayWithinReach`, `PunctualEventsAreCounted` | one by one below |
| `FailureReport_proofs` | `TypeCorrect`, `ConfirmedReportsAreInBronze`, `SettledReportsAreInSilver`, `ConfirmedReportsAreKept`, `SilverCatchesUpWithBronze` | `LagAssumption`, but for the types |
| `InitialLoad_proofs` | `WatermarkIsEarned` | none |
| `DailyLoop_proofs` | `WorkshopIsRespected`, `CollectedComesBack`, `ServingEndsCurrent` | none |
| `SilverRebuild_proofs` | `RebuildIsNeverSeen` | none |
| `Workflows_proofs` | `PagesShowOneBatch`, `ModelsAreHonest`, `DimensionIsExact`, `InventoryIsLatest`, `GoldStationsAreOfTheDay` | `HoldoutDays < FirstEnd` for `ModelsAreHonest` |

### RentalBronze_proofs

The invariants are not inductive. A date behind the watermark could be replaced
by the partial partition of a same-day run that is still going, and a watermark
that has been read is put later. The strengthening `IndInv` calls a date *safe*
when it was confirmed empty, or is whole in Bronze and in the past of every run
that could replace it by part of a day (`d < daily.run \/ d <= today - 2`).
No step makes a safe date unsafe (`SafeIsStable`), and every document and every
value that waits to be put speaks of safe dates only. `LagAssumption`: with
same-day promotion a daily run overtakes at most one midnight; `t0_lag` shows that
two are too many. TLC checks `IndInv` in `deployments`.

`PartitionsTraceToRaw` and `DailyBatchLeavesNoHole` rest on two more invariants.
`Traced`: every key a process is about to promote is that of a complete
observation, and no attempt replaces one (`CompleteStays`). `NoHole`: below a whole
day of the selection every date is safe or selected as well, which makes the
commit of the daily batch, one for all its dates, leave no gap.

### RentalSilver_proofs

`SilverInv` follows the daily run and the chunk of a load through their steps
(`ConfirmedPart`, `CurrentDayPart`, `ChunkPart`): what each has read of its range is
whole where Bronze is, quarantine is replaced before the table, and the watermark,
marker or document that is put next speaks of whole days. `Copies` says why rows
read from part of a day can do no harm: as long as the day is not whole in Bronze
it is whole nowhere. That fails as soon as the daily run and a chunk are both
between their scan and their last write, so the proof needs `OneAtATime`, and that
needs `OneSlot`, the value production gives the pool
(`docker-compose.airflow.prod.yml:125`); with the two slots of the local files the
theorems are false. `Planned` says that the ranges of a load leave no date out.
`FilesFromTheFirstDate`: date 1 is the first date that any load selects, since a
second load of earlier files brings them to Bronze only (see above). TLC checks
`SilverInv` in `silver`.

### BikemanPipeline_proofs

- `TypeCorrect` assumes nothing. It says in particular that no window begins
  before the service or ends before it begins.
- `LateEventsAreNotLost`, assuming `MaxDelay <= Lookback`. The invariant
  `BronzeInv` says that an event received by the date of the watermark is in
  Bronze, and that for the dates a run has passed Bronze holds what was received
  when the run started; the next window reaches back far enough for the rest.
  Runs may overtake any number of midnights.
- `CorrectionsStayWithinReach`, assuming that the Bronze job has no cap
  (`MaxDays = 0`) and that runs and asset updates end before midnight
  (`RunLag = 0`). The invariant `SilverInv` says that
  what a Silver run has passed and Silver lacks was committed to Bronze after the
  run read the date, hence by a window that started at the current watermark
  minus the lookback; the window of the next Silver run starts no later since the
  Silver watermark does not pass Bronze's. With a cap it does: Silver passes the
  dates a capped Bronze run left out as empty, up to yesterday, and what Bronze
  commits for them later may lie behind the window (TLC finds it with a cap of
  four and a backlog of eight days).
- `PunctualEventsAreCounted`, with the same two assumptions. `PunctualInv` says
  that a punctual event is in every layer whose watermark has passed its day, that
  a Silver run skips no date (`SilverRunHolds`), and that the snapshot of
  `gold.bike_last_action` is at most one day ahead of the Silver watermark; so the
  delta of a Gold run cannot miss it.

### FailureReport_proofs

A date is *safe* when it is over, no run still loads it as its current date, and
its partition holds its punctual reports. In `BronzeInv` every accepted marker,
every date up to the watermark, and every value that waits to be put speaks of
safe dates; rows that wait to be committed are complete for their partition,
because they were requested when its date was over. So no commit makes a safe
date unsafe, however old it is (`SafeIsStable`). `SilverInv` adds that the two
watermarks of a Silver run speak of safe dates, that the rows it holds are
complete for the confirmed part of the range it is going to empty, and that an
uncapped backlog ends where the window begins.

`LagAssumption`: with same-day loads a run overtakes at most one midnight. A later
run could overwrite a date the catch-up has confirmed by what the API showed
before the date was over.

### InitialLoad_proofs

`LoadInv` says that a file is missing or whole wherever it is (`FilesAreWhole`);
that a staging batch that is through has staged all its files (`StagingFits`); that
every file is in some batch (`BatchesFit`); and that a JobRun which has failed on
nothing has handled (loaded, or rightly passed over) every file before the one it is
at (`LoadJobsFit`). So one SUCCESS of a batch is enough, whatever its other JobRuns
do: two that write a date write the same rows.

That every file is in a batch is where the two ways to cut a list come in. For
`ChunkList` it is arithmetic (`PiecesHoldAll`). `ChunkFilesBySize` is a fold, and
the induction theorems of the library cannot be instantiated. `FoldExists` and
`FoldSteps` get the results of the loop, one per item, out of the definition of a
fold, and `PackingHoldsAll` looks at the first item after which something is
missing: both use that a set of numbers without a least element is empty (`WFMin`).

### DailyLoop_proofs

`LoopInv` keeps two facts about the log that need each other: a bike is collected
only when it is free (`CollectedFree`), and a DEPLOY answers the COLLECT of the day
before (`DeployFollows`). Rankings, wherever they were copied, name free bikes only
(`RankingsAreFree`), since Gold ran behind a Silver that had all events of the days
before (`GoldHasSeen`). `ServingInv` adds that what a branch has copied since the
trigger is the ranking of Gold (`CopiesFit`).

### SilverRebuild_proofs

The property alone is not inductive: the step that gives the new table its name
needs to know that the table is full. `RebuildInv` adds that whenever nothing is
called silver the table that waits to replace it is full (`ReplacementIsFull`), which
holds since a run reads the watermark before it fills and no other run moves it,
and what each call of the rebuild may assume (`RunPosition`, `RunHolds`).

### Workflows_proofs

- `ConfirmCollection`: no two batches share a time, so the time of a transaction
  names its batch (`TimesAreDistinct`), and what a page has counted is still there
  when it reads the bikes (`CountedIsThere`).
- `RiskTraining`: a plan lies behind what Silver held when it was made
  (`PlanFits`), so every label any JobRun has written was fully observed
  (`SamplesAreTrue`) and a later run may write it again; a JobRun whose number is
  that of the current run has its plan (`JobsFit`). Assumed is that the first
  holdout has its first day behind the first date of Silver: without it the plan
  holds out days no bike has a history for, and a model is judged on less than its
  holdout.
- `GoldState`: what a dead run has left in `dim_bike` is a prefix by day
  (`DimFits`), which is why the next run finds exactly the rest (`DimJobFits`).
  `bike_location` remembers the latest return before its snapshot (`Remembers`) for
  every bike that came back since the look-back of some first run (`CoversFrom`),
  `bike_last_action` the latest action (`ActsUntil`), and `GoldRunFits` carries both
  over the tasks of a run to the inventory.
- `Stations`: `StationsInv` adds that what a sensor has passed on is committed
  unless the sensor was misled; dates of a committed snapshot only grow.

### Left to TLC

The two liveness properties of `live` (`BronzeCatchesUp`, `SilverFollows`): they
rest on fairness and ENABLED, which the provers do not handle.

## What the checks found

- **resume**: a manual confirmation that died behind its marker cannot be resumed
  once a later morning has stored a newer empty observation.
- **t0_lag**: a same-day promotion two midnights late replaces a confirmed day by
  a part of it.
- **bikeman_stuck**: the cap of a Bronze run counts from the start of the
  lookback. With the default cap of three and a lookback of three the window ends
  at the watermark it started from and a backlog is never worked off.
- **bikeman_late_gold**: a late event enters Bronze and Silver for a date before
  the snapshot of `gold.bike_last_action` and is in no later delta.
- **failure_sensor**: the Silver watermark of the failure report stops in front of
  the sliding window, 31 days before the cutoff. The sensor in front of the risk
  features waits for the day before the snapshot, so it finds a watermark about a
  month short after a run that processed everything there was.
- **registry**: a model is stored under the key of its end date before its gate
  decides, and the champion pointer names that key. A second training with the same
  end date that is held back replaces the champion's file.

Two behaviours the models have without a run of their own: the Bronze watermark
may move back, since the daily confirmation, the catch-up and the manual
confirmation each put a value they computed from an older read (the refinement
allows it; only work is repeated); and one failed collection of a catch-up run
makes `build_batches` fail upstream, so that the dates which were collected wait
for the next run (`CatchupBatches`).

## What is not modelled

HTTP paging and retries inside one window, payload formats and column casts,
most pools (only `SILVER_POOL` matters to a property), the submission to EMR and ECS,
and the numeric parts (features, LightGBM, scores) are abstracted or left out.
`set_watermark` by hand puts any date an operator names and so satisfies no
invariant; as a task of `initial_load` it is in `RentalSilver`. Of `initial_load`
the branch for a local run is left out, of the station sources the reprocessing of
an older snapshot by hand. Data quality jobs only report; maintenance rewrites files
without changing rows; the web client holds no state of the pipeline.

## Plan

1. `RentalSnapshots`, `RentalBronze`, `ConfirmedPrefix`, `RentalBronzeLive`,
   with proofs: done.
2. `BikemanPipeline` and `SilverRebuild`, with proofs: done.
3. `FailureReport` with proofs: done.
4. `RentalSilver` and `InitialLoad`, with proofs: done.
5. `GoldState` and `Stations`, with proofs: done.
6. `DailyLoop`, `ConfirmCollection`, with proofs: done.
7. `RiskTraining` with proofs: done.
8. Worth having: weaker assumptions for `CorrectionsStayWithinReach` and
   `PunctualEventsAreCounted` (a capped Bronze job needs another notion of reach);
   an abstract load that `InitialLoad` implements; the quality check of
   `build_dim_bike` as a property.
