---------------------------- MODULE RentalBronze ----------------------------
(***************************************************************************)
(* The control plane of the rental history source from the Raw area to the *)
(* Bronze watermark.  The processes share an object store, one Iceberg     *)
(* table and two watermark files, and no lock:                             *)
(*                                                                         *)
(*   raw_preliminary            stores a recovery observation each morning *)
(*   bronze_daily_batch         collect, select, promote, confirm          *)
(*   bronze_catchup             finds dates without a completion marker,   *)
(*                              re-collects and commits them in batches    *)
(*   confirm_rental_history_empty   an operator vouches for an empty date  *)
(*   silver_rental_history      follows the Bronze watermark (here: only   *)
(*                              its own watermark)                         *)
(*                                                                         *)
(* Each object put, each read of a watermark that is used later and each   *)
(* Iceberg commit is a step of its own, so the processes interleave        *)
(* between any two of them.                                                *)
(***************************************************************************)
EXTENDS RentalSnapshots, FiniteSets

CONSTANTS
    FirstDay,        \* the date on which the DAGs are switched on
    Active,          \* the processes that are deployed (not paused)
    ApiOutcomes,     \* what a collection from the API may result in
    BatchSize,       \* RENTAL_HISTORY_PROMOTE_BATCH_SIZE
    SilverMaxDays,   \* MAX_DAYS_PER_RUN of the Silver job
    MaxLag           \* midnights a daily run may outlive its own date

Processes == {"preliminary", "daily", "catchup", "operator", "silver"}

ASSUME ProcessAssumption == Active \subseteq Processes
ASSUME OutcomeAssumption == ApiOutcomes \subseteq Outcomes
ASSUME BoundAssumption ==
    /\ FirstDay \in Dates
    /\ BatchSize \in Nat \ {0}
    /\ SilverMaxDays \in Nat \ {0}
    /\ MaxLag \in Nat

VARIABLES
    today,        \* the date in Seoul
    raw,          \* status of the manifest under each Raw key
    bronze,       \* the observation each bronze.rental_history partition holds
    wm,           \* the Bronze watermark
    silverWm,     \* the Silver watermark
    marker,       \* the completion marker of each date
    catchupDoc,   \* promotion.json of the catch-up is present for the date
    approved,     \* dates an operator has confirmed to be empty (history)
    selection,    \* selection.json of the latest daily run
    promotion,    \* promotion.json of the latest daily run
    daily,        \* the daily DagRun
    catchup,      \* the catch-up DagRun
    confirm,      \* the operator's DagRun
    silver,       \* the Silver DagRun
    asset         \* an update of the RENTAL_HISTORY_BRONZE asset is pending

table == <<bronze, catchupDoc, marker, approved>>
dailyVars == <<daily, selection, promotion>>
vars == <<today, raw, table, wm, silverWm, dailyVars, catchup, confirm,
          silver, asset>>

NoDoc == [done |-> FALSE, keys |-> {}]
NoMarker == [status |-> "NONE", source |-> NoKey]
NoConfirmation ==
    [pc |-> "idle", date |-> 0, source |-> NoKey, wm |-> 0, swm |-> 0, put |-> FALSE]
MarkerStatus == {"NONE", "COMPLETE", "COMPLETE_EMPTY", "FAILED",
                 "MANUALLY_CONFIRMED_EMPTY"}
\* Mutant: any completion marker lets the catch-up pass.
AnyMarkerStatus == MarkerStatus \ {"NONE"}

AcceptedStatus == {"COMPLETE", "MANUALLY_CONFIRMED_EMPTY"}
Accepted == {d \in Dates : marker[d].status \in AcceptedStatus}

\* Mutant: next is the first date that is missing.
UpToFirstMissing(from, S, next) ==
    /\ from < next
    /\ (from + 1) .. (next - 1) \subseteq S
    /\ next \notin S

(* next is the last date of the longest run of dates in S after from.      *)
Contiguous(from, S, next) ==
    /\ from <= next
    /\ (from + 1) .. next \subseteq S
    /\ next + 1 \notin S

Init ==
    /\ today = FirstDay
    /\ raw = [k \in Keys |-> "NONE"]
    /\ bronze = [d \in Dates |-> NoKey]
    /\ wm = 0
    /\ silverWm = 0
    /\ marker = [d \in Dates |-> NoMarker]
    /\ catchupDoc = [d \in Dates |-> FALSE]
    /\ approved = {}
    /\ selection = NoDoc
    /\ promotion = NoDoc
    /\ daily = [pc |-> "idle", run |-> 0, todo |-> {}, next |-> 0]
    /\ catchup = [pc |-> "idle", run |-> 0, gap |-> {}, failed |-> FALSE,
                  ready |-> {}, batch |-> {}, left |-> {}, next |-> 0]
    /\ confirm = NoConfirmation
    /\ silver = [pc |-> "idle", upto |-> 0]
    /\ asset = FALSE

(* Midnight.  A daily run still going keeps its own date; MaxLag bounds    *)
(* how many midnights it may see.                                          *)
Midnight ==
    /\ today < LastDay
    /\ daily.pc # "idle" => today < daily.run + MaxLag
    /\ today' = today + 1
    /\ UNCHANGED <<raw, table, wm, silverWm, dailyVars, catchup, confirm,
                   silver, asset>>

-----------------------------------------------------------------------------
(* Collection.  The payload goes first and the manifest second; nobody     *)
(* reads a payload without its manifest, so the pair is one step.  A       *)
(* manifest that is not COMPLETE is overwritten by the next attempt.       *)

\* Mutant: COMPLETE manifests are collected again as well.
RecollectComplete(k, outcome) == outcome

ResultOf(k, outcome) == IF Reusable(raw[k]) THEN raw[k] ELSE outcome

CollectSnapshot(k, outcome) == raw' = [raw EXCEPT ![k] = ResultOf(k, outcome)]

(* raw_preliminary of today: yesterday as a whole and the hours of today.  *)
PreliminaryCollect(d, outcome) ==
    /\ "preliminary" \in Active
    /\ d \in Dates \cap {today - 1, today}
    /\ CollectSnapshot(PreliminaryKey(d, today), outcome)
    /\ UNCHANGED <<today, table, wm, silverWm, dailyVars, catchup, confirm,
                   silver, asset>>

-----------------------------------------------------------------------------
(* bronze_daily_batch: collect_final_raw >> select_final_or_preliminary >> *)
(* promote_to_bronze >> update_confirmed_watermark >> publish_bronze_asset *)

DailyUnchanged == UNCHANGED <<today, silverWm, catchup, confirm, silver>>

(* One DagRun a day and one at a time (max_active_runs = 1).  The          *)
(* collection reads the watermark and fixes its windows.  selection.json   *)
(* and promotion.json live under the promotion_id of the run, so a new run *)
(* sees none.                                                              *)
DailyStart ==
    /\ "daily" \in Active
    /\ daily.pc = "idle"
    /\ daily.run < today
    /\ daily' = [pc |-> "collect", run |-> today, next |-> 0,
                 todo |-> CollectionWindow(wm, today)]
    /\ selection' = NoDoc
    /\ promotion' = NoDoc
    /\ UNCHANGED <<raw, table, wm, asset>>
    /\ DailyUnchanged

(* The windows are collected one after the other, oldest first. *)
DailyCollect(d, outcome) ==
    /\ daily.pc = "collect"
    /\ d \in daily.todo
    /\ \A e \in daily.todo : d <= e
    /\ CollectSnapshot(DailyKey(d, daily.run), outcome)
    /\ daily' = [daily EXCEPT !.todo = @ \ {d}]
    /\ UNCHANGED <<table, wm, selection, promotion, asset>>
    /\ DailyUnchanged

(* The selection runs whatever became of the collection (ALL_DONE, no      *)
(* retries of the collection): it may have finished, failed or been killed *)
(* by its execution timeout.                                               *)
DailyCollectEnds ==
    /\ daily.pc = "collect"
    /\ daily' = [daily EXCEPT !.pc = "select", !.todo = {}]
    /\ UNCHANGED <<raw, table, wm, selection, promotion, asset>>
    /\ DailyUnchanged

(* The selection reads the watermark again.  A required date without a     *)
(* candidate fails the task and nothing is written.                        *)
DailySelect ==
    /\ daily.pc = "select"
    /\ Missing(raw, wm, daily.run) = {}
    /\ selection' = [done |-> TRUE, keys |-> Selected(raw, wm, daily.run)]
    /\ daily' = [daily EXCEPT !.pc = "promote"]
    /\ UNCHANGED <<raw, table, wm, promotion, asset>>
    /\ DailyUnchanged

\* Mutant: partitions that exist already are left as they are.
PromoteNewDates ==
    bronze' = [d \in Dates |->
                  IF bronze[d] = NoKey /\ \E k \in selection.keys : k.date = d
                  THEN CHOOSE k \in selection.keys : k.date = d
                  ELSE bronze[d]]

(* All selected partitions are replaced in one Iceberg commit; an empty    *)
(* selection touches nothing.                                              *)
PromoteDaily ==
    bronze' = [d \in Dates |->
                  IF \E k \in selection.keys : k.date = d
                  THEN CHOOSE k \in selection.keys : k.date = d
                  ELSE bronze[d]]

DailyPromote ==
    /\ daily.pc = "promote"
    /\ selection.done
    /\ PromoteDaily
    /\ daily' = [daily EXCEPT !.pc = "mark"]
    /\ UNCHANGED <<raw, catchupDoc, marker, approved, wm, selection,
                   promotion, asset>>
    /\ DailyUnchanged

(* promotion.json is written only after the commit. *)
DailyMark ==
    /\ daily.pc = "mark"
    /\ promotion' = selection
    /\ daily' = [daily EXCEPT !.pc = "update"]
    /\ UNCHANGED <<raw, table, wm, selection, asset>>
    /\ DailyUnchanged

(* update_confirmed_watermark reads the watermark ...                      *)
ConfirmedThrough(next) ==
    Contiguous(wm, FullDayPartitions(promotion.keys, daily.run), next)

DailyReadWatermark ==
    /\ daily.pc = "update"
    /\ promotion.done
    /\ \E next \in 0 .. LastDay :
          /\ ConfirmedThrough(next)
          /\ daily' = [daily EXCEPT !.next = next,
                           !.pc = IF next > wm THEN "write" ELSE "publish"]
    /\ UNCHANGED <<raw, table, wm, selection, promotion, asset>>
    /\ DailyUnchanged

(* ... and writes it back.                                                 *)
DailyWriteWatermark ==
    /\ daily.pc = "write"
    /\ wm' = daily.next
    /\ daily' = [daily EXCEPT !.pc = "publish"]
    /\ UNCHANGED <<raw, table, selection, promotion, asset>>
    /\ DailyUnchanged

DailyPublish ==
    /\ daily.pc = "publish"
    /\ asset' = TRUE
    /\ daily' = [daily EXCEPT !.pc = "idle", !.next = 0]
    /\ UNCHANGED <<raw, table, wm, selection, promotion>>
    /\ DailyUnchanged

(* A task dies between its effect and its end and Airflow retries it from  *)
(* its beginning.                                                          *)
DailyRetry ==
    /\ \/ daily.pc = "mark" /\ daily' = [daily EXCEPT !.pc = "promote"]
       \/ daily.pc \in {"write", "publish"}
          /\ daily' = [daily EXCEPT !.pc = "update"]
    /\ UNCHANGED <<raw, table, wm, selection, promotion, asset>>
    /\ DailyUnchanged

(* The retries are used up: the DagRun fails where it is. *)
DailyFail ==
    /\ daily.pc \notin {"idle", "collect"}
    /\ daily' = [daily EXCEPT !.pc = "idle", !.next = 0]
    /\ UNCHANGED <<raw, table, wm, selection, promotion, asset>>
    /\ DailyUnchanged

(* An operator clears the latest DagRun once it is over: every task runs    *)
(* again with the same cutoff, hence over the same keys.                    *)
DailyClear ==
    /\ daily.pc = "idle"
    /\ daily.run # 0
    /\ today <= daily.run + MaxLag
    /\ daily' = [daily EXCEPT !.pc = "collect", !.next = 0,
                              !.todo = CollectionWindow(wm, daily.run)]
    /\ UNCHANGED <<raw, table, wm, selection, promotion, asset>>
    /\ DailyUnchanged

DailyNext ==
    \/ DailyStart
    \/ \E d \in Dates, o \in ApiOutcomes : DailyCollect(d, o)
    \/ DailyCollectEnds \/ DailySelect \/ DailyPromote \/ DailyMark
    \/ DailyReadWatermark \/ DailyWriteWatermark \/ DailyPublish
    \/ DailyRetry \/ DailyFail \/ DailyClear

-----------------------------------------------------------------------------
(* bronze_catchup_all_sources: check_gap >> prepare (mapped per date) >>    *)
(* build_batches >> promote batches >> advance the watermark (ALL_DONE).    *)

CatchupUnchanged == UNCHANGED <<today, silverWm, dailyVars, confirm, silver,
                                approved>>
CatchupTarget == catchup.run - 2

\* Mutant: the gap begins at the watermark instead of the day after it.
GapFromWatermark(target) ==
    {d \in 0 .. LastDay : wm <= d /\ d <= target /\ d \notin Accepted}

Gap(target) == {d \in Dates : wm < d /\ d <= target /\ d \notin Accepted}

CatchupBegin ==
    /\ "catchup" \in Active
    /\ catchup.pc = "idle"
    /\ catchup' = [pc |-> "prepare", run |-> today, gap |-> Gap(today - 2),
                   failed |-> FALSE, ready |-> {}, batch |-> {}, left |-> {},
                   next |-> 0]
    /\ UNCHANGED <<raw, bronze, catchupDoc, marker, wm, asset>>
    /\ CatchupUnchanged

CatchupStart == catchup.run < today /\ CatchupBegin

(* Up to three dates are prepared at once, in any order.  A collection that *)
(* is not COMPLETE is retried or, in the end, fails its mapped task.        *)
CatchupPrepare(d, outcome) ==
    /\ catchup.pc = "prepare"
    /\ d \in catchup.gap
    /\ CollectSnapshot(CatchupKey(d), outcome)
    /\ \/ /\ ResultOf(CatchupKey(d), outcome) = "COMPLETE"
          /\ catchup' = [catchup EXCEPT !.gap = @ \ {d}, !.ready = @ \cup {d}]
       \/ /\ ResultOf(CatchupKey(d), outcome) # "COMPLETE"
          /\ \/ UNCHANGED catchup
             \/ catchup' = [catchup EXCEPT !.gap = @ \ {d}, !.failed = TRUE]
    /\ UNCHANGED <<bronze, catchupDoc, marker, wm, asset>>
    /\ CatchupUnchanged

(* build_batches has the default trigger rule: one failed prepare task is   *)
(* enough to skip every batch and go straight to the watermark.             *)
CatchupBatches ==
    /\ catchup.pc = "prepare"
    /\ catchup.gap = {}
    /\ catchup' = IF catchup.failed
                  THEN [catchup EXCEPT !.pc = "advance", !.ready = {}]
                  ELSE [catchup EXCEPT !.pc = "batch"]
    /\ UNCHANGED <<raw, bronze, catchupDoc, marker, wm, asset>>
    /\ CatchupUnchanged

(* The dates not yet handled are cut into batches of BatchSize in order;    *)
(* the pool has one slot, so one batch runs at a time.                      *)
NextBatch ==
    {d \in catchup.ready :
        Cardinality({e \in catchup.ready : e < d}) < BatchSize}

CatchupBatchStart ==
    /\ catchup.pc = "batch"
    /\ catchup.ready # {}
    /\ catchup' = [catchup EXCEPT !.pc = "commit", !.batch = NextBatch]
    /\ UNCHANGED <<raw, bronze, catchupDoc, marker, wm, asset>>
    /\ CatchupUnchanged

CatchupCommit ==
    /\ catchup.pc = "commit"
    /\ bronze' = [d \in Dates |-> IF d \in catchup.batch THEN CatchupKey(d)
                                  ELSE bronze[d]]
    /\ catchup' = [catchup EXCEPT !.pc = "docs", !.left = catchup.batch]
    /\ UNCHANGED <<raw, catchupDoc, marker, wm, asset>>
    /\ CatchupUnchanged

(* promotion.json of each date, after the commit. *)
CatchupDoc(d) ==
    /\ catchup.pc = "docs"
    /\ d \in catchup.left
    /\ \A e \in catchup.left : d <= e
    /\ catchupDoc' = [catchupDoc EXCEPT ![d] = TRUE]
    /\ catchup' = [catchup EXCEPT !.left = @ \ {d}]
    /\ UNCHANGED <<raw, bronze, marker, wm, asset>>
    /\ CatchupUnchanged

(* The promotion process ends, after all its documents or (a failed commit, *)
(* a crash between two documents) before; the completion markers are        *)
(* written in either case.                                                  *)
CatchupPromotionEnds ==
    /\ catchup.pc \in {"commit", "docs"}
    /\ catchup' = [catchup EXCEPT !.pc = "markers", !.left = catchup.batch]
    /\ UNCHANGED <<raw, bronze, catchupDoc, marker, wm, asset>>
    /\ CatchupUnchanged

\* Mutant: the completion marker trusts the manifest instead of promotion.json.
MarkerFromManifest(d) ==
    IF raw[CatchupKey(d)] = "COMPLETE" THEN "COMPLETE" ELSE "FAILED"

CompletionStatus(d) ==
    IF catchupDoc[d] THEN "COMPLETE"
    ELSE IF raw[CatchupKey(d)] = "COMPLETE_EMPTY" THEN "COMPLETE_EMPTY"
    ELSE "FAILED"

CatchupMarker(d) ==
    /\ catchup.pc = "markers"
    /\ d \in catchup.left
    /\ \A e \in catchup.left : d <= e
    /\ marker' = [marker EXCEPT ![d] = [status |-> CompletionStatus(d),
                                        source |-> NoKey]]
    /\ catchup' = [catchup EXCEPT !.left = @ \ {d}]
    /\ UNCHANGED <<raw, bronze, catchupDoc, wm, asset>>
    /\ CatchupUnchanged

(* The mapped task of a batch is over: done, given up, or (a date without a *)
(* COMPLETE document makes it fail) retried as a whole.                     *)
CatchupBatchEnds ==
    /\ catchup.pc = "markers"
    /\ \E ready \in {catchup.ready, catchup.ready \ catchup.batch} :
          catchup' = [catchup EXCEPT !.pc = "batch", !.ready = ready,
                                     !.batch = {}, !.left = {}]
    /\ UNCHANGED <<raw, bronze, catchupDoc, marker, wm, asset>>
    /\ CatchupUnchanged

CatchupBatchesDone ==
    /\ catchup.pc = "batch"
    /\ catchup.ready = {}
    /\ catchup' = [catchup EXCEPT !.pc = "advance"]
    /\ UNCHANGED <<raw, bronze, catchupDoc, marker, wm, asset>>
    /\ CatchupUnchanged

(* advance_completion_watermark reads the watermark and the markers ...      *)
CatchupReadWatermark ==
    /\ catchup.pc = "advance"
    /\ \E next \in 0 .. LastDay :
          /\ Contiguous(wm, {d \in Accepted : d <= CatchupTarget}, next)
          /\ catchup' = [catchup EXCEPT !.next = next,
                             !.pc = IF next > wm THEN "write" ELSE "publish"]
    /\ UNCHANGED <<raw, bronze, catchupDoc, marker, wm, asset>>
    /\ CatchupUnchanged

(* ... and writes the watermark back.                                        *)
CatchupWriteWatermark ==
    /\ catchup.pc = "write"
    /\ wm' = catchup.next
    /\ catchup' = [catchup EXCEPT !.pc = "publish"]
    /\ UNCHANGED <<raw, bronze, catchupDoc, marker, asset>>
    /\ CatchupUnchanged

(* The task fails, and publishes nothing, when the target was not reached.   *)
CatchupEnds ==
    /\ catchup.pc = "publish"
    /\ asset' = (asset \/ catchup.next >= CatchupTarget)
    /\ catchup' = [catchup EXCEPT !.pc = "idle", !.next = 0]
    /\ UNCHANGED <<raw, bronze, catchupDoc, marker, wm>>
    /\ CatchupUnchanged

(* A task dies and is retried: the watermark is read again.                  *)
CatchupRetry ==
    /\ catchup.pc \in {"write", "publish"}
    /\ catchup' = [catchup EXCEPT !.pc = "advance", !.next = 0]
    /\ UNCHANGED <<raw, bronze, catchupDoc, marker, wm, asset>>
    /\ CatchupUnchanged

CatchupNext ==
    \/ CatchupStart
    \/ \E d \in Dates, o \in ApiOutcomes : CatchupPrepare(d, o)
    \/ CatchupBatches \/ CatchupBatchStart \/ CatchupCommit
    \/ \E d \in Dates : CatchupDoc(d) \/ CatchupMarker(d)
    \/ CatchupPromotionEnds \/ CatchupBatchEnds \/ CatchupBatchesDone
    \/ CatchupReadWatermark \/ CatchupWriteWatermark \/ CatchupEnds
    \/ CatchupRetry

-----------------------------------------------------------------------------
(* confirm_rental_history_empty: validate, then the marker unless an earlier *)
(* confirmation left it, then the Bronze watermark, then Silver's.           *)

ConfirmUnchanged == UNCHANGED <<today, raw, bronze, catchupDoc, dailyVars,
                                catchup, silver, asset>>

Observed(d) == {k \in Keys : k.date = d /\ raw[k] # "NONE"}
IsLatest(k) == \A j \in Observed(k.date) : ObservedAt(j) <= ObservedAt(k)

(* The latest observation of the date is an empty whole day made after the   *)
(* day was over, and no earlier one had rows.                                *)
EmptyEvidence(k) ==
    /\ k \in Observed(k.date)
    /\ IsLatest(k)
    /\ raw[k] = "COMPLETE_EMPTY"
    /\ k.date < k.run
    /\ \A j \in Observed(k.date) : raw[j] \notin {"COMPLETE", "INVALID"}

(* The existing marker, if any, must be this very confirmation. *)
NoConflict(k) ==
    \/ marker[k.date] = NoMarker
    \/ marker[k.date] = [status |-> "MANUALLY_CONFIRMED_EMPTY", source |-> k]

\* Mutant: any date may be confirmed, not only the next one.
AnyDate(w, d) == TRUE

NextToConfirm(w, d) == w \in {d - 1, d}

ConfirmValidate(k) ==
    /\ "operator" \in Active
    /\ confirm.pc = "idle"
    /\ EmptyEvidence(k)
    /\ NextToConfirm(wm, k.date)
    /\ NextToConfirm(silverWm, k.date)
    /\ NoConflict(k)
    /\ confirm' = [pc |-> "mark", date |-> k.date, source |-> k, wm |-> wm,
                   swm |-> silverWm, put |-> marker[k.date] = NoMarker]
    /\ UNCHANGED <<marker, approved, wm, silverWm>>
    /\ ConfirmUnchanged

ConfirmMark ==
    /\ confirm.pc = "mark"
    /\ marker' = IF confirm.put
                 THEN [marker EXCEPT ![confirm.date] =
                          [status |-> "MANUALLY_CONFIRMED_EMPTY",
                           source |-> confirm.source]]
                 ELSE marker
    /\ approved' = approved \cup {confirm.date}
    /\ confirm' = [confirm EXCEPT !.pc = "bronze"]
    /\ UNCHANGED <<wm, silverWm>>
    /\ ConfirmUnchanged

ConfirmBronze ==
    /\ confirm.pc = "bronze"
    /\ wm' = IF confirm.wm < confirm.date THEN confirm.date ELSE wm
    /\ confirm' = [confirm EXCEPT !.pc = "silver"]
    /\ UNCHANGED <<marker, approved, silverWm>>
    /\ ConfirmUnchanged

ConfirmSilver ==
    /\ confirm.pc = "silver"
    /\ silverWm' = IF confirm.swm < confirm.date THEN confirm.date ELSE silverWm
    /\ confirm' = NoConfirmation
    /\ UNCHANGED <<marker, approved, wm>>
    /\ ConfirmUnchanged

(* The process dies between two puts; the operator may trigger it again.     *)
ConfirmCrash ==
    /\ confirm.pc # "idle"
    /\ confirm' = NoConfirmation
    /\ UNCHANGED <<marker, approved, wm, silverWm>>
    /\ ConfirmUnchanged

ConfirmNext ==
    \/ \E k \in Keys : ConfirmValidate(k)
    \/ ConfirmMark \/ ConfirmBronze \/ ConfirmSilver \/ ConfirmCrash

-----------------------------------------------------------------------------
(* silver_rental_history, reduced to its watermark: a pending asset update   *)
(* starts a run, the run reads both watermarks, works on the dates between   *)
(* them and writes its own.                                                  *)

SilverUnchanged == UNCHANGED <<today, raw, table, wm, dailyVars, catchup,
                               confirm>>

\* Mutant: the Bronze watermark is taken as the first date that is missing.
SilverEndBeforeWatermark ==
    {e \in {wm - 1, silverWm + SilverMaxDays} \cap Nat :
        e <= wm - 1 /\ e <= silverWm + SilverMaxDays}

SilverEnd == {e \in {wm, silverWm + SilverMaxDays} :
                 e <= wm /\ e <= silverWm + SilverMaxDays}

SilverStart ==
    /\ "silver" \in Active
    /\ silver.pc = "idle"
    /\ asset
    /\ asset' = FALSE
    /\ \E e \in SilverEnd :
          silver' = IF silverWm < e THEN [pc |-> "running", upto |-> e] ELSE silver
    /\ UNCHANGED silverWm
    /\ SilverUnchanged

SilverWriteWatermark ==
    /\ silver.pc = "running"
    /\ silverWm' = silver.upto
    /\ silver' = [pc |-> "idle", upto |-> 0]
    /\ UNCHANGED asset
    /\ SilverUnchanged

SilverFail ==
    /\ silver.pc = "running"
    /\ silver' = [pc |-> "idle", upto |-> 0]
    /\ UNCHANGED <<silverWm, asset>>
    /\ SilverUnchanged

SilverNext == SilverStart \/ SilverWriteWatermark \/ SilverFail

-----------------------------------------------------------------------------
Next ==
    \/ Midnight
    \/ \E d \in Dates, o \in ApiOutcomes : PreliminaryCollect(d, o)
    \/ DailyNext
    \/ CatchupNext
    \/ ConfirmNext
    \/ SilverNext

Spec == Init /\ [][Next]_vars

-----------------------------------------------------------------------------
(* Properties *)

Documents == [done : BOOLEAN, keys : SUBSET Keys]
Markers == [status : MarkerStatus, source : Keys \cup {NoKey}]
DailyRuns ==
    [pc : {"idle", "collect", "select", "promote", "mark", "update", "write",
           "publish"},
     run : Nat, todo : SUBSET Dates, next : 0 .. LastDay]
CatchupRuns ==
    [pc : {"idle", "prepare", "batch", "commit", "docs", "markers", "advance",
           "write", "publish"},
     run : Nat, gap : SUBSET Dates, failed : BOOLEAN, ready : SUBSET Dates,
     batch : SUBSET Dates, left : SUBSET Dates, next : 0 .. LastDay]
ConfirmRuns ==
    [pc : {"idle", "mark", "bronze", "silver"}, date : 0 .. LastDay,
     source : Keys \cup {NoKey}, wm : 0 .. LastDay, swm : 0 .. LastDay,
     put : BOOLEAN]
SilverRuns == [pc : {"idle", "running"}, upto : 0 .. LastDay]

(* Every variable stays in its domain.                                       *)
TypeOK ==
    /\ today \in Nat
    /\ raw \in [Keys -> ManifestStatus]
    /\ bronze \in [Dates -> Keys \cup {NoKey}]
    /\ wm \in 0 .. LastDay
    /\ silverWm \in 0 .. LastDay
    /\ marker \in [Dates -> Markers]
    /\ catchupDoc \in [Dates -> BOOLEAN]
    /\ approved \subseteq Dates
    /\ selection \in Documents
    /\ promotion \in Documents
    /\ daily \in DailyRuns
    /\ catchup \in CatchupRuns
    /\ confirm \in ConfirmRuns
    /\ silver \in SilverRuns
    /\ asset \in BOOLEAN

(* The partition of the date holds a whole day.                              *)
Whole(d) == bronze[d] # NoKey /\ FullDay(bronze[d])

(* A date behind a watermark is in Bronze as a whole day or was confirmed to *)
(* be empty, whichever process moved the watermark and whatever crashed in   *)
(* between (watermark.py: the last date committed with success).             *)
ConfirmedDatesBacked == \A d \in Dates : d <= wm => Whole(d) \/ d \in approved

(* The same of the Silver watermark, which outlives regressions of Bronze's. *)
SilverDatesBacked == \A d \in Dates : d <= silverWm => Whole(d) \/ d \in approved

(* The documents that later steps trust are never ahead of the commit they   *)
(* vouch for: promotion.json of the daily run and of the catch-up, and the   *)
(* COMPLETE completion marker.                                               *)
DocumentsFollowCommit ==
    /\ \A d \in Dates : catchupDoc[d] => Whole(d)
    /\ \A d \in Dates : marker[d].status = "COMPLETE" => Whole(d)
    /\ \A k \in promotion.keys : FullDay(k) => Whole(k.date)

(* Every Bronze partition traces back to an observation that is stored as    *)
(* COMPLETE and stays so: no later attempt under the same key replaces what  *)
(* was promoted (collect_snapshot's immutability, whoever collects).         *)
BronzeTracesToRaw == \A d \in Dates : bronze[d] # NoKey => raw[bronze[d]] = "COMPLETE"

(* The daily batch never promotes past a hole: below a date it committed     *)
(* every date is whole or confirmed empty (the policy selects all required   *)
(* dates or none, starting at the watermark).                                *)
DailyLeavesNoHole ==
    \A d \in Dates : Whole(d) /\ bronze[d].by # "CATCHUP" =>
        \A e \in 1 .. d - 1 : Whole(e) \/ e \in approved

(* The refinement: seen from its readers the control plane is a pair of marks over a set of  *)
(* reliable dates.                                                           *)
Reliable == {d \in Dates : Whole(d) \/ d \in approved}
Layers == {"bronze", "silver"}
MarkOf == [l \in Layers |-> IF l = "bronze" THEN wm ELSE silverWm]
Prefix == INSTANCE ConfirmedPrefix WITH
    Last <- LastDay, backed <- Reliable, mark <- MarkOf
ImplementsConfirmedPrefix == Prefix!Spec

(* A confirmation that was interrupted after its marker can be completed by  *)
(* running it again (confirm_rental_history_empty.py:160): while the         *)
(* watermark still waits for the date, the evidence that is now the latest   *)
(* is the one the marker names.                                              *)
InterruptedConfirmationResumes ==
    \A d \in Dates :
        /\ marker[d].status = "MANUALLY_CONFIRMED_EMPTY"
        /\ confirm.pc = "idle"
        /\ wm = d - 1
        => \A k \in Keys : k.date = d /\ EmptyEvidence(k) => NoConflict(k)
=============================================================================
