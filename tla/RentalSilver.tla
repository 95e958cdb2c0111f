----------------------------- MODULE RentalSilver -----------------------------
(***************************************************************************)
(* silver.rental_history: how its partitions, its audit table and its      *)
(* watermark follow Bronze.  Three programs write them:                    *)
(*                                                                         *)
(*   transform_silver_rental_history, run by silver_rental_history for     *)
(*       each asset update: the confirmed range, then the promotion of the *)
(*       running day that the update names;                                *)
(*   the same job as a chunk of initial_load, one chunk after the other,   *)
(*       each leaving a completion marker;                                 *)
(*   advance_silver_rental_history_watermark, the finalizer of the chunks. *)
(*                                                                         *)
(* A run of the job reads Bronze once for each range and then replaces the *)
(* range in two tables, two commits; both kinds of run take a slot of      *)
(* SILVER_POOL, the finalizer takes none.  Bronze is what RentalBronze     *)
(* shows it to be: a commit and then the watermark.                        *)
(***************************************************************************)
EXTENDS Integers, FiniteSets, FiniteSetsExt

CONSTANTS
    LastDay,        \* the horizon: dates 1 .. LastDay
    LoadedTo,       \* the last date of the files; rental_history_watermark_date
    LoadFroms,      \* the first dates that *_pattern may select
    ChunkSizes,     \* values rental_history_silver_chunk_days is given
    MaxDays,        \* MAX_DAYS_PER_RUN of the daily run
    Slots,          \* slots of SILVER_POOL
    T0Flags,        \* values RENTAL_HISTORY_T0_ENABLED may have
    MaxLoads        \* bound: how often initial_load is triggered

Dates == 1 .. LastDay

ASSUME SilverConstants ==
    /\ LastDay \in Nat /\ LoadedTo \in Dates /\ LoadedTo + 1 \in Dates
    /\ LoadFroms \subseteq 1 .. LoadedTo
    /\ ChunkSizes \subseteq Nat \ {0} /\ MaxDays \in Nat \ {0}
    /\ Slots \in Nat /\ T0Flags \subseteq BOOLEAN /\ MaxLoads \in Nat

(* What a partition holds: nothing, the hours of the running day a T0      *)
(* promotion brought, or the whole day.                                    *)
Contents == {"none", "partial", "whole"}
Ranges == [lo : Dates, hi : Dates]

VARIABLES
    today,
    bronze, wm,      \* bronze.rental_history and its watermark
    promotions,      \* run dates whose promotion.json has t0_enabled
    event,           \* pending asset update: 0 without metadata, -1 for none
    silver,          \* silver.rental_history
    quarantine,      \* silver.rental_history_quarantine
    silverWm, boot,  \* the Silver watermark; whether its object exists
    markers,         \* completion markers of the chunks
    docs,            \* Silver promotion.json: confirmed_through by run date
    daily, load      \* the two DagRuns

bronzeVars == <<bronze, wm, promotions, event>>
tables == <<silver, quarantine>>
vars == <<today, bronzeVars, tables, silverWm, boot, markers, docs, daily, load>>

NoDoc == -1
NoEvent == -1
Nothing == [d \in Dates |-> "none"]
NoRange == [lo |-> 1, hi |-> 0]
IdleDaily == [pc |-> "idle", meta |-> 0, day |-> 0, confirmed |-> NoRange,
              through |-> 0, range |-> NoRange, read |-> Nothing]
IdleLoad == [pc |-> "idle", runs |-> 0, from |-> 1, left |-> {}, upto |-> 0,
             plan |-> {}, todo |-> {}, chunk |-> NoRange, read |-> Nothing,
             next |-> 0]

Init ==
    /\ today = LoadedTo + 1
    /\ bronze = Nothing /\ wm = 0 /\ promotions = {} /\ event = NoEvent
    /\ silver = Nothing /\ quarantine = Nothing
    /\ silverWm = 0 /\ boot = FALSE
    /\ markers = {} /\ docs = [d \in Dates |-> NoDoc]
    /\ daily = IdleDaily /\ load = IdleLoad

InRange(d, r) == r.lo <= d /\ d <= r.hi

Midnight ==
    /\ today < LastDay
    /\ today' = today + 1
    /\ UNCHANGED <<bronzeVars, tables, silverWm, boot, markers, docs, daily, load>>

-----------------------------------------------------------------------------
(* Bronze: the daily batch commits the confirmed dates and, with T0, the    *)
(* hours of the running day under promotion.json; the watermark and the     *)
(* asset update come later.  A catch-up publishes without metadata.         *)

BronzePromote(t0) ==
    /\ bronze' = [d \in Dates |->
                    IF wm < d /\ d < today THEN "whole"
                    ELSE IF t0 /\ d = today THEN "partial" ELSE bronze[d]]
    /\ promotions' = IF t0 THEN promotions \cup {today} ELSE promotions
    /\ UNCHANGED <<today, wm, event, tables, silverWm, boot, markers, docs,
                   daily, load>>

BronzeConfirm(meta) ==
    /\ \E next \in wm .. today - 1 :
          /\ \A d \in wm + 1 .. next : bronze[d] = "whole"
          /\ wm' = next
    /\ meta \in {0, today}
    /\ event' = meta
    /\ UNCHANGED <<today, bronze, promotions, tables, silverWm, boot, markers,
                   docs, daily, load>>

-----------------------------------------------------------------------------
(* _process_range: the Bronze scan, then the quarantine table, then the     *)
(* main table, each replaced over the declared range, dates without rows    *)
(* included.                                                                *)

Scan(r) == [d \in Dates |-> IF InRange(d, r) THEN bronze[d] ELSE "none"]

ReplaceRange(table, r, rows) ==
    [d \in Dates |-> IF InRange(d, r) THEN rows[d] ELSE table[d]]

Holders == {j \in {"daily", "chunk"} :
               IF j = "daily" THEN daily.pc \notin {"idle", "queued"}
               ELSE load.pc \in {"audit", "main", "mark"}}
\* Mutant: the pool is not enforced.
NoPool == TRUE
SlotFree == Cardinality(Holders) < Slots

-----------------------------------------------------------------------------
(* silver_rental_history: resolve_bronze_promotion_metadata takes the       *)
(* latest of the updates that triggered the run; the job reads both         *)
(* watermarks and works on the capped range between them.                   *)

DailyUnchanged == UNCHANGED <<today, bronze, wm, promotions, markers, boot, load>>

DailyTrigger ==
    /\ daily.pc = "idle"
    /\ event # NoEvent
    /\ event' = NoEvent
    /\ daily' = [IdleDaily EXCEPT !.pc = "queued", !.meta = event]
    /\ UNCHANGED <<tables, silverWm, docs>> /\ DailyUnchanged

ConfirmedRange ==
    [lo |-> silverWm + 1, hi |-> Min({wm, silverWm + MaxDays})]

\* Mutant: the running day is taken to be the day before the run.
DayBefore(meta) == [lo |-> meta - 1, hi |-> meta - 1]
DayOf(meta) == [lo |-> meta, hi |-> meta]
IsEmpty(r) == r.hi < r.lo

(* Without a confirmed range and without metadata the job returns at once;  *)
(* without T0 the metadata is not looked at.                                *)
DailyBegin(t0) ==
    /\ daily.pc = "queued"
    /\ SlotFree
    /\ LET day == IF t0 THEN daily.meta ELSE 0 IN
       daily' = IF IsEmpty(ConfirmedRange)
                THEN IF day = 0 THEN IdleDaily
                     ELSE [daily EXCEPT !.pc = "t0", !.day = day,
                                        !.through = silverWm]
                ELSE [daily EXCEPT !.pc = "scan", !.day = day,
                                   !.confirmed = ConfirmedRange,
                                   !.through = ConfirmedRange.hi,
                                   !.range = ConfirmedRange]
    /\ UNCHANGED <<event, tables, silverWm, docs>> /\ DailyUnchanged

DailyScan ==
    /\ daily.pc \in {"scan", "scan_t0"}
    /\ daily' = [daily EXCEPT !.read = Scan(daily.range),
                    !.pc = IF @ = "scan" THEN "audit" ELSE "audit_t0"]
    /\ UNCHANGED <<event, tables, silverWm, docs>> /\ DailyUnchanged

DailyQuarantine ==
    /\ daily.pc \in {"audit", "audit_t0"}
    /\ quarantine' = ReplaceRange(quarantine, daily.range, daily.read)
    /\ daily' = [daily EXCEPT !.pc = IF @ = "audit" THEN "main" ELSE "main_t0"]
    /\ UNCHANGED <<event, silver, silverWm, docs>> /\ DailyUnchanged

(* The running day follows the confirmed range, the watermark follows both. *)
DailyReplace ==
    /\ daily.pc \in {"main", "main_t0"}
    /\ silver' = ReplaceRange(silver, daily.range, daily.read)
    /\ daily' = [daily EXCEPT !.read = Nothing, !.range = NoRange,
                              !.pc = IF @ = "main" THEN "t0" ELSE "write"]
    /\ UNCHANGED <<event, quarantine, silverWm, docs>> /\ DailyUnchanged

(* _prepare_current_day_promotion: the day is processed like any range if   *)
(* the promotion document that the update names says t0_enabled.            *)
DailyCurrentDay ==
    /\ daily.pc = "t0"
    /\ daily' = IF daily.day \in promotions
                THEN [daily EXCEPT !.pc = "scan_t0", !.range = DayOf(daily.day)]
                ELSE [daily EXCEPT !.pc = "write", !.day = 0]
    /\ UNCHANGED <<event, tables, silverWm, docs>> /\ DailyUnchanged

\* Mutant: the watermark goes to the Bronze watermark, capped or not.
WriteUncapped == IF IsEmpty(daily.confirmed) THEN silverWm ELSE wm
\* Only a run with a confirmed range writes the watermark.
WrittenWatermark == IF IsEmpty(daily.confirmed) THEN silverWm ELSE daily.confirmed.hi

DailyWriteWatermark ==
    /\ daily.pc = "write"
    /\ silverWm' = WrittenWatermark
    /\ boot' = (boot \/ ~IsEmpty(daily.confirmed))
    /\ daily' = IF daily.day = 0 THEN IdleDaily ELSE [daily EXCEPT !.pc = "doc"]
    /\ UNCHANGED <<today, bronzeVars, tables, markers, docs, load>>

(* The Silver promotion document comes last.                                *)
DailyDoc ==
    /\ daily.pc = "doc"
    /\ docs' = [docs EXCEPT ![daily.day] = daily.through]
    /\ daily' = IdleDaily
    /\ UNCHANGED <<event, tables, silverWm>> /\ DailyUnchanged

(* A failed validation, a rejected commit or a dead worker: the task starts *)
(* again with the same metadata, or the run is given up.                    *)
DailyFail ==
    /\ daily.pc \notin {"idle", "queued"}
    /\ \/ daily' = IdleDaily
       \/ daily' = [IdleDaily EXCEPT !.pc = "queued", !.meta = daily.meta]
    /\ UNCHANGED <<event, tables, silverWm, docs>> /\ DailyUnchanged

-----------------------------------------------------------------------------
(* initial_load: the files, the Bronze watermark given by hand, the first   *)
(* Silver watermark, the plan, the chunks, the finalizer.                   *)

LoadUnchanged == UNCHANGED <<today, promotions, event, docs, daily>>

LoadTrigger(from) ==
    /\ load.pc \in {"idle", "done", "failed"}
    /\ load.runs < MaxLoads
    /\ load' = [IdleLoad EXCEPT !.pc = "files", !.runs = load.runs + 1,
                                !.from = from]
    /\ UNCHANGED <<bronze, wm, tables, silverWm, boot, markers>> /\ LoadUnchanged

(* initial_load_rental_history replaces the partitions that occur in a      *)
(* file; the next task runs when all of them succeeded.                     *)
LoadFile(d) ==
    /\ load.pc = "files"
    /\ d \in load.from .. LoadedTo
    /\ bronze[d] # "whole"
    /\ bronze' = [bronze EXCEPT ![d] = "whole"]
    /\ UNCHANGED <<load, wm, tables, silverWm, boot, markers>> /\ LoadUnchanged

LoadFilesDone ==
    /\ load.pc = "files"
    /\ \A d \in load.from .. LoadedTo : bronze[d] = "whole"
    /\ load' = [load EXCEPT !.pc = "watermarks", !.left = {"set", "bootstrap"}]
    /\ UNCHANGED <<bronze, wm, tables, silverWm, boot, markers>> /\ LoadUnchanged

(* set_watermark writes the date it is given, whatever the watermark was.   *)
LoadSetWatermark ==
    /\ load.pc = "watermarks" /\ "set" \in load.left
    /\ wm' = LoadedTo
    /\ load' = [load EXCEPT !.left = @ \ {"set"}]
    /\ UNCHANGED <<bronze, tables, silverWm, boot, markers>> /\ LoadUnchanged

\* Mutant: the watermark is put one day too far back.
FirstWatermarkTwoBack == Min({d \in Dates : bronze[d] # "none"}) - 2
\* The day before the first Bronze partition.
FirstWatermark == Min({d \in Dates : bronze[d] # "none"}) - 1

(* bootstrap_silver_watermark does nothing if there is a watermark already. *)
LoadBootstrap ==
    /\ load.pc = "watermarks" /\ "bootstrap" \in load.left
    /\ silverWm' = IF boot THEN silverWm ELSE FirstWatermark
    /\ boot' = TRUE
    /\ load' = [load EXCEPT !.left = @ \ {"bootstrap"}]
    /\ UNCHANGED <<bronze, wm, tables, markers>> /\ LoadUnchanged

\* Mutant: the Bronze watermark is taken as the first date that is missing.
BuildRangesPast(after, upto, size) ==
    {r \in Ranges :
        /\ after < r.lo /\ r.lo <= upto + 1
        /\ (r.lo - after - 1) % size = 0
        /\ r.hi = Min({r.lo + size - 1, upto + 1})}

(* build_ranges: from the day after the Silver watermark to the Bronze      *)
(* watermark in steps of the chunk size, the last chunk cut short.          *)
BuildRanges(after, upto, size) ==
    {r \in Ranges :
        /\ after < r.lo /\ r.lo <= upto
        /\ (r.lo - after - 1) % size = 0
        /\ r.hi = Min({r.lo + size - 1, upto})}

(* is_range_complete: the marker of exactly this range; another chunk size  *)
(* finds other ranges and hence no marker.                                  *)
IsRangeComplete(r) == r \in markers

(* select_pending_ranges leaves out the ranges that are complete.           *)
LoadPlan(size) ==
    /\ load.pc = "watermarks" /\ load.left = {}
    /\ LET plan == BuildRanges(silverWm, wm, size) IN
       load' = [load EXCEPT !.pc = "chunks", !.upto = wm, !.plan = plan,
                            !.todo = {r \in plan : ~IsRangeComplete(r)}]
    /\ UNCHANGED <<bronze, wm, tables, silverWm, boot, markers>> /\ LoadUnchanged

(* The mapped chunks run one at a time, in any order.                       *)
ChunkBegin(r) ==
    /\ load.pc = "chunks"
    /\ r \in load.todo
    /\ SlotFree
    /\ load' = [load EXCEPT !.pc = "audit", !.chunk = r, !.read = Scan(r)]
    /\ UNCHANGED <<bronze, wm, tables, silverWm, boot, markers>> /\ LoadUnchanged

ChunkQuarantine ==
    /\ load.pc = "audit"
    /\ quarantine' = ReplaceRange(quarantine, load.chunk, load.read)
    /\ load' = [load EXCEPT !.pc = "main"]
    /\ UNCHANGED <<bronze, wm, silver, silverWm, boot, markers>> /\ LoadUnchanged

ChunkReplace ==
    /\ load.pc = "main"
    /\ silver' = ReplaceRange(silver, load.chunk, load.read)
    /\ load' = [load EXCEPT !.pc = "mark"]
    /\ UNCHANGED <<bronze, wm, quarantine, silverWm, boot, markers>>
    /\ LoadUnchanged

ChunkLeft == [load EXCEPT !.pc = "chunks", !.todo = @ \ {load.chunk},
                          !.chunk = NoRange, !.read = Nothing]

ChunkMark ==
    /\ load.pc = "mark"
    /\ markers' = markers \cup {load.chunk}
    /\ load' = ChunkLeft
    /\ UNCHANGED <<bronze, wm, tables, silverWm, boot>> /\ LoadUnchanged

(* The chunk fails at any point; Airflow starts it again or gives it up.    *)
ChunkFail ==
    /\ load.pc \in {"audit", "main", "mark"}
    /\ \/ load' = ChunkLeft
       \/ load' = [load EXCEPT !.pc = "chunks", !.chunk = NoRange,
                               !.read = Nothing]
    /\ UNCHANGED <<bronze, wm, tables, silverWm, boot, markers>> /\ LoadUnchanged

\* Mutant: the finalizer takes the last completed chunk, gaps or not.
ConfirmedAnyway(before) ==
    {r \in load.plan : before < r.hi /\ IsRangeComplete(r)}

(* confirmed_ranges: the chunks behind the watermark are passed over, then  *)
(* the completed ones up to the first gap.                                  *)
ConfirmedRanges(before) ==
    {r \in load.plan :
        before < r.hi /\ \A q \in load.plan :
                            before < q.hi /\ q.lo <= r.lo => IsRangeComplete(q)}

\* Mutant: a gap that stopped the finalizer is not an error.
OutcomeIgnored(next) == "done"
Outcome(next) == IF next >= load.upto THEN "done" ELSE "failed"

(* The finalizer reads the Silver watermark and the markers; a gap in the   *)
(* plan fails the run ...                                                   *)
FinalizerRead ==
    /\ load.pc = "chunks"
    /\ load.todo = {}
    /\ LET next == Max({silverWm} \cup {r.hi : r \in ConfirmedRanges(silverWm)})
       IN load' = [load EXCEPT !.next = next,
                      !.pc = IF next > silverWm THEN "write" ELSE Outcome(next)]
    /\ UNCHANGED <<bronze, wm, tables, silverWm, boot, markers>> /\ LoadUnchanged

(* ... after the watermark was written.                                     *)
FinalizerWrite ==
    /\ load.pc = "write"
    /\ silverWm' = load.next
    /\ load' = [load EXCEPT !.pc = Outcome(load.next)]
    /\ UNCHANGED <<bronze, wm, tables, boot, markers>> /\ LoadUnchanged

LoadFail ==
    /\ load.pc \in {"files", "watermarks", "write"}
    /\ load' = [load EXCEPT !.pc = "failed"]
    /\ UNCHANGED <<bronze, wm, tables, silverWm, boot, markers>> /\ LoadUnchanged

-----------------------------------------------------------------------------
BronzeNext ==
    \/ \E t0 \in T0Flags : BronzePromote(t0)
    \/ \E meta \in 0 .. LastDay : BronzeConfirm(meta)

DailyNext ==
    \/ DailyTrigger \/ \E t0 \in T0Flags : DailyBegin(t0)
    \/ DailyScan \/ DailyQuarantine \/ DailyReplace \/ DailyCurrentDay
    \/ DailyWriteWatermark \/ DailyDoc \/ DailyFail

LoadNext ==
    \/ \E from \in LoadFroms : LoadTrigger(from)
    \/ \E d \in Dates : LoadFile(d)
    \/ LoadFilesDone \/ LoadSetWatermark \/ LoadBootstrap
    \/ \E size \in ChunkSizes : LoadPlan(size)
    \/ \E r \in Ranges : ChunkBegin(r)
    \/ ChunkQuarantine \/ ChunkReplace \/ ChunkMark \/ ChunkFail
    \/ FinalizerRead \/ FinalizerWrite \/ LoadFail

Next == Midnight \/ BronzeNext \/ DailyNext \/ LoadNext

Spec == Init /\ [][Next]_vars

-----------------------------------------------------------------------------
(* Properties *)

Contents3 == [Dates -> Contents]
SomeRange == [lo : 1 .. LastDay + 1, hi : 0 .. LastDay]
DailyRuns ==
    [pc : {"idle", "queued", "scan", "scan_t0", "audit", "audit_t0", "main",
           "main_t0", "t0", "write", "doc"},
     meta : 0 .. LastDay, day : 0 .. LastDay, confirmed : SomeRange,
     through : 0 .. LastDay, range : SomeRange, read : Contents3]
LoadRuns ==
    [pc : {"idle", "files", "watermarks", "chunks", "audit", "main", "mark",
           "write", "done", "failed"},
     runs : Nat, from : Dates, left : SUBSET {"set", "bootstrap"},
     upto : 0 .. LastDay, plan : SUBSET Ranges, todo : SUBSET Ranges,
     chunk : SomeRange, read : Contents3, next : 0 .. LastDay]

(* Every variable stays in its domain; the watermark never leaves the       *)
(* horizon of the dates Bronze may hold.                                    *)
TypeOK ==
    /\ today \in Dates
    /\ bronze \in Contents3 /\ silver \in Contents3 /\ quarantine \in Contents3
    /\ wm \in 0 .. LastDay /\ silverWm \in 0 .. LastDay
    /\ promotions \subseteq Dates /\ event \in -1 .. LastDay
    /\ boot \in BOOLEAN /\ markers \subseteq Ranges
    /\ docs \in [Dates -> -1 .. LastDay]
    /\ daily \in DailyRuns /\ load \in LoadRuns

(* Behind the Silver watermark both tables hold whole days: the partial day *)
(* of a T0 promotion never stays there, whichever of the daily run, the     *)
(* chunks and the finalizer moved the watermark and wherever the others     *)
(* were (the run of a range and the later run of the same range converge).  *)
ConfirmedSilverIsWhole ==
    \A d \in 1 .. silverWm : silver[d] = "whole" /\ quarantine[d] = "whole"

(* A completion marker says that its range was replaced in both tables by   *)
(* the confirmed rows (silver_rental_history_completion.py), so the planner *)
(* may leave the range out in every later run.                              *)
MarkersMeanReplaced ==
    \A r \in markers : \A d \in r.lo .. r.hi :
        silver[d] = "whole" /\ quarantine[d] = "whole"

(* The Silver promotion document of a run date is the last thing written:   *)
(* the day is there and so is all that confirmed_through names.             *)
PromotionDocumentsLast ==
    \A r \in Dates : docs[r] # NoDoc =>
        /\ silver[r] # "none"
        /\ \A d \in 1 .. docs[r] : silver[d] = "whole"

(* An initial load that ended without an error left every date of its files *)
(* and of its plan in Silver, whatever chunks it could skip (initial_load:  *)
(* no other run is needed to fill Silver).                                  *)
FinishedLoadReachesSilver ==
    load.pc = "done" => \A d \in load.from .. Max({LoadedTo, load.upto}) :
                            silver[d] = "whole"

(* Seen from its readers the watermark is a mark over the whole days.       *)
Prefix == INSTANCE ConfirmedPrefix WITH
    Last <- LastDay, Layers <- {"silver"},
    backed <- {d \in Dates : silver[d] = "whole"},
    mark <- [l \in {"silver"} |-> silverWm]
SilverImplementsPrefix == Prefix!Spec
=============================================================================
