---------------------------- MODULE FailureReport ----------------------------
(***************************************************************************)
(* Failure reports on their way from the public API to Bronze and Silver.  *)
(* Bronze is partitioned by the date a request asks for, Silver by the     *)
(* date of the report: one response carries the reports of Span days from  *)
(* the requested date on, so a report is found under several request dates *)
(* and Silver has to collect it from any of them.                          *)
(*                                                                         *)
(*   daily_batch_failure_report     watermark + 1 .. yesterday, one        *)
(*                                  marker and one watermark put a day     *)
(*   bronze_catchup_all_sources     the dates without an accepted marker,  *)
(*                                  then the watermark over the markers    *)
(*   silver_failure_report          a backlog that moves the watermark and *)
(*                                  a sliding window that does not         *)
(*                                                                         *)
(* The three share two watermarks and two tables without a lock.  A        *)
(* request, a commit and a put are separate steps.                         *)
(***************************************************************************)
EXTENDS Integers

CONSTANTS
    ReportDays,      \* the dates on which something is reported
    LastDay,         \* the horizon: dates 1 .. LastDay
    FirstDay,        \* the date on which the DAGs are switched on
    LoadedTo,        \* the last date of the initial load
    MaxDelay,        \* days after which a report may still appear in the API
    Span,            \* SLIDING_WINDOW_DAYS, the days one response covers
    MaxDays,         \* MAX_DAYS_PER_RUN of the Bronze job
    SilverMaxDays,   \* MAX_DAYS_PER_RUN of the Silver job
    T0Enabled,       \* FAILURE_REPORT_T0_ENABLED
    RunLag           \* midnights a daily run may live through

Dates == 1 .. LastDay

ASSUME HorizonAssumption ==
    LastDay \in Nat /\ FirstDay \in Dates /\ LoadedTo \in Nat /\ LoadedTo < FirstDay
ASSUME ReportAssumption == ReportDays \subseteq Dates /\ MaxDelay \in Nat
ASSUME WindowAssumption ==
    /\ Span \in Nat \ {0} /\ MaxDays \in Nat \ {0} /\ SilverMaxDays \in Nat \ {0}
    /\ T0Enabled \in BOOLEAN /\ RunLag \in Nat

VARIABLES
    today,       \* the date in Seoul
    reported,    \* date from which the API shows the report of a day, 0: not there
    bronze,      \* for each request date the reports in its partition
    wm,          \* the Bronze watermark
    marker,      \* status of the completion marker of each date
    daily,       \* the run of daily_batch_failure_report
    catchup,     \* the run of bronze_catchup_all_sources
    asset,       \* FAILURE_REPORT_BRONZE has an update nobody consumed
    silver,      \* reports in silver.failure_report
    silverWm,    \* the Silver watermark
    silverRun    \* the run of silver_failure_report

silverVars == <<silver, silverWm, silverRun>>
vars == <<today, reported, bronze, wm, marker, daily, catchup, asset, silverVars>>

NoDaily == [pc |-> "idle", run |-> 0, next |-> 0, last |-> 0, rows |-> {}]
NoCatchup == [pc |-> "idle", target |-> 0, todo |-> {}, date |-> 0, rows |-> {},
              after |-> 0, complete |-> FALSE]
NoSilver == [pc |-> "idle", bronzeWm |-> 0, silverWm |-> 0, cutoff |-> 0, last |-> 0,
             rows |-> {}]

Later(a, b) == IF a < b THEN b ELSE a
Earlier(a, b) == IF a < b THEN a ELSE b

(* What the API answers now to a request for date q.                       *)
Response(q) == {d \in ReportDays : reported[d] # 0 /\ q <= d /\ d <= q + Span - 1}

(* overwrite_partition; an empty response leaves the partition alone.      *)
Loaded(q, rows) == IF rows = {} THEN bronze ELSE [bronze EXCEPT ![q] = rows]

Status(rows) == IF rows = {} THEN "COMPLETE_EMPTY" ELSE "COMPLETE"
Accepted(d) == marker[d] \in {"COMPLETE", "COMPLETE_EMPTY"}

(* Something was reported before the DAGs were switched on, and the files  *)
(* of the initial load hold it by its own date.  bootstrap_silver_watermark *)
(* puts the Silver watermark before the first Bronze partition.            *)
Init ==
    /\ today = FirstDay
    /\ reported \in [ReportDays -> {0} \cup ReportDays]
    /\ \A d \in ReportDays : reported[d] # 0 => reported[d] = d /\ d < FirstDay
    /\ bronze = [q \in Dates |-> {d \in ReportDays : d = q /\ q <= LoadedTo /\ reported[d] # 0}]
    /\ wm = LoadedTo
    /\ marker = [d \in Dates |-> "none"]
    /\ daily = NoDaily
    /\ catchup = NoCatchup
    /\ asset = FALSE
    /\ silver = {}
    /\ silverWm = 0
    /\ silverRun = NoSilver

(* Midnight; RunLag bounds how long a daily run may linger.                *)
Midnight ==
    /\ today < LastDay
    /\ daily.pc # "idle" => today < daily.run + RunLag
    /\ today' = today + 1
    /\ UNCHANGED <<reported, bronze, wm, marker, daily, catchup, asset, silverVars>>

(* The API begins to show the report of day d.                             *)
Report(d) ==
    /\ reported[d] = 0
    /\ d <= today
    /\ today <= d + MaxDelay
    /\ reported' = [reported EXCEPT ![d] = today]
    /\ UNCHANGED <<today, bronze, wm, marker, daily, catchup, asset, silverVars>>

-----------------------------------------------------------------------------
(* daily_batch_failure_report *)

\* Mutant: the cap replaces the end of the window.
WindowEndCapped(run, first) == first + MaxDays - 1

DailyWindowEnd(run, first) == Earlier(run - 1, first + MaxDays - 1)

AfterWindow(run) ==
    [NoDaily EXCEPT !.pc = IF T0Enabled THEN "t0" ELSE "publish", !.run = run]

(* The job is started, or started again after it died.  The DAG hands it   *)
(* no cutoff, so every attempt takes the date from the clock.              *)
DailyStart ==
    /\ daily.pc = "idle"
    /\ LET first == wm + 1
           last == DailyWindowEnd(today, first)
       IN  daily' = IF first > last THEN AfterWindow(today)
                    ELSE [NoDaily EXCEPT !.pc = "fetch", !.run = today,
                                         !.next = first, !.last = last]
    /\ UNCHANGED <<today, reported, bronze, wm, marker, catchup, asset, silverVars>>

DailyFetch ==
    /\ daily.pc = "fetch"
    /\ daily' = [daily EXCEPT !.pc = "commit", !.rows = Response(daily.next)]
    /\ UNCHANGED <<today, reported, bronze, wm, marker, catchup, asset, silverVars>>

DailyCommit ==
    /\ daily.pc = "commit"
    /\ bronze' = Loaded(daily.next, daily.rows)
    /\ daily' = [daily EXCEPT !.pc = "mark"]
    /\ UNCHANGED <<today, reported, wm, marker, catchup, asset, silverVars>>

DailyMark ==
    /\ daily.pc = "mark"
    /\ marker' = [marker EXCEPT ![daily.next] = Status(daily.rows)]
    /\ daily' = [daily EXCEPT !.pc = "watermark", !.rows = {}]
    /\ UNCHANGED <<today, reported, bronze, wm, catchup, asset, silverVars>>

(* The put of a date, whatever the catch-up has put in the meantime.       *)
DailyWatermark ==
    /\ daily.pc = "watermark"
    /\ wm' = daily.next
    /\ daily' = IF daily.next < daily.last
                THEN [daily EXCEPT !.pc = "fetch", !.next = @ + 1]
                ELSE AfterWindow(daily.run)
    /\ UNCHANGED <<today, reported, bronze, marker, catchup, asset, silverVars>>

(* The API or the schema of its answer fails: marker FAILED, then exit.    *)
DailyApiError ==
    /\ daily.pc \in {"fetch", "commit"}
    /\ marker' = [marker EXCEPT ![daily.next] = "FAILED"]
    /\ daily' = NoDaily
    /\ UNCHANGED <<today, reported, bronze, wm, catchup, asset, silverVars>>

(* The partition of the current date, with no marker and no watermark.     *)
DailyFetchT0 ==
    /\ daily.pc = "t0"
    /\ daily' = [daily EXCEPT !.pc = "commitT0", !.rows = Response(daily.run)]
    /\ UNCHANGED <<today, reported, bronze, wm, marker, catchup, asset, silverVars>>

DailyCommitT0 ==
    /\ daily.pc = "commitT0"
    /\ bronze' = Loaded(daily.run, daily.rows)
    /\ daily' = [daily EXCEPT !.pc = "publish", !.rows = {}]
    /\ UNCHANGED <<today, reported, wm, marker, catchup, asset, silverVars>>

(* The task succeeds: its outlet is updated.                               *)
DailyPublish ==
    /\ daily.pc = "publish"
    /\ asset' = TRUE
    /\ daily' = NoDaily
    /\ UNCHANGED <<today, reported, bronze, wm, marker, catchup, silverVars>>

(* Any other exception, or the process dies; a failing request for the     *)
(* current date ends here too.                                             *)
DailyDies ==
    /\ daily.pc # "idle"
    /\ daily' = NoDaily
    /\ UNCHANGED <<today, reported, bronze, wm, marker, catchup, asset, silverVars>>

DailyNext ==
    \/ DailyStart \/ DailyFetch \/ DailyCommit \/ DailyMark \/ DailyWatermark
    \/ DailyApiError \/ DailyFetchT0 \/ DailyCommitT0 \/ DailyPublish \/ DailyDies

-----------------------------------------------------------------------------
(* bronze_catchup_all_sources, the part for failure_report *)

(* check_bronze_gap: the dates up to the day before yesterday.             *)
CatchupStart ==
    /\ catchup.pc = "idle"
    /\ LET target == today - 2
       IN  catchup' = [NoCatchup EXCEPT !.pc = "dates", !.target = target,
                !.todo = {d \in Dates : wm < d /\ d <= target /\ ~Accepted(d)}]
    /\ UNCHANGED <<today, reported, bronze, wm, marker, daily, asset, silverVars>>

(* The mapped tasks run one at a time and in no given order.               *)
CatchupFetch(d) ==
    /\ catchup.pc = "dates"
    /\ d \in catchup.todo
    /\ catchup' = [catchup EXCEPT !.pc = "commit", !.date = d, !.rows = Response(d)]
    /\ UNCHANGED <<today, reported, bronze, wm, marker, daily, asset, silverVars>>

CatchupCommit ==
    /\ catchup.pc = "commit"
    /\ bronze' = Loaded(catchup.date, catchup.rows)
    /\ catchup' = [catchup EXCEPT !.pc = "mark"]
    /\ UNCHANGED <<today, reported, wm, marker, daily, asset, silverVars>>

CatchupMark ==
    /\ catchup.pc = "mark"
    /\ marker' = [marker EXCEPT ![catchup.date] = Status(catchup.rows)]
    /\ catchup' = [catchup EXCEPT !.pc = "dates", !.todo = @ \ {catchup.date},
                                  !.date = 0, !.rows = {}]
    /\ UNCHANGED <<today, reported, bronze, wm, daily, asset, silverVars>>

(* Any exception leaves a FAILED marker; a process that is killed leaves   *)
(* none.  The task is retried or has no retries left.                      *)
CatchupDateFails ==
    /\ catchup.pc \in {"commit", "mark"}
    /\ \/ catchup.pc = "commit" /\ marker' = [marker EXCEPT ![catchup.date] = "FAILED"]
       \/ marker' = marker
    /\ \E given_up \in {{}, {catchup.date}} :
          catchup' = [catchup EXCEPT !.pc = "dates", !.todo = @ \ given_up,
                                      !.date = 0, !.rows = {}]
    /\ UNCHANGED <<today, reported, bronze, wm, daily, asset, silverVars>>

\* Mutant: the newest accepted date rather than the contiguous ones.
NewestAccepted(after) == Accepted(after)

ContiguouslyAccepted(after) == \A d \in wm + 1 .. after : Accepted(d)

(* advance_completion_watermark runs whatever became of the dates: the     *)
(* last date of the contiguous accepted ones, 0 when there is none.        *)
CatchupReadMarkers ==
    /\ catchup.pc = "dates"
    /\ catchup.todo = {}
    /\ \E after \in 0 .. LastDay :
          LET confirmed == {d \in Dates : wm < d /\ d <= catchup.target /\ ContiguouslyAccepted(d)}
          IN  /\ after \in confirmed \cup {0}
              /\ \A d \in confirmed : d <= after
              /\ catchup' = [catchup EXCEPT !.pc = "advance", !.after = after,
                                !.complete = Later(wm, after) >= catchup.target]
    /\ UNCHANGED <<today, reported, bronze, wm, marker, daily, asset, silverVars>>

(* The watermark is put only when it moves relative to the one that was    *)
(* read.                                                                   *)
Advanced == IF catchup.after = 0 THEN wm ELSE catchup.after

CatchupAdvance ==
    /\ catchup.pc = "advance"
    /\ catchup.complete
    /\ wm' = Advanced
    /\ asset' = TRUE
    /\ catchup' = NoCatchup
    /\ UNCHANGED <<today, reported, bronze, marker, daily, silverVars>>

(* The task fails when the target is not reached, after the put; it may    *)
(* also die before or behind the put, and be retried.                      *)
CatchupAdvanceFails ==
    /\ catchup.pc = "advance"
    /\ wm' \in {wm, Advanced}
    /\ \/ catchup' = NoCatchup
       \/ catchup' = [catchup EXCEPT !.pc = "dates", !.after = 0, !.complete = FALSE]
    /\ UNCHANGED <<today, reported, bronze, marker, daily, asset, silverVars>>

CatchupNext ==
    \/ CatchupStart \/ CatchupCommit \/ CatchupMark \/ CatchupDateFails
    \/ CatchupReadMarkers \/ CatchupAdvance \/ CatchupAdvanceFails
    \/ \E d \in Dates : CatchupFetch(d)

-----------------------------------------------------------------------------
(* silver_failure_report *)

\* Mutant: one date between the backlog and the window belongs to neither.
BacklogWithGap(bronzeWm, cutoff) == Earlier(bronzeWm, cutoff - Span - 1)

(* The window is cutoff - Span + 1 .. cutoff; the backlog ends before it.  *)
WindowStart(cutoff) == cutoff - Span + 1
SettledEnd(bronzeWm, cutoff) == Earlier(bronzeWm, WindowStart(cutoff) - 1)
BacklogEnd(run, cutoff) ==
    Earlier(SettledEnd(run.bronzeWm, cutoff), run.silverWm + SilverMaxDays)

\* Mutant: the first date of the range is lost.
CollectedPastStart(from, to, cutoff) ==
    {d \in ReportDays : from < d /\ d <= to /\ d <= cutoff
                        /\ \E q \in Dates : from - (Span - 1) <= q /\ q <= to /\ d \in bronze[q]}

(* _process_range: reports of the dates from .. to, found under any        *)
(* request date that may carry them and not behind the cutoff.             *)
Collected(from, to, cutoff) ==
    {d \in ReportDays : from <= d /\ d <= to /\ d <= cutoff
                        /\ \E q \in Dates : from - (Span - 1) <= q /\ q <= to /\ d \in bronze[q]}

(* replace_range: the declared range is emptied even of dates that have no *)
(* rows now.                                                               *)
Replaced(from, to, rows) == {d \in silver : d < from \/ to < d} \cup rows

(* Pending updates of the asset start one run (max_active_runs = 1).       *)
SilverStart ==
    /\ silverRun.pc = "idle"
    /\ asset
    /\ asset' = FALSE
    /\ silverRun' = [NoSilver EXCEPT !.pc = "read"]
    /\ UNCHANGED <<today, reported, bronze, wm, marker, daily, catchup, silver, silverWm>>

SilverRead ==
    /\ silverRun.pc = "read"
    /\ silverRun' = [silverRun EXCEPT !.pc = "resolve", !.bronzeWm = wm,
                                        !.silverWm = silverWm]
    /\ UNCHANGED <<today, reported, bronze, wm, marker, daily, catchup, asset, silver, silverWm>>

(* The cutoff is the newest date Bronze has requested: its last partition  *)
(* or its watermark.                                                       *)
SilverResolve ==
    /\ silverRun.pc = "resolve"
    /\ \E cutoff \in 0 .. LastDay :
          LET requested == {silverRun.bronzeWm} \cup {q \in Dates : bronze[q] # {}}
              last == BacklogEnd(silverRun, cutoff)
              resolved == [silverRun EXCEPT !.pc = "scanWindow", !.cutoff = cutoff]
          IN  /\ cutoff \in requested
              /\ \A q \in requested : q <= cutoff
              /\ silverRun' = IF last <= silverRun.silverWm THEN resolved
                              ELSE [resolved EXCEPT !.pc = "scanBacklog", !.last = last]
    /\ UNCHANGED <<today, reported, bronze, wm, marker, daily, catchup, asset, silver, silverWm>>

SilverScanBacklog ==
    /\ silverRun.pc = "scanBacklog"
    /\ silverRun' = [silverRun EXCEPT !.pc = "backlog",
                        !.rows = Collected(silverRun.silverWm + 1, silverRun.last, silverRun.cutoff)]
    /\ UNCHANGED <<today, reported, bronze, wm, marker, daily, catchup, asset, silver, silverWm>>

SilverReplaceBacklog ==
    /\ silverRun.pc = "backlog"
    /\ silver' = Replaced(silverRun.silverWm + 1, silverRun.last, silverRun.rows)
    /\ silverRun' = [silverRun EXCEPT !.pc = "mark", !.rows = {}]
    /\ UNCHANGED <<today, reported, bronze, wm, marker, daily, catchup, asset, silverWm>>

\* Mutant: the watermark is a copy of Bronze's.
CopiedMark(run) == run.bronzeWm

(* The end of the range that was replaced.                                 *)
SettledMark(run) == run.last

SilverMark ==
    /\ silverRun.pc = "mark"
    /\ silverWm' = SettledMark(silverRun)
    /\ silverRun' = [silverRun EXCEPT !.pc = "scanWindow", !.last = 0]
    /\ UNCHANGED <<today, reported, bronze, wm, marker, daily, catchup, asset, silver>>

SilverScanWindow ==
    /\ silverRun.pc = "scanWindow"
    /\ silverRun' = [silverRun EXCEPT !.pc = "window",
          !.rows = Collected(WindowStart(silverRun.cutoff), silverRun.cutoff, silverRun.cutoff)]
    /\ UNCHANGED <<today, reported, bronze, wm, marker, daily, catchup, asset, silver, silverWm>>

(* The end of the run: the window moves no watermark.                      *)
SilverReplaceWindow ==
    /\ silverRun.pc = "window"
    /\ silver' = Replaced(WindowStart(silverRun.cutoff), silverRun.cutoff, silverRun.rows)
    /\ silverRun' = NoSilver
    /\ UNCHANGED <<today, reported, bronze, wm, marker, daily, catchup, asset, silverWm>>

(* Validation fails, too many rows lie behind the cutoff, or the process   *)
(* dies; the task is retried or has no retries left.                       *)
SilverDies ==
    /\ silverRun.pc # "idle"
    /\ \/ silverRun' = [NoSilver EXCEPT !.pc = "read"]
       \/ silverRun' = NoSilver
    /\ UNCHANGED <<today, reported, bronze, wm, marker, daily, catchup, asset, silver, silverWm>>

SilverNext ==
    \/ SilverStart \/ SilverRead \/ SilverResolve \/ SilverScanBacklog
    \/ SilverReplaceBacklog \/ SilverMark \/ SilverScanWindow \/ SilverReplaceWindow
    \/ SilverDies

-----------------------------------------------------------------------------
Next ==
    \/ Midnight
    \/ \E d \in ReportDays : Report(d)
    \/ DailyNext
    \/ CatchupNext
    \/ SilverNext

Spec == Init /\ [][Next]_vars

-----------------------------------------------------------------------------
(* Properties *)

Rows == SUBSET ReportDays
Marks == 0 .. LastDay

DailyRuns ==
    [pc : {"idle", "fetch", "commit", "mark", "watermark", "t0", "commitT0", "publish"},
     run : Marks, next : Marks, last : Marks, rows : Rows]
CatchupRuns ==
    [pc : {"idle", "dates", "commit", "mark", "advance"}, target : Int,
     todo : SUBSET Dates, date : Marks, rows : Rows, after : Marks, complete : BOOLEAN]
SilverRuns ==
    [pc : {"idle", "read", "resolve", "scanBacklog", "backlog", "mark", "scanWindow",
           "window"},
     bronzeWm : Marks, silverWm : Marks, cutoff : Marks, last : Marks, rows : Rows]

(* Every variable stays in its domain; no watermark and no window leaves   *)
(* the calendar.                                                           *)
TypeOK ==
    /\ today \in Dates
    /\ reported \in [ReportDays -> Nat]
    /\ bronze \in [Dates -> Rows]
    /\ wm \in Marks
    /\ marker \in [Dates -> {"none", "COMPLETE", "COMPLETE_EMPTY", "FAILED"}]
    /\ daily \in DailyRuns
    /\ catchup \in CatchupRuns
    /\ asset \in BOOLEAN
    /\ silver \in Rows
    /\ silverWm \in Marks
    /\ silverRun \in SilverRuns

(* A report the API showed on its own day.                                 *)
Punctual(d) == d \in ReportDays /\ reported[d] = d

(* The Bronze watermark never passes a date whose request missed one of    *)
(* its reports: neither job, whichever runs die and meet, confirms a date  *)
(* it has not loaded after the date was over                               *)
(* (bronze_catchup_all_sources_dag.py:1-5).                                *)
ConfirmedReportsInBronze ==
    \A d \in Dates : Punctual(d) /\ d <= wm => d \in bronze[d]

(* The Silver watermark never passes a date that is not settled: every     *)
(* report of such a date is in Silver, also while a run replaces the       *)
(* sliding window (silver_failure_report.py:652-657, 694-696).             *)
SettledReportsInSilver ==
    \A d \in Dates : Punctual(d) /\ d <= silverWm => d \in silver

(* No step of a Silver run drops a report of a date that was confirmed when *)
(* it read the Bronze watermark, however capped its backlog is and whatever *)
(* Bronze does meanwhile: the run that refills a range finds it again under *)
(* some request date (test_silver_failure_report_sliding_window.py:480).    *)
(* A report of a later date may be gone for a while: a late commit of the   *)
(* catch-up can take it out of the only partition that carried it.          *)
ReportsAreKept ==
    [][\A d \in silver : Punctual(d) /\ d <= silverRun.bronzeWm => d \in silver']_vars

(* A Silver run that ends has brought every report that was confirmed when *)
(* it began, by the backlog or by the window, unless its cap left a rest   *)
(* (silver_failure_report.py:86-89).                                       *)
SilverReflectsBronze ==
    [][SilverReplaceWindow /\ silverRun.bronzeWm <= silverRun.silverWm + SilverMaxDays
       => \A d \in Dates : Punctual(d) /\ d <= silverRun.bronzeWm => d \in silver']_vars

(* is_ready of the sensor in front of the risk features, for date s.       *)
SensorReady(s) == silverWm >= s - 1

(* The Silver watermark tells how far Silver has processed                 *)
(* (check_silver_watermark.py:16-17): after a run that processed every     *)
(* confirmed date the risk DAG of the next date need not wait.             *)
SensorSeesProgress ==
    [][SilverReplaceWindow =>
        \A s \in Dates : s - 1 <= silverRun.bronzeWm => SensorReady(s)']_vars
=============================================================================
