--------------------------- MODULE RentalSnapshots ---------------------------
(***************************************************************************)
(* The Raw area of the rental history source and the policy that decides   *)
(* which observation of a date may reach Bronze                            *)
(* (ingestion/jobs/rental_history_snapshot_policy.py and the window and    *)
(* status rules of ingestion/jobs/collect_rental_history_raw.py).          *)
(*                                                                         *)
(* A date is a natural number.  An observation of a date is identified by  *)
(* its Raw key: the date it is about, the date of the run that collected   *)
(* it, and the collector.  The three collectors have fixed times of day:   *)
(* raw_preliminary at 04:00, the daily batch at 05:30, the catch-up at the *)
(* logical instant 23:59:59 of the date itself.                            *)
(***************************************************************************)
EXTENDS Integers

CONSTANTS
    LastDay,          \* the horizon: dates 1 .. LastDay
    MaxDays,          \* MAX_DAYS_PER_RUN of the daily batch
    T0Enabled,        \* RENTAL_HISTORY_T0_ENABLED
    FallbackEnabled   \* RENTAL_HISTORY_FALLBACK_ENABLED

ASSUME HorizonAssumption == LastDay \in Nat /\ MaxDays \in Nat \ {0}
ASSUME FlagAssumption == T0Enabled \in BOOLEAN /\ FallbackEnabled \in BOOLEAN

Dates == 1 .. LastDay

(* What a manifest records.  COMPLETE stands for status COMPLETE with a    *)
(* valid schema, INVALID for status COMPLETE with schema_valid false; both *)
(* have rows.  NONE: no manifest under this key.                           *)
Outcomes == {"COMPLETE", "INVALID", "COMPLETE_EMPTY", "INCOMPLETE"}
ManifestStatus == Outcomes \cup {"NONE"}

Collectors == {"PRELIMINARY", "DAILY", "CATCHUP"}

Keys == {k \in [date : Dates, run : Dates, by : Collectors] :
            /\ k.date <= k.run
            /\ k.by = "CATCHUP" => k.date = k.run
            /\ k.by = "PRELIMINARY" => k.run - 1 <= k.date}

NoKey == [date |-> 0, run |-> 0, by |-> "NONE"]

DailyKey(d, r) == [date |-> d, run |-> r, by |-> "DAILY"]
PreliminaryKey(d, r) == [date |-> d, run |-> r, by |-> "PRELIMINARY"]
CatchupKey(d) == [date |-> d, run |-> d, by |-> "CATCHUP"]

(* Order of observed_at among the observations of one date. *)
ObservedAt(k) ==
    3 * k.run + (CASE k.by = "PRELIMINARY" -> 0
                   [] k.by = "DAILY" -> 1
                   [] OTHER -> 2)

(* Hours 0-23, as expected_hours demands of a confirmed date; an           *)
(* observation of the running day stops at the hour it was made.           *)
FullDay(k) == k.date < k.run \/ k.by = "CATCHUP"

(* A manifest that may not be collected again: collect_snapshot returns it *)
(* as it is and the API is not called.                                     *)
Reusable(status) == status = "COMPLETE"

-----------------------------------------------------------------------------
(* The windows of a daily run of date r that reads watermark w. *)

\* Mutant: the window, and with it the cap, begins at the watermark.
WindowFromWatermark(w, r) == {d \in Dates : w <= d /\ d < r /\ d < w + MaxDays}

ConfirmedWindow(w, r) == {d \in Dates : w < d /\ d < r /\ d <= w + MaxDays}

CollectionWindow(w, r) == ConfirmedWindow(w, r) \cup {r}

RequiredWindow(w, r) ==
    ConfirmedWindow(w, r) \cup (IF T0Enabled THEN {r} ELSE {})

(* The observations a run of date r may promote for date d: its own FINAL  *)
(* one, otherwise a preliminary one of the same morning, for the running   *)
(* day and the day before only.  At most one.                              *)
Candidates(raw, d, r) ==
    IF raw[DailyKey(d, r)] = "COMPLETE" THEN {DailyKey(d, r)}
    ELSE {k \in {PreliminaryKey(d, r)} :
             FallbackEnabled /\ d \in {r, r - 1} /\ raw[k] = "COMPLETE"}

\* Mutant: only the day before the run is checked, the rest of the window is
\* taken as far as it goes.
MissingYesterday(raw, w, r) ==
    {d \in RequiredWindow(w, r) : d = r - 1 /\ Candidates(raw, d, r) = {}}

Missing(raw, w, r) == {d \in RequiredWindow(w, r) : Candidates(raw, d, r) = {}}

Selected(raw, w, r) == UNION {Candidates(raw, d, r) : d \in RequiredWindow(w, r)}

(* The dates of a promotion that may be confirmed: whole days before the   *)
(* run date.                                                               *)
FullDayPartitions(promoted, r) ==
    {k.date : k \in {p \in promoted : FullDay(p) /\ p.date < r}}
=============================================================================
