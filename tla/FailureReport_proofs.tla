------------------------- MODULE FailureReport_proofs -------------------------
(***************************************************************************)
(* Neither watermark of the failure reports passes a date whose reports    *)
(* are missing, for every horizon, span, cap and set of reports.           *)
(***************************************************************************)
EXTENDS FailureReport, TLAPS

USE DEF NoDaily, NoCatchup, NoSilver

(* With same-day loads a daily run overtakes at most one midnight.         *)
LagAssumption == T0Enabled => RunLag <= 1

(* Date d is over, and no run still loads it as its current date.          *)
Over(d) == d < today /\ (T0Enabled /\ daily.pc # "idle" => d < daily.run)

Complete(d, rows) == Punctual(d) => d \in rows

(* A safe date keeps its punctual reports in Bronze whatever happens.      *)
Safe(d) == Over(d) /\ Complete(d, bronze[d])
SafeUpTo(mark) == \A d \in Dates : d <= mark => Safe(d)

DailyPosition ==
    daily.pc # "idle" =>
        /\ daily.run \in Dates
        /\ daily.run <= today
        /\ T0Enabled => today <= daily.run + 1
        /\ daily.pc \in {"t0", "commitT0"} => T0Enabled
        /\ daily.pc \in {"fetch", "commit", "mark", "watermark"} =>
               daily.next \in Dates /\ daily.next <= daily.last /\ daily.last < daily.run

DailyHolds ==
    /\ daily.pc \in {"fetch", "commit", "mark", "watermark"} => SafeUpTo(daily.next - 1)
    /\ daily.pc = "commit" => Complete(daily.next, daily.rows)
    /\ daily.pc \in {"mark", "watermark"} => Safe(daily.next)

CatchupPosition ==
    catchup.pc # "idle" =>
        /\ catchup.target <= today - 2
        /\ \A d \in catchup.todo : d <= catchup.target
        /\ catchup.pc \in {"commit", "mark"} =>
               catchup.date \in Dates /\ catchup.date <= catchup.target

CatchupHolds ==
    /\ catchup.pc = "commit" => Complete(catchup.date, catchup.rows)
    /\ catchup.pc = "mark" => Safe(catchup.date)
    /\ SafeUpTo(catchup.after)

MarkersHold == \A d \in Dates : Accepted(d) => Safe(d)

BronzeInv ==
    /\ TypeOK /\ DailyPosition /\ DailyHolds /\ CatchupPosition /\ CatchupHolds
    /\ MarkersHold /\ SafeUpTo(wm)

(* The cap of the Silver job leaves no rest.                               *)
Uncapped == silverRun.bronzeWm <= silverRun.silverWm + SilverMaxDays

(* The range of the backlog lies between the two watermarks that were read *)
(* and before the window; without the cap it ends where the window begins. *)
SilverPosition ==
    /\ silverRun.pc \in {"scanBacklog", "backlog", "mark", "scanWindow", "window"} =>
           silverRun.bronzeWm <= silverRun.cutoff
    /\ silverRun.pc \in {"scanBacklog", "backlog", "mark"} =>
           /\ silverRun.silverWm < silverRun.last
           /\ silverRun.last <= silverRun.bronzeWm
           /\ silverRun.last <= silverRun.cutoff - Span
           /\ Uncapped => silverRun.last = SettledEnd(silverRun.bronzeWm, silverRun.cutoff)
    /\ silverRun.pc \in {"scanWindow", "window"} =>
           (Uncapped => SettledEnd(silverRun.bronzeWm, silverRun.cutoff) <= silverWm)

SilverReads ==
    silverRun.pc \in {"resolve", "scanBacklog", "backlog", "mark"} =>
        silverRun.silverWm = silverWm

SilverHolds ==
    /\ silverRun.pc = "backlog" =>
           \A d \in Dates : silverWm < d /\ d <= silverRun.last => Complete(d, silverRun.rows)
    /\ silverRun.pc = "mark" =>
           \A d \in Dates : silverWm < d /\ d <= silverRun.last => Complete(d, silver)
    /\ silverRun.pc = "window" =>
           \A d \in Dates : /\ d <= silverWm \/ d <= silverRun.bronzeWm
                            /\ WindowStart(silverRun.cutoff) <= d
                            /\ d <= silverRun.cutoff
                            => Complete(d, silverRun.rows)

SilverInv ==
    /\ SilverPosition /\ SilverReads /\ SilverHolds
    /\ SafeUpTo(silverRun.bronzeWm) /\ SafeUpTo(silverWm)
    /\ \A d \in Dates : d <= silverWm => Complete(d, silver)

-----------------------------------------------------------------------------
(* Types *)

LEMMA MarkFacts ==
    /\ \A m : m \in Marks <=> m \in Int /\ 0 <= m /\ m <= LastDay
    /\ \A d : d \in Dates <=> d \in Int /\ 1 <= d /\ d <= LastDay
    /\ 0 \in Marks
    /\ {} \in Rows
  BY HorizonAssumption DEF Marks, Dates, Rows

LEMMA TypeInit == Init => TypeOK
  <1> SUFFICES ASSUME Init PROVE TypeOK
    OBVIOUS
  <1>1. today \in Dates /\ wm \in Marks /\ silverWm \in Marks
    BY HorizonAssumption, MarkFacts DEF Init, Dates
  <1>2. reported \in [ReportDays -> Nat]
    <2>1. {0} \cup ReportDays \subseteq Nat
      BY ReportAssumption DEF Dates
    <2> QED BY <2>1 DEF Init
  <1>3. bronze \in [Dates -> Rows]
    BY DEF Init, Rows
  <1>4. daily \in DailyRuns /\ catchup \in CatchupRuns /\ silverRun \in SilverRuns
    BY MarkFacts DEF Init, DailyRuns, CatchupRuns, SilverRuns
  <1>5. marker \in [Dates -> {"none", "COMPLETE", "COMPLETE_EMPTY", "FAILED"}]
        /\ asset \in BOOLEAN /\ silver \in Rows
    BY MarkFacts DEF Init
  <1> QED BY <1>1, <1>2, <1>3, <1>4, <1>5 DEF TypeOK

LEMMA EarlierIsOneOfThem ==
    \A a, b \in Int : Earlier(a, b) \in Int /\ Earlier(a, b) <= a /\ Earlier(a, b) <= b
  BY DEF Earlier

LEMMA ResponseType == \A q : Response(q) \in Rows
  BY DEF Response, Rows

LEMMA LoadedType ==
    ASSUME bronze \in [Dates -> Rows], NEW q, NEW rows \in Rows
    PROVE  Loaded(q, rows) \in [Dates -> Rows]
  BY DEF Loaded

LEMMA StatusType == \A rows : Status(rows) \in {"COMPLETE", "COMPLETE_EMPTY"}
  BY DEF Status

LEMMA AfterWindowType == \A r \in Marks : AfterWindow(r) \in DailyRuns
  BY MarkFacts DEF AfterWindow, DailyRuns

(* The window of a daily run, if it has one, is in the past.               *)
LEMMA DailyWindow ==
    ASSUME TypeOK, ~(wm + 1 > DailyWindowEnd(today, wm + 1))
    PROVE  /\ wm + 1 \in Dates
           /\ DailyWindowEnd(today, wm + 1) \in Dates
           /\ wm + 1 <= DailyWindowEnd(today, wm + 1)
           /\ DailyWindowEnd(today, wm + 1) < today
  <1>1. today \in Int /\ 1 <= today /\ today <= LastDay /\ wm \in Int /\ 0 <= wm
    BY MarkFacts DEF TypeOK
  <1>2. DailyWindowEnd(today, wm + 1) \in Int /\ DailyWindowEnd(today, wm + 1) <= today - 1
    BY <1>1, WindowAssumption, EarlierIsOneOfThem DEF DailyWindowEnd
  <1>3. LastDay \in Int
    BY HorizonAssumption
  <1> HIDE DEF DailyWindowEnd
  <1> QED BY <1>1, <1>2, <1>3, MarkFacts

LEMMA DailyTypes == TypeOK /\ DailyNext => TypeOK'
  <1> SUFFICES ASSUME TypeOK, DailyNext PROVE TypeOK'
    OBVIOUS
  <1>0. daily \in DailyRuns /\ wm \in Marks /\ today \in Marks
        /\ bronze \in [Dates -> Rows]
        /\ marker \in [Dates -> {"none", "COMPLETE", "COMPLETE_EMPTY", "FAILED"}]
        /\ NoDaily \in DailyRuns
    BY MarkFacts DEF TypeOK, DailyRuns
  <1>1. CASE DailyStart
    <2>1. CASE wm + 1 > DailyWindowEnd(today, wm + 1)
      BY <1>0, <1>1, <2>1, AfterWindowType DEF DailyStart, silverVars, TypeOK
    <2>2. CASE ~(wm + 1 > DailyWindowEnd(today, wm + 1))
      <3>1. daily' = [pc |-> "fetch", run |-> today, next |-> wm + 1,
                      last |-> DailyWindowEnd(today, wm + 1), rows |-> {}]
        BY <1>1, <2>2 DEF DailyStart
      <3>2. daily' \in DailyRuns
        BY <1>0, <3>1, <2>2, DailyWindow, MarkFacts DEF DailyRuns
      <3> QED BY <1>1, <3>2 DEF DailyStart, silverVars, TypeOK
    <2> QED BY <2>1, <2>2
  <1>2. CASE DailyFetch
    <2>1. daily' \in DailyRuns
      BY <1>0, <1>2, ResponseType DEF DailyFetch, DailyRuns
    <2> QED BY <1>2, <2>1 DEF DailyFetch, silverVars, TypeOK
  <1>3. CASE DailyCommit
    <2>1. daily' \in DailyRuns /\ daily.rows \in Rows
      BY <1>0, <1>3 DEF DailyCommit, DailyRuns
    <2> QED BY <1>0, <1>3, <2>1, LoadedType DEF DailyCommit, silverVars, TypeOK
  <1>4. CASE DailyMark
    <2>1. daily' \in DailyRuns
      BY <1>0, <1>4, MarkFacts DEF DailyMark, DailyRuns
    <2>2. marker' \in [Dates -> {"none", "COMPLETE", "COMPLETE_EMPTY", "FAILED"}]
      BY <1>0, <1>4, StatusType DEF DailyMark
    <2> QED BY <1>4, <2>1, <2>2 DEF DailyMark, silverVars, TypeOK
  <1>5. CASE DailyWatermark
    <2>1. daily.run \in Marks /\ daily.next \in Marks /\ daily.last \in Marks
      BY <1>0 DEF DailyRuns
    <2>2. daily.next < daily.last => daily.next + 1 \in Marks
      BY <2>1, MarkFacts, HorizonAssumption
    <2>3. CASE daily.next < daily.last
      <3>1. daily' \in DailyRuns
        BY <1>0, <1>5, <2>2, <2>3 DEF DailyWatermark, DailyRuns
      <3> QED BY <1>5, <2>1, <3>1 DEF DailyWatermark, silverVars, TypeOK
    <2>4. CASE ~(daily.next < daily.last)
      BY <1>5, <2>1, <2>4, AfterWindowType DEF DailyWatermark, silverVars, TypeOK
    <2> QED BY <2>3, <2>4
  <1>6. CASE DailyApiError
    <2>1. marker' \in [Dates -> {"none", "COMPLETE", "COMPLETE_EMPTY", "FAILED"}]
      BY <1>0, <1>6 DEF DailyApiError
    <2> QED BY <1>0, <1>6, <2>1 DEF DailyApiError, silverVars, TypeOK
  <1>7. CASE DailyFetchT0
    <2>1. daily' \in DailyRuns
      BY <1>0, <1>7, ResponseType DEF DailyFetchT0, DailyRuns
    <2> QED BY <1>7, <2>1 DEF DailyFetchT0, silverVars, TypeOK
  <1>8. CASE DailyCommitT0
    <2>1. daily' \in DailyRuns /\ daily.rows \in Rows
      BY <1>0, <1>8, MarkFacts DEF DailyCommitT0, DailyRuns
    <2> QED BY <1>0, <1>8, <2>1, LoadedType DEF DailyCommitT0, silverVars, TypeOK
  <1>9. CASE DailyPublish
    BY <1>0, <1>9 DEF DailyPublish, silverVars, TypeOK
  <1>10. CASE DailyDies
    BY <1>0, <1>10 DEF DailyDies, silverVars, TypeOK
  <1> QED BY <1>1, <1>2, <1>3, <1>4, <1>5, <1>6, <1>7, <1>8, <1>9, <1>10 DEF DailyNext

LEMMA CatchupTypes == TypeOK /\ CatchupNext => TypeOK'
  <1> SUFFICES ASSUME TypeOK, CatchupNext PROVE TypeOK'
    OBVIOUS
  <1>0. catchup \in CatchupRuns /\ wm \in Marks /\ today \in Int
        /\ bronze \in [Dates -> Rows]
        /\ marker \in [Dates -> {"none", "COMPLETE", "COMPLETE_EMPTY", "FAILED"}]
        /\ NoCatchup \in CatchupRuns
    BY MarkFacts DEF TypeOK, CatchupRuns
  <1>f. /\ catchup.target \in Int /\ catchup.todo \in SUBSET Dates /\ catchup.date \in Marks
        /\ catchup.rows \in Rows /\ catchup.after \in Marks /\ catchup.complete \in BOOLEAN
    BY <1>0 DEF CatchupRuns
  <1>1. CASE CatchupStart
    <2>1. catchup' \in CatchupRuns
      <3>1. today - 2 \in Int
        BY <1>0
      <3>2. PICK t \in Int, w \in SUBSET Dates :
                catchup' = [pc |-> "dates", target |-> t, todo |-> w, date |-> 0,
                            rows |-> {}, after |-> 0, complete |-> FALSE]
        BY <1>1, <3>1 DEF CatchupStart
      <3> QED BY <3>2, MarkFacts DEF CatchupRuns
    <2> QED BY <1>1, <2>1 DEF CatchupStart, silverVars, TypeOK
  <1>2. ASSUME NEW d \in Dates, CatchupFetch(d) PROVE TypeOK'
    <2>2. catchup' = [catchup EXCEPT !.pc = "commit", !.date = d, !.rows = Response(d)]
      BY <1>2 DEF CatchupFetch
    <2>3. d \in Marks /\ Response(d) \in Rows
      BY ResponseType, MarkFacts
    <2>1. catchup' \in CatchupRuns
      BY <1>0, <1>f, <2>2, <2>3 DEF CatchupRuns
    <2> QED BY <1>2, <2>1 DEF CatchupFetch, silverVars, TypeOK
  <1>3. CASE CatchupCommit
    <2>1. catchup' \in CatchupRuns /\ catchup.rows \in Rows
      BY <1>0, <1>3 DEF CatchupCommit, CatchupRuns
    <2> QED BY <1>0, <1>3, <2>1, LoadedType DEF CatchupCommit, silverVars, TypeOK
  <1>4. CASE CatchupMark
    <2>0. catchup.todo \ {catchup.date} \in SUBSET Dates
      BY <1>f
    <2>3. catchup' = [catchup EXCEPT !.pc = "dates", !.todo = @ \ {catchup.date},
                                      !.date = 0, !.rows = {}]
      BY <1>4 DEF CatchupMark
    <2>1. catchup' \in CatchupRuns
      BY <1>0, <1>f, <2>0, <2>3, MarkFacts DEF CatchupRuns
    <2>2. marker' \in [Dates -> {"none", "COMPLETE", "COMPLETE_EMPTY", "FAILED"}]
      BY <1>0, <1>4, StatusType DEF CatchupMark
    <2> QED BY <1>4, <2>1, <2>2 DEF CatchupMark, silverVars, TypeOK
  <1>5. CASE CatchupDateFails
    <2>0. PICK given_up \in {{}, {catchup.date}} :
            catchup' = [catchup EXCEPT !.pc = "dates", !.todo = @ \ given_up,
                                        !.date = 0, !.rows = {}]
      BY <1>5 DEF CatchupDateFails
    <2>3. catchup.todo \ given_up \in SUBSET Dates
      BY <1>f
    <2>1. catchup' \in CatchupRuns
      BY <1>0, <1>f, <2>0, <2>3, MarkFacts DEF CatchupRuns
    <2>2. marker' \in [Dates -> {"none", "COMPLETE", "COMPLETE_EMPTY", "FAILED"}]
      BY <1>0, <1>5 DEF CatchupDateFails
    <2> QED BY <1>5, <2>1, <2>2 DEF CatchupDateFails, silverVars, TypeOK
  <1>6. CASE CatchupReadMarkers
    <2> PICK after \in Marks :
            catchup' = [catchup EXCEPT !.pc = "advance", !.after = after,
                            !.complete = Later(wm, after) >= catchup.target]
      BY <1>6 DEF CatchupReadMarkers, Marks
    <2> DEFINE done == (Later(wm, after) >= catchup.target)
    <2>0. done \in BOOLEAN
      OBVIOUS
    <2>2. catchup' = [catchup EXCEPT !.pc = "advance", !.after = after, !.complete = done]
      OBVIOUS
    <2> HIDE DEF done
    <2>1. catchup' \in CatchupRuns
      BY <1>0, <1>f, <2>0, <2>2, Zenon DEF CatchupRuns
    <2> QED BY <1>6, <2>1 DEF CatchupReadMarkers, silverVars, TypeOK
  <1>7. Advanced \in Marks
    BY <1>0 DEF Advanced, CatchupRuns
  <1>8. CASE CatchupAdvance
    BY <1>0, <1>7, <1>8 DEF CatchupAdvance, silverVars, TypeOK
  <1>9. CASE CatchupAdvanceFails
    <2>1. catchup' \in CatchupRuns
      BY <1>0, <1>9, MarkFacts DEF CatchupAdvanceFails, CatchupRuns
    <2>2. wm' \in Marks
      BY <1>0, <1>7, <1>9 DEF CatchupAdvanceFails
    <2> QED BY <1>9, <2>1, <2>2 DEF CatchupAdvanceFails, silverVars, TypeOK
  <1> QED BY <1>1, <1>2, <1>3, <1>4, <1>5, <1>6, <1>8, <1>9 DEF CatchupNext

LEMMA CollectedType == \A from, to, cutoff : Collected(from, to, cutoff) \in Rows
  BY DEF Collected, Rows

LEMMA ReplacedType ==
    ASSUME silver \in Rows, NEW from, NEW to, NEW rows \in Rows
    PROVE  Replaced(from, to, rows) \in Rows
  BY DEF Replaced, Rows

(* Where a Silver run goes from its two watermarks and the cutoff.         *)
LEMMA Resolved ==
    ASSUME TypeOK, SilverResolve
    PROVE  \E cutoff \in Marks :
             /\ silverRun.bronzeWm <= cutoff
             /\ \/ /\ silverRun' = [silverRun EXCEPT !.pc = "scanWindow", !.cutoff = cutoff]
                   /\ Uncapped => SettledEnd(silverRun.bronzeWm, cutoff) <= silverRun.silverWm
                \/ \E last \in Marks :
                     /\ silverRun' = [silverRun EXCEPT !.pc = "scanBacklog", !.cutoff = cutoff,
                                                       !.last = last]
                     /\ silverRun.silverWm < last
                     /\ last <= silverRun.bronzeWm
                     /\ last <= cutoff - Span
                     /\ Uncapped => last = SettledEnd(silverRun.bronzeWm, cutoff)
  <1>1. silverRun.silverWm \in Marks /\ silverRun.bronzeWm \in Marks
    BY DEF TypeOK, SilverRuns
  <1>2. PICK cutoff \in Marks :
            /\ LET resolved == [silverRun EXCEPT !.pc = "scanWindow", !.cutoff = cutoff]
               IN  silverRun' = IF BacklogEnd(silverRun, cutoff) <= silverRun.silverWm
                                THEN resolved
                                ELSE [resolved EXCEPT !.pc = "scanBacklog",
                                                      !.last = BacklogEnd(silverRun, cutoff)]
            /\ silverRun.bronzeWm <= cutoff
    BY DEF SilverResolve, Marks
  <1> DEFINE last == BacklogEnd(silverRun, cutoff)
  <1>3. /\ last \in Int /\ last <= silverRun.bronzeWm /\ last <= cutoff - Span
        /\ Uncapped => last = SettledEnd(silverRun.bronzeWm, cutoff)
    BY <1>1, MarkFacts, WindowAssumption
    DEF BacklogEnd, SettledEnd, WindowStart, Earlier, Uncapped
  <1> HIDE DEF last
  <1>4. CASE last <= silverRun.silverWm
    <2>1. silverRun' = [silverRun EXCEPT !.pc = "scanWindow", !.cutoff = cutoff]
      BY <1>2, <1>4 DEF last
    <2>2. Uncapped => SettledEnd(silverRun.bronzeWm, cutoff) <= silverRun.silverWm
      BY <1>3, <1>4
    <2> QED BY <1>2, <2>1, <2>2
  <1>5. CASE ~(last <= silverRun.silverWm)
    <2>1. last \in Marks /\ silverRun.silverWm < last
      BY <1>1, <1>3, <1>5, MarkFacts, HorizonAssumption
    <2>2. silverRun' = [silverRun EXCEPT !.pc = "scanBacklog", !.cutoff = cutoff, !.last = last]
      BY <1>2, <1>5 DEF TypeOK, SilverRuns, last
    <2> QED BY <1>2, <1>3, <2>1, <2>2
  <1> QED BY <1>4, <1>5

LEMMA SilverTypes == TypeOK /\ SilverNext => TypeOK'
  <1> SUFFICES ASSUME TypeOK, SilverNext PROVE TypeOK'
    OBVIOUS
  <1>0. silverRun \in SilverRuns /\ wm \in Marks /\ silverWm \in Marks /\ silver \in Rows
        /\ silverRun.rows \in Rows /\ silverRun.last \in Marks
        /\ NoSilver \in SilverRuns
    BY MarkFacts DEF TypeOK, SilverRuns
  <1>1. CASE SilverStart
    <2>1. silverRun' \in SilverRuns
      BY <1>0, <1>1, MarkFacts DEF SilverStart, SilverRuns
    <2> QED BY <1>1, <2>1 DEF SilverStart, TypeOK
  <1>2. CASE SilverRead
    <2>1. silverRun' \in SilverRuns
      BY <1>0, <1>2 DEF SilverRead, SilverRuns
    <2> QED BY <1>2, <2>1 DEF SilverRead, TypeOK
  <1>3. CASE SilverResolve
    <2>1. silverRun' \in SilverRuns
      BY <1>0, <1>3, Resolved DEF SilverRuns
    <2> QED BY <1>3, <2>1 DEF SilverResolve, TypeOK
  <1>4. CASE SilverScanBacklog
    <2>1. silverRun' \in SilverRuns
      BY <1>0, <1>4, CollectedType DEF SilverScanBacklog, SilverRuns
    <2> QED BY <1>4, <2>1 DEF SilverScanBacklog, TypeOK
  <1>5. CASE SilverReplaceBacklog
    <2>1. silverRun' \in SilverRuns /\ silver' \in Rows
      BY <1>0, <1>5, ReplacedType, MarkFacts DEF SilverReplaceBacklog, SilverRuns
    <2> QED BY <1>5, <2>1 DEF SilverReplaceBacklog, TypeOK
  <1>6. CASE SilverMark
    <2>1. silverRun' \in SilverRuns /\ silverWm' \in Marks
      BY <1>0, <1>6, MarkFacts DEF SilverMark, SettledMark, SilverRuns
    <2> QED BY <1>6, <2>1 DEF SilverMark, TypeOK
  <1>7. CASE SilverScanWindow
    <2>1. silverRun' \in SilverRuns
      BY <1>0, <1>7, CollectedType DEF SilverScanWindow, SilverRuns
    <2> QED BY <1>7, <2>1 DEF SilverScanWindow, TypeOK
  <1>8. CASE SilverReplaceWindow
    <2>1. silverRun' \in SilverRuns /\ silver' \in Rows
      BY <1>0, <1>8, ReplacedType DEF SilverReplaceWindow
    <2> QED BY <1>8, <2>1 DEF SilverReplaceWindow, TypeOK
  <1>9. CASE SilverDies
    <2>1. silverRun' \in SilverRuns
      BY <1>0, <1>9, MarkFacts DEF SilverDies, SilverRuns
    <2> QED BY <1>9, <2>1 DEF SilverDies, TypeOK
  <1> QED BY <1>1, <1>2, <1>3, <1>4, <1>5, <1>6, <1>7, <1>8, <1>9 DEF SilverNext

LEMMA TypeStep == TypeOK /\ [Next]_vars => TypeOK'
  <1> SUFFICES ASSUME TypeOK, [Next]_vars PROVE TypeOK'
    OBVIOUS
  <1>1. CASE Midnight
    BY <1>1, HorizonAssumption DEF Midnight, TypeOK, Dates, silverVars
  <1>2. ASSUME NEW d \in ReportDays, Report(d) PROVE TypeOK'
    BY <1>2, HorizonAssumption DEF Report, TypeOK, Dates, silverVars
  <1>3. CASE UNCHANGED vars
    BY <1>3 DEF vars, silverVars, TypeOK
  <1> QED BY <1>1, <1>2, <1>3, DailyTypes, CatchupTypes, SilverTypes DEF Next

(* Every variable stays in its domain, and no watermark leaves the         *)
(* calendar.                                                               *)
THEOREM TypeCorrect == Spec => []TypeOK
  BY TypeInit, TypeStep, PTL DEF Spec

-----------------------------------------------------------------------------
(* What a safe date keeps *)

(* Who may touch what: the API, each job and the clock.                    *)
LEMMA DailyFrame == DailyNext => UNCHANGED <<today, reported, catchup, silverVars>>
  BY DEF DailyNext, DailyStart, DailyFetch, DailyCommit, DailyMark, DailyWatermark,
         DailyApiError, DailyFetchT0, DailyCommitT0, DailyPublish, DailyDies

LEMMA CatchupFrame == CatchupNext => UNCHANGED <<today, reported, daily, silverVars>>
  BY DEF CatchupNext, CatchupStart, CatchupFetch, CatchupCommit, CatchupMark,
         CatchupDateFails, CatchupReadMarkers, CatchupAdvance, CatchupAdvanceFails

LEMMA SilverFrame ==
    SilverNext => UNCHANGED <<today, reported, bronze, wm, marker, daily, catchup>>
  BY DEF SilverNext, SilverStart, SilverRead, SilverResolve, SilverScanBacklog,
         SilverReplaceBacklog, SilverMark, SilverScanWindow, SilverReplaceWindow, SilverDies

(* A date that has passed cannot become punctual.                          *)
LEMMA PunctualIsSettled ==
    ASSUME TypeOK, [Next]_vars, NEW d \in Dates, d < today, Punctual(d)'
    PROVE  Punctual(d)
  <1>0. today \in Int /\ reported \in [ReportDays -> Nat] /\ d \in Int
    BY MarkFacts DEF TypeOK
  <1>1. CASE reported' = reported
    BY <1>1 DEF Punctual
  <1>2. ASSUME NEW e \in ReportDays, Report(e) PROVE Punctual(d)
    <2>1. reported' = [reported EXCEPT ![e] = today] /\ d \in ReportDays /\ reported'[d] = d
      BY <1>2 DEF Report, Punctual
    <2>2. d # e
      BY <1>0, <2>1
    <2> QED BY <1>0, <2>1, <2>2 DEF Punctual
  <1>3. Midnight \/ UNCHANGED vars => reported' = reported
    BY DEF Midnight, vars
  <1> QED BY <1>1, <1>2, <1>3, DailyFrame, CatchupFrame, SilverFrame DEF Next

(* A daily run keeps its date, and a new one takes the current date.       *)
LEMMA DailyRunKept ==
    ASSUME TypeOK, DailyNext
    PROVE  daily' = NoDaily \/ daily'.run = today
           \/ (daily.pc # "idle" /\ daily'.run = daily.run)
  <1>0. daily \in DailyRuns
    BY DEF TypeOK
  <1>1. CASE DailyStart
    BY <1>1 DEF DailyStart, AfterWindow
  <1>2. CASE DailyFetch \/ DailyCommit \/ DailyMark \/ DailyFetchT0 \/ DailyCommitT0
    BY <1>0, <1>2 DEF DailyFetch, DailyCommit, DailyMark, DailyFetchT0, DailyCommitT0, DailyRuns
  <1>3. CASE DailyWatermark
    BY <1>0, <1>3 DEF DailyWatermark, AfterWindow, DailyRuns
  <1>4. CASE DailyApiError \/ DailyPublish \/ DailyDies
    BY <1>4 DEF DailyApiError, DailyPublish, DailyDies
  <1> QED BY <1>1, <1>2, <1>3, <1>4 DEF DailyNext

LEMMA OverIsStable ==
    ASSUME TypeOK, [Next]_vars, NEW d \in Dates, Over(d)
    PROVE  Over(d)'
  <1>0. today \in Int /\ d \in Int /\ d < today
    BY MarkFacts DEF TypeOK, Over
  <1>1. CASE UNCHANGED <<today, daily>>
    BY <1>1 DEF Over
  <1>2. CASE Midnight
    BY <1>0, <1>2 DEF Midnight, Over
  <1>3. CASE DailyNext
    BY <1>0, <1>3, DailyFrame, DailyRunKept DEF Over
  <1>4. ASSUME NEW e \in ReportDays, Report(e) PROVE UNCHANGED <<today, daily>>
    BY <1>4 DEF Report
  <1>5. UNCHANGED vars => UNCHANGED <<today, daily>>
    BY DEF vars
  <1> QED BY <1>1, <1>2, <1>3, <1>4, <1>5, CatchupFrame, SilverFrame DEF Next

(* A complete response makes a partition complete, the empty one as well.  *)
LEMMA LoadedIsComplete ==
    ASSUME TypeOK, NEW q \in Dates, NEW rows, Complete(q, rows), NEW d \in Dates,
           Complete(d, bronze[d])
    PROVE  Complete(d, Loaded(q, rows)[d])
  BY DEF TypeOK, Complete, Loaded

LEMMA LoadIsComplete ==
    ASSUME TypeOK, NEW q \in Dates, NEW rows, Complete(q, rows)
    PROVE  Complete(q, Loaded(q, rows)[q])
  BY DEF TypeOK, Complete, Loaded

(* Another partition is not touched.                                       *)
LEMMA LoadedElsewhere ==
    ASSUME TypeOK, NEW q, NEW rows, NEW d \in Dates, d # q
    PROVE  Loaded(q, rows)[d] = bronze[d]
  BY DEF TypeOK, Loaded

LEMMA ResponseIsComplete ==
    ASSUME TypeOK, NEW q \in Dates
    PROVE  Complete(q, Response(q))
  <1>1. q \in Int /\ 1 <= q /\ Span \in Int /\ 1 <= Span
    BY MarkFacts, WindowAssumption
  <1> QED BY <1>1 DEF Complete, Punctual, Response

LEMMA BronzeFrame ==
    ASSUME [Next]_vars
    PROVE  \/ bronze' = bronze
           \/ DailyCommit
           \/ DailyCommitT0
           \/ CatchupCommit
  <1>1. DailyNext => bronze' = bronze \/ DailyCommit \/ DailyCommitT0
    BY DEF DailyNext, DailyStart, DailyFetch, DailyMark, DailyWatermark, DailyApiError,
           DailyFetchT0, DailyPublish, DailyDies
  <1>2. CatchupNext => bronze' = bronze \/ CatchupCommit
    BY DEF CatchupNext, CatchupStart, CatchupFetch, CatchupMark, CatchupDateFails,
           CatchupReadMarkers, CatchupAdvance, CatchupAdvanceFails
  <1>3. Midnight => bronze' = bronze
    BY DEF Midnight
  <1>4. ASSUME NEW e \in ReportDays, Report(e) PROVE bronze' = bronze
    BY <1>4 DEF Report
  <1>5. UNCHANGED vars => bronze' = bronze
    BY DEF vars
  <1> QED BY <1>1, <1>2, <1>3, <1>4, <1>5, SilverFrame DEF Next

(* What a date that is over and complete loses in no step.                 *)
LEMMA SafeIsStable ==
    ASSUME BronzeInv, [Next]_vars
    PROVE  \A d \in Dates : Safe(d) => Safe(d)'
  <1> SUFFICES ASSUME NEW d \in Dates, Safe(d) PROVE Safe(d)'
    OBVIOUS
  <1>0. TypeOK /\ Over(d) /\ Complete(d, bronze[d]) /\ d < today
    BY DEF BronzeInv, Safe, Over
  <1>1. Over(d)'
    BY <1>0, OverIsStable
  <1>2. Complete(d, bronze'[d])
    <2>1. CASE bronze' = bronze
      BY <1>0, <2>1
    <2>2. CASE DailyCommit
      <3>1. daily.next \in Dates /\ Complete(daily.next, daily.rows)
        BY <2>2 DEF DailyCommit, BronzeInv, DailyPosition, DailyHolds
      <3> QED BY <1>0, <2>2, <3>1, LoadedIsComplete DEF DailyCommit
    <2>3. CASE CatchupCommit
      <3>1. catchup.date \in Dates /\ Complete(catchup.date, catchup.rows)
        BY <2>3 DEF CatchupCommit, BronzeInv, CatchupPosition, CatchupHolds
      <3> QED BY <1>0, <2>3, <3>1, LoadedIsComplete DEF CatchupCommit
    <2>4. CASE DailyCommitT0
      <3>1. T0Enabled /\ daily.pc # "idle" /\ daily.run \in Dates
        BY <2>4 DEF DailyCommitT0, BronzeInv, DailyPosition
      <3>2. d # daily.run
        BY <1>0, <3>1, MarkFacts DEF Over
      <3> QED BY <1>0, <2>4, <3>2, LoadedElsewhere DEF DailyCommitT0
    <2> QED BY <2>1, <2>2, <2>3, <2>4, BronzeFrame
  <1>3. Punctual(d)' => Punctual(d)
    BY <1>0, PunctualIsSettled
  <1>4. Punctual(d)' => d \in bronze'[d]
    BY <1>2, <1>3 DEF Complete
  <1> QED BY <1>1, <1>4 DEF Safe, Complete

-----------------------------------------------------------------------------
(* The invariant of Bronze *)

LEMMA BronzeInit == Init => BronzeInv
  <1> SUFFICES ASSUME Init PROVE BronzeInv
    OBVIOUS
  <1>1. TypeOK
    BY TypeInit
  <1>2. DailyPosition /\ DailyHolds /\ CatchupPosition
    BY DEF Init, DailyPosition, DailyHolds, CatchupPosition
  <1>3. SafeUpTo(wm)
    <2> SUFFICES ASSUME NEW d \in Dates, d <= wm PROVE Safe(d)
      BY DEF SafeUpTo
    <2>1. wm = LoadedTo /\ today = FirstDay /\ d \in Int /\ 1 <= d
      BY MarkFacts DEF Init
    <2>2. Over(d)
      BY <2>1, HorizonAssumption, MarkFacts DEF Init, Over
    <2>3. ASSUME Punctual(d) PROVE d \in bronze[d]
      BY <2>1, <2>3 DEF Init, Punctual
    <2> QED BY <2>2, <2>3 DEF Safe, Complete
  <1>4. CatchupHolds
    <2>1. SafeUpTo(0)
      BY MarkFacts DEF SafeUpTo
    <2> QED BY <2>1 DEF Init, CatchupHolds
  <1>5. MarkersHold
    BY DEF Init, MarkersHold, Accepted
  <1> QED BY <1>1, <1>2, <1>3, <1>4, <1>5 DEF BronzeInv

LEMMA DailyPositionStep ==
    ASSUME LagAssumption, BronzeInv, [Next]_vars
    PROVE  DailyPosition'
  <1>0. /\ TypeOK /\ DailyPosition /\ daily \in DailyRuns /\ today \in Dates
        /\ today \in Int /\ today <= LastDay /\ LastDay \in Int
    BY MarkFacts, HorizonAssumption DEF BronzeInv, TypeOK
  <1>1. CASE UNCHANGED <<today, daily>>
    BY <1>0, <1>1 DEF DailyPosition
  <1>2. CASE Midnight
    <2>1. daily' = daily /\ today' = today + 1
      BY <1>2 DEF Midnight
    <2>2. ASSUME daily.pc # "idle"
          PROVE  /\ daily.run \in Dates /\ daily.run \in Int /\ daily.run <= today
                 /\ today < daily.run + RunLag
      BY <1>0, <1>2, <2>2, MarkFacts DEF Midnight, DailyPosition
    <2>3. ASSUME daily.pc # "idle" PROVE T0Enabled => today + 1 <= daily.run + 1
      BY <1>0, <2>2, <2>3, WindowAssumption DEF LagAssumption
    <2> QED BY <1>0, <2>1, <2>2, <2>3 DEF DailyPosition
  <1>3. CASE DailyStart
    <2>1. CASE wm + 1 > DailyWindowEnd(today, wm + 1)
      <3>1. daily' = AfterWindow(today) /\ today' = today
        BY <1>3, <2>1 DEF DailyStart
      <3> QED BY <1>0, <3>1 DEF DailyPosition, AfterWindow
    <2>2. CASE ~(wm + 1 > DailyWindowEnd(today, wm + 1))
      <3>1. daily' = [pc |-> "fetch", run |-> today, next |-> wm + 1,
                      last |-> DailyWindowEnd(today, wm + 1), rows |-> {}] /\ today' = today
        BY <1>3, <2>2 DEF DailyStart
      <3> QED BY <1>0, <2>2, <3>1, DailyWindow DEF DailyPosition
    <2> QED BY <2>1, <2>2
  <1>4. CASE DailyFetch \/ DailyCommit \/ DailyMark
    BY <1>0, <1>4 DEF DailyFetch, DailyCommit, DailyMark, DailyPosition, DailyRuns
  <1>5. CASE DailyWatermark
    <2>1. /\ daily.run \in Dates /\ daily.run <= today /\ today' = today
          /\ T0Enabled => today <= daily.run + 1
          /\ daily.next \in Dates /\ daily.next <= daily.last /\ daily.last < daily.run
      BY <1>0, <1>5 DEF DailyWatermark, DailyPosition
    <2>2. CASE daily.next < daily.last
      <3>1. daily.next + 1 \in Dates /\ daily.next + 1 <= daily.last
        <4>1. daily.last \in Marks
          BY <1>0 DEF DailyRuns
        <4> QED BY <1>0, <2>1, <2>2, <4>1, MarkFacts
      <3>2. daily' = [daily EXCEPT !.pc = "fetch", !.next = daily.next + 1]
        BY <1>5, <2>2 DEF DailyWatermark
      <3> QED BY <1>0, <2>1, <3>1, <3>2 DEF DailyPosition, DailyRuns
    <2>3. CASE ~(daily.next < daily.last)
      BY <1>5, <2>1, <2>3 DEF DailyWatermark, AfterWindow, DailyPosition
    <2> QED BY <2>2, <2>3
  <1>6. CASE DailyFetchT0 \/ DailyCommitT0
    BY <1>0, <1>6 DEF DailyFetchT0, DailyCommitT0, DailyPosition, DailyRuns
  <1>7. CASE DailyApiError \/ DailyPublish \/ DailyDies
    BY <1>7 DEF DailyApiError, DailyPublish, DailyDies, DailyPosition
  <1>8. ASSUME NEW e \in ReportDays, Report(e) PROVE UNCHANGED <<today, daily>>
    BY <1>8 DEF Report
  <1>9. UNCHANGED vars => UNCHANGED <<today, daily>>
    BY DEF vars
  <1> QED BY <1>1, <1>2, <1>3, <1>4, <1>5, <1>6, <1>7, <1>8, <1>9, CatchupFrame, SilverFrame
          DEF Next, DailyNext

(* The partition that was just loaded is safe.                             *)
LEMMA DailyLoads ==
    ASSUME BronzeInv, DailyCommit
    PROVE  Safe(daily.next)'
  <1>1. /\ TypeOK /\ daily.next \in Dates /\ Complete(daily.next, daily.rows)
        /\ daily.next <= daily.last /\ daily.last < daily.run /\ daily.run <= today
        /\ daily.run \in Dates /\ daily \in DailyRuns /\ daily.pc = "commit"
    BY DEF DailyCommit, BronzeInv, DailyPosition, DailyHolds, TypeOK
  <1>2. /\ daily'.next = daily.next /\ daily'.run = daily.run
        /\ bronze' = Loaded(daily.next, daily.rows)
        /\ UNCHANGED <<today, reported>>
    BY <1>1 DEF DailyCommit, DailyRuns
  <1>3. daily.next < daily.run /\ daily.next < today
    BY <1>1, MarkFacts DEF DailyRuns, TypeOK
  <1>4. Over(daily.next)'
    BY <1>2, <1>3 DEF Over
  <1>5. Complete(daily.next, bronze'[daily.next])
    BY <1>1, <1>2, LoadIsComplete
  <1> QED BY <1>2, <1>4, <1>5 DEF Safe, Complete, Punctual

LEMMA DailyHoldsStep ==
    ASSUME BronzeInv, [Next]_vars
    PROVE  DailyHolds'
  <1>0. /\ TypeOK /\ DailyPosition /\ DailyHolds /\ daily \in DailyRuns /\ today \in Int
        /\ SafeUpTo(wm) /\ wm \in Marks
    BY MarkFacts DEF BronzeInv, TypeOK
  <1>s. \A d \in Dates : Safe(d) => Safe(d)'
    BY SafeIsStable
  <1>u. ASSUME NEW m, SafeUpTo(m) PROVE \A d \in Dates : d <= m => Safe(d)'
    BY <1>s, <1>u DEF SafeUpTo
  <1>w. daily.pc \in {"fetch", "commit", "mark", "watermark"} =>
            daily.next \in Dates /\ daily.next < today /\ SafeUpTo(daily.next - 1)
    BY <1>0, MarkFacts DEF DailyPosition, DailyHolds, DailyRuns
  <1>1. CASE daily' = daily
    <2>1. ASSUME daily.pc \in {"fetch", "commit", "mark", "watermark"}
          PROVE  SafeUpTo(daily.next - 1)'
      <3>1. \A d \in Dates : d <= daily.next - 1 => Safe(d)'
        BY <1>u, <1>w, <2>1
      <3> QED BY <1>1, <3>1 DEF SafeUpTo
    <2>2. ASSUME daily.pc = "commit"
          PROVE  Complete(daily.next, daily.rows)'
      <3>1. Punctual(daily.next)' => Punctual(daily.next)
        <4> DEFINE n == daily.next
        <4>1. n \in Dates /\ n < today
          BY <1>w, <2>2
        <4>2. \A e \in Dates : e < today => (Punctual(e)' => Punctual(e))
          BY <1>0, PunctualIsSettled
        <4> HIDE DEF n
        <4>3. Punctual(n)' => Punctual(n)
          BY <4>1, <4>2, <1>1 DEF Punctual, n
        <4> QED BY <4>3 DEF n
      <3> QED BY <1>0, <1>1, <2>2, <3>1 DEF DailyHolds, Complete
    <2>3. ASSUME daily.pc \in {"mark", "watermark"}
          PROVE  Safe(daily.next)'
      BY <1>0, <1>1, <1>w, <2>3, <1>s DEF DailyHolds
    <2> QED BY <1>1, <2>1, <2>2, <2>3 DEF DailyHolds
  <1>2. CASE DailyStart
    <2>1. CASE wm + 1 > DailyWindowEnd(today, wm + 1)
      BY <1>2, <2>1 DEF DailyStart, AfterWindow, DailyHolds
    <2>2. CASE ~(wm + 1 > DailyWindowEnd(today, wm + 1))
      <3>1. daily'.pc = "fetch" /\ daily'.next = wm + 1
        BY <1>2, <2>2 DEF DailyStart
      <3>2. \A d \in Dates : d <= daily'.next - 1 => Safe(d)'
        BY <1>0, <1>u, <3>1, MarkFacts
      <3> QED BY <3>1, <3>2 DEF DailyHolds, SafeUpTo
    <2> QED BY <2>1, <2>2
  <1>3. CASE DailyFetch
    <2>1. /\ daily'.pc = "commit" /\ daily'.next = daily.next
          /\ daily'.rows = Response(daily.next) /\ reported' = reported
          /\ daily.pc = "fetch"
      BY <1>0, <1>3 DEF DailyFetch, DailyRuns
    <2>2. Complete(daily.next, daily.rows)'
      BY <1>0, <1>w, <2>1, ResponseIsComplete DEF Complete, Punctual
    <2>3. \A d \in Dates : d <= daily.next - 1 => Safe(d)'
      BY <1>u, <1>w, <2>1
    <2> QED BY <2>1, <2>2, <2>3 DEF DailyHolds, SafeUpTo
  <1>4. CASE DailyCommit
    <2>1. /\ daily'.pc = "mark" /\ daily'.next = daily.next /\ daily.pc = "commit"
      BY <1>0, <1>4 DEF DailyCommit, DailyRuns
    <2>3. \A d \in Dates : d <= daily.next - 1 => Safe(d)'
      BY <1>u, <1>w, <2>1
    <2> QED BY <1>4, <2>1, <2>3, DailyLoads DEF DailyHolds, SafeUpTo
  <1>5. CASE DailyMark
    <2>1. /\ daily'.pc = "watermark" /\ daily'.next = daily.next /\ daily.pc = "mark"
      BY <1>0, <1>5 DEF DailyMark, DailyRuns
    <2>2. Safe(daily.next)'
      <3>1. Safe(daily.next) /\ daily.next \in Dates
        BY <1>0, <1>w, <2>1 DEF DailyHolds
      <3>2. \A d \in Dates : d = daily.next => Safe(d)'
        BY <3>1, <1>s
      <3> QED BY <2>1, <3>1, <3>2 DEF Safe, Over, Complete, Punctual
    <2>3. \A d \in Dates : d <= daily.next - 1 => Safe(d)'
      BY <1>u, <1>w, <2>1
    <2> QED BY <2>1, <2>2, <2>3 DEF DailyHolds, SafeUpTo
  <1>6. CASE DailyWatermark
    <2>1. CASE daily.next < daily.last
      <3>1. /\ daily'.pc = "fetch" /\ daily'.next = daily.next + 1 /\ daily.pc = "watermark"
        BY <1>0, <1>6, <2>1 DEF DailyWatermark, DailyRuns
      <3>2. \A d \in Dates : d <= daily'.next - 1 => Safe(d)'
        <4>1. Safe(daily.next) /\ SafeUpTo(daily.next - 1) /\ daily.next \in Dates
          BY <1>0, <1>w, <3>1 DEF DailyHolds
        <4>2. \A d \in Dates : d <= daily'.next - 1 => Safe(d)
          BY <3>1, <4>1, MarkFacts DEF SafeUpTo
        <4> QED BY <4>2, <1>s
      <3> QED BY <3>1, <3>2 DEF DailyHolds, SafeUpTo
    <2>2. CASE ~(daily.next < daily.last)
      BY <1>6, <2>2 DEF DailyWatermark, AfterWindow, DailyHolds
    <2> QED BY <2>1, <2>2
  <1>7. CASE DailyFetchT0 \/ DailyCommitT0
    BY <1>0, <1>7 DEF DailyFetchT0, DailyCommitT0, DailyHolds, DailyRuns
  <1>8. CASE DailyApiError \/ DailyPublish \/ DailyDies
    BY <1>8 DEF DailyApiError, DailyPublish, DailyDies, DailyHolds
  <1>9. ASSUME NEW e \in ReportDays, Report(e) PROVE daily' = daily
    BY <1>9 DEF Report
  <1>10. Midnight \/ UNCHANGED vars => daily' = daily
    BY DEF vars, Midnight
  <1> QED BY <1>1, <1>2, <1>3, <1>4, <1>5, <1>6, <1>7, <1>8, <1>9, <1>10, CatchupFrame,
             SilverFrame DEF Next, DailyNext

LEMMA CatchupPositionStep ==
    ASSUME BronzeInv, [Next]_vars
    PROVE  CatchupPosition'
  <1>0. /\ TypeOK /\ CatchupPosition /\ catchup \in CatchupRuns /\ today \in Int
        /\ catchup.target \in Int /\ catchup.todo \in SUBSET Dates
    BY MarkFacts DEF BronzeInv, TypeOK, CatchupRuns
  <1>1. CASE catchup' = catchup /\ (today' = today \/ today' = today + 1)
    <2>1. catchup.pc # "idle" => catchup.target <= today' - 2
      BY <1>0, <1>1 DEF CatchupPosition
    <2> QED BY <1>0, <1>1, <2>1 DEF CatchupPosition
  <1>2. CASE CatchupStart
    <2>1. today' = today /\ catchup'.pc = "dates" /\ catchup'.target = today - 2
          /\ \A d \in catchup'.todo : d <= today - 2
      BY <1>2 DEF CatchupStart
    <2> QED BY <1>0, <2>1 DEF CatchupPosition
  <1>3. ASSUME NEW d \in Dates, CatchupFetch(d) PROVE CatchupPosition'
    <2>1. /\ today' = today /\ catchup'.pc = "commit" /\ catchup'.target = catchup.target
          /\ catchup'.todo = catchup.todo /\ catchup'.date = d /\ d \in catchup.todo
          /\ catchup.pc = "dates"
      BY <1>0, <1>3 DEF CatchupFetch, CatchupRuns
    <2> QED BY <1>0, <2>1 DEF CatchupPosition
  <1>4. CASE CatchupCommit
    <2>1. /\ today' = today /\ catchup'.pc = "mark" /\ catchup'.target = catchup.target
          /\ catchup'.todo = catchup.todo /\ catchup'.date = catchup.date
          /\ catchup.pc = "commit"
      BY <1>0, <1>4 DEF CatchupCommit, CatchupRuns
    <2> QED BY <1>0, <2>1 DEF CatchupPosition
  <1>5. CASE CatchupMark \/ CatchupDateFails
    <2>1. /\ today' = today /\ catchup'.pc = "dates" /\ catchup'.target = catchup.target
          /\ \A d \in catchup'.todo : d \in catchup.todo
          /\ catchup.pc # "idle"
      <3>1. PICK w : /\ catchup' = [catchup EXCEPT !.pc = "dates", !.todo = catchup.todo \ w,
                                                    !.date = 0, !.rows = {}]
                     /\ today' = today /\ catchup.pc # "idle"
        BY <1>5 DEF CatchupMark, CatchupDateFails
      <3> DEFINE rest == catchup.todo \ w
      <3>2. \A d \in rest : d \in catchup.todo
        OBVIOUS
      <3>3. catchup' = [catchup EXCEPT !.pc = "dates", !.todo = rest, !.date = 0, !.rows = {}]
        BY <3>1
      <3> HIDE DEF rest
      <3>4. catchup'.pc = "dates" /\ catchup'.target = catchup.target /\ catchup'.todo = rest
        BY <1>0, <3>3 DEF CatchupRuns
      <3> QED BY <3>1, <3>2, <3>4
    <2> QED BY <1>0, <2>1 DEF CatchupPosition
  <1>6. CASE CatchupReadMarkers
    <2> PICK after \in Marks :
            catchup' = [catchup EXCEPT !.pc = "advance", !.after = after,
                            !.complete = Later(wm, after) >= catchup.target]
      BY <1>6 DEF CatchupReadMarkers, Marks
    <2>1. /\ today' = today /\ catchup'.pc = "advance" /\ catchup'.target = catchup.target
          /\ catchup'.todo = catchup.todo /\ catchup.pc # "idle"
      BY <1>0, <1>6 DEF CatchupReadMarkers, CatchupRuns
    <2> QED BY <1>0, <2>1 DEF CatchupPosition
  <1>7. CASE CatchupAdvance
    BY <1>7 DEF CatchupAdvance, CatchupPosition
  <1>8. CASE CatchupAdvanceFails
    <2>1. CASE catchup' = NoCatchup
      BY <2>1 DEF CatchupPosition
    <2>2. CASE catchup' = [catchup EXCEPT !.pc = "dates", !.after = 0, !.complete = FALSE]
      <3>1. /\ today' = today /\ catchup'.pc = "dates" /\ catchup'.target = catchup.target
            /\ catchup'.todo = catchup.todo /\ catchup.pc # "idle"
        BY <1>0, <1>8, <2>2 DEF CatchupAdvanceFails, CatchupRuns
      <3> QED BY <1>0, <3>1 DEF CatchupPosition
    <2> QED BY <1>8, <2>1, <2>2 DEF CatchupAdvanceFails
  <1>9. ASSUME NEW e \in ReportDays, Report(e) PROVE catchup' = catchup /\ today' = today
    BY <1>9 DEF Report
  <1>10. Midnight => catchup' = catchup /\ today' = today + 1
    BY DEF Midnight
  <1>11. UNCHANGED vars => catchup' = catchup /\ today' = today
    BY DEF vars
  <1> QED BY <1>1, <1>2, <1>3, <1>4, <1>5, <1>6, <1>7, <1>8, <1>9, <1>10, <1>11, DailyFrame,
             SilverFrame DEF Next, CatchupNext

(* A date the catch-up asks for is over, and no run loads it as current.   *)
LEMMA CatchupDateIsOver ==
    ASSUME LagAssumption, BronzeInv, NEW d \in Dates, catchup.pc # "idle",
           d <= catchup.target
    PROVE  Over(d)
  <1>1. catchup.target \in Int /\ catchup.target <= today - 2 /\ today \in Int /\ d \in Int
    BY MarkFacts DEF BronzeInv, TypeOK, CatchupRuns, CatchupPosition
  <1>2. T0Enabled /\ daily.pc # "idle" => daily.run \in Int /\ today <= daily.run + 1
    BY MarkFacts DEF BronzeInv, DailyPosition
  <1> QED BY <1>1, <1>2 DEF Over

LEMMA CatchupLoads ==
    ASSUME LagAssumption, BronzeInv, CatchupCommit
    PROVE  Safe(catchup.date)'
  <1>1. /\ TypeOK /\ catchup.date \in Dates /\ catchup.date <= catchup.target
        /\ Complete(catchup.date, catchup.rows) /\ catchup \in CatchupRuns
        /\ catchup.pc # "idle"
    BY DEF CatchupCommit, BronzeInv, CatchupPosition, CatchupHolds, TypeOK
  <1>2. /\ catchup'.date = catchup.date /\ bronze' = Loaded(catchup.date, catchup.rows)
        /\ UNCHANGED <<today, reported, daily>>
    BY <1>1 DEF CatchupCommit, CatchupRuns
  <1>3. Over(catchup.date)
    BY <1>1, CatchupDateIsOver
  <1>4. Complete(catchup.date, bronze'[catchup.date])
    BY <1>1, <1>2, LoadIsComplete
  <1> QED BY <1>2, <1>3, <1>4 DEF Safe, Over, Complete, Punctual

LEMMA CatchupHoldsStep ==
    ASSUME LagAssumption, BronzeInv, [Next]_vars
    PROVE  CatchupHolds'
  <1>0. /\ TypeOK /\ CatchupPosition /\ CatchupHolds /\ catchup \in CatchupRuns
        /\ SafeUpTo(wm) /\ wm \in Marks /\ MarkersHold /\ SafeUpTo(catchup.after)
    BY DEF BronzeInv, TypeOK, CatchupHolds
  <1>s. \A d \in Dates : Safe(d) => Safe(d)'
    BY SafeIsStable
  <1>a. \A d \in Dates : d <= catchup.after => Safe(d)'
    BY <1>0, <1>s DEF SafeUpTo
  <1>z. \A d \in Dates : ~(d <= 0)
    BY MarkFacts
  <1>1. CASE catchup' = catchup
    <2>1. ASSUME catchup.pc = "commit"
          PROVE  Complete(catchup.date, catchup.rows)'
      <3> DEFINE n == catchup.date
      <3>1. n \in Dates /\ catchup.pc # "idle" /\ n <= catchup.target
        BY <1>0, <2>1 DEF CatchupPosition
      <3>2. \A e \in Dates : e <= catchup.target => e < today
        BY <3>1, CatchupDateIsOver DEF Over
      <3>3. \A e \in Dates : e < today => (Punctual(e)' => Punctual(e))
        BY <1>0, PunctualIsSettled
      <3> HIDE DEF n
      <3>4. Punctual(n)' => Punctual(n)
        BY <3>1, <3>2, <3>3, <1>1 DEF Punctual, n
      <3>5. Complete(n, catchup.rows)
        BY <1>0, <2>1 DEF CatchupHolds, n
      <3> QED BY <1>1, <3>4, <3>5 DEF n, Complete
    <2>2. ASSUME catchup.pc = "mark"
          PROVE  Safe(catchup.date)'
      BY <1>0, <1>1, <1>s, <2>2 DEF CatchupHolds, CatchupPosition
    <2> QED BY <1>1, <1>a, <2>1, <2>2 DEF CatchupHolds, SafeUpTo
  <1>2. CASE CatchupStart
    <2>1. catchup'.pc = "dates" /\ catchup'.after = 0
      BY <1>2 DEF CatchupStart
    <2> QED BY <1>z, <2>1 DEF CatchupHolds, SafeUpTo
  <1>3. ASSUME NEW d \in Dates, CatchupFetch(d) PROVE CatchupHolds'
    <2>1. /\ catchup'.pc = "commit" /\ catchup'.date = d /\ catchup'.rows = Response(d)
          /\ catchup'.after = catchup.after /\ reported' = reported
      BY <1>0, <1>3 DEF CatchupFetch, CatchupRuns
    <2>2. Complete(catchup.date, catchup.rows)'
      BY <1>0, <2>1, ResponseIsComplete DEF Complete, Punctual
    <2> QED BY <1>a, <2>1, <2>2 DEF CatchupHolds, SafeUpTo
  <1>4. CASE CatchupCommit
    <2>1. catchup'.pc = "mark" /\ catchup'.after = catchup.after
      BY <1>0, <1>4 DEF CatchupCommit, CatchupRuns
    <2> QED BY <1>4, <1>a, <2>1, CatchupLoads DEF CatchupHolds, SafeUpTo
  <1>5. CASE CatchupMark \/ CatchupDateFails
    <2>1. catchup'.pc = "dates" /\ catchup'.after = catchup.after
      BY <1>0, <1>5 DEF CatchupMark, CatchupDateFails, CatchupRuns
    <2> QED BY <1>a, <2>1 DEF CatchupHolds, SafeUpTo
  <1>6. CASE CatchupReadMarkers
    <2> PICK after \in Marks :
            /\ catchup' = [catchup EXCEPT !.pc = "advance", !.after = after,
                            !.complete = Later(wm, after) >= catchup.target]
            /\ after = 0 \/ ContiguouslyAccepted(after)
      BY <1>6 DEF CatchupReadMarkers, Marks
    <2>1. catchup'.pc = "advance" /\ catchup'.after = after
      BY <1>0 DEF CatchupRuns
    <2>2. \A d \in Dates : d <= after => Safe(d)
      <3> SUFFICES ASSUME NEW d \in Dates, d <= after PROVE Safe(d)
        OBVIOUS
      <3>1. CASE d <= wm
        BY <1>0, <3>1 DEF SafeUpTo
      <3>2. CASE ~(d <= wm)
        <4>1. d \in wm + 1 .. after /\ ContiguouslyAccepted(after)
          BY <1>0, <1>z, <3>2, MarkFacts
        <4> QED BY <1>0, <4>1 DEF ContiguouslyAccepted, MarkersHold
      <3> QED BY <3>1, <3>2
    <2> QED BY <1>s, <2>1, <2>2 DEF CatchupHolds, SafeUpTo
  <1>7. CASE CatchupAdvance
    BY <1>7, <1>z DEF CatchupAdvance, CatchupHolds, SafeUpTo
  <1>8. CASE CatchupAdvanceFails
    <2>2. \/ catchup' = NoCatchup
          \/ catchup' = [catchup EXCEPT !.pc = "dates", !.after = 0, !.complete = FALSE]
      BY <1>8 DEF CatchupAdvanceFails
    <2>1. catchup'.pc \in {"idle", "dates"} /\ catchup'.after = 0
      <3>1. CASE catchup' = NoCatchup
        BY <3>1
      <3>2. CASE catchup' = [catchup EXCEPT !.pc = "dates", !.after = 0, !.complete = FALSE]
        <4>1. catchup'.pc = "dates" /\ catchup'.after = 0
          BY <1>0, <3>2 DEF CatchupRuns
        <4> QED BY <4>1
      <3> QED BY <2>2, <3>1, <3>2
    <2> QED BY <1>z, <2>1 DEF CatchupHolds, SafeUpTo
  <1>9. ASSUME NEW e \in ReportDays, Report(e) PROVE catchup' = catchup
    BY <1>9 DEF Report
  <1>10. Midnight \/ UNCHANGED vars => catchup' = catchup
    BY DEF Midnight, vars
  <1> QED BY <1>1, <1>2, <1>3, <1>4, <1>5, <1>6, <1>7, <1>8, <1>9, <1>10, DailyFrame,
             SilverFrame DEF Next, CatchupNext

LEMMA MarkersStep ==
    ASSUME BronzeInv, [Next]_vars
    PROVE  MarkersHold'
  <1>0. /\ TypeOK /\ DailyPosition /\ CatchupPosition /\ DailyHolds /\ CatchupHolds
        /\ MarkersHold
    BY DEF BronzeInv
  <1>s. \A d \in Dates : Safe(d) => Safe(d)'
    BY SafeIsStable
  <1>k. marker \in [Dates -> {"none", "COMPLETE", "COMPLETE_EMPTY", "FAILED"}]
    BY <1>0 DEF TypeOK
  <1>1. CASE marker' = marker
    BY <1>0, <1>1, <1>s DEF MarkersHold, Accepted
  <1>2. ASSUME NEW q \in Dates, NEW v, Safe(q), marker' = [marker EXCEPT ![q] = v]
        PROVE  MarkersHold'
    <2> SUFFICES ASSUME NEW d \in Dates, Accepted(d)' PROVE Safe(d)'
      BY DEF MarkersHold
    <2>1. d = q \/ Accepted(d)
      BY <1>k, <1>2 DEF Accepted
    <2> QED BY <1>0, <1>2, <1>s, <2>1 DEF MarkersHold
  <1>3. ASSUME NEW q \in Dates, marker' = [marker EXCEPT ![q] = "FAILED"]
        PROVE  MarkersHold'
    <2> SUFFICES ASSUME NEW d \in Dates, Accepted(d)' PROVE Safe(d)'
      BY DEF MarkersHold
    <2>1. Accepted(d)
      BY <1>k, <1>3 DEF Accepted
    <2> QED BY <1>0, <1>s, <2>1 DEF MarkersHold
  <1>4. CASE DailyMark
    <2>1. daily.next \in Dates /\ Safe(daily.next)
      BY <1>0, <1>4 DEF DailyMark, DailyPosition, DailyHolds
    <2> QED BY <1>2, <1>4, <2>1 DEF DailyMark
  <1>5. CASE DailyApiError
    <2>1. daily.next \in Dates
      BY <1>0, <1>5 DEF DailyApiError, DailyPosition
    <2> QED BY <1>3, <1>5, <2>1 DEF DailyApiError
  <1>6. CASE CatchupMark
    <2>1. catchup.date \in Dates /\ Safe(catchup.date)
      BY <1>0, <1>6 DEF CatchupMark, CatchupPosition, CatchupHolds
    <2> QED BY <1>2, <1>6, <2>1 DEF CatchupMark
  <1>7. CASE CatchupDateFails
    <2>1. catchup.date \in Dates
      BY <1>0, <1>7 DEF CatchupDateFails, CatchupPosition
    <2> QED BY <1>1, <1>3, <1>7, <2>1 DEF CatchupDateFails
  <1>8. DailyNext => marker' = marker \/ DailyMark \/ DailyApiError
    BY DEF DailyNext, DailyStart, DailyFetch, DailyCommit, DailyWatermark,
           DailyFetchT0, DailyCommitT0, DailyPublish, DailyDies
  <1>9. CatchupNext => marker' = marker \/ CatchupMark \/ CatchupDateFails
    BY DEF CatchupNext, CatchupStart, CatchupFetch, CatchupCommit, CatchupReadMarkers,
           CatchupAdvance, CatchupAdvanceFails
  <1>10. ASSUME NEW e \in ReportDays, Report(e) PROVE marker' = marker
    BY <1>10 DEF Report
  <1>11. Midnight \/ UNCHANGED vars => marker' = marker
    BY DEF Midnight, vars
  <1> QED BY <1>1, <1>4, <1>5, <1>6, <1>7, <1>8, <1>9, <1>10, <1>11, SilverFrame DEF Next

LEMMA WatermarkStep ==
    ASSUME BronzeInv, [Next]_vars
    PROVE  SafeUpTo(wm)'
  <1>0. /\ TypeOK /\ DailyPosition /\ DailyHolds /\ CatchupHolds /\ SafeUpTo(wm)
        /\ SafeUpTo(catchup.after)
    BY DEF BronzeInv, CatchupHolds
  <1>s. \A d \in Dates : Safe(d) => Safe(d)'
    BY SafeIsStable
  <1>1. CASE wm' = wm \/ wm' = catchup.after
    BY <1>0, <1>1, <1>s DEF SafeUpTo
  <1>2. CASE DailyWatermark
    <2>1. /\ wm' = daily.next /\ daily.next \in Dates /\ Safe(daily.next)
          /\ SafeUpTo(daily.next - 1)
      BY <1>0, <1>2 DEF DailyWatermark, DailyPosition, DailyHolds
    <2>2. \A d \in Dates : d <= daily.next => Safe(d)
      BY <2>1, MarkFacts DEF SafeUpTo
    <2> QED BY <1>s, <2>1, <2>2 DEF SafeUpTo
  <1>3. DailyNext => wm' = wm \/ DailyWatermark
    BY DEF DailyNext, DailyStart, DailyFetch, DailyCommit, DailyMark, DailyApiError,
           DailyFetchT0, DailyCommitT0, DailyPublish, DailyDies
  <1>4. CatchupNext => wm' = wm \/ wm' = catchup.after
    <2>1. CatchupAdvance \/ CatchupAdvanceFails => wm' = wm \/ wm' = catchup.after
      BY DEF CatchupAdvance, CatchupAdvanceFails, Advanced
    <2>2. CatchupNext => wm' = wm \/ CatchupAdvance \/ CatchupAdvanceFails
      BY DEF CatchupNext, CatchupStart, CatchupFetch, CatchupCommit, CatchupMark,
             CatchupDateFails, CatchupReadMarkers
    <2> QED BY <2>1, <2>2
  <1>5. ASSUME NEW e \in ReportDays, Report(e) PROVE wm' = wm
    BY <1>5 DEF Report
  <1>6. Midnight \/ UNCHANGED vars => wm' = wm
    BY DEF Midnight, vars
  <1> QED BY <1>1, <1>2, <1>3, <1>4, <1>5, <1>6, SilverFrame DEF Next

LEMMA BronzeStep ==
    ASSUME LagAssumption
    PROVE  BronzeInv /\ [Next]_vars => BronzeInv'
  <1> SUFFICES ASSUME BronzeInv, [Next]_vars PROVE BronzeInv'
    OBVIOUS
  <1>1. TypeOK'
    BY TypeStep DEF BronzeInv
  <1> QED BY <1>1, DailyPositionStep, DailyHoldsStep, CatchupPositionStep, CatchupHoldsStep,
             MarkersStep, WatermarkStep DEF BronzeInv

(* The Bronze watermark never passes a date whose request missed one of    *)
(* its reports, whichever runs meet or die, as long as a run that loads    *)
(* the current date lives through one midnight at most.                    *)
THEOREM ConfirmedReportsAreInBronze ==
    ASSUME LagAssumption
    PROVE  Spec => []ConfirmedReportsInBronze
  <1>1. BronzeInv => ConfirmedReportsInBronze
    BY DEF BronzeInv, SafeUpTo, Safe, Complete, ConfirmedReportsInBronze
  <1>2. BronzeInv /\ [Next]_vars => BronzeInv'
    BY BronzeStep
  <1> QED BY <1>1, <1>2, BronzeInit, PTL DEF Spec

-----------------------------------------------------------------------------
(* The invariant of Silver *)

SafeIsSettled ==
    \A d \in Dates : Safe(d) => Safe(d)' /\ (Punctual(d)' => Punctual(d))

LEMMA SafeDatesAreSettled ==
    ASSUME BronzeInv, [Next]_vars
    PROVE  SafeIsSettled
  BY SafeIsStable, PunctualIsSettled DEF BronzeInv, Safe, Over, SafeIsSettled

(* A safe date inside the range is collected whole: its own request date   *)
(* is one of those that are read.                                          *)
LEMMA CollectedIsComplete ==
    ASSUME NEW d \in Dates, Safe(d), NEW from \in Int, NEW to \in Int, NEW cutoff \in Int,
           from <= d, d <= to, d <= cutoff
    PROVE  Complete(d, Collected(from, to, cutoff))
  <1>1. d \in Int /\ Span \in Int /\ 1 <= Span
    BY MarkFacts, WindowAssumption
  <1>2. from - (Span - 1) <= d
    BY <1>1
  <1> QED BY <1>2 DEF Safe, Complete, Collected, Punctual

LEMMA SilverInit == Init => SilverInv
  <1> SUFFICES ASSUME Init PROVE SilverInv
    OBVIOUS
  <1>1. silverRun = NoSilver /\ silverWm = 0
    BY DEF Init
  <1>2. \A d \in Dates : ~(d <= 0)
    BY MarkFacts
  <1>3. SilverPosition /\ SilverReads /\ SilverHolds
    BY <1>1 DEF SilverPosition, SilverReads, SilverHolds
  <1> QED BY <1>1, <1>2, <1>3 DEF SilverInv, SafeUpTo

(* The other jobs, the API and the clock.                                  *)
LEMMA SilverUntouched ==
    ASSUME BronzeInv, SilverInv, [Next]_vars, UNCHANGED silverVars
    PROVE  SilverInv'
  <1>0. /\ SilverPosition /\ SilverReads /\ SilverHolds
        /\ SafeUpTo(silverRun.bronzeWm) /\ SafeUpTo(silverWm)
        /\ \A d \in Dates : d <= silverWm => Complete(d, silver)
        /\ SafeIsSettled
        /\ silverRun' = silverRun /\ silver' = silver /\ silverWm' = silverWm
        /\ silverRun \in SilverRuns
    BY SafeDatesAreSettled DEF SilverInv, silverVars, BronzeInv, TypeOK
  <1>1. SilverPosition' /\ SilverReads'
    BY <1>0 DEF SilverPosition, SilverReads, Uncapped, SettledEnd, WindowStart, Earlier
  <1>2. SafeUpTo(silverRun.bronzeWm)' /\ SafeUpTo(silverWm)'
    BY <1>0 DEF SafeUpTo, SafeIsSettled
  <1>3. (\A d \in Dates : d <= silverWm => Complete(d, silver))'
    BY <1>0 DEF SafeUpTo, SafeIsSettled, Complete
  <1>4. ASSUME silverRun.pc \in {"backlog", "mark"}, NEW d \in Dates, d <= silverRun.last
        PROVE  Safe(d)
    <2>1. silverRun.last <= silverRun.bronzeWm
      BY <1>0, <1>4 DEF SilverPosition
    <2>2. d <= silverRun.bronzeWm
      BY <1>0, <1>4, <2>1, MarkFacts DEF SilverRuns
    <2> QED BY <1>0, <2>2 DEF SafeUpTo
  <1>5. ASSUME silverRun.pc = "backlog"
        PROVE  (\A d \in Dates : silverWm < d /\ d <= silverRun.last
                                 => Complete(d, silverRun.rows))'
    BY <1>0, <1>4, <1>5 DEF SilverHolds, SafeIsSettled, Complete
  <1>6. ASSUME silverRun.pc = "mark"
        PROVE  (\A d \in Dates : silverWm < d /\ d <= silverRun.last => Complete(d, silver))'
    BY <1>0, <1>4, <1>6 DEF SilverHolds, SafeIsSettled, Complete
  <1>7. ASSUME silverRun.pc = "window"
        PROVE  (\A d \in Dates : /\ d <= silverWm \/ d <= silverRun.bronzeWm
                                 /\ WindowStart(silverRun.cutoff) <= d
                                 /\ d <= silverRun.cutoff
                                 => Complete(d, silverRun.rows))'
    <2>1. \A d \in Dates : d <= silverWm \/ d <= silverRun.bronzeWm => Safe(d)
      BY <1>0 DEF SafeUpTo
    <2> QED BY <1>0, <1>7, <2>1 DEF SilverHolds, SafeIsSettled, Complete, WindowStart
  <1>8. SilverHolds'
    BY <1>0, <1>5, <1>6, <1>7 DEF SilverHolds
  <1> QED BY <1>1, <1>2, <1>3, <1>8 DEF SilverInv

(* What every step of a Silver run leaves to its dates.                    *)
LEMMA SilverSettled ==
    ASSUME BronzeInv, SilverInv, [Next]_vars, SilverNext
    PROVE  /\ SafeIsSettled
           /\ UNCHANGED <<today, reported, bronze, wm, marker, daily, catchup>>
           /\ \A d \in Dates : Safe(d)' <=> Safe(d)
           /\ \A d : Punctual(d)' <=> Punctual(d)
           /\ silverRun \in SilverRuns /\ silver \in Rows /\ silverWm \in Marks
           /\ wm \in Marks /\ SafeUpTo(wm)
           /\ \A d \in Dates : ~(d <= 0)
  BY SafeDatesAreSettled, SilverFrame, MarkFacts
  DEF BronzeInv, TypeOK, Safe, Over, Complete, Punctual

LEMMA SilverStep ==
    ASSUME BronzeInv, SilverInv, [Next]_vars, SilverNext
    PROVE  SilverInv'
  <1>0. /\ SilverPosition /\ SilverReads /\ SilverHolds
        /\ SafeUpTo(silverRun.bronzeWm) /\ SafeUpTo(silverWm)
        /\ \A d \in Dates : d <= silverWm => Complete(d, silver)
        /\ TypeOK
    BY DEF SilverInv, BronzeInv
  <1>t. /\ silverRun \in SilverRuns /\ silver \in Rows /\ silverWm \in Marks /\ wm \in Marks
        /\ SafeUpTo(wm)
        /\ \A d \in Dates : ~(d <= 0)
    BY SilverSettled
  <1>s. \A d \in Dates : Safe(d) => Safe(d)'
    BY SilverSettled
  <1>c. \A d, rows : Complete(d, rows) => (Punctual(d)' => d \in rows)
    BY SilverSettled DEF Complete
  <1>k. ASSUME silverWm' = silverWm
        PROVE  SafeUpTo(silverWm)'
    BY <1>0, <1>s, <1>k DEF SafeUpTo
  <1>v. ASSUME silverWm' = silverWm, silver' = silver
        PROVE  (\A d \in Dates : d <= silverWm => Complete(d, silver))'
    BY <1>0, <1>c, <1>v DEF Complete
  <1>b. ASSUME silverRun'.bronzeWm = silverRun.bronzeWm
        PROVE  SafeUpTo(silverRun.bronzeWm)'
    BY <1>0, <1>b, <1>s DEF SafeUpTo
  <1>1. CASE SilverStart \/ SilverDies
    <2>1. /\ silverRun'.pc \in {"idle", "read"} /\ silverRun'.bronzeWm = 0
          /\ silverWm' = silverWm /\ silver' = silver
      <3>1. CASE silverRun' = NoSilver
        BY <1>1, <3>1 DEF SilverStart, SilverDies
      <3>2. CASE silverRun' = [NoSilver EXCEPT !.pc = "read"]
        BY <1>1, <3>2 DEF SilverStart, SilverDies
      <3> QED BY <1>1, <3>1, <3>2 DEF SilverStart, SilverDies
    <2>2. SilverPosition' /\ SilverReads' /\ SilverHolds'
      BY <2>1 DEF SilverPosition, SilverReads, SilverHolds
    <2>3. SafeUpTo(silverRun.bronzeWm)'
      BY <1>t, <2>1 DEF SafeUpTo
    <2> QED BY <2>1, <2>2, <2>3, <1>k, <1>v DEF SilverInv
  <1>2. CASE SilverRead
    <2>1. /\ silverRun'.pc = "resolve" /\ silverRun'.bronzeWm = wm
          /\ silverRun'.silverWm = silverWm /\ silverWm' = silverWm /\ silver' = silver
      BY <1>t, <1>2 DEF SilverRead, SilverRuns
    <2>2. SilverPosition' /\ SilverReads' /\ SilverHolds'
      BY <2>1 DEF SilverPosition, SilverReads, SilverHolds
    <2>3. SafeUpTo(silverRun.bronzeWm)'
      BY <1>t, <1>s, <2>1 DEF SafeUpTo
    <2> QED BY <2>1, <2>2, <2>3, <1>k, <1>v DEF SilverInv
  <1>3. CASE SilverResolve
    <2>0. /\ silverRun.pc = "resolve" /\ silverRun.silverWm = silverWm
          /\ silverWm' = silverWm /\ silver' = silver
      BY <1>0, <1>3 DEF SilverResolve, SilverReads
    <2> PICK cutoff \in Marks :
          /\ silverRun.bronzeWm <= cutoff
          /\ \/ /\ silverRun' = [silverRun EXCEPT !.pc = "scanWindow", !.cutoff = cutoff]
                /\ Uncapped => SettledEnd(silverRun.bronzeWm, cutoff) <= silverRun.silverWm
             \/ \E last \in Marks :
                  /\ silverRun' = [silverRun EXCEPT !.pc = "scanBacklog", !.cutoff = cutoff,
                                                    !.last = last]
                  /\ silverRun.silverWm < last
                  /\ last <= silverRun.bronzeWm
                  /\ last <= cutoff - Span
                  /\ Uncapped => last = SettledEnd(silverRun.bronzeWm, cutoff)
      BY <1>0, <1>3, Resolved
    <2>1. ASSUME silverRun' = [silverRun EXCEPT !.pc = "scanWindow", !.cutoff = cutoff],
                 Uncapped => SettledEnd(silverRun.bronzeWm, cutoff) <= silverRun.silverWm
          PROVE  SilverInv'
      <3>1. /\ silverRun'.pc = "scanWindow" /\ silverRun'.bronzeWm = silverRun.bronzeWm
            /\ silverRun'.silverWm = silverRun.silverWm /\ silverRun'.cutoff = cutoff
        BY <1>t, <2>1 DEF SilverRuns
      <3>2. Uncapped' = Uncapped
        BY <3>1 DEF Uncapped
      <3>3. SettledEnd(silverRun.bronzeWm, silverRun.cutoff)'
            = SettledEnd(silverRun.bronzeWm, cutoff)
        BY <3>1 DEF SettledEnd, WindowStart, Earlier
      <3>4. SilverPosition' /\ SilverReads' /\ SilverHolds'
        BY <2>0, <2>1, <3>1, <3>2, <3>3 DEF SilverPosition, SilverReads, SilverHolds
      <3> QED BY <2>0, <3>1, <3>4, <1>k, <1>v, <1>b DEF SilverInv
    <2>2. ASSUME NEW last \in Marks,
                 silverRun' = [silverRun EXCEPT !.pc = "scanBacklog", !.cutoff = cutoff,
                                                !.last = last],
                 silverRun.silverWm < last, last <= silverRun.bronzeWm, last <= cutoff - Span,
                 Uncapped => last = SettledEnd(silverRun.bronzeWm, cutoff)
          PROVE  SilverInv'
      <3>1. /\ silverRun'.pc = "scanBacklog" /\ silverRun'.bronzeWm = silverRun.bronzeWm
            /\ silverRun'.silverWm = silverRun.silverWm /\ silverRun'.cutoff = cutoff
            /\ silverRun'.last = last
        BY <1>t, <2>2 DEF SilverRuns
      <3>2. Uncapped' = Uncapped
        BY <3>1 DEF Uncapped
      <3>3. SettledEnd(silverRun.bronzeWm, silverRun.cutoff)'
            = SettledEnd(silverRun.bronzeWm, cutoff)
        BY <3>1 DEF SettledEnd, WindowStart, Earlier
      <3>4. SilverPosition' /\ SilverReads' /\ SilverHolds'
        BY <2>0, <2>2, <3>1, <3>2, <3>3 DEF SilverPosition, SilverReads, SilverHolds
      <3> QED BY <2>0, <3>1, <3>4, <1>k, <1>v, <1>b DEF SilverInv
    <2> QED BY <2>1, <2>2
  <1>4. CASE SilverScanBacklog
    <2> DEFINE rows == Collected(silverRun.silverWm + 1, silverRun.last, silverRun.cutoff)
    <2>1. /\ silverRun.pc = "scanBacklog" /\ silverRun'.pc = "backlog"
          /\ silverRun'.bronzeWm = silverRun.bronzeWm
          /\ silverRun'.silverWm = silverRun.silverWm
          /\ silverRun'.cutoff = silverRun.cutoff /\ silverRun'.last = silverRun.last
          /\ silverRun'.rows = rows /\ silverWm' = silverWm /\ silver' = silver
      BY <1>t, <1>4 DEF SilverScanBacklog, SilverRuns
    <2>2. /\ silverRun.silverWm = silverWm /\ silverRun.last <= silverRun.bronzeWm
          /\ silverRun.last <= silverRun.cutoff - Span
      BY <1>0, <2>1 DEF SilverPosition, SilverReads
    <2>3. SilverPosition' /\ SilverReads'
      <3>1. Uncapped' = Uncapped
        BY <2>1 DEF Uncapped
      <3>2. SettledEnd(silverRun.bronzeWm, silverRun.cutoff)'
            = SettledEnd(silverRun.bronzeWm, silverRun.cutoff)
        BY <2>1 DEF SettledEnd, WindowStart, Earlier
      <3> QED BY <1>0, <2>1, <3>1, <3>2 DEF SilverPosition, SilverReads
    <2>4. \A d \in Dates : silverWm < d /\ d <= silverRun.last => Complete(d, rows)
      <3> SUFFICES ASSUME NEW d \in Dates, silverWm < d, d <= silverRun.last
                   PROVE  Complete(d, rows)
        OBVIOUS
      <3>1. /\ silverRun.silverWm + 1 \in Int /\ silverRun.last \in Int
            /\ silverRun.cutoff \in Int /\ silverRun.bronzeWm \in Int
            /\ d \in Int /\ Span \in Int /\ 1 <= Span
        BY <1>t, MarkFacts, WindowAssumption DEF SilverRuns
      <3>2. silverRun.silverWm + 1 <= d /\ d <= silverRun.cutoff /\ d <= silverRun.bronzeWm
        BY <2>2, <3>1, <1>t, MarkFacts DEF SilverRuns
      <3>3. Safe(d)
        BY <1>0, <3>2 DEF SafeUpTo
      <3> QED BY <3>1, <3>2, <3>3, CollectedIsComplete
    <2>5. SilverHolds'
      <3> HIDE DEF rows
      <3>1. (\A d \in Dates : silverWm < d /\ d <= silverRun.last
                              => Complete(d, silverRun.rows))'
        BY <2>1, <2>4, <1>c DEF Complete
      <3> QED BY <2>1, <3>1 DEF SilverHolds
    <2> QED BY <2>1, <2>3, <2>5, <1>k, <1>v, <1>b DEF SilverInv
  <1>5. CASE SilverReplaceBacklog
    <2>1. /\ silverRun.pc = "backlog" /\ silverRun'.pc = "mark"
          /\ silverRun'.bronzeWm = silverRun.bronzeWm
          /\ silverRun'.silverWm = silverRun.silverWm
          /\ silverRun'.cutoff = silverRun.cutoff /\ silverRun'.last = silverRun.last
          /\ silverWm' = silverWm
          /\ silver' = Replaced(silverRun.silverWm + 1, silverRun.last, silverRun.rows)
      BY <1>t, <1>5 DEF SilverReplaceBacklog, SilverRuns
    <2>2. silverRun.silverWm = silverWm
      BY <1>0, <2>1 DEF SilverReads
    <2>3. SilverPosition' /\ SilverReads'
      <3>1. Uncapped' = Uncapped
        BY <2>1 DEF Uncapped
      <3>2. SettledEnd(silverRun.bronzeWm, silverRun.cutoff)'
            = SettledEnd(silverRun.bronzeWm, silverRun.cutoff)
        BY <2>1 DEF SettledEnd, WindowStart, Earlier
      <3> QED BY <1>0, <2>1, <3>1, <3>2 DEF SilverPosition, SilverReads
    <2>4. \A d \in Dates : d <= silverWm => Complete(d, silver')
      <3> SUFFICES ASSUME NEW d \in Dates, d <= silverWm PROVE Complete(d, silver')
        OBVIOUS
      <3>1. d < silverRun.silverWm + 1
        BY <1>t, <2>2, MarkFacts
      <3>2. Complete(d, silver)
        BY <1>0
      <3> QED BY <2>1, <3>1, <3>2 DEF Complete, Replaced
    <2>5. \A d \in Dates : silverWm < d /\ d <= silverRun.last => Complete(d, silver')
      <3> SUFFICES ASSUME NEW d \in Dates, silverWm < d, d <= silverRun.last
                   PROVE  Complete(d, silver')
        OBVIOUS
      <3>1. Complete(d, silverRun.rows)
        BY <1>0, <2>1 DEF SilverHolds
      <3> QED BY <2>1, <3>1 DEF Complete, Replaced
    <2>6. (\A d \in Dates : d <= silverWm => Complete(d, silver))'
      BY <2>1, <2>4, <1>c DEF Complete
    <2>7. SilverHolds'
      <3>1. (\A d \in Dates : silverWm < d /\ d <= silverRun.last => Complete(d, silver))'
        BY <2>1, <2>5, <1>c DEF Complete
      <3> QED BY <2>1, <3>1 DEF SilverHolds
    <2> QED BY <2>1, <2>3, <2>6, <2>7, <1>k, <1>b DEF SilverInv
  <1>6. CASE SilverMark
    <2>1. /\ silverRun.pc = "mark" /\ silverRun'.pc = "scanWindow"
          /\ silverRun'.bronzeWm = silverRun.bronzeWm
          /\ silverRun'.silverWm = silverRun.silverWm
          /\ silverRun'.cutoff = silverRun.cutoff
          /\ silverWm' = silverRun.last /\ silver' = silver
      BY <1>t, <1>6 DEF SilverMark, SettledMark, SilverRuns
    <2>2. /\ silverRun.last <= silverRun.bronzeWm
          /\ silverRun.bronzeWm <= silverRun.cutoff
          /\ Uncapped => silverRun.last = SettledEnd(silverRun.bronzeWm, silverRun.cutoff)
      BY <1>0, <2>1 DEF SilverPosition
    <2>3. SilverPosition' /\ SilverReads'
      <3>1. Uncapped' = Uncapped
        BY <2>1 DEF Uncapped
      <3>2. SettledEnd(silverRun.bronzeWm, silverRun.cutoff)'
            = SettledEnd(silverRun.bronzeWm, silverRun.cutoff)
        BY <2>1 DEF SettledEnd, WindowStart, Earlier
      <3>3. silverRun.last <= silverRun.last
        BY <1>t, MarkFacts DEF SilverRuns
      <3>4. Uncapped' => SettledEnd(silverRun.bronzeWm, silverRun.cutoff)' <= silverWm'
        BY <2>1, <2>2, <3>1, <3>2, <3>3
      <3>5. silverRun'.bronzeWm <= silverRun'.cutoff
        BY <2>1, <2>2
      <3> QED BY <2>1, <3>4, <3>5 DEF SilverPosition, SilverReads
    <2>4. SafeUpTo(silverWm)'
      <3>1. \A d \in Dates : d <= silverRun.last => d <= silverRun.bronzeWm
        BY <1>t, <2>2, MarkFacts DEF SilverRuns
      <3> QED BY <1>0, <1>s, <2>1, <3>1 DEF SafeUpTo
    <2>5. (\A d \in Dates : d <= silverWm => Complete(d, silver))'
      <3>1. \A d \in Dates : d <= silverWm \/ silverWm < d
        BY <1>t, MarkFacts
      <3>2. \A d \in Dates : d <= silverRun.last => Complete(d, silver)
        BY <1>0, <2>1, <3>1 DEF SilverHolds
      <3> QED BY <1>c, <2>1, <3>2 DEF Complete
    <2>6. SilverHolds'
      BY <2>1 DEF SilverHolds
    <2> QED BY <2>1, <2>3, <2>4, <2>5, <2>6, <1>b DEF SilverInv
  <1>7. CASE SilverScanWindow
    <2> DEFINE rows == Collected(WindowStart(silverRun.cutoff), silverRun.cutoff,
                                 silverRun.cutoff)
    <2>1. /\ silverRun.pc = "scanWindow" /\ silverRun'.pc = "window"
          /\ silverRun'.bronzeWm = silverRun.bronzeWm
          /\ silverRun'.silverWm = silverRun.silverWm
          /\ silverRun'.cutoff = silverRun.cutoff
          /\ silverRun'.rows = rows /\ silverWm' = silverWm /\ silver' = silver
      BY <1>t, <1>7 DEF SilverScanWindow, SilverRuns
    <2>2. SilverPosition' /\ SilverReads'
      <3>1. Uncapped' = Uncapped
        BY <2>1 DEF Uncapped
      <3>2. SettledEnd(silverRun.bronzeWm, silverRun.cutoff)'
            = SettledEnd(silverRun.bronzeWm, silverRun.cutoff)
        BY <2>1 DEF SettledEnd, WindowStart, Earlier
      <3> QED BY <1>0, <2>1, <3>1, <3>2 DEF SilverPosition, SilverReads
    <2>3. \A d \in Dates : /\ d <= silverWm \/ d <= silverRun.bronzeWm
                           /\ WindowStart(silverRun.cutoff) <= d
                           /\ d <= silverRun.cutoff
                           => Complete(d, rows)
      <3> SUFFICES ASSUME NEW d \in Dates, d <= silverWm \/ d <= silverRun.bronzeWm,
                          WindowStart(silverRun.cutoff) <= d, d <= silverRun.cutoff
                   PROVE  Complete(d, rows)
        OBVIOUS
      <3>1. WindowStart(silverRun.cutoff) \in Int /\ silverRun.cutoff \in Int
        BY <1>t, MarkFacts, WindowAssumption DEF SilverRuns, WindowStart
      <3>2. Safe(d)
        BY <1>0 DEF SafeUpTo
      <3> HIDE DEF WindowStart
      <3> QED BY <3>1, <3>2, CollectedIsComplete
    <2>4. SilverHolds'
      <3> HIDE DEF rows
      <3>1. (\A d \in Dates : /\ d <= silverWm \/ d <= silverRun.bronzeWm
                              /\ WindowStart(silverRun.cutoff) <= d
                              /\ d <= silverRun.cutoff
                              => Complete(d, silverRun.rows))'
        BY <2>1, <2>3, <1>c DEF Complete, WindowStart
      <3> QED BY <2>1, <3>1 DEF SilverHolds
    <2> QED BY <2>1, <2>2, <2>4, <1>k, <1>v, <1>b DEF SilverInv
  <1>8. CASE SilverReplaceWindow
    <2>1. /\ silverRun.pc = "window" /\ silverRun' = NoSilver /\ silverWm' = silverWm
          /\ silver' = Replaced(WindowStart(silverRun.cutoff), silverRun.cutoff,
                                silverRun.rows)
      BY <1>8 DEF SilverReplaceWindow
    <2>2. SilverPosition' /\ SilverReads' /\ SilverHolds'
      BY <2>1 DEF SilverPosition, SilverReads, SilverHolds
    <2>3. SafeUpTo(silverRun.bronzeWm)'
      BY <1>t, <2>1 DEF SafeUpTo
    <2>4. \A d \in Dates : d <= silverWm => Complete(d, silver')
      <3> SUFFICES ASSUME NEW d \in Dates, d <= silverWm PROVE Complete(d, silver')
        OBVIOUS
      <3>1. /\ WindowStart(silverRun.cutoff) \in Int /\ silverRun.cutoff \in Int /\ d \in Int
        BY <1>t, MarkFacts, WindowAssumption DEF SilverRuns, WindowStart
      <3>2. CASE WindowStart(silverRun.cutoff) <= d /\ d <= silverRun.cutoff
        <4>1. Complete(d, silverRun.rows)
          BY <1>0, <2>1, <3>2 DEF SilverHolds
        <4> QED BY <2>1, <4>1 DEF Complete, Replaced
      <3>3. CASE ~(WindowStart(silverRun.cutoff) <= d /\ d <= silverRun.cutoff)
        <4>1. d < WindowStart(silverRun.cutoff) \/ silverRun.cutoff < d
          BY <3>1, <3>3
        <4>2. Complete(d, silver)
          BY <1>0
        <4> QED BY <2>1, <4>1, <4>2 DEF Complete, Replaced
      <3> QED BY <3>2, <3>3
    <2>5. (\A d \in Dates : d <= silverWm => Complete(d, silver))'
      BY <2>1, <2>4, <1>c DEF Complete
    <2> QED BY <2>1, <2>2, <2>3, <2>5, <1>k DEF SilverInv
  <1> QED BY <1>1, <1>2, <1>3, <1>4, <1>5, <1>6, <1>7, <1>8 DEF SilverNext

LEMMA InvariantsHold ==
    ASSUME LagAssumption
    PROVE  Spec => [](BronzeInv /\ SilverInv)
  <1>1. BronzeInv /\ SilverInv /\ [Next]_vars => (BronzeInv /\ SilverInv)'
    <2> SUFFICES ASSUME BronzeInv, SilverInv, [Next]_vars PROVE SilverInv'
      BY BronzeStep
    <2>1. SilverNext \/ UNCHANGED silverVars
      <3>1. ASSUME NEW e \in ReportDays, Report(e) PROVE UNCHANGED silverVars
        BY <3>1 DEF Report
      <3>2. Midnight \/ UNCHANGED vars => UNCHANGED silverVars
        BY DEF Midnight, vars
      <3> QED BY <3>1, <3>2, DailyFrame, CatchupFrame DEF Next
    <2> QED BY <2>1, SilverStep, SilverUntouched
  <1> QED BY <1>1, BronzeInit, SilverInit, PTL DEF Spec

(* The Silver watermark never passes a report that is not in Silver, also  *)
(* while a run replaces the window.                                        *)
THEOREM SettledReportsAreInSilver ==
    ASSUME LagAssumption
    PROVE  Spec => []SettledReportsInSilver
  <1>1. SilverInv => SettledReportsInSilver
    BY DEF SilverInv, Complete, SettledReportsInSilver
  <1> QED BY <1>1, InvariantsHold, PTL

(* A Silver run that ends without a capped backlog has brought every       *)
(* report that was confirmed when it began.                                *)
THEOREM SilverCatchesUpWithBronze ==
    ASSUME LagAssumption
    PROVE  Spec => SilverReflectsBronze
  <1>1. ASSUME BronzeInv, SilverInv, SilverReplaceWindow,
               silverRun.bronzeWm <= silverRun.silverWm + SilverMaxDays,
               NEW d \in Dates, Punctual(d), d <= silverRun.bronzeWm
        PROVE  d \in silver'
    <2>1. /\ silverRun.pc = "window" /\ reported' = reported
          /\ silver' = Replaced(WindowStart(silverRun.cutoff), silverRun.cutoff,
                                silverRun.rows)
          /\ SilverPosition /\ SilverHolds /\ silverRun \in SilverRuns
          /\ \A e \in Dates : e <= silverWm => Complete(e, silver)
      BY <1>1 DEF SilverReplaceWindow, SilverInv, BronzeInv, TypeOK
    <2>2. /\ silverRun.bronzeWm <= silverRun.cutoff
          /\ SettledEnd(silverRun.bronzeWm, silverRun.cutoff) <= silverWm
      BY <1>1, <2>1 DEF SilverPosition, Uncapped
    <2>3. /\ silverRun.bronzeWm \in Int /\ silverRun.cutoff \in Int /\ d \in Int
          /\ silverWm \in Int /\ Span \in Int
          /\ WindowStart(silverRun.cutoff) = silverRun.cutoff - Span + 1
      BY <1>1, <2>1, MarkFacts, WindowAssumption
      DEF SilverRuns, BronzeInv, TypeOK, WindowStart
    <2>5. CASE WindowStart(silverRun.cutoff) <= d
      <3>1. d <= silverRun.cutoff
        BY <1>1, <2>2, <2>3
      <3>2. d \in silverRun.rows
        BY <1>1, <2>1, <2>5, <3>1 DEF SilverHolds, Complete
      <3> QED BY <2>1, <3>2 DEF Replaced
    <2>6. CASE ~(WindowStart(silverRun.cutoff) <= d)
      <3>1. d < WindowStart(silverRun.cutoff)
        BY <2>3, <2>6
      <3>2. d <= SettledEnd(silverRun.bronzeWm, silverRun.cutoff)
        BY <1>1, <2>3, <3>1 DEF SettledEnd, Earlier
      <3>3. d <= silverWm
        BY <2>2, <2>3, <3>2 DEF SettledEnd, Earlier
      <3>4. d \in silver
        BY <1>1, <2>1, <3>3 DEF Complete
      <3> QED BY <2>1, <3>1, <3>4 DEF Replaced
    <2> QED BY <2>5, <2>6
  <1>2. BronzeInv /\ SilverInv =>
            [SilverReplaceWindow /\ silverRun.bronzeWm <= silverRun.silverWm + SilverMaxDays
             => \A d \in Dates : Punctual(d) /\ d <= silverRun.bronzeWm => d \in silver']_vars
    BY <1>1
  <1> QED BY <1>2, InvariantsHold, PTL DEF SilverReflectsBronze

(* A run that empties a range and fills it again puts back what it found   *)
(* confirmed, also when a cap has cut its backlog.                         *)
THEOREM ConfirmedReportsAreKept ==
    ASSUME LagAssumption
    PROVE  Spec => ReportsAreKept
  <1>1. ASSUME BronzeInv, SilverInv, [Next]_vars, NEW d \in silver, Punctual(d),
               d <= silverRun.bronzeWm
        PROVE  d \in silver'
    <2>1. d \in Dates /\ d \in Int
      BY <1>1, ReportAssumption, MarkFacts DEF Punctual
    <2>2. /\ silverRun \in SilverRuns /\ silverWm \in Int /\ silverRun.last \in Int
          /\ silverRun.cutoff \in Int /\ SilverPosition /\ SilverReads /\ SilverHolds
      BY <1>1, MarkFacts DEF SilverInv, BronzeInv, TypeOK, SilverRuns
    <2>3. CASE SilverReplaceBacklog
      <3>1. /\ silverRun.pc = "backlog" /\ silverRun.silverWm = silverWm
            /\ silver' = Replaced(silverWm + 1, silverRun.last, silverRun.rows)
        BY <2>2, <2>3 DEF SilverReplaceBacklog, SilverReads
      <3>2. CASE silverWm < d /\ d <= silverRun.last
        <4>1. d \in silverRun.rows
          BY <1>1, <2>1, <2>2, <3>1, <3>2 DEF SilverHolds, Complete
        <4> QED BY <3>1, <4>1 DEF Replaced
      <3>3. CASE ~(silverWm < d /\ d <= silverRun.last)
        <4>1. d < silverWm + 1 \/ silverRun.last < d
          BY <2>1, <2>2, <3>3
        <4> QED BY <1>1, <3>1, <4>1 DEF Replaced
      <3> QED BY <3>2, <3>3
    <2>4. CASE SilverReplaceWindow
      <3>1. /\ silverRun.pc = "window"
            /\ silver' = Replaced(WindowStart(silverRun.cutoff), silverRun.cutoff,
                                  silverRun.rows)
        BY <2>4 DEF SilverReplaceWindow
      <3>2. CASE WindowStart(silverRun.cutoff) <= d /\ d <= silverRun.cutoff
        <4>1. d \in silverRun.rows
          BY <1>1, <2>1, <2>2, <3>1, <3>2 DEF SilverHolds, Complete
        <4> QED BY <3>1, <4>1 DEF Replaced
      <3>3. CASE ~(WindowStart(silverRun.cutoff) <= d /\ d <= silverRun.cutoff)
        <4>1. WindowStart(silverRun.cutoff) \in Int
          BY <2>2, WindowAssumption DEF WindowStart
        <4>2. d < WindowStart(silverRun.cutoff) \/ silverRun.cutoff < d
          BY <2>1, <2>2, <3>3, <4>1
        <4> QED BY <1>1, <3>1, <4>2 DEF Replaced
      <3> QED BY <3>2, <3>3
    <2>5. CASE ~ SilverReplaceBacklog /\ ~ SilverReplaceWindow
      <3>1. SilverNext => silver' = silver
        BY <2>5 DEF SilverNext, SilverStart, SilverRead, SilverResolve,
           SilverScanBacklog, SilverMark, SilverScanWindow, SilverDies
      <3>2. ASSUME NEW e \in ReportDays, Report(e) PROVE silver' = silver
        BY <3>2 DEF Report, silverVars
      <3>3. Midnight \/ UNCHANGED vars => silver' = silver
        BY DEF Midnight, vars, silverVars
      <3> QED
        BY <1>1, <3>1, <3>2, <3>3, DailyFrame, CatchupFrame DEF Next, silverVars
    <2> QED BY <2>3, <2>4, <2>5
  <1>2. BronzeInv /\ SilverInv /\ [Next]_vars =>
            [\A d \in silver : Punctual(d) /\ d <= silverRun.bronzeWm => d \in silver']_vars
    BY <1>1
  <1> QED BY <1>2, InvariantsHold, PTL DEF ReportsAreKept, Spec
=============================================================================
