------------------------ MODULE RentalBronze_proofs ------------------------
(***************************************************************************)
(* Proofs about RentalBronze for every horizon, backlog cap, batch size    *)
(* and set of deployed processes.  The argument: a date is SAFE when it    *)
(* was confirmed empty, or is in Bronze as a whole day and lies in the     *)
(* past of every run that could still replace it by a partial one.  No     *)
(* step makes a safe date unsafe (SafeIsStable); every document and every  *)
(* pending watermark write speaks of safe dates only (IndInv).             *)
(***************************************************************************)
EXTENDS RentalBronze, TLAPS

(* A daily run that promotes the running day may overtake one midnight but *)
(* not two: from the second on the catch-up may already have confirmed its *)
(* date (RentalBronze_T0Lag.cfg is the run without this assumption).       *)
ASSUME LagAssumption == T0Enabled => MaxLag <= 1

Past(d) == d < daily.run \/ d <= today - 2
Safe(d) == d \in approved \/ (Whole(d) /\ Past(d))
SafeUpTo(x) == \A d \in Dates : d <= x => Safe(d)

Clock ==
    /\ today \in Dates
    /\ daily.run <= today
    /\ catchup.run <= today
    /\ daily.run \in Dates \cup {0}
    /\ daily.pc # "idle" => daily.run \in Dates /\ today <= daily.run + MaxLag
    /\ confirm.pc # "idle" => confirm.date \in Dates

DocumentsSafe ==
    /\ \A d \in Dates : catchupDoc[d] => Whole(d) /\ Past(d)
    /\ \A d \in Dates : marker[d].status = "COMPLETE" => Whole(d) /\ Past(d)
    /\ \A d \in Dates : marker[d].status = "MANUALLY_CONFIRMED_EMPTY" => d \in approved

OfThisRun(keys) ==
    \A k \in keys : /\ k.run = daily.run /\ k.by # "CATCHUP"
                    /\ T0Enabled \/ FullDay(k)

DailyRun ==
    /\ OfThisRun(selection.keys)
    /\ OfThisRun(promotion.keys)
    /\ \A k \in promotion.keys : FullDay(k) => Whole(k.date)
    /\ daily.pc = "mark" => \A k \in selection.keys : FullDay(k) => Whole(k.date)
    /\ daily.pc = "write" => SafeUpTo(daily.next)

CatchupRun ==
    /\ \A d \in catchup.gap \cup catchup.ready \cup catchup.batch :
          d <= catchup.run - 2
    /\ catchup.left \subseteq catchup.batch
    /\ catchup.pc \in {"prepare", "batch"} => catchup.left = {}
    /\ catchup.pc = "docs" => \A d \in catchup.batch : Whole(d)
    /\ catchup.pc = "write" => SafeUpTo(catchup.next)

Marks ==
    /\ SafeUpTo(wm)
    /\ SafeUpTo(silverWm)
    /\ silver.pc = "running" => SafeUpTo(silver.upto)
    /\ confirm.pc # "idle" => SafeUpTo(confirm.date - 1)
    /\ confirm.pc \in {"bronze", "silver"} => confirm.date \in approved

IndInv == TypeOK /\ Clock /\ DocumentsSafe /\ DailyRun /\ CatchupRun /\ Marks

USE HorizonAssumption, FlagAssumption, ProcessAssumption, OutcomeAssumption,
    BoundAssumption, LagAssumption

-----------------------------------------------------------------------------
(* Typing, with the clock. *)

LEMMA HorizonFacts ==
    /\ 0 \in 0 .. LastDay
    /\ Dates \subseteq Nat
    /\ \A d \in Dates : d \in 0 .. LastDay
BY DEF Dates

LEMMA TypeInit == Init => TypeOK /\ Clock
<1> SUFFICES ASSUME Init PROVE TypeOK /\ Clock
  OBVIOUS
<1>1. daily \in DailyRuns /\ catchup \in CatchupRuns
  BY DEF Init, DailyRuns, CatchupRuns, Dates
<1>2. confirm \in ConfirmRuns /\ silver \in SilverRuns
  BY DEF Init, NoConfirmation, ConfirmRuns, SilverRuns, Dates
<1>3. selection \in Documents /\ promotion \in Documents
  BY DEF Init, Documents, NoDoc
<1>4. marker \in [Dates -> Markers]
  BY DEF Init, Markers, NoMarker, MarkerStatus
<1>5. raw \in [Keys -> ManifestStatus]
  BY DEF Init, ManifestStatus
<1>6. bronze \in [Dates -> Keys \cup {NoKey}] /\ catchupDoc \in [Dates -> BOOLEAN]
  BY DEF Init
<1>7. Clock
  BY DEF Init, NoConfirmation, Clock, Dates
<1> QED
  BY <1>1, <1>2, <1>3, <1>4, <1>5, <1>6, <1>7, HorizonFacts DEF Init, TypeOK

(* Every key a run may select is a Raw key.                                  *)
LEMMA SelectedAreKeys ==
    ASSUME TypeOK, Clock, daily.pc = "select"
    PROVE  Selected(raw, wm, daily.run) \subseteq Keys
<1>1. daily.run \in Dates
  BY DEF Clock
<1>2. RequiredWindow(wm, daily.run) \subseteq {d \in Dates : d <= daily.run}
  BY <1>1 DEF RequiredWindow, ConfirmedWindow, Dates
<1>3. ASSUME NEW d \in RequiredWindow(wm, daily.run)
      PROVE  Candidates(raw, d, daily.run) \subseteq Keys
  BY <1>1, <1>2, <1>3 DEF Candidates, Keys, DailyKey, PreliminaryKey, Collectors, Dates
<1> QED
  BY <1>3 DEF Selected

LEMMA CollectTypes ==
    ASSUME raw \in [Keys -> ManifestStatus], NEW k, NEW o \in ApiOutcomes,
           CollectSnapshot(k, o)
    PROVE  raw' \in [Keys -> ManifestStatus]
BY DEF CollectSnapshot, ResultOf, Reusable, ManifestStatus, Outcomes

LEMMA CollectionWindowType ==
    ASSUME NEW w, NEW r \in Dates PROVE CollectionWindow(w, r) \subseteq Dates
BY DEF CollectionWindow, ConfirmedWindow

LEMMA TypeDaily == TypeOK /\ Clock /\ DailyNext => TypeOK' /\ Clock'
<1> SUFFICES ASSUME TypeOK, Clock, DailyNext PROVE TypeOK' /\ Clock'
  OBVIOUS
<1> USE DEF DailyUnchanged, table
<1>0. daily \in DailyRuns /\ selection \in Documents /\ promotion \in Documents
  BY DEF TypeOK
<1>1. CASE DailyStart
  <2>1. daily' \in DailyRuns /\ daily'.run = today /\ daily'.pc = "collect"
    BY <1>1, CollectionWindowType DEF DailyStart, DailyRuns, Clock, Dates
  <2>2. selection' \in Documents /\ promotion' \in Documents
    BY <1>1 DEF DailyStart, NoDoc, Documents
  <2> QED
    BY <1>1, <2>1, <2>2 DEF DailyStart, TypeOK, Clock, Dates
<1>2. CASE \E d \in Dates, o \in ApiOutcomes : DailyCollect(d, o)
  <2> PICK d \in Dates, o \in ApiOutcomes : DailyCollect(d, o)
    BY <1>2
  <2>1. raw' \in [Keys -> ManifestStatus]
    BY CollectTypes DEF DailyCollect, TypeOK
  <2>2. daily' \in DailyRuns /\ daily'.run = daily.run /\ daily'.pc = daily.pc
    BY <1>0 DEF DailyCollect, DailyRuns
  <2> QED
    BY <2>1, <2>2 DEF DailyCollect, TypeOK, Clock
<1>3. CASE DailyCollectEnds
  <2>1. daily' \in DailyRuns /\ daily'.run = daily.run /\ daily.pc # "idle"
    BY <1>0, <1>3 DEF DailyCollectEnds, DailyRuns
  <2> QED
    BY <1>3, <2>1 DEF DailyCollectEnds, TypeOK, Clock
<1>4. CASE DailySelect
  <2>1. daily' \in DailyRuns /\ daily'.run = daily.run /\ daily.pc # "idle"
    BY <1>0, <1>4 DEF DailySelect, DailyRuns
  <2>2. selection' \in Documents
    BY <1>4, SelectedAreKeys DEF DailySelect, Documents
  <2> QED
    BY <1>4, <2>1, <2>2 DEF DailySelect, TypeOK, Clock
<1>5. CASE DailyPromote
  <2>1. bronze' \in [Dates -> Keys \cup {NoKey}]
    <3> SUFFICES ASSUME NEW d \in Dates
                 PROVE  (IF \E k \in selection.keys : k.date = d
                         THEN CHOOSE k \in selection.keys : k.date = d
                         ELSE bronze[d]) \in Keys \cup {NoKey}
      BY <1>5 DEF DailyPromote, PromoteDaily
    <3> QED
      BY <1>0 DEF TypeOK, Documents
  <2>2. daily' \in DailyRuns /\ daily'.run = daily.run /\ daily.pc # "idle"
    BY <1>0, <1>5 DEF DailyPromote, DailyRuns
  <2> QED
    BY <1>5, <2>1, <2>2 DEF DailyPromote, TypeOK, Clock
<1>6. CASE DailyMark
  <2>1. daily' \in DailyRuns /\ daily'.run = daily.run /\ daily.pc # "idle"
    BY <1>0, <1>6 DEF DailyMark, DailyRuns
  <2> QED
    BY <1>0, <1>6, <2>1 DEF DailyMark, TypeOK, Clock
<1>7. CASE DailyReadWatermark
  <2>1. daily' \in DailyRuns /\ daily'.run = daily.run /\ daily.pc # "idle"
    BY <1>0, <1>7 DEF DailyReadWatermark, DailyRuns
  <2> QED
    BY <1>7, <2>1 DEF DailyReadWatermark, TypeOK, Clock
<1>8. CASE DailyWriteWatermark
  <2>1. daily' \in DailyRuns /\ daily'.run = daily.run /\ daily.pc # "idle"
    BY <1>0, <1>8 DEF DailyWriteWatermark, DailyRuns
  <2>2. wm' \in 0 .. LastDay
    BY <1>0, <1>8 DEF DailyWriteWatermark, DailyRuns
  <2> QED
    BY <1>8, <2>1, <2>2 DEF DailyWriteWatermark, TypeOK, Clock
<1>9. CASE DailyPublish
  <2>1. daily' \in DailyRuns /\ daily'.run = daily.run /\ daily'.pc = "idle"
    BY <1>0, <1>9, HorizonFacts DEF DailyPublish, DailyRuns
  <2> QED
    BY <1>9, <2>1 DEF DailyPublish, TypeOK, Clock
<1>10. CASE DailyRetry
  <2>1. daily' \in DailyRuns /\ daily'.run = daily.run /\ daily.pc # "idle"
    BY <1>0, <1>10 DEF DailyRetry, DailyRuns
  <2> QED
    BY <1>10, <2>1 DEF DailyRetry, TypeOK, Clock
<1>11. CASE DailyFail
  <2>1. daily' \in DailyRuns /\ daily'.run = daily.run /\ daily'.pc = "idle"
    BY <1>0, <1>11, HorizonFacts DEF DailyFail, DailyRuns
  <2> QED
    BY <1>11, <2>1 DEF DailyFail, TypeOK, Clock
<1>12. CASE DailyClear
  <2>1. daily.run \in Dates
    BY <1>12 DEF DailyClear, Clock
  <2>2. daily' \in DailyRuns /\ daily'.run = daily.run
    BY <1>0, <1>12, <2>1, CollectionWindowType, HorizonFacts DEF DailyClear, DailyRuns
  <2> QED
    BY <1>12, <2>1, <2>2 DEF DailyClear, TypeOK, Clock
<1> QED
  BY <1>1, <1>2, <1>3, <1>4, <1>5, <1>6, <1>7, <1>8, <1>9, <1>10, <1>11, <1>12
  DEF DailyNext

LEMMA TypeCatchup == TypeOK /\ Clock /\ CatchupNext => TypeOK' /\ Clock'
<1> SUFFICES ASSUME TypeOK, Clock, CatchupNext PROVE TypeOK' /\ Clock'
  OBVIOUS
<1> USE DEF CatchupUnchanged, dailyVars
<1>0. catchup \in CatchupRuns /\ today \in Nat /\ Gap(today - 2) \subseteq Dates
  BY DEF TypeOK, Gap
<1>a. ASSUME catchup' \in CatchupRuns, catchup'.run <= today,
             raw' \in [Keys -> ManifestStatus],
             bronze' \in [Dates -> Keys \cup {NoKey}],
             catchupDoc' \in [Dates -> BOOLEAN],
             marker' \in [Dates -> Markers],
             wm' \in 0 .. LastDay, asset' \in BOOLEAN, CatchupUnchanged
      PROVE  TypeOK' /\ Clock'
  BY <1>a DEF TypeOK, Clock
<1>b. /\ raw \in [Keys -> ManifestStatus]
      /\ bronze \in [Dates -> Keys \cup {NoKey}]
      /\ catchupDoc \in [Dates -> BOOLEAN]
      /\ marker \in [Dates -> Markers]
      /\ wm \in 0 .. LastDay /\ asset \in BOOLEAN
      /\ catchup.run <= today
  BY DEF TypeOK, Clock
<1> HIDE DEF CatchupUnchanged
<1>1. CASE CatchupStart
  <2>1. catchup' \in CatchupRuns /\ catchup'.run = today
    BY <1>0, <1>1, HorizonFacts DEF CatchupStart, CatchupBegin, CatchupRuns
  <2> QED
    BY <1>0, <1>1, <1>a, <1>b, <2>1 DEF CatchupStart, CatchupBegin
<1>2. CASE \E d \in Dates, o \in ApiOutcomes : CatchupPrepare(d, o)
  <2> PICK d \in Dates, o \in ApiOutcomes : CatchupPrepare(d, o)
    BY <1>2
  <2>1. raw' \in [Keys -> ManifestStatus]
    BY CollectTypes, <1>b DEF CatchupPrepare
  <2>2. ASSUME catchup' = [catchup EXCEPT !.gap = @ \ {d}, !.ready = @ \cup {d}]
        PROVE  catchup' \in CatchupRuns /\ catchup'.run = catchup.run
    <3>1. catchup.gap \ {d} \subseteq Dates /\ catchup.ready \cup {d} \subseteq Dates
      BY <1>0 DEF CatchupRuns
    <3> QED
      BY <1>0, <1>b, <2>2, <3>1 DEF CatchupRuns
  <2>3. ASSUME catchup' = catchup
        PROVE  catchup' \in CatchupRuns /\ catchup'.run = catchup.run
    BY <1>0, <2>3
  <2>4. ASSUME catchup' = [catchup EXCEPT !.gap = @ \ {d}, !.failed = TRUE]
        PROVE  catchup' \in CatchupRuns /\ catchup'.run = catchup.run
    <3>1. catchup.gap \ {d} \subseteq Dates
      BY <1>0 DEF CatchupRuns
    <3> QED
      BY <1>0, <2>4, <3>1 DEF CatchupRuns
  <2>5. catchup' \in CatchupRuns /\ catchup'.run <= today
    BY <1>b, <2>2, <2>3, <2>4 DEF CatchupPrepare
  <2> QED
    BY <1>a, <1>b, <2>1, <2>5 DEF CatchupPrepare
<1>3. CASE CatchupBatches
  <2>1. catchup' \in CatchupRuns /\ catchup'.run = catchup.run
    BY <1>0, <1>3 DEF CatchupBatches, CatchupRuns
  <2> QED
    BY <1>3, <1>a, <1>b, <2>1 DEF CatchupBatches
<1>4. CASE CatchupBatchStart
  <2>1. catchup' \in CatchupRuns /\ catchup'.run = catchup.run
    BY <1>0, <1>4 DEF CatchupBatchStart, CatchupRuns, NextBatch
  <2> QED
    BY <1>4, <1>a, <1>b, <2>1 DEF CatchupBatchStart
<1>5. CASE CatchupCommit
  <2>1. catchup' \in CatchupRuns /\ catchup'.run = catchup.run
    BY <1>0, <1>5 DEF CatchupCommit, CatchupRuns
  <2>2. \A d \in Dates : CatchupKey(d) \in Keys
    BY DEF CatchupKey, Keys, Collectors, Dates
  <2>3. bronze' \in [Dates -> Keys \cup {NoKey}]
    BY <1>5, <1>b, <2>2 DEF CatchupCommit
  <2> QED
    BY <1>5, <1>a, <1>b, <2>1, <2>3 DEF CatchupCommit
<1>6. CASE \E d \in Dates : CatchupDoc(d)
  <2> PICK d \in Dates : CatchupDoc(d)
    BY <1>6
  <2>1. catchup' \in CatchupRuns /\ catchup'.run = catchup.run
    BY <1>0 DEF CatchupDoc, CatchupRuns
  <2> QED
    BY <1>a, <1>b, <2>1 DEF CatchupDoc
<1>7. CASE \E d \in Dates : CatchupMarker(d)
  <2> PICK d \in Dates : CatchupMarker(d)
    BY <1>7
  <2>1. catchup' \in CatchupRuns /\ catchup'.run = catchup.run
    BY <1>0 DEF CatchupMarker, CatchupRuns
  <2>2. [status |-> CompletionStatus(d), source |-> NoKey] \in Markers
    BY DEF CompletionStatus, Markers, MarkerStatus
  <2>3. marker' \in [Dates -> Markers]
    BY <1>b, <2>2 DEF CatchupMarker
  <2> QED
    BY <1>a, <1>b, <2>1, <2>3 DEF CatchupMarker
<1>8. CASE CatchupPromotionEnds
  <2>1. catchup' \in CatchupRuns /\ catchup'.run = catchup.run
    BY <1>0, <1>8 DEF CatchupPromotionEnds, CatchupRuns
  <2> QED
    BY <1>8, <1>a, <1>b, <2>1 DEF CatchupPromotionEnds
<1>9. CASE CatchupBatchEnds
  <2>1. catchup' \in CatchupRuns /\ catchup'.run = catchup.run
    <3>1. PICK ready \in {catchup.ready, catchup.ready \ catchup.batch} :
              catchup' = [catchup EXCEPT !.pc = "batch", !.ready = ready,
                                         !.batch = {}, !.left = {}]
      BY <1>9 DEF CatchupBatchEnds
    <3>2. ready \subseteq Dates
      BY <1>0 DEF CatchupRuns
    <3> QED
      BY <1>0, <3>1, <3>2 DEF CatchupRuns
  <2> QED
    BY <1>9, <1>a, <1>b, <2>1 DEF CatchupBatchEnds
<1>10. CASE CatchupBatchesDone
  <2>1. catchup' \in CatchupRuns /\ catchup'.run = catchup.run
    BY <1>0, <1>10 DEF CatchupBatchesDone, CatchupRuns
  <2> QED
    BY <1>10, <1>a, <1>b, <2>1 DEF CatchupBatchesDone
<1>11. CASE CatchupReadWatermark
  <2>1. PICK next \in 0 .. LastDay :
            catchup' = [catchup EXCEPT !.next = next,
                           !.pc = IF next > wm THEN "write" ELSE "publish"]
    BY <1>11 DEF CatchupReadWatermark
  <2>2. catchup' \in CatchupRuns /\ catchup'.run = catchup.run
    <3>1. ASSUME NEW p \in {"write", "publish"},
                 catchup' = [catchup EXCEPT !.next = next, !.pc = p]
          PROVE  catchup' \in CatchupRuns /\ catchup'.run = catchup.run
      BY <1>0, <3>1 DEF CatchupRuns
    <3> QED
      BY <2>1, <3>1
  <2> QED
    BY <1>11, <1>a, <1>b, <2>2 DEF CatchupReadWatermark
<1>12. CASE CatchupWriteWatermark
  <2>1. catchup' \in CatchupRuns /\ catchup'.run = catchup.run
    BY <1>0, <1>12 DEF CatchupWriteWatermark, CatchupRuns
  <2>2. wm' \in 0 .. LastDay
    BY <1>0, <1>12 DEF CatchupWriteWatermark, CatchupRuns
  <2> QED
    BY <1>12, <1>a, <1>b, <2>1, <2>2 DEF CatchupWriteWatermark
<1>13. CASE CatchupEnds
  <2>1. catchup' \in CatchupRuns /\ catchup'.run = catchup.run
    BY <1>0, <1>13, HorizonFacts DEF CatchupEnds, CatchupRuns
  <2>2. asset' \in BOOLEAN
    BY <1>13, <1>b DEF CatchupEnds
  <2> QED
    BY <1>13, <1>a, <1>b, <2>1, <2>2 DEF CatchupEnds
<1>14. CASE CatchupRetry
  <2>1. catchup' \in CatchupRuns /\ catchup'.run = catchup.run
    BY <1>0, <1>14, HorizonFacts DEF CatchupRetry, CatchupRuns
  <2> QED
    BY <1>14, <1>a, <1>b, <2>1 DEF CatchupRetry
<1> QED
  BY <1>1, <1>2, <1>3, <1>4, <1>5, <1>6, <1>7, <1>8, <1>9, <1>10, <1>11, <1>12,
     <1>13, <1>14
  DEF CatchupNext

LEMMA TypeConfirm == TypeOK /\ Clock /\ ConfirmNext => TypeOK' /\ Clock'
<1> SUFFICES ASSUME TypeOK, Clock, ConfirmNext PROVE TypeOK' /\ Clock'
  OBVIOUS
<1> USE DEF ConfirmUnchanged, dailyVars
<1>0. confirm \in ConfirmRuns /\ wm \in 0 .. LastDay /\ silverWm \in 0 .. LastDay
  BY DEF TypeOK
<1>1. CASE \E k \in Keys : ConfirmValidate(k)
  <2> PICK k \in Keys : ConfirmValidate(k)
    BY <1>1
  <2>1. confirm' \in ConfirmRuns /\ confirm'.date \in Dates
    BY <1>0, HorizonFacts DEF ConfirmValidate, ConfirmRuns, Keys
  <2> QED
    BY <2>1 DEF ConfirmValidate, TypeOK, Clock
<1>2. CASE ConfirmMark
  <2>1. confirm' \in ConfirmRuns /\ confirm.date \in Dates /\ confirm'.date = confirm.date
    BY <1>0, <1>2 DEF ConfirmMark, ConfirmRuns, Clock
  <2>2. [status |-> "MANUALLY_CONFIRMED_EMPTY", source |-> confirm.source] \in Markers
    BY <1>0 DEF Markers, MarkerStatus, ConfirmRuns
  <2>3. marker' \in [Dates -> Markers]
    BY <1>2, <2>2 DEF ConfirmMark, TypeOK
  <2>4. approved' \subseteq Dates
    BY <1>2, <2>1 DEF ConfirmMark, TypeOK
  <2> QED
    BY <1>2, <2>1, <2>3, <2>4 DEF ConfirmMark, TypeOK, Clock
<1>3. CASE ConfirmBronze
  <2>1. confirm' \in ConfirmRuns /\ confirm.pc # "idle" /\ confirm'.date = confirm.date
    BY <1>0, <1>3 DEF ConfirmBronze, ConfirmRuns
  <2>2. wm' \in 0 .. LastDay
    BY <1>0, <1>3 DEF ConfirmBronze, ConfirmRuns
  <2> QED
    BY <1>3, <2>1, <2>2 DEF ConfirmBronze, TypeOK, Clock
<1>4. CASE ConfirmSilver
  <2>1. confirm' \in ConfirmRuns /\ confirm'.pc = "idle"
    BY <1>0, <1>4, HorizonFacts DEF ConfirmSilver, NoConfirmation, ConfirmRuns
  <2>2. silverWm' \in 0 .. LastDay
    BY <1>0, <1>4 DEF ConfirmSilver, ConfirmRuns
  <2> QED
    BY <1>4, <2>1, <2>2 DEF ConfirmSilver, TypeOK, Clock
<1>5. CASE ConfirmCrash
  <2>1. confirm' \in ConfirmRuns /\ confirm'.pc = "idle"
    BY <1>0, <1>5, HorizonFacts DEF ConfirmCrash, NoConfirmation, ConfirmRuns
  <2> QED
    BY <1>5, <2>1 DEF ConfirmCrash, TypeOK, Clock
<1> QED
  BY <1>1, <1>2, <1>3, <1>4, <1>5 DEF ConfirmNext

LEMMA TypeSilver == TypeOK /\ Clock /\ SilverNext => TypeOK' /\ Clock'
<1> SUFFICES ASSUME TypeOK, Clock, SilverNext PROVE TypeOK' /\ Clock'
  OBVIOUS
<1> USE DEF SilverUnchanged, dailyVars, table
<1>0. silver \in SilverRuns /\ wm \in 0 .. LastDay /\ silverWm \in 0 .. LastDay
  BY DEF TypeOK
<1>1. CASE SilverStart
  <2>1. silver' \in SilverRuns
    BY <1>0, <1>1 DEF SilverStart, SilverEnd, SilverRuns
  <2> QED
    BY <1>1, <2>1 DEF SilverStart, TypeOK, Clock
<1>2. CASE SilverWriteWatermark
  <2>1. silver' \in SilverRuns /\ silverWm' \in 0 .. LastDay
    BY <1>0, <1>2, HorizonFacts DEF SilverWriteWatermark, SilverRuns
  <2> QED
    BY <1>2, <2>1 DEF SilverWriteWatermark, TypeOK, Clock
<1>3. CASE SilverFail
  <2>1. silver' \in SilverRuns
    BY <1>0, <1>3, HorizonFacts DEF SilverFail, SilverRuns
  <2> QED
    BY <1>3, <2>1 DEF SilverFail, TypeOK, Clock
<1> QED
  BY <1>1, <1>2, <1>3 DEF SilverNext

LEMMA TypeStep == TypeOK /\ Clock /\ [Next]_vars => TypeOK' /\ Clock'
<1> SUFFICES ASSUME TypeOK, Clock, [Next]_vars PROVE TypeOK' /\ Clock'
  OBVIOUS
<1>1. CASE Midnight
  BY <1>1 DEF Midnight, TypeOK, Clock, Dates, dailyVars, table, DailyRuns, CatchupRuns
<1>2. CASE \E d \in Dates, o \in ApiOutcomes : PreliminaryCollect(d, o)
  <2> PICK d \in Dates, o \in ApiOutcomes : PreliminaryCollect(d, o)
    BY <1>2
  <2>1. raw' \in [Keys -> ManifestStatus]
    BY CollectTypes DEF PreliminaryCollect, TypeOK
  <2> QED
    BY <2>1 DEF PreliminaryCollect, TypeOK, Clock, dailyVars, table
<1>3. CASE UNCHANGED vars
  BY <1>3 DEF vars, TypeOK, Clock, dailyVars, table
<1> QED
  BY <1>1, <1>2, <1>3, TypeDaily, TypeCatchup, TypeConfirm, TypeSilver DEF Next

(* Every variable stays in its domain, in every instance.                    *)
THEOREM TypeCorrect == Spec => []TypeOK
<1>1. Init => TypeOK /\ Clock
  BY TypeInit
<1>2. TypeOK /\ Clock /\ [Next]_vars => TypeOK' /\ Clock'
  BY TypeStep
<1> QED
  BY <1>1, <1>2, PTL DEF Spec
-----------------------------------------------------------------------------
(* What each process leaves alone. *)

LEMMA DailyFrame ==
    DailyNext => UNCHANGED <<today, silverWm, catchupDoc, marker, approved,
                             catchup, confirm, silver>>
BY DEF DailyNext, DailyStart, DailyCollect, DailyCollectEnds, DailySelect,
       DailyPromote, DailyMark, DailyReadWatermark, DailyWriteWatermark,
       DailyPublish, DailyRetry, DailyFail, DailyClear, DailyUnchanged, table

LEMMA CatchupFrame ==
    CatchupNext => UNCHANGED <<today, silverWm, approved, daily, selection,
                               promotion, confirm, silver>>
BY DEF CatchupNext, CatchupStart, CatchupBegin, CatchupPrepare, CatchupBatches,
       CatchupBatchStart, CatchupCommit, CatchupDoc, CatchupPromotionEnds,
       CatchupMarker, CatchupBatchEnds, CatchupBatchesDone,
       CatchupReadWatermark, CatchupWriteWatermark, CatchupEnds, CatchupRetry,
       CatchupUnchanged, dailyVars

LEMMA ConfirmFrame ==
    ConfirmNext => UNCHANGED <<today, raw, bronze, catchupDoc, daily, selection,
                               promotion, catchup, silver, asset>>
BY DEF ConfirmNext, ConfirmValidate, ConfirmMark, ConfirmBronze, ConfirmSilver,
       ConfirmCrash, ConfirmUnchanged, dailyVars

LEMMA SilverFrame ==
    SilverNext => UNCHANGED <<today, raw, bronze, catchupDoc, marker, approved,
                              wm, daily, selection, promotion, catchup, confirm>>
BY DEF SilverNext, SilverStart, SilverWriteWatermark, SilverFail,
       SilverUnchanged, dailyVars, table

(* Midnight and the recovery collection touch the clock and the Raw area.    *)
LEMMA OtherFrame ==
    ASSUME \/ Midnight
           \/ \E d \in Dates, o \in ApiOutcomes : PreliminaryCollect(d, o)
           \/ UNCHANGED vars
    PROVE  UNCHANGED <<bronze, wm, silverWm, marker, catchupDoc, approved,
                       selection, promotion, daily, catchup, confirm, silver>>
BY DEF Midnight, PreliminaryCollect, vars, dailyVars, table

-----------------------------------------------------------------------------
(* Safe dates stay safe. *)

LEMMA DailyRunMoves ==
    ASSUME TypeOK, DailyNext
    PROVE  daily'.run = daily.run \/ (daily.run < today /\ daily'.run = today)
<1>0. daily \in DailyRuns
  BY DEF TypeOK
<1>1. CASE DailyStart
  BY <1>1 DEF DailyStart
<1>2. CASE \E e \in Dates, o \in ApiOutcomes : DailyCollect(e, o)
  BY <1>0, <1>2 DEF DailyCollect, DailyRuns
<1>3. CASE DailyCollectEnds
  BY <1>0, <1>3 DEF DailyCollectEnds, DailyRuns
<1>4. CASE DailySelect \/ DailyPromote \/ DailyMark
  BY <1>0, <1>4 DEF DailySelect, DailyPromote, DailyMark, DailyRuns
<1>5. CASE DailyReadWatermark
  BY <1>0, <1>5 DEF DailyReadWatermark, DailyRuns
<1>6. CASE DailyWriteWatermark \/ DailyPublish
  BY <1>0, <1>6 DEF DailyWriteWatermark, DailyPublish, DailyRuns
<1>7. CASE DailyRetry \/ DailyFail
  BY <1>0, <1>7 DEF DailyRetry, DailyFail, DailyRuns
<1>8. CASE DailyClear
  BY <1>0, <1>8 DEF DailyClear, DailyRuns
<1> QED
  BY <1>1, <1>2, <1>3, <1>4, <1>5, <1>6, <1>7, <1>8 DEF DailyNext

LEMMA LaterIsPast ==
    ASSUME NEW d \in Nat, NEW r \in Nat, NEW s \in Nat, NEW t \in Nat, NEW u \in Nat,
           r <= s, t <= u, d < r \/ d <= t - 2
    PROVE  d < s \/ d <= u - 2
OBVIOUS

LEMMA PastIsStable ==
    ASSUME TypeOK, Clock, [Next]_vars, NEW d \in Dates, Past(d)
    PROVE  Past(d)'
<1>1. today \in Nat /\ today' \in Nat /\ today <= today'
  BY DailyFrame, CatchupFrame, ConfirmFrame, SilverFrame, TypeStep
  DEF Next, Midnight, PreliminaryCollect, vars, TypeOK
<1>2. daily.run \in Nat /\ daily'.run \in Nat /\ daily.run <= daily'.run
  <2>1. daily.run \in Nat /\ daily'.run \in Nat
    BY TypeStep DEF TypeOK, DailyRuns
  <2>2. CASE DailyNext
    BY <2>1, <2>2, <1>1, DailyRunMoves
  <2>3. CASE daily' = daily
    BY <2>1, <2>3
  <2> QED
    BY <2>2, <2>3, OtherFrame, CatchupFrame, ConfirmFrame, SilverFrame DEF Next
<1>3. d \in Nat /\ (d < daily.run \/ d <= today - 2)
  BY HorizonFacts DEF Past
<1>4. d < daily'.run \/ d <= today' - 2
  BY <1>1, <1>2, <1>3, LaterIsPast
<1> QED
  BY <1>4 DEF Past

(* The partial partition of the running day is the only one a promotion can  *)
(* put in the place of a whole one, and that day is not past.                *)
LEMMA PromotionKeepsWhole ==
    ASSUME TypeOK, Clock, DailyRun, DailyPromote, NEW d \in Dates,
           Whole(d), Past(d)
    PROVE  Whole(d)'
<1>1. CASE \E k \in selection.keys : k.date = d
  <2> DEFINE j == CHOOSE k \in selection.keys : k.date = d
  <2>1. j \in selection.keys /\ j.date = d
    BY <1>1
  <2>2. j.run = daily.run /\ j.by # "CATCHUP" /\ (T0Enabled \/ FullDay(j))
    BY <2>1 DEF DailyRun, OfThisRun
  <2>3. j \in Keys
    BY <2>1 DEF TypeOK, Documents
  <2>4. bronze'[d] = j
    BY <1>1 DEF DailyPromote, PromoteDaily
  <2>5. FullDay(j)
    <3>1. d \in Nat /\ daily.run \in Nat /\ today \in Nat
      BY HorizonFacts DEF TypeOK, DailyRuns
    <3>2. CASE T0Enabled
      <4>1. today <= daily.run + 1
        BY <3>1, <3>2 DEF Clock, DailyPromote
      <4> QED
        BY <3>1, <4>1, <2>1, <2>2 DEF Past, FullDay
    <3> QED
      BY <2>2, <3>2
  <2>6. j # NoKey
    BY <2>1, HorizonFacts DEF NoKey, Dates
  <2> QED
    BY <2>4, <2>5, <2>6 DEF Whole
<1>2. CASE ~ \E k \in selection.keys : k.date = d
  BY <1>2 DEF DailyPromote, PromoteDaily, Whole
<1> QED
  BY <1>1, <1>2

LEMMA CatchupKeyIsWhole ==
    ASSUME NEW d \in Dates PROVE CatchupKey(d) # NoKey /\ FullDay(CatchupKey(d))
BY DEF CatchupKey, NoKey, FullDay, Dates

LEMMA SafeIsStable ==
    ASSUME IndInv, [Next]_vars, NEW d \in Dates
    PROVE  /\ d \in approved => d \in approved'
           /\ Past(d) => Past(d)'
           /\ Whole(d) /\ Past(d) => Whole(d)'
           /\ Safe(d) => Safe(d)'
<1>1. approved \subseteq approved'
  BY DailyFrame, CatchupFrame, SilverFrame, OtherFrame
  DEF Next, ConfirmNext, ConfirmValidate, ConfirmMark, ConfirmBronze,
      ConfirmSilver, ConfirmCrash
<1>2. ASSUME Past(d) PROVE Past(d)'
  BY <1>2, PastIsStable DEF IndInv
<1>3. ASSUME Whole(d), Past(d) PROVE Whole(d)'
  <2>1. CASE bronze' = bronze
    BY <1>3, <2>1 DEF Whole
  <2>2. CASE DailyPromote
    BY <1>3, <2>2, PromotionKeepsWhole DEF IndInv
  <2>3. CASE CatchupCommit
    BY <1>3, <2>3, CatchupKeyIsWhole DEF CatchupCommit, Whole
  <2>4. DailyNext => bronze' = bronze \/ DailyPromote
    BY DEF DailyNext, DailyStart, DailyCollect, DailyCollectEnds, DailySelect,
           DailyMark, DailyReadWatermark, DailyWriteWatermark, DailyPublish,
           DailyRetry, DailyFail, DailyClear, table
  <2>5. CatchupNext => bronze' = bronze \/ CatchupCommit
    BY DEF CatchupNext, CatchupStart, CatchupBegin, CatchupPrepare,
           CatchupBatches, CatchupBatchStart, CatchupDoc, CatchupPromotionEnds,
           CatchupMarker, CatchupBatchEnds, CatchupBatchesDone,
           CatchupReadWatermark, CatchupWriteWatermark, CatchupEnds, CatchupRetry
  <2> QED
    BY <2>1, <2>2, <2>3, <2>4, <2>5, ConfirmFrame, SilverFrame, OtherFrame DEF Next
<1> QED
  BY <1>1, <1>2, <1>3 DEF Safe

-----------------------------------------------------------------------------
(* Each part of the invariant survives the steps of the other processes. *)

LEMMA DocumentsFrame ==
    ASSUME IndInv, [Next]_vars, UNCHANGED <<catchupDoc, marker>>
    PROVE  DocumentsSafe'
BY SafeIsStable DEF DocumentsSafe, IndInv

LEMMA MarksFrame ==
    ASSUME IndInv, [Next]_vars, UNCHANGED <<wm, silverWm, silver, confirm>>
    PROVE  Marks'
<1>1. \A d \in Dates : Safe(d) => Safe(d)'
  BY SafeIsStable
<1>2. confirm.pc \in {"bronze", "silver"} => confirm.date \in approved'
  BY SafeIsStable DEF IndInv, Marks, Clock
<1> QED
  BY <1>1, <1>2 DEF IndInv, Marks, SafeUpTo

LEMMA CatchupDatesArePast ==
    ASSUME IndInv
    PROVE  \A d \in catchup.gap \cup catchup.ready \cup catchup.batch :
              d \in Dates /\ Past(d)
<1>1. catchup.gap \cup catchup.ready \cup catchup.batch \subseteq Dates
  BY DEF IndInv, TypeOK, CatchupRuns
<1>2. catchup.run \in Nat /\ today \in Nat /\ catchup.run <= today
  BY DEF IndInv, TypeOK, CatchupRuns, Clock
<1>3. \A d \in catchup.gap \cup catchup.ready \cup catchup.batch : d <= catchup.run - 2
  BY DEF IndInv, CatchupRun
<1>4. ASSUME NEW d \in Nat, NEW r \in Nat, NEW t \in Nat, d <= r - 2, r <= t
      PROVE  d <= t - 2
  BY <1>4
<1> QED
  BY <1>1, <1>2, <1>3, <1>4, HorizonFacts DEF Past

LEMMA CatchupRunFrame ==
    ASSUME IndInv, [Next]_vars, catchup' = catchup
    PROVE  CatchupRun'
<1>1. \A d \in Dates : Safe(d) => Safe(d)'
  BY SafeIsStable
<1>2. \A d \in catchup.batch : Whole(d) => Whole(d)'
  BY SafeIsStable, CatchupDatesArePast
<1> QED
  BY <1>1, <1>2 DEF IndInv, CatchupRun, SafeUpTo

(* A whole day among the keys of the daily run lies before its run date.     *)
LEMMA FullKeyIsPast ==
    ASSUME NEW keys \in SUBSET Keys, OfThisRun(keys), NEW k \in keys, FullDay(k)
    PROVE  k.date \in Dates /\ Past(k.date)
BY DEF OfThisRun, FullDay, Past, Keys

LEMMA DailyRunFrame ==
    ASSUME IndInv, [Next]_vars, UNCHANGED <<daily, selection, promotion>>
    PROVE  DailyRun'
<1>1. \A d \in Dates : Safe(d) => Safe(d)'
  BY SafeIsStable
<1>2. ASSUME NEW keys \in SUBSET Keys, OfThisRun(keys), NEW k \in keys, FullDay(k),
             Whole(k.date)
      PROVE  Whole(k.date)'
  BY <1>2, FullKeyIsPast, SafeIsStable
<1>3. selection.keys \in SUBSET Keys /\ promotion.keys \in SUBSET Keys
  BY DEF IndInv, TypeOK, Documents
<1>4. OfThisRun(selection.keys)' /\ OfThisRun(promotion.keys)'
  BY DEF IndInv, DailyRun, OfThisRun
<1>5. \A k \in promotion.keys : FullDay(k) => Whole(k.date)'
  BY <1>2, <1>3 DEF IndInv, DailyRun
<1>6. daily.pc = "mark" => \A k \in selection.keys : FullDay(k) => Whole(k.date)'
  BY <1>2, <1>3 DEF IndInv, DailyRun
<1>7. daily.pc = "write" => SafeUpTo(daily.next)'
  BY <1>1 DEF IndInv, DailyRun, SafeUpTo
<1> QED
  BY <1>4, <1>5, <1>6, <1>7 DEF DailyRun
-----------------------------------------------------------------------------
(* The invariant survives the steps of each process. *)

LEMMA SilverKeeps ==
    ASSUME IndInv, SilverNext PROVE IndInv'
<1>1. [Next]_vars
  BY DEF Next
<1>2. TypeOK' /\ Clock'
  BY TypeSilver DEF IndInv
<1>3. DocumentsSafe' /\ DailyRun' /\ CatchupRun'
  BY <1>1, SilverFrame, DocumentsFrame, DailyRunFrame, CatchupRunFrame
<1>4. \A d \in Dates : Safe(d) => Safe(d)'
  BY <1>1, SafeIsStable
<1>5. wm' = wm /\ confirm' = confirm
  BY SilverFrame
<1>6. SafeUpTo(wm)' /\ (confirm.pc # "idle" => SafeUpTo(confirm.date - 1)')
  BY <1>4, <1>5 DEF SafeUpTo, IndInv, Marks
<1>7. confirm.pc \in {"bronze", "silver"} => confirm.date \in approved'
  BY SilverFrame DEF IndInv, Marks
<1>8. SafeUpTo(silverWm)' /\ (silver'.pc = "running" => SafeUpTo(silver.upto)')
  <2>0. silver \in SilverRuns /\ wm \in 0 .. LastDay /\ silverWm \in 0 .. LastDay
    BY DEF IndInv, TypeOK
  <2>1. CASE SilverStart
    <3>1. PICK e \in SilverEnd :
             silver' = IF silverWm < e THEN [pc |-> "running", upto |-> e] ELSE silver
      BY <2>1 DEF SilverStart
    <3>2. e \in Int /\ e <= wm
      BY <2>0, <3>1 DEF SilverEnd
    <3>3. SafeUpTo(e)' /\ SafeUpTo(silverWm)'
      BY <1>4, <2>0, <2>1, <3>2, HorizonFacts DEF SilverStart, SafeUpTo, IndInv, Marks
    <3> QED
      BY <2>1, <3>1, <3>3 DEF SilverStart, SafeUpTo
  <2>2. CASE SilverWriteWatermark
    BY <1>4, <2>2 DEF SilverWriteWatermark, SafeUpTo, IndInv, Marks
  <2>3. CASE SilverFail
    BY <1>4, <2>3 DEF SilverFail, SafeUpTo, IndInv, Marks
  <2> QED
    BY <2>1, <2>2, <2>3 DEF SilverNext
<1> QED
  BY <1>2, <1>3, <1>5, <1>6, <1>7, <1>8 DEF IndInv, Marks, SafeUpTo

LEMMA ConfirmKeeps ==
    ASSUME IndInv, ConfirmNext PROVE IndInv'
<1>1. [Next]_vars
  BY DEF Next
<1>2. TypeOK' /\ Clock'
  BY TypeConfirm DEF IndInv
<1>3. DailyRun' /\ CatchupRun'
  BY <1>1, ConfirmFrame, DailyRunFrame, CatchupRunFrame
<1>4. \A d \in Dates : Safe(d) => Safe(d)'
  BY <1>1, SafeIsStable
<1>5. silver' = silver /\ (silver.pc = "running" => SafeUpTo(silver.upto)')
  BY <1>4, ConfirmFrame DEF SafeUpTo, IndInv, Marks
<1>6. SafeUpTo(wm) /\ SafeUpTo(silverWm)
  BY DEF IndInv, Marks
<1>7. wm \in 0 .. LastDay /\ silverWm \in 0 .. LastDay
  BY DEF IndInv, TypeOK
<1>8. ASSUME confirm.pc \in {"bronze", "silver"}
      PROVE  confirm.date \in Dates /\ SafeUpTo(confirm.date)
  <2>1. confirm.date \in Dates /\ confirm.date \in approved /\ SafeUpTo(confirm.date - 1)
    BY <1>8 DEF IndInv, Marks, Clock
  <2> QED
    BY <2>1, HorizonFacts DEF SafeUpTo, Safe, Dates
<1>a. CASE \E k \in Keys : ConfirmValidate(k)
  <2> PICK k \in Keys : ConfirmValidate(k)
    BY <1>a
  <2>1. DocumentsSafe'
    BY <1>1, ConfirmFrame, DocumentsFrame DEF ConfirmValidate
  <2>2. k.date \in Dates
    BY DEF Keys
  <2>3. SafeUpTo(k.date - 1)
    BY <1>6, <1>7, <2>2, HorizonFacts DEF ConfirmValidate, NextToConfirm, SafeUpTo
  <2>4. confirm'.pc = "mark" /\ confirm'.date = k.date
    BY DEF ConfirmValidate
  <2>6. SafeUpTo(k.date - 1)'
    BY <1>4, <2>3 DEF SafeUpTo
  <2>7. SafeUpTo(confirm.date - 1)'
    BY <2>4, <2>6 DEF SafeUpTo
  <2>5. SafeUpTo(wm)' /\ SafeUpTo(silverWm)'
    BY <1>4, <1>6 DEF ConfirmValidate, SafeUpTo
  <2> QED
    BY <1>2, <1>3, <1>5, <2>1, <2>4, <2>5, <2>7 DEF IndInv, Marks, SafeUpTo
<1>b. CASE ConfirmMark
  <2>1. \A d \in Dates : /\ Whole(d) /\ Past(d) => Whole(d)' /\ Past(d)'
                         /\ d \in approved => d \in approved'
    BY <1>1, SafeIsStable
  <2>2. marker \in [Dates -> Markers]
    BY DEF IndInv, TypeOK
  <2>3. DocumentsSafe'
    BY <1>b, <2>1, <2>2 DEF ConfirmMark, ConfirmUnchanged, DocumentsSafe, IndInv
  <2>4. confirm \in ConfirmRuns
    BY DEF IndInv, TypeOK
  <2>5. confirm'.pc = "bronze" /\ confirm'.date = confirm.date
    BY <1>b, <2>4 DEF ConfirmMark, ConfirmRuns
  <2>6. confirm.date \in approved' /\ SafeUpTo(confirm.date - 1)'
    BY <1>b, <1>4 DEF ConfirmMark, IndInv, Marks, SafeUpTo
  <2>7. SafeUpTo(wm)' /\ SafeUpTo(silverWm)'
    BY <1>b, <1>4, <1>6 DEF ConfirmMark, SafeUpTo
  <2> QED
    BY <1>2, <1>3, <1>5, <2>3, <2>5, <2>6, <2>7 DEF IndInv, Marks, SafeUpTo
<1>c. CASE ConfirmBronze
  <2>1. DocumentsSafe'
    BY <1>1, <1>c, ConfirmFrame, DocumentsFrame DEF ConfirmBronze
  <2>2. confirm \in ConfirmRuns
    BY DEF IndInv, TypeOK
  <2>3. confirm'.pc = "silver" /\ confirm'.date = confirm.date
    BY <1>c, <2>2 DEF ConfirmBronze, ConfirmRuns
  <2>4. confirm.date \in approved' /\ SafeUpTo(confirm.date - 1)'
    BY <1>c, <1>4 DEF ConfirmBronze, IndInv, Marks, SafeUpTo
  <2>5. SafeUpTo(wm)' /\ SafeUpTo(silverWm)'
    BY <1>c, <1>4, <1>6, <1>8 DEF ConfirmBronze, SafeUpTo
  <2> QED
    BY <1>2, <1>3, <1>5, <2>1, <2>3, <2>4, <2>5 DEF IndInv, Marks, SafeUpTo
<1>d. CASE ConfirmSilver
  <2>1. DocumentsSafe'
    BY <1>1, <1>d, ConfirmFrame, DocumentsFrame DEF ConfirmSilver
  <2>2. confirm'.pc = "idle"
    BY <1>d DEF ConfirmSilver, NoConfirmation
  <2>3. SafeUpTo(wm)' /\ SafeUpTo(silverWm)'
    BY <1>d, <1>4, <1>6, <1>8 DEF ConfirmSilver, SafeUpTo
  <2> QED
    BY <1>2, <1>3, <1>5, <2>1, <2>2, <2>3 DEF IndInv, Marks, SafeUpTo
<1>e. CASE ConfirmCrash
  <2>1. DocumentsSafe'
    BY <1>1, <1>e, ConfirmFrame, DocumentsFrame DEF ConfirmCrash
  <2>2. confirm'.pc = "idle"
    BY <1>e DEF ConfirmCrash, NoConfirmation
  <2>3. SafeUpTo(wm)' /\ SafeUpTo(silverWm)'
    BY <1>e, <1>4, <1>6 DEF ConfirmCrash, SafeUpTo
  <2> QED
    BY <1>2, <1>3, <1>5, <2>1, <2>2, <2>3 DEF IndInv, Marks, SafeUpTo
<1> QED
  BY <1>a, <1>b, <1>c, <1>d, <1>e DEF ConfirmNext
(* A step of the catch-up that handles no new date and enters none of the    *)
(* two phases that promise something.                                        *)
CatchupNarrows ==
    /\ catchup'.run = catchup.run
    /\ catchup'.gap \subseteq catchup.gap
    /\ catchup'.ready \subseteq catchup.ready \cup catchup.gap
    /\ catchup'.batch \subseteq catchup.batch \cup catchup.ready
    /\ catchup'.left \subseteq catchup'.batch
    /\ catchup'.pc \in {"prepare", "batch"} => catchup'.left = {}
    /\ catchup'.pc \notin {"docs", "write"}

LEMMA CatchupNarrowing ==
    ASSUME IndInv, CatchupNarrows PROVE CatchupRun'
BY DEF CatchupNarrows, IndInv, CatchupRun

LEMMA CatchupQuietSteps ==
    ASSUME IndInv,
           \/ \E d \in Dates, o \in ApiOutcomes : CatchupPrepare(d, o)
           \/ CatchupBatches \/ CatchupBatchStart \/ CatchupPromotionEnds
           \/ CatchupBatchEnds \/ CatchupBatchesDone \/ CatchupEnds \/ CatchupRetry
    PROVE  CatchupRun' /\ UNCHANGED <<catchupDoc, marker, wm>>
<1>0. /\ catchup \in CatchupRuns
      /\ catchup.left \subseteq catchup.batch
      /\ catchup.pc \in {"prepare", "batch"} => catchup.left = {}
  BY DEF IndInv, TypeOK, CatchupRun
<1>1. CASE \E d \in Dates, o \in ApiOutcomes : CatchupPrepare(d, o)
  <2> PICK d \in Dates, o \in ApiOutcomes : CatchupPrepare(d, o)
    BY <1>1
  <2>1. CASE catchup' = [catchup EXCEPT !.gap = @ \ {d}, !.ready = @ \cup {d}]
    <3>1. CatchupNarrows
      BY <1>0, <2>1 DEF CatchupNarrows, CatchupPrepare, CatchupRuns
    <3> QED
      BY <3>1, CatchupNarrowing DEF CatchupPrepare
  <2>2. CASE catchup' = catchup
    <3>1. CatchupNarrows
      BY <1>0, <2>2 DEF CatchupNarrows, CatchupPrepare
    <3> QED
      BY <3>1, CatchupNarrowing DEF CatchupPrepare
  <2>3. CASE catchup' = [catchup EXCEPT !.gap = @ \ {d}, !.failed = TRUE]
    <3>1. CatchupNarrows
      BY <1>0, <2>3 DEF CatchupNarrows, CatchupPrepare, CatchupRuns
    <3> QED
      BY <3>1, CatchupNarrowing DEF CatchupPrepare
  <2> QED
    BY <2>1, <2>2, <2>3 DEF CatchupPrepare
<1>2. CASE CatchupBatches
  <2>1. CatchupNarrows
    BY <1>0, <1>2 DEF CatchupNarrows, CatchupBatches, CatchupRuns
  <2> QED
    BY <1>2, <2>1, CatchupNarrowing DEF CatchupBatches
<1>3. CASE CatchupBatchStart
  <2>1. NextBatch \subseteq catchup.ready /\ catchup.left = {}
    BY <1>0, <1>3 DEF CatchupBatchStart, NextBatch
  <2>2. CatchupNarrows
    BY <1>0, <1>3, <2>1 DEF CatchupNarrows, CatchupBatchStart, CatchupRuns
  <2> QED
    BY <1>3, <2>2, CatchupNarrowing DEF CatchupBatchStart
<1>4. CASE CatchupPromotionEnds
  <2>1. CatchupNarrows
    BY <1>0, <1>4 DEF CatchupNarrows, CatchupPromotionEnds, CatchupRuns
  <2> QED
    BY <1>4, <2>1, CatchupNarrowing DEF CatchupPromotionEnds
<1>5. CASE CatchupBatchEnds
  <2>1. CatchupNarrows
    BY <1>0, <1>5 DEF CatchupNarrows, CatchupBatchEnds, CatchupRuns
  <2> QED
    BY <1>5, <2>1, CatchupNarrowing DEF CatchupBatchEnds
<1>6. CASE CatchupBatchesDone
  <2>1. CatchupNarrows
    BY <1>0, <1>6 DEF CatchupNarrows, CatchupBatchesDone, CatchupRuns
  <2> QED
    BY <1>6, <2>1, CatchupNarrowing DEF CatchupBatchesDone
<1>7. CASE CatchupEnds
  <2>1. CatchupNarrows
    BY <1>0, <1>7 DEF CatchupNarrows, CatchupEnds, CatchupRuns
  <2> QED
    BY <1>7, <2>1, CatchupNarrowing DEF CatchupEnds
<1>8. CASE CatchupRetry
  <2>1. CatchupNarrows
    BY <1>0, <1>8 DEF CatchupNarrows, CatchupRetry, CatchupRuns
  <2> QED
    BY <1>8, <2>1, CatchupNarrowing DEF CatchupRetry
<1> QED
  BY <1>1, <1>2, <1>3, <1>4, <1>5, <1>6, <1>7, <1>8

LEMMA CatchupKeeps ==
    ASSUME IndInv, CatchupNext PROVE IndInv'
<1>1. [Next]_vars
  BY DEF Next
<1>2. TypeOK' /\ Clock'
  BY TypeCatchup DEF IndInv
<1>3. DailyRun'
  BY <1>1, CatchupFrame, DailyRunFrame
<1>4. \A d \in Dates : /\ Safe(d) => Safe(d)'
                       /\ Past(d) => Past(d)'
                       /\ Whole(d) /\ Past(d) => Whole(d)'
                       /\ d \in approved => d \in approved'
  BY <1>1, SafeIsStable
<1>5. catchup \in CatchupRuns /\ catchup'.run \in Nat
  BY <1>2 DEF IndInv, TypeOK, CatchupRuns
<1>6. ASSUME wm' = wm PROVE Marks'
  BY <1>1, <1>6, CatchupFrame, MarksFrame
<1>7. ASSUME UNCHANGED <<catchupDoc, marker>> PROVE DocumentsSafe'
  BY <1>1, <1>7, DocumentsFrame
<1>8. /\ catchup.left \subseteq catchup.batch
      /\ \A d \in catchup.gap \cup catchup.ready \cup catchup.batch :
            d <= catchup.run - 2
  BY DEF IndInv, CatchupRun
<1>a. CASE CatchupStart
  <2>1. today \in Nat /\ Gap(today - 2) \subseteq {d \in Dates : d <= today - 2}
    BY DEF IndInv, TypeOK, Gap
  <2>2. CatchupRun'
    BY <1>a, <2>1 DEF CatchupStart, CatchupBegin, CatchupRun
  <2> QED
    BY <1>a, <1>2, <1>3, <1>6, <1>7, <2>2 DEF CatchupStart, CatchupBegin, IndInv
<1>b. CASE \/ \E d \in Dates, o \in ApiOutcomes : CatchupPrepare(d, o)
           \/ CatchupBatches \/ CatchupBatchStart \/ CatchupPromotionEnds
           \/ CatchupBatchEnds \/ CatchupBatchesDone \/ CatchupEnds \/ CatchupRetry
  BY <1>b, <1>2, <1>3, <1>6, <1>7, CatchupQuietSteps DEF IndInv
<1>c. CASE CatchupCommit
  <2>1. catchup'.pc = "docs" /\ catchup'.left = catchup'.batch
        /\ catchup'.batch = catchup.batch /\ catchup'.run = catchup.run
        /\ catchup'.gap = catchup.gap /\ catchup'.ready = catchup.ready
    BY <1>c, <1>5 DEF CatchupCommit, CatchupRuns
  <2>2. \A d \in catchup.batch : Whole(d)'
    BY <1>c, <1>5, CatchupKeyIsWhole DEF CatchupCommit, CatchupRuns, Whole
  <2>3. CatchupRun'
    BY <1>8, <2>1, <2>2 DEF CatchupRun
  <2> QED
    BY <1>c, <1>2, <1>3, <1>6, <1>7, <2>3 DEF CatchupCommit, IndInv
<1>d. CASE \E d \in Dates : CatchupDoc(d)
  <2> PICK d \in Dates : CatchupDoc(d)
    BY <1>d
  <2>1. d \in catchup.batch /\ Whole(d) /\ Past(d)
    BY <1>8, CatchupDatesArePast DEF CatchupDoc, IndInv, CatchupRun
  <2>2. DocumentsSafe'
    BY <1>4, <2>1 DEF CatchupDoc, DocumentsSafe, IndInv, TypeOK
  <2>3. catchup'.pc = "docs" /\ catchup'.left \subseteq catchup'.batch
        /\ catchup'.batch = catchup.batch /\ catchup'.run = catchup.run
        /\ catchup'.gap = catchup.gap /\ catchup'.ready = catchup.ready
    BY <1>5, <1>8 DEF CatchupDoc, CatchupRuns
  <2>4. \A e \in catchup.batch : Whole(e)'
    BY <1>4, CatchupDatesArePast DEF CatchupDoc, IndInv, CatchupRun
  <2>5. CatchupRun'
    BY <1>8, <2>3, <2>4 DEF CatchupRun
  <2> QED
    BY <1>2, <1>3, <1>6, <2>2, <2>5 DEF CatchupDoc, IndInv
<1>e. CASE \E d \in Dates : CatchupMarker(d)
  <2> PICK d \in Dates : CatchupMarker(d)
    BY <1>e
  <2>1. CompletionStatus(d) # "MANUALLY_CONFIRMED_EMPTY"
        /\ (CompletionStatus(d) = "COMPLETE" => Whole(d) /\ Past(d))
    BY DEF CompletionStatus, IndInv, DocumentsSafe
  <2>2. DocumentsSafe'
    BY <1>4, <2>1 DEF CatchupMarker, DocumentsSafe, IndInv, TypeOK
  <2>3. CatchupNarrows
    BY <1>5, <1>8 DEF CatchupMarker, CatchupRuns, CatchupNarrows
  <2> QED
    BY <1>2, <1>3, <1>6, <2>2, <2>3, CatchupNarrowing DEF CatchupMarker, IndInv
<1>f. CASE CatchupReadWatermark
  <2>1. PICK next \in 0 .. LastDay :
            /\ Contiguous(wm, {d \in Accepted : d <= CatchupTarget}, next)
            /\ catchup' = [catchup EXCEPT !.next = next,
                               !.pc = IF next > wm THEN "write" ELSE "publish"]
    BY <1>f DEF CatchupReadWatermark
  <2>2. SafeUpTo(next)
    <3>1. \A d \in Accepted : Safe(d)
      BY DEF Accepted, AcceptedStatus, IndInv, DocumentsSafe, Safe
    <3>2. wm \in 0 .. LastDay /\ SafeUpTo(wm)
      BY DEF IndInv, TypeOK, Marks
    <3>3. ASSUME NEW d \in Dates, d <= next PROVE d <= wm \/ d \in Accepted
      BY <2>1, <3>2, <3>3, HorizonFacts DEF Contiguous
    <3> QED
      BY <3>1, <3>2, <3>3 DEF SafeUpTo
  <2>3. SafeUpTo(next)'
    BY <1>4, <2>2 DEF SafeUpTo
  <2>4. catchup'.pc \in {"write", "publish"} /\ catchup'.left = catchup.left /\ catchup'.next = next
        /\ catchup'.batch = catchup.batch /\ catchup'.run = catchup.run
        /\ catchup'.gap = catchup.gap /\ catchup'.ready = catchup.ready
    BY <1>5, <2>1 DEF CatchupRuns
  <2>5. CatchupRun'
    BY <1>8, <2>3, <2>4 DEF CatchupRun, SafeUpTo
  <2> QED
    BY <1>f, <1>2, <1>3, <1>6, <1>7, <2>5 DEF CatchupReadWatermark, IndInv
<1>g. CASE CatchupWriteWatermark
  <2>1. CatchupNarrows
    BY <1>g, <1>5, <1>8 DEF CatchupWriteWatermark, CatchupRuns, CatchupNarrows
  <2>2. wm' = catchup.next /\ SafeUpTo(catchup.next)
    BY <1>g DEF CatchupWriteWatermark, IndInv, CatchupRun
  <2>3. SafeUpTo(wm)'
    BY <1>4, <2>2 DEF SafeUpTo
  <2>4. Marks'
    BY <1>4, <2>3, CatchupFrame DEF IndInv, Marks, SafeUpTo, Clock
  <2> QED
    BY <1>g, <1>2, <1>3, <1>7, <2>1, <2>4, CatchupNarrowing
    DEF CatchupWriteWatermark, IndInv
<1> QED
  BY <1>a, <1>b, <1>c, <1>d, <1>e, <1>f, <1>g DEF CatchupNext
(* A step of the daily run that leaves its documents alone and enters none   *)
(* of the two phases that promise something.                                 *)
DailyNarrows ==
    /\ UNCHANGED <<bronze, selection, promotion>>
    /\ daily'.run = daily.run
    /\ daily'.pc \notin {"mark", "write"}

LEMMA DailyNarrowing ==
    ASSUME IndInv, DailyNarrows PROVE DailyRun'
BY DEF DailyNarrows, IndInv, DailyRun, OfThisRun, Whole

LEMMA DailyQuietSteps ==
    ASSUME IndInv,
           \/ \E d \in Dates, o \in ApiOutcomes : DailyCollect(d, o)
           \/ DailyCollectEnds \/ DailyPublish \/ DailyRetry \/ DailyFail
           \/ DailyClear
    PROVE  DailyNarrows /\ wm' = wm
<1>0. daily \in DailyRuns
  BY DEF IndInv, TypeOK
<1>1. CASE \E d \in Dates, o \in ApiOutcomes : DailyCollect(d, o)
  BY <1>0, <1>1 DEF DailyNarrows, DailyCollect, DailyRuns, table
<1>2. CASE DailyCollectEnds
  BY <1>0, <1>2 DEF DailyNarrows, DailyCollectEnds, DailyRuns, table
<1>3. CASE DailyPublish
  BY <1>0, <1>3 DEF DailyNarrows, DailyPublish, DailyRuns, table
<1>4. CASE DailyRetry
  BY <1>0, <1>4 DEF DailyNarrows, DailyRetry, DailyRuns, table
<1>5. CASE DailyFail
  BY <1>0, <1>5 DEF DailyNarrows, DailyFail, DailyRuns, table
<1>6. CASE DailyClear
  BY <1>0, <1>6 DEF DailyNarrows, DailyClear, DailyRuns, table
<1> QED
  BY <1>1, <1>2, <1>3, <1>4, <1>5, <1>6

(* What the policy selects belongs to the run, and is partial only for the   *)
(* running day of a T0 run.                                                  *)
LEMMA SelectedIsOfThisRun ==
    ASSUME IndInv, DailySelect
    PROVE  OfThisRun(Selected(raw, wm, daily.run))
<1>1. daily.run \in Dates /\ daily.run \in Nat
  BY HorizonFacts DEF IndInv, Clock, DailySelect
<1> SUFFICES ASSUME NEW d \in RequiredWindow(wm, daily.run),
                    NEW k \in Candidates(raw, d, daily.run)
             PROVE  /\ k.run = daily.run /\ k.by # "CATCHUP"
                    /\ T0Enabled \/ FullDay(k)
  BY DEF OfThisRun, Selected
<1>2. k.run = daily.run /\ k.by # "CATCHUP" /\ k.date = d
  BY DEF Candidates, DailyKey, PreliminaryKey
<1>3. T0Enabled \/ d < daily.run
  BY DEF RequiredWindow, ConfirmedWindow
<1> QED
  BY <1>2, <1>3 DEF FullDay

LEMMA PromotedIsWhole ==
    ASSUME IndInv, DailyPromote, NEW k \in selection.keys, FullDay(k)
    PROVE  Whole(k.date)'
<1> DEFINE j == CHOOSE i \in selection.keys : i.date = k.date
<1>1. j \in selection.keys /\ j.date = k.date
  OBVIOUS
<1>2. selection.keys \subseteq Keys
  BY DEF IndInv, TypeOK, Documents
<1>3. k.date \in Dates /\ bronze'[k.date] = j
  BY <1>2 DEF DailyPromote, PromoteDaily, Keys
<1>4. FullDay(j)
  BY <1>1 DEF FullDay, IndInv, DailyRun, OfThisRun
<1>5. j # NoKey
  BY <1>1, <1>3, HorizonFacts DEF NoKey, Dates
<1> QED
  BY <1>3, <1>4, <1>5 DEF Whole

LEMMA DailyKeeps ==
    ASSUME IndInv, DailyNext PROVE IndInv'
<1>1. [Next]_vars
  BY DEF Next
<1>2. TypeOK' /\ Clock'
  BY TypeDaily DEF IndInv
<1>3. DocumentsSafe' /\ CatchupRun'
  BY <1>1, DailyFrame, DocumentsFrame, CatchupRunFrame
<1>4. \A d \in Dates : /\ Safe(d) => Safe(d)'
                       /\ Past(d) => Past(d)'
                       /\ Whole(d) /\ Past(d) => Whole(d)'
                       /\ d \in approved => d \in approved'
  BY <1>1, SafeIsStable
<1>5. daily \in DailyRuns
  BY DEF IndInv, TypeOK
<1>6. ASSUME wm' = wm PROVE Marks'
  BY <1>1, <1>6, DailyFrame, MarksFrame
<1>7. selection.keys \in SUBSET Keys /\ promotion.keys \in SUBSET Keys
  BY DEF IndInv, TypeOK, Documents
<1>8. OfThisRun(selection.keys) /\ OfThisRun(promotion.keys)
  BY DEF IndInv, DailyRun
<1>a. CASE DailyStart
  <2>1. daily'.pc = "collect" /\ selection'.keys = {} /\ promotion'.keys = {}
    BY <1>a DEF DailyStart, NoDoc
  <2>2. DailyRun'
    BY <2>1 DEF DailyRun, OfThisRun
  <2> QED
    BY <1>a, <1>2, <1>3, <1>6, <2>2 DEF DailyStart, IndInv
<1>b. CASE \/ \E d \in Dates, o \in ApiOutcomes : DailyCollect(d, o)
           \/ DailyCollectEnds \/ DailyPublish \/ DailyRetry \/ DailyFail
           \/ DailyClear
  BY <1>b, <1>2, <1>3, <1>6, DailyQuietSteps, DailyNarrowing DEF IndInv
<1>c. CASE DailySelect
  <2>1. OfThisRun(Selected(raw, wm, daily.run))
    BY <1>c, SelectedIsOfThisRun
  <2>2. daily'.pc = "promote" /\ daily'.run = daily.run
        /\ selection'.keys = Selected(raw, wm, daily.run)
        /\ UNCHANGED <<bronze, promotion, wm>>
    BY <1>c, <1>5 DEF DailySelect, DailyRuns, table
  <2>3. DailyRun'
    BY <2>1, <2>2 DEF DailyRun, OfThisRun, Whole, IndInv
  <2> QED
    BY <1>2, <1>3, <1>6, <2>2, <2>3 DEF IndInv
<1>d. CASE DailyPromote
  <2>1. daily'.pc = "mark" /\ daily'.run = daily.run
        /\ UNCHANGED <<selection, promotion, wm>>
    BY <1>d, <1>5 DEF DailyPromote, DailyRuns
  <2>2. \A k \in selection.keys : FullDay(k) => Whole(k.date)'
    BY <1>d, PromotedIsWhole
  <2>3. \A k \in promotion.keys : FullDay(k) => Whole(k.date)'
    BY <1>4, <1>7, <1>8, FullKeyIsPast DEF IndInv, DailyRun
  <2>4. DailyRun'
    BY <1>8, <2>1, <2>2, <2>3 DEF DailyRun, OfThisRun
  <2> QED
    BY <1>2, <1>3, <1>6, <2>1, <2>4 DEF IndInv
<1>e. CASE DailyMark
  <2>1. daily'.pc = "update" /\ daily'.run = daily.run /\ promotion' = selection
        /\ UNCHANGED <<bronze, selection, wm>>
    BY <1>e, <1>5 DEF DailyMark, DailyRuns, table
  <2>2. DailyRun'
    BY <1>e, <2>1 DEF DailyMark, DailyRun, OfThisRun, Whole, IndInv
  <2> QED
    BY <1>2, <1>3, <1>6, <2>1, <2>2 DEF IndInv
<1>f. CASE DailyReadWatermark
  <2>1. PICK next \in 0 .. LastDay :
            /\ ConfirmedThrough(next)
            /\ daily' = [daily EXCEPT !.next = next,
                             !.pc = IF next > wm THEN "write" ELSE "publish"]
    BY <1>f DEF DailyReadWatermark
  <2>2. SafeUpTo(next)
    <3>1. wm \in 0 .. LastDay /\ SafeUpTo(wm)
      BY DEF IndInv, TypeOK, Marks
    <3>2. ASSUME NEW k \in promotion.keys, FullDay(k), k.date < daily.run
          PROVE  Safe(k.date)
      BY <3>2 DEF IndInv, DailyRun, Safe, Past
    <3>3. \A d \in FullDayPartitions(promotion.keys, daily.run) : Safe(d)
      BY <3>2 DEF FullDayPartitions
    <3>4. ASSUME NEW d \in Dates, d <= next
          PROVE  d <= wm \/ d \in FullDayPartitions(promotion.keys, daily.run)
      BY <2>1, <3>1, <3>4, HorizonFacts DEF ConfirmedThrough, Contiguous
    <3> QED
      BY <3>1, <3>3, <3>4 DEF SafeUpTo
  <2>3. SafeUpTo(next)'
    BY <1>4, <2>2 DEF SafeUpTo
  <2>4. daily'.pc # "mark" /\ daily'.run = daily.run /\ daily'.next = next
    BY <1>5, <2>1 DEF DailyRuns
  <2>5. UNCHANGED <<bronze, selection, promotion, wm>>
    BY <1>f DEF DailyReadWatermark, table
  <2>6. DailyRun'
    BY <2>3, <2>4, <2>5 DEF DailyRun, OfThisRun, Whole, IndInv, SafeUpTo
  <2> QED
    BY <1>2, <1>3, <1>6, <2>5, <2>6 DEF IndInv
<1>g. CASE DailyWriteWatermark
  <2>1. DailyNarrows
    BY <1>g, <1>5 DEF DailyWriteWatermark, DailyRuns, DailyNarrows, table
  <2>2. wm' = daily.next /\ SafeUpTo(daily.next)
    BY <1>g DEF DailyWriteWatermark, IndInv, DailyRun
  <2>3. SafeUpTo(wm)'
    BY <1>4, <2>2 DEF SafeUpTo
  <2>4. Marks'
    BY <1>4, <2>3, DailyFrame DEF IndInv, Marks, SafeUpTo, Clock
  <2> QED
    BY <1>2, <1>3, <2>1, <2>4, DailyNarrowing DEF IndInv
<1> QED
  BY <1>a, <1>b, <1>c, <1>d, <1>e, <1>f, <1>g DEF DailyNext

-----------------------------------------------------------------------------
(* The invariant and what follows from it. *)

LEMMA InvariantInit == Init => IndInv
<1> SUFFICES ASSUME Init PROVE IndInv
  OBVIOUS
<1>1. TypeOK /\ Clock
  BY TypeInit
<1>2. DocumentsSafe
  BY DEF Init, DocumentsSafe, NoMarker
<1>3. DailyRun /\ CatchupRun
  BY DEF Init, DailyRun, CatchupRun, OfThisRun, NoDoc
<1>4. Marks
  BY HorizonFacts DEF Init, NoConfirmation, Marks, SafeUpTo, Dates
<1> QED
  BY <1>1, <1>2, <1>3, <1>4 DEF IndInv

LEMMA InvariantStep == IndInv /\ [Next]_vars => IndInv'
<1> SUFFICES ASSUME IndInv, [Next]_vars PROVE IndInv'
  OBVIOUS
<1>1. ASSUME \/ Midnight
             \/ \E d \in Dates, o \in ApiOutcomes : PreliminaryCollect(d, o)
             \/ UNCHANGED vars
      PROVE  IndInv'
  <2>1. TypeOK' /\ Clock'
    BY TypeStep DEF IndInv
  <2>2. DocumentsSafe' /\ DailyRun' /\ CatchupRun' /\ Marks'
    BY <1>1, OtherFrame, DocumentsFrame, DailyRunFrame, CatchupRunFrame, MarksFrame
  <2> QED
    BY <2>1, <2>2 DEF IndInv
<1> QED
  BY <1>1, DailyKeeps, CatchupKeeps, ConfirmKeeps, SilverKeeps DEF Next

(* The inductive invariant holds in every state: what each process has read *)
(* and not yet written is still true when it writes it.                     *)
THEOREM Invariant == Spec => []IndInv
BY InvariantInit, InvariantStep, PTL DEF Spec

LEMMA SafetyFromInvariant ==
    IndInv => ConfirmedDatesBacked /\ SilverDatesBacked /\ DocumentsFollowCommit
BY DEF IndInv, Marks, SafeUpTo, Safe, DocumentsSafe, DailyRun,
       ConfirmedDatesBacked, SilverDatesBacked, DocumentsFollowCommit

(* Whatever the processes interleave, crash on or retry, every date behind   *)
(* the Bronze watermark is in Bronze as a whole day or confirmed empty.      *)
THEOREM ConfirmedDatesAreBacked == Spec => []ConfirmedDatesBacked
BY Invariant, SafetyFromInvariant, PTL

(* The same of the Silver watermark.                                         *)
THEOREM SilverDatesAreBacked == Spec => []SilverDatesBacked
BY Invariant, SafetyFromInvariant, PTL

(* No promotion document and no COMPLETE marker is ahead of its commit.      *)
THEOREM DocumentsNeverLead == Spec => []DocumentsFollowCommit
BY Invariant, SafetyFromInvariant, PTL
-----------------------------------------------------------------------------
(* The refinement of ConfirmedPrefix. *)

(* A step that writes no watermark keeps every marked date reliable.         *)
LEMMA CommitSimulation ==
    ASSUME IndInv, [Next]_vars, UNCHANGED <<wm, silverWm>>
    PROVE  Prefix!Commit
<1>1. Reliable' \in SUBSET (1 .. LastDay)
  BY DEF Reliable, Dates
<1>2. MarkOf' = MarkOf
  BY DEF MarkOf, Layers
<1>3. ASSUME NEW d \in Dates, d <= wm \/ d <= silverWm
      PROVE  d \in Reliable'
  <2>1. Safe(d)
    BY <1>3 DEF IndInv, Marks, SafeUpTo
  <2>2. Safe(d)'
    BY <2>1, SafeIsStable
  <2> QED
    BY <2>2 DEF Safe, Reliable
<1>4. Reliable \ Prefix!Unmarked \subseteq Reliable'
  <2> SUFFICES ASSUME NEW d \in Dates, d \notin Prefix!Unmarked
               PROVE  d \in Reliable'
    BY DEF Reliable
  <2>1. PICK l \in Layers : ~ (MarkOf[l] < d)
    BY DEF Prefix!Unmarked, Dates
  <2>2. wm \in 0 .. LastDay /\ silverWm \in 0 .. LastDay
    BY DEF IndInv, TypeOK
  <2>3. d <= wm \/ d <= silverWm
    BY <2>1, <2>2, HorizonFacts DEF MarkOf, Layers
  <2> QED
    BY <1>3, <2>3
<1> QED
  BY <1>1, <1>2, <1>4 DEF Prefix!Commit

(* A watermark write puts a mark at the end of a reliable prefix.            *)
LEMMA BronzeSimulation ==
    ASSUME NEW m \in 0 .. LastDay, SafeUpTo(m), wm' = m,
           UNCHANGED <<silverWm, bronze, approved>>
    PROVE  Prefix!Next
<1>1. 1 .. m \subseteq Reliable
  BY DEF SafeUpTo, Safe, Reliable, Dates
<1>2. Reliable' = Reliable
  BY DEF Reliable, Whole
<1>3. MarkOf' = [MarkOf EXCEPT !["bronze"] = m]
  BY DEF MarkOf, Layers
<1>4. Prefix!Confirm("bronze", m)
  BY <1>1, <1>2, <1>3 DEF Prefix!Confirm
<1> QED
  BY <1>4 DEF Prefix!Next, Layers

LEMMA SilverSimulation ==
    ASSUME NEW m \in 0 .. LastDay, SafeUpTo(m), silverWm' = m,
           UNCHANGED <<wm, bronze, approved>>
    PROVE  Prefix!Next
<1>1. 1 .. m \subseteq Reliable
  BY DEF SafeUpTo, Safe, Reliable, Dates
<1>2. Reliable' = Reliable
  BY DEF Reliable, Whole
<1>3. MarkOf' = [MarkOf EXCEPT !["silver"] = m]
  BY DEF MarkOf, Layers
<1>4. Prefix!Confirm("silver", m)
  BY <1>1, <1>2, <1>3 DEF Prefix!Confirm
<1> QED
  BY <1>4 DEF Prefix!Next, Layers

LEMMA StepSimulation ==
    ASSUME IndInv, [Next]_vars PROVE Prefix!Next
<1>0. /\ daily \in DailyRuns /\ catchup \in CatchupRuns
      /\ confirm \in ConfirmRuns /\ silver \in SilverRuns
  BY DEF IndInv, TypeOK
<1>1. CASE UNCHANGED <<wm, silverWm>>
  BY <1>1, CommitSimulation DEF Prefix!Next
<1>2. CASE DailyWriteWatermark
  <2>1. daily.next \in 0 .. LastDay /\ SafeUpTo(daily.next)
    BY <1>0, <1>2 DEF DailyWriteWatermark, DailyRuns, IndInv, DailyRun
  <2> QED
    BY <1>2, <2>1, BronzeSimulation DEF DailyWriteWatermark, DailyUnchanged, table
<1>3. CASE CatchupWriteWatermark
  <2>1. catchup.next \in 0 .. LastDay /\ SafeUpTo(catchup.next)
    BY <1>0, <1>3 DEF CatchupWriteWatermark, CatchupRuns, IndInv, CatchupRun
  <2> QED
    BY <1>3, <2>1, BronzeSimulation DEF CatchupWriteWatermark, CatchupUnchanged
<1>4. ASSUME confirm.pc \in {"bronze", "silver"}
      PROVE  confirm.date \in 0 .. LastDay /\ SafeUpTo(confirm.date)
  <2>1. confirm.date \in Dates /\ confirm.date \in approved /\ SafeUpTo(confirm.date - 1)
    BY <1>4 DEF IndInv, Marks, Clock
  <2> QED
    BY <2>1, HorizonFacts DEF SafeUpTo, Safe, Dates
<1>5. CASE ConfirmBronze
  <2>1. wm' = confirm.date \/ wm' = wm
    BY <1>5 DEF ConfirmBronze
  <2>2. CASE wm' = wm
    BY <1>1, <1>5, <2>2 DEF ConfirmBronze
  <2>3. CASE wm' = confirm.date
    BY <1>4, <1>5, <2>3, BronzeSimulation DEF ConfirmBronze, ConfirmUnchanged
  <2> QED
    BY <2>1, <2>2, <2>3
<1>6. CASE ConfirmSilver
  <2>1. silverWm' = confirm.date \/ silverWm' = silverWm
    BY <1>6 DEF ConfirmSilver
  <2>2. CASE silverWm' = silverWm
    BY <1>1, <1>6, <2>2 DEF ConfirmSilver
  <2>3. CASE silverWm' = confirm.date
    BY <1>4, <1>6, <2>3, SilverSimulation DEF ConfirmSilver, ConfirmUnchanged
  <2> QED
    BY <2>1, <2>2, <2>3
<1>7. CASE SilverWriteWatermark
  <2>1. silver.upto \in 0 .. LastDay /\ SafeUpTo(silver.upto)
    BY <1>0, <1>7 DEF SilverWriteWatermark, SilverRuns, IndInv, Marks
  <2> QED
    BY <1>7, <2>1, SilverSimulation DEF SilverWriteWatermark, SilverUnchanged, table
<1>8. DailyNext => UNCHANGED <<wm, silverWm>> \/ DailyWriteWatermark
  BY DEF DailyNext, DailyStart, DailyCollect, DailyCollectEnds, DailySelect,
         DailyPromote, DailyMark, DailyReadWatermark, DailyPublish, DailyRetry,
         DailyFail, DailyClear, DailyUnchanged
<1>9. CatchupNext => UNCHANGED <<wm, silverWm>> \/ CatchupWriteWatermark
  BY DEF CatchupNext, CatchupStart, CatchupBegin, CatchupPrepare, CatchupBatches,
         CatchupBatchStart, CatchupCommit, CatchupDoc, CatchupPromotionEnds,
         CatchupMarker, CatchupBatchEnds, CatchupBatchesDone,
         CatchupReadWatermark, CatchupEnds, CatchupRetry, CatchupUnchanged
<1>10. ConfirmNext => UNCHANGED <<wm, silverWm>> \/ ConfirmBronze \/ ConfirmSilver
  BY DEF ConfirmNext, ConfirmValidate, ConfirmMark, ConfirmCrash
<1>11. SilverNext => UNCHANGED <<wm, silverWm>> \/ SilverWriteWatermark
  BY DEF SilverNext, SilverStart, SilverFail, SilverUnchanged
<1> QED
  BY <1>1, <1>2, <1>3, <1>5, <1>6, <1>7, <1>8, <1>9, <1>10, <1>11, OtherFrame DEF Next

LEMMA InitSimulation == Init => Prefix!Init
BY DEF Init, Prefix!Init, Reliable, MarkOf, Layers, Whole

(* The control plane implements the abstract prefix: seen through its two    *)
(* watermarks, no step of any process does more than commit dates beyond the *)
(* marks or put a mark at the end of a reliable prefix.                      *)
THEOREM RefinesConfirmedPrefix == Spec => ImplementsConfirmedPrefix
<1>1. IndInv /\ [Next]_vars => [Prefix!Next]_<<Reliable, MarkOf>>
  BY StepSimulation
<1> QED
  BY <1>1, InitSimulation, Invariant, PTL
  DEF Spec, ImplementsConfirmedPrefix, Prefix!Spec

-----------------------------------------------------------------------------
(* Where the partitions come from: every key a process is about to promote  *)
(* is that of a complete observation, and a selection goes with every date  *)
(* below it.                                                                *)

Traced ==
    /\ BronzeTracesToRaw
    /\ \A k \in selection.keys : raw[k] = "COMPLETE"
    /\ \A d \in catchup.ready \cup catchup.batch : raw[CatchupKey(d)] = "COMPLETE"

NoHole ==
    /\ \A d \in Dates : Whole(d) /\ bronze[d].by # "CATCHUP" => SafeUpTo(d - 1)
    /\ \A k \in selection.keys : FullDay(k) =>
          \A e \in Dates : e < k.date =>
              Safe(e) \/ \E j \in selection.keys : j.date = e

(* A complete observation is never collected again, whoever asks for it.    *)
LEMMA CompleteStays ==
    ASSUME TypeOK, [Next]_vars, NEW k \in Keys, raw[k] = "COMPLETE"
    PROVE  raw'[k] = "COMPLETE"
<1>1. ASSUME NEW i, NEW o \in ApiOutcomes, CollectSnapshot(i, o)
      PROVE  raw'[k] = "COMPLETE"
  BY <1>1 DEF CollectSnapshot, ResultOf, Reusable, TypeOK
<1>2. DailyNext => raw' = raw \/ \E d \in Dates, o \in ApiOutcomes :
                                    CollectSnapshot(DailyKey(d, daily.run), o)
  BY DEF DailyNext, DailyStart, DailyCollect, DailyCollectEnds, DailySelect,
         DailyPromote, DailyMark, DailyReadWatermark, DailyWriteWatermark,
         DailyPublish, DailyRetry, DailyFail, DailyClear
<1>3. CatchupNext => raw' = raw \/ \E d \in Dates, o \in ApiOutcomes :
                                    CollectSnapshot(CatchupKey(d), o)
  BY DEF CatchupNext, CatchupStart, CatchupBegin, CatchupPrepare,
         CatchupBatches, CatchupBatchStart, CatchupCommit, CatchupDoc,
         CatchupPromotionEnds, CatchupMarker, CatchupBatchEnds,
         CatchupBatchesDone, CatchupReadWatermark, CatchupWriteWatermark,
         CatchupEnds, CatchupRetry
<1>4. \/ raw' = raw
      \/ \E i : \E o \in ApiOutcomes : CollectSnapshot(i, o)
  BY <1>2, <1>3, ConfirmFrame, SilverFrame
  DEF Next, Midnight, PreliminaryCollect, vars
<1> QED
  BY <1>1, <1>4

LEMMA CatchupKeyIsKey ==
    ASSUME NEW d \in Dates PROVE CatchupKey(d) \in Keys
BY DEF CatchupKey, Keys, Collectors, Dates

(* What a step of the daily run does to its selection.                      *)
LEMMA SelectionMoves ==
    ASSUME IndInv, [Next]_vars
    PROVE  \/ selection' = selection /\ daily'.run = daily.run
           \/ selection'.keys = {}
           \/ DailySelect
<1>0. daily \in DailyRuns
  BY DEF IndInv, TypeOK
<1>1. CASE DailyStart
  BY <1>1 DEF DailyStart, NoDoc
<1>2. CASE DailyCollectEnds \/ DailyPromote \/ DailyMark \/ DailyReadWatermark
  BY <1>0, <1>2 DEF DailyCollectEnds, DailyPromote, DailyMark, DailyReadWatermark,
                    DailyRuns
<1>3. CASE DailyWriteWatermark \/ DailyPublish \/ DailyRetry \/ DailyFail \/ DailyClear
  BY <1>0, <1>3 DEF DailyWriteWatermark, DailyPublish, DailyRetry, DailyFail,
                    DailyClear, DailyRuns
<1>4. CASE \E d \in Dates, o \in ApiOutcomes : DailyCollect(d, o)
  BY <1>0, <1>4 DEF DailyCollect, DailyRuns
<1> QED
  BY <1>1, <1>2, <1>3, <1>4, CatchupFrame, ConfirmFrame, SilverFrame, OtherFrame
  DEF Next, DailyNext

(* Who writes Bronze.                                                       *)
LEMMA BronzeMoves ==
    ASSUME [Next]_vars
    PROVE  bronze' = bronze \/ DailyPromote \/ CatchupCommit
<1>1. DailyNext => bronze' = bronze \/ DailyPromote
  BY DEF DailyNext, DailyStart, DailyCollect, DailyCollectEnds, DailySelect,
         DailyMark, DailyReadWatermark, DailyWriteWatermark, DailyPublish,
         DailyRetry, DailyFail, DailyClear, table
<1>2. CatchupNext => bronze' = bronze \/ CatchupCommit
  BY DEF CatchupNext, CatchupStart, CatchupBegin, CatchupPrepare,
         CatchupBatches, CatchupBatchStart, CatchupDoc, CatchupPromotionEnds,
         CatchupMarker, CatchupBatchEnds, CatchupBatchesDone,
         CatchupReadWatermark, CatchupWriteWatermark, CatchupEnds, CatchupRetry
<1> QED
  BY <1>1, <1>2, ConfirmFrame, SilverFrame, OtherFrame DEF Next

(* Only a date whose collection is complete becomes ready to be committed.  *)
LEMMA ReadyMoves ==
    ASSUME IndInv, CatchupNext
    PROVE  \A d \in catchup'.ready \cup catchup'.batch :
              d \in catchup.ready \cup catchup.batch \/ raw'[CatchupKey(d)] = "COMPLETE"
<1> DEFINE Held == \A d \in catchup'.ready \cup catchup'.batch :
                      \/ d \in catchup.ready \cup catchup.batch
                      \/ raw'[CatchupKey(d)] = "COMPLETE"
<1>0. catchup \in CatchupRuns /\ raw \in [Keys -> ManifestStatus]
  BY DEF IndInv, TypeOK
<1>1. CASE CatchupStart
  BY <1>1 DEF CatchupStart, CatchupBegin
<1>2. ASSUME NEW d \in Dates, NEW o \in ApiOutcomes, CatchupPrepare(d, o)
      PROVE  Held
  <2>1. CASE ResultOf(CatchupKey(d), o) = "COMPLETE"
    <3>1. raw'[CatchupKey(d)] = "COMPLETE"
      BY <1>0, <1>2, <2>1, CatchupKeyIsKey DEF CatchupPrepare, CollectSnapshot
    <3>2. catchup'.ready = catchup.ready \cup {d} /\ catchup'.batch = catchup.batch
      BY <1>0, <1>2, <2>1 DEF CatchupPrepare, CatchupRuns
    <3> QED
      BY <3>1, <3>2
  <2>2. CASE ResultOf(CatchupKey(d), o) # "COMPLETE"
    BY <1>0, <1>2, <2>2 DEF CatchupPrepare, CatchupRuns
  <2> QED
    BY <2>1, <2>2
<1>3. CASE CatchupBatches \/ CatchupBatchesDone
  BY <1>0, <1>3 DEF CatchupBatches, CatchupBatchesDone, CatchupRuns
<1>4. CASE CatchupBatchStart
  <2>1. catchup'.ready = catchup.ready /\ catchup'.batch = NextBatch
    BY <1>0, <1>4 DEF CatchupBatchStart, CatchupRuns
  <2> QED
    BY <2>1 DEF NextBatch
<1>5. CASE CatchupCommit \/ CatchupPromotionEnds
  BY <1>0, <1>5 DEF CatchupCommit, CatchupPromotionEnds, CatchupRuns
<1>6. CASE \E d \in Dates : CatchupDoc(d) \/ CatchupMarker(d)
  BY <1>0, <1>6 DEF CatchupDoc, CatchupMarker, CatchupRuns
<1>7. CASE CatchupBatchEnds
  <2>1. PICK ready \in {catchup.ready, catchup.ready \ catchup.batch} :
            catchup' = [catchup EXCEPT !.pc = "batch", !.ready = ready,
                                       !.batch = {}, !.left = {}]
    BY <1>7 DEF CatchupBatchEnds
  <2>2. catchup'.ready = ready /\ catchup'.batch = {}
    BY <1>0, <2>1 DEF CatchupRuns
  <2> QED
    BY <2>2
<1>8. CASE CatchupReadWatermark
  <2>1. catchup'.ready = catchup.ready /\ catchup'.batch = catchup.batch
    BY <1>0, <1>8 DEF CatchupReadWatermark, CatchupRuns
  <2> QED
    BY <2>1
<1>9. CASE CatchupWriteWatermark \/ CatchupEnds \/ CatchupRetry
  BY <1>0, <1>9 DEF CatchupWriteWatermark, CatchupEnds, CatchupRetry, CatchupRuns
<1> QED
  BY <1>1, <1>2, <1>3, <1>4, <1>5, <1>6, <1>7, <1>8, <1>9 DEF CatchupNext

LEMMA TracedStep ==
    ASSUME IndInv, Traced, [Next]_vars
    PROVE  Traced'
<1>0. /\ TypeOK /\ selection.keys \subseteq Keys
      /\ catchup.ready \cup catchup.batch \subseteq Dates
  BY DEF IndInv, TypeOK, Documents, CatchupRuns
<1>1. \A k \in Keys : raw[k] = "COMPLETE" => raw'[k] = "COMPLETE"
  BY <1>0, CompleteStays
<1>2. \A k \in selection'.keys : raw'[k] = "COMPLETE"
  <2>1. CASE DailySelect
    <3>1. selection'.keys = Selected(raw, wm, daily.run) /\ raw' = raw
      BY <2>1 DEF DailySelect
    <3> QED
      BY <3>1 DEF Selected, Candidates
  <2>2. CASE selection' = selection
    BY <1>0, <1>1, <2>2 DEF Traced
  <2> QED
    BY <2>1, <2>2, SelectionMoves
<1>3. \A d \in catchup'.ready \cup catchup'.batch : raw'[CatchupKey(d)] = "COMPLETE"
  <2>1. \A d \in catchup.ready \cup catchup.batch : raw'[CatchupKey(d)] = "COMPLETE"
    BY <1>0, <1>1, CatchupKeyIsKey DEF Traced
  <2>2. CASE catchup' = catchup
    BY <2>1, <2>2
  <2>3. CASE CatchupNext
    BY <2>1, <2>3, ReadyMoves
  <2> QED
    BY <2>2, <2>3, DailyFrame, ConfirmFrame, SilverFrame, OtherFrame DEF Next
<1>4. ASSUME NEW d \in Dates, bronze'[d] # NoKey
      PROVE  raw'[bronze'[d]] = "COMPLETE"
  <2>1. ASSUME bronze'[d] = bronze[d] PROVE raw'[bronze'[d]] = "COMPLETE"
    BY <1>0, <1>1, <1>4, <2>1 DEF Traced, BronzeTracesToRaw, TypeOK
  <2>2. CASE DailyPromote
    <3>1. bronze'[d] = bronze[d] \/ bronze'[d] \in selection.keys
      BY <2>2 DEF DailyPromote, PromoteDaily
    <3> QED
      BY <1>0, <1>1, <2>1, <3>1 DEF Traced
  <2>3. CASE CatchupCommit
    <3>1. bronze'[d] = bronze[d]
          \/ (d \in catchup.batch /\ bronze'[d] = CatchupKey(d))
      BY <2>3 DEF CatchupCommit
    <3> QED
      BY <1>1, <2>1, <3>1, CatchupKeyIsKey DEF Traced
  <2> QED
    BY <2>1, <2>2, <2>3, BronzeMoves
<1> QED
  BY <1>2, <1>3, <1>4 DEF Traced, BronzeTracesToRaw

(* The policy takes a date only together with all between it and the        *)
(* watermark.                                                               *)
LEMMA SelectedLeavesNoHole ==
    ASSUME IndInv, DailySelect, NEW k \in Selected(raw, wm, daily.run), FullDay(k),
           NEW e \in Dates, e < k.date
    PROVE  Safe(e) \/ \E j \in Selected(raw, wm, daily.run) : j.date = e
<1>0. /\ wm \in 0 .. LastDay /\ daily.run \in Nat /\ e \in Nat /\ SafeUpTo(wm)
      /\ Missing(raw, wm, daily.run) = {}
  BY HorizonFacts DEF IndInv, TypeOK, DailyRuns, Marks, DailySelect
<1>1. PICK d \in RequiredWindow(wm, daily.run) : k \in Candidates(raw, d, daily.run)
  BY DEF Selected
<1>2. k.date = d /\ k.run = daily.run /\ k.by # "CATCHUP"
  BY <1>1 DEF Candidates, DailyKey, PreliminaryKey
<1>3. d \in ConfirmedWindow(wm, daily.run)
  BY <1>0, <1>1, <1>2 DEF FullDay, RequiredWindow
<1>4. CASE e <= wm
  BY <1>0, <1>4 DEF SafeUpTo
<1>5. CASE ~ (e <= wm)
  <2>1. d \in Nat /\ d < daily.run /\ d <= wm + MaxDays
    BY <1>3, HorizonFacts DEF ConfirmedWindow
  <2>2. e \in RequiredWindow(wm, daily.run)
    BY <1>0, <1>2, <1>5, <2>1 DEF RequiredWindow, ConfirmedWindow
  <2>3. PICK j \in Candidates(raw, e, daily.run) : TRUE
    BY <1>0, <2>2 DEF Missing
  <2>4. j.date = e
    BY <2>3 DEF Candidates, DailyKey, PreliminaryKey
  <2> QED
    BY <2>2, <2>3, <2>4 DEF Selected
<1> QED
  BY <1>4, <1>5

LEMMA NoHoleStep ==
    ASSUME IndInv, NoHole, [Next]_vars
    PROVE  NoHole'
<1>0. /\ selection.keys \subseteq Keys /\ OfThisRun(selection.keys)
      /\ bronze \in [Dates -> Keys \cup {NoKey}]
  BY DEF IndInv, TypeOK, Documents, DailyRun
<1>1. \A d \in Dates : Safe(d) => Safe(d)'
  BY SafeIsStable
<1>2. \A x : SafeUpTo(x) => SafeUpTo(x)'
  BY <1>1 DEF SafeUpTo
<1>3. \A k \in selection'.keys : FullDay(k) =>
         \A e \in Dates : e < k.date =>
             Safe(e)' \/ \E j \in selection'.keys : j.date = e
  <2>1. CASE DailySelect
    <3>1. selection'.keys = Selected(raw, wm, daily.run)
      BY <2>1 DEF DailySelect
    <3> QED
      BY <1>1, <2>1, <3>1, SelectedLeavesNoHole
  <2>2. CASE selection' = selection
    BY <1>1, <2>2 DEF NoHole
  <2> QED
    BY <2>1, <2>2, SelectionMoves
<1>4. ASSUME NEW d \in Dates, Whole(d)', bronze'[d].by # "CATCHUP"
      PROVE  SafeUpTo(d - 1)'
  <2>1. CASE bronze'[d] = bronze[d]
    BY <1>2, <1>4, <2>1 DEF NoHole, Whole
  <2>2. CASE CatchupCommit
    <3>1. CatchupKey(d).by = "CATCHUP"
      BY DEF CatchupKey
    <3>2. bronze'[d] = bronze[d]
      BY <1>4, <2>2, <3>1 DEF CatchupCommit
    <3> QED
      BY <2>1, <3>2
  <2>3. CASE DailyPromote /\ \E k \in selection.keys : k.date = d
    <3>1. bronze'[d] \in selection.keys /\ bronze'[d].date = d
      BY <2>3 DEF DailyPromote, PromoteDaily
    <3>2. PICK k \in selection.keys : k.date = d /\ FullDay(k)
      BY <1>4, <3>1 DEF Whole
    <3>3. k.run = daily.run /\ d < daily.run /\ daily.run \in Nat
      BY <1>0, <3>2 DEF OfThisRun, FullDay, IndInv, TypeOK, DailyRuns
    <3>4. ASSUME NEW e \in Dates, e <= d - 1
          PROVE  Safe(e)'
      <4>0. e \in Nat /\ d \in Nat /\ e < d /\ e < daily.run
        BY <3>3, <3>4, HorizonFacts
      <4>1. CASE Safe(e)
        BY <1>1, <4>1
      <4>2. CASE \E j \in selection.keys : j.date = e
        <5>1. PICK j \in selection.keys : j.date = e
          BY <4>2
        <5>2. FullDay(j)
          BY <1>0, <4>0, <5>1 DEF OfThisRun, FullDay
        <5>3. Whole(e)'
          BY <2>3, <5>1, <5>2, PromotedIsWhole
        <5>4. Past(e)'
          BY <4>0, SafeIsStable DEF Past
        <5> QED
          BY <5>3, <5>4 DEF Safe
      <4> QED
        BY <3>2, <4>0, <4>1, <4>2 DEF NoHole
    <3> QED
      BY <3>4 DEF SafeUpTo
  <2>4. CASE DailyPromote /\ ~ \E k \in selection.keys : k.date = d
    BY <2>1, <2>4 DEF DailyPromote, PromoteDaily
  <2> QED
    BY <2>1, <2>2, <2>3, <2>4, BronzeMoves
<1> QED
  BY <1>3, <1>4 DEF NoHole

LEMMA OriginInit == Init => Traced /\ NoHole
<1> SUFFICES ASSUME Init PROVE Traced /\ NoHole
  OBVIOUS
<1>1. selection.keys = {} /\ catchup.ready = {} /\ catchup.batch = {}
  BY DEF Init, NoDoc
<1>2. \A d \in Dates : bronze[d] = NoKey
  BY DEF Init
<1> QED
  BY <1>1, <1>2 DEF Traced, BronzeTracesToRaw, NoHole, Whole

(* What is about to be promoted is complete and has no gap below it.        *)
THEOREM OriginInvariant == Spec => [](Traced /\ NoHole)
<1>1. IndInv /\ (Traced /\ NoHole) /\ [Next]_vars => (Traced /\ NoHole)'
  BY TracedStep, NoHoleStep
<1> QED
  BY <1>1, OriginInit, Invariant, PTL DEF Spec

(* Every partition of Bronze is that of an observation stored as complete,  *)
(* which no later attempt under the same key replaces.                      *)
THEOREM PartitionsTraceToRaw == Spec => []BronzeTracesToRaw
BY OriginInvariant, PTL DEF Traced

LEMMA NothingIsLeftOut ==
    ASSUME IndInv, NoHole
    PROVE  DailyLeavesNoHole
<1> SUFFICES ASSUME NEW d \in Dates, Whole(d), bronze[d].by # "CATCHUP",
                    NEW e \in 1 .. d - 1
             PROVE  Whole(e) \/ e \in approved
  BY DEF DailyLeavesNoHole
<1>1. e \in Dates /\ e <= d - 1
  BY DEF Dates
<1> QED
  BY <1>1 DEF NoHole, SafeUpTo, Safe

(* Below a whole day that the daily batch committed every date is whole or  *)
(* confirmed empty, whatever backlog the batch worked off and wherever it   *)
(* was retried or cleared.                                                  *)
THEOREM DailyBatchLeavesNoHole == Spec => []DailyLeavesNoHole
BY OriginInvariant, Invariant, NothingIsLeftOut, PTL
=============================================================================
