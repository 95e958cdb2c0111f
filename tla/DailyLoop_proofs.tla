---------------------------- MODULE DailyLoop_proofs ----------------------------
(***************************************************************************)
(* The promises of the collection loop, for every fleet, limit, number of  *)
(* days and of runs a day.                                                 *)
(***************************************************************************)
EXTENDS DailyLoop, WellFoundedInduction, TLAPS

(* The bike was in no workshop when the date began: each of its COLLECT    *)
(* events before the date has a later DEPLOY, before the date as well.     *)
FreeOn(bike, date) ==
    \A e \in log : e.bike = bike /\ e.type = "COLLECT" /\ e.date < date =>
        \E f \in log : /\ f.bike = bike /\ f.type = "DEPLOY"
                       /\ e.date < f.date /\ f.date < date

LogTypes ==
    /\ today \in 1 .. LastDay
    /\ log \subseteq Events
    /\ deployed \subseteq Nat
    /\ \A e \in log : e.date <= today
    /\ \A d \in deployed : d <= today

(* Silver is the log up to its watermark.                                  *)
SilverCopies ==
    /\ silver.watermark \in Nat /\ silver.watermark < today
    /\ silver.events = {e \in log : e.date <= silver.watermark}

(* A run of Gold has all events of the days before at hand.                *)
GoldHasSeen == gold.task # "idle" => silver.watermark >= today - 1

(* Each ranking of the day, wherever it was copied, names free bikes only. *)
AllFree(rows) == \A b \in DOMAIN rows.rank : b \in Bikes /\ FreeOn(b, today)

RankingsAreFree ==
    /\ features \subseteq Bikes
    /\ AllFree(risk)
    /\ \A b \in Branches : AllFree(mart[b]) /\ AllFree(served[b])

CollectedFree ==
    \A e \in log : e.type = "COLLECT" => FreeOn(e.bike, e.date)

(* A DEPLOY answers the COLLECT of the day before.                         *)
DeployFollows ==
    \A e \in log : e.type = "DEPLOY" =>
        \E f \in log : f.bike = e.bike /\ f.type = "COLLECT" /\ f.date = e.date - 1

(* Tables are functions and records, as far as updating them needs it.     *)
IsTable(rows) ==
    /\ rows = [version |-> rows.version, rank |-> rows.rank]
    /\ rows.rank = [b \in DOMAIN rows.rank |-> rows.rank[b]]

Shapes ==
    /\ gold \in [task : {"idle", "features", "risk", "decision", "trigger", "done",
                         "given up"}, runs : Nat]
    /\ DOMAIN mart = Branches /\ DOMAIN served = Branches /\ DOMAIN sync = Branches
    /\ IsTable(risk)

LoopInv ==
    /\ LogTypes /\ SilverCopies /\ GoldHasSeen /\ RankingsAreFree
    /\ CollectedFree /\ DeployFollows /\ BackTheDayAfter /\ Shapes

(* After a ranking was decided about, the decision names its bikes; and    *)
(* what a branch has copied since the trigger is that ranking.             *)
DecisionFits == gold.task \in {"trigger", "done"} => decision = DOMAIN risk.rank

CopiesFit ==
    /\ \A b \in Branches : sync[b] \in {"verify", "done"} => served[b] = mart[b]
    /\ gold.task = "done" =>
          \A b \in Branches : sync[b] \in {"write", "verify", "done"} => mart[b] = risk

ServingInv == DecisionFits /\ CopiesFit

-----------------------------------------------------------------------------
LEMMA EventFacts ==
    /\ LastDay \in Nat
    /\ \A e \in Events : /\ e = [bike |-> e.bike, type |-> e.type, date |-> e.date]
                         /\ e.bike \in Bikes /\ e.type \in {"COLLECT", "DEPLOY"}
                         /\ e.date \in Nat /\ 1 <= e.date /\ e.date <= LastDay
<1>1. LastDay \in Nat
  BY LoopConstants
<1>2. \A e \in Events : /\ e = [bike |-> e.bike, type |-> e.type, date |-> e.date]
                        /\ e.bike \in Bikes /\ e.type \in {"COLLECT", "DEPLOY"}
                        /\ e.date \in 1 .. LastDay
  BY DEF Events
<1> QED
  BY <1>1, <1>2

LEMMA LogFacts ==
    ASSUME LogTypes
    PROVE  /\ today \in Nat /\ 1 <= today /\ today <= LastDay
           /\ \A e \in log : /\ e \in Events /\ e.date \in Nat /\ 1 <= e.date
                             /\ e.date <= today /\ e.date <= LastDay
BY EventFacts DEF LogTypes

(* Among some events there is one that no other is later than.             *)
LEMMA LatestExists ==
    ASSUME NEW S \in SUBSET Events, S # {}
    PROVE  \E e \in S : \A f \in S : f.date <= e.date
<1>1. \A e \in S : LastDay - e.date \in Nat
  BY EventFacts
<1> DEFINE T == {LastDay - e.date : e \in S}
<1>2. T \subseteq Nat /\ T # {}
  BY <1>1
<1>3. PICK t \in T : \A u \in T : ~ (<<u, t>> \in OpToRel(<, Nat))
  <2> HIDE DEF T
  <2> QED
    BY <1>2, NatLessThanWellFounded, WFMin
<1>4. \A u \in T : ~ (u < t)
  <2> HIDE DEF T
  <2> QED
    BY <1>2, <1>3 DEF OpToRel
<1>5. PICK e \in S : t = LastDay - e.date
  BY <1>3
<1>6. ASSUME NEW f \in S
      PROVE  f.date <= e.date
  <2>1. ~ (LastDay - f.date < LastDay - e.date)
    BY <1>4, <1>5
  <2> QED
    BY <2>1, EventFacts
<1> QED
  BY <1>6

(* No bike is deployed and collected on the same date.                     *)
LEMMA NeverBoth ==
    ASSUME LogTypes, CollectedFree, DeployFollows,
           NEW c \in log, c.type = "COLLECT", NEW d \in log, d.type = "DEPLOY",
           c.bike = d.bike, c.date = d.date
    PROVE  FALSE
<1>1. PICK f \in log : f.bike = d.bike /\ f.type = "COLLECT" /\ f.date = d.date - 1
  BY DEF DeployFollows
<1>2. FreeOn(c.bike, c.date)
  BY DEF CollectedFree
<1>3. c.date \in Nat /\ f.date \in Nat /\ f.date < c.date
  BY <1>1, LogFacts
<1>4. PICK g \in log : f.date < g.date /\ g.date < c.date
  BY <1>1, <1>2, <1>3 DEF FreeOn
<1>5. g.date \in Nat
  BY LogFacts
<1> QED
  BY <1>1, <1>3, <1>4, <1>5

(* A bike whose latest events before today are not only COLLECTs is free.  *)
LEMMA LatestTellsFree ==
    ASSUME LogTypes, SilverCopies, CollectedFree, DeployFollows,
           silver.watermark >= today - 1,
           NEW b \in Bikes, {e.type : e \in LatestInSilver(b)} # {"COLLECT"}
    PROVE  FreeOn(b, today)
<1> SUFFICES ASSUME NEW e \in log, e.bike = b, e.type = "COLLECT", e.date < today
             PROVE  \E f \in log : /\ f.bike = b /\ f.type = "DEPLOY"
                                   /\ e.date < f.date /\ f.date < today
  BY DEF FreeOn
<1> DEFINE S == EventsBefore(silver.events, b, today)
<1>1. \A f \in S : f \in log /\ f.bike = b /\ f.date < today
  BY DEF EventsBefore, SilverCopies
<1>2. e \in S
  BY LogFacts DEF EventsBefore, SilverCopies
<1>3. S \in SUBSET Events /\ S # {}
  BY <1>1, <1>2, LogFacts
<1>4. PICK g \in S : \A f \in S : f.date <= g.date
  <2> HIDE DEF S
  <2> QED
    BY <1>3, LatestExists
<1>5. LatestInSilver(b) = {f \in S : \A h \in S : h.date <= f.date}
  BY DEF LatestInSilver, Latest
<1> HIDE DEF S
<1>6. PICK h \in LatestInSilver(b) : h.type # "COLLECT"
  BY <1>4, <1>5
<1>7. h \in log /\ h.bike = b /\ h.date < today /\ e.date <= h.date /\ h.type = "DEPLOY"
  BY <1>1, <1>2, <1>5, <1>6, LogFacts, EventFacts
<1>8. e.date # h.date
  BY <1>7, NeverBoth
<1>9. e.date \in Nat /\ h.date \in Nat
  BY <1>7, LogFacts
<1> QED
  BY <1>7, <1>8, <1>9

(* What is written on a day does not change who was free before.           *)
LEMMA FreeStays ==
    ASSUME LogTypes, log \subseteq log', \A e \in log' : e \in log \/ e.date = today
    PROVE  \A b, d : d \in Nat /\ d <= today /\ FreeOn(b, d) => FreeOn(b, d)'
<1> SUFFICES ASSUME NEW b, NEW d \in Nat, d <= today, FreeOn(b, d)
             PROVE  FreeOn(b, d)'
  OBVIOUS
<1>1. \A e \in log' : e.date < d => e \in log
  BY LogFacts
<1> QED
  BY <1>1 DEF FreeOn

-----------------------------------------------------------------------------
LEMMA LoopInitially == LoopInit => LoopInv /\ ServingInv
<1> SUFFICES ASSUME LoopInit
             PROVE  LoopInv /\ ServingInv
  OBVIOUS
<1>1. LogTypes /\ SilverCopies /\ GoldHasSeen
  BY EventFacts, LoopConstants DEF LoopInit, LogTypes, SilverCopies, GoldHasSeen
<1>2. AllFree(NoRows) /\ IsTable(NoRows)
  BY DEF AllFree, IsTable, NoRows
<1>3. RankingsAreFree
  BY <1>2 DEF LoopInit, RankingsAreFree
<1>4. CollectedFree /\ DeployFollows /\ BackTheDayAfter
  BY DEF LoopInit, CollectedFree, DeployFollows, BackTheDayAfter
<1>5. Shapes
  BY <1>2 DEF LoopInit, Shapes
<1>6. ServingInv
  BY DEF LoopInit, ServingInv, DecisionFits, CopiesFit
<1> QED
  BY <1>1, <1>3, <1>4, <1>5, <1>6 DEF LoopInv

(* Steps that write no event and move neither the day nor Silver.          *)
LEMMA SameLog ==
    ASSUME LoopInv, UNCHANGED <<today, log, silver, deployed>>
    PROVE  /\ LogTypes' /\ SilverCopies' /\ CollectedFree' /\ DeployFollows' /\ BackTheDayAfter'
           /\ \A rows : AllFree(rows) => AllFree(rows)'
BY DEF LoopInv, LogTypes, SilverCopies, CollectedFree, DeployFollows, BackTheDayAfter,
   FreeOn, AllFree

(* Gold computes and decides on rankings.                                  *)
LEMMA BuildRiskKeeps ==
    ASSUME LoopInv, BuildRisk
    PROVE  AllFree(risk') /\ IsTable(risk') /\ DOMAIN risk'.rank \subseteq Bikes
<1>0. PICK C \in CollectedSets : \E r \in Rankings(features \ C) :
          risk' = [version |-> gold.runs, rank |-> r]
  BY DEF BuildRisk
<1>1. PICK r \in Rankings(features \ C) : risk' = [version |-> gold.runs, rank |-> r]
  BY <1>0
<1>2. DOMAIN r = features \ C /\ r = [b \in DOMAIN r |-> r[b]]
  BY DEF Rankings, Injection
<1>3. silver.watermark >= today - 1
  BY DEF BuildRisk, LoopInv, GoldHasSeen
<1>4. ASSUME NEW b \in features \ C
      PROVE  b \in Bikes /\ FreeOn(b, today)
  <2>1. b \in Bikes
    BY DEF LoopInv, RankingsAreFree
  <2>2. {e.type : e \in LatestInSilver(b)} # {"COLLECT"}
    BY <2>1 DEF CollectedSets
  <2> QED
    BY <1>3, <2>1, <2>2, LatestTellsFree DEF LoopInv
<1> QED
  BY <1>1, <1>2, <1>4 DEF AllFree, IsTable

LEMMA GoldKeeps ==
    ASSUME LoopInv, Gold
    PROVE  LoopInv'
<1>1. UNCHANGED <<today, log, silver, mart, served, deployed>>
  BY DEF Gold, GoldStart, BuildFeatures, BuildRisk, BuildDecision, TriggerSync, GoldGivesUp,
     OnlyGold
<1>2. /\ LogTypes' /\ SilverCopies' /\ CollectedFree' /\ DeployFollows' /\ BackTheDayAfter'
      /\ \A rows : AllFree(rows) => AllFree(rows)'
  BY <1>1, SameLog
<1>3. GoldHasSeen' /\ gold' \in [task : {"idle", "features", "risk", "decision", "trigger",
                                         "done", "given up"}, runs : Nat]
  <2>1. CASE GoldStart
    <3>1. gold' = [task |-> "features", runs |-> gold.runs + 1] /\ silver.watermark >= today - 1
      BY <2>1 DEF GoldStart, Ready
    <3>2. gold.runs + 1 \in Nat
      <4>1. gold.runs \in Nat
        BY DEF LoopInv, Shapes
      <4> QED
        BY <4>1
    <3>3. GoldHasSeen'
      BY <1>1, <3>1 DEF GoldHasSeen
    <3> QED
      BY <3>1, <3>2, <3>3
  <2>2. CASE BuildFeatures \/ BuildRisk \/ BuildDecision \/ TriggerSync \/ GoldGivesUp
    <3>1. gold.task # "idle"
      BY <2>2 DEF BuildFeatures, BuildRisk, BuildDecision, TriggerSync, GoldGivesUp, Resting
    <3>2. GoldHasSeen'
      BY <1>1, <3>1 DEF LoopInv, GoldHasSeen
    <3> QED
      BY <2>2, <3>2 DEF BuildFeatures, BuildRisk, BuildDecision, TriggerSync, GoldGivesUp,
         LoopInv, Shapes
  <2> QED
    BY <2>1, <2>2 DEF Gold
<1>4. features' \subseteq Bikes
  BY DEF Gold, GoldStart, BuildFeatures, BuildRisk, BuildDecision, TriggerSync, GoldGivesUp,
     LoopInv, RankingsAreFree
<1>5. AllFree(risk)' /\ IsTable(risk')
  <2>1. CASE BuildRisk
    <3>1. AllFree(risk') /\ IsTable(risk')
      BY <2>1, BuildRiskKeeps
    <3> QED
      BY <1>1, <3>1 DEF AllFree, FreeOn
  <2>2. CASE ~ BuildRisk
    <3>1. risk' = risk
      BY <2>2 DEF Gold, GoldStart, BuildFeatures, BuildDecision, TriggerSync, GoldGivesUp
    <3> QED
      BY <1>2, <3>1 DEF LoopInv, RankingsAreFree, Shapes
  <2> QED
    BY <2>1, <2>2
<1>6. DOMAIN sync' = Branches
  BY DEF Gold, GoldStart, BuildFeatures, BuildRisk, BuildDecision, TriggerSync, GoldGivesUp,
     LoopInv, Shapes
<1>7. RankingsAreFree'
  BY <1>1, <1>2, <1>4, <1>5 DEF LoopInv, RankingsAreFree
<1> QED
  BY <1>1, <1>2, <1>3, <1>5, <1>6, <1>7 DEF LoopInv, Shapes

LEMMA MartIsFree ==
    ASSUME LoopInv, NEW b \in Branches
    PROVE  AllFree(MartOf(b))
<1>1. CASE b = "bike"
  <2>1. MartOf(b) = [risk EXCEPT !.rank = Restrict(risk.rank, decision \cap DOMAIN risk.rank)]
    BY <1>1 DEF MartOf
  <2>2. MartOf(b).rank = Restrict(risk.rank, decision \cap DOMAIN risk.rank)
    BY <2>1 DEF LoopInv, Shapes, IsTable
  <2>3. DOMAIN MartOf(b).rank \subseteq DOMAIN risk.rank
    BY <2>2 DEF Restrict
  <2> QED
    BY <2>3 DEF LoopInv, RankingsAreFree, AllFree
<1>2. CASE b # "bike"
  BY <1>2 DEF MartOf, LoopInv, RankingsAreFree
<1> QED
  BY <1>1, <1>2

LEMMA SyncKeeps ==
    ASSUME LoopInv, Sync
    PROVE  LoopInv'
<1>1. PICK b \in Branches : BuildMart(b) \/ Write(b) \/ Verify(b) \/ SyncGivesUp(b)
  BY DEF Sync
<1>2. UNCHANGED <<today, log, silver, gold, features, risk, decision, deployed>>
  BY <1>1 DEF BuildMart, Write, Verify, SyncGivesUp, OnlySync
<1>3. /\ LogTypes' /\ SilverCopies' /\ CollectedFree' /\ DeployFollows' /\ BackTheDayAfter'
      /\ \A rows : AllFree(rows) => AllFree(rows)'
  BY <1>2, SameLog
<1>4. /\ DOMAIN mart' = Branches /\ DOMAIN served' = Branches /\ DOMAIN sync' = Branches
      /\ \A c \in Branches : mart'[c] = mart[c] \/ mart'[c] = MartOf(c)
      /\ \A c \in Branches : served'[c] = served[c] \/ served'[c] = mart[c]
  BY <1>1 DEF BuildMart, Write, Verify, SyncGivesUp, LoopInv, Shapes
<1>5. \A c \in Branches : AllFree(mart'[c]) /\ AllFree(served'[c])
  BY <1>4, MartIsFree DEF LoopInv, RankingsAreFree
<1>6. RankingsAreFree'
  BY <1>2, <1>3, <1>5 DEF LoopInv, RankingsAreFree, AllFree, FreeOn
<1> QED
  BY <1>2, <1>3, <1>4, <1>6 DEF LoopInv, GoldHasSeen, Shapes

(* The generator only adds events of today.                                *)
LEMMA TodaysEvents ==
    ASSUME LoopInv, log \subseteq log', \A e \in log' : e \in log \/ e.date = today,
           log' \subseteq Events, deployed' \subseteq deployed \cup {today},
           UNCHANGED <<today, silver, gold, features, risk, mart, served, sync>>
    PROVE  /\ LogTypes' /\ SilverCopies' /\ GoldHasSeen' /\ RankingsAreFree' /\ Shapes'
           /\ \A e \in log : e.type = "COLLECT" => FreeOn(e.bike, e.date)'
           /\ \A b : FreeOn(b, today) => FreeOn(b, today)'
<1>0. LogTypes
  BY DEF LoopInv
<1>1. LogTypes'
  BY <1>0, LogFacts DEF LogTypes
<1>2. SilverCopies'
  <2>1. {e \in log' : e.date <= silver.watermark} = {e \in log : e.date <= silver.watermark}
    BY <1>0, LogFacts DEF LoopInv, SilverCopies
  <2> QED
    BY <2>1 DEF LoopInv, SilverCopies
<1>3. \A b, d : d \in Nat /\ d <= today /\ FreeOn(b, d) => FreeOn(b, d)'
  BY <1>0, FreeStays
<1>4. \A b : FreeOn(b, today) => FreeOn(b, today)'
  <2>1. today \in Nat /\ today <= today
    BY <1>0, LogFacts
  <2> QED
    BY <1>3, <2>1 DEF FreeOn
<1>5. \A e \in log : e.type = "COLLECT" => FreeOn(e.bike, e.date)'
  BY <1>0, <1>3, LogFacts DEF LoopInv, CollectedFree
<1>6. \A rows : AllFree(rows) => AllFree(rows)'
  BY <1>4 DEF AllFree
<1>7. RankingsAreFree'
  BY <1>6 DEF LoopInv, RankingsAreFree
<1>8. GoldHasSeen' /\ Shapes'
  BY DEF LoopInv, GoldHasSeen, Shapes
<1> QED
  BY <1>1, <1>2, <1>4, <1>5, <1>7, <1>8

LEMMA InsertedFacts ==
    ASSUME LoopInv, NEW X \in SUBSET Bikes, NEW t \in {"COLLECT", "DEPLOY"}
    PROVE  /\ Inserted(X, t) \subseteq Events
           /\ \A e \in Inserted(X, t) : e.date = today /\ e.type = t /\ e.bike \in X
           /\ \A b \in X : [bike |-> b, type |-> t, date |-> today] \in Inserted(X, t)
BY DEF Inserted, Events, LoopInv, LogTypes

(* DEPLOY events go to bikes that were collected the day before.           *)
LEMMA DeployKeeps ==
    ASSUME LoopInv, DeployReturnedBikes
    PROVE  LoopInv'
<1>0. LogTypes /\ "DEPLOY" \in {"COLLECT", "DEPLOY"}
  BY DEF LoopInv
<1>1. /\ log' = log \cup Inserted(DeployTargets, "DEPLOY")
      /\ deployed' = deployed \cup {today}
      /\ UNCHANGED <<today, silver, gold, features, risk, decision, mart, served, sync>>
  BY DEF DeployReturnedBikes, OnlyGenerator
<1>2. DeployTargets \in SUBSET Bikes
  BY DEF DeployTargets
<1>3. /\ log \subseteq log' /\ log' \subseteq Events
      /\ \A e \in log' : e \in log \/ (e.date = today /\ e.type = "DEPLOY" /\ e.bike \in DeployTargets)
      /\ \A b \in DeployTargets : [bike |-> b, type |-> "DEPLOY", date |-> today] \in log'
  BY <1>0, <1>1, <1>2, InsertedFacts, LogFacts
<1>4. /\ LogTypes' /\ SilverCopies' /\ GoldHasSeen' /\ RankingsAreFree' /\ Shapes'
      /\ \A e \in log : e.type = "COLLECT" => FreeOn(e.bike, e.date)'
  BY <1>1, <1>3, TodaysEvents
<1>5. CollectedFree'
  BY <1>3, <1>4 DEF CollectedFree
<1>6. DeployFollows'
  <2>1. ASSUME NEW b \in DeployTargets
        PROVE  \E f \in log : f.bike = b /\ f.type = "COLLECT" /\ f.date = today - 1
    BY DEF DeployTargets, Latest, EventsBefore
  <2>2. ASSUME NEW e \in log', e.type = "DEPLOY"
        PROVE  \E f \in log' : f.bike = e.bike /\ f.type = "COLLECT" /\ f.date = e.date - 1
    <3>1. CASE e \in log
      BY <1>3, <2>2, <3>1 DEF LoopInv, DeployFollows
    <3>2. CASE e.date = today /\ e.bike \in DeployTargets
      BY <1>3, <2>1, <3>2
    <3> QED
      BY <1>3, <3>1, <3>2
  <2> QED
    BY <2>2 DEF DeployFollows
<1>7. BackTheDayAfter'
  <2> SUFFICES ASSUME NEW e \in log', e.type = "COLLECT", e.date + 1 \in deployed'
               PROVE  [bike |-> e.bike, type |-> "DEPLOY", date |-> e.date + 1] \in log'
    BY DEF BackTheDayAfter
  <2>1. e \in log
    BY <1>3
  <2>2. e.date \in Nat /\ today \in Nat /\ e.bike \in Bikes
    BY <1>0, <2>1, LogFacts, EventFacts
  <2>3. CASE e.date + 1 = today
    <3>1. e \in EventsBefore(log, e.bike, today)
      BY <2>1, <2>2, <2>3 DEF EventsBefore
    <3>2. \A f \in EventsBefore(log, e.bike, today) : f.date <= e.date
      BY <1>0, <2>2, <2>3, LogFacts DEF EventsBefore
    <3>3. e \in Latest(log, e.bike, today)
      BY <3>1, <3>2 DEF Latest
    <3>4. e.bike \in DeployTargets
      BY <2>2, <2>3, <3>3 DEF DeployTargets
    <3> QED
      BY <1>3, <2>3, <3>4
  <2>4. CASE e.date + 1 # today
    BY <1>1, <2>1, <2>4 DEF LoopInv, BackTheDayAfter
  <2> QED
    BY <2>3, <2>4
<1> QED
  BY <1>4, <1>5, <1>6, <1>7 DEF LoopInv

(* COLLECT events go to bikes of the ranking that is served.               *)
LEMMA CollectKeeps ==
    ASSUME LoopInv, GenerateCollectEvents
    PROVE  LoopInv'
<1>0. LogTypes /\ "COLLECT" \in {"COLLECT", "DEPLOY"}
  BY DEF LoopInv
<1>1. /\ log' = log \cup Inserted(CollectTargets, "COLLECT")
      /\ UNCHANGED <<today, silver, gold, features, risk, decision, mart, served, sync, deployed>>
  BY DEF GenerateCollectEvents, OnlyGenerator
<1>2. /\ CollectTargets \in SUBSET Bikes
      /\ \A b \in CollectTargets : FreeOn(b, today)
  <2>1. CollectTargets \subseteq DOMAIN served["bike"].rank
    BY DEF CollectTargets
  <2>2. AllFree(served["bike"])
    BY DEF LoopInv, RankingsAreFree, Branches
  <2> QED
    BY <2>1, <2>2 DEF AllFree
<1>3. /\ log \subseteq log' /\ log' \subseteq Events
      /\ \A e \in log' : e \in log \/ (e.date = today /\ e.type = "COLLECT" /\ e.bike \in CollectTargets)
  BY <1>0, <1>1, <1>2, InsertedFacts, LogFacts
<1>4. /\ LogTypes' /\ SilverCopies' /\ GoldHasSeen' /\ RankingsAreFree' /\ Shapes'
      /\ \A e \in log : e.type = "COLLECT" => FreeOn(e.bike, e.date)'
      /\ \A b : FreeOn(b, today) => FreeOn(b, today)'
  BY <1>1, <1>3, TodaysEvents
<1>5. CollectedFree'
  BY <1>1, <1>2, <1>3, <1>4 DEF CollectedFree, FreeOn
<1>6. DeployFollows'
  BY <1>3 DEF LoopInv, DeployFollows
<1>7. BackTheDayAfter'
  <2> SUFFICES ASSUME NEW e \in log', e.type = "COLLECT", e.date + 1 \in deployed
               PROVE  [bike |-> e.bike, type |-> "DEPLOY", date |-> e.date + 1] \in log'
    BY <1>1 DEF BackTheDayAfter
  <2>1. e.date + 1 <= today /\ today \in Nat
    BY <1>0, LogFacts DEF LogTypes
  <2>2. e \in log
    BY <1>3, <2>1
  <2> QED
    BY <1>3, <2>2 DEF LoopInv, BackTheDayAfter
<1> QED
  BY <1>4, <1>5, <1>6, <1>7 DEF LoopInv

LEMMA GeneratorKeeps ==
    ASSUME LoopInv, Generator
    PROVE  LoopInv'
<1>1. CASE GeneratorStart \/ GeneratorGivesUp
  <2>1. UNCHANGED <<today, log, silver, gold, features, risk, mart, served, sync, deployed>>
    BY <1>1 DEF GeneratorStart, GeneratorGivesUp, OnlyGenerator
  <2>2. /\ LogTypes' /\ SilverCopies' /\ CollectedFree' /\ DeployFollows' /\ BackTheDayAfter'
        /\ \A rows : AllFree(rows) => AllFree(rows)'
    BY <2>1, SameLog
  <2> QED
    BY <2>1, <2>2 DEF LoopInv, GoldHasSeen, RankingsAreFree, Shapes
<1> QED
  BY <1>1, DeployKeeps, CollectKeeps DEF Generator

(* Silver takes in the days that have ended.                               *)
LEMMA SilverKeeps ==
    ASSUME LoopInv, SilverRun
    PROVE  LoopInv'
<1>1. /\ silver' = [events |-> {e \in log : e.date < today}, watermark |-> today - 1]
      /\ UNCHANGED <<today, log, gold, features, risk, mart, served, sync, deployed>>
  BY DEF SilverRun
<1>2. today \in Nat /\ 1 <= today /\ \A e \in log : e.date \in Nat
  BY LogFacts DEF LoopInv
<1>3. SilverCopies' /\ GoldHasSeen'
  BY <1>1, <1>2 DEF SilverCopies, GoldHasSeen
<1>4. LogTypes' /\ RankingsAreFree' /\ CollectedFree'
  BY <1>1 DEF LoopInv, LogTypes, RankingsAreFree, AllFree, CollectedFree, FreeOn
<1>5. DeployFollows' /\ BackTheDayAfter' /\ Shapes'
  BY <1>1 DEF LoopInv, DeployFollows, BackTheDayAfter, Shapes
<1> QED
  BY <1>3, <1>4, <1>5 DEF LoopInv

(* A day begins without rankings.                                          *)
LEMMA MidnightKeeps ==
    ASSUME LoopInv, Midnight
    PROVE  LoopInv'
<1>1. /\ today' = today + 1 /\ today < LastDay
      /\ gold' = [task |-> "idle", runs |-> 0]
      /\ features' = {} /\ risk' = NoRows
      /\ mart' = [b \in Branches |-> NoRows]
      /\ served' = [b \in Branches |-> NoRows]
      /\ sync' = [b \in Branches |-> "idle"]
      /\ UNCHANGED <<log, silver, deployed>>
  BY DEF Midnight
<1>2. LogTypes' /\ SilverCopies' /\ GoldHasSeen'
  <2>1. today \in Nat /\ LastDay \in Nat /\ 1 <= today
    BY LogFacts, EventFacts DEF LoopInv
  <2>2. \A e \in log : e.date \in Nat /\ e.date <= today
    BY LogFacts DEF LoopInv
  <2>3. \A d \in deployed : d \in Nat /\ d <= today
    BY DEF LoopInv, LogTypes
  <2>4. LogTypes'
    BY <1>1, <2>1, <2>2, <2>3 DEF LoopInv, LogTypes
  <2>5. SilverCopies' /\ GoldHasSeen'
    BY <1>1, <2>1 DEF LoopInv, SilverCopies, GoldHasSeen
  <2> QED
    BY <2>4, <2>5
<1>3. RankingsAreFree'
  BY <1>1 DEF RankingsAreFree, AllFree, NoRows
<1>4. CollectedFree' /\ DeployFollows' /\ BackTheDayAfter'
  BY <1>1 DEF LoopInv, CollectedFree, FreeOn, DeployFollows, BackTheDayAfter
<1>5. Shapes'
  BY <1>1 DEF Shapes, IsTable, NoRows
<1> QED
  BY <1>2, <1>3, <1>4, <1>5 DEF LoopInv

LEMMA LoopStep ==
    ASSUME LoopInv, [LoopNext]_loopVars
    PROVE  LoopInv'
<1>1. CASE UNCHANGED loopVars
  <2>1. /\ LogTypes' /\ SilverCopies' /\ CollectedFree' /\ DeployFollows' /\ BackTheDayAfter'
        /\ \A rows : AllFree(rows) => AllFree(rows)'
    BY <1>1, SameLog DEF loopVars
  <2> QED
    BY <1>1, <2>1 DEF loopVars, LoopInv, GoldHasSeen, RankingsAreFree, Shapes
<1> QED
  BY <1>1, GoldKeeps, SyncKeeps, GeneratorKeeps, SilverKeeps, MidnightKeeps DEF LoopNext

(* A bike that is in the workshop is not collected again, on whichever     *)
(* days the chain ran more than once, was given up or did not run at all   *)
(* (build_fact_bike_risk.py: a bike in maintenance is not a candidate).    *)
THEOREM WorkshopIsRespected == LoopSpec => []NeverCollectedTwice
<1>1. LoopInit => LoopInv
  BY LoopInitially
<1>2. LoopInv /\ [LoopNext]_loopVars => LoopInv'
  BY LoopStep
<1>3. LoopInv => NeverCollectedTwice
  <2> SUFFICES ASSUME LoopInv, NEW c \in log, NEW d \in log, c.type = "COLLECT",
                      d.type = "COLLECT", c.bike = d.bike, c.date < d.date
               PROVE  \E e \in log : /\ e.bike = c.bike /\ e.type = "DEPLOY"
                                     /\ c.date < e.date /\ e.date <= d.date
    BY DEF NeverCollectedTwice
  <2>1. FreeOn(d.bike, d.date)
    BY DEF LoopInv, CollectedFree
  <2>2. PICK e \in log : /\ e.bike = c.bike /\ e.type = "DEPLOY"
                         /\ c.date < e.date /\ e.date < d.date
    BY <2>1 DEF FreeOn
  <2>3. e.date \in Nat /\ d.date \in Nat
    BY LogFacts DEF LoopInv
  <2> QED
    BY <2>2, <2>3
<1> QED
  BY <1>1, <1>2, <1>3, PTL DEF LoopSpec

(* A bike that was collected is back the day after, if the generator ran   *)
(* on that day at all (deploy_returned_bikes.py).                          *)
THEOREM CollectedComesBack == LoopSpec => []BackTheDayAfter
<1>1. LoopInit => LoopInv
  BY LoopInitially
<1>2. LoopInv /\ [LoopNext]_loopVars => LoopInv'
  BY LoopStep
<1>3. LoopInv => BackTheDayAfter
  BY DEF LoopInv
<1> QED
  BY <1>1, <1>2, <1>3, PTL DEF LoopSpec

-----------------------------------------------------------------------------
(* Serving *)

LEMMA MartOfDecided ==
    ASSUME LoopInv, decision = DOMAIN risk.rank, NEW b \in Branches
    PROVE  MartOf(b) = risk
<1>1. IsTable(risk)
  BY DEF LoopInv, Shapes
<1>2. decision \cap DOMAIN risk.rank = DOMAIN risk.rank
  OBVIOUS
<1>3. Restrict(risk.rank, decision \cap DOMAIN risk.rank) = risk.rank
  BY <1>1, <1>2 DEF Restrict, IsTable
<1>4. [risk EXCEPT !.rank = risk.rank] = risk
  BY <1>1 DEF IsTable
<1> QED
  BY <1>3, <1>4 DEF MartOf

LEMMA ServingStep ==
    ASSUME LoopInv, ServingInv, [LoopNext]_loopVars
    PROVE  ServingInv'
<1>1. CASE GoldStart \/ BuildFeatures \/ BuildRisk \/ GoldGivesUp
  <2>1. gold'.task \notin {"trigger", "done"}
    <3>1. CASE GoldStart
      <4>1. gold'.task = "features"
        BY <3>1 DEF GoldStart
      <4> QED
        BY <4>1
    <3>2. CASE BuildFeatures \/ BuildRisk \/ GoldGivesUp
      BY <3>2 DEF BuildFeatures, BuildRisk, GoldGivesUp, LoopInv, Shapes
    <3> QED
      BY <1>1, <3>1, <3>2
  <2>2. UNCHANGED <<sync, mart, served>>
    BY <1>1 DEF GoldStart, BuildFeatures, BuildRisk, GoldGivesUp, OnlyGold
  <2> QED
    BY <2>1, <2>2 DEF ServingInv, DecisionFits, CopiesFit
<1>2. CASE BuildDecision
  <2>1. gold'.task = "trigger" /\ decision' = DOMAIN risk.rank
        /\ UNCHANGED <<risk, sync, mart, served>>
    BY <1>2 DEF BuildDecision, OnlyGold, LoopInv, Shapes
  <2> QED
    BY <2>1 DEF ServingInv, DecisionFits, CopiesFit
<1>3. CASE TriggerSync
  <2>1. /\ gold.task = "trigger" /\ UNCHANGED <<risk, decision>>
        /\ \A b \in Branches : sync'[b] = "build"
    BY <1>3 DEF TriggerSync, Triggered
  <2> QED
    BY <2>1 DEF ServingInv, DecisionFits, CopiesFit
<1>4. CASE Sync
  <2>1. PICK b \in Branches : BuildMart(b) \/ Write(b) \/ Verify(b) \/ SyncGivesUp(b)
    BY <1>4 DEF Sync
  <2>2. UNCHANGED <<gold, risk, decision>>
    BY <2>1 DEF BuildMart, Write, Verify, SyncGivesUp, OnlySync
  <2>3. DOMAIN mart = Branches /\ DOMAIN served = Branches /\ DOMAIN sync = Branches
    BY DEF LoopInv, Shapes
  <2>4. DecisionFits'
    BY <2>2 DEF ServingInv, DecisionFits
  <2>5. CASE BuildMart(b)
    <3>1. /\ \A c \in Branches : mart'[c] = IF c = b THEN MartOf(b) ELSE mart[c]
          /\ \A c \in Branches : sync'[c] = IF c = b THEN "write" ELSE sync[c]
          /\ served' = served
      BY <2>3, <2>5 DEF BuildMart
    <3>2. gold.task = "done" => MartOf(b) = risk
      BY MartOfDecided DEF ServingInv, DecisionFits
    <3> QED
      BY <2>2, <2>4, <3>1, <3>2 DEF ServingInv, CopiesFit
  <2>6. CASE Write(b)
    <3>1. /\ \A c \in Branches : served'[c] = IF c = b THEN mart[b] ELSE served[c]
          /\ \A c \in Branches : sync'[c] = sync[c] \/ (c = b /\ sync'[c] = "verify")
          /\ sync[b] = "write" /\ mart' = mart
      BY <2>3, <2>6 DEF Write
    <3> QED
      BY <2>2, <2>4, <3>1 DEF ServingInv, CopiesFit
  <2>7. CASE Verify(b)
    <3>1. /\ \A c \in Branches : sync'[c] = IF c = b THEN "done" ELSE sync[c]
          /\ sync[b] = "verify" /\ mart' = mart /\ served' = served
      BY <2>3, <2>7 DEF Verify
    <3> QED
      BY <2>2, <2>4, <3>1 DEF ServingInv, CopiesFit
  <2>8. CASE SyncGivesUp(b)
    <3>1. /\ \A c \in Branches : sync'[c] = IF c = b THEN "given up" ELSE sync[c]
          /\ mart' = mart /\ served' = served
      BY <2>3, <2>8 DEF SyncGivesUp
    <3> QED
      BY <2>2, <2>4, <3>1 DEF ServingInv, CopiesFit
  <2> QED
    BY <2>1, <2>5, <2>6, <2>7, <2>8
<1>5. CASE Generator \/ SilverRun \/ UNCHANGED loopVars
  <2>1. UNCHANGED <<gold, risk, decision, sync, mart, served>>
    BY <1>5 DEF Generator, GeneratorStart, DeployReturnedBikes, GenerateCollectEvents,
       GeneratorGivesUp, OnlyGenerator, SilverRun, loopVars
  <2> QED
    BY <2>1 DEF ServingInv, DecisionFits, CopiesFit
<1>6. CASE Midnight
  BY <1>6 DEF Midnight, ServingInv, DecisionFits, CopiesFit
<1> QED
  BY <1>1, <1>2, <1>3, <1>4, <1>5, <1>6 DEF LoopNext, Gold

(* When the day's runs have all ended well, both tables of the serving     *)
(* database come from the ranking that Gold holds, also when the date was  *)
(* computed again while the first copy was on its way                      *)
(* (gold_risk_decision_dag.py: trigger_serving_sync).                      *)
THEOREM ServingEndsCurrent == LoopSpec => []QuietServingIsCurrent
<1> DEFINE Inv == LoopInv /\ ServingInv
<1>1. LoopInit => Inv
  BY LoopInitially
<1>2. Inv /\ [LoopNext]_loopVars => Inv'
  BY LoopStep, ServingStep
<1>3. Inv => QuietServingIsCurrent
  BY DEF ServingInv, CopiesFit, QuietServingIsCurrent
<1> QED
  BY <1>1, <1>2, <1>3, PTL DEF LoopSpec
=============================================================================
