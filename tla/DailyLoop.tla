------------------------------- MODULE DailyLoop -------------------------------
(***************************************************************************)
(* The loop that decides which bikes are brought in: gold_risk_decision    *)
(* ranks the bikes that are not in the workshop, gold_to_serving_sync      *)
(* copies the ranking to the serving database in two branches, and         *)
(* bikeman_event_generator turns its head into COLLECT events, and the     *)
(* COLLECT events of the day before into DEPLOY events.  Those come back   *)
(* through Bronze and Silver and keep a bike out of the next ranking.      *)
(* A chain belongs to one day; it ends, or is given up, before midnight.   *)
(***************************************************************************)
EXTENDS Integers, FiniteSets, Functions

CONSTANTS
    Bikes,
    Limit,      \* BIKEMAN_COLLECT_LIMIT
    LastDay,    \* bound: the day on which the clock stops
    MaxRuns     \* bound: runs of gold_risk_decision for one day

ASSUME LoopConstants == {Limit, LastDay, MaxRuns} \subseteq Nat \ {0}

VARIABLES
    today,
    log,            \* bikeman.fact_worker_event
    silver,         \* silver.bikeman_action and its watermark
    gold,           \* gold_risk_decision: the task it has reached, its runs
    features,       \* gold.bike_features_daily of today: bikes
    risk,           \* gold.fact_bike_risk of today: rank by bike, its version
    decision,       \* gold.fact_bike_decision of today: bikes
    mart,           \* by branch: the gold mart of today
    served,         \* by branch: the table in the serving database
    sync,           \* by branch: the task gold_to_serving_sync has reached
    generator,      \* bikeman_event_generator: its task, runs that wait
    deployed        \* the dates for which deploy_returned_bikes has run

loopVars == <<today, log, silver, gold, features, risk, decision, mart, served,
              sync, generator, deployed>>

Branches == {"bike", "station"}
Events == [bike : Bikes, type : {"COLLECT", "DEPLOY"}, date : 1 .. LastDay]
(* The score puts the bikes in an order; of equal scores the bike_id.        *)
Rankings(bikes) == Injection(bikes, 1 .. Cardinality(bikes))
NoRows == [version |-> 0, rank |-> <<>>]

LoopInit ==
    /\ today = 1
    /\ log = {}
    /\ silver = [events |-> {}, watermark |-> 0]
    /\ gold = [task |-> "idle", runs |-> 0]
    /\ features = {}
    /\ risk = NoRows
    /\ decision = {}
    /\ mart = [b \in Branches |-> NoRows]
    /\ served = [b \in Branches |-> NoRows]
    /\ sync = [b \in Branches |-> "idle"]
    /\ generator = [task |-> "idle", waiting |-> 0]
    /\ deployed = {}

Resting == {"idle", "done", "given up"}

-----------------------------------------------------------------------------
(* What the events of the days before a date say of a bike.                 *)

EventsBefore(events, bike, date) ==
    {e \in events : e.bike = bike /\ e.date < date}

\* The events of a bike that nothing before the date is later than.
Latest(events, bike, date) ==
    LET all == EventsBefore(events, bike, date)
    IN {e \in all : \A f \in all : f.date <= e.date}

\* Mutant: only the events of the day before are looked at.
CollectedYesterday(bike) ==
    {[bike |-> bike, type |-> "COLLECT", date |-> today - 1]} \cap silver.events

LatestInSilver(bike) == Latest(silver.events, bike, today)

(* _LATEST_COLLECTED_SQL takes one of the rows with the latest occurred_at:  *)
(* when a COLLECT and a DEPLOY share it, either may be the one.              *)
CollectedSets ==
    {C \in SUBSET Bikes :
        \A b \in Bikes :
            LET types == {e.type : e \in LatestInSilver(b)} IN
            /\ types = {"COLLECT"} => b \in C
            /\ b \in C => "COLLECT" \in types}

-----------------------------------------------------------------------------
(* gold_risk_decision, triggered by gold_dim_fact behind its sensors.       *)

\* wait_for_silver_bikeman_action: the day before is in Silver.
Ready == silver.watermark >= today - 1

OnlyGold == UNCHANGED <<today, log, silver, mart, served, generator, deployed>>

\* trigger_risk_decision, with reset_dag_run: also when the run is at work.
GoldStart ==
    /\ gold.runs < MaxRuns
    /\ Ready
    /\ gold' = [task |-> "features", runs |-> gold.runs + 1]
    /\ UNCHANGED <<features, risk, decision, sync>> /\ OnlyGold

\* build_bike_features_daily: the bikes that were rented in the window.
BuildFeatures ==
    /\ gold.task = "features"
    /\ \E rented \in SUBSET Bikes \ {{}} : features' = rented
    /\ gold' = [gold EXCEPT !.task = "risk"]
    /\ UNCHANGED <<risk, decision, sync>> /\ OnlyGold

\* build_fact_bike_risk; bound: some bike is always left (500 of 45000).
BuildRisk ==
    /\ gold.task = "risk"
    /\ \E collected \in CollectedSets : \E rank \in Rankings(features \ collected) :
          /\ features \ collected # {}
          /\ risk' = [version |-> gold.runs, rank |-> rank]
    /\ gold' \in {gold, [gold EXCEPT !.task = "decision"]}  \* the check fails or not
    /\ UNCHANGED <<features, decision, sync>> /\ OnlyGold

\* build_fact_bike_decision: a bike that was rented has a location.
BuildDecision ==
    /\ gold.task = "decision"
    /\ decision' = DOMAIN risk.rank
    /\ gold' = [gold EXCEPT !.task = "trigger"]
    /\ UNCHANGED <<features, risk, sync>> /\ OnlyGold

\* Mutant: a run of gold_to_serving_sync that goes on is left alone.
TriggeredOnce(branch) == IF sync[branch] \in Resting THEN "build" ELSE sync[branch]
(* trigger_serving_sync with reset_dag_run: the run of this date starts      *)
(* again, also when it is at work.                                           *)
Triggered(branch) == "build"

TriggerSync ==
    /\ gold.task = "trigger"
    /\ sync' = [b \in Branches |-> Triggered(b)]
    /\ gold' = [gold EXCEPT !.task = "done"]
    /\ UNCHANGED <<features, risk, decision>> /\ OnlyGold

GoldGivesUp ==
    /\ gold.task \notin Resting
    /\ gold' = [gold EXCEPT !.task = "given up"]
    /\ UNCHANGED <<features, risk, decision, sync>> /\ OnlyGold

-----------------------------------------------------------------------------
(* gold_to_serving_sync: two branches that share nothing.                   *)

OnlySync == UNCHANGED <<today, log, silver, gold, features, risk, decision,
                        deployed>>

(* mart_bike_risk_daily keeps the bikes of the ranking that were decided    *)
(* about, and is left alone when there is no ranking; mart_station_daily    *)
(* counts the bikes of the ranking by station.                              *)
MartOf(branch) ==
    IF branch = "bike"
    THEN [risk EXCEPT !.rank = Restrict(@, decision \cap DOMAIN @)]
    ELSE risk

BuildMart(branch) ==
    /\ sync[branch] = "build"
    /\ mart' = [mart EXCEPT ![branch] = MartOf(branch)]
    /\ sync' = [sync EXCEPT ![branch] = "write"]
    /\ UNCHANGED <<served, generator>> /\ OnlySync

\* replace_partition deletes and inserts in one transaction.
Write(branch) ==
    /\ sync[branch] = "write"
    /\ served' = [served EXCEPT ![branch] = mart[branch]]
    /\ sync' \in {sync, [sync EXCEPT ![branch] = "verify"]}  \* the answer is lost or not
    /\ UNCHANGED <<mart, generator>> /\ OnlySync

(* verify_serving_sync compares row counts; behind it the bike branch       *)
(* starts the generator, each time in a run of its own.                     *)
Verify(branch) ==
    /\ sync[branch] = "verify"
    /\ Cardinality(DOMAIN mart[branch].rank) = Cardinality(DOMAIN served[branch].rank)
    /\ sync' = [sync EXCEPT ![branch] = "done"]
    /\ generator' = IF branch = "bike" THEN [generator EXCEPT !.waiting = @ + 1]
                    ELSE generator
    /\ UNCHANGED <<mart, served>> /\ OnlySync

SyncGivesUp(branch) ==
    /\ sync[branch] \notin Resting
    /\ sync' = [sync EXCEPT ![branch] = "given up"]
    /\ UNCHANGED <<mart, served, generator>> /\ OnlySync

-----------------------------------------------------------------------------
(* bikeman_event_generator: an event is inserted once for a bike, a type    *)
(* and a date.                                                              *)

OnlyGenerator == UNCHANGED <<today, silver, gold, features, risk, decision,
                             mart, served, sync>>

GeneratorStart ==
    /\ generator.task = "idle"
    /\ generator.waiting > 0
    /\ generator' = [task |-> "deploy", waiting |-> generator.waiting - 1]
    /\ UNCHANGED <<log, deployed>> /\ OnlyGenerator

\* Mutant: the bikes whose latest event is the COLLECT of two days ago.
DeployTargetsTwoBack ==
    {b \in Bikes : \E e \in Latest(log, b, today) :
        e.type = "COLLECT" /\ e.date = today - 2}
\* _FETCH_DEPLOY_TARGETS_SQL: a COLLECT wins over a DEPLOY of the same time.
DeployTargets ==
    {b \in Bikes : \E e \in Latest(log, b, today) :
        e.type = "COLLECT" /\ e.date = today - 1}

\* _FETCH_COLLECT_TARGETS_SQL: the head of the ranking that is served.
CollectTargets ==
    LET rank == served["bike"].rank
    IN {b \in DOMAIN rank : Cardinality({c \in DOMAIN rank : rank[c] < rank[b]}) < Limit}

Inserted(bikes, type) == {[bike |-> b, type |-> type, date |-> today] : b \in bikes}

DeployReturnedBikes ==
    /\ generator.task = "deploy"
    /\ log' = log \cup Inserted(DeployTargets, "DEPLOY")
    /\ deployed' = deployed \cup {today}
    /\ generator' \in {generator, [generator EXCEPT !.task = "collect"]}
    /\ OnlyGenerator

GenerateCollectEvents ==
    /\ generator.task = "collect"
    /\ log' = log \cup Inserted(CollectTargets, "COLLECT")
    /\ generator' \in {generator, [generator EXCEPT !.task = "idle"]}
    /\ UNCHANGED deployed /\ OnlyGenerator

GeneratorGivesUp ==
    /\ generator.task # "idle"
    /\ generator' = [generator EXCEPT !.task = "idle"]
    /\ UNCHANGED <<log, deployed>> /\ OnlyGenerator

-----------------------------------------------------------------------------
(* Bronze and Silver bring in the events of the days that have ended        *)
(* (BikemanPipeline).                                                       *)
SilverRun ==
    /\ silver' = [events |-> {e \in log : e.date < today}, watermark |-> today - 1]
    /\ UNCHANGED <<today, log, gold, features, risk, decision, mart, served,
                   sync, generator, deployed>>

Midnight ==
    /\ today < LastDay
    /\ gold.task \in Resting
    /\ \A b \in Branches : sync[b] \in Resting
    /\ generator.task = "idle" /\ generator.waiting = 0
    /\ today' = today + 1
    /\ gold' = [task |-> "idle", runs |-> 0]
    /\ features' = {} /\ risk' = NoRows /\ decision' = {}
    /\ mart' = [b \in Branches |-> NoRows]
    /\ served' = [b \in Branches |-> NoRows]
    /\ sync' = [b \in Branches |-> "idle"]
    /\ UNCHANGED <<log, silver, generator, deployed>>

-----------------------------------------------------------------------------
Gold == \/ GoldStart \/ BuildFeatures \/ BuildRisk \/ BuildDecision
        \/ TriggerSync \/ GoldGivesUp

Sync == \E b \in Branches : BuildMart(b) \/ Write(b) \/ Verify(b) \/ SyncGivesUp(b)

Generator == \/ GeneratorStart \/ DeployReturnedBikes \/ GenerateCollectEvents
             \/ GeneratorGivesUp

LoopNext == Gold \/ Sync \/ Generator \/ SilverRun \/ Midnight

LoopSpec == LoopInit /\ [][LoopNext]_loopVars

-----------------------------------------------------------------------------
(* Properties *)

(* A bike that is in the workshop is not collected again: between two        *)
(* COLLECT events of a bike lies a DEPLOY, also when days were given up in   *)
(* between and the chain of a day ran more than once                         *)
(* (build_fact_bike_risk.py: a bike in maintenance is not a candidate).      *)
NeverCollectedTwice ==
    \A first, second \in {e \in log : e.type = "COLLECT"} :
        first.bike = second.bike /\ first.date < second.date =>
            \E e \in log : /\ e.bike = first.bike
                           /\ e.type = "DEPLOY"
                           /\ first.date < e.date /\ e.date <= second.date

(* A bike that was collected is back the day after, if the generator ran on  *)
(* that day at all, whatever happened to the chains of the two days          *)
(* (deploy_returned_bikes.py).                                               *)
BackTheDayAfter ==
    \A e \in log :
        e.type = "COLLECT" /\ e.date + 1 \in deployed =>
            [bike |-> e.bike, type |-> "DEPLOY", date |-> e.date + 1] \in log

(* When gold_risk_decision has ended well and no task of the day is at work  *)
(* or was given up, both tables of the serving database come from the        *)
(* ranking that Gold holds, although the date may have been computed again   *)
(* while the first copy was on its way.                                      *)
QuietServingIsCurrent ==
    gold.task = "done" /\ (\A b \in Branches : sync[b] = "done") =>
        \A b \in Branches : served[b] = risk
=============================================================================
