-------------------------- MODULE RentalBronzeLive --------------------------
(***************************************************************************)
(* Liveness of RentalBronze.  The horizon ends at LastDay but the schedule *)
(* does not: once today = LastDay the daily and the catch-up DAG go on     *)
(* firing, on the dates of the horizon (the mornings after LastDay; the    *)
(* dates they add lie beyond it and, the API being healthy, fail nobody).  *)
(* Faults of every kind may happen before LastDay and stop then, so the    *)
(* healthy phase begins in any state faults can lead to.                   *)
(***************************************************************************)
EXTENDS RentalBronze

(* The steps of a DagRun in which every collection brings data and no task  *)
(* dies, gives up or is cleared.  A selection still fails when the catch-up *)
(* moved the watermark, and with it the window, since the collection.       *)
DailyStep ==
    \/ DailyStart
    \/ \E d \in Dates : DailyCollect(d, "COMPLETE")
    \/ DailyCollectEnds /\ daily.todo = {}
    \/ DailySelect \/ DailyPromote \/ DailyMark
    \/ daily.pc = "select" /\ Missing(raw, wm, daily.run) # {} /\ DailyFail
    \/ DailyReadWatermark \/ DailyWriteWatermark \/ DailyPublish

CatchupStep ==
    \/ CatchupStart
    \/ \E d \in Dates : CatchupPrepare(d, "COMPLETE")
    \/ CatchupBatches \/ CatchupBatchStart \/ CatchupCommit
    \/ \E d \in Dates : CatchupDoc(d) \/ CatchupMarker(d)
    \/ CatchupPromotionEnds /\ catchup.pc = "docs" /\ catchup.left = {}
    \/ CatchupBatchEnds /\ catchup.left = {} /\ catchup'.ready # catchup.ready
    \/ CatchupBatchesDone
    \/ CatchupReadWatermark \/ CatchupWriteWatermark \/ CatchupEnds

SilverStep == SilverStart \/ SilverWriteWatermark

TomorrowDaily == today = LastDay /\ daily.run = today /\ DailyClear
TomorrowCatchup == today = LastDay /\ catchup.run = today /\ CatchupBegin

LiveNext ==
    \/ today < LastDay /\ Next
    \/ DailyStep \/ CatchupStep \/ SilverStep
    \/ TomorrowDaily \/ TomorrowCatchup

(* The scheduler starts every due DagRun and every task whose upstreams    *)
(* are done, and a task that does not fail runs to its end.                *)
Fairness ==
    /\ WF_vars(Midnight)
    /\ WF_vars(DailyStep)
    /\ WF_vars(CatchupStep)
    /\ WF_vars(SilverStep)
    /\ WF_vars(TomorrowDaily)
    /\ WF_vars(TomorrowCatchup)

LiveSpec == Init /\ [][LiveNext]_vars /\ Fairness

(* Whatever went wrong before, the backlog is worked off once the API is   *)
(* healthy: the Bronze watermark reaches yesterday and stays there         *)
(* (bronze_daily_batch_all_sources_dag.py:25-29).                          *)
BronzeCatchesUp == <>[](wm = LastDay - 1)

(* A lost asset event does not strand Silver: it follows in the end.       *)
SilverFollows == <>[](silverWm = LastDay - 1)
=============================================================================
