----------------------------- MODULE MCWorkflows -----------------------------
(* The workflows that share no state, checked in one run: the initial       *)
(* state chooses one of them, the others stay as they are.                  *)
EXTENDS InitialLoad, DailyLoop, RiskTraining, GoldState, ConfirmCollection,
        SilverRebuild

VARIABLE workflow

(* initial_load: one file too large for any company, two that fit together. *)
MCFileList == <<"jan", "feb", "mar">>
MCSafeName == [f \in {"jan", "feb", "mar"} |-> <<"input", f>>]
MCSize == [f \in {"jan", "feb", "mar"} |-> IF f = "feb" THEN 2 ELSE 1]
MCDatesOf == [f \in {"jan", "feb", "mar"} |->
                 IF f = "jan" THEN {1, 2} ELSE IF f = "feb" THEN {3} ELSE {4}]
OneOther == [f \in {"jan", "feb", "mar"} |-> IF f = "jan" THEN "other" ELSE "data"]
OneBad == [f \in {"jan", "feb", "mar"} |-> IF f = "mar" THEN "bad" ELSE "data"]
MCKinds == {OneOther, OneBad}

(* gold_dim_fact: "x" is rented on two days and comes back twice around     *)
(* noon of the second, with a field action before and one after; "y" is     *)
(* always rented.  The rides of "x" may happen or not.                      *)
MCRides == {[bike |-> "x", at |-> 4], [bike |-> "x", at |-> 5], [bike |-> "y", at |-> 3]}
MCActions == {[bike |-> "x", at |-> 3, type |-> "COLLECT"],
              [bike |-> "x", at |-> 6, type |-> "DEPLOY"]}

\* What the other workflows start with when it is not their turn.
NothingToLoad ==
    source = "rental_history" /\ kind = OneOther /\ legacy = {"feb"}
NothingToRebuild == passed = 0 /\ ~ Exists("silver")
NothingHappens == rides = {} /\ actions = {}
EnoughHappens == (\E r \in rides : r.bike = "y") /\ actions = Actions

WorkflowsInit ==
    /\ workflow \in {"initial_load", "loop", "training", "gold", "confirm", "rebuild"}
    /\ Init /\ LoopInit /\ TrainInit /\ GoldInit /\ ConfirmInit /\ RebuildInit
    /\ workflow # "initial_load" => NothingToLoad
    /\ workflow # "rebuild" => NothingToRebuild
    /\ IF workflow = "gold" THEN EnoughHappens ELSE NothingHappens

WorkflowsNext ==
    /\ \/ /\ workflow = "initial_load" /\ Next
          /\ UNCHANGED <<loopVars, trainVars, goldVars, confirmVars, rebuildVars>>
       \/ /\ workflow = "loop" /\ LoopNext
          /\ UNCHANGED <<vars, trainVars, goldVars, confirmVars, rebuildVars>>
       \/ /\ workflow = "training" /\ TrainNext
          /\ UNCHANGED <<vars, loopVars, goldVars, confirmVars, rebuildVars>>
       \/ /\ workflow = "gold" /\ GoldNext
          /\ UNCHANGED <<vars, loopVars, trainVars, confirmVars, rebuildVars>>
       \/ /\ workflow = "confirm" /\ ConfirmNext
          /\ UNCHANGED <<vars, loopVars, trainVars, goldVars, rebuildVars>>
       \/ /\ workflow = "rebuild" /\ RebuildNext
          /\ UNCHANGED <<vars, loopVars, trainVars, goldVars, confirmVars>>
    /\ UNCHANGED workflow

WorkflowsSpec ==
    /\ WorkflowsInit
    /\ [][WorkflowsNext]_<<workflow, vars, loopVars, trainVars, goldVars,
                          confirmVars, rebuildVars>>
=============================================================================
