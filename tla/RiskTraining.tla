----------------------------- MODULE RiskTraining -----------------------------
(***************************************************************************)
(* risk_model_train, which an operator starts: anchors are planned from    *)
(* the dates Silver holds, a Spark job on EMR Serverless writes samples    *)
(* and labels by anchor, a model is trained, judged on the holdout days,   *)
(* and saved, and becomes the champion when it passes a gate.  The daily   *)
(* scoring loads the file the champion points to.  A job that is given up  *)
(* goes on, and the samples of earlier plans stay where they are.          *)
(* A model is the anchors it was trained and judged on, and a score.       *)
(***************************************************************************)
EXTENDS Integers, FiniteSets, Sequences, Functions

CONSTANTS
    Window,         \* window_days: days of rentals a sample looks back at
    Horizon,        \* horizon_days: days of reports that make its label
    HoldoutDays,    \* holdout_days
    Step,           \* anchor_step_days
    Rollings,       \* days of training anchors an operator may ask for
    MinAnchors,     \* quality.min_anchors
    MaxDrop,        \* gate.max_drop_pp
    Scores,         \* bound: capture_at_k
    FirstEnd,       \* bound: the first label_ready_max
    LastEnd,        \* bound: the last one
    MaxTrainings    \* bound: runs of the DAG

ASSUME TrainingConstants ==
    /\ {Window, Horizon, HoldoutDays, Step, FirstEnd, MaxTrainings} \subseteq Nat \ {0}
    /\ Rollings \subseteq Nat /\ Scores \subseteq Nat
    /\ {MinAnchors, MaxDrop} \subseteq Nat
    /\ LastEnd \in Nat /\ FirstEnd <= LastEnd

VARIABLES
    silverDays,     \* the last date with reports, the last with rentals
    training,       \* the run: its task, what was asked, its number
    plan,           \* the result of resolve_anchors
    sparkRuns,           \* JobRuns that EMR Serverless still executes
    samples,        \* by anchor type: anchor -> days its label comes from
    candidate,      \* train_and_evaluate: the model in memory, its gate
    artifacts,      \* model.joblib by run_key
    registry        \* registry.json: champion, history

trainVars == <<silverDays, training, plan, sparkRuns, samples, candidate,
               artifacts, registry>>

NoModel == [key |-> 0]
Parts == <<"train", "holdout", "pos_new">>
Over == {"none", "reported", "failed"}

-----------------------------------------------------------------------------
(* Days *)

\* build_usage_features, build_positives
UsageDays(anchor) == anchor - Window .. anchor - 1
LabelDays(anchor) == anchor .. anchor + Horizon - 1

\* detect_label_ready_max
LabelReadyMax ==
    LET reports == silverDays.fault - Horizon
    IN IF silverDays.rent < reports THEN silverDays.rent ELSE reports

\* resolve_anchors
Plan(end, rolling) ==
    LET holdoutStart == end - (HoldoutDays - 1)
        trainEnd == holdoutStart - Horizon
    IN [key |-> end,
        train |-> {a \in trainEnd - rolling .. trainEnd : (trainEnd - a) % Step = 0},
        holdout |-> holdoutStart .. end]

AnchorsOf(p, part) == IF part = "train" THEN p.train ELSE p.holdout

\* Only a bike that was rented in the window makes a sample.
HasRows(anchor) == UsageDays(anchor) \cap 1 .. silverDays.rent # {}

\* The reports of the last date may still be coming in.
Label(anchor) == {d \in LabelDays(anchor) : d < silverDays.fault}

-----------------------------------------------------------------------------
TrainInit ==
    /\ silverDays = [fault |-> FirstEnd + Horizon, rent |-> FirstEnd]
    /\ training = [task |-> "none", end |-> 0, rolling |-> 0, skip |-> FALSE,
                   dry |-> FALSE, number |-> 0]
    /\ plan = NoModel
    /\ sparkRuns = {}
    /\ samples = [part \in {"train", "holdout", "pos_new"} |-> <<>>]
    /\ candidate = NoModel
    /\ artifacts = [key \in FirstEnd .. LastEnd |-> NoModel]
    /\ registry = [champion |-> NoModel, history |-> {}]

Goes(task) == training' = [training EXCEPT !.task = task]

\* Silver takes in another day, or another day of reports first.
SilverGrows ==
    /\ \/ silverDays.fault < LastEnd + Horizon
          /\ silverDays' = [silverDays EXCEPT !.fault = @ + 1]
       \/ silverDays.rent < LastEnd
          /\ silverDays' = [silverDays EXCEPT !.rent = @ + 1]
    /\ UNCHANGED <<training, plan, sparkRuns, samples, candidate, artifacts, registry>>

\* The operator leaves as_of_end empty (0) or names a date.
Trigger ==
    /\ training.task \in Over
    /\ training.number < MaxTrainings
    /\ \E end \in {0} \cup FirstEnd .. LastEnd, rolling \in Rollings,
          skip, dry \in BOOLEAN :
          training' = [task |-> "anchors", end |-> end, rolling |-> rolling,
                       skip |-> skip, dry |-> dry, number |-> training.number + 1]
    /\ plan' = NoModel /\ candidate' = NoModel
    /\ UNCHANGED <<silverDays, sparkRuns, samples, artifacts, registry>>

\* A task that has used up its retries.
TrainingFails ==
    /\ training.task \notin Over
    /\ Goes("failed")
    /\ UNCHANGED <<silverDays, plan, sparkRuns, samples, candidate, artifacts, registry>>

\* resolve_anchors and validate_inputs
ResolveAnchors ==
    /\ training.task = "anchors"
    /\ LET end == IF training.end = 0 THEN LabelReadyMax ELSE training.end IN
       /\ end <= LabelReadyMax
       /\ plan' = Plan(end, training.rolling)
    /\ Goes("samples")
    /\ UNCHANGED <<silverDays, sparkRuns, samples, candidate, artifacts, registry>>

-----------------------------------------------------------------------------
(* build_train_samples: submits a JobRun and polls it; no retry.            *)

SubmitSamples ==
    /\ training.task = "samples"
    /\ sparkRuns' = sparkRuns \cup {[number |-> training.number, plan |-> plan, part |-> 1]}
    /\ Goes("polling")
    /\ UNCHANGED <<silverDays, plan, samples, candidate, artifacts, registry>>

(* write_samples overwrites the partitions of its anchors: Spark is set to   *)
(* dynamic partition overwrite.                                              *)
Overwritten(old, anchors) ==
    LET written == {a \in anchors : HasRows(a)}
    IN [a \in DOMAIN old \cup written |-> IF a \in written THEN Label(a) ELSE old[a]]

WritePart(job) ==
    /\ job.part <= Len(Parts)
    /\ LET part == Parts[job.part] IN
       samples' = [samples EXCEPT ![part] = Overwritten(@, AnchorsOf(job.plan, part))]
    /\ sparkRuns' = (sparkRuns \ {job}) \cup {[job EXCEPT !.part = @ + 1]}
    /\ UNCHANGED <<silverDays, training, plan, candidate, artifacts, registry>>

SparkDies(job) ==
    /\ sparkRuns' = sparkRuns \ {job}
    /\ UNCHANGED <<silverDays, training, plan, samples, candidate, artifacts, registry>>

SamplesDone(job) ==
    /\ training.task = "polling"
    /\ job.number = training.number
    /\ job.part > Len(Parts)
    /\ sparkRuns' = sparkRuns \ {job}
    /\ Goes("assert")
    /\ UNCHANGED <<silverDays, plan, samples, candidate, artifacts, registry>>

-----------------------------------------------------------------------------
(* assert_train_table and train_and_evaluate, which is tried twice.         *)

\* Mutant: whatever lies under the anchor type.
LoadEverySample(part, anchors) == samples[part]
\* load_samples reads the partitions of the plan.
LoadSamples(part, anchors) ==
    Restrict(samples[part], anchors \cap DOMAIN samples[part])

AssertTrainTable ==
    /\ training.task = "assert"
    /\ Cardinality(DOMAIN LoadSamples("train", plan.train)) >= MinAnchors
    /\ Goes("train")
    /\ UNCHANGED <<silverDays, plan, sparkRuns, samples, candidate, artifacts, registry>>

Train ==
    /\ training.task = "train"
    /\ candidate' = [key |-> plan.key, plan |-> plan,
                     trained |-> LoadSamples("train", plan.train)]
    /\ Goes("evaluate")
    /\ UNCHANGED <<silverDays, plan, sparkRuns, samples, artifacts, registry>>

\* walk_forward passes over a day without a label_pos_new.
Judged == Restrict(LoadSamples("holdout", plan.holdout),
                   plan.holdout \cap DOMAIN samples["holdout"] \cap DOMAIN samples["pos_new"])

\* apply_gate; the champion is whatever the registry says by now.
Passed(score) ==
    \/ registry.champion = NoModel
    \/ score >= registry.champion.score - MaxDrop

(* Silver revises a month of reports, so that the same plan need not give    *)
(* the same score again.                                                     *)
Evaluate ==
    /\ training.task = "evaluate"
    /\ DOMAIN Judged # {}
    /\ \E score \in Scores :
          candidate' = [key |-> candidate.key, plan |-> candidate.plan,
                        trained |-> candidate.trained, tested |-> Judged,
                        score |-> score, passed |-> Passed(score) \/ training.skip]
    /\ Goes(IF training.dry THEN "reported" ELSE "save")
    /\ UNCHANGED <<silverDays, plan, sparkRuns, samples, artifacts, registry>>

\* save_run puts model.joblib under the run_key, whatever the gate said.
SaveRun ==
    /\ training.task = "save"
    /\ artifacts' = [artifacts EXCEPT ![candidate.key] = candidate]
    /\ Goes("promote")
    /\ UNCHANGED <<silverDays, plan, sparkRuns, samples, candidate, registry>>

Promote ==
    /\ training.task = "promote"
    /\ registry' = [champion |-> IF candidate.passed THEN candidate ELSE registry.champion,
                    history |-> registry.history \cup {candidate.key}]
    /\ Goes("reported")
    /\ UNCHANGED <<silverDays, plan, sparkRuns, samples, candidate, artifacts>>

\* The second try of the task trains and judges anew.
TrainAgain ==
    /\ training.task \in {"evaluate", "save", "promote"}
    /\ Goes("train")
    /\ candidate' = NoModel
    /\ UNCHANGED <<silverDays, plan, sparkRuns, samples, artifacts, registry>>

-----------------------------------------------------------------------------
Prepare == Trigger \/ ResolveAnchors \/ SubmitSamples \/ TrainingFails

Spark == \E job \in sparkRuns : WritePart(job) \/ SparkDies(job) \/ SamplesDone(job)

TrainAndEvaluate == \/ AssertTrainTable \/ Train \/ Evaluate
                    \/ SaveRun \/ Promote \/ TrainAgain

TrainNext == SilverGrows \/ Prepare \/ Spark \/ TrainAndEvaluate

TrainSpec == TrainInit /\ [][TrainNext]_trainVars

-----------------------------------------------------------------------------
(* Properties *)

(* Every stored model was trained on the anchors of its own plan and judged  *)
(* on its holdout days, all of them, with labels that were fully observed;   *)
(* and no day that made a training label is a day it was judged on or lies   *)
(* behind one.  This also when a JobRun of another plan was still writing    *)
(* samples at that time, and with the samples of earlier plans in place      *)
(* (samples.py: gap against overlapping label windows).                      *)
EvaluatedHonestly ==
    \A key \in DOMAIN artifacts : artifacts[key] # NoModel =>
        LET model == artifacts[key] IN
        /\ DOMAIN model.trained = {a \in model.plan.train : HasRows(a)}
        /\ DOMAIN model.tested = model.plan.holdout
        /\ \A a \in DOMAIN model.trained : model.trained[a] = LabelDays(a)
        /\ \A a \in DOMAIN model.tested : model.tested[a] = LabelDays(a)
        /\ \A a \in DOMAIN model.trained, day \in DOMAIN model.tested :
              \A d \in model.trained[a] : d < day

(* A model that did not pass its gate leaves the champion as it was: the     *)
(* file that the scoring loads is still the model that was promoted          *)
(* (risk_model_train_dag.py: "HELD (champion 유지)").                         *)
HeldKeepsChampion ==
    training.task = "reported" /\ ~candidate.passed /\ registry.champion # NoModel =>
        artifacts[registry.champion.key] = registry.champion
=============================================================================
