------------------------------ MODULE InitialLoad ------------------------------
(***************************************************************************)
(* The file half of the initial_load DAG on AWS, for one of its two        *)
(* sources: download and unpack into the local directory, stage in S3      *)
(* under an ASCII name, cut into batches, load each batch with one EMR     *)
(* JobRun, and only then let the watermark tasks run (RentalSilver goes on *)
(* from there).  The sources share the jobs and differ in how a list is    *)
(* cut.  A task that gives up its JobRun does not cancel it: the JobRun    *)
(* goes on next to the one that the retry starts.                          *)
(***************************************************************************)
EXTENDS Integers, FiniteSets, Sequences, SequencesExt

CONSTANTS
    Sources,        \* the sources whose branch is explored
    FileList,       \* the files of the portal that match *_pattern, sorted
    SafeName,       \* the staging name of a file
    Size, DatesOf,  \* its bytes, and the dates of its rows
    Kinds,          \* what the files may turn out to be: data, other, bad
    Legacies,       \* which files may have been uploaded by an older version
    StagingSize,    \* *_staging_batch_size
    BatchFiles,     \* *_emr_batch_size
    BatchBytes,     \* *_emr_batch_max_bytes
    Tries           \* 1 + retries of a task

Files == Range(FileList)
Names == {SafeName[f] : f \in Files}
Dates == UNION {DatesOf[f] : f \in Files}

(* Two names that differ only in their non-ASCII letters get one key, and   *)
(* the rows of a date replace those another file brought for it: the        *)
(* pipeline counts on neither happening.                                    *)
ASSUME LoadConstants ==
    /\ FileList \in Seq(Files)
    /\ \A f, g \in Files : f # g => SafeName[f] # SafeName[g]
    /\ \A f, g \in Files : f # g => DatesOf[f] \cap DatesOf[g] = {}
    /\ Kinds \subseteq [Files -> {"data", "other", "bad"}]
    /\ Legacies \subseteq SUBSET Files
    /\ Sources \subseteq {"rental_history", "failure_report"}
    /\ {StagingSize, BatchFiles, BatchBytes, Tries} \subseteq Nat \ {0}

VARIABLES
    source, kind,    \* the source; what each file is
    local,           \* what the local directory holds under a file's name
    staged,          \* S3: what a staging name holds
    legacy,          \* files uploaded under their own name before #247
    pc,              \* the stage the DAG has reached
    staging,         \* by staging batch: state, next file, tries
    batches,         \* the EMR batches: sequences of staging names
    tasks,           \* by EMR batch: state and number of JobRuns
    jobs,            \* by EMR batch and try: state, next file, a failed file
    bronze           \* by date: what its rows come from

vars == <<source, kind, local, staged, legacy, pc, staging, batches, tasks,
          jobs, bronze>>

(* Bytes of a file, all of them or what a broken transfer left.             *)
Contents == [file : Files, whole : BOOLEAN]
None == [file |-> "none"]

Init ==
    /\ source \in Sources
    /\ kind \in Kinds
    /\ local = [f \in Files |-> None]
    /\ staged = [n \in Names |-> None]
    /\ legacy \in Legacies
    /\ pc = "list"
    /\ staging = <<>> /\ batches = <<>> /\ tasks = <<>> /\ jobs = <<>>
    /\ bronze = [d \in Dates |-> None]

-----------------------------------------------------------------------------
(* list_input_files: a file that is there already is not fetched again.     *)

OnlyLocal == UNCHANGED <<source, kind, staged, legacy, pc, staging, batches,
                         tasks, jobs, bronze>>

Download(f) ==
    /\ pc = "list"
    /\ local[f] = None
    /\ local' = [local EXCEPT ![f] = [file |-> f, whole |-> TRUE]]
    /\ OnlyLocal

\* Mutant: the bytes go straight to the file's own name.
LeavesTorn(f) == [file |-> f, whole |-> FALSE]
(* The bytes go to a .part file that takes the file's name when it is       *)
(* complete; the next attempt removes what is left of it.                   *)
Leaves(f) == None

DownloadBreaks(f) ==
    /\ pc = "list"
    /\ local[f] = None
    /\ local' = [local EXCEPT ![f] = Leaves(f)]
    /\ OnlyLocal

(* chunk_list: runs of n items, the last with what is left.                 *)
ChunkList(items, n) ==
    [i \in 1 .. (Len(items) + n - 1) \div n |->
        SubSeq(items, (i - 1) * n + 1, Min({i * n, Len(items)}))]

Listed ==
    /\ pc = "list"
    /\ \A f \in Files : local[f] # None
    /\ pc' = "stage"
    /\ staging' = [b \in DOMAIN ChunkList(FileList, StagingSize) |->
                      [state |-> "todo", at |-> 1, tries |-> 0]]
    /\ UNCHANGED <<source, kind, local, staged, legacy, batches, tasks, jobs,
                   bronze>>

-----------------------------------------------------------------------------
(* stage_initial_load_files, one task for each staging batch.               *)

StagingBatch(b) == ChunkList(FileList, StagingSize)[b]
OnlyStaging == UNCHANGED <<source, kind, local, legacy, pc, batches, tasks,
                           jobs, bronze>>

StageBegin(b) ==
    /\ pc = "stage"
    /\ staging[b].state = "todo"
    /\ staging' = [staging EXCEPT ![b].state = "running", ![b].at = 1,
                                  ![b].tries = @ + 1]
    /\ UNCHANGED staged /\ OnlyStaging

(* reuse_or_upload_staging_file: a free key takes the object uploaded under *)
(* the old name; otherwise the local file is put unless the object equals   *)
(* it.  The portal's files are final, so the old object is the same file.   *)
Uploaded(f) ==
    IF staged[SafeName[f]] = None /\ f \in legacy
    THEN [file |-> f, whole |-> TRUE] ELSE local[f]

StageFile(b) ==
    /\ pc = "stage"
    /\ staging[b].state = "running"
    /\ LET f == StagingBatch(b)[staging[b].at] IN
       staged' = [staged EXCEPT ![SafeName[f]] = Uploaded(f)]
    /\ staging' = [staging EXCEPT
                      ![b].at = @ + 1,
                      ![b].state = IF staging[b].at = Len(StagingBatch(b))
                                   THEN "done" ELSE "running"]
    /\ OnlyStaging

StageFails(b) ==
    /\ pc = "stage"
    /\ staging[b].state = "running"
    /\ staging' = [staging EXCEPT
                      ![b].state = IF staging[b].tries < Tries THEN "todo"
                                   ELSE "failed"]
    /\ UNCHANGED staged /\ OnlyStaging

(* The URIs of the batches, one after the other.                            *)
Uris == [i \in DOMAIN FileList |-> SafeName[FileList[i]]]

SizeOf(uri) == Size[staged[uri].file]
Bytes(batch) == FoldLeft(LAMBDA sum, uri : sum + SizeOf(uri), 0, batch)

IsFull(batch, uri) ==
    /\ batch # <<>>
    /\ Len(batch) >= BatchFiles \/ Bytes(batch) + SizeOf(uri) > BatchBytes

(* chunk_files_by_size: the batch that is being filled is the last one.     *)
Packed(done, uri) ==
    IF IsFull(Last(done), uri) THEN Append(done, <<uri>>)
    ELSE [done EXCEPT ![Len(done)] = Append(@, uri)]

ChunkFilesBySize(uris) == FoldLeft(Packed, << <<>> >>, uris)

Batches == IF source = "rental_history" THEN ChunkFilesBySize(Uris)
           ELSE ChunkList(Uris, BatchFiles)

Staged ==
    /\ pc = "stage"
    /\ \A b \in DOMAIN staging : staging[b].state = "done"
    /\ pc' = "load"
    /\ batches' = Batches
    /\ tasks' = [b \in DOMAIN batches' |-> [state |-> "todo", runs |-> 0]]
    /\ jobs' = [b \in DOMAIN batches' |-> <<>>]
    /\ staging' = <<>>
    /\ UNCHANGED <<source, kind, local, staged, legacy, bronze>>

-----------------------------------------------------------------------------
(* run_emr_serverless_spark_job submits a JobRun and polls it.              *)

OnlyTasks == UNCHANGED <<source, kind, local, staged, legacy, pc, staging,
                         batches, bronze>>

Submit(b) ==
    /\ pc = "load"
    /\ tasks[b].state = "todo"
    /\ tasks' = [tasks EXCEPT ![b].state = "polling", ![b].runs = @ + 1]
    /\ jobs' = [jobs EXCEPT ![b] =
                  Append(@, [state |-> "RUNNING", at |-> 1, failed |-> FALSE])]
    /\ OnlyTasks

RetryOrFail(b) == IF tasks[b].runs < Tries THEN "todo" ELSE "failed"

\* Mutant: any terminal state ends the task well.
PolledTerminal(b, state) == IF state = "RUNNING" THEN "polling" ELSE "done"
Polled(b, state) == IF state = "SUCCESS" THEN "done"
                    ELSE IF state = "FAILED" THEN RetryOrFail(b) ELSE "polling"

Poll(b) ==
    /\ pc = "load"
    /\ tasks[b].state = "polling"
    /\ LET state == Last(jobs[b]).state IN
       /\ state # "RUNNING"
       /\ tasks' = [tasks EXCEPT ![b].state = Polled(b, state)]
    /\ UNCHANGED jobs /\ OnlyTasks

(* The deadline of the poll or of the task, or a dead worker: the JobRun is *)
(* left to itself.                                                          *)
PollGivesUp(b) ==
    /\ pc = "load"
    /\ tasks[b].state = "polling"
    /\ tasks' = [tasks EXCEPT ![b].state = RetryOrFail(b)]
    /\ UNCHANGED jobs /\ OnlyTasks

OnlyJobs == UNCHANGED <<source, kind, local, staged, legacy, pc, staging,
                        batches, tasks>>

(* initial_load_*.py reads the next object of its batch: another data set   *)
(* is passed over, a file that fails its checks is passed over and fails    *)
(* the JobRun in the end, any other replaces the partitions of its dates.   *)
Loaded(content) ==
    [d \in Dates |-> IF d \in DatesOf[content.file] THEN content ELSE bronze[d]]

JobFile(b, t) ==
    /\ jobs[b][t].state = "RUNNING"
    /\ jobs[b][t].at <= Len(batches[b])
    /\ LET content == staged[batches[b][jobs[b][t].at]] IN
       /\ bronze' = IF kind[content.file] = "data" THEN Loaded(content) ELSE bronze
       /\ jobs' = [jobs EXCEPT
                     ![b][t].at = @ + 1,
                     ![b][t].failed = @ \/ kind[content.file] = "bad"]
    /\ OnlyJobs

Ended(state) == [state |-> state, at |-> 1, failed |-> FALSE]

JobEnds(b, t) ==
    /\ jobs[b][t].state = "RUNNING"
    /\ jobs[b][t].at > Len(batches[b])
    /\ jobs' = [jobs EXCEPT ![b][t] = IF jobs[b][t].failed THEN Ended("FAILED")
                                      ELSE Ended("SUCCESS")]
    /\ UNCHANGED bronze /\ OnlyJobs

(* Lost capacity, a rejected commit, a cancelled run.                       *)
JobDies(b, t) ==
    /\ jobs[b][t].state = "RUNNING"
    /\ jobs' = [jobs EXCEPT ![b][t] = Ended("FAILED")]
    /\ UNCHANGED bronze /\ OnlyJobs

(* The watermark tasks follow the load by all_success.                      *)
SetWatermark ==
    /\ pc = "load"
    /\ \A b \in DOMAIN tasks : tasks[b].state = "done"
    /\ pc' = "watermark"
    /\ UNCHANGED <<source, kind, local, staged, legacy, staging, batches,
                   tasks, jobs, bronze>>

-----------------------------------------------------------------------------
Listing == \/ \E f \in Files : Download(f) \/ DownloadBreaks(f)
           \/ Listed

Staging == \/ \E b \in DOMAIN staging : StageBegin(b) \/ StageFile(b) \/ StageFails(b)
           \/ Staged

Loading ==
    \/ \E b \in DOMAIN tasks : Submit(b) \/ Poll(b) \/ PollGivesUp(b)
    \/ \E b \in DOMAIN jobs : \E t \in DOMAIN jobs[b] :
          JobFile(b, t) \/ JobEnds(b, t) \/ JobDies(b, t)
    \/ SetWatermark

RentalHistory == source = "rental_history" /\ (Listing \/ Staging \/ Loading)
FailureReport == source = "failure_report" /\ (Listing \/ Staging \/ Loading)

Next == RentalHistory \/ FailureReport

Spec == Init /\ [][Next]_vars

-----------------------------------------------------------------------------
(* Properties *)

(* The watermark of the source is written only when every date of every     *)
(* file of the data set is in Bronze with all its rows, whatever downloads  *)
(* broke, batches were cut and JobRuns were left behind or run twice        *)
(* (initial_load_dag.py: a watermark after a partial load loses data).      *)
WatermarkMeansLoaded ==
    pc = "watermark" =>
        \A f \in Files : \A d \in DatesOf[f] :
            kind[f] = "data" => bronze[d] = [file |-> f, whole |-> TRUE]
=============================================================================
