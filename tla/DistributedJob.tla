--------------------------- MODULE DistributedJob ---------------------------
(***************************************************************************)
(* One distributed query from Scheduler::execute to its answer, for        *)
(* several queries sharing the same executors:                             *)
(*                                                                         *)
(*  - the scheduler (fdapquery-distributed): a loop over the stages of the *)
(*    plan, which awaits one Flight call at a time;                        *)
(*  - the executors (fdapquery-flight-server): one handler per call, which *)
(*    writes shuffle files or reads them, and replies;                     *)
(*  - the shuffle directories, which survive the executors;                *)
(*  - the network and the operator: a broken connection, an executor that  *)
(*    dies and comes back, shuffle data that is cleaned up.                *)
(*                                                                         *)
(* A row of the partial aggregate is one group with its partial state, so  *)
(* a batch is a set of groups and an answer counts, for each group, how    *)
(* many partial states were merged into it.                                *)
(***************************************************************************)
EXTENDS Integers, FiniteSets, Sequences

CONSTANTS
  Jobs,               \* the calls of Scheduler::execute
  Groups,             \* the groups an aggregate may find in its input
  Hash,               \* the hash of a group's key
  Queries,            \* the queries the callers may submit
  NumExecutors,       \* the executors of the cluster
  ServerId,           \* the executor_id each server was started with
  Ids,                \* the executor ids there are
  ShuffleDir,         \* the directory each server's ShuffleManager uses
  Dirs,               \* the directories there are
  DefaultPartitions,  \* DistributedConfig.default_partitions
  MaxCrashes, MaxResets, MaxCleanups  \* bounds on the faults of a run

Executors == 1..NumExecutors
Shapes    == {"aggregate", "other"}

\* How many executors the DistributedConfig of a scheduler lists: all of
\* them, or none.  Without default_partitions that length is the number of
\* tasks, and all configurations here list the same.
Lists == IF DefaultPartitions > 0 THEN {0, NumExecutors} ELSE {NumExecutors}

\* A query as the planner, the serializer and the scheduler see it: is the
\* root of its physical plan an AggregateExec, what does its input hold, has
\* every operator and expression in it an encoding, and how many executors
\* does its scheduler know.
Query == [shape: Shapes, groups: SUBSET Groups, encodable: BOOLEAN, executors: Lists]

ASSUME GroupsAssumption    == IsFiniteSet(Groups) /\ Hash \in [Groups -> Nat]
ASSUME QueriesAssumption   == Queries \subseteq Query /\ Queries # {}
ASSUME ExecutorsAssumption ==
  /\ NumExecutors \in Nat
  /\ ServerId \in [Executors -> Ids]
  /\ ShuffleDir \in [Executors -> Dirs]
ASSUME PartitionsAssumption == DefaultPartitions \in Nat
ASSUME BoundsAssumption ==
  MaxCrashes \in Nat /\ MaxResets \in Nat /\ MaxCleanups \in Nat
-----------------------------------------------------------------------------
(***************************************************************************)
(* The plan of a query.                                                    *)
(***************************************************************************)
TaskCount == IF DefaultPartitions > 0 THEN DefaultPartitions ELSE NumExecutors

Partitions   == 0..(TaskCount - 1)
StageIds     == {0, 1}
ShuffleStage == 0

\* Mutant: the hash is reduced by the wrong number of partitions.
BucketOffByOne(gs, p) == {g \in gs : Hash[g] % (TaskCount + 1) = p}

\* The rows of a batch whose key hashes to partition p.
Bucket(gs, p) == {g \in gs : Hash[g] % TaskCount = p}

\* The stages of a plan in stage order: an aggregate at the root is split
\* in two, everything else runs as one final stage.
Stages(shape) ==
  IF shape = "aggregate"
  THEN << [id |-> ShuffleStage, deps |-> {}, tasks |-> TaskCount, final |-> FALSE],
          [id |-> 1, deps |-> {ShuffleStage}, tasks |-> 1, final |-> TRUE] >>
  ELSE << [id |-> 0, deps |-> {}, tasks |-> 1, final |-> TRUE] >>

\* Tasks go round-robin over the configured executors.
ExecutorOf(task) == (task % NumExecutors) + 1

\* One entry of a list of shuffle locations.  The code keeps the entries in
\* a Vec that may hold the same location twice; "task" tells the entries of
\* different tasks apart, so that a set of entries keeps the multiplicity.
Location == [job: Jobs, stage: StageIds, part: Partitions, executor: Ids, task: Partitions]

Path == [job: Jobs, stage: StageIds, part: Partitions]

\* Mutant: the path of a shuffle file leaves the job's uuid out.
PartitionFileOfAnyJob(j, s, p) == [job |-> CHOOSE k \in Jobs : TRUE, stage |-> s, part |-> p]

PartitionFile(j, s, p) == [job |-> j, stage |-> s, part |-> p]

FileOf(loc) == PartitionFile(loc.job, loc.stage, loc.part)

File   == [state: {"absent", "torn", "whole"}, groups: SUBSET Groups]
NoFile == [state |-> "absent", groups |-> {}]

Rows     == [Groups -> Nat]
NoRows   == [g \in Groups |-> 0]
OneEach(gs) == [g \in Groups |-> IF g \in gs THEN 1 ELSE 0]

Call   == [state: {"none", "waiting", "ok", "err"}, stage: StageIds, task: Nat,
           exec: Nat, locs: SUBSET Location, rows: Rows]
NoCall == [state |-> "none", stage |-> 0, task |-> 0, exec |-> 0, locs |-> {}, rows |-> NoRows]

WriterPc == {"run", "write", "torn"}
ReaderPc == {"open", "drain"}

Handler == [job: Jobs, stage: StageIds, task: Nat, exec: Executors,
            pc: WriterPc \cup ReaderPc, at: Nat, locs: SUBSET Location, rows: Rows]
-----------------------------------------------------------------------------
VARIABLES
  status,     \* what the caller of job j knows
  query,      \* the plan job j was given
  pc,         \* where Scheduler::execute stands for job j
  cursor,     \* the stage the loop of job j is at, 1 for the first
  nextTask,   \* the partition_id execute_stage dispatches next
  gathered,   \* all_locations of the running stage
  completed,  \* the keys of locations_by_stage
  located,    \* the values of locations_by_stage
  call,       \* the Flight call the scheduler awaits for job j
  answer,     \* the rows handed to the caller
  handlers,   \* the calls the executors are working on
  disk,       \* the shuffle files of every directory
  up,         \* is the executor's process alive
  crashes, resets, cleanups

scheduler == <<status, query, pc, cursor, nextTask, gathered, completed, located, answer>>
faults    == <<crashes, resets, cleanups>>
vars      == <<scheduler, call, handlers, disk, up, faults>>

TypeOK ==
  /\ status \in [Jobs -> {"idle", "running", "done", "failed", "panicked", "cancelled"}]
  /\ query \in [Jobs -> Query]
  /\ pc \in [Jobs -> {"loop", "stage", "await"}]
  /\ cursor \in [Jobs -> 1..3]
  /\ nextTask \in [Jobs -> 0..TaskCount]
  /\ gathered \in [Jobs -> SUBSET Location]
  /\ completed \in [Jobs -> SUBSET StageIds]
  /\ located \in [Jobs -> [StageIds -> SUBSET Location]]
  /\ answer \in [Jobs -> Rows]
  /\ call \in [Jobs -> Call]
  /\ handlers \subseteq Handler
  /\ disk \in [Dirs -> [Path -> File]]
  /\ up \in [Executors -> BOOLEAN]
  /\ crashes \in 0..MaxCrashes /\ resets \in 0..MaxResets /\ cleanups \in 0..MaxCleanups

Init ==
  /\ status = [j \in Jobs |-> "idle"]
  /\ query \in [Jobs -> Queries]
  /\ pc = [j \in Jobs |-> "loop"]
  /\ cursor = [j \in Jobs |-> 1]
  /\ nextTask = [j \in Jobs |-> 0]
  /\ gathered = [j \in Jobs |-> {}]
  /\ completed = [j \in Jobs |-> {}]
  /\ located = [j \in Jobs |-> [s \in StageIds |-> {}]]
  /\ answer = [j \in Jobs |-> NoRows]
  /\ call = [j \in Jobs |-> NoCall]
  /\ handlers = {}
  /\ disk = [d \in Dirs |-> [f \in Path |-> NoFile]]
  /\ up = [e \in Executors |-> TRUE]
  /\ crashes = 0 /\ resets = 0 /\ cleanups = 0
-----------------------------------------------------------------------------
(***************************************************************************)
(* The caller and the scheduler.  DistributedQueryExec::execute lowers the *)
(* logical plan when the caller first polls the stream, then runs          *)
(* Scheduler::execute; dropping the stream drops the scheduler's future.   *)
(***************************************************************************)
Ended == {"done", "failed", "panicked", "cancelled"}

progress == <<pc, cursor, nextTask, gathered, completed, located>>

\* The future of job j resolves, unwinds or is dropped.
End(j, s) ==
  /\ status' = [status EXCEPT ![j] = s]
  /\ UNCHANGED <<query, progress, answer>>

Lower(j) ==
  /\ status[j] = "idle"
  /\ \E s \in {"running", "failed"} : End(j, s)
  /\ UNCHANGED <<call, handlers, disk, up, faults>>

Cancel(j) ==
  /\ status[j] \in {"idle", "running"}
  /\ End(j, "cancelled")
  /\ call' = [call EXCEPT ![j] = NoCall]
  /\ UNCHANGED <<handlers, disk, up, faults>>

HasStage(j) == cursor[j] <= Len(Stages(query[j].shape))
Stage(j)    == Stages(query[j].shape)[cursor[j]]
AtLoop(j)   == status[j] = "running" /\ pc[j] = "loop"

\* The stages the current one depends on have been run.
DepsMet(j) == Stage(j).deps \subseteq completed[j]

\* Mutant: an empty cluster is not an error.
StageFailsUnlessEmpty(j) ==
  /\ AtLoop(j)
  /\ HasStage(j) => ~DepsMet(j)
  /\ End(j, "failed")
  /\ UNCHANGED <<call, handlers, disk, up, faults>>

\* The error returns of the loop: it runs out of stages, a dependency is
\* missing, or the final stage finds no executor to go to.
StageFails(j) ==
  /\ AtLoop(j)
  /\ HasStage(j) => ~DepsMet(j) \/ (Stage(j).final /\ query[j].executors = 0)
  /\ End(j, "failed")
  /\ UNCHANGED <<call, handlers, disk, up, faults>>

\* execute_stage starts with no locations and task 0.
EnterStage(j) ==
  /\ AtLoop(j) /\ HasStage(j) /\ DepsMet(j) /\ ~Stage(j).final
  /\ pc' = [pc EXCEPT ![j] = "stage"]
  /\ nextTask' = [nextTask EXCEPT ![j] = 0]
  /\ gathered' = [gathered EXCEPT ![j] = {}]
  /\ UNCHANGED <<status, query, cursor, completed, located, answer, call, handlers, disk, up, faults>>

\* Mutant: 0..=partition_count.
SendsTaskInclusive(j) == status[j] = "running" /\ pc[j] = "stage" /\ nextTask[j] <= Stage(j).tasks

\* The scheduler is about to send a call, of an intermediate stage or of
\* the final one.
SendsTask(j)  == status[j] = "running" /\ pc[j] = "stage" /\ nextTask[j] < Stage(j).tasks
SendsFinal(j) ==
  AtLoop(j) /\ HasStage(j) /\ DepsMet(j) /\ Stage(j).final /\ query[j].executors > 0

\* Encoding an operator or an expression that has no message panics, and so
\* does choosing an executor among none.
DispatchPanics(j) ==
  /\ SendsTask(j) \/ SendsFinal(j)
  /\ query[j].executors = 0 \/ ~query[j].encodable
  /\ End(j, "panicked")
  /\ UNCHANGED <<call, handlers, disk, up, faults>>

\* Send job j's call: a live executor starts a handler, a dead one refuses
\* the connection.
Send(j, stage, task, exec, start, locs) ==
  /\ pc' = [pc EXCEPT ![j] = "await"]
  /\ call' = [call EXCEPT ![j] =
       [state |-> IF up[exec] THEN "waiting" ELSE "err",
        stage |-> stage, task |-> task, exec |-> exec, locs |-> {}, rows |-> NoRows]]
  /\ handlers' = handlers \cup
       IF up[exec]
       THEN {[job |-> j, stage |-> stage, task |-> task, exec |-> exec,
              pc |-> start, at |-> 0, locs |-> locs, rows |-> NoRows]}
       ELSE {}
  /\ UNCHANGED <<status, query, cursor, nextTask, gathered, completed, located, answer, disk, up, faults>>

SendTask(j) ==
  /\ SendsTask(j) /\ query[j].executors > 0 /\ query[j].encodable
  /\ Send(j, Stage(j).id, nextTask[j], ExecutorOf(nextTask[j]), "run", {})

\* The reader of the final stage is given the locations of every stage it
\* depends on; a list that is empty leaves the planner's empty one alone.
SendFinal(j) ==
  /\ SendsFinal(j) /\ query[j].encodable
  /\ Send(j, Stage(j).id, 0, 1, "open", UNION {located[j][s] : s \in Stage(j).deps})

\* An intermediate task has answered; its locations join the others.
ReceiveLocations(j) ==
  /\ status[j] = "running" /\ pc[j] = "await" /\ call[j].state = "ok" /\ ~Stage(j).final
  /\ pc' = [pc EXCEPT ![j] = "stage"]
  /\ nextTask' = [nextTask EXCEPT ![j] = @ + 1]
  /\ gathered' = [gathered EXCEPT ![j] = @ \cup call[j].locs]
  /\ call' = [call EXCEPT ![j] = NoCall]
  /\ UNCHANGED <<status, query, cursor, completed, located, answer, handlers, disk, up, faults>>

ReceiveRows(j) ==
  /\ status[j] = "running" /\ pc[j] = "await" /\ call[j].state = "ok" /\ Stage(j).final
  /\ status' = [status EXCEPT ![j] = "done"]
  /\ answer' = [answer EXCEPT ![j] = call[j].rows]
  /\ call' = [call EXCEPT ![j] = NoCall]
  /\ UNCHANGED <<query, progress, handlers, disk, up, faults>>

\* Mutant: a failed task is sent again.
ReceiveErrorAndRetry(j) ==
  /\ status[j] = "running" /\ pc[j] = "await" /\ call[j].state = "err"
  /\ pc' = [pc EXCEPT ![j] = IF Stage(j).final THEN "loop" ELSE "stage"]
  /\ call' = [call EXCEPT ![j] = NoCall]
  /\ UNCHANGED <<status, query, cursor, nextTask, gathered, completed, located, answer, handlers, disk, up, faults>>

\* Mutant: a failed task of an intermediate stage is logged and passed over.
ReceiveErrorAndGoOn(j) ==
  /\ status[j] = "running" /\ pc[j] = "await" /\ call[j].state = "err" /\ ~Stage(j).final
  /\ pc' = [pc EXCEPT ![j] = "stage"]
  /\ nextTask' = [nextTask EXCEPT ![j] = @ + 1]
  /\ call' = [call EXCEPT ![j] = NoCall]
  /\ UNCHANGED <<status, query, cursor, gathered, completed, located, answer, handlers, disk, up, faults>>

\* There is no retry: the first failed call fails the job.
ReceiveError(j) ==
  /\ status[j] = "running" /\ pc[j] = "await" /\ call[j].state = "err"
  /\ End(j, "failed")
  /\ call' = [call EXCEPT ![j] = NoCall]
  /\ UNCHANGED <<handlers, disk, up, faults>>

\* Every task of the stage has answered: on to the next stage.
CompleteStage(j) ==
  /\ status[j] = "running" /\ pc[j] = "stage" /\ nextTask[j] = Stage(j).tasks
  /\ pc' = [pc EXCEPT ![j] = "loop"]
  /\ cursor' = [cursor EXCEPT ![j] = @ + 1]
  /\ completed' = [completed EXCEPT ![j] = @ \cup {Stage(j).id}]
  /\ located' = [located EXCEPT ![j][Stage(j).id] = gathered[j]]
  /\ UNCHANGED <<status, query, nextTask, gathered, answer, call, handlers, disk, up, faults>>

SchedulerStep(j) ==
  \/ Lower(j) \/ StageFails(j) \/ EnterStage(j) \/ DispatchPanics(j)
  \/ SendTask(j) \/ SendFinal(j)
  \/ ReceiveLocations(j) \/ ReceiveRows(j) \/ ReceiveError(j) \/ CompleteStage(j)
-----------------------------------------------------------------------------
(***************************************************************************)
(* The executors.  A handler that has started goes on when its caller has  *)
(* gone: write_shuffle never yields, and nothing tells it.  Its reply then *)
(* reaches nobody.                                                         *)
(***************************************************************************)
Awaited(h) ==
  LET c == call[h.job] IN c.state = "waiting" /\ c.stage = h.stage /\ c.task = h.task

Become(h, k) ==
  /\ handlers' = (handlers \ {h}) \cup {k}
  /\ UNCHANGED call

\* What the caller makes of an answer, and of a connection that breaks.
Answered(c, state, locs, rows) == [c EXCEPT !.state = state, !.locs = locs, !.rows = rows]
Broken(c) == [c EXCEPT !.state = "err"]

Reply(h, state, locs, rows) ==
  /\ handlers' = handlers \ {h}
  /\ call' = IF Awaited(h)
             THEN [call EXCEPT ![h.job] = Answered(@, state, locs, rows)]
             ELSE call

ReplyError(h) == Reply(h, "err", {}, NoRows)

Dir(h)     == ShuffleDir[h.exec]
OnDisk(h, f) == disk[Dir(h)][f]
Writing(h) == PartitionFile(h.job, h.stage, h.at)
BucketOf(h) == Bucket(query[h.job].groups, h.at)

\* The location of the bucket a writer has just written carries the id the
\* SERVER was started with.
LocationOf(h) ==
  [job |-> h.job, stage |-> h.stage, part |-> h.at,
   executor |-> ServerId[h.exec], task |-> h.task]

\* Anything that can fail inside a handler: the input or an expression of
\* either kind of task, a file that cannot be created or written to.
HandlerFails(h) ==
  /\ ReplyError(h)
  /\ UNCHANGED <<scheduler, disk, up, faults>>

\* The writer runs the WHOLE input, whichever task it is, and keeps the
\* buckets in memory.
DrainInput(h) ==
  /\ h.pc = "run"
  /\ Become(h, [h EXCEPT !.pc = "write"])
  /\ UNCHANGED <<scheduler, disk, up, faults>>

SkipBucket(h) ==
  /\ h.pc = "write" /\ h.at < TaskCount /\ BucketOf(h) = {}
  /\ Become(h, [h EXCEPT !.at = @ + 1])
  /\ UNCHANGED <<scheduler, disk, up, faults>>

\* File::create empties the file that is there.
CreateFile(h) ==
  /\ h.pc = "write" /\ h.at < TaskCount /\ BucketOf(h) # {}
  /\ disk' = [disk EXCEPT ![Dir(h)][Writing(h)] = [state |-> "torn", groups |-> {}]]
  /\ Become(h, [h EXCEPT !.pc = "torn"])
  /\ UNCHANGED <<scheduler, up, faults>>

NextBucket(h) == [h EXCEPT !.pc = "write", !.at = h.at + 1, !.locs = h.locs \cup {LocationOf(h)}]

\* The footer is written.  A file whose directory was removed meanwhile has
\* no name any more, and the writer does not notice.
FinishFile(h) ==
  /\ h.pc = "torn"
  /\ disk' = IF OnDisk(h, Writing(h)).state = "torn"
             THEN [disk EXCEPT ![Dir(h)][Writing(h)] = [state |-> "whole", groups |-> BucketOf(h)]]
             ELSE disk
  /\ Become(h, NextBucket(h))
  /\ UNCHANGED <<scheduler, up, faults>>

ReplyLocations(h) ==
  /\ h.pc = "write" /\ h.at = TaskCount
  /\ Reply(h, "ok", h.locs, NoRows)
  /\ UNCHANGED <<scheduler, disk, up, faults>>

\* The reader looks at every location before it opens a file.
Local(h) == \A l \in h.locs : l.executor = ServerId[h.exec]

RefuseRemote(h) ==
  /\ h.pc = "open" /\ ~Local(h)
  /\ ReplyError(h)
  /\ UNCHANGED <<scheduler, disk, up, faults>>

\* A file that is not there, or has no footer, fails the open.
MissingFile(h) ==
  /\ h.pc = "open" /\ Local(h)
  /\ \E l \in h.locs : OnDisk(h, FileOf(l)).state # "whole"
  /\ ReplyError(h)
  /\ UNCHANGED <<scheduler, disk, up, faults>>

\* Every location is opened and read, as often as it is listed.
RowsRead(h) ==
  IF query[h.job].shape = "aggregate"
  THEN [g \in Groups |-> Cardinality({l \in h.locs : g \in OnDisk(h, FileOf(l)).groups})]
  ELSE OneEach(query[h.job].groups)

Drain(h, rows) == [h EXCEPT !.pc = "drain", !.rows = rows]

\* Mutant: a file that is not there is read as an empty one.
OpenFilesThatExist(h) ==
  /\ h.pc = "open" /\ Local(h)
  /\ Become(h, Drain(h, RowsRead(h)))
  /\ UNCHANGED <<scheduler, disk, up, faults>>

OpenFiles(h) ==
  /\ h.pc = "open" /\ Local(h)
  /\ \A l \in h.locs : OnDisk(h, FileOf(l)).state = "whole"
  /\ Become(h, Drain(h, RowsRead(h)))
  /\ UNCHANGED <<scheduler, disk, up, faults>>

\* A file that is truncated under an open reader fails the read; one that
\* is unlinked does not.
ReplyRows(h) ==
  /\ h.pc = "drain"
  /\ IF \E l \in h.locs : OnDisk(h, FileOf(l)).state = "torn"
     THEN ReplyError(h)
     ELSE Reply(h, "ok", {}, h.rows)
  /\ UNCHANGED <<scheduler, disk, up, faults>>

HandlerStep(h) ==
  \/ HandlerFails(h) \/ DrainInput(h) \/ SkipBucket(h) \/ CreateFile(h) \/ FinishFile(h)
  \/ ReplyLocations(h) \/ RefuseRemote(h) \/ MissingFile(h) \/ OpenFiles(h) \/ ReplyRows(h)
-----------------------------------------------------------------------------
(***************************************************************************)
(* What the processes cannot help.                                         *)
(***************************************************************************)
\* Mutant: nobody hears that the executor died.
CrashUnnoticed(e) ==
  /\ up[e] /\ crashes < MaxCrashes
  /\ up' = [up EXCEPT ![e] = FALSE]
  /\ handlers' = {h \in handlers : h.exec # e}
  /\ crashes' = crashes + 1
  /\ UNCHANGED <<scheduler, call, disk, resets, cleanups>>

\* The executor's process dies with its handlers; its files stay.  Their
\* connections break.
Crash(e) ==
  /\ up[e] /\ crashes < MaxCrashes
  /\ up' = [up EXCEPT ![e] = FALSE]
  /\ handlers' = {h \in handlers : h.exec # e}
  /\ call' = [j \in Jobs |-> IF call[j].state = "waiting" /\ call[j].exec = e
                            THEN Broken(call[j]) ELSE call[j]]
  /\ crashes' = crashes + 1
  /\ UNCHANGED <<scheduler, disk, resets, cleanups>>

Restart(e) ==
  /\ ~up[e]
  /\ up' = [up EXCEPT ![e] = TRUE]
  /\ UNCHANGED <<scheduler, call, handlers, disk, faults>>

\* The connection breaks and the executor does not.
Reset(j) ==
  /\ call[j].state = "waiting" /\ resets < MaxResets
  /\ call' = [call EXCEPT ![j] = Broken(@)]
  /\ resets' = resets + 1
  /\ UNCHANGED <<scheduler, handlers, disk, up, crashes, cleanups>>

\* ShuffleManager::cleanup_job or cleanup_all, called from outside at any
\* time: the error of remove_dir_all is dropped, so any of the files that
\* are there may go and any may stay.
Cleanup(d) ==
  /\ cleanups < MaxCleanups
  /\ \E fs \in SUBSET {f \in Path : disk[d][f].state # "absent"} :
       disk' = [disk EXCEPT ![d] = [f \in Path |-> IF f \in fs THEN NoFile ELSE disk[d][f]]]
  /\ cleanups' = cleanups + 1
  /\ UNCHANGED <<scheduler, call, handlers, up, crashes, resets>>

Fault ==
  \/ \E e \in Executors : Crash(e) \/ Restart(e)
  \/ \E j \in Jobs : Cancel(j) \/ Reset(j)
  \/ \E d \in Dirs : Cleanup(d)

Next ==
  \/ \E j \in Jobs : SchedulerStep(j)
  \/ \E h \in handlers : HandlerStep(h)
  \/ Fault

Spec == Init /\ [][Next]_vars

\* tokio polls a future that is ready, on either side, for as long as the
\* caller polls its stream.  Nothing is assumed of the faults.
Fairness ==
  \A j \in Jobs :
    /\ WF_vars(SchedulerStep(j))
    /\ WF_vars(\E h \in handlers : h.job = j /\ HandlerStep(h))

FairSpec == Spec /\ Fairness
-----------------------------------------------------------------------------
(***************************************************************************)
(* Safety.                                                                 *)
(***************************************************************************)
\* How often each group of a query is merged into its answer: every task of
\* stage 0 aggregates the whole input and reports every bucket.
Copies == [s \in Shapes |-> IF s = "aggregate" THEN TaskCount ELSE 1]

Complete(q) == [g \in Groups |-> IF g \in q.groups THEN Copies[q.shape] ELSE 0]

\* A caller that gets an answer gets all of it: the same number of partial
\* states of every group of its own query and of nothing else, whatever was
\* lost, left behind or cleaned up on the way, and a caller that does not
\* gets no row (Scheduler::execute, the `?` of execute_stage, the errors of
\* ShuffleReaderExec::execute).
AllOrNothing ==
  \A j \in Jobs : answer[j] = IF status[j] = "done" THEN Complete(query[j]) ELSE NoRows

\* The locations task t of job j reports when it succeeds.
ReportOf(j, t) ==
  {[job |-> j, stage |-> ShuffleStage, part |-> p, executor |-> ServerId[ExecutorOf(t)], task |-> t] :
     p \in {q \in Partitions : Bucket(query[j].groups, q) # {}}}

\* The final stage of an aggregate is given the report of every task of
\* stage 0, entire (Scheduler::execute awaits and collects them, one at a
\* time, and starts the final stage after the last).
FinalStageReadsEverything ==
  \A h \in handlers : h.pc \in ReaderPc /\ query[h.job].shape = "aggregate" =>
    h.locs = UNION {ReportOf(h.job, t) : t \in Partitions}

\* Everything job j has been told to read later.
Reported(j) ==
  gathered[j] \cup (UNION {located[j][s] : s \in StageIds}) \cup call[j].locs

\* Whenever the scheduler of a job decides what to do next, or its reader
\* reads, a file the job has been told to read is as the task that reported
\* it left it: the whole bucket of ITS query, in the directory of the
\* executor that wrote it.  Only a cleanup takes it away (write_partition
\* truncates on rewrite; the tasks of a job write the same paths, jobs share
\* the directory, orphans go on writing).
ReportedFilesStay ==
  \A j \in Jobs :
    status[j] = "running" /\ call[j].state # "err"
      /\ (\A h \in handlers : h.job = j => h.pc \in ReaderPc) =>
    \A l \in Reported(j) :
      LET f == disk[ShuffleDir[ExecutorOf(l.task)]][FileOf(l)] IN
      \/ f.state = "whole" /\ f.groups = Bucket(query[j].groups, l.part)
      \/ f.state = "absent" /\ cleanups > 0

\* No two handlers ever work for one job, and none for a job that was
\* answered: so nobody truncates a file a reader has open, and nothing is
\* written after the answer.  An orphan outlives only a job that failed.
OneHandlerPerJob ==
  \A h \in handlers :
    /\ \A k \in handlers : k.job = h.job => k = h
    /\ status[h.job] # "done"
    /\ status[h.job] = "running" => pc[h.job] = "await" /\ call[h.job].task = h.task

\* The two Internal errors of Scheduler::execute cannot be reached with the
\* plans DistributedPlanner makes ("this should be unreachable").
PlanIsWellFormed ==
  \A j \in Jobs : AtLoop(j) => HasStage(j) /\ DepsMet(j)

\* Once a caller has its answer, no step of anybody takes it back, and the
\* files behind it are only removed: a finished job leaves its shuffle data
\* on disk, and nobody writes there again.
AnswersAreFinal ==
  [][\A j \in Jobs : status[j] = "done" =>
       /\ status'[j] = "done" /\ answer'[j] = answer[j]
       /\ \A d \in Dirs : \A f \in Path :
            f.job = j => disk'[d][f] \in {disk[d][f], NoFile}]_vars

\* Every query comes to an end, with an answer or with an error, whatever
\* dies or breaks: a call that is awaited is answered, refused or broken.
EveryQueryEnds == \A j \in Jobs : <>(status[j] \in Ended)

\* The promise to the caller, without stages, executors, calls or files.
Abstract == INSTANCE QueryJob

KeepsThePromise == Abstract!JobSpec

(***************************************************************************)
(* What the documentation says, and the code does not do.                  *)
(***************************************************************************)
\* "One task per partition": the tasks of stage 0 share the input out, so
\* that each group is merged once.
ExactlyOnce ==
  \A j \in Jobs : status[j] = "done" => answer[j] = OneEach(query[j].groups)
=============================================================================
