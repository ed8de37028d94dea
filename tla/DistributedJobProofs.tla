------------------------ MODULE DistributedJobProofs ------------------------
(***************************************************************************)
(* That DistributedJob keeps AllOrNothing and PlanIsWellFormed, implements *)
(* QueryJob, and keeps the files it reports, for every number of jobs,     *)
(* groups, executors and partitions, every assignment of ids and           *)
(* directories to executors, and any number of faults.                     *)
(***************************************************************************)
EXTENDS DistributedJob, FiniteSetTheorems, TLAPS

IsAggregate(j) == query[j].shape = "aggregate"

\* The reports of the first n tasks of job j, and of all of them.
Reports(j, n) == UNION {ReportOf(j, t) : t \in 0..(n - 1)}
FullReport(j) == Reports(j, TaskCount)

\* What is to be expected of the stage the loop stands at.
AtFinalStage(j) == IsAggregate(j) => cursor[j] = 2

AnswerInv ==
  \A j \in Jobs : answer[j] = IF status[j] = "done" THEN Complete(query[j]) ELSE NoRows

\* The scheduler has collected the reports of the tasks it has been through.
ProgressOf(j) ==
  /\ cursor[j] = 1 \/ (cursor[j] = 2 /\ IsAggregate(j) /\ 0 \in completed[j])
  /\ pc[j] = "stage" => cursor[j] = 1 /\ IsAggregate(j)
  /\ pc[j] = "stage" \/ (pc[j] = "await" /\ ~AtFinalStage(j)) =>
       gathered[j] = Reports(j, nextTask[j])
  /\ pc[j] = "await" /\ ~AtFinalStage(j) => nextTask[j] < TaskCount
  /\ cursor[j] = 2 => located[j][0] = FullReport(j)

ProgressInv == \A j \in Jobs : ProgressOf(j)

\* An answer that is still to be received belongs to the stage and the task
\* the scheduler stands at.
CallOf(j) ==
  /\ call[j].state \in {"waiting", "ok"} => status[j] = "running" /\ pc[j] = "await"
  /\ call[j].state = "waiting" => call[j].stage = cursor[j] - 1
  /\ call[j].state = "waiting" /\ ~AtFinalStage(j) => call[j].task = nextTask[j]
  /\ call[j].state = "ok" =>
       IF AtFinalStage(j) THEN call[j].rows = Complete(query[j])
                          ELSE call[j].locs = ReportOf(j, nextTask[j])

CallInv == \A j \in Jobs : CallOf(j)

WriterInv(h) ==
  /\ IsAggregate(h.job) /\ h.stage = 0
  /\ h.task \in Partitions /\ h.exec = ExecutorOf(h.task)
  /\ h.at \in 0..TaskCount
  /\ h.pc = "run" => h.at = 0
  /\ h.pc = "torn" => h.at < TaskCount /\ BucketOf(h) # {}
  /\ h.locs = {r \in ReportOf(h.job, h.task) : r.part < h.at}

ReaderInv(h) ==
  /\ h.stage = IF IsAggregate(h.job) THEN 1 ELSE 0
  /\ IsAggregate(h.job) => h.locs = FullReport(h.job)
  /\ h.pc = "drain" => h.rows = Complete(query[h.job])

HandlersInv ==
  \A h \in handlers : (h.pc \in WriterPc => WriterInv(h)) /\ (h.pc \in ReaderPc => ReaderInv(h))

\* A file with a footer holds its bucket, whoever wrote it and how often.
DiskInv ==
  \A d \in Dirs : \A f \in Path :
    disk[d][f].state = "whole" => disk[d][f].groups = Bucket(query[f.job].groups, f.part)

IInv == TypeOK /\ AnswerInv /\ ProgressInv /\ CallInv /\ HandlersInv /\ DiskInv
-----------------------------------------------------------------------------
(***************************************************************************)
(* The plan and the locations.                                             *)
(***************************************************************************)
\* DistributedConfig::partition_count is a number.
LEMMA TaskCountNat == TaskCount \in Nat
BY ExecutorsAssumption, PartitionsAssumption DEF TaskCount

\* Round-robin stays within the configured executors.
LEMMA ExecutorOfType ==
  ASSUME NEW t \in Nat, NumExecutors > 0
  PROVE  ExecutorOf(t) \in Executors
<1>1. NumExecutors \in Nat
  BY ExecutorsAssumption
<1>2. t % NumExecutors \in 0..(NumExecutors - 1)
  BY <1>1
<1>3. QED
  BY <1>1, <1>2 DEF ExecutorOf, Executors

\* The two stages of an aggregate and the only one of another plan.
LEMMA StageCases ==
  ASSUME NEW j \in Jobs, query[j].shape \in Shapes, cursor[j] \in 1..3
  PROVE  /\ HasStage(j) <=> (cursor[j] = 1 \/ (cursor[j] = 2 /\ IsAggregate(j)))
         /\ IsAggregate(j) /\ cursor[j] = 1 =>
              Stage(j).id = 0 /\ Stage(j).deps = {} /\ Stage(j).tasks = TaskCount /\ ~Stage(j).final
         /\ IsAggregate(j) /\ cursor[j] = 2 =>
              Stage(j).id = 1 /\ Stage(j).deps = {0} /\ Stage(j).tasks = 1 /\ Stage(j).final
         /\ ~IsAggregate(j) /\ cursor[j] = 1 =>
              Stage(j).id = 0 /\ Stage(j).deps = {} /\ Stage(j).tasks = 1 /\ Stage(j).final
<1>1. CASE IsAggregate(j)
  BY <1>1 DEF IsAggregate, HasStage, Stage, Stages, ShuffleStage
<1>2. CASE ~IsAggregate(j)
  BY <1>2 DEF IsAggregate, HasStage, Stage, Stages, ShuffleStage
<1>3. QED
  BY <1>1, <1>2

\* No task has reported anything before the first, and each adds its report.
LEMMA ReportsGrow ==
  ASSUME NEW j, NEW n \in Nat
  PROVE  /\ Reports(j, 0) = {}
         /\ Reports(j, n + 1) = Reports(j, n) \cup ReportOf(j, n)
<1>1. Reports(j, 0) = {}
  BY DEF Reports
<1>2. 0..((n + 1) - 1) = (0..(n - 1)) \cup {n}
  OBVIOUS
<1>3. Reports(j, n + 1) = Reports(j, n) \cup ReportOf(j, n)
  BY <1>2 DEF Reports
<1>4. QED
  BY <1>1, <1>3

\* Read in full, the files of a job hold each of its groups once per task.
LEMMA EveryGroupOncePerTask ==
  ASSUME NEW j, query[j].groups \in SUBSET Groups, NEW g \in Groups
  PROVE  Cardinality({l \in FullReport(j) : g \in Bucket(query[j].groups, l.part)})
           = IF g \in query[j].groups THEN TaskCount ELSE 0
<1> DEFINE S == {l \in FullReport(j) : g \in Bucket(query[j].groups, l.part)}
           p == Hash[g] % TaskCount
           Entry(t) == [job |-> j, stage |-> ShuffleStage, part |-> p,
                        executor |-> ServerId[ExecutorOf(t)], task |-> t]
<1>1. TaskCount \in Nat /\ Hash[g] \in Nat
  BY TaskCountNat, GroupsAssumption
<1>2. CASE g \notin query[j].groups
  <2>1. S = {}
    BY <1>2 DEF Bucket
  <2>2. QED
    BY <1>2, <2>1, FS_EmptySet
<1>3. CASE g \in query[j].groups
  <2>1. \A q \in Partitions : g \in Bucket(query[j].groups, q) <=> p = q
    BY <1>3 DEF Bucket
  <2>2. TaskCount > 0 => p \in Partitions
    BY <1>1 DEF Partitions
  <2>3. S = {Entry(t) : t \in Partitions}
    <3>1. ASSUME NEW l \in S PROVE l \in {Entry(t) : t \in Partitions}
      <4>1. PICK t \in Partitions : l \in ReportOf(j, t)
        BY DEF FullReport, Reports, Partitions
      <4>2. PICK q \in Partitions : l = [job |-> j, stage |-> ShuffleStage, part |-> q,
                   executor |-> ServerId[ExecutorOf(t)], task |-> t]
        BY <4>1 DEF ReportOf
      <4>3. q = p
        BY <2>1, <4>2
      <4>4. QED
        BY <4>2, <4>3
    <3>2. ASSUME NEW t \in Partitions PROVE Entry(t) \in S
      <4>1. p \in Partitions
        BY <1>1, <2>2 DEF Partitions
      <4>2. Entry(t) \in ReportOf(j, t)
        BY <2>1, <4>1 DEF ReportOf
      <4>3. Entry(t) \in FullReport(j)
        BY <4>2 DEF FullReport, Reports, Partitions
      <4>4. QED
        BY <2>1, <4>1, <4>3
    <3>3. QED
      BY <3>1, <3>2
  <2>4. ExistsBijection(Partitions, S)
    <3> DEFINE f == [t \in Partitions |-> Entry(t)]
    <3>1. f \in [Partitions -> S]
      BY <2>3
    <3>2. \A t, u \in Partitions : f[t] = f[u] => t = u
      OBVIOUS
    <3>3. \A l \in S : \E t \in Partitions : f[t] = l
      BY <2>3
    <3>4. f \in Bijection(Partitions, S)
      BY <3>1, <3>2, <3>3 DEF Bijection, Injection, Surjection, IsInjective
    <3>5. QED
      BY <3>4 DEF ExistsBijection
  <2>5. IsFiniteSet(Partitions) /\ Cardinality(Partitions) = TaskCount
    BY <1>1, FS_Interval DEF Partitions
  <2>6. Cardinality(S) = TaskCount
    BY <2>4, <2>5, FS_Bijection
  <2>7. QED
    BY <1>3, <2>6
<1>4. QED
  BY <1>2, <1>3

\* What the reader of the final stage reads is the complete answer.
LEMMA OpenFilesReadsAll ==
  ASSUME IInv, NEW h \in handlers, OpenFiles(h)
  PROVE  RowsRead(h) = Complete(query[h.job])
<1> USE DEF IInv
<1> DEFINE j == h.job
<1>1. h \in Handler /\ j \in Jobs /\ query[j].groups \in SUBSET Groups /\ query[j].shape \in Shapes
  BY DEF TypeOK, Handler, Query
<1>2. CASE IsAggregate(j)
  <2>1. h.locs = FullReport(j)
    BY <1>2 DEF OpenFiles, HandlersInv, ReaderInv, ReaderPc
  <2>2. ASSUME NEW l \in FullReport(j)
        PROVE  OnDisk(h, FileOf(l)).groups = Bucket(query[j].groups, l.part)
    <3>1. FileOf(l) \in Path /\ FileOf(l).job = j /\ FileOf(l).part = l.part
      BY <1>1 DEF FullReport, Reports, ReportOf, FileOf, PartitionFile, Path, StageIds, ShuffleStage
    <3>2. Dir(h) \in Dirs
      BY <1>1, ExecutorsAssumption DEF Dir, Handler
    <3>3. OnDisk(h, FileOf(l)).state = "whole"
      BY <2>1 DEF OpenFiles
    <3>4. QED
      BY <3>1, <3>2, <3>3 DEF DiskInv, OnDisk
  <2>3. \A g \in Groups : {l \in h.locs : g \in OnDisk(h, FileOf(l)).groups}
                          = {l \in FullReport(j) : g \in Bucket(query[j].groups, l.part)}
    BY <2>1, <2>2
  <2>4. [g \in Groups |-> Cardinality({l \in h.locs : g \in OnDisk(h, FileOf(l)).groups})]
          = Complete(query[j])
    BY <1>1, <1>2, <2>3, EveryGroupOncePerTask DEF Complete, Copies, IsAggregate
  <2>5. QED
    BY <1>2, <2>4 DEF RowsRead, IsAggregate
<1>3. CASE ~IsAggregate(j)
  <2>1. OneEach(query[j].groups) = Complete(query[j])
    BY <1>1, <1>3 DEF OneEach, Complete, Copies, IsAggregate
  <2>2. QED
    BY <1>3, <2>1 DEF RowsRead, IsAggregate
<1>4. QED
  BY <1>2, <1>3
-----------------------------------------------------------------------------
(***************************************************************************)
(* Types.                                                                  *)
(***************************************************************************)
\* A call stays a call when it is answered or broken.
LEMMA CallUpdates ==
  ASSUME NEW c \in Call, NEW s \in {"ok", "err"}, NEW locs \in SUBSET Location, NEW rows \in Rows
  PROVE  Broken(c) \in Call /\ Answered(c, s, locs, rows) \in Call
<1>1. Broken(c) \in Call
  BY DEF Call, Broken
<1>2. [c EXCEPT !.state = s] \in Call
  BY DEF Call
<1>3. [[c EXCEPT !.state = s] EXCEPT !.locs = locs] \in Call
  BY <1>2 DEF Call
<1>4. Answered(c, s, locs, rows) \in Call
  BY <1>3 DEF Call, Answered
<1>5. QED
  BY <1>1, <1>4

\* A handler stays a handler when it goes on to the next file, and when it
\* has read its files.
LEMMA HandlerUpdates ==
  ASSUME NEW h \in Handler
  PROVE  /\ LocationOf(h) \in Location => NextBucket(h) \in Handler
         /\ \A rows \in Rows : Drain(h, rows) \in Handler
<1>1. ASSUME LocationOf(h) \in Location PROVE NextBucket(h) \in Handler
  <2>1. [h EXCEPT !.pc = "write"] \in Handler
    BY DEF Handler, WriterPc
  <2>2. h.at + 1 \in Nat /\ h.locs \cup {LocationOf(h)} \in SUBSET Location
    BY <1>1 DEF Handler
  <2>3. [[h EXCEPT !.pc = "write"] EXCEPT !.at = h.at + 1] \in Handler
    BY <2>1, <2>2 DEF Handler
  <2>4. QED
    BY <2>2, <2>3 DEF Handler, NextBucket
<1>2. ASSUME NEW rows \in Rows PROVE Drain(h, rows) \in Handler
  <2>1. [h EXCEPT !.pc = "drain"] \in Handler
    BY DEF Handler, ReaderPc
  <2>2. QED
    BY <2>1 DEF Handler, Drain
<1>3. QED
  BY <1>1, <1>2

\* The complete answer of a query is an answer.
LEMMA CompleteType ==
  ASSUME NEW q \in Query
  PROVE  Complete(q) \in Rows
<1>1. Copies[q.shape] \in Nat
  BY TaskCountNat DEF Copies, Query
<1>2. QED
  BY <1>1 DEF Complete, Rows

\* A reply changes one call, if anything, and ends its handler.
LEMMA ReplyType ==
  ASSUME TypeOK, NEW h \in handlers, NEW s \in {"ok", "err"},
         NEW locs \in SUBSET Location, NEW rows \in Rows, Reply(h, s, locs, rows)
  PROVE  call' \in [Jobs -> Call] /\ handlers' \subseteq Handler
<1>1. h.job \in Jobs
  BY DEF TypeOK, Handler
<1>2. Answered(call[h.job], s, locs, rows) \in Call
  BY <1>1, CallUpdates DEF TypeOK
<1>3. QED
  BY <1>1, <1>2 DEF Reply, TypeOK

\* A call that is sent starts a handler or fails at once.
LEMMA SendType ==
  ASSUME TypeOK, NEW j \in Jobs, NEW stage \in StageIds, NEW task \in Nat, NEW exec \in Executors,
         NEW start \in {"run", "open"}, NEW locs \in SUBSET Location,
         Send(j, stage, task, exec, start, locs)
  PROVE  TypeOK'
<1>1. NoRows \in Rows
  BY DEF NoRows, Rows
<1>2. [state |-> IF up[exec] THEN "waiting" ELSE "err",
       stage |-> stage, task |-> task, exec |-> exec, locs |-> {}, rows |-> NoRows] \in Call
  BY <1>1 DEF Call, Executors
<1>3. [job |-> j, stage |-> stage, task |-> task, exec |-> exec,
       pc |-> start, at |-> 0, locs |-> locs, rows |-> NoRows] \in Handler
  BY <1>1 DEF Handler, WriterPc, ReaderPc
<1>4. call' \in [Jobs -> Call]
  BY <1>2 DEF Send, TypeOK
<1>5. handlers' \subseteq Handler
  BY <1>3 DEF Send, TypeOK
<1>6. pc' \in [Jobs -> {"loop", "stage", "await"}]
  BY DEF Send, TypeOK
<1>7. QED
  BY <1>4, <1>5, <1>6 DEF Send, TypeOK, faults

\* A configuration that lists an executor lists all there are.
LEMMA ListedExecutors ==
  ASSUME NEW q \in Query
  PROVE  q.executors \in Nat /\ (q.executors > 0 => NumExecutors > 0)
<1>1. q.executors \in Lists
  BY DEF Query
<1>2. QED
  BY <1>1, ExecutorsAssumption DEF Lists

\* Every step of the scheduler keeps TypeOK.
LEMMA SchedulerType ==
  ASSUME IInv, NEW j \in Jobs, SchedulerStep(j)
  PROVE  TypeOK'
<1> USE DEF IInv
<1>0. cursor[j] \in 1..3 /\ query[j] \in Query /\ query[j].shape \in Shapes
  BY DEF TypeOK, Query
<1>1. CASE Lower(j)
  BY <1>1 DEF TypeOK, Lower, End, progress, faults
<1>2. CASE StageFails(j)
  BY <1>2 DEF TypeOK, StageFails, End, progress, faults
<1>3. CASE EnterStage(j)
  BY <1>3, TaskCountNat DEF TypeOK, EnterStage, faults
<1>4. CASE DispatchPanics(j)
  BY <1>4 DEF TypeOK, DispatchPanics, End, progress, faults
<1>5. CASE SendTask(j)
  <2>1. nextTask[j] \in Nat /\ ExecutorOf(nextTask[j]) \in Executors
    BY <1>0, <1>5, ListedExecutors, ExecutorOfType DEF SendTask, TypeOK
  <2>2. Stage(j).id \in StageIds
    BY <1>0, <1>5, StageCases DEF SendTask, SendsTask, ProgressInv, ProgressOf, StageIds
  <2>3. QED
    BY <1>5, <2>1, <2>2, SendType DEF SendTask
<1>6. CASE SendFinal(j)
  <2>1. 1 \in Executors
    BY <1>0, <1>6, ListedExecutors, ExecutorsAssumption DEF SendFinal, SendsFinal, Executors
  <2>2. Stage(j).id \in StageIds /\ Stage(j).deps \subseteq StageIds
    BY <1>0, <1>6, StageCases DEF SendFinal, SendsFinal, ProgressInv, ProgressOf, StageIds
  <2>3. UNION {located[j][s] : s \in Stage(j).deps} \subseteq Location
    BY <2>2 DEF TypeOK
  <2>4. QED
    BY <1>6, <2>1, <2>2, <2>3, SendType DEF SendFinal
<1>7. CASE ReceiveLocations(j)
  <2>1. nextTask[j] + 1 \in 0..TaskCount
    BY <1>0, <1>7, TaskCountNat, StageCases DEF ReceiveLocations, TypeOK, ProgressInv, ProgressOf, AtFinalStage
  <2>2. call[j].locs \in SUBSET Location /\ NoCall \in Call
    BY DEF TypeOK, Call, NoCall, NoRows, Rows, StageIds
  <2>3. QED
    BY <1>7, <2>1, <2>2 DEF TypeOK, ReceiveLocations, faults
<1>8. CASE ReceiveRows(j)
  <2>1. call[j].rows \in Rows /\ NoCall \in Call
    BY DEF TypeOK, Call, NoCall, NoRows, Rows, StageIds
  <2>2. QED
    BY <1>8, <2>1 DEF TypeOK, ReceiveRows, progress, faults
<1>9. CASE ReceiveError(j)
  <2>1. NoCall \in Call
    BY DEF TypeOK, Call, NoCall, NoRows, Rows, StageIds
  <2>2. QED
    BY <1>9, <2>1 DEF TypeOK, ReceiveError, End, progress, faults
<1>10. CASE CompleteStage(j)
  <2>1. cursor[j] = 1 /\ Stage(j).id \in StageIds
    BY <1>0, <1>10, StageCases DEF CompleteStage, ProgressInv, ProgressOf, StageIds
  <2>2. QED
    BY <1>10, <2>1 DEF TypeOK, CompleteStage, faults
<1>11. QED
  BY <1>1, <1>2, <1>3, <1>4, <1>5, <1>6, <1>7, <1>8, <1>9, <1>10 DEF SchedulerStep
\* Every step of a handler keeps TypeOK.
LEMMA HandlerType ==
  ASSUME IInv, NEW h \in handlers, HandlerStep(h)
  PROVE  TypeOK'
<1> USE DEF IInv
<1>0. h \in Handler /\ NoRows \in Rows
  BY DEF TypeOK, NoRows, Rows
<1>1. CASE HandlerFails(h)
  <2>1. call' \in [Jobs -> Call] /\ handlers' \subseteq Handler
    BY <1>0, <1>1, ReplyType DEF HandlerFails, ReplyError
  <2>2. QED
    BY <1>1, <2>1 DEF TypeOK, HandlerFails, scheduler, faults
<1>2. CASE DrainInput(h)
  <2>1. [h EXCEPT !.pc = "write"] \in Handler
    BY <1>0 DEF Handler, WriterPc
  <2>2. QED
    BY <1>2, <2>1 DEF TypeOK, DrainInput, Become, scheduler, faults
<1>3. CASE SkipBucket(h)
  <2>1. [h EXCEPT !.at = @ + 1] \in Handler
    BY <1>0 DEF Handler
  <2>2. QED
    BY <1>3, <2>1 DEF TypeOK, SkipBucket, Become, scheduler, faults
<1>4. CASE CreateFile(h)
  <2>1. [h EXCEPT !.pc = "torn"] \in Handler
    BY <1>0 DEF Handler, WriterPc
  <2>2. [state |-> "torn", groups |-> {}] \in File
    BY DEF File
  <2>3. disk' \in [Dirs -> [Path -> File]]
    BY <1>4, <2>2 DEF TypeOK, CreateFile
  <2>4. QED
    BY <1>4, <2>1, <2>3 DEF TypeOK, CreateFile, Become, scheduler, faults
<1>5. CASE FinishFile(h)
  <2>1. LocationOf(h) \in Location
    <3>1. ServerId[h.exec] \in Ids
      BY <1>0, ExecutorsAssumption DEF Handler
    <3>2. h.at \in Partitions /\ h.task \in Partitions
      BY <1>0, <1>5, TaskCountNat DEF FinishFile, HandlersInv, WriterInv, WriterPc, Partitions
    <3>3. QED
      BY <1>0, <3>1, <3>2 DEF LocationOf, Location, Handler
  <2>2. NextBucket(h) \in Handler
    BY <1>0, <2>1, HandlerUpdates
  <2>3. [state |-> "whole", groups |-> BucketOf(h)] \in File
    BY <1>0 DEF TypeOK, File, BucketOf, Bucket, Handler, Query
  <2>4. disk' \in [Dirs -> [Path -> File]]
    BY <1>5, <2>3 DEF TypeOK, FinishFile
  <2>5. QED
    BY <1>5, <2>2, <2>4 DEF TypeOK, FinishFile, Become, scheduler, faults
<1>6. CASE ReplyLocations(h)
  <2>1. call' \in [Jobs -> Call] /\ handlers' \subseteq Handler
    BY <1>0, <1>6, ReplyType DEF ReplyLocations, Handler
  <2>2. QED
    BY <1>6, <2>1 DEF TypeOK, ReplyLocations, scheduler, faults
<1>7. CASE RefuseRemote(h)
  <2>1. call' \in [Jobs -> Call] /\ handlers' \subseteq Handler
    BY <1>0, <1>7, ReplyType DEF RefuseRemote, ReplyError
  <2>2. QED
    BY <1>7, <2>1 DEF TypeOK, RefuseRemote, scheduler, faults
<1>8. CASE MissingFile(h)
  <2>1. call' \in [Jobs -> Call] /\ handlers' \subseteq Handler
    BY <1>0, <1>8, ReplyType DEF MissingFile, ReplyError
  <2>2. QED
    BY <1>8, <2>1 DEF TypeOK, MissingFile, scheduler, faults
<1>9. CASE OpenFiles(h)
  <2>1. h.job \in Jobs /\ query[h.job] \in Query
    BY <1>0 DEF Handler, TypeOK
  <2>2. Drain(h, RowsRead(h)) \in Handler
    BY <1>0, <1>9, <2>1, CompleteType, HandlerUpdates, OpenFilesReadsAll
  <2>3. handlers' \subseteq Handler /\ UNCHANGED call
    BY <1>9, <2>2 DEF OpenFiles, Become, TypeOK
  <2>4. QED
    BY <1>9, <2>3 DEF TypeOK, OpenFiles, scheduler, faults
<1>10. CASE ReplyRows(h)
  <2>1. call' \in [Jobs -> Call] /\ handlers' \subseteq Handler
    BY <1>0, <1>10, ReplyType DEF ReplyRows, ReplyError, Handler
  <2>2. QED
    BY <1>10, <2>1 DEF TypeOK, ReplyRows, scheduler, faults
<1>11. QED
  BY <1>1, <1>2, <1>3, <1>4, <1>5, <1>6, <1>7, <1>8, <1>9, <1>10 DEF HandlerStep

\* Every fault keeps TypeOK.
LEMMA FaultType ==
  ASSUME TypeOK, Fault
  PROVE  TypeOK'
<1>1. ASSUME NEW e \in Executors, Crash(e) PROVE TypeOK'
  <2>1. \A j \in Jobs : Broken(call[j]) \in Call
    BY CallUpdates DEF TypeOK, NoRows, Rows
  <2>2. call' \in [Jobs -> Call]
    BY <1>1, <2>1 DEF TypeOK, Crash
  <2>3. crashes' \in 0..MaxCrashes
    BY <1>1, BoundsAssumption DEF TypeOK, Crash
  <2>4. QED
    BY <1>1, <2>2, <2>3 DEF TypeOK, Crash, scheduler
<1>2. ASSUME NEW e \in Executors, Restart(e) PROVE TypeOK'
  BY <1>2 DEF TypeOK, Restart, scheduler, faults
<1>3. ASSUME NEW j \in Jobs, Cancel(j) PROVE TypeOK'
  <2>1. NoCall \in Call
    BY DEF Call, NoCall, NoRows, Rows, StageIds
  <2>2. QED
    BY <1>3, <2>1 DEF TypeOK, Cancel, End, progress, faults
<1>4. ASSUME NEW j \in Jobs, Reset(j) PROVE TypeOK'
  <2>1. Broken(call[j]) \in Call
    BY CallUpdates DEF TypeOK, NoRows, Rows
  <2>2. call' \in [Jobs -> Call]
    BY <1>4, <2>1 DEF TypeOK, Reset
  <2>3. resets' \in 0..MaxResets
    BY <1>4, BoundsAssumption DEF TypeOK, Reset
  <2>4. QED
    BY <1>4, <2>2, <2>3 DEF TypeOK, Reset, scheduler
<1>5. ASSUME NEW d \in Dirs, Cleanup(d) PROVE TypeOK'
  <2>1. NoFile \in File
    BY DEF NoFile, File
  <2>2. disk' \in [Dirs -> [Path -> File]]
    BY <1>5, <2>1 DEF TypeOK, Cleanup
  <2>3. cleanups' \in 0..MaxCleanups
    BY <1>5, BoundsAssumption DEF TypeOK, Cleanup
  <2>4. QED
    BY <1>5, <2>2, <2>3 DEF TypeOK, Cleanup, scheduler
<1>6. QED
  BY <1>1, <1>2, <1>3, <1>4, <1>5 DEF Fault
-----------------------------------------------------------------------------
(***************************************************************************)
(* The inductive invariant.                                                *)
(***************************************************************************)
\* A job keeps its query, and what depends on nothing else stays as it is.
LEMMA QueryStays ==
  ASSUME UNCHANGED query
  PROVE  /\ \A j \in Jobs : IsAggregate(j)' <=> IsAggregate(j)
         /\ \A j, t : ReportOf(j, t)' = ReportOf(j, t)
         /\ \A j, n : Reports(j, n)' = Reports(j, n)
         /\ \A j : FullReport(j)' = FullReport(j)
         /\ \A h \in Handler : WriterInv(h)' <=> WriterInv(h)
         /\ \A h \in Handler : ReaderInv(h)' <=> ReaderInv(h)
<1>1. \A j \in Jobs : IsAggregate(j)' <=> IsAggregate(j)
  BY DEF IsAggregate
<1>2. \A j, t : ReportOf(j, t)' = ReportOf(j, t)
  BY DEF ReportOf
<1>3. \A j, n : Reports(j, n)' = Reports(j, n)
  BY <1>2 DEF Reports
<1>4. \A j : FullReport(j)' = FullReport(j)
  BY <1>3 DEF FullReport
<1>5. \A h \in Handler : WriterInv(h)' <=> WriterInv(h)
  BY <1>1, <1>2 DEF WriterInv, BucketOf, Handler
<1>6. \A h \in Handler : ReaderInv(h)' <=> ReaderInv(h)
  BY <1>1, <1>4 DEF ReaderInv, Handler
<1>7. QED
  BY <1>1, <1>2, <1>3, <1>4, <1>5, <1>6

\* No step changes a query.
LEMMA QueryNeverChanges ==
  ASSUME [Next]_vars
  PROVE  UNCHANGED query
<1>1. ASSUME NEW j \in Jobs, SchedulerStep(j) PROVE UNCHANGED query
  BY <1>1 DEF SchedulerStep, Lower, StageFails, EnterStage, DispatchPanics, SendTask, SendFinal,
       Send, ReceiveLocations, ReceiveRows, ReceiveError, CompleteStage, End
<1>2. ASSUME NEW h \in handlers, HandlerStep(h) PROVE UNCHANGED query
  BY <1>2 DEF HandlerStep, HandlerFails, DrainInput, SkipBucket, CreateFile, FinishFile,
       ReplyLocations, RefuseRemote, MissingFile, OpenFiles, ReplyRows, scheduler
<1>3. CASE Fault
  BY <1>3 DEF Fault, Crash, Restart, Cancel, Reset, Cleanup, End, scheduler
<1>4. CASE UNCHANGED vars
  BY <1>4 DEF vars, scheduler
<1>5. QED
  BY <1>1, <1>2, <1>3, <1>4 DEF Next

\* The scheduler's steps: answers, and what it knows of its stages.
LEMMA SchedulerProgress ==
  ASSUME IInv, NEW j \in Jobs, SchedulerStep(j)
  PROVE  AnswerInv' /\ ProgressInv'
<1> USE DEF IInv
<1>0. cursor[j] \in 1..3 /\ query[j] \in Query /\ query[j].shape \in Shapes
  BY DEF TypeOK, Query
<1>q. UNCHANGED query
  BY QueryNeverChanges DEF Next
<1>1. CASE Lower(j) \/ StageFails(j) \/ DispatchPanics(j) \/ ReceiveError(j)
  <2>1. AnswerInv'
    BY <1>1 DEF AnswerInv, Lower, StageFails, DispatchPanics, ReceiveError, End, AtLoop, SendsTask,
         SendsFinal, TypeOK
  <2>2. UNCHANGED progress
    BY <1>1 DEF Lower, StageFails, DispatchPanics, ReceiveError, End
  <2>3. ProgressInv'
    BY <1>q, <2>2, QueryStays DEF ProgressInv, ProgressOf, progress, AtFinalStage
  <2>4. QED
    BY <2>1, <2>3
<1>2. CASE EnterStage(j)
  <2>1. AnswerInv'
    BY <1>2 DEF AnswerInv, EnterStage
  <2>2. IsAggregate(j) /\ cursor[j] = 1
    BY <1>0, <1>2, StageCases DEF EnterStage, ProgressInv, ProgressOf
  <2>3. ProgressInv'
    <3> SUFFICES ASSUME NEW k \in Jobs PROVE ProgressOf(k)'
      BY DEF ProgressInv, ProgressOf
    <3>1. CASE k = j
      BY <3>1, <1>2, <1>q, <2>2, QueryStays, ReportsGrow DEF EnterStage, ProgressInv, ProgressOf, AtFinalStage, TypeOK
    <3>2. CASE k # j
      <4>1. UNCHANGED <<pc[k], cursor[k], nextTask[k], gathered[k], completed[k], located[k]>>
        BY <3>2, <1>2 DEF EnterStage, TypeOK
      <4>2. QED
        BY <4>1, <1>q, QueryStays DEF ProgressInv, ProgressOf, AtFinalStage
    <3>3. QED
      BY <3>1, <3>2
  <2>4. QED
    BY <2>1, <2>3
<1>3. CASE SendTask(j)
  <2>1. AnswerInv'
    BY <1>3 DEF AnswerInv, SendTask, Send
  <2>2. IsAggregate(j) /\ cursor[j] = 1 /\ nextTask[j] < TaskCount
    BY <1>0, <1>3, StageCases DEF SendTask, SendsTask, ProgressInv, ProgressOf
  <2>3. ProgressInv'
    BY <1>3, <1>q, <2>2, QueryStays DEF SendTask, SendsTask, Send, ProgressInv, ProgressOf, AtFinalStage, TypeOK
  <2>4. QED
    BY <2>1, <2>3
<1>4. CASE SendFinal(j)
  <2>1. AnswerInv'
    BY <1>4 DEF AnswerInv, SendFinal, Send
  <2>2. AtFinalStage(j)
    BY <1>0, <1>4, StageCases DEF SendFinal, SendsFinal, ProgressInv, ProgressOf, AtFinalStage
  <2>3. ProgressInv'
    BY <1>4, <1>q, <2>2, QueryStays DEF SendFinal, SendsFinal, Send, ProgressInv, ProgressOf, AtFinalStage, TypeOK
  <2>4. QED
    BY <2>1, <2>3
<1>5. CASE ReceiveLocations(j)
  <2>1. AnswerInv'
    BY <1>5 DEF AnswerInv, ReceiveLocations
  <2>2. IsAggregate(j) /\ cursor[j] = 1
    BY <1>0, <1>5, StageCases DEF ReceiveLocations, ProgressInv, ProgressOf
  <2>3. nextTask[j] \in Nat /\ gathered[j] = Reports(j, nextTask[j])
        /\ call[j].locs = ReportOf(j, nextTask[j])
    BY <1>5, <2>2 DEF ReceiveLocations, ProgressInv, ProgressOf, CallInv, CallOf, AtFinalStage, TypeOK
  <2>4. gathered'[j] = Reports(j, nextTask'[j])
    BY <1>5, <2>3, ReportsGrow DEF ReceiveLocations, TypeOK
  <2>5. ProgressInv'
    <3> SUFFICES ASSUME NEW k \in Jobs PROVE ProgressOf(k)'
      BY DEF ProgressInv, ProgressOf
    <3>1. CASE k = j
      BY <3>1, <1>5, <1>q, <2>2, <2>4, QueryStays DEF ReceiveLocations, ProgressInv, ProgressOf, AtFinalStage, TypeOK
    <3>2. CASE k # j
      <4>1. UNCHANGED <<pc[k], cursor[k], nextTask[k], gathered[k], completed[k], located[k]>>
        BY <3>2, <1>5 DEF ReceiveLocations, TypeOK
      <4>2. QED
        BY <4>1, <1>q, QueryStays DEF ProgressInv, ProgressOf, AtFinalStage
    <3>3. QED
      BY <3>1, <3>2
  <2>6. QED
    BY <2>1, <2>5
<1>6. CASE ReceiveRows(j)
  <2>1. AtFinalStage(j)
    BY <1>0, <1>6, StageCases DEF ReceiveRows, ProgressInv, ProgressOf, AtFinalStage
  <2>2. call[j].rows = Complete(query[j])
    BY <1>6, <2>1 DEF ReceiveRows, CallInv, CallOf
  <2>3. AnswerInv'
    BY <1>6, <2>2 DEF AnswerInv, ReceiveRows, TypeOK
  <2>4. UNCHANGED progress
    BY <1>6 DEF ReceiveRows
  <2>5. ProgressInv'
    BY <1>q, <2>4, QueryStays DEF ProgressInv, ProgressOf, progress, AtFinalStage
  <2>6. QED
    BY <2>3, <2>5
<1>7. CASE CompleteStage(j)
  <2>1. AnswerInv'
    BY <1>7 DEF AnswerInv, CompleteStage
  <2>2. IsAggregate(j) /\ cursor[j] = 1 /\ Stage(j).id = 0 /\ nextTask[j] = TaskCount
    BY <1>0, <1>7, StageCases DEF CompleteStage, ProgressInv, ProgressOf
  <2>3. gathered[j] = FullReport(j)
    BY <1>7, <2>2 DEF CompleteStage, ProgressInv, ProgressOf, FullReport
  <2>4. ProgressInv'
    <3> SUFFICES ASSUME NEW k \in Jobs PROVE ProgressOf(k)'
      BY DEF ProgressInv, ProgressOf
    <3>1. CASE k = j
      BY <3>1, <1>7, <1>q, <2>2, <2>3, QueryStays DEF CompleteStage, ProgressInv, ProgressOf, AtFinalStage, TypeOK, StageIds
    <3>2. CASE k # j
      <4>1. UNCHANGED <<pc[k], cursor[k], nextTask[k], gathered[k], completed[k], located[k]>>
        BY <3>2, <1>7 DEF CompleteStage, TypeOK
      <4>2. QED
        BY <4>1, <1>q, QueryStays DEF ProgressInv, ProgressOf, AtFinalStage
    <3>3. QED
      BY <3>1, <3>2
  <2>5. QED
    BY <2>1, <2>4
<1>8. QED
  BY <1>1, <1>2, <1>3, <1>4, <1>5, <1>6, <1>7 DEF SchedulerStep

\* The scheduler's steps: the call it waits for.
LEMMA SchedulerCalls ==
  ASSUME IInv, NEW j \in Jobs, SchedulerStep(j)
  PROVE  CallInv'
<1> USE DEF IInv
<1>0. cursor[j] \in 1..3 /\ query[j] \in Query /\ query[j].shape \in Shapes
  BY DEF TypeOK, Query
<1>q. UNCHANGED query
  BY QueryNeverChanges DEF Next
<1> SUFFICES ASSUME NEW k \in Jobs PROVE CallOf(k)'
  BY DEF CallInv
<1>1. CASE k # j
  <2>1. UNCHANGED <<status[k], pc[k], cursor[k], nextTask[k], call[k]>>
    BY <1>1 DEF SchedulerStep, Lower, StageFails, EnterStage, DispatchPanics, SendTask, SendFinal,
         Send, ReceiveLocations, ReceiveRows, ReceiveError, CompleteStage, End, progress, TypeOK
  <2>2. QED
    BY <2>1, <1>q, QueryStays DEF CallInv, CallOf, AtFinalStage
<1>2. CASE k = j /\ (Lower(j) \/ StageFails(j) \/ DispatchPanics(j) \/ EnterStage(j) \/ CompleteStage(j))
  <2>1. call[j].state \notin {"waiting", "ok"}
    BY <1>2 DEF Lower, StageFails, DispatchPanics, EnterStage, CompleteStage, AtLoop, SendsTask,
         SendsFinal, CallInv, CallOf
  <2>2. UNCHANGED call
    BY <1>2 DEF Lower, StageFails, DispatchPanics, EnterStage, CompleteStage
  <2>3. QED
    BY <1>2, <2>1, <2>2 DEF CallOf
<1>3. CASE k = j /\ (ReceiveLocations(j) \/ ReceiveRows(j) \/ ReceiveError(j))
  <2>1. call'[j].state = "none"
    BY <1>3 DEF ReceiveLocations, ReceiveRows, ReceiveError, NoCall, TypeOK
  <2>2. QED
    BY <1>3, <2>1 DEF CallOf
<1>4. CASE k = j /\ SendTask(j)
  <2>1. IsAggregate(j) /\ cursor[j] = 1 /\ Stage(j).id = 0
    BY <1>0, <1>4, StageCases DEF SendTask, SendsTask, ProgressInv, ProgressOf
  <2>2. call'[j].state \in {"waiting", "err"} /\ call'[j].stage = 0 /\ call'[j].task = nextTask[j]
        /\ pc'[j] = "await" /\ status'[j] = "running" /\ UNCHANGED <<cursor, nextTask>>
    BY <1>4, <2>1 DEF SendTask, SendsTask, Send, TypeOK
  <2>3. QED
    BY <1>4, <2>1, <2>2 DEF CallOf
<1>5. CASE k = j /\ SendFinal(j)
  <2>1. AtFinalStage(j) /\ Stage(j).id = cursor[j] - 1
    BY <1>0, <1>5, StageCases DEF SendFinal, SendsFinal, ProgressInv, ProgressOf, AtFinalStage
  <2>2. call'[j].state \in {"waiting", "err"} /\ call'[j].stage = cursor[j] - 1
        /\ pc'[j] = "await" /\ status'[j] = "running" /\ UNCHANGED cursor
    BY <1>5, <2>1 DEF SendFinal, SendsFinal, AtLoop, Send, TypeOK
  <2>3. AtFinalStage(j)'
    BY <1>q, <2>1, <2>2, QueryStays DEF AtFinalStage
  <2>4. QED
    BY <1>5, <2>2, <2>3 DEF CallOf
<1>6. QED
  BY <1>1, <1>2, <1>3, <1>4, <1>5 DEF SchedulerStep

\* The scheduler's steps: the handlers it starts, and the files it leaves
\* alone.
LEMMA SchedulerHandlers ==
  ASSUME IInv, NEW j \in Jobs, SchedulerStep(j)
  PROVE  HandlersInv' /\ DiskInv'
<1> USE DEF IInv
<1>0. cursor[j] \in 1..3 /\ query[j] \in Query /\ query[j].shape \in Shapes
  BY DEF TypeOK, Query
<1>q. UNCHANGED query
  BY QueryNeverChanges DEF Next
<1>d. DiskInv'
  <2>1. UNCHANGED disk
    BY DEF SchedulerStep, Lower, StageFails, EnterStage, DispatchPanics, SendTask, SendFinal,
       Send, ReceiveLocations, ReceiveRows, ReceiveError, CompleteStage
  <2>2. QED
    BY <1>q, <2>1 DEF DiskInv
<1>t. handlers' \subseteq Handler
  BY SchedulerType DEF TypeOK
<1> SUFFICES ASSUME NEW h \in handlers'
             PROVE  (h.pc \in WriterPc => WriterInv(h)) /\ (h.pc \in ReaderPc => ReaderInv(h))
  BY <1>d, <1>q, <1>t, QueryStays DEF HandlersInv
<1>1. CASE SendTask(j)
  <2> DEFINE new == [job |-> j, stage |-> Stage(j).id, task |-> nextTask[j],
                     exec |-> ExecutorOf(nextTask[j]), pc |-> "run", at |-> 0, locs |-> {}, rows |-> NoRows]
  <2>1. h \in handlers \/ h = new
    BY <1>1 DEF SendTask, Send
  <2>2. IsAggregate(j) /\ Stage(j).id = 0 /\ nextTask[j] \in Partitions
    BY <1>0, <1>1, StageCases, TaskCountNat
    DEF SendTask, SendsTask, ProgressInv, ProgressOf, TypeOK, Partitions
  <2>3. {r \in ReportOf(j, nextTask[j]) : r.part < 0} = {}
    BY TaskCountNat DEF ReportOf, Partitions
  <2>4. h = new => WriterInv(h) /\ h.pc \notin ReaderPc
    BY <2>2, <2>3, TaskCountNat DEF WriterInv, ReaderPc
  <2>5. QED
    BY <2>1, <2>4 DEF HandlersInv
<1>2. CASE SendFinal(j)
  <2> DEFINE locs == UNION {located[j][s] : s \in Stage(j).deps}
             new == [job |-> j, stage |-> Stage(j).id, task |-> 0,
                     exec |-> 1, pc |-> "open", at |-> 0, locs |-> locs, rows |-> NoRows]
  <2>1. h \in handlers \/ h = new
    BY <1>2 DEF SendFinal, Send
  <2>2. Stage(j).id = IF IsAggregate(j) THEN 1 ELSE 0
    BY <1>0, <1>2, StageCases DEF SendFinal, SendsFinal, ProgressInv, ProgressOf
  <2>3. ASSUME IsAggregate(j) PROVE locs = FullReport(j)
    <3>1. Stage(j).deps = {0} /\ cursor[j] = 2
      BY <1>0, <1>2, <2>3, StageCases DEF SendFinal, SendsFinal, ProgressInv, ProgressOf
    <3>2. located[j][0] = FullReport(j)
      BY <3>1 DEF ProgressInv, ProgressOf
    <3>3. QED
      BY <3>1, <3>2
  <2>4. h = new => ReaderInv(h) /\ h.pc \notin WriterPc
    BY <2>2, <2>3 DEF ReaderInv, WriterPc
  <2>5. QED
    BY <2>1, <2>4 DEF HandlersInv
<1>3. CASE ~SendTask(j) /\ ~SendFinal(j)
  <2>1. UNCHANGED handlers
    BY <1>3 DEF SchedulerStep, Lower, StageFails, EnterStage, DispatchPanics, ReceiveLocations,
         ReceiveRows, ReceiveError, CompleteStage
  <2>2. QED
    BY <2>1 DEF HandlersInv
<1>4. QED
  BY <1>1, <1>2, <1>3

\* What the caller finds in a call after a reply.
LEMMA ReplyCalls ==
  ASSUME IInv, UNCHANGED scheduler, NEW h \in handlers, NEW s \in {"ok", "err"},
         NEW locs \in SUBSET Location, NEW rows \in Rows, Reply(h, s, locs, rows),
         s = "ok" /\ Awaited(h) =>
           IF AtFinalStage(h.job) THEN rows = Complete(query[h.job])
                                  ELSE locs = ReportOf(h.job, nextTask[h.job])
  PROVE  CallInv'
<1> USE DEF IInv
<1>q. UNCHANGED query
  BY DEF scheduler
<1>0. h.job \in Jobs
  BY DEF TypeOK, Handler
<1> SUFFICES ASSUME NEW k \in Jobs PROVE CallOf(k)'
  BY DEF CallInv
<1>1. UNCHANGED <<status[k], pc[k], cursor[k], nextTask[k]>> /\ (AtFinalStage(k)' <=> AtFinalStage(k))
  BY <1>q, QueryStays DEF scheduler, AtFinalStage
<1>2. CASE Awaited(h) /\ k = h.job
  <2>1. /\ call'[k].state = s /\ call'[k].locs = locs /\ call'[k].rows = rows
        /\ call[k].state = "waiting"
    BY <1>0, <1>2 DEF Reply, Answered, Awaited, TypeOK, Call
  <2>2. QED
    BY <1>1, <1>2, <1>q, <2>1, QueryStays DEF CallInv, CallOf
<1>3. CASE ~(Awaited(h) /\ k = h.job)
  <2>1. call'[k] = call[k]
    BY <1>0, <1>3 DEF Reply, TypeOK
  <2>2. QED
    BY <1>1, <1>q, <2>1, QueryStays DEF CallInv, CallOf
<1>4. QED
  BY <1>2, <1>3

\* The handlers' steps: the calls they answer.
LEMMA HandlerCalls ==
  ASSUME IInv, NEW h \in handlers, HandlerStep(h)
  PROVE  CallInv'
<1> USE DEF IInv
<1>0. /\ h \in Handler /\ h.job \in Jobs /\ h.locs \in SUBSET Location /\ h.rows \in Rows
      /\ {} \in SUBSET Location /\ NoRows \in Rows
  BY DEF TypeOK, Handler, NoRows, Rows
<1>s. UNCHANGED scheduler
  BY DEF HandlerStep, HandlerFails, DrainInput, SkipBucket, CreateFile, FinishFile,
       ReplyLocations, RefuseRemote, MissingFile, OpenFiles, ReplyRows
<1>1. CASE ReplyError(h)
  BY <1>0, <1>1, <1>s, ReplyCalls DEF ReplyError
<1>2. CASE ReplyLocations(h)
  <2>1. WriterInv(h) /\ h.at = TaskCount
    BY <1>2 DEF ReplyLocations, HandlersInv, WriterPc
  <2>2. h.locs = ReportOf(h.job, h.task)
    <3>1. \A r \in ReportOf(h.job, h.task) : r.part < TaskCount
      BY TaskCountNat DEF ReportOf, Partitions
    <3>2. QED
      BY <2>1, <3>1 DEF WriterInv
  <2>3. Awaited(h) => ~AtFinalStage(h.job) /\ nextTask[h.job] = h.task
    <3>1. HAVE Awaited(h)
    <3>2. cursor[h.job] - 1 = 0
      BY <1>0, <2>1, <3>1 DEF Awaited, CallInv, CallOf, WriterInv
    <3>3. ~AtFinalStage(h.job)
      BY <1>0, <2>1, <3>2 DEF AtFinalStage, WriterInv, TypeOK
    <3>4. QED
      BY <1>0, <3>1, <3>3 DEF Awaited, CallInv, CallOf
  <2>4. QED
    BY <1>0, <1>2, <1>s, <2>2, <2>3, ReplyCalls DEF ReplyLocations
<1>3. CASE h.pc = "drain" /\ Reply(h, "ok", {}, h.rows)
  <2>1. ReaderInv(h)
    BY <1>3 DEF HandlersInv, ReaderPc
  <2>2. Awaited(h) => AtFinalStage(h.job)
    <3>1. HAVE Awaited(h)
    <3>2. cursor[h.job] - 1 = h.stage /\ cursor[h.job] \in 1..3
      BY <1>0, <3>1 DEF Awaited, CallInv, CallOf, TypeOK
    <3>3. IsAggregate(h.job) => h.stage = 1
      BY <2>1 DEF ReaderInv
    <3>4. QED
      BY <3>2, <3>3 DEF AtFinalStage
  <2>3. h.rows = Complete(query[h.job])
    BY <1>3, <2>1 DEF ReaderInv
  <2>4. QED
    BY <1>0, <1>3, <1>s, <2>2, <2>3, ReplyCalls
<1>4. CASE UNCHANGED call
  <2>1. UNCHANGED query
    BY <1>s DEF scheduler
  <2>2. QED
    BY <1>4, <1>s, <2>1, QueryStays DEF CallInv, CallOf, AtFinalStage, scheduler
<1>5. QED
  BY <1>1, <1>2, <1>3, <1>4 DEF HandlerStep, HandlerFails, DrainInput, SkipBucket, CreateFile,
     FinishFile, RefuseRemote, MissingFile, OpenFiles, ReplyRows, Become

\* The handlers' steps: the files they write.
LEMMA HandlerDisk ==
  ASSUME IInv, NEW h \in handlers, HandlerStep(h)
  PROVE  DiskInv'
<1> USE DEF IInv
<1>q. UNCHANGED query
  BY QueryNeverChanges DEF Next
<1>1. CASE CreateFile(h)
  <2>1. \A d \in Dirs : \A f \in Path : disk'[d][f] = disk[d][f] \/ disk'[d][f].state = "torn"
    BY <1>1 DEF CreateFile, TypeOK
  <2>2. QED
    BY <1>q, <2>1 DEF DiskInv
<1>2. CASE FinishFile(h)
  <2>1. \A d \in Dirs : \A f \in Path :
          \/ disk'[d][f] = disk[d][f]
          \/ f = Writing(h) /\ disk'[d][f].groups = BucketOf(h)
    BY <1>2 DEF FinishFile, TypeOK
  <2>2. Writing(h).job = h.job /\ Writing(h).part = h.at
    BY DEF Writing, PartitionFile
  <2>3. QED
    BY <1>q, <2>1, <2>2 DEF DiskInv, BucketOf
<1>3. CASE UNCHANGED disk
  BY <1>3, <1>q DEF DiskInv
<1>4. QED
  BY <1>1, <1>2, <1>3 DEF HandlerStep, HandlerFails, DrainInput, SkipBucket, ReplyLocations,
     RefuseRemote, MissingFile, OpenFiles, ReplyRows

\* A bucket that is empty is not in the report; one that has just been
\* written is.
LEMMA NextReport ==
  ASSUME NEW h \in Handler, WriterInv(h), h.at < TaskCount
  PROVE  {r \in ReportOf(h.job, h.task) : r.part < h.at + 1}
           = h.locs \cup (IF BucketOf(h) = {} THEN {} ELSE {LocationOf(h)})
<1>1. h.at \in Partitions
  BY TaskCountNat DEF WriterInv, Partitions
<1>2. \A p \in Partitions : p < h.at + 1 <=> p < h.at \/ p = h.at
  BY <1>1, TaskCountNat DEF Partitions
<1>3. LocationOf(h) \in ReportOf(h.job, h.task) <=> BucketOf(h) # {}
  BY <1>1 DEF LocationOf, ReportOf, BucketOf, WriterInv, ShuffleStage
<1>4. \A r \in ReportOf(h.job, h.task) : r.part \in Partitions /\ (r.part = h.at <=> r = LocationOf(h))
  BY DEF ReportOf, LocationOf, WriterInv, ShuffleStage
<1>5. QED
  BY <1>2, <1>3, <1>4 DEF WriterInv

\* The handlers' steps: where they stand.
LEMMA HandlerHandlers ==
  ASSUME IInv, NEW h \in handlers, HandlerStep(h)
  PROVE  HandlersInv'
<1> USE DEF IInv
<1>0. h \in Handler
  BY DEF TypeOK
<1>q. UNCHANGED query
  BY QueryNeverChanges DEF Next
<1>t. handlers' \subseteq Handler
  BY HandlerType DEF TypeOK
<1> SUFFICES ASSUME NEW k \in handlers'
             PROVE  (k.pc \in WriterPc => WriterInv(k)) /\ (k.pc \in ReaderPc => ReaderInv(k))
  BY <1>q, <1>t, QueryStays DEF HandlersInv
<1>1. CASE k \in handlers
  BY <1>1 DEF HandlersInv
<1>2. CASE DrainInput(h) /\ k = [h EXCEPT !.pc = "write"]
  <2>1. WriterInv(h)
    BY <1>2 DEF DrainInput, HandlersInv, WriterPc
  <2>2. k.pc = "write" /\ k.job = h.job /\ k.stage = h.stage /\ k.task = h.task
        /\ k.exec = h.exec /\ k.at = h.at /\ k.locs = h.locs
    BY <1>0, <1>2 DEF Handler
  <2>3. QED
    BY <2>1, <2>2 DEF WriterInv, ReaderPc
<1>3. CASE SkipBucket(h) /\ k = [h EXCEPT !.at = @ + 1]
  <2>1. WriterInv(h) /\ h.at < TaskCount /\ BucketOf(h) = {}
    BY <1>3 DEF SkipBucket, HandlersInv, WriterPc
  <2>2. k.pc = "write" /\ k.job = h.job /\ k.stage = h.stage /\ k.task = h.task
        /\ k.exec = h.exec /\ k.at = h.at + 1 /\ k.locs = h.locs
    BY <1>0, <1>3 DEF Handler, SkipBucket
  <2>3. k.locs = {r \in ReportOf(k.job, k.task) : r.part < k.at}
    BY <1>0, <2>1, <2>2, NextReport
  <2>4. k.at \in 0..TaskCount
    BY <2>1, <2>2, TaskCountNat DEF WriterInv
  <2>5. QED
    BY <2>1, <2>2, <2>3, <2>4 DEF WriterInv, ReaderPc
<1>4. CASE CreateFile(h) /\ k = [h EXCEPT !.pc = "torn"]
  <2>1. WriterInv(h) /\ h.at < TaskCount /\ BucketOf(h) # {}
    BY <1>4 DEF CreateFile, HandlersInv, WriterPc
  <2>2. k.pc = "torn" /\ k.job = h.job /\ k.stage = h.stage /\ k.task = h.task
        /\ k.exec = h.exec /\ k.at = h.at /\ k.locs = h.locs
    BY <1>0, <1>4 DEF Handler
  <2>3. QED
    BY <2>1, <2>2 DEF WriterInv, ReaderPc, BucketOf
<1>5. CASE FinishFile(h) /\ k = NextBucket(h)
  <2>1. WriterInv(h) /\ h.at < TaskCount /\ BucketOf(h) # {}
    BY <1>5 DEF FinishFile, HandlersInv, WriterInv, WriterPc
  <2>2. k.pc = "write" /\ k.job = h.job /\ k.stage = h.stage /\ k.task = h.task
        /\ k.exec = h.exec /\ k.at = h.at + 1 /\ k.locs = h.locs \cup {LocationOf(h)}
    BY <1>0, <1>5 DEF Handler, NextBucket
  <2>3. k.locs = {r \in ReportOf(k.job, k.task) : r.part < k.at}
    BY <1>0, <2>1, <2>2, NextReport
  <2>4. k.at \in 0..TaskCount
    BY <2>1, <2>2, TaskCountNat DEF WriterInv
  <2>5. QED
    BY <2>1, <2>2, <2>3, <2>4 DEF WriterInv, ReaderPc
<1>6. CASE OpenFiles(h) /\ k = Drain(h, RowsRead(h))
  <2>1. ReaderInv(h) /\ RowsRead(h) = Complete(query[h.job])
    BY <1>6, OpenFilesReadsAll DEF OpenFiles, HandlersInv, ReaderPc
  <2>2. k.pc = "drain" /\ k.job = h.job /\ k.stage = h.stage /\ k.locs = h.locs /\ k.rows = RowsRead(h)
    BY <1>0, <1>6 DEF Handler, Drain
  <2>3. QED
    BY <2>1, <2>2 DEF ReaderInv, WriterPc
<1>7. QED
  BY <1>1, <1>2, <1>3, <1>4, <1>5, <1>6 DEF HandlerStep, HandlerFails, DrainInput, SkipBucket,
     CreateFile, FinishFile, ReplyLocations, RefuseRemote, MissingFile, OpenFiles, ReplyRows,
     Become, ReplyError, Reply

\* What goes wrong outside leaves the invariant alone: a call that breaks is
\* an error, a handler that dies is gone, a file that is removed is not
\* whole.
LEMMA FaultInv ==
  ASSUME IInv, Fault
  PROVE  AnswerInv' /\ ProgressInv' /\ CallInv' /\ HandlersInv' /\ DiskInv'
<1> USE DEF IInv
<1>q. UNCHANGED query
  BY QueryNeverChanges DEF Next
<1>1. AnswerInv' /\ ProgressInv'
  <2>1. UNCHANGED <<answer, progress>>
        /\ \A j \in Jobs : status'[j] = status[j]
                           \/ (status[j] # "done" /\ status'[j] # "done")
    BY DEF Fault, Crash, Restart, Cancel, Reset, Cleanup, End, scheduler, progress, TypeOK
  <2>2. AnswerInv'
    BY <1>q, <2>1 DEF AnswerInv
  <2>3. ProgressInv'
    BY <1>q, <2>1, QueryStays DEF ProgressInv, ProgressOf, AtFinalStage, progress
  <2>4. QED
    BY <2>2, <2>3
<1>2. CallInv'
  <2> SUFFICES ASSUME NEW j \in Jobs PROVE CallOf(j)'
    BY DEF CallInv
  <2>1. UNCHANGED progress
    BY DEF Fault, Crash, Restart, Cancel, Reset, Cleanup, End, scheduler, progress
  <2>2. \/ UNCHANGED <<status[j], call[j]>>
        \/ call'[j].state \in {"none", "err"}
    BY DEF Fault, Crash, Restart, Cancel, Reset, Cleanup, End, scheduler, TypeOK, NoCall, Broken, Call
  <2>3. QED
    BY <1>q, <2>1, <2>2, QueryStays DEF CallInv, CallOf, AtFinalStage, progress
<1>3. HandlersInv'
  <2>1. handlers' \subseteq handlers
    BY DEF Fault, Crash, Restart, Cancel, Reset, Cleanup
  <2>2. QED
    BY <1>q, <2>1, QueryStays DEF HandlersInv, TypeOK
<1>4. DiskInv'
  <2>1. \A d \in Dirs : \A f \in Path : disk'[d][f] \in {disk[d][f], NoFile}
    BY DEF Fault, Crash, Restart, Cancel, Reset, Cleanup, TypeOK
  <2>2. QED
    BY <1>q, <2>1 DEF DiskInv, NoFile
<1>5. QED
  BY <1>1, <1>2, <1>3, <1>4

LEMMA InitInv == Init => IInv
<1> SUFFICES ASSUME Init PROVE IInv
  OBVIOUS
<1>1. TypeOK
  <2>1. NoRows \in Rows /\ NoCall \in Call /\ NoFile \in File
    BY DEF NoRows, Rows, NoCall, Call, StageIds, NoFile, File
  <2>2. \A j \in Jobs : query[j] \in Query
    BY QueriesAssumption DEF Init
  <2>3. QED
    BY <2>1, <2>2, TaskCountNat, QueriesAssumption, BoundsAssumption DEF Init, TypeOK, StageIds
<1>2. AnswerInv
  BY DEF Init, AnswerInv
<1>3. ProgressInv
  BY DEF Init, ProgressInv, ProgressOf
<1>4. CallInv
  BY DEF Init, CallInv, CallOf, NoCall
<1>5. HandlersInv /\ DiskInv
  BY DEF Init, HandlersInv, DiskInv, NoFile
<1>6. QED
  BY <1>1, <1>2, <1>3, <1>4, <1>5 DEF IInv

LEMMA NextInv == IInv /\ [Next]_vars => IInv'
<1> SUFFICES ASSUME IInv, [Next]_vars PROVE IInv'
  OBVIOUS
<1>1. ASSUME NEW j \in Jobs, SchedulerStep(j) PROVE IInv'
  BY <1>1, SchedulerType, SchedulerProgress, SchedulerCalls, SchedulerHandlers DEF IInv
<1>2. ASSUME NEW h \in handlers, HandlerStep(h) PROVE IInv'
  <2>1. UNCHANGED scheduler
    BY <1>2 DEF HandlerStep, HandlerFails, DrainInput, SkipBucket, CreateFile, FinishFile,
         ReplyLocations, RefuseRemote, MissingFile, OpenFiles, ReplyRows
  <2>2. AnswerInv'
    BY <2>1 DEF IInv, AnswerInv, scheduler
  <2>3. ProgressInv'
    BY <2>1, QueryStays DEF IInv, ProgressInv, ProgressOf, AtFinalStage, scheduler
  <2>4. QED
    BY <1>2, <2>2, <2>3, HandlerType, HandlerCalls, HandlerHandlers, HandlerDisk DEF IInv
<1>3. CASE Fault
  BY <1>3, FaultType, FaultInv DEF IInv
<1>4. CASE UNCHANGED vars
  <2>1. UNCHANGED query
    BY <1>4 DEF vars, scheduler
  <2>2. TypeOK' /\ AnswerInv'
    BY <1>4 DEF IInv, TypeOK, AnswerInv, vars, scheduler, faults
  <2>3. ProgressInv' /\ CallInv'
    BY <1>4, <2>1, QueryStays
    DEF IInv, ProgressInv, ProgressOf, CallInv, CallOf, AtFinalStage, vars, scheduler
  <2>4. HandlersInv' /\ DiskInv'
    BY <1>4, <2>1, QueryStays DEF IInv, TypeOK, HandlersInv, DiskInv, vars
  <2>5. QED
    BY <2>2, <2>3, <2>4 DEF IInv
<1>5. QED
  BY <1>1, <1>2, <1>3, <1>4 DEF Next

THEOREM Invariance == Spec => []IInv
BY InitInv, NextInv, PTL DEF Spec
-----------------------------------------------------------------------------
(***************************************************************************)
(* The theorems.                                                           *)
(***************************************************************************)
\* Every variable keeps its type.
THEOREM TypeCorrect == Spec => []TypeOK
<1>1. IInv => TypeOK
  BY DEF IInv
<1>2. QED
  BY <1>1, Invariance, PTL

\* A caller is given the complete answer of its query or no row at all, for
\* every cluster, every query, any number of jobs at once and any number of
\* crashes, resets, cancellations and cleanups.
THEOREM AnswersAreAllOrNothing == Spec => []AllOrNothing
<1>1. IInv => AllOrNothing
  BY DEF IInv, AnswerInv, AllOrNothing
<1>2. QED
  BY <1>1, Invariance, PTL

\* The final stage of an aggregate is handed the whole report of every task.
THEOREM FinalStageIsToldEverything == Spec => []FinalStageReadsEverything
<1>1. IInv => FinalStageReadsEverything
  <2>1. \A j : FullReport(j) = UNION {ReportOf(j, t) : t \in Partitions}
    BY DEF FullReport, Reports, Partitions
  <2>2. QED
    BY <2>1 DEF IInv, HandlersInv, ReaderInv, FinalStageReadsEverything, IsAggregate
<1>2. QED
  BY <1>1, Invariance, PTL

\* The two Internal errors of Scheduler::execute are unreachable.
THEOREM InternalErrorsAreUnreachable == Spec => []PlanIsWellFormed
<1>1. IInv => PlanIsWellFormed
  <2> SUFFICES ASSUME IInv, NEW j \in Jobs PROVE HasStage(j) /\ DepsMet(j)
    BY DEF PlanIsWellFormed
  <2>1. cursor[j] \in 1..3 /\ query[j].shape \in Shapes
    BY DEF IInv, TypeOK, Query
  <2>2. cursor[j] = 1 \/ (cursor[j] = 2 /\ IsAggregate(j) /\ 0 \in completed[j])
    BY DEF IInv, ProgressInv, ProgressOf
  <2>3. QED
    BY <2>1, <2>2, StageCases DEF DepsMet
<1>2. QED
  BY <1>1, Invariance, PTL

LEMMA StepKeepsThePromise ==
  IInv /\ [Next]_vars => [Abstract!JobNext]_(Abstract!jobVars)
<1> SUFFICES ASSUME IInv, [Next]_vars
             PROVE  Abstract!JobNext \/ UNCHANGED <<status, query, answer>>
  BY DEF Abstract!jobVars
<1>q. UNCHANGED query
  BY QueryNeverChanges
<1>1. ASSUME NEW j \in Jobs, SchedulerStep(j)
      PROVE  Abstract!JobNext \/ UNCHANGED <<status, query, answer>>
  <2>1. CASE Lower(j)
    BY <1>q, <2>1 DEF Lower, End, Abstract!JobNext, Abstract!Start, Abstract!GiveUp, Abstract!Ended
  <2>2. CASE StageFails(j) \/ DispatchPanics(j) \/ ReceiveError(j)
    BY <1>q, <2>2 DEF StageFails, DispatchPanics, ReceiveError, AtLoop, SendsTask, SendsFinal, End,
       Abstract!JobNext, Abstract!GiveUp, Abstract!Ended
  <2>3. CASE ReceiveRows(j)
    <3>1. cursor[j] \in 1..3 /\ query[j].shape \in Shapes
      BY DEF IInv, TypeOK, Query
    <3>2. AtFinalStage(j)
      BY <2>3, <3>1, StageCases DEF ReceiveRows, IInv, ProgressInv, ProgressOf, AtFinalStage
    <3>3. call[j].rows = Complete(query[j])
      BY <2>3, <3>2 DEF ReceiveRows, IInv, CallInv, CallOf
    <3>4. Complete(query[j]) = Abstract!Complete(query[j])
      BY DEF Complete, Abstract!Complete, Abstract!Times
    <3>5. Abstract!Answer(j)
      BY <1>q, <2>3, <3>3, <3>4 DEF ReceiveRows, Abstract!Answer
    <3>6. QED
      BY <3>5 DEF Abstract!JobNext
  <2>4. CASE EnterStage(j) \/ SendTask(j) \/ SendFinal(j) \/ ReceiveLocations(j) \/ CompleteStage(j)
    BY <2>4 DEF EnterStage, SendTask, SendFinal, Send, ReceiveLocations, CompleteStage
  <2>5. QED
    BY <1>1, <2>1, <2>2, <2>3, <2>4 DEF SchedulerStep
<1>2. ASSUME NEW h \in handlers, HandlerStep(h) PROVE UNCHANGED <<status, query, answer>>
  BY <1>2 DEF HandlerStep, HandlerFails, DrainInput, SkipBucket, CreateFile, FinishFile,
     ReplyLocations, RefuseRemote, MissingFile, OpenFiles, ReplyRows, scheduler
<1>3. ASSUME NEW j \in Jobs, Cancel(j) PROVE Abstract!JobNext
  BY <1>q, <1>3 DEF Cancel, End, Abstract!JobNext, Abstract!GiveUp, Abstract!Ended
<1>4. CASE Fault
  BY <1>3, <1>4 DEF Fault, Crash, Restart, Reset, Cleanup, scheduler
<1>5. CASE UNCHANGED vars
  BY <1>5 DEF vars, scheduler
<1>6. QED
  BY <1>1, <1>2, <1>4, <1>5 DEF Next

\* The scheduler, its executors, their files and everything that happens to
\* them implement the promise to the caller.
THEOREM ImplementsThePromise == Spec => KeepsThePromise
<1>1. Init => Abstract!JobInit
  <2> SUFFICES ASSUME Init PROVE Abstract!JobInit
    OBVIOUS
  <2>1. query \in [Jobs -> Query]
    BY QueriesAssumption DEF Init
  <2>2. answer = [j \in Jobs |-> Abstract!Times(0, {})]
    BY DEF Init, NoRows, Abstract!Times
  <2>3. \A q \in Query : q \in [shape: Shapes, groups: SUBSET Groups, encodable: BOOLEAN, executors: Nat]
    BY ListedExecutors DEF Query
  <2>4. QED
    BY <2>1, <2>2, <2>3 DEF Init, Abstract!JobInit
<1>2. IInv /\ [Next]_vars => [Abstract!JobNext]_(Abstract!jobVars)
  BY StepKeepsThePromise
<1>3. QED
  BY <1>1, <1>2, Invariance, PTL DEF Spec, KeepsThePromise, Abstract!JobSpec
-----------------------------------------------------------------------------
(***************************************************************************)
(* OneHandlerPerJob, ReportedFilesStay and AnswersAreFinal: who may work   *)
(* for a job, and what becomes of the files a job has been told to read,   *)
(* with any number of other jobs, of orphans and of faults around it.      *)
(***************************************************************************)
\* A job has at most one handler; while the job runs, it is the one the
\* scheduler's call started, and that call has not been answered.
SoleHandler(h) ==
  /\ \A k \in handlers : k.job = h.job => k = h
  /\ status[h.job] \in {"running", "failed", "cancelled"}
  /\ status[h.job] = "running" =>
       /\ pc[h.job] = "await"
       /\ call[h.job].state \in {"waiting", "err"}
       /\ call[h.job].stage = h.stage /\ call[h.job].task = h.task /\ call[h.job].exec = h.exec

SoleInv == \A h \in handlers : SoleHandler(h)

\* What job j has been told to read, and what its writer is going to tell.
IsTold(j, l) ==
  \/ l \in Reported(j)
  \/ \E h \in handlers : h.job = j /\ h.pc \in WriterPc /\ l \in h.locs

DirOf(l) == ShuffleDir[ExecutorOf(l.task)]

\* Only a cleanup takes a file away that was written.
Gone(f) == f.state = "absent" /\ cleanups > 0

Rewrites(h, l) == h.pc = "torn" /\ Writing(h) = FileOf(l) /\ Dir(h) = DirOf(l)

\* The file is there, was cleaned up, or is being written over right now.
FileKept(l) ==
  \/ disk[DirOf(l)][FileOf(l)].state = "whole"
  \/ Gone(disk[DirOf(l)][FileOf(l)])
  \/ disk[DirOf(l)][FileOf(l)].state = "torn" /\ \E h \in handlers : Rewrites(h, l)

LocationOfJob(j, l) == l \in Location /\ l.job = j /\ ExecutorOf(l.task) \in Executors

\* The job has not ended, and nothing it waited for went wrong.
OnCourse(j) == status[j] \in {"idle", "running"} /\ call[j].state # "err"

FilesOf(j) == OnCourse(j) => \A l : IsTold(j, l) => LocationOfJob(j, l) /\ FileKept(l)

FilesInv == \A j \in Jobs : FilesOf(j)

\* A file that is open for writing stays torn, unless it is cleaned up.
TornInv ==
  \A h \in handlers : h.pc = "torn" =>
    OnDisk(h, Writing(h)).state = "torn" \/ Gone(OnDisk(h, Writing(h)))

\* A scheduler that waits for nothing has no broken call left over.
NoStaleErrors ==
  \A j \in Jobs : status[j] \in {"idle", "running"} /\ pc[j] # "await" => call[j].state # "err"

FInv == IInv /\ SoleInv /\ NoStaleErrors /\ TornInv /\ FilesInv
-----------------------------------------------------------------------------
(***************************************************************************)
(* One handler for a job.                                                  *)
(***************************************************************************)
\* A scheduler that is not waiting for an answer has no handler.
LEMMA NoHandlerUnlessAwaited ==
  ASSUME SoleInv, NEW j \in Jobs, NEW h \in handlers,
         \/ status[j] \in {"idle", "done", "panicked"}
         \/ status[j] = "running" /\ (pc[j] # "await" \/ call[j].state \in {"none", "ok"})
  PROVE  h.job # j
BY DEF SoleInv, SoleHandler

\* The scheduler's steps: a handler is started by a job that has none.
LEMMA SchedulerSole ==
  ASSUME IInv, SoleInv, NEW j \in Jobs, SchedulerStep(j)
  PROVE  SoleInv'
<1> SUFFICES ASSUME NEW h \in handlers' PROVE SoleHandler(h)'
  BY DEF SoleInv
<1> USE DEF IInv
<1>1. \A k \in Jobs : k # j => UNCHANGED <<status[k], pc[k], call[k]>>
  BY DEF SchedulerStep, Lower, StageFails, EnterStage, DispatchPanics, SendTask, SendFinal,
     Send, ReceiveLocations, ReceiveRows, ReceiveError, CompleteStage, End, progress, TypeOK
<1>2. \A k \in handlers : k.job \in Jobs
  BY DEF TypeOK, Handler
<1>3. CASE ReceiveError(j)
  BY <1>1, <1>2, <1>3 DEF ReceiveError, End, progress, SoleInv, SoleHandler, TypeOK
<1>4. CASE ~ReceiveError(j)
  <2>1. \A k \in handlers : k.job # j
    BY <1>4, NoHandlerUnlessAwaited
    DEF SchedulerStep, Lower, StageFails, EnterStage, DispatchPanics, SendTask, SendFinal,
        SendsTask, SendsFinal, AtLoop, ReceiveLocations, ReceiveRows, CompleteStage
  <2>2. CASE h \in handlers
    <3>1. SoleHandler(h) /\ h.job # j
      BY <2>1, <2>2 DEF SoleInv
    <3>2. \A k \in handlers' : k \in handlers \/ k.job = j
      BY DEF SchedulerStep, Lower, StageFails, EnterStage, DispatchPanics, SendTask, SendFinal,
         Send, ReceiveLocations, ReceiveRows, ReceiveError, CompleteStage
    <3>3. QED
      BY <1>1, <1>2, <2>2, <3>1, <3>2 DEF SoleHandler
  <2>3. ASSUME NEW stage, NEW task, NEW exec, NEW start, NEW locs, h \notin handlers,
               status[j] = "running", Send(j, stage, task, exec, start, locs)
        PROVE  SoleHandler(h)'
    <3> DEFINE new == [job |-> j, stage |-> stage, task |-> task, exec |-> exec,
                       pc |-> start, at |-> 0, locs |-> locs, rows |-> NoRows]
    <3>1. h = new /\ handlers' = handlers \cup {new}
      BY <2>3 DEF Send
    <3>2. status'[j] = "running" /\ pc'[j] = "await"
      BY <2>3 DEF Send, TypeOK
    <3>3. call'[j].state \in {"waiting", "err"} /\ call'[j].stage = stage /\ call'[j].task = task
        /\ call'[j].exec = exec
      BY <2>3 DEF Send, TypeOK
    <3>4. h.job = j /\ h.stage = stage /\ h.task = task /\ h.exec = exec
      BY <3>1
    <3>5. \A k \in handlers' : k.job = j => k = h
      BY <2>1, <3>1
    <3>6. QED
      BY <3>2, <3>3, <3>4, <3>5 DEF SoleHandler
  <2>4. CASE h \notin handlers
    <3>1. SendTask(j) \/ SendFinal(j)
      BY <2>4 DEF SchedulerStep, Lower, StageFails, EnterStage, DispatchPanics, ReceiveLocations,
         ReceiveRows, ReceiveError, CompleteStage
    <3>2. QED
      BY <2>3, <2>4, <3>1 DEF SendTask, SendFinal, SendsTask, SendsFinal, AtLoop
  <2>5. QED
    BY <2>2, <2>4
<1>5. QED
  BY <1>3, <1>4

\* What a handler's step makes of the handlers: it is gone, or it goes on
\* for the same task and leaves the calls alone.
GoesOn(h, k) ==
  /\ k.job = h.job /\ k.stage = h.stage /\ k.task = h.task /\ k.exec = h.exec
  /\ handlers' = (handlers \ {h}) \cup {k} /\ UNCHANGED call

LEMMA HandlerEndsOrGoesOn ==
  ASSUME TypeOK, NEW h \in handlers, HandlerStep(h)
  PROVE  handlers' = handlers \ {h} \/ \E k \in handlers' : GoesOn(h, k)
<1>0. h \in Handler
  BY DEF TypeOK
<1>1. CASE DrainInput(h)
  BY <1>0, <1>1 DEF DrainInput, Become, GoesOn, Handler
<1>2. CASE SkipBucket(h)
  BY <1>0, <1>2 DEF SkipBucket, Become, GoesOn, Handler
<1>3. CASE CreateFile(h)
  BY <1>0, <1>3 DEF CreateFile, Become, GoesOn, Handler
<1>4. CASE FinishFile(h)
  BY <1>0, <1>4 DEF FinishFile, Become, NextBucket, GoesOn, Handler
<1>5. CASE OpenFiles(h)
  BY <1>0, <1>5 DEF OpenFiles, Become, Drain, GoesOn, Handler
<1>6. QED
  BY <1>1, <1>2, <1>3, <1>4, <1>5
  DEF HandlerStep, HandlerFails, ReplyLocations, RefuseRemote, MissingFile, ReplyRows, Reply, ReplyError

\* A handler answers nobody but the caller of its own job.
LEMMA OtherCallsStay ==
  ASSUME TypeOK, NEW h \in handlers, HandlerStep(h), NEW j \in Jobs, j # h.job
  PROVE  call'[j] = call[j]
BY DEF HandlerStep, HandlerFails, DrainInput, SkipBucket, CreateFile, FinishFile, ReplyLocations,
   RefuseRemote, MissingFile, OpenFiles, ReplyRows, Become, Reply, ReplyError, TypeOK

LEMMA HandlerLeavesScheduler ==
  ASSUME NEW h \in handlers, HandlerStep(h)
  PROVE  UNCHANGED scheduler /\ UNCHANGED cleanups
BY DEF HandlerStep, HandlerFails, DrainInput, SkipBucket, CreateFile, FinishFile,
   ReplyLocations, RefuseRemote, MissingFile, OpenFiles, ReplyRows, faults

\* The handlers' steps: each goes on alone.
LEMMA HandlerSole ==
  ASSUME IInv, SoleInv, NEW h \in handlers, HandlerStep(h)
  PROVE  SoleInv'
<1> USE DEF IInv
<1>1. UNCHANGED <<status, pc>>
  BY HandlerLeavesScheduler DEF scheduler
<1>2. \A k \in handlers : k.job \in Jobs /\ (k # h => k.job # h.job)
  BY DEF TypeOK, Handler, SoleInv, SoleHandler
<1>3. CASE handlers' = handlers \ {h}
  BY <1>1, <1>2, <1>3, OtherCallsStay DEF SoleInv, SoleHandler
<1>4. ASSUME NEW k \in handlers', GoesOn(h, k) PROVE SoleInv'
  BY <1>1, <1>2, <1>4 DEF SoleInv, SoleHandler, GoesOn
<1>5. QED
  BY <1>3, <1>4, HandlerEndsOrGoesOn

\* The faults: no handler is started, and a call that breaks stays the call
\* it was.
LEMMA FaultSole ==
  ASSUME IInv, SoleInv, Fault
  PROVE  SoleInv'
<1> USE DEF IInv
<1>1. handlers' \subseteq handlers
  BY DEF Fault, Crash, Restart, Cancel, Reset, Cleanup
<1>2. UNCHANGED pc
  BY DEF Fault, Crash, Restart, Cancel, Reset, Cleanup, End, scheduler, progress
<1>3. ASSUME NEW j \in Jobs
      PROVE  \/ status'[j] = "cancelled"
             \/ /\ UNCHANGED status[j]
                /\ \/ UNCHANGED call[j]
                   \/ call[j].state = "waiting" /\ call'[j] = Broken(call[j])
  BY DEF Fault, Crash, Restart, Cancel, Reset, Cleanup, End, scheduler, TypeOK
<1>4. \A c \in Call : Broken(c).state = "err" /\ Broken(c).exec = c.exec
                       /\ Broken(c).stage = c.stage /\ Broken(c).task = c.task
  BY DEF Broken, Call
<1>5. \A h \in handlers : h.job \in Jobs /\ call[h.job] \in Call
  BY DEF TypeOK, Handler
<1>6. QED
  BY <1>1, <1>2, <1>3, <1>4, <1>5 DEF SoleInv, SoleHandler
-----------------------------------------------------------------------------
(***************************************************************************)
(* The files a job has been told to read.                                  *)
(***************************************************************************)
\* A writer writes where its location will say.
LEMMA WriterPlace ==
  ASSUME IInv, NEW h \in handlers, h.pc \in WriterPc, h.at < TaskCount
  PROVE  /\ Dir(h) \in Dirs /\ Writing(h) \in Path /\ Writing(h).job = h.job
         /\ FileOf(LocationOf(h)) = Writing(h) /\ DirOf(LocationOf(h)) = Dir(h)
         /\ LocationOfJob(h.job, LocationOf(h))
<1>1. h \in Handler /\ WriterInv(h)
  BY DEF IInv, TypeOK, HandlersInv
<1>2. h.at \in Partitions
  BY <1>1, TaskCountNat DEF WriterInv, Partitions
<1>3. ServerId[h.exec] \in Ids /\ ShuffleDir[h.exec] \in Dirs
  BY <1>1, ExecutorsAssumption DEF Handler
<1>4. LocationOf(h) \in Location
  BY <1>1, <1>2, <1>3 DEF LocationOf, Location, Handler, WriterInv
<1>5. Writing(h) \in Path /\ Writing(h).job = h.job
  BY <1>1, <1>2 DEF Writing, PartitionFile, Path, Handler, WriterInv, StageIds
<1>6. FileOf(LocationOf(h)) = Writing(h) /\ DirOf(LocationOf(h)) = Dir(h)
  BY <1>1 DEF FileOf, LocationOf, Writing, PartitionFile, DirOf, Dir, WriterInv
<1>7. QED
  BY <1>1, <1>3, <1>4, <1>5, <1>6 DEF LocationOfJob, LocationOf, WriterInv, Handler, Dir

LEMMA LocationPlace ==
  ASSUME NEW j, NEW l, LocationOfJob(j, l)
  PROVE  DirOf(l) \in Dirs /\ FileOf(l) \in Path /\ FileOf(l).job = j
BY ExecutorsAssumption DEF LocationOfJob, Location, DirOf, FileOf, PartitionFile, Path

\* A handler writes files of its own job only.
LEMMA OtherFilesStay ==
  ASSUME IInv, NEW h \in handlers, HandlerStep(h), NEW d \in Dirs, NEW f \in Path, f.job # h.job
  PROVE  disk'[d][f] = disk[d][f]
<1>1. Writing(h).job = h.job
  BY DEF Writing, PartitionFile
<1>2. QED
  BY <1>1, ZenonT(40) DEF IInv, TypeOK, HandlerStep, HandlerFails, DrainInput, SkipBucket, CreateFile, FinishFile,
     ReplyLocations, RefuseRemote, MissingFile, OpenFiles, ReplyRows

\* The file a handler creates is torn, and it is the only one to touch it.
LEMMA HandlerTorn ==
  ASSUME IInv, SoleInv, TornInv, NEW h \in handlers, HandlerStep(h)
  PROVE  TornInv'
<1> SUFFICES ASSUME NEW k \in handlers', k.pc = "torn"
             PROVE  OnDisk(k, Writing(k))'.state = "torn" \/ Gone(OnDisk(k, Writing(k)))'
  BY DEF TornInv
<1>0. h \in Handler /\ UNCHANGED cleanups
  BY HandlerLeavesScheduler DEF IInv, TypeOK
<1>1. CASE k \in handlers /\ k.job # h.job
  <2>1. k.at < TaskCount
    BY <1>1 DEF IInv, HandlersInv, WriterInv, WriterPc
  <2>2. disk'[Dir(k)][Writing(k)] = disk[Dir(k)][Writing(k)]
    BY <1>1, <2>1, WriterPlace, OtherFilesStay DEF WriterPc
  <2>3. QED
    BY <1>0, <1>1, <2>2 DEF TornInv, OnDisk, Gone, Dir, Writing
<1>2. CASE CreateFile(h) /\ k = [h EXCEPT !.pc = "torn"]
  <2>1. Dir(h) \in Dirs /\ Writing(h) \in Path
    BY <1>2, WriterPlace DEF CreateFile, WriterPc
  <2>2. Dir(k) = Dir(h) /\ Writing(k) = Writing(h)
    BY <1>0, <1>2 DEF Dir, Writing, Handler
  <2>3. disk'[Dir(h)][Writing(h)].state = "torn"
    BY <1>2, <2>1 DEF CreateFile, IInv, TypeOK
  <2>4. QED
    BY <2>2, <2>3 DEF OnDisk, Dir, Writing
<1>3. CASE k \in handlers /\ k # h
  BY <1>1, <1>3 DEF SoleInv, SoleHandler
<1>4. CASE (DrainInput(h) /\ k = [h EXCEPT !.pc = "write"]) \/ (SkipBucket(h) /\ k = [h EXCEPT !.at = @ + 1])
        \/ (FinishFile(h) /\ k = NextBucket(h)) \/ (OpenFiles(h) /\ k = Drain(h, RowsRead(h)))
  BY <1>0, <1>4 DEF Handler, NextBucket, Drain, SkipBucket
<1>5. QED
  BY <1>2, <1>3, <1>4 DEF HandlerStep, HandlerFails, DrainInput, SkipBucket, CreateFile, FinishFile,
     ReplyLocations, RefuseRemote, MissingFile, OpenFiles, ReplyRows, Become, Reply, ReplyError

\* What a job has been told, or is about to be, does not grow and stays
\* where it is.
LEMMA FilesFrame ==
  ASSUME NEW j, FilesOf(j), OnCourse(j)' => OnCourse(j), \A l : IsTold(j, l)' => IsTold(j, l),
         \A d \in Dirs : \A f \in Path : f.job = j => disk'[d][f] = disk[d][f],
         UNCHANGED cleanups,
         \A h \in handlers : h.job = j /\ h.pc = "torn" => h \in handlers'
  PROVE  FilesOf(j)'
<1> SUFFICES ASSUME OnCourse(j), NEW l, IsTold(j, l)' PROVE LocationOfJob(j, l)' /\ FileKept(l)'
  BY DEF FilesOf
<1>1. LocationOfJob(j, l) /\ FileKept(l)
  BY DEF FilesOf
<1>2. LocationOfJob(j, l)'
  BY <1>1 DEF LocationOfJob
<1>3. disk'[DirOf(l)][FileOf(l)] = disk[DirOf(l)][FileOf(l)]
  BY <1>1, LocationPlace
<1>4. \A h \in handlers : Rewrites(h, l) => h \in handlers' /\ Rewrites(h, l)'
  <2>1. \A h \in handlers : Rewrites(h, l) => h.job = j
    BY <1>1 DEF Rewrites, Writing, FileOf, PartitionFile, LocationOfJob
  <2>2. QED
    BY <2>1 DEF Rewrites, Writing, Dir
<1>5. FileKept(l)'
  BY <1>1, <1>3, <1>4 DEF FileKept, Gone, DirOf
<1>6. QED
  BY <1>2, <1>5

\* The calls: an error is received by the scheduler that waits for it.
LEMMA CallErrors ==
  ASSUME IInv, NoStaleErrors, [Next]_vars
  PROVE  NoStaleErrors'
<1> USE DEF IInv
<1> SUFFICES ASSUME NEW k \in Jobs, status'[k] \in {"idle", "running"}, pc'[k] # "await"
             PROVE  call'[k].state # "err"
  BY DEF NoStaleErrors
<1>1. ASSUME NEW j \in Jobs, SchedulerStep(j) PROVE call'[k].state # "err"
  <2>1. CASE k # j
    <3>1. UNCHANGED <<status[k], pc[k], call[k]>>
      BY <1>1, <2>1 DEF SchedulerStep, Lower, StageFails, EnterStage, DispatchPanics, SendTask, SendFinal,
         Send, ReceiveLocations, ReceiveRows, ReceiveError, CompleteStage, End, progress, TypeOK
    <3>2. QED
      BY <3>1 DEF NoStaleErrors
  <2>2. CASE k = j /\ (ReceiveLocations(j) \/ ReceiveRows(j) \/ ReceiveError(j))
    BY <2>2 DEF ReceiveLocations, ReceiveRows, ReceiveError, NoCall, TypeOK
  <2>3. CASE k = j /\ (SendTask(j) \/ SendFinal(j))
    BY <2>3 DEF SendTask, SendFinal, Send, TypeOK
  <2>4. CASE k = j /\ (Lower(j) \/ StageFails(j) \/ EnterStage(j) \/ DispatchPanics(j) \/ CompleteStage(j))
    BY <2>4 DEF NoStaleErrors, Lower, StageFails, EnterStage, DispatchPanics, CompleteStage, End,
       AtLoop, SendsTask, SendsFinal, progress, TypeOK
  <2>5. QED
    BY <1>1, <2>1, <2>2, <2>3, <2>4 DEF SchedulerStep
<1>2. ASSUME NEW h \in handlers, HandlerStep(h) PROVE call'[k].state # "err"
  <2>1. UNCHANGED <<status, pc>>
    BY <1>2, HandlerLeavesScheduler DEF scheduler
  <2>2. call'[k] = call[k] \/ (k = h.job /\ Awaited(h))
    BY <1>2 DEF HandlerStep, HandlerFails, DrainInput, SkipBucket, CreateFile, FinishFile, ReplyLocations,
       RefuseRemote, MissingFile, OpenFiles, ReplyRows, Become, Reply, ReplyError, TypeOK
  <2>3. k = h.job /\ Awaited(h) => pc[k] = "await"
    BY DEF Awaited, CallInv, CallOf
  <2>4. QED
    BY <2>1, <2>2, <2>3 DEF NoStaleErrors
<1>3. CASE Fault
  <2>1. UNCHANGED pc
    BY <1>3 DEF Fault, Crash, Restart, Cancel, Reset, Cleanup, End, scheduler, progress
  <2>2. status'[k] = status[k] /\ (call'[k] = call[k] \/ call[k].state = "waiting")
    BY <1>3 DEF Fault, Crash, Restart, Cancel, Reset, Cleanup, End, scheduler, TypeOK
  <2>3. call[k].state = "waiting" => pc[k] = "await"
    BY DEF CallInv, CallOf
  <2>4. QED
    BY <2>1, <2>2, <2>3 DEF NoStaleErrors
<1>4. CASE UNCHANGED vars
  BY <1>4 DEF NoStaleErrors, vars, scheduler
<1>5. QED
  BY <1>1, <1>2, <1>3, <1>4 DEF Next

LEMMA ReportedParts ==
  ASSUME NEW j, NEW l
  PROVE  /\ l \in Reported(j) <=>
              l \in gathered[j] \/ (\E s \in StageIds : l \in located[j][s]) \/ l \in call[j].locs
         /\ (l \in Reported(j))' <=>
              l \in gathered'[j] \/ (\E s \in StageIds : l \in located'[j][s]) \/ l \in call'[j].locs
BY DEF Reported

\* The scheduler's steps: it moves what it was told, and forgets it.
LEMMA SchedulerFiles ==
  ASSUME FInv, NEW j \in Jobs, SchedulerStep(j)
  PROVE  FilesInv'
<1> USE DEF FInv, IInv
<1> SUFFICES ASSUME NEW k \in Jobs PROVE FilesOf(k)'
  BY DEF FilesInv
<1>1. UNCHANGED <<disk, cleanups>> /\ handlers \subseteq handlers'
  BY DEF SchedulerStep, Lower, StageFails, EnterStage, DispatchPanics, SendTask, SendFinal,
     Send, ReceiveLocations, ReceiveRows, ReceiveError, CompleteStage, faults
<1>2. \A h \in handlers' : h \in handlers \/ h.job # k \/ h.pc \notin WriterPc \/ h.locs = {}
  BY DEF SchedulerStep, Lower, StageFails, EnterStage, DispatchPanics, SendTask, SendFinal,
     Send, ReceiveLocations, ReceiveRows, ReceiveError, CompleteStage, WriterPc
<1>3. FilesOf(k)
  BY DEF FilesInv
<1>4. CASE k # j
  <2>1. UNCHANGED <<status[k], gathered[k], located[k], call[k]>>
    BY <1>4 DEF SchedulerStep, Lower, StageFails, EnterStage, DispatchPanics, SendTask, SendFinal,
       Send, ReceiveLocations, ReceiveRows, ReceiveError, CompleteStage, End, progress, TypeOK
  <2>2. QED
    BY <1>1, <1>2, <1>3, <2>1, FilesFrame DEF OnCourse, IsTold, Reported
<1>5. ASSUME k = j, OnCourse(j)' => OnCourse(j), Reported(j)' \subseteq Reported(j)
      PROVE  FilesOf(k)'
  BY <1>1, <1>2, <1>3, <1>5, FilesFrame DEF IsTold
<1>6. CASE k = j /\ (Lower(j) \/ StageFails(j) \/ DispatchPanics(j))
  BY <1>5, <1>6 DEF Lower, StageFails, DispatchPanics, End, progress, AtLoop, SendsTask, SendsFinal,
     OnCourse, Reported, TypeOK
<1>7. CASE k = j /\ ReceiveError(j)
  BY <1>7 DEF ReceiveError, End, FilesOf, OnCourse, TypeOK
<1>8. CASE k = j /\ EnterStage(j)
  BY <1>5, <1>8 DEF EnterStage, OnCourse, Reported, TypeOK
<1>9. CASE k = j /\ (SendTask(j) \/ SendFinal(j))
  <2>1. status[j] = "running" /\ pc[j] # "await"
    BY <1>9 DEF SendTask, SendFinal, SendsTask, SendsFinal, AtLoop
  <2>2. OnCourse(j)
    BY <2>1 DEF OnCourse, NoStaleErrors
  <2>3. call'[j].locs = {} /\ UNCHANGED <<gathered, located>>
    BY <1>9 DEF SendTask, SendFinal, Send, TypeOK
  <2>4. QED
    BY <1>5, <1>9, <2>2, <2>3 DEF Reported
<1>10. CASE k = j /\ (ReceiveLocations(j) \/ ReceiveRows(j))
  <2>1. OnCourse(j) /\ call'[j].locs = {} /\ UNCHANGED located
    BY <1>10 DEF ReceiveLocations, ReceiveRows, OnCourse, NoCall, progress, TypeOK
  <2>2. gathered'[j] \subseteq gathered[j] \cup call[j].locs
    BY <1>10 DEF ReceiveLocations, ReceiveRows, progress, TypeOK
  <2>3. Reported(j)' \subseteq Reported(j)
    <3> SUFFICES ASSUME NEW l, (l \in Reported(j))' PROVE l \in Reported(j)
      OBVIOUS
    <3>1. l \in gathered'[j] \/ \E s \in StageIds : l \in located[j][s]
      BY <2>1, ReportedParts
    <3>2. QED
      BY <2>2, <3>1, ReportedParts
  <2>4. QED
    BY <1>5, <1>10, <2>1, <2>3
<1>11. CASE k = j /\ CompleteStage(j)
  <2>1. OnCourse(j)' => OnCourse(j)
    BY <1>11 DEF CompleteStage, OnCourse
  <2>2. \A s \in StageIds : located'[j][s] \in {located[j][s], gathered[j]}
    BY <1>11 DEF CompleteStage, TypeOK
  <2>3. Reported(j)' \subseteq Reported(j)
    BY <1>11, <2>2 DEF CompleteStage, Reported
  <2>4. QED
    BY <1>5, <1>11, <2>1, <2>3
<1>12. QED
  BY <1>4, <1>6, <1>7, <1>8, <1>9, <1>10, <1>11 DEF SchedulerStep

\* The handlers' steps: the writer of a job is the only one at its files.
LEMMA HandlerFiles ==
  ASSUME FInv, NEW h \in handlers, HandlerStep(h)
  PROVE  FilesInv'
<1> USE DEF FInv, IInv
<1> SUFFICES ASSUME NEW j \in Jobs PROVE FilesOf(j)'
  BY DEF FilesInv
<1>0. h \in Handler /\ UNCHANGED <<status, pc, gathered, located, cleanups>>
  BY HandlerLeavesScheduler DEF TypeOK, scheduler
<1>1. FilesOf(j)
  BY DEF FilesInv
<1>2. CASE j # h.job
  <2>1. call'[j] = call[j]
    BY <1>2, OtherCallsStay
  <2>2. \A k \in handlers' : k \in handlers \/ k.job = h.job
    BY HandlerEndsOrGoesOn DEF GoesOn
  <2>3. \A k \in handlers : k.job = j => k \in handlers'
    BY <1>2, HandlerEndsOrGoesOn DEF GoesOn
  <2>4. \A d \in Dirs : \A f \in Path : f.job = j => disk'[d][f] = disk[d][f]
    BY <1>2, OtherFilesStay
  <2>5. QED
    BY <1>0, <1>1, <1>2, <2>1, <2>2, <2>3, <2>4, FilesFrame DEF OnCourse, IsTold, Reported
<1>3. CASE j = h.job
  <2>1. \A k \in handlers : k.job = j => k = h
    BY <1>3 DEF SoleInv, SoleHandler
  <2>2. OnCourse(j)' => OnCourse(j)
    <3>1. call'[j] = call[j] \/ call[j].state = "waiting"
      BY <1>3 DEF HandlerStep, HandlerFails, DrainInput, SkipBucket, CreateFile, FinishFile, ReplyLocations,
         RefuseRemote, MissingFile, OpenFiles, ReplyRows, Become, Reply, ReplyError, Awaited, TypeOK
    <3>2. QED
      BY <1>0, <3>1 DEF OnCourse
  <2>3. CASE ReplyError(h)
    <3> SUFFICES ~OnCourse(j)'
      BY DEF FilesOf
    <3>1. status[j] = "running" => call[j].state = "err" \/ Awaited(h)
      BY <1>3 DEF SoleInv, SoleHandler, Awaited
    <3>2. Awaited(h) => call'[j].state = "err"
      BY <1>3, <2>3 DEF ReplyError, Reply, Answered, TypeOK, Call
    <3>3. ~Awaited(h) => UNCHANGED call
      BY <2>3 DEF ReplyError, Reply
    <3>4. status[j] # "idle"
      BY <1>3 DEF SoleInv, SoleHandler
    <3>5. QED
      BY <1>0, <3>1, <3>2, <3>3, <3>4 DEF OnCourse
  <2>4. CASE DrainInput(h) \/ SkipBucket(h) \/ OpenFiles(h)
    <3>1. UNCHANGED <<disk, call>> /\ h.pc # "torn"
      BY <2>4 DEF DrainInput, SkipBucket, OpenFiles, Become
    <3>2. \A k \in handlers' : k \in handlers \/ k.pc \notin WriterPc \/ (h.pc \in WriterPc /\ k.locs = h.locs)
      BY <1>0, <2>4 DEF DrainInput, SkipBucket, OpenFiles, Become, Drain, Handler, WriterPc
    <3>3. \A l : IsTold(j, l)' => IsTold(j, l)
      BY <1>0, <1>3, <3>1, <3>2 DEF IsTold, Reported
    <3>4. QED
      BY <1>0, <1>1, <2>1, <2>2, <3>1, <3>3, FilesFrame
  <2>5. CASE ReplyLocations(h) \/ (ReplyRows(h) /\ Reply(h, "ok", {}, h.rows))
    <3>1. UNCHANGED disk /\ h.pc # "torn" /\ handlers' \subseteq handlers
      BY <2>5 DEF ReplyLocations, ReplyRows, Reply
    <3>2. call'[j].locs = call[j].locs \/ call'[j].locs = {} \/ (h.pc \in WriterPc /\ call'[j].locs = h.locs)
      <4>1. ReplyLocations(h) => h.pc \in WriterPc /\ Reply(h, "ok", h.locs, NoRows)
        BY DEF ReplyLocations, WriterPc
      <4>2. ASSUME NEW locs \in SUBSET Location, NEW rows, Reply(h, "ok", locs, rows)
            PROVE  call'[j].locs \in {call[j].locs, locs}
        BY <1>3, <4>2 DEF Reply, Answered, TypeOK, Call
      <4>3. QED
        BY <1>0, <2>5, <4>1, <4>2 DEF Handler
    <3>3. ASSUME NEW l, IsTold(j, l)' PROVE IsTold(j, l)
      <4>1. (l \in Reported(j))' \/ \E k \in handlers : k.job = j /\ k.pc \in WriterPc /\ l \in k.locs
        BY <3>1, <3>3 DEF IsTold
      <4>2. (l \in Reported(j))' => l \in Reported(j) \/ (h.pc \in WriterPc /\ l \in h.locs)
        BY <1>0, <3>2, ReportedParts
      <4>3. QED
        BY <1>3, <4>1, <4>2 DEF IsTold
    <3>4. QED
      BY <1>0, <1>1, <2>1, <2>2, <3>1, <3>3, FilesFrame
  <2>6. ASSUME CreateFile(h) \/ FinishFile(h), OnCourse(j)', NEW l, IsTold(j, l)'
        PROVE  LocationOfJob(j, l)' /\ FileKept(l)'
    <3>0. h.pc \in WriterPc /\ h.at < TaskCount /\ UNCHANGED call
      BY <2>6 DEF CreateFile, FinishFile, Become, HandlersInv, WriterInv, WriterPc
    <3>1. IsTold(j, l) \/ l = LocationOf(h)
      <4>1. \A k \in handlers' : k \in handlers \/ k.locs = h.locs \/ k.locs = h.locs \cup {LocationOf(h)}
        <5>1. CreateFile(h) => \A k \in handlers' : k \in handlers \/ k.locs = h.locs
          BY <1>0 DEF CreateFile, Become, Handler
        <5>2. FinishFile(h) => \A k \in handlers' : k \in handlers \/ k.locs = h.locs \cup {LocationOf(h)}
          BY <1>0 DEF FinishFile, Become, NextBucket, Handler
        <5>3. QED
          BY <2>6, <5>1, <5>2
      <4>2. QED
        BY <1>0, <1>3, <2>6, <3>0, <4>1 DEF IsTold, Reported
    <3>2. LocationOfJob(j, l) /\ (FileKept(l) \/ l = LocationOf(h))
      BY <1>1, <1>3, <2>2, <2>6, <3>0, <3>1, WriterPlace DEF FilesOf
    <3>3. /\ DirOf(l) \in Dirs /\ FileOf(l) \in Path
          /\ Dir(h) \in Dirs /\ Writing(h) \in Path
      BY <3>0, <3>2, LocationPlace, WriterPlace
    <3>4. CASE DirOf(l) = Dir(h) /\ FileOf(l) = Writing(h)
      <4>1. CASE CreateFile(h)
        <5> DEFINE k == [h EXCEPT !.pc = "torn"]
        <5>1. disk'[DirOf(l)][FileOf(l)].state = "torn" /\ k \in handlers'
          BY <3>3, <3>4, <4>1 DEF CreateFile, Become, TypeOK
        <5>2. k.pc = "torn" /\ k.exec = h.exec /\ k.job = h.job /\ k.stage = h.stage /\ k.at = h.at
          BY <1>0 DEF Handler
        <5>3. Rewrites(k, l)'
          BY <3>4, <5>2 DEF Rewrites, Writing, Dir, DirOf
        <5>4. FileKept(l)'
          BY <5>1, <5>3 DEF FileKept, DirOf
        <5>5. QED
          BY <3>2, <5>4 DEF LocationOfJob
      <4>2. CASE FinishFile(h)
        <5>1. OnDisk(h, Writing(h)).state = "torn" \/ Gone(OnDisk(h, Writing(h)))
          BY <4>2 DEF FinishFile, TornInv
        <5>2. disk'[DirOf(l)][FileOf(l)].state = "whole" \/ Gone(disk'[DirOf(l)][FileOf(l)])
          BY <3>3, <3>4, <4>2, <5>1 DEF FinishFile, OnDisk, Gone, TypeOK
        <5>3. FileKept(l)'
          BY <1>0, <5>2 DEF FileKept, DirOf, Gone
        <5>4. QED
          BY <3>2, <5>3 DEF LocationOfJob
      <4>3. QED
        BY <2>6, <4>1, <4>2
    <3>5. CASE ~(DirOf(l) = Dir(h) /\ FileOf(l) = Writing(h))
      <4>1. disk'[DirOf(l)][FileOf(l)] = disk[DirOf(l)][FileOf(l)]
        BY <2>6, <3>3, <3>5 DEF CreateFile, FinishFile, TypeOK
      <4>2. FileKept(l)
        BY <3>0, <3>2, <3>5, WriterPlace
      <4>3. \A k \in handlers : Rewrites(k, l) => k = h
        BY <1>3, <2>1, <3>2 DEF Rewrites, Writing, FileOf, PartitionFile, LocationOfJob
      <4>4. FileKept(l)'
        BY <1>0, <3>5, <4>1, <4>2, <4>3 DEF FileKept, Gone, Rewrites, DirOf
      <4>5. QED
        BY <3>2, <4>4 DEF LocationOfJob
    <3>6. QED
      BY <3>4, <3>5
  <2>7. CASE CreateFile(h) \/ FinishFile(h)
    BY <2>6, <2>7 DEF FilesOf
  <2>8. QED
    BY <2>3, <2>4, <2>5, <2>7 DEF HandlerStep, HandlerFails, RefuseRemote, MissingFile, ReplyRows
<1>4. QED
  BY <1>2, <1>3

\* The faults: a file that is removed was cleaned up, and a writer that dies
\* is missed by its caller.
LEMMA FaultFiles ==
  ASSUME FInv, Fault
  PROVE  FilesInv' /\ TornInv'
<1> USE DEF FInv, IInv
<1>1. handlers' \subseteq handlers /\ UNCHANGED <<gathered, located>>
  BY DEF Fault, Crash, Restart, Cancel, Reset, Cleanup, End, scheduler, progress
<1>2. \/ UNCHANGED <<disk, cleanups>>
      \/ /\ cleanups' > 0
         /\ \A d \in Dirs : \A f \in Path : disk'[d][f] \in {disk[d][f], NoFile}
  BY BoundsAssumption DEF Fault, Crash, Restart, Cancel, Reset, Cleanup, End, scheduler, TypeOK, faults
<1>3. \A d \in Dirs : \A f \in Path :
        \/ disk'[d][f] = disk[d][f] /\ (Gone(disk[d][f]) => Gone(disk[d][f])')
        \/ Gone(disk[d][f])'
  BY <1>2 DEF Gone, NoFile
<1>4. TornInv'
  <2> SUFFICES ASSUME NEW h \in handlers, h.pc = "torn"
               PROVE  OnDisk(h, Writing(h))'.state = "torn" \/ Gone(OnDisk(h, Writing(h)))'
    BY <1>1 DEF TornInv
  <2>1. Dir(h) \in Dirs /\ Writing(h) \in Path
    BY WriterPlace DEF HandlersInv, WriterInv, WriterPc
  <2>2. QED
    BY <1>3, <2>1 DEF TornInv, OnDisk, Gone, Dir, Writing
<1>5. FilesInv'
  <2> SUFFICES ASSUME NEW j \in Jobs, OnCourse(j)', NEW l, IsTold(j, l)'
               PROVE  LocationOfJob(j, l)' /\ FileKept(l)'
    BY DEF FilesInv, FilesOf
  <2>1. status'[j] = status[j] /\ call'[j] = call[j] /\ OnCourse(j)
    BY DEF Fault, Crash, Restart, Cancel, Reset, Cleanup, End, scheduler, TypeOK, OnCourse, Broken, Call
  <2>2. IsTold(j, l)
    BY <1>1, <2>1 DEF IsTold, Reported
  <2>3. LocationOfJob(j, l) /\ FileKept(l)
    BY <2>1, <2>2 DEF FilesInv, FilesOf
  <2>4. \A h \in handlers : h.job = j => h \in handlers'
    <3>1. SUFFICES ASSUME NEW e \in Executors, Crash(e), NEW h \in handlers, h.job = j, h.exec = e
                   PROVE  FALSE
      BY DEF Fault, Crash, Restart, Cancel, Reset, Cleanup
    <3>2. call[j].state = "waiting" /\ call[j].exec = h.exec
      BY <2>1, <3>1 DEF SoleInv, SoleHandler, OnCourse
    <3>3. QED
      BY <2>1, <3>1, <3>2 DEF Crash, Broken, TypeOK, Call
  <2>5. \A h \in handlers : Rewrites(h, l) => h \in handlers' /\ Rewrites(h, l)'
    BY <2>3, <2>4 DEF Rewrites, Writing, FileOf, PartitionFile, LocationOfJob, Dir, DirOf
  <2>6. DirOf(l) \in Dirs /\ FileOf(l) \in Path
    BY <2>3, LocationPlace
  <2>7. FileKept(l)'
    BY <1>3, <2>3, <2>5, <2>6 DEF FileKept, Gone, DirOf
  <2>8. QED
    BY <2>3, <2>7 DEF LocationOfJob
<1>6. QED
  BY <1>4, <1>5
-----------------------------------------------------------------------------
(***************************************************************************)
(* The theorems.                                                           *)
(***************************************************************************)
LEMMA FilesInitInv == Init => FInv
<1> SUFFICES ASSUME Init PROVE FInv
  OBVIOUS
<1>1. SoleInv /\ TornInv
  BY DEF Init, SoleInv, TornInv
<1>2. NoStaleErrors
  BY DEF Init, NoStaleErrors, NoCall
<1>3. \A j \in Jobs : \A l : ~IsTold(j, l)
  BY ReportedParts DEF Init, IsTold, NoCall
<1>4. FilesInv
  BY <1>3 DEF FilesInv, FilesOf
<1>5. QED
  BY <1>1, <1>2, <1>4, InitInv DEF FInv

LEMMA FilesNextInv == FInv /\ [Next]_vars => FInv'
<1> SUFFICES ASSUME FInv, [Next]_vars PROVE FInv'
  OBVIOUS
<1>1. IInv' /\ NoStaleErrors'
  BY NextInv, CallErrors DEF FInv
<1>2. ASSUME NEW j \in Jobs, SchedulerStep(j) PROVE SoleInv' /\ TornInv' /\ FilesInv'
  <2>1. UNCHANGED <<disk, cleanups>> /\ \A h \in handlers' : h \in handlers \/ h.pc # "torn"
    BY <1>2 DEF SchedulerStep, Lower, StageFails, EnterStage, DispatchPanics, SendTask, SendFinal,
       Send, ReceiveLocations, ReceiveRows, ReceiveError, CompleteStage, faults
  <2>2. TornInv'
    BY <2>1 DEF FInv, TornInv, OnDisk, Gone, Dir, Writing
  <2>3. QED
    BY <1>2, <2>2, SchedulerSole, SchedulerFiles DEF FInv
<1>3. ASSUME NEW h \in handlers, HandlerStep(h) PROVE SoleInv' /\ TornInv' /\ FilesInv'
  BY <1>3, HandlerSole, HandlerTorn, HandlerFiles DEF FInv
<1>4. ASSUME Fault PROVE SoleInv' /\ TornInv' /\ FilesInv'
  BY <1>4, FaultSole, FaultFiles DEF FInv
<1>5. ASSUME UNCHANGED vars PROVE SoleInv' /\ TornInv' /\ FilesInv'
  <2>1. SoleInv' /\ TornInv'
    BY <1>5 DEF FInv, SoleInv, SoleHandler, TornInv, OnDisk, Gone, Dir, Writing, vars, scheduler, faults
  <2>2. FilesInv'
    <3>1. ASSUME NEW j \in Jobs PROVE FilesOf(j)'
      BY <1>5, FilesFrame DEF FInv, FilesInv, OnCourse, IsTold, Reported, vars, scheduler, faults
    <3>2. QED
      BY <3>1 DEF FilesInv
  <2>3. QED
    BY <2>1, <2>2
<1>6. QED
  BY <1>1, <1>2, <1>3, <1>4, <1>5 DEF Next, FInv

THEOREM FilesInvariance == Spec => []FInv
BY FilesInitInv, FilesNextInv, PTL DEF Spec

\* A job never has two handlers, an answered job has none, and the handler of
\* a running job is the one its scheduler waits for.
THEOREM OneHandlerAtATime == Spec => []OneHandlerPerJob
<1>1. FInv => OneHandlerPerJob
  BY DEF FInv, SoleInv, SoleHandler, OneHandlerPerJob
<1>2. QED
  BY <1>1, FilesInvariance, PTL

\* What a job has been told to read stays on disk as it was reported, until
\* somebody cleans it up: no orphan, no other job and no later task of the
\* same job can spoil it for its reader.
THEOREM ReportedFilesAreKept == Spec => []ReportedFilesStay
<1>1. FInv => ReportedFilesStay
  <2> SUFFICES ASSUME FInv, NEW j \in Jobs, status[j] = "running", call[j].state # "err",
                      \A h \in handlers : h.job = j => h.pc \in ReaderPc,
                      NEW l \in Reported(j)
               PROVE  LET f == disk[ShuffleDir[ExecutorOf(l.task)]][FileOf(l)] IN
                      \/ f.state = "whole" /\ f.groups = Bucket(query[j].groups, l.part)
                      \/ f.state = "absent" /\ cleanups > 0
    BY DEF ReportedFilesStay
  <2>1. LocationOfJob(j, l) /\ FileKept(l)
    BY DEF FInv, FilesInv, FilesOf, OnCourse, IsTold
  <2>2. ~\E h \in handlers : Rewrites(h, l)
    BY <2>1 DEF Rewrites, Writing, FileOf, PartitionFile, LocationOfJob, ReaderPc
  <2>3. DirOf(l) \in Dirs /\ FileOf(l) \in Path /\ FileOf(l).job = j /\ FileOf(l).part = l.part
    BY <2>1, LocationPlace DEF FileOf, PartitionFile
  <2>4. QED
    BY <2>1, <2>2, <2>3 DEF FileKept, Gone, DirOf, FInv, IInv, DiskInv
<1>2. QED
  BY <1>1, FilesInvariance, PTL

\* After the answer nothing is taken back and nothing is written: the files
\* of a finished job can only be removed.
THEOREM AnswersStayFinal == Spec => AnswersAreFinal
<1> DEFINE Kept(j) == /\ status'[j] = "done" /\ answer'[j] = answer[j]
                      /\ \A d \in Dirs : \A f \in Path : f.job = j => disk'[d][f] \in {disk[d][f], NoFile}
<1>1. FInv /\ [Next]_vars => \A j \in Jobs : status[j] = "done" => Kept(j)
  <2> SUFFICES ASSUME FInv, [Next]_vars, NEW j \in Jobs, status[j] = "done" PROVE Kept(j)
    OBVIOUS
  <2>1. ASSUME NEW k \in Jobs, SchedulerStep(k) PROVE Kept(j)
    BY <2>1 DEF SchedulerStep, Lower, StageFails, EnterStage, DispatchPanics, SendTask, SendFinal, SendsTask,
       SendsFinal, AtLoop, Send, ReceiveLocations, ReceiveRows, ReceiveError, CompleteStage, End, FInv, IInv, TypeOK
  <2>2. ASSUME NEW h \in handlers, HandlerStep(h) PROVE Kept(j)
    <3>1. h.job # j
      BY NoHandlerUnlessAwaited DEF FInv
    <3>2. UNCHANGED <<status, answer>>
      BY <2>2, HandlerLeavesScheduler DEF scheduler
    <3>3. QED
      BY <2>2, <3>1, <3>2, OtherFilesStay DEF FInv
  <2>3. CASE Fault
    <3>1. status'[j] = "done" /\ answer'[j] = answer[j]
      BY <2>3 DEF Fault, Crash, Restart, Cancel, Reset, Cleanup, End, scheduler, FInv, IInv, TypeOK
    <3>2. \A d \in Dirs : \A f \in Path : disk'[d][f] \in {disk[d][f], NoFile}
      BY <2>3 DEF Fault, Crash, Restart, Cancel, Reset, Cleanup, FInv, IInv, TypeOK
    <3>3. QED
      BY <3>1, <3>2
  <2>4. CASE UNCHANGED vars
    BY <2>4 DEF vars, scheduler
  <2>5. QED
    BY <2>1, <2>2, <2>3, <2>4 DEF Next
<1>2. QED
  BY <1>1, FilesInvariance, PTL DEF Spec, AnswersAreFinal
=============================================================================
