-------------------------- MODULE ParallelAggregate --------------------------
(***************************************************************************)
(* ParallelContext::execute_parallel_aggregate: an aggregate at the root   *)
(* of a plan runs as one partial aggregate per rayon worker, over the      *)
(* batches dealt to it, and a final aggregate over what they return.  With *)
(* one worker it runs as it is.  The rows and the names of columns are     *)
(* those of GroupedAggregate.                                              *)
(***************************************************************************)
EXTENDS GroupedAggregate

CONSTANTS
  Columns,       \* the number of columns of the source
  Sources,       \* the inputs: sequences of batches, each a sequence of rows
  Queries,       \* the aggregates that may be asked
  Parallelisms,  \* the worker counts a context may be built with
  MaxWorkers,    \* bound on them
  MaxErrors      \* bound on the errors of expressions and inputs

ASSUME ColumnsAssumption     == Columns \in Nat
ASSUME SourcesAssumption     == Sources \subseteq Seq(Seq([1..Columns -> Int32 \cup {Null}]))
ASSUME QueriesAssumption     ==
  Queries \subseteq [group : Seq(1..Columns), aggs : Seq([func : AggregateFunctionKind, arg : 1..Columns])]
ASSUME ParallelismAssumption == MaxWorkers \in Nat \ {0} /\ Parallelisms \subseteq 0..MaxWorkers
ASSUME ErrorsAssumption      == MaxErrors \in Nat

VARIABLES
  build,        \* is overflow checked ("checked") or not ("wrapping")
  parallelism,  \* ParallelContext.parallelism
  query,        \* the aggregate
  source,       \* the batches of the input
  phase,        \* where execute_parallel_aggregate, then its stream, stands
  worker,       \* what each worker is doing
  bucket,       \* the batches each worker has still to read
  partial,      \* the groups of each worker's partial aggregate
  output,       \* the rows of each worker that the final aggregate has to read
  map,          \* the groups of the final, or only, aggregate
  answer,       \* the rows handed to the caller
  errors        \* how many expressions and inputs have failed

given == <<build, parallelism, query, source>>
vars  == <<given, phase, worker, bucket, partial, output, map, answer, errors>>

Workers == 0..(MaxWorkers - 1)
Ended   == {"done", "failed", "panicked"}

Rows == FlattenSeq(source)

Init ==
  /\ build \in {"checked", "wrapping"}
  /\ parallelism \in Parallelisms
  /\ query \in Queries
  /\ source \in Sources
  /\ phase = "start"
  /\ worker = [w \in Workers |-> "none"]
  /\ bucket = [w \in Workers |-> <<>>]
  /\ partial = [w \in Workers |-> NoGroups]
  /\ output = [w \in Workers |-> {}]
  /\ map = NoGroups
  /\ answer = {}
  /\ errors = 0

\* The scan of the source, which has only the referenced columns.
Scanned(batch) == [i \in DOMAIN batch |-> Scan(query, batch[i])]

Checked == build = "checked"
-----------------------------------------------------------------------------
(***************************************************************************)
(* One worker: the aggregate runs as it is.                                *)
(***************************************************************************)
StartSingle ==
  /\ phase = "start" /\ parallelism <= 1
  /\ phase' = "single"
  /\ bucket' = [bucket EXCEPT ![0] = source]
  /\ UNCHANGED <<given, worker, partial, output, map, answer, errors>>

SingleBatch ==
  /\ phase = "single" /\ bucket[0] # <<>>
  /\ LET batch == Scanned(Head(bucket[0])) IN
       IF Checked /\ BatchOverflows("Single", query, map, batch)
       THEN phase' = "panicked" /\ UNCHANGED <<map, bucket>>
       ELSE /\ map' = FeedBatch("Single", query, map, batch)
            /\ bucket' = [bucket EXCEPT ![0] = Tail(@)]
            /\ UNCHANGED phase
  /\ UNCHANGED <<given, worker, partial, output, answer, errors>>

SingleEmits ==
  /\ phase = "single" /\ bucket[0] = <<>>
  /\ phase' = "done"
  /\ answer' = FinalRows(query, map)
  /\ UNCHANGED <<given, worker, bucket, partial, output, map, errors>>
-----------------------------------------------------------------------------
(***************************************************************************)
(* Several workers.                                                        *)
(***************************************************************************)
\* The batches of worker w, dealt in turn.
Dealt(w) ==
  [i \in 1..((Len(source) + parallelism - 1 - w) \div parallelism) |->
     source[w + 1 + (i - 1) * parallelism]]

\* The input is read to its end and dealt; a worker without a batch is not
\* run.
Distribute ==
  /\ phase = "start" /\ parallelism > 1
  /\ phase' = "partial"
  /\ bucket' = [w \in Workers |-> IF w < parallelism THEN Dealt(w) ELSE <<>>]
  /\ worker' = [w \in Workers |-> IF w < parallelism /\ Dealt(w) # <<>> THEN "waiting" ELSE "none"]
  /\ UNCHANGED <<given, partial, output, map, answer, errors>>

\* The pool has a thread for the worker.
StartWorker(w) ==
  /\ phase = "partial" /\ worker[w] = "waiting"
  /\ worker' = [worker EXCEPT ![w] = "running"]
  /\ UNCHANGED <<given, phase, bucket, partial, output, map, answer, errors>>

WorkerBatch(w) ==
  /\ worker[w] = "running" /\ bucket[w] # <<>>
  /\ LET batch == Scanned(Head(bucket[w])) IN
       IF Checked /\ BatchOverflows("Partial", query, partial[w], batch)
       THEN worker' = [worker EXCEPT ![w] = "panicked"] /\ UNCHANGED <<partial, bucket>>
       ELSE /\ partial' = [partial EXCEPT ![w] = FeedBatch("Partial", query, @, batch)]
            /\ bucket' = [bucket EXCEPT ![w] = Tail(@)]
            /\ UNCHANGED worker
  /\ UNCHANGED <<given, phase, output, map, answer, errors>>

\* An expression cannot be evaluated.
WorkerFails(w) ==
  /\ worker[w] = "running" /\ bucket[w] # <<>> /\ errors < MaxErrors
  /\ worker' = [worker EXCEPT ![w] = "failed"]
  /\ errors' = errors + 1
  /\ UNCHANGED <<given, phase, bucket, partial, output, map, answer>>

\* The output batch, or an error if an average has to go into it.
WorkerEmits(w) ==
  /\ worker[w] = "running" /\ bucket[w] = <<>>
  /\ IF MapHasPartials(query, partial[w])
     THEN /\ worker' = [worker EXCEPT ![w] = "done"]
          /\ output' = [output EXCEPT ![w] = PartialRows(query, partial[w])]
     ELSE worker' = [worker EXCEPT ![w] = "failed"] /\ UNCHANGED output
  /\ UNCHANGED <<given, phase, bucket, partial, map, answer, errors>>

Statuses == {worker[w] : w \in Workers}

\* Mutant: a worker that failed is waited for.
JoinedInSuccess == Statuses \subseteq {"none", "done"}

\* rayon joins the workers it has started; after a panic it need not start
\* the others.
Joined == "running" \notin Statuses /\ ("waiting" \in Statuses => "panicked" \in Statuses)

\* Mutant: the workers that failed are left out.
CollectWhatThereIs ==
  /\ phase = "partial" /\ Joined
  /\ phase' = IF "panicked" \in Statuses THEN "panicked" ELSE "final"
  /\ UNCHANGED <<given, worker, bucket, partial, output, map, answer, errors>>

\* A panic is passed on, the first error is returned, and no batch at all is
\* an empty result.
Collect ==
  /\ phase = "partial" /\ Joined
  /\ phase' = IF "panicked" \in Statuses THEN "panicked"
              ELSE IF "failed" \in Statuses THEN "failed"
              ELSE IF "done" \in Statuses THEN "final"
              ELSE "done"
  /\ UNCHANGED <<given, worker, bucket, partial, output, map, answer, errors>>

\* The next batch of the final aggregate.
NextOutput == CHOOSE w \in Workers : output[w] # {} /\ \A v \in Workers : v < w => output[v] = {}

\* It reads the rows of a batch in the order another HashMap gave them.
FinalRow ==
  /\ phase = "final" /\ \E w \in Workers : output[w] # {}
  /\ \E row \in output[NextOutput] :
       IF ~RowMerges(query, row)
       THEN phase' = "failed" /\ UNCHANGED <<map, output>>
       ELSE IF Checked /\ RowOverflows("Final", query, map, row)
       THEN phase' = "panicked" /\ UNCHANGED <<map, output>>
       ELSE /\ map' = Feed("Final", query, map, row)
            /\ output' = [output EXCEPT ![NextOutput] = @ \ {row}]
            /\ UNCHANGED phase
  /\ UNCHANGED <<given, worker, bucket, partial, answer, errors>>

FinalEmits ==
  /\ phase = "final" /\ \A w \in Workers : output[w] = {}
  /\ phase' = "done"
  /\ answer' = FinalRows(query, map)
  /\ UNCHANGED <<given, worker, bucket, partial, output, map, errors>>

\* The input, or an expression outside the workers, fails.
Fails ==
  /\ phase \in {"start", "single", "final"} /\ errors < MaxErrors
  /\ phase' = "failed"
  /\ errors' = errors + 1
  /\ UNCHANGED <<given, worker, bucket, partial, output, map, answer>>

WorkerStep(w) == StartWorker(w) \/ WorkerBatch(w) \/ WorkerFails(w) \/ WorkerEmits(w)

MainStep ==
  \/ StartSingle \/ SingleBatch \/ SingleEmits
  \/ Distribute \/ Collect \/ FinalRow \/ FinalEmits \/ Fails

Next == MainStep \/ \E w \in Workers : WorkerStep(w)

\* The pool runs every worker that was handed to it, and the caller polls
\* the stream.
FairSpec == Init /\ [][Next]_vars /\ WF_vars(MainStep) /\ \A w \in Workers : WF_vars(WorkerStep(w))
-----------------------------------------------------------------------------
\* However the rows are cut into batches, dealt and interleaved, and in
\* whatever order the partial rows are merged, the answer is the aggregate of
\* all the rows, with the same overflows (execute_partial_aggregate,
\* execute_final_aggregate, Accumulator::merge): provided that the columns of
\* the scan lie as those of the partial result.
AnswersAgree ==
  phase = "done" /\ (parallelism > 1 => Aligned(query)) => answer = Reference(query, Rows)

\* Everything a worker that has finished hands on is the aggregate of the
\* batches that were dealt to it, and all of them are handed on or waiting:
\* nothing is merged before every worker has succeeded.
AllWorkersOrNone ==
  phase = "final" \/ (phase = "done" /\ parallelism > 1) =>
    \A w \in Workers :
      /\ worker[w] = IF w < parallelism /\ Dealt(w) # <<>> THEN "done" ELSE "none"
      /\ PartialRows(query, partial[w]) =
           IF worker[w] = "none" THEN {} ELSE Reference(query, FlattenSeq(Dealt(w)))

\* A value to average.
Averages ==
  \E k \in DOMAIN query.aggs :
    query.aggs[k].func = "AVG" /\ \E i \in DOMAIN Rows : Rows[i][query.aggs[k].arg] # Null

\* An average with a count: the count of a group wraps, and if it comes to 0
\* the average is taken for one of no values.
AveragesCounted ==
  \E k \in DOMAIN query.aggs, i \in DOMAIN Rows :
    /\ query.aggs[k].func = "AVG"
    /\ Wrap(Cardinality(Places(query, k, Rows, NamedKey(query, Rows[i])))) # 0

\* A counter that leaves the range of i32 if nothing wraps.
CountOverflows ==
  \E k \in DOMAIN query.aggs, i \in DOMAIN Rows :
    /\ query.aggs[k].func \in {"COUNT", "AVG"}
    /\ Cardinality(Places(query, k, Rows, NamedKey(query, Rows[i]))) \notin Int32

\* A query fails only if something in it has failed, except for an average,
\* which several workers answer only if all it has counted wraps to 0 (its
\* partial state does not fit into a cell); and it panics only where the
\* count it would have to give does not fit, whether one worker counts it or
\* several.
NoErrorWithoutCause ==
  (parallelism > 1 => Aligned(query)) =>
    /\ phase = "failed" => errors > 0 \/ (parallelism > 1 /\ Averages)
    /\ phase = "panicked" => Checked /\ CountOverflows
    /\ phase = "done" => ~(Checked /\ CountOverflows) /\ ~(parallelism > 1 /\ AveragesCounted)

\* Every aggregate ends, with rows, an error or a panic, whichever workers
\* fail.
EveryAggregateEnds == <>(phase \in Ended)
=============================================================================
