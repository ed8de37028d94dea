# fdapquery: a TLA+ model

fdapquery is a query engine in Rust: SQL or DataFrame calls become a logical
plan, an optimizer and a planner turn it into a tree of `ExecutionPlan`
operators, and that tree runs in one process, over rayon workers, or, for an
aggregate at the root, in two stages on a cluster of Arrow Flight executors.
This directory holds a TLA+ model of its core logic, the TLC configurations
that check the model on small instances, and TLAPS proofs of the results that
hold for every instance. Source paths below are relative to the repository.

## 1. The system

| Component | State it keeps | Operations | Hard behaviour |
|---|---|---|---|
| Distributed scheduler (`fdapquery-distributed/src/scheduler.rs`, `execution_plans/distributed_query.rs`) | stage loop, `locations_by_stage`, `all_locations`, the call it awaits | `execute`, `execute_stage`, `execute_final_stage` | no retry, no timeout; a dropped stream drops the future at any await; panics on plans it cannot encode |
| Distributed planner (`distributed_planner.rs`) | none | `plan`, `substitute_shuffle_locations` | the two stages must agree on what they exchange |
| Shuffle writer and manager (`shuffle_writer_exec.rs`, `shuffle_manager.rs`) | files `<base>/<job>/stage_<s>/part_<p>.arrow` | `write_shuffle`, `write_partition`, `read_partition`, `cleanup_job` | files are truncated before they are written, survive the process, and are written by several tasks at the same path |
| Shuffle reader (`shuffle_reader_exec.rs`) | locations given by the scheduler | `execute` | locations may be stale, remote, or listed more than once |
| Flight server (`fdap_query_flight_producer.rs`, `standalone.rs`) | none between calls | `do_action`, `do_get`, `spawn` | handlers that write do not yield, so they outlive their caller; start-up handshake between two threads |
| Flight client (`flight_executor_client.rs`, `client.rs`) | one channel per call | `execute_task`, `execute_final_task` | connection errors |
| Aggregation (`aggregate_exec.rs`, accumulators of `fdapquery-physical-expr`) | group map of accumulators | `accumulate`, `merge`, `final_value`, `intermediate_value` | partial and final results must add up to the single-stage ones; integer widths |
| Parallel context (`fdapquery/src/parallel_context.rs`) | worker buckets | `execute_parallel_aggregate` | rayon workers, errors of some of them |
| Streams (`global_limit_exec.rs`, `local_limit_exec.rs`, `sorts/sort.rs`, `filter_exec.rs`, `projection_exec.rs`, `memory_exec.rs`) | counters, buffered batches | one `poll` per batch | limits that end inside a batch or at its edge, empty batches |
| Hash join (`hash_join_exec.rs`) | build table, keys found | build, probe | three join types, NULL keys, excluded columns |
| Session and configuration (`session_context.rs`, `session_state.rs`, `task_context.rs`, `config.rs`) | table registry, settings twice, the parts of a state | `with_*`, `set`, `build`, `register_*`, `sql`, `execute`, `standalone`, `standalone_with_state` | two views of one setting; settings on their way from a map, a builder or a state to a task |
| Planner and optimizer (`physical_planner.rs`, `projection_push_down_rule.rs`) | none | `create_physical_plan`, `optimize` | names become positions |
| SQL front end (`fdapquery-sql`), logical plans (`fdapquery-expr`) | none | `select_to_plan`, `schema` | names, aliases and aggregates in a plan |
| Physical expressions (`fdapquery-physical-expr`) | none | `evaluate`, `evaluate_selection`, `accumulate` | nulls, overflow, casts, the order of numbers of two kinds |
| Encoding of plans (`fdapquery-proto`) | none | `serialize_*`, `deserialize_*` | what does not travel; the other side opens the file again |
| Data sources (`fdapquery-catalog`) | schema of a file | `infer_schema`, `scan` | header, separator, order of columns |
| Metrics (`metrics.rs`) | shared counters, timers and timestamps in a shared list | `add`, `stop`, `record_output`, `try_done`, `aggregate_by_name`, `clone_inner` | written by partitions while they are read; handles that are cloned and dropped |
| Display (`display.rs`, `render_tree.rs`) | state of a visitor; a grid | `indent`, `graphviz`, `one_line`, `tree_render`, `RenderTree::create_tree` | a picture has to be the plan |
| Fuzzer, examples, benchmarks | none | — | drivers of the system |

They interact by calls inside a process, by Flight calls between scheduler and
executors, and through the file system: a shuffle file is the only state that
a task leaves for the next stage, and it is named, not sent.

What would make the whole wrong: an answer with a part of the groups, or with a
group merged a wrong number of times; a job reading what another job, an older
task or a dead executor left behind; a query that never ends; an operator
whose output depends on where the batches are cut; an answer that depends on
which side of a wire it was computed; a setting that is lost between the caller
and the task; a report that does not describe what it reports on.

## 2. Plan

| # | Module | Models | State |
|---|---|---|---|
| 1 | `QueryJob` | the promise of the distributed path | done |
| 2 | `DistributedJob`, `MCDistributedJob` | scheduler, executors, shuffle files, faults, for several jobs | done |
| 3 | `DistributedJobProofs` | type correctness, all-or-nothing, refinement; handlers, files and final answers | done |
| 4 | `GroupedAggregate`, `ParallelAggregate`, `MCParallelAggregate`, `ParallelAggregateProofs` | accumulators, modes and columns; partial and final aggregation over workers, against the aggregate of all rows | done |
| 5 | `RowStream`, `Streams`, `MCStreams`, `StreamsProofs` | limits, filter, projection and sort in chains over a source; `Streams` implements the promise `RowStream` | done |
| 6 | `HashJoin`, `MCHashJoin`, `HashJoinProofs` | build, probe and second scan, against the join of the relations | done |
| 7 | `Plans`, `SqlQuery` | logical plans, push-down, names to positions, evaluation; SQL lowered to them in a session, against what the statement means | done |
| 8 | `RemoteQuery`, `MCRemoteQuery` | the session of module 7 with a Flight server: both encodings, the files as each side reads them, `do_get` | done |
| 9 | `Expressions`, `MCExpressions` | physical expressions over typed cells with widths, nulls, overflow and casts, and the aggregates fed from them | done |
| 10 | `MetricValues`, `Metrics`, `MCMetrics`, `MetricsProofs` | metrics written by partitions and read meanwhile | done |
| 11 | `PlanDisplay`, `MCPlanDisplay`, `PlanDisplayProofs` | the four forms of EXPLAIN | done |
| 12 | `Sessions`, `MCSessions`, `SessionsProofs` | configurations, states, contexts, the start of a standalone server | done |
| 13 | `FoldProofs` | lemmas about folds and sequences that the proofs share | done |

Module 2 implements module 1. Module 4 looks inside the one number that module
2 keeps of an aggregate (how many partial states are merged per group):
accumulators, values and columns. Its operators are in `GroupedAggregate`, a
module without variables, which the proofs can use. Module 7 is the
path of a query in one process: `Plans` has the operators, `SqlQuery` the
session; module 8 `EXTENDS` it with the server. Both evaluate expressions
recursively, so that nothing is proved of them, nor of module 9. Of every other
module the safety properties are proved; section 13 names the exceptions.

## 3. DistributedJob

### Correspondence

A job is one call of `Scheduler::execute`, which makes a fresh uuid for it. Per
job the model keeps the scheduler's local variables: `cursor` is the position
in the loop over `plan.stages`, `nextTask` the `partition_id` of
`execute_stage`, `gathered` its `all_locations`, `completed` and `located` the
keys and the values of `locations_by_stage`. `pc` says at which kind of await
the future stands, and `call` is the Flight call it waits for. An action of the
scheduler is the code between two awaits.

A handler is a `do_action("execute_task")` or a `do_get` of a final task
running on an executor. It is created when the call is sent and runs through
the steps that touch the disk: a writer drains its input (`run`), and for every
bucket creates a file (`CreateFile`, which truncates: `torn`) and finishes it
(`FinishFile`); a reader checks that every location is local, opens all files
(`OpenFiles`) and drains them (`ReplyRows`). It can fail at any of them
(`HandlerFails`). `Reply` reaches the job only if it still waits for this call.
When the caller has gone the handler goes on: `write_shuffle` is synchronous
inside its async handler, and nothing cancels it.

`disk` maps each directory and path to an absent, torn or whole file. Two
executors may share a directory, as they do with the default base directory on
one host, and may share an id, as they do when started by
`bin/flight_server.rs`; both are constants. The configuration of a scheduler
lists all executors or, as part of its query, none.

The data is abstract. A row of the partial aggregate is a group with its
partial state, so a batch is a set of groups and an answer counts, for each
group, how many partial states were merged into it. `Hash` gives the partition
of a group. A location entry carries the task that reported it, which stands
for the multiplicity of equal entries in the code's `Vec`.

The faults are an executor that dies with its handlers and is restarted, a
connection that breaks while the executor goes on, a caller that drops the
stream, and shuffle data removed from outside: `remove_dir_all` may stop half
way with its error ignored, so `Cleanup` removes any subset of the files.

### Runs

| Run | Instance | Shows |
|---|---|---|
| `shared` | 2 jobs, 2 executors with one id and one directory, 2 partitions, 2 groups in different partitions, 1 crash, reset and cleanup, cancellation at any time; 810,859 states | types; `AllOrNothing`, `FinalStageReadsEverything`, `ReportedFilesStay`, `OneHandlerPerJob`; `DistributedJob` implements `QueryJob` (`KeepsThePromise`) |
| `live` | 1 job with any query (aggregates over no, one or two groups, another plan, plans without an encoding, a configuration without executors), 2 executors with directories of their own, 2 faults of each kind; 21,285 states | `EveryQueryEnds`, `AnswersAreFinal`; without an executor a query ends in an error or in the division by zero |
| `once` | 1 executor, 2 partitions, no fault | violates `ExactlyOnce` |

The bounds. Two jobs suffice for interference, since a step of one job touches
another only through a file or a directory, and each has one call in flight.
Two partitions and two groups give each task an own and a foreign bucket, and
in `shared` a second query that leaves a bucket empty. With two executors the
round-robin sends the two tasks to different ones. One crash, reset and cleanup
can each hit any step; `live` has two of each so that a fault can follow the
recovery from another. The theorems of section 13 have none of these bounds.

Deadlock is not checked: when all jobs have ended and the fault budgets are
used up the system rightly stops.

### Fairness

`FairSpec` assumes weak fairness of each job's scheduler and of each job's
handlers: tokio polls a ready future, and the caller polls its stream. Nothing
is assumed of faults or of restarts. `EveryQueryEnds` rests on one more thing
the model takes for granted: a call whose executor dies, or whose connection
breaks, ends in an error at the caller (the operating system resets the
connection). A peer that vanishes without a reset would be waited for for ever,
because `client.rs` sets neither a timeout nor keep-alive; the mutant
`CrashUnnoticed` shows this.

### Two places where the code and its documentation differ

- `ExactlyOnce`. Every task of stage 0 runs the whole input and reports every
  bucket, so with more than one task per stage each partial state is merged
  once per task. `distributed_planner.rs:5` describes one task per partition.
- Remote locations. The reader refuses locations of other executors
  (`shuffle_reader_exec.rs:98`); `scheduler.rs:71-73` says that it fetches
  them. With distinct executor ids an aggregate that finds any group ends in an
  error, so that the runs give the executors one id, as `bin/flight_server.rs`
  does.

Because of the first, `QueryJob` takes the number of copies as a parameter, and
the promise that is checked and proved is that all groups are merged equally
often (the number of tasks): that the two stages and the faults never lose,
mix or repeat anything beyond it.

## 4. GroupedAggregate and ParallelAggregate

### Correspondence

`GroupedAggregate` is `AggregateExec` as operators. `Feed` is the body of the
row loop: the key and the arguments are read from the columns the plan's
expressions name (`KeyOf`, `ArgOf`), the group is found or opened
(`Accumulators`), and each accumulator accumulates the value or, in final mode,
merges it (`Folded`). `PartialRows` and `FinalRows` are the output batch of the
two modes, as a set, because the rows come out of a `HashMap`.

Columns are integers of `IntBits` bits and `Null`. A column name is its rank in
the alphabet, which is all that matters of it: the push-down rule leaves the
referenced columns in alphabetical order (`Scan`), the planner turns a name
into its position there (`Position`), and the final stage evaluates the same
positions on the partial result. SUM wraps as `wrapping_add` does. COUNT and
AVG count in an `i32` with `+=`, which panics in a build that checks overflow
and wraps in one that does not: both builds are modelled (`build`). AVG divides
floats; it is kept as the sum and the count it would divide, so that no
rounding is modelled, and its partial state has no cell to go into
(`HasPartial`).

`Reference` says what the answer is, from the rows and the names alone: for
each key that occurs, each aggregate of the non-null values of its rows.

`ParallelAggregate` is `execute_parallel_aggregate`. `Distribute` reads the
input and deals batch i to worker i modulo the parallelism; rayon runs the
workers with a batch, each in its own time (`StartWorker`, `WorkerBatch`,
`WorkerEmits`); `Collect` goes on when all have ended, with the first error if
there is one, or as soon as the running ones have ended after a panic. The
final aggregate reads one row at a time in an order nobody chose (`FinalRow`).
Errors of expressions and of the input are `WorkerFails` and `Fails`.

### Runs

| Run | Instance | Shows |
|---|---|---|
| `workers` | all sequences of up to 3 rows from 4 (three groups, one of them Null; both ends of the range; Nulls) in batches of 1 or 2, and four equal rows in batches of 2 or 4, parallelism 0 to 3, ten aggregates (each function, no group, two aggregates, crossed columns), 1 error; 402,866 states | `AnswersAgree`, `AllWorkersOrNone`, `NoErrorWithoutCause`, `EveryAggregateEnds` |

Two-bit integers make a second value overflow: SUM of 1 and 1 wraps, a COUNT of
2 overflows. Three batches on two workers give one worker two batches and the
other one; on three, each has one and groups meet only in the final stage. A
batch of two rows opens a group and finds it again. `AnswersAgree` and
`NoErrorWithoutCause` ask that the columns are `Aligned` when several workers
are used, which seven of the ten aggregates are.

An average fails with several workers, as its partial state has no cell to go
into, with one exception: a count that wraps to 0 is taken for that of no
values. Four equal rows on two-bit counters reach it, and
`NoErrorWithoutCause` says that with several workers an average is answered
only then (`AveragesCounted`).

Fairness: weak fairness of the caller, which polls its stream and blocks in
`collect`, and of every worker the pool was given. `EveryAggregateEnds` is
about the join: no error and no panic of some workers makes it wait for ever.

Deadlock is not checked: the system stops when the aggregate has ended.

### Where code and test differ

That the parallel answer is the sequential one is what
`parallel_aggregate_matches_sequential` (`parallel_context.rs:354`) asserts. It
does not hold for aggregates whose columns are not `Aligned`, because the final
stage evaluates positions of the input on the partial result
(`parallel_context.rs:302`): the argument's name sorts before the group's, or two aggregates
share an argument. The test does not see it, because its SQL query has a
projection at the root and runs on one thread. The distributed path hands over
the same expressions and is affected in the same way. Apart from that, an
average over several workers is never answered once it has met a value
(`NoErrorWithoutCause` states this as it is), though `avg_expression.rs:3-6`
expects partial averages to be merged.

## 5. Streams

### Correspondence

An operator's `execute` makes a stream that does nothing until it is polled.
`plan` is a chain of operators over a source, `state` what each stream keeps
(the local variables `skip` and `remaining` of a limit, the `batches` a sort
has collected, and whether a generator has returned). `at` is the operator that
has control and `item` what it was handed: the question for a batch, a batch,
the end or an error. `Polled` is the head of a limit's loop, or a stream that
passes the poll on; `LimitSkips` is the `continue` of the loop, `LimitTakes`
the rest of it; `SortCollects` is `try_collect` inside the sort and `SortEmits`
what follows it. A mapped stream (filter, projection) that hands on an error
can be polled again, a generator (limit, sort) has then returned. `Receives`
and `Ends` are the caller's `try_collect`.

A row is a value with a place in the sort's order (`Rank`), an image under the
projection (`Project`) and a verdict of the filter (`Keep`). Sorted rows may
come in any order that respects `Rank`, since `lexsort_to_indices` is not
stable, and with a fetch any of the equal rows may be kept.

`RowStream` is the promise: the rows delivered so far begin an answer, the end
comes exactly when they are all of it. `AnswersOf` gives the answers of a chain
from all rows at once, with no batches, so that `KeepsThePromise` says that the
cut of the input never shows.

### Run

`chains`: every source of up to 4 rows in up to 3 batches of up to 2 rows,
empty ones included; a global limit for each skip in 0..3 with a fetch of 0, 1,
2 or none; a sort with a fetch of 0, 1 or none; six chains of two or three
operators in orders the planner makes; one error anywhere; 509,577 states. It
checks `TypeOK`, `LimitStopsReading`, `KeepsThePromise` and `EveryStreamEnds`.
The bounds put the edge of a limit inside a batch, between two batches, at an
empty one and beyond the input, and a skip over several batches.

Fairness: weak fairness of the step, since a caller polls until it has met the
end or an error, and no stream of these is ever pending. Deadlock is not
checked: the system stops when the caller has its answer.

## 6. HashJoin

### Correspondence

`phase` is where the generator of `HashJoinExec::execute` stands. `BuildBatch`
puts the rows of a right batch into `table` under their key (`Insert`),
`ProbeBatch` joins the rows of a left batch (`Matches`), `RescanBatch` collects
the keys a right join has found, and `EmitUnmatched` gives the right rows of
the other keys. The key positions and the right columns that are left out come
from the planner (`LeftKeys`, `RightKeys`, `RightColumnsToExclude`). `output`
is a bag: nothing is promised of the order, and the unmatched rows come in that
of a `HashMap`.

`InOrder` lists the places of the kept columns from the first to the last.
`left` is a set of scans: an input need not give the same rows each time it is
executed. `Relation` is the reference: all pairs of rows that agree on the keys
and the rows of the kept side that agree with none, with the columns of
`Join::schema`. `Agree` takes the `NullEquality`, as the documentation of the
type has it; `TheJoin` is the relation for the one the planner asks for,
`NullEqualsNothing`.

### Runs

| Run | Instance | Shows |
|---|---|---|
| `joins` | four join types; one key with a shared name, one with two names, two keys of which one is shared; up to 3 of 3 rows on each side, with a duplicate key and a Null in a key, in batches of 1 or 2; repeatable and unrepeatable left inputs; 1 error; 932,298 states | `AnswerIsTheJoin` |

Three rows on a side give a key two rows and leave one to another key, in one
batch or two. In the second kind of join the columns' names are all different;
in the first, `name` is on both sides but no key and must stay; in the third a
shared key and a key of two names meet. The row with a Null on the left and the
one on the right have one key in the first two kinds of join, where
`AnswerIsTheJoin` is about the inputs with at most one of them, and never in the
third.

Deadlock is not checked: the generator stops. There is no fairness and no
liveness property: each step consumes a batch of a finite input, so that it
ends by its shape.

### Where code and documentation differ

- The schema of a right join drops the left one of two columns with the name of
  a key (`join.rs:2-4` and 186), the planner (`physical_planner.rs:268`) and
  `combine_rows` always drop the right one. Rows are typed by the wrong
  columns, and an unmatched right row loses its key. `AnswerIsTheJoin` leaves
  such joins out (`SharesKeyOnRight`).
- The left input of a right join is executed twice. If it is a limit over an
  aggregate, the second execution may give other rows, and a right row is then
  in no part of the answer, although `join.rs:38` promises all right rows.
  `AnswerIsTheJoin` therefore asks that the input repeats itself.
- Null keys are joined with each other, though the planner passes
  `NullEqualsNothing` (`physical_planner.rs:322`), which `join.rs:106-109` calls
  standard SQL: `HashJoinExec` never reads the field (`hash_join_exec.rs:192`).
  `AnswerIsTheJoin` leaves out the inputs where a row of each side have one key
  with a Null in it (`NullKeysMeet`); in the instance, too, it fails without
  this premise. `NullEqualityIsIgnored` of section 13 says what the answer is
  there.

## 7. Plans and SqlQuery

### Correspondence

`Plans` has a logical plan as a scan with a sequence of operators, `ops`, the
first one next to the scan; `SchemaAt` and `HasSchemaAt` are `schema()` of each
node and whether it fails. `PushDown` is the optimizer: it gathers the columns
that the operators evaluate (`ExtractColumns`, which resolves an index against
the schema of the node below, before any column is pushed down) and gives them
to the scan in alphabetical order. `Creatable` and `Plannable` say what the
physical planner refuses; a name becomes its position in the schema below
(`Position`). `Run` executes the plan as `SessionState` does: each operator
gives a relation of typed columns, or fails. Types matter where the code looks
at them: a comparison of two types is an error, arithmetic on two types is
done in `Float64`, and a column whose type is not the declared one is an error.
`Layout` is the order in which a file's columns come out of a scan.

A group's rows come in the order of a `HashMap`; `Orders` has two such orders,
which is enough for a limit to take one group or another.

`SqlQuery` is a session. `Sql` lowers a statement over a registered table:
`PlanProjection` and `SelectToPlan` are the two branches of `select_to_plan`,
with the columns of WHERE projected for the filter and dropped again
(`PlanNonAggregate`), and with the output of an aggregate taken by position
(`PlanAggregate`, `AggregatePosition`, `Output`). `Lowers` says which
statements are refused (`SqlFails`). `Open` takes a registered table, `Extend`
calls a builder of `DataFrame`, `Register` puts a DataFrame under a name, new or
taken, and `Execute` runs it. A DataFrame is a value and keeps the plan of the
tables it was made of.

`Meaning` is the reference: what a statement asks of the rows, from its syntax
and the names of the columns. It knows no plans, no positions and no order of
evaluation. `asked` remembers the statement and the table as it was.

### Runs

| Run | Instance | Shows |
|---|---|---|
| `queries` | 854 statements: ten lists of plain items and ten with aggregates, seven kinds of WHERE, up to two group columns in both orders, HAVING, LIMIT, and unsupported forms; a CSV table with columns b, a, k and a Null, CSV files with and without a header line and one split at tabs, a Parquet file, a table in memory, a view; five calls, one of them an execution here, by a query or by a task; 751,518 states | `AnswersAreRight`, `PlainQueriesAreAnswered`, `PushDownKeepsTheAnswer`; of section 8 `RemoteAnswersAgree`, `TaskRunsAsPlanned` |
| `parquet` | three calls | violates `FormatDoesNotMatter` |

Five calls are a statement, an operator on it, its registration, a statement
over it and the execution. `MaxOps` bounds the operators of a DataFrame that is
registered or extended. Values are 1, 2 and Null, so that rows are kept, dropped
and unknown; b and a do not lie in alphabetical order, so that the push-down
moves them; k is an `Int32` among `Int64`, so that types meet.

Deadlock is not checked: the caller has a budget of calls. There is no fairness
and no liveness: each call is synchronous in the model, and what streams do is
in section 5.

### Where the code differs from what is promised

- A filter or a limit above a scan, with no projection or aggregate, comes back
  with the columns of the filter only (or, when no column is named at all, with
  all): `projection_push_down_rule.rs:46` starts with no names, though
  `data_frame.rs:74` and `filter.rs:3` promise the schema of the input.
  `PushDownKeepsTheAnswer` asks that something above the scan names columns
  (`Narrowed`).
- `FormatDoesNotMatter`. Parquet keeps the order of the file, and the values
  land in other columns, without an error when the types agree.

The premises of the three properties leave out what is known to go otherwise.
`Understood` leaves out statements with another meaning than in SQL: group items
that are not in the order of GROUP BY change places (`select.rs:104`); HAVING
without an aggregate is ignored; DISTINCT inside a function is dropped
(`function.rs:22`); an alias with the name of a column is found first by WHERE.
`Plain` leaves out statements that are refused though supported in parts: a
column of WHERE that is selected only in an expression, a cast next to a WHERE
(`visit` does not look into it), an aggregate in HAVING, and a WHERE on an
aggregate of no column. `LaidOutAlike` is the second divergence above. `IndicesStand`
leaves out a `ColumnIndex` next to the scan, which counts the columns before
the push-down.

`Meaning` departs from SQL in one place: an aggregate without GROUP BY over no
rows gives no row, where SQL has one (COUNT is 0 there). `AggregateExec`
documents one output row per key that was seen (`aggregate_exec.rs:4-8`), and no
part of the repository promises the other.

## 8. RemoteQuery

### Correspondence

`RemoteQuery` gives the session of section 7 a Flight server. The caller's
DataFrame can be executed in the process (`Execute`), sent as a logical plan by
the interactive client (`ExecuteRemotely`, `Action.query`) or, by a distributed
session, as a physical plan that is the only task of its job (`ExecuteAsTask`,
`Action.task`); an aggregate at the root takes the two stages of section 3
instead. `DoGet` is the server: a task comes before a query.

What travels of a source is its path, and for a logical plan whether it has a
header line. The server opens the file again in its own way, so that `Files`
has files, each with its separator, its header line and its rows, and
`InferSchema` and `RowsRead` say what `CsvDataSource` makes of one with a given
flag and separator: a header line read as a row becomes texts, a row read as a
header line becomes names, a file split at another character becomes one
column.

`SerializeLogicalPlan` and `DeserializeLogicalPlan` have an arm for each arm of
the code, and `Serializable` the plans that have an encoding; a panic counts as
an error. A function has no DISTINCT on the wire, but COUNT has a second name; a
limit is an unsigned word that is read as a signed one (`Word` is 2^32 in the
code and 256 in the run). In a physical plan names have become positions, so
`SerializePhysicalExpr` resolves against the schema of the operator below and
`DeserializePhysicalExpr` believes the index.

### Run

The run is `queries` of section 7: files with and without a header, split at
tabs, in Parquet and in memory, a table whose declared schema is not the one
its file suggests, and eight extensions of a DataFrame, among them a column by
index, DISTINCT inside SUM and COUNT, a limit of 1 and of -1. An execution asks
here or there once (`Unanswered`): it changes nothing that a second one could
see.

`RemoteAnswersAgree`: the server gives the rows of the session, and where no
schema was declared the same types and failures too. `TaskRunsAsPlanned`: a task
gives what its operators give where they were planned.

### Where the two sides differ

- The separator of a `tsv` source does not travel, nor does the schema of a CSV
  source in a logical plan; the reader of a task takes a header line for granted
  (`physical_plan_deserializer.rs:99`). The properties are about files split at
  commas, and the second about files with a header.
- DISTINCT is lost with every function but COUNT (`protobuf_serializer.rs:219`).
- `protobuf_serializer.rs:158` cannot encode an alias, a column by index or a
  cast, although the deserializer has an arm for aliases: the client panics on
  most SQL with an aggregate, which lowers to columns by index. A join can be
  encoded, but the deserializer has no arm for it.

## 9. Expressions

### Correspondence

A cell has a type and a value or is `Null`; `Evaluate` follows
`PhysicalExpr::evaluate` of literals, columns, binary, cast, date and math
expressions, with a panic and an error told apart, and the first row that fails
decides. `Width` and `Precision` give the bits of the integer types and of the
significands, so that wrapping, clamping and the rounding of an integer that
becomes a double happen with small numbers. `Truth`, `And3` and `Or3` are the
three-valued logic, `CompareDispatch` compares every number as a double.
`EvaluateSelection` is `evaluate_selection` with its three paths (all rows, no
row, some) and `Scatter`. `AccumulateRow` feeds the result to MIN and MAX, whose
`CmpScalar` compares integers as integers. Of dates the overflow is checked in a
debug build and wraps in a release build (`build`).

### Run

`expressions`: eight pairs of column types, batches of no row or of two rows of
extremes, ordinary values and nulls, each operator on each, casts there and
back, expressions of two levels of which one divides by the first column, and
masks with unknown cells and of a wrong length; 344,998 states. Widths are 2, 3
and 6 bits; a double is exact up to 16 while an `Int64` goes up to 31, so that
two integers are equal as doubles.

`SelectionAgrees`: what is not selected is not evaluated, and what is selected
is as if it were alone. `KnownStaysKnown`: an answer given in spite of a null
does not depend on it. `OrderIsKept`: comparison and MIN and MAX never
contradict each other, and differ only where a double cannot tell.

There is nothing that runs concurrently and no fairness: an expression is
evaluated in one step. Deadlock is not checked.

Two facts are left out by the premises. `BinaryExpr::data_type`
(`binary_expression.rs:134-140`) announces the type of the left operand, though
mixed operands are computed in `Float64`; `Uniform` leaves those out.
Arithmetic on unsigned columns always ends in an error, and AND evaluates its
right side whatever the left one gives, so that a division on the right fails
rows that a filter would drop.

## 10. MetricValues and Metrics

### Correspondence

`MetricValues` is a metric and a set of them as values: how each kind is
aggregated, totalled (`AddTo`, `Total`), named, filtered and sorted for display,
and the skew of the rows; `Values` are those an operator can record. `Metrics` is the life of a set. Each partition registers the baseline
metrics and two of its own (`Open`), and is then polled: a timer starts
(`StartTimer`), may be stopped early (`StopEarly`), and ends with its guard
(`EndPoll`), which adds nothing the second time; a batch adds its rows, its
bytes and itself in three steps (`RecordRows`, `RecordBytes`, `RecordBatches`),
since these are three atomics. `MemorySize` counts each buffer of a batch once.
The end is stamped by `done()` or by the drop of a handle: `Drop` looks, `Stamp`
reads the clock and `Write` stores it, and a clone can be dropped on another
thread in between. The reader takes the list under its lock (`CloneInner`) and
then reads one cell after another (`Read`).

No operator of the repository overrides `ExecutionPlan::metrics` yet: the
partitions stand for any that use the interface as its documentation says.

### Run

`metrics`: one partition with two batches that share buffers and a handle that is
cloned, with a clock that moves; one and two partitions that are read while they
run; 503,384 states. The clock moves by 3 and a timer rounds up to 1, so that
the rounding shows. The readers filter by type and category. Of the ratios only
those that are merged by `AddPartSetTotal` occur, and two partitions with as many
rows each, other than none, only in the theorem about the skew.

`ReportsAreBetween`: a report lies between what there was when it was begun and
what there is when it is printed. `SumsAgree` and `SameMetricsEitherWay`: the
ways to add up and to filter agree, in whatever order a `HashMap` gives names.
`TimeIsCountedOnce`, `EndCoversTheStream` (a clone that is dropped early may
leave the end before the last batch, and the wall clock must not go back; it
says so), `SkewMeasuresBalance`,
`BytesCoverTheBatches` (a buffer shared by two batches is counted for both).
All but `SumsAgree` and `SameMetricsEitherWay` are proved in section 13 for every
instance.

The skew is rounded to hundredths of a percent, as the ratio that the code
stores; the score before it is exact in the model and an `f64` in the code. It is
0 where the partitions have as many rows each and 100 % where one of several has
them all. Because of the rounding the converses have a margin: with `n` partitions
and `t` rows in all, a skew of 0 bounds the squared difference of any two
partitions, and a skew of 100 % the product of any two, by a fraction of
`(n - 1) * t * t`.

There is no liveness: the counters make nobody wait. Polls, the clock and one
report are bounded by the plan.

The model simplifies two things. `Open` registers the metrics of a partition in
one step, where the code takes the lock of the set for each (`metrics.rs:2020-2041`
and `MetricBuilder`): a reader that comes in between sees some of them. No
property tells this apart: a report counts rows, bytes and batches, of which none
are recorded yet, and the ways to add up agree on any list. And one `clock` stands for
`Instant::now`, which times the polls and never goes back, and for `Utc::now`,
which stamps the start and the end and may be set back in between.
`EndCoversTheStream` and its theorem hold for a wall clock that is not: with one
that is, the end can lie before the start.

### Where code and documentation differ

`Time` documents that a duration other than zero counts as 1 ns at least, so that
an event can be told from none (`metrics.rs:227-228` and 257-258), but
`add_duration` rounds zero up as well (261). `Time::add` goes through it: a
partition whose timer was never used adds 1 ns to the total of the others, and
timers that were all never used total more than zero. `AddDuration` follows the
code, and `SumsAgree` counts 1 ns for each timer that was never used.

## 11. PlanDisplay

### Correspondence

A plan is its operators in the order they are visited, each with its depth.
`Accept`, `VisitChild` and `PostVisit` are the walk of `accept`
with the state of the visitor: the indentation, or the ids and the stack of
parents of the Graphviz visitor. `CreateTree` is the grid of
`RenderTree::create_tree`, and `RenderTopLayer`, `RenderBoxContent` and
`RenderBottomLayer` are the three layers of a row of boxes, cell by cell, with
the cut at the maximum width. A row is a sequence of strokes (a glyph and its
number). Of a text only the length and the places where `split_string_buffer`
may break it are kept.

### Run

`display`: every shape of a plan of up to 6 operators (`MaxNodes`), with names
that are too long for a box, no entries, short ones, long ones with and without
breaks, and more lines than a box may have; each form with its options; no
maximum width, and one of 60 that cuts the third column of boxes; 56,850
states. Six operators make an operator with several children under one with
several children, to its left and to its right.

`PictureIsThePlan` reads the picture: every line that begins ends at something,
each box lies at its place, and from a box its line leads to the operator it
feeds. `TextIsThePlan` reads the lines and the graph in the same way, and is proved in
section 13 for every plan. Deadlock is not checked: a rendering ends.

## 12. Sessions

### Correspondence

Threads of an application build a configuration (`SetTargetPartitions`,
`SetBatchSize`, `Set`), a state (`StartBuilder`, `Give`, `Build`) and contexts.
`WithSetting` keeps the typed options and the string map as the three setters
do: a text that is no number goes into the map and changes no option, and two
keys stand for the batch size. `StartContext`, `Fold` and `FinishContext` are
`SessionContext::new`, which folds a `HashMap` into a configuration in the order
of the map; `MakeOfState` is `new_with_state`, `MakeParallel`
`with_parallelism`. `RegisterCsv` remembers the batch size a source is made
with and `Execute` the `TaskContext` of a query. The counter of session ids is
shared.

`StartStandalone` spawns a server thread and blocks on a channel. The server
builds its runtime, binds, sends its address and serves (`BuildRuntime`, `Bind`,
`SendAddress`, `Serve`), or fails and sends an error; `Receive` and `Connect`
are the caller, who builds a state with the planner for executors, from nothing
or from the state it was given. `Ask` and `Answer` are a query, whose executor
has a configuration of its own (`ExecutorCtx`).

### Run

`sessions`: settings, contexts of maps, states with parts, and two threads with
standalone servers; numbers with two spellings, a word, the three known keys and
another; up to five calls of a thread; 296,616 states. `ViewsAgree`,
`BatchSizesAgree`, `SettingsReachTasks`, `NobodyIsRefused`, `GivenStateIsKept`,
`EveryCallReturns`.

Five calls are two settings, a builder and its state and a use of it. Two
threads have one standalone context each, which is all that threads share but
the counter. Fairness: weak fairness of each thread that has begun a call and of
each server thread, which the system schedules. A server thread that has sent
its address serves: the result of `serve` is ignored in the code, and an error
of it is not modelled. Deadlock is not checked: the application stops calling.

### What the properties leave out

- `task_context.rs:38-42` says that both views of a setting stay in sync. They
  do for numbers under the canonical keys; after the legacy key the map has no
  entry for `datafusion.execution.batch_size`, and a text that is no number is in
  the map only. `ViewsAgree` says what does hold.
- `SessionContext::new` and `ParallelContext` read their batch size from the
  legacy key only, while the state of the former also reads the canonical one.
  `BatchSizesAgree` leaves out a context whose map has the canonical key.
- The settings of a caller do not reach the executor of a standalone context,
  whose `TaskContext` has `SessionConfig::new()`, nor the tasks of a parallel
  context; `SettingsReachTasks` is about `SessionContext::new`.
- `standalone_with_state` is documented for pre-registered tables, but a state
  has none. `remote` and `remote_with_state` are not implemented.
- A spawned server stops only with the process.

## 13. What is proved

`DistributedJobProofs` proves, for any sets of jobs, groups, ids and
directories, any number of executors and partitions, any hash, and any bounds
on the faults:

- `TypeCorrect`: `TypeOK` always holds;
- `AnswersAreAllOrNothing`: a caller has the complete answer or no row;
- `FinalStageIsToldEverything`: a final stage is given all reports;
- `InternalErrorsAreUnreachable`: `PlanIsWellFormed`;
- `ImplementsThePromise`: `Spec => KeepsThePromise`.

The assumptions are those of the module: finitely many groups with a hash in
the naturals, a natural number of executors with an id and a directory each, a
natural number of default partitions.

`AllOrNothing` is not inductive: that the rows in a reply are complete follows
from the reader's locations and the files it opened, these from what the
scheduler gathered, that from what the writers reported, and the files from
what any writer ever wrote. The invariant `IInv` says all of this:

- `AnswerInv`, the property itself;
- `ProgressInv`: after n tasks the scheduler has gathered exactly the reports
  of the first n tasks, and at the final stage it has located all of them;
- `CallInv`: an answer not yet received belongs to the stage and task the
  scheduler stands at, and is the full report or the complete rows;
- `HandlersInv`: a writer has reported the buckets below the one it is at; a
  reader holds all reports and, once it drains, complete rows;
- `DiskInv`: a file with a footer holds its job's bucket, whoever wrote it.

`DiskInv` is why orphaned writers do no harm: all tasks of a job write the same
contents to the same path, so a whole file is right whoever finished it. The
lemma `EveryGroupOncePerTask` counts the copies. The refinement follows from
`IInv` and `IInv'` step by step.

`SessionsProofs` proves, for any threads, plans of calls, keys, texts and parts,
any numbers and any parse and print functions that are inverse on numbers:

- `Invariant`: the inductive invariant `IInv` always holds, types included;
- `ViewsAlwaysAgree`, `BatchSizesAlwaysAgree`, `SettingsAlwaysReachTasks`:
  the properties of section 12 about settings;
- `NobodyIsEverRefused`: a caller that has an address finds a listening socket;
- `GivenStateIsAlwaysKept`: the action property `GivenStateIsKept`.

Its assumptions: the three known keys are different; what is printed is parsed
as the number it was; the parts include the planner and the runtime; the calls
are given keys, texts and parts of these; and `None` is no value. The properties
are not inductive. That settings reach a task needs to be known of a fold that
has not ended: `FoldedOf` says that the configuration holds exactly the part of
the map that has been folded, and that its batch size is the one the legacy key
would give as long as the canonical key is not in the map. Views must agree in
builders and states too, because contexts come from them (`Sound`). That nobody
is refused needs that a message is an address only of a server that has
announced it, that an announced server is bound, and that a standalone context
has such a server (`Bound`, `Announced`, `Meets`). `WrittenSound` is the heart of
the first: any setter that writes a text into the map and its number into the
option keeps the views in agreement. `GivenStateIsKept` follows from `IInv` and
from `ConnectsNext`: a thread that has an address takes no other step.

About the files `DistributedJobProofs` proves, under the same assumptions and on
top of `IInv`:

- `FilesInvariance`: the inductive invariant `FInv`;
- `OneHandlerAtATime`: `OneHandlerPerJob`;
- `ReportedFilesAreKept`: `ReportedFilesStay`;
- `AnswersStayFinal`: the action property `AnswersAreFinal`.

`FInv` adds what the answers do not need: which handler belongs to the call a
job waits for, what a writer has already reported, and that a file which was
reported is whole unless somebody removed it. An orphaned writer truncates such
a file only while the reader of it cannot be there.

`MetricsProofs` proves, for any plan of polls, clones and reports, any batches,
buffers and capacities, any clock and any additional metrics (`ClockAssumption`,
`PlansAssumption` and `ExtrasAssumption` say what these are; an additional
metric is a member of `Values`):

- `MetricsInvariance`: the inductive invariant `MInv`;
- `TimeIsNotCountedTwice`: `TimeIsCountedOnce`;
- `DroppedStreamsHaveAnEnd`: `EndCoversTheStream`, for a wall clock that does not
  go back;
- `CountersOnlyGrow`: the action property `Grown`, that no step shortens the
  list of metrics, changes a kind in it or lowers a counter of rows, bytes or
  batches;
- `ReportsLieBetween`: `ReportsAreBetween`;
- `BytesAreCovered`: `BytesCoverTheBatches`;
- `SkewIsBalance`: `SkewMeasuresBalance`.

The first rests on where the cells of a partition lie in the shared list, the
second on what a handle that has looked but not yet written will write. A report
is no snapshot: each cell is read at another time. `ReaderInv` says that there
was a list (`BegunWith`), the one the report was begun with, whose counters are
at most those read so far, which are at most the present ones; `CountersOnlyGrow`
keeps this true while operators write, and `TotalsGrow` lifts it from cells to
totals, where metrics that were registered in the meantime only add. That a step
writes one cell of one kind needs `LayoutInv`, the list as it was registered.
`SizesInv` says that the bytes of a stream are the sizes of its recorded batches,
one more while the stream stands between the two atomics. `Together` compares
the memory counted over all batches with that of each batch alone, buffer by
buffer: what two have in common is counted once in the first and twice in the
second, so that the sum covers it, and equals it when nothing is shared. The skew
is a part `v` of a whole `d`, `v` being what `n` times the sum of the squares has
over the square of the total: `SpreadAdds` says that it is the squared
differences and at least each of them, `MixedAdds` that the rest of `d` is at
least each product, and `Shares` what remains of that after rounding.

`HashJoinProofs` proves, for any schemas, values, keys, join types, inputs in
any batches and any errors (`InputsAssumption` says that rows have the columns
of their schema):

- `InvHolds`: the inductive invariant `Inv`;
- `AnswerIsTheJoinHolds`: `AnswerIsTheJoin`;
- `NullEqualityIsIgnored`: where Nulls meet in the keys the answer is the join in
  which they are equal, whatever the planner asks for.

Bags are compared by counting: how often `output` holds a row is the number of
pairs of places in the inputs that make it, and of places whose row is alone
(`Probed`, `Answered`). `Groups` says that the table holds, under each key,
every right row with that key as often as the part of the input that was read;
thus what a left row finds is counted by the right rows that agree with it
(`BuildInv`). `ProbeInv` adds the left rows batch by batch. In a right join
`RescanInv` says that `matched` holds the keys of the rows read again, so that
`Unmatched` gives each right row alone as often as no row of the second reading
agrees with it; only here it matters that the input repeats itself.

`PlanDisplayProofs` proves, for plans of any size and shape, with any options
(`TreesAssumption` says that a plan has one root and that an operator is at most
one step deeper than the one before it):

- `DisplayInvariance`: the inductive invariant `DInv`;
- `TextTellsThePlan`: `TextIsThePlan`.

`PrefixInv` says that the operators written are the first ones of the plan.
`PathInv` is why: the stack is the path from the root, all that was written after
an operator of the path lies below it, and the next operator is no deeper than
the path is long. So a child that is still to come is the very next operator
(`ChildIsNext`), and without one the next operator is less deep (`NothingLeft`),
until the stack is empty exactly at the end of the plan. `IndentInv` and
`GraphInv` tie the state of the visitors to the path, and `OneParent` makes an
edge to a parent the edge to the parent.

`StreamsProofs` proves, for any rows, filter, projection and order, any source
in any batches and any chain of operators with any skips and fetches
(`RowAssumption`, `SourceAssumption`, `PlanAssumption` only say what these are):

- `StreamsInvariance`: the inductive invariant `SInv`;
- `StreamsTypeCorrect`: `TypeOK`;
- `SatisfiedLimitStopsReading`: `LimitStopsReading`;
- `StreamsKeepThePromise`: `Spec => KeepsThePromise`, the refinement of
  `RowStream`.

A refinement mapping alone does not say why what was delivered begins an
answer: that depends on rows that have not been read. `Run` is what the
operators may still make of them, from what each keeps, from the item that is on
its way and from the rows of the source that are still coming. `AnswerInv` says
that every run leads to an answer. Each step is then traced back: a run after
the step, with what the operator gave or took put in its place, is a run before
it (`UpBack`, `DownBack`). That a limit, a filter or a projection of two batches
is that of one (`WindowTakes`, `WindowSkips`, `KeptOfTwo`, `ProjectedOfTwo`) is
where the cut of the batches disappears. `EndInv` says that the end is given
only when nothing comes any more, `ControlInv` that an operator that waits for
the one below has not returned, and `CountInv` that the rows a limit still wants,
those on their way above it and those received never exceed its fetch.

`ParallelAggregateProofs` proves, for any columns and inputs, any cut into
batches, any queries over the columns, any number of workers, any number of
errors and integers of any width:

- `Invariance`: the inductive invariant `Inv`, and with it the types
  (`TypesOK`);
- `AllWorkersHaveFinished`: `AllWorkersOrNone`;
- `ParallelAnswersAgree`: `AnswersAgree`;
- `ErrorsHaveCauses`: `NoErrorWithoutCause`.

The assumptions say that the inputs are batches of rows of cells, that queries
name columns and the five functions, that the bound on the workers is one, and
that `Half`, the power of two half the range, is a positive number: the provers
compute no powers.

The invariant speaks of the places of rows in the input. A map of groups
`Represents` a set of places when its keys are the keys of the rows there and
each accumulator `Holds` the aggregate of the places of its group. `FoldedHolds`
is the heart: feeding a value that `Brings` the aggregate of some places, one
for a row of the input and all of a group for a row of a partial result, to an
accumulator that holds others makes it hold both; here sums and counts that
wrap, least and greatest values and nulls are put together. A worker's map
represents the places of the batches it has read (`WorkInv`), both in its own
sequence of batches, which `AllWorkersOrNone` is about, and in the input, which
the answer is about; that the batches dealt in turn cover the input once is
`DealtCovers`, `TurnsUnique` and `MineFacts`. The final map represents the
places of the groups already merged (`MergeInv`): a row is taken from the
output of a worker exactly when its places are added (`MergedGrows`). That a
checked build panics only where the whole count does not fit, and always there,
needs that no counter of the places read so far has overflowed (`Fits`).

`FoldProofs` has the lemmas about data. The folds and `FlattenSeq` of the
library are recursive functions; that such a function exists, and what it
is, follows from induction over sets of numbers (`SetInduction`,
`BoundedInduction`), a form in which the provers can use the well-founded
induction of the library. `FoldExists` and `FoldPasses` say that a fold goes
through its steps, `FlattenConcat` that flattening distributes.

Only model-checked:

- `EveryQueryEnds`, `EveryAggregateEnds`, `EveryStreamEnds` and
  `EveryCallReturns`: liveness under fairness is beyond the prover.
- The properties of `SqlQuery`, `RemoteQuery` and `Expressions`: they evaluate
  trees with recursive operators, and the provers have no backend for a module
  that declares one.
- `PictureIsThePlan`: the drawing places boxes by a recursion over subtrees.
- `SumsAgree` and `SameMetricsEitherWay`: both select and sort by name. They need
  moreover that metrics of one name are of one kind, which the code does not
  enforce (`aggregate` panics otherwise) and the instance grants.

## 14. Not modelled, and why

- The columns of the final stage in `DistributedJob`, which merges states by
  group as if the columns lay as intended; `ParallelAggregate` models them.
- Columns of other types than one integer type in the aggregates: comparison
  and wrapping are the same for each width, floats would add rounding.
- Fractions: a float in `Expressions` is a whole number or NaN. The order of
  texts.
- Keys of two widths in a join: `RowKey` compares the variant of a value before
  the value, so that they never agree.
- A lost reply without a broken connection (section 3).
- Two executors configured with the same host and port, and ids that change
  over a restart: the configuration is fixed for a run.
- `get_flight_info`, `get_schema` and the unimplemented methods of the Flight
  server, which answer without a state; an error of `serve` after the start.
- Joins and ORDER BY of an SQL statement and in the encodings; the push-down
  through a join.
- Parsing of numbers in files, and the I/O of files other than shuffle files.
- Formatting of numbers, labels and characters that are not ASCII in metrics and
  plans.
- The fuzzer, examples and benchmarks, which are drivers of the system.
