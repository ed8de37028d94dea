------------------------------ MODULE Metrics ------------------------------
(***************************************************************************)
(* Operators that record metrics while EXPLAIN ANALYZE reads them.  One    *)
(* operator per partition registers the baseline metrics and some of its   *)
(* own in a shared set, records each batch it gives out, and stamps the    *)
(* end of its stream; a clone of its handle may be dropped on another      *)
(* thread; a reader takes the set and then reads one cell after another.   *)
(* The operators stand for any that use the interface: none of the         *)
(* repository's overrides ExecutionPlan::metrics yet.                      *)
(***************************************************************************)
EXTENDS MetricValues, FiniteSetsExt

CONSTANTS
  Plans,     \* the plans: what the streams of their partitions give, which
             \* handles are cloned, whether the metrics are read, and bounds on
             \* the polls of a stream and on the clock
  Capacity,  \* the size of each buffer
  Extras,    \* the metrics each operator adds to the baseline ones
  Filters,   \* what readers ask for: types and categories
  Second     \* how far the clock moves at once

\* A batch has a number of rows, and each of its columns the buffers it refers to.
BatchesOf(capacity) == [rows : Nat, columns : Seq(Seq(DOMAIN capacity))]

ASSUME ClockAssumption == Second \in Nat
ASSUME ExtrasAssumption == \A p \in DOMAIN Extras : Extras[p] \in Seq(Values)
ASSUME PlansAssumption ==
  /\ Capacity \in [DOMAIN Capacity -> Nat]
  /\ \A given \in Plans :
       /\ DOMAIN given.batches \subseteq DOMAIN Extras
       /\ \A p \in DOMAIN given.batches : given.batches[p] \in Seq(BatchesOf(Capacity))

VARIABLES
  plan,      \* the plan
  registry,  \* ExecutionPlanMetricsSet: the metrics in the order they came
  clock,     \* Instant::now() and Utc::now()
  op,        \* per partition: the stream
  handle,    \* per partition: its BaselineMetrics, and a clone of it
  reader     \* the reader of the metrics

vars == <<plan, registry, clock, op, handle, reader>>

Batches    == plan.batches
Partitions == DOMAIN Batches
-----------------------------------------------------------------------------
(***************************************************************************)
(* The memory of batches: a column is the buffers of its array, of its     *)
(* nulls and of its children, in the order they are visited.               *)
(***************************************************************************)
CountBuffers(counter, buffers) ==
  FoldLeft(LAMBDA acc, b :
             IF b \in acc.counted THEN acc
             ELSE [counted |-> acc.counted \cup {b}, usage |-> acc.usage + Capacity[b]],
           counter, buffers)

CountBatch(counter, batch) == FoldLeft(CountBuffers, counter, batch.columns)

NewCounter == [counted |-> {}, usage |-> 0]

\* Mutant: buffers two columns share are counted for both.
SizeOfColumns(batch) ==
  FoldLeft(LAMBDA acc, buffers : acc + CountBuffers(NewCounter, buffers).usage, 0, batch.columns)

\* get_record_batch_memory_size: a counter of its own for each batch.
MemorySize(batch) == CountBatch(NewCounter, batch).usage
-----------------------------------------------------------------------------
(***************************************************************************)
(* Registering.  Each metric is of one type and category; the end, the     *)
(* time, the rows and the bytes are for the summary.                       *)
(***************************************************************************)
CategoryOfKind(kind) ==
  CASE kind \in {"OutputRows", "OutputBatches", "SpillCount", "SpilledRows", "PruningMetrics", "Ratio"} -> "Rows"
    [] kind \in {"OutputBytes", "SpilledBytes", "CurrentMemoryUsage", "PeakMemoryUsage"} -> "Bytes"
    [] kind \in Times \cup Timestamps -> "Timing"
    [] OTHER -> None

Build(p, type, v) == Metric(v, p, type, CategoryOfKind(v.kind))

New(kind) == Value(kind, "", EmptyCells(kind), "")

BaselineOf(p) ==
  <<[Build(p, "Dev", New("StartTimestamp")) EXCEPT !.value.cells = <<clock>>],
    Build(p, "Summary", New("EndTimestamp")),
    Build(p, "Summary", New("ElapsedCompute")),
    Build(p, "Summary", New("OutputRows")),
    Build(p, "Summary", New("OutputBytes")),
    Build(p, "Dev", New("OutputBatches"))>>

ExtrasOf(p) == [i \in DOMAIN Extras[p] |-> Build(p, "Dev", NewEmpty(Extras[p][i]))]

\* The cells of a handle are those of the six metrics behind its base.
Offset ==
  [StartTimestamp |-> 1, EndTimestamp |-> 2, ElapsedCompute |-> 3,
   OutputRows |-> 4, OutputBytes |-> 5, OutputBatches |-> 6]

Index(p, kind) == op[p].base + Offset[kind]

Cell(p, kind) == registry[Index(p, kind)].value.cells[1]

After(p, kind, x) == [registry EXCEPT ![Index(p, kind)].value.cells[1] = x]

\* Mutant: the counter holds what came last.
Set(p, kind, n) == registry' = After(p, kind, n)

Add(p, kind, n) == registry' = After(p, kind, Cell(p, kind) + n)

Init ==
  /\ plan \in Plans
  /\ registry = <<>>
  /\ clock = 0
  /\ op = [p \in Partitions |-> [pc |-> "new", base |-> 0, batch |-> 1, timer |-> None, polls |-> 0, last |-> None]]
  /\ handle = [p \in Partitions |-> [h \in {"stream", "clone"} |-> [pc |-> "none", stamp |-> None]]]
  /\ reader = [pc |-> "idle", length |-> 0, before |-> <<>>, seen |-> <<>>]

\* One clock for Instant::now, which times the polls, and Utc::now, which
\* stamps the start and the end: the wall clock is taken never to go back.
Tick ==
  /\ clock < plan.clock
  /\ clock' = clock + Second
  /\ UNCHANGED <<plan, registry, op, handle, reader>>

\* BaselineMetrics::new and the operator's own metrics, in one step.  The code
\* takes the lock of the set for each of them: in between a reader would find
\* some of them missing, which have no rows, bytes or batches yet.
Open(p) ==
  /\ op[p].pc = "new"
  /\ registry' = registry \o BaselineOf(p) \o ExtrasOf(p)
  /\ op' = [op EXCEPT ![p].pc = "idle", ![p].base = Len(registry)]
  /\ handle' = [handle EXCEPT ![p].stream.pc = "held"]
  /\ UNCHANGED <<plan, clock, reader>>

-----------------------------------------------------------------------------
(***************************************************************************)
(* A poll of the stream, under a timer.                                    *)
(***************************************************************************)
StartTimer(p) ==
  /\ op[p].pc = "idle"
  /\ handle[p].stream.pc = "held"
  /\ op[p].polls < plan.polls[p]
  /\ op' = [op EXCEPT ![p].pc = "polling", ![p].timer = clock, ![p].polls = @ + 1]
  /\ UNCHANGED <<plan, registry, clock, handle, reader>>

\* Mutant: the guard forgets that it was stopped.
KeepsStart(p) == op[p]

Stopped(p) == [op[p] EXCEPT !.timer = None]

\* ScopedTimerGuard::stop; it does nothing the second time.
Elapsed(p) ==
  IF op[p].timer = None THEN registry
  ELSE After(p, "ElapsedCompute", AddDuration(Cell(p, "ElapsedCompute"), clock - op[p].timer))

\* The operator stops the timer before it records the batch.
StopEarly(p) ==
  /\ op[p].pc = "polling"
  /\ op[p].timer # None
  /\ registry' = Elapsed(p)
  /\ op' = [op EXCEPT ![p] = Stopped(p)]
  /\ UNCHANGED <<plan, clock, handle, reader>>

\* The guard goes out of scope: behind a batch, a pending poll or the end.
EndPoll(p) ==
  /\ op[p].pc \in {"polling", "recorded", "ended"}
  /\ registry' = Elapsed(p)
  /\ op' = [op EXCEPT ![p] = [Stopped(p) EXCEPT !.pc = IF @ = "ended" THEN "over" ELSE "idle"]]
  /\ UNCHANGED <<plan, clock, handle, reader>>

RecordRows(p) ==
  /\ op[p].pc = "polling"
  /\ op[p].batch <= Len(Batches[p])
  /\ Add(p, "OutputRows", Batches[p][op[p].batch].rows)
  /\ op' = [op EXCEPT ![p].pc = "rows", ![p].last = clock]
  /\ UNCHANGED <<plan, clock, handle, reader>>

RecordBytes(p) ==
  /\ op[p].pc = "rows"
  /\ Add(p, "OutputBytes", MemorySize(Batches[p][op[p].batch]))
  /\ op' = [op EXCEPT ![p].pc = "bytes"]
  /\ UNCHANGED <<plan, clock, handle, reader>>

\* The operator's own metrics, in the registry behind its baseline ones.
WithExtras(p, metrics) ==
  LET base == Index(p, "OutputBatches")
  IN  [i \in DOMAIN metrics |->
         IF i - base \in DOMAIN Extras[p] THEN [metrics[i] EXCEPT !.value = Extras[p][i - base]] ELSE metrics[i]]

\* The operator records what its own metrics count along with its first batch.
RecordBatches(p) ==
  /\ op[p].pc = "bytes"
  /\ registry' = WithExtras(p, After(p, "OutputBatches", Cell(p, "OutputBatches") + 1))
  /\ op' = [op EXCEPT ![p].pc = "recorded", ![p].batch = @ + 1]
  /\ UNCHANGED <<plan, clock, handle, reader>>

\* The poll gives the end of the stream, or an error: done() reads the clock.
Done(p) ==
  /\ op[p].pc = "polling"
  /\ op' = [op EXCEPT ![p].pc = "ending"]
  /\ handle' = [handle EXCEPT ![p].stream = [pc |-> "stamped", stamp |-> clock]]
  /\ UNCHANGED <<plan, registry, clock, reader>>
-----------------------------------------------------------------------------
(***************************************************************************)
(* Handles.  A clone shares every cell with the handle it was made from,   *)
(* and each of the two stamps the end when it is dropped, unless it is     *)
(* stamped: it looks, reads the clock and writes, in three steps.          *)
(***************************************************************************)
Clone(p) ==
  /\ p \in plan.cloners
  /\ handle[p].stream.pc = "held"
  /\ handle[p].clone.pc = "none"
  /\ handle' = [handle EXCEPT ![p].clone.pc = "held"]
  /\ UNCHANGED <<plan, registry, clock, op, reader>>

\* Mutant: a handle is dropped without a look.
DropsSilently(p) == "gone"

TryDone(p) == IF Cell(p, "EndTimestamp") = None THEN "checked" ELSE "gone"

\* The caller drops the stream between two polls, or at its end.
Drop(p, h) ==
  /\ handle[p][h].pc = "held"
  /\ h = "stream" => op[p].pc \in {"idle", "over"}
  /\ handle' = [handle EXCEPT ![p][h].pc = TryDone(p)]
  /\ UNCHANGED <<plan, registry, clock, op, reader>>

Stamp(p, h) ==
  /\ handle[p][h].pc = "checked"
  /\ handle' = [handle EXCEPT ![p][h] = [pc |-> "stamped", stamp |-> clock]]
  /\ UNCHANGED <<plan, registry, clock, op, reader>>

Write(p, h) ==
  /\ handle[p][h].pc = "stamped"
  /\ registry' = After(p, "EndTimestamp", handle[p][h].stamp)
  /\ LET ends == h = "stream" /\ op[p].pc = "ending"
     IN  /\ handle' = [handle EXCEPT ![p][h].pc = IF ends THEN "held" ELSE "gone"]
         /\ op' = IF ends THEN [op EXCEPT ![p].pc = "ended"] ELSE op
  /\ UNCHANGED <<plan, clock, reader>>
-----------------------------------------------------------------------------
(***************************************************************************)
(* The reader: clone_inner takes the list under the lock; the cells are    *)
(* shared, and read one metric after another while the operators run.      *)
(***************************************************************************)
Outputs == {"OutputRows", "OutputBytes", "OutputBatches"}

Totals(metrics) ==
  [kind \in Outputs |-> LET t == Total(metrics, kind) IN IF t = None THEN 0 ELSE AsUsize(t)]

CloneInner ==
  /\ plan.read
  /\ reader.pc = "idle"
  /\ registry # <<>>
  /\ reader' = [pc |-> "reading", length |-> Len(registry), before |-> Totals(registry), seen |-> <<>>]
  /\ UNCHANGED <<plan, registry, clock, op, handle>>

\* One step reads up to the next counter of output, or to the end of the list.
Read ==
  /\ reader.pc = "reading"
  /\ LET from    == Len(reader.seen) + 1
         outputs == {i \in from..reader.length : registry[i].value.kind \in Outputs}
         to      == IF outputs = {} THEN reader.length ELSE Min(outputs)
     IN  reader' = [reader EXCEPT !.seen = @ \o SubSeq(registry, from, to),
                                  !.pc = IF to = reader.length THEN "read" ELSE @]
  /\ UNCHANGED <<plan, registry, clock, op, handle>>

\* The report is printed, and the reader has done its work.
Report ==
  /\ reader.pc = "read"
  /\ reader' = [reader EXCEPT !.pc = "printed", !.length = 0, !.before = <<>>, !.seen = <<>>]
  /\ UNCHANGED <<plan, registry, clock, op, handle>>

OperatorStep(p) ==
  \/ Open(p) \/ StartTimer(p) \/ StopEarly(p) \/ EndPoll(p)
  \/ RecordRows(p) \/ RecordBytes(p) \/ RecordBatches(p) \/ Done(p) \/ Clone(p)

HandleStep(p, h) == Drop(p, h) \/ Stamp(p, h) \/ Write(p, h)

\* Printing reads no cell: nobody need move while a report is printed.
Next ==
  \/ CloneInner
  \/ Read
  \/ Report
  \/ /\ reader.pc # "read"
     /\ \/ Tick
        \/ \E p \in Partitions : OperatorStep(p) \/ \E h \in {"stream", "clone"} : HandleStep(p, h)

Spec == Init /\ [][Next]_vars
-----------------------------------------------------------------------------
(***************************************************************************)
(* Properties.                                                             *)
(***************************************************************************)
Opened == {p \in Partitions : op[p].pc # "new"}

Shown == IF reader.pc = "read" THEN reader.seen ELSE <<>>

(***************************************************************************)
(* A report read while operators run shows no more rows, bytes or batches  *)
(* than there are when it is printed and no fewer than there were when it  *)
(* was begun: nothing is taken back, and nothing is counted before it is.  *)
(***************************************************************************)
ReportsAreBetween ==
  reader.pc = "read" =>
    \A kind \in Outputs :
      /\ reader.before[kind] <= Totals(reader.seen)[kind]
      /\ Totals(reader.seen)[kind] <= Totals(registry)[kind]

\* What the metrics of one name add up to, cell by cell, where a timer that was
\* never used counts as 1 ns (AddDuration).
IsTheSum(v, same) ==
  LET cell(c) == {same[i].value.cells[c] : i \in DOMAIN same} \ {None}
      sum(c)  == FoldLeft(LAMBDA acc, m : acc + m.value.cells[c], 0, same)
  IN  CASE v.kind = "StartTimestamp" -> \A t \in cell(1) : v.cells[1] \in cell(1) /\ v.cells[1] <= t
        [] v.kind = "EndTimestamp"   -> \A t \in cell(1) : v.cells[1] \in cell(1) /\ t <= v.cells[1]
        [] v.kind \in Times          -> v.cells[1] = sum(1) + Cardinality({i \in DOMAIN same : same[i].value.cells[1] = 0})
        [] v.kind = "Ratio"          -> v.cells = <<sum(1), IF v.merge = "AddPartSetTotal" THEN Last(same).value.cells[2] ELSE sum(2)>>
        [] OTHER                     -> \A c \in DOMAIN v.cells : v.cells[c] = sum(c)

(***************************************************************************)
(* The three ways to total a metric agree: each name of aggregate_by_name  *)
(* has the sum over the partitions, which sum_by_name gives for the names  *)
(* operators choose and the totals by kind for the built-in ones.          *)
(***************************************************************************)
SumsAgree ==
  LET sums == AggregateByName(Shown)
  IN  \A name \in DOMAIN sums :
        LET v == sums[name].value
        IN  /\ v # Mismatch
            /\ IsTheSum(v, SelectSeq(Shown, LAMBDA m : NameOfMetric(m) = name))
            /\ Equal(v, IF v.kind \in Named THEN SumByName(Shown, name) ELSE Total(Shown, v.kind))

NamesIn(metrics) == {NameOfMetric(m) : m \in ToSet(metrics)}

(***************************************************************************)
(* The aggregated report filters categories behind the sums and the full   *)
(* one filters each metric: both show the same names, timestamps aside,    *)
(* and the aggregated one is the same whatever the order of the HashMap.   *)
(***************************************************************************)
SameMetricsEitherWay ==
  \A f \in Filters :
    LET shown == ShowAggregated(Shown, f.types, f.categories, NameOrder)
    IN  /\ NamesIn(shown) = NamesIn(TimestampsRemoved(ShowFull(Shown, f.types, f.categories)))
        /\ shown = ShowAggregated(Shown, f.types, f.categories, Reverse(NameOrder))

(***************************************************************************)
(* The time of an operator is no longer than it has been open, rounding    *)
(* aside: an interval that was stopped is not added again when the guard   *)
(* is dropped.                                                             *)
(***************************************************************************)
TimeIsCountedOnce ==
  \A p \in Opened :
    Cell(p, "ElapsedCompute") <= clock - Cell(p, "StartTimestamp") + op[p].polls

(***************************************************************************)
(* Once every handle is dropped the stream has an end, not before its      *)
(* start.  If the handle was never cloned, the end is not before the last  *)
(* batch either; a clone that is dropped early can leave it there.  For a  *)
(* wall clock that does not go back (Tick).                                *)
(***************************************************************************)
EndCoversTheStream ==
  \A p \in Opened :
    LET end == Cell(p, "EndTimestamp")
    IN  (handle[p].stream.pc = "gone" /\ handle[p].clone.pc \in {"none", "gone"}) =>
          /\ end # None
          /\ Cell(p, "StartTimestamp") <= end
          /\ (handle[p].clone.pc = "none" /\ op[p].last # None) => op[p].last <= end

(***************************************************************************)
(* The skew of the rows is a percentage: 0 when all partitions have as     *)
(* many, 100 when one of several has them all.  Conversely, up to half a   *)
(* hundredth of a percent that is rounded away, it is 0 only when no two   *)
(* partitions differ, and 100 only when no two have rows.                  *)
(***************************************************************************)
SkewMeasuresBalance ==
  LET rows  == RowsOf(Shown)
      parts == DOMAIN rows
      lost  == (Cardinality(parts) - 1) * (SumFunction(rows) * SumFunction(rows))
      skew  == Skew(Shown)
  IN  skew # None =>
        /\ skew \in 0..10000
        /\ (\A p, q \in parts : rows[p] = rows[q]) => skew = 0
        /\ (Cardinality(parts) > 1 /\ Cardinality({p \in parts : rows[p] > 0}) = 1) => skew = 10000
        /\ skew = 0 => \A p, q \in parts : 20000 * ((rows[p] - rows[q]) * (rows[p] - rows[q])) <= lost
        /\ skew = 10000 => /\ Cardinality(parts) > 1
                           /\ \A p, q \in parts : p # q => 40000 * (rows[p] * rows[q]) <= lost

(***************************************************************************)
(* The bytes of a stream cover the memory its batches keep alive, and are  *)
(* exactly that if no two of its batches share a buffer.                   *)
(***************************************************************************)
BytesCoverTheBatches ==
  \A p \in Opened :
    LET given   == SubSeq(Batches[p], 1, op[p].batch - 1)
        buffers == [b \in DOMAIN given |-> UNION {ToSet(c) : c \in ToSet(given[b].columns)}]
        kept    == FoldLeft(CountBatch, NewCounter, given).usage
    IN  op[p].pc \in {"idle", "over"} =>
          /\ kept <= Cell(p, "OutputBytes")
          /\ (\A b, c \in DOMAIN given : b # c => buffers[b] \cap buffers[c] = {})
               => kept = Cell(p, "OutputBytes")
=============================================================================
