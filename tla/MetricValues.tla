---------------------------- MODULE MetricValues ----------------------------
(***************************************************************************)
(* The values an operator can record, how values of one kind are added up, *)
(* and what EXPLAIN ANALYZE makes of the set of an operator's metrics:     *)
(* filter, aggregate by name, sort, print.  A value is the cells its       *)
(* atomics hold; labels and number formats are left out.                   *)
(***************************************************************************)
EXTENDS Integers, FiniteSets, Sequences, SequencesExt

CONSTANTS
  None,       \* Option::None
  Mismatch,   \* what a panic of aggregate leaves instead of a value
  NameOrder   \* the names of metrics, in alphabetical order

Counters   == {"OutputRows", "SpillCount", "SpilledBytes", "OutputBytes", "OutputBatches", "SpilledRows", "Count"}
Gauges     == {"CurrentMemoryUsage", "Gauge", "PeakMemoryUsage"}
Times      == {"ElapsedCompute", "Time"}
Timestamps == {"StartTimestamp", "EndTimestamp"}

\* The kinds whose name the operator chooses.
Named == {"Count", "Gauge", "PeakMemoryUsage", "Time", "PruningMetrics", "Ratio", "Custom"}

Kinds == Counters \cup Gauges \cup Times \cup Timestamps \cup Named

BuiltInName ==
  [OutputRows |-> "output_rows", SpillCount |-> "spill_count", SpilledBytes |-> "spilled_bytes",
   OutputBytes |-> "output_bytes", OutputBatches |-> "output_batches", SpilledRows |-> "spilled_rows",
   CurrentMemoryUsage |-> "mem_used", ElapsedCompute |-> "elapsed_compute",
   StartTimestamp |-> "start_timestamp", EndTimestamp |-> "end_timestamp"]

Value(kind, name, cells, merge) == [kind |-> kind, name |-> name, cells |-> cells, merge |-> merge]

NameOf(v) == IF v.kind \in Named THEN v.name ELSE BuiltInName[v.kind]

EmptyCells(kind) ==
  CASE kind \in Timestamps      -> <<None>>
    [] kind = "PruningMetrics"  -> <<0, 0, 0>>
    [] kind = "Ratio"           -> <<0, 0>>
    [] OTHER                    -> <<0>>

\* Only the kinds that are Named have a name of their own, and only ratios a way to merge.
Names  == ToSet(NameOrder) \cup {""}
Merges == {"AddPartAddTotal", "AddPartSetTotal", "SetPartAddTotal", ""}

\* The values an operator can record: only a timestamp may be missing.
Values ==
  {v \in [kind : Kinds, name : Names, cells : Seq(Nat \cup {None}), merge : Merges] :
     /\ DOMAIN v.cells = DOMAIN EmptyCells(v.kind)
     /\ v.kind \notin Timestamps => v.cells \in Seq(Nat)}

ASSUME NoValueAssumption == None \notin Int /\ None \notin Values /\ Mismatch \notin Values

\* Mutant: the sum starts from the first value.
FirstValue(v) == v

NewEmpty(v) == [v EXCEPT !.cells = EmptyCells(v.kind)]

\* Pruning and ratio metrics count as nothing; a timestamp that was not taken too.
AsUsize(v) ==
  IF v.kind \in {"PruningMetrics", "Ratio"} \/ v.cells[1] = None THEN 0 ELSE v.cells[1]

\* Two pruning metrics are equal whatever was fully matched.
Equal(v, w) ==
  /\ v.kind = w.kind
  /\ NameOf(v) = NameOf(w)
  /\ IF v.kind = "PruningMetrics" THEN SubSeq(v.cells, 1, 2) = SubSeq(w.cells, 1, 2)
                                  ELSE v.cells = w.cells
-----------------------------------------------------------------------------
(***************************************************************************)
(* Adding up.                                                              *)
(***************************************************************************)
\* Time::add_duration: whatever is shorter than 1 ns counts as 1 ns, and so does
\* nothing at all, which Time::add brings when a timer was never used.
AddDuration(total, nanos) == total + (IF nanos > 1 THEN nanos ELSE 1)

Earlier(t, u) == IF t = None \/ (u # None /\ u <= t) THEN u ELSE t
Later(t, u)   == IF t = None \/ (u # None /\ t < u)  THEN u ELSE t

RatioMerge(merge, v, o) ==
  CASE merge = "AddPartAddTotal" -> <<v[1] + o[1], v[2] + o[2]>>
    [] merge = "AddPartSetTotal" -> <<v[1] + o[1], o[2]>>
    [] merge = "SetPartAddTotal" -> <<o[1], v[2] + o[2]>>

Aggregate(v, o) ==
  CASE v = Mismatch \/ o.kind # v.kind  -> Mismatch
    [] v.kind \in Times                 -> [v EXCEPT !.cells = <<AddDuration(v.cells[1], o.cells[1])>>]
    [] v.kind = "StartTimestamp"        -> [v EXCEPT !.cells = <<Earlier(v.cells[1], o.cells[1])>>]
    [] v.kind = "EndTimestamp"          -> [v EXCEPT !.cells = <<Later(v.cells[1], o.cells[1])>>]
    [] v.kind = "Ratio"                 -> [v EXCEPT !.cells = RatioMerge(v.merge, v.cells, o.cells)]
    [] OTHER                            -> [v EXCEPT !.cells = [i \in DOMAIN v.cells |-> v.cells[i] + o.cells[i]]]
-----------------------------------------------------------------------------
(***************************************************************************)
(* The metrics of an operator.                                             *)
(***************************************************************************)
Categories == {"Rows", "Bytes", "Timing", "Uncategorized"}
Types      == {"Summary", "Dev"}

Metric(value, partition, type, category) ==
  [value |-> value, partition |-> partition, type |-> type, category |-> category]

NameOfMetric(m) == NameOf(m.value)

FoldValues(metrics) ==
  FoldLeft(LAMBDA acc, m : Aggregate(acc, m.value), NewEmpty(metrics[1].value), metrics)

\* MetricsSet::sum of the metrics that were chosen.
Sum(chosen) == IF chosen = <<>> THEN None ELSE FoldValues(chosen)

SumByName(metrics, name) ==
  Sum(SelectSeq(metrics, LAMBDA m : m.value.kind \in Named \ {"Custom"} /\ NameOfMetric(m) = name))

\* It starts from an empty value of the first metric's kind.
AddTo(sum, v) == Aggregate(IF sum = None THEN NewEmpty(v) ELSE sum, v)

\* MetricsSet::output_rows, spill_count, spilled_bytes, spilled_rows, elapsed_compute.
Total(metrics, kind) ==
  LET sum[k \in 0..Len(metrics)] ==
        IF k = 0 THEN None
        ELSE IF metrics[k].value.kind = kind THEN AddTo(sum[k - 1], metrics[k].value) ELSE sum[k - 1]
  IN  sum[Len(metrics)]

\* The first metric of a name gives the sum its type and category.
AggregateByName(metrics) ==
  [name \in {NameOfMetric(m) : m \in ToSet(metrics)} |->
     LET same == SelectSeq(metrics, LAMBDA m : NameOfMetric(m) = name)
     IN  Metric(FoldValues(same), None, same[1].type, same[1].category)]

FilterByTypes(metrics, allowed) == SelectSeq(metrics, LAMBDA m : m.type \in allowed)

CategoryOf(m) == IF m.category = None THEN "Uncategorized" ELSE m.category

FilterByCategories(metrics, allowed) == SelectSeq(metrics, LAMBDA m : CategoryOf(m) \in allowed)

TimestampsRemoved(metrics) == SelectSeq(metrics, LAMBDA m : m.value.kind \notin Timestamps)

PruningRank ==
  [files_ranges_pruned_statistics |-> 4, row_groups_pruned_statistics |-> 5,
   row_groups_pruned_bloom_filter |-> 6, page_index_pages_pruned |-> 7, page_index_rows_pruned |-> 8]

SortKey(v) ==
  CASE v.kind = "PruningMetrics" -> IF v.name \in DOMAIN PruningRank THEN PruningRank[v.name] ELSE 9
    [] v.kind = "Count"          -> IF v.name = "page_index_pages_skipped_by_fully_matched" THEN 8 ELSE 14
    [] OTHER -> [OutputRows |-> 0, ElapsedCompute |-> 1, OutputBytes |-> 2, OutputBatches |-> 3,
                 SpillCount |-> 10, SpilledBytes |-> 11, SpilledRows |-> 12,
                 CurrentMemoryUsage |-> 13, PeakMemoryUsage |-> 13, Gauge |-> 15, Time |-> 16,
                 Ratio |-> 17, StartTimestamp |-> 18, EndTimestamp |-> 19, Custom |-> 20][v.kind]

Alphabetical(name) == CHOOSE i \in DOMAIN NameOrder : NameOrder[i] = name

\* Mutant: metrics of one rank stay in the order they come in.
ByRank(m, n) == SortKey(m.value) < SortKey(n.value)

Before(m, n) ==
  \/ SortKey(m.value) < SortKey(n.value)
  \/ /\ SortKey(m.value) = SortKey(n.value)
     /\ Alphabetical(NameOfMetric(m)) < Alphabetical(NameOfMetric(n))

\* sort_by is stable: each metric goes behind all that are not after it.
SortedForDisplay(metrics) ==
  FoldLeft(LAMBDA acc, m :
             LET k == Cardinality({i \in DOMAIN acc : ~Before(m, acc[i])})
             IN  InsertAt(acc, k + 1, m),
           <<>>, metrics)

(***************************************************************************)
(* What a line of EXPLAIN ANALYZE shows, from the metrics in whatever      *)
(* order the HashMap of aggregate_by_name gives them.                      *)
(***************************************************************************)
WithCategories(metrics, categories) ==
  IF categories = None THEN metrics ELSE FilterByCategories(metrics, categories)

ShowFull(metrics, types, categories) == WithCategories(FilterByTypes(metrics, types), categories)

ShowAggregated(metrics, types, categories, order) ==
  LET sums == AggregateByName(FilterByTypes(metrics, types))
      seen == SelectSeq(order, LAMBDA name : name \in DOMAIN sums)
      list == [i \in DOMAIN seen |-> sums[seen[i]]]
  IN  WithCategories(TimestampsRemoved(SortedForDisplay(list)), categories)
-----------------------------------------------------------------------------
(***************************************************************************)
(* How unevenly the rows are spread over the partitions: with T the total, *)
(* Q the sum of the squares and n the partitions, 1 - (T^2/Q - 1)/(n - 1), *)
(* in hundredths of a percent.                                             *)
(***************************************************************************)
Rounded(num, den) == (2 * num + den) \div (2 * den)

RowsOf(metrics) ==
  LET counts == {i \in DOMAIN metrics : metrics[i].value.kind = "OutputRows" /\ metrics[i].partition # None}
      number == [i \in DOMAIN metrics |-> metrics[i].value.cells[1]]
  IN  [p \in {metrics[i].partition : i \in counts} |->
         SumFunctionOnSet(number, {i \in counts : metrics[i].partition = p})]

SquaresOf(rows) == [p \in DOMAIN rows |-> rows[p] * rows[p]]

\* Mutant: the partitions without rows are left out.
SkewOfBusy(metrics) ==
  LET given == RowsOf(metrics)
      rows  == [p \in {q \in DOMAIN given : given[q] > 0} |-> given[p]]
      n     == Cardinality(DOMAIN rows)
      t     == SumFunction(rows)
      q     == SumFunction(SquaresOf(rows))
  IN  CASE n = 0  -> None
        [] n = 1  -> 0
        [] OTHER  -> Rounded(10000 * (n * q - t * t), q * (n - 1))

Skew(metrics) ==
  LET rows == RowsOf(metrics)
      n    == Cardinality(DOMAIN rows)
      t    == SumFunction(rows)
      q    == SumFunction(SquaresOf(rows))
  IN  CASE n = 0            -> None   \* no metric
        [] n = 1            -> 0
        [] n > 1 /\ t = 0   -> None   \* "N/A"
        [] OTHER            -> Rounded(10000 * (n * q - t * t), q * (n - 1))
=============================================================================
