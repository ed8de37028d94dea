-------------------------- MODULE GroupedAggregate --------------------------
(***************************************************************************)
(* AggregateExec and its accumulators as operators: where a query's        *)
(* columns lie, what one row does to the map of groups, and the row each   *)
(* group becomes.  At the end, what the answer of a query IS, stated over  *)
(* the rows and the names of the columns, without accumulators, modes or   *)
(* positions.                                                              *)
(*                                                                         *)
(* Every column is an Int32 of IntBits bits.  A name is its rank in the    *)
(* alphabetical order of the source's columns, and a source row gives each *)
(* name a value.                                                           *)
(***************************************************************************)
EXTENDS Integers, FiniteSets, Sequences, SequencesExt

CONSTANTS
  Null,     \* ScalarValue::Null
  IntBits   \* the width of Int32

\* The power is a positive number: the provers do not compute powers.
ASSUME WidthAssumption == IntBits \in Nat \ {0} /\ 2^(IntBits - 1) \in Nat \ {0}
ASSUME NullAssumption  == Null \notin Int

Half    == 2^(IntBits - 1)
Int32   == -Half..(Half - 1)
Wrap(n) == ((n + Half) % (2 * Half)) - Half

AggregateFunctionKind == {"SUM", "MIN", "MAX", "COUNT", "AVG"}
-----------------------------------------------------------------------------
(***************************************************************************)
(* Names become positions.  A query has the names it groups by and, for    *)
(* each aggregate, a function and the name of its argument.                *)
(***************************************************************************)
Referenced(q) == Range(q.group) \cup {a.arg : a \in Range(q.aggs)}

\* The planner resolves a name in the schema of the scan.
Position(q, name) == Cardinality({n \in Referenced(q) : n <= name})

\* ProjectionPushDown leaves the referenced columns, in alphabetical order.
Scan(q, row) ==
  [p \in 1..Cardinality(Referenced(q)) |-> row[CHOOSE n \in Referenced(q) : Position(q, n) = p]]

GroupCount(q) == Len(q.group)

\* The expressions of the plan, evaluated on a row of WHATEVER input.
KeyOf(q, row)    == [i \in DOMAIN q.group |-> row[Position(q, q.group[i])]]
ArgOf(q, k, row) == row[Position(q, q.aggs[k].arg)]

\* Do the columns of the scan lie as those of a partial result do: the
\* groups first, then one column for each aggregate?
Aligned(q) ==
  /\ \A i \in DOMAIN q.group : Position(q, q.group[i]) = i
  /\ \A k \in DOMAIN q.aggs : Position(q, q.aggs[k].arg) = GroupCount(q) + k
-----------------------------------------------------------------------------
(***************************************************************************)
(* Accumulators.                                                           *)
(***************************************************************************)
Fresh == [value |-> Null, sum |-> 0, count |-> 0]

\* SUM wraps, MIN and MAX compare, COUNT and AVG count in an i32.
Accumulate(f, acc, v) ==
  IF v = Null THEN acc
  ELSE CASE f = "SUM"   -> [acc EXCEPT !.value = IF @ = Null THEN v ELSE Wrap(@ + v)]
         [] f = "MIN"   -> [acc EXCEPT !.value = IF @ = Null \/ v < @ THEN v ELSE @]
         [] f = "MAX"   -> [acc EXCEPT !.value = IF @ = Null \/ v > @ THEN v ELSE @]
         [] f = "COUNT" -> [acc EXCEPT !.count = Wrap(@ + 1)]
         [] f = "AVG"   -> [acc EXCEPT !.sum = @ + v, !.count = Wrap(@ + 1)]

\* Mutant: a partial count is counted.
MergeByAccumulating(f, acc, v) == IF f = "AVG" THEN acc ELSE Accumulate(f, acc, v)

\* The value that reaches merge is a cell of the partial result; AVG takes
\* none but Null.
Merge(f, acc, v) ==
  CASE f = "COUNT" -> IF v = Null THEN acc ELSE [acc EXCEPT !.count = Wrap(@ + v)]
    [] f = "AVG"   -> acc
    [] OTHER       -> Accumulate(f, acc, v)

CanMerge(f, v) == f = "AVG" => v = Null

\* What += adds to a counter.
Increment(mode, f, v) ==
  IF v = Null \/ f \notin {"COUNT", "AVG"} THEN 0
  ELSE IF mode = "Final" THEN (IF f = "COUNT" THEN v ELSE 0) ELSE 1

Overflows(mode, f, acc, v) == acc.count + Increment(mode, f, v) \notin Int32

\* Mutant: an average has no partial value at all.
NeverForAverages(f, acc) == f # "AVG"

\* An average has no partial value but Null: a sum with a count does not
\* fit in a cell.
HasPartial(f, acc) == f = "AVG" => acc.count = 0

PartialValue(f, acc) ==
  CASE f = "COUNT" -> acc.count
    [] f = "AVG"   -> Null
    [] OTHER       -> acc.value

\* An average is left as the sum and the count it is the quotient of.
FinalValue(f, acc) ==
  CASE f = "COUNT" -> acc.count
    [] f = "AVG"   -> IF acc.count = 0 THEN Null ELSE <<acc.sum, acc.count>>
    [] OTHER       -> acc.value
-----------------------------------------------------------------------------
(***************************************************************************)
(* The map of groups.                                                      *)
(***************************************************************************)
NoGroups == [k \in {} |-> <<>>]

Accumulators(q, map, key) ==
  IF key \in DOMAIN map THEN map[key] ELSE [k \in DOMAIN q.aggs |-> Fresh]

Folded(mode, f, acc, v) == IF mode = "Final" THEN Merge(f, acc, v) ELSE Accumulate(f, acc, v)

\* One row of the input finds its group, or opens it.
Feed(mode, q, map, row) ==
  LET key == KeyOf(q, row)
      old == Accumulators(q, map, key)
  IN  [g \in DOMAIN map \cup {key} |->
         IF g = key
         THEN [k \in DOMAIN q.aggs |-> Folded(mode, q.aggs[k].func, old[k], ArgOf(q, k, row))]
         ELSE map[g]]

FeedBatch(mode, q, map, batch) == FoldLeft(LAMBDA m, row : Feed(mode, q, m, row), map, batch)

\* Would a row, or some row of a batch, make a counter overflow?
RowOverflows(mode, q, map, row) ==
  \E k \in DOMAIN q.aggs :
    Overflows(mode, q.aggs[k].func, Accumulators(q, map, KeyOf(q, row))[k], ArgOf(q, k, row))

BatchOverflows(mode, q, map, batch) ==
  \E i \in DOMAIN batch :
    RowOverflows(mode, q, FeedBatch(mode, q, map, SubSeq(batch, 1, i - 1)), batch[i])

RowMerges(q, row) == \A k \in DOMAIN q.aggs : CanMerge(q.aggs[k].func, ArgOf(q, k, row))

MapHasPartials(q, map) ==
  \A key \in DOMAIN map : \A k \in DOMAIN q.aggs : HasPartial(q.aggs[k].func, map[key][k])

\* The rows of the output batch: the key, then a value for each aggregate.
\* The map is a HashMap, so the batch has them in any order.
PartialRows(q, map) ==
  {key \o [k \in DOMAIN q.aggs |-> PartialValue(q.aggs[k].func, map[key][k])] : key \in DOMAIN map}

FinalRows(q, map) ==
  {key \o [k \in DOMAIN q.aggs |-> FinalValue(q.aggs[k].func, map[key][k])] : key \in DOMAIN map}
-----------------------------------------------------------------------------
(***************************************************************************)
(* What the answer is.                                                     *)
(***************************************************************************)
NamedKey(q, row) == [i \in DOMAIN q.group |-> row[q.group[i]]]

\* The places of a group's rows that have a value for an aggregate.
Places(q, k, rows, key) ==
  {i \in DOMAIN rows : NamedKey(q, rows[i]) = key /\ rows[i][q.aggs[k].arg] # Null}

\* The values at some places, added up.
Total(rows, is, name) ==
  LET upTo[i \in 0..Len(rows)] ==
        IF i = 0 THEN 0 ELSE upTo[i - 1] + (IF i \in is THEN rows[i][name] ELSE 0)
  IN  upTo[Len(rows)]

Aggregated(f, rows, is, name) ==
  LET values == {rows[i][name] : i \in is}
  IN  CASE f = "COUNT" -> Wrap(Cardinality(is))
        [] f # "COUNT" /\ is = {} -> Null
        [] f = "SUM" /\ is # {} -> Wrap(Total(rows, is, name))
        [] f = "MIN" /\ is # {} -> CHOOSE v \in values : \A w \in values : v <= w
        [] f = "MAX" /\ is # {} -> CHOOSE v \in values : \A w \in values : v >= w
        [] f = "AVG" /\ is # {} -> IF Wrap(Cardinality(is)) = 0 THEN Null
                                   ELSE <<Total(rows, is, name), Wrap(Cardinality(is))>>

Reference(q, rows) ==
  {key \o [k \in DOMAIN q.aggs |->
             Aggregated(q.aggs[k].func, rows, Places(q, k, rows, key), q.aggs[k].arg)] :
     key \in {NamedKey(q, rows[i]) : i \in DOMAIN rows}}
=============================================================================
