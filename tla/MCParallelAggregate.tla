------------------------ MODULE MCParallelAggregate ------------------------
(***************************************************************************)
(* ParallelAggregate for TLC: three columns of two-bit integers, so that   *)
(* sums wrap and a second row overflows a counter.                         *)
(***************************************************************************)
EXTENDS ParallelAggregate

CONSTANTS MaxRows, BatchSizes

\* Three groups, one of them Null, and values at both ends of the range.
MCRows == {<<0, 1, Null>>, <<0, -2, 1>>, <<1, Null, -2>>, <<Null, 1, 1>>}

Cut(rows, n) ==
  [b \in 1..((Len(rows) + n - 1) \div n) |->
     SubSeq(rows, (b - 1) * n + 1, IF b * n < Len(rows) THEN b * n ELSE Len(rows))]

\* The last ones are as many rows of one group as two bits count.
MCSources ==
  {Cut(rows, n) : rows \in BoundedSeq(MCRows, MaxRows), n \in BatchSizes} \cup
  {Cut([i \in 1..4 |-> row], n) : row \in MCRows, n \in {2, 4}}

Agg(f, name) == [func |-> f, arg |-> name]
By(group, aggs) == [group |-> group, aggs |-> aggs]

\* The columns of the scan lie as those of the partial result.
AlignedQueries ==
  {By(<<1>>, <<Agg(f, 2)>>) : f \in AggregateFunctionKind} \cup
  {By(<<>>, <<Agg("SUM", 1), Agg("COUNT", 2)>>), By(<<1>>, <<Agg("MIN", 2), Agg("AVG", 3)>>)}

\* They do not: the argument comes before the group in the alphabet, or two
\* aggregates have the same argument.
CrossedQueries ==
  {By(<<2>>, <<Agg(f, 1)>>) : f \in {"SUM", "AVG"}} \cup
  {By(<<1>>, <<Agg("MIN", 2), Agg("MAX", 2)>>)}

MCQueries == AlignedQueries \cup CrossedQueries
=============================================================================
