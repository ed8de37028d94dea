------------------------------ MODULE MCStreams ------------------------------
(***************************************************************************)
(* Streams for TLC: three rows, of which two are equal to the sort and two *)
(* to the projection, and one is dropped by the filter.                    *)
(***************************************************************************)
EXTENDS Streams

CONSTANTS MaxBatches, MaxRows

MCRow     == {1, 2, 3}
MCKeep    == {1, 3}
MCProject == [row \in MCRow |-> IF row = 2 THEN 1 ELSE row]
MCRank    == [row \in MCRow |-> IF row = 3 THEN 0 ELSE 1]

Batches  == BoundedSeq(MCRow, 2)
MCInputs == {batches \in BoundedSeq(Batches, MaxBatches) : Len(FlattenSeq(batches)) <= MaxRows}

\* One operator alone, with bounds at, inside and beyond the batches; then
\* chains in the orders a plan can have them.
MCPlans ==
  {<<GlobalLimit(skip, fetch)>> : skip \in 0..3, fetch \in {0, 1, 2, UsizeMax}} \cup
  {<<Sort(fetch)>> : fetch \in {0, 1, UsizeMax}} \cup
  {<<Filter, LocalLimit(1), Projection>>, <<Filter, Projection, GlobalLimit(1, 2)>>,
   <<LocalLimit(3), GlobalLimit(1, 1)>>, <<LocalLimit(2), Filter, Sort(UsizeMax)>>,
   <<Filter, Sort(UsizeMax), GlobalLimit(1, 1)>>, <<LocalLimit(3), Sort(2), Projection>>}
=============================================================================
