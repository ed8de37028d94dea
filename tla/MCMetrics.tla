----------------------------- MODULE MCMetrics -----------------------------
(***************************************************************************)
(* Metrics for TLC: one partition with a clone of its handle and a clock,  *)
(* or two that are read.  Each operator adds two metrics of its own.       *)
(***************************************************************************)
EXTENDS Metrics

CONSTANTS p1, p2

MCCapacity == [a |-> 8, b |-> 4, n |-> 1]

\* Two columns over one buffer, a column with nulls, and the first buffer again.
Shared == <<[rows |-> 2, columns |-> <<<<"a">>, <<"a", "n">>>>], [rows |-> 1, columns |-> <<<<"a">>>>]>>
Own    == <<[rows |-> 3, columns |-> <<<<"b">>, <<"b">>>>]>>

\* A stream whose handle is cloned; one and two streams that are read while they run.
MCPlans ==
  {[batches |-> p1 :> Shared, cloners |-> {p1}, read |-> FALSE, polls |-> p1 :> 3, clock |-> 2 * Second],
   [batches |-> p1 :> Shared, cloners |-> {}, read |-> TRUE, polls |-> p1 :> 2, clock |-> 0],
   [batches |-> (p1 :> <<Shared[1]>>) @@ (p2 :> Own), cloners |-> {}, read |-> TRUE,
    polls |-> (p1 :> 1) @@ (p2 :> 1), clock |-> 0]}

Gauge(name, n) == Value("Gauge", name, <<n>>, "")
Ratio(n, m) == Value("Ratio", "selected", <<n, m>>, "AddPartSetTotal")

MCExtras == (p1 :> <<Gauge("buffered", 2), Ratio(1, 4)>>) @@ (p2 :> <<Gauge("spare", 1), Ratio(0, 2)>>)

MCFilters ==
  {[types |-> Types, categories |-> None], [types |-> {"Summary"}, categories |-> {"Bytes", "Timing"}],
   [types |-> Types, categories |-> {"Rows"}], [types |-> Types, categories |-> {"Rows", "Uncategorized"}]}

MCNameOrder ==
  <<"buffered", "elapsed_compute", "end_timestamp", "output_batches", "output_bytes",
    "output_rows", "selected", "spare", "start_timestamp">>
=============================================================================
