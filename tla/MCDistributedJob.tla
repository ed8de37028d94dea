-------------------------- MODULE MCDistributedJob --------------------------
(***************************************************************************)
(* DistributedJob for TLC: two groups that hash to different partitions of *)
(* two, and the clusters and queries the runs choose from.                 *)
(***************************************************************************)
EXTENDS DistributedJob, TLC

CONSTANTS g1, g2, id1, id2, d1, d2

MCGroups == {g1, g2}
MCHash   == g1 :> 0 @@ g2 :> 5

Asked(s, gs)  == [shape |-> s, groups |-> gs, encodable |-> TRUE, executors |-> NumExecutors]
Aggregate(gs) == Asked("aggregate", gs)
Other(gs)     == Asked("other", gs)
Unencodable   == {[Asked(s, {}) EXCEPT !.encodable = FALSE] : s \in Shapes}
NobodyListed  == {[Asked(s, {g1}) EXCEPT !.executors = 0] : s \in Shapes}

FullAggregate == {Aggregate({g1, g2})}
TwoAggregates == {Aggregate({g1, g2}), Aggregate({g2})}
AllQueries    == {Aggregate(gs) : gs \in SUBSET MCGroups} \cup {Other({g1})} \cup Unencodable \cup NobodyListed

\* Every server started by bin/flight_server.rs calls itself "executor-0".
SameId      == [e \in Executors |-> id1]
OwnId       == [e \in Executors |-> IF e = 1 THEN id1 ELSE id2]
OneDir      == [e \in Executors |-> d1]
OwnDir      == [e \in Executors |-> IF e = 1 THEN d1 ELSE d2]
=============================================================================
