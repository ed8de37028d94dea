----------------------------- MODULE MCHashJoin -----------------------------
(***************************************************************************)
(* HashJoin for TLC: two columns on each side, keys with and without a     *)
(* shared name, one or two of them, and duplicates.  Rows with a Null have *)
(* equal keys when the first column is the key, and never when both are.   *)
(***************************************************************************)
EXTENDS HashJoin

CONSTANTS MaxLeft, MaxRight, JoinTypes, Unrepeatable

Join(type, l, r, on) == [type |-> type, leftNames |-> l, rightNames |-> r, on |-> on]

MCJoins ==
  {Join(type, <<"id", "name">>, <<"id", "name">>, <<<<"id", "id">>>>) : type \in JoinTypes} \cup
  {Join(type, <<"id", "name">>, <<"dept", "key">>, <<<<"id", "key">>>>) : type \in JoinTypes} \cup
  {Join(type, <<"id", "name">>, <<"key", "name">>, <<<<"id", "key">>, <<"name", "name">>>>) : type \in JoinTypes}

MCValues  == {1, 2, Null}
LeftRows  == {<<1, 1>>, <<2, 1>>, <<Null, 2>>}
RightRows == {<<1, 1>>, <<1, 2>>, <<Null, 1>>}

Cut(rows, n) ==
  [b \in 1..((Len(rows) + n - 1) \div n) |->
     SubSeq(rows, (b - 1) * n + 1, IF b * n < Len(rows) THEN b * n ELSE Len(rows))]

Cuts(rows, max) == UNION {{Cut(s, n) : s \in BoundedSeq(rows, max)} : n \in {1, 2}}

\* An input that repeats itself, or a limit of one row over the groups of an
\* aggregate.
MCLeftScans == {{scan} : scan \in Cuts(LeftRows, MaxLeft)} \cup
               (IF Unrepeatable THEN {{<<<<row>>>> : row \in LeftRows}} ELSE {})
MCRights    == Cuts(RightRows, MaxRight)
=============================================================================
