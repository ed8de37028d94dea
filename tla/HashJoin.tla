------------------------------ MODULE HashJoin ------------------------------
(***************************************************************************)
(* HashJoinExec: the right input is read into a table by its key, then     *)
(* each row of the left input looks up its matches, batch by batch; a      *)
(* right join executes the left input a second time to find the right rows *)
(* without a match.  An input need not give the same rows each time it is  *)
(* executed: a limit over an aggregate takes the first rows of a HashMap.  *)
(***************************************************************************)
EXTENDS Naturals, FiniteSets, Sequences, SequencesExt, Bags

CONSTANTS
  Values,     \* the scalar values
  Null,       \* ScalarValue::Null
  Joins,      \* the joins, with the names of the columns on both sides
  LeftScans,  \* for each left input, what an execution of it may give
  Rights,     \* the right inputs: sequences of batches
  MaxErrors   \* bound on the errors of the inputs and of expressions

ASSUME ErrorsAssumption == MaxErrors \in Nat

\* The rows of a schema have a value for each of its columns.
Rows(names) == [DOMAIN names -> Values]

\* What the inputs give has the schemas the join was planned with.
ASSUME InputsAssumption ==
  /\ Null \in Values
  /\ \A j \in Joins :
       /\ j.leftNames \in Seq(STRING) /\ j.rightNames \in Seq(STRING)
       /\ \A scans \in LeftScans : scans \subseteq Seq(Seq(Rows(j.leftNames)))
       /\ Rights \subseteq Seq(Seq(Rows(j.rightNames)))

VARIABLES
  join,     \* the join
  left,     \* the executions of its left input
  right,    \* the batches of its right input
  phase,    \* where the generator stands
  todo,     \* the batches of the input that is being read
  first,    \* the left input, as it was when it was probed
  second,   \* and when it was read again
  table,    \* the right rows of each key
  matched,  \* the keys a right join has found on the left
  output,   \* the rows given to the caller
  errors    \* how many errors there have been

vars  == <<join, left, right, phase, todo, first, second, table, matched, output, errors>>
given == <<join, left, right>>
-----------------------------------------------------------------------------
(***************************************************************************)
(* The plan of a join.                                                     *)
(***************************************************************************)
Supported == {"Inner", "Left", "Right"}

\* The planner looks a name up in the schema of its side.
PositionOf(names, name) == CHOOSE i \in DOMAIN names : names[i] = name

LeftKeys(j)  == [k \in DOMAIN j.on |-> PositionOf(j.leftNames, j.on[k][1])]
RightKeys(j) == [k \in DOMAIN j.on |-> PositionOf(j.rightNames, j.on[k][2])]

\* The key columns that have one name on both sides.
DuplicateKeys(j) == {pair[1] : pair \in {p \in Range(j.on) : p[1] = p[2]}}

RightColumnsToExclude(j) == {i \in DOMAIN j.rightNames : j.rightNames[i] \in DuplicateKeys(j)}

NullRow(names) == [i \in DOMAIN names |-> Null]

\* The places of a set, from the first to the last.
InOrder(places) ==
  [n \in 1..Cardinality(places) |-> CHOOSE i \in places : Cardinality({k \in places : k <= i}) = n]

CombineRows(j, l, r) ==
  LET kept == InOrder(DOMAIN r \ RightColumnsToExclude(j))
  IN  l \o [i \in DOMAIN kept |-> r[kept[i]]]

\* Null is a key like any other: the hash table compares with ==.
KeyOf(keys, row) == [k \in DOMAIN keys |-> row[keys[k]]]
-----------------------------------------------------------------------------
(***************************************************************************)
(* What a batch does.                                                      *)
(***************************************************************************)
Insert(hashTable, row) ==
  LET key == KeyOf(RightKeys(join), row)
  IN  [k \in DOMAIN hashTable \cup {key} |->
         IF k # key THEN hashTable[k]
         ELSE IF key \in DOMAIN hashTable THEN Append(hashTable[key], row) ELSE <<row>>]

Found(l) == KeyOf(LeftKeys(join), l) \in DOMAIN table

\* The output rows of a left row.
Matches(l) ==
  IF Found(l)
  THEN LET rows == table[KeyOf(LeftKeys(join), l)] IN [i \in DOMAIN rows |-> CombineRows(join, l, rows[i])]
  ELSE IF join.type = "Left" THEN <<CombineRows(join, l, NullRow(join.rightNames))>>
  ELSE <<>>

BagOf(rows) == [row \in Range(rows) |-> Cardinality({i \in DOMAIN rows : rows[i] = row})]

Unmatched ==
  FlattenSeq([k \in 1..Cardinality(DOMAIN table \ matched) |->
                LET rows == table[SetToSeq(DOMAIN table \ matched)[k]]
                IN  [i \in DOMAIN rows |-> CombineRows(join, NullRow(join.leftNames), rows[i])]])
-----------------------------------------------------------------------------
(***************************************************************************)
(* The generator, one step per batch.                                      *)
(***************************************************************************)
Init ==
  /\ join \in Joins
  /\ left \in LeftScans
  /\ right \in Rights
  /\ phase = "start" /\ todo = <<>> /\ first = <<>> /\ second = <<>>
  /\ table = [key \in {} |-> <<>>]
  /\ matched = {} /\ output = EmptyBag /\ errors = 0

StartBuild ==
  /\ phase = "start" /\ join.type \in Supported
  /\ phase' = "build" /\ todo' = right
  /\ UNCHANGED <<given, first, second, table, matched, output, errors>>

\* Another type of join: an error here, or a panic in Join's schema already.
Refuse ==
  /\ phase = "start" /\ join.type \notin Supported
  /\ phase' = "failed"
  /\ UNCHANGED <<given, todo, first, second, table, matched, output, errors>>

BuildBatch ==
  /\ phase = "build" /\ todo # <<>>
  /\ table' = FoldLeft(Insert, table, Head(todo))
  /\ todo' = Tail(todo)
  /\ UNCHANGED <<given, phase, first, second, matched, output, errors>>

StartProbe ==
  /\ phase = "build" /\ todo = <<>>
  /\ phase' = "probe"
  /\ todo' \in left
  /\ first' = todo'
  /\ UNCHANGED <<given, second, table, matched, output, errors>>

\* A batch of output is given to the caller unless it is empty.
ProbeBatch ==
  /\ phase = "probe" /\ todo # <<>>
  /\ output' = output (+) BagOf(FlattenSeq([i \in DOMAIN Head(todo) |-> Matches(Head(todo)[i])]))
  /\ todo' = Tail(todo)
  /\ UNCHANGED <<given, phase, first, second, table, matched, errors>>

Finish ==
  /\ phase = "probe" /\ todo = <<>> /\ join.type # "Right"
  /\ phase' = "done"
  /\ UNCHANGED <<given, todo, first, second, table, matched, output, errors>>

StartRescan ==
  /\ phase = "probe" /\ todo = <<>> /\ join.type = "Right"
  /\ phase' = "rescan"
  /\ todo' \in left
  /\ second' = todo'
  /\ UNCHANGED <<given, first, table, matched, output, errors>>

\* Mutant: only the last batch is remembered.
RescanForgets ==
  /\ phase = "rescan" /\ todo # <<>>
  /\ matched' = {KeyOf(LeftKeys(join), l) : l \in {l \in Range(Head(todo)) : Found(l)}}
  /\ todo' = Tail(todo)
  /\ UNCHANGED <<given, phase, first, second, table, output, errors>>

RescanBatch ==
  /\ phase = "rescan" /\ todo # <<>>
  /\ matched' = matched \cup {KeyOf(LeftKeys(join), l) : l \in {l \in Range(Head(todo)) : Found(l)}}
  /\ todo' = Tail(todo)
  /\ UNCHANGED <<given, phase, first, second, table, output, errors>>

EmitUnmatched ==
  /\ phase = "rescan" /\ todo = <<>>
  /\ phase' = "done"
  /\ output' = output (+) BagOf(Unmatched)
  /\ UNCHANGED <<given, todo, first, second, table, matched, errors>>

\* An input fails, or a value cannot be read or appended.
Fails ==
  /\ phase \in {"build", "probe", "rescan"} /\ errors < MaxErrors
  /\ phase' = "failed"
  /\ errors' = errors + 1
  /\ UNCHANGED <<given, todo, first, second, table, matched, output>>

Next ==
  \/ StartBuild \/ Refuse \/ BuildBatch \/ StartProbe \/ ProbeBatch \/ Finish
  \/ StartRescan \/ RescanBatch \/ EmitUnmatched \/ Fails

Spec == Init /\ [][Next]_vars
-----------------------------------------------------------------------------
(***************************************************************************)
(* What a join is, by the columns of the logical plan's schema (Join's     *)
(* schema method) and without a table: all pairs of rows that agree, and   *)
(* the rows of the kept side that agree with none.                         *)
(***************************************************************************)
Columns(j) ==
  LET dropped(side) == IF (side = "left") = (j.type = "Right") THEN DuplicateKeys(j) ELSE {}
      names(side)   == IF side = "left" THEN j.leftNames ELSE j.rightNames
      kept(side)    == InOrder({i \in DOMAIN names(side) : names(side)[i] \notin dropped(side)})
      of(side)      == [i \in DOMAIN kept(side) |-> <<side, kept(side)[i]>>]
  IN  of("left") \o of("right")

OutputRow(columns, l, r) ==
  [c \in DOMAIN columns |-> IF columns[c][1] = "left" THEN l[columns[c][2]] ELSE r[columns[c][2]]]

\* NullEquality, the two ways a join may treat a key with a Null in it.
Agree(j, nulls, l, r) ==
  \A pair \in Range(j.on) :
    LET key == l[PositionOf(j.leftNames, pair[1])]
    IN  /\ key = r[PositionOf(j.rightNames, pair[2])]
        /\ nulls = "NullEqualsNothing" => key # Null

Relation(j, nulls, ls, rs) ==
  LET columns == Columns(j)
      pairs   == {p \in (DOMAIN ls) \X (DOMAIN rs) : Agree(j, nulls, ls[p[1]], rs[p[2]])}
      lonelyL == {<<i, 0>> : i \in IF j.type = "Left" THEN (DOMAIN ls) \ {p[1] : p \in pairs} ELSE {}}
      lonelyR == {<<0, k>> : k \in IF j.type = "Right" THEN (DOMAIN rs) \ {p[2] : p \in pairs} ELSE {}}
      row     == [p \in pairs \cup lonelyL \cup lonelyR |->
                    OutputRow(columns, IF p[1] = 0 THEN NullRow(j.leftNames) ELSE ls[p[1]],
                                       IF p[2] = 0 THEN NullRow(j.rightNames) ELSE rs[p[2]])]
  IN  [r \in Range(row) |-> Cardinality({p \in DOMAIN row : row[p] = r})]

\* The join the planner asks for.
TheJoin == Relation(join, "NullEqualsNothing", FlattenSeq(first), FlattenSeq(right))

\* The left input gave the same rows twice, if it was read twice.
Repeatable == phase = "done" /\ join.type = "Right" => BagOf(FlattenSeq(first)) = BagOf(FlattenSeq(second))

\* A right join whose key has one name on both sides.
SharesKeyOnRight == join.type = "Right" /\ DuplicateKeys(join) # {}

\* A row of each side have one key, and there is a Null in it.
NullsMeet(j, ls, rs) ==
  \E l \in Range(ls), r \in Range(rs) :
    /\ KeyOf(LeftKeys(j), l) = KeyOf(RightKeys(j), r)
    /\ Null \in Range(KeyOf(LeftKeys(j), l))

NullKeysMeet == NullsMeet(join, FlattenSeq(first), FlattenSeq(right))

(***************************************************************************)
(* The rows of a join that has ended are those of the relation, each as    *)
(* often as the relation has it, for all batchings and duplicates, and for *)
(* Nulls in the keys of rows that find no equal key.  Excepted are a right *)
(* join with a shared key name, one whose left input was not the same      *)
(* twice, and inputs whose Nulls meet: HashJoinExec never reads its        *)
(* null_equality and joins them.                                           *)
(***************************************************************************)
AnswerIsTheJoin ==
  phase = "done" /\ Repeatable /\ ~SharesKeyOnRight /\ ~NullKeysMeet => output = TheJoin
=============================================================================
