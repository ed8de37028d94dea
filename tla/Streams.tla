------------------------------- MODULE Streams -------------------------------
(***************************************************************************)
(* The streams of a chain of operators over a source: limits, filter,      *)
(* projection and sort.  A stream does nothing until it is polled, and     *)
(* polls the stream below it for the next batch: control goes down the     *)
(* chain with the question and up with a batch, the end or an error.  The  *)
(* caller polls until it meets an end or an error (try_collect).           *)
(***************************************************************************)
EXTENDS Naturals, FiniteSets, Sequences, SequencesExt, FiniteSetsExt

CONSTANTS
  Row,        \* the rows
  Keep,       \* those for which the predicate is true, not false or null
  Project,    \* what the projection makes of a row
  Rank,       \* its place in the order of the sort
  Inputs,     \* the sources: sequences of batches, each a sequence of rows
  Plans,      \* the chains: sequences of operators, the lowest first
  UsizeMax,   \* more than any number of rows
  MaxErrors   \* bound on the errors of the source and of expressions

ASSUME RowAssumption == Keep \subseteq Row /\ Project \in [Row -> Row] /\ Rank \in [Row -> Nat]
ASSUME BoundAssumption == UsizeMax \in Nat /\ MaxErrors \in Nat
ASSUME SourceAssumption == Inputs \subseteq Seq(Seq(Row))
ASSUME PlanAssumption ==
  Plans \subseteq Seq([kind : {"limit", "filter", "projection", "sort"}, skip : Nat, fetch : Nat])

VARIABLES
  plan,      \* the chain
  input,     \* the batches of the source
  index,     \* how many of them it has given
  state,     \* what each operator's stream keeps
  at,        \* the operator that has control; 0 is the source
  item,      \* what it was given: the question, a batch, the end or an error
  received,  \* the rows the caller has
  ended,     \* what the caller has met: "no", "complete" or "error"
  errors     \* how many errors there have been

vars == <<plan, input, index, state, at, item, received, ended, errors>>
given == <<plan, input>>

\* Without a fetch all rows are wanted; a local limit has no skip.
GlobalLimit(skip, fetch) == [kind |-> "limit", skip |-> skip, fetch |-> fetch]
LocalLimit(fetch)        == GlobalLimit(0, fetch)
Sort(fetch)              == [kind |-> "sort", skip |-> 0, fetch |-> fetch]
Filter                   == [kind |-> "filter", skip |-> 0, fetch |-> UsizeMax]
Projection               == [kind |-> "projection", skip |-> 0, fetch |-> UsizeMax]

Operators == DOMAIN plan
Caller    == Len(plan) + 1
Is(kind)  == at \in Operators /\ plan[at].kind = kind

Item(what, rows) == [what |-> what, rows |-> rows]
Asked            == item.what = "ask"
Batch            == item.what = "batch"

\* A stream that has not been polled; batches is what a sort has collected.
Fresh(op) == [skip |-> op.skip, remaining |-> op.fetch, batches |-> <<>>, over |-> FALSE]

TypeOK ==
  /\ index \in 0..Len(input)
  /\ at \in 0..Caller
  /\ \A i \in Operators :
       /\ state[i].skip \in 0..plan[i].skip
       /\ state[i].remaining \in 0..plan[i].fetch
       /\ state[i].over \in BOOLEAN
  /\ received \in Seq(Row)
  /\ errors \in 0..MaxErrors

Init ==
  /\ plan \in Plans
  /\ input \in Inputs
  /\ index = 0
  /\ state = [i \in DOMAIN plan |-> Fresh(plan[i])]
  /\ at = Len(plan) /\ item = Item("ask", <<>>)
  /\ received = <<>> /\ ended = "no" /\ errors = 0

\* The operator gives an item to the one above it, or asks the one below.
Gives(rows)   == at' = at + 1 /\ item' = Item("batch", rows)
Signals(what) == at' = at + 1 /\ item' = Item(what, <<>>)
Asks          == at' = at - 1 /\ item' = Item("ask", <<>>)
-----------------------------------------------------------------------------
(***************************************************************************)
(* The source.                                                             *)
(***************************************************************************)
SourceYields ==
  /\ at = 0 /\ ended = "no" /\ index < Len(input)
  /\ index' = index + 1
  /\ Gives(input[index'])
  /\ UNCHANGED <<given, state, received, ended, errors>>

SourceEnds ==
  /\ at = 0 /\ ended = "no" /\ index = Len(input)
  /\ Signals("end")
  /\ UNCHANGED <<given, index, state, received, ended, errors>>

SourceFails ==
  /\ at = 0 /\ ended = "no" /\ errors < MaxErrors
  /\ errors' = errors + 1
  /\ Signals("error")
  /\ UNCHANGED <<given, index, state, received, ended>>
-----------------------------------------------------------------------------
(***************************************************************************)
(* The operators.                                                          *)
(***************************************************************************)
\* Mutant: a limit that has what it wants asks for another batch.
EnoughWhenOver == state[at].over

\* A generator that has returned stays at its end, and so does a limit that
\* has given what it may.
Enough == state[at].over \/ (Is("limit") /\ state[at].remaining = 0)

Polled ==
  /\ at \in Operators /\ Asked
  /\ IF Enough THEN Signals("end") ELSE Asks
  /\ UNCHANGED <<given, index, state, received, ended, errors>>

\* The rows for which the predicate is true.
Kept(rows) == FlattenSeq([i \in DOMAIN rows |-> IF rows[i] \in Keep THEN <<rows[i]>> ELSE <<>>])

Filters ==
  /\ Is("filter") /\ Batch
  /\ Gives(Kept(item.rows))
  /\ UNCHANGED <<given, index, state, received, ended, errors>>

Projected(rows) == [i \in DOMAIN rows |-> Project[rows[i]]]

Projects ==
  /\ Is("projection") /\ Batch
  /\ Gives(Projected(item.rows))
  /\ UNCHANGED <<given, index, state, received, ended, errors>>

\* The predicate, a projected expression or a sort key cannot be evaluated.
\* A generator returns; a mapped stream does not end with its errors.
ExpressionFails ==
  /\ errors < MaxErrors
  /\ \/ (Is("filter") \/ Is("projection")) /\ Batch /\ UNCHANGED state
     \/ /\ Is("sort") /\ item.what = "end" /\ state[at].batches # <<>>
        /\ state' = [state EXCEPT ![at].over = TRUE]
  /\ errors' = errors + 1
  /\ Signals("error")
  /\ UNCHANGED <<given, index, received, ended>>

\* All of the batch is skipped.
LimitSkips ==
  /\ Is("limit") /\ Batch
  /\ state[at].skip > 0 /\ state[at].skip >= Len(item.rows)
  /\ state' = [state EXCEPT ![at].skip = @ - Len(item.rows)]
  /\ Asks
  /\ UNCHANGED <<given, index, received, ended, errors>>

\* What is left of a batch when the rows to be skipped are gone.
Left == SubSeq(item.rows, state[at].skip + 1, Len(item.rows))

\* Mutant: the rows are counted that come in, not those that go out.
LimitTakesAndCountsAll ==
  /\ Is("limit") /\ Batch
  /\ state[at].skip = 0 \/ state[at].skip < Len(item.rows)
  /\ LET taken == IF Len(Left) <= state[at].remaining THEN Len(Left) ELSE state[at].remaining IN
       /\ state' = [state EXCEPT ![at].skip = 0, ![at].remaining = UsizeMax + @ - Len(Left)]
       /\ Gives(SubSeq(Left, 1, taken))
  /\ UNCHANGED <<given, index, received, ended, errors>>

\* Mutant: the rows to be skipped are skipped in each batch.
LimitTakesWithoutReset ==
  /\ Is("limit") /\ Batch
  /\ state[at].skip = 0 \/ state[at].skip < Len(item.rows)
  /\ LET taken == IF Len(Left) <= state[at].remaining THEN Len(Left) ELSE state[at].remaining IN
       /\ state' = [state EXCEPT ![at].remaining = @ - taken]
       /\ Gives(SubSeq(Left, 1, taken))
  /\ UNCHANGED <<given, index, received, ended, errors>>

\* The rest of the batch, or as much of it as is still wanted.
LimitTakes ==
  /\ Is("limit") /\ Batch
  /\ state[at].skip = 0 \/ state[at].skip < Len(item.rows)
  /\ LET taken == IF Len(Left) <= state[at].remaining THEN Len(Left) ELSE state[at].remaining IN
       /\ state' = [state EXCEPT ![at].skip = 0, ![at].remaining = @ - taken]
       /\ Gives(SubSeq(Left, 1, taken))
  /\ UNCHANGED <<given, index, received, ended, errors>>

SortCollects ==
  /\ Is("sort") /\ Batch
  /\ state' = [state EXCEPT ![at].batches = Append(@, item.rows)]
  /\ Asks
  /\ UNCHANGED <<given, index, received, ended, errors>>

\* The sorted rows, up to the fetch: lexsort_to_indices is not stable.
Sorted(rows, fetch) ==
  LET n == Len(rows)
      orders == {p \in [1..n -> 1..n] :
                   /\ \A i, j \in 1..n : i # j => p[i] # p[j]
                   /\ \A i \in 1..(n - 1) : Rank[rows[p[i]]] <= Rank[rows[p[i + 1]]]}
  IN  {SubSeq([i \in 1..n |-> rows[p[i]]], 1, IF fetch < n THEN fetch ELSE n) : p \in orders}

SortEmits ==
  /\ Is("sort") /\ item.what = "end" /\ state[at].batches # <<>>
  /\ state' = [state EXCEPT ![at].over = TRUE]
  /\ \E rows \in Sorted(FlattenSeq(state[at].batches), plan[at].fetch) : Gives(rows)
  /\ UNCHANGED <<given, index, received, ended, errors>>

\* Mutant: the loop of a limit goes on when its input has ended.
HandsOnUnlessLimit ==
  /\ at \in Operators /\ item.what \in {"end", "error"}
  /\ Is("sort") /\ item.what = "end" => state[at].batches = <<>>
  /\ state' = [state EXCEPT ![at].over = plan[at].kind = "sort"]
  /\ IF Is("limit") THEN Asks ELSE Signals(item.what)
  /\ UNCHANGED <<given, index, received, ended, errors>>

\* The end and errors are handed on.  A generator returns with them; a sort
\* has nothing to give only if it has not collected a batch.
HandsOn ==
  /\ at \in Operators /\ item.what \in {"end", "error"}
  /\ Is("sort") /\ item.what = "end" => state[at].batches = <<>>
  /\ state' = [state EXCEPT ![at].over = plan[at].kind \in {"limit", "sort"}]
  /\ Signals(item.what)
  /\ UNCHANGED <<given, index, received, ended, errors>>
-----------------------------------------------------------------------------
(***************************************************************************)
(* The caller.                                                             *)
(***************************************************************************)
Receives ==
  /\ at = Caller /\ ended = "no" /\ Batch
  /\ received' = received \o item.rows
  /\ Asks
  /\ UNCHANGED <<given, index, state, ended, errors>>

Ends ==
  /\ at = Caller /\ ended = "no" /\ item.what \in {"end", "error"}
  /\ ended' = IF item.what = "end" THEN "complete" ELSE "error"
  /\ UNCHANGED <<given, index, state, at, item, received, errors>>

Next ==
  \/ SourceYields \/ SourceEnds \/ SourceFails
  \/ Polled \/ Filters \/ Projects \/ ExpressionFails
  \/ LimitSkips \/ LimitTakes \/ SortCollects \/ SortEmits \/ HandsOn
  \/ Receives \/ Ends

Spec == Init /\ [][Next]_vars

\* The caller polls until it has met the end or an error, and no stream of
\* these is ever pending.
FairSpec == Spec /\ WF_vars(Next)
-----------------------------------------------------------------------------
(***************************************************************************)
(* What a chain promises, stated over all rows of the source at once.      *)
(***************************************************************************)
Meaning(op, rows) ==
  CASE op.kind = "filter"     -> {Kept(rows)}
    [] op.kind = "projection" -> {Projected(rows)}
    [] op.kind = "limit"      -> {SubSeq(rows, op.skip + 1, Min({Len(rows), op.skip + op.fetch}))}
    [] op.kind = "sort"       -> Sorted(rows, op.fetch)

AnswersOf(ops, rows) ==
  FoldLeft(LAMBDA answers, op : UNION {Meaning(op, answer) : answer \in answers}, {rows}, ops)

\* The stream of any chain delivers an answer of it, from its first row on
\* and however the rows are cut into batches, with empty ones among them; it
\* ends exactly when it has delivered all, or with an error
\* (GlobalLimitExec, LocalLimitExec, SortExec, FilterExec, ProjectionExec).
Promise == INSTANCE RowStream WITH answers <- AnswersOf(plan, FlattenSeq(input))
KeepsThePromise == Promise!Spec

\* A limit above which nothing drops rows stops reading: once the caller
\* has all the rows it fetches, the source is not polled again, so that
\* neither its cost nor its errors are met.
LimitStopsReading ==
  at = 0 /\ Asked =>
    \A i \in Operators :
      plan[i].kind = "limit" /\ (\A j \in Operators : j > i => plan[j].kind = "projection")
        => Len(received) < plan[i].fetch

\* Every stream ends, for every chain, source and fetch, zero included.
EveryStreamEnds == <>(ended # "no")
=============================================================================
