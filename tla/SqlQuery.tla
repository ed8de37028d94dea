------------------------------ MODULE SqlQuery ------------------------------
(***************************************************************************)
(* A session: SQL text is lowered to a DataFrame over the registered       *)
(* tables, DataFrames are extended and registered by the caller, and a     *)
(* DataFrame is executed.  What a query means is stated over its syntax,   *)
(* the names of the columns and the rows, without plans or positions.      *)
(***************************************************************************)
EXTENDS Plans

CONSTANTS
  Sources,     \* the registered data sources: a function from names
  Views,       \* the names the caller registers DataFrames under
  Queries,     \* the SELECT statements the caller writes
  Extensions,  \* the operators the caller adds to a DataFrame
  MaxOps,      \* bound on the operators of a registered DataFrame
  MaxCalls,    \* bound on the calls of the caller
  None         \* no clause, no alias, no DataFrame

VARIABLES
  tables,  \* the DataFrames that are registered
  frame,   \* the DataFrame the caller holds, or None
  asked,   \* the query it was made of and the table as it was, or None
  answer,  \* what its execution gave, or None
  calls    \* how many calls there have been

vars == <<tables, frame, asked, answer, calls>>
-----------------------------------------------------------------------------
(***************************************************************************)
(* Expressions of the syntax tree, and what sql_to_expr makes of them.  A  *)
(* function has no DISTINCT any more, a compound name no qualifier.        *)
(***************************************************************************)
Identifier(n)         == [sql |-> "Identifier", name |-> n]
Compound(t, n)        == [sql |-> "CompoundIdentifier", table |-> t, name |-> n]
Number(v)             == [sql |-> "Value", value |-> v]
Nested(e)             == [sql |-> "Nested", expr |-> e]
Minus(e)              == [sql |-> "UnaryOp", expr |-> e]
BinaryOp(l, op, r)    == [sql |-> "BinaryOp", left |-> l, op |-> op, right |-> r]
CastTo(e, t)          == [sql |-> "Cast", expr |-> e, type |-> t]
Function(f, args, d)  == [sql |-> "Function", name |-> f, args |-> args, distinct |-> d]

Star == [sql |-> "Wildcard"]

\* Does an accepted expression become a literal?
RECURSIVE IsNumber(_)
IsNumber(e) == e.sql = "Value" \/ (e.sql \in {"Nested", "UnaryOp"} /\ IsNumber(e.expr))

RECURSIVE Accepted(_)
Accepted(e) ==
  CASE e.sql \in {"Identifier", "CompoundIdentifier", "Value"} -> TRUE
    [] e.sql \in {"Nested", "Cast"} -> Accepted(e.expr)
    [] e.sql = "UnaryOp"            -> Accepted(e.expr) /\ IsNumber(e.expr)
    [] e.sql = "BinaryOp"           -> Accepted(e.left) /\ Accepted(e.right)
    [] e.sql = "Wildcard"           -> FALSE
    [] e.sql = "Function"           ->
         \/ e.name = "COUNT" /\ e.args # <<>> /\ (e.args[1] = Star \/ Accepted(e.args[1]))
         \/ e.name \in {"SUM", "MAX"} /\ Len(e.args) = 1 /\ Accepted(e.args[1])

RECURSIVE SqlToExpr(_)
SqlToExpr(e) ==
  CASE e.sql \in {"Identifier", "CompoundIdentifier"} -> Column(e.name)
    [] e.sql = "Value"    -> Literal(e.value)
    [] e.sql = "Nested"   -> SqlToExpr(e.expr)
    [] e.sql = "UnaryOp"  -> Literal(-SqlToExpr(e.expr).value)
    [] e.sql = "BinaryOp" -> BinaryExpr(SqlToExpr(e.left), e.op, SqlToExpr(e.right))
    [] e.sql = "Cast"     -> Cast(SqlToExpr(e.expr), e.type)
    [] e.sql = "Function" ->
         AggregateFunction(e.name, IF e.args[1] = Star THEN Literal(1) ELSE SqlToExpr(e.args[1]), FALSE)
-----------------------------------------------------------------------------
(***************************************************************************)
(* The columns an expression mentions, as visit finds them: not those      *)
(* under a cast.                                                           *)
(***************************************************************************)
RECURSIVE Visit(_)
Visit(e) ==
  CASE e.kind = "Column"            -> <<e.name>>
    [] e.kind = "Alias"             -> Visit(e.expr)
    [] e.kind = "BinaryExpr"        -> Visit(e.left) \o Visit(e.right)
    [] e.kind = "AggregateFunction" -> Visit(e.arg)
    [] OTHER                        -> <<>>

ReferencedColumns(es) == FirstSeen(FlattenSeq([i \in DOMAIN es |-> Visit(es[i])]))

OrderedDifference(from, remove) ==
  LET Remains(n) == ~Contains(remove, n) IN SelectSeq(from, Remains)

IsAggregateExpr(e) ==
  \/ e.kind = "AggregateFunction"
  \/ e.kind = "Alias" /\ e.expr.kind = "AggregateFunction"

ColumnsOf(names) == [i \in DOMAIN names |-> Column(names[i])]
-----------------------------------------------------------------------------
(***************************************************************************)
(* SELECT.  A query has items (an expression and an alias, or a wildcard), *)
(* where, group, having and limit; `other' says that it has a clause or a  *)
(* source that is not supported.                                           *)
(***************************************************************************)
Names(schema) == [i \in DOMAIN schema |-> schema[i].name]

PlanItem(item, schema) ==
  IF item.expr = Star THEN ColumnsOf(Names(schema))
  ELSE IF item.as = None THEN <<SqlToExpr(item.expr)>>
  ELSE <<Alias(SqlToExpr(item.expr), item.as)>>

PlanProjection(q, table) ==
  FlattenSeq([i \in DOMAIN q.items |-> PlanItem(q.items[i], Schema(table))])

\* The columns of the table that WHERE mentions.
WhereColumns(q, table) ==
  LET InTable(n) == Named(n, Schema(table))
  IN  SelectSeq(FirstSeen(Visit(SqlToExpr(q.where))), InTable)

\* The columns only WHERE mentions.
Missing(q, table, es) == OrderedDifference(WhereColumns(q, table), ReferencedColumns(es))

\* Mutant: the columns only WHERE mentions are not projected.
NothingMissing(q, table, es) ==
  IF q.where = None THEN Put(table, Projection(es))
  ELSE Put(Put(table, Projection(es)), Filter(SqlToExpr(q.where)))

\* The columns only WHERE mentions are projected, then dropped by name.
PlanNonAggregate(q, table, es) ==
  LET missing  == Missing(q, table, es)
      filtered == Put(Put(table, Projection(es \o ColumnsOf(missing))), Filter(SqlToExpr(q.where)))
      kept     == SubSeq(Names(Schema(filtered)), 1, Len(es))
  IN  IF q.where = None THEN Put(table, Projection(es))
      ELSE IF missing = <<>> THEN filtered
      ELSE Put(filtered, Projection(ColumnsOf(kept)))

\* Group columns are numbered as they come in the SELECT list, aggregates
\* after all that GROUP BY names.
AggregatePosition(q, es, i) ==
  LET before    == SubSeq(es, 1, i - 1)
      aggregate == Len(SelectSeq(before, IsAggregateExpr))
  IN  ColumnIndex(IF IsAggregateExpr(es[i]) THEN Len(q.group) + aggregate
                  ELSE Len(before) - aggregate)

Output(q, es, i) ==
  IF es[i].kind = "Alias" THEN Alias(AggregatePosition(q, es, i), es[i].alias)
  ELSE AggregatePosition(q, es, i)

PlanAggregate(q, table, es) ==
  LET plain     == SelectSeq(es, LAMBDA e : ~IsAggregateExpr(e))
      selected  == SelectSeq(es, IsAggregateExpr)
      aggs      == [i \in DOMAIN selected |->
                      IF selected[i].kind = "Alias" THEN selected[i].expr ELSE selected[i]]
      missing   == OrderedDifference(FirstSeen(WhereColumns(q, table) \o ReferencedColumns(aggs)),
                                     ReferencedColumns(plain))
      input     == IF q.where = None THEN table
                   ELSE Put(Put(table, Projection(plain \o ColumnsOf(missing))),
                            Filter(SqlToExpr(q.where)))
      group     == [i \in DOMAIN q.group |-> SqlToExpr(q.group[i])]
      projected == Put(Put(input, Aggregate(group, aggs)),
                       Projection([i \in DOMAIN es |-> Output(q, es, i)]))
  IN  IF q.having = None THEN projected ELSE Put(projected, Filter(SqlToExpr(q.having)))

Aggregates(es) == SelectSeq(es, IsAggregateExpr) # <<>>

\* HAVING is read by aggregate queries only.
SelectToPlan(q, table) ==
  LET es == PlanProjection(q, table)
  IN  IF Aggregates(es) THEN PlanAggregate(q, table, es) ELSE PlanNonAggregate(q, table, es)

Clause(e) == e = None \/ Accepted(e)

\* Why a query is refused, and what must be known of a schema to lower it.
Lowers(q, table) ==
  LET es    == PlanProjection(q, table)
      plain == SelectSeq(es, LAMBDA e : ~IsAggregateExpr(e))
  IN  /\ ~q.other
      /\ \A i \in DOMAIN q.items : q.items[i].expr = Star \/ Accepted(q.items[i].expr)
      /\ (\E i \in DOMAIN q.items : q.items[i].expr = Star) => HasSchema(table)
      /\ Clause(q.where)
      /\ q.where # None => HasSchema(table)
      /\ IF Aggregates(es)
         THEN /\ \A i \in DOMAIN q.group : Accepted(q.group[i])
              /\ Clause(q.having)
              /\ \A e \in Range(plain) : e.kind # "Alias"
         ELSE /\ q.group = <<>>
              /\ q.where # None /\ Missing(q, table, es) # <<>> =>
                   \A e \in Range(es) : HasField(e, Schema(table))
      /\ q.limit # None => q.limit.sql = "Value"

QueryToPlan(q, table) ==
  IF q.limit = None THEN SelectToPlan(q, table)
  ELSE Put(SelectToPlan(q, table), Limit(q.limit.value))
-----------------------------------------------------------------------------
(***************************************************************************)
(* The calls of the caller.                                                *)
(***************************************************************************)
Init == /\ tables = [t \in DOMAIN Sources |-> TableScan(Sources[t])]
        /\ frame = None
        /\ asked = None
        /\ answer = None
        /\ calls = 0

Call == calls < MaxCalls /\ calls' = calls + 1

\* The queries that are lowered without an error.
Lowered == {q \in Queries : q.from \in DOMAIN tables /\ Lowers(q, tables[q.from])}

\* SessionContext::sql.  DataFrames are values, and the caller holds one at
\* a time: until it has registered or dropped it, it asks nothing new.
Sql ==
  /\ Call
  /\ frame = None
  /\ \E q \in Lowered : /\ frame' = QueryToPlan(q, tables[q.from])
                        /\ asked' = [query |-> q, over |-> tables[q.from]]
  /\ UNCHANGED <<tables, answer>>

\* It is an error, and the caller has no DataFrame.
SqlFails ==
  /\ Call
  /\ frame = None
  /\ Queries \ Lowered # {}
  /\ UNCHANGED <<tables, frame, asked, answer>>

\* SessionContext::csv, and a scan of another provider.
Open ==
  /\ Call
  /\ frame = None
  /\ \E t \in DOMAIN Sources : frame' = TableScan(Sources[t])
  /\ UNCHANGED <<tables, asked, answer>>

\* DataFrame::project, filter, aggregate, limit.  MaxOps bounds the
\* operators.
Extend(op) ==
  /\ Call
  /\ frame # None
  /\ Len(frame.ops) < MaxOps
  /\ frame' = Put(frame, op)
  /\ asked' = None
  /\ answer' = None
  /\ UNCHANGED tables

\* SessionContext::register takes the DataFrame.  A name may be registered
\* again.  MaxOps bounds the operators of a view.
Register(v) ==
  /\ Call
  /\ frame # None
  /\ Len(frame.ops) <= MaxOps
  /\ tables' = [t \in DOMAIN tables \cup {v} |-> IF t = v THEN frame ELSE tables[t]]
  /\ frame' = None
  /\ asked' = None
  /\ answer' = None

\* SessionContext::execute: optimise, plan, run.  A panic counts as an error.
Execute(order) ==
  /\ Call
  /\ frame # None
  /\ answer' = IF Optimizable(frame)
               THEN LET optimized == PushDown(frame)
                        result    == Run(optimized, order)
                    IN  [order  |-> order,
                         schema |-> IF result.ok THEN Schema(optimized) ELSE <<>>,
                         result |-> result]
               ELSE [order |-> order, schema |-> <<>>, result |-> Failed]
  /\ UNCHANGED <<tables, frame, asked>>

Next ==
  \/ Sql \/ SqlFails \/ Open
  \/ \E op \in Extensions : Extend(op)
  \/ \E v \in Views : Register(v)
  \/ \E order \in Orders : Execute(order)

Spec == Init /\ [][Next]_vars
-----------------------------------------------------------------------------
(***************************************************************************)
(* What a query means, over a table's names and rows.                      *)
(***************************************************************************)
Value(names, row, n) == row[CHOOSE i \in DOMAIN names : names[i] = n]

AliasNamed(q, n) == CHOOSE i \in DOMAIN q.items : q.items[i].as = n

Mean(l, op, r) ==
  CASE op = "and" -> IF l = FALSE \/ r = FALSE THEN FALSE
                     ELSE IF l = Null \/ r = Null THEN Null ELSE TRUE
    [] op # "and" /\ (l = Null \/ r = Null)  -> Null
    [] op = "eq"  /\ l # Null /\ r # Null -> l = r
    [] op = "lt"  /\ l # Null /\ r # Null -> l < r
    [] op = "add" /\ l # Null /\ r # Null -> l + r

\* The value of an expression on rows that agree on its plain columns, all
\* of which an aggregate in it sees.  A name that is no column is an alias.
RECURSIVE Means(_, _, _, _)
Means(q, names, rows, e) ==
  CASE e.sql \in {"Identifier", "CompoundIdentifier"} ->
         IF e.name \in Range(names) THEN Value(names, rows[1], e.name)
         ELSE Means(q, names, rows, q.items[AliasNamed(q, e.name)].expr)
    [] e.sql = "Value"              -> e.value
    [] e.sql = "UnaryOp"            -> -Means(q, names, rows, e.expr)
    [] e.sql \in {"Nested", "Cast"} -> Means(q, names, rows, e.expr)
    [] e.sql = "BinaryOp"           ->
         Mean(Means(q, names, rows, e.left), e.op, Means(q, names, rows, e.right))
    [] e.sql = "Function"           ->
         LET Arg(i)    == IF e.args[1] = Star THEN 1 ELSE Means(q, names, <<rows[i]>>, e.args[1])
             places    == {i \in DOMAIN rows : Arg(i) # Null}
             values    == {Arg(i) : i \in places}
         IN  CASE e.name = "COUNT" -> Cardinality(places)
               [] e.name # "COUNT" /\ places = {} -> Null
               [] e.name = "SUM" /\ places # {} -> MapThenSumSet(Arg, places)
               [] e.name = "MAX" /\ places # {} -> CHOOSE v \in values : \A w \in values : w <= v

OutputOf(q, names, rows) ==
  FlattenSeq([i \in DOMAIN q.items |->
                IF q.items[i].expr = Star THEN [n \in DOMAIN names |-> Value(names, rows[1], names[n])]
                ELSE <<Means(q, names, rows, q.items[i].expr)>>])

Grouped(q) == \E i \in DOMAIN q.items : q.items[i].expr.sql = "Function"

\* Without GROUP BY the groups are still those of the rows, as AggregateExec
\* documents (one row per key): an aggregate over no rows is no row, where SQL
\* has one.
Meaning(q, names, rows, order) ==
  LET Holds(e, rs) == e = None \/ Means(q, names, rs, e) = TRUE
      kept    == SelectSeq(rows, LAMBDA row : Holds(q.where, <<row>>))
      Key(row) == [i \in DOMAIN q.group |-> Means(q, names, <<row>>, q.group[i])]
      keys    == FirstSeen([i \in DOMAIN kept |-> Key(kept[i])])
      groups  == IF Grouped(q)
                 THEN [k \in DOMAIN keys |-> SelectSeq(kept, LAMBDA row : Key(row) = keys[k])]
                 ELSE [i \in DOMAIN kept |-> <<kept[i]>>]
      ordered == IF Grouped(q) THEN InOrder(order, groups) ELSE groups
      left    == SelectSeq(ordered, LAMBDA g : Holds(q.having, g))
      all     == [g \in DOMAIN left |-> OutputOf(q, names, left[g])]
  IN  IF q.limit = None \/ q.limit.value >= Len(all) THEN all
      ELSE SubSeq(all, 1, q.limit.value)
-----------------------------------------------------------------------------
(***************************************************************************)
(* Which queries the properties are about.                                 *)
(***************************************************************************)
RECURSIVE SqlColumns(_)
SqlColumns(e) ==
  CASE e.sql \in {"Identifier", "CompoundIdentifier"} -> {e.name}
    [] e.sql \in {"Value", "Wildcard", "UnaryOp"} -> {}
    [] e.sql \in {"Nested", "Cast"} -> SqlColumns(e.expr)
    [] e.sql = "BinaryOp" -> SqlColumns(e.left) \cup SqlColumns(e.right)
    [] e.sql = "Function" -> UNION {SqlColumns(a) : a \in Range(e.args)}

ClauseColumns(e) == IF e = None THEN {} ELSE SqlColumns(e)

RECURSIVE HasSql(_, _)
HasSql(e, sort) ==
  \/ e.sql = sort
  \/ e.sql \in {"Nested", "Cast", "UnaryOp"} /\ HasSql(e.expr, sort)
  \/ e.sql = "BinaryOp" /\ (HasSql(e.left, sort) \/ HasSql(e.right, sort))
  \/ e.sql = "Function" /\ \E a \in Range(e.args) : HasSql(a, sort)

Distinct(seq) == \A i, j \in DOMAIN seq : seq[i] = seq[j] => i = j

Aliases(q) == {q.items[i].as : i \in DOMAIN q.items} \ {None}

GroupItems(q) == SelectSeq(q.items, LAMBDA item : item.expr.sql # "Function")

\* The queries whose SQL meaning the lowering keeps: names are not
\* ambiguous, an aggregate query selects what it groups by, once each and in
\* that order, HAVING comes with an aggregate, and nothing is DISTINCT.
Understood(q, names) ==
  /\ Distinct(names)
  /\ Aliases(q) \cap Range(names) = {}
  /\ IF Grouped(q)
     THEN q.group = [i \in DOMAIN GroupItems(q) |-> GroupItems(q)[i].expr]
     ELSE q.having = None
  /\ \A i \in DOMAIN q.items :
       q.items[i].expr.sql = "Function" => ~q.items[i].expr.distinct

\* The columns a clause may name, with the fields of the aliases.
WithAliases(q, schema) ==
  LET aliased == SelectSeq(q.items, LAMBDA item : item.as # None)
  IN  schema \o [i \in DOMAIN aliased |->
                   ToField(Alias(SqlToExpr(aliased[i].expr), aliased[i].as), schema)]

\* Operands have one type, for no operand is widened in a schema.
Typed(e, schema) == TypeOf(SqlToExpr(e), schema, Types(schema)) = ToField(SqlToExpr(e), schema).type

ItemTyped(e, schema) ==
  e = Star \/ IF e.sql = "Function" THEN e.args[1] = Star \/ Typed(e.args[1], schema) ELSE Typed(e, schema)

Predicate(e, schema) == e = None \/ TypeOf(SqlToExpr(e), schema, Types(schema)) = "Boolean"

\* A column of WHERE is selected as itself, or in no item at all.
FilterSees(q, n) ==
  \/ \E i \in DOMAIN q.items : \/ q.items[i].expr = Star
                               \/ q.items[i].as = None /\ q.items[i].expr = Identifier(n)
  \/ \A i \in DOMAIN q.items : n \notin SqlColumns(q.items[i].expr)

\* The queries that must be answered: supported, with known columns of the
\* right types, and without what is known to be refused later: a column of
\* WHERE that is selected only in an expression, a cast beside WHERE, an
\* aggregate in HAVING, a filtered aggregate of no column.
Plain(q, schema) ==
  LET names   == Range(Names(schema))
      items   == {q.items[i].expr : i \in DOMAIN q.items}
      columns == UNION {SqlColumns(e) : e \in items}
      grouped == UNION {SqlColumns(e) : e \in Range(q.group)}
  IN  /\ ~q.other
      /\ \A e \in items : e = Star \/ Accepted(e)
      /\ Clause(q.where) /\ Clause(q.having)
      /\ q.limit # None => q.limit.sql = "Value"
      /\ columns \cup grouped \subseteq names
      /\ \A e \in items : ItemTyped(e, schema)
      /\ q.where # None => ~HasSql(q.where, "Cast") /\ ~HasSql(q.where, "Function")
      /\ IF Grouped(q)
         THEN /\ \A i \in DOMAIN q.items : q.items[i].as # None => q.items[i].expr.sql = "Function"
              /\ ClauseColumns(q.where) \subseteq names
              /\ Predicate(q.where, schema)
              /\ q.where # None =>
                   /\ \A e \in items : ~HasSql(e, "Cast")
                   /\ \A e \in Range(q.group) : e.sql = "Identifier"
                   /\ columns \cup ClauseColumns(q.where) # {}
         ELSE /\ q.group = <<>>
              /\ ClauseColumns(q.where) \subseteq names \cup Aliases(q)
              /\ Predicate(q.where, WithAliases(q, schema))
              /\ \A n \in ClauseColumns(q.where) \cap names : FilterSees(q, n)

HavingPlain(q, outputs) ==
  q.having # None =>
    /\ ~HasSql(q.having, "Function")
    /\ ClauseColumns(q.having) \subseteq Range(Names(outputs))
    /\ Predicate(q.having, outputs)

\* A Parquet file must have the columns in the order they are pushed down.
LaidOutAlike(plan) ==
  (plan.source.format = "parquet" /\ Optimizable(plan)) =>
    LET wanted == ScanSchema(PushDown(plan))
    IN  wanted = SelectSeq(plan.source.schema, LAMBDA f : Named(f.name, wanted))

\* No index counts the columns of the scan, which are fewer at execution.
Counts(e) == e.kind = "ColumnIndex" \/ (e.kind = "Alias" /\ e.expr.kind = "ColumnIndex")

IndicesStand(plan) ==
  \A k \in DOMAIN plan.ops :
    (\E e \in Evaluated(plan.ops[k]) : Counts(e))
      => \E i \in 1..(k - 1) : plan.ops[i].op \in {"Projection", "Aggregate"}

\* The answer to a query, asked over the table as it was.
Asked    == asked # None /\ answer # None
Over     == Run(asked.over, answer.order)
OverCols == Names(Schema(asked.over))
-----------------------------------------------------------------------------
(***************************************************************************)
(* Properties.                                                             *)
(***************************************************************************)
\* If a query is answered, the rows are those it asks for: whatever is
\* pushed down to the scan (push_down), projected for the filter and dropped
\* again (plan_non_aggregate_query), taken by position (select_to_plan) or
\* read through tables that have been replaced since (register).
AnswersAreRight ==
  ( /\ Asked
    /\ answer.result.ok
    /\ HasSchema(asked.over)
    /\ Over.ok
    /\ LaidOutAlike(frame)
    /\ IndicesStand(frame)
    /\ Understood(asked.query, OverCols)
    /\ Distinct(Names(answer.schema)) )
  => answer.result.rows = Meaning(asked.query, OverCols, Over.rows, answer.order)

\* A plain query over a table that can be read is answered: the columns its
\* clauses name are still there, under their names and with their types, when
\* the operator that reads them runs (column_names_referenced_by_where,
\* plan_aggregate_query, create_physical_expr).
PlainQueriesAreAnswered ==
  ( /\ Asked
    /\ HasSchema(asked.over)
    /\ Over.ok
    /\ LaidOutAlike(frame)
    /\ IndicesStand(frame)
    /\ Plain(asked.query, Schema(asked.over))
    /\ Understood(asked.query, OverCols)
    /\ HasSchema(frame) => /\ Distinct(Names(Schema(frame)))
                           /\ HavingPlain(asked.query, Schema(frame)) )
  => answer.result.ok

\* Something above the scan says which columns are wanted.
Narrowed(plan) == \E k \in DOMAIN plan.ops : plan.ops[k].op \in {"Projection", "Aggregate"}

\* Reading fewer columns changes nothing: neither the rows, nor the schema,
\* nor whether there is an answer (ProjectionPushDownRule, with the positions
\* create_physical_expr finds in the shorter schema).
PushDownKeepsTheAnswer ==
  ( /\ answer # None
    /\ Narrowed(frame)
    /\ IndicesStand(frame)
    /\ LaidOutAlike(frame) )
  => LET direct == Run(frame, answer.order)
     IN  /\ answer.result = direct
         /\ direct.ok => answer.schema = Schema(frame)

\* table_provider.rs: the projection of a scan "means exactly these columns
\* in this order", so the rows are the same whatever file holds them.
FormatDoesNotMatter ==
  (answer # None /\ answer.result.ok) =>
    answer.result.rows =
      Run(PushDown([frame EXCEPT !.source.format = "csv"]), answer.order).rows
=============================================================================
