------------------------------- MODULE Plans -------------------------------
(***************************************************************************)
(* From a logical plan to its answer: the schema a plan promises, the      *)
(* columns ProjectionPushDown leaves to the scan, what the physical        *)
(* planner resolves and what the operators make of the rows.               *)
(*                                                                         *)
(* A plan is a chain: a scan and the operators above it, from the scan up  *)
(* (joins are in HashJoin).  A source has a schema and rows.  The answer   *)
(* of an operator is taken as a whole; Streams is about its batches.  Of   *)
(* the operators of an expression there is one of each family, under the   *)
(* name binary_field_name gives it.                                        *)
(***************************************************************************)
EXTENDS Integers, FiniteSets, Sequences, SequencesExt

CONSTANTS
  Null,     \* ScalarValue::Null
  Alphabet  \* the names of all source columns, in the order strings sort in

Comparisons == {"eq", "lt"}
Logic       == {"and"}
Arithmetic  == {"add"}
-----------------------------------------------------------------------------
(***************************************************************************)
(* Logical expressions.                                                    *)
(***************************************************************************)
Column(n)            == [kind |-> "Column", name |-> n]
ColumnIndex(i)       == [kind |-> "ColumnIndex", index |-> i]
Literal(v)           == [kind |-> "Literal", value |-> v]
BinaryExpr(l, op, r) == [kind |-> "BinaryExpr", left |-> l, op |-> op, right |-> r]
Cast(e, t)           == [kind |-> "Cast", expr |-> e, type |-> t]
Alias(e, n)          == [kind |-> "Alias", expr |-> e, alias |-> n]
AggregateFunction(f, e, d) ==
  [kind |-> "AggregateFunction", func |-> f, arg |-> e, distinct |-> d]

Wrappers == {"Cast", "Alias"}

\* An expression names the first column of its name.
Named(n, schema)    == \E i \in DOMAIN schema : schema[i].name = n
Position(n, schema) ==
  CHOOSE i \in DOMAIN schema :
    schema[i].name = n /\ \A j \in 1..(i - 1) : schema[j].name # n

\* Does an expression have a field, or is to_field an error?
RECURSIVE HasField(_, _)
HasField(e, schema) ==
  CASE e.kind = "Column"            -> Named(e.name, schema)
    [] e.kind = "ColumnIndex"       -> e.index < Len(schema)
    [] e.kind = "Literal"           -> TRUE
    [] e.kind = "BinaryExpr"        -> e.op \in Arithmetic => HasField(e.left, schema)
    [] e.kind \in Wrappers          -> HasField(e.expr, schema)
    [] e.kind = "AggregateFunction" -> e.func = "COUNT" \/ HasField(e.arg, schema)

RECURSIVE ToField(_, _)
ToField(e, schema) ==
  CASE e.kind = "Column"      -> schema[Position(e.name, schema)]
    [] e.kind = "ColumnIndex" -> schema[e.index + 1]
    [] e.kind = "Literal"     -> [name |-> ToString(e.value), type |-> "Int64"]
    [] e.kind = "BinaryExpr"  ->
         [name |-> e.op,
          type |-> IF e.op \in Arithmetic THEN ToField(e.left, schema).type ELSE "Boolean"]
    [] e.kind = "Cast"        -> [name |-> ToField(e.expr, schema).name, type |-> e.type]
    [] e.kind = "Alias"       -> [name |-> e.alias, type |-> ToField(e.expr, schema).type]
    [] e.kind = "AggregateFunction" ->
         [name |-> IF e.distinct THEN "COUNT_DISTINCT" ELSE e.func,
          type |-> IF e.distinct THEN "UInt32"
                   ELSE IF e.func = "COUNT" THEN "Int32"
                   ELSE ToField(e.arg, schema).type]
-----------------------------------------------------------------------------
(***************************************************************************)
(* Logical plans.                                                          *)
(***************************************************************************)
TableScan(source) == [source |-> source, projection |-> <<>>, ops |-> <<>>]

Projection(es)       == [op |-> "Projection", exprs |-> es]
Filter(e)            == [op |-> "Filter", pred |-> e]
Aggregate(group, as) == [op |-> "Aggregate", group |-> group, aggs |-> as]
Limit(n)             == [op |-> "Limit", n |-> n]

Put(plan, op) == [plan EXCEPT !.ops = Append(@, op)]

\* An empty projection of a scan stands for all of its columns.
ScanSchema(plan) ==
  LET schema == plan.source.schema
  IN  IF plan.projection = <<>> THEN schema
      ELSE [i \in DOMAIN plan.projection |-> schema[Position(plan.projection[i], schema)]]

\* The expressions that give an operator its columns.
Columns(op) == CASE op.op = "Projection" -> op.exprs
                 [] op.op = "Aggregate"  -> op.group \o op.aggs
                 [] OTHER                -> <<>>

\* The schema of the first k operators.
RECURSIVE SchemaAt(_, _)
SchemaAt(plan, k) ==
  IF k = 0 THEN ScanSchema(plan)
  ELSE IF plan.ops[k].op \in {"Filter", "Limit"} THEN SchemaAt(plan, k - 1)
  ELSE LET es == Columns(plan.ops[k])
       IN  [i \in DOMAIN es |-> ToField(es[i], SchemaAt(plan, k - 1))]

RECURSIVE HasSchemaAt(_, _)
HasSchemaAt(plan, k) ==
  k = 0 \/ ( /\ HasSchemaAt(plan, k - 1)
             /\ \A e \in Range(Columns(plan.ops[k])) : HasField(e, SchemaAt(plan, k - 1)) )

Schema(plan)    == SchemaAt(plan, Len(plan.ops))
HasSchema(plan) == HasSchemaAt(plan, Len(plan.ops))
-----------------------------------------------------------------------------
(***************************************************************************)
(* ProjectionPushDown.                                                     *)
(***************************************************************************)
\* The expressions an operator evaluates on the rows of its input.
Evaluated(op) ==
  CASE op.op = "Projection" -> Range(op.exprs)
    [] op.op = "Filter"     -> {op.pred}
    [] op.op = "Aggregate"  -> Range(op.group) \cup {a.arg : a \in Range(op.aggs)}
    [] op.op = "Limit"      -> {}

\* An aggregate has no columns here, and an index beyond the schema panics.
RECURSIVE Extractable(_, _, _)
Extractable(e, plan, k) ==
  CASE e.kind \in {"Column", "Literal"} -> TRUE
    [] e.kind = "ColumnIndex" -> HasSchemaAt(plan, k) /\ e.index < Len(SchemaAt(plan, k))
    [] e.kind = "BinaryExpr"  -> Extractable(e.left, plan, k) /\ Extractable(e.right, plan, k)
    [] e.kind \in Wrappers    -> Extractable(e.expr, plan, k)
    [] e.kind = "AggregateFunction" -> FALSE

RECURSIVE ExtractColumns(_, _, _)
ExtractColumns(e, plan, k) ==
  CASE e.kind = "Column"      -> {e.name}
    [] e.kind = "Literal"     -> {}
    [] e.kind = "ColumnIndex" -> {SchemaAt(plan, k)[e.index + 1].name}
    [] e.kind = "BinaryExpr"  -> ExtractColumns(e.left, plan, k) \cup ExtractColumns(e.right, plan, k)
    [] e.kind \in Wrappers    -> ExtractColumns(e.expr, plan, k)

Optimizable(plan) ==
  \A k \in DOMAIN plan.ops : \A e \in Evaluated(plan.ops[k]) : Extractable(e, plan, k - 1)

\* Mutant: the columns of a filter are forgotten.
ForgettingFilters(plan) ==
  UNION {UNION {ExtractColumns(e, plan, k - 1) : e \in Evaluated(plan.ops[k])} :
           k \in {i \in DOMAIN plan.ops : plan.ops[i].op # "Filter"}}

ColumnNames(plan) ==
  UNION {UNION {ExtractColumns(e, plan, k - 1) : e \in Evaluated(plan.ops[k])} :
           k \in DOMAIN plan.ops}

PushDown(plan) ==
  LET Wanted(n) == Named(n, plan.source.schema) /\ n \in ColumnNames(plan)
  IN  [plan EXCEPT !.projection = SelectSeq(Alphabet, Wanted)]
-----------------------------------------------------------------------------
(***************************************************************************)
(* The physical planner.                                                   *)
(***************************************************************************)
RECURSIVE Creatable(_, _)
Creatable(e, schema) ==
  CASE e.kind = "Column"      -> Named(e.name, schema)
    [] e.kind = "ColumnIndex" -> e.index < Len(schema)
    [] e.kind = "Literal"     -> TRUE
    [] e.kind = "BinaryExpr"  -> Creatable(e.left, schema) /\ Creatable(e.right, schema)
    [] e.kind \in Wrappers    -> Creatable(e.expr, schema)
    [] e.kind = "AggregateFunction" -> FALSE

AggregateCreatable(a, schema) == Creatable(a.arg, schema) /\ ~a.distinct

Plannable(plan) ==
  /\ HasSchema(plan)
  /\ \A k \in DOMAIN plan.ops :
       LET op     == plan.ops[k]
           schema == SchemaAt(plan, k - 1)
       IN  IF op.op = "Aggregate"
           THEN /\ \A e \in Range(op.group) : Creatable(e, schema)
                /\ \A a \in Range(op.aggs) : AggregateCreatable(a, schema)
           ELSE \A e \in Evaluated(op) : Creatable(e, schema)
-----------------------------------------------------------------------------
(***************************************************************************)
(* Physical expressions.  A column is a position; `types' are the types of *)
(* the columns of the batch, which may not be those of the schema.         *)
(***************************************************************************)
Illtyped == "ill-typed"
Numeric  == {"Int32", "Int64", "Float64"}

BinaryType(l, op, r) ==
  IF l = Illtyped \/ r = Illtyped THEN Illtyped
  ELSE IF op \in Arithmetic
  THEN IF l \notin Numeric \/ r \notin Numeric THEN Illtyped
       ELSE IF l = r THEN l ELSE "Float64"
  ELSE IF l = r /\ (op \in Logic <=> l = "Boolean") THEN "Boolean" ELSE Illtyped

RECURSIVE TypeOf(_, _, _)
TypeOf(e, schema, types) ==
  CASE e.kind = "Column"      -> types[Position(e.name, schema)]
    [] e.kind = "ColumnIndex" -> types[e.index + 1]
    [] e.kind = "Literal"     -> "Int64"
    [] e.kind = "Cast"        -> IF TypeOf(e.expr, schema, types) \in Numeric THEN e.type ELSE Illtyped
    [] e.kind = "Alias"       -> TypeOf(e.expr, schema, types)
    [] e.kind = "BinaryExpr"  -> BinaryType(TypeOf(e.left, schema, types), e.op,
                                            TypeOf(e.right, schema, types))

\* Kleene's AND.
And3(l, r) == IF FALSE \in {l, r} THEN FALSE ELSE IF Null \in {l, r} THEN Null ELSE TRUE

BinaryCell(l, op, r) ==
  IF op = "and" THEN And3(l, r)
  ELSE IF l = Null \/ r = Null THEN Null
  ELSE CASE op = "eq"  -> l = r
         [] op = "lt"  -> l < r
         [] op = "add" -> l + r

RECURSIVE Evaluate(_, _, _)
Evaluate(e, schema, row) ==
  CASE e.kind = "Column"      -> row[Position(e.name, schema)]
    [] e.kind = "ColumnIndex" -> row[e.index + 1]
    [] e.kind = "Literal"     -> e.value
    [] e.kind \in Wrappers    -> Evaluate(e.expr, schema, row)
    [] e.kind = "BinaryExpr"  -> BinaryCell(Evaluate(e.left, schema, row), e.op,
                                            Evaluate(e.right, schema, row))
-----------------------------------------------------------------------------
(***************************************************************************)
(* Execution.  A relation has the types of its columns and its rows.       *)
(***************************************************************************)
Relation(types, rows) == [ok |-> TRUE, types |-> types, rows |-> rows]
Failed                == [ok |-> FALSE, types |-> <<>>, rows |-> <<>>]

Types(schema) == [i \in DOMAIN schema |-> schema[i].type]

\* A source lays the columns out as the projection of the scan does, but a
\* Parquet file only picks them: they stay as they are in the file.
Layout(plan) ==
  LET Wanted(f) == Named(f.name, ScanSchema(plan))
  IN  IF plan.source.format = "parquet" THEN SelectSeq(plan.source.schema, Wanted)
      ELSE ScanSchema(plan)

Read(plan) ==
  LET source    == plan.source
      layout    == Layout(plan)
      Pick(row) == [i \in DOMAIN layout |-> row[Position(layout[i].name, source.schema)]]
  IN  Relation(Types(layout), [r \in DOMAIN source.rows |-> Pick(source.rows[r])])

\* An expression list makes a batch of the schema, or none.
Project(es, schema, declared, input) ==
  LET types == [i \in DOMAIN es |-> TypeOf(es[i], schema, input.types)]
  IN  IF es = <<>> \/ types # declared THEN Failed
      ELSE Relation(types, [r \in DOMAIN input.rows |->
                              [i \in DOMAIN es |-> Evaluate(es[i], schema, input.rows[r])]])

\* Mutant: a row for which the predicate is unknown is kept.
KeepsUnknown(pred, schema, input) ==
  LET type      == TypeOf(pred, schema, input.types)
      Keep(row) == type = "Boolean" /\ Evaluate(pred, schema, row) # FALSE
  IN  IF type = Illtyped \/ input.types # Types(schema) THEN Failed
      ELSE Relation(input.types, SelectSeq(input.rows, Keep))

\* A mask that is not Boolean keeps nothing.
KeepRows(pred, schema, input) ==
  LET type      == TypeOf(pred, schema, input.types)
      Keep(row) == type = "Boolean" /\ Evaluate(pred, schema, row) = TRUE
  IN  IF type = Illtyped \/ input.types # Types(schema) THEN Failed
      ELSE Relation(input.types, SelectSeq(input.rows, Keep))

\* The elements of a sequence, each once, as they come first.
FirstSeen(seq) == FoldLeft(LAMBDA acc, x : IF Contains(acc, x) THEN acc ELSE Append(acc, x), <<>>, seq)

\* A HashMap gives its keys in one order or the other.
Orders             == {"as they come", "reversed"}
InOrder(order, ks) == IF order = "reversed" THEN Reverse(ks) ELSE ks

NotNull(v) == v # Null

Fold(func, values) ==
  LET given == SelectSeq(values, NotNull)
  IN  IF func = "COUNT" THEN Len(given)
      ELSE IF given = <<>> THEN Null
      ELSE FoldLeft(LAMBDA x, y : CASE func = "SUM" -> x + y
                                    [] func = "MAX" -> IF x < y THEN y ELSE x,
                    Head(given), Tail(given))

\* AggregateExec in Single mode: no row without a group, even for an
\* aggregate that groups by nothing.  An argument of another type than was
\* planned is not followed further.
Group(op, schema, declared, input, order) ==
  LET Key(row)    == [i \in DOMAIN op.group |-> Evaluate(op.group[i], schema, row)]
      keys        == FirstSeen([r \in DOMAIN input.rows |-> Key(input.rows[r])])
      Members(k)  == SelectSeq(input.rows, LAMBDA row : Key(row) = k)
      Cell(a, k)  == LET rows == Members(k)
                     IN  Fold(a.func, [r \in DOMAIN rows |-> Evaluate(a.arg, schema, rows[r])])
      types       == [i \in DOMAIN op.group |-> TypeOf(op.group[i], schema, input.types)]
                       \o [i \in DOMAIN op.aggs |->
                             LET t == TypeOf(op.aggs[i].arg, schema, input.types)
                             IN  IF t # Illtyped /\ op.aggs[i].func = "COUNT" THEN "Int32" ELSE t]
      Row(k)      == k \o [i \in DOMAIN op.aggs |-> Cell(op.aggs[i], k)]
      ordered     == InOrder(order, keys)
  IN  IF types # declared THEN Failed
      ELSE Relation(types, [g \in DOMAIN ordered |-> Row(ordered[g])])

\* The limit is an i32 that becomes a usize: a negative one is no limit.
\* A limit of zero never polls its input.
FirstRows(n, schema, input) ==
  IF n = 0 THEN Relation(Types(schema), <<>>)
  ELSE IF ~input.ok \/ n < 0 \/ n >= Len(input.rows) THEN input
  ELSE [input EXCEPT !.rows = SubSeq(@, 1, n)]

RECURSIVE RunTo(_, _, _)
RunTo(plan, k, order) ==
  IF k = 0 THEN Read(plan)
  ELSE LET op       == plan.ops[k]
           input    == RunTo(plan, k - 1, order)
           schema   == SchemaAt(plan, k - 1)
           declared == Types(SchemaAt(plan, k))
       IN  IF op.op = "Limit" THEN FirstRows(op.n, schema, input)
           ELSE IF ~input.ok THEN Failed
           ELSE CASE op.op = "Projection" -> Project(op.exprs, schema, declared, input)
                  [] op.op = "Filter"     -> KeepRows(op.pred, schema, input)
                  [] op.op = "Aggregate"  -> Group(op, schema, declared, input, order)

\* What the physical plan of a logical plan answers.
Run(plan, order) == IF Plannable(plan) THEN RunTo(plan, Len(plan.ops), order) ELSE Failed
=============================================================================
