---------------------------- MODULE RemoteQuery ----------------------------
(***************************************************************************)
(* A session whose DataFrames may also be answered by a Flight server.     *)
(* The interactive client sends a logical plan (Action.query), the         *)
(* distributed session sends a physical plan that is not an aggregation as *)
(* the only task of its job (Action.task).  What travels names a file and  *)
(* not the source that reads it: the server opens the file again, in its   *)
(* own way.  A panic, of the client or of the server, counts as an error.  *)
(***************************************************************************)
EXTENDS SqlQuery

CONSTANTS
  Files,  \* from paths: separator, header line (<<>> if none), rows of integers
  Word    \* how many values a machine word has (2^32 in the code)

VARIABLE reply  \* what a server gave for the caller's DataFrame, or None

remoteVars == <<tables, frame, asked, answer, calls, reply>>
-----------------------------------------------------------------------------
(***************************************************************************)
(* Files.  A file that is split at another character than its own has one  *)
(* column, its lines; a cell that is not read as an integer is a text.     *)
(***************************************************************************)
Comma == ","
Text  == "text"

Width(path) == Len(Files[path].rows[1])
Titled(path) == Files[path].titles # <<>>

\* The first line, which names the columns of a source with has_headers.
FirstLine(path) ==
  IF Titled(path) THEN Files[path].titles
  ELSE [i \in 1..Width(path) |-> ToString(Files[path].rows[1][i])]

\* CsvDataSource::infer_schema.
InferSchema(path, header, sep) ==
  LET names == IF header THEN FirstLine(path)
               ELSE [i \in 1..Width(path) |-> "column_" \o ToString(i)]
      type  == IF Titled(path) /\ ~header THEN "Utf8" ELSE "Int64"
  IN  IF sep # Files[path].sep THEN <<[name |-> "line", type |-> "Utf8"]>>
      ELSE [i \in 1..Width(path) |-> [name |-> names[i], type |-> type]]

\* The lines below the header a source skips.
RowsRead(path, header, sep) ==
  LET rows  == Files[path].rows
      texts == [r \in 1..(Len(rows) + 1) |-> [i \in 1..Width(path) |-> Text]]
  IN  IF sep # Files[path].sep THEN [r \in DOMAIN rows |-> <<Text>>]
      ELSE IF header THEN IF Titled(path) THEN rows ELSE Tail(rows)
      ELSE IF Titled(path) THEN texts ELSE rows

\* CsvDataSource::new without a schema, and with the separator of tsv.
CsvSource(path, header, sep) ==
  [format |-> "csv", path |-> path, header |-> header, sep |-> sep,
   schema |-> InferSchema(path, header, sep), rows |-> RowsRead(path, header, sep)]

\* ParquetDataSource::new: the file has its own schema.
ParquetSource(path) ==
  [format |-> "parquet", path |-> path, header |-> TRUE, sep |-> Files[path].sep,
   schema |-> InferSchema(path, TRUE, Files[path].sep), rows |-> Files[path].rows]

OfFile(source) == source.format \in {"csv", "parquet"}
-----------------------------------------------------------------------------
(***************************************************************************)
(* The logical plan on the wire.                                           *)
(***************************************************************************)
RECURSIVE SerializableExpr(_)
SerializableExpr(e) ==
  CASE e.kind \in {"Column", "Literal"} -> TRUE
    [] e.kind = "BinaryExpr" -> SerializableExpr(e.left) /\ SerializableExpr(e.right)
    [] OTHER -> FALSE

Serializable(plan) ==
  /\ OfFile(plan.source)
  /\ \A k \in DOMAIN plan.ops : \A e \in Evaluated(plan.ops[k]) : SerializableExpr(e)

\* The function has no DISTINCT beside it: only COUNT has another name.
SerializeAggregateExpr(a) ==
  [func |-> IF a.func = "COUNT" /\ a.distinct THEN "COUNT_DISTINCT" ELSE a.func, arg |-> a.arg]

DeserializeAggregateExpr(w) ==
  IF w.func = "COUNT_DISTINCT" THEN AggregateFunction("COUNT", w.arg, TRUE)
  ELSE AggregateFunction(w.func, w.arg, FALSE)

\* A limit travels as an unsigned word.
SerializeOp(op) ==
  CASE op.op = "Aggregate" ->
         Aggregate(op.group, [i \in DOMAIN op.aggs |-> SerializeAggregateExpr(op.aggs[i])])
    [] op.op = "Limit" -> Limit(op.n % Word)
    [] OTHER           -> op

DeserializeOp(w) ==
  CASE w.op = "Aggregate" ->
         Aggregate(w.group, [i \in DOMAIN w.aggs |-> DeserializeAggregateExpr(w.aggs[i])])
    [] w.op = "Limit" -> Limit(IF 2 * w.n >= Word THEN w.n - Word ELSE w.n)
    [] OTHER          -> w

\* Mutant: has_header is left at its default.
WithoutHeader(plan) ==
  [format     |-> plan.source.format,
   path       |-> plan.source.path,
   has_header |-> FALSE,
   projection |-> plan.projection,
   ops        |-> [k \in DOMAIN plan.ops |-> SerializeOp(plan.ops[k])]]

SerializeLogicalPlan(plan) ==
  [format     |-> plan.source.format,
   path       |-> plan.source.path,
   has_header |-> plan.source.header,
   projection |-> plan.projection,
   ops        |-> [k \in DOMAIN plan.ops |-> SerializeOp(plan.ops[k])]]

\* Neither the schema of a CSV source nor its separator has travelled.
DeserializeLogicalPlan(w) ==
  [source     |-> IF w.format = "csv" THEN CsvSource(w.path, w.has_header, Comma)
                  ELSE ParquetSource(w.path),
   projection |-> w.projection,
   ops        |-> [k \in DOMAIN w.ops |-> DeserializeOp(w.ops[k])]]
-----------------------------------------------------------------------------
(***************************************************************************)
(* The physical plan on the wire: optimised and resolved by the sender.    *)
(* A column is known by its position, an alias has left no trace, and      *)
(* there are neither limits nor sorts.                                     *)
(***************************************************************************)
SerializableTask(plan) ==
  /\ OfFile(plan.source)
  /\ \A k \in DOMAIN plan.ops : plan.ops[k].op # "Limit"

RECURSIVE SerializePhysicalExpr(_, _)
SerializePhysicalExpr(e, schema) ==
  CASE e.kind = "Column" ->
         [node |-> "Column", name |-> e.name, index |-> Position(e.name, schema) - 1]
    [] e.kind = "ColumnIndex" ->
         [node |-> "Column", name |-> schema[e.index + 1].name, index |-> e.index]
    [] e.kind = "Literal"     -> [node |-> "LiteralLong", value |-> e.value]
    [] e.kind = "Alias"       -> SerializePhysicalExpr(e.expr, schema)
    [] e.kind = "Cast"        ->
         [node |-> "CastExpr", expr |-> SerializePhysicalExpr(e.expr, schema), type |-> e.type]
    [] e.kind = "BinaryExpr"  ->
         [node |-> "BinaryExpr", op |-> e.op, l |-> SerializePhysicalExpr(e.left, schema),
          r |-> SerializePhysicalExpr(e.right, schema)]

\* The index is believed, the name is for display.
RECURSIVE DeserializePhysicalExpr(_)
DeserializePhysicalExpr(w) ==
  CASE w.node = "Column"      -> ColumnIndex(w.index)
    [] w.node = "LiteralLong" -> Literal(w.value)
    [] w.node = "CastExpr"    -> Cast(DeserializePhysicalExpr(w.expr), w.type)
    [] w.node = "BinaryExpr"  ->
         BinaryExpr(DeserializePhysicalExpr(w.l), w.op, DeserializePhysicalExpr(w.r))

SerializePhysicalAggrExpr(a, schema) ==
  [aggr_function |-> a.func, input_expr |-> SerializePhysicalExpr(a.arg, schema)]

DeserializePhysicalAggrExpr(w) ==
  AggregateFunction(w.aggr_function, DeserializePhysicalExpr(w.input_expr), FALSE)

SerializeOperator(op, schema) ==
  LET Nodes(es) == [i \in DOMAIN es |-> SerializePhysicalExpr(es[i], schema)]
  IN  CASE op.op = "Projection" -> Projection(Nodes(op.exprs))
        [] op.op = "Filter"     -> Filter(SerializePhysicalExpr(op.pred, schema))
        [] op.op = "Aggregate"  ->
             Aggregate(Nodes(op.group),
                       [i \in DOMAIN op.aggs |-> SerializePhysicalAggrExpr(op.aggs[i], schema)])

DeserializeOperator(w) ==
  LET Exprs(ns) == [i \in DOMAIN ns |-> DeserializePhysicalExpr(ns[i])]
  IN  CASE w.op = "Projection" -> Projection(Exprs(w.exprs))
        [] w.op = "Filter"     -> Filter(DeserializePhysicalExpr(w.pred))
        [] w.op = "Aggregate"  ->
             Aggregate(Exprs(w.group),
                       [i \in DOMAIN w.aggs |-> DeserializePhysicalAggrExpr(w.aggs[i])])

Operators(plan) == [k \in DOMAIN plan.ops |-> SerializeOperator(plan.ops[k], SchemaAt(plan, k - 1))]

\* Mutant: the schema of the scan is sent, not that of the file.
SendsScanSchema(plan) ==
  [format     |-> plan.source.format,
   path       |-> plan.source.path,
   schema     |-> ScanSchema(plan),
   projection |-> plan.projection,
   ops        |-> Operators(plan)]

SerializePhysicalPlan(plan) ==
  [format     |-> plan.source.format,
   path       |-> plan.source.path,
   schema     |-> plan.source.schema,
   projection |-> plan.projection,
   ops        |-> Operators(plan)]

\* The reader of a CSV task takes a header line for granted, and commas.
DeserializePhysicalPlan(w) ==
  LET source == IF w.format = "csv" THEN CsvSource(w.path, TRUE, Comma) ELSE ParquetSource(w.path)
  IN  [source     |-> [source EXCEPT !.schema = w.schema],
       projection |-> w.projection,
       ops        |-> [k \in DOMAIN w.ops |-> DeserializeOperator(w.ops[k])]]

\* A CSV reader wants lines of as many fields as its schema has.
Readable(w) == w.format = "csv" => Files[w.path].sep = Comma /\ Len(w.schema) = Width(w.path)
-----------------------------------------------------------------------------
(***************************************************************************)
(* The server and its clients.                                             *)
(***************************************************************************)
\* SessionContext::execute.
Answered(plan, order) == IF Optimizable(plan) THEN Run(PushDown(plan), order) ELSE Failed

\* do_get: a task comes before a query, and one of them must be there.
DoGet(action, order) ==
  IF action.task # None
  THEN IF Readable(action.task) THEN Run(DeserializePhysicalPlan(action.task), order) ELSE Failed
  ELSE IF action.query # None THEN Answered(DeserializeLogicalPlan(action.query), order)
  ELSE Failed

\* Client::do_get collects the batches.  The types come with the rows.
Collected(result) == IF result.rows = <<>> THEN [result EXCEPT !.types = <<>>] ELSE result

RemoteInit == Init /\ reply = None

\* Bound: the caller has a DataFrame executed once, here or there.  It would
\* only be given the same again, for an execution changes nothing else.
Unanswered == answer = None /\ reply = None

\* flight_client::Context::execute.
ExecuteRemotely(order) ==
  /\ Call
  /\ Unanswered
  /\ frame # None
  /\ LET action == [task |-> None, query |-> SerializeLogicalPlan(frame)]
     IN  reply' = [to     |-> "query", order |-> order,
                   result |-> IF Serializable(frame) THEN Collected(DoGet(action, order)) ELSE Failed]
  /\ UNCHANGED <<tables, frame, asked, answer>>

\* A plan whose root is not an aggregation is a single final stage.
SingleStage(plan) == plan.ops # <<>> => Last(plan.ops).op # "Aggregate"

\* The distributed session: execute_final_task with the planned DataFrame.
ExecuteAsTask(order) ==
  /\ Call
  /\ Unanswered
  /\ frame # None
  /\ SingleStage(frame)
  /\ LET planned == Optimizable(frame) /\ Plannable(PushDown(frame)) /\ SerializableTask(frame)
         action  == [task |-> SerializePhysicalPlan(PushDown(frame)), query |-> None]
     IN  reply' = [to     |-> "task", order |-> order,
                   result |-> IF planned THEN Collected(DoGet(action, order)) ELSE Failed]
  /\ UNCHANGED <<tables, frame, asked, answer>>

\* A reply is about the DataFrame the caller holds.
Locally(Action) == Action /\ reply' = None

RemoteNext ==
  \/ Locally(Sql)
  \/ Locally(SqlFails)
  \/ Locally(Open)
  \/ \E op \in Extensions : Locally(Extend(op))
  \/ \E v \in Views : Locally(Register(v))
  \/ \E order \in Orders : Unanswered /\ Locally(Execute(order))
  \/ \E order \in Orders : ExecuteRemotely(order)
  \/ \E order \in Orders : ExecuteAsTask(order)

RemoteSpec == RemoteInit /\ [][RemoteNext]_remoteVars
-----------------------------------------------------------------------------
(***************************************************************************)
(* Properties.                                                             *)
(***************************************************************************)
Local == Answered(frame, reply.order)

\* The schema of the source is the one its file suggests.
AsInferred(source) ==
  source.format = "csv" => source = CsvSource(source.path, source.header, source.sep)

\* The DISTINCT of another aggregate than COUNT is lost on the way.
KeepsDistinct(plan) ==
  \A k \in DOMAIN plan.ops :
    plan.ops[k].op = "Aggregate" => \A a \in Range(plan.ops[k].aggs) : a.distinct => a.func = "COUNT"

\* An answer of the server is the answer of the session, whatever the plan
\* and the file, if the file is split at commas: the same rows, and where no
\* schema was declared for it the same types and the same failures too
\* (serialize_logical_plan, deserialize_logical_plan, do_get).
RemoteAnswersAgree ==
  ( /\ reply # None
    /\ reply.to = "query"
    /\ Serializable(frame)
    /\ frame.source.sep = Comma
    /\ KeepsDistinct(frame) )
  => /\ reply.result.ok /\ Local.ok => reply.result.rows = Local.rows
     /\ AsInferred(frame.source) => reply.result = Collected(Local)

\* A task gives what the planned operators give where they were planned, if
\* the file is what the reader of a task takes for granted: columns are still
\* where the planner found them, and the file has as many as its schema
\* (serialize_physical_plan, deserialize_physical_plan).
TaskRunsAsPlanned ==
  ( /\ reply # None
    /\ reply.to = "task"
    /\ SerializableTask(frame)
    /\ frame.source.format = "csv" => Titled(frame.source.path) /\ frame.source.sep = Comma )
  => reply.result = Collected(Local)
=============================================================================
