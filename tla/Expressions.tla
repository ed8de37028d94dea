---------------------------- MODULE Expressions ----------------------------
(***************************************************************************)
(* Physical expressions over the rows of one batch: typed cells, columns   *)
(* and constants, arithmetic and comparisons with SQL's unknown, casts,    *)
(* evaluation for a selection of the rows, and the aggregates that are fed *)
(* from the result.                                                        *)
(*                                                                         *)
(* The widths of the integers and the precision of the floats are          *)
(* parameters.  A float is a whole number or NaN, so nothing here divides  *)
(* floats; a text is a word or the digits of a number, and is only         *)
(* compared for equality.                                                  *)
(***************************************************************************)
EXTENDS Integers, FiniteSets, Sequences, SequencesExt, FiniteSetsExt

CONSTANTS
  Width,      \* the bits of an integer type
  Precision,  \* the bits of the significand of a float type
  NaN,
  Apply,      \* the kernels of sqrt and log, on floats
  Batches,    \* batches: the types of their columns and their rows
  Exprs(_),   \* the expressions that are evaluated over columns of given types
  Masks,      \* selections of the rows of a batch
  Builds,     \* of "debug" and "release": is overflow checked?
  Samples     \* values of each type, to put in the place of a null

Signed    == {"Int8", "Int16", "Int32", "Int64"}
Unsigned  == {"UInt8", "UInt16", "UInt32", "UInt64"}
Floats    == {"Float32", "Float64"}
Numeric   == Signed \cup Unsigned \cup Floats
Texts     == {"Utf8", "Binary"}
Supported == Numeric \cup Texts \cup {"Boolean", "Date32"}

Arithmetic  == {"Plus", "Minus", "Multiply", "Divide", "Modulo"}
Comparisons == {"Eq", "NotEq", "Lt", "LtEq", "Gt", "GtEq"}
Logic       == {"And", "Or"}
-----------------------------------------------------------------------------
(***************************************************************************)
(* Cells, columns and failures.  Something fails with an error, or panics. *)
(***************************************************************************)
Cell(type, v)       == [outcome |-> "cell", type |-> type, v |-> v]
Bool(b)             == [outcome |-> "cell", type |-> "Boolean", is |-> b]
Text(t)             == [outcome |-> "cell", type |-> "Utf8", text |-> t]
Null                == [outcome |-> "cell", type |-> "Null"]
Array(type, cells)  == [outcome |-> "array", type |-> type, cells |-> cells]
Scalar(value)       == [outcome |-> "scalar", value |-> value]
Error               == [outcome |-> "error"]
Panic               == [outcome |-> "panic"]

Fails(r) == r.outcome \in {"error", "panic"}

\* Rows are handled one after the other, up to the first that fails.
FirstFailure(cells) == cells[Min({i \in DOMAIN cells : Fails(cells[i])})]

\* ArrowVectorBuilder: a column of one type, with nulls.
Built(type, cells) ==
  IF type \notin Supported THEN Panic
  ELSE IF \E i \in DOMAIN cells : Fails(cells[i]) THEN FirstFailure(cells)
  ELSE IF \E i \in DOMAIN cells : cells[i].type \notin {type, "Null"} THEN Panic
  ELSE Array(type, cells)

\* to_array_of_size: a null without a type becomes a Boolean.
ToArrayOfSize(value, n) ==
  Array(IF value = Null THEN "Boolean" ELSE value.type, [i \in 1..n |-> value])

\* try_from_array
At(array, i) == array.cells[i]

IntoArray(r, n) == IF r.outcome = "scalar" THEN ToArrayOfSize(r.value, n) ELSE r
-----------------------------------------------------------------------------
(***************************************************************************)
(* Numbers.                                                                *)
(***************************************************************************)
Wrap(type, n) ==
  IF type \in Unsigned THEN n % 2^Width[type]
  ELSE ((n + 2^(Width[type] - 1)) % 2^Width[type]) - 2^(Width[type] - 1)

Least(type)    == -(2^(Width[type] - 1))
Greatest(type) == 2^(Width[type] - 1) - 1

Abs(n) == IF n < 0 THEN -n ELSE n

\* The nearest number with at most p significant bits, ties to the even one.
Rounded(p, n) ==
  LET step == 2^(CHOOSE k \in 0..Abs(n) : /\ Abs(n) < 2^(p + k)
                                          /\ k = 0 \/ Abs(n) >= 2^(p + k - 1))
      q    == n \div step
      rest == 2 * (n % step)
  IN  IF rest < step \/ (rest = step /\ q % 2 = 0) THEN q * step ELSE (q + 1) * step

ToFloat(type, n) == IF n = NaN THEN NaN ELSE Rounded(Precision[type], n)

\* Integer division in Rust truncates, and the remainder follows.
Quotient(a, b)  == IF (a < 0) = (b < 0) THEN Abs(a) \div Abs(b) ELSE -(Abs(a) \div Abs(b))
Remainder(a, b) == a - b * Quotient(a, b)

Exact(a, op, b) ==
  CASE op = "Plus"     -> a + b
    [] op = "Minus"    -> a - b
    [] op = "Multiply" -> a * b
    [] op = "Divide"   -> Quotient(a, b)
    [] op = "Modulo"   -> Remainder(a, b)

\* The least integer divided by -1 panics as a division by zero does.
Divides(type, a, b) == b # 0 /\ ~(a = Least(type) /\ b = -1)

NumericCell(l, op, r, type) ==
  IF Null \in {l, r} THEN Null
  ELSE IF type \in Signed
  THEN IF op \in {"Divide", "Modulo"} /\ ~Divides(type, l.v, r.v) THEN Panic
       ELSE Cell(type, Wrap(type, Exact(l.v, op, r.v)))
  ELSE IF type \in Floats
  THEN Cell(type, IF NaN \in {l.v, r.v} THEN NaN ELSE ToFloat(type, Exact(l.v, op, r.v)))
  ELSE Error

CoerceToDouble(array) ==
  Built("Float64", [i \in DOMAIN array.cells |->
                      IF At(array, i) = Null THEN Null ELSE Cell("Float64", ToFloat("Float64", At(array, i).v))])
-----------------------------------------------------------------------------
(***************************************************************************)
(* SQL's three-valued logic.  NULL is unknown.                             *)
(***************************************************************************)
\* Of the numbers only 1 is true.
Truth(c) ==
  IF c = Null THEN Null
  ELSE IF c.type = "Boolean" THEN c
  ELSE IF c.type \in Signed \cup Unsigned THEN Bool(c.v = 1)
  ELSE Error

\* Mutant: what is known is taken for the answer.
AndOfTheKnown(l, r) ==
  IF Null = l THEN r ELSE IF Null = r THEN l ELSE Bool(l.is /\ r.is)

And3(l, r) ==
  IF Bool(FALSE) \in {l, r} THEN Bool(FALSE)
  ELSE IF Null \in {l, r} THEN Null ELSE Bool(TRUE)

Or3(l, r) ==
  IF Bool(TRUE) \in {l, r} THEN Bool(TRUE)
  ELSE IF Null \in {l, r} THEN Null ELSE Bool(FALSE)

LogicCell(l, op, r) ==
  IF Fails(Truth(l)) THEN Truth(l)
  ELSE IF Fails(Truth(r)) THEN Truth(r)
  ELSE IF op = "And" THEN And3(Truth(l), Truth(r)) ELSE Or3(Truth(l), Truth(r))

Compared(a, op, b) ==
  CASE op = "Eq"    -> a = b
    [] op = "NotEq" -> a # b
    [] op = "Lt"    -> a < b
    [] op = "LtEq"  -> a <= b
    [] op = "Gt"    -> a > b
    [] op = "GtEq"  -> a >= b

\* Mutant: every number is compared as a float of single precision.
AsSingle(c) == IF c.type \in Texts THEN c.text ELSE ToFloat("Float32", c.v)

\* compare_dispatch: every number is compared as a double.
AsDouble(c) == IF c.type \in Texts THEN c.text ELSE ToFloat("Float64", c.v)

CompareDispatch(l, op, r, type) ==
  IF type \in Unsigned \cup {"Boolean", "Binary"} THEN Error
  ELSE IF Null \in {l, r} THEN Null
  ELSE LET a == AsDouble(l)
           b == AsDouble(r)
       IN  Bool(IF a = NaN \/ b = NaN THEN op = "NotEq" ELSE Compared(a, op, b))

BooleanCell(l, op, r, type) ==
  IF op \in Logic THEN LogicCell(l, op, r) ELSE CompareDispatch(l, op, r, type)
-----------------------------------------------------------------------------
(***************************************************************************)
(* Casts.                                                                  *)
(***************************************************************************)
Word(w)   == [word |-> w]
Digits(n) == [digits |-> n]
IsNumber(text) == "digits" \in DOMAIN text

Clamped(n) == IF n < Least("Int64") THEN Least("Int64") ELSE IF n > Greatest("Int64") THEN Greatest("Int64") ELSE n

\* A float becomes an integer by clamping, and a text by being parsed.
ToI64(c) ==
  CASE c.type \in Floats -> Cell("Int64", IF c.v = NaN THEN 0 ELSE Clamped(c.v))
    [] c.type \in Signed \cup Unsigned -> Cell("Int64", Wrap("Int64", c.v))
    [] c.type \in Texts  -> IF IsNumber(c.text) /\ Clamped(c.text.digits) = c.text.digits
                            THEN Cell("Int64", c.text.digits) ELSE Error
    [] OTHER -> Error

\* to_f32 and to_f64.
ToF(type, c) ==
  CASE c.type \in Numeric -> Cell(type, ToFloat(type, c.v))
    [] c.type \in Texts   -> IF IsNumber(c.text) THEN Cell(type, ToFloat(type, c.text.digits))
                             ELSE IF c.text = Word("NaN") THEN Cell(type, NaN) ELSE Error
    [] OTHER -> Error

ScalarToString(c) ==
  CASE c.type \in Texts     -> c.text
    [] c.type = "Boolean"   -> IF c.is THEN Word("true") ELSE Word("false")
    [] c.type \in Floats /\ c.v = NaN -> Word("NaN")
    [] OTHER                -> Digits(c.v)

CastCell(c, type) ==
  CASE c = Null          -> Null
    [] c # Null /\ type \in Signed ->
         LET n == ToI64(c) IN IF Fails(n) THEN n ELSE Cell(type, Wrap(type, n.v))
    [] c # Null /\ type \in Floats -> ToF(type, c)
    [] c # Null /\ type = "Utf8"   -> Text(ScalarToString(c))
    [] OTHER             -> Error

\* number_to_i64, as days: too far a date panics or wraps.
Days(c) == IF c.type = "Date32" THEN Cell("Date32", c.v)
           ELSE IF c.type \in Texts \cup {"Boolean"} THEN Error
           ELSE Cell("Date32", Wrap("Int32", ToI64(c).v))

DateCell(date, op, interval, build) ==
  IF Null \in {date, interval} THEN Null
  ELSE IF Fails(Days(date)) THEN Days(date)
  ELSE IF Fails(Days(interval)) THEN Days(interval)
  ELSE LET n == Exact(Days(date).v, op, Days(interval).v)
       IN  IF build = "debug" /\ n # Wrap("Int32", n) THEN Panic ELSE Cell("Date32", Wrap("Int32", n))

MathCell(c, f) ==
  CASE c = Null -> Null
    [] c # Null /\ c.type \in Numeric -> Cell("Float64", Apply[f][ToFloat("Float64", c.v)])
    [] OTHER -> Error
-----------------------------------------------------------------------------
(***************************************************************************)
(* Expressions.                                                            *)
(***************************************************************************)
Column(i)            == [kind |-> "Column", index |-> i]
Literal(v)           == [kind |-> "Literal", value |-> v]
BinaryExpr(l, op, r) == [kind |-> "BinaryExpr", left |-> l, op |-> op, right |-> r]
CastExpr(e, t)       == [kind |-> "CastExpr", expr |-> e, type |-> t]
UnaryMathExpr(f, e)  == [kind |-> "UnaryMathExpr", fn |-> f, expr |-> e]
DateExpr(d, op, i)   == [kind |-> "DateExpr", date |-> d, op |-> op, interval |-> i]

RECURSIVE DataType(_, _)
DataType(e, types) ==
  CASE e.kind = "Column"        -> types[e.index]
    [] e.kind = "Literal"       -> e.value.type
    [] e.kind = "CastExpr"      -> e.type
    [] e.kind = "UnaryMathExpr" -> "Float64"
    [] e.kind = "DateExpr"      -> "Date32"
    [] e.kind = "BinaryExpr"    -> IF e.op \in Arithmetic THEN DataType(e.left, types) ELSE "Boolean"

\* Both operands are evaluated for every row, whatever the first one gives.
EvaluateNumeric(l, op, r) ==
  LET same == l.type = r.type
      cl   == IF same THEN l ELSE CoerceToDouble(l)
      cr   == IF same THEN r ELSE CoerceToDouble(r)
  IN  IF ~same /\ ~({l.type, r.type} \subseteq Numeric) THEN Error
      ELSE Built(cl.type, [i \in DOMAIN l.cells |-> NumericCell(At(cl, i), op, At(cr, i), cl.type)])

EvaluateBoolean(l, op, r) ==
  IF l.type # r.type THEN Error
  ELSE Built("Boolean", [i \in DOMAIN l.cells |-> BooleanCell(At(l, i), op, At(r, i), l.type)])

RECURSIVE Evaluate(_, _, _)
Evaluate(e, b, build) ==
  LET n      == Len(b.rows)
      Of(x)  == IntoArray(Evaluate(x, b, build), n)
  IN  CASE e.kind = "Column"  -> Array(b.types[e.index], [i \in 1..n |-> b.rows[i][e.index]])
        [] e.kind = "Literal" -> Scalar(e.value)
        [] e.kind = "CastExpr" ->
             LET c == Of(e.expr)
             IN  IF Fails(c) THEN c ELSE Built(e.type, [i \in 1..n |-> CastCell(At(c, i), e.type)])
        [] e.kind = "UnaryMathExpr" ->
             LET c == Of(e.expr)
             IN  IF Fails(c) THEN c ELSE Built("Float64", [i \in 1..n |-> MathCell(At(c, i), e.fn)])
        [] e.kind = "DateExpr" ->
             LET d == Of(e.date)
                 i == Of(e.interval)
             IN  IF Fails(d) THEN d ELSE IF Fails(i) THEN i
                 ELSE Built("Date32", [k \in 1..n |-> DateCell(At(d, k), e.op, At(i, k), build)])
        [] e.kind = "BinaryExpr" ->
             LET l == Of(e.left)
                 r == Of(e.right)
             IN  IF Fails(l) THEN l ELSE IF Fails(r) THEN r
                 ELSE IF e.op \in Arithmetic THEN EvaluateNumeric(l, e.op, r) ELSE EvaluateBoolean(l, e.op, r)
-----------------------------------------------------------------------------
(***************************************************************************)
(* Evaluation for the selected rows.  A mask has a cell for every row.     *)
(***************************************************************************)
Selected(mask) == {i \in DOMAIN mask : mask[i] = Bool(TRUE)}

FilterRecordBatch(b, mask) ==
  [b EXCEPT !.rows = LET keep == SelectSeq([i \in DOMAIN mask |-> i], LAMBDA i : i \in Selected(mask))
                     IN  [k \in DOMAIN keep |-> b.rows[keep[k]]]]

\* Mutant: the gaps are not filled.
Packed(mask, array) ==
  [array EXCEPT !.cells = [i \in DOMAIN mask |-> IF i \in DOMAIN array.cells THEN array.cells[i] ELSE Null]]

\* The values go to the selected rows, one after the other.
Scatter(mask, array) ==
  [array EXCEPT !.cells =
     [i \in DOMAIN mask |-> IF i \in Selected(mask)
                            THEN array.cells[Cardinality({j \in Selected(mask) : j <= i})] ELSE Null]]

EvaluateSelection(e, b, mask, build) ==
  IF Len(mask) # Len(b.rows) THEN Error
  ELSE IF Selected(mask) = DOMAIN mask THEN Evaluate(e, b, build)
  ELSE LET filtered == IF Selected(mask) # {} THEN Evaluate(e, FilterRecordBatch(b, mask), build)
                       ELSE Array(DataType(e, b.types), <<>>)
       IN  CASE filtered.outcome = "array" -> Scatter(mask, filtered)
             [] filtered = Scalar(Bool(TRUE)) -> Array("Boolean", mask)
             [] OTHER -> filtered
-----------------------------------------------------------------------------
(***************************************************************************)
(* MIN and MAX over the result.  cmp_scalar orders values of one type as   *)
(* they are, not as doubles.  The first value is taken without a look at   *)
(* its type.                                                               *)
(***************************************************************************)
Comparable == Numeric \cup {"Utf8", "Date32"}

CmpScalar(a, b) == NaN \notin {a.v, b.v} /\ a.v < b.v

Accumulate(acc, c) ==
  [MIN |-> IF acc.MIN = Null \/ CmpScalar(c, acc.MIN) THEN c ELSE acc.MIN,
   MAX |-> IF acc.MAX = Null \/ CmpScalar(acc.MAX, c) THEN c ELSE acc.MAX]
-----------------------------------------------------------------------------
(***************************************************************************)
(* One batch, one expression.                                              *)
(***************************************************************************)
VARIABLES
  build,     \* is overflow of days checked?
  batch, expr, mask,
  result,    \* of evaluate
  selected,  \* of evaluate_selection
  row,       \* the rows of the result that have been accumulated
  acc        \* MIN and MAX of the result, or a failure

vars == <<build, batch, expr, mask, result, selected, row, acc>>

NotYet == [outcome |-> "none"]

Init ==
  /\ batch \in Batches
  /\ build \in Builds
  /\ expr \in Exprs(batch.types)
  /\ mask = <<>>
  /\ result = NotYet
  /\ selected = NotYet
  /\ row = 0
  /\ acc = [MIN |-> Null, MAX |-> Null]

EvaluateBatch ==
  /\ result = NotYet /\ selected = NotYet
  /\ result' = Evaluate(expr, batch, build)
  /\ UNCHANGED <<build, batch, expr, mask, selected, row, acc>>

EvaluateSelected ==
  /\ result = NotYet /\ selected = NotYet
  /\ mask' \in Masks
  /\ selected' = EvaluateSelection(expr, batch, mask', build)
  /\ UNCHANGED <<build, batch, expr, result, row, acc>>

\* A text is not accumulated here: the model has no order for texts.
AccumulateRow ==
  /\ result # NotYet /\ ~Fails(result)
  /\ row < Len(batch.rows)
  /\ "outcome" \notin DOMAIN acc
  /\ LET column == IntoArray(result, Len(batch.rows))
         c      == At(column, row + 1)
     IN  /\ column.type # "Utf8"
         /\ acc' = CASE c = Null -> acc
                     [] c # Null /\ acc.MIN = Null -> Accumulate(acc, c)
                     [] c # Null /\ acc.MIN # Null /\ c.type \in Comparable -> Accumulate(acc, c)
                     [] OTHER -> Error
  /\ row' = row + 1
  /\ UNCHANGED <<build, batch, expr, mask, result, selected>>

Next == EvaluateBatch \/ EvaluateSelected \/ AccumulateRow

Spec == Init /\ [][Next]_vars
-----------------------------------------------------------------------------
(***************************************************************************)
(* Properties.                                                             *)
(***************************************************************************)
CellOf(r, i) == IF r.outcome = "scalar" THEN r.value ELSE r.cells[i]

\* The expression for the i-th row alone, with cell j of it replaced.
Alone(i)            == Evaluate(expr, [batch EXCEPT !.rows = <<batch.rows[i]>>], build)
WithCell(i, j, v)   == Evaluate(expr, [batch EXCEPT !.rows = <<[batch.rows[i] EXCEPT ![j] = v]>>], build)

\* Arithmetic on operands of one type, and no null without a type.
RECURSIVE Uniform(_, _)
Uniform(e, types) ==
  CASE e.kind = "Column"        -> TRUE
    [] e.kind = "Literal"       -> e.value # Null
    [] e.kind = "CastExpr"      -> Uniform(e.expr, types)
    [] e.kind = "UnaryMathExpr" -> Uniform(e.expr, types)
    [] e.kind = "DateExpr"      -> Uniform(e.date, types) /\ Uniform(e.interval, types)
    [] e.kind = "BinaryExpr"    -> /\ Uniform(e.left, types) /\ Uniform(e.right, types)
                                   /\ DataType(e.left, types) = DataType(e.right, types)

(***************************************************************************)
(* What is not selected is not evaluated: evaluate_selection fails only    *)
(* for a selected row that fails by itself, gives every selected row what  *)
(* it is alone and is true for no other row; and its column has the type   *)
(* data_type announces, with or without a row to evaluate.                 *)
(***************************************************************************)
SelectionAgrees ==
  (selected # NotYet /\ Len(mask) = Len(batch.rows)) =>
    IF Fails(selected) THEN mask = <<>> \/ \E i \in Selected(mask) : Fails(Alone(i))
    ELSE /\ \A i \in Selected(mask) : ~Fails(Alone(i)) /\ CellOf(selected, i) = CellOf(Alone(i), 1)
         /\ \A i \in DOMAIN mask \ Selected(mask) : CellOf(selected, i) # Bool(TRUE)
         /\ (selected.outcome = "array" /\ Uniform(expr, batch.types)) =>
              selected.type = DataType(expr, batch.types)

(***************************************************************************)
(* A null is a value nobody knows: an answer that is known in spite of it  *)
(* stays the answer whatever value the null stands for.                    *)
(***************************************************************************)
KnownStaysKnown ==
  (result # NotYet /\ ~Fails(result)) =>
    \A i \in DOMAIN batch.rows : \A j \in DOMAIN batch.types :
      (batch.rows[i][j] = Null /\ CellOf(result, i) # Null) =>
        \A v \in Samples[batch.types[j]] :
          Fails(WithCell(i, j, v)) \/ CellOf(WithCell(i, j, v), 1) = CellOf(result, i)

(***************************************************************************)
(* Filters and aggregates agree on the order of numbers: no row compares   *)
(* greater than the maximum or less than the minimum, two rows never       *)
(* compare the other way round, and where a double can tell two values     *)
(* apart a comparison does.                                                *)
(***************************************************************************)
Exactly(v) == v # NaN /\ ToFloat("Float64", v) = v

OrderIsKept ==
  (result # NotYet /\ ~Fails(result) /\ "outcome" \notin DOMAIN acc) =>
    LET column   == IntoArray(result, Len(batch.rows))
        Is(a, op, b) == CompareDispatch(a, op, b, column.type) = Bool(TRUE)
        seen     == {column.cells[i] : i \in 1..row} \ {Null}
    IN  column.type \in Signed \cup Floats \cup {"Date32"} =>
          /\ \A c \in seen : ~Is(c, "Gt", acc.MAX) /\ ~Is(c, "Lt", acc.MIN)
          /\ \A c, d \in seen :
               /\ CmpScalar(c, d) => Is(c, "LtEq", d)
               /\ (Exactly(c.v) /\ Exactly(d.v)) => (Is(c, "Lt", d) <=> CmpScalar(c, d))
=============================================================================
