---------------------------- MODULE MCExpressions ----------------------------
(***************************************************************************)
(* Expressions for TLC: integers of 3 and 6 bits, doubles that are exact   *)
(* up to 16 and singles up to 4, batches with nulls, extremes and columns  *)
(* of different types, and expressions of two levels.                      *)
(***************************************************************************)
EXTENDS Expressions

MCWidth     == [Int8 |-> 2, Int16 |-> 3, Int32 |-> 3, Int64 |-> 6, UInt8 |-> 2, UInt16 |-> 3, UInt32 |-> 3, UInt64 |-> 6]
MCPrecision == [Float32 |-> 2, Float64 |-> 4]
MCApply     == LET Of(x) == IF x = NaN THEN NaN ELSE IF x < 0 THEN NaN ELSE x
                   range == -32..32 \cup {NaN}
               IN  [sqrt |-> [x \in range |-> Of(x)], log |-> [x \in range |-> Of(x)]]

I32(n)  == Cell("Int32", n)
I64(n)  == Cell("Int64", n)
F64(n)  == Cell("Float64", n)
Str(t)  == Text(t)
Date(n) == Cell("Date32", n)

MCSamples ==
  [Int32 |-> {I32(-4), I32(0), I32(1), I32(3)}, Int64 |-> {I64(-32), I64(1), I64(31)},
   Float64 |-> {F64(NaN), F64(2)}, Utf8 |-> {Str(Word("a")), Str(Digits(2))},
   Date32 |-> {Date(3)}, Boolean |-> {Bool(TRUE), Bool(FALSE)}, UInt8 |-> {Cell("UInt8", 1)}]

TypeLists ==
  { <<"Int32", "Int32">>, <<"Int64", "Int64">>, <<"Int32", "Int64">>, <<"Boolean", "Boolean">>,
    <<"Float64", "Int64">>, <<"Utf8", "Utf8">>, <<"Date32", "Int32">>, <<"UInt8", "UInt8">> }

OrNull(t) == MCSamples[t] \cup {Null}
Some(t)   == {CHOOSE v \in MCSamples[t] : TRUE}

\* Two rows of samples and nulls, and a batch of no rows.
MCBatches ==
  UNION {[types : {ts},
          rows  : {<<>>} \cup {<<<<a, b>>, <<c, d>>>> :
                    a \in OrNull(ts[1]), b \in OrNull(ts[2]), c \in OrNull(ts[1]), d \in Some(ts[2])}] :
           ts \in TypeLists}

MCMasks == {<<x, y>> : x, y \in {Bool(TRUE), Bool(FALSE), Null}} \cup {<<Bool(TRUE)>>}

c1   == Column(1)
c2   == Column(2)
One  == Literal(I32(1))
Zero == Literal(I32(0))

Binaries(ops) == {BinaryExpr(c1, op, c2) : op \in ops}

\* Of texts and doubles, what the model can compare and divide.
Operators(ts) ==
  IF "Utf8" \in Range(ts) THEN {"Eq", "NotEq", "Plus", "And"}
  ELSE (Arithmetic \cup Comparisons \cup Logic) \ (IF ts[1] = ts[2] THEN {} ELSE {"Divide", "Modulo"})

Nested(ts) ==
  IF ts # <<"Int32", "Int32">> THEN {}
  ELSE {BinaryExpr(BinaryExpr(c1, "Eq", One), op, BinaryExpr(BinaryExpr(One, "Divide", c1), "Lt", c2)) : op \in Logic}
       \cup {BinaryExpr(BinaryExpr(c1, "LtEq", Zero), op, BinaryExpr(c2, "GtEq", One)) : op \in Logic}

Dates(ts) ==
  IF "Date32" \notin Range(ts) THEN {}
  ELSE {DateExpr(c1, op, c2) : op \in {"Plus", "Minus"}}
       \cup {BinaryExpr(DateExpr(c1, "Plus", Literal(Null)), "NotEq", c1)}

MCExprs(ts) ==
  { c1, One, Literal(Bool(TRUE)), Literal(Bool(FALSE)), Literal(Null), BinaryExpr(c1, "Eq", Literal(Null)) }
  \cup Binaries(Operators(ts)) \cup Nested(ts) \cup Dates(ts)
  \cup {BinaryExpr(CastExpr(c1, t), op, CastExpr(c2, t)) : t \in {"Int8", "Int64", "Float64"}, op \in {"Lt", "Multiply"}}
  \cup {BinaryExpr(CastExpr(c1, "Int32"), "Divide", CastExpr(c2, "Int32"))}
  \cup {CastExpr(CastExpr(c1, "Utf8"), t) : t \in {"Int32", "Float32", "Boolean"}}
  \cup {UnaryMathExpr(f, c1) : f \in {"sqrt", "log"}}
=============================================================================
