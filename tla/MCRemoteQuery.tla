--------------------------- MODULE MCRemoteQuery ---------------------------
(***************************************************************************)
(* RemoteQuery for TLC: a table whose columns do not lie in alphabetical   *)
(* order and whose schema is declared, CSV files with and without a header *)
(* line and one that is split at tabs, a Parquet file, a table in memory,  *)
(* and queries put together from every kind of item and clause.            *)
(***************************************************************************)
EXTENDS RemoteQuery

Field(n, t) == [name |-> n, type |-> t]

MCAlphabet == <<"a", "b", "column_1", "column_2", "k", "line">>

Tab == "tab"

MCFiles ==
  [t |-> [sep |-> Comma, titles |-> <<"b", "a", "k">>,
          rows |-> << <<1, 2, 1>>, <<2, 1, 1>>, <<Null, 1, 2>>, <<1, 1, 2>> >>],
   c |-> [sep |-> Comma, titles |-> <<"b", "a">>, rows |-> << <<1, 2>>, <<2, 1>>, <<1, 1>> >>],
   u |-> [sep |-> Comma, titles |-> <<>>, rows |-> << <<1, 2>>, <<2, 1>> >>],
   w |-> [sep |-> Tab, titles |-> <<"b", "a">>, rows |-> << <<1, 2>>, <<2, 1>> >>],
   p |-> [sep |-> Comma, titles |-> <<"b", "a">>, rows |-> << <<1, 2>>, <<2, 1>> >>]]

Declared == <<Field("b", "Int64"), Field("a", "Int64"), Field("k", "Int32")>>

MCSources ==
  [t |-> [CsvSource("t", TRUE, Comma) EXCEPT !.schema = Declared],
   c |-> CsvSource("c", TRUE, Comma),
   u |-> CsvSource("u", FALSE, Comma),
   w |-> CsvSource("w", TRUE, Tab),
   p |-> ParquetSource("p"),
   m |-> [CsvSource("c", TRUE, Comma) EXCEPT !.format = "memory"]]

a == Identifier("a")
b == Identifier("b")
k == Identifier("k")
x == Identifier("x")
s == Identifier("s")

Item(e)      == [expr |-> e, as |-> None]
ItemAs(e, n) == [expr |-> e, as |-> n]

CountAll == Function("COUNT", <<Star>>, FALSE)
SumB     == Function("SUM", <<b>>, FALSE)
MaxCast  == Function("MAX", <<CastTo(b, "Int64")>>, FALSE)

PlainItems ==
  { <<Item(Star)>>, <<Item(b)>>, <<Item(b), Item(a)>>, <<Item(Compound("t", "a")), Item(k)>>,
    <<ItemAs(a, "x")>>, <<ItemAs(a, "x"), Item(b)>>, <<ItemAs(a, "b"), Item(k)>>,
    <<ItemAs(BinaryOp(a, "add", b), "x"), Item(b)>>,
    <<Item(BinaryOp(a, "add", Number(1))), Item(BinaryOp(b, "add", Number(1)))>>,
    <<Item(CastTo(a, "Int32")), ItemAs(Nested(BinaryOp(k, "add", k)), "x")>> }

AggregateItems ==
  { <<Item(SumB)>>, <<Item(CountAll)>>, <<Item(k), Item(SumB)>>, <<ItemAs(SumB, "s"), Item(k)>>,
    <<Item(a), Item(k), Item(CountAll), ItemAs(SumB, "s")>>, <<Item(a), Item(MaxCast)>>,
    <<ItemAs(k, "x"), Item(SumB)>>, <<Item(Function("COUNT", <<b>>, TRUE))>>,
    <<Item(Function("SUM", <<Star>>, FALSE))>>, <<Item(Function("COUNT", <<>>, FALSE))>> }

WhereA   == BinaryOp(a, "eq", Number(1))
WhereX   == BinaryOp(x, "lt", Number(2))
WhereOne == BinaryOp(Number(1), "eq", Number(1))

Wheres ==
  { None, WhereA, WhereX, WhereOne, BinaryOp(k, "eq", Number(1)), BinaryOp(CastTo(b, "Int64"), "eq", Number(1)),
    BinaryOp(BinaryOp(b, "lt", Number(2)), "and", BinaryOp(Minus(Number(1)), "lt", a)) }

Query(from, items, where, group, having, limit) ==
  [from |-> from, items |-> items, where |-> where, group |-> group, having |-> having,
   limit |-> limit, other |-> FALSE]

Groups  == {<<>>, <<k>>, <<a, k>>, <<k, a>>}
Havings == {None, BinaryOp(s, "lt", Number(3)), BinaryOp(SumB, "lt", Number(3))}

Scans(from, wheres)   == {Query(from, is, w, <<>>, None, None) : is \in PlainItems, w \in wheres}
Rollups(from, wheres) ==
  {Query(from, is, w, g, h, None) : is \in AggregateItems, w \in wheres, g \in Groups, h \in Havings}
Limited(from) ==
  {Query(from, is, w, <<>>, None, Number(n)) : is \in PlainItems, w \in {None, WhereA}, n \in {0, 1}}
    \cup {Query(from, is, None, <<k>>, None, Number(1)) : is \in AggregateItems}

Odd ==
  { [Query("t", <<Item(a)>>, None, <<>>, None, None) EXCEPT !.other = TRUE],
    Query("t", <<Item(Minus(a))>>, None, <<>>, None, None),
    Query("t", <<Item(Minus(Nested(Number(1)))), Item(a)>>, None, <<>>, None, None),
    Query("t", <<Item(a)>>, None, <<a>>, None, None),
    Query("t", <<Item(a)>>, None, <<>>, BinaryOp(a, "lt", Number(2)), None),
    Query("t", <<Item(a)>>, None, <<>>, None, Minus(Number(1))),
    Query("nowhere", <<Item(a)>>, None, <<>>, None, None) }

Second == Identifier("column_2")

\* Queries over the files that are there for the server.
Shipped ==
  Scans("c", {None, WhereA}) \cup Scans("w", {None})
    \cup {Query("c", is, w, g, None, None) : is \in AggregateItems, w \in {None, WhereA}, g \in {<<>>, <<k>>}}
    \cup {Query("u", is, w, <<>>, None, None) :
             is \in {<<Item(Star)>>, <<Item(Second)>>, <<Item(CountAll)>>},
             w \in {None, BinaryOp(Second, "lt", Number(2))}}
    \cup {Query("m", <<Item(a)>>, None, <<>>, None, None)}

MCQueries ==
  Scans("t", Wheres) \cup Rollups("t", {None, WhereA, WhereOne}) \cup Limited("t")
    \cup Scans("v", {None, WhereA, WhereX}) \cup Rollups("v", {None, WhereX})
    \cup Scans("p", {None, WhereA}) \cup Odd \cup Shipped

MCViews == {"v"}

MCExtensions ==
  { Projection(<<Column("b"), Alias(Column("a"), "x")>>), Projection(<<ColumnIndex(1)>>),
    Filter(BinaryExpr(Column("a"), "eq", Literal(1))),
    Aggregate(<<Column("a")>>, <<AggregateFunction("COUNT", Column("b"), FALSE)>>),
    Aggregate(<<>>, <<AggregateFunction("COUNT", Column("b"), TRUE)>>),
    Aggregate(<<>>, <<AggregateFunction("SUM", Column("b"), TRUE)>>),
    Limit(1), Limit(-1) }
=============================================================================
