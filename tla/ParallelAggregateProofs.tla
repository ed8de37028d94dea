----------------------- MODULE ParallelAggregateProofs -----------------------
(***************************************************************************)
(* However the batches are cut, dealt and interleaved: several workers     *)
(* answer what one worker answers, nothing is merged before every worker   *)
(* has succeeded, and an error or a panic has its cause.                   *)
(*                                                                         *)
(* Rows are known by their places in the input.  A map of groups           *)
(* represents a set of places: its keys are the keys of the rows there,    *)
(* and each accumulator holds the aggregate of the places of its group.    *)
(* Every row that is fed adds the places it stands for, one for a row of   *)
(* the input and all places of a group for a row of a partial result.      *)
(***************************************************************************)
EXTENDS ParallelAggregate, FoldProofs, FiniteSetTheorems

(***************************************************************************)
(* The inductive invariant.                                                *)
(***************************************************************************)
Cells   == Int32 \cup {Null}
InRows  == [1..Columns -> Cells]
Asked   == [group : Seq(1..Columns), aggs : Seq([func : AggregateFunctionKind, arg : 1..Columns])]
Counts  == {"COUNT", "AVG"}

Accs    == [value : Cells, sum : Int, count : Int32]
Keys(q) == [DOMAIN q.group -> Cells]
Maps(q) == UNION {[D -> [DOMAIN q.aggs -> Accs]] : D \in SUBSET Keys(q)}

\* What an accumulator has of the values at some places.
Holds(mode, f, acc, rows, is, name) ==
  /\ f \notin Counts => acc.value = Aggregated(f, rows, is, name)
  /\ f = "COUNT" => acc.count = Wrap(Cardinality(is))
  /\ f = "AVG" /\ mode # "Final" => acc.count = Wrap(Cardinality(is)) /\ acc.sum = Total(rows, is, name)
  /\ f = "AVG" /\ mode = "Final" => acc.count = 0 /\ Wrap(Cardinality(is)) = 0

KeysAt(q, rows, S) == {NamedKey(q, rows[i]) : i \in S}

Represents(mode, q, m, rows, S) ==
  /\ DOMAIN m = KeysAt(q, rows, S)
  /\ \A key \in DOMAIN m : \A k \in DOMAIN q.aggs :
       Holds(mode, q.aggs[k].func, m[key][k], rows, S \cap Places(q, k, rows, key), q.aggs[k].arg)

\* No counter of these places has overflowed.
Fits(q, rows, S) ==
  \A key \in KeysAt(q, rows, S) : \A k \in DOMAIN q.aggs :
    q.aggs[k].func \in Counts => Cardinality(S \cap Places(q, k, rows, key)) \in Int32

\* The places before the end of batch b, and those of the batch.
Before(bs, b)  == Len(FlattenSeq(SubSeq(bs, 1, b)))
Segment(bs, b) == (Before(bs, b - 1) + 1)..Before(bs, b)

\* The batch of the source that worker w gets as its i-th.
BatchOf(w, i) == w + 1 + (i - 1) * parallelism

\* The places of the first j batches of worker w, and of all of them.
Read(w, j) == UNION {Segment(source, BatchOf(w, i)) : i \in 1..j}
Mine(w)    == Read(w, Len(Dealt(w)))

\* The row that a group becomes.
RowOf(q, m, key) == key \o [k \in DOMAIN q.aggs |-> PartialValue(q.aggs[k].func, m[key][k])]

\* The places of the groups that the final aggregate has merged.
Merged ==
  UNION {{i \in Mine(w) : RowOf(query, partial[w], NamedKey(query, Rows[i])) \notin output[w]} :
           w \in 0..(parallelism - 1)}

Several == parallelism > 1

TypeInv ==
  /\ build \in {"checked", "wrapping"} /\ parallelism \in Parallelisms
  /\ query \in Queries /\ source \in Sources
  /\ phase \in {"start", "single", "partial", "final"} \cup Ended
  /\ worker \in [Workers -> {"none", "waiting", "running", "done", "failed", "panicked"}]
  /\ bucket \in [Workers -> Seq(Seq(InRows))]
  /\ partial \in [Workers -> Maps(query)]
  /\ output \in [Workers -> SUBSET Seq(Cells)]
  /\ map \in Maps(query)
  /\ errors \in 0..MaxErrors

StartInv == phase = "start" =>
  /\ worker = [w \in Workers |-> "none"]
  /\ partial = [w \in Workers |-> NoGroups]
  /\ output = [w \in Workers |-> {}]
  /\ map = NoGroups /\ answer = {}

SingleInv == ~Several /\ phase \in {"single", "done"} =>
  /\ \A w \in Workers : worker[w] = "none"
  /\ IsRest(bucket[0], source)
  /\ Represents("Single", query, map, Rows, 1..Before(source, Gone(source, bucket[0])))
  /\ Checked => Fits(query, Rows, 1..Before(source, Gone(source, bucket[0])))

\* A worker among those of the context.
WorkInv(w) ==
  LET n == Gone(Dealt(w), bucket[w]) IN
    /\ IsRest(bucket[w], Dealt(w))
    /\ Represents("Partial", query, partial[w], FlattenSeq(Dealt(w)), 1..Before(Dealt(w), n))
    /\ Represents("Partial", query, partial[w], Rows, Read(w, n))
    /\ Checked => Fits(query, Rows, Read(w, n))

StatusInv(w) ==
  /\ worker[w] = "none" <=> ~(w < parallelism /\ Dealt(w) # <<>>)
  /\ worker[w] = "none" => partial[w] = NoGroups
  /\ worker[w] = "done" => bucket[w] = <<>> /\ MapHasPartials(query, partial[w])
  /\ worker[w] = "failed" => errors > 0 \/ Averages
  /\ worker[w] = "panicked" => Checked /\ CountOverflows
  /\ output[w] \subseteq (IF worker[w] = "done" THEN PartialRows(query, partial[w]) ELSE {})

WorkerInv == Several /\ phase \in {"partial", "final", "done"} =>
  /\ \A w \in Workers : StatusInv(w)
  /\ \A w \in 0..(parallelism - 1) : WorkInv(w)

PartialInv == phase = "partial" =>
  /\ \A w \in Workers : worker[w] = "done" => output[w] = PartialRows(query, partial[w])
  /\ map = NoGroups /\ answer = {}

MergeInv == Several /\ phase \in {"final", "done"} =>
  /\ \A w \in Workers : worker[w] \in {"none", "done"}
  /\ Aligned(query) => /\ Represents("Final", query, map, Rows, Merged)
                       /\ Checked => Fits(query, Rows, Merged)

PhaseInv ==
  /\ phase = "single" => ~Several
  /\ phase \in {"partial", "final"} => Several
  /\ phase = "done" => /\ answer = FinalRows(query, map)
                       /\ Several => \A w \in Workers : output[w] = {}
                       /\ ~Several => bucket[0] = <<>>
  /\ phase = "failed" /\ (Several => Aligned(query)) => errors > 0 \/ (Several /\ Averages)
  /\ phase = "panicked" /\ (Several => Aligned(query)) => Checked /\ CountOverflows

Inv == TypeInv /\ StartInv /\ SingleInv /\ WorkerInv /\ PartialInv /\ MergeInv /\ PhaseInv
-----------------------------------------------------------------------------
(***************************************************************************)
(* Integers of a width.                                                    *)
(***************************************************************************)
LEMMA HalfPositive == Half \in Nat \ {0}
BY WidthAssumption DEF Half

LEMMA WrapFacts ==
  ASSUME NEW n \in Int
  PROVE  /\ Wrap(n) \in Int32
         /\ n \in Int32 => Wrap(n) = n
<1>1. Half \in Nat \ {0}
  BY HalfPositive
<1> DEFINE h == Half
           m == 2 * h
<1>2. m \in Nat \ {0} /\ n + h \in Int
  BY <1>1
<1>3. (n + h) % m \in 0..(m - 1)
  BY <1>2
<1>4. n \in Int32 => n + h \in 0..(m - 1)
  BY <1>1 DEF Int32
<1>5. n + h \in 0..(m - 1) => (n + h) % m = n + h
  BY <1>2
<1>6. Wrap(n) = ((n + h) % m) - h /\ Int32 = -h..(h - 1)
  BY DEF Wrap, Int32
<1> HIDE DEF h
<1>7. QED
  BY <1>1, <1>2, <1>3, <1>4, <1>5, <1>6 DEF h

\* A multiple of m more is the same modulo m.
LEMMA ModShift ==
  ASSUME NEW a \in Int, NEW m \in Nat \ {0}, NEW q \in Int
  PROVE  (a + m * q) % m = a % m
<1>1. a = m * (a \div m) + (a % m) /\ a % m \in 0..(m - 1) /\ a \div m \in Int
  OBVIOUS
<1> DEFINE r == a % m
           d == a \div m
<1>2. r \in 0..(m - 1) /\ d \in Int /\ a + m * q = m * (d + q) + r
  BY <1>1
<1> HIDE DEF r, d
<1>3. (m * (d + q) + r) % m = r
  BY <1>2
<1>4. QED
  BY <1>2, <1>3 DEF r

LEMMA WrapAgain ==
  ASSUME NEW a \in Int, NEW b \in Int
  PROVE  Wrap(Wrap(a) + b) = Wrap(a + b)
<1> DEFINE h == Half
           m == 2 * h
           d == (a + h) \div m
<1>1. h \in Nat \ {0} /\ m \in Nat \ {0} /\ d \in Int
  BY HalfPositive
<1>2. a + h = m * d + ((a + h) % m) /\ (a + h) % m \in Int
  BY <1>1
<1>3. Wrap(a) = ((a + h) % m) - h /\ Wrap(a + b) = ((a + b + h) % m) - h
      /\ Wrap(Wrap(a) + b) = ((Wrap(a) + b + h) % m) - h
  BY DEF Wrap
<1> HIDE DEF h, d
<1>4. Wrap(a) + b + h = (a + b + h) + m * (-d) /\ -d \in Int /\ a + b + h \in Int
  BY <1>1, <1>2, <1>3
<1> HIDE DEF m
<1>5. ((a + b + h) + m * (-d)) % m = (a + b + h) % m
  BY <1>1, <1>4, ModShift
<1>6. QED
  BY <1>3, <1>4, <1>5

LEMMA WrapSum ==
  ASSUME NEW a \in Int, NEW b \in Int
  PROVE  Wrap(Wrap(a) + Wrap(b)) = Wrap(a + b)
<1>1. Wrap(b) \in Int /\ Wrap(a) \in Int
  BY WrapFacts, HalfPositive DEF Int32
<1>2. Wrap(Wrap(a) + Wrap(b)) = Wrap(a + Wrap(b))
  BY <1>1, WrapAgain
<1>3. a + Wrap(b) = Wrap(b) + a /\ b + a = a + b
  BY <1>1
<1>4. QED
  BY <1>2, <1>3, WrapAgain

LEMMA WrapNext ==
  ASSUME NEW a \in Int
  PROVE  Wrap(Wrap(a) + 1) = Wrap(a + 1) /\ Wrap(a + 1) \in Int32
<1>1. PICK b \in Int : b = 1
  OBVIOUS
<1>2. Wrap(Wrap(a) + b) = Wrap(a + b)
  BY WrapAgain
<1>3. a + 1 \in Int
  OBVIOUS
<1>4. Wrap(a + 1) \in Int32
  BY <1>3, WrapFacts
<1>5. QED
  BY <1>1, <1>2, <1>4

\* The smallest and the largest of some integers of a width.
LEMMA LeastCell ==
  ASSUME NEW V, V \subseteq Int32, V # {}
  PROVE  /\ \E v \in V : \A w \in V : v <= w
         /\ \E v \in V : \A w \in V : v >= w
<1>1. Half \in Nat \ {0} /\ \A v \in V : v \in Int /\ v + Half \in Nat /\ Half - v \in Nat
  BY HalfPositive DEF Int32
<1> DEFINE T == {v + Half : v \in V}
           U == {Half - v : v \in V}
<1>2. T \subseteq Nat /\ T # {} /\ U \subseteq Nat /\ U # {}
  BY <1>1
<1>3. PICK t \in T : \A x \in T : t <= x
  BY <1>2, LeastElement
<1>4. PICK u \in U : \A x \in U : u <= x
  BY <1>2, LeastElement
<1>5. PICK v \in V : t = v + Half
  BY <1>3
<1>6. PICK x \in V : u = Half - x
  BY <1>4
<1>7. \A w \in V : v + Half <= w + Half /\ Half - x <= Half - w
  BY <1>3, <1>4, <1>5, <1>6
<1>8. \A w \in V : v <= w /\ x >= w
  BY <1>1, <1>7
<1>9. QED
  BY <1>8
-----------------------------------------------------------------------------
(***************************************************************************)
(* Sums over places.                                                       *)
(***************************************************************************)
\* What each place of is adds to a sum.
Adds(rows, is, name, i) == IF i \in is THEN rows[i][name] ELSE 0

Numbers(rows, is, name) == is \subseteq DOMAIN rows /\ \A i \in is : rows[i][name] \in Int

Sums(acc, rows, is, name) ==
  acc[0] = 0 /\ \A i \in 1..Len(rows) : acc[i] = acc[i - 1] + Adds(rows, is, name, i)

LEMMA TotalPasses ==
  ASSUME NEW R, NEW rows \in Seq(R), NEW is, NEW name, Numbers(rows, is, name)
  PROVE  \E acc \in [0..Len(rows) -> Int] : Sums(acc, rows, is, name) /\ Total(rows, is, name) = acc[Len(rows)]
<1> DEFINE n == Len(rows)
           step == [p \in (1..n) \X Int |-> p[2] + Adds(rows, is, name, p[1])]
           eq(f) == [i \in 0..n |-> IF i = 0 THEN 0 ELSE f[i - 1] + (IF i \in is THEN rows[i][name] ELSE 0)]
           upTo == CHOOSE f : f = eq(f)
<1>1. n \in Nat /\ 0 \in Int /\ n = Len(rows)
  OBVIOUS
<1>2. \A i \in 1..n : Adds(rows, is, name, i) \in Int
  BY DEF Adds, Numbers
<1>3. Total(rows, is, name) = upTo[n]
  BY DEF Total
<1> HIDE DEF n
<1>4. step \in [(1..n) \X Int -> Int]
  BY <1>2
<1>5. \A i \in 1..n, x \in Int : step[<<i, x>>] = x + Adds(rows, is, name, i)
  OBVIOUS
<1> HIDE DEF step
<1>6. PICK acc \in [0..n -> Int] : Passes(acc, n, 0, step)
  BY <1>1, <1>4, PassesExists
<1>7. acc[0] = 0 /\ \A i \in 1..n : acc[i] = acc[i - 1] + Adds(rows, is, name, i)
  <2>1. \A i \in 1..n : i - 1 \in 0..n
    BY <1>1
  <2>2. QED
    BY <1>5, <1>6, <2>1 DEF Passes
<1>8. acc = eq(acc)
  <2>1. ASSUME NEW i \in 0..n
        PROVE  acc[i] = IF i = 0 THEN 0 ELSE acc[i - 1] + (IF i \in is THEN rows[i][name] ELSE 0)
    <3>1. CASE i = 0
      BY <1>7, <3>1
    <3>2. CASE i # 0
      <4>1. i \in 1..n
        BY <1>1, <3>2
      <4>2. QED
        BY <1>7, <3>2, <4>1 DEF Adds
    <3>3. QED
      BY <3>1, <3>2
  <2>2. QED
    BY <2>1
<1>9. upTo = eq(upTo)
  BY <1>8
<1> HIDE DEF upTo
<1>10. upTo[0] = 0 /\ \A i \in 1..n : upTo[i] = upTo[i - 1] + Adds(rows, is, name, i)
  <2>1. \A i \in 0..n : upTo[i] = IF i = 0 THEN 0 ELSE upTo[i - 1] + (IF i \in is THEN rows[i][name] ELSE 0)
    BY <1>9
  <2>2. 0 \in 0..n /\ \A i \in 1..n : i \in 0..n /\ i # 0
    BY <1>1
  <2>3. QED
    BY <2>1, <2>2 DEF Adds
<1> DEFINE S == {i \in 0..n : upTo[i] = acc[i]}
<1>11. 0 \in S
  BY <1>1, <1>7, <1>10
<1>12. ASSUME NEW i \in 1..n, i - 1 \in S PROVE i \in S
  <2>1. upTo[i - 1] = acc[i - 1] /\ i \in 0..n
    BY <1>1, <1>12
  <2>2. QED
    BY <1>7, <1>10, <2>1
<1> HIDE DEF S
<1>13. 0..n \subseteq S
  BY <1>1, <1>11, <1>12, BoundedInduction
<1>14. n \in S
  BY <1>1, <1>13
<1>15. upTo[n] = acc[n]
  BY <1>14 DEF S
<1>16. QED
  BY <1>3, <1>6, <1>7, <1>15 DEF n, Sums

LEMMA TotalInt ==
  ASSUME NEW R, NEW rows \in Seq(R), NEW is, NEW name, Numbers(rows, is, name)
  PROVE  Total(rows, is, name) \in Int
<1>1. PICK acc \in [0..Len(rows) -> Int] : Sums(acc, rows, is, name) /\ Total(rows, is, name) = acc[Len(rows)]
  BY TotalPasses
<1>2. Len(rows) \in 0..Len(rows)
  OBVIOUS
<1>3. QED
  BY <1>1, <1>2

LEMMA TotalOfTwo ==
  ASSUME NEW R, NEW rows \in Seq(R), NEW is, NEW js, NEW name,
         Numbers(rows, is, name), Numbers(rows, js, name), is \cap js = {}
  PROVE  Total(rows, is \cup js, name) = Total(rows, is, name) + Total(rows, js, name)
<1> DEFINE n == Len(rows)
<1>1. n \in Nat /\ n = Len(rows) /\ Numbers(rows, is \cup js, name)
  BY DEF Numbers
<1>2. PICK a \in [0..n -> Int] : Sums(a, rows, is, name) /\ Total(rows, is, name) = a[n]
  BY TotalPasses
<1>3. PICK b \in [0..n -> Int] : Sums(b, rows, js, name) /\ Total(rows, js, name) = b[n]
  BY TotalPasses
<1>4. PICK c \in [0..n -> Int] : Sums(c, rows, is \cup js, name) /\ Total(rows, is \cup js, name) = c[n]
  BY <1>1, TotalPasses
<1> HIDE DEF n
<1> DEFINE S == {i \in 0..n : c[i] = a[i] + b[i]}
<1>5. 0 \in S
  BY <1>1, <1>2, <1>3, <1>4 DEF Sums
<1>6. ASSUME NEW i \in 1..n, i - 1 \in S PROVE i \in S
  <2>1. i - 1 \in 0..n /\ i \in 0..n /\ c[i - 1] = a[i - 1] + b[i - 1]
    BY <1>1, <1>6
  <2>2. a[i] = a[i - 1] + Adds(rows, is, name, i) /\ b[i] = b[i - 1] + Adds(rows, js, name, i)
        /\ c[i] = c[i - 1] + Adds(rows, is \cup js, name, i)
    BY <1>1, <1>2, <1>3, <1>4 DEF Sums
  <2>3. Adds(rows, is \cup js, name, i) = Adds(rows, is, name, i) + Adds(rows, js, name, i)
        /\ Adds(rows, is, name, i) \in Int /\ Adds(rows, js, name, i) \in Int
    BY DEF Adds, Numbers
  <2>4. a[i - 1] \in Int /\ b[i - 1] \in Int
    BY <2>1
  <2>5. c[i] = a[i] + b[i]
    BY <2>1, <2>2, <2>3, <2>4
  <2>6. QED
    BY <2>1, <2>5
<1> HIDE DEF S
<1>7. 0..n \subseteq S
  BY <1>1, <1>5, <1>6, BoundedInduction
<1>8. n \in S
  BY <1>1, <1>7
<1>9. QED
  BY <1>2, <1>3, <1>4, <1>8 DEF S

LEMMA TotalOfNone ==
  ASSUME NEW R, NEW rows \in Seq(R), NEW name
  PROVE  Total(rows, {}, name) = 0
<1>1. Numbers(rows, {}, name)
  BY DEF Numbers
<1>2. Total(rows, {} \cup {}, name) = Total(rows, {}, name) + Total(rows, {}, name)
  BY <1>1, TotalOfTwo
<1>3. Total(rows, {}, name) \in Int /\ {} \cup {} = {}
  BY <1>1, TotalInt
<1>4. QED
  BY <1>2, <1>3

LEMMA TotalOfOne ==
  ASSUME NEW R, NEW rows \in Seq(R), NEW i \in DOMAIN rows, NEW name, rows[i][name] \in Int
  PROVE  Total(rows, {i}, name) = rows[i][name]
<1> DEFINE n == Len(rows)
           x == rows[i][name]
<1>1. Numbers(rows, {i}, name)
  BY DEF Numbers
<1>2. PICK acc \in [0..n -> Int] : Sums(acc, rows, {i}, name) /\ Total(rows, {i}, name) = acc[n]
  BY <1>1, TotalPasses
<1>3. n \in Nat /\ n = Len(rows) /\ i \in 1..n /\ x \in Int
  OBVIOUS
<1>4. acc[0] = 0 /\ \A j \in 1..n : acc[j] = acc[j - 1] + (IF j = i THEN x ELSE 0)
  <2>1. ASSUME NEW j \in 1..n PROVE Adds(rows, {i}, name, j) = IF j = i THEN x ELSE 0
    BY DEF Adds
  <2>2. QED
    BY <1>2, <1>3, <2>1 DEF Sums
<1> HIDE DEF n, x
<1> DEFINE S == {j \in 0..n : acc[j] = IF j < i THEN 0 ELSE x}
<1>5. 0 \in S
  BY <1>3, <1>4
<1>6. ASSUME NEW j \in 1..n, j - 1 \in S PROVE j \in S
  <2>1. acc[j - 1] = (IF j - 1 < i THEN 0 ELSE x) /\ j \in 0..n
    BY <1>3, <1>6
  <2>2. acc[j] = acc[j - 1] + (IF j = i THEN x ELSE 0)
    BY <1>4
  <2>3. acc[j] = IF j < i THEN 0 ELSE x
    BY <1>3, <2>1, <2>2
  <2>4. QED
    BY <2>1, <2>3
<1> HIDE DEF S
<1>7. 0..n \subseteq S
  BY <1>3, <1>5, <1>6, BoundedInduction
<1>8. n \in S
  BY <1>3, <1>7
<1>9. QED
  BY <1>2, <1>3, <1>8 DEF S, x
-----------------------------------------------------------------------------
(***************************************************************************)
(* Aggregates of places.                                                   *)
(***************************************************************************)
LEMMA PlacesCount ==
  ASSUME NEW R, NEW rows \in Seq(R), NEW is, is \subseteq DOMAIN rows
  PROVE  IsFiniteSet(is) /\ Cardinality(is) \in Nat
<1>1. DOMAIN rows = 1..Len(rows) /\ Len(rows) \in Int /\ 1 \in Int
  OBVIOUS
<1>2. IsFiniteSet(DOMAIN rows)
  BY <1>1, FS_Interval
<1>3. IsFiniteSet(is)
  BY <1>2, FS_Subset
<1>4. QED
  BY <1>3, FS_CardinalityType

LEMMA PlacesCountOfTwo ==
  ASSUME NEW R, NEW rows \in Seq(R), NEW is, is \subseteq DOMAIN rows,
         NEW js, js \subseteq DOMAIN rows, is \cap js = {}
  PROVE  Cardinality(is \cup js) = Cardinality(is) + Cardinality(js)
<1>1. IsFiniteSet(is) /\ IsFiniteSet(js) /\ Cardinality(is) \in Nat /\ Cardinality(js) \in Nat
  BY PlacesCount
<1>2. Cardinality(is \cup js) = Cardinality(is) + Cardinality(js) - Cardinality(is \cap js)
  BY <1>1, FS_Union
<1>3. Cardinality(is \cap js) = 0
  BY FS_EmptySet
<1>4. QED
  BY <1>1, <1>2, <1>3

LEMMA PlacesCountOfPart ==
  ASSUME NEW R, NEW rows \in Seq(R), NEW is, is \subseteq DOMAIN rows, NEW js, js \subseteq is
  PROVE  Cardinality(js) <= Cardinality(is)
<1>1. IsFiniteSet(is)
  BY PlacesCount
<1>2. QED
  BY <1>1, FS_Subset

CellsAt(rows, is, name) == is \subseteq DOMAIN rows /\ \A i \in is : rows[i][name] \in Int32

LEMMA CellsAreNumbers ==
  ASSUME NEW rows, NEW is, NEW name, CellsAt(rows, is, name)
  PROVE  Numbers(rows, is, name) /\ Null \notin Int32
BY HalfPositive, NullAssumption DEF CellsAt, Numbers, Int32

\* x is the least, or the greatest, of the values at some places.
Least(x, rows, is, name) ==
  (\E i \in is : x = rows[i][name]) /\ \A i \in is : x <= rows[i][name]

Greatest(x, rows, is, name) ==
  (\E i \in is : x = rows[i][name]) /\ \A i \in is : x >= rows[i][name]

LEMMA LeastOfTwo ==
  ASSUME NEW rows, NEW is, NEW js, NEW name, CellsAt(rows, is, name), CellsAt(rows, js, name),
         NEW a, Least(a, rows, is, name), NEW b, Least(b, rows, js, name),
         NEW c, Least(c, rows, is \cup js, name)
  PROVE  c = IF b < a THEN b ELSE a
<1>1. \A i \in is \cup js : rows[i][name] \in Int
  BY HalfPositive DEF CellsAt, Int32
<1>2. PICK i \in is : a = rows[i][name]
  BY DEF Least
<1>3. PICK j \in js : b = rows[j][name]
  BY DEF Least
<1>4. PICK k \in is \cup js : c = rows[k][name]
  BY DEF Least
<1>5. a \in Int /\ b \in Int /\ c \in Int
  BY <1>1, <1>2, <1>3, <1>4
<1>6. c <= a /\ c <= b /\ (a <= c \/ b <= c)
  BY <1>2, <1>3, <1>4 DEF Least
<1>7. QED
  BY <1>5, <1>6

LEMMA GreatestOfTwo ==
  ASSUME NEW rows, NEW is, NEW js, NEW name, CellsAt(rows, is, name), CellsAt(rows, js, name),
         NEW a, Greatest(a, rows, is, name), NEW b, Greatest(b, rows, js, name),
         NEW c, Greatest(c, rows, is \cup js, name)
  PROVE  c = IF b > a THEN b ELSE a
<1>1. \A i \in is \cup js : rows[i][name] \in Int
  BY HalfPositive DEF CellsAt, Int32
<1>2. PICK i \in is : a = rows[i][name]
  BY DEF Greatest
<1>3. PICK j \in js : b = rows[j][name]
  BY DEF Greatest
<1>4. PICK k \in is \cup js : c = rows[k][name]
  BY DEF Greatest
<1>5. a \in Int /\ b \in Int /\ c \in Int
  BY <1>1, <1>2, <1>3, <1>4
<1>6. c >= a /\ c >= b /\ (a >= c \/ b >= c)
  BY <1>2, <1>3, <1>4 DEF Greatest
<1>7. QED
  BY <1>5, <1>6

LEMMA AggregatedValue ==
  ASSUME NEW R, NEW rows \in Seq(R), NEW is, NEW name, CellsAt(rows, is, name),
         NEW f \in AggregateFunctionKind \ Counts
  PROVE  /\ is = {} => Aggregated(f, rows, is, name) = Null
         /\ is # {} => Aggregated(f, rows, is, name) \in Int32
         /\ is # {} /\ f = "SUM" => Aggregated(f, rows, is, name) = Wrap(Total(rows, is, name))
         /\ is # {} /\ f = "MIN" => Least(Aggregated(f, rows, is, name), rows, is, name)
         /\ is # {} /\ f = "MAX" => Greatest(Aggregated(f, rows, is, name), rows, is, name)
<1> DEFINE values == {rows[i][name] : i \in is}
           a == Aggregated(f, rows, is, name)
<1>1. f \in {"SUM", "MIN", "MAX"}
  BY DEF AggregateFunctionKind, Counts
<1>2. is = {} => a = Null
  BY <1>1 DEF Aggregated
<1>3. is # {} /\ f = "SUM" => a = Wrap(Total(rows, is, name))
  BY DEF Aggregated
<1>4. is # {} /\ f = "MIN" => a = CHOOSE v \in values : \A w \in values : v <= w
  BY DEF Aggregated
<1>5. is # {} /\ f = "MAX" => a = CHOOSE v \in values : \A w \in values : v >= w
  BY DEF Aggregated
<1>6. values \subseteq Int32 /\ (is # {} => values # {})
  BY DEF CellsAt
<1>7. Total(rows, is, name) \in Int
  BY CellsAreNumbers, TotalInt
<1> HIDE DEF a, values
<1>8. is # {} /\ f = "SUM" => a \in Int32
  BY <1>3, <1>7, WrapFacts
<1>9. is # {} /\ f = "MIN" => a \in values /\ \A w \in values : a <= w
  BY <1>4, <1>6, LeastCell
<1>10. is # {} /\ f = "MAX" => a \in values /\ \A w \in values : a >= w
  BY <1>5, <1>6, LeastCell
<1>11. is # {} => a \in Int32
  BY <1>1, <1>6, <1>8, <1>9, <1>10
<1>12. (a \in values => \E i \in is : a = rows[i][name]) /\ \A i \in is : rows[i][name] \in values
  BY DEF values
<1>13. QED
  BY <1>2, <1>3, <1>9, <1>10, <1>11, <1>12 DEF a, Least, Greatest

\* SUM, MIN and MAX accumulate a value and merge a partial one alike.
LEMMA AggregatedOfTwo ==
  ASSUME NEW R, NEW rows \in Seq(R), NEW is, NEW js, NEW name,
         CellsAt(rows, is, name), CellsAt(rows, js, name), is \cap js = {},
         NEW f \in AggregateFunctionKind \ Counts, NEW acc \in Accs,
         acc.value = Aggregated(f, rows, is, name)
  PROVE  LET new == Accumulate(f, acc, Aggregated(f, rows, js, name)) IN
           new \in Accs /\ new.value = Aggregated(f, rows, is \cup js, name)
<1> DEFINE a == Aggregated(f, rows, is, name)
           b == Aggregated(f, rows, js, name)
           c == Aggregated(f, rows, is \cup js, name)
           new == Accumulate(f, acc, b)
<1>1. CellsAt(rows, is \cup js, name)
  BY DEF CellsAt
<1>2. Null \notin Int32 /\ \A x \in Int32 : x \in Int
  BY CellsAreNumbers, HalfPositive DEF Int32
<1>3. f \in {"SUM", "MIN", "MAX"}
  BY DEF AggregateFunctionKind, Counts
<1>4. CASE js = {}
  <2>1. b = Null /\ is \cup js = is
    BY <1>4, AggregatedValue
  <2>2. new = acc
    BY <2>1 DEF Accumulate
  <2>3. QED
    BY <2>1, <2>2
<1>5. CASE js # {}
  <2> DEFINE both == is \cup js
  <2>0. CellsAt(rows, both, name) /\ both # {} /\ c = Aggregated(f, rows, both, name)
    BY <1>1, <1>5
  <2> HIDE DEF both
  <2>1. b \in Int32 /\ b # Null /\ is \cup js # {} /\ c \in Int32
    BY <1>1, <1>2, <1>5, AggregatedValue
  <2>2. acc.value \in Cells /\ acc.value = a
    BY DEF Accs
  <2>3. new \in Accs /\ new.value = c
    <3>1. CASE f = "SUM"
      <4> DEFINE t == Total(rows, is, name)
                 u == Total(rows, js, name)
      <4>1. t \in Int /\ u \in Int /\ Total(rows, is \cup js, name) = t + u
        BY CellsAreNumbers, TotalInt, TotalOfTwo
      <4>2. b = Wrap(u) /\ c = Wrap(t + u)
        BY <1>1, <1>5, <2>1, <3>1, <4>1, AggregatedValue
      <4>3. new = [acc EXCEPT !.value = IF @ = Null THEN b ELSE Wrap(@ + b)]
        BY <2>1, <3>1 DEF Accumulate
      <4>4. CASE is = {}
        <5>1. a = Null /\ t = 0
          BY <4>4, AggregatedValue, TotalOfNone
        <5>2. new.value = b /\ new \in Accs
          BY <2>1, <2>2, <4>3, <5>1 DEF Accs, Cells
        <5>3. QED
          BY <4>1, <4>2, <5>1, <5>2
      <4>5. CASE is # {}
        <5>1. a = Wrap(t) /\ a \in Int32 /\ a # Null
          BY <1>2, <3>1, <4>5, AggregatedValue
        <5>2. Wrap(a + b) = Wrap(t + u) /\ Wrap(t + u) \in Int32
          BY <4>1, <4>2, <5>1, WrapSum, WrapFacts
        <5>3. new.value = Wrap(a + b) /\ new \in Accs
          BY <2>2, <4>3, <5>1, <5>2 DEF Accs, Cells
        <5>4. QED
          BY <4>2, <5>2, <5>3
      <4>6. QED
        BY <4>4, <4>5
    <3>2. CASE f = "MIN"
      <4>1. new = [acc EXCEPT !.value = IF @ = Null \/ b < @ THEN b ELSE @]
        BY <2>1, <3>2 DEF Accumulate
      <4>2. Least(c, rows, both, name) /\ Least(b, rows, js, name)
        BY <1>5, <2>0, <3>2, AggregatedValue
      <4>3. new \in Accs /\ new.value = IF a = Null \/ b < a THEN b ELSE a
        BY <2>1, <2>2, <4>1 DEF Accs, Cells
      <4>4. CASE is = {}
        <5>1. a = Null /\ both = js
          BY <4>4, AggregatedValue DEF both
        <5>2. c = b
          BY <2>0, <5>1
        <5>3. QED
          BY <4>3, <5>1, <5>2
      <4>5. CASE is # {}
        <5>1. Least(a, rows, is, name) /\ a # Null
          BY <1>2, <3>2, <4>5, AggregatedValue
        <5>2. Least(c, rows, is \cup js, name)
          BY <4>2 DEF both
        <5>3. c = IF b < a THEN b ELSE a
          BY <4>2, <5>1, <5>2, LeastOfTwo
        <5>4. QED
          BY <4>3, <5>1, <5>3
      <4>6. QED
        BY <4>4, <4>5
    <3>3. CASE f = "MAX"
      <4>1. new = [acc EXCEPT !.value = IF @ = Null \/ b > @ THEN b ELSE @]
        BY <2>1, <3>3 DEF Accumulate
      <4>2. Greatest(c, rows, both, name) /\ Greatest(b, rows, js, name)
        BY <1>5, <2>0, <3>3, AggregatedValue
      <4>3. new \in Accs /\ new.value = IF a = Null \/ b > a THEN b ELSE a
        BY <2>1, <2>2, <4>1 DEF Accs, Cells
      <4>4. CASE is = {}
        <5>1. a = Null /\ both = js
          BY <4>4, AggregatedValue DEF both
        <5>2. c = b
          BY <2>0, <5>1
        <5>3. QED
          BY <4>3, <5>1, <5>2
      <4>5. CASE is # {}
        <5>1. Greatest(a, rows, is, name) /\ a # Null
          BY <1>2, <3>3, <4>5, AggregatedValue
        <5>2. Greatest(c, rows, is \cup js, name)
          BY <4>2 DEF both
        <5>3. c = IF b > a THEN b ELSE a
          BY <4>2, <5>1, <5>2, GreatestOfTwo
        <5>4. QED
          BY <4>3, <5>1, <5>3
      <4>6. QED
        BY <4>4, <4>5
    <3>4. QED
      BY <1>3, <3>1, <3>2, <3>3
  <2>4. QED
    BY <2>3
<1>6. QED
  BY <1>4, <1>5

\* A value is the aggregate of its place.
LEMMA AggregatedOfOne ==
  ASSUME NEW R, NEW rows \in Seq(R), NEW i \in DOMAIN rows, NEW name, rows[i][name] \in Int32,
         NEW f \in AggregateFunctionKind \ Counts
  PROVE  CellsAt(rows, {i}, name) /\ Aggregated(f, rows, {i}, name) = rows[i][name]
<1> DEFINE x == rows[i][name]
           a == Aggregated(f, rows, {i}, name)
<1>1. CellsAt(rows, {i}, name)
  BY DEF CellsAt
<1>2. x \in Int /\ f \in {"SUM", "MIN", "MAX"}
  BY HalfPositive DEF Int32, AggregateFunctionKind, Counts
<1>3. CASE f = "SUM"
  <2>1. a = Wrap(Total(rows, {i}, name))
    BY <1>1, <1>3, AggregatedValue
  <2>2. Total(rows, {i}, name) = x
    BY <1>2, TotalOfOne
  <2>3. Wrap(x) = x
    BY <1>2, WrapFacts
  <2>4. QED
    BY <1>1, <2>1, <2>2, <2>3
<1>4. CASE f \in {"MIN", "MAX"}
  <2>1. \E j \in {i} : a = rows[j][name]
    BY <1>1, <1>4, AggregatedValue DEF Least, Greatest
  <2>2. QED
    BY <1>1, <2>1
<1>5. QED
  BY <1>2, <1>3, <1>4
-----------------------------------------------------------------------------
(***************************************************************************)
(* One accumulator and one value.                                          *)
(***************************************************************************)
\* The places a cell stands for: its own for a cell of the input, those of a
\* group for a cell of a partial result.
Brings(mode, f, v, rows, js, name) ==
  IF mode = "Final"
  THEN /\ f # "AVG" => v = Aggregated(f, rows, js, name)
       /\ f = "AVG" => v = Null /\ Wrap(Cardinality(js)) = 0
  ELSE \/ v = Null /\ js = {}
       \/ v \in Int32 /\ \E i \in DOMAIN rows : js = {i} /\ v = rows[i][name]

LEMMA FreshHolds ==
  ASSUME NEW R, NEW rows \in Seq(R), NEW mode, NEW f \in AggregateFunctionKind, NEW name
  PROVE  Fresh \in Accs /\ Holds(mode, f, Fresh, rows, {}, name)
<1>1. CellsAt(rows, {}, name)
  BY DEF CellsAt
<1>2. f \notin Counts => Aggregated(f, rows, {}, name) = Null
  BY <1>1, AggregatedValue
<1>3. Cardinality({}) = 0 /\ Total(rows, {}, name) = 0
  BY FS_EmptySet, TotalOfNone
<1>4. 0 \in Int32 /\ Wrap(0) = 0
  BY HalfPositive, WrapFacts DEF Int32
<1>5. QED
  BY <1>2, <1>3, <1>4 DEF Fresh, Accs, Cells, Holds

LEMMA FoldedHolds ==
  ASSUME NEW R, NEW rows \in Seq(R), NEW is, NEW js, NEW name,
         CellsAt(rows, is, name), CellsAt(rows, js, name), is \cap js = {},
         NEW mode, NEW f \in AggregateFunctionKind, NEW acc \in Accs, Holds(mode, f, acc, rows, is, name),
         NEW v, Brings(mode, f, v, rows, js, name)
  PROVE  /\ Folded(mode, f, acc, v) \in Accs
         /\ Holds(mode, f, Folded(mode, f, acc, v), rows, is \cup js, name)
<1> DEFINE new == Folded(mode, f, acc, v)
           c == Cardinality(is)
           d == Cardinality(js)
           t == Total(rows, is, name)
<1>1. Null \notin Int32 /\ Null \notin Int /\ 0 \in Int32 /\ \A x \in Int32 : x \in Int
  BY HalfPositive, NullAssumption DEF Int32
<1>2. c \in Nat /\ d \in Nat /\ Cardinality(is \cup js) = c + d
  BY PlacesCount, PlacesCountOfTwo DEF CellsAt
<1>3. t \in Int /\ Total(rows, is \cup js, name) = t + Total(rows, js, name)
  BY CellsAreNumbers, TotalInt, TotalOfTwo
<1>4. CASE mode # "Final" /\ v = Null /\ js = {}
  <2>1. new = acc /\ is \cup js = is
    BY <1>4 DEF Folded, Accumulate
  <2>2. QED
    BY <2>1
<1>5. CASE f \notin Counts /\ ~(mode # "Final" /\ v = Null /\ js = {})
  <2>1. new = Accumulate(f, acc, v)
    BY <1>5 DEF Folded, Merge, Counts
  <2>2. v = Aggregated(f, rows, js, name)
    <3>1. CASE mode = "Final"
      BY <1>5, <3>1 DEF Brings, Counts
    <3>2. CASE mode # "Final"
      <4>1. PICK i \in DOMAIN rows : js = {i} /\ v = rows[i][name] /\ v \in Int32
        BY <1>5, <3>2 DEF Brings
      <4>2. f \in AggregateFunctionKind \ Counts /\ rows[i][name] \in Int32
        BY <1>5, <4>1
      <4>3. Aggregated(f, rows, {i}, name) = rows[i][name]
        BY <4>2, AggregatedOfOne, ZenonT(40)
      <4>4. QED
        BY <4>1, <4>3
    <3>3. QED
      BY <3>1, <3>2
  <2>3. acc.value = Aggregated(f, rows, is, name)
    BY <1>5 DEF Holds
  <2>4. new \in Accs /\ new.value = Aggregated(f, rows, is \cup js, name)
    BY <1>5, <2>1, <2>2, <2>3, AggregatedOfTwo
  <2>5. QED
    BY <1>5, <2>4 DEF Holds, Counts
<1>6. CASE f = "COUNT" /\ ~(mode # "Final" /\ v = Null /\ js = {})
  <2>1. acc.count = Wrap(c)
    BY <1>6 DEF Holds
  <2>2. CASE mode = "Final"
    <3>1. v = Wrap(d) /\ v \in Int32
      BY <1>2, <1>6, <2>2, WrapFacts DEF Brings, Aggregated
    <3>2. new = [acc EXCEPT !.count = Wrap(@ + v)]
      BY <1>1, <1>6, <2>2, <3>1 DEF Folded, Merge
    <3>3. Wrap(Wrap(c) + Wrap(d)) = Wrap(c + d) /\ Wrap(c + d) \in Int32
      BY <1>2, WrapSum, WrapFacts
    <3>4. new \in Accs /\ new.count = Wrap(c + d)
      BY <2>1, <3>1, <3>2, <3>3 DEF Accs
    <3>5. QED
      BY <1>2, <1>6, <3>4 DEF Holds, Counts
  <2>3. CASE mode # "Final"
    <3>1. PICK i \in DOMAIN rows : js = {i} /\ v \in Int32
      BY <1>6, <2>3 DEF Brings
    <3>2. new = [acc EXCEPT !.count = Wrap(@ + 1)]
      BY <1>1, <1>6, <2>3, <3>1 DEF Folded, Accumulate
    <3>3. d = 1
      BY <3>1, FS_Singleton
    <3>4. Wrap(Wrap(c) + 1) = Wrap(c + 1) /\ Wrap(c + 1) \in Int32
      <4>1. PICK n \in Int : n = c
        BY <1>2
      <4>2. Wrap(Wrap(n) + 1) = Wrap(n + 1) /\ Wrap(n + 1) \in Int32
        BY WrapNext
      <4>3. QED
        BY <4>1, <4>2
    <3>5. new \in Accs /\ new.count = Wrap(c + 1)
      BY <2>1, <3>2, <3>4 DEF Accs
    <3>6. QED
      BY <1>2, <1>6, <3>3, <3>5 DEF Holds, Counts
  <2>4. QED
    BY <2>2, <2>3
<1>7. CASE f = "AVG" /\ ~(mode # "Final" /\ v = Null /\ js = {})
  <2>1. CASE mode = "Final"
    <3>1. new = acc
      BY <1>7, <2>1 DEF Folded, Merge
    <3>2. acc.count = 0 /\ Wrap(c) = 0 /\ Wrap(d) = 0
      BY <1>7, <2>1 DEF Holds, Brings
    <3>3. Wrap(Wrap(c) + Wrap(d)) = Wrap(c + d) /\ Wrap(0) = 0
      BY <1>1, <1>2, WrapSum, WrapFacts
    <3>4. Wrap(c + d) = 0
      BY <3>2, <3>3
    <3>5. QED
      BY <1>2, <1>7, <2>1, <3>1, <3>2, <3>4 DEF Holds, Counts
  <2>2. CASE mode # "Final"
    <3>1. PICK i \in DOMAIN rows : js = {i} /\ v = rows[i][name] /\ v \in Int32
      BY <1>7, <2>2 DEF Brings
    <3>2. new = [acc EXCEPT !.sum = @ + v, !.count = Wrap(@ + 1)]
      BY <1>1, <1>7, <2>2, <3>1 DEF Folded, Accumulate
    <3>3. d = 1 /\ v \in Int /\ Total(rows, js, name) = v
      <4>1. rows[i][name] \in Int
        BY <1>1, <3>1
      <4>2. Total(rows, {i}, name) = rows[i][name]
        BY <4>1, TotalOfOne
      <4>3. QED
        BY <3>1, <4>1, <4>2, FS_Singleton
    <3>4. acc.count = Wrap(c) /\ acc.sum = t
      BY <1>7, <2>2 DEF Holds
    <3>5. Wrap(Wrap(c) + 1) = Wrap(c + 1) /\ Wrap(c + 1) \in Int32
      <4>1. PICK n \in Int : n = c
        BY <1>2
      <4>2. Wrap(Wrap(n) + 1) = Wrap(n + 1) /\ Wrap(n + 1) \in Int32
        BY WrapNext
      <4>3. QED
        BY <4>1, <4>2
    <3>6. new \in Accs /\ new.count = Wrap(c + 1) /\ new.sum = t + v
      <4> DEFINE n == Wrap(c + 1)
                 s == t + v
      <4>1. n \in Int32 /\ s \in Int /\ n = Wrap(acc.count + 1) /\ s = acc.sum + v
        BY <1>3, <3>3, <3>4, <3>5
      <4> HIDE DEF n, s
      <4>2. new = [acc EXCEPT !.sum = s, !.count = n]
        BY <3>2, <4>1
      <4> HIDE DEF new
      <4>3. new \in Accs /\ new.count = n /\ new.sum = s
        BY <4>1, <4>2 DEF Accs
      <4>4. QED
        BY <4>3 DEF n, s
    <3>7. QED
      BY <1>2, <1>3, <1>7, <2>2, <3>3, <3>6 DEF Holds, Counts
  <2>3. QED
    BY <2>1, <2>2
<1>8. QED
  BY <1>4, <1>5, <1>6, <1>7 DEF Counts

\* Where no counter has wrapped, += overflows just where the places would
\* be too many.
LEMMA FoldedFits ==
  ASSUME NEW R, NEW rows \in Seq(R), NEW is, NEW js, NEW name,
         CellsAt(rows, is, name), CellsAt(rows, js, name), is \cap js = {},
         NEW mode, NEW f \in AggregateFunctionKind, NEW acc \in Accs, Holds(mode, f, acc, rows, is, name),
         NEW v, Brings(mode, f, v, rows, js, name),
         f \in Counts => Cardinality(is) \in Int32,
         f \in Counts /\ mode = "Final" => Cardinality(js) \in Int32
  PROVE  IF Overflows(mode, f, acc, v) THEN f \in Counts /\ Cardinality(is \cup js) \notin Int32
         ELSE f \in Counts => Cardinality(is \cup js) \in Int32
<1> DEFINE c == Cardinality(is)
           d == Cardinality(js)
<1>1. Null \notin Int32 /\ Null \notin Int /\ 0 \in Int32 /\ \A x \in Int32 : x \in Int
  BY HalfPositive, NullAssumption DEF Int32
<1>2. c \in Nat /\ d \in Nat /\ Cardinality(is \cup js) = c + d
  BY PlacesCount, PlacesCountOfTwo, ZenonT(40) DEF CellsAt
<1>3. acc.count \in Int32
  BY DEF Accs
<1>4. CASE f \notin Counts
  <2>1. Increment(mode, f, v) = 0
    BY <1>4 DEF Increment, Counts
  <2>2. QED
    BY <1>1, <1>3, <1>4, <2>1 DEF Overflows
<1>5. CASE f \in Counts /\ mode # "Final"
  <2>1. acc.count = c
    BY <1>2, <1>5, WrapFacts DEF Holds, Counts
  <2>2. Increment(mode, f, v) = d
    <3>1. CASE v = Null /\ js = {}
      BY <3>1, FS_EmptySet DEF Increment
    <3>2. CASE ~(v = Null /\ js = {})
      <4>1. PICK i \in DOMAIN rows : js = {i} /\ v \in Int32
        BY <1>5, <3>2 DEF Brings
      <4>2. d = 1
        BY <4>1, FS_Singleton
      <4>3. QED
        BY <1>1, <1>5, <4>1, <4>2 DEF Increment, Counts
    <3>3. QED
      BY <3>1, <3>2
  <2>3. QED
    BY <1>2, <1>5, <2>1, <2>2 DEF Overflows
<1>6. CASE f = "COUNT" /\ mode = "Final"
  <2>1. acc.count = c /\ Wrap(d) = d /\ d \in Int32
    BY <1>2, <1>6, WrapFacts DEF Holds, Counts
  <2>2. v = d
    BY <1>6, <2>1 DEF Brings, Aggregated
  <2>3. Increment(mode, f, v) = d
    BY <1>1, <1>6, <2>1, <2>2 DEF Increment
  <2>4. QED
    BY <1>2, <1>6, <2>1, <2>3 DEF Overflows, Counts
<1>7. CASE f = "AVG" /\ mode = "Final"
  <2>1. Wrap(c) = c /\ Wrap(d) = d
    BY <1>2, <1>7, WrapFacts DEF Counts
  <2>2. c = 0 /\ d = 0 /\ acc.count = 0 /\ v = Null
    BY <1>7, <2>1 DEF Holds, Brings
  <2>3. Increment(mode, f, v) = 0
    BY <2>2 DEF Increment
  <2>4. QED
    BY <1>1, <1>2, <2>2, <2>3 DEF Overflows
<1>8. QED
  BY <1>4, <1>5, <1>6, <1>7 DEF Counts
-----------------------------------------------------------------------------
(***************************************************************************)
(* One row and a map of groups.                                            *)
(***************************************************************************)
\* A row stands for places of one group.
Stands(mode, q, row, rows, key, js) ==
  /\ js \subseteq DOMAIN rows /\ js # {}
  /\ \A i \in js : NamedKey(q, rows[i]) = key
  /\ KeyOf(q, row) = key
  /\ \A k \in DOMAIN q.aggs :
       Brings(mode, q.aggs[k].func, ArgOf(q, k, row), rows, js \cap Places(q, k, rows, key), q.aggs[k].arg)

LEMMA AskedFacts ==
  ASSUME NEW q \in Asked
  PROVE  /\ DOMAIN q.aggs = 1..Len(q.aggs) /\ Len(q.aggs) \in Nat
         /\ DOMAIN q.group = 1..Len(q.group) /\ Len(q.group) \in Nat
         /\ \A i \in DOMAIN q.group : q.group[i] \in 1..Columns
         /\ \A k \in DOMAIN q.aggs : q.aggs[k].func \in AggregateFunctionKind /\ q.aggs[k].arg \in 1..Columns
<1>1. q.group \in Seq(1..Columns) /\ q.aggs \in Seq([func : AggregateFunctionKind, arg : 1..Columns])
  BY DEF Asked
<1> DEFINE g == q.group
           a == q.aggs
           A == [func : AggregateFunctionKind, arg : 1..Columns]
<1>2. g \in Seq(1..Columns) /\ a \in Seq(A) /\ \A x \in A : x.func \in AggregateFunctionKind /\ x.arg \in 1..Columns
  BY <1>1
<1> HIDE DEF g, a, A
<1>3. /\ DOMAIN a = 1..Len(a) /\ Len(a) \in Nat
      /\ DOMAIN g = 1..Len(g) /\ Len(g) \in Nat
      /\ \A i \in DOMAIN g : g[i] \in 1..Columns
      /\ \A k \in DOMAIN a : a[k] \in A
  <2> DEFINE C == 1..Columns
  <2>1. a \in Seq(A) /\ g \in Seq(C)
    BY <1>2
  <2> HIDE DEF C
  <2>2. DOMAIN a = 1..Len(a) /\ Len(a) \in Nat /\ DOMAIN g = 1..Len(g) /\ Len(g) \in Nat
    BY <2>1
  <2>3. \A k \in DOMAIN a : a[k] \in A
    BY <2>1
  <2>4. \A i \in DOMAIN g : g[i] \in C
    BY <2>1
  <2>5. QED
    BY <2>2, <2>3, <2>4 DEF C
<1>4. QED
  BY <1>2, <1>3 DEF g, a

LEMMA NamedKeyType ==
  ASSUME NEW q \in Asked, NEW row \in InRows
  PROVE  NamedKey(q, row) \in Keys(q)
BY AskedFacts DEF NamedKey, Keys, InRows

LEMMA PlacesHaveCells ==
  ASSUME NEW q \in Asked, NEW rows \in Seq(InRows), NEW k \in DOMAIN q.aggs, NEW key, NEW S
  PROVE  CellsAt(rows, S \cap Places(q, k, rows, key), q.aggs[k].arg)
<1>1. q.aggs[k].arg \in 1..Columns
  BY AskedFacts
<1>2. \A i \in DOMAIN rows : rows[i][q.aggs[k].arg] \in Cells
  <2>1. \A i \in DOMAIN rows : rows[i] \in InRows
    OBVIOUS
  <2>2. QED
    BY <1>1, <2>1 DEF InRows
<1>3. QED
  BY <1>2 DEF CellsAt, Places, Cells

LEMMA MapFacts ==
  ASSUME NEW q, NEW m \in Maps(q)
  PROVE  /\ DOMAIN m \subseteq Keys(q)
         /\ \A key \in DOMAIN m : m[key] \in [DOMAIN q.aggs -> Accs]
         /\ m \in [DOMAIN m -> [DOMAIN q.aggs -> Accs]]
<1>1. PICK D \in SUBSET Keys(q) : m \in [D -> [DOMAIN q.aggs -> Accs]]
  BY DEF Maps
<1> DEFINE A == [DOMAIN q.aggs -> Accs]
<1>2. m \in [D -> A]
  BY <1>1
<1> HIDE DEF A
<1>3. DOMAIN m = D /\ \A key \in D : m[key] \in A
  BY <1>2
<1>4. DOMAIN m \subseteq Keys(q) /\ (\A key \in DOMAIN m : m[key] \in A) /\ m \in [DOMAIN m -> A]
  BY <1>2, <1>3
<1>5. QED
  BY <1>4 DEF A

LEMMA AccumulatorsHold ==
  ASSUME NEW q \in Asked, NEW rows \in Seq(InRows), NEW S, NEW mode, NEW m \in Maps(q),
         Represents(mode, q, m, rows, S), NEW key, NEW k \in DOMAIN q.aggs
  PROVE  /\ Accumulators(q, m, key)[k] \in Accs
         /\ Holds(mode, q.aggs[k].func, Accumulators(q, m, key)[k], rows,
                  S \cap Places(q, k, rows, key), q.aggs[k].arg)
<1>1. q.aggs[k].func \in AggregateFunctionKind
  BY AskedFacts
<1>2. CASE key \in DOMAIN m
  <2>1. Accumulators(q, m, key) = m[key]
    BY <1>2 DEF Accumulators
  <2>2. m[key][k] \in Accs
    BY <1>2, MapFacts
  <2>3. QED
    BY <1>2, <2>1, <2>2 DEF Represents
<1>3. CASE key \notin DOMAIN m
  <2>1. Accumulators(q, m, key)[k] = Fresh
    BY <1>3 DEF Accumulators
  <2>2. S \cap Places(q, k, rows, key) = {}
    BY <1>3 DEF Represents, KeysAt, Places
  <2>3. QED
    BY <1>1, <2>1, <2>2, FreshHolds
<1>4. QED
  BY <1>2, <1>3

LEMMA FeedRepresents ==
  ASSUME NEW q \in Asked, NEW rows \in Seq(InRows), NEW S, S \subseteq DOMAIN rows, NEW mode,
         NEW m \in Maps(q), Represents(mode, q, m, rows, S), NEW row, NEW key, NEW js,
         Stands(mode, q, row, rows, key, js), S \cap js = {}
  PROVE  /\ Feed(mode, q, m, row) \in Maps(q)
         /\ Represents(mode, q, Feed(mode, q, m, row), rows, S \cup js)
<1> DEFINE old == Accumulators(q, m, key)
           fed == [k \in DOMAIN q.aggs |-> Folded(mode, q.aggs[k].func, old[k], ArgOf(q, k, row))]
           new == Feed(mode, q, m, row)
           At(X, g, k) == X \cap Places(q, k, rows, g)
<1>1. new = [g \in DOMAIN m \cup {key} |-> IF g = key THEN fed ELSE m[g]]
  BY DEF Feed, Stands
<1>2. ASSUME NEW k \in DOMAIN q.aggs
      PROVE  /\ fed[k] \in Accs
             /\ Holds(mode, q.aggs[k].func, fed[k], rows, At(S \cup js, key, k), q.aggs[k].arg)
  <2> DEFINE is == At(S, key, k)
             ks == At(js, key, k)
             f == q.aggs[k].func
             name == q.aggs[k].arg
             acc == old[k]
             v == ArgOf(q, k, row)
             now == fed[k]
  <2>1. acc \in Accs /\ Holds(mode, f, acc, rows, is, name)
    BY AccumulatorsHold
  <2>2. CellsAt(rows, is, name) /\ CellsAt(rows, ks, name)
    BY PlacesHaveCells
  <2>3. Brings(mode, f, v, rows, ks, name)
    BY DEF Stands
  <2>4. is \cap ks = {} /\ is \cup ks = At(S \cup js, key, k)
    OBVIOUS
  <2>5. f \in AggregateFunctionKind
    BY AskedFacts
  <2>6. now = Folded(mode, f, acc, v)
    OBVIOUS
  <2> HIDE DEF is, ks, old, fed, At, f, name, acc, v, now
  <2>7. Folded(mode, f, acc, v) \in Accs /\ Holds(mode, f, Folded(mode, f, acc, v), rows, is \cup ks, name)
    BY <2>1, <2>2, <2>3, <2>4, <2>5, FoldedHolds
  <2>8. QED
    BY <2>4, <2>6, <2>7 DEF now, f, name
<1>3. key \in Keys(q) /\ key \in KeysAt(q, rows, js) /\ KeysAt(q, rows, js) = {key}
  <2>1. PICK i \in js : i \in DOMAIN rows /\ NamedKey(q, rows[i]) = key
    BY DEF Stands
  <2>2. rows[i] \in InRows
    BY <2>1
  <2>3. QED
    BY <2>1, <2>2, NamedKeyType DEF KeysAt, Stands
<1>4. fed \in [DOMAIN q.aggs -> Accs]
  BY <1>2
<1>5. DOMAIN m \subseteq Keys(q) /\ \A g \in DOMAIN m : m[g] \in [DOMAIN q.aggs -> Accs]
  BY MapFacts
<1> HIDE DEF fed, new, At
<1>6. new \in Maps(q) /\ DOMAIN new = DOMAIN m \cup {key} /\ new[key] = fed
      /\ \A g \in DOMAIN m \ {key} : new[g] = m[g]
  <2> DEFINE A == [DOMAIN q.aggs -> Accs]
  <2>1. fed \in A /\ \A g \in DOMAIN m : m[g] \in A
    BY <1>4, <1>5
  <2> HIDE DEF A
  <2>2. new \in [DOMAIN m \cup {key} -> A]
    BY <1>1, <2>1
  <2>3. DOMAIN m \cup {key} \in SUBSET Keys(q)
    BY <1>3, <1>5
  <2>4. new \in Maps(q)
    BY <2>2, <2>3 DEF A, Maps
  <2>5. QED
    BY <1>1, <2>4
<1>7. DOMAIN new = KeysAt(q, rows, S \cup js)
  BY <1>3, <1>6 DEF Represents, KeysAt
<1>8. ASSUME NEW g \in DOMAIN new, NEW k \in DOMAIN q.aggs
      PROVE  Holds(mode, q.aggs[k].func, new[g][k], rows, (S \cup js) \cap Places(q, k, rows, g), q.aggs[k].arg)
  <2>1. CASE g = key
    BY <1>2, <1>6, <2>1 DEF At
  <2>2. CASE g # key
    <3>1. g \in DOMAIN m /\ new[g] = m[g]
      BY <1>6, <2>2
    <3>2. (S \cup js) \cap Places(q, k, rows, g) = S \cap Places(q, k, rows, g)
      BY <2>2 DEF Stands, Places
    <3>3. QED
      BY <3>1, <3>2 DEF Represents
  <2>3. QED
    BY <2>1, <2>2
<1>9. QED
  BY <1>6, <1>7, <1>8 DEF Represents, new

LEMMA FeedFits ==
  ASSUME NEW q \in Asked, NEW rows \in Seq(InRows), NEW S, S \subseteq DOMAIN rows, NEW mode,
         NEW m \in Maps(q), Represents(mode, q, m, rows, S), NEW row, NEW key, NEW js,
         Stands(mode, q, row, rows, key, js), S \cap js = {}, Fits(q, rows, S),
         mode = "Final" => Fits(q, rows, js)
  PROVE  IF RowOverflows(mode, q, m, row)
         THEN \E k \in DOMAIN q.aggs : /\ q.aggs[k].func \in Counts
                                       /\ Cardinality((S \cup js) \cap Places(q, k, rows, key)) \notin Int32
         ELSE Fits(q, rows, S \cup js)
<1> DEFINE old == Accumulators(q, m, key)
           At(X, g, k) == X \cap Places(q, k, rows, g)
           Over(k) == Overflows(mode, q.aggs[k].func, old[k], ArgOf(q, k, row))
<1>1. 0 \in Int32 /\ Cardinality({}) = 0
  BY HalfPositive, FS_EmptySet DEF Int32
<1>2. KeysAt(q, rows, js) = {key}
  BY DEF KeysAt, Stands
<1>3. ASSUME NEW k \in DOMAIN q.aggs
      PROVE  IF Over(k) THEN q.aggs[k].func \in Counts /\ Cardinality(At(S \cup js, key, k)) \notin Int32
             ELSE q.aggs[k].func \in Counts => Cardinality(At(S \cup js, key, k)) \in Int32
  <2> DEFINE is == At(S, key, k)
             ks == At(js, key, k)
             f == q.aggs[k].func
             name == q.aggs[k].arg
             acc == old[k]
             v == ArgOf(q, k, row)
  <2>1. acc \in Accs /\ Holds(mode, f, acc, rows, is, name)
    BY AccumulatorsHold
  <2>2. CellsAt(rows, is, name) /\ CellsAt(rows, ks, name)
    BY PlacesHaveCells
  <2>3. Brings(mode, f, v, rows, ks, name)
    BY DEF Stands
  <2>4. is \cap ks = {} /\ is \cup ks = At(S \cup js, key, k)
    OBVIOUS
  <2>5. f \in AggregateFunctionKind
    BY AskedFacts
  <2>6. f \in Counts => Cardinality(is) \in Int32
    <3>1. CASE key \in KeysAt(q, rows, S)
      BY <3>1 DEF Fits
    <3>2. CASE key \notin KeysAt(q, rows, S)
      <4>1. is = {}
        BY <3>2 DEF KeysAt, Places
      <4>2. QED
        BY <1>1, <4>1
    <3>3. QED
      BY <3>1, <3>2
  <2>7. f \in Counts /\ mode = "Final" => Cardinality(ks) \in Int32
    BY <1>2 DEF Fits
  <2> HIDE DEF is, ks, old, At, f, name, acc, v
  <2>8. IF Overflows(mode, f, acc, v) THEN f \in Counts /\ Cardinality(is \cup ks) \notin Int32
        ELSE f \in Counts => Cardinality(is \cup ks) \in Int32
    BY <2>1, <2>2, <2>3, <2>4, <2>5, <2>6, <2>7, FoldedFits
  <2>9. QED
    BY <2>4, <2>8 DEF f, acc, v
<1>4. RowOverflows(mode, q, m, row) <=> \E k \in DOMAIN q.aggs : Over(k)
  BY DEF RowOverflows, Stands
<1> HIDE DEF Over
<1>5. CASE RowOverflows(mode, q, m, row)
  BY <1>3, <1>4, <1>5
<1>6. CASE ~RowOverflows(mode, q, m, row)
  <2>1. ASSUME NEW g \in KeysAt(q, rows, S \cup js), NEW k \in DOMAIN q.aggs, q.aggs[k].func \in Counts
        PROVE  Cardinality((S \cup js) \cap Places(q, k, rows, g)) \in Int32
    <3>1. CASE g = key
      BY <1>3, <1>4, <1>6, <2>1, <3>1
    <3>2. CASE g # key
      <4>1. (S \cup js) \cap Places(q, k, rows, g) = S \cap Places(q, k, rows, g)
        BY <3>2 DEF Stands, Places
      <4>2. g \in KeysAt(q, rows, S)
        BY <1>2, <3>2 DEF KeysAt
      <4>3. QED
        BY <2>1, <4>1, <4>2 DEF Fits
    <3>3. QED
      BY <3>1, <3>2
  <2>2. Fits(q, rows, S \cup js)
    BY <2>1 DEF Fits
  <2>3. QED
    BY <1>6, <2>2
<1>7. QED
  BY <1>5, <1>6
-----------------------------------------------------------------------------
(***************************************************************************)
(* The scan keeps the referenced columns in their order, so an expression  *)
(* finds its column.                                                       *)
(***************************************************************************)
LEMMA ReferencedFacts ==
  ASSUME NEW q \in Asked
  PROVE  /\ Referenced(q) \subseteq 1..Columns /\ IsFiniteSet(Referenced(q))
         /\ \A i \in DOMAIN q.group : q.group[i] \in Referenced(q)
         /\ \A k \in DOMAIN q.aggs : q.aggs[k].arg \in Referenced(q)
<1>1. Referenced(q) \subseteq 1..Columns
  BY AskedFacts DEF Referenced, Range
<1>2. IsFiniteSet(1..Columns)
  BY ColumnsAssumption, FS_Interval
<1>3. IsFiniteSet(Referenced(q))
  BY <1>1, <1>2, FS_Subset
<1>4. QED
  BY <1>1, <1>3 DEF Referenced, Range

LEMMA PositionFacts ==
  ASSUME NEW q \in Asked, NEW a \in Referenced(q), NEW b \in Referenced(q)
  PROVE  /\ Position(q, a) \in 1..Cardinality(Referenced(q))
         /\ a < b => Position(q, a) < Position(q, b)
<1> DEFINE R == Referenced(q)
           Below(x) == {n \in R : n <= x}
<1>1. IsFiniteSet(R) /\ R \subseteq Int /\ Cardinality(R) \in Nat
  BY ReferencedFacts, FS_CardinalityType
<1>2. \A x : IsFiniteSet(Below(x)) /\ Cardinality(Below(x)) \in Nat /\ Cardinality(Below(x)) <= Cardinality(R)
  <2> SUFFICES ASSUME NEW x
               PROVE  /\ IsFiniteSet(Below(x)) /\ Cardinality(Below(x)) \in Nat
                      /\ Cardinality(Below(x)) <= Cardinality(R)
    OBVIOUS
  <2>1. Below(x) \in SUBSET R
    OBVIOUS
  <2> HIDE DEF R, Below
  <2>2. QED
    BY <1>1, <2>1, FS_Subset, FS_CardinalityType
<1>3. a \in Below(a) /\ b \in Below(b) /\ (a < b => Below(a) \subseteq Below(b) \ {b})
  BY <1>1
<1>4. Cardinality(Below(a)) # 0
  BY <1>2, <1>3, FS_EmptySet
<1>5. ASSUME a < b PROVE Cardinality(Below(a)) < Cardinality(Below(b))
  <2> DEFINE T == Below(b) \ {b}
  <2>1. IsFiniteSet(T) /\ Cardinality(T) = Cardinality(Below(b)) - 1
    BY <1>2, <1>3, FS_RemoveElement, ZenonT(40)
  <2>2. Below(a) \in SUBSET T
    BY <1>3, <1>5
  <2> HIDE DEF T
  <2>3. Cardinality(Below(a)) <= Cardinality(T)
    BY <2>1, <2>2, FS_Subset
  <2> HIDE DEF Below
  <2>4. QED
    BY <1>2, <2>1, <2>3
<1>6. Position(q, a) = Cardinality(Below(a)) /\ Position(q, b) = Cardinality(Below(b))
  BY DEF Position
<1> HIDE DEF Below
<1>7. QED
  BY <1>1, <1>2, <1>4, <1>5, <1>6

LEMMA ScanAt ==
  ASSUME NEW q \in Asked, NEW row, NEW name \in Referenced(q)
  PROVE  Scan(q, row)[Position(q, name)] = row[name]
<1> DEFINE p == Position(q, name)
           n == CHOOSE x \in Referenced(q) : Position(q, x) = p
<1>1. p \in 1..Cardinality(Referenced(q))
  BY PositionFacts
<1>2. Scan(q, row)[p] = row[n]
  BY <1>1 DEF Scan
<1>3. n \in Referenced(q) /\ Position(q, n) = p
  OBVIOUS
<1> HIDE DEF n
<1>4. n \in Int /\ name \in Int
  BY <1>3, ReferencedFacts
<1>5. (n < name => Position(q, n) < p) /\ (name < n => p < Position(q, n))
  BY <1>3, PositionFacts
<1>6. n = name
  BY <1>1, <1>3, <1>4, <1>5
<1>7. QED
  BY <1>2, <1>6

LEMMA ScanReads ==
  ASSUME NEW q \in Asked, NEW row
  PROVE  /\ KeyOf(q, Scan(q, row)) = NamedKey(q, row)
         /\ \A k \in DOMAIN q.aggs : ArgOf(q, k, Scan(q, row)) = row[q.aggs[k].arg]
<1>1. \A i \in DOMAIN q.group : Scan(q, row)[Position(q, q.group[i])] = row[q.group[i]]
  BY ReferencedFacts, ScanAt
<1>2. \A k \in DOMAIN q.aggs : Scan(q, row)[Position(q, q.aggs[k].arg)] = row[q.aggs[k].arg]
  BY ReferencedFacts, ScanAt
<1>3. QED
  BY <1>1, <1>2 DEF KeyOf, NamedKey, ArgOf

\* A row of the input stands for its place.
LEMMA ScanStands ==
  ASSUME NEW q \in Asked, NEW rows \in Seq(InRows), NEW i \in DOMAIN rows, NEW mode, mode # "Final"
  PROVE  Stands(mode, q, Scan(q, rows[i]), rows, NamedKey(q, rows[i]), {i})
<1> DEFINE key == NamedKey(q, rows[i])
           row == Scan(q, rows[i])
<1>1. KeyOf(q, row) = key
  BY ScanReads
<1>2. ASSUME NEW k \in DOMAIN q.aggs
      PROVE  Brings(mode, q.aggs[k].func, ArgOf(q, k, row), rows, {i} \cap Places(q, k, rows, key), q.aggs[k].arg)
  <2> DEFINE v == ArgOf(q, k, row)
             name == q.aggs[k].arg
  <2>1. v = rows[i][name]
    BY ScanReads
  <2>2. rows[i] \in InRows /\ name \in 1..Columns
    BY AskedFacts
  <2>3. v \in Cells
    BY <2>1, <2>2 DEF InRows
  <2>4. {i} \cap Places(q, k, rows, key) = IF v = Null THEN {} ELSE {i}
    BY <2>1 DEF Places
  <2>5. QED
    BY <2>1, <2>3, <2>4 DEF Brings, Cells
<1> HIDE DEF row
<1>3. QED
  BY <1>1, <1>2 DEF Stands, row
-----------------------------------------------------------------------------
(***************************************************************************)
(* A batch.                                                                *)
(***************************************************************************)
CellRows(q) == {Scan(q, row) : row \in InRows}

LEMMA CellRowType ==
  ASSUME NEW q \in Asked, NEW row \in CellRows(q)
  PROVE  KeyOf(q, row) \in Keys(q) /\ \A k \in DOMAIN q.aggs : ArgOf(q, k, row) \in Cells
<1>1. PICK r \in InRows : row = Scan(q, r)
  BY DEF CellRows
<1>2. KeyOf(q, row) = NamedKey(q, r)
  BY <1>1, ScanReads
<1>3. \A k \in DOMAIN q.aggs : ArgOf(q, k, row) = r[q.aggs[k].arg] /\ q.aggs[k].arg \in 1..Columns
  BY <1>1, ScanReads, AskedFacts
<1>4. QED
  BY <1>2, <1>3, NamedKeyType DEF InRows

LEMMA AccumulateType ==
  ASSUME NEW f \in AggregateFunctionKind, NEW acc \in Accs, NEW v \in Cells
  PROVE  Accumulate(f, acc, v) \in Accs
<1>1. Null \notin Int32 /\ \A x \in Int32 : x \in Int
  BY HalfPositive, NullAssumption DEF Int32
<1>2. \A x \in Int : Wrap(x) \in Int32
  BY WrapFacts
<1>3. CASE v = Null
  BY <1>3 DEF Accumulate
<1>4. CASE v # Null
  <2>1. v \in Int32 /\ acc.value \in Cells /\ acc.count \in Int32 /\ acc.sum \in Int
    BY <1>4 DEF Cells, Accs
  <2>2. CASE f = "SUM"
    <3>1. acc.value # Null => Wrap(acc.value + v) \in Int32
      BY <1>1, <1>2, <2>1 DEF Cells
    <3>2. QED
      BY <1>4, <2>1, <2>2, <3>1 DEF Accumulate, Accs, Cells
  <2>3. CASE f \in {"MIN", "MAX"}
    BY <1>4, <2>1, <2>3 DEF Accumulate, Accs, Cells
  <2>4. CASE f = "COUNT"
    <3>1. Wrap(acc.count + 1) \in Int32
      BY <1>1, <1>2, <2>1
    <3>2. QED
      BY <1>4, <2>1, <2>4, <3>1 DEF Accumulate, Accs
  <2>5. CASE f = "AVG"
    <3> DEFINE n == Wrap(acc.count + 1)
               s == acc.sum + v
    <3>1. n \in Int32 /\ s \in Int
      BY <1>1, <1>2, <2>1
    <3>2. Accumulate(f, acc, v) = [acc EXCEPT !.sum = s, !.count = n]
      BY <1>4, <2>5 DEF Accumulate
    <3> HIDE DEF n, s
    <3>3. QED
      BY <3>1, <3>2 DEF Accs
  <2>6. QED
    BY <2>2, <2>3, <2>4, <2>5 DEF AggregateFunctionKind
<1>5. QED
  BY <1>3, <1>4

LEMMA FeedType ==
  ASSUME NEW q \in Asked, NEW mode, mode # "Final", NEW m \in Maps(q), NEW row \in CellRows(q)
  PROVE  Feed(mode, q, m, row) \in Maps(q)
<1> DEFINE key == KeyOf(q, row)
           old == Accumulators(q, m, key)
           fed == [k \in DOMAIN q.aggs |-> Folded(mode, q.aggs[k].func, old[k], ArgOf(q, k, row))]
           A == [DOMAIN q.aggs -> Accs]
<1>1. Fresh \in Accs
  BY HalfPositive DEF Fresh, Accs, Cells, Int32
<1>2. old \in A
  BY <1>1, MapFacts DEF Accumulators
<1>3. ASSUME NEW k \in DOMAIN q.aggs PROVE fed[k] \in Accs
  <2>1. fed[k] = Accumulate(q.aggs[k].func, old[k], ArgOf(q, k, row))
    BY DEF Folded
  <2>2. old[k] \in Accs
    BY <1>2
  <2>3. q.aggs[k].func \in AggregateFunctionKind /\ ArgOf(q, k, row) \in Cells
    BY AskedFacts, CellRowType
  <2> HIDE DEF fed, old
  <2>4. QED
    BY <2>1, <2>2, <2>3, AccumulateType
<1>4. fed \in A
  BY <1>3
<1>5. Feed(mode, q, m, row) = [g \in DOMAIN m \cup {key} |-> IF g = key THEN fed ELSE m[g]]
  BY DEF Feed
<1>6. key \in Keys(q) /\ DOMAIN m \subseteq Keys(q) /\ \A g \in DOMAIN m : m[g] \in A
  BY CellRowType, MapFacts
<1> HIDE DEF fed, A, key
<1>7. Feed(mode, q, m, row) \in [DOMAIN m \cup {key} -> A] /\ DOMAIN m \cup {key} \in SUBSET Keys(q)
  BY <1>4, <1>5, <1>6
<1>8. QED
  BY <1>7 DEF A, Maps

\* What a batch makes of a map, one row after another.
Feeds(acc, n, mode, q, m, batch) ==
  acc[0] = m /\ \A k \in 1..n : acc[k] = Feed(mode, q, acc[k - 1], batch[k])

LEMMA FeedBatchPasses ==
  ASSUME NEW q \in Asked, NEW mode, mode # "Final", NEW m \in Maps(q),
         NEW batch \in Seq(CellRows(q)), NEW n, n = Len(batch)
  PROVE  \E acc \in [0..n -> Maps(q)] :
           Feeds(acc, n, mode, q, m, batch) /\ FeedBatch(mode, q, m, batch) = acc[n]
<1> DEFINE V == Maps(q)
           Step(k, x) == Feed(mode, q, x, batch[k])
           step == [p \in (1..n) \X V |-> Step(p[1], p[2])]
           eq(g) == [s \in SUBSET (1..n) |-> IF s = {} THEN m ELSE LET x == Max(s) IN Step(x, g[s \ {x}])]
           fold == CHOOSE g : g = eq(g)
<1>1. n \in Nat /\ DOMAIN batch = 1..n /\ \A k \in 1..n : batch[k] \in CellRows(q)
  OBVIOUS
<1>2. m \in V
  OBVIOUS
<1>3. \A k \in 1..n : \A x \in V : Step(k, x) \in V
  BY <1>1, FeedType
<1>4. FeedBatch(mode, q, m, batch) = fold[1..n]
  BY <1>1 DEF FeedBatch, FoldLeft, MapThenFoldSet
<1> HIDE DEF Step, V
<1>5. step \in [(1..n) \X V -> V]
  BY <1>3
<1>6. \A k \in 1..n : \A x \in V : step[<<k, x>>] = Step(k, x)
  OBVIOUS
<1> HIDE DEF step
<1>7. PICK g0 \in [SUBSET (1..n) -> V] : FoldsTo(g0, n, m, step)
  BY <1>1, <1>2, <1>5, FoldExists
<1>8. g0 = eq(g0)
  <2>1. ASSUME NEW s \in SUBSET (1..n)
        PROVE  g0[s] = IF s = {} THEN m ELSE LET x == Max(s) IN Step(x, g0[s \ {x}])
    <3>1. CASE s = {}
      BY <1>7, <3>1 DEF FoldsTo
    <3>2. CASE s # {}
      <4>1. Max(s) \in s
        BY <1>1, <3>2, MaxOfPlaces
      <4>2. Max(s) \in 1..n /\ s \ {Max(s)} \in SUBSET (1..n)
        BY <4>1
      <4>3. g0[s] = step[<<Max(s), g0[s \ {Max(s)}]>>] /\ g0[s \ {Max(s)}] \in V
        BY <1>7, <3>2, <4>2 DEF FoldsTo
      <4>4. QED
        BY <1>6, <3>2, <4>2, <4>3
    <3>3. QED
      BY <3>1, <3>2
  <2>2. QED
    BY <2>1
<1>9. fold = eq(fold)
  BY <1>8
<1> HIDE DEF fold
<1>10. fold[{}] = m
  BY <1>9
<1>11. ASSUME NEW s \in (SUBSET (1..n)) \ {{}}, fold[s \ {Max(s)}] \in V
       PROVE  fold[s] = step[<<Max(s), fold[s \ {Max(s)}]>>]
  <2>1. Max(s) \in 1..n
    BY <1>1, MaxOfPlaces
  <2>2. fold[s] = Step(Max(s), fold[s \ {Max(s)}])
    BY <1>9
  <2>3. QED
    BY <1>6, <1>11, <2>1, <2>2
<1>12. FoldsAmong(fold, V, n, m, step)
  BY <1>10, <1>11 DEF FoldsAmong
<1>13. PassesTo(fold[1..n], V, n, m, step)
  BY <1>1, <1>2, <1>5, <1>12, FoldPasses
<1>14. PICK acc \in [0..n -> V] : Passes(acc, n, m, step) /\ acc[n] = fold[1..n]
  BY <1>13 DEF PassesTo
<1>15. ASSUME NEW k \in 1..n PROVE acc[k] = Feed(mode, q, acc[k - 1], batch[k])
  <2>1. k - 1 \in 0..n
    BY <1>1
  <2>2. acc[k] = step[<<k, acc[k - 1]>>] /\ acc[k - 1] \in V
    BY <1>14, <2>1 DEF Passes
  <2>3. QED
    BY <1>6, <2>2 DEF Step
<1>16. Feeds(acc, n, mode, q, m, batch)
  BY <1>14, <1>15 DEF Passes, Feeds
<1>17. QED
  BY <1>4, <1>14, <1>16 DEF V

\* A batch less its last rows.
MapsOfPrefixes(acc, n, mode, q, m, batch) ==
  /\ Feeds(acc, n, mode, q, m, batch)
  /\ \A j \in 0..n : FeedBatch(mode, q, m, SubSeq(batch, 1, j)) = acc[j]

LEMMA FeedBatchPrefixes ==
  ASSUME NEW q \in Asked, NEW mode, mode # "Final", NEW m \in Maps(q),
         NEW batch \in Seq(CellRows(q)), NEW n, n = Len(batch)
  PROVE  \E acc \in [0..n -> Maps(q)] : MapsOfPrefixes(acc, n, mode, q, m, batch)
<1>1. PICK acc \in [0..n -> Maps(q)] : Feeds(acc, n, mode, q, m, batch)
  BY FeedBatchPasses
<1>2. n \in Nat
  OBVIOUS
<1>3. ASSUME NEW j \in 0..n PROVE FeedBatch(mode, q, m, SubSeq(batch, 1, j)) = acc[j]
  <2> DEFINE front == SubSeq(batch, 1, j)
             R == CellRows(q)
  <2>1. front \in Seq(R) /\ Len(front) = j /\ \A k \in 1..j : front[k] = batch[k]
    <3>1. batch \in Seq(R)
      OBVIOUS
    <3> HIDE DEF R
    <3>2. QED
      BY <1>2, <3>1
  <2> HIDE DEF front
  <2>2. PICK b \in [0..j -> Maps(q)] : Feeds(b, j, mode, q, m, front) /\ FeedBatch(mode, q, m, front) = b[j]
    BY <2>1, FeedBatchPasses
  <2> DEFINE S == {k \in 0..j : acc[k] = b[k]}
  <2>3. 0 \in S
    BY <1>1, <1>2, <2>2 DEF Feeds
  <2>4. ASSUME NEW k \in 1..j, k - 1 \in S PROVE k \in S
    <3>1. acc[k - 1] = b[k - 1] /\ k \in 0..j /\ k \in 1..n
      BY <1>2, <2>4
    <3>2. acc[k] = Feed(mode, q, acc[k - 1], batch[k]) /\ b[k] = Feed(mode, q, b[k - 1], front[k])
      BY <1>1, <2>2, <3>1 DEF Feeds
    <3>3. front[k] = batch[k]
      BY <2>1
    <3>4. QED
      BY <3>1, <3>2, <3>3
  <2> HIDE DEF S
  <2>5. j \in Nat
    BY <1>2
  <2>6. 0..j \subseteq S
    BY <2>3, <2>4, <2>5, BoundedInduction
  <2>7. j \in S
    BY <2>5, <2>6
  <2>8. QED
    BY <2>2, <2>7 DEF S, front
<1>4. QED
  BY <1>1, <1>3 DEF MapsOfPrefixes
\* A count of some group does not fit.
Exceeds(q, rows) ==
  \E k \in DOMAIN q.aggs, i \in DOMAIN rows :
    /\ q.aggs[k].func \in Counts
    /\ Cardinality(Places(q, k, rows, NamedKey(q, rows[i]))) \notin Int32

LEMMA PartExceeds ==
  ASSUME NEW q, NEW rows \in Seq(InRows), NEW k \in DOMAIN q.aggs, q.aggs[k].func \in Counts,
         NEW i \in DOMAIN rows, NEW S,
         Cardinality(S \cap Places(q, k, rows, NamedKey(q, rows[i]))) \notin Int32
  PROVE  Exceeds(q, rows)
<1> DEFINE T == Places(q, k, rows, NamedKey(q, rows[i]))
           U == S \cap T
<1>1. T \subseteq DOMAIN rows /\ U \subseteq T
  BY DEF Places
<1>2. Cardinality(U) \in Nat /\ Cardinality(T) \in Nat /\ Cardinality(U) <= Cardinality(T)
  BY <1>1, PlacesCount, PlacesCountOfPart
<1>3. Cardinality(U) \notin Int32
  OBVIOUS
<1> HIDE DEF U
<1>4. Cardinality(T) \notin Int32
  BY <1>2, <1>3, HalfPositive DEF Int32
<1>5. QED
  BY <1>4 DEF Exceeds

\* The rows of a batch are those of the places after o.
Supplies(q, batch, rows, o) ==
  /\ o \in Nat /\ o + Len(batch) <= Len(rows)
  /\ \A k \in 1..Len(batch) : batch[k] = Scan(q, rows[o + k])

LEMMA BatchRepresents ==
  ASSUME NEW q \in Asked, NEW rows \in Seq(InRows), NEW S, S \subseteq DOMAIN rows,
         NEW mode, mode # "Final", NEW m \in Maps(q), Represents(mode, q, m, rows, S),
         NEW batch \in Seq(CellRows(q)), NEW n, n = Len(batch), NEW o,
         Supplies(q, batch, rows, o), S \cap ((o + 1)..(o + n)) = {}
  PROVE  /\ FeedBatch(mode, q, m, batch) \in Maps(q)
         /\ Represents(mode, q, FeedBatch(mode, q, m, batch), rows, S \cup ((o + 1)..(o + n)))
         /\ Fits(q, rows, S) =>
              IF BatchOverflows(mode, q, m, batch) THEN Exceeds(q, rows)
              ELSE Fits(q, rows, S \cup ((o + 1)..(o + n)))
<1> DEFINE T(j) == S \cup ((o + 1)..(o + j))
<1>0. PICK acc \in [0..n -> Maps(q)] : MapsOfPrefixes(acc, n, mode, q, m, batch)
  BY FeedBatchPrefixes
<1>1. Feeds(acc, n, mode, q, m, batch) /\ \A j \in 0..n : FeedBatch(mode, q, m, SubSeq(batch, 1, j)) = acc[j]
  BY <1>0 DEF MapsOfPrefixes
<1>2. n \in Nat /\ o \in Nat /\ o + n <= Len(rows) /\ DOMAIN rows = 1..Len(rows) /\ Len(rows) \in Nat
  BY DEF Supplies
<1>3. FeedBatch(mode, q, m, batch) = acc[n]
  <2>1. SubSeq(batch, 1, n) = batch
    <3> DEFINE R == CellRows(q)
    <3>1. batch \in Seq(R)
      OBVIOUS
    <3> HIDE DEF R
    <3>2. QED
      BY <3>1
  <2>2. n \in 0..n
    BY <1>2
  <2>3. FeedBatch(mode, q, m, SubSeq(batch, 1, n)) = acc[n]
    BY <1>1, <2>2
  <2>4. QED
    BY <2>1, <2>3
<1> DEFINE Over(i) == RowOverflows(mode, q, acc[i - 1], batch[i])
<1>4. BatchOverflows(mode, q, m, batch) <=> \E i \in 1..n : Over(i)
  <2>1. DOMAIN batch = 1..n
    OBVIOUS
  <2>2. ASSUME NEW i \in 1..n
        PROVE  RowOverflows(mode, q, FeedBatch(mode, q, m, SubSeq(batch, 1, i - 1)), batch[i]) <=> Over(i)
    <3>1. i - 1 \in 0..n
      BY <1>2
    <3>2. FeedBatch(mode, q, m, SubSeq(batch, 1, i - 1)) = acc[i - 1]
      BY <1>1, <3>1
    <3>3. QED
      BY <3>2
  <2> HIDE DEF Over
  <2>3. QED
    BY <2>1, <2>2 DEF BatchOverflows
<1> HIDE DEF Over
<1> DEFINE Good(j) == /\ Represents(mode, q, acc[j], rows, T(j))
                      /\ Fits(q, rows, S) => IF \E i \in 1..j : Over(i) THEN Exceeds(q, rows) ELSE Fits(q, rows, T(j))
           G == {j \in 0..n : Good(j)}
<1>5. 0 \in G
  <2>1. T(0) = S
    BY <1>2
  <2>2. acc[0] = m
    BY <1>1 DEF Feeds
  <2>3. ~\E i \in 1..0 : Over(i)
    OBVIOUS
  <2>4. Good(0)
    <3> HIDE DEF T
    <3>1. QED
      BY <2>1, <2>2, <2>3
  <2>5. QED
    BY <1>2, <2>4
<1>6. ASSUME NEW j \in 1..n, j - 1 \in G PROVE j \in G
  <2> DEFINE x == o + j
             row == batch[j]
             key == NamedKey(q, rows[x])
             was == acc[j - 1]
  <2>1. x \in DOMAIN rows /\ j - 1 \in 0..n /\ j \in 0..n /\ T(j) = T(j - 1) \cup {x} /\ T(j - 1) \cap {x} = {}
    BY <1>2
  <2>2. row = Scan(q, rows[x])
    BY <1>2 DEF Supplies
  <2>3. Stands(mode, q, row, rows, key, {x})
    BY <2>1, <2>2, ScanStands
  <2>4. acc[j] = Feed(mode, q, was, row)
    BY <1>1 DEF Feeds
  <2>5. was \in Maps(q) /\ Good(j - 1)
    BY <1>6, <2>1
  <2>6. T(j - 1) \subseteq DOMAIN rows
    BY <1>2
  <2>7. Over(j) <=> RowOverflows(mode, q, was, row)
    BY DEF Over
  <2> DEFINE before == T(j - 1)
             now == T(j)
  <2>8. before \subseteq DOMAIN rows /\ now = before \cup {x} /\ before \cap {x} = {}
        /\ Represents(mode, q, was, rows, before)
    BY <2>1, <2>5, <2>6
  <2>9. Fits(q, rows, S) => IF \E i \in 1..(j - 1) : Over(i) THEN Exceeds(q, rows) ELSE Fits(q, rows, before)
    BY <2>5
  <2> HIDE DEF T, row, was, before, now
  <2>10. Represents(mode, q, acc[j], rows, now)
    BY <2>3, <2>4, <2>5, <2>8, FeedRepresents
  <2>11. ASSUME Fits(q, rows, S)
         PROVE  IF \E i \in 1..j : Over(i) THEN Exceeds(q, rows) ELSE Fits(q, rows, now)
    <3>1. CASE \E i \in 1..(j - 1) : Over(i)
      <4>1. \E i \in 1..j : Over(i)
        BY <3>1
      <4>2. QED
        BY <2>9, <2>11, <3>1, <4>1
    <3>2. CASE ~\E i \in 1..(j - 1) : Over(i)
      <4>1. Fits(q, rows, before)
        BY <2>9, <2>11, <3>2
      <4>2. (\E i \in 1..j : Over(i)) <=> Over(j)
        BY <3>2
      <4>3. IF RowOverflows(mode, q, was, row)
            THEN \E k \in DOMAIN q.aggs : /\ q.aggs[k].func \in Counts
                                          /\ Cardinality((before \cup {x}) \cap Places(q, k, rows, key)) \notin Int32
            ELSE Fits(q, rows, before \cup {x})
        BY <2>3, <2>5, <2>8, <4>1, FeedFits
      <4>4. CASE RowOverflows(mode, q, was, row)
        <5>1. PICK k \in DOMAIN q.aggs :
                /\ q.aggs[k].func \in Counts
                /\ Cardinality((before \cup {x}) \cap Places(q, k, rows, key)) \notin Int32
          BY <4>3, <4>4
        <5>2. Exceeds(q, rows)
          BY <2>1, <5>1, PartExceeds
        <5>3. QED
          BY <2>7, <4>2, <4>4, <5>2
      <4>5. CASE ~RowOverflows(mode, q, was, row)
        <5>1. Fits(q, rows, now)
          BY <2>8, <4>3, <4>5
        <5>2. QED
          BY <2>7, <4>2, <4>5, <5>1
      <4>6. QED
        BY <4>4, <4>5
    <3>3. QED
      BY <3>1, <3>2
  <2>12. QED
    BY <2>1, <2>10, <2>11 DEF now
<1> HIDE DEF G
<1>7. 0..n \subseteq G
  BY <1>2, <1>5, <1>6, BoundedInduction
<1>8. n \in G
  BY <1>2, <1>7
<1>9. Good(n) /\ acc[n] \in Maps(q)
  BY <1>2, <1>8 DEF G
<1>10. QED
  BY <1>3, <1>4, <1>9
-----------------------------------------------------------------------------
(***************************************************************************)
(* Places and batches.                                                     *)
(***************************************************************************)
LEMMA BeforeGrows ==
  ASSUME NEW R, NEW bs \in Seq(Seq(R)), NEW a \in 0..Len(bs), NEW b \in a..Len(bs)
  PROVE  /\ Before(bs, a) \in Nat /\ Before(bs, b) \in Nat /\ Before(bs, a) <= Before(bs, b)
         /\ Before(bs, 0) = 0
         /\ FlattenSeq(bs) \in Seq(R) /\ Before(bs, Len(bs)) = Len(FlattenSeq(bs))
<1> DEFINE E == Seq(R)
           s == FlattenSeq(SubSeq(bs, 1, a))
           t == FlattenSeq(SubSeq(bs, a + 1, b))
           u == FlattenSeq(SubSeq(bs, 1, b))
<1>1. s \in Seq(R) /\ t \in Seq(R) /\ u \in Seq(R) /\ u = s \o t
  BY FlattenFront
<1>2. Before(bs, a) = Len(s) /\ Before(bs, b) = Len(u)
  BY DEF Before
<1> HIDE DEF s, t, u
<1>3. Len(s) \in Nat /\ Len(t) \in Nat /\ Len(u) = Len(s) + Len(t)
  BY <1>1
<1>4. SubSeq(bs, 1, 0) = <<>> /\ SubSeq(bs, 1, Len(bs)) = bs /\ <<>> \in Seq(E)
  <2>1. bs \in Seq(E)
    OBVIOUS
  <2> HIDE DEF E
  <2>2. QED
    BY <2>1
<1>5. FlattenSeq(<<>>) = <<>> /\ FlattenSeq(bs) \in Seq(R)
  BY <1>4, FlattenProperties
<1>6. Before(bs, 0) = 0 /\ Before(bs, Len(bs)) = Len(FlattenSeq(bs))
  <2>1. Before(bs, 0) = Len(FlattenSeq(SubSeq(bs, 1, 0))) /\ Before(bs, Len(bs)) = Len(FlattenSeq(SubSeq(bs, 1, Len(bs))))
    BY DEF Before
  <2>2. Len(<<>>) = 0
    OBVIOUS
  <2>3. QED
    BY ONLY <1>4, <1>5, <2>1, <2>2
<1>7. QED
  BY <1>2, <1>3, <1>5, <1>6

LEMMA SegmentRows ==
  ASSUME NEW R, NEW bs \in Seq(Seq(R)), NEW b \in 1..Len(bs)
  PROVE  /\ Before(bs, b - 1) \in Nat /\ Before(bs, b) = Before(bs, b - 1) + Len(bs[b])
         /\ Before(bs, b) <= Len(FlattenSeq(bs))
         /\ \A k \in 1..Len(bs[b]) : FlattenSeq(bs)[Before(bs, b - 1) + k] = bs[b][k]
<1> DEFINE E == Seq(R)
           n == Len(bs)
           s == FlattenSeq(SubSeq(bs, 1, b - 1))
           u == FlattenSeq(SubSeq(bs, 1, b))
           t == FlattenSeq(SubSeq(bs, b + 1, n))
           f == FlattenSeq(bs)
           batch == bs[b]
<1>1. n \in Nat /\ b \in 0..n /\ b - 1 \in 0..n /\ b \in (b - 1)..n /\ n \in b..n
  OBVIOUS
<1>2. u = s \o FlattenSeq(SubSeq(bs, b, b)) /\ s \in Seq(R)
  <2>1. (b - 1) + 1 = b
    BY <1>1
  <2>2. FlattenSeq(SubSeq(bs, 1, b)) = FlattenSeq(SubSeq(bs, 1, b - 1)) \o FlattenSeq(SubSeq(bs, (b - 1) + 1, b))
        /\ FlattenSeq(SubSeq(bs, 1, b - 1)) \in Seq(R)
    BY <1>1, FlattenFront
  <2>3. QED
    BY <2>1, <2>2
<1>3. FlattenSeq(SubSeq(bs, b, b)) = batch /\ batch \in Seq(R)
  <2>1. bs \in Seq(E) /\ batch \in E
    OBVIOUS
  <2>2. SubSeq(bs, b, b) = Append(<<>>, batch) /\ <<>> \in Seq(E)
    <3> HIDE DEF E, batch
    <3>1. Append(<<>>, batch) \in Seq(E) /\ Len(Append(<<>>, batch)) = 1 /\ Append(<<>>, batch)[1] = batch
      BY <2>1
    <3>2. SubSeq(bs, b, b) \in Seq(E) /\ Len(SubSeq(bs, b, b)) = 1 /\ SubSeq(bs, b, b)[1] = bs[b]
      BY <1>1, <2>1
    <3>3. bs[b] = batch
      BY DEF batch
    <3>4. <<>> \in Seq(E)
      OBVIOUS
    <3> DEFINE x == SubSeq(bs, b, b)
               y == Append(<<>>, batch)
    <3>5. x \in Seq(E) /\ y \in Seq(E) /\ Len(x) = Len(y) /\ \A i \in 1..Len(x) : x[i] = y[i]
      BY <3>1, <3>2, <3>3
    <3> HIDE DEF x, y
    <3>6. x = y
      BY <3>5, SeqEqual
    <3>7. QED
      BY <3>4, <3>6 DEF x, y
  <2>3. FlattenSeq(Append(<<>>, batch)) = FlattenSeq(<<>>) \o batch /\ FlattenSeq(<<>>) = <<>>
    BY <2>1, <2>2, FlattenAppend, FlattenProperties
  <2>4. <<>> \o batch = batch
    BY <2>1
  <2>5. QED
    BY <2>1, <2>2, <2>3, <2>4
<1>4. f = u \o t /\ u \in Seq(R) /\ t \in Seq(R)
  <2>1. SubSeq(bs, 1, n) = bs
    <3>1. bs \in Seq(E)
      OBVIOUS
    <3> HIDE DEF E
    <3>2. QED
      BY <3>1
  <2>2. FlattenSeq(SubSeq(bs, 1, n)) = FlattenSeq(SubSeq(bs, 1, b)) \o FlattenSeq(SubSeq(bs, b + 1, n))
        /\ FlattenSeq(SubSeq(bs, 1, b)) \in Seq(R) /\ FlattenSeq(SubSeq(bs, b + 1, n)) \in Seq(R)
    BY <1>1, FlattenFront
  <2>3. QED
    BY <2>1, <2>2
<1>5. Before(bs, b - 1) = Len(s) /\ Before(bs, b) = Len(u)
  BY DEF Before
<1> HIDE DEF s, u, t, f, batch
<1>6. u = s \o batch /\ f = u \o t /\ s \in Seq(R) /\ batch \in Seq(R) /\ t \in Seq(R) /\ u \in Seq(R)
  BY <1>2, <1>3, <1>4
<1>7. /\ Len(s) \in Nat /\ Len(u) = Len(s) + Len(batch) /\ Len(u) <= Len(f)
      /\ \A k \in 1..Len(batch) : f[Len(s) + k] = batch[k]
  BY <1>6
<1>8. QED
  BY <1>5, <1>7 DEF f, batch

\* A batch fed to a map that represents the places before it.
LEMMA SegmentSupplies ==
  ASSUME NEW q \in Asked, NEW bs \in Seq(Seq(InRows)), NEW b \in 1..Len(bs),
         NEW batch, batch = [i \in DOMAIN bs[b] |-> Scan(q, bs[b][i])]
  PROVE  /\ batch \in Seq(CellRows(q))
         /\ Supplies(q, batch, FlattenSeq(bs), Before(bs, b - 1))
         /\ Segment(bs, b) = (Before(bs, b - 1) + 1)..(Before(bs, b - 1) + Len(batch))
<1>1. bs[b] \in Seq(InRows)
  OBVIOUS
<1>2. batch \in Seq(CellRows(q)) /\ Len(batch) = Len(bs[b]) /\ \A k \in 1..Len(batch) : batch[k] = Scan(q, bs[b][k])
  BY <1>1 DEF CellRows
<1>3. /\ Before(bs, b - 1) \in Nat /\ Before(bs, b) = Before(bs, b - 1) + Len(bs[b])
      /\ Before(bs, b) <= Len(FlattenSeq(bs))
      /\ \A k \in 1..Len(bs[b]) : FlattenSeq(bs)[Before(bs, b - 1) + k] = bs[b][k]
  BY SegmentRows
<1>4. QED
  BY <1>2, <1>3 DEF Supplies, Segment

LEMMA SegmentsCover ==
  ASSUME NEW R, NEW bs \in Seq(Seq(R)), NEW i \in 1..Len(FlattenSeq(bs))
  PROVE  \E b \in 1..Len(bs) : i \in Segment(bs, b)
<1> DEFINE n == Len(bs)
           S == {b \in 0..n : i <= Before(bs, b) => \E c \in 1..n : i \in Segment(bs, c)}
<1>1. n \in Nat
  OBVIOUS
<1>2. Before(bs, 0) = 0 /\ Before(bs, n) = Len(FlattenSeq(bs)) /\ Len(FlattenSeq(bs)) \in Nat
  <2>1. 0 \in 0..Len(bs) /\ 0 \in 0..Len(bs)
    BY <1>1
  <2>2. QED
    BY <2>1, BeforeGrows
<1>3. 0 \in S
  BY <1>1, <1>2
<1>4. ASSUME NEW b \in 1..n, b - 1 \in S PROVE b \in S
  <2>1. b \in 0..n /\ b - 1 \in 0..Len(bs) /\ b \in (b - 1)..Len(bs)
    BY <1>1
  <2>2. Before(bs, b - 1) \in Nat /\ Before(bs, b) \in Nat
    BY <2>1, BeforeGrows
  <2>3. CASE i <= Before(bs, b - 1)
    BY <1>4, <2>1, <2>3
  <2>4. CASE ~(i <= Before(bs, b - 1))
    BY <2>1, <2>2, <2>4 DEF Segment
  <2>5. QED
    BY <2>3, <2>4
<1> HIDE DEF S
<1>5. 0..n \subseteq S
  BY <1>1, <1>3, <1>4, BoundedInduction
<1>6. n \in S
  BY <1>1, <1>5
<1>7. QED
  BY <1>2, <1>6 DEF S

LEMMA SegmentsDisjoint ==
  ASSUME NEW R, NEW bs \in Seq(Seq(R)), NEW a \in 1..Len(bs), NEW b \in 1..Len(bs), a # b
  PROVE  Segment(bs, a) \cap Segment(bs, b) = {}
<1>1. ASSUME NEW x \in 1..Len(bs), NEW y \in 1..Len(bs), x < y
      PROVE  Segment(bs, x) \cap Segment(bs, y) = {}
  <2>1. x \in 0..Len(bs) /\ y - 1 \in x..Len(bs) /\ x - 1 \in 0..Len(bs) /\ y \in 0..Len(bs)
    BY <1>1
  <2>2. Before(bs, x) \in Nat /\ Before(bs, y - 1) \in Nat /\ Before(bs, x) <= Before(bs, y - 1)
    BY <2>1, BeforeGrows
  <2>3. QED
    BY <2>2 DEF Segment
<1>2. a < b \/ b < a
  OBVIOUS
<1>3. QED
  BY <1>1, <1>2
-----------------------------------------------------------------------------
(***************************************************************************)
(* Batches dealt in turn.                                                  *)
(***************************************************************************)
LEMMA TimesGrows ==
  ASSUME NEW a \in Int, NEW b \in Int, NEW m \in Nat \ {0}, a < b
  PROVE  a * m + m <= b * m
<1> DEFINE d == b - a - 1
<1>1. d \in Nat /\ b = a + 1 + d
  OBVIOUS
<1> HIDE DEF d
<1>2. b * m = a * m + m + d * m
  BY <1>1
<1>3. d * m >= 0
  BY <1>1
<1>4. QED
  BY <1>2, <1>3

LEMMA TurnsUnique ==
  ASSUME NEW m \in Nat \ {0}, NEW v \in 0..(m - 1), NEW w \in 0..(m - 1), NEW i \in Int, NEW j \in Int,
         v + 1 + (i - 1) * m = w + 1 + (j - 1) * m
  PROVE  v = w /\ i = j
<1>1. i - 1 \in Int /\ j - 1 \in Int
  OBVIOUS
<1> DEFINE x == i - 1
           y == j - 1
<1>2. x < y => x * m + m <= y * m
  BY <1>1, TimesGrows
<1>3. y < x => y * m + m <= x * m
  BY <1>1, TimesGrows
<1>4. x \in Int /\ y \in Int /\ v + x * m = w + y * m /\ x * m \in Int /\ y * m \in Int
  OBVIOUS
<1> HIDE DEF x, y
<1>5. x = y
  BY <1>2, <1>3, <1>4
<1>6. QED
  BY <1>4, <1>5 DEF x, y

\* n turns are those that come to an end by l.
Turns(n, m, w, l) == n \in Nat /\ \A i \in Nat \ {0} : i <= n <=> w + 1 + (i - 1) * m <= l

LEMMA TurnsEnd ==
  ASSUME NEW m \in Nat \ {0}, NEW w \in 0..(m - 1), NEW l \in Nat, NEW n, n = (l + m - 1 - w) \div m
  PROVE  Turns(n, m, w, l)
<1> DEFINE x == l + m - 1 - w
           r == x % m
<1>1. x \in Nat /\ r \in 0..(m - 1) /\ n \in Int /\ x = m * n + r
  OBVIOUS
<1>2. x = l + m - 1 - w
  OBVIOUS
<1> HIDE DEF x, r
<1>3. n \in Nat
  <2>1. n < 0 => n * m + m <= 0 * m
    BY <1>1, TimesGrows
  <2>2. QED
    BY <1>1, <2>1
<1>4. ASSUME NEW i \in Nat \ {0} PROVE i <= n <=> w + 1 + (i - 1) * m <= l
  <2>1. (i - 1) * m \in Int /\ n * m \in Int /\ n * m = m * n /\ i - 1 \in Int
    BY <1>3
  <2>2. i <= n => (i - 1) * m + m <= n * m
    BY <1>3, <2>1, TimesGrows
  <2>3. n < i => n * m <= (i - 1) * m
    <3>1. CASE n < i - 1
      BY <1>3, <2>1, <3>1, TimesGrows
    <3>2. CASE ~(n < i - 1)
      <4>1. n < i => n = i - 1
        BY <1>3, <3>2
      <4>2. QED
        BY <2>1, <4>1
    <3>3. QED
      BY <3>1, <3>2
  <2> DEFINE y == (i - 1) * m
             z == n * m
  <2>4. y \in Int /\ z \in Int /\ (i <= n => y + m <= z) /\ (n < i => z <= y) /\ x = z + r
    BY <1>1, <2>1, <2>2, <2>3
  <2> HIDE DEF y, z
  <2>5. i <= n <=> w + 1 + y <= l
    BY <1>1, <1>2, <1>3, <2>4
  <2>6. QED
    BY <2>5 DEF y
<1>5. QED
  BY <1>3, <1>4 DEF Turns

LEMMA DealtFacts ==
  ASSUME parallelism \in Nat \ {0}, source \in Seq(Seq(InRows)), NEW w \in 0..(parallelism - 1)
  PROVE  /\ Dealt(w) \in Seq(Seq(InRows))
         /\ \A i \in 1..Len(Dealt(w)) : BatchOf(w, i) \in 1..Len(source) /\ Dealt(w)[i] = source[BatchOf(w, i)]
         /\ \A i \in Nat \ {0} : BatchOf(w, i) <= Len(source) => i \in 1..Len(Dealt(w))
<1> DEFINE m == parallelism
           l == Len(source)
           n == (l + m - 1 - w) \div m
           E == Seq(InRows)
           dealt == [i \in 1..n |-> source[w + 1 + (i - 1) * m]]
<1>1. m \in Nat \ {0} /\ l \in Nat /\ w \in 0..(m - 1)
  OBVIOUS
<1>2. n \in Nat /\ \A i \in Nat \ {0} : i <= n <=> w + 1 + (i - 1) * m <= l
  <2>1. Turns(n, m, w, l)
    BY <1>1, TurnsEnd
  <2>2. QED
    BY <2>1 DEF Turns
<1>3. \A i \in Nat \ {0} : BatchOf(w, i) = w + 1 + (i - 1) * m
  BY DEF BatchOf
<1>4. Dealt(w) = dealt
  BY DEF Dealt
<1>5. source \in Seq(E)
  OBVIOUS
<1> HIDE DEF n, E
<1>6. ASSUME NEW i \in 1..n PROVE w + 1 + (i - 1) * m \in 1..l
  <2>1. i \in Nat \ {0} /\ i <= n
    BY <1>2
  <2>2. w + 1 + (i - 1) * m <= l
    BY <1>2, <2>1
  <2>3. (i - 1) * m \in Nat
    BY <1>1, <2>1
  <2>4. QED
    BY <1>1, <2>2, <2>3
<1> HIDE DEF m, l
<1>7. \A k \in 1..l : source[k] \in E
  BY <1>5 DEF l
<1>8. dealt \in Seq(E) /\ Len(dealt) = n
  BY <1>2, <1>6, <1>7
<1>9. \A i \in 1..n : dealt[i] = source[w + 1 + (i - 1) * m]
  OBVIOUS
<1> HIDE DEF dealt
<1>10. \A i \in 1..Len(Dealt(w)) : BatchOf(w, i) \in 1..l /\ Dealt(w)[i] = source[BatchOf(w, i)]
  <2>1. \A i \in 1..n : i \in Nat \ {0}
    OBVIOUS
  <2>2. QED
    BY <1>3, <1>4, <1>6, <1>8, <1>9, <2>1
<1>11. \A i \in Nat \ {0} : BatchOf(w, i) <= l => i \in 1..Len(Dealt(w))
  BY <1>2, <1>3, <1>4, <1>8
<1>12. QED
  BY <1>4, <1>8, <1>10, <1>11 DEF E, l

LEMMA DealtCovers ==
  ASSUME parallelism \in Nat \ {0}, source \in Seq(Seq(InRows)), NEW b \in 1..Len(source)
  PROVE  \E w \in 0..(parallelism - 1) : \E i \in 1..Len(Dealt(w)) : BatchOf(w, i) = b
<1> DEFINE m == parallelism
           w == (b - 1) % m
           i == ((b - 1) \div m) + 1
<1>1. m \in Nat \ {0} /\ b - 1 \in Nat
  OBVIOUS
<1>2. w \in 0..(m - 1) /\ i - 1 \in Int /\ b - 1 = m * (i - 1) + w
  <2>1. (b - 1) = m * ((b - 1) \div m) + ((b - 1) % m) /\ (b - 1) % m \in 0..(m - 1) /\ (b - 1) \div m \in Int
    BY <1>1
  <2>2. i - 1 = (b - 1) \div m
    BY <2>1
  <2>3. QED
    BY <2>1, <2>2
<1> HIDE DEF w
<1>3. i \in Nat \ {0}
  <2> DEFINE d == (b - 1) \div m
  <2>1. d \in Int /\ b - 1 = d * m + w
    BY <1>1, <1>2
  <2> HIDE DEF d
  <2>2. d < 0 => d * m + m <= 0 * m
    BY <1>1, <2>1, TimesGrows
  <2>3. d * m \in Int /\ 0 * m = 0
    BY <1>1, <2>1
  <2>4. d >= 0
    <3> DEFINE z == d * m
    <3>1. z \in Int /\ b - 1 = z + w /\ (d < 0 => z + m <= 0)
      BY <2>1, <2>2, <2>3
    <3> HIDE DEF z
    <3>2. QED
      BY <1>1, <1>2, <2>1, <3>1
  <2>5. QED
    BY <2>1, <2>4 DEF d
<1>4. BatchOf(w, i) = b
  <2>1. (i - 1) * m = m * (i - 1)
    BY <1>1, <1>2
  <2>2. QED
    BY <1>1, <1>2, <2>1 DEF BatchOf
<1> HIDE DEF i
<1>5. BatchOf(w, i) <= Len(source)
  BY <1>4
<1>6. w \in 0..(parallelism - 1)
  BY <1>2
<1>7. i \in 1..Len(Dealt(w))
  BY <1>3, <1>5, <1>6, DealtFacts
<1>8. QED
  BY <1>4, <1>6, <1>7
-----------------------------------------------------------------------------
(***************************************************************************)
(* The rows that groups become.                                            *)
(***************************************************************************)
LEMMA CountedValue ==
  ASSUME NEW R, NEW rows \in Seq(R), NEW is, is \subseteq DOMAIN rows, NEW name
  PROVE  /\ Aggregated("COUNT", rows, is, name) = Wrap(Cardinality(is))
         /\ Aggregated("AVG", rows, is, name) =
              IF Wrap(Cardinality(is)) = 0 THEN Null
              ELSE <<Total(rows, is, name), Wrap(Cardinality(is))>>
<1>1. Aggregated("COUNT", rows, is, name) = Wrap(Cardinality(is))
  BY DEF Aggregated
<1>2. CASE is = {}
  <2>1. Aggregated("AVG", rows, is, name) = Null
    BY <1>2 DEF Aggregated
  <2>2. Cardinality(is) = 0
    BY <1>2, FS_EmptySet
  <2>3. Wrap(0) = 0
    BY WrapFacts, HalfPositive DEF Int32
  <2>4. QED
    BY <1>1, <2>1, <2>2, <2>3
<1>3. CASE is # {}
  BY <1>1, <1>3 DEF Aggregated
<1>4. QED
  BY <1>2, <1>3

LEMMA FinalValueHolds ==
  ASSUME NEW R, NEW rows \in Seq(R), NEW is, is \subseteq DOMAIN rows, NEW name, NEW mode,
         NEW f \in AggregateFunctionKind, NEW acc, Holds(mode, f, acc, rows, is, name)
  PROVE  FinalValue(f, acc) = Aggregated(f, rows, is, name)
<1>1. CASE f \notin Counts
  BY <1>1 DEF FinalValue, Holds, Counts
<1>2. CASE f = "COUNT"
  BY <1>2, CountedValue DEF FinalValue, Holds
<1>3. CASE f = "AVG"
  BY <1>3, CountedValue DEF FinalValue, Holds
<1>4. QED
  BY <1>1, <1>2, <1>3 DEF Counts

LEMMA PartialValueHolds ==
  ASSUME NEW R, NEW rows \in Seq(R), NEW is, is \subseteq DOMAIN rows, NEW name,
         NEW f \in AggregateFunctionKind, NEW acc, Holds("Partial", f, acc, rows, is, name), HasPartial(f, acc)
  PROVE  /\ PartialValue(f, acc) = Aggregated(f, rows, is, name)
         /\ Brings("Final", f, PartialValue(f, acc), rows, is, name)
<1>1. CASE f \notin Counts
  BY <1>1 DEF PartialValue, Holds, Counts, Brings
<1>2. CASE f = "COUNT"
  BY <1>2, CountedValue DEF PartialValue, Holds, Brings
<1>3. CASE f = "AVG"
  BY <1>3, CountedValue DEF PartialValue, Holds, Brings, HasPartial
<1>4. QED
  BY <1>1, <1>2, <1>3 DEF Counts

LEMMA WholeMap ==
  ASSUME NEW q \in Asked, NEW rows \in Seq(InRows), NEW mode, NEW m,
         Represents(mode, q, m, rows, DOMAIN rows)
  PROVE  FinalRows(q, m) = Reference(q, rows)
<1> DEFINE Group(key) == [k \in DOMAIN q.aggs |-> FinalValue(q.aggs[k].func, m[key][k])]
           Whole(key) == [k \in DOMAIN q.aggs |-> Aggregated(q.aggs[k].func, rows, Places(q, k, rows, key), q.aggs[k].arg)]
<1>1. ASSUME NEW key \in DOMAIN m PROVE Group(key) = Whole(key)
  <2>1. ASSUME NEW k \in DOMAIN q.aggs
        PROVE  FinalValue(q.aggs[k].func, m[key][k]) = Aggregated(q.aggs[k].func, rows, Places(q, k, rows, key), q.aggs[k].arg)
    <3> DEFINE is == Places(q, k, rows, key)
               f == q.aggs[k].func
               name == q.aggs[k].arg
               acc == m[key][k]
    <3>1. is \subseteq DOMAIN rows /\ DOMAIN rows \cap is = is
      BY DEF Places
    <3>2. Holds(mode, f, acc, rows, is, name)
      BY <3>1 DEF Represents
    <3>3. f \in AggregateFunctionKind
      BY AskedFacts
    <3> HIDE DEF is, f, name, acc
    <3>4. FinalValue(f, acc) = Aggregated(f, rows, is, name)
      BY <3>1, <3>2, <3>3, FinalValueHolds
    <3>5. QED
      BY <3>4 DEF is, f, name, acc
  <2>2. QED
    BY <2>1
<1>2. DOMAIN m = {NamedKey(q, rows[i]) : i \in DOMAIN rows}
  BY DEF Represents, KeysAt
<1>3. FinalRows(q, m) = {key \o Group(key) : key \in DOMAIN m}
  BY DEF FinalRows
<1>4. Reference(q, rows) = {key \o Whole(key) : key \in {NamedKey(q, rows[i]) : i \in DOMAIN rows}}
  BY DEF Reference
<1> HIDE DEF Group, Whole
<1>5. QED
  BY <1>1, <1>2, <1>3, <1>4

LEMMA WholePartialMap ==
  ASSUME NEW q \in Asked, NEW rows \in Seq(InRows), NEW m,
         Represents("Partial", q, m, rows, DOMAIN rows), MapHasPartials(q, m)
  PROVE  PartialRows(q, m) = Reference(q, rows)
<1> DEFINE Group(key) == [k \in DOMAIN q.aggs |-> PartialValue(q.aggs[k].func, m[key][k])]
           Whole(key) == [k \in DOMAIN q.aggs |-> Aggregated(q.aggs[k].func, rows, Places(q, k, rows, key), q.aggs[k].arg)]
<1>1. ASSUME NEW key \in DOMAIN m PROVE Group(key) = Whole(key)
  <2>1. ASSUME NEW k \in DOMAIN q.aggs
        PROVE  PartialValue(q.aggs[k].func, m[key][k]) = Aggregated(q.aggs[k].func, rows, Places(q, k, rows, key), q.aggs[k].arg)
    <3> DEFINE is == Places(q, k, rows, key)
               f == q.aggs[k].func
               name == q.aggs[k].arg
               acc == m[key][k]
    <3>1. is \subseteq DOMAIN rows /\ DOMAIN rows \cap is = is
      BY DEF Places
    <3>2. Holds("Partial", f, acc, rows, is, name)
      BY <3>1 DEF Represents
    <3>3. f \in AggregateFunctionKind /\ HasPartial(f, acc)
      BY AskedFacts DEF MapHasPartials
    <3> HIDE DEF is, f, name, acc
    <3>4. PartialValue(f, acc) = Aggregated(f, rows, is, name)
      BY <3>1, <3>2, <3>3, PartialValueHolds
    <3>5. QED
      BY <3>4 DEF is, f, name, acc
  <2>2. QED
    BY <2>1
<1>2. DOMAIN m = {NamedKey(q, rows[i]) : i \in DOMAIN rows}
  BY DEF Represents, KeysAt
<1>3. PartialRows(q, m) = {key \o Group(key) : key \in DOMAIN m}
  BY DEF PartialRows
<1>4. Reference(q, rows) = {key \o Whole(key) : key \in {NamedKey(q, rows[i]) : i \in DOMAIN rows}}
  BY DEF Reference
<1> HIDE DEF Group, Whole
<1>5. QED
  BY <1>1, <1>2, <1>3, <1>4

\* A group's row begins with its key.
LEMMA RowOfFacts ==
  ASSUME NEW q \in Asked, NEW m \in Maps(q), NEW key \in DOMAIN m
  PROVE  /\ RowOf(q, m, key) \in Seq(Cells)
         /\ \A i \in DOMAIN q.group : RowOf(q, m, key)[i] = key[i]
         /\ \A k \in DOMAIN q.aggs :
              RowOf(q, m, key)[GroupCount(q) + k] = PartialValue(q.aggs[k].func, m[key][k])
<1> DEFINE g == Len(q.group)
           n == Len(q.aggs)
           vals == [k \in DOMAIN q.aggs |-> PartialValue(q.aggs[k].func, m[key][k])]
<1>1. DOMAIN q.group = 1..g /\ g \in Nat /\ DOMAIN q.aggs = 1..n /\ n \in Nat
  BY AskedFacts
<1>2. key \in [1..g -> Cells]
  BY <1>1, MapFacts DEF Keys
<1>3. ASSUME NEW k \in 1..n PROVE PartialValue(q.aggs[k].func, m[key][k]) \in Cells
  <2>1. m[key][k] \in Accs
    BY <1>1, MapFacts
  <2>2. q.aggs[k].func \in AggregateFunctionKind
    BY <1>1, AskedFacts
  <2>3. QED
    BY <2>1, <2>2 DEF PartialValue, Accs, Cells, AggregateFunctionKind
<1>4. vals \in [1..n -> Cells] /\ \A k \in 1..n : vals[k] = PartialValue(q.aggs[k].func, m[key][k])
  BY <1>1, <1>3
<1>5. RowOf(q, m, key) = key \o vals /\ GroupCount(q) = g
  BY DEF RowOf, GroupCount
<1> HIDE DEF vals, g, n
<1>6. key \in Seq(Cells) /\ Len(key) = g /\ vals \in Seq(Cells) /\ Len(vals) = n
  BY <1>1, <1>2, <1>4
<1>7. /\ key \o vals \in Seq(Cells)
      /\ \A i \in 1..g : (key \o vals)[i] = key[i]
      /\ \A k \in 1..n : (key \o vals)[g + k] = vals[k]
  BY <1>1, <1>6
<1>8. QED
  BY <1>1, <1>4, <1>5, <1>7

LEMMA RowOfKey ==
  ASSUME NEW q \in Asked, NEW m \in Maps(q), NEW a \in DOMAIN m, NEW b \in DOMAIN m,
         RowOf(q, m, a) = RowOf(q, m, b)
  PROVE  a = b
<1> DEFINE G == DOMAIN q.group
<1>1. \A i \in G : a[i] = b[i]
  BY RowOfFacts
<1>2. a \in [G -> Cells] /\ b \in [G -> Cells]
  BY MapFacts DEF Keys
<1> HIDE DEF G
<1>3. QED
  BY <1>1, <1>2

\* It stands for the places of the group.
PlacesOf(q, rows, S, key) == {i \in S : NamedKey(q, rows[i]) = key}

LEMMA RowOfStands ==
  ASSUME NEW q \in Asked, Aligned(q), NEW rows \in Seq(InRows), NEW S, S \subseteq DOMAIN rows,
         NEW m \in Maps(q), Represents("Partial", q, m, rows, S), MapHasPartials(q, m), NEW key \in DOMAIN m
  PROVE  /\ Stands("Final", q, RowOf(q, m, key), rows, key, PlacesOf(q, rows, S, key))
         /\ RowMerges(q, RowOf(q, m, key))
<1> DEFINE row == RowOf(q, m, key)
           js == PlacesOf(q, rows, S, key)
<1>1. js \subseteq DOMAIN rows /\ \A i \in js : NamedKey(q, rows[i]) = key
  BY DEF PlacesOf
<1>2. js # {}
  BY DEF Represents, KeysAt, PlacesOf
<1>3. KeyOf(q, row) = key
  <2> DEFINE G == DOMAIN q.group
  <2>1. KeyOf(q, row) = [i \in G |-> row[i]]
    BY DEF KeyOf, Aligned
  <2>2. key \in [G -> Cells]
    BY MapFacts DEF Keys
  <2>3. \A i \in G : row[i] = key[i]
    BY RowOfFacts
  <2> HIDE DEF G, row
  <2>4. QED
    BY <2>1, <2>2, <2>3
<1>4. ASSUME NEW k \in DOMAIN q.aggs
      PROVE  /\ Brings("Final", q.aggs[k].func, ArgOf(q, k, row), rows, js \cap Places(q, k, rows, key), q.aggs[k].arg)
             /\ CanMerge(q.aggs[k].func, ArgOf(q, k, row))
  <2> DEFINE is == S \cap Places(q, k, rows, key)
             f == q.aggs[k].func
             name == q.aggs[k].arg
             acc == m[key][k]
  <2>1. js \cap Places(q, k, rows, key) = is /\ is \subseteq DOMAIN rows
    BY DEF PlacesOf, Places
  <2>2. Holds("Partial", f, acc, rows, is, name)
    BY DEF Represents
  <2>3. f \in AggregateFunctionKind /\ HasPartial(f, acc)
    BY AskedFacts DEF MapHasPartials
  <2>4. ArgOf(q, k, row) = PartialValue(f, acc)
    BY RowOfFacts DEF ArgOf, Aligned
  <2>5. PartialValue(f, acc) = Null \/ f # "AVG"
    BY DEF PartialValue
  <2> HIDE DEF is, f, name, acc, js, row
  <2>6. Brings("Final", f, PartialValue(f, acc), rows, is, name)
    BY <2>1, <2>2, <2>3, PartialValueHolds
  <2>7. QED
    BY <2>1, <2>4, <2>5, <2>6 DEF f, name, CanMerge
<1> HIDE DEF row, js
<1>5. QED
  BY <1>1, <1>2, <1>3, <1>4 DEF Stands, RowMerges, row, js
-----------------------------------------------------------------------------
(***************************************************************************)
(* Facts about states.                                                     *)
(***************************************************************************)
LEMMA TypeFacts ==
  ASSUME TypeInv
  PROVE  /\ query \in Asked /\ source \in Seq(Seq(InRows)) /\ Rows \in Seq(InRows)
         /\ parallelism \in Nat /\ 0 \in Workers
         /\ \A w \in 0..(parallelism - 1) : w \in Workers
<1>1. query \in Asked
  BY QueriesAssumption DEF TypeInv, Asked
<1>2. source \in Seq(Seq(InRows))
  BY SourcesAssumption DEF TypeInv, InRows, Cells
<1>3. parallelism \in 0..MaxWorkers /\ MaxWorkers \in Nat \ {0}
  BY ParallelismAssumption DEF TypeInv
<1>4. QED
  BY <1>1, <1>2, <1>3, FlattenProperties DEF Rows, Workers

LEMMA GivenStays ==
  ASSUME UNCHANGED given
  PROVE  /\ Rows' = Rows /\ (Several <=> Several') /\ (Checked <=> Checked')
         /\ build' = build /\ parallelism' = parallelism /\ query' = query /\ source' = source
         /\ \A w : Dealt(w)' = Dealt(w) /\ Mine(w)' = Mine(w)
         /\ \A w, n : Read(w, n)' = Read(w, n)
         /\ (Averages <=> Averages') /\ (CountOverflows <=> CountOverflows')
<1>1. build' = build /\ parallelism' = parallelism /\ query' = query /\ source' = source
  BY DEF given
<1>2. Rows' = Rows
  BY <1>1 DEF Rows
<1>3. ASSUME NEW w PROVE Dealt(w)' = Dealt(w)
  BY <1>1 DEF Dealt
<1>4. ASSUME NEW w, NEW n PROVE Read(w, n)' = Read(w, n)
  BY <1>1 DEF Read, BatchOf
<1>5. ASSUME NEW w PROVE Mine(w)' = Mine(w)
  BY <1>3, <1>4 DEF Mine
<1>6. (Several <=> Several') /\ (Checked <=> Checked')
  BY <1>1 DEF Several, Checked
<1>7. Averages <=> Averages'
  BY <1>1, <1>2 DEF Averages
<1>8. CountOverflows <=> CountOverflows'
  BY <1>1, <1>2 DEF CountOverflows
<1>9. QED
  BY <1>1, <1>2, <1>3, <1>4, <1>5, <1>6, <1>7, <1>8

LEMMA NothingRead ==
  ASSUME NEW q, NEW rows, NEW mode
  PROVE  /\ NoGroups \in Maps(q) /\ Represents(mode, q, NoGroups, rows, {}) /\ Fits(q, rows, {})
         /\ FinalRows(q, NoGroups) = {} /\ PartialRows(q, NoGroups) = {}
<1>1. DOMAIN NoGroups = {}
  BY DEF NoGroups
<1>2. NoGroups \in Maps(q)
  <2> DEFINE A == [DOMAIN q.aggs -> Accs]
  <2>1. NoGroups \in [{} -> A] /\ {} \in SUBSET Keys(q)
    BY DEF NoGroups
  <2> HIDE DEF A
  <2>2. QED
    BY <2>1 DEF Maps, A
<1>3. KeysAt(q, rows, {}) = {}
  BY DEF KeysAt
<1>4. Represents(mode, q, NoGroups, rows, {})
  BY <1>1, <1>3 DEF Represents
<1>5. Fits(q, rows, {})
  BY <1>3 DEF Fits
<1>6. FinalRows(q, NoGroups) = {} /\ PartialRows(q, NoGroups) = {}
  BY <1>1 DEF FinalRows, PartialRows
<1>7. QED
  BY <1>2, <1>4, <1>5, <1>6

LEMMA ReadFacts ==
  ASSUME parallelism \in Nat \ {0}, source \in Seq(Seq(InRows)), NEW w \in 0..(parallelism - 1),
         NEW n \in 0..Len(Dealt(w))
  PROVE  /\ Read(w, 0) = {} /\ Read(w, n) \subseteq DOMAIN Rows
         /\ n + 1 \in 1..Len(Dealt(w)) =>
              /\ Read(w, n + 1) = Read(w, n) \cup Segment(source, BatchOf(w, n + 1))
              /\ Read(w, n) \cap Segment(source, BatchOf(w, n + 1)) = {}
<1> DEFINE L == Len(Dealt(w))
<1>1. Dealt(w) \in Seq(Seq(InRows)) /\ \A i \in 1..L : BatchOf(w, i) \in 1..Len(source)
  BY DealtFacts
<1>2. L \in Nat
  <2> DEFINE E == Seq(InRows)
  <2>1. Dealt(w) \in Seq(E)
    BY <1>1
  <2> HIDE DEF E
  <2>2. QED
    BY <2>1
<1>3. n \in 0..L
  OBVIOUS
<1> HIDE DEF L
<1>4. Read(w, 0) = {}
  <2>1. 1..0 = {}
    OBVIOUS
  <2>2. QED
    BY <2>1 DEF Read
<1>5. ASSUME NEW b \in 1..Len(source) PROVE Segment(source, b) \subseteq DOMAIN Rows
  <2>1. Before(source, b - 1) \in Nat /\ Before(source, b) <= Len(Rows)
    BY SegmentRows DEF Rows
  <2>2. Before(source, b) \in Int
    BY SegmentRows, SMTT(30)
  <2>3. Rows \in Seq(InRows)
    BY FlattenProperties DEF Rows
  <2>4. DOMAIN Rows = 1..Len(Rows) /\ Len(Rows) \in Nat
    BY <2>3
  <2>5. QED
    BY <2>1, <2>2, <2>4 DEF Segment
<1>6. Read(w, n) \subseteq DOMAIN Rows
  <2>1. \A i \in 1..n : BatchOf(w, i) \in 1..Len(source)
    BY <1>1, <1>2, <1>3
  <2>2. QED
    BY <1>5, <2>1 DEF Read
<1>7. ASSUME n + 1 \in 1..L
      PROVE  /\ Read(w, n + 1) = Read(w, n) \cup Segment(source, BatchOf(w, n + 1))
             /\ Read(w, n) \cap Segment(source, BatchOf(w, n + 1)) = {}
  <2>1. 1..(n + 1) = (1..n) \cup {n + 1}
    BY <1>2, <1>3
  <2>2. Read(w, n + 1) = Read(w, n) \cup Segment(source, BatchOf(w, n + 1))
    BY <2>1 DEF Read
  <2>3. ASSUME NEW i \in 1..n
        PROVE  Segment(source, BatchOf(w, i)) \cap Segment(source, BatchOf(w, n + 1)) = {}
    <3>1. i \in 1..L /\ i # n + 1 /\ i \in Int /\ n + 1 \in Int
      BY <1>2, <1>3
    <3>2. BatchOf(w, i) # BatchOf(w, n + 1)
      <4> DEFINE j == n + 1
      <4>1. j \in Int
        BY <3>1
      <4> HIDE DEF j
      <4>2. BatchOf(w, i) = BatchOf(w, j) => i = j
        BY <3>1, <4>1, TurnsUnique DEF BatchOf
      <4>3. QED
        BY <3>1, <4>2 DEF j
    <3>3. BatchOf(w, i) \in 1..Len(source) /\ BatchOf(w, n + 1) \in 1..Len(source)
      BY <1>1, <1>7, <3>1
    <3>4. QED
      BY <3>2, <3>3, SegmentsDisjoint
  <2>4. Read(w, n) \cap Segment(source, BatchOf(w, n + 1)) = {}
    BY <2>3 DEF Read
  <2>5. QED
    BY <2>2, <2>4
<1>8. QED
  BY <1>4, <1>6, <1>7 DEF L

LEMMA MineFacts ==
  ASSUME parallelism \in Nat \ {0}, source \in Seq(Seq(InRows))
  PROVE  /\ \A w \in 0..(parallelism - 1) : Mine(w) \subseteq DOMAIN Rows
         /\ \A i \in DOMAIN Rows : \E w \in 0..(parallelism - 1) : i \in Mine(w)
         /\ \A v, w \in 0..(parallelism - 1) : v # w => Mine(v) \cap Mine(w) = {}
<1> DEFINE W == 0..(parallelism - 1)
<1>1. ASSUME NEW w \in W PROVE Mine(w) \subseteq DOMAIN Rows /\ Len(Dealt(w)) \in Nat
  <2> DEFINE E == Seq(InRows)
  <2>1. Dealt(w) \in Seq(E)
    BY DealtFacts
  <2> HIDE DEF E
  <2>2. Len(Dealt(w)) \in Nat
    BY <2>1
  <2>3. Len(Dealt(w)) \in 0..Len(Dealt(w))
    BY <2>2
  <2>4. QED
    BY <2>2, <2>3, ReadFacts DEF Mine
<1>2. ASSUME NEW i \in DOMAIN Rows PROVE \E w \in W : i \in Mine(w)
  <2>1. Rows \in Seq(InRows) /\ Rows = FlattenSeq(source)
    BY FlattenProperties DEF Rows
  <2>2. i \in 1..Len(FlattenSeq(source))
    BY <2>1
  <2>3. PICK b \in 1..Len(source) : i \in Segment(source, b)
    BY <2>2, SegmentsCover
  <2>4. PICK w \in W : \E j \in 1..Len(Dealt(w)) : BatchOf(w, j) = b
    BY DealtCovers
  <2>5. i \in Mine(w)
    BY <2>3, <2>4 DEF Mine, Read
  <2>6. QED
    BY <2>5
<1>3. ASSUME NEW v \in W, NEW w \in W, v # w PROVE Mine(v) \cap Mine(w) = {}
  <2>1. ASSUME NEW i \in 1..Len(Dealt(v)), NEW j \in 1..Len(Dealt(w))
        PROVE  Segment(source, BatchOf(v, i)) \cap Segment(source, BatchOf(w, j)) = {}
    <3>1. i \in Int /\ j \in Int
      BY <1>1
    <3>2. BatchOf(v, i) # BatchOf(w, j)
      <4>1. v \in W /\ w \in W /\ v # w
        BY <1>3
      <4>2. ASSUME BatchOf(v, i) = BatchOf(w, j) PROVE v = w
        <5> DEFINE m == parallelism
        <5>1. m \in Nat \ {0} /\ v \in 0..(m - 1) /\ w \in 0..(m - 1)
          BY <4>1
        <5>2. v + 1 + (i - 1) * m = w + 1 + (j - 1) * m
          BY <4>2 DEF BatchOf
        <5> HIDE DEF m
        <5>3. QED
          BY ONLY <3>1, <5>1, <5>2, TurnsUnique
      <4>3. QED
        BY <4>1, <4>2
    <3>3. BatchOf(v, i) \in 1..Len(source) /\ BatchOf(w, j) \in 1..Len(source)
      BY DealtFacts
    <3>4. QED
      BY <3>2, <3>3, SegmentsDisjoint
  <2>2. QED
    BY <2>1 DEF Mine, Read
<1>4. QED
  BY <1>1, <1>2, <1>3

\* A batch of a sequence of batches is fed.
LEMMA NextBatch ==
  ASSUME NEW q \in Asked, NEW all \in Seq(Seq(InRows)), NEW left \in Seq(Seq(InRows)),
         IsRest(left, all), left # <<>>, NEW mode, mode # "Final", NEW m \in Maps(q),
         NEW batch, batch = [i \in DOMAIN Head(left) |-> Scan(q, Head(left)[i])],
         NEW S, S = 1..Before(all, Gone(all, left)), NEW T, T = 1..Before(all, Gone(all, Tail(left))),
         Represents(mode, q, m, FlattenSeq(all), S)
  PROVE  /\ FeedBatch(mode, q, m, batch) \in Maps(q) /\ batch \in Seq(CellRows(q))
         /\ Represents(mode, q, FeedBatch(mode, q, m, batch), FlattenSeq(all), T)
         /\ Fits(q, FlattenSeq(all), S) =>
              IF BatchOverflows(mode, q, m, batch) THEN Exceeds(q, FlattenSeq(all))
              ELSE Fits(q, FlattenSeq(all), T)
<1> DEFINE E == Seq(InRows)
           rows == FlattenSeq(all)
           b == Gone(all, left) + 1
           o == Before(all, b - 1)
           n == Len(batch)
<1>1. all \in Seq(E) /\ left \in Seq(E)
  OBVIOUS
<1> HIDE DEF E
<1>2. /\ Gone(all, left) \in 0..Len(all) /\ b \in 1..Len(all) /\ Head(left) = all[b]
      /\ Gone(all, Tail(left)) = b /\ Len(all) \in Nat
  BY <1>1, RestFacts
<1>3. b - 1 = Gone(all, left)
  BY <1>2
<1> HIDE DEF b
<1>4. /\ batch \in Seq(CellRows(q)) /\ Supplies(q, batch, rows, o)
      /\ Segment(all, b) = (o + 1)..(o + n)
  BY <1>2, SegmentSupplies
<1>5. rows \in Seq(InRows)
  BY FlattenProperties
<1>6. o \in Nat /\ Before(all, b) = o + Len(all[b]) /\ o <= Len(rows) /\ Len(all[b]) \in Nat
  <2>1. all[b] \in E
    BY <1>1, <1>2
  <2>2. Len(all[b]) \in Nat
    BY <2>1 DEF E
  <2>3. o \in Nat /\ Before(all, b) = o + Len(all[b]) /\ Before(all, b) <= Len(rows) /\ Len(rows) \in Nat
    BY <1>2, <1>5, SegmentRows
  <2>4. QED
    BY <2>2, <2>3
<1>7. n = Len(all[b])
  BY <1>2, <1>4
<1>8. S = 1..o /\ T = 1..(o + n)
  BY <1>2, <1>3, <1>6, <1>7
<1>9. DOMAIN rows = 1..Len(rows) /\ Len(rows) \in Nat
  BY <1>5
<1> HIDE DEF o, rows, n
<1>10. S \subseteq DOMAIN rows /\ S \cap ((o + 1)..(o + n)) = {} /\ S \cup ((o + 1)..(o + n)) = T
  <2>1. o \in Nat /\ n \in Nat
    BY <1>6, <1>7
  <2>2. 1..o \subseteq 1..Len(rows)
    BY <1>6, <1>9
  <2>3. (1..o) \cap ((o + 1)..(o + n)) = {}
    BY ONLY <2>1
  <2>4. (1..o) \cup ((o + 1)..(o + n)) = 1..(o + n)
    BY ONLY <2>1
  <2>5. QED
    BY <1>8, <1>9, <2>2, <2>3, <2>4
<1>11. Represents(mode, q, m, rows, S)
  BY DEF rows
<1>12. n = Len(batch)
  BY DEF n
<1>13. /\ FeedBatch(mode, q, m, batch) \in Maps(q)
       /\ Represents(mode, q, FeedBatch(mode, q, m, batch), rows, S \cup ((o + 1)..(o + n)))
       /\ Fits(q, rows, S) =>
            IF BatchOverflows(mode, q, m, batch) THEN Exceeds(q, rows)
            ELSE Fits(q, rows, S \cup ((o + 1)..(o + n)))
  BY <1>4, <1>5, <1>10, <1>11, <1>12, BatchRepresents
<1>14. QED
  BY <1>4, <1>10, <1>13 DEF rows

\* A worker is fed its next batch, which is one of the input's too.
LEMMA NextDealt ==
  ASSUME TypeInv, Several, NEW w \in 0..(parallelism - 1), WorkInv(w), bucket[w] # <<>>,
         NEW batch, batch = Scanned(Head(bucket[w])), NEW n, n = Gone(Dealt(w), Tail(bucket[w])),
         NEW m, m = FeedBatch("Partial", query, partial[w], batch)
  PROVE  /\ m \in Maps(query) /\ IsRest(Tail(bucket[w]), Dealt(w))
         /\ Represents("Partial", query, m, FlattenSeq(Dealt(w)), 1..Before(Dealt(w), n))
         /\ Represents("Partial", query, m, Rows, Read(w, n))
         /\ Checked => IF BatchOverflows("Partial", query, partial[w], batch) THEN Exceeds(query, Rows)
                       ELSE Fits(query, Rows, Read(w, n))
<1> DEFINE E == Seq(InRows)
           all == Dealt(w)
           left == bucket[w]
           g == Gone(all, left)
           S == Read(w, g)
<1>1. /\ query \in Asked /\ source \in Seq(E) /\ Rows \in Seq(InRows) /\ w \in Workers
      /\ parallelism \in Nat \ {0}
  BY TypeFacts DEF Several
<1>2. all \in Seq(E) /\ \A i \in 1..Len(all) : BatchOf(w, i) \in 1..Len(source) /\ all[i] = source[BatchOf(w, i)]
  BY <1>1, DealtFacts
<1>3. left \in Seq(E) /\ partial[w] \in Maps(query)
  BY <1>1 DEF TypeInv
<1>4. /\ IsRest(left, all) /\ left # <<>>
      /\ Represents("Partial", query, partial[w], FlattenSeq(all), 1..Before(all, g))
      /\ Represents("Partial", query, partial[w], Rows, S)
      /\ Checked => Fits(query, Rows, S)
  BY DEF WorkInv
<1>5. batch = [i \in DOMAIN Head(left) |-> Scan(query, Head(left)[i])]
  BY DEF Scanned
<1>6. /\ m \in Maps(query) /\ batch \in Seq(CellRows(query))
      /\ Represents("Partial", query, m, FlattenSeq(all), 1..Before(all, n))
  <2> HIDE DEF all, left, g, S
  <2>1. PICK mode : mode = "Partial"
    OBVIOUS
  <2>2. mode # "Final" /\ m = FeedBatch(mode, query, partial[w], batch)
    BY <2>1
  <2>3. n = Gone(all, Tail(left)) /\ g = Gone(all, left)
    BY DEF all, left, g
  <2>4. Represents(mode, query, partial[w], FlattenSeq(all), 1..Before(all, g))
    BY <1>4, <2>1
  <2>5. all \in Seq(Seq(InRows)) /\ left \in Seq(Seq(InRows))
    BY <1>2, <1>3 DEF E
  <2>6. /\ m \in Maps(query) /\ batch \in Seq(CellRows(query))
        /\ Represents(mode, query, m, FlattenSeq(all), 1..Before(all, n))
    BY <1>1, <1>3, <1>4, <1>5, <2>2, <2>3, <2>4, <2>5, NextBatch
  <2>7. QED
    BY <2>1, <2>6
<1> HIDE DEF E
<1>7. /\ g \in 0..Len(all) /\ g + 1 \in 1..Len(all) /\ Head(left) = all[g + 1]
      /\ IsRest(Tail(left), all) /\ n = g + 1
  BY <1>2, <1>3, <1>4, RestFacts
<1> DEFINE b == BatchOf(w, n)
           o == Before(source, b - 1)
<1>8. b \in 1..Len(source) /\ Head(left) = source[b]
  BY <1>2, <1>7
<1>9. /\ S \subseteq DOMAIN Rows /\ Read(w, n) = S \cup Segment(source, b) /\ S \cap Segment(source, b) = {}
  BY <1>1, <1>7, ReadFacts DEF E
<1> HIDE DEF all, left, g, S, b
<1>10. /\ Supplies(query, batch, Rows, o)
       /\ Segment(source, b) = (o + 1)..(o + Len(batch))
  BY <1>1, <1>5, <1>8, SegmentSupplies DEF E, Rows
<1> HIDE DEF o
<1>11. /\ Represents("Partial", query, m, Rows, Read(w, n))
       /\ Fits(query, Rows, S) => IF BatchOverflows("Partial", query, partial[w], batch) THEN Exceeds(query, Rows)
                                  ELSE Fits(query, Rows, Read(w, n))
  <2> DEFINE k == Len(batch)
             p == partial[w]
  <2>1. k = Len(batch)
    OBVIOUS
  <2> HIDE DEF k
  <2>2. PICK mode : mode = "Partial"
    OBVIOUS
  <2>3. mode # "Final" /\ Represents(mode, query, p, Rows, S)
    BY <1>4, <2>2
  <2>4. S \cap ((o + 1)..(o + k)) = {} /\ S \cup ((o + 1)..(o + k)) = Read(w, n)
    BY <1>9, <1>10, <2>1
  <2>5. p \in Maps(query) /\ m = FeedBatch(mode, query, p, batch)
    BY <1>3, <2>2
  <2> HIDE DEF p
  <2>6. /\ Represents(mode, query, FeedBatch(mode, query, p, batch), Rows, S \cup ((o + 1)..(o + k)))
        /\ Fits(query, Rows, S) => IF BatchOverflows(mode, query, p, batch) THEN Exceeds(query, Rows)
                                   ELSE Fits(query, Rows, S \cup ((o + 1)..(o + k)))
    BY <1>1, <1>6, <1>9, <1>10, <2>1, <2>3, <2>4, <2>5, BatchRepresents
  <2>7. QED
    BY <2>2, <2>4, <2>5, <2>6 DEF p
<1>12. QED
  BY <1>4, <1>6, <1>7, <1>11 DEF all, left

(***************************************************************************)
(* The steps of the workers.                                               *)
(***************************************************************************)
LEMMA InitInv == Init => Inv
<1> SUFFICES ASSUME Init PROVE Inv
  OBVIOUS
<1>1. NoGroups \in Maps(query)
  BY NothingRead
<1>2. TypeInv
  <2>1. <<>> \in Seq(Seq(InRows)) /\ {} \in SUBSET Seq(Cells)
    OBVIOUS
  <2>2. 0 \in 0..MaxErrors
    BY ErrorsAssumption
  <2>3. QED
    BY <1>1, <2>1, <2>2 DEF Init, TypeInv
<1>3. StartInv
  BY DEF Init, StartInv
<1>4. SingleInv /\ WorkerInv /\ PartialInv /\ MergeInv /\ PhaseInv
  BY DEF Init, SingleInv, WorkerInv, PartialInv, MergeInv, PhaseInv
<1>5. QED
  BY <1>2, <1>3, <1>4 DEF Inv

\* Workers are busy before the partial results are collected, and after a
\* failure.
LEMMA Busy ==
  ASSUME Inv, NEW w \in Workers, worker[w] \in {"waiting", "running"}
  PROVE  phase \in {"partial", "failed", "panicked"}
<1>1. phase # "start"
  BY DEF Inv, StartInv
<1>2. phase # "single"
  BY DEF Inv, SingleInv, PhaseInv
<1>3. phase # "final"
  BY DEF Inv, MergeInv, PhaseInv
<1>4. phase # "done"
  BY DEF Inv, MergeInv, SingleInv
<1>5. QED
  BY <1>1, <1>2, <1>3, <1>4 DEF Inv, TypeInv, Ended

LEMMA Over ==
  ASSUME TypeInv', PhaseInv', phase' \in {"failed", "panicked"}
  PROVE  Inv'
BY DEF Inv, StartInv, SingleInv, WorkerInv, PartialInv, MergeInv

LEMMA AfterTheEnd ==
  ASSUME Inv, phase \in {"failed", "panicked"}, UNCHANGED <<given, phase>>, TypeInv', errors' >= errors
  PROVE  Inv'
<1>1. /\ query' = query /\ (Several <=> Several') /\ (Checked <=> Checked')
      /\ (Averages <=> Averages') /\ (CountOverflows <=> CountOverflows')
  BY GivenStays
<1>2. errors \in Int /\ errors' \in Int
  BY ErrorsAssumption DEF Inv, TypeInv
<1>3. PhaseInv'
  BY <1>1, <1>2 DEF Inv, PhaseInv
<1>4. QED
  BY <1>3, Over

LEMMA StillPartial ==
  ASSUME Inv, phase = "partial", UNCHANGED <<given, phase, map, answer>>, TypeInv',
         \A v \in Workers : StatusInv(v)',
         \A v \in Workers : worker'[v] = "done" => output'[v] = PartialRows(query, partial'[v]),
         \A v \in 0..(parallelism - 1) : WorkInv(v)'
  PROVE  Inv'
<1>1. query' = query /\ parallelism' = parallelism /\ phase' = "partial" /\ (Several <=> Several')
  BY GivenStays
<1>2. StartInv' /\ SingleInv' /\ MergeInv'
  BY <1>1 DEF StartInv, SingleInv, MergeInv
<1>3. WorkerInv'
  BY <1>1 DEF WorkerInv
<1>4. PartialInv'
  BY <1>1 DEF Inv, PartialInv
<1>5. PhaseInv'
  BY <1>1 DEF Inv, PhaseInv
<1>6. QED
  BY <1>2, <1>3, <1>4, <1>5 DEF Inv

\* What a step of one worker leaves of the others.
LEMMA WorkStays ==
  ASSUME UNCHANGED given, NEW v, bucket'[v] = bucket[v], partial'[v] = partial[v], WorkInv(v)
  PROVE  WorkInv(v)'
<1>1. /\ query' = query /\ Dealt(v)' = Dealt(v) /\ Rows' = Rows /\ (Checked <=> Checked')
      /\ \A n : Read(v, n)' = Read(v, n)
  BY GivenStays
<1> DEFINE n == Gone(Dealt(v), bucket[v])
<1>2. Gone(Dealt(v), bucket[v])' = n
  BY <1>1 DEF Gone
<1>3. IsRest(bucket[v], Dealt(v))' <=> IsRest(bucket[v], Dealt(v))
  BY <1>1 DEF IsRest, Gone
<1>4. Read(v, Gone(Dealt(v), bucket[v]))' = Read(v, n)
  <2>1. Read(v, Gone(Dealt(v), bucket[v]))' = Read(v, n)'
    BY <1>2 DEF Read, BatchOf
  <2>2. QED
    BY <1>1, <1>2, <2>1
<1>5. QED
  BY <1>1, <1>2, <1>3, <1>4 DEF WorkInv

LEMMA StatusStays ==
  ASSUME UNCHANGED given, NEW v, worker'[v] = worker[v], bucket'[v] = bucket[v], partial'[v] = partial[v],
         output'[v] = output[v], errors \in Nat, errors' \in Nat, errors' >= errors, StatusInv(v)
  PROVE  StatusInv(v)'
<1>1. /\ query' = query /\ parallelism' = parallelism /\ Dealt(v)' = Dealt(v) /\ (Checked <=> Checked')
      /\ (Averages <=> Averages') /\ (CountOverflows <=> CountOverflows')
  BY GivenStays
<1>2. QED
  BY <1>1 DEF StatusInv

LEMMA InPartial ==
  ASSUME Inv, phase = "partial"
  PROVE  /\ Several /\ TypeInv /\ (\A v \in Workers : StatusInv(v)) /\ (\A v \in 0..(parallelism - 1) : WorkInv(v))
         /\ \A v \in Workers : worker[v] = "done" => output[v] = PartialRows(query, partial[v])
         /\ errors \in Nat
<1>1. Several
  BY DEF Inv, PhaseInv
<1>2. errors \in Nat
  BY ErrorsAssumption DEF Inv, TypeInv
<1>3. QED
  BY <1>1, <1>2 DEF Inv, WorkerInv, PartialInv

LEMMA StartWorkerInv ==
  ASSUME Inv, NEW w \in Workers, StartWorker(w)
  PROVE  Inv'
<1>1. phase = "partial" /\ worker[w] = "waiting" /\ UNCHANGED <<given, phase, bucket, partial, output, map, answer, errors>>
  BY DEF StartWorker
<1>2. worker' = [worker EXCEPT ![w] = "running"] /\ worker \in [Workers -> {"none", "waiting", "running", "done", "failed", "panicked"}]
  BY DEF StartWorker, Inv, TypeInv
<1>3. TypeInv'
  BY <1>1, <1>2, TypeFacts DEF Inv, TypeInv, given
<1>4. ASSUME NEW v \in Workers PROVE StatusInv(v)'
  <2>1. CASE v = w
    <3>1. StatusInv(w)
      BY <1>1, InPartial
    <3>2. /\ parallelism' = parallelism /\ Dealt(w)' = Dealt(w)
      BY <1>1, GivenStays
    <3>3. worker'[w] = "running" /\ output'[w] = output[w]
      BY <1>1, <1>2
    <3>4. QED
      BY <1>1, <2>1, <3>1, <3>2, <3>3 DEF StatusInv
  <2>2. CASE v # w
    <3>1. StatusInv(v) /\ errors \in Nat /\ worker'[v] = worker[v]
      BY <1>1, <1>2, <2>2, InPartial
    <3>2. errors' = errors /\ bucket'[v] = bucket[v] /\ partial'[v] = partial[v] /\ output'[v] = output[v] /\ errors' >= errors
      BY <1>1, <3>1
    <3>3. QED
      BY <1>1, <3>1, <3>2, StatusStays
  <2>3. QED
    BY <2>1, <2>2
<1>5. ASSUME NEW v \in 0..(parallelism - 1) PROVE WorkInv(v)'
  BY <1>1, InPartial, WorkStays
<1>6. \A v \in Workers : worker'[v] = "done" => output'[v] = PartialRows(query, partial'[v])
  BY <1>1, <1>2, InPartial
<1>7. QED
  BY <1>1, <1>3, <1>4, <1>5, <1>6, StillPartial

LEMMA WorkerFailsInv ==
  ASSUME Inv, NEW w \in Workers, WorkerFails(w)
  PROVE  Inv'
<1>1. /\ worker[w] = "running" /\ UNCHANGED <<given, phase, bucket, partial, output, map, answer>>
      /\ worker' = [worker EXCEPT ![w] = "failed"] /\ errors' = errors + 1 /\ errors < MaxErrors
  BY DEF WorkerFails
<1>2. worker \in [Workers -> {"none", "waiting", "running", "done", "failed", "panicked"}]
      /\ errors \in Nat /\ errors' \in 1..MaxErrors
  BY <1>1, ErrorsAssumption DEF Inv, TypeInv
<1>3. TypeInv'
  BY <1>1, <1>2, TypeFacts DEF Inv, TypeInv, given
<1>4. CASE phase \in {"failed", "panicked"}
  BY <1>1, <1>2, <1>3, <1>4, AfterTheEnd
<1>5. CASE phase = "partial"
  <2>1. ASSUME NEW v \in Workers PROVE StatusInv(v)'
    <3>1. CASE v = w
      <4>1. StatusInv(w)
        BY <1>5, InPartial
      <4>2. /\ parallelism' = parallelism /\ Dealt(w)' = Dealt(w)
        BY <1>1, GivenStays
      <4>3. worker'[w] = "failed" /\ output'[w] = output[w] /\ errors' > 0
        BY <1>1, <1>2
      <4>4. QED
        BY <1>1, <3>1, <4>1, <4>2, <4>3 DEF StatusInv
    <3>2. CASE v # w
      <4>1. StatusInv(v) /\ errors \in Nat /\ worker'[v] = worker[v]
        BY <1>1, <1>2, <1>5, <3>2, InPartial
      <4>2. /\ errors' \in Nat /\ errors' >= errors
            /\ bucket'[v] = bucket[v] /\ partial'[v] = partial[v] /\ output'[v] = output[v]
        BY <1>1, <1>2
      <4>3. QED
        BY <1>1, <4>1, <4>2, StatusStays
    <3>3. QED
      BY <3>1, <3>2
  <2>2. ASSUME NEW v \in 0..(parallelism - 1) PROVE WorkInv(v)'
    BY <1>1, <1>5, InPartial, WorkStays
  <2>3. \A v \in Workers : worker'[v] = "done" => output'[v] = PartialRows(query, partial'[v])
    BY <1>1, <1>2, <1>5, InPartial
  <2>4. QED
    BY <1>1, <1>3, <1>5, <2>1, <2>2, <2>3, StillPartial
<1>6. QED
  BY <1>1, <1>4, <1>5, Busy

\* The rows a worker hands on are sequences of cells.
LEMMA PartialRowsType ==
  ASSUME NEW q \in Asked, NEW m \in Maps(q)
  PROVE  PartialRows(q, m) \in SUBSET Seq(Cells) /\ PartialRows(q, m) = {RowOf(q, m, key) : key \in DOMAIN m}
<1>1. PartialRows(q, m) = {RowOf(q, m, key) : key \in DOMAIN m}
  BY DEF PartialRows, RowOf
<1>2. \A key \in DOMAIN m : RowOf(q, m, key) \in Seq(Cells)
  BY RowOfFacts
<1>3. QED
  BY <1>1, <1>2

\* An average that has counted something.
LEMMA NoPartialMeansAverages ==
  ASSUME NEW q \in Asked, NEW rows \in Seq(InRows), NEW S, S \subseteq DOMAIN rows, NEW m,
         Represents("Partial", q, m, rows, S), ~MapHasPartials(q, m)
  PROVE  \E k \in DOMAIN q.aggs : q.aggs[k].func = "AVG" /\ \E i \in DOMAIN rows : rows[i][q.aggs[k].arg] # Null
<1>1. PICK key \in DOMAIN m, k \in DOMAIN q.aggs : ~HasPartial(q.aggs[k].func, m[key][k])
  BY DEF MapHasPartials
<1> DEFINE is == S \cap Places(q, k, rows, key)
<1>2. q.aggs[k].func = "AVG" /\ m[key][k].count # 0
  BY <1>1 DEF HasPartial
<1>3. m[key][k].count = Wrap(Cardinality(is))
  BY <1>1, <1>2 DEF Represents, Holds
<1>4. is # {}
  <2>1. Cardinality({}) = 0 /\ Wrap(0) = 0
    BY FS_EmptySet, HalfPositive, WrapFacts DEF Int32
  <2>2. QED
    BY <1>2, <1>3, <2>1
<1>5. PICK i \in is : TRUE
  BY <1>4
<1>6. i \in DOMAIN rows /\ rows[i][q.aggs[k].arg] # Null
  BY <1>5 DEF Places
<1>7. QED
  BY <1>2, <1>6

LEMMA WorkerEmitsInv ==
  ASSUME Inv, NEW w \in Workers, WorkerEmits(w)
  PROVE  Inv'
<1> DEFINE has == MapHasPartials(query, partial[w])
<1>1. /\ worker[w] = "running" /\ bucket[w] = <<>> /\ UNCHANGED <<given, phase, bucket, partial, map, answer, errors>>
      /\ worker' = [worker EXCEPT ![w] = IF has THEN "done" ELSE "failed"]
      /\ output' = IF has THEN [output EXCEPT ![w] = PartialRows(query, partial[w])] ELSE output
  BY DEF WorkerEmits
<1>2. /\ worker \in [Workers -> {"none", "waiting", "running", "done", "failed", "panicked"}]
      /\ output \in [Workers -> SUBSET Seq(Cells)] /\ errors \in Nat
      /\ query \in Asked /\ partial[w] \in Maps(query)
  BY ErrorsAssumption, TypeFacts DEF Inv, TypeInv
<1>3. TypeInv'
  <2>1. worker' \in [Workers -> {"none", "waiting", "running", "done", "failed", "panicked"}]
    BY <1>1, <1>2
  <2>2. PartialRows(query, partial[w]) \in SUBSET Seq(Cells)
    BY <1>2, PartialRowsType
  <2>3. output' \in [Workers -> SUBSET Seq(Cells)]
    BY <1>1, <1>2, <2>2
  <2>4. QED
    BY <1>1, <2>1, <2>3 DEF Inv, TypeInv, given
<1>4. CASE phase \in {"failed", "panicked"}
  BY <1>1, <1>2, <1>3, <1>4, AfterTheEnd
<1>5. CASE phase = "partial"
  <2>1. ASSUME NEW v \in Workers PROVE StatusInv(v)'
    <3>1. CASE v = w
      <4>1. StatusInv(w)
        BY <1>5, InPartial
      <4>2. /\ parallelism' = parallelism /\ Dealt(w)' = Dealt(w) /\ query' = query /\ (Averages' <=> Averages)
        BY <1>1, GivenStays
      <4>3. worker'[w] = IF has THEN "done" ELSE "failed"
        BY <1>1, <1>2
      <4>4. w < parallelism /\ Dealt(w) # <<>> /\ output[w] = {}
        BY <1>1, <4>1 DEF StatusInv
      <4>5. ~has => Averages
        <5>1. w \in 0..(parallelism - 1)
          BY <1>2, <4>4, ParallelismAssumption DEF Workers, Inv, TypeInv
        <5>2. WorkInv(w)
          BY <1>5, <5>1, InPartial
        <5>3. Rows \in Seq(InRows) /\ source \in Seq(Seq(InRows)) /\ parallelism \in Nat \ {0}
          BY <1>5, InPartial, TypeFacts DEF Several
        <5> DEFINE n == Gone(Dealt(w), bucket[w])
                   S == Read(w, n)
                   E == Seq(InRows)
        <5>4. Dealt(w) \in Seq(E) /\ bucket[w] \in Seq(E)
          BY <5>1, <5>3, DealtFacts DEF Inv, TypeInv
        <5> HIDE DEF E
        <5>5. n \in 0..Len(Dealt(w))
          BY <5>2, <5>4, RestFacts DEF WorkInv
        <5>6. S \subseteq DOMAIN Rows
          BY <5>1, <5>3, <5>5, ReadFacts
        <5>7. Represents("Partial", query, partial[w], Rows, S)
          BY <5>2 DEF WorkInv
        <5> HIDE DEF n, S
        <5>8. QED
          BY <1>2, <5>3, <5>6, <5>7, NoPartialMeansAverages DEF Averages
      <4>6. output'[w] = IF has THEN PartialRows(query, partial[w]) ELSE {}
        BY <1>1, <1>2, <4>4
      <4>7. QED
        BY <1>1, <3>1, <4>2, <4>3, <4>4, <4>5, <4>6 DEF StatusInv
    <3>2. CASE v # w
      <4>1. StatusInv(v) /\ worker'[v] = worker[v] /\ output'[v] = output[v]
        BY <1>1, <1>2, <1>5, <3>2, InPartial
      <4>2. errors' = errors /\ errors' >= errors /\ bucket'[v] = bucket[v] /\ partial'[v] = partial[v]
        BY <1>1, <1>2
      <4>3. QED
        BY <1>1, <1>2, <4>1, <4>2, StatusStays
    <3>3. QED
      BY <3>1, <3>2
  <2>2. ASSUME NEW v \in 0..(parallelism - 1) PROVE WorkInv(v)'
    BY <1>1, <1>5, InPartial, WorkStays
  <2>3. ASSUME NEW v \in Workers, worker'[v] = "done" PROVE output'[v] = PartialRows(query, partial'[v])
    <3>1. CASE v = w
      BY <1>1, <1>2, <2>3, <3>1
    <3>2. CASE v # w
      BY <1>1, <1>2, <1>5, <2>3, <3>2, InPartial
    <3>3. QED
      BY <3>1, <3>2
  <2>4. QED
    BY <1>1, <1>3, <1>5, <2>1, <2>2, <2>3, StillPartial
<1>6. QED
  BY <1>1, <1>4, <1>5, Busy

LEMMA OverflowsHere == Exceeds(query, Rows) <=> CountOverflows
BY DEF Exceeds, CountOverflows, Counts

LEMMA BatchType ==
  ASSUME TypeInv, NEW w \in Workers, bucket[w] # <<>>
  PROVE  Tail(bucket[w]) \in Seq(Seq(InRows)) /\ Head(bucket[w]) \in Seq(InRows)
<1> DEFINE E == Seq(InRows)
<1>1. bucket[w] \in Seq(E)
  BY DEF TypeInv
<1> HIDE DEF E
<1>2. Tail(bucket[w]) \in Seq(E) /\ Head(bucket[w]) \in E
  BY <1>1
<1>3. QED
  BY <1>2 DEF E

\* The same batch after the end: the map is still a map.
LEMMA FedType ==
  ASSUME TypeInv, NEW w \in Workers, bucket[w] # <<>>, NEW m \in Maps(query), NEW mode, mode # "Final"
  PROVE  FeedBatch(mode, query, m, Scanned(Head(bucket[w]))) \in Maps(query)
<1> DEFINE b == Head(bucket[w])
           batch == Scanned(b)
           n == Len(batch)
<1>1. b \in Seq(InRows) /\ query \in Asked
  BY BatchType, TypeFacts
<1> HIDE DEF b
<1>2. batch \in Seq(CellRows(query))
  <2>1. \A i \in 1..Len(b) : b[i] \in InRows
    BY <1>1
  <2>2. \A i \in 1..Len(b) : Scan(query, b[i]) \in CellRows(query)
    BY <2>1 DEF CellRows
  <2> DEFINE C == CellRows(query)
             s(i) == Scan(query, b[i])
  <2>3. batch = [i \in 1..Len(b) |-> s(i)] /\ Len(b) \in Nat /\ \A i \in 1..Len(b) : s(i) \in C
    BY <1>1, <2>2 DEF Scanned
  <2> HIDE DEF C, s, batch
  <2>4. batch \in Seq(C)
    BY <2>3
  <2>5. QED
    BY <2>4 DEF C
<1> HIDE DEF batch
<1>3. n = Len(batch)
  OBVIOUS
<1> HIDE DEF n
<1>4. PICK acc \in [0..n -> Maps(query)] :
        Feeds(acc, n, mode, query, m, batch) /\ FeedBatch(mode, query, m, batch) = acc[n]
  BY <1>1, <1>2, <1>3, FeedBatchPasses
<1>5. n \in 0..n
  BY <1>2, <1>3
<1>6. QED
  BY <1>4, <1>5 DEF batch, b

LEMMA WorkerBatchInv ==
  ASSUME Inv, NEW w \in Workers, WorkerBatch(w)
  PROVE  Inv'
<1> DEFINE batch == Scanned(Head(bucket[w]))
           over == Checked /\ BatchOverflows("Partial", query, partial[w], batch)
           m == FeedBatch("Partial", query, partial[w], batch)
           rest == Tail(bucket[w])
<1>1. /\ worker[w] = "running" /\ bucket[w] # <<>> /\ UNCHANGED <<given, phase, output, map, answer, errors>>
      /\ worker' = IF over THEN [worker EXCEPT ![w] = "panicked"] ELSE worker
      /\ partial' = IF over THEN partial ELSE [partial EXCEPT ![w] = m]
      /\ bucket' = IF over THEN bucket ELSE [bucket EXCEPT ![w] = rest]
  BY DEF WorkerBatch
<1>2. /\ worker \in [Workers -> {"none", "waiting", "running", "done", "failed", "panicked"}]
      /\ partial \in [Workers -> Maps(query)] /\ bucket \in [Workers -> Seq(Seq(InRows))] /\ errors \in Nat
  BY ErrorsAssumption DEF Inv, TypeInv
<1>3. rest \in Seq(Seq(InRows)) /\ m \in Maps(query)
  <2>1. PICK mode : mode = "Partial"
    OBVIOUS
  <2>2. partial[w] \in Maps(query) /\ TypeInv /\ mode # "Final"
    BY <1>2, <2>1 DEF Inv
  <2>3. FeedBatch(mode, query, partial[w], batch) \in Maps(query)
    BY <1>1, <2>2, FedType
  <2>4. QED
    BY <1>1, <2>1, <2>2, <2>3, BatchType
<1>4. batch = Scanned(Head(bucket[w]))
  OBVIOUS
<1> HIDE DEF batch
<1>5. m = FeedBatch("Partial", query, partial[w], batch)
  OBVIOUS
<1> HIDE DEF m
<1>6. TypeInv'
  <2>1. worker' \in [Workers -> {"none", "waiting", "running", "done", "failed", "panicked"}]
    BY <1>1, <1>2
  <2>2. partial' \in [Workers -> Maps(query)]
    BY <1>1, <1>2, <1>3
  <2>3. bucket' \in [Workers -> Seq(Seq(InRows))]
    BY <1>1, <1>2, <1>3
  <2>4. QED
    BY <1>1, <2>1, <2>2, <2>3 DEF Inv, TypeInv, given
<1>7. CASE phase \in {"failed", "panicked"}
  BY <1>1, <1>2, <1>6, <1>7, AfterTheEnd
<1>8. CASE phase = "partial"
  <2>1. w \in 0..(parallelism - 1) /\ Several /\ TypeInv /\ WorkInv(w) /\ StatusInv(w)
    <3>1. StatusInv(w) /\ Several
      BY <1>8, InPartial
    <3>2. w < parallelism
      BY <1>1, <3>1 DEF StatusInv
    <3>3. w \in 0..(parallelism - 1)
      BY <3>2, ParallelismAssumption DEF Workers, Inv, TypeInv
    <3>4. QED
      BY <1>8, <3>1, <3>3, InPartial
  <2> DEFINE n == Gone(Dealt(w), rest)
  <2>2. n = Gone(Dealt(w), rest)
    OBVIOUS
  <2> HIDE DEF n
  <2>3. /\ IsRest(rest, Dealt(w))
        /\ Represents("Partial", query, m, FlattenSeq(Dealt(w)), 1..Before(Dealt(w), n))
        /\ Represents("Partial", query, m, Rows, Read(w, n))
        /\ Checked => IF BatchOverflows("Partial", query, partial[w], batch) THEN Exceeds(query, Rows)
                      ELSE Fits(query, Rows, Read(w, n))
    BY <1>1, <1>4, <1>5, <2>1, <2>2, NextDealt
  <2>4. /\ query' = query /\ parallelism' = parallelism /\ Rows' = Rows /\ Dealt(w)' = Dealt(w)
        /\ (Checked <=> Checked') /\ (CountOverflows <=> CountOverflows') /\ \A k : Read(w, k)' = Read(w, k)
    BY <1>1, GivenStays
  <2>5. ASSUME NEW v \in Workers PROVE StatusInv(v)'
    <3>1. CASE v = w
      <4>1. worker'[w] = IF over THEN "panicked" ELSE "running"
        BY <1>1, <1>2
      <4>2. output'[w] = {} /\ w < parallelism /\ Dealt(w) # <<>>
        BY <1>1, <2>1 DEF StatusInv
      <4>3. over => Checked /\ CountOverflows
        BY <2>3, OverflowsHere
      <4>4. QED
        BY <3>1, <4>1, <4>2, <4>3, <2>4 DEF StatusInv
    <3>2. CASE v # w
      <4>1. StatusInv(v)
        BY <1>8, InPartial
      <4>2. /\ worker'[v] = worker[v] /\ bucket'[v] = bucket[v] /\ partial'[v] = partial[v] /\ output'[v] = output[v]
            /\ errors' = errors /\ errors' >= errors
        BY <1>1, <1>2, <3>2
      <4>3. QED
        BY <1>1, <1>2, <4>1, <4>2, StatusStays
    <3>3. QED
      BY <3>1, <3>2
  <2>6. ASSUME NEW v \in 0..(parallelism - 1) PROVE WorkInv(v)'
    <3>1. WorkInv(v)
      BY <1>8, InPartial
    <3>2. CASE v # w \/ over
      <4>1. bucket'[v] = bucket[v] /\ partial'[v] = partial[v]
        BY <1>1, <1>2, <3>2
      <4>2. QED
        BY <1>1, <3>1, <4>1, WorkStays
    <3>3. CASE v = w /\ ~over
      <4>1. bucket'[w] = rest /\ partial'[w] = m
        BY <1>1, <1>2, <3>3
      <4>2. Gone(Dealt(w), bucket[w])' = n /\ (IsRest(bucket[w], Dealt(w))' <=> IsRest(rest, Dealt(w)))
        BY <2>2, <2>4, <4>1 DEF Gone, IsRest
      <4>3. Read(w, Gone(Dealt(w), bucket[w]))' = Read(w, n)
        <5>1. source' = source /\ parallelism' = parallelism
          BY <1>1, GivenStays
        <5>2. QED
          BY <4>2, <5>1 DEF Read, BatchOf
      <4>4. Checked => Fits(query, Rows, Read(w, n))
        BY <2>3, <3>3
      <4>5. QED
        BY <2>3, <2>4, <3>3, <4>1, <4>2, <4>3, <4>4 DEF WorkInv
    <3>4. QED
      BY <3>2, <3>3
  <2>7. ASSUME NEW v \in Workers, worker'[v] = "done" PROVE output'[v] = PartialRows(query, partial'[v])
    <3>1. v # w /\ worker[v] = "done"
      BY <1>1, <1>2, <2>7
    <3>2. partial'[v] = partial[v] /\ output'[v] = output[v]
      BY <1>1, <1>2, <3>1
    <3>3. QED
      BY <1>8, <3>1, <3>2, InPartial
  <2>8. QED
    BY <1>1, <1>6, <1>8, <2>5, <2>6, <2>7, StillPartial
<1>9. QED
  BY <1>1, <1>7, <1>8, Busy

LEMMA WorkerStepInv ==
  ASSUME Inv, NEW w \in Workers, WorkerStep(w)
  PROVE  Inv'
BY StartWorkerInv, WorkerBatchInv, WorkerFailsInv, WorkerEmitsInv DEF WorkerStep

(***************************************************************************)
(* The steps of the caller, up to the final aggregate.                     *)
(***************************************************************************)
LEMMA StartSingleInv ==
  ASSUME Inv, StartSingle
  PROVE  Inv'
<1>1. /\ phase = "start" /\ parallelism <= 1 /\ phase' = "single" /\ bucket' = [bucket EXCEPT ![0] = source]
      /\ UNCHANGED <<given, worker, partial, output, map, answer, errors>>
  BY DEF StartSingle
<1>2. /\ query \in Asked /\ source \in Seq(Seq(InRows)) /\ Rows \in Seq(InRows) /\ parallelism \in Nat /\ 0 \in Workers
      /\ bucket \in [Workers -> Seq(Seq(InRows))]
  BY TypeFacts DEF Inv, TypeInv
<1>3. /\ query' = query /\ source' = source /\ Rows' = Rows /\ (Checked <=> Checked') /\ (Several <=> Several')
      /\ parallelism' = parallelism
  BY <1>1, GivenStays
<1>4. ~Several /\ worker = [w \in Workers |-> "none"] /\ map = NoGroups
  BY <1>1, <1>2 DEF Several, Inv, StartInv
<1>5. bucket' \in [Workers -> Seq(Seq(InRows))] /\ bucket'[0] = source
  BY <1>1, <1>2
<1>6. TypeInv'
  BY <1>1, <1>5 DEF Inv, TypeInv, given
<1>7. IsRest(source, source) /\ Gone(source, source) = 0
  <2> DEFINE E == Seq(InRows)
  <2>1. source \in Seq(E)
    BY <1>2
  <2> HIDE DEF E
  <2>2. QED
    BY <2>1, AllIsLeft
<1>8. 1..Before(source, 0) = {}
  <2>1. 0 \in 0..Len(source)
    BY <1>2
  <2>2. Before(source, 0) = 0
    BY <1>2, <2>1, BeforeGrows
  <2>3. QED
    BY <2>2
<1>9. SingleInv'
  <2>1. \A w \in Workers : worker'[w] = "none"
    BY <1>1, <1>4
  <2>2. IsRest(bucket'[0], source') /\ Gone(source', bucket'[0]) = 0
    BY <1>3, <1>5, <1>7
  <2>3. Represents("Single", query', map', Rows', {}) /\ Fits(query', Rows', {})
    BY <1>1, <1>3, <1>4, NothingRead
  <2>4. 1..Before(source', Gone(source', bucket'[0])) = {}
    BY <1>3, <1>8, <2>2
  <2>5. QED
    BY <2>1, <2>2, <2>3, <2>4 DEF SingleInv
<1>10. StartInv' /\ WorkerInv' /\ PartialInv' /\ MergeInv' /\ PhaseInv'
  BY <1>1, <1>3, <1>4 DEF StartInv, WorkerInv, PartialInv, MergeInv, PhaseInv
<1>11. QED
  BY <1>6, <1>9, <1>10 DEF Inv

LEMMA SingleBatchInv ==
  ASSUME Inv, SingleBatch
  PROVE  Inv'
<1> DEFINE left == bucket[0]
           batch == Scanned(Head(left))
           over == Checked /\ BatchOverflows("Single", query, map, batch)
           m == FeedBatch("Single", query, map, batch)
           n == Gone(source, left)
           k == Gone(source, Tail(left))
<1>1. /\ phase = "single" /\ left # <<>> /\ UNCHANGED <<given, worker, partial, output, answer, errors>>
      /\ phase' = IF over THEN "panicked" ELSE phase
      /\ map' = IF over THEN map ELSE m
      /\ bucket' = IF over THEN bucket ELSE [bucket EXCEPT ![0] = Tail(left)]
  BY DEF SingleBatch
<1>2. /\ query \in Asked /\ source \in Seq(Seq(InRows)) /\ Rows \in Seq(InRows) /\ 0 \in Workers
      /\ bucket \in [Workers -> Seq(Seq(InRows))] /\ left \in Seq(Seq(InRows)) /\ map \in Maps(query)
  BY TypeFacts DEF Inv, TypeInv
<1>3. /\ query' = query /\ source' = source /\ Rows' = Rows /\ (Checked <=> Checked') /\ (Several <=> Several')
      /\ (CountOverflows <=> CountOverflows')
  BY <1>1, GivenStays
<1>4. /\ ~Several /\ (\A w \in Workers : worker[w] = "none") /\ IsRest(left, source)
      /\ Represents("Single", query, map, Rows, 1..Before(source, n))
      /\ Checked => Fits(query, Rows, 1..Before(source, n))
  BY <1>1 DEF Inv, SingleInv, PhaseInv
<1>5. /\ m \in Maps(query) /\ Represents("Single", query, m, Rows, 1..Before(source, k))
      /\ Checked => IF BatchOverflows("Single", query, map, batch) THEN Exceeds(query, Rows)
                    ELSE Fits(query, Rows, 1..Before(source, k))
  <2>1. PICK mode : mode = "Single"
    OBVIOUS
  <2>2. batch = [i \in DOMAIN Head(left) |-> Scan(query, Head(left)[i])]
    BY DEF Scanned
  <2> DEFINE S == 1..Before(source, n)
             T == 1..Before(source, k)
  <2>3. S = 1..Before(source, Gone(source, left)) /\ T = 1..Before(source, Gone(source, Tail(left)))
    OBVIOUS
  <2>4. Represents(mode, query, map, FlattenSeq(source), S) /\ mode # "Final"
    BY <1>4, <2>1 DEF Rows
  <2> HIDE DEF S, T, left, batch
  <2>5. left # <<>> /\ IsRest(left, source) /\ left \in Seq(Seq(InRows))
    BY <1>1, <1>2, <1>4
  <2>6. /\ FeedBatch(mode, query, map, batch) \in Maps(query)
        /\ Represents(mode, query, FeedBatch(mode, query, map, batch), FlattenSeq(source), T)
        /\ Fits(query, FlattenSeq(source), S) =>
             IF BatchOverflows(mode, query, map, batch) THEN Exceeds(query, FlattenSeq(source))
             ELSE Fits(query, FlattenSeq(source), T)
    BY <1>2, <2>2, <2>3, <2>4, <2>5, NextBatch
  <2>7. QED
    BY <1>4, <2>1, <2>6 DEF S, T, Rows
<1>6. /\ IsRest(Tail(left), source) /\ Tail(left) \in Seq(Seq(InRows))
  <2> DEFINE E == Seq(InRows)
  <2>1. source \in Seq(E) /\ left \in Seq(E)
    BY <1>2
  <2> HIDE DEF E
  <2>2. IsRest(Tail(left), source) /\ Tail(left) \in Seq(E)
    BY <1>1, <1>4, <2>1, RestFacts
  <2>3. QED
    BY <2>2 DEF E
<1> HIDE DEF m, left, batch
<1>7. bucket' \in [Workers -> Seq(Seq(InRows))] /\ bucket'[0] = IF over THEN left ELSE Tail(left)
  BY <1>1, <1>2, <1>6 DEF left
<1>8. TypeInv'
  BY <1>1, <1>5, <1>7 DEF Inv, TypeInv, given, Ended
<1>9. CASE over
  <2>1. Checked /\ CountOverflows
    BY <1>5, <1>9, OverflowsHere
  <2>2. PhaseInv'
    BY <1>1, <1>3, <1>9, <2>1 DEF PhaseInv
  <2>3. QED
    BY <1>1, <1>8, <1>9, <2>2, Over
<1>10. CASE ~over
  <2>1. phase' = "single" /\ map' = m /\ bucket'[0] = Tail(left)
    BY <1>1, <1>7, <1>10
  <2>2. Gone(source', bucket'[0]) = k
    BY <1>3, <2>1
  <2>3. Checked => Fits(query, Rows, 1..Before(source, k))
    BY <1>5, <1>10
  <2> HIDE DEF k
  <2>4. SingleInv'
    BY <1>1, <1>3, <1>4, <1>5, <1>6, <2>1, <2>2, <2>3 DEF SingleInv
  <2>5. StartInv' /\ WorkerInv' /\ PartialInv' /\ MergeInv' /\ PhaseInv'
    BY <1>3, <1>4, <2>1 DEF StartInv, WorkerInv, PartialInv, MergeInv, PhaseInv
  <2>6. QED
    BY <1>8, <2>4, <2>5 DEF Inv
<1>11. QED
  BY <1>9, <1>10

LEMMA SingleEmitsInv ==
  ASSUME Inv, SingleEmits
  PROVE  Inv'
<1>1. /\ phase = "single" /\ bucket[0] = <<>> /\ phase' = "done" /\ answer' = FinalRows(query, map)
      /\ UNCHANGED <<given, worker, bucket, partial, output, map, errors>>
  BY DEF SingleEmits
<1>2. /\ query' = query /\ source' = source /\ Rows' = Rows /\ (Checked <=> Checked') /\ (Several <=> Several')
  BY <1>1, GivenStays
<1>3. ~Several
  BY <1>1 DEF Inv, PhaseInv
<1>4. TypeInv'
  BY <1>1 DEF Inv, TypeInv, given, Ended
<1>5. SingleInv'
  BY <1>1, <1>2, <1>3 DEF Inv, SingleInv
<1>6. StartInv' /\ WorkerInv' /\ PartialInv' /\ MergeInv' /\ PhaseInv'
  BY <1>1, <1>2, <1>3 DEF StartInv, WorkerInv, PartialInv, MergeInv, PhaseInv
<1>7. QED
  BY <1>4, <1>5, <1>6 DEF Inv

LEMMA FailsInv ==
  ASSUME Inv, Fails
  PROVE  Inv'
<1>1. /\ phase' = "failed" /\ errors < MaxErrors /\ errors' = errors + 1
      /\ UNCHANGED <<given, worker, bucket, partial, output, map, answer>>
  BY DEF Fails
<1>2. errors' \in 1..MaxErrors
  BY <1>1, ErrorsAssumption DEF Inv, TypeInv
<1>3. TypeInv'
  BY <1>1, <1>2, ErrorsAssumption DEF Inv, TypeInv, given, Ended
<1>4. PhaseInv'
  BY <1>1, <1>2 DEF PhaseInv
<1>5. QED
  BY <1>1, <1>3, <1>4, Over

LEMMA DistributeInv ==
  ASSUME Inv, Distribute
  PROVE  Inv'
<1> DEFINE has(w) == w < parallelism /\ Dealt(w) # <<>>
<1>1. /\ phase = "start" /\ parallelism > 1 /\ phase' = "partial"
      /\ bucket' = [w \in Workers |-> IF w < parallelism THEN Dealt(w) ELSE <<>>]
      /\ worker' = [w \in Workers |-> IF has(w) THEN "waiting" ELSE "none"]
      /\ UNCHANGED <<given, partial, output, map, answer, errors>>
  BY DEF Distribute
<1>2. /\ query \in Asked /\ source \in Seq(Seq(InRows)) /\ Rows \in Seq(InRows) /\ parallelism \in Nat \ {0}
      /\ Several /\ \A w \in 0..(parallelism - 1) : w \in Workers
  BY <1>1, TypeFacts DEF Inv, Several
<1>3. /\ query' = query /\ source' = source /\ parallelism' = parallelism /\ Rows' = Rows
      /\ (Checked <=> Checked') /\ (Several <=> Several')
      /\ \A w : Dealt(w)' = Dealt(w) /\ \A n : Read(w, n)' = Read(w, n)
  BY <1>1, GivenStays
<1>4. /\ partial = [w \in Workers |-> NoGroups] /\ output = [w \in Workers |-> {}]
      /\ map = NoGroups /\ answer = {}
  BY <1>1 DEF Inv, StartInv
<1>5. TypeInv'
  <2>1. ASSUME NEW w \in Workers PROVE bucket'[w] \in Seq(Seq(InRows))
    <3>1. w < parallelism => w \in 0..(parallelism - 1)
      BY <1>2, ParallelismAssumption DEF Workers
    <3>2. QED
      BY <1>1, <1>2, <3>1, DealtFacts
  <2>2. bucket' \in [Workers -> Seq(Seq(InRows))]
    <3> DEFINE E == Seq(InRows)
    <3>1. \A w \in Workers : bucket'[w] \in Seq(E)
      BY <2>1
    <3> HIDE DEF E
    <3>2. bucket' \in [Workers -> Seq(E)]
      BY <1>1, <3>1
    <3>3. QED
      BY <3>2 DEF E
  <2>3. worker' \in [Workers -> {"none", "waiting", "running", "done", "failed", "panicked"}]
    BY <1>1
  <2>4. QED
    BY <1>1, <2>2, <2>3 DEF Inv, TypeInv, given
<1>6. ASSUME NEW w \in Workers PROVE StatusInv(w)'
  <2>1. worker'[w] = IF has(w) THEN "waiting" ELSE "none"
    BY <1>1
  <2>2. partial'[w] = NoGroups /\ output'[w] = {}
    BY <1>1, <1>4
  <2>3. has(w)' <=> has(w)
    BY <1>3
  <2>4. QED
    BY <2>1, <2>2, <2>3 DEF StatusInv
<1>7. ASSUME NEW w \in 0..(parallelism - 1) PROVE WorkInv(w)'
  <2>1. w \in Workers /\ w < parallelism /\ Dealt(w) \in Seq(Seq(InRows))
    BY <1>2, DealtFacts
  <2>2. bucket'[w] = Dealt(w) /\ partial'[w] = NoGroups
    BY <1>1, <1>4, <2>1
  <2>3. IsRest(Dealt(w), Dealt(w)) /\ Gone(Dealt(w), Dealt(w)) = 0 /\ 0 \in 0..Len(Dealt(w))
    <3> DEFINE E == Seq(InRows)
    <3>1. Dealt(w) \in Seq(E)
      BY <2>1
    <3> HIDE DEF E
    <3>2. Len(Dealt(w)) \in Nat
      BY <3>1
    <3>3. QED
      BY <3>1, <3>2, AllIsLeft
  <2>4. 1..Before(Dealt(w), 0) = {}
    <3>1. Before(Dealt(w), 0) = 0
      BY <2>1, <2>3, BeforeGrows
    <3>2. QED
      BY <3>1
  <2>5. Read(w, 0) = {}
    BY <1>2, <2>3, ReadFacts
  <2>6. /\ Represents("Partial", query, NoGroups, FlattenSeq(Dealt(w)), {})
        /\ Represents("Partial", query, NoGroups, Rows, {}) /\ Fits(query, Rows, {})
    BY NothingRead
  <2>7. Gone(Dealt(w), bucket[w])' = 0 /\ (IsRest(bucket[w], Dealt(w))' <=> IsRest(Dealt(w), Dealt(w)))
    BY <1>3, <2>2, <2>3 DEF Gone, IsRest
  <2>8. Read(w, Gone(Dealt(w), bucket[w]))' = {}
    <3>1. Read(w, Gone(Dealt(w), bucket[w]))' = Read(w, 0)
      BY <1>3, <2>7 DEF Read, BatchOf
    <3>2. QED
      BY <2>5, <3>1
  <2>9. QED
    BY <1>3, <2>2, <2>3, <2>4, <2>6, <2>7, <2>8 DEF WorkInv
<1>8. StartInv' /\ SingleInv' /\ MergeInv' /\ PhaseInv'
  BY <1>1, <1>2, <1>3 DEF StartInv, SingleInv, MergeInv, PhaseInv
<1>9. WorkerInv'
  BY <1>3, <1>6, <1>7 DEF WorkerInv
<1>10. PartialInv'
  BY <1>1, <1>4 DEF PartialInv
<1>11. QED
  BY <1>5, <1>8, <1>9, <1>10 DEF Inv

\* What a worker has counted when it is done, or was not run.
LEMMA WholeWork ==
  ASSUME TypeInv, Several, NEW w \in 0..(parallelism - 1), WorkInv(w), StatusInv(w),
         worker[w] \in {"none", "done"}
  PROVE  /\ Represents("Partial", query, partial[w], Rows, Mine(w))
         /\ Checked => Fits(query, Rows, Mine(w))
         /\ FlattenSeq(Dealt(w)) \in Seq(InRows)
         /\ Represents("Partial", query, partial[w], FlattenSeq(Dealt(w)), DOMAIN FlattenSeq(Dealt(w)))
         /\ MapHasPartials(query, partial[w])
         /\ worker[w] = "none" => Mine(w) = {}
<1> DEFINE E == Seq(InRows)
           n == Gone(Dealt(w), bucket[w])
<1>1. /\ source \in Seq(Seq(InRows)) /\ parallelism \in Nat \ {0} /\ w \in Workers
  BY TypeFacts DEF Several
<1>2. Dealt(w) \in Seq(E) /\ bucket[w] \in Seq(E)
  BY <1>1, DealtFacts DEF TypeInv
<1> HIDE DEF E
<1>3. IsRest(bucket[w], Dealt(w)) /\ w < parallelism
  BY <1>1 DEF WorkInv
<1>4. worker[w] = "none" => Dealt(w) = <<>>
  BY <1>3 DEF StatusInv
<1>5. bucket[w] = <<>>
  <2>1. CASE worker[w] = "done"
    BY <2>1 DEF StatusInv
  <2>2. CASE worker[w] = "none"
    <3>1. Len(bucket[w]) <= 0 /\ Len(bucket[w]) \in Nat
      BY <1>2, <1>3, <1>4, <2>2 DEF IsRest
    <3>2. QED
      BY <1>2, <3>1
  <2>3. QED
    BY <2>1, <2>2
<1>6. n = Len(Dealt(w)) /\ Len(Dealt(w)) \in Nat
  <2> DEFINE all == Dealt(w)
             left == bucket[w]
  <2>1. all \in Seq(E) /\ left \in Seq(E) /\ IsRest(left, all) /\ left = <<>>
    BY <1>2, <1>3, <1>5
  <2>2. n = Gone(all, left)
    OBVIOUS
  <2> HIDE DEF all, left, n
  <2>3. n = Len(all)
    BY <2>1, <2>2, RestFacts
  <2>4. Len(all) \in Nat
    BY <2>1
  <2>5. QED
    BY <2>3, <2>4 DEF all
<1>7. /\ Represents("Partial", query, partial[w], Rows, Read(w, n))
      /\ Checked => Fits(query, Rows, Read(w, n))
      /\ Represents("Partial", query, partial[w], FlattenSeq(Dealt(w)), 1..Before(Dealt(w), n))
  BY DEF WorkInv
<1> HIDE DEF n
<1>8. Read(w, n) = Mine(w)
  BY <1>6 DEF Mine
<1>9. FlattenSeq(Dealt(w)) \in Seq(InRows) /\ 1..Before(Dealt(w), n) = DOMAIN FlattenSeq(Dealt(w))
  <2>1. n \in 0..Len(Dealt(w)) /\ n \in n..Len(Dealt(w)) /\ Dealt(w) \in Seq(Seq(InRows))
    BY <1>2, <1>6 DEF E
  <2>2. FlattenSeq(Dealt(w)) \in Seq(InRows) /\ Before(Dealt(w), n) = Len(FlattenSeq(Dealt(w)))
    BY <1>6, <2>1, BeforeGrows
  <2>3. QED
    BY <2>2
<1>10. MapHasPartials(query, partial[w])
  <2>1. CASE worker[w] = "done"
    BY <2>1 DEF StatusInv
  <2>2. CASE worker[w] = "none"
    <3>1. partial[w] = NoGroups /\ DOMAIN NoGroups = {}
      BY <2>2 DEF StatusInv, NoGroups
    <3>2. QED
      BY <3>1 DEF MapHasPartials
  <2>3. QED
    BY <2>1, <2>2
<1>11. worker[w] = "none" => Mine(w) = {}
  <2>1. ASSUME worker[w] = "none" PROVE n = 0
    BY <1>4, <1>6, <2>1
  <2>2. 0 \in 0..Len(Dealt(w))
    BY <1>6
  <2>3. Read(w, 0) = {}
    BY <1>1, <2>2, ReadFacts
  <2>4. QED
    BY <1>8, <2>1, <2>3
<1>12. QED
  BY <1>7, <1>8, <1>9, <1>10, <1>11

LEMMA CollectInv ==
  ASSUME Inv, Collect
  PROVE  Inv'
<1>1. /\ phase = "partial" /\ Joined
      /\ phase' = IF "panicked" \in Statuses THEN "panicked"
                  ELSE IF "failed" \in Statuses THEN "failed"
                  ELSE IF "done" \in Statuses THEN "final"
                  ELSE "done"
      /\ UNCHANGED <<given, worker, bucket, partial, output, map, answer, errors>>
  BY DEF Collect
<1>2. /\ Several /\ TypeInv /\ (\A w \in Workers : StatusInv(w)) /\ (\A w \in 0..(parallelism - 1) : WorkInv(w))
      /\ (\A w \in Workers : worker[w] = "done" => output[w] = PartialRows(query, partial[w]))
      /\ errors \in Nat
  BY <1>1, InPartial
<1>3. /\ query' = query /\ source' = source /\ parallelism' = parallelism /\ Rows' = Rows
      /\ (Checked <=> Checked') /\ (Several <=> Several')
      /\ (Averages <=> Averages') /\ (CountOverflows <=> CountOverflows')
      /\ \A w : Dealt(w)' = Dealt(w) /\ Mine(w)' = Mine(w)
  BY <1>1, GivenStays
<1>4. TypeInv'
  BY <1>1 DEF Inv, TypeInv, given, Ended
<1>5. CASE "panicked" \in Statuses
  <2>1. PICK w \in Workers : worker[w] = "panicked"
    BY <1>5 DEF Statuses
  <2>2. Checked /\ CountOverflows
    BY <1>2, <2>1 DEF StatusInv
  <2>3. PhaseInv'
    BY <1>1, <1>3, <1>5, <2>2 DEF PhaseInv
  <2>4. QED
    BY <1>1, <1>4, <1>5, <2>3, Over
<1>6. CASE "panicked" \notin Statuses /\ "failed" \in Statuses
  <2>1. PICK w \in Workers : worker[w] = "failed"
    BY <1>6 DEF Statuses
  <2>2. errors > 0 \/ Averages
    BY <1>2, <2>1 DEF StatusInv
  <2>3. PhaseInv'
    BY <1>1, <1>2, <1>3, <1>6, <2>2 DEF PhaseInv
  <2>4. QED
    BY <1>1, <1>4, <1>6, <2>3, Over
<1>7. CASE "panicked" \notin Statuses /\ "failed" \notin Statuses
  <2>1. ASSUME NEW w \in Workers PROVE worker[w] \in {"none", "done"}
    <3>1. worker[w] \in {"none", "waiting", "running", "done", "failed", "panicked"} /\ worker[w] \in Statuses
      BY <1>2 DEF TypeInv, Statuses
    <3>2. QED
      BY <1>1, <1>7, <3>1 DEF Joined
  <2>2. phase' = IF "done" \in Statuses THEN "final" ELSE "done"
    BY <1>1, <1>7
  <2>3. ASSUME NEW w \in Workers PROVE StatusInv(w)'
    <3>1. worker'[w] = worker[w] /\ bucket'[w] = bucket[w] /\ partial'[w] = partial[w] /\ output'[w] = output[w]
          /\ errors' = errors /\ errors' >= errors /\ UNCHANGED given
      BY <1>1, <1>2
    <3>2. QED
      BY <1>2, <3>1, StatusStays
  <2>4. ASSUME NEW w \in 0..(parallelism - 1) PROVE WorkInv(w)'
    BY <1>1, <1>2, WorkStays
  <2>5. map = NoGroups /\ answer = {}
    BY <1>1 DEF Inv, PartialInv
  <2>6. ASSUME NEW w \in 0..(parallelism - 1), NEW i \in Mine(w)
        PROVE  RowOf(query, partial[w], NamedKey(query, Rows[i])) \in output[w]
    <3>1. w \in Workers /\ query \in Asked /\ partial[w] \in Maps(query)
      BY <1>2, TypeFacts DEF TypeInv
    <3>2. /\ Represents("Partial", query, partial[w], Rows, Mine(w)) /\ worker[w] # "none"
      BY <1>2, <2>1, <2>6, <3>1, WholeWork
    <3>3. output[w] = PartialRows(query, partial[w])
      BY <1>2, <2>1, <3>1, <3>2
    <3>4. NamedKey(query, Rows[i]) \in DOMAIN partial[w]
      BY <2>6, <3>2 DEF Represents, KeysAt
    <3>5. QED
      BY <3>1, <3>3, <3>4, PartialRowsType
  <2>7. Merged' = {}
    BY <1>1, <1>3, <2>6 DEF Merged
  <2>8. MergeInv'
    <3>1. \A w \in Workers : worker'[w] \in {"none", "done"}
      BY <1>1, <2>1
    <3>2. Represents("Final", query', map', Rows', Merged') /\ Fits(query', Rows', Merged')
      BY <1>1, <1>3, <2>5, <2>7, NothingRead
    <3>3. QED
      BY <3>1, <3>2 DEF MergeInv
  <2>9. WorkerInv'
    BY <1>3, <2>3, <2>4 DEF WorkerInv
  <2>10. PhaseInv'
    <3>1. FinalRows(query, NoGroups) = {}
      BY NothingRead
    <3>2. ASSUME phase' = "done", NEW w \in Workers PROVE output[w] = {}
      <4>1. worker[w] # "done"
        BY <2>2, <3>2 DEF Statuses
      <4>2. QED
        BY <1>2, <4>1 DEF StatusInv
    <3>3. QED
      BY <1>1, <1>2, <1>3, <2>2, <2>5, <3>1, <3>2 DEF PhaseInv
  <2>11. StartInv' /\ SingleInv' /\ PartialInv'
    BY <1>2, <1>3, <2>2 DEF StartInv, SingleInv, PartialInv
  <2>12. QED
    BY <1>4, <2>8, <2>9, <2>10, <2>11 DEF Inv
<1>8. QED
  BY <1>5, <1>6, <1>7

(***************************************************************************)
(* The final aggregate.  Whether or not the columns lie as those of a      *)
(* partial result, they are there.                                         *)
(***************************************************************************)
LEMMA ReferencedCount ==
  ASSUME NEW q \in Asked
  PROVE  Cardinality(Referenced(q)) <= Len(q.group) + Len(q.aggs)
<1> DEFINE g == Len(q.group)
           n == Len(q.aggs)
           f == [i \in 1..(g + n) |-> IF i <= g THEN q.group[i] ELSE q.aggs[i - g].arg]
           R == Referenced(q)
<1>1. DOMAIN q.group = 1..g /\ g \in Nat /\ DOMAIN q.aggs = 1..n /\ n \in Nat
  BY AskedFacts
<1> HIDE DEF g, n
<1>2. ASSUME NEW i \in 1..(g + n) PROVE f[i] \in R
  <2>1. i \in Int /\ (i <= g => i \in 1..g) /\ (~(i <= g) => i - g \in 1..n)
    BY <1>1
  <2>2. QED
    BY <1>1, <2>1, ReferencedFacts
<1>3. ASSUME NEW x \in R PROVE \E i \in 1..(g + n) : f[i] = x
  <2>1. (\E i \in 1..g : x = q.group[i]) \/ (\E k \in 1..n : x = q.aggs[k].arg)
    BY <1>1 DEF Referenced, Range
  <2>2. CASE \E i \in 1..g : x = q.group[i]
    <3>1. PICK i \in 1..g : x = q.group[i]
      BY <2>2
    <3>2. i \in 1..(g + n) /\ i <= g
      BY <1>1
    <3>3. QED
      BY <3>1, <3>2
  <2>3. CASE \E k \in 1..n : x = q.aggs[k].arg
    <3>1. PICK k \in 1..n : x = q.aggs[k].arg
      BY <2>3
    <3>2. g + k \in 1..(g + n) /\ ~(g + k <= g) /\ (g + k) - g = k
      BY <1>1
    <3>3. f[g + k] = x
      BY <3>1, <3>2
    <3>4. QED
      BY <3>2, <3>3
  <2>4. QED
    BY <2>1, <2>2, <2>3
<1>4. f \in [1..(g + n) -> R]
  BY <1>2
<1> HIDE DEF f, R
<1>5. f \in Surjection(1..(g + n), R)
  BY <1>3, <1>4 DEF Surjection
<1>6. g + n \in Nat /\ ExistsSurjection(1..(g + n), R)
  BY <1>1, <1>5 DEF ExistsSurjection
<1> DEFINE t == g + n
<1>7. t \in Nat /\ ExistsSurjection(1..t, R)
  BY <1>6
<1> HIDE DEF t
<1>8. Cardinality(R) <= t
  BY <1>7, FS_SurjCardinalityBound
<1>9. QED
  BY <1>8 DEF t, g, n, R

LEMMA RowOfCells ==
  ASSUME NEW q \in Asked, NEW m \in Maps(q), NEW key \in DOMAIN m, NEW row, row = RowOf(q, m, key)
  PROVE  KeyOf(q, row) \in Keys(q) /\ \A k \in DOMAIN q.aggs : ArgOf(q, k, row) \in Cells
<1> DEFINE g == Len(q.group)
           n == Len(q.aggs)
           vals == [k \in DOMAIN q.aggs |-> PartialValue(q.aggs[k].func, m[key][k])]
<1>1. DOMAIN q.group = 1..g /\ g \in Nat /\ DOMAIN q.aggs = 1..n /\ n \in Nat
  BY AskedFacts
<1>2. key \in [1..g -> Cells] /\ vals = [k \in 1..n |-> vals[k]]
  BY <1>1, MapFacts DEF Keys
<1>3. row = key \o vals /\ row \in Seq(Cells)
  BY RowOfFacts DEF RowOf
<1> HIDE DEF vals, g, n
<1>4. Len(key) = g /\ Len(vals) = n /\ key \in Seq(Cells) /\ vals \in Seq({vals[k] : k \in 1..n})
  BY <1>1, <1>2
<1>5. Len(row) = g + n
  <2>1. ASSUME NEW A, NEW B, NEW x \in Seq(A), NEW y \in Seq(B) PROVE Len(x \o y) = Len(x) + Len(y)
    OBVIOUS
  <2>2. Len(key \o vals) = Len(key) + Len(vals)
    BY <1>4, <2>1
  <2>3. QED
    BY <1>3, <1>4, <2>2
<1>6. ASSUME NEW name \in Referenced(q) PROVE row[Position(q, name)] \in Cells
  <2> DEFINE p == Position(q, name)
             c == Cardinality(Referenced(q))
  <2>1. p \in 1..c /\ c <= g + n
    BY PositionFacts, ReferencedCount DEF g, n
  <2>2. c \in Nat
    BY ReferencedFacts, FS_CardinalityType
  <2> HIDE DEF p, c
  <2>3. p \in 1..Len(row)
    BY <1>1, <1>5, <2>1, <2>2
  <2>4. row[p] \in Cells
    BY <1>3, <2>3
  <2>5. QED
    BY <2>4 DEF p
<1>7. KeyOf(q, row) \in Keys(q)
  BY <1>6, ReferencedFacts DEF KeyOf, Keys
<1>8. QED
  BY <1>6, <1>7, ReferencedFacts DEF ArgOf

LEMMA FeedFinalType ==
  ASSUME NEW q \in Asked, NEW m \in Maps(q), NEW row, KeyOf(q, row) \in Keys(q),
         \A k \in DOMAIN q.aggs : ArgOf(q, k, row) \in Cells
  PROVE  Feed("Final", q, m, row) \in Maps(q)
<1> DEFINE key == KeyOf(q, row)
           old == Accumulators(q, m, key)
           fed == [k \in DOMAIN q.aggs |-> Folded("Final", q.aggs[k].func, old[k], ArgOf(q, k, row))]
           A == [DOMAIN q.aggs -> Accs]
<1>1. Fresh \in Accs
  BY HalfPositive DEF Fresh, Accs, Cells, Int32
<1>2. old \in A
  BY <1>1, MapFacts DEF Accumulators
<1>3. ASSUME NEW k \in DOMAIN q.aggs PROVE fed[k] \in Accs
  <2> DEFINE f == q.aggs[k].func
             acc == old[k]
             v == ArgOf(q, k, row)
  <2>1. fed[k] = Merge(f, acc, v)
    BY DEF Folded
  <2>2. acc \in Accs /\ f \in AggregateFunctionKind /\ v \in Cells
    BY <1>2, AskedFacts
  <2> HIDE DEF fed, old, f, acc, v
  <2>3. Accumulate(f, acc, v) \in Accs
    BY <2>2, AccumulateType
  <2>4. v # Null => Wrap(acc.count + v) \in Int32
    <3>1. acc.count \in Int /\ (v # Null => v \in Int)
      BY <2>2, HalfPositive DEF Accs, Cells, Int32
    <3>2. QED
      BY <3>1, WrapFacts
  <2>5. Merge(f, acc, v) \in Accs
    <3>1. CASE f = "COUNT" /\ v # Null
      BY <2>2, <2>4, <3>1 DEF Merge, Accs
    <3>2. CASE f = "COUNT" /\ v = Null
      BY <2>2, <3>2 DEF Merge
    <3>3. CASE f = "AVG"
      BY <2>2, <3>3 DEF Merge
    <3>4. CASE f \notin {"COUNT", "AVG"}
      BY <2>3, <3>4 DEF Merge
    <3>5. QED
      BY <3>1, <3>2, <3>3, <3>4
  <2>6. QED
    BY <2>1, <2>5
<1>4. fed \in A
  BY <1>3
<1>5. Feed("Final", q, m, row) = [g \in DOMAIN m \cup {key} |-> IF g = key THEN fed ELSE m[g]]
  BY DEF Feed
<1>6. DOMAIN m \subseteq Keys(q) /\ (\A g \in DOMAIN m : m[g] \in A) /\ key \in Keys(q)
  BY MapFacts
<1> HIDE DEF fed, A, key
<1>7. Feed("Final", q, m, row) \in [DOMAIN m \cup {key} -> A] /\ DOMAIN m \cup {key} \in SUBSET Keys(q)
  BY <1>4, <1>5, <1>6
<1>8. QED
  BY <1>7 DEF A, Maps

LEMMA NextOutputFacts ==
  ASSUME \E w \in Workers : output[w] # {}
  PROVE  NextOutput \in Workers /\ output[NextOutput] # {}
<1> DEFINE T == {w \in Workers : output[w] # {}}
<1>1. T \subseteq Nat /\ T # {} /\ Workers \subseteq Int
  BY ParallelismAssumption DEF Workers
<1>2. PICK t \in T : \A u \in T : t <= u
  BY <1>1, LeastElement
<1>3. \A v \in Workers : v < t => v \notin T
  BY <1>1, <1>2
<1>4. t \in Workers /\ output[t] # {} /\ \A v \in Workers : v < t => output[v] = {}
  BY <1>3
<1>5. QED
  BY <1>4 DEF NextOutput

\* Where a row comes from that the final aggregate reads.
LEMMA RowIsOfGroup ==
  ASSUME Inv, phase = "final", NEW w \in Workers, NEW row \in output[w]
  PROVE  /\ Several /\ TypeInv /\ w \in 0..(parallelism - 1) /\ worker[w] = "done"
         /\ WorkInv(w) /\ StatusInv(w)
         /\ \E key \in DOMAIN partial[w] : row = RowOf(query, partial[w], key)
<1>1. Several /\ TypeInv
  BY DEF Inv, PhaseInv
<1>2. StatusInv(w) /\ \A v \in 0..(parallelism - 1) : WorkInv(v)
  BY <1>1 DEF Inv, WorkerInv
<1>3. worker[w] = "done" /\ row \in PartialRows(query, partial[w])
  BY <1>2 DEF StatusInv
<1>4. w \in 0..(parallelism - 1)
  BY <1>1, <1>2, <1>3, ParallelismAssumption DEF StatusInv, Workers, TypeInv
<1>5. PartialRows(query, partial[w]) = {RowOf(query, partial[w], key) : key \in DOMAIN partial[w]}
  BY DEF PartialRows, RowOf
<1>6. QED
  BY <1>1, <1>2, <1>3, <1>4, <1>5

\* What it stands for: the places of its group among the worker's, none of
\* which has been merged.
LEMMA RowHolds ==
  ASSUME Inv, phase = "final", Aligned(query), NEW w \in Workers, NEW row \in output[w],
         NEW key \in DOMAIN partial[w], row = RowOf(query, partial[w], key),
         NEW js, js = PlacesOf(query, Rows, Mine(w), key)
  PROVE  /\ Stands("Final", query, row, Rows, key, js) /\ RowMerges(query, row)
         /\ Merged \cap js = {} /\ Merged \subseteq DOMAIN Rows
         /\ Checked => Fits(query, Rows, js)
<1>1. /\ Several /\ TypeInv /\ w \in 0..(parallelism - 1) /\ worker[w] = "done" /\ WorkInv(w) /\ StatusInv(w)
  BY RowIsOfGroup
<1>2. /\ query \in Asked /\ source \in Seq(Seq(InRows)) /\ Rows \in Seq(InRows) /\ parallelism \in Nat \ {0}
      /\ partial[w] \in Maps(query)
  BY <1>1, TypeFacts DEF Several, TypeInv
<1>3. /\ Represents("Partial", query, partial[w], Rows, Mine(w)) /\ MapHasPartials(query, partial[w])
      /\ Checked => Fits(query, Rows, Mine(w))
  BY <1>1, WholeWork
<1>4. /\ \A v \in 0..(parallelism - 1) : Mine(v) \subseteq DOMAIN Rows
      /\ \A v \in 0..(parallelism - 1) : v # w => Mine(v) \cap Mine(w) = {}
  BY <1>1, <1>2, MineFacts
<1>5. Stands("Final", query, row, Rows, key, js) /\ RowMerges(query, row)
  <2> DEFINE S == Mine(w)
             m == partial[w]
  <2>1. S \subseteq DOMAIN Rows /\ Represents("Partial", query, m, Rows, S) /\ MapHasPartials(query, m)
    BY <1>1, <1>3, <1>4
  <2>2. m \in Maps(query) /\ key \in DOMAIN m /\ js = PlacesOf(query, Rows, S, key) /\ row = RowOf(query, m, key)
    BY <1>2
  <2> HIDE DEF S, m
  <2>3. QED
    BY <1>2, <2>1, <2>2, RowOfStands
<1>6. Merged \subseteq DOMAIN Rows
  BY <1>4 DEF Merged
<1>7. Merged \cap js = {}
  <2> SUFFICES ASSUME NEW i \in Merged, i \in js PROVE FALSE
    OBVIOUS
  <2>1. i \in Mine(w) /\ NamedKey(query, Rows[i]) = key
    BY DEF PlacesOf
  <2>2. PICK v \in 0..(parallelism - 1) :
          i \in Mine(v) /\ RowOf(query, partial[v], NamedKey(query, Rows[i])) \notin output[v]
    BY DEF Merged
  <2>3. v = w
    BY <1>4, <2>1, <2>2
  <2>4. QED
    BY <2>1, <2>2, <2>3
<1>8. ASSUME Checked PROVE Fits(query, Rows, js)
  <2>1. js \subseteq Mine(w) /\ KeysAt(query, Rows, js) \subseteq {key} /\ KeysAt(query, Rows, js) \subseteq KeysAt(query, Rows, Mine(w))
    BY DEF PlacesOf, KeysAt
  <2>2. ASSUME NEW k PROVE js \cap Places(query, k, Rows, key) = Mine(w) \cap Places(query, k, Rows, key)
    BY DEF PlacesOf, Places
  <2>3. Fits(query, Rows, Mine(w))
    BY <1>3, <1>8
  <2> HIDE DEF Mine
  <2>4. QED
    BY <2>1, <2>2, <2>3 DEF Fits
<1>9. QED
  BY <1>5, <1>6, <1>7, <1>8

LEMMA MergedGrows ==
  ASSUME Inv, phase = "final", NEW w \in Workers, NEW row \in output[w],
         NEW key \in DOMAIN partial[w], row = RowOf(query, partial[w], key),
         UNCHANGED <<given, partial>>, output' = [output EXCEPT ![w] = @ \ {row}]
  PROVE  Merged' = Merged \cup PlacesOf(query, Rows, Mine(w), key)
<1>1. /\ Several /\ TypeInv /\ w \in 0..(parallelism - 1) /\ worker[w] = "done" /\ WorkInv(w) /\ StatusInv(w)
  BY RowIsOfGroup
<1>2. query \in Asked /\ partial[w] \in Maps(query) /\ output \in [Workers -> SUBSET Seq(Cells)]
  BY <1>1, TypeFacts DEF TypeInv
<1>3. Represents("Partial", query, partial[w], Rows, Mine(w))
  BY <1>1, WholeWork
<1>4. /\ query' = query /\ parallelism' = parallelism /\ Rows' = Rows /\ partial' = partial
      /\ \A v : Mine(v)' = Mine(v)
  BY GivenStays
<1> DEFINE keyAt(i) == NamedKey(query, Rows[i])
           gone(v, i) == i \in Mine(v) /\ RowOf(query, partial[v], keyAt(i)) \notin output[v]
           left(v, i) == i \in Mine(v) /\ RowOf(query, partial[v], keyAt(i)) \notin output'[v]
<1>5. Merged' = UNION {{i \in Mine(v) : RowOf(query, partial[v], keyAt(i)) \notin output'[v]} : v \in 0..(parallelism - 1)}
  BY <1>4 DEF Merged
<1>6. \A i : i \in Merged <=> \E v \in 0..(parallelism - 1) : gone(v, i)
  BY DEF Merged
<1>7. \A i : i \in Merged' <=> \E v \in 0..(parallelism - 1) : left(v, i)
  BY <1>5
<1>8. ASSUME NEW i, NEW v \in 0..(parallelism - 1), v # w PROVE left(v, i) <=> gone(v, i)
  <2>1. v \in Workers
    BY <1>1, TypeFacts
  <2>2. output'[v] = output[v]
    BY <1>2, <1>8, <2>1
  <2>3. QED
    BY <2>2
<1>9. ASSUME NEW i PROVE left(w, i) <=> gone(w, i) \/ (i \in Mine(w) /\ keyAt(i) = key)
  <2>1. output'[w] = output[w] \ {row}
    BY <1>2
  <2>2. ASSUME i \in Mine(w), RowOf(query, partial[w], keyAt(i)) = row PROVE keyAt(i) = key
    <3>1. keyAt(i) \in DOMAIN partial[w]
      BY <1>3, <2>2 DEF Represents, KeysAt
    <3>2. QED
      BY <1>2, <2>2, <3>1, RowOfKey
  <2>3. QED
    BY <2>1, <2>2
<1> HIDE DEF gone, left, keyAt
<1>10. \A i : i \in Merged' <=> i \in Merged \/ (i \in Mine(w) /\ keyAt(i) = key)
  BY <1>1, <1>6, <1>7, <1>8, <1>9
<1>11. QED
  BY <1>10 DEF PlacesOf, keyAt

LEMMA FinalRowInv ==
  ASSUME Inv, FinalRow
  PROVE  Inv'
<1> DEFINE w == NextOutput
<1>1. /\ phase = "final" /\ \E v \in Workers : output[v] # {}
      /\ UNCHANGED <<given, worker, bucket, partial, answer, errors>>
  BY DEF FinalRow
<1>2. w \in Workers
  BY <1>1, NextOutputFacts
<1>3. PICK row \in output[w] :
        IF ~RowMerges(query, row)
        THEN phase' = "failed" /\ UNCHANGED <<map, output>>
        ELSE IF Checked /\ RowOverflows("Final", query, map, row)
        THEN phase' = "panicked" /\ UNCHANGED <<map, output>>
        ELSE /\ map' = Feed("Final", query, map, row)
             /\ output' = [output EXCEPT ![w] = @ \ {row}]
             /\ UNCHANGED phase
  BY DEF FinalRow
<1> HIDE DEF w
<1>4. PICK key \in DOMAIN partial[w] : row = RowOf(query, partial[w], key)
  BY <1>1, <1>2, RowIsOfGroup
<1>5. /\ Several /\ TypeInv /\ query \in Asked /\ Rows \in Seq(InRows)
      /\ partial[w] \in Maps(query) /\ map \in Maps(query) /\ output \in [Workers -> SUBSET Seq(Cells)]
  BY <1>1, <1>2, RowIsOfGroup, TypeFacts DEF TypeInv
<1>6. /\ query' = query /\ parallelism' = parallelism /\ Rows' = Rows /\ (Several <=> Several')
      /\ (Checked <=> Checked') /\ (CountOverflows <=> CountOverflows')
  BY <1>1, GivenStays
<1> DEFINE js == PlacesOf(query, Rows, Mine(w), key)
           S == Merged
<1>7. Aligned(query) =>
        /\ Stands("Final", query, row, Rows, key, js) /\ RowMerges(query, row)
        /\ S \cap js = {} /\ S \subseteq DOMAIN Rows
        /\ Checked => Fits(query, Rows, js)
  BY <1>1, <1>2, <1>4, RowHolds
<1>8. Aligned(query) => Represents("Final", query, map, Rows, S) /\ (Checked => Fits(query, Rows, S))
  BY <1>1, <1>5 DEF Inv, MergeInv
<1>9. Feed("Final", query, map, row) \in Maps(query)
  <2>1. KeyOf(query, row) \in Keys(query) /\ \A k \in DOMAIN query.aggs : ArgOf(query, k, row) \in Cells
    BY <1>4, <1>5, RowOfCells
  <2>2. QED
    BY <1>5, <2>1, FeedFinalType
<1>10. TypeInv'
  <2>1. map' \in Maps(query)
    BY <1>3, <1>5, <1>9
  <2>2. output' \in [Workers -> SUBSET Seq(Cells)]
    <3>1. output[w] \ {row} \in SUBSET Seq(Cells)
      BY <1>2, <1>5
    <3>2. QED
      BY <1>2, <1>3, <1>5, <3>1
  <2>3. phase' \in {"start", "single", "partial", "final"} \cup Ended
    BY <1>1, <1>3 DEF Ended
  <2>4. QED
    BY <1>1, <1>5, <2>1, <2>2, <2>3 DEF TypeInv, given
<1> HIDE DEF js, S
<1>11. ASSUME Aligned(query), Checked
       PROVE  IF RowOverflows("Final", query, map, row) THEN CountOverflows
              ELSE Fits(query, Rows, S \cup js)
  <2>1. PICK mode : mode = "Final"
    OBVIOUS
  <2>2. /\ S \subseteq DOMAIN Rows /\ Represents(mode, query, map, Rows, S)
        /\ Stands(mode, query, row, Rows, key, js) /\ S \cap js = {} /\ Fits(query, Rows, S) /\ Fits(query, Rows, js)
    BY <1>7, <1>8, <1>11, <2>1
  <2>3. IF RowOverflows(mode, query, map, row)
        THEN \E k \in DOMAIN query.aggs : /\ query.aggs[k].func \in Counts
                                          /\ Cardinality((S \cup js) \cap Places(query, k, Rows, key)) \notin Int32
        ELSE Fits(query, Rows, S \cup js)
    BY <1>5, <2>2, FeedFits
  <2>4. ASSUME RowOverflows(mode, query, map, row) PROVE CountOverflows
    <3>1. PICK k \in DOMAIN query.aggs : /\ query.aggs[k].func \in Counts
                                         /\ Cardinality((S \cup js) \cap Places(query, k, Rows, key)) \notin Int32
      BY <2>3, <2>4
    <3>2. PICK i \in DOMAIN Rows : NamedKey(query, Rows[i]) = key
      BY <2>2 DEF Stands
    <3> DEFINE T == S \cup js
    <3>3. Cardinality(T \cap Places(query, k, Rows, NamedKey(query, Rows[i]))) \notin Int32
      BY <3>1, <3>2
    <3> HIDE DEF T
    <3>4. Exceeds(query, Rows)
      BY <1>5, <3>1, <3>3, PartExceeds
    <3>5. QED
      BY <3>4, OverflowsHere
  <2>5. QED
    BY <2>1, <2>3, <2>4
<1>12. CASE ~RowMerges(query, row)
  <2>1. PhaseInv'
    BY <1>3, <1>6, <1>7, <1>12, <1>5 DEF PhaseInv
  <2>2. QED
    BY <1>3, <1>10, <1>12, <2>1, Over
<1>13. CASE RowMerges(query, row) /\ Checked /\ RowOverflows("Final", query, map, row)
  <2>1. phase' = "panicked"
    BY <1>3, <1>13
  <2>2. PhaseInv'
    BY <1>5, <1>6, <1>11, <1>13, <2>1 DEF PhaseInv
  <2>3. QED
    BY <1>10, <2>1, <2>2, Over
<1>14. CASE RowMerges(query, row) /\ ~(Checked /\ RowOverflows("Final", query, map, row))
  <2>1. /\ map' = Feed("Final", query, map, row) /\ output' = [output EXCEPT ![w] = @ \ {row}] /\ phase' = "final"
    BY <1>1, <1>3, <1>14
  <2>2. ASSUME NEW v \in Workers PROVE StatusInv(v)'
    <3>1. StatusInv(v)
      BY <1>1, <1>5 DEF Inv, WorkerInv
    <3>2. output'[v] \subseteq output[v] /\ worker' = worker /\ bucket' = bucket /\ partial' = partial /\ errors' = errors
      BY <1>1, <1>2, <1>5, <2>1
    <3>3. Dealt(v)' = Dealt(v) /\ (Averages <=> Averages')
      BY <1>1, GivenStays
    <3>4. QED
      BY <1>6, <3>1, <3>2, <3>3 DEF StatusInv
  <2>3. ASSUME NEW v \in 0..(parallelism - 1) PROVE WorkInv(v)'
    <3>1. WorkInv(v)
      BY <1>1, <1>5 DEF Inv, WorkerInv
    <3>2. QED
      BY <1>1, <3>1, WorkStays
  <2>4. WorkerInv'
    BY <1>6, <2>2, <2>3 DEF WorkerInv
  <2>5. Merged' = S \cup js
    BY <1>1, <1>2, <1>4, <2>1, MergedGrows DEF S, js
  <2>6. Aligned(query) => Represents("Final", query, map', Rows, S \cup js)
    <3>1. PICK mode : mode = "Final"
      OBVIOUS
    <3>2. Aligned(query) =>
            /\ S \subseteq DOMAIN Rows /\ Represents(mode, query, map, Rows, S)
            /\ Stands(mode, query, row, Rows, key, js) /\ S \cap js = {}
      BY <1>7, <1>8, <3>1
    <3>3. Aligned(query) => Represents(mode, query, Feed(mode, query, map, row), Rows, S \cup js)
      BY <1>5, <3>2, FeedRepresents
    <3>4. QED
      BY <2>1, <3>1, <3>3
  <2>7. Aligned(query) /\ Checked => Fits(query, Rows, S \cup js)
    BY <1>11, <1>14
  <2>8. MergeInv'
    <3>1. \A v \in Workers : worker'[v] \in {"none", "done"}
      BY <1>1, <1>5 DEF Inv, MergeInv
    <3>2. QED
      BY <1>6, <2>5, <2>6, <2>7, <3>1 DEF MergeInv
  <2>9. StartInv' /\ SingleInv' /\ PartialInv' /\ PhaseInv'
    BY <1>5, <1>6, <2>1 DEF StartInv, SingleInv, PartialInv, PhaseInv
  <2>10. QED
    BY <1>10, <2>4, <2>8, <2>9 DEF Inv
<1>15. QED
  BY <1>12, <1>13, <1>14

LEMMA FinalEmitsInv ==
  ASSUME Inv, FinalEmits
  PROVE  Inv'
<1>1. /\ phase = "final" /\ (\A w \in Workers : output[w] = {}) /\ phase' = "done" /\ answer' = FinalRows(query, map)
      /\ UNCHANGED <<given, worker, bucket, partial, output, map, errors>>
  BY DEF FinalEmits
<1>2. /\ query' = query /\ parallelism' = parallelism /\ Rows' = Rows /\ (Several <=> Several') /\ (Checked <=> Checked')
      /\ \A w : Mine(w)' = Mine(w)
  BY <1>1, GivenStays
<1>3. Several /\ errors \in Nat
  BY <1>1, ErrorsAssumption DEF Inv, PhaseInv, TypeInv
<1>4. TypeInv'
  BY <1>1 DEF Inv, TypeInv, given, Ended
<1>5. ASSUME NEW v \in Workers PROVE StatusInv(v)'
  <2>1. StatusInv(v)
    BY <1>1, <1>3 DEF Inv, WorkerInv
  <2>2. errors' = errors /\ errors' >= errors /\ worker'[v] = worker[v] /\ bucket'[v] = bucket[v]
        /\ partial'[v] = partial[v] /\ output'[v] = output[v] /\ UNCHANGED given
    BY <1>1, <1>3
  <2>3. QED
    BY <1>3, <2>1, <2>2, StatusStays
<1>6. ASSUME NEW v \in 0..(parallelism - 1) PROVE WorkInv(v)'
  <2>1. WorkInv(v)
    BY <1>1, <1>3 DEF Inv, WorkerInv
  <2>2. QED
    BY <1>1, <2>1, WorkStays
<1>7. WorkerInv'
  BY <1>2, <1>5, <1>6 DEF WorkerInv
<1>8. Merged' = Merged
  BY <1>1, <1>2 DEF Merged
<1>9. MergeInv'
  BY <1>1, <1>2, <1>3, <1>8 DEF Inv, MergeInv
<1>10. StartInv' /\ SingleInv' /\ PartialInv' /\ PhaseInv'
  BY <1>1, <1>2, <1>3 DEF StartInv, SingleInv, PartialInv, PhaseInv
<1>11. QED
  BY <1>4, <1>7, <1>9, <1>10 DEF Inv

LEMMA NothingHappens ==
  ASSUME Inv, UNCHANGED vars
  PROVE  Inv'
<1>1. /\ UNCHANGED given /\ UNCHANGED <<phase, worker, bucket, partial, output, map, answer, errors>>
  BY DEF vars
<1>2. /\ query' = query /\ source' = source /\ parallelism' = parallelism /\ Rows' = Rows /\ (Several <=> Several')
      /\ (Checked <=> Checked') /\ (Averages <=> Averages') /\ (CountOverflows <=> CountOverflows')
      /\ \A w : Mine(w)' = Mine(w)
  BY <1>1, GivenStays
<1>3. TypeInv' /\ errors \in Nat
  BY <1>1, ErrorsAssumption DEF Inv, TypeInv, given
<1>4. StartInv' /\ PartialInv' /\ PhaseInv'
  BY <1>1, <1>2 DEF Inv, StartInv, PartialInv, PhaseInv
<1>5. SingleInv'
  BY <1>1, <1>2 DEF Inv, SingleInv
<1>6. ASSUME NEW v \in Workers, StatusInv(v) PROVE StatusInv(v)'
  <2>1. errors' = errors /\ errors' >= errors /\ worker'[v] = worker[v] /\ bucket'[v] = bucket[v]
        /\ partial'[v] = partial[v] /\ output'[v] = output[v]
    BY <1>1, <1>3
  <2>2. QED
    BY <1>1, <1>3, <1>6, <2>1, StatusStays
<1>7. ASSUME NEW v, WorkInv(v) PROVE WorkInv(v)'
  BY <1>1, <1>7, WorkStays
<1>8. WorkerInv'
  BY <1>1, <1>2, <1>6, <1>7 DEF Inv, WorkerInv
<1>9. MergeInv'
  <2>1. Merged' = Merged
    BY <1>1, <1>2 DEF Merged
  <2>2. QED
    BY <1>1, <1>2, <2>1 DEF Inv, MergeInv
<1>10. QED
  BY <1>3, <1>4, <1>5, <1>8, <1>9 DEF Inv
-----------------------------------------------------------------------------
(***************************************************************************)
(* The theorems.                                                           *)
(***************************************************************************)
\* Whatever the workers, the pool and the final aggregate do, in whatever
\* order, every map of groups represents the places of the rows that were
\* fed to it: execute_parallel_aggregate preserves the inductive invariant.
THEOREM Invariance == FairSpec => []Inv
<1>1. ASSUME Inv, [Next]_vars PROVE Inv'
  <2>1. CASE MainStep
    BY <1>1, <2>1, StartSingleInv, SingleBatchInv, SingleEmitsInv, DistributeInv, CollectInv, FinalRowInv,
       FinalEmitsInv, FailsInv DEF MainStep
  <2>2. CASE \E w \in Workers : WorkerStep(w)
    BY <1>1, <2>2, WorkerStepInv
  <2>3. CASE UNCHANGED vars
    BY <1>1, <2>3, NothingHappens
  <2>4. QED
    BY <1>1, <2>1, <2>2, <2>3 DEF Next
<1>2. QED
  BY <1>1, InitInv, PTL DEF FairSpec

\* In every state of a parallel aggregate, the phases, the workers' states,
\* the batches left, the maps of groups and the rows handed on are of their
\* types, the cells of the accumulators within an i32.
THEOREM TypesOK == FairSpec => []TypeInv
<1>1. Inv => TypeInv
  BY DEF Inv
<1>2. QED
  BY <1>1, Invariance, PTL

\* The merge has nothing of an unfinished worker: when the final aggregate
\* reads, every worker that has a batch is done, and what it has handed on is
\* the aggregate of all its batches (execute_partial_aggregate).
THEOREM AllWorkersHaveFinished == FairSpec => []AllWorkersOrNone
<1>1. ASSUME Inv PROVE AllWorkersOrNone
  <2> SUFFICES ASSUME phase = "final" \/ (phase = "done" /\ parallelism > 1), NEW w \in Workers
               PROVE  /\ worker[w] = IF w < parallelism /\ Dealt(w) # <<>> THEN "done" ELSE "none"
                      /\ PartialRows(query, partial[w]) =
                           IF worker[w] = "none" THEN {} ELSE Reference(query, FlattenSeq(Dealt(w)))
    BY DEF AllWorkersOrNone
  <2>1. Several /\ TypeInv
    BY <1>1 DEF Inv, PhaseInv, Several
  <2>2. worker[w] \in {"none", "done"} /\ StatusInv(w) /\ \A v \in 0..(parallelism - 1) : WorkInv(v)
    BY <1>1, <2>1 DEF Inv, WorkerInv, MergeInv
  <2>3. worker[w] = IF w < parallelism /\ Dealt(w) # <<>> THEN "done" ELSE "none"
    BY <2>2 DEF StatusInv
  <2>4. CASE worker[w] = "none"
    BY <2>2, <2>3, <2>4, NothingRead DEF StatusInv
  <2>5. CASE worker[w] = "done"
    <3>1. w \in 0..(parallelism - 1)
      BY <2>1, <2>3, <2>5, ParallelismAssumption DEF Workers, TypeInv
    <3> DEFINE rows == FlattenSeq(Dealt(w))
    <3>2. /\ rows \in Seq(InRows) /\ Represents("Partial", query, partial[w], rows, DOMAIN rows)
          /\ MapHasPartials(query, partial[w])
      BY <2>1, <2>2, <2>5, <3>1, WholeWork
    <3>3. query \in Asked
      BY <2>1, TypeFacts
    <3> HIDE DEF rows
    <3>4. PartialRows(query, partial[w]) = Reference(query, rows)
      BY <3>2, <3>3, WholePartialMap
    <3>5. QED
      BY <2>3, <2>5, <3>4 DEF rows
  <2>6. QED
    BY <2>2, <2>3, <2>4, <2>5
<1>2. QED
  BY <1>1, Invariance, PTL

\* At the end all the places have been read.
LEMMA AllPlacesRead ==
  ASSUME Inv, phase = "done", Several => Aligned(query)
  PROVE  /\ query \in Asked /\ Rows \in Seq(InRows)
         /\ Represents(IF Several THEN "Final" ELSE "Single", query, map, Rows, DOMAIN Rows)
         /\ Checked => Fits(query, Rows, DOMAIN Rows)
<1>1. /\ query \in Asked /\ source \in Seq(Seq(InRows)) /\ Rows \in Seq(InRows) /\ parallelism \in Nat
      /\ 0 \in Workers /\ TypeInv
  BY TypeFacts DEF Inv
<1>2. CASE Several
  <2>1. \A w \in 0..(parallelism - 1) : output[w] = {}
    BY <1>1, <1>2, TypeFacts DEF Inv, PhaseInv
  <2>2. parallelism \in Nat \ {0}
    BY <1>1, <1>2 DEF Several
  <2>3. /\ \A w \in 0..(parallelism - 1) : Mine(w) \subseteq DOMAIN Rows
        /\ \A i \in DOMAIN Rows : \E w \in 0..(parallelism - 1) : i \in Mine(w)
    BY <1>1, <2>2, MineFacts
  <2>4. Merged = DOMAIN Rows
    BY <2>1, <2>3 DEF Merged
  <2>5. QED
    BY <1>1, <1>2, <2>4 DEF Inv, MergeInv
<1>3. CASE ~Several
  <2>1. bucket[0] = <<>> /\ IsRest(bucket[0], source)
    BY <1>3 DEF Inv, PhaseInv, SingleInv
  <2>2. Gone(source, bucket[0]) = Len(source)
    <3> DEFINE E == Seq(InRows)
               left == bucket[0]
    <3>1. source \in Seq(E) /\ left \in Seq(E) /\ IsRest(left, source) /\ left = <<>>
      BY <1>1, <2>1 DEF TypeInv
    <3> HIDE DEF E, left
    <3>2. Gone(source, left) = Len(source)
      BY <3>1, RestFacts
    <3>3. QED
      BY <3>2 DEF left
  <2>3. 1..Before(source, Len(source)) = DOMAIN Rows
    <3>1. Len(source) \in 0..Len(source) /\ Len(source) \in Len(source)..Len(source)
      BY <1>1
    <3>2. Before(source, Len(source)) = Len(Rows)
      BY <1>1, <3>1, BeforeGrows DEF Rows
    <3>3. QED
      BY <1>1, <3>2
  <2>4. QED
    BY <1>1, <1>3, <2>2, <2>3 DEF Inv, SingleInv
<1>4. QED
  BY <1>2, <1>3

\* However the batches are cut and dealt, however the workers interleave and
\* in whatever order the partial rows are merged, the answer is the aggregate
\* of all the rows, provided that the columns lie where the merge looks for
\* them (execute_partial_aggregate, execute_final_aggregate).
THEOREM ParallelAnswersAgree == FairSpec => []AnswersAgree
<1>1. ASSUME Inv PROVE AnswersAgree
  <2> SUFFICES ASSUME phase = "done", parallelism > 1 => Aligned(query)
               PROVE  answer = Reference(query, Rows)
    BY DEF AnswersAgree
  <2> DEFINE mode == IF Several THEN "Final" ELSE "Single"
  <2>1. query \in Asked /\ Rows \in Seq(InRows) /\ Represents(mode, query, map, Rows, DOMAIN Rows)
    BY <1>1, AllPlacesRead DEF Several
  <2> HIDE DEF mode
  <2>2. FinalRows(query, map) = Reference(query, Rows)
    BY <2>1, WholeMap
  <2>3. QED
    BY <1>1, <2>2 DEF Inv, PhaseInv
<1>2. QED
  BY <1>1, Invariance, PTL

\* An error or a panic has its cause, whether one worker counts or several: a
\* query that fails has met an error or an average, one that panics would have
\* to give a count that does not fit an i32, and none that ends with an answer
\* has such a count (Accumulator::update, merge).
THEOREM ErrorsHaveCauses == FairSpec => []NoErrorWithoutCause
<1>1. ASSUME Inv PROVE NoErrorWithoutCause
  <2> SUFFICES ASSUME Several => Aligned(query)
               PROVE  /\ phase = "failed" => errors > 0 \/ (Several /\ Averages)
                      /\ phase = "panicked" => Checked /\ CountOverflows
                      /\ phase = "done" => ~(Checked /\ CountOverflows) /\ ~(Several /\ AveragesCounted)
    BY DEF NoErrorWithoutCause, Several
  <2>1. phase = "failed" => errors > 0 \/ (Several /\ Averages)
    BY <1>1 DEF Inv, PhaseInv
  <2>2. phase = "panicked" => Checked /\ CountOverflows
    BY <1>1 DEF Inv, PhaseInv
  <2>3. ASSUME NEW k \in DOMAIN query.aggs, NEW i \in DOMAIN Rows
        PROVE  LET key == NamedKey(query, Rows[i]) IN
                 /\ key \in KeysAt(query, Rows, DOMAIN Rows)
                 /\ DOMAIN Rows \cap Places(query, k, Rows, key) = Places(query, k, Rows, key)
    BY DEF KeysAt, Places
  <2>4. ASSUME phase = "done", Checked, CountOverflows PROVE FALSE
    <3>1. PICK k \in DOMAIN query.aggs, i \in DOMAIN Rows :
            /\ query.aggs[k].func \in Counts
            /\ Cardinality(Places(query, k, Rows, NamedKey(query, Rows[i]))) \notin Int32
      BY <2>4 DEF CountOverflows, Counts
    <3>2. Fits(query, Rows, DOMAIN Rows)
      BY <1>1, <2>4, AllPlacesRead
    <3>3. QED
      BY <2>3, <3>1, <3>2 DEF Fits
  <2>5. ASSUME phase = "done", Several, AveragesCounted PROVE FALSE
    <3>1. PICK k \in DOMAIN query.aggs, i \in DOMAIN Rows :
            /\ query.aggs[k].func = "AVG"
            /\ Wrap(Cardinality(Places(query, k, Rows, NamedKey(query, Rows[i])))) # 0
      BY <2>5 DEF AveragesCounted
    <3>2. Represents("Final", query, map, Rows, DOMAIN Rows)
      BY <1>1, <2>5, AllPlacesRead
    <3> DEFINE key == NamedKey(query, Rows[i])
               is == Places(query, k, Rows, key)
    <3>3. key \in DOMAIN map /\ DOMAIN Rows \cap is = is
      BY <2>3, <3>2 DEF Represents
    <3>4. Holds("Final", query.aggs[k].func, map[key][k], Rows, is, query.aggs[k].arg)
      <4> HIDE DEF key
      <4>1. Holds("Final", query.aggs[k].func, map[key][k], Rows, DOMAIN Rows \cap is, query.aggs[k].arg)
        BY <3>2, <3>3 DEF Represents
      <4>2. QED
        BY <3>3, <4>1
    <3>5. Wrap(Cardinality(is)) = 0
      BY <3>1, <3>4 DEF Holds
    <3>6. QED
      BY <3>1, <3>5
  <2>6. QED
    BY <2>1, <2>2, <2>4, <2>5
<1>2. QED
  BY <1>1, Invariance, PTL
=============================================================================
