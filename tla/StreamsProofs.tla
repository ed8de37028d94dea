---------------------------- MODULE StreamsProofs ----------------------------
(***************************************************************************)
(* Proofs about the streams of a chain of operators: whatever the chain,   *)
(* the source and the cut of its rows into batches, the caller gets an     *)
(* answer of the chain, and a limit reads no more than it needs.           *)
(***************************************************************************)
EXTENDS Streams, FoldProofs

Rows == Seq(Row)
-----------------------------------------------------------------------------
(***************************************************************************)
(* What the operators do with rows that come in two parts.                 *)
(***************************************************************************)
Picked(row) == IF row \in Keep THEN <<row>> ELSE <<>>

LEMMA KeptOfTwo ==
  ASSUME NEW a \in Rows, NEW b \in Rows
  PROVE  Kept(a) \in Rows /\ Kept(a \o b) = Kept(a) \o Kept(b)
<1> DEFINE picks(s) == [i \in DOMAIN s |-> Picked(s[i])]
<1>1. \A row \in Row : Picked(row) \in Rows
  BY DEF Picked, Rows
<1>2. ASSUME NEW s \in Rows
      PROVE  picks(s) \in Seq(Rows) /\ Len(picks(s)) = Len(s)
             /\ \A i \in 1..Len(s) : picks(s)[i] = Picked(s[i])
  <2>1. Len(s) \in Nat /\ DOMAIN s = 1..Len(s) /\ \A i \in 1..Len(s) : s[i] \in Row
    BY DEF Rows
  <2>2. \A i \in 1..Len(s) : Picked(s[i]) \in Rows
    BY <1>1, <2>1
  <2>3. QED
    BY <2>1, <2>2
<1>3. a \o b \in Rows /\ Len(a \o b) = Len(a) + Len(b) /\ Len(a) \in Nat /\ Len(b) \in Nat
      /\ \A i \in 1..Len(a) + Len(b) : (a \o b)[i] = IF i <= Len(a) THEN a[i] ELSE b[i - Len(a)]
  BY ConcatProperties DEF Rows
<1> HIDE DEF picks
<1>4. picks(a \o b) = picks(a) \o picks(b)
  <2>1. picks(a) \in Seq(Rows) /\ Len(picks(a)) = Len(a) /\ picks(b) \in Seq(Rows) /\ Len(picks(b)) = Len(b)
        /\ picks(a \o b) \in Seq(Rows) /\ Len(picks(a \o b)) = Len(a) + Len(b)
    BY <1>2, <1>3
  <2>2. \A s \in Rows : \A i \in 1..Len(s) : picks(s)[i] = Picked(s[i])
    BY <1>2
  <2>3. ASSUME NEW i \in 1..Len(a) PROVE picks(a \o b)[i] = picks(a)[i]
    <3>1. i \in 1..Len(a \o b) /\ (a \o b)[i] = a[i]
      BY <1>3
    <3>2. picks(a \o b)[i] = Picked((a \o b)[i]) /\ picks(a)[i] = Picked(a[i])
      BY <1>3, <2>2, <3>1
    <3>3. QED
      BY <3>1, <3>2
  <2>4. ASSUME NEW i \in 1..Len(b) PROVE picks(a \o b)[Len(a) + i] = picks(b)[i]
    <3>1. Len(a) + i \in 1..Len(a \o b) /\ (a \o b)[Len(a) + i] = b[i]
      BY <1>3
    <3>2. picks(a \o b)[Len(a) + i] = Picked((a \o b)[Len(a) + i]) /\ picks(b)[i] = Picked(b[i])
      BY <1>3, <2>2, <3>1
    <3>3. QED
      BY <3>1, <3>2
  <2> DEFINE p == picks(a)  q == picks(b)  pq == picks(a \o b)
  <2>5. p \in Seq(Rows) /\ q \in Seq(Rows) /\ pq \in Seq(Rows) /\ Len(pq) = Len(p) + Len(q)
        /\ (\A i \in 1..Len(p) : pq[i] = p[i]) /\ (\A i \in 1..Len(q) : pq[Len(p) + i] = q[i])
    BY <2>1, <2>3, <2>4
  <2> HIDE DEF p, q, pq
  <2>6. pq = p \o q
    BY <2>5, ConcatEqual
  <2>7. QED
    BY <2>6 DEF p, q, pq
<1>5. \A s : Kept(s) = FlattenSeq(picks(s))
  BY DEF Kept, Picked, picks
<1>6. picks(a) \in Seq(Rows) /\ picks(b) \in Seq(Rows)
  BY <1>2
<1>7. FlattenSeq(picks(a)) \in Rows /\ FlattenSeq(picks(a) \o picks(b)) = FlattenSeq(picks(a)) \o FlattenSeq(picks(b))
  BY <1>6, FlattenProperties, FlattenConcat DEF Rows
<1>8. QED
  BY <1>4, <1>5, <1>7

LEMMA KeptOfNone == Kept(<<>>) = <<>>
<1>1. [i \in DOMAIN <<>> |-> Picked(<<>>[i])] = <<>>
  OBVIOUS
<1>2. FlattenSeq(<<>>) = <<>>
  BY FlattenProperties, EmptySeq
<1>3. QED
  BY <1>1, <1>2 DEF Kept, Picked

LEMMA ProjectedOfTwo ==
  ASSUME NEW a \in Rows, NEW b \in Rows
  PROVE  /\ Projected(a) \in Rows
         /\ Len(Projected(a)) = Len(a)
         /\ Projected(a \o b) = Projected(a) \o Projected(b)
<1>1. ASSUME NEW s \in Rows
      PROVE  Projected(s) \in Rows /\ Len(Projected(s)) = Len(s)
             /\ \A i \in 1..Len(s) : Projected(s)[i] = Project[s[i]]
  <2>1. Len(s) \in Nat /\ DOMAIN s = 1..Len(s) /\ \A i \in 1..Len(s) : s[i] \in Row
    BY DEF Rows
  <2>2. \A i \in 1..Len(s) : Project[s[i]] \in Row
    BY <2>1, RowAssumption
  <2>3. QED
    BY <2>1, <2>2 DEF Rows, Projected
<1>2. a \o b \in Rows /\ Len(a \o b) = Len(a) + Len(b) /\ Len(a) \in Nat /\ Len(b) \in Nat
      /\ \A i \in 1..Len(a) + Len(b) : (a \o b)[i] = IF i <= Len(a) THEN a[i] ELSE b[i - Len(a)]
  BY ConcatProperties DEF Rows
<1>3. Projected(a) \in Rows /\ Len(Projected(a)) = Len(a) /\ Projected(b) \in Rows /\ Len(Projected(b)) = Len(b)
      /\ Projected(a \o b) \in Rows /\ Len(Projected(a \o b)) = Len(a) + Len(b)
  BY <1>1, <1>2
<1>4. \A s \in Rows : \A i \in 1..Len(s) : Projected(s)[i] = Project[s[i]]
  BY <1>1
<1>5. ASSUME NEW i \in 1..Len(a) PROVE Projected(a \o b)[i] = Projected(a)[i]
  <2>1. i \in 1..Len(a \o b) /\ (a \o b)[i] = a[i]
    BY <1>2
  <2>2. Projected(a \o b)[i] = Project[(a \o b)[i]] /\ Projected(a)[i] = Project[a[i]]
    BY <1>2, <1>4, <2>1
  <2>3. QED
    BY <2>1, <2>2
<1>6. ASSUME NEW i \in 1..Len(b) PROVE Projected(a \o b)[Len(a) + i] = Projected(b)[i]
  <2>1. Len(a) + i \in 1..Len(a \o b) /\ (a \o b)[Len(a) + i] = b[i]
    BY <1>2
  <2>2. Projected(a \o b)[Len(a) + i] = Project[(a \o b)[Len(a) + i]] /\ Projected(b)[i] = Project[b[i]]
    BY <1>2, <1>4, <2>1
  <2>3. QED
    BY <2>1, <2>2
<1> DEFINE p == Projected(a)  q == Projected(b)  pq == Projected(a \o b)
<1>7. p \in Seq(Row) /\ q \in Seq(Row) /\ pq \in Seq(Row) /\ Len(pq) = Len(p) + Len(q)
      /\ (\A i \in 1..Len(p) : pq[i] = p[i]) /\ (\A i \in 1..Len(q) : pq[Len(p) + i] = q[i])
  BY <1>3, <1>5, <1>6 DEF Rows
<1> HIDE DEF p, q, pq
<1>8. pq = p \o q
  BY <1>7, ConcatEqual
<1>9. QED
  BY <1>3, <1>8 DEF p, q, pq

LEMMA ProjectedOfNone == Projected(<<>>) = <<>>
  BY DEF Projected

\* What a limit that has still to skip and to fetch so many makes of the rows.
Window(rows, skip, fetch) == SubSeq(rows, skip + 1, Min({Len(rows), skip + fetch}))
WindowLen(len, skip, fetch) == IF len <= skip THEN 0 ELSE IF len - skip <= fetch THEN len - skip ELSE fetch

LEMMA WindowProperties ==
  ASSUME NEW rows \in Rows, NEW skip \in Nat, NEW fetch \in Nat
  PROVE  /\ Window(rows, skip, fetch) \in Rows
         /\ Len(Window(rows, skip, fetch)) = WindowLen(Len(rows), skip, fetch)
         /\ \A i \in 1..WindowLen(Len(rows), skip, fetch) :
              skip + i \in 1..Len(rows) /\ Window(rows, skip, fetch)[i] = rows[skip + i]
<1> DEFINE last == Min({Len(rows), skip + fetch})
           len == WindowLen(Len(rows), skip, fetch)
<1>1. Len(rows) \in Nat /\ skip + fetch \in Nat /\ \A i \in 1..Len(rows) : rows[i] \in Row
  BY DEF Rows
<1>2. last = IF Len(rows) <= skip + fetch THEN Len(rows) ELSE skip + fetch
  BY <1>1, MinOfTwo
<1>3. Window(rows, skip, fetch) = SubSeq(rows, skip + 1, last)
  BY DEF Window
<1> HIDE DEF last
<1>4. last \in Nat /\ last <= Len(rows)
  BY <1>1, <1>2
<1>5. \A i \in (skip + 1)..last : rows[i] \in Row
  BY <1>1, <1>4
<1>6. /\ SubSeq(rows, skip + 1, last) \in Seq(Row)
      /\ Len(SubSeq(rows, skip + 1, last)) = IF skip + 1 <= last THEN last - (skip + 1) + 1 ELSE 0
      /\ \A i \in 1..(last - (skip + 1) + 1) : SubSeq(rows, skip + 1, last)[i] = rows[(skip + 1) + i - 1]
  <2>1. skip + 1 \in Int /\ last \in Int
    BY <1>4
  <2>2. QED
    BY <1>5, <2>1, SubSeqProperties
<1>7. len = (IF skip + 1 <= last THEN last - (skip + 1) + 1 ELSE 0) /\ len \in Nat
  BY <1>1, <1>2 DEF WindowLen
<1>8. ASSUME NEW i \in 1..len
      PROVE  skip + i \in 1..Len(rows) /\ Window(rows, skip, fetch)[i] = rows[skip + i]
  <2>1. i \in 1..(last - (skip + 1) + 1) /\ skip + i \in 1..Len(rows) /\ (skip + 1) + i - 1 = skip + i
    BY <1>1, <1>4, <1>7
  <2>2. QED
    BY <1>3, <1>6, <2>1
<1>9. QED
  BY <1>3, <1>6, <1>7, <1>8 DEF Rows

LEMMA WindowOfNone ==
  ASSUME NEW skip \in Nat, NEW fetch \in Nat
  PROVE  Window(<<>>, skip, fetch) = <<>>
<1>1. <<>> \in Rows /\ Len(<<>>) = 0
  BY DEF Rows
<1>2. Len(Window(<<>>, skip, fetch)) = 0 /\ Window(<<>>, skip, fetch) \in Rows
  BY <1>1, WindowProperties DEF WindowLen
<1>3. QED
  BY <1>2 DEF Rows

LEMMA WindowOfNothingLeft ==
  ASSUME NEW rows \in Rows, NEW skip \in Nat
  PROVE  Window(rows, skip, 0) = <<>>
<1>1. Len(Window(rows, skip, 0)) = 0 /\ Window(rows, skip, 0) \in Rows
  <2>1. Len(rows) \in Nat
    BY DEF Rows
  <2>2. WindowLen(Len(rows), skip, 0) = 0
    BY <2>1 DEF WindowLen
  <2>3. QED
    BY <2>2, WindowProperties
<1>2. QED
  BY <1>1 DEF Rows

\* A batch of which all is skipped.
LEMMA WindowSkips ==
  ASSUME NEW b \in Rows, NEW a \in Rows, NEW skip \in Nat, NEW fetch \in Nat, skip >= Len(b)
  PROVE  Window(b \o a, skip, fetch) = Window(a, skip - Len(b), fetch)
<1> DEFINE w == Window(b \o a, skip, fetch)
           v == Window(a, skip - Len(b), fetch)
           n == WindowLen(Len(a), skip - Len(b), fetch)
<1>1. b \o a \in Rows /\ Len(b \o a) = Len(b) + Len(a) /\ Len(a) \in Nat /\ Len(b) \in Nat
      /\ \A i \in 1..Len(b) + Len(a) : (b \o a)[i] = IF i <= Len(b) THEN b[i] ELSE a[i - Len(b)]
  BY ConcatProperties DEF Rows
<1>2. n = WindowLen(Len(b \o a), skip, fetch) /\ skip - Len(b) \in Nat
  BY <1>1 DEF WindowLen
<1>3. w \in Rows /\ Len(w) = n /\ \A i \in 1..n : skip + i \in 1..Len(b \o a) /\ w[i] = (b \o a)[skip + i]
  <2> DEFINE c == b \o a
  <2>1. c \in Rows
    BY <1>1
  <2> HIDE DEF c, n
  <2>2. /\ Window(c, skip, fetch) \in Rows
        /\ Len(Window(c, skip, fetch)) = WindowLen(Len(c), skip, fetch)
        /\ \A i \in 1..WindowLen(Len(c), skip, fetch) :
             skip + i \in 1..Len(c) /\ Window(c, skip, fetch)[i] = c[skip + i]
    BY <2>1, WindowProperties
  <2>3. WindowLen(Len(c), skip, fetch) = n /\ w = Window(c, skip, fetch)
    BY <1>2 DEF c
  <2> HIDE DEF w
  <2>4. w \in Rows /\ Len(w) = n /\ \A i \in 1..n : skip + i \in 1..Len(c) /\ w[i] = c[skip + i]
    BY <2>2, <2>3
  <2>5. QED
    BY <2>4 DEF c
<1>4. v \in Rows /\ Len(v) = n /\ \A i \in 1..n : skip - Len(b) + i \in 1..Len(a) /\ v[i] = a[skip - Len(b) + i]
  BY <1>2, WindowProperties
<1> HIDE DEF w, v, n
<1>5. ASSUME NEW i \in 1..Len(w) PROVE w[i] = v[i]
  <2>1. i \in 1..n /\ skip + i \in 1..Len(b) + Len(a)
    BY <1>1, <1>3
  <2>2. i \in Int /\ i >= 1
    OBVIOUS
  <2>3. ~(skip + i <= Len(b)) /\ (skip + i) - Len(b) = skip - Len(b) + i
    BY <1>1, <2>2
  <2>4. (b \o a)[skip + i] = a[skip - Len(b) + i]
    BY <1>1, <2>1, <2>3
  <2>5. QED
    BY <1>3, <1>4, <2>1, <2>4
<1>6. w = v
  BY <1>3, <1>4, <1>5, SeqEqual DEF Rows
<1>7. QED
  BY <1>6 DEF w, v

\* A batch of which a part may be skipped and a part may be too much.
TakenOf(b, skip, fetch) == SubSeq(SubSeq(b, skip + 1, Len(b)), 1,
  IF Len(SubSeq(b, skip + 1, Len(b))) <= fetch THEN Len(SubSeq(b, skip + 1, Len(b))) ELSE fetch)

LEMMA TakenProperties ==
  ASSUME NEW b \in Rows, NEW skip \in Nat, NEW fetch \in Nat, skip = 0 \/ skip < Len(b)
  PROVE  /\ SubSeq(b, skip + 1, Len(b)) \in Rows
         /\ Len(SubSeq(b, skip + 1, Len(b))) = Len(b) - skip
         /\ TakenOf(b, skip, fetch) \in Rows
         /\ Len(TakenOf(b, skip, fetch)) = IF Len(b) - skip <= fetch THEN Len(b) - skip ELSE fetch
         /\ \A i \in 1..Len(TakenOf(b, skip, fetch)) :
              skip + i \in 1..Len(b) /\ TakenOf(b, skip, fetch)[i] = b[skip + i]
<1> DEFINE left == SubSeq(b, skip + 1, Len(b))
           n == IF Len(left) <= fetch THEN Len(left) ELSE fetch
           t == SubSeq(left, 1, n)
<1>1. Len(b) \in Nat /\ \A i \in 1..Len(b) : b[i] \in Row
  BY DEF Rows
<1>2. /\ left \in Seq(Row)
      /\ Len(left) = IF skip + 1 <= Len(b) THEN Len(b) - (skip + 1) + 1 ELSE 0
      /\ \A i \in 1..(Len(b) - (skip + 1) + 1) : left[i] = b[(skip + 1) + i - 1]
  <2>1. skip + 1 \in Int /\ Len(b) \in Int /\ \A i \in (skip + 1)..Len(b) : b[i] \in Row
    BY <1>1
  <2>2. QED
    BY <2>1, SubSeqProperties
<1>3. Len(left) = Len(b) - skip /\ Len(left) \in Nat /\ Len(b) - (skip + 1) + 1 = Len(b) - skip
  BY <1>1, <1>2
<1>4. \A i \in 1..Len(left) : left[i] = b[skip + i] /\ left[i] \in Row /\ skip + i \in 1..Len(b)
  <2> SUFFICES ASSUME NEW i \in 1..Len(left)
               PROVE  left[i] = b[skip + i] /\ left[i] \in Row /\ skip + i \in 1..Len(b)
    OBVIOUS
  <2> DEFINE len == Len(left)
  <2>a. len \in Nat /\ i \in 1..len /\ len = Len(b) - skip
    BY <1>3
  <2> HIDE DEF len
  <2>1. i \in Int /\ 1 <= i /\ i <= Len(b) - skip
    BY <2>a
  <2>2. i \in 1..(Len(b) - (skip + 1) + 1)
    BY <1>1, <1>3, <2>1
  <2>3. (skip + 1) + i - 1 = skip + i /\ skip + i \in 1..Len(b)
    BY <1>1, <2>1
  <2>4. left[i] = b[(skip + 1) + i - 1]
    BY <1>2, <2>2
  <2>5. QED
    BY <1>1, <2>3, <2>4
<1> HIDE DEF left
<1>5. n \in Nat /\ n <= Len(left)
  BY <1>3
<1>6. /\ t \in Seq(Row)
      /\ Len(t) = IF 1 <= n THEN n - 1 + 1 ELSE 0
      /\ \A i \in 1..(n - 1 + 1) : t[i] = left[1 + i - 1]
  <2>1. 1 \in Int /\ n \in Int /\ \A i \in 1..n : left[i] \in Row
    BY <1>3, <1>4, <1>5
  <2> HIDE DEF n
  <2>2. QED
    BY <2>1, SubSeqProperties
<1>7. Len(t) = n /\ \A i \in 1..n : t[i] = left[i] /\ i \in 1..Len(left)
  <2> HIDE DEF t, n
  <2>1. Len(t) = n
    BY <1>5, <1>6
  <2>2. ASSUME NEW i \in 1..n PROVE t[i] = left[i] /\ i \in 1..Len(left)
    <3>1. i \in 1..(n - 1 + 1) /\ 1 + i - 1 = i /\ i \in 1..Len(left)
      BY <1>3, <1>5
    <3>2. QED
      BY <1>6, <3>1
  <2>3. QED
    BY <2>1, <2>2
<1>8. TakenOf(b, skip, fetch) = t
  BY DEF TakenOf, left
<1> HIDE DEF t
<1>9. QED
  BY <1>2, <1>3, <1>4, <1>6, <1>7, <1>8 DEF Rows, left

LEMMA WindowArithmetic ==
  ASSUME NEW lb \in Nat, NEW la \in Nat, NEW skip \in Nat, NEW fetch \in Nat, skip = 0 \/ skip < lb,
         NEW lt, lt = IF lb - skip <= fetch THEN lb - skip ELSE fetch,
         NEW n, n = WindowLen(lb + la, skip, fetch), NEW m, m = WindowLen(la, 0, fetch - lt)
  PROVE  /\ n = lt + m /\ m \in Nat /\ n \in Nat /\ m <= la
         /\ (m > 0 => lt = lb - skip) /\ skip + n <= lb + la
         /\ lt \in Nat /\ fetch - lt \in Nat
  BY DEF WindowLen

LEMMA WindowFromStart ==
  ASSUME NEW rows \in Rows, NEW fetch \in Nat
  PROVE  /\ Window(rows, 0, fetch) \in Rows
         /\ Len(Window(rows, 0, fetch)) = WindowLen(Len(rows), 0, fetch)
         /\ \A i \in 1..WindowLen(Len(rows), 0, fetch) :
              i \in 1..Len(rows) /\ Window(rows, 0, fetch)[i] = rows[i]
<1> DEFINE z == 0
<1>1. z \in Nat /\ \A i \in Int : z + i = i
  OBVIOUS
<1>a. z = 0
  OBVIOUS
<1> HIDE DEF z
<1>2. /\ Window(rows, z, fetch) \in Rows
      /\ Len(Window(rows, z, fetch)) = WindowLen(Len(rows), z, fetch)
      /\ \A i \in 1..WindowLen(Len(rows), z, fetch) :
           z + i \in 1..Len(rows) /\ Window(rows, z, fetch)[i] = rows[z + i]
  BY <1>1, WindowProperties
<1>3. \A i \in 1..WindowLen(Len(rows), z, fetch) : i \in Int
  OBVIOUS
<1>4. \A i \in 1..WindowLen(Len(rows), z, fetch) : i \in 1..Len(rows) /\ Window(rows, z, fetch)[i] = rows[i]
  BY <1>1, <1>2, <1>3
<1>5. QED
  BY <1>2, <1>4, <1>a

LEMMA WindowTakes ==
  ASSUME NEW b \in Rows, NEW a \in Rows, NEW skip \in Nat, NEW fetch \in Nat, skip = 0 \/ skip < Len(b)
  PROVE  LET t == TakenOf(b, skip, fetch) IN
           fetch - Len(t) \in Nat /\ Window(b \o a, skip, fetch) = t \o Window(a, 0, fetch - Len(t))
<1> DEFINE t == TakenOf(b, skip, fetch)
           w == Window(b \o a, skip, fetch)
           v == Window(a, 0, fetch - Len(t))
<1>1. b \o a \in Rows /\ Len(b \o a) = Len(b) + Len(a) /\ Len(a) \in Nat /\ Len(b) \in Nat
      /\ \A i \in 1..Len(b) + Len(a) : (b \o a)[i] = IF i <= Len(b) THEN b[i] ELSE a[i - Len(b)]
  BY ConcatProperties DEF Rows
<1>2. t \in Rows /\ Len(t) = (IF Len(b) - skip <= fetch THEN Len(b) - skip ELSE fetch)
      /\ \A i \in 1..Len(t) : skip + i \in 1..Len(b) /\ t[i] = b[skip + i]
  BY TakenProperties
<1> HIDE DEF t
<1> DEFINE lt == Len(t)
           n == WindowLen(Len(b) + Len(a), skip, fetch)
           m == WindowLen(Len(a), 0, fetch - lt)
<1>3. n = lt + m /\ m \in Nat /\ n \in Nat /\ m <= Len(a) /\ (m > 0 => lt = Len(b) - skip)
      /\ skip + n <= Len(b) + Len(a) /\ lt \in Nat /\ fetch - lt \in Nat
  <2> DEFINE lb == Len(b)  la == Len(a)
  <2>1. lt = (IF lb - skip <= fetch THEN lb - skip ELSE fetch) /\ lb \in Nat /\ la \in Nat
        /\ (skip = 0 \/ skip < lb) /\ n = WindowLen(lb + la, skip, fetch) /\ m = WindowLen(la, 0, fetch - lt)
    BY <1>1, <1>2
  <2> HIDE DEF lt, n, m, lb, la
  <2>2. /\ n = lt + m /\ m \in Nat /\ n \in Nat /\ m <= la
        /\ (m > 0 => lt = lb - skip) /\ skip + n <= lb + la
        /\ lt \in Nat /\ fetch - lt \in Nat
    BY <2>1, WindowArithmetic, SMTT(30)
  <2>3. QED
    BY <2>2 DEF lb, la
<1>4. w \in Rows /\ Len(w) = n /\ \A i \in 1..n : w[i] = (b \o a)[skip + i]
  <2> DEFINE c == b \o a
  <2>1. c \in Rows /\ Len(c) = Len(b) + Len(a)
    BY <1>1
  <2> HIDE DEF c
  <2>2. /\ Window(c, skip, fetch) \in Rows
        /\ Len(Window(c, skip, fetch)) = WindowLen(Len(c), skip, fetch)
        /\ \A i \in 1..WindowLen(Len(c), skip, fetch) :
             skip + i \in 1..Len(c) /\ Window(c, skip, fetch)[i] = c[skip + i]
    BY <2>1, WindowProperties
  <2>3. WindowLen(Len(c), skip, fetch) = n /\ w = Window(c, skip, fetch)
    BY <2>1 DEF c
  <2> HIDE DEF w, n
  <2>4. w \in Rows /\ Len(w) = n /\ \A i \in 1..n : skip + i \in 1..Len(c) /\ w[i] = c[skip + i]
    BY <2>2, <2>3
  <2>5. QED
    BY <2>4 DEF c
<1>5. v \in Rows /\ Len(v) = m /\ \A i \in 1..m : v[i] = a[i]
  <2> DEFINE f == fetch - lt
  <2>1. f \in Nat
    BY <1>3
  <2> HIDE DEF f
  <2>2. /\ Window(a, 0, f) \in Rows
        /\ Len(Window(a, 0, f)) = WindowLen(Len(a), 0, f)
        /\ \A i \in 1..WindowLen(Len(a), 0, f) : i \in 1..Len(a) /\ Window(a, 0, f)[i] = a[i]
    BY <2>1, WindowFromStart
  <2>3. QED
    BY <2>2 DEF f
<1> HIDE DEF w, v, n, m
<1>6. ASSUME NEW i \in 1..lt PROVE w[i] = t[i]
  <2>1. i \in 1..n
    BY <1>3
  <2>2. skip + i \in 1..Len(b) /\ t[i] = b[skip + i]
    BY <1>2
  <2> DEFINE j == skip + i
  <2>3. j \in 1..Len(b) + Len(a) /\ j <= Len(b)
    BY <1>1, <2>2
  <2> HIDE DEF j
  <2>4. (b \o a)[j] = b[j]
    BY <1>1, <2>3
  <2>5. QED
    BY <1>4, <2>1, <2>2, <2>4 DEF j
<1>7. ASSUME NEW i \in 1..m PROVE w[lt + i] = v[i]
  <2>1. i \in Int /\ lt + i \in 1..n /\ lt = Len(b) - skip /\ i >= 1 /\ i <= Len(a)
    BY <1>1, <1>3
  <2> DEFINE j == Len(b) + i
  <2>2. skip + (lt + i) = j /\ j \in 1..Len(b) + Len(a) /\ ~(j <= Len(b)) /\ j - Len(b) = i
    BY <1>1, <1>3, <2>1
  <2> HIDE DEF j
  <2>3. w[lt + i] = (b \o a)[j]
    BY <1>4, <2>1, <2>2
  <2>4. (b \o a)[j] = a[i]
    BY <1>1, <2>2
  <2>5. v[i] = a[i]
    BY <1>5
  <2>6. QED
    BY <2>3, <2>4, <2>5
<1>8. w \in Seq(Row) /\ t \in Seq(Row) /\ v \in Seq(Row) /\ Len(w) = Len(t) + Len(v)
      /\ (\A i \in 1..Len(t) : w[i] = t[i]) /\ (\A i \in 1..Len(v) : w[Len(t) + i] = v[i])
  BY <1>2, <1>3, <1>4, <1>5, <1>6, <1>7 DEF Rows
<1>9. w = t \o v
  BY <1>8, ConcatEqual
<1>10. QED
  BY <1>3, <1>9 DEF w, v, t

\* The orders in which rows can be sorted.
Orders(rows, n) == {p \in [1..n -> 1..n] :
                      /\ \A i, j \in 1..n : i # j => p[i] # p[j]
                      /\ \A i \in 1..(n - 1) : Rank[rows[p[i]]] <= Rank[rows[p[i + 1]]]}
InOrder(rows, n, p) == [i \in 1..n |-> rows[p[i]]]
FirstOf(n, fetch) == IF fetch < n THEN fetch ELSE n

LEMMA SortedIs ==
  ASSUME NEW rows, NEW fetch
  PROVE  Sorted(rows, fetch)
           = {SubSeq(InOrder(rows, Len(rows), p), 1, FirstOf(Len(rows), fetch)) : p \in Orders(rows, Len(rows))}
  BY DEF Sorted, Orders, InOrder, FirstOf

\* There always is one: the last row is put in behind those not above it.
LEMMA OrderExists ==
  ASSUME NEW rows \in Rows
  PROVE  Orders(rows, Len(rows)) # {}
<1> DEFINE T == {s \in Rows : Orders(s, Len(s)) # {}}
<1>1. <<>> \in T
  <2>1. <<>> \in Rows /\ Len(<<>>) = 0
    BY DEF Rows
  <2>2. <<>> \in Orders(<<>>, 0)
    BY DEF Orders
  <2>3. QED
    BY <2>1, <2>2
<1>2. ASSUME NEW s \in Rows, s \in T, NEW e \in Row PROVE Append(s, e) \in T
  <2> DEFINE n == Len(s)
             m == n + 1
             more == Append(s, e)
  <2>1. n \in Nat /\ more \in Rows /\ Len(more) = m /\ more[m] = e
        /\ (\A i \in 1..n : more[i] = s[i] /\ s[i] \in Row)
    BY DEF Rows
  <2>a. m = n + 1 /\ m \in Nat
    BY <2>1
  <2>2. PICK p \in Orders(s, n) : TRUE
    BY <1>2
  <2> HIDE DEF T, n, m, more
  <2>3. /\ p \in [1..n -> 1..n]
        /\ \A i, j \in 1..n : i # j => p[i] # p[j]
        /\ \A i \in 1..(n - 1) : Rank[s[p[i]]] <= Rank[s[p[i + 1]]]
    BY <2>2 DEF Orders
  <2>4. \A i \in 1..n : p[i] \in 1..n /\ Rank[s[p[i]]] \in Nat /\ Rank[s[p[i]]] = Rank[more[p[i]]]
    BY <2>1, <2>3, RowAssumption
  <2>5. Rank[e] \in Nat
    BY RowAssumption
  \* The rows before the place at are not above the new one.
  <2> DEFINE Low(k) == \A i \in 1..k : Rank[s[p[i]]] <= Rank[e]
             P == {k \in 0..n : Low(k)}
             gaps == {n - k : k \in P}
  <2>6. 0 \in P
    BY <2>1
  <2>7. gaps \subseteq Nat /\ gaps # {}
    <3>1. \A k \in P : n - k \in Nat
      BY <2>1
    <3>2. QED
      BY <2>6, <3>1
  <2>8. PICK gap \in gaps : \A g \in gaps : gap <= g
    BY <2>7, LeastElement
  <2>9. PICK k \in P : gap = n - k
    BY <2>8
  <2>10. k \in 0..n /\ Low(k)
    OBVIOUS
  <2>11. k < n => Rank[e] <= Rank[s[p[k + 1]]]
    <3> SUFFICES ASSUME k < n, Rank[e] > Rank[s[p[k + 1]]] PROVE FALSE
      <4>1. k < n => k + 1 \in 1..n
        BY <2>1, <2>10
      <4>2. QED
        BY <2>4, <2>5, <4>1
    <3>1. k + 1 \in 0..n /\ k + 1 \in 1..n
      BY <2>1, <2>10
    <3>2. Low(k + 1)
      <4>1. \A i \in 1..(k + 1) : i \in 1..k \/ i = k + 1
        BY <2>10
      <4>2. QED
        BY <2>4, <2>5, <2>10, <3>1, <4>1
    <3>3. k + 1 \in P
      BY <3>1, <3>2
    <3>4. n - (k + 1) \in gaps
      BY <3>3
    <3>5. gap <= n - (k + 1)
      BY <2>8, <3>4
    <3>6. QED
      BY <2>1, <2>9, <2>10, <3>5
  <2> HIDE DEF P, gaps
  <2> DEFINE q == [i \in 1..m |-> IF i <= k THEN p[i] ELSE IF i = k + 1 THEN m ELSE p[i - 1]]
  <2>12. \A i \in 1..m : \/ i \in 1..k /\ i \in 1..n /\ q[i] = p[i]
                         \/ i = k + 1 /\ q[i] = m
                         \/ i > k + 1 /\ i - 1 \in 1..n /\ q[i] = p[i - 1]
    BY <2>1, <2>a, <2>10
  <2>13. q \in [1..m -> 1..m]
    <3>1. ASSUME NEW i \in 1..m
          PROVE  (IF i <= k THEN p[i] ELSE IF i = k + 1 THEN m ELSE p[i - 1]) \in 1..m
      <4>1. i \in 1..k => i \in 1..n /\ p[i] \in 1..m
        BY <2>1, <2>a, <2>4, <2>10
      <4>2. i > k + 1 => i - 1 \in 1..n /\ p[i - 1] \in 1..m
        BY <2>1, <2>a, <2>4, <2>10
      <4>3. m \in 1..m
        BY <2>1, <2>a
      <4>4. (i <= k => i \in 1..k) /\ (~(i <= k) /\ i # k + 1 => i > k + 1)
        BY <2>1, <2>10
      <4>5. QED
        BY <4>1, <4>2, <4>3, <4>4
    <3>2. QED
      BY <3>1
  <2> HIDE DEF q
  <2>14. ASSUME NEW i \in 1..m, NEW j \in 1..m, i # j PROVE q[i] # q[j]
    <3>1. m \notin 1..n /\ \A x \in 1..n : p[x] # m
      BY <2>1, <2>a, <2>4
    <3>2. \A x, y \in 1..n : x # y => p[x] # p[y]
      BY <2>3
    <3>a. i \in Int /\ j \in Int /\ k \in Int
      BY <2>1, <2>a, <2>10
    <3>3. (i - 1 # j - 1) /\ (i \in 1..k /\ j > k + 1 => i # j - 1) /\ (j \in 1..k /\ i > k + 1 => j # i - 1)
      BY <2>14, <3>a
    <3>4. QED
      BY <2>12, <2>14, <3>1, <3>2, <3>3
  <2>15. ASSUME NEW i \in 1..n PROVE Rank[more[q[i]]] <= Rank[more[q[i + 1]]]
    <3>1. i \in 1..m /\ i + 1 \in 1..m /\ m \in 1..m
      BY <2>1, <2>a
    <3>2. CASE i + 1 \in 1..k
      <4>1. i \in 1..k /\ i + 1 \in 1..n /\ i \in 1..(n - 1) /\ ~(i > k + 1) /\ ~(i + 1 > k + 1) /\ i # k + 1 /\ i + 1 # k + 1
        BY <2>1, <2>10, <3>2
      <4>a. q[i] = p[i]
        BY <2>12, <3>1, <4>1
      <4>b. q[i + 1] = p[i + 1]
        BY <2>12, <3>1, <4>1
      <4>2. q[i] = p[i] /\ q[i + 1] = p[i + 1]
        BY <4>a, <4>b
      <4>3. QED
        BY <2>3, <2>4, <4>1, <4>2
    <3>3. CASE i = k
      <4>1. i \in 1..k /\ i # k + 1 /\ i + 1 = k + 1 /\ ~(i > k + 1)
        BY <2>10, <3>3
      <4>2. q[i] = p[i] /\ q[i + 1] = m
        BY <2>10, <2>12, <3>1, <4>1
      <4>3. Rank[s[p[i]]] <= Rank[e]
        BY <2>10, <4>1
      <4>4. QED
        BY <2>1, <2>4, <4>2, <4>3
    <3>4. CASE i = k + 1
      <4>1. i \notin 1..k /\ i + 1 > k + 1 /\ i + 1 # k + 1 /\ (i + 1) - 1 = i /\ k < n
        BY <2>1, <2>10, <3>4
      <4>2. q[i] = m /\ q[i + 1] = p[i]
        BY <2>10, <2>12, <3>1, <3>4, <4>1
      <4>3. QED
        BY <2>1, <2>4, <2>11, <3>4, <4>1, <4>2
    <3>5. CASE i > k + 1
      <4>1. i \notin 1..k /\ i # k + 1 /\ i + 1 \notin 1..k /\ i + 1 # k + 1 /\ (i + 1) - 1 = i
            /\ i - 1 \in 1..(n - 1) /\ i - 1 \in 1..n /\ (i - 1) + 1 = i
        BY <2>1, <2>10, <3>5
      <4>2. q[i] = p[i - 1] /\ q[i + 1] = p[i]
        BY <2>12, <3>1, <4>1
      <4>3. Rank[s[p[i - 1]]] <= Rank[s[p[i]]]
        BY <2>3, <4>1
      <4>4. QED
        BY <2>4, <4>1, <4>2, <4>3
    <3>6. i + 1 \in 1..k \/ i = k \/ i = k + 1 \/ i > k + 1
      BY <2>10
    <3>7. QED
      BY <3>2, <3>3, <3>4, <3>5, <3>6
  <2>16. m - 1 = n
    BY <2>1, <2>a
  <2>17. q \in Orders(more, m)
    BY <2>13, <2>14, <2>15, <2>16 DEF Orders
  <2>18. QED
    BY <2>1, <2>17 DEF T, more
<1> HIDE DEF T
<1>3. Seq(Row) \subseteq T
  BY <1>1, <1>2, AppendInduction DEF Rows
<1>4. QED
  BY <1>3 DEF T, Rows

LEMMA SortedProperties ==
  ASSUME NEW rows \in Rows, NEW fetch \in Nat
  PROVE  Sorted(rows, fetch) \subseteq Rows /\ Sorted(rows, fetch) # {}
<1> DEFINE n == Len(rows)
           f == FirstOf(n, fetch)
<1>1. n \in Nat /\ n = Len(rows) /\ \A i \in 1..n : rows[i] \in Row
  BY DEF Rows
<1>2. Orders(rows, n) # {}
  BY OrderExists
<1>3. Sorted(rows, fetch) = {SubSeq(InOrder(rows, n, p), 1, f) : p \in Orders(rows, n)}
  BY SortedIs
<1> HIDE DEF n
<1>4. f \in Nat /\ f <= n
  BY <1>1 DEF FirstOf
<1> HIDE DEF f
<1>5. ASSUME NEW p \in Orders(rows, n) PROVE SubSeq(InOrder(rows, n, p), 1, f) \in Rows
  <2> DEFINE s == InOrder(rows, n, p)
  <2>1. p \in [1..n -> 1..n]
    BY DEF Orders
  <2>2. \A i \in 1..n : s[i] \in Row
    BY <1>1, <2>1 DEF InOrder
  <2> HIDE DEF s
  <2>3. 1 \in Int /\ f \in Int /\ \A i \in 1..f : s[i] \in Row
    BY <1>1, <1>4, <2>2
  <2>4. SubSeq(s, 1, f) \in Seq(Row)
    BY <2>3, SubSeqProperties
  <2>5. QED
    BY <2>4 DEF s, Rows
<1>6. QED
  BY <1>2, <1>3, <1>5

LEMMA SortedOfNone ==
  ASSUME NEW fetch \in Nat
  PROVE  Sorted(<<>>, fetch) = {<<>>}
<1>1. <<>> \in Rows /\ Len(<<>>) = 0
  BY DEF Rows
<1> DEFINE n == Len(<<>>)
<1>2. Sorted(<<>>, fetch) = {SubSeq(InOrder(<<>>, n, p), 1, FirstOf(n, fetch)) : p \in Orders(<<>>, n)}
  BY SortedIs
<1>3. n = 0
  BY <1>1
<1> HIDE DEF n
<1>a. FirstOf(n, fetch) = 0
  BY <1>3 DEF FirstOf
<1>4. \A p : SubSeq(InOrder(<<>>, n, p), 1, FirstOf(n, fetch)) = <<>>
  BY <1>a, SubSeqEmpty
<1>5. Sorted(<<>>, fetch) # {}
  BY <1>1, SortedProperties
<1>6. \A x \in Sorted(<<>>, fetch) : x = <<>>
  BY <1>2, <1>4
<1>7. QED
  BY <1>5, <1>6
-----------------------------------------------------------------------------
(***************************************************************************)
(* What a chain promises.                                                  *)
(***************************************************************************)
OperatorPlans == [kind : {"limit", "filter", "projection", "sort"}, skip : Nat, fetch : Nat]

LEMMA MeaningInRows ==
  ASSUME NEW op \in OperatorPlans, NEW rows \in Rows
  PROVE  Meaning(op, rows) \subseteq Rows
<1>1. <<>> \in Rows
  BY DEF Rows
<1>2. Kept(rows) \in Rows /\ Projected(rows) \in Rows
  BY <1>1, KeptOfTwo, ProjectedOfTwo
<1>3. op.skip \in Nat /\ op.fetch \in Nat /\ op.kind \in {"limit", "filter", "projection", "sort"}
  BY DEF OperatorPlans
<1>4. Window(rows, op.skip, op.fetch) \in Rows /\ Sorted(rows, op.fetch) \subseteq Rows
  BY <1>3, WindowProperties, SortedProperties
<1>5. QED
  BY <1>2, <1>3, <1>4 DEF Meaning, Window

\* The fold of AnswersOf goes through the answers after each operator.
LEMMA AnswersPass ==
  ASSUME NEW ops \in Seq(OperatorPlans), NEW rows \in Rows, NEW n, n = Len(ops)
  PROVE  \E acc \in [0..n -> SUBSET Rows] :
           /\ acc[0] = {rows}
           /\ \A k \in 1..n : acc[k] = UNION {Meaning(ops[k], answer) : answer \in acc[k - 1]}
           /\ AnswersOf(ops, rows) = acc[n]
<1> DEFINE V == SUBSET Rows
           All(k, answers) == UNION {Meaning(ops[k], answer) : answer \in answers}
           step == [p \in (1..n) \X V |-> All(p[1], p[2])]
           eq(g) == [s \in SUBSET (1..n) |-> IF s = {} THEN {rows}
                                             ELSE LET x == Max(s) IN All(x, g[s \ {x}])]
           fold == CHOOSE g : g = eq(g)
<1>1. n \in Nat /\ DOMAIN ops = 1..n /\ \A k \in 1..n : ops[k] \in OperatorPlans
  OBVIOUS
<1>2. {rows} \in V
  OBVIOUS
<1>3. \A k \in 1..n : \A answers \in V : All(k, answers) \in V
  BY <1>1, MeaningInRows
<1>4. AnswersOf(ops, rows) = fold[1..n]
  BY <1>1 DEF AnswersOf, FoldLeft, MapThenFoldSet
<1> HIDE DEF All, V
<1>5. step \in [(1..n) \X V -> V]
  BY <1>3
<1>6. \A k \in 1..n : \A answers \in V : step[<<k, answers>>] = All(k, answers)
  OBVIOUS
<1> HIDE DEF step
<1>7. PICK g0 \in [SUBSET (1..n) -> V] : FoldsTo(g0, n, {rows}, step)
  BY <1>1, <1>2, <1>5, FoldExists
<1>8. g0 = eq(g0)
  <2>1. ASSUME NEW s \in SUBSET (1..n)
        PROVE  g0[s] = IF s = {} THEN {rows} ELSE LET x == Max(s) IN All(x, g0[s \ {x}])
    <3>1. CASE s = {}
      BY <1>7, <3>1 DEF FoldsTo
    <3>2. CASE s # {}
      <4>1. Max(s) \in s
        BY <1>1, <3>2, MaxOfPlaces
      <4>2. Max(s) \in 1..n /\ s \ {Max(s)} \in SUBSET (1..n)
        BY <4>1
      <4>3. g0[s] = step[<<Max(s), g0[s \ {Max(s)}]>>] /\ g0[s \ {Max(s)}] \in V
        BY <1>7, <3>2, <4>2 DEF FoldsTo
      <4>4. QED
        BY <1>6, <3>2, <4>2, <4>3
    <3>3. QED
      BY <3>1, <3>2
  <2>2. QED
    BY <2>1
<1>9. fold = eq(fold)
  BY <1>8
<1> HIDE DEF fold
<1>10. fold[{}] = {rows}
  BY <1>9
<1>11. ASSUME NEW s \in (SUBSET (1..n)) \ {{}}, fold[s \ {Max(s)}] \in V
       PROVE  fold[s] = step[<<Max(s), fold[s \ {Max(s)}]>>]
  <2>1. Max(s) \in 1..n
    BY <1>1, MaxOfPlaces
  <2>2. fold[s] = All(Max(s), fold[s \ {Max(s)}])
    BY <1>9
  <2>3. QED
    BY <1>6, <1>11, <2>1, <2>2
<1>12. PICK acc \in [0..n -> V] : Passes(acc, n, {rows}, step) /\ acc[n] = fold[1..n]
  <2> DEFINE base == {rows}
  <2>1. FoldsAmong(fold, V, n, base, step)
    BY <1>10, <1>11 DEF FoldsAmong
  <2>2. n \in Nat /\ base \in V /\ step \in [(1..n) \X V -> V]
    BY <1>1, <1>2, <1>5
  <2> HIDE DEF base
  <2>3. PassesTo(fold[1..n], V, n, base, step)
    BY <2>1, <2>2, FoldPasses
  <2>4. QED
    BY <2>3 DEF base, PassesTo
<1>13. acc[0] = {rows}
  BY <1>12 DEF Passes
<1>14. ASSUME NEW k \in 1..n PROVE acc[k] = All(k, acc[k - 1])
  <2>1. k - 1 \in 0..n
    BY <1>1
  <2>2. acc[k] = step[<<k, acc[k - 1]>>] /\ acc[k - 1] \in V
    BY <1>12, <2>1 DEF Passes
  <2>3. QED
    BY <1>6, <2>2
<1>15. QED
  BY <1>4, <1>12, <1>13, <1>14 DEF All, V

LEMMA AnswersReached ==
  ASSUME NEW ops \in Seq(OperatorPlans), NEW rows \in Rows, NEW n, n = Len(ops), NEW r, r[0] = rows,
         \A k \in 1..n : r[k] \in Meaning(ops[k], r[k - 1])
  PROVE  r[n] \in AnswersOf(ops, rows)
<1>1. PICK acc \in [0..n -> SUBSET Rows] :
           /\ acc[0] = {rows}
           /\ \A k \in 1..n : acc[k] = UNION {Meaning(ops[k], answer) : answer \in acc[k - 1]}
           /\ AnswersOf(ops, rows) = acc[n]
  BY AnswersPass
<1> DEFINE S == {k \in 0..n : r[k] \in acc[k]}
<1>2. n \in Nat
  OBVIOUS
<1>3. 0 \in S
  BY <1>1, <1>2
<1>4. ASSUME NEW k \in 1..n, k - 1 \in S PROVE k \in S
  <2>1. r[k - 1] \in acc[k - 1] /\ k \in 0..n
    BY <1>2, <1>4
  <2>2. r[k] \in Meaning(ops[k], r[k - 1])
    OBVIOUS
  <2>3. QED
    BY <1>1, <2>1, <2>2
<1> HIDE DEF S
<1>5. 0..n \subseteq S
  BY <1>2, <1>3, <1>4, BoundedInduction
<1>6. n \in S
  BY <1>2, <1>5
<1>7. QED
  BY <1>1, <1>6 DEF S
-----------------------------------------------------------------------------
(***************************************************************************)
(* The inductive invariant.  What the caller will have got when no error   *)
(* comes any more is read off a run: the rows that each operator will      *)
(* still make of the rows that are still coming to it.  Operators choose   *)
(* (a sort need not be stable), so there may be several runs, and every    *)
(* one of them must lead to an answer.                                     *)
(***************************************************************************)
Whats         == {"ask", "batch", "end", "error"}
OperatorState == [skip : Nat, remaining : Nat, batches : Seq(Rows), over : BOOLEAN]

\* The rows the source has not given.
Coming == FlattenSeq(SubSeq(input, index + 1, Len(input)))

\* What comes into operator k: what is with it now, and what r has below it.
Into(k, r, place, it) == IF it.what = "batch" /\ place = k THEN it.rows \o r[k - 1] ELSE r[k - 1]

\* What an operator may still make of the rows that come.
Makes(op, kept, rows) ==
  IF kept.over THEN {<<>>}
  ELSE CASE op.kind = "filter"     -> {Kept(rows)}
         [] op.kind = "projection" -> {Projected(rows)}
         [] op.kind = "limit"      -> {Window(rows, kept.skip, kept.remaining)}
         [] op.kind = "sort"       -> Sorted(FlattenSeq(kept.batches) \o rows, op.fetch)

\* r is a run of the operators up to m.
Run(r, m, ops, keeps, place, it, coming) ==
  /\ r \in [0..Len(ops) -> Rows] /\ r[0] = coming
  /\ \A k \in 1..m : r[k] \in Makes(ops[k], keeps[k], Into(k, r, place, it))

\* An operator that waits for the one below it, or has been given an item.
Going(i) == at < i \/ (at = i /\ ~Asked)

\* A limit above which no rows are dropped.
Counted(i) == plan[i].kind = "limit" /\ \A j \in Operators : j > i => plan[j].kind = "projection"

\* The rows on their way from an operator to the caller.
OnTheWay(i) == IF Batch /\ at > i THEN Len(item.rows) ELSE 0

TypeInv ==
  /\ plan \in Plans /\ input \in Inputs
  /\ index \in 0..Len(input)
  /\ state \in [DOMAIN plan -> OperatorState]
  /\ \A i \in Operators : state[i].skip <= plan[i].skip /\ state[i].remaining <= plan[i].fetch
  /\ at \in 0..Caller
  /\ item \in [what : Whats, rows : Rows]
  /\ received \in Rows
  /\ errors \in 0..MaxErrors
  /\ at = 0 => Asked
  /\ at = Caller => ~Asked

ControlInv == \A i \in Operators : Going(i) =>
                ~state[i].over /\ (plan[i].kind = "limit" => state[i].remaining > 0)

CountInv == \A i \in Operators : Counted(i) => Len(received) + OnTheWay(i) + state[i].remaining <= plan[i].fetch

OverInv == \A i \in Operators : state[i].over => plan[i].kind \in {"limit", "sort"}

\* The end is given when nothing comes any more.
EndInv == item.what = "end" =>
            \A r : Run(r, at - 1, plan, state, at, item, Coming) => r[at - 1] = <<>>

AnswerInv == item.what # "error" =>
               \A r : Run(r, Len(plan), plan, state, at, item, Coming)
                        => received \o Into(Caller, r, at, item) \in AnswersOf(plan, FlattenSeq(input))

SInv == TypeInv /\ ControlInv /\ OverInv /\ CountInv /\ EndInv /\ AnswerInv
-----------------------------------------------------------------------------
(***************************************************************************)
(* Runs.                                                                   *)
(***************************************************************************)
LEMMA MakesRows ==
  ASSUME NEW op \in OperatorPlans, NEW kept \in OperatorState, NEW rows \in Rows
  PROVE  Makes(op, kept, rows) \subseteq Rows /\ Makes(op, kept, rows) # {}
<1>1. <<>> \in Rows
  BY DEF Rows
<1>2. op.fetch \in Nat /\ op.kind \in {"limit", "filter", "projection", "sort"}
  BY DEF OperatorPlans
<1>3. kept.skip \in Nat /\ kept.remaining \in Nat /\ kept.batches \in Seq(Rows) /\ kept.over \in BOOLEAN
  BY DEF OperatorState
<1>4. Kept(rows) \in Rows /\ Projected(rows) \in Rows
  BY <1>1, KeptOfTwo, ProjectedOfTwo
<1>5. Window(rows, kept.skip, kept.remaining) \in Rows
  BY <1>3, WindowProperties
<1>6. FlattenSeq(kept.batches) \in Rows
  BY <1>3, FlattenProperties DEF Rows
<1>7. FlattenSeq(kept.batches) \o rows \in Rows
  BY <1>6, ConcatProperties DEF Rows
<1>8. Sorted(FlattenSeq(kept.batches) \o rows, op.fetch) \subseteq Rows
      /\ Sorted(FlattenSeq(kept.batches) \o rows, op.fetch) # {}
  BY <1>2, <1>7, SortedProperties
<1>9. QED
  BY <1>1, <1>2, <1>4, <1>5, <1>8 DEF Makes

LEMMA RunExists ==
  ASSUME NEW ops \in Seq(OperatorPlans), NEW keeps \in [DOMAIN ops -> OperatorState], NEW place,
         NEW it \in [what : Whats, rows : Rows], NEW coming \in Rows
  PROVE  \E r : Run(r, Len(ops), ops, keeps, place, it, coming)
<1> DEFINE n == Len(ops)
           V == Rows
           in(k, v) == IF it.what = "batch" /\ place = k THEN it.rows \o v ELSE v
           one(k, v) == CHOOSE w \in V : w \in Makes(ops[k], keeps[k], in(k, v))
           step == [p \in (1..n) \X V |-> one(p[1], p[2])]
<1>1. n \in Nat /\ DOMAIN ops = 1..n /\ \A k \in 1..n : ops[k] \in OperatorPlans /\ keeps[k] \in OperatorState
  OBVIOUS
<1>2. \A v \in V, k \in 1..n : in(k, v) \in V
  <2>1. it.rows \in V
    OBVIOUS
  <2>2. QED
    BY <2>1, ConcatProperties DEF Rows
<1>3. \A v \in V, k \in 1..n : \E w \in V : w \in Makes(ops[k], keeps[k], in(k, v))
  <2> SUFFICES ASSUME NEW v \in V, NEW k \in 1..n PROVE \E w \in V : w \in Makes(ops[k], keeps[k], in(k, v))
    OBVIOUS
  <2>1. in(k, v) \in V /\ ops[k] \in OperatorPlans /\ keeps[k] \in OperatorState
    BY <1>1, <1>2
  <2> HIDE DEF in
  <2>2. Makes(ops[k], keeps[k], in(k, v)) \subseteq V /\ Makes(ops[k], keeps[k], in(k, v)) # {}
    BY <2>1, MakesRows
  <2>3. QED
    BY <2>2
<1> HIDE DEF in, n
<1>4. \A v \in V, k \in 1..n : one(k, v) \in V /\ one(k, v) \in Makes(ops[k], keeps[k], in(k, v))
  BY <1>3
<1> HIDE DEF one, V
<1>5. step \in [(1..n) \X V -> V] /\ \A k \in 1..n : \A v \in V : step[<<k, v>>] = one(k, v)
  BY <1>4
<1> HIDE DEF step
<1>6. coming \in V
  BY DEF V
<1>7. PICK r \in [0..n -> V] : Passes(r, n, coming, step)
  BY <1>1, <1>5, <1>6, PassesExists
<1>8. ASSUME NEW k \in 1..n PROVE r[k] \in Makes(ops[k], keeps[k], Into(k, r, place, it))
  <2>1. k - 1 \in 0..n
    BY <1>1
  <2>2. r[k] = step[<<k, r[k - 1]>>] /\ r[k - 1] \in V
    BY <1>7, <2>1 DEF Passes
  <2>3. r[k] \in Makes(ops[k], keeps[k], in(k, r[k - 1]))
    BY <1>4, <1>5, <2>2
  <2>4. QED
    BY <2>3 DEF in, Into
<1>9. r \in [0..Len(ops) -> Rows] /\ r[0] = coming
  BY <1>7 DEF n, V, Passes
<1>10. QED
  BY <1>8, <1>9 DEF Run, n

-----------------------------------------------------------------------------
(***************************************************************************)
(* What the steps do to the state of an operator.                          *)
(***************************************************************************)
\* The operator with control keeps these now, and the others what they kept.
Changed(skip, remaining, batches, over) ==
  /\ state' \in [DOMAIN plan -> OperatorState]
  /\ state'[at].skip = skip /\ state'[at].remaining = remaining
  /\ state'[at].batches = batches /\ state'[at].over = over
  /\ \A i \in DOMAIN plan : i # at => state'[i] = state[i]

LEMMA TypeFacts ==
  ASSUME TypeInv
  PROVE  /\ plan \in Seq(OperatorPlans) /\ Len(plan) \in Nat /\ DOMAIN plan = 1..Len(plan)
         /\ Operators = 1..Len(plan) /\ Caller = Len(plan) + 1
         /\ at \in Nat /\ (at \in Operators <=> at # 0 /\ at # Caller)
         /\ item.what \in Whats /\ item.rows \in Rows /\ Len(item.rows) \in Nat
         /\ received \in Rows /\ Len(received) \in Nat
         /\ \A i \in Operators :
              /\ plan[i] \in OperatorPlans /\ plan[i].skip \in Nat /\ plan[i].fetch \in Nat
              /\ plan[i].kind \in {"limit", "filter", "projection", "sort"}
              /\ state[i] \in OperatorState /\ state[i].skip \in Nat /\ state[i].remaining \in Nat
              /\ state[i].batches \in Seq(Rows) /\ state[i].over \in BOOLEAN
<1>1. plan \in Seq(OperatorPlans)
  BY PlanAssumption DEF TypeInv, OperatorPlans
<1>2. Len(plan) \in Nat /\ DOMAIN plan = 1..Len(plan) /\ \A i \in 1..Len(plan) : plan[i] \in OperatorPlans
  BY <1>1
<1>3. at \in Nat /\ (at \in Operators <=> at # 0 /\ at # Caller)
  BY <1>2 DEF TypeInv, Operators, Caller
<1>4. item.what \in Whats /\ item.rows \in Rows /\ Len(item.rows) \in Nat /\ received \in Rows /\ Len(received) \in Nat
  BY DEF TypeInv, Rows
<1>5. \A i \in Operators :
              /\ plan[i] \in OperatorPlans /\ plan[i].skip \in Nat /\ plan[i].fetch \in Nat
              /\ plan[i].kind \in {"limit", "filter", "projection", "sort"}
  BY <1>2 DEF Operators, OperatorPlans
<1>6. \A i \in Operators :
              /\ state[i] \in OperatorState /\ state[i].skip \in Nat /\ state[i].remaining \in Nat
              /\ state[i].batches \in Seq(Rows) /\ state[i].over \in BOOLEAN
  BY DEF TypeInv, Operators, OperatorState
<1>7. QED
  BY <1>1, <1>2, <1>3, <1>4, <1>5, <1>6 DEF Operators, Caller

LEMMA SkipsChange ==
  ASSUME TypeInv, LimitSkips
  PROVE  /\ at \in Operators /\ plan[at].kind = "limit" /\ item.what = "batch"
         /\ state[at].skip >= Len(item.rows)
         /\ Changed(state[at].skip - Len(item.rows), state[at].remaining, state[at].batches, state[at].over)
         /\ at' = at - 1 /\ item' = Item("ask", <<>>)
<1>1. at \in Operators /\ state[at].skip \in Nat /\ Len(item.rows) \in Nat /\ state \in [DOMAIN plan -> OperatorState]
      /\ state[at] \in OperatorState
  BY TypeFacts DEF LimitSkips, Is, TypeInv
<1>2. state[at].skip - Len(item.rows) \in Nat /\ state[at].skip >= Len(item.rows)
  BY <1>1 DEF LimitSkips
<1> DEFINE left == state[at].skip - Len(item.rows)
<1>3. state' = [state EXCEPT ![at].skip = left]
  BY DEF LimitSkips
<1>4. left \in Nat
  BY <1>2
<1> HIDE DEF left
<1>5. Changed(left, state[at].remaining, state[at].batches, state[at].over)
  BY <1>1, <1>3, <1>4 DEF Changed, OperatorState, Operators
<1>6. QED
  BY <1>1, <1>2, <1>5 DEF LimitSkips, Is, Batch, Asks, left

LEMMA TakesChange ==
  ASSUME TypeInv, LimitTakes
  PROVE  LET t == TakenOf(item.rows, state[at].skip, state[at].remaining) IN
         /\ at \in Operators /\ plan[at].kind = "limit" /\ item.what = "batch"
         /\ state[at].skip = 0 \/ state[at].skip < Len(item.rows)
         /\ t \in Rows /\ Len(t) \in Nat /\ Len(t) <= state[at].remaining
         /\ Changed(0, state[at].remaining - Len(t), state[at].batches, state[at].over)
         /\ at' = at + 1 /\ item' = Item("batch", t)
<1> DEFINE t == TakenOf(item.rows, state[at].skip, state[at].remaining)
           taken == IF Len(Left) <= state[at].remaining THEN Len(Left) ELSE state[at].remaining
<1>1. /\ at \in Operators /\ state[at].skip \in Nat /\ state[at].remaining \in Nat
      /\ Len(item.rows) \in Nat /\ item.rows \in Rows
      /\ state \in [DOMAIN plan -> OperatorState] /\ state[at] \in OperatorState
  BY TypeFacts DEF LimitTakes, Is, TypeInv
<1>2. state[at].skip = 0 \/ state[at].skip < Len(item.rows)
  BY DEF LimitTakes
<1>3. /\ Left \in Rows /\ Len(Left) = Len(item.rows) - state[at].skip
      /\ t \in Rows
      /\ Len(t) = IF Len(item.rows) - state[at].skip <= state[at].remaining
                  THEN Len(item.rows) - state[at].skip ELSE state[at].remaining
  BY <1>1, <1>2, TakenProperties DEF Left
<1>4. t = SubSeq(Left, 1, taken)
  BY DEF TakenOf, Left
<1>5. taken = Len(t) /\ Len(t) \in Nat /\ Len(t) <= state[at].remaining
  BY <1>1, <1>2, <1>3
<1>6. state' = [state EXCEPT ![at].skip = 0, ![at].remaining = @ - taken] /\ Gives(SubSeq(Left, 1, taken))
  BY DEF LimitTakes
<1> HIDE DEF t, taken
<1>7. state[at].remaining - taken \in Nat
  BY <1>1, <1>5
<1>8. Changed(0, state[at].remaining - taken, state[at].batches, state[at].over)
  <2> DEFINE left == state[at].remaining - taken
  <2>1. state' = [state EXCEPT ![at].skip = 0, ![at].remaining = left] /\ left \in Nat
    BY <1>6, <1>7
  <2> HIDE DEF left
  <2>2. Changed(0, left, state[at].batches, state[at].over)
    BY <1>1, <2>1 DEF Changed, OperatorState, Operators
  <2>3. QED
    BY <2>2 DEF left
<1>9. QED
  BY <1>1, <1>2, <1>3, <1>4, <1>5, <1>6, <1>8 DEF LimitTakes, Is, Batch, Gives, t

LEMMA CollectsChange ==
  ASSUME TypeInv, SortCollects
  PROVE  /\ at \in Operators /\ plan[at].kind = "sort" /\ item.what = "batch"
         /\ Changed(state[at].skip, state[at].remaining, Append(state[at].batches, item.rows), state[at].over)
         /\ at' = at - 1 /\ item' = Item("ask", <<>>)
<1>1. /\ at \in Operators /\ item.rows \in Rows /\ state[at].batches \in Seq(Rows)
      /\ state \in [DOMAIN plan -> OperatorState] /\ state[at] \in OperatorState
  BY TypeFacts DEF SortCollects, Is, TypeInv
<1> DEFINE more == Append(state[at].batches, item.rows)
<1>2. state' = [state EXCEPT ![at].batches = more] /\ more \in Seq(Rows)
  <2>1. more \in Seq(Rows)
    BY <1>1
  <2>2. QED
    BY <2>1 DEF SortCollects
<1> HIDE DEF more
<1>3. Changed(state[at].skip, state[at].remaining, more, state[at].over)
  BY <1>1, <1>2 DEF Changed, OperatorState, Operators
<1>4. QED
  BY <1>1, <1>3 DEF SortCollects, Is, Batch, Asks, more

LEMMA OverChanges ==
  ASSUME TypeInv, at \in Operators, NEW over \in BOOLEAN, state' = [state EXCEPT ![at].over = over]
  PROVE  Changed(state[at].skip, state[at].remaining, state[at].batches, over)
<1>1. state \in [DOMAIN plan -> OperatorState] /\ state[at] \in OperatorState
  BY TypeFacts DEF TypeInv
<1>2. QED
  BY <1>1 DEF Changed, OperatorState, Operators

LEMMA EmitsChange ==
  ASSUME TypeInv, SortEmits
  PROVE  /\ at \in Operators /\ plan[at].kind = "sort" /\ item.what = "end" /\ at' = at + 1
         /\ Changed(state[at].skip, state[at].remaining, state[at].batches, TRUE)
         /\ \E rows \in Sorted(FlattenSeq(state[at].batches), plan[at].fetch) :
              rows \in Rows /\ item' = Item("batch", rows)
<1>1. at \in Operators /\ plan[at].kind = "sort" /\ item.what = "end" /\ at' = at + 1
  BY DEF SortEmits, Is, Gives
<1>2. Changed(state[at].skip, state[at].remaining, state[at].batches, TRUE)
  BY <1>1, OverChanges DEF SortEmits
<1>3. state[at].batches \in Seq(Rows) /\ plan[at].fetch \in Nat
  BY <1>1, TypeFacts
<1>4. FlattenSeq(state[at].batches) \in Rows
  BY <1>3, FlattenProperties DEF Rows
<1>5. Sorted(FlattenSeq(state[at].batches), plan[at].fetch) \subseteq Rows
  BY <1>3, <1>4, SortedProperties
<1>6. QED
  BY <1>1, <1>2, <1>5 DEF SortEmits, Gives

LEMMA HandsOnChange ==
  ASSUME TypeInv, HandsOn
  PROVE  /\ at \in Operators /\ item.what \in {"end", "error"}
         /\ plan[at].kind = "sort" /\ item.what = "end" => state[at].batches = <<>>
         /\ Changed(state[at].skip, state[at].remaining, state[at].batches, plan[at].kind \in {"limit", "sort"})
         /\ at' = at + 1 /\ item' = Item(item.what, <<>>)
<1>1. /\ at \in Operators /\ item.what \in {"end", "error"}
      /\ (plan[at].kind = "sort" /\ item.what = "end" => state[at].batches = <<>>)
      /\ at' = at + 1 /\ item' = Item(item.what, <<>>)
  BY DEF HandsOn, Is, Signals
<1> DEFINE over == plan[at].kind \in {"limit", "sort"}
<1>2. over \in BOOLEAN /\ state' = [state EXCEPT ![at].over = over]
  BY DEF HandsOn
<1> HIDE DEF over
<1>3. Changed(state[at].skip, state[at].remaining, state[at].batches, over)
  BY <1>1, <1>2, OverChanges
<1>4. QED
  BY <1>1, <1>3 DEF over

LEMMA FailsChange ==
  ASSUME TypeInv, ExpressionFails
  PROVE  /\ at \in Operators /\ at' = at + 1 /\ item' = Item("error", <<>>)
         /\ \/ UNCHANGED state /\ plan[at].kind \in {"filter", "projection"} /\ item.what = "batch"
            \/ /\ Changed(state[at].skip, state[at].remaining, state[at].batches, TRUE)
               /\ plan[at].kind = "sort" /\ item.what = "end"
<1>1. at \in Operators /\ at' = at + 1 /\ item' = Item("error", <<>>)
  BY DEF ExpressionFails, Is, Signals
<1>2. CASE (Is("filter") \/ Is("projection")) /\ Batch /\ UNCHANGED state
  BY <1>1, <1>2 DEF Is, Batch
<1>3. CASE /\ Is("sort") /\ item.what = "end" /\ state[at].batches # <<>>
           /\ state' = [state EXCEPT ![at].over = TRUE]
  <2>1. Changed(state[at].skip, state[at].remaining, state[at].batches, TRUE)
    BY <1>1, <1>3, OverChanges
  <2>2. QED
    BY <1>1, <1>3, <2>1 DEF Is
<1>4. QED
  BY <1>2, <1>3 DEF ExpressionFails
-----------------------------------------------------------------------------
(***************************************************************************)
(* The invariant is preserved: types, control and counts.                  *)
(***************************************************************************)
LEMMA GivenStays ==
  ASSUME [Next]_vars
  PROVE  plan' = plan /\ input' = input
  BY DEF Next, vars, given, SourceYields, SourceEnds, SourceFails, Polled, Filters, Projects, ExpressionFails,
         LimitSkips, LimitTakes, SortCollects, SortEmits, HandsOn, Receives, Ends

LEMMA ItemTyped ==
  ASSUME NEW what \in Whats, NEW rows \in Rows
  PROVE  Item(what, rows) \in [what : Whats, rows : Rows] /\ Item(what, rows).what = what
         /\ Item(what, rows).rows = rows
  BY DEF Item

\* A step of an operator that changes what it keeps leaves the types right.
LEMMA ChangedTyped ==
  ASSUME TypeInv, at \in Operators, plan' = plan, NEW skip, NEW remaining, NEW batches, NEW over,
         Changed(skip, remaining, batches, over), skip \in Nat, remaining \in Nat,
         skip <= state[at].skip, remaining <= state[at].remaining
  PROVE  /\ state' \in [DOMAIN plan' -> OperatorState]
         /\ \A i \in Operators' : state'[i].skip <= plan'[i].skip /\ state'[i].remaining <= plan'[i].fetch
<1>1. \A i \in Operators : /\ state[i].skip <= plan[i].skip /\ state[i].remaining <= plan[i].fetch
                           /\ plan[i].skip \in Nat /\ plan[i].fetch \in Nat
                           /\ state[i].skip \in Nat /\ state[i].remaining \in Nat
  BY TypeFacts DEF TypeInv
<1>2. ASSUME NEW i \in Operators PROVE state'[i].skip <= plan[i].skip /\ state'[i].remaining <= plan[i].fetch
  <2>1. CASE i = at
    BY <1>1, <2>1 DEF Changed
  <2>2. CASE i # at
    BY <1>1, <2>2 DEF Changed, Operators
  <2>3. QED
    BY <2>1, <2>2
<1>3. QED
  BY <1>2 DEF Changed, Operators

LEMMA TypeStep ==
  ASSUME TypeInv, [Next]_vars
  PROVE  TypeInv'
<1>1. plan' = plan /\ input' = input /\ Operators' = Operators /\ Caller' = Caller
  BY GivenStays DEF Operators, Caller
<1>2. /\ plan \in Plans /\ input \in Inputs /\ index \in 0..Len(input) /\ at \in 0..Caller
      /\ item \in [what : Whats, rows : Rows] /\ received \in Rows /\ errors \in 0..MaxErrors
      /\ state \in [DOMAIN plan -> OperatorState]
      /\ \A i \in Operators : state[i].skip <= plan[i].skip /\ state[i].remaining <= plan[i].fetch
      /\ at = 0 => Asked
      /\ at = Caller => ~Asked
  BY DEF TypeInv
<1>3. /\ Len(plan) \in Nat /\ Operators = 1..Len(plan) /\ Caller = Len(plan) + 1
      /\ item.what \in Whats /\ item.rows \in Rows /\ received \in Rows
  BY TypeFacts
<1>4. input \in Seq(Rows) /\ Len(input) \in Nat /\ <<>> \in Rows /\ MaxErrors \in Nat
  BY <1>2, SourceAssumption, BoundAssumption DEF Rows
<1> DEFINE Same == /\ state' \in [DOMAIN plan' -> OperatorState]
                   /\ \A i \in Operators' : state'[i].skip <= plan'[i].skip /\ state'[i].remaining <= plan'[i].fetch
           Moves == /\ at' \in 0..Caller /\ item' \in [what : Whats, rows : Rows]
                    /\ (at' = 0 => item'.what = "ask") /\ (at' = Caller => item'.what # "ask")
           Counts == index' \in 0..Len(input) /\ received' \in Rows /\ errors' \in 0..MaxErrors
<1>5. SUFFICES Same /\ Moves /\ Counts
  BY <1>1, <1>2 DEF TypeInv, Asked
<1>6. UNCHANGED state => Same
  BY <1>1, <1>2
<1>7. ASSUME NEW what \in Whats \ {"ask"}, NEW rows \in Rows, at \in 0..Len(plan), at' = at + 1, item' = Item(what, rows)
      PROVE  Moves
  <2>1. at' \in 0..Caller /\ at' # 0
    BY <1>3, <1>7
  <2>2. QED
    BY <1>7, <2>1, ItemTyped
<1>8. ASSUME at \in 1..Caller, at' = at - 1, item' = Item("ask", <<>>)
      PROVE  Moves
  <2>1. at' \in 0..Caller /\ at' # Caller
    BY <1>3, <1>8
  <2>2. "ask" \in Whats
    BY DEF Whats
  <2>3. QED
    BY <1>4, <1>8, <2>1, <2>2, ItemTyped
<1>9. {"batch", "end", "error"} \subseteq Whats \ {"ask"}
  BY DEF Whats
<1> HIDE DEF Moves, Same
<1>10. CASE SourceYields
  <2>1. index + 1 \in 1..Len(input) /\ input[index + 1] \in Rows /\ index' = index + 1
    BY <1>2, <1>4, <1>10 DEF SourceYields
  <2>2. Counts
    BY <1>2, <2>1, <1>10 DEF SourceYields
  <2>3. at \in 0..Len(plan) /\ at' = at + 1 /\ item' = Item("batch", input[index + 1])
    BY <1>3, <1>10, <2>1 DEF SourceYields, Gives
  <2>4. QED
    BY <1>6, <1>7, <1>9, <1>10, <2>1, <2>2, <2>3 DEF SourceYields
<1>11. CASE SourceEnds
  <2>1. Counts /\ at \in 0..Len(plan) /\ at' = at + 1 /\ item' = Item("end", <<>>)
    BY <1>2, <1>3, <1>11 DEF SourceEnds, Signals
  <2>2. QED
    BY <1>4, <1>6, <1>7, <1>9, <1>11, <2>1 DEF SourceEnds
<1>12. CASE SourceFails
  <2>1. Counts /\ at \in 0..Len(plan) /\ at' = at + 1 /\ item' = Item("error", <<>>)
    BY <1>2, <1>3, <1>4, <1>12 DEF SourceFails, Signals
  <2>2. QED
    BY <1>4, <1>6, <1>7, <1>9, <1>12, <2>1 DEF SourceFails
<1>13. CASE Polled
  <2>1. Counts /\ at \in 0..Len(plan) /\ at \in 1..Caller /\ UNCHANGED state
    BY <1>2, <1>3, <1>13 DEF Polled
  <2>2. \/ at' = at + 1 /\ item' = Item("end", <<>>)
        \/ at' = at - 1 /\ item' = Item("ask", <<>>)
    BY <1>13 DEF Polled, Signals, Asks
  <2>3. QED
    BY <1>4, <1>6, <1>7, <1>8, <1>9, <2>1, <2>2
<1>14. CASE Filters
  <2>1. Counts /\ at \in 0..Len(plan) /\ UNCHANGED state /\ at' = at + 1 /\ item' = Item("batch", Kept(item.rows))
    BY <1>2, <1>3, <1>14 DEF Filters, Is, Gives
  <2>2. Kept(item.rows) \in Rows
    BY <1>3, <1>4, KeptOfTwo
  <2>3. QED
    BY <1>6, <1>7, <1>9, <2>1, <2>2
<1>15. CASE Projects
  <2>1. Counts /\ at \in 0..Len(plan) /\ UNCHANGED state /\ at' = at + 1 /\ item' = Item("batch", Projected(item.rows))
    BY <1>2, <1>3, <1>15 DEF Projects, Is, Gives
  <2>2. Projected(item.rows) \in Rows
    BY <1>3, <1>4, ProjectedOfTwo
  <2>3. QED
    BY <1>6, <1>7, <1>9, <2>1, <2>2
<1>16. CASE ExpressionFails
  <2>1. at \in Operators /\ at' = at + 1 /\ item' = Item("error", <<>>)
        /\ (UNCHANGED state \/ Changed(state[at].skip, state[at].remaining, state[at].batches, TRUE))
    BY <1>16, FailsChange
  <2>2. Counts
    BY <1>2, <1>4, <1>16 DEF ExpressionFails
  <2>3. state[at].skip \in Nat /\ state[at].remaining \in Nat
    BY <2>1, TypeFacts
  <2>a. ASSUME Changed(state[at].skip, state[at].remaining, state[at].batches, TRUE) PROVE Same
    <3>1. PICK over : Changed(state[at].skip, state[at].remaining, state[at].batches, over)
      BY <2>a
    <3>2. QED
      BY <1>1, <2>1, <2>3, <3>1, ChangedTyped DEF Same
  <2>4. Same
    BY <1>6, <2>1, <2>a
  <2>5. QED
    BY <1>3, <1>4, <1>7, <1>9, <2>1, <2>2, <2>4
<1>17. CASE LimitSkips
  <2>1. /\ at \in Operators /\ state[at].skip >= Len(item.rows)
        /\ Changed(state[at].skip - Len(item.rows), state[at].remaining, state[at].batches, state[at].over)
        /\ at' = at - 1 /\ item' = Item("ask", <<>>)
    BY <1>17, SkipsChange
  <2>2. Counts
    BY <1>2, <1>17 DEF LimitSkips
  <2>3. state[at].skip \in Nat /\ state[at].remaining \in Nat /\ Len(item.rows) \in Nat
    BY <2>1, TypeFacts
  <2> DEFINE left == state[at].skip - Len(item.rows)
  <2>4. left \in Nat /\ left <= state[at].skip /\ Changed(left, state[at].remaining, state[at].batches, state[at].over)
    BY <2>1, <2>3
  <2> HIDE DEF left
  <2>5. Same
    BY <1>1, <2>1, <2>3, <2>4, ChangedTyped DEF Same
  <2>6. QED
    BY <1>3, <1>8, <2>1, <2>2, <2>5
<1>18. CASE LimitTakes
  <2> DEFINE t == TakenOf(item.rows, state[at].skip, state[at].remaining)
             left == state[at].remaining - Len(t)
  <2>1. /\ at \in Operators /\ t \in Rows /\ Len(t) \in Nat /\ Len(t) <= state[at].remaining
        /\ Changed(0, left, state[at].batches, state[at].over)
        /\ at' = at + 1 /\ item' = Item("batch", t)
    BY <1>18, TakesChange
  <2>2. Counts
    BY <1>2, <1>18 DEF LimitTakes
  <2>3. state[at].skip \in Nat /\ state[at].remaining \in Nat
    BY <2>1, TypeFacts
  <2> HIDE DEF t
  <2>4. left \in Nat /\ left <= state[at].remaining /\ 0 <= state[at].skip /\ 0 \in Nat
    BY <2>1, <2>3
  <2> HIDE DEF left
  <2>5. Same
    BY <1>1, <2>1, <2>4, ChangedTyped DEF Same
  <2>6. QED
    BY <1>3, <1>7, <1>9, <2>1, <2>2, <2>5
<1>19. CASE SortCollects
  <2> DEFINE more == Append(state[at].batches, item.rows)
  <2>1. /\ at \in Operators /\ at' = at - 1 /\ item' = Item("ask", <<>>)
        /\ Changed(state[at].skip, state[at].remaining, more, state[at].over)
    BY <1>19, CollectsChange
  <2> HIDE DEF more
  <2>2. Counts
    BY <1>2, <1>19 DEF SortCollects
  <2>3. state[at].skip \in Nat /\ state[at].remaining \in Nat
    BY <2>1, TypeFacts
  <2>4. Same
    BY <1>1, <2>1, <2>3, ChangedTyped DEF Same
  <2>5. QED
    BY <1>3, <1>8, <2>1, <2>2, <2>4
<1>20. CASE SortEmits
  <2>1. /\ at \in Operators /\ at' = at + 1
        /\ Changed(state[at].skip, state[at].remaining, state[at].batches, TRUE)
        /\ \E rows \in Rows : item' = Item("batch", rows)
    BY <1>20, EmitsChange
  <2>2. Counts
    BY <1>2, <1>20 DEF SortEmits
  <2>3. state[at].skip \in Nat /\ state[at].remaining \in Nat
    BY <2>1, TypeFacts
  <2>a. PICK over : Changed(state[at].skip, state[at].remaining, state[at].batches, over)
    BY <2>1
  <2>4. Same
    BY <1>1, <2>1, <2>3, <2>a, ChangedTyped DEF Same
  <2>5. QED
    BY <1>3, <1>7, <1>9, <2>1, <2>2, <2>4
<1>21. CASE HandsOn
  <2>1. /\ at \in Operators /\ item.what \in {"end", "error"}
        /\ Changed(state[at].skip, state[at].remaining, state[at].batches, plan[at].kind \in {"limit", "sort"})
        /\ at' = at + 1 /\ item' = Item(item.what, <<>>)
    BY <1>21, HandsOnChange
  <2>a. PICK over : Changed(state[at].skip, state[at].remaining, state[at].batches, over)
    BY <2>1
  <2>2. Counts
    BY <1>2, <1>21 DEF HandsOn
  <2>3. state[at].skip \in Nat /\ state[at].remaining \in Nat
    BY <2>1, TypeFacts
  <2>4. Same
    BY <1>1, <2>1, <2>3, <2>a, ChangedTyped DEF Same
  <2>5. QED
    BY <1>3, <1>4, <1>7, <1>9, <2>1, <2>2, <2>4
<1>22. CASE Receives
  <2>1. received \o item.rows \in Rows
    BY <1>3, ConcatProperties DEF Rows
  <2>2. Counts /\ UNCHANGED state /\ at \in 1..Caller /\ at' = at - 1 /\ item' = Item("ask", <<>>)
    BY <1>2, <1>3, <1>22, <2>1 DEF Receives, Asks
  <2>3. QED
    BY <1>6, <1>8, <2>2
<1>23. CASE Ends
  <2>1. Counts /\ UNCHANGED <<state, at, item>>
    BY <1>2, <1>23 DEF Ends
  <2>2. Moves
    BY <1>2, <2>1 DEF Moves, Asked
  <2>3. QED
    BY <1>6, <2>1, <2>2
<1>24. CASE UNCHANGED vars
  <2>1. Counts /\ UNCHANGED <<state, at, item>>
    BY <1>2, <1>24 DEF vars
  <2>2. Moves
    BY <1>2, <2>1 DEF Moves, Asked
  <2>3. QED
    BY <1>6, <2>1, <2>2
<1>25. QED
  BY <1>10, <1>11, <1>12, <1>13, <1>14, <1>15, <1>16, <1>17, <1>18, <1>19, <1>20, <1>21, <1>22, <1>23, <1>24 DEF Next

\* The moves of control: up with an item, down with the question, or none.
Up   == at' = at + 1 /\ item'.what # "ask" /\ \A i \in Operators : i # at => state'[i] = state[i]
Down == at' = at - 1 /\ item'.what = "ask" /\ \A i \in Operators : i # at => state'[i] = state[i]
Stay == at' = at /\ item' = item /\ state' = state

LEMMA Moves ==
  ASSUME TypeInv, [Next]_vars
  PROVE  \/ Up
         \/ /\ Down
            /\ at \in Operators =>
                 \/ UNCHANGED state /\ ~state[at].over /\ (plan[at].kind = "limit" => state[at].remaining # 0)
                 \/ /\ item.what = "batch"
                    /\ state'[at].over = state[at].over /\ state'[at].remaining = state[at].remaining
         \/ Stay
<1>1. \A what, rows : Item(what, rows).what = what
  BY DEF Item
<1>2. UNCHANGED state => \A i \in Operators : i # at => state'[i] = state[i]
  OBVIOUS
<1>3. \A skip, remaining, batches, over :
        Changed(skip, remaining, batches, over) => \A i \in Operators : i # at => state'[i] = state[i]
  BY DEF Changed, Operators
<1>4. CASE SourceYields
  BY <1>1, <1>2, <1>4 DEF SourceYields, Gives, Up
<1>5. CASE SourceEnds
  BY <1>1, <1>2, <1>5 DEF SourceEnds, Signals, Up
<1>6. CASE SourceFails
  BY <1>1, <1>2, <1>6 DEF SourceFails, Signals, Up
<1>7. CASE Polled
  <2>1. CASE Enough
    BY <1>1, <1>2, <1>7, <2>1 DEF Polled, Signals, Up
  <2>2. CASE ~Enough
    <3>1. Down /\ UNCHANGED state
      BY <1>1, <1>2, <1>7, <2>2 DEF Polled, Asks, Down
    <3>2. ~state[at].over /\ (at \in Operators /\ plan[at].kind = "limit" => state[at].remaining # 0)
      BY <2>2 DEF Enough, Is
    <3>3. QED
      BY <3>1, <3>2
  <2>3. QED
    BY <2>1, <2>2
<1>8. CASE Filters
  BY <1>1, <1>2, <1>8 DEF Filters, Gives, Up
<1>9. CASE Projects
  BY <1>1, <1>2, <1>9 DEF Projects, Gives, Up
<1>10. CASE ExpressionFails
  <2>1. at' = at + 1 /\ item' = Item("error", <<>>) /\ \A i \in Operators : i # at => state'[i] = state[i]
    BY <1>2, <1>3, <1>10, FailsChange
  <2>2. QED
    BY <1>1, <2>1 DEF Up
<1>11. CASE LimitSkips
  <2>1. /\ at' = at - 1 /\ item' = Item("ask", <<>>) /\ item.what = "batch"
        /\ Changed(state[at].skip - Len(item.rows), state[at].remaining, state[at].batches, state[at].over)
    BY <1>11, SkipsChange
  <2>2. Down
    BY <1>1, <1>3, <2>1 DEF Down
  <2>3. state'[at].over = state[at].over /\ state'[at].remaining = state[at].remaining
    BY <2>1 DEF Changed
  <2>4. QED
    BY <2>1, <2>2, <2>3
<1>12. CASE LimitTakes
  <2>1. PICK rows, remaining : /\ Changed(0, remaining, state[at].batches, state[at].over)
                               /\ at' = at + 1 /\ item' = Item("batch", rows)
    BY <1>12, TakesChange
  <2>2. QED
    BY <1>1, <1>3, <2>1 DEF Up
<1>13. CASE SortCollects
  <2> DEFINE more == Append(state[at].batches, item.rows)
  <2>1. /\ at' = at - 1 /\ item' = Item("ask", <<>>) /\ item.what = "batch"
        /\ Changed(state[at].skip, state[at].remaining, more, state[at].over)
    BY <1>13, CollectsChange
  <2> HIDE DEF more
  <2>2. Down
    BY <1>1, <1>3, <2>1 DEF Down
  <2>3. state'[at].over = state[at].over /\ state'[at].remaining = state[at].remaining
    BY <2>1 DEF Changed
  <2>4. QED
    BY <2>1, <2>2, <2>3
<1>14. CASE SortEmits
  <2>1. PICK rows, over : /\ Changed(state[at].skip, state[at].remaining, state[at].batches, over)
                          /\ at' = at + 1 /\ item' = Item("batch", rows)
    BY <1>14, EmitsChange
  <2>2. QED
    BY <1>1, <1>3, <2>1 DEF Up
<1>15. CASE HandsOn
  <2>1. PICK over : /\ Changed(state[at].skip, state[at].remaining, state[at].batches, over)
                    /\ at' = at + 1 /\ item' = Item(item.what, <<>>) /\ item.what \in {"end", "error"}
    BY <1>15, HandsOnChange
  <2>2. QED
    BY <1>1, <1>3, <2>1 DEF Up
<1>16. CASE Receives
  <2>1. at \notin Operators
    BY <1>16, TypeFacts DEF Receives
  <2>2. Down
    BY <1>1, <1>2, <1>16 DEF Receives, Asks, Down
  <2>3. QED
    BY <2>1, <2>2
<1>17. CASE Ends
  BY <1>17 DEF Ends, Stay
<1>18. CASE UNCHANGED vars
  BY <1>18 DEF vars, Stay
<1>19. QED
  BY <1>4, <1>5, <1>6, <1>7, <1>8, <1>9, <1>10, <1>11, <1>12, <1>13, <1>14, <1>15, <1>16, <1>17, <1>18 DEF Next

LEMMA ControlStep ==
  ASSUME TypeInv, ControlInv, [Next]_vars
  PROVE  ControlInv'
<1>1. plan' = plan /\ Operators' = Operators
  BY GivenStays DEF Operators
<1>2. SUFFICES ASSUME NEW i \in Operators, at' < i \/ (at' = i /\ item'.what # "ask")
               PROVE  ~state'[i].over /\ (plan[i].kind = "limit" => state'[i].remaining > 0)
  BY <1>1 DEF ControlInv, Going, Asked
<1>3. i \in Int /\ at \in Nat /\ state[i].remaining \in Nat
  BY TypeFacts
<1>4. at < i \/ (at = i /\ item.what # "ask") =>
        ~state[i].over /\ (plan[i].kind = "limit" => state[i].remaining > 0)
  BY DEF ControlInv, Going, Asked
<1>5. CASE Up
  <2>1. at < i /\ i # at
    BY <1>2, <1>3, <1>5 DEF Up
  <2>2. state'[i] = state[i]
    BY <1>5, <2>1 DEF Up
  <2>3. QED
    BY <1>4, <2>1, <2>2
<1>6. CASE Down
  <2>1. at <= i
    BY <1>2, <1>3, <1>6 DEF Down
  <2>2. CASE i # at
    <3>1. at < i /\ state'[i] = state[i]
      BY <1>3, <1>6, <2>1, <2>2 DEF Down
    <3>2. QED
      BY <1>4, <3>1
  <2>3. CASE i = at
    <3>1. \/ UNCHANGED state /\ ~state[at].over /\ (plan[at].kind = "limit" => state[at].remaining # 0)
          \/ /\ item.what = "batch"
             /\ state'[at].over = state[at].over /\ state'[at].remaining = state[at].remaining
      <4>1. ~Up /\ ~Stay
        BY <1>3, <1>6 DEF Up, Stay, Down
      <4>2. QED
        BY <2>3, <4>1, Moves
    <3>2. CASE UNCHANGED state /\ ~state[at].over /\ (plan[at].kind = "limit" => state[at].remaining # 0)
      BY <1>3, <2>3, <3>2
    <3>3. CASE /\ item.what = "batch"
               /\ state'[at].over = state[at].over /\ state'[at].remaining = state[at].remaining
      BY <1>4, <2>3, <3>3
    <3>4. QED
      BY <3>1, <3>2, <3>3
  <2>4. QED
    BY <2>2, <2>3
<1>7. CASE Stay
  BY <1>2, <1>4, <1>7 DEF Stay
<1>8. QED
  BY <1>5, <1>6, <1>7, Moves

LEMMA OverStep ==
  ASSUME TypeInv, OverInv, [Next]_vars
  PROVE  OverInv'
<1>1. plan' = plan /\ Operators' = Operators
  BY GivenStays DEF Operators
<1>2. SUFFICES ASSUME NEW i \in Operators, state'[i].over PROVE plan[i].kind \in {"limit", "sort"}
  BY <1>1 DEF OverInv
<1>3. state[i].over => plan[i].kind \in {"limit", "sort"}
  BY DEF OverInv
<1>4. CASE UNCHANGED state
  BY <1>2, <1>3, <1>4
<1>5. ASSUME NEW skip, NEW remaining, NEW batches, NEW over, Changed(skip, remaining, batches, over),
             over => state[at].over \/ plan[at].kind \in {"limit", "sort"}
      PROVE  plan[i].kind \in {"limit", "sort"}
  <2>1. CASE i = at
    <3>1. over
      BY <1>2, <1>5, <2>1 DEF Changed
    <3>2. QED
      BY <1>3, <1>5, <2>1, <3>1
  <2>2. CASE i # at
    <3>1. state'[i] = state[i]
      BY <1>5, <2>2 DEF Changed, Operators
    <3>2. QED
      BY <1>2, <1>3, <3>1
  <2>3. QED
    BY <2>1, <2>2
<1>6. CASE ExpressionFails
  <2>1. UNCHANGED state \/ \E over : /\ plan[at].kind = "sort"
                                     /\ Changed(state[at].skip, state[at].remaining, state[at].batches, over)
    BY <1>6, FailsChange
  <2>2. QED
    BY <1>4, <1>5, <2>1
<1>7. CASE LimitSkips
  <2> DEFINE left == state[at].skip - Len(item.rows)
  <2>1. Changed(left, state[at].remaining, state[at].batches, state[at].over)
    BY <1>7, SkipsChange
  <2> HIDE DEF left
  <2>2. QED
    BY <1>5, <2>1
<1>8. CASE LimitTakes
  <2>1. PICK skip, remaining : Changed(skip, remaining, state[at].batches, state[at].over)
    BY <1>8, TakesChange
  <2>2. QED
    BY <1>5, <2>1
<1>9. CASE SortCollects
  <2> DEFINE more == Append(state[at].batches, item.rows)
  <2>1. Changed(state[at].skip, state[at].remaining, more, state[at].over)
    BY <1>9, CollectsChange
  <2> HIDE DEF more
  <2>2. QED
    BY <1>5, <2>1
<1>10. CASE SortEmits
  <2>1. PICK over : Changed(state[at].skip, state[at].remaining, state[at].batches, over) /\ plan[at].kind = "sort"
    BY <1>10, EmitsChange
  <2>2. QED
    BY <1>5, <2>1
<1>11. CASE HandsOn
  <2>1. Changed(state[at].skip, state[at].remaining, state[at].batches, plan[at].kind \in {"limit", "sort"})
    BY <1>11, HandsOnChange
  <2>2. QED
    BY <1>5, <2>1
<1>12. QED
  BY <1>4, <1>6, <1>7, <1>8, <1>9, <1>10, <1>11
    DEF Next, vars, SourceYields, SourceEnds, SourceFails, Polled, Filters, Projects, Receives, Ends

LEMMA CountStep ==
  ASSUME TypeInv, CountInv, [Next]_vars
  PROVE  CountInv'
<1>1. plan' = plan /\ Operators' = Operators
  BY GivenStays DEF Operators
<1>2. SUFFICES ASSUME NEW i \in Operators, Counted(i)
               PROVE  Len(received') + (IF item'.what = "batch" /\ at' > i THEN Len(item'.rows) ELSE 0)
                        + state'[i].remaining <= plan[i].fetch
  BY <1>1 DEF CountInv, Counted, OnTheWay, Batch
<1>3. i \in Int /\ at \in Nat /\ state[i].remaining \in Nat /\ plan[i].fetch \in Nat /\ i < Caller
      /\ Len(received) \in Nat /\ Len(item.rows) \in Nat /\ received \in Rows /\ item.rows \in Rows
  BY TypeFacts
<1> DEFINE way == IF item.what = "batch" /\ at > i THEN Len(item.rows) ELSE 0
           way2 == IF item'.what = "batch" /\ at' > i THEN Len(item'.rows) ELSE 0
<1>4. way \in Nat /\ Len(received) + way + state[i].remaining <= plan[i].fetch
  BY <1>2, <1>3 DEF CountInv, OnTheWay, Batch
<1>5. plan[i].kind = "limit" /\ (at \in Operators /\ at > i => plan[at].kind = "projection")
  BY <1>2 DEF Counted
<1>6. \A what, rows : Item(what, rows).what = what /\ Item(what, rows).rows = rows
  BY DEF Item
<1>a. \A skip, batches, over :
        Changed(skip, state[at].remaining, batches, over) => state'[i].remaining = state[i].remaining
  BY DEF Changed, Operators
<1> HIDE DEF way, way2
<1>7. SUFFICES Len(received') + way2 + state'[i].remaining <= plan[i].fetch
  BY DEF way2
<1>8. ASSUME received' = received, way2 = 0, state'[i].remaining = state[i].remaining
      PROVE  Len(received') + way2 + state'[i].remaining <= plan[i].fetch
  BY <1>3, <1>4, <1>8
<1>9. \/ item'.what # "batch"
      \/ at' <= i
      => way2 = 0
  <2>1. item'.what # "batch" => way2 = 0
    BY DEF way2
  <2>2. ASSUME at' <= i PROVE way2 = 0
    <3>1. at' \in Int
      BY TypeStep, TypeFacts DEF TypeInv, Caller
    <3>2. ~(at' > i)
      BY <1>3, <2>2, <3>1
    <3>3. QED
      BY <3>2 DEF way2
  <2>3. QED
    BY <2>1, <2>2
<1>10. CASE SourceYields
  <2>1. at' <= i
    BY <1>10, TypeFacts DEF SourceYields, Gives
  <2>2. QED
    BY <1>8, <1>9, <1>10, <2>1 DEF SourceYields
<1>11. CASE SourceEnds \/ SourceFails \/ Polled
  <2>1. item'.what # "batch" /\ received' = received /\ UNCHANGED state
    BY <1>6, <1>11 DEF SourceEnds, SourceFails, Polled, Signals, Asks
  <2>2. QED
    BY <1>8, <1>9, <2>1
<1>12. CASE Filters
  <2>1. at < i /\ at' = at + 1 /\ received' = received /\ UNCHANGED state
    BY <1>3, <1>5, <1>12 DEF Filters, Is, Gives
  <2>2. at' <= i
    BY <1>3, <2>1
  <2>3. QED
    BY <1>8, <1>9, <2>1, <2>2
<1>13. CASE Projects
  <2>1. at \in Operators /\ plan[at].kind = "projection" /\ item.what = "batch" /\ at' = at + 1
        /\ item' = Item("batch", Projected(item.rows)) /\ received' = received /\ UNCHANGED state
    BY <1>13 DEF Projects, Is, Gives, Batch
  <2>2. at # i
    BY <1>5, <2>1
  <2>3. CASE at < i
    <3>1. at' <= i
      BY <1>3, <2>1, <2>3
    <3>2. QED
      BY <1>8, <1>9, <2>1, <3>1
  <2>4. CASE at > i
    <3>1. way = Len(item.rows)
      BY <2>1, <2>4 DEF way
    <3>2. Len(Projected(item.rows)) = Len(item.rows)
      BY <1>3, ProjectedOfTwo
    <3>3. way2 = Len(item.rows)
      <4>1. at' > i
        BY <1>3, <2>1, <2>4
      <4>2. QED
        BY <1>6, <2>1, <3>2, <4>1 DEF way2
    <3>4. QED
      BY <1>4, <2>1, <3>1, <3>3
  <2>5. QED
    BY <1>3, <2>2, <2>3, <2>4
<1>14. CASE ExpressionFails
  <2>1. item'.what # "batch"
    BY <1>6, <1>14, FailsChange
  <2>2. UNCHANGED state \/ \E over : Changed(state[at].skip, state[at].remaining, state[at].batches, over)
    BY <1>14, FailsChange
  <2>3. state'[i].remaining = state[i].remaining
    BY <1>a, <2>2
  <2>4. received' = received
    BY <1>14 DEF ExpressionFails
  <2>5. QED
    BY <1>8, <1>9, <2>1, <2>3, <2>4
<1>15. CASE LimitSkips
  <2> DEFINE left == state[at].skip - Len(item.rows)
  <2>1. Changed(left, state[at].remaining, state[at].batches, state[at].over) /\ item' = Item("ask", <<>>)
    BY <1>15, SkipsChange
  <2> HIDE DEF left
  <2>2. state'[i].remaining = state[i].remaining /\ item'.what # "batch"
    BY <1>6, <1>a, <2>1
  <2>3. received' = received
    BY <1>15 DEF LimitSkips
  <2>4. QED
    BY <1>8, <1>9, <2>2, <2>3
<1>16. CASE LimitTakes
  <2> DEFINE t == TakenOf(item.rows, state[at].skip, state[at].remaining)
  <2>1. /\ at \in Operators /\ plan[at].kind = "limit" /\ Len(t) \in Nat /\ Len(t) <= state[at].remaining
        /\ Changed(0, state[at].remaining - Len(t), state[at].batches, state[at].over)
        /\ at' = at + 1 /\ item' = Item("batch", t)
    BY <1>16, TakesChange
  <2> HIDE DEF t
  <2>2. received' = received
    BY <1>16 DEF LimitTakes
  <2>3. CASE at < i
    <3>1. at' <= i /\ i # at
      BY <1>3, <2>1, <2>3
    <3>2. state'[i] = state[i]
      BY <2>1, <3>1 DEF Changed, Operators
    <3>3. QED
      BY <1>8, <1>9, <2>2, <3>1, <3>2
  <2>4. CASE at = i
    <3>1. way = 0
      BY <1>3, <2>4 DEF way
    <3>2. way2 = Len(t)
      <4>1. at' > i
        BY <1>3, <2>1, <2>4
      <4>2. QED
        BY <1>6, <2>1, <4>1 DEF way2
    <3>3. state'[i].remaining = state[i].remaining - Len(t)
      BY <2>1, <2>4 DEF Changed
    <3>4. QED
      BY <1>3, <1>4, <2>1, <2>2, <3>1, <3>2, <3>3, SMTT(30)
  <2>5. ~(at > i)
    BY <1>5, <2>1
  <2>6. QED
    BY <1>3, <2>3, <2>4, <2>5
<1>17. CASE SortCollects
  <2> DEFINE more == Append(state[at].batches, item.rows)
  <2>1. Changed(state[at].skip, state[at].remaining, more, state[at].over) /\ item' = Item("ask", <<>>)
    BY <1>17, CollectsChange
  <2> HIDE DEF more
  <2>2. state'[i].remaining = state[i].remaining /\ item'.what # "batch"
    BY <1>6, <1>a, <2>1
  <2>3. received' = received
    BY <1>17 DEF SortCollects
  <2>4. QED
    BY <1>8, <1>9, <2>2, <2>3
<1>18. CASE SortEmits
  <2>1. PICK over : /\ Changed(state[at].skip, state[at].remaining, state[at].batches, over)
                    /\ at \in Operators /\ plan[at].kind = "sort" /\ at' = at + 1
    BY <1>18, EmitsChange
  <2>2. received' = received
    BY <1>18 DEF SortEmits
  <2>3. at < i
    BY <1>3, <1>5, <2>1
  <2>4. at' <= i /\ state'[i].remaining = state[i].remaining
    BY <1>3, <1>a, <2>1, <2>3
  <2>5. QED
    BY <1>8, <1>9, <2>2, <2>4
<1>19. CASE HandsOn
  <2>1. PICK over : /\ Changed(state[at].skip, state[at].remaining, state[at].batches, over)
                    /\ item' = Item(item.what, <<>>) /\ item.what \in {"end", "error"}
    BY <1>19, HandsOnChange
  <2>2. state'[i].remaining = state[i].remaining /\ item'.what # "batch"
    BY <1>6, <1>a, <2>1
  <2>3. received' = received
    BY <1>19 DEF HandsOn
  <2>4. QED
    BY <1>8, <1>9, <2>2, <2>3
<1>20. CASE Receives
  <2>1. at > i /\ item.what = "batch" /\ received' = received \o item.rows /\ UNCHANGED state
        /\ item' = Item("ask", <<>>)
    BY <1>3, <1>20 DEF Receives, Batch, Asks
  <2>2. way = Len(item.rows)
    BY <2>1 DEF way
  <2>3. way2 = 0
    BY <1>6, <1>9, <2>1
  <2>4. Len(received') = Len(received) + Len(item.rows)
    BY <1>3, <2>1, ConcatProperties DEF Rows
  <2>5. QED
    BY <1>3, <1>4, <2>1, <2>2, <2>3, <2>4
<1>21. CASE Ends \/ UNCHANGED vars
  <2>1. UNCHANGED <<received, state, item, at>>
    BY <1>21 DEF Ends, vars
  <2>2. QED
    BY <1>4, <2>1 DEF way, way2
<1>22. QED
  BY <1>10, <1>11, <1>12, <1>13, <1>14, <1>15, <1>16, <1>17, <1>18, <1>19, <1>20, <1>21 DEF Next
-----------------------------------------------------------------------------
(***************************************************************************)
(* The invariant is preserved: what comes.                                 *)
(***************************************************************************)
LEMMA ComingRows ==
  ASSUME TypeInv
  PROVE  /\ Coming \in Rows
         /\ index = Len(input) => Coming = <<>>
         /\ index < Len(input) =>
              /\ input[index + 1] \in Rows
              /\ Coming = input[index + 1] \o FlattenSeq(SubSeq(input, index + 2, Len(input)))
<1>1. input \in Seq(Rows) /\ Len(input) \in Nat /\ index \in 0..Len(input)
  BY SourceAssumption DEF TypeInv, Rows
<1> DEFINE rest == SubSeq(input, index + 1, Len(input))
<1>2. \A i \in 1..Len(input) : input[i] \in Rows
  BY <1>1
<1>3. rest \in Seq(Rows)
  BY <1>1, <1>2, SubSeqProperties
<1>4. Coming = FlattenSeq(rest)
  BY DEF Coming
<1>5. Coming \in Rows
  BY <1>3, <1>4, FlattenProperties DEF Rows
<1>6. ASSUME index = Len(input) PROVE Coming = <<>>
  <2>1. rest = <<>>
    BY <1>1, <1>6, SubSeqEmpty
  <2>2. QED
    BY <1>3, <1>4, <2>1, FlattenProperties DEF Rows
<1>7. ASSUME index < Len(input)
      PROVE  /\ input[index + 1] \in Rows
             /\ Coming = input[index + 1] \o FlattenSeq(SubSeq(input, index + 2, Len(input)))
  <2> DEFINE first == input[index + 1]
             more == SubSeq(input, index + 2, Len(input))
  <2>1. first \in Rows
    BY <1>1, <1>2, <1>7
  <2>2. more \in Seq(Rows)
    BY <1>1, <1>2, SubSeqProperties
  <2>3. rest = <<first>> \o more
    <3> DEFINE m == index + 1  n == Len(input)
    <3>1. m \in 1..Len(input) /\ n \in m..Len(input) /\ m + 1 = index + 2
      BY <1>1, <1>7
    <3> HIDE DEF m, n
    <3>2. SubSeq(input, m, n) = <<input[m]>> \o SubSeq(input, m + 1, n)
      BY <1>1, <3>1, SubSeqRecursiveFirst
    <3>3. QED
      BY <3>1, <3>2 DEF m, n
  <2> HIDE DEF first, more, rest
  <2>4. <<first>> \in Seq(Rows) /\ <<>> \in Seq(Rows) /\ Append(<<>>, first) = <<first>>
    BY <2>1
  <2>5. FlattenSeq(<<first>>) = first
    <3>1. FlattenSeq(Append(<<>>, first)) = FlattenSeq(<<>>) \o first
      BY <2>1, <2>4, FlattenAppend DEF Rows
    <3>2. FlattenSeq(<<>>) = <<>>
      BY <2>4, FlattenProperties DEF Rows
    <3>3. <<>> \o first = first
      BY <2>1, ConcatEmptySeq DEF Rows
    <3>4. QED
      BY <2>4, <3>1, <3>2, <3>3
  <2>6. FlattenSeq(<<first>> \o more) = FlattenSeq(<<first>>) \o FlattenSeq(more)
    BY <2>2, <2>4, FlattenConcat DEF Rows
  <2>7. QED
    BY <1>4, <2>1, <2>3, <2>5, <2>6 DEF first, more
<1>8. QED
  BY <1>5, <1>6, <1>7

\* What the next state promises of a run of it.
Leads(r) == received' \o Into(Caller', r, at', item') \in AnswersOf(plan', FlattenSeq(input'))
NextRun(r, m) == Run(r, m, plan', state', at', item', Coming')

LEMMA RunFacts ==
  ASSUME TypeInv, plan' = plan, NEW r, NEW m \in 0..Len(plan), NextRun(r, m)
  PROVE  /\ r \in [0..Len(plan) -> Rows] /\ r[0] = Coming'
         /\ \A k \in 0..Len(plan) : r[k] \in Rows
         /\ \A k \in 1..m : r[k] \in Makes(plan[k], state'[k], Into(k, r, at', item'))
  BY DEF NextRun, Run

\* A step that gives an item.
LEMMA UpBack ==
  ASSUME TypeInv, AnswerInv, plan' = plan, input' = input, Up, at # Caller, item.what # "error",
         received' = received, NEW r, NextRun(r, Len(plan)), NEW w \in Rows, w = Into(at + 1, r, at', item'),
         at = 0 => w = Coming,
         at # 0 => Coming' = Coming /\ w \in Makes(plan[at], state[at], Into(at, r, at, item))
  PROVE  Leads(r)
<1> DEFINE n == Len(plan)
<1>1. plan \in Seq(OperatorPlans) /\ n \in Nat /\ at \in 0..n /\ Operators = 1..n /\ Caller = n + 1
  BY TypeFacts DEF TypeInv
<1>2. Run(r, n, plan, state', at', item', Coming') /\ r \in [0..n -> Rows]
  BY <1>1, RunFacts DEF NextRun
<1>3. at' = at + 1 /\ \A k \in 1..n : k # at => state'[k] = state[k]
  BY <1>1 DEF Up
<1> DEFINE old == [r EXCEPT ![at] = w]
<1>4. old \in [0..n -> Rows] /\ old[at] = w /\ \A k \in 0..n : k # at => old[k] = r[k]
  BY <1>1, <1>2
<1> HIDE DEF old
<1>5. old[0] = Coming
  BY <1>1, <1>2, <1>4 DEF Run
<1>6. ASSUME NEW k \in 1..(n + 1), k # at + 1 PROVE Into(k, old, at, item) = Into(k, r, at, item)
  <2>1. k - 1 \in 0..n /\ k - 1 # at
    BY <1>1, <1>6
  <2>2. old[k - 1] = r[k - 1]
    BY <1>4, <2>1
  <2>3. QED
    BY <2>2 DEF Into
<1>7. Into(at + 1, old, at, item) = Into(at + 1, r, at', item')
  <2>1. at # at + 1 /\ (at + 1) - 1 = at
    BY <1>1
  <2>2. Into(at + 1, old, at, item) = w
    BY <1>4, <2>1 DEF Into
  <2>3. QED
    BY <2>2
<1>8. ASSUME NEW k \in 1..(n + 1), k # at PROVE Into(k, old, at, item) = Into(k, r, at', item')
  <2>1. CASE k = at + 1
    BY <1>7, <2>1
  <2>2. CASE k # at + 1
    <3>1. Into(k, r, at', item') = Into(k, r, at, item)
      BY <1>3, <1>8, <2>2 DEF Into
    <3>2. QED
      BY <1>6, <2>2, <3>1
  <2>3. QED
    BY <2>1, <2>2
<1>9. ASSUME NEW k \in 1..n PROVE old[k] \in Makes(plan[k], state[k], Into(k, old, at, item))
  <2>1. k \in 1..(n + 1) /\ k \in 0..n
    BY <1>1
  <2>2. CASE k = at
    <3>1. k # at + 1 /\ at # 0
      BY <1>1, <2>2
    <3>2. Into(k, old, at, item) = Into(at, r, at, item)
      BY <1>6, <2>1, <2>2, <3>1
    <3>3. QED
      BY <1>4, <2>2, <3>1, <3>2
  <2>3. CASE k # at
    <3>1. old[k] = r[k] /\ state'[k] = state[k]
      BY <1>3, <1>4, <2>1, <2>3
    <3>2. r[k] \in Makes(plan[k], state'[k], Into(k, r, at', item'))
      BY <1>2 DEF Run
    <3>3. Into(k, old, at, item) = Into(k, r, at', item')
      BY <1>8, <2>1, <2>3
    <3>4. QED
      BY <3>1, <3>2, <3>3
  <2>4. QED
    BY <2>2, <2>3
<1>10. Run(old, n, plan, state, at, item, Coming)
  BY <1>4, <1>5, <1>9 DEF Run
<1>11. n + 1 \in 1..(n + 1) /\ n + 1 # at /\ Caller' = n + 1
  BY <1>1 DEF Caller
<1>12. Into(n + 1, old, at, item) = Into(n + 1, r, at', item')
  BY <1>8, <1>11
<1>13. received \o Into(n + 1, old, at, item) \in AnswersOf(plan, FlattenSeq(input))
  BY <1>1, <1>10 DEF AnswerInv
<1>14. QED
  BY <1>11, <1>12, <1>13 DEF Leads

\* What an operator with the end has below it is over.
LEMMA EndBelow ==
  ASSUME TypeInv, EndInv, plan' = plan, Coming' = Coming, Up, at \in Operators, item.what = "end",
         NEW r, NEW m \in at..Len(plan), NextRun(r, m)
  PROVE  r[at - 1] = <<>> /\ Into(at, r, at, item) = <<>> /\ Into(at, r, at', item') = <<>>
<1>1. at \in 1..Len(plan) /\ Len(plan) \in Nat
  BY TypeFacts
<1>2. m \in 0..Len(plan)
  BY <1>1
<1>3. r \in [0..Len(plan) -> Rows] /\ r[0] = Coming
      /\ \A k \in 1..m : r[k] \in Makes(plan[k], state'[k], Into(k, r, at', item'))
  BY <1>2, RunFacts
<1>4. ASSUME NEW k \in 1..(at - 1) PROVE r[k] \in Makes(plan[k], state[k], Into(k, r, at, item))
  <2>1. k \in 1..m /\ k # at /\ k # at + 1 /\ k \in 1..Len(plan)
    BY <1>1
  <2>2. Into(k, r, at', item') = Into(k, r, at, item) /\ state'[k] = state[k]
    BY <2>1, TypeFacts DEF Into, Up
  <2>3. QED
    BY <1>3, <2>1, <2>2
<1>5. Run(r, at - 1, plan, state, at, item, Coming)
  BY <1>3, <1>4 DEF Run
<1>6. r[at - 1] = <<>>
  BY <1>5 DEF EndInv
<1>7. at' = at + 1 /\ at # at + 1
  BY <1>1 DEF Up
<1>8. QED
  BY <1>6, <1>7 DEF Into

\* A step that asks, with or without having taken in a batch.
LEMMA DownBack ==
  ASSUME TypeInv, AnswerInv, plan' = plan, input' = input, Down, at \in Operators, item.what # "error",
         received' = received, Coming' = Coming, NEW r, NextRun(r, Len(plan)),
         r[at] \in Makes(plan[at], state[at], Into(at, r, at, item))
  PROVE  Leads(r)
<1> DEFINE n == Len(plan)
<1>1. plan \in Seq(OperatorPlans) /\ n \in Nat /\ at \in 1..n /\ Operators = 1..n /\ Caller = n + 1
  BY TypeFacts DEF TypeInv
<1>2. r \in [0..n -> Rows] /\ r[0] = Coming
      /\ \A k \in 1..n : r[k] \in Makes(plan[k], state'[k], Into(k, r, at', item'))
  BY <1>1, RunFacts
<1>3. item'.what = "ask" /\ \A k \in 1..n : k # at => state'[k] = state[k]
  BY <1>1 DEF Down
<1>4. \A k \in 1..(n + 1) : k # at => Into(k, r, at', item') = Into(k, r, at, item)
  BY <1>3 DEF Into
<1>5. \A k \in 1..n : k \in 1..(n + 1) /\ (k # at => r[k] \in Makes(plan[k], state[k], Into(k, r, at, item)))
  BY <1>1, <1>2, <1>3, <1>4
<1>6. \A k \in 1..n : r[k] \in Makes(plan[k], state[k], Into(k, r, at, item))
  BY <1>5
<1>7. Run(r, n, plan, state, at, item, Coming)
  BY <1>2, <1>6 DEF Run
<1>8. received \o Into(n + 1, r, at, item) \in AnswersOf(plan, FlattenSeq(input))
  BY <1>1, <1>7 DEF AnswerInv
<1>9. n + 1 \in 1..(n + 1) /\ n + 1 # at /\ Caller' = n + 1
  BY <1>1 DEF Caller
<1>10. QED
  BY <1>4, <1>8, <1>9 DEF Leads

\* What nothing is made of.
LEMMA MakesOfNone ==
  ASSUME NEW op \in OperatorPlans, NEW kept \in OperatorState, op.kind = "sort" => kept.batches = <<>>
  PROVE  Makes(op, kept, <<>>) = {<<>>}
<1>1. <<>> \in Rows /\ <<>> \in Seq(Rows)
  BY DEF Rows
<1>2. op.fetch \in Nat /\ op.kind \in {"limit", "filter", "projection", "sort"}
  BY DEF OperatorPlans
<1>3. kept.skip \in Nat /\ kept.remaining \in Nat /\ kept.over \in BOOLEAN
  BY DEF OperatorState
<1>4. Kept(<<>>) = <<>> /\ Projected(<<>>) = <<>>
  BY KeptOfNone, ProjectedOfNone
<1>5. Window(<<>>, kept.skip, kept.remaining) = <<>>
  BY <1>3, WindowOfNone
<1>6. ASSUME op.kind = "sort" PROVE Sorted(FlattenSeq(kept.batches) \o <<>>, op.fetch) = {<<>>}
  <2>1. FlattenSeq(kept.batches) = <<>>
    BY <1>1, <1>6, FlattenProperties DEF Rows
  <2>2. FlattenSeq(kept.batches) \o <<>> = <<>>
    BY <1>1, <2>1, ConcatEmptySeq DEF Rows
  <2>3. QED
    BY <1>2, <2>2, SortedOfNone
<1>7. QED
  BY <1>2, <1>4, <1>5, <1>6 DEF Makes

\* Between two polls of the source nothing changes about what is to come.
LEMMA ComingStays ==
  ASSUME index' = index, input' = input
  PROVE  Coming' = Coming
BY DEF Coming

LEMMA EndStep ==
  ASSUME TypeInv, EndInv, [Next]_vars
  PROVE  EndInv'
<1>1. plan' = plan /\ input' = input
  BY GivenStays
<1>2. Len(plan) \in Nat /\ Operators = 1..Len(plan) /\ Caller = Len(plan) + 1 /\ at \in Nat
  BY TypeFacts
<1>3. \A what, rows : Item(what, rows).what = what
  BY DEF Item
<1>4. SUFFICES ASSUME item'.what = "end", NEW r, NextRun(r, at' - 1)
               PROVE  r[at' - 1] = <<>>
  BY DEF EndInv, NextRun
<1>5. CASE SourceEnds
  <2>1. at = 0 /\ at' - 1 = 0 /\ index = Len(input) /\ index' = index
    BY <1>2, <1>5 DEF SourceEnds, Signals
  <2>2. Coming' = Coming /\ Coming = <<>>
    BY <1>1, <2>1, ComingRows, ComingStays
  <2>3. QED
    BY <1>4, <2>1, <2>2 DEF NextRun, Run
<1>6. CASE Polled
  <2>1. at \in Operators /\ state' = state /\ Enough /\ at' = at + 1 /\ at' - 1 = at
    BY <1>2, <1>3, <1>4, <1>6 DEF Polled, Signals, Asks
  <2>2. at \in 0..Len(plan) /\ at \in 1..at
    BY <1>2, <2>1
  <2>3. (\A k \in 0..Len(plan) : r[k] \in Rows) /\ r[at] \in Makes(plan[at], state'[at], Into(at, r, at', item'))
    BY <1>1, <1>4, <2>1, <2>2, RunFacts
  <2>4. Into(at, r, at', item') \in Rows
    BY <1>2, <1>4, <2>1, <2>3 DEF Into
  <2>5. CASE state[at].over
    BY <2>1, <2>3, <2>5 DEF Makes
  <2>6. CASE ~state[at].over
    <3>1. plan[at].kind = "limit" /\ state[at].remaining = 0 /\ state[at].skip \in Nat
      BY <2>1, <2>6, TypeFacts DEF Enough, Is
    <3>2. Window(Into(at, r, at', item'), state[at].skip, state[at].remaining) = <<>>
      BY <2>4, <3>1, WindowOfNothingLeft
    <3>3. QED
      BY <2>1, <2>3, <2>6, <3>1, <3>2 DEF Makes
  <2>7. QED
    BY <2>1, <2>5, <2>6
<1>7. CASE HandsOn
  <2>1. /\ at \in Operators /\ item.what \in {"end", "error"}
        /\ plan[at].kind = "sort" /\ item.what = "end" => state[at].batches = <<>>
        /\ at' = at + 1 /\ item' = Item(item.what, <<>>) /\ index' = index
    BY <1>7, HandsOnChange DEF HandsOn
  <2>2. item.what = "end" /\ at' - 1 = at
    BY <1>2, <1>3, <1>4, <2>1
  <2>3. PICK over : Changed(state[at].skip, state[at].remaining, state[at].batches, over)
    BY <1>7, HandsOnChange
  <2>4. Up /\ Coming' = Coming
    <3>1. \A i \in Operators : i # at => state'[i] = state[i]
      BY <2>3 DEF Changed, Operators
    <3>2. QED
      BY <1>1, <1>4, <2>1, <3>1, ComingStays DEF Up
  <2>5. at \in at..Len(plan) /\ at \in 0..Len(plan) /\ at \in 1..at
    BY <1>2, <2>1
  <2>6. NextRun(r, at)
    BY <1>4, <2>2
  <2>7. Into(at, r, at', item') = <<>>
    BY <1>1, <2>1, <2>2, <2>4, <2>5, <2>6, EndBelow
  <2>8. r[at] \in Makes(plan[at], state'[at], Into(at, r, at', item'))
    BY <1>1, <2>5, <2>6, RunFacts
  <2>9. plan[at] \in OperatorPlans /\ state'[at] \in OperatorState /\ state'[at].batches = state[at].batches
    BY <2>1, <2>3, TypeFacts DEF Changed, Operators
  <2>10. Makes(plan[at], state'[at], <<>>) = {<<>>}
    BY <2>1, <2>2, <2>9, MakesOfNone
  <2>11. QED
    BY <2>2, <2>7, <2>8, <2>10
<1>8. CASE Ends \/ UNCHANGED vars
  <2>1. at' = at /\ item' = item /\ state' = state /\ index' = index
    BY <1>8 DEF Ends, vars
  <2>2. Run(r, at - 1, plan, state, at, item, Coming)
    BY <1>1, <1>4, <2>1, ComingStays DEF NextRun
  <2>3. QED
    BY <1>4, <2>1, <2>2 DEF EndInv
<1>9. CASE SourceYields \/ SourceFails \/ Filters \/ Projects
  BY <1>3, <1>4, <1>9 DEF SourceYields, SourceFails, Filters, Projects, Gives, Signals
<1>10. CASE ExpressionFails \/ LimitSkips \/ SortCollects \/ Receives
  BY <1>3, <1>4, <1>10 DEF ExpressionFails, LimitSkips, SortCollects, Receives, Gives, Signals, Asks
<1>11. CASE LimitTakes
  <2>1. PICK rows : item' = Item("batch", rows)
    BY <1>11, TakesChange
  <2>2. QED
    BY <1>3, <1>4, <2>1
<1>12. CASE SortEmits
  <2>1. PICK rows : item' = Item("batch", rows)
    BY <1>12, EmitsChange
  <2>2. QED
    BY <1>3, <1>4, <2>1
<1>13. QED
  BY <1>5, <1>6, <1>7, <1>8, <1>9, <1>10, <1>11, <1>12 DEF Next

LEMMA RowsAssociative ==
  ASSUME NEW a \in Rows, NEW b \in Rows, NEW c \in Rows
  PROVE  (a \o b) \o c = a \o (b \o c)
BY ConcatAssociative DEF Rows

\* The answers that are within reach stay so.
LEMMA AnswerStep ==
  ASSUME TypeInv, ControlInv, EndInv, AnswerInv, [Next]_vars
  PROVE  AnswerInv'
<1>1. plan' = plan /\ input' = input
  BY GivenStays
<1>2. /\ Len(plan) \in Nat /\ Operators = 1..Len(plan) /\ Caller = Len(plan) + 1 /\ at \in Nat
      /\ item.rows \in Rows /\ (at \in Operators <=> at # 0 /\ at # Caller)
  BY TypeFacts
<1>3. \A what, rows : Item(what, rows).what = what /\ Item(what, rows).rows = rows
  BY DEF Item
<1>4. SUFFICES ASSUME item'.what # "error", NEW r, NextRun(r, Len(plan))
               PROVE  Leads(r)
  BY <1>1 DEF AnswerInv, NextRun, Leads
<1>5. /\ r \in [0..Len(plan) -> Rows] /\ r[0] = Coming' /\ \A k \in 0..Len(plan) : r[k] \in Rows
      /\ \A k \in 1..Len(plan) : r[k] \in Makes(plan[k], state'[k], Into(k, r, at', item'))
  <2>1. Len(plan) \in 0..Len(plan)
    BY <1>2
  <2>2. QED
    BY <1>1, <1>4, <2>1, RunFacts
<1>6. at \in Operators => at \in 0..Len(plan) /\ at - 1 \in 0..Len(plan) /\ (at + 1) - 1 = at
                          /\ at # at + 1 /\ at # at - 1 /\ at \in at..Len(plan)
  BY <1>2
<1>7. at \in Operators => r[at] \in Rows /\ r[at - 1] \in Rows
                          /\ r[at] \in Makes(plan[at], state'[at], Into(at, r, at', item'))
  BY <1>2, <1>5, <1>6
<1>8. \A k, i : i.what = "batch" => Into(k, r, k, i) = i.rows \o r[k - 1]
  BY DEF Into
<1>9. \A k, p, i : i.what # "batch" \/ p # k => Into(k, r, p, i) = r[k - 1]
  BY DEF Into
<1>10. at \in Operators /\ item.what # "ask" => ~state[at].over
  BY DEF ControlInv, Going, Asked
<1>11. at \in Operators =>
         /\ plan[at] \in OperatorPlans /\ state[at] \in OperatorState /\ plan[at].fetch \in Nat
         /\ state[at].skip \in Nat /\ state[at].remaining \in Nat /\ state[at].batches \in Seq(Rows)
  BY TypeFacts
<1>12. at # Caller /\ item.what # "error" /\ received' = received /\ Up =>
         \A w \in Rows : w = Into(at + 1, r, at', item')
             /\ (at = 0 => w = Coming)
             /\ (at # 0 => Coming' = Coming /\ w \in Makes(plan[at], state[at], Into(at, r, at, item)))
           => Leads(r)
  BY <1>1, <1>4, UpBack
<1>13. at \in Operators /\ item.what # "error" /\ received' = received /\ Down /\ Coming' = Coming
         /\ r[at] \in Makes(plan[at], state[at], Into(at, r, at, item)) => Leads(r)
  BY <1>1, <1>4, DownBack
<1>14. \A i : i \in Operators => i \in DOMAIN plan
  BY DEF Operators
<1>15. CASE SourceYields
  <2>1. /\ at = 0 /\ index < Len(input) /\ index' = index + 1 /\ received' = received /\ state' = state
        /\ at' = at + 1 /\ item' = Item("batch", input[index + 1])
    BY <1>15 DEF SourceYields, Gives
  <2>2. Up
    BY <1>3, <2>1 DEF Up
  <2>3. item.what # "error" /\ at # Caller
    BY <1>2, <2>1 DEF TypeInv, Asked
  <2>4. Coming \in Rows /\ Coming = input[index + 1] \o FlattenSeq(SubSeq(input, index + 2, Len(input)))
    BY <2>1, ComingRows
  <2>5. Coming' = FlattenSeq(SubSeq(input, index + 2, Len(input)))
    <3>1. (index + 1) + 1 = index + 2
      BY DEF TypeInv
    <3>2. QED
      BY <1>1, <2>1, <3>1 DEF Coming
  <2>6. Into(at + 1, r, at', item') = Coming
    <3> DEFINE more == FlattenSeq(SubSeq(input, index + 2, Len(input)))
               first == input[index + 1]
    <3>1. (at + 1) - 1 = 0 /\ r[0] = more /\ Coming = first \o more /\ at' = at + 1 /\ item' = Item("batch", first)
      BY <1>2, <1>5, <2>1, <2>4, <2>5
    <3> HIDE DEF more, first
    <3>2. Into(at + 1, r, at', item') = first \o more
      BY <1>3, <3>1 DEF Into
    <3>3. QED
      BY <3>1, <3>2
  <2>7. QED
    BY <1>12, <2>1, <2>2, <2>3, <2>4, <2>6
<1>16. CASE SourceEnds
  <2>1. /\ at = 0 /\ index = Len(input) /\ index' = index /\ received' = received /\ state' = state
        /\ at' = at + 1 /\ item' = Item("end", <<>>)
    BY <1>16 DEF SourceEnds, Signals
  <2>2. Up
    BY <1>3, <2>1 DEF Up
  <2>3. item.what # "error" /\ at # Caller
    BY <1>2, <2>1 DEF TypeInv, Asked
  <2>4. Coming \in Rows /\ Coming' = Coming
    BY <1>1, <2>1, ComingRows, ComingStays
  <2>5. Into(at + 1, r, at', item') = Coming
    BY <1>3, <1>5, <1>9, <2>1, <2>4
  <2>6. QED
    BY <1>12, <2>1, <2>2, <2>3, <2>4, <2>5
<1>17. CASE Polled
  <2>1. /\ at \in Operators /\ item.what = "ask" /\ state' = state /\ index' = index /\ received' = received
    BY <1>17 DEF Polled, Asked
  <2>2. Coming' = Coming /\ at # Caller /\ Into(at, r, at, item) = r[at - 1]
    BY <1>1, <1>2, <1>9, <2>1, ComingStays
  <2>3. CASE Enough
    <3>1. at' = at + 1 /\ item' = Item("end", <<>>) /\ Up
      BY <1>3, <1>17, <2>1, <2>3 DEF Polled, Signals, Up
    <3>2. Into(at + 1, r, at', item') = r[at] /\ Into(at, r, at', item') = r[at - 1]
      BY <1>3, <1>6, <1>9, <2>1, <3>1
    <3>3. r[at] \in Makes(plan[at], state[at], Into(at, r, at, item))
      BY <1>7, <2>1, <2>2, <3>2
    <3>4. QED
      BY <1>2, <1>7, <1>12, <2>1, <2>2, <3>1, <3>2, <3>3
  <2>4. CASE ~Enough
    <3>1. at' = at - 1 /\ item' = Item("ask", <<>>) /\ Down
      BY <1>3, <1>17, <2>1, <2>4 DEF Polled, Asks, Down
    <3>2. Into(at, r, at', item') = r[at - 1]
      BY <1>3, <1>9, <3>1
    <3>3. QED
      BY <1>7, <1>13, <2>1, <2>2, <3>1, <3>2
  <2>5. QED
    BY <2>3, <2>4
<1>18. CASE Filters
  <2>1. /\ at \in Operators /\ plan[at].kind = "filter" /\ item.what = "batch" /\ state' = state
        /\ index' = index /\ received' = received /\ at' = at + 1 /\ item' = Item("batch", Kept(item.rows))
    BY <1>18 DEF Filters, Is, Batch, Gives
  <2>2. Coming' = Coming /\ at # Caller /\ Up
    BY <1>1, <1>2, <1>3, <2>1, ComingStays DEF Up
  <2>3. r[at] = Kept(r[at - 1])
    BY <1>6, <1>7, <1>9, <1>10, <2>1 DEF Makes
  <2>4. /\ Kept(item.rows) \in Rows /\ Kept(item.rows \o r[at - 1]) = Kept(item.rows) \o r[at]
    BY <1>2, <1>7, <2>1, <2>3, KeptOfTwo
  <2>5. Kept(item.rows) \o r[at] \in Rows
    BY <1>7, <2>1, <2>4, ConcatProperties DEF Rows
  <2>6. Into(at + 1, r, at', item') = Kept(item.rows) \o r[at]
    BY <1>3, <1>6, <2>1 DEF Into
  <2>7. Kept(item.rows) \o r[at] \in Makes(plan[at], state[at], Into(at, r, at, item))
    BY <1>8, <1>10, <2>1, <2>4 DEF Makes
  <2>8. QED
    BY <1>2, <1>12, <2>1, <2>2, <2>5, <2>6, <2>7
<1>19. CASE Projects
  <2>1. /\ at \in Operators /\ plan[at].kind = "projection" /\ item.what = "batch" /\ state' = state
        /\ index' = index /\ received' = received /\ at' = at + 1 /\ item' = Item("batch", Projected(item.rows))
    BY <1>19 DEF Projects, Is, Batch, Gives
  <2>2. Coming' = Coming /\ at # Caller /\ Up
    BY <1>1, <1>2, <1>3, <2>1, ComingStays DEF Up
  <2>3. r[at] = Projected(r[at - 1])
    BY <1>6, <1>7, <1>9, <1>10, <2>1 DEF Makes
  <2>4. /\ Projected(item.rows) \in Rows /\ Projected(item.rows \o r[at - 1]) = Projected(item.rows) \o r[at]
    BY <1>2, <1>7, <2>1, <2>3, ProjectedOfTwo
  <2>5. Projected(item.rows) \o r[at] \in Rows
    BY <1>7, <2>1, <2>4, ConcatProperties DEF Rows
  <2>6. Into(at + 1, r, at', item') = Projected(item.rows) \o r[at]
    BY <1>3, <1>6, <2>1 DEF Into
  <2>7. Projected(item.rows) \o r[at] \in Makes(plan[at], state[at], Into(at, r, at, item))
    BY <1>8, <1>10, <2>1, <2>4 DEF Makes
  <2>8. QED
    BY <1>2, <1>12, <2>1, <2>2, <2>5, <2>6, <2>7
<1>20. CASE LimitSkips
  <2>1. /\ at \in Operators /\ plan[at].kind = "limit" /\ item.what = "batch" /\ state[at].skip >= Len(item.rows)
        /\ Changed(state[at].skip - Len(item.rows), state[at].remaining, state[at].batches, state[at].over)
        /\ at' = at - 1 /\ item' = Item("ask", <<>>) /\ index' = index /\ received' = received
    BY <1>20, SkipsChange DEF LimitSkips
  <2>2. /\ state'[at].skip = state[at].skip - Len(item.rows) /\ state'[at].remaining = state[at].remaining
        /\ state'[at].over = state[at].over /\ \A i \in Operators : i # at => state'[i] = state[i]
    BY <2>1 DEF Changed, Operators
  <2>3. Coming' = Coming /\ Down
    BY <1>1, <1>3, <2>1, <2>2, ComingStays DEF Down
  <2>4. Into(at, r, at', item') = r[at - 1] /\ Into(at, r, at, item) = item.rows \o r[at - 1]
    BY <1>3, <1>6, <2>1 DEF Into
  <2>5. r[at] = Window(r[at - 1], state[at].skip - Len(item.rows), state[at].remaining)
    BY <1>7, <1>10, <2>1, <2>2, <2>4 DEF Makes
  <2>6. r[at] = Window(item.rows \o r[at - 1], state[at].skip, state[at].remaining)
    BY <1>2, <1>7, <1>11, <2>1, <2>5, WindowSkips
  <2>7. r[at] \in Makes(plan[at], state[at], Into(at, r, at, item))
    BY <1>10, <2>1, <2>4, <2>6 DEF Makes
  <2>8. QED
    BY <1>13, <2>1, <2>3, <2>7
<1>21. CASE LimitTakes
  <2> DEFINE t == TakenOf(item.rows, state[at].skip, state[at].remaining)
  <2>1. /\ at \in Operators /\ plan[at].kind = "limit" /\ item.what = "batch"
        /\ state[at].skip = 0 \/ state[at].skip < Len(item.rows)
        /\ t \in Rows /\ Changed(0, state[at].remaining - Len(t), state[at].batches, state[at].over)
        /\ at' = at + 1 /\ item' = Item("batch", t)
    BY <1>21, TakesChange
  <2>2. index' = index /\ received' = received
    BY <1>21 DEF LimitTakes
  <2>3. Window(item.rows \o r[at - 1], state[at].skip, state[at].remaining)
          = t \o Window(r[at - 1], 0, state[at].remaining - Len(t))
    <3>1. item.rows \in Rows /\ r[at - 1] \in Rows /\ state[at].skip \in Nat /\ state[at].remaining \in Nat
          /\ (state[at].skip = 0 \/ state[at].skip < Len(item.rows))
      BY <1>2, <1>7, <1>11, <2>1
    <3>2. QED
      BY <3>1, WindowTakes
  <2> HIDE DEF t
  <2>4. /\ state'[at].skip = 0 /\ state'[at].remaining = state[at].remaining - Len(t)
        /\ state'[at].over = state[at].over /\ \A i \in Operators : i # at => state'[i] = state[i]
    BY <2>1 DEF Changed, Operators
  <2>5. Coming' = Coming /\ at # Caller /\ Up
    BY <1>1, <1>2, <1>3, <2>1, <2>2, <2>4, ComingStays DEF Up
  <2>6. r[at] = Window(r[at - 1], 0, state[at].remaining - Len(t))
    <3>1. Into(at, r, at', item') = r[at - 1]
      BY <1>6, <1>9, <2>1
    <3>2. QED
      BY <1>7, <1>10, <2>1, <2>4, <3>1 DEF Makes
  <2>7. t \o r[at] \in Rows
    BY <1>7, <2>1, ConcatProperties DEF Rows
  <2>8. Into(at + 1, r, at', item') = t \o r[at]
    BY <1>3, <1>6, <2>1 DEF Into
  <2>9. t \o r[at] \in Makes(plan[at], state[at], Into(at, r, at, item))
    <3>1. Into(at, r, at, item) = item.rows \o r[at - 1]
      BY <1>8, <2>1
    <3>2. QED
      BY <1>10, <2>1, <2>3, <2>6, <3>1 DEF Makes
  <2>10. QED
    BY <1>2, <1>12, <2>1, <2>2, <2>5, <2>7, <2>8, <2>9
<1>22. CASE SortCollects
  <2> DEFINE more == Append(state[at].batches, item.rows)
  <2>1. /\ at \in Operators /\ plan[at].kind = "sort" /\ item.what = "batch"
        /\ Changed(state[at].skip, state[at].remaining, more, state[at].over)
        /\ at' = at - 1 /\ item' = Item("ask", <<>>) /\ index' = index /\ received' = received
    BY <1>22, CollectsChange DEF SortCollects
  <2>2. FlattenSeq(more) \o r[at - 1] = FlattenSeq(state[at].batches) \o (item.rows \o r[at - 1])
    <3>1. FlattenSeq(more) = FlattenSeq(state[at].batches) \o item.rows
      BY <1>2, <1>11, <2>1, FlattenAppend DEF Rows
    <3>2. FlattenSeq(state[at].batches) \in Rows
      BY <1>11, <2>1, FlattenProperties DEF Rows
    <3>3. r[at - 1] \in Rows
      BY <1>7, <2>1
    <3> DEFINE before == FlattenSeq(state[at].batches)
    <3>4. (before \o item.rows) \o r[at - 1] = before \o (item.rows \o r[at - 1])
      <4>1. before \in Rows
        BY <3>2
      <4> HIDE DEF before
      <4>2. QED
        BY <1>2, <3>3, <4>1, RowsAssociative
    <3>5. QED
      BY <3>1, <3>4
  <2> HIDE DEF more
  <2>3. /\ state'[at].batches = more /\ state'[at].over = state[at].over
        /\ \A i \in Operators : i # at => state'[i] = state[i]
    BY <2>1 DEF Changed, Operators
  <2>4. Coming' = Coming /\ Down
    BY <1>1, <1>3, <2>1, <2>3, ComingStays DEF Down
  <2>5. Into(at, r, at', item') = r[at - 1] /\ Into(at, r, at, item) = item.rows \o r[at - 1]
    BY <1>3, <1>6, <2>1 DEF Into
  <2>6. r[at] \in Sorted(FlattenSeq(more) \o r[at - 1], plan[at].fetch)
    BY <1>7, <1>10, <2>1, <2>3, <2>5 DEF Makes
  <2>7. r[at] \in Makes(plan[at], state[at], Into(at, r, at, item))
    BY <1>10, <2>1, <2>2, <2>5, <2>6 DEF Makes
  <2>8. QED
    BY <1>13, <2>1, <2>4, <2>7
<1>23. CASE SortEmits
  <2>1. /\ at \in Operators /\ plan[at].kind = "sort" /\ item.what = "end" /\ at' = at + 1
        /\ index' = index /\ received' = received
    BY <1>23, EmitsChange DEF SortEmits
  <2>2. PICK over : over = TRUE /\ Changed(state[at].skip, state[at].remaining, state[at].batches, over)
    BY <1>23, EmitsChange
  <2>3. PICK rows \in Sorted(FlattenSeq(state[at].batches), plan[at].fetch) :
           rows \in Rows /\ item' = Item("batch", rows)
    BY <1>23, EmitsChange
  <2>4. state'[at].over /\ \A i \in Operators : i # at => state'[i] = state[i]
    BY <2>2 DEF Changed, Operators
  <2>5. Coming' = Coming /\ at # Caller /\ Up
    BY <1>1, <1>2, <1>3, <2>1, <2>3, <2>4, ComingStays DEF Up
  <2>6. r[at] = <<>>
    BY <1>7, <2>1, <2>4 DEF Makes
  <2>7. Into(at, r, at, item) = <<>>
    BY <1>1, <1>4, <1>6, <2>1, <2>5, EndBelow
  <2>8. Into(at + 1, r, at', item') = rows
    <3>1. Into(at + 1, r, at', item') = rows \o <<>>
      BY <1>3, <1>6, <2>1, <2>3, <2>6 DEF Into
    <3>2. QED
      BY <2>3, <3>1, ConcatEmptySeq DEF Rows
  <2>9. rows \in Makes(plan[at], state[at], Into(at, r, at, item))
    <3>1. FlattenSeq(state[at].batches) \o <<>> = FlattenSeq(state[at].batches)
      <4>1. FlattenSeq(state[at].batches) \in Rows
        BY <1>11, <2>1, FlattenProperties DEF Rows
      <4>2. QED
        BY <4>1, ConcatEmptySeq DEF Rows
    <3>2. QED
      BY <1>10, <2>1, <2>3, <2>7, <3>1 DEF Makes
  <2>10. QED
    BY <1>2, <1>12, <2>1, <2>3, <2>5, <2>8, <2>9
<1>24. CASE HandsOn
  <2>1. /\ at \in Operators /\ item.what \in {"end", "error"}
        /\ plan[at].kind = "sort" /\ item.what = "end" => state[at].batches = <<>>
        /\ at' = at + 1 /\ item' = Item(item.what, <<>>) /\ index' = index /\ received' = received
    BY <1>24, HandsOnChange DEF HandsOn
  <2>2. item.what = "end" /\ item'.what = "end"
    BY <1>3, <1>4, <2>1
  <2>3. PICK over : Changed(state[at].skip, state[at].remaining, state[at].batches, over)
    BY <1>24, HandsOnChange
  <2>4. Coming' = Coming /\ at # Caller /\ Up
    <3>1. \A i \in Operators : i # at => state'[i] = state[i]
      BY <2>3 DEF Changed, Operators
    <3>2. QED
      BY <1>1, <1>2, <2>1, <2>2, <3>1, ComingStays DEF Up
  <2>5. Into(at, r, at, item) = <<>> /\ Into(at, r, at', item') = <<>>
    BY <1>1, <1>4, <1>6, <2>1, <2>2, <2>4, EndBelow
  <2>6. plan[at].kind = "sort" => state[at].batches = <<>> /\ state'[at].batches = <<>>
    BY <2>1, <2>2, <2>3 DEF Changed
  <2>7. state'[at] \in OperatorState
    BY <1>14, <2>1, <2>3 DEF Changed
  <2>8. Makes(plan[at], state[at], <<>>) = {<<>>} /\ Makes(plan[at], state'[at], <<>>) = {<<>>}
    BY <1>11, <2>1, <2>6, <2>7, MakesOfNone
  <2>9. r[at] = <<>>
    BY <1>7, <2>1, <2>5, <2>8
  <2>10. r[at] \in Makes(plan[at], state[at], Into(at, r, at, item))
    BY <2>5, <2>8, <2>9
  <2>11. Into(at + 1, r, at', item') = r[at]
    BY <1>6, <1>9, <2>1, <2>2
  <2>12. QED
    BY <1>2, <1>7, <1>12, <2>1, <2>2, <2>4, <2>10, <2>11
<1>25. CASE Receives
  <2>1. /\ at = Caller /\ item.what = "batch" /\ received' = received \o item.rows /\ state' = state
        /\ at' = at - 1 /\ item' = Item("ask", <<>>) /\ index' = index
    BY <1>25 DEF Receives, Batch, Asks
  <2>2. Coming' = Coming /\ Caller' = Caller
    BY <1>1, <2>1, ComingStays DEF Caller
  <2>3. \A k \in 1..Len(plan) : Into(k, r, at', item') = Into(k, r, at, item)
    <3>1. \A k \in 1..Len(plan) : k # at
      BY <1>2, <2>1
    <3>2. QED
      BY <1>3, <1>9, <2>1, <3>1
  <2>4. Run(r, Len(plan), plan, state, at, item, Coming)
    BY <1>5, <2>1, <2>2, <2>3 DEF Run
  <2>5. received \o Into(Caller, r, at, item) \in AnswersOf(plan, FlattenSeq(input))
    BY <2>1, <2>4 DEF AnswerInv
  <2>6. Into(Caller, r, at, item) = item.rows \o r[Len(plan)] /\ Into(Caller, r, at', item') = r[Len(plan)]
    <3>1. Caller - 1 = Len(plan)
      BY <1>2
    <3>2. QED
      BY <1>2, <1>3, <2>1, <3>1 DEF Into
  <2>7. received' \o r[Len(plan)] = received \o (item.rows \o r[Len(plan)])
    <3>1. received \in Rows /\ r[Len(plan)] \in Rows
      BY <1>2, <1>5, TypeFacts
    <3>2. (received \o item.rows) \o r[Len(plan)] = received \o (item.rows \o r[Len(plan)])
      BY <1>2, <3>1, RowsAssociative
    <3>3. QED
      BY <2>1, <3>2
  <2>8. QED
    BY <1>1, <2>2, <2>5, <2>6, <2>7 DEF Leads
<1>26. CASE Ends \/ UNCHANGED vars
  <2>1. at' = at /\ item' = item /\ state' = state /\ index' = index /\ received' = received
    BY <1>26 DEF Ends, vars
  <2>2. Coming' = Coming /\ Caller' = Caller
    BY <1>1, <2>1, ComingStays DEF Caller
  <2>3. Run(r, Len(plan), plan, state, at, item, Coming) /\ item.what # "error"
    BY <1>1, <1>4, <2>1, <2>2 DEF NextRun
  <2>4. QED
    BY <1>1, <2>1, <2>2, <2>3 DEF AnswerInv, Leads
<1>27. CASE SourceFails \/ ExpressionFails
  BY <1>3, <1>4, <1>27 DEF SourceFails, ExpressionFails, Signals
<1>28. QED
  BY <1>15, <1>16, <1>17, <1>18, <1>19, <1>20, <1>21, <1>22, <1>23, <1>24, <1>25, <1>26, <1>27 DEF Next
-----------------------------------------------------------------------------
(***************************************************************************)
(* The invariant holds at first, and the theorems.                         *)
(***************************************************************************)
\* An operator that has not been polled will make what it means.
LEMMA FreshMakes ==
  ASSUME NEW op \in OperatorPlans, NEW rows \in Rows
  PROVE  Fresh(op) \in OperatorState /\ Makes(op, Fresh(op), rows) = Meaning(op, rows)
<1>1. <<>> \in Seq(Rows) /\ FlattenSeq(<<>>) = <<>> /\ <<>> \o rows = rows
  <2>1. <<>> \in Seq(Rows)
    OBVIOUS
  <2>2. FlattenSeq(<<>>) = <<>>
    BY <2>1, FlattenProperties DEF Rows
  <2>3. <<>> \o rows = rows
    BY ConcatEmptySeq DEF Rows
  <2>4. QED
    BY <2>1, <2>2, <2>3
<1>2. op.skip \in Nat /\ op.fetch \in Nat /\ op.kind \in {"limit", "filter", "projection", "sort"}
  BY DEF OperatorPlans
<1>3. /\ Fresh(op).skip = op.skip /\ Fresh(op).remaining = op.fetch /\ Fresh(op).batches = <<>>
      /\ Fresh(op).over = FALSE
  BY DEF Fresh
<1>4. Fresh(op) \in OperatorState
  BY <1>1, <1>2 DEF Fresh, OperatorState
<1>5. Makes(op, Fresh(op), rows) = Meaning(op, rows)
  BY <1>1, <1>2, <1>3 DEF Makes, Meaning, Window
<1>6. QED
  BY <1>4, <1>5

LEMMA InitHolds ==
  ASSUME Init
  PROVE  SInv
<1>1. /\ plan \in Seq(OperatorPlans) /\ Len(plan) \in Nat /\ DOMAIN plan = 1..Len(plan)
      /\ \A i \in 1..Len(plan) : plan[i] \in OperatorPlans
  <2>1. plan \in Seq(OperatorPlans)
    BY PlanAssumption DEF Init, OperatorPlans
  <2>2. QED
    BY <2>1
<1>2. /\ index = 0 /\ at = Len(plan) /\ item.what = "ask" /\ item.rows = <<>> /\ received = <<>> /\ errors = 0
      /\ plan \in Plans /\ input \in Inputs
  BY DEF Init, Item
<1>3. Operators = 1..Len(plan) /\ Caller = Len(plan) + 1
  BY <1>1 DEF Operators, Caller
<1>4. input \in Seq(Rows) /\ Len(input) \in Nat
  BY <1>2, SourceAssumption DEF Rows
<1>5. \A i \in 1..Len(plan) : state[i] = Fresh(plan[i])
  BY <1>1 DEF Init
<1>6. <<>> \in Rows
  BY DEF Rows
<1>7. \A i \in 1..Len(plan) :
        /\ state[i] \in OperatorState /\ state[i].skip = plan[i].skip /\ state[i].remaining = plan[i].fetch
        /\ state[i].over = FALSE /\ plan[i].skip \in Nat /\ plan[i].fetch \in Nat
  <2> SUFFICES ASSUME NEW i \in 1..Len(plan)
               PROVE  /\ state[i] \in OperatorState /\ state[i].skip = plan[i].skip /\ state[i].remaining = plan[i].fetch
                      /\ state[i].over = FALSE /\ plan[i].skip \in Nat /\ plan[i].fetch \in Nat
    OBVIOUS
  <2>1. plan[i] \in OperatorPlans /\ state[i] = Fresh(plan[i])
    BY <1>1, <1>5
  <2>2. Fresh(plan[i]) \in OperatorState
    BY <1>6, <2>1, FreshMakes
  <2>3. /\ Fresh(plan[i]).skip = plan[i].skip /\ Fresh(plan[i]).remaining = plan[i].fetch
        /\ Fresh(plan[i]).over = FALSE
    BY DEF Fresh
  <2>4. plan[i].skip \in Nat /\ plan[i].fetch \in Nat
    BY <2>1 DEF OperatorPlans
  <2>5. QED
    BY <2>1, <2>2, <2>3, <2>4
<1>8. TypeInv
  <2>1. state \in [DOMAIN plan -> OperatorState]
    BY <1>1, <1>7 DEF Init
  <2>2. item \in [what : Whats, rows : Rows]
    BY <1>6 DEF Init, Item, Whats
  <2>3. \A i \in Operators : state[i].skip <= plan[i].skip /\ state[i].remaining <= plan[i].fetch
    BY <1>3, <1>7
  <2>4. index \in 0..Len(input) /\ at \in 0..Caller /\ errors \in 0..MaxErrors /\ received \in Rows /\ at # Caller
    <3>1. errors \in 0..MaxErrors /\ received \in Rows
      BY <1>2, <1>6, BoundAssumption
    <3> DEFINE n == Len(plan)
    <3>2. at \in 0..Caller /\ at # Caller
      <4>1. n \in Nat /\ at = n /\ Caller = n + 1
        BY <1>1, <1>2, <1>3
      <4> HIDE DEF n
      <4>2. QED
        BY <4>1
    <3>3. index \in 0..Len(input)
      BY <1>2, <1>4
    <3>4. QED
      BY <3>1, <3>2, <3>3
  <2>5. QED
    BY <1>2, <2>1, <2>2, <2>3, <2>4 DEF TypeInv, Asked
<1>9. ControlInv /\ OverInv /\ CountInv /\ EndInv
  <2>1. ControlInv
    BY <1>1, <1>2, <1>3 DEF ControlInv, Going, Asked
  <2>2. OverInv
    BY <1>3, <1>7 DEF OverInv
  <2>3. CountInv
    <3>1. Len(received) = 0
      BY <1>2
    <3>2. ASSUME NEW i \in Operators PROVE Len(received) + OnTheWay(i) + state[i].remaining <= plan[i].fetch
      BY <1>2, <1>3, <1>7, <3>1 DEF OnTheWay, Batch
    <3>3. QED
      BY <3>2 DEF CountInv
  <2>4. EndInv
    BY <1>2 DEF EndInv
  <2>5. QED
    BY <2>1, <2>2, <2>3, <2>4
<1>10. AnswerInv
  <2> SUFFICES ASSUME NEW r, Run(r, Len(plan), plan, state, at, item, Coming)
               PROVE  received \o Into(Caller, r, at, item) \in AnswersOf(plan, FlattenSeq(input))
    BY DEF AnswerInv
  <2>1. Coming = FlattenSeq(input) /\ FlattenSeq(input) \in Rows
    <3>1. SubSeq(input, 1, Len(input)) = input
      BY <1>4, SubSeqFull
    <3>2. index + 1 = 1
      BY <1>2
    <3>3. QED
      BY <1>4, <3>1, <3>2, FlattenProperties DEF Coming, Rows
  <2>2. /\ r \in [0..Len(plan) -> Rows] /\ r[0] = FlattenSeq(input)
        /\ \A k \in 1..Len(plan) : r[k] \in Makes(plan[k], state[k], Into(k, r, at, item))
    BY <2>1 DEF Run
  <2>3. ASSUME NEW k \in 1..Len(plan) PROVE r[k] \in Meaning(plan[k], r[k - 1])
    <3>1. k - 1 \in 0..Len(plan)
      BY <1>1
    <3>2. Into(k, r, at, item) = r[k - 1] /\ r[k - 1] \in Rows
      BY <1>2, <2>2, <3>1 DEF Into
    <3>3. Makes(plan[k], Fresh(plan[k]), r[k - 1]) = Meaning(plan[k], r[k - 1])
      BY <1>1, <3>2, FreshMakes
    <3>4. QED
      BY <1>5, <2>2, <3>2, <3>3
  <2>4. r[Len(plan)] \in AnswersOf(plan, FlattenSeq(input))
    BY <1>1, <2>1, <2>2, <2>3, AnswersReached
  <2>5. Into(Caller, r, at, item) = r[Len(plan)] /\ r[Len(plan)] \in Rows
    BY <1>1, <1>2, <1>3, <2>2 DEF Into
  <2>6. received \o r[Len(plan)] = r[Len(plan)]
    BY <1>2, <2>5, ConcatEmptySeq DEF Rows
  <2>7. QED
    BY <2>4, <2>5, <2>6
<1>11. QED
  BY <1>8, <1>9, <1>10 DEF SInv

\* Every reachable state satisfies the inductive invariant: the types, the
\* control that goes up and down the chain, the rows a limit still counts,
\* and every run of the operators over what is still coming leads to an
\* answer (the poll functions of limit.rs, sort.rs, filter_exec.rs and
\* projection_exec.rs).
THEOREM StreamsInvariance == Spec => []SInv
<1>1. Init => SInv
  BY InitHolds
<1>2. SInv /\ [Next]_vars => SInv'
  BY TypeStep, ControlStep, OverStep, CountStep, EndStep, AnswerStep DEF SInv
<1>3. QED
  BY <1>1, <1>2, PTL DEF Spec

\* Control stays in the chain, and no operator skips or fetches more than its
\* plan says (GlobalLimitExec, LocalLimitExec).
THEOREM StreamsTypeCorrect == Spec => []TypeOK
<1>1. SInv => TypeOK
  BY TypeFacts DEF SInv, TypeInv, TypeOK, Rows
<1>2. QED
  BY <1>1, StreamsInvariance, PTL

\* For every chain, source and fetch: once the caller has the rows that a
\* limit fetches, with only projections above it, the source is not polled
\* again (GlobalLimitExec, LocalLimitExec).
THEOREM SatisfiedLimitStopsReading == Spec => []LimitStopsReading
<1>1. ASSUME SInv PROVE LimitStopsReading
  <2> SUFFICES ASSUME at = 0, Asked, NEW i \in Operators, plan[i].kind = "limit",
                      \A j \in Operators : j > i => plan[j].kind = "projection"
               PROVE  Len(received) < plan[i].fetch
    BY DEF LimitStopsReading
  <2>1. TypeInv /\ ControlInv /\ CountInv
    BY <1>1 DEF SInv
  <2>2. i \in Nat /\ i > 0 /\ state[i].remaining \in Nat /\ plan[i].fetch \in Nat /\ Len(received) \in Nat
    BY <2>1, TypeFacts
  <2>3. state[i].remaining > 0
    BY <2>1, <2>2 DEF ControlInv, Going
  <2>4. Len(received) + OnTheWay(i) + state[i].remaining <= plan[i].fetch /\ OnTheWay(i) = 0
    BY <2>1 DEF CountInv, Counted, OnTheWay, Asked, Batch
  <2>5. QED
    BY <2>2, <2>3, <2>4
<1>2. QED
  BY <1>1, StreamsInvariance, PTL

LEMMA BeginsTheWhole ==
  ASSUME NEW a \in Rows, NEW b \in Rows
  PROVE  IsPrefix(a, a \o b)
<1>1. Len(a) \in Nat /\ Len(a) <= Len(a \o b)
  BY DEF Rows
<1>2. SubSeq(a \o b, 1, Len(a)) = a /\ SubSeq(a, 1, Len(a)) = a
  BY SubSeqOfConcat1, SubSeqFull DEF Rows
<1>3. QED
  BY <1>1, <1>2 DEF IsPrefix

\* There is a run, and it leads to an answer.
LEMMA SomeRun ==
  ASSUME SInv
  PROVE  \E r : Run(r, Len(plan), plan, state, at, item, Coming)
<1>1. TypeInv
  BY DEF SInv
<1>2. /\ plan \in Seq(OperatorPlans) /\ state \in [DOMAIN plan -> OperatorState]
      /\ item \in [what : Whats, rows : Rows] /\ Coming \in Rows
  BY <1>1, TypeFacts, ComingRows DEF TypeInv
<1>3. QED
  BY <1>2, RunExists

\* What the caller gets from any chain of operators, over any source and
\* however its rows are cut into batches, begins an answer of the chain, and
\* is one when the stream ends without an error (GlobalLimitExec,
\* LocalLimitExec, SortExec, FilterExec, ProjectionExec).
THEOREM StreamsKeepThePromise == Spec => KeepsThePromise
<1> DEFINE answers == AnswersOf(plan, FlattenSeq(input))
<1>1. ASSUME Init PROVE Promise!Init
  <2>1. SInv /\ item.what # "error"
    BY <1>1, InitHolds DEF Init, Item
  <2>2. PICK r : Run(r, Len(plan), plan, state, at, item, Coming)
    BY <2>1, SomeRun
  <2>3. answers # {}
    BY <2>1, <2>2 DEF SInv, AnswerInv
  <2>4. QED
    BY <1>1, <2>3 DEF Init, Promise!Init
<1>2. ASSUME SInv, [Next]_vars PROVE [Promise!Next]_(Promise!vars)
  <2>1. plan' = plan /\ input' = input
    BY <1>2, GivenStays
  <2>2. answers' = answers
    BY <2>1
  <2>3. TypeInv
    BY <1>2 DEF SInv
  <2>4. Caller = Len(plan) + 1 /\ Caller - 1 = Len(plan) /\ Len(plan) \in Nat /\ received \in Rows
        /\ item.rows \in Rows
    BY <2>3, TypeFacts
  <2>5. PICK r : Run(r, Len(plan), plan, state, at, item, Coming)
    BY <1>2, SomeRun
  <2>6. r[Len(plan)] \in Rows
    BY <2>4, <2>5 DEF Run
  <2>7. CASE Receives
    <3>1. at = Caller /\ ended = "no" /\ item.what = "batch" /\ received' = received \o item.rows /\ ended' = ended
      BY <2>7 DEF Receives, Batch
    <3>2. received \o (item.rows \o r[Len(plan)]) \in answers
      <4>1. received \o Into(Caller, r, at, item) \in answers
        BY <1>2, <2>5, <3>1 DEF SInv, AnswerInv
      <4>2. Into(Caller, r, at, item) = item.rows \o r[Len(plan)]
        BY <2>4, <3>1 DEF Into
      <4>3. QED
        BY <4>1, <4>2
    <3>3. (received \o item.rows) \o r[Len(plan)] = received \o (item.rows \o r[Len(plan)])
      BY <2>4, <2>6, RowsAssociative
    <3>4. IsPrefix(received, received \o item.rows)
      BY <2>4, BeginsTheWhole
    <3>5. received \o item.rows \in Rows
      BY <2>4, ConcatProperties DEF Rows
    <3>6. IsPrefix(received \o item.rows, (received \o item.rows) \o r[Len(plan)])
      BY <2>6, <3>5, BeginsTheWhole
    <3> DEFINE all == (received \o item.rows) \o r[Len(plan)]
    <3>7. all \in answers /\ IsPrefix(received', all) /\ IsPrefix(received, received')
      BY <3>1, <3>2, <3>3, <3>4, <3>6
    <3> HIDE DEF all, answers
    <3>8. /\ ended = "no" /\ IsPrefix(received, received')
          /\ (\E answer \in answers : IsPrefix(received', answer))
          /\ answers' = answers /\ ended' = ended
      BY <2>2, <3>1, <3>7
    <3>9. Promise!Deliver
      BY <3>8 DEF Promise!Deliver, Promise!IsPrefix, IsPrefix, answers
    <3>10. QED
      BY <3>9 DEF Promise!Next
  <2>8. CASE Ends
    <3>1. at = Caller /\ ended = "no" /\ received' = received
          /\ item.what \in {"end", "error"} /\ ended' = IF item.what = "end" THEN "complete" ELSE "error"
      BY <2>8 DEF Ends
    <3>2. CASE item.what = "end"
      <4>1. r[Len(plan)] = <<>>
        BY <1>2, <2>4, <2>5, <3>1, <3>2 DEF SInv, EndInv
      <4>2. received \o Into(Caller, r, at, item) \in answers
        BY <1>2, <2>5, <3>2 DEF SInv, AnswerInv
      <4>3. Into(Caller, r, at, item) = <<>>
        BY <2>4, <3>2, <4>1 DEF Into
      <4>4. received \o <<>> = received
        BY <2>4, ConcatEmptySeq DEF Rows
      <4>5. received \in answers
        BY <4>2, <4>3, <4>4
      <4>6. Promise!Complete
        BY <2>2, <3>1, <3>2, <4>5 DEF Promise!Complete
      <4>7. QED
        BY <4>6 DEF Promise!Next
    <3>3. CASE item.what = "error"
      <4>1. Promise!Fail
        BY <2>2, <3>1, <3>3 DEF Promise!Fail
      <4>2. QED
        BY <4>1 DEF Promise!Next
    <3>4. QED
      BY <3>1, <3>2, <3>3
  <2>9. ASSUME ~Receives, ~Ends PROVE UNCHANGED <<received, ended>>
    BY <1>2, <2>9 DEF Next, vars, given, SourceYields, SourceEnds, SourceFails, Polled, Filters, Projects,
       ExpressionFails, LimitSkips, LimitTakes, SortCollects, SortEmits, HandsOn
  <2>10. CASE ~Receives /\ ~Ends
    BY <2>2, <2>9, <2>10 DEF Promise!vars
  <2>11. QED
    BY <2>7, <2>8, <2>10
<1>3. QED
  BY <1>1, <1>2, StreamsInvariance, PTL DEF Spec, KeepsThePromise, Promise!Spec
=============================================================================
