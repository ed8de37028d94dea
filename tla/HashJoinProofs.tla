--------------------------- MODULE HashJoinProofs ---------------------------
(***************************************************************************)
(* The answer of HashJoin is the join of its inputs, for all values of the *)
(* constants.  Bags are compared by how often they hold each row, which is *)
(* counted by the rows of the inputs that make it: the table groups the    *)
(* right rows, so that what a left row finds there are the right rows that *)
(* agree with it.                                                          *)
(***************************************************************************)
EXTENDS HashJoin, FoldProofs, FiniteSetTheorems

(***************************************************************************)
(* Rows, keys and how often something occurs.                              *)
(***************************************************************************)
LeftKeyOf(j, l)  == KeyOf(LeftKeys(j), l)
RightKeyOf(j, r) == KeyOf(RightKeys(j), r)

LeftRows(j)  == Rows(j.leftNames)
RightRows(j) == Rows(j.rightNames)

\* What a left and a right row can be combined to.
OutRows(j) == {CombineRows(j, p[1], p[2]) : p \in LeftRows(j) \X RightRows(j)}

\* How many elements of a sequence are in a set.
HowMany(s, X) == Cardinality({i \in DOMAIN s : s[i] \in X})

\* The right rows with one of these keys, and those that a left row makes x.
WithKeys(j, keys)  == {r \in RightRows(j) : RightKeyOf(j, r) \in keys}
Becoming(j, l, x)  == {r \in RightRows(j) : CombineRows(j, l, r) = x}

\* The bag that holds each element as often as a function says.
BagWith(count) == [x \in {x \in DOMAIN count : count[x] > 0} |-> count[x]]

\* A table groups the rows by their keys.
Groups(j, t, rows) ==
  /\ DOMAIN t = {RightKeyOf(j, rows[i]) : i \in DOMAIN rows}
  /\ t \in [DOMAIN t -> Seq(RightRows(j))]
  /\ \A key \in DOMAIN t : \A X \in SUBSET RightRows(j) :
       HowMany(t[key], X) = HowMany(rows, X \cap WithKeys(j, {key}))

\* The pairs that make x, and the left rows without a match that do.
Pairs(j, ls, rs, x) ==
  {p \in (DOMAIN ls) \X (DOMAIN rs) :
     LeftKeyOf(j, ls[p[1]]) = RightKeyOf(j, rs[p[2]]) /\ CombineRows(j, ls[p[1]], rs[p[2]]) = x}

LonelyLeft(j, ls, rs, x) ==
  {i \in DOMAIN ls : /\ j.type = "Left" /\ CombineRows(j, ls[i], NullRow(j.rightNames)) = x
                     /\ \A k \in DOMAIN rs : LeftKeyOf(j, ls[i]) # RightKeyOf(j, rs[k])}

Probed(j, ls, rs) ==
  [x \in OutRows(j) |-> Cardinality(Pairs(j, ls, rs, x)) + Cardinality(LonelyLeft(j, ls, rs, x))]

\* The right rows without a match that make x.
KeysAmong(j, ls) == {LeftKeyOf(j, ls[i]) : i \in DOMAIN ls}

LonelyRight(j, ls, rs, x) ==
  {k \in DOMAIN rs : RightKeyOf(j, rs[k]) \notin KeysAmong(j, ls) /\ CombineRows(j, NullRow(j.leftNames), rs[k]) = x}

Answered(j, ls, again, rs) ==
  [x \in OutRows(j) |->
     Probed(j, ls, rs)[x] + (IF j.type = "Right" THEN Cardinality(LonelyRight(j, again, rs, x)) ELSE 0)]
-----------------------------------------------------------------------------
(***************************************************************************)
(* The inductive invariant.                                                *)
(***************************************************************************)
\* The rows of the batches that have been read.
ReadBefore(batches, rest) == FlattenSeq(SubSeq(batches, 1, Gone(batches, rest)))
ReadOf(batches)           == ReadBefore(batches, todo)

LeftRead   == FlattenSeq(first)
LeftAgain  == FlattenSeq(second)
RightRead  == FlattenSeq(right)

TypeInv ==
  /\ join \in Joins /\ left \in LeftScans /\ right \in Rights
  /\ phase \in {"start", "build", "probe", "rescan", "done", "failed"}
  /\ phase \in {"probe", "rescan", "done"} => first \in left
  /\ phase = "rescan" \/ (phase = "done" /\ join.type = "Right") => second \in left
  /\ phase = "rescan" => join.type = "Right"
  /\ phase \notin {"start", "failed"} => join.type \in Supported

StartInv == phase = "start" =>
  table = [key \in {} |-> <<>>] /\ matched = {} /\ output = EmptyBag

BuildInv == phase = "build" =>
  /\ todo \in Seq(Seq(RightRows(join))) /\ IsRest(todo, right) /\ Groups(join, table, ReadOf(right))
  /\ matched = {} /\ output = EmptyBag

ProbeInv == phase = "probe" =>
  /\ todo \in Seq(Seq(LeftRows(join))) /\ IsRest(todo, first) /\ Groups(join, table, RightRead)
  /\ matched = {} /\ output = BagWith(Probed(join, ReadOf(first), RightRead))

RescanInv == phase = "rescan" =>
  /\ todo \in Seq(Seq(LeftRows(join))) /\ IsRest(todo, second) /\ Groups(join, table, RightRead)
  /\ matched = KeysAmong(join, ReadOf(second)) \cap DOMAIN table
  /\ output = BagWith(Probed(join, LeftRead, RightRead))

DoneInv == phase = "done" =>
  output = BagWith(Answered(join, LeftRead, LeftAgain, RightRead))

Inv == TypeInv /\ StartInv /\ BuildInv /\ ProbeInv /\ RescanInv /\ DoneInv
-----------------------------------------------------------------------------
(***************************************************************************)
(* Counting.                                                               *)
(***************************************************************************)
LEMMA ListOf ==
  ASSUME NEW V, NEW n \in Nat, NEW s, DOMAIN s = 1..n, s = [i \in 1..n |-> s[i]], \A i \in 1..n : s[i] \in V
  PROVE  s \in Seq(V) /\ Len(s) = n
<1>1. s \in [1..n -> V]
  OBVIOUS
<1>2. QED
  BY <1>1

LEMMA HowManyIsFinite ==
  ASSUME NEW E, NEW s \in Seq(E), NEW X
  PROVE  /\ IsFiniteSet({i \in DOMAIN s : s[i] \in X}) /\ HowMany(s, X) \in Nat
         /\ (HowMany(s, X) > 0 <=> \E i \in DOMAIN s : s[i] \in X)
<1> DEFINE P == {i \in DOMAIN s : s[i] \in X}
<1>1. IsFiniteSet(DOMAIN s) /\ P \in SUBSET DOMAIN s
  <2>1. Len(s) \in Nat /\ DOMAIN s = 1..Len(s) /\ 1 \in Int
    OBVIOUS
  <2>2. QED
    BY <2>1, FS_Interval
<1>2. IsFiniteSet(P)
  BY <1>1, FS_Subset
<1>3. Cardinality(P) \in Nat /\ (Cardinality(P) = 0 <=> P = {})
  BY <1>2, FS_CardinalityType, FS_EmptySet
<1>4. QED
  BY <1>2, <1>3 DEF HowMany

\* The elements that are in one of two sets, never in both.
LEMMA HowManyOfTwo ==
  ASSUME NEW E, NEW s \in Seq(E), NEW X, NEW Y, X \cap Y = {}
  PROVE  HowMany(s, X \cup Y) = HowMany(s, X) + HowMany(s, Y)
<1> DEFINE A == {i \in DOMAIN s : s[i] \in X}
           B == {i \in DOMAIN s : s[i] \in Y}
           C == {i \in DOMAIN s : s[i] \in X \cup Y}
<1>1. IsFiniteSet(A) /\ IsFiniteSet(B)
  BY HowManyIsFinite
<1>2. C = A \cup B /\ A \cap B = {}
  OBVIOUS
<1>3. HowMany(s, X \cup Y) = Cardinality(C) /\ HowMany(s, X) = Cardinality(A) /\ HowMany(s, Y) = Cardinality(B)
  BY DEF HowMany
<1> HIDE DEF A, B, C
<1>4. Cardinality(A) \in Nat /\ Cardinality(B) \in Nat /\ Cardinality({}) = 0
  BY <1>1, FS_CardinalityType, FS_EmptySet
<1>5. Cardinality(A \cup B) = Cardinality(A) + Cardinality(B) - Cardinality(A \cap B)
  BY <1>1, FS_Union
<1>6. Cardinality(A \cap B) = 0 /\ Cardinality(C) = Cardinality(A \cup B)
  BY <1>2, <1>4
<1>7. Cardinality(C) = Cardinality(A) + Cardinality(B)
  BY ONLY <1>4, <1>5, <1>6
<1>8. QED
  BY <1>3, <1>7

LEMMA HowManySame ==
  ASSUME NEW s, NEW t, NEW X, NEW Y, DOMAIN s = DOMAIN t, \A i \in DOMAIN t : s[i] \in X <=> t[i] \in Y
  PROVE  HowMany(s, X) = HowMany(t, Y)
<1>1. {i \in DOMAIN s : s[i] \in X} = {i \in DOMAIN t : t[i] \in Y}
  OBVIOUS
<1>2. QED
  BY <1>1 DEF HowMany

LEMMA HowManyOfNone ==
  ASSUME NEW X
  PROVE  HowMany(<<>>, X) = 0
<1>1. {i \in DOMAIN <<>> : <<>>[i] \in X} = {}
  OBVIOUS
<1>2. QED
  BY <1>1, FS_EmptySet DEF HowMany

LEMMA HowManyOfMore ==
  ASSUME NEW E, NEW s \in Seq(E), NEW e \in E, NEW X
  PROVE  HowMany(Append(s, e), X) = HowMany(s, X) + (IF e \in X THEN 1 ELSE 0)
<1> DEFINE u == Append(s, e)
           n == Len(s) + 1
           P == {i \in DOMAIN s : s[i] \in X}
           Q == {i \in DOMAIN u : u[i] \in X}
<1>1. Len(s) \in Nat /\ DOMAIN s = 1..Len(s)
  OBVIOUS
<1>2. DOMAIN u = DOMAIN s \cup {n} /\ n \notin DOMAIN s /\ u[n] = e /\ \A i \in DOMAIN s : u[i] = s[i]
  OBVIOUS
<1>3. IsFiniteSet(P) /\ HowMany(s, X) = Cardinality(P) /\ HowMany(u, X) = Cardinality(Q)
  BY HowManyIsFinite DEF HowMany
<1> HIDE DEF u, n
<1>4. n \notin P
  BY <1>2
<1>5. CASE e \in X
  <2>1. Q = P \cup {n}
    <3>1. \A i : i \in Q <=> i \in P \cup {n}
      BY <1>2, <1>5
    <3>2. QED
      BY <3>1
  <2>2. Cardinality(P \cup {n}) = Cardinality(P) + 1
    BY <1>3, <1>4, FS_AddElement
  <2>3. QED
    BY <1>3, <1>5, <2>1, <2>2 DEF u
<1>6. CASE e \notin X
  <2>1. Q = P
    BY <1>2, <1>6
  <2>2. HowMany(s, X) \in Nat
    BY HowManyIsFinite
  <2>3. HowMany(u, X) = HowMany(s, X)
    BY <1>3, <2>1
  <2>4. HowMany(u, X) = HowMany(s, X) + (IF e \in X THEN 1 ELSE 0)
    BY <1>6, <2>2, <2>3
  <2>5. QED
    BY <2>4 DEF u
<1>7. QED
  BY <1>5, <1>6

LEMMA HowManyJoined ==
  ASSUME NEW E, NEW s \in Seq(E), NEW t \in Seq(E), NEW X
  PROVE  HowMany(s \o t, X) = HowMany(s, X) + HowMany(t, X)
<1> DEFINE T == {u \in Seq(E) : HowMany(s \o u, X) = HowMany(s, X) + HowMany(u, X)}
<1>1. <<>> \in T
  <2>1. s \o <<>> = s /\ <<>> \in Seq(E) /\ HowMany(<<>>, X) = 0 /\ HowMany(s, X) \in Nat
    BY ConcatEmptySeq, EmptySeq, HowManyOfNone, HowManyIsFinite
  <2>2. QED
    BY <2>1
<1>2. ASSUME NEW u \in Seq(E), u \in T, NEW e \in E PROVE Append(u, e) \in T
  <2>1. s \o Append(u, e) = Append(s \o u, e) /\ s \o u \in Seq(E) /\ Append(u, e) \in Seq(E)
    OBVIOUS
  <2>2. HowMany(Append(s \o u, e), X) = HowMany(s \o u, X) + (IF e \in X THEN 1 ELSE 0)
    BY <2>1, HowManyOfMore
  <2>3. HowMany(Append(u, e), X) = HowMany(u, X) + (IF e \in X THEN 1 ELSE 0)
    BY HowManyOfMore
  <2>4. HowMany(s, X) \in Nat /\ HowMany(u, X) \in Nat /\ HowMany(s \o u, X) = HowMany(s, X) + HowMany(u, X)
    BY <1>2, HowManyIsFinite
  <2>5. HowMany(s \o Append(u, e), X) = HowMany(s, X) + HowMany(Append(u, e), X)
    BY <2>1, <2>2, <2>3, <2>4
  <2>6. QED
    BY <2>1, <2>5
<1> HIDE DEF T
<1>3. Seq(E) \subseteq T
  BY <1>1, <1>2, AppendInduction
<1>4. QED
  BY <1>3 DEF T
-----------------------------------------------------------------------------
(***************************************************************************)
(* Bags.                                                                   *)
(***************************************************************************)
LEMMA BagOfCounts ==
  ASSUME NEW O, NEW s \in Seq(O)
  PROVE  BagOf(s) = BagWith([x \in O |-> HowMany(s, {x})])
<1> DEFINE f == [x \in O |-> HowMany(s, {x})]
<1>1. \A x \in O : HowMany(s, {x}) > 0 <=> \E i \in DOMAIN s : s[i] \in {x}
  BY HowManyIsFinite
<1>2. \A i \in DOMAIN s : s[i] \in O
  OBVIOUS
<1>3. Range(s) = {x \in O : HowMany(s, {x}) > 0}
  BY <1>1, <1>2 DEF Range
<1>4. {x \in DOMAIN f : f[x] > 0} = {x \in O : HowMany(s, {x}) > 0}
  OBVIOUS
<1>5. ASSUME NEW x PROVE Cardinality({i \in DOMAIN s : s[i] = x}) = HowMany(s, {x})
  <2>1. {i \in DOMAIN s : s[i] = x} = {i \in DOMAIN s : s[i] \in {x}}
    OBVIOUS
  <2>2. QED
    BY <2>1 DEF HowMany
<1>6. BagOf(s) = [x \in Range(s) |-> HowMany(s, {x})]
  BY <1>5 DEF BagOf
<1>7. BagWith(f) = [x \in {x \in O : HowMany(s, {x}) > 0} |-> HowMany(s, {x})]
  BY <1>4 DEF BagWith
<1>8. QED
  BY <1>3, <1>6, <1>7

LEMMA BagSum ==
  ASSUME NEW O, NEW f \in [O -> Nat], NEW g \in [O -> Nat]
  PROVE  BagWith(f) (+) BagWith(g) = BagWith([x \in O |-> f[x] + g[x]])
<1> DEFINE F == {x \in O : f[x] > 0}
           G == {x \in O : g[x] > 0}
           h == [x \in O |-> f[x] + g[x]]
           a == BagWith(f)
           b == BagWith(g)
<1>1. a = [x \in F |-> f[x]] /\ b = [x \in G |-> g[x]]
  BY DEF BagWith
<1>2. {x \in DOMAIN h : h[x] > 0} = F \cup G
  OBVIOUS
<1>3. BagWith(h) = [x \in F \cup G |-> f[x] + g[x]]
  BY <1>2 DEF BagWith
<1>4. a (+) b = [x \in DOMAIN a \cup DOMAIN b |->
                  (IF x \in DOMAIN a THEN a[x] ELSE 0) + (IF x \in DOMAIN b THEN b[x] ELSE 0)]
  BY DEF (+)
<1>5. DOMAIN a = F /\ DOMAIN b = G /\ (\A x \in F : a[x] = f[x]) /\ (\A x \in G : b[x] = g[x])
  BY <1>1
<1> HIDE DEF a, b
<1>6. ASSUME NEW x \in F \cup G
      PROVE  (IF x \in DOMAIN a THEN a[x] ELSE 0) + (IF x \in DOMAIN b THEN b[x] ELSE 0) = f[x] + g[x]
  BY <1>5
<1>7. QED
  BY <1>3, <1>4, <1>5, <1>6 DEF a, b

LEMMA BagOfNone ==
  ASSUME NEW O
  PROVE  BagWith([x \in O |-> 0]) = EmptyBag
<1> DEFINE f == [x \in O |-> 0]
<1>1. {x \in DOMAIN f : f[x] > 0} = {}
  OBVIOUS
<1>2. QED
  BY <1>1 DEF BagWith, EmptyBag, SetToBag
-----------------------------------------------------------------------------
(***************************************************************************)
(* The columns of the answer.                                              *)
(***************************************************************************)
LEMMA InOneSequence ==
  ASSUME NEW S, IsFiniteSet(S)
  PROVE  SetToSeq(S) \in [1..Cardinality(S) -> S] /\ IsInjective(SetToSeq(S)) /\ Cardinality(S) \in Nat
         /\ Len(SetToSeq(S)) = Cardinality(S)
         /\ \A x \in S : \E k \in 1..Cardinality(S) : SetToSeq(S)[k] = x
<1> DEFINE n == Cardinality(S)
           f == SetToSeq(S)
<1>1. n \in Nat /\ ExistsBijection(1..n, S)
  BY FS_CardinalityType
<1>2. PICK g \in Bijection(1..n, S) : TRUE
  BY <1>1 DEF ExistsBijection
<1>3. g \in [1..n -> S] /\ IsInjective(g)
  BY <1>2 DEF Bijection, Injection, IsInjective
<1>4. f \in [1..n -> S] /\ IsInjective(f)
  BY <1>3 DEF SetToSeq
<1> HIDE DEF f
<1>5. Len(f) = n
  BY <1>1, <1>4
<1>6. f \in Injection(1..n, S)
  BY <1>4 DEF Injection, IsInjective
<1>7. IsFiniteSet(1..n) /\ Cardinality(1..n) = n
  BY <1>1, FS_Interval
<1>8. f \in Surjection(1..n, S)
  BY <1>6, <1>7, FS_Injection
<1>9. \A x \in S : \E k \in 1..n : f[k] = x
  BY <1>8 DEF Surjection
<1>10. QED
  BY <1>1, <1>4, <1>5, <1>9 DEF f

LEMMA PlacesInOrder ==
  ASSUME NEW n \in Nat
  PROVE  InOrder(1..n) = [i \in 1..n |-> i]
<1>1. ASSUME NEW x \in 1..n PROVE Cardinality({y \in 1..n : y <= x}) = x
  <2>1. {y \in 1..n : y <= x} = 1..x
    OBVIOUS
  <2>2. 1 \in Int /\ x \in Int /\ ~(1 > x) /\ x - 1 + 1 = x
    OBVIOUS
  <2>3. QED
    BY <2>1, <2>2, FS_Interval
<1>2. Cardinality(1..n) = n
  BY FS_Interval
<1>3. ASSUME NEW i \in 1..n PROVE (CHOOSE x \in 1..n : Cardinality({y \in 1..n : y <= x}) = i) = i
  BY <1>1
<1>4. QED
  BY <1>2, <1>3 DEF InOrder

\* However it is made, a list of the places that are kept is a sequence.
LEMMA InOrderLength ==
  ASSUME NEW S, IsFiniteSet(S)
  PROVE  Cardinality(S) \in Nat /\ DOMAIN InOrder(S) = 1..Cardinality(S)
<1>1. Cardinality(S) \in Nat
  BY FS_CardinalityType
<1>2. QED
  BY <1>1 DEF InOrder

LEMMA JoinFacts ==
  ASSUME NEW j \in Joins
  PROVE  /\ j.leftNames \in Seq(STRING) /\ j.rightNames \in Seq(STRING)
         /\ NullRow(j.leftNames) \in LeftRows(j) /\ NullRow(j.rightNames) \in RightRows(j)
         /\ \A scans \in LeftScans : scans \subseteq Seq(Seq(LeftRows(j)))
         /\ Rights \subseteq Seq(Seq(RightRows(j)))
  BY InputsAssumption DEF Rows, LeftRows, RightRows, NullRow

\* The columns that the right side gives.
RightPlaces(j) == {i \in DOMAIN j.rightNames : j.rightNames[i] \notin DuplicateKeys(j)}

LEMMA RightPlacesInOrder ==
  ASSUME NEW j \in Joins
  PROVE  Cardinality(RightPlaces(j)) \in Nat /\ DOMAIN InOrder(RightPlaces(j)) = 1..Cardinality(RightPlaces(j))
<1> DEFINE names == j.rightNames
<1>1. names \in Seq(STRING)
  BY JoinFacts
<1>2. Len(names) \in Nat /\ DOMAIN names = 1..Len(names) /\ 1 \in Int
  BY <1>1
<1>3. IsFiniteSet(DOMAIN names)
  BY <1>2, FS_Interval
<1>4. RightPlaces(j) \in SUBSET DOMAIN names
  BY DEF RightPlaces
<1> HIDE DEF names
<1>5. IsFiniteSet(RightPlaces(j))
  BY <1>3, <1>4, FS_Subset
<1>6. QED
  BY <1>5, InOrderLength

LEMMA CombinedRow ==
  ASSUME NEW j \in Joins, NEW l \in LeftRows(j), NEW r \in RightRows(j)
  PROVE  CombineRows(j, l, r) = l \o [i \in 1..Cardinality(RightPlaces(j)) |-> r[InOrder(RightPlaces(j))[i]]]
<1>1. DOMAIN r = DOMAIN j.rightNames
  BY DEF RightRows, Rows
<1>2. DOMAIN r \ RightColumnsToExclude(j) = RightPlaces(j)
  BY <1>1 DEF RightColumnsToExclude, RightPlaces
<1>3. CombineRows(j, l, r) =
        LET kept == InOrder(RightPlaces(j)) IN l \o [i \in DOMAIN kept |-> r[kept[i]]]
  BY <1>2 DEF CombineRows
<1>4. QED
  BY <1>3, RightPlacesInOrder

\* The schema that was planned for the join has the columns of its rows,
\* unless a right join leaves out columns of the left side.
PlannedColumns(j) ==
  [i \in 1..Len(j.leftNames) |-> <<"left", i>>]
    \o [i \in 1..Cardinality(RightPlaces(j)) |-> <<"right", InOrder(RightPlaces(j))[i]>>]

LEMMA ColumnsPlanned ==
  ASSUME NEW j \in Joins, j.type = "Right" => DuplicateKeys(j) = {}
  PROVE  Columns(j) = PlannedColumns(j)
<1> DEFINE n == Len(j.leftNames)
           c == Cardinality(RightPlaces(j))
           lp == {i \in DOMAIN j.leftNames : j.leftNames[i] \notin (IF j.type = "Right" THEN DuplicateKeys(j) ELSE {})}
           rp == {i \in DOMAIN j.rightNames : j.rightNames[i] \notin (IF j.type = "Right" THEN {} ELSE DuplicateKeys(j))}
<1>1. Columns(j) = [i \in DOMAIN InOrder(lp) |-> <<"left", InOrder(lp)[i]>>]
                     \o [i \in DOMAIN InOrder(rp) |-> <<"right", InOrder(rp)[i]>>]
  BY DEF Columns
<1>2. n \in Nat /\ DOMAIN j.leftNames = 1..n
  BY JoinFacts
<1>3. lp = 1..n
  BY <1>2
<1>4. rp = RightPlaces(j)
  BY DEF RightPlaces
<1>5. InOrder(1..n) = [i \in 1..n |-> i]
  BY <1>2, PlacesInOrder
<1> HIDE DEF lp, rp, n
<1>6. Columns(j) = [i \in 1..n |-> <<"left", i>>] \o [i \in 1..c |-> <<"right", InOrder(RightPlaces(j))[i]>>]
  BY <1>1, <1>3, <1>4, <1>5, RightPlacesInOrder
<1>7. QED
  BY <1>6 DEF PlannedColumns, n

LEMMA CombineIsOutput ==
  ASSUME NEW j \in Joins, NEW l \in LeftRows(j), NEW r \in RightRows(j), j.type = "Right" => DuplicateKeys(j) = {}
  PROVE  CombineRows(j, l, r) = OutputRow(Columns(j), l, r)
<1> DEFINE n == Len(j.leftNames)
           c == Cardinality(RightPlaces(j))
           k == InOrder(RightPlaces(j))
           a == [i \in 1..n |-> <<"left", i>>]
           b == [i \in 1..c |-> <<"right", k[i]>>]
           rr == [i \in 1..c |-> r[k[i]]]
           C == a \o b
           out == OutputRow(C, l, r)
           V == {l[i] : i \in 1..n} \cup {rr[i] : i \in 1..c}
<1>1. n \in Nat /\ c \in Nat /\ DOMAIN j.leftNames = 1..n
  BY JoinFacts, RightPlacesInOrder
<1>2. l \in [1..n -> Values]
  BY <1>1 DEF LeftRows, Rows
<1>3. Columns(j) = C
  BY ColumnsPlanned DEF PlannedColumns
<1>4. CombineRows(j, l, r) = l \o rr
  BY CombinedRow
<1> HIDE DEF n, c, k
<1>5. l \in Seq(V) /\ Len(l) = n /\ rr \in Seq(V) /\ Len(rr) = c
  <2>1. (\A i \in 1..n : l[i] \in V) /\ \A i \in 1..c : rr[i] \in V
    OBVIOUS
  <2>2. l = [i \in 1..n |-> l[i]] /\ DOMAIN l = 1..n
    BY <1>2
  <2>3. rr = [i \in 1..c |-> rr[i]] /\ DOMAIN rr = 1..c
    OBVIOUS
  <2> HIDE DEF V, rr
  <2>4. l \in Seq(V) /\ Len(l) = n
    BY <1>1, <2>1, <2>2, ListOf
  <2>5. rr \in Seq(V) /\ Len(rr) = c
    BY <1>1, <2>1, <2>3, ListOf
  <2>6. QED
    BY <2>4, <2>5
<1>6. DOMAIN C = 1..(n + c) /\ (\A i \in 1..n : C[i] = <<"left", i>>)
      /\ \A i \in 1..c : C[n + i] = <<"right", k[i]>>
  <2> DEFINE W == {<<"left", i>> : i \in 1..n} \cup {<<"right", k[i]>> : i \in 1..c}
  <2>1. (\A i \in 1..n : a[i] \in W /\ a[i] = <<"left", i>>) /\ \A i \in 1..c : b[i] \in W /\ b[i] = <<"right", k[i]>>
    OBVIOUS
  <2>2. a = [i \in 1..n |-> a[i]] /\ DOMAIN a = 1..n /\ b = [i \in 1..c |-> b[i]] /\ DOMAIN b = 1..c
    OBVIOUS
  <2> HIDE DEF W, a, b
  <2>3. a \in Seq(W) /\ b \in Seq(W) /\ Len(a) = n /\ Len(b) = c
    BY <1>1, <2>1, <2>2, ListOf
  <2>4. Len(C) = n + c /\ DOMAIN C = 1..Len(C) /\ \A i \in 1..(n + c) : C[i] = IF i <= n THEN a[i] ELSE b[i - n]
    <3>1. C \in Seq(W) /\ Len(C) = Len(a) + Len(b)
          /\ \A i \in 1..(Len(a) + Len(b)) : C[i] = IF i <= Len(a) THEN a[i] ELSE b[i - Len(a)]
      BY <2>3, ConcatProperties
    <3> HIDE DEF C
    <3>2. DOMAIN C = 1..Len(C)
      BY <3>1
    <3>3. QED
      BY <2>3, <3>1, <3>2
  <2>5. \A i \in 1..n : i \in 1..(n + c) /\ i <= n
    BY <1>1
  <2>6. \A i \in 1..c : n + i \in 1..(n + c) /\ ~(n + i <= n) /\ (n + i) - n = i
    BY <1>1
  <2> HIDE DEF C
  <2>7. \A i \in 1..n : C[i] = a[i]
    BY <2>4, <2>5
  <2>8. \A i \in 1..c : C[n + i] = b[i]
    BY <2>4, <2>6
  <2>9. DOMAIN C = 1..(n + c)
    BY <2>4
  <2>10. QED
    BY <2>1, <2>7, <2>8, <2>9
<1> HIDE DEF C
<1>7. DOMAIN out = 1..(n + c) /\ out = [i \in 1..(n + c) |-> out[i]]
  BY <1>6 DEF OutputRow
<1>8. ASSUME NEW i \in 1..n PROVE out[i] = l[i]
  <2>1. i \in 1..(n + c) /\ C[i] = <<"left", i>>
    BY <1>1, <1>6
  <2>2. QED
    BY <1>6, <2>1 DEF OutputRow
<1>9. ASSUME NEW i \in 1..c PROVE out[n + i] = rr[i]
  <2>1. n + i \in 1..(n + c) /\ C[n + i] = <<"right", k[i]>>
    BY <1>1, <1>6
  <2>2. out[n + i] = r[k[i]]
    BY <1>6, <2>1 DEF OutputRow
  <2>3. QED
    BY <2>2
<1>10. (\A i \in 1..n : l[i] \in V) /\ \A i \in 1..c : rr[i] \in V
  OBVIOUS
<1> HIDE DEF out, rr, V
<1>11. \A i \in 1..(n + c) : out[i] \in V
  <2>1. \A i \in 1..(n + c) : i \in 1..n \/ (i - n \in 1..c /\ n + (i - n) = i)
    BY <1>1
  <2>2. QED
    BY <1>8, <1>9, <1>10, <2>1
<1>12. out \in Seq(V) /\ Len(out) = n + c
  BY <1>1, <1>7, <1>11
<1>13. out = l \o rr
  BY <1>5, <1>8, <1>9, <1>12, ConcatEqual
<1>14. QED
  BY <1>3, <1>4, <1>13 DEF out
-----------------------------------------------------------------------------
(***************************************************************************)
(* The relation, counted by what makes its rows.                           *)
(***************************************************************************)
LEMMA AgreeByKeys ==
  ASSUME NEW j, NEW l, NEW r
  PROVE  Agree(j, "NullEqualsNull", l, r) <=> LeftKeyOf(j, l) = RightKeyOf(j, r)
<1> DEFINE a == [k \in DOMAIN j.on |-> l[PositionOf(j.leftNames, j.on[k][1])]]
           b == [k \in DOMAIN j.on |-> r[PositionOf(j.rightNames, j.on[k][2])]]
<1>1. LeftKeyOf(j, l) = a
  BY DEF LeftKeyOf, KeyOf, LeftKeys
<1>2. RightKeyOf(j, r) = b
  BY DEF RightKeyOf, KeyOf, RightKeys
<1>3. Agree(j, "NullEqualsNull", l, r) <=> \A k \in DOMAIN j.on : a[k] = b[k]
  BY DEF Agree, Range
<1>4. QED
  BY <1>1, <1>2, <1>3

LEMMA ImageCount ==
  ASSUME NEW S, IsFiniteSet(S), NEW f, DOMAIN f = S, f = [i \in S |-> f[i]], \A a, b \in S : f[a] = f[b] => a = b
  PROVE  IsFiniteSet({f[i] : i \in S}) /\ Cardinality({f[i] : i \in S}) = Cardinality(S)
<1> DEFINE T == {f[i] : i \in S}
<1>1. f \in [S -> T]
  OBVIOUS
<1>2. f \in Injection(S, T)
  BY <1>1 DEF Injection, IsInjective
<1>3. f \in Surjection(S, T)
  BY <1>1 DEF Surjection
<1>4. ExistsBijection(S, T)
  BY <1>2, <1>3 DEF ExistsBijection, Bijection
<1>5. QED
  BY <1>4, FS_Bijection

LEMMA PlacesAreFinite ==
  ASSUME NEW E, NEW s \in Seq(E)
  PROVE  IsFiniteSet(DOMAIN s) /\ \A S \in SUBSET DOMAIN s : IsFiniteSet(S) /\ Cardinality(S) \in Nat
<1>1. Len(s) \in Nat /\ DOMAIN s = 1..Len(s) /\ 1 \in Int
  OBVIOUS
<1>2. IsFiniteSet(DOMAIN s)
  BY <1>1, FS_Interval
<1>3. ASSUME NEW S \in SUBSET DOMAIN s PROVE IsFiniteSet(S) /\ Cardinality(S) \in Nat
  BY <1>2, FS_Subset, FS_CardinalityType
<1>4. QED
  BY <1>2, <1>3

LEMMA CountsAreNumbers ==
  ASSUME NEW j, NEW E, NEW ls \in Seq(E), NEW F, NEW rs \in Seq(F), NEW x
  PROVE  /\ IsFiniteSet(Pairs(j, ls, rs, x)) /\ Cardinality(Pairs(j, ls, rs, x)) \in Nat
         /\ IsFiniteSet(LonelyLeft(j, ls, rs, x)) /\ Cardinality(LonelyLeft(j, ls, rs, x)) \in Nat
         /\ IsFiniteSet(LonelyRight(j, ls, rs, x)) /\ Cardinality(LonelyRight(j, ls, rs, x)) \in Nat
<1>1. IsFiniteSet(DOMAIN ls) /\ IsFiniteSet(DOMAIN rs)
  BY PlacesAreFinite
<1>2. IsFiniteSet((DOMAIN ls) \X (DOMAIN rs))
  BY <1>1, FS_Product
<1>3. Pairs(j, ls, rs, x) \in SUBSET ((DOMAIN ls) \X (DOMAIN rs))
  BY DEF Pairs
<1>4. IsFiniteSet(Pairs(j, ls, rs, x)) /\ Cardinality(Pairs(j, ls, rs, x)) \in Nat
  BY <1>2, <1>3, FS_Subset, FS_CardinalityType
<1>5. LonelyLeft(j, ls, rs, x) \in SUBSET DOMAIN ls /\ LonelyRight(j, ls, rs, x) \in SUBSET DOMAIN rs
  BY DEF LonelyLeft, LonelyRight
<1>6. QED
  BY <1>1, <1>4, <1>5, FS_Subset, FS_CardinalityType

LEMMA ProbedIsCount ==
  ASSUME NEW j, NEW E, NEW ls \in Seq(E), NEW again \in Seq(E), NEW F, NEW rs \in Seq(F)
  PROVE  Probed(j, ls, rs) \in [OutRows(j) -> Nat] /\ Answered(j, ls, again, rs) \in [OutRows(j) -> Nat]
<1>1. \A x \in OutRows(j) : Cardinality(Pairs(j, ls, rs, x)) \in Nat /\ Cardinality(LonelyLeft(j, ls, rs, x)) \in Nat
                            /\ Cardinality(LonelyRight(j, again, rs, x)) \in Nat
  BY CountsAreNumbers
<1>2. Probed(j, ls, rs) \in [OutRows(j) -> Nat]
  BY <1>1 DEF Probed
<1>3. QED
  BY <1>1, <1>2 DEF Answered

\* The union of three sets of pairs.
LEMMA CountOfThree ==
  ASSUME NEW A, NEW B, NEW C, IsFiniteSet(A), IsFiniteSet(B), IsFiniteSet(C),
         A \cap B = {}, A \cap C = {}, B \cap C = {}
  PROVE  Cardinality(A \cup B \cup C) = Cardinality(A) + Cardinality(B) + Cardinality(C)
<1>1. IsFiniteSet(A \cup B) /\ Cardinality(A \cup B) = Cardinality(A) + Cardinality(B) - Cardinality(A \cap B)
  BY FS_Union
<1> DEFINE D == A \cup B
<1>2. D \cap C = {} /\ IsFiniteSet(D)
  BY <1>1
<1>3. Cardinality(D \cup C) = Cardinality(D) + Cardinality(C) - Cardinality(D \cap C)
  BY <1>2, FS_Union
<1>4. Cardinality(A \cap B) = 0 /\ Cardinality(D \cap C) = 0
  BY <1>2, FS_EmptySet
<1>5. Cardinality(A) \in Nat /\ Cardinality(B) \in Nat /\ Cardinality(C) \in Nat
  BY FS_CardinalityType
<1>6. Cardinality(D) = Cardinality(A) + Cardinality(B)
  BY ONLY <1>1, <1>4, <1>5 DEF D
<1>7. Cardinality(D \cup C) = Cardinality(A) + Cardinality(B) + Cardinality(C)
  BY ONLY <1>3, <1>4, <1>5, <1>6
<1>8. QED
  BY <1>7

LEMMA InOutRows ==
  ASSUME NEW j, NEW l \in LeftRows(j), NEW r \in RightRows(j)
  PROVE  CombineRows(j, l, r) \in OutRows(j)
<1>1. <<l, r>> \in LeftRows(j) \X RightRows(j) /\ <<l, r>>[1] = l /\ <<l, r>>[2] = r
  OBVIOUS
<1>2. QED
  BY <1>1 DEF OutRows

\* A count of how often a function gives each value.
CountsImages(D, row, O, count) ==
  \A x \in O : /\ Cardinality({p \in D : row[p] = x}) = count[x]
               /\ count[x] > 0 <=> \E p \in D : row[p] = x

\* The bag that holds what a function gives, as often as it gives it.
LEMMA BagOfImages ==
  ASSUME NEW O, NEW D, NEW row \in [D -> O], NEW count \in [O -> Nat], CountsImages(D, row, O, count)
  PROVE  [r \in Range(row) |-> Cardinality({p \in DOMAIN row : row[p] = r})] = BagWith(count)
<1>1. DOMAIN row = D /\ \A p \in D : row[p] \in O
  OBVIOUS
<1>2. Range(row) = {x \in DOMAIN count : count[x] > 0}
  <2>1. DOMAIN count = O /\ Range(row) = {row[p] : p \in D}
    BY <1>1 DEF Range
  <2>2. \A x \in O : count[x] > 0 <=> \E p \in D : row[p] = x
    BY DEF CountsImages
  <2>3. QED
    BY <1>1, <2>1, <2>2
<1>3. \A r \in Range(row) : r \in O /\ Cardinality({p \in DOMAIN row : row[p] = r}) = count[r]
  BY <1>1 DEF Range, CountsImages
<1>4. QED
  BY <1>2, <1>3 DEF BagWith

\* What the relation counts: pairs of places, with 0 for a row of Nulls.
PlacePairs(j, ls, rs) == {p \in (DOMAIN ls) \X (DOMAIN rs) : Agree(j, "NullEqualsNull", ls[p[1]], rs[p[2]])}

AlonePlaces(j, side, ls, rs) ==
  IF side = "left"
  THEN {<<i, 0>> : i \in IF j.type = "Left" THEN (DOMAIN ls) \ {p[1] : p \in PlacePairs(j, ls, rs)} ELSE {}}
  ELSE {<<0, k>> : k \in IF j.type = "Right" THEN (DOMAIN rs) \ {p[2] : p \in PlacePairs(j, ls, rs)} ELSE {}}

RowOfPlaces(j, ls, rs, p) ==
  OutputRow(Columns(j), IF p[1] = 0 THEN NullRow(j.leftNames) ELSE ls[p[1]],
                        IF p[2] = 0 THEN NullRow(j.rightNames) ELSE rs[p[2]])

AllPlaces(j, ls, rs) ==
  PlacePairs(j, ls, rs) \cup AlonePlaces(j, "left", ls, rs) \cup AlonePlaces(j, "right", ls, rs)

LEMMA RelationByPlaces ==
  ASSUME NEW j, NEW ls, NEW rs, NEW row, row = [p \in AllPlaces(j, ls, rs) |-> RowOfPlaces(j, ls, rs, p)]
  PROVE  Relation(j, "NullEqualsNull", ls, rs) = [r \in Range(row) |-> Cardinality({p \in DOMAIN row : row[p] = r})]
<1>1. "right" # "left"
  OBVIOUS
<1>2. QED
  BY <1>1 DEF Relation, AllPlaces, PlacePairs, AlonePlaces, RowOfPlaces

\* A left place without a match.
LEMMA AloneOnTheLeft ==
  ASSUME NEW j, NEW ls, NEW rs, NEW i \in DOMAIN ls
  PROVE  (i \notin {p[1] : p \in PlacePairs(j, ls, rs)})
           <=> \A k \in DOMAIN rs : LeftKeyOf(j, ls[i]) # RightKeyOf(j, rs[k])
<1>1. \A k \in DOMAIN rs : Agree(j, "NullEqualsNull", ls[i], rs[k]) <=> LeftKeyOf(j, ls[i]) = RightKeyOf(j, rs[k])
  BY AgreeByKeys
<1>2. i \in {p[1] : p \in PlacePairs(j, ls, rs)} <=> \E k \in DOMAIN rs : Agree(j, "NullEqualsNull", ls[i], rs[k])
  <2>1. ASSUME NEW k \in DOMAIN rs, Agree(j, "NullEqualsNull", ls[i], rs[k]) PROVE i \in {p[1] : p \in PlacePairs(j, ls, rs)}
    <3>1. <<i, k>> \in PlacePairs(j, ls, rs) /\ <<i, k>>[1] = i
      BY <2>1 DEF PlacePairs
    <3>2. QED
      BY <3>1
  <2>2. ASSUME NEW p \in PlacePairs(j, ls, rs), p[1] = i PROVE \E k \in DOMAIN rs : Agree(j, "NullEqualsNull", ls[i], rs[k])
    BY <2>2 DEF PlacePairs
  <2>3. QED
    BY <2>1, <2>2
<1>3. QED
  BY <1>1, <1>2

LEMMA AloneOnTheRight ==
  ASSUME NEW j, NEW ls, NEW rs, NEW k \in DOMAIN rs
  PROVE  (k \notin {p[2] : p \in PlacePairs(j, ls, rs)}) <=> RightKeyOf(j, rs[k]) \notin KeysAmong(j, ls)
<1>1. \A i \in DOMAIN ls : Agree(j, "NullEqualsNull", ls[i], rs[k]) <=> LeftKeyOf(j, ls[i]) = RightKeyOf(j, rs[k])
  BY AgreeByKeys
<1>2. k \in {p[2] : p \in PlacePairs(j, ls, rs)} <=> \E i \in DOMAIN ls : Agree(j, "NullEqualsNull", ls[i], rs[k])
  <2>1. ASSUME NEW i \in DOMAIN ls, Agree(j, "NullEqualsNull", ls[i], rs[k]) PROVE k \in {p[2] : p \in PlacePairs(j, ls, rs)}
    <3>1. <<i, k>> \in PlacePairs(j, ls, rs) /\ <<i, k>>[2] = k
      BY <2>1 DEF PlacePairs
    <3>2. QED
      BY <3>1
  <2>2. ASSUME NEW p \in PlacePairs(j, ls, rs), p[2] = k PROVE \E i \in DOMAIN ls : Agree(j, "NullEqualsNull", ls[i], rs[k])
    BY <2>2 DEF PlacePairs
  <2>3. QED
    BY <2>1, <2>2
<1>3. QED
  BY <1>1, <1>2 DEF KeysAmong

LEMMA RowsOfPlaces ==
  ASSUME NEW j \in Joins, j.type = "Right" => DuplicateKeys(j) = {},
         NEW ls \in Seq(LeftRows(j)), NEW rs \in Seq(RightRows(j))
  PROVE  /\ \A i \in DOMAIN ls : \A k \in DOMAIN rs :
              RowOfPlaces(j, ls, rs, <<i, k>>) = CombineRows(j, ls[i], rs[k])
         /\ \A i \in DOMAIN ls : RowOfPlaces(j, ls, rs, <<i, 0>>) = CombineRows(j, ls[i], NullRow(j.rightNames))
         /\ \A k \in DOMAIN rs : RowOfPlaces(j, ls, rs, <<0, k>>) = CombineRows(j, NullRow(j.leftNames), rs[k])
<1> DEFINE nl == NullRow(j.leftNames)
           nr == NullRow(j.rightNames)
<1>1. nl \in LeftRows(j) /\ nr \in RightRows(j)
  BY JoinFacts
<1>2. (\A i \in DOMAIN ls : i # 0 /\ ls[i] \in LeftRows(j)) /\ \A k \in DOMAIN rs : k # 0 /\ rs[k] \in RightRows(j)
  OBVIOUS
<1>3. \A l \in LeftRows(j) : \A r \in RightRows(j) : OutputRow(Columns(j), l, r) = CombineRows(j, l, r)
  BY CombineIsOutput
<1>4. ASSUME NEW a, NEW b
      PROVE  RowOfPlaces(j, ls, rs, <<a, b>>) =
               OutputRow(Columns(j), IF a = 0 THEN nl ELSE ls[a], IF b = 0 THEN nr ELSE rs[b])
  BY DEF RowOfPlaces
<1> HIDE DEF nl, nr
<1>5. ASSUME NEW i \in DOMAIN ls, NEW k \in DOMAIN rs
      PROVE  RowOfPlaces(j, ls, rs, <<i, k>>) = CombineRows(j, ls[i], rs[k])
  <2>1. RowOfPlaces(j, ls, rs, <<i, k>>) = OutputRow(Columns(j), ls[i], rs[k])
    BY <1>2, <1>4
  <2>2. QED
    BY <1>2, <1>3, <2>1
<1>6. ASSUME NEW i \in DOMAIN ls
      PROVE  RowOfPlaces(j, ls, rs, <<i, 0>>) = CombineRows(j, ls[i], nr)
  <2>1. RowOfPlaces(j, ls, rs, <<i, 0>>) = OutputRow(Columns(j), ls[i], nr)
    BY <1>2, <1>4
  <2>2. QED
    BY <1>1, <1>2, <1>3, <2>1
<1>7. ASSUME NEW k \in DOMAIN rs
      PROVE  RowOfPlaces(j, ls, rs, <<0, k>>) = CombineRows(j, nl, rs[k])
  <2>1. RowOfPlaces(j, ls, rs, <<0, k>>) = OutputRow(Columns(j), nl, rs[k])
    BY <1>2, <1>4
  <2>2. QED
    BY <1>1, <1>2, <1>3, <2>1
<1>8. QED
  BY <1>5, <1>6, <1>7 DEF nl, nr

\* The places that make x, as three sets.
LEMMA PlacesOfRow ==
  ASSUME NEW j \in Joins, j.type = "Right" => DuplicateKeys(j) = {},
         NEW ls \in Seq(LeftRows(j)), NEW rs \in Seq(RightRows(j)), NEW x
  PROVE  {p \in AllPlaces(j, ls, rs) : RowOfPlaces(j, ls, rs, p) = x}
           = Pairs(j, ls, rs, x) \cup {<<i, 0>> : i \in LonelyLeft(j, ls, rs, x)}
               \cup {<<0, k>> : k \in IF j.type = "Right" THEN LonelyRight(j, ls, rs, x) ELSE {}}
<1> DEFINE Row(p) == RowOfPlaces(j, ls, rs, p)
<1>1. {p \in PlacePairs(j, ls, rs) : Row(p) = x} = Pairs(j, ls, rs, x)
  <2>1. ASSUME NEW p \in (DOMAIN ls) \X (DOMAIN rs)
        PROVE  (p \in PlacePairs(j, ls, rs) /\ Row(p) = x) <=> p \in Pairs(j, ls, rs, x)
    <3>1. PICK i \in DOMAIN ls, k \in DOMAIN rs : p = <<i, k>>
      OBVIOUS
    <3>2. Row(p) = CombineRows(j, ls[i], rs[k]) /\ p[1] = i /\ p[2] = k
      BY <3>1, RowsOfPlaces
    <3>3. Agree(j, "NullEqualsNull", ls[i], rs[k]) <=> LeftKeyOf(j, ls[i]) = RightKeyOf(j, rs[k])
      BY AgreeByKeys
    <3> HIDE DEF Row
    <3>4. QED
      BY <3>2, <3>3 DEF PlacePairs, Pairs
  <2>2. PlacePairs(j, ls, rs) \subseteq (DOMAIN ls) \X (DOMAIN rs) /\ Pairs(j, ls, rs, x) \subseteq (DOMAIN ls) \X (DOMAIN rs)
    BY DEF PlacePairs, Pairs
  <2> HIDE DEF Row
  <2>3. QED
    BY <2>1, <2>2
<1>2. {p \in AlonePlaces(j, "left", ls, rs) : Row(p) = x} = {<<i, 0>> : i \in LonelyLeft(j, ls, rs, x)}
  <2>1. ASSUME NEW i \in DOMAIN ls
        PROVE  (j.type = "Left" /\ i \notin {p[1] : p \in PlacePairs(j, ls, rs)} /\ Row(<<i, 0>>) = x)
                 <=> i \in LonelyLeft(j, ls, rs, x)
    <3>1. Row(<<i, 0>>) = CombineRows(j, ls[i], NullRow(j.rightNames))
      BY RowsOfPlaces
    <3>2. (i \notin {p[1] : p \in PlacePairs(j, ls, rs)})
             <=> \A k \in DOMAIN rs : LeftKeyOf(j, ls[i]) # RightKeyOf(j, rs[k])
      BY AloneOnTheLeft
    <3> HIDE DEF Row
    <3>3. QED
      BY <3>1, <3>2 DEF LonelyLeft
  <2>2. LonelyLeft(j, ls, rs, x) \subseteq DOMAIN ls
    BY DEF LonelyLeft
  <2> DEFINE M == {p[1] : p \in PlacePairs(j, ls, rs)}
  <2>3. AlonePlaces(j, "left", ls, rs) = {<<i, 0>> : i \in IF j.type = "Left" THEN (DOMAIN ls) \ M ELSE {}}
    BY DEF AlonePlaces
  <2> HIDE DEF Row, M
  <2>4. \A p : p \in AlonePlaces(j, "left", ls, rs) <=> \E i \in DOMAIN ls : j.type = "Left" /\ i \notin M /\ p = <<i, 0>>
    BY <2>3
  <2>5. \A i \in DOMAIN ls : (j.type = "Left" /\ i \notin M /\ Row(<<i, 0>>) = x) <=> i \in LonelyLeft(j, ls, rs, x)
    BY <2>1 DEF M
  <2>6. QED
    BY <2>2, <2>4, <2>5
<1>3. {p \in AlonePlaces(j, "right", ls, rs) : Row(p) = x}
        = {<<0, k>> : k \in IF j.type = "Right" THEN LonelyRight(j, ls, rs, x) ELSE {}}
  <2>1. ASSUME NEW k \in DOMAIN rs
        PROVE  (k \notin {p[2] : p \in PlacePairs(j, ls, rs)} /\ Row(<<0, k>>) = x) <=> k \in LonelyRight(j, ls, rs, x)
    <3>1. Row(<<0, k>>) = CombineRows(j, NullRow(j.leftNames), rs[k])
      BY RowsOfPlaces
    <3>2. (k \notin {p[2] : p \in PlacePairs(j, ls, rs)}) <=> RightKeyOf(j, rs[k]) \notin KeysAmong(j, ls)
      BY AloneOnTheRight
    <3> HIDE DEF Row
    <3>3. QED
      BY <3>1, <3>2 DEF LonelyRight
  <2>2. LonelyRight(j, ls, rs, x) \subseteq DOMAIN rs
    BY DEF LonelyRight
  <2> DEFINE M == {p[2] : p \in PlacePairs(j, ls, rs)}
  <2>3. AlonePlaces(j, "right", ls, rs) = {<<0, k>> : k \in IF j.type = "Right" THEN (DOMAIN rs) \ M ELSE {}}
    BY DEF AlonePlaces
  <2> HIDE DEF Row, M
  <2>4. \A p : p \in AlonePlaces(j, "right", ls, rs) <=> \E k \in DOMAIN rs : j.type = "Right" /\ k \notin M /\ p = <<0, k>>
    BY <2>3
  <2>5. \A k \in DOMAIN rs : (k \notin M /\ Row(<<0, k>>) = x) <=> k \in LonelyRight(j, ls, rs, x)
    BY <2>1 DEF M
  <2>6. QED
    BY <2>2, <2>4, <2>5
<1> HIDE DEF Row
<1>4. QED
  BY <1>1, <1>2, <1>3 DEF AllPlaces, Row

PlacesMaking(j, ls, rs, x) ==
  Pairs(j, ls, rs, x) \cup {<<i, 0>> : i \in LonelyLeft(j, ls, rs, x)}
    \cup {<<0, k>> : k \in IF j.type = "Right" THEN LonelyRight(j, ls, rs, x) ELSE {}}

LEMMA CountOfPlaces ==
  ASSUME NEW j, NEW E, NEW ls \in Seq(E), NEW F, NEW rs \in Seq(F), NEW x
  PROVE  /\ IsFiniteSet(PlacesMaking(j, ls, rs, x))
         /\ Cardinality(PlacesMaking(j, ls, rs, x)) =
              Cardinality(Pairs(j, ls, rs, x)) + Cardinality(LonelyLeft(j, ls, rs, x))
                + (IF j.type = "Right" THEN Cardinality(LonelyRight(j, ls, rs, x)) ELSE 0)
<1> DEFINE A == Pairs(j, ls, rs, x)
           S == LonelyLeft(j, ls, rs, x)
           T == IF j.type = "Right" THEN LonelyRight(j, ls, rs, x) ELSE {}
           f == [i \in S |-> <<i, 0>>]
           g == [k \in T |-> <<0, k>>]
           B == {<<i, 0>> : i \in S}
           C == {<<0, k>> : k \in T}
<1>1. IsFiniteSet(A) /\ IsFiniteSet(S) /\ IsFiniteSet(T)
      /\ Cardinality(T) = IF j.type = "Right" THEN Cardinality(LonelyRight(j, ls, rs, x)) ELSE 0
  BY CountsAreNumbers, FS_EmptySet
<1>2. A \subseteq (DOMAIN ls) \X (DOMAIN rs) /\ S \subseteq DOMAIN ls /\ T \subseteq DOMAIN rs
  BY DEF Pairs, LonelyLeft, LonelyRight
<1>3. 0 \notin DOMAIN ls /\ 0 \notin DOMAIN rs
  OBVIOUS
<1> HIDE DEF A, S, T
<1>4. IsFiniteSet(B) /\ Cardinality(B) = Cardinality(S)
  <2>1. DOMAIN f = S /\ f = [i \in S |-> f[i]] /\ \A a, b \in S : f[a] = f[b] => a = b
    OBVIOUS
  <2>2. {f[i] : i \in S} = B
    OBVIOUS
  <2> HIDE DEF f
  <2>3. QED
    BY <1>1, <2>1, <2>2, ImageCount
<1>5. IsFiniteSet(C) /\ Cardinality(C) = Cardinality(T)
  <2>1. DOMAIN g = T /\ g = [i \in T |-> g[i]] /\ \A a, b \in T : g[a] = g[b] => a = b
    OBVIOUS
  <2>2. {g[i] : i \in T} = C
    OBVIOUS
  <2> HIDE DEF g
  <2>3. QED
    BY <1>1, <2>1, <2>2, ImageCount
<1>6. A \cap B = {} /\ A \cap C = {} /\ B \cap C = {}
  <2>1. \A p \in A : p[1] # 0 /\ p[2] # 0
    BY <1>2, <1>3
  <2>2. \A p \in B : p[1] # 0 /\ p[2] = 0
    BY <1>2, <1>3
  <2>3. \A p \in C : p[1] = 0 /\ p[2] # 0
    BY <1>2, <1>3
  <2>4. QED
    BY <2>1, <2>2, <2>3
<1>7. Cardinality(A \cup B \cup C) = Cardinality(A) + Cardinality(B) + Cardinality(C)
  BY <1>1, <1>4, <1>5, <1>6, CountOfThree
<1>8. IsFiniteSet(A \cup B \cup C)
  BY <1>1, <1>4, <1>5, FS_Union
<1>9. PlacesMaking(j, ls, rs, x) = A \cup B \cup C
  BY DEF PlacesMaking, A, S, T
<1>10. QED
  BY <1>1, <1>4, <1>5, <1>7, <1>8, <1>9 DEF A, S, T

\* The relation holds each row as often as the places that make it.
LEMMA RelationIsAnswered ==
  ASSUME NEW j \in Joins, j.type = "Right" => DuplicateKeys(j) = {},
         NEW ls \in Seq(LeftRows(j)), NEW rs \in Seq(RightRows(j))
  PROVE  Relation(j, "NullEqualsNull", ls, rs) = BagWith(Answered(j, ls, ls, rs))
<1> DEFINE D == AllPlaces(j, ls, rs)
           O == OutRows(j)
           row == [p \in D |-> RowOfPlaces(j, ls, rs, p)]
           count == Answered(j, ls, ls, rs)
<1>1. Relation(j, "NullEqualsNull", ls, rs) = [r \in Range(row) |-> Cardinality({p \in DOMAIN row : row[p] = r})]
  BY RelationByPlaces
<1>2. count \in [O -> Nat]
  BY ProbedIsCount
<1>3. row \in [D -> O]
  <2>1. NullRow(j.leftNames) \in LeftRows(j) /\ NullRow(j.rightNames) \in RightRows(j)
    BY JoinFacts
  <2>2. (\A i \in DOMAIN ls : ls[i] \in LeftRows(j)) /\ \A k \in DOMAIN rs : rs[k] \in RightRows(j)
    OBVIOUS
  <2>3. ASSUME NEW p \in D PROVE RowOfPlaces(j, ls, rs, p) \in O
    <3>1. CASE p \in PlacePairs(j, ls, rs)
      <4>1. PICK i \in DOMAIN ls, k \in DOMAIN rs : p = <<i, k>>
        BY <3>1 DEF PlacePairs
      <4>2. RowOfPlaces(j, ls, rs, <<i, k>>) = CombineRows(j, ls[i], rs[k])
        BY RowsOfPlaces
      <4>3. CombineRows(j, ls[i], rs[k]) \in OutRows(j)
        BY <2>2, InOutRows
      <4>4. QED
        BY <4>1, <4>2, <4>3
    <3>2. CASE p \in AlonePlaces(j, "left", ls, rs)
      <4>1. PICK i \in DOMAIN ls : p = <<i, 0>>
        BY <3>2 DEF AlonePlaces
      <4>2. RowOfPlaces(j, ls, rs, <<i, 0>>) = CombineRows(j, ls[i], NullRow(j.rightNames))
        BY RowsOfPlaces
      <4>3. CombineRows(j, ls[i], NullRow(j.rightNames)) \in OutRows(j)
        BY <2>1, <2>2, InOutRows
      <4>4. QED
        BY <4>1, <4>2, <4>3
    <3>3. CASE p \in AlonePlaces(j, "right", ls, rs)
      <4>1. PICK k \in DOMAIN rs : p = <<0, k>>
        BY <3>3 DEF AlonePlaces
      <4>2. RowOfPlaces(j, ls, rs, <<0, k>>) = CombineRows(j, NullRow(j.leftNames), rs[k])
        BY RowsOfPlaces
      <4>3. CombineRows(j, NullRow(j.leftNames), rs[k]) \in OutRows(j)
        BY <2>1, <2>2, InOutRows
      <4>4. QED
        BY <4>1, <4>2, <4>3
    <3>4. QED
      BY <3>1, <3>2, <3>3 DEF AllPlaces
  <2>4. QED
    BY <2>3
<1>4. ASSUME NEW x \in O
      PROVE  /\ Cardinality({p \in D : row[p] = x}) = count[x]
             /\ count[x] > 0 <=> \E p \in D : row[p] = x
  <2> DEFINE P == {p \in D : row[p] = x}
  <2>1. P = {p \in D : RowOfPlaces(j, ls, rs, p) = x}
    OBVIOUS
  <2>2. P = PlacesMaking(j, ls, rs, x)
    BY <2>1, PlacesOfRow DEF PlacesMaking
  <2>3. Cardinality(PlacesMaking(j, ls, rs, x)) = Cardinality(Pairs(j, ls, rs, x)) + Cardinality(LonelyLeft(j, ls, rs, x))
                                  + (IF j.type = "Right" THEN Cardinality(LonelyRight(j, ls, rs, x)) ELSE 0)
    BY CountOfPlaces
  <2>4. count[x] = (Cardinality(Pairs(j, ls, rs, x)) + Cardinality(LonelyLeft(j, ls, rs, x)))
                     + (IF j.type = "Right" THEN Cardinality(LonelyRight(j, ls, rs, x)) ELSE 0)
    BY DEF Answered, Probed
  <2>5. Cardinality(P) = count[x]
    BY <2>2, <2>3, <2>4
  <2>6. IsFiniteSet(P)
    BY <2>2, CountOfPlaces
  <2> HIDE DEF row, count, D, O, P
  <2>7. count[x] > 0 <=> P # {}
    <3>1. count[x] \in Nat
      BY <1>2
    <3>2. Cardinality(P) = 0 <=> P = {}
      BY <2>6, FS_EmptySet
    <3>3. QED
      BY <2>5, <3>1, <3>2
  <2>8. P # {} <=> \E p \in D : row[p] = x
    BY DEF P
  <2>9. QED
    BY <2>5, <2>7, <2>8 DEF P
<1> HIDE DEF row, count, D, O
<1>5. CountsImages(D, row, O, count)
  BY <1>4 DEF CountsImages
<1>6. [r \in Range(row) |-> Cardinality({p \in DOMAIN row : row[p] = r})] = BagWith(count)
  BY <1>2, <1>3, <1>5, BagOfImages
<1>7. QED
  BY <1>1, <1>6 DEF count
-----------------------------------------------------------------------------
(***************************************************************************)
(* The table.                                                              *)
(***************************************************************************)
AllKeys(j)    == {RightKeyOf(j, r) : r \in RightRows(j)}
HashTables(j) == UNION {[K -> Seq(RightRows(j))] : K \in SUBSET AllKeys(j)}

LEMMA InsertedTable ==
  ASSUME NEW t \in HashTables(join), NEW r \in RightRows(join)
  PROVE  /\ Insert(t, r) \in HashTables(join)
         /\ DOMAIN Insert(t, r) = DOMAIN t \cup {RightKeyOf(join, r)}
         /\ \A key \in DOMAIN Insert(t, r) :
              Insert(t, r)[key] = IF key # RightKeyOf(join, r) THEN t[key]
                                  ELSE IF key \in DOMAIN t THEN Append(t[key], r) ELSE Append(<<>>, r)
<1> DEFINE key0 == RightKeyOf(join, r)
           S == Seq(RightRows(join))
           u == Insert(t, r)
<1>1. PICK K \in SUBSET AllKeys(join) : t \in [K -> S]
  BY DEF HashTables
<1>2. key0 \in AllKeys(join) /\ <<r>> = Append(<<>>, r) /\ <<>> \in S
  BY DEF AllKeys
<1>3. u = [k \in DOMAIN t \cup {key0} |->
             IF k # key0 THEN t[k] ELSE IF key0 \in DOMAIN t THEN Append(t[key0], r) ELSE <<r>>]
  BY DEF Insert, RightKeyOf
<1>4. DOMAIN t = K /\ \A k \in K : t[k] \in S
  BY <1>1
<1>5. \A s \in S : Append(s, r) \in S
  OBVIOUS
<1> HIDE DEF key0, S, u
<1>6. DOMAIN u = K \cup {key0}
  BY <1>3, <1>4
<1>7. \A k \in K \cup {key0} :
        u[k] = IF k # key0 THEN t[k] ELSE IF k \in DOMAIN t THEN Append(t[k], r) ELSE Append(<<>>, r)
  BY <1>2, <1>3, <1>4
<1>8. \A k \in K \cup {key0} : u[k] \in S
  BY <1>2, <1>4, <1>5, <1>7
<1>9. u = [k \in K \cup {key0} |-> u[k]]
  BY <1>3, <1>4, <1>6
<1>10. u \in [K \cup {key0} -> S] /\ K \cup {key0} \in SUBSET AllKeys(join)
  BY <1>2, <1>8, <1>9
<1>11. u \in HashTables(join)
  BY <1>10 DEF HashTables, S
<1>12. QED
  BY <1>4, <1>6, <1>7, <1>11 DEF key0, u

LEMMA GroupsTables ==
  ASSUME NEW j, NEW rows \in Seq(RightRows(j)), NEW t, Groups(j, t, rows)
  PROVE  t \in HashTables(j)
<1>1. DOMAIN t \in SUBSET AllKeys(j)
  <2>1. \A i \in DOMAIN rows : rows[i] \in RightRows(j)
    OBVIOUS
  <2>2. QED
    BY <2>1 DEF Groups, AllKeys
<1>2. QED
  BY <1>1 DEF Groups, HashTables

\* A row that is inserted stands with those of its key.
LEMMA InsertGroups ==
  ASSUME NEW rows \in Seq(RightRows(join)), NEW t, NEW r \in RightRows(join), Groups(join, t, rows)
  PROVE  Groups(join, Insert(t, r), Append(rows, r))
<1> DEFINE key0 == RightKeyOf(join, r)
           more == Append(rows, r)
           u == Insert(t, r)
<1>1. t \in HashTables(join)
  BY GroupsTables
<1>2. u \in HashTables(join) /\ DOMAIN u = DOMAIN t \cup {key0}
      /\ \A key \in DOMAIN u :
           u[key] = IF key # key0 THEN t[key] ELSE IF key \in DOMAIN t THEN Append(t[key], r) ELSE Append(<<>>, r)
  BY <1>1, InsertedTable
<1>3. DOMAIN u = {RightKeyOf(join, more[i]) : i \in DOMAIN more}
  <2>1. DOMAIN more = DOMAIN rows \cup {Len(rows) + 1} /\ more[Len(rows) + 1] = r
        /\ \A i \in DOMAIN rows : more[i] = rows[i]
    OBVIOUS
  <2>2. DOMAIN t = {RightKeyOf(join, rows[i]) : i \in DOMAIN rows}
    BY DEF Groups
  <2> HIDE DEF more, u
  <2>3. \A key : key \in DOMAIN u <=> \E i \in DOMAIN more : key = RightKeyOf(join, more[i])
    BY <1>2, <2>1, <2>2
  <2>4. QED
    BY <2>3
<1>4. u \in [DOMAIN u -> Seq(RightRows(join))]
  BY <1>2 DEF HashTables
<1>5. ASSUME NEW key \in DOMAIN u, NEW X \in SUBSET RightRows(join)
      PROVE  HowMany(u[key], X) = HowMany(more, X \cap WithKeys(join, {key}))
  <2> DEFINE Y == X \cap WithKeys(join, {key})
             R == RightRows(join)
  <2> HIDE DEF Y, R
  <2>0. rows \in Seq(R) /\ r \in R
    BY DEF R
  <2>1. HowMany(more, Y) = HowMany(rows, Y) + (IF r \in Y THEN 1 ELSE 0)
    BY <2>0, HowManyOfMore
  <2>2. r \in WithKeys(join, {key}) <=> key = key0
    BY DEF WithKeys
  <2>3. HowMany(rows, Y) \in Nat /\ (HowMany(rows, Y) > 0 <=> \E i \in DOMAIN rows : rows[i] \in Y)
    BY <2>0, HowManyIsFinite
  <2>4. ASSUME key # key0 PROVE HowMany(u[key], X) = HowMany(more, Y)
    <3>1. key \in DOMAIN t /\ u[key] = t[key] /\ r \notin Y
      BY <1>2, <2>2, <2>4 DEF Y
    <3>2. HowMany(t[key], X) = HowMany(rows, Y)
      BY <3>1 DEF Groups, Y
    <3>3. QED
      BY <2>1, <2>3, <3>1, <3>2
  <2>5. ASSUME key = key0, key \in DOMAIN t PROVE HowMany(u[key], X) = HowMany(more, Y)
    <3>1. t[key] \in Seq(RightRows(join)) /\ u[key] = Append(t[key], r)
      BY <1>2, <2>5 DEF Groups
    <3>2. HowMany(Append(t[key], r), X) = HowMany(t[key], X) + (IF r \in X THEN 1 ELSE 0)
      BY <3>1, HowManyOfMore
    <3>3. HowMany(t[key], X) = HowMany(rows, Y)
      BY <2>5 DEF Groups, Y
    <3>4. r \in Y <=> r \in X
      BY <2>2, <2>5 DEF Y
    <3>5. QED
      BY <2>1, <3>1, <3>2, <3>3, <3>4
  <2>6. ASSUME key = key0, key \notin DOMAIN t PROVE HowMany(u[key], X) = HowMany(more, Y)
    <3>1. u[key] = Append(<<>>, r) /\ <<>> \in Seq(RightRows(join))
      BY <1>2, <2>6
    <3>2. HowMany(Append(<<>>, r), X) = HowMany(<<>>, X) + (IF r \in X THEN 1 ELSE 0)
      BY <3>1, HowManyOfMore
    <3>3. HowMany(<<>>, X) = 0
      BY HowManyOfNone
    <3>4. ~ \E i \in DOMAIN rows : rows[i] \in Y
      BY <2>6 DEF Groups, WithKeys, Y
    <3>5. HowMany(rows, Y) = 0
      BY <2>3, <3>4
    <3>6. r \in Y <=> r \in X
      BY <2>2, <2>6 DEF Y
    <3>7. QED
      BY <2>1, <3>1, <3>2, <3>3, <3>5, <3>6
  <2>7. HowMany(u[key], X) = HowMany(more, Y)
    BY <2>4, <2>5, <2>6
  <2>8. QED
    BY <2>7 DEF Y
<1> HIDE DEF u, more
<1>6. Groups(join, u, more)
  BY <1>3, <1>4, <1>5 DEF Groups
<1>7. QED
  BY <1>6 DEF u, more

\* What a batch makes of the table, one row after another.
Inserts(acc, n, t, batch) == acc[0] = t /\ \A k \in 1..n : acc[k] = Insert(acc[k - 1], batch[k])

LEMMA InsertPasses ==
  ASSUME NEW t \in HashTables(join), NEW batch \in Seq(RightRows(join)), NEW n, n = Len(batch)
  PROVE  \E acc \in [0..n -> HashTables(join)] : Inserts(acc, n, t, batch) /\ FoldLeft(Insert, t, batch) = acc[n]
<1> DEFINE V == HashTables(join)
           Step(k, x) == Insert(x, batch[k])
           step == [p \in (1..n) \X V |-> Step(p[1], p[2])]
           eq(g) == [s \in SUBSET (1..n) |-> IF s = {} THEN t ELSE LET x == Max(s) IN Step(x, g[s \ {x}])]
           fold == CHOOSE g : g = eq(g)
<1>1. n \in Nat /\ DOMAIN batch = 1..n /\ \A k \in 1..n : batch[k] \in RightRows(join)
  OBVIOUS
<1>2. t \in V
  OBVIOUS
<1>3. \A k \in 1..n : \A x \in V : Step(k, x) \in V
  BY <1>1, InsertedTable
<1>4. FoldLeft(Insert, t, batch) = fold[1..n]
  BY <1>1 DEF FoldLeft, MapThenFoldSet
<1> HIDE DEF Step, V
<1>5. step \in [(1..n) \X V -> V]
  BY <1>3
<1>6. \A k \in 1..n : \A x \in V : step[<<k, x>>] = Step(k, x)
  OBVIOUS
<1> HIDE DEF step
<1>7. PICK g0 \in [SUBSET (1..n) -> V] : FoldsTo(g0, n, t, step)
  BY <1>1, <1>2, <1>5, FoldExists
<1>8. g0 = eq(g0)
  <2>1. ASSUME NEW s \in SUBSET (1..n)
        PROVE  g0[s] = IF s = {} THEN t ELSE LET x == Max(s) IN Step(x, g0[s \ {x}])
    <3>1. CASE s = {}
      BY <1>7, <3>1 DEF FoldsTo
    <3>2. CASE s # {}
      <4>1. Max(s) \in s
        BY <1>1, <3>2, MaxOfPlaces
      <4>2. Max(s) \in 1..n /\ s \ {Max(s)} \in SUBSET (1..n)
        BY <4>1
      <4>3. g0[s] = step[<<Max(s), g0[s \ {Max(s)}]>>] /\ g0[s \ {Max(s)}] \in V
        BY <1>7, <3>2, <4>2 DEF FoldsTo
      <4>4. QED
        BY <1>6, <3>2, <4>2, <4>3
    <3>3. QED
      BY <3>1, <3>2
  <2>2. QED
    BY <2>1
<1>9. fold = eq(fold)
  BY <1>8
<1> HIDE DEF fold
<1>10. fold[{}] = t
  BY <1>9
<1>11. ASSUME NEW s \in (SUBSET (1..n)) \ {{}}, fold[s \ {Max(s)}] \in V
       PROVE  fold[s] = step[<<Max(s), fold[s \ {Max(s)}]>>]
  <2>1. Max(s) \in 1..n
    BY <1>1, MaxOfPlaces
  <2>2. fold[s] = Step(Max(s), fold[s \ {Max(s)}])
    BY <1>9
  <2>3. QED
    BY <1>6, <1>11, <2>1, <2>2
<1>12. FoldsAmong(fold, V, n, t, step)
  BY <1>10, <1>11 DEF FoldsAmong
<1>13. PassesTo(fold[1..n], V, n, t, step)
  BY <1>1, <1>2, <1>5, <1>12, FoldPasses
<1>14. PICK acc \in [0..n -> V] : Passes(acc, n, t, step) /\ acc[n] = fold[1..n]
  BY <1>13 DEF PassesTo
<1>15. ASSUME NEW k \in 1..n PROVE acc[k] = Insert(acc[k - 1], batch[k])
  <2>1. k - 1 \in 0..n
    BY <1>1
  <2>2. acc[k] = step[<<k, acc[k - 1]>>] /\ acc[k - 1] \in V
    BY <1>14, <2>1 DEF Passes
  <2>3. QED
    BY <1>6, <2>2 DEF Step
<1>16. Inserts(acc, n, t, batch)
  BY <1>14, <1>15 DEF Passes, Inserts
<1>17. QED
  BY <1>4, <1>14, <1>16 DEF V

\* A batch that is built into the table stands with the batches before it.
LEMMA BatchGroups ==
  ASSUME NEW rows \in Seq(RightRows(join)), NEW t, Groups(join, t, rows), NEW batch \in Seq(RightRows(join))
  PROVE  Groups(join, FoldLeft(Insert, t, batch), rows \o batch)
<1> DEFINE n == Len(batch)
           R == RightRows(join)
           upTo(k) == rows \o SubSeq(batch, 1, k)
<1>1. t \in HashTables(join)
  BY GroupsTables
<1>2. n \in Nat /\ n = Len(batch)
  OBVIOUS
<1>3. rows \in Seq(R) /\ batch \in Seq(R)
  OBVIOUS
<1> HIDE DEF n
<1>4. PICK acc \in [0..n -> HashTables(join)] : Inserts(acc, n, t, batch) /\ FoldLeft(Insert, t, batch) = acc[n]
  BY <1>1, <1>2, InsertPasses
<1> DEFINE S == {k \in 0..n : Groups(join, acc[k], upTo(k))}
<1>5. 0 \in S
  <2>1. upTo(0) = rows
    <3> HIDE DEF R
    <3>1. SubSeq(batch, 1, 0) = <<>>
      BY <1>3
    <3>2. QED
      BY <1>3, <3>1, ConcatEmptySeq
  <2>2. acc[0] = t
    BY <1>4 DEF Inserts
  <2>3. QED
    BY <1>2, <2>1, <2>2
<1>6. ASSUME NEW k \in 1..n, k - 1 \in S PROVE k \in S
  <2>1. upTo(k - 1) \in Seq(R) /\ batch[k] \in R /\ upTo(k) = Append(upTo(k - 1), batch[k])
    <3> DEFINE a == SubSeq(batch, 1, k - 1)
    <3> HIDE DEF R
    <3>1. SubSeq(batch, 1, k) = Append(a, batch[k]) /\ a \in Seq(R) /\ batch[k] \in R
      BY <1>2, <1>3
    <3> HIDE DEF a
    <3>2. rows \o Append(a, batch[k]) = Append(rows \o a, batch[k]) /\ rows \o a \in Seq(R)
      BY <1>3, <3>1
    <3>3. QED
      BY <3>1, <3>2 DEF a
  <2>2. Groups(join, acc[k - 1], upTo(k - 1)) /\ acc[k] = Insert(acc[k - 1], batch[k])
    BY <1>4, <1>6 DEF Inserts
  <2> HIDE DEF upTo
  <2>3. Groups(join, Insert(acc[k - 1], batch[k]), Append(upTo(k - 1), batch[k]))
    BY <2>1, <2>2, InsertGroups
  <2>4. k \in 0..n
    BY <1>2
  <2>5. QED
    BY <2>1, <2>2, <2>3, <2>4
<1> HIDE DEF S
<1>7. 0..n \subseteq S
  BY <1>2, <1>5, <1>6, BoundedInduction
<1>8. n \in S
  BY <1>2, <1>7
<1>9. upTo(n) = rows \o batch
  <2> HIDE DEF R
  <2>1. SubSeq(batch, 1, n) = batch
    BY <1>2, <1>3
  <2>2. QED
    BY <2>1
<1>10. QED
  BY <1>4, <1>8, <1>9 DEF S
-----------------------------------------------------------------------------
(***************************************************************************)
(* What a left row finds.                                                  *)
(***************************************************************************)
\* What a left row adds to how often the answer holds x.
FoundRows(j, l, rs, x) == HowMany(rs, Becoming(j, l, x) \cap WithKeys(j, {LeftKeyOf(j, l)}))

KeptAlone(j, l, rs, x) ==
  IF j.type = "Left" /\ CombineRows(j, l, NullRow(j.rightNames)) = x
       /\ \A k \in DOMAIN rs : LeftKeyOf(j, l) # RightKeyOf(j, rs[k])
  THEN 1 ELSE 0

LEMMA CombinedRows ==
  ASSUME NEW j, NEW l \in LeftRows(j), NEW rows \in Seq(RightRows(j)), NEW out,
         out = [i \in DOMAIN rows |-> CombineRows(j, l, rows[i])]
  PROVE  /\ out \in Seq(OutRows(j)) /\ DOMAIN out = DOMAIN rows
         /\ \A x : HowMany(out, {x}) = HowMany(rows, Becoming(j, l, x))
<1> DEFINE n == Len(rows)
<1>1. n \in Nat /\ DOMAIN rows = 1..n /\ \A i \in 1..n : rows[i] \in RightRows(j)
  OBVIOUS
<1> HIDE DEF n
<1>2. \A i \in 1..n : out[i] = CombineRows(j, l, rows[i]) /\ out[i] \in OutRows(j)
  BY <1>1, InOutRows
<1>3. DOMAIN out = 1..n /\ out = [i \in 1..n |-> out[i]]
  BY <1>1
<1>4. out \in Seq(OutRows(j))
  BY <1>1, <1>2, <1>3, ListOf
<1>5. ASSUME NEW x PROVE HowMany(out, {x}) = HowMany(rows, Becoming(j, l, x))
  <2>1. \A i \in DOMAIN rows : out[i] \in {x} <=> rows[i] \in Becoming(j, l, x)
    BY <1>1, <1>2 DEF Becoming
  <2>2. DOMAIN out = DOMAIN rows
    BY <1>1, <1>3
  <2>3. QED
    BY <2>1, <2>2, HowManySame
<1>6. QED
  BY <1>1, <1>3, <1>4, <1>5

LEMMA MatchesCount ==
  ASSUME join \in Joins, NEW rs \in Seq(RightRows(join)), Groups(join, table, rs), NEW l \in LeftRows(join)
  PROVE  /\ Matches(l) \in Seq(OutRows(join))
         /\ \A x : HowMany(Matches(l), {x}) = FoundRows(join, l, rs, x) + KeptAlone(join, l, rs, x)
<1> DEFINE key == LeftKeyOf(join, l)
           nr == NullRow(join.rightNames)
<1>1. Found(l) <=> key \in DOMAIN table
  BY DEF Found, LeftKeyOf
<1>2. key \in DOMAIN table <=> \E k \in DOMAIN rs : key = RightKeyOf(join, rs[k])
  BY DEF Groups
<1>3. nr \in RightRows(join)
  BY JoinFacts
<1>4. ASSUME NEW x PROVE FoundRows(join, l, rs, x) \in Nat
  BY HowManyIsFinite DEF FoundRows
<1>5. CASE Found(l)
  <2> DEFINE rows == table[key]
             out == [i \in DOMAIN rows |-> CombineRows(join, l, rows[i])]
  <2>1. Matches(l) = out
    BY <1>5 DEF Matches, LeftKeyOf
  <2>2. rows \in Seq(RightRows(join))
    BY <1>1, <1>5 DEF Groups
  <2>3. out \in Seq(OutRows(join)) /\ \A x : HowMany(out, {x}) = HowMany(rows, Becoming(join, l, x))
    <3> HIDE DEF rows
    <3>1. QED
      BY <2>2, CombinedRows
  <2>4. ASSUME NEW x PROVE HowMany(rows, Becoming(join, l, x)) = FoundRows(join, l, rs, x)
    <3>1. Becoming(join, l, x) \in SUBSET RightRows(join)
      BY DEF Becoming
    <3>2. QED
      BY <1>1, <1>5, <3>1 DEF Groups, FoundRows
  <2>5. ASSUME NEW x PROVE KeptAlone(join, l, rs, x) = 0
    BY <1>1, <1>2, <1>5 DEF KeptAlone
  <2> HIDE DEF out, rows
  <2>6. ASSUME NEW x PROVE HowMany(out, {x}) = FoundRows(join, l, rs, x) + KeptAlone(join, l, rs, x)
    BY <1>4, <2>3, <2>4, <2>5
  <2>7. QED
    BY <2>1, <2>3, <2>6
<1>6. CASE ~Found(l)
  <2>1. ASSUME NEW x PROVE FoundRows(join, l, rs, x) = 0
    <3> DEFINE X == Becoming(join, l, x) \cap WithKeys(join, {key})
               R == RightRows(join)
    <3>1. ~ \E k \in DOMAIN rs : rs[k] \in X
      BY <1>1, <1>2, <1>6 DEF WithKeys
    <3>2. rs \in Seq(R)
      OBVIOUS
    <3> HIDE DEF X, R
    <3>3. HowMany(rs, X) \in Nat /\ ~(HowMany(rs, X) > 0)
      BY <3>1, <3>2, HowManyIsFinite
    <3>4. QED
      BY <3>3 DEF FoundRows, X
  <2>2. CASE join.type = "Left"
    <3> DEFINE out == CombineRows(join, l, nr)
    <3>1. Matches(l) = <<out>> /\ out \in OutRows(join)
      BY <1>3, <1>6, <2>2, InOutRows DEF Matches
    <3>2. ASSUME NEW x PROVE HowMany(<<out>>, {x}) = KeptAlone(join, l, rs, x)
      <4>1. KeptAlone(join, l, rs, x) = IF out = x THEN 1 ELSE 0
        BY <1>1, <1>2, <1>6, <2>2 DEF KeptAlone
      <4>2. <<>> \in Seq(OutRows(join)) /\ <<out>> = Append(<<>>, out)
        OBVIOUS
      <4> HIDE DEF out
      <4>3. HowMany(Append(<<>>, out), {x}) = HowMany(<<>>, {x}) + (IF out \in {x} THEN 1 ELSE 0)
        BY <3>1, <4>2, HowManyOfMore
      <4>4. HowMany(<<>>, {x}) = 0
        BY HowManyOfNone
      <4>5. QED
        BY <4>1, <4>2, <4>3, <4>4
    <3> HIDE DEF out
    <3>3. ASSUME NEW x PROVE HowMany(<<out>>, {x}) = FoundRows(join, l, rs, x) + KeptAlone(join, l, rs, x)
      <4>1. KeptAlone(join, l, rs, x) \in Nat
        BY DEF KeptAlone
      <4>2. QED
        BY <2>1, <3>2, <4>1
    <3>4. <<out>> \in Seq(OutRows(join))
      BY <3>1
    <3>5. QED
      BY <3>1, <3>3, <3>4
  <2>3. CASE join.type # "Left"
    <3>1. Matches(l) = <<>> /\ <<>> \in Seq(OutRows(join))
      BY <1>6, <2>3 DEF Matches
    <3>2. ASSUME NEW x PROVE KeptAlone(join, l, rs, x) = 0 /\ HowMany(<<>>, {x}) = 0
      BY <2>3, HowManyOfNone DEF KeptAlone
    <3>3. QED
      BY <2>1, <3>1, <3>2
  <2>4. QED
    BY <2>2, <2>3
<1>7. QED
  BY <1>5, <1>6

\* What one more left row adds to the pairs and to the rows without a match.
LEMMA PairsOfMore ==
  ASSUME NEW j, NEW ls \in Seq(LeftRows(j)), NEW l \in LeftRows(j), NEW rs \in Seq(RightRows(j)), NEW x
  PROVE  Cardinality(Pairs(j, Append(ls, l), rs, x)) = Cardinality(Pairs(j, ls, rs, x)) + FoundRows(j, l, rs, x)
<1> DEFINE more == Append(ls, l)
           n == Len(ls) + 1
           S == {k \in DOMAIN rs : rs[k] \in Becoming(j, l, x) \cap WithKeys(j, {LeftKeyOf(j, l)})}
           f == [k \in S |-> <<n, k>>]
           A == Pairs(j, ls, rs, x)
           B == {f[k] : k \in S}
           C == Pairs(j, more, rs, x)
<1>1. DOMAIN more = DOMAIN ls \cup {n} /\ n \notin DOMAIN ls /\ more[n] = l /\ \A i \in DOMAIN ls : more[i] = ls[i]
  OBVIOUS
<1>2. \A k \in DOMAIN rs : k \in S <=> LeftKeyOf(j, l) = RightKeyOf(j, rs[k]) /\ CombineRows(j, l, rs[k]) = x
  <2>1. \A k \in DOMAIN rs : rs[k] \in RightRows(j)
    OBVIOUS
  <2>2. QED
    BY <2>1 DEF Becoming, WithKeys
<1>3. S \in SUBSET DOMAIN rs /\ IsFiniteSet(S) /\ Cardinality(S) = FoundRows(j, l, rs, x)
  BY PlacesAreFinite DEF FoundRows, HowMany
<1>4. IsFiniteSet(A)
  BY CountsAreNumbers
<1>5. IsFiniteSet(B) /\ Cardinality(B) = Cardinality(S)
  <2>1. DOMAIN f = S /\ f = [k \in S |-> f[k]] /\ \A a, b \in S : f[a] = f[b] => a = b
    OBVIOUS
  <2> HIDE DEF S, f
  <2>2. QED
    BY <1>3, <2>1, ImageCount
<1>6. \A p : p \in B <=> \E k \in S : p = <<n, k>>
  OBVIOUS
<1> HIDE DEF more, n, S, f
<1>7. \A p : p \in A <=> \E i \in DOMAIN ls, k \in DOMAIN rs :
                           p = <<i, k>> /\ LeftKeyOf(j, ls[i]) = RightKeyOf(j, rs[k]) /\ CombineRows(j, ls[i], rs[k]) = x
  BY DEF Pairs
<1>8. \A p : p \in C <=> \E i \in DOMAIN more, k \in DOMAIN rs :
                           p = <<i, k>> /\ LeftKeyOf(j, more[i]) = RightKeyOf(j, rs[k]) /\ CombineRows(j, more[i], rs[k]) = x
  BY DEF Pairs
<1> HIDE DEF A, B, C
<1>9. A \cap B = {}
  <2>1. \A p \in A : p[1] \in DOMAIN ls
    BY <1>7
  <2>2. \A p \in B : p[1] = n
    BY <1>6
  <2>3. QED
    BY <1>1, <2>1, <2>2
<1>10. C = A \cup B
  <2>1. ASSUME NEW p, p \in C PROVE p \in A \cup B
    <3>1. PICK i \in DOMAIN more, k \in DOMAIN rs :
            p = <<i, k>> /\ LeftKeyOf(j, more[i]) = RightKeyOf(j, rs[k]) /\ CombineRows(j, more[i], rs[k]) = x
      BY <1>8, <2>1
    <3>2. CASE i \in DOMAIN ls
      BY <1>1, <1>7, <3>1, <3>2
    <3>3. CASE i = n
      <4>1. k \in S
        BY <1>1, <1>2, <3>1, <3>3
      <4>2. QED
        BY <1>6, <3>1, <3>3, <4>1
    <3>4. QED
      BY <1>1, <3>2, <3>3
  <2>2. ASSUME NEW p, p \in A PROVE p \in C
    <3>1. PICK i \in DOMAIN ls, k \in DOMAIN rs :
            p = <<i, k>> /\ LeftKeyOf(j, ls[i]) = RightKeyOf(j, rs[k]) /\ CombineRows(j, ls[i], rs[k]) = x
      BY <1>7, <2>2
    <3>2. i \in DOMAIN more /\ more[i] = ls[i]
      BY <1>1
    <3>3. QED
      BY <1>8, <3>1, <3>2
  <2>3. ASSUME NEW p, p \in B PROVE p \in C
    <3>1. PICK k \in S : p = <<n, k>>
      BY <1>6, <2>3
    <3>2. k \in DOMAIN rs /\ n \in DOMAIN more /\ more[n] = l
      BY <1>1, <1>3
    <3>3. LeftKeyOf(j, l) = RightKeyOf(j, rs[k]) /\ CombineRows(j, l, rs[k]) = x
      BY <1>2, <3>2
    <3>4. QED
      BY <1>8, <3>1, <3>2, <3>3
  <2>4. QED
    BY <2>1, <2>2, <2>3
<1>11. Cardinality(A \cup B) = Cardinality(A) + Cardinality(B) - Cardinality(A \cap B)
  BY <1>4, <1>5, FS_Union
<1>12. Cardinality(A \cap B) = 0 /\ Cardinality(A) \in Nat /\ Cardinality(B) \in Nat
  BY <1>4, <1>5, <1>9, FS_EmptySet, FS_CardinalityType
<1>13. Cardinality(C) = Cardinality(A) + Cardinality(B)
  BY <1>10, <1>11, <1>12
<1>14. QED
  BY <1>3, <1>5, <1>13 DEF A, C, more

LEMMA LonelyOfMore ==
  ASSUME NEW j, NEW ls \in Seq(LeftRows(j)), NEW l \in LeftRows(j), NEW rs \in Seq(RightRows(j)), NEW x
  PROVE  Cardinality(LonelyLeft(j, Append(ls, l), rs, x)) = Cardinality(LonelyLeft(j, ls, rs, x)) + KeptAlone(j, l, rs, x)
<1> DEFINE more == Append(ls, l)
           n == Len(ls) + 1
           A == LonelyLeft(j, ls, rs, x)
           C == LonelyLeft(j, more, rs, x)
           alone == /\ j.type = "Left" /\ CombineRows(j, l, NullRow(j.rightNames)) = x
                    /\ \A k \in DOMAIN rs : LeftKeyOf(j, l) # RightKeyOf(j, rs[k])
<1>1. DOMAIN more = DOMAIN ls \cup {n} /\ n \notin DOMAIN ls /\ more[n] = l /\ \A i \in DOMAIN ls : more[i] = ls[i]
  OBVIOUS
<1>2. IsFiniteSet(A) /\ Cardinality(A) \in Nat
  BY CountsAreNumbers
<1>3. KeptAlone(j, l, rs, x) = IF alone THEN 1 ELSE 0
  BY DEF KeptAlone
<1> HIDE DEF more, n
<1>4. C = IF alone THEN A \cup {n} ELSE A
  <2>1. \A i \in DOMAIN ls : i \in C <=> i \in A
    BY <1>1 DEF LonelyLeft
  <2>2. n \in C <=> alone
    BY <1>1 DEF LonelyLeft
  <2>3. A \subseteq DOMAIN ls /\ C \subseteq DOMAIN more
    BY DEF LonelyLeft
  <2> HIDE DEF A, C, alone
  <2>4. CASE alone
    <3>1. \A i : i \in C <=> i \in A \cup {n}
      BY <1>1, <2>1, <2>2, <2>3, <2>4
    <3>2. C = A \cup {n}
      BY <3>1
    <3>3. QED
      BY <2>4, <3>2
  <2>5. CASE ~alone
    <3>1. \A i : i \in C <=> i \in A
      BY <1>1, <2>1, <2>2, <2>3, <2>5
    <3>2. C = A
      BY <3>1
    <3>3. QED
      BY <2>5, <3>2
  <2>6. QED
    BY <2>4, <2>5
<1>5. n \notin A
  BY <1>1 DEF LonelyLeft
<1> HIDE DEF A, C, alone
<1>6. Cardinality(A \cup {n}) = Cardinality(A) + 1
  BY <1>2, <1>5, FS_AddElement
<1>7. Cardinality(C) = Cardinality(A) + (IF alone THEN 1 ELSE 0)
  BY <1>2, <1>4, <1>6
<1>8. QED
  BY <1>3, <1>7 DEF A, C, more

\* A batch adds what its rows find.
LEMMA ProbedOfBatch ==
  ASSUME join \in Joins, NEW rs \in Seq(RightRows(join)), Groups(join, table, rs),
         NEW batch \in Seq(LeftRows(join)), NEW ls \in Seq(LeftRows(join)), NEW x \in OutRows(join),
         NEW found, found = [i \in DOMAIN batch |-> Matches(batch[i])]
  PROVE  /\ FlattenSeq(found) \in Seq(OutRows(join))
         /\ Probed(join, ls \o batch, rs)[x] = Probed(join, ls, rs)[x] + HowMany(FlattenSeq(found), {x})
<1> DEFINE L == LeftRows(join)
           O == OutRows(join)
           Q == Seq(O)
           M(b) == [i \in DOMAIN b |-> Matches(b[i])]
           T == {b \in Seq(L) : /\ M(b) \in Seq(Q) /\ Len(M(b)) = Len(b)
                                /\ Probed(join, ls \o b, rs)[x] = Probed(join, ls, rs)[x] + HowMany(FlattenSeq(M(b)), {x})}
<1>1. ls \in Seq(L) /\ batch \in Seq(L) /\ Probed(join, ls, rs)[x] \in Nat
  <2>1. Probed(join, ls, rs) \in [OutRows(join) -> Nat]
    BY ProbedIsCount
  <2>2. QED
    BY <2>1
<1>2. <<>> \in T
  <2>1. M(<<>>) = <<>>
    OBVIOUS
  <2>2. <<>> \in Seq(Q) /\ <<>> \in Seq(L) /\ Len(<<>>) = 0
    OBVIOUS
  <2>3. FlattenSeq(<<>>) = <<>>
    BY <2>2, FlattenProperties
  <2>4. HowMany(<<>>, {x}) = 0
    BY HowManyOfNone
  <2>5. ls \o <<>> = ls
    <3> HIDE DEF L
    <3>1. QED
      BY <1>1, ConcatEmptySeq
  <2>6. HowMany(FlattenSeq(M(<<>>)), {x}) = 0
    <3> HIDE DEF M
    <3>1. QED
      BY <2>1, <2>3, <2>4
  <2>7. Probed(join, ls \o <<>>, rs)[x] = Probed(join, ls, rs)[x] + HowMany(FlattenSeq(M(<<>>)), {x})
    <3> HIDE DEF M, L
    <3>1. QED
      BY <1>1, <2>5, <2>6
  <2>8. M(<<>>) \in Seq(Q) /\ Len(M(<<>>)) = Len(<<>>)
    <3> HIDE DEF M, Q
    <3>1. QED
      BY <2>1, <2>2
  <2> HIDE DEF M, Q, L
  <2>9. QED
    BY <2>2, <2>7, <2>8
<1>3. ASSUME NEW b \in Seq(L), b \in T, NEW l \in L PROVE Append(b, l) \in T
  <2> DEFINE c == Append(b, l)
  <2>1. c \in Seq(L) /\ Len(c) = Len(b) + 1 /\ c[Len(b) + 1] = l /\ Len(b) \in Nat
        /\ DOMAIN c = 1..(Len(b) + 1) /\ DOMAIN b = 1..Len(b) /\ \A i \in 1..Len(b) : c[i] = b[i]
    <3> HIDE DEF L
    <3>1. QED
      OBVIOUS
  <2>2. Matches(l) \in Q /\ HowMany(Matches(l), {x}) = FoundRows(join, l, rs, x) + KeptAlone(join, l, rs, x)
    BY MatchesCount
  <2>3. M(b) \in Seq(Q) /\ Len(M(b)) = Len(b)
    BY <1>3
  <2>4. M(c) = Append(M(b), Matches(l))
    <3> DEFINE u == M(b)
               v == M(c)
               m == Matches(l)
               w == Append(u, m)
    <3>1. DOMAIN u = 1..Len(b) /\ \A i \in 1..Len(b) : u[i] = Matches(b[i])
      BY <2>1
    <3>2. DOMAIN v = 1..(Len(b) + 1) /\ v = [i \in 1..(Len(b) + 1) |-> v[i]]
          /\ \A i \in 1..(Len(b) + 1) : v[i] = Matches(c[i])
      BY <2>1
    <3>3. u \in Seq(Q) /\ m \in Q /\ Len(u) = Len(b)
      BY <2>2, <2>3
    <3>4. c[Len(b) + 1] = l /\ \A i \in 1..Len(b) : c[i] = b[i]
      BY <2>1
    <3>5. m = Matches(l)
      OBVIOUS
    <3> HIDE DEF u, v, m, c, M, L, Q
    <3>6. w \in Seq(Q) /\ Len(w) = Len(b) + 1 /\ w[Len(b) + 1] = m /\ \A i \in 1..Len(b) : w[i] = u[i]
      BY <3>3
    <3> HIDE DEF w
    <3>7. ASSUME NEW i \in 1..(Len(b) + 1) PROVE v[i] = w[i] /\ v[i] \in Q
      <4>1. CASE i = Len(b) + 1
        BY <3>2, <3>3, <3>4, <3>5, <3>6, <4>1
      <4>2. CASE i # Len(b) + 1
        <5>1. i \in 1..Len(b)
          BY <2>1, <4>2
        <5>2. v[i] = Matches(b[i]) /\ u[i] = Matches(b[i])
          BY <3>1, <3>2, <3>4, <5>1
        <5>3. u[i] \in Q
          BY <3>3, <5>1
        <5>4. QED
          BY <3>6, <5>1, <5>2, <5>3
      <4>3. QED
        BY <4>1, <4>2
    <3>8. Len(b) + 1 \in Nat
      BY <2>1
    <3>9. v \in Seq(Q) /\ Len(v) = Len(b) + 1
      BY <3>2, <3>7, <3>8, ListOf
    <3>10. v = w
      BY <3>6, <3>7, <3>9, SeqEqual
    <3>11. QED
      BY <3>10 DEF u, v, w, m
  <2>5. FlattenSeq(M(c)) = FlattenSeq(M(b)) \o Matches(l) /\ FlattenSeq(M(b)) \in Q
    <3> HIDE DEF M, c, L
    <3>1. FlattenSeq(Append(M(b), Matches(l))) = FlattenSeq(M(b)) \o Matches(l) /\ FlattenSeq(M(b)) \in Seq(O)
      BY <2>2, <2>3, FlattenAppend, FlattenProperties
    <3>2. QED
      BY <2>4, <3>1
  <2>6. HowMany(FlattenSeq(M(c)), {x}) = HowMany(FlattenSeq(M(b)), {x}) + HowMany(Matches(l), {x})
        /\ HowMany(FlattenSeq(M(b)), {x}) \in Nat
    <3> DEFINE a == FlattenSeq(M(b))
               m == Matches(l)
    <3>1. a \in Seq(O) /\ m \in Seq(O) /\ FlattenSeq(M(c)) = a \o m
      BY <2>2, <2>5
    <3> HIDE DEF M, c, L, O, a, m
    <3>2. HowMany(a \o m, {x}) = HowMany(a, {x}) + HowMany(m, {x})
      BY <3>1, HowManyJoined
    <3>3. HowMany(a, {x}) \in Nat
      BY <3>1, HowManyIsFinite
    <3>4. HowMany(FlattenSeq(M(c)), {x}) = HowMany(a, {x}) + HowMany(m, {x})
      BY <3>1, <3>2
    <3>5. QED
      BY <3>3, <3>4 DEF a, m
  <2>7. ls \o c = Append(ls \o b, l) /\ ls \o b \in Seq(L)
    <3> HIDE DEF L
    <3>1. QED
      BY <1>1
  <2>8. Probed(join, ls \o c, rs)[x] = Probed(join, ls \o b, rs)[x] + (FoundRows(join, l, rs, x) + KeptAlone(join, l, rs, x))
    <3> DEFINE d == ls \o b
    <3>1. d \in Seq(LeftRows(join)) /\ l \in LeftRows(join)
      BY <2>7
    <3>2. ls \o c = Append(d, l)
      BY <2>7
    <3> HIDE DEF d, c, M
    <3>3. Cardinality(Pairs(join, Append(d, l), rs, x)) = Cardinality(Pairs(join, d, rs, x)) + FoundRows(join, l, rs, x)
      BY <3>1, PairsOfMore
    <3>4. Cardinality(LonelyLeft(join, Append(d, l), rs, x))
            = Cardinality(LonelyLeft(join, d, rs, x)) + KeptAlone(join, l, rs, x)
      BY <3>1, LonelyOfMore
    <3>5. FoundRows(join, l, rs, x) \in Nat /\ KeptAlone(join, l, rs, x) \in Nat
          /\ Cardinality(Pairs(join, d, rs, x)) \in Nat /\ Cardinality(LonelyLeft(join, d, rs, x)) \in Nat
      <4>1. KeptAlone(join, l, rs, x) \in Nat
        BY DEF KeptAlone
      <4>2. FoundRows(join, l, rs, x) \in Nat
        BY HowManyIsFinite DEF FoundRows
      <4>3. QED
        BY <3>1, <4>1, <4>2, CountsAreNumbers
    <3>6. \A a : Probed(join, a, rs)[x] = Cardinality(Pairs(join, a, rs, x)) + Cardinality(LonelyLeft(join, a, rs, x))
      BY DEF Probed
    <3>7. Probed(join, Append(d, l), rs)[x] = Probed(join, d, rs)[x] + (FoundRows(join, l, rs, x) + KeptAlone(join, l, rs, x))
      BY <3>3, <3>4, <3>5, <3>6
    <3>8. QED
      BY <3>2, <3>7 DEF d
  <2>9. Probed(join, ls \o b, rs)[x] = Probed(join, ls, rs)[x] + HowMany(FlattenSeq(M(b)), {x})
    BY <1>3
  <2>10. HowMany(Matches(l), {x}) \in Nat
    BY <2>2, HowManyIsFinite
  <2>11. Probed(join, ls \o c, rs)[x] = Probed(join, ls, rs)[x] + HowMany(FlattenSeq(M(c)), {x})
    <3> HIDE DEF c, M
    <3>1. QED
      BY <1>1, <2>2, <2>6, <2>8, <2>9, <2>10
  <2>12. M(c) \in Seq(Q) /\ Len(M(c)) = Len(c)
    <3> HIDE DEF c, M, Q
    <3>1. QED
      BY <2>1, <2>2, <2>3, <2>4
  <2> HIDE DEF M, L, Q
  <2>13. QED
    BY <2>1, <2>11, <2>12
<1> HIDE DEF T, L
<1>4. Seq(L) \subseteq T
  BY <1>2, <1>3, AppendInduction
<1>5. batch \in T
  BY <1>1, <1>4
<1>6. M(batch) \in Seq(Q) /\ Probed(join, ls \o batch, rs)[x] = Probed(join, ls, rs)[x] + HowMany(FlattenSeq(M(batch)), {x})
  BY <1>5 DEF T
<1>7. FlattenSeq(M(batch)) \in Seq(O)
  <2> HIDE DEF M, O
  <2>1. QED
    BY <1>6, FlattenProperties
<1>8. QED
  BY <1>6, <1>7
-----------------------------------------------------------------------------
(***************************************************************************)
(* The right rows without a match.                                         *)
(***************************************************************************)
LEMMA KeysAmongMore ==
  ASSUME NEW j, NEW E, NEW ls \in Seq(E), NEW batch \in Seq(E)
  PROVE  KeysAmong(j, ls \o batch) = KeysAmong(j, ls) \cup {LeftKeyOf(j, l) : l \in Range(batch)}
<1> DEFINE u == ls \o batch
           n == Len(ls)
           m == Len(batch)
<1>1. n \in Nat /\ m \in Nat /\ DOMAIN ls = 1..n /\ DOMAIN batch = 1..m /\ DOMAIN u = 1..(n + m)
  OBVIOUS
<1>2. \A i \in 1..(n + m) : u[i] = IF i <= n THEN ls[i] ELSE batch[i - n]
  BY ConcatProperties
<1> HIDE DEF u, n, m
<1>3. ASSUME NEW key, key \in KeysAmong(j, u)
      PROVE  key \in KeysAmong(j, ls) \cup {LeftKeyOf(j, l) : l \in Range(batch)}
  <2>1. PICK i \in 1..(n + m) : key = LeftKeyOf(j, u[i])
    BY <1>1, <1>3 DEF KeysAmong
  <2>2. CASE i <= n
    <3>1. i \in DOMAIN ls /\ u[i] = ls[i]
      BY <1>1, <1>2, <2>2
    <3>2. QED
      BY <2>1, <3>1 DEF KeysAmong
  <2>3. CASE ~(i <= n)
    <3>1. i - n \in DOMAIN batch /\ u[i] = batch[i - n]
      BY <1>1, <1>2, <2>3
    <3>2. batch[i - n] \in Range(batch)
      BY <3>1 DEF Range
    <3>3. QED
      BY <2>1, <3>1, <3>2
  <2>4. QED
    BY <2>2, <2>3
<1>4. ASSUME NEW key, key \in KeysAmong(j, ls) PROVE key \in KeysAmong(j, u)
  <2>1. PICK i \in 1..n : key = LeftKeyOf(j, ls[i])
    BY <1>1, <1>4 DEF KeysAmong
  <2>2. i \in 1..(n + m) /\ u[i] = ls[i]
    BY <1>1, <1>2
  <2>3. QED
    BY <1>1, <2>1, <2>2 DEF KeysAmong
<1>5. ASSUME NEW l, l \in Range(batch) PROVE LeftKeyOf(j, l) \in KeysAmong(j, u)
  <2>1. PICK i \in 1..m : l = batch[i]
    BY <1>1, <1>5 DEF Range
  <2>2. n + i \in 1..(n + m) /\ ~(n + i <= n) /\ (n + i) - n = i
    BY <1>1
  <2>3. u[n + i] = l
    BY <1>2, <2>1, <2>2
  <2>4. QED
    BY <1>1, <2>2, <2>3 DEF KeysAmong
<1>6. QED
  BY <1>3, <1>4, <1>5 DEF u

LEMMA KeysAreFinite ==
  ASSUME NEW j, NEW E, NEW rs \in Seq(E), NEW t, Groups(j, t, rs)
  PROVE  IsFiniteSet(DOMAIN t)
<1> DEFINE f == [i \in DOMAIN rs |-> RightKeyOf(j, rs[i])]
           T == {RightKeyOf(j, rs[i]) : i \in DOMAIN rs}
<1>1. f \in Surjection(DOMAIN rs, T)
  BY DEF Surjection
<1>2. IsFiniteSet(DOMAIN rs)
  BY PlacesAreFinite
<1> HIDE DEF f, T
<1>3. IsFiniteSet(T)
  BY <1>1, <1>2, FS_Surjection
<1>4. QED
  BY <1>3 DEF Groups, T

LEMMA HowManyOfEmpty ==
  ASSUME NEW E, NEW s \in Seq(E)
  PROVE  HowMany(s, {}) = 0
<1>1. {i \in DOMAIN s : s[i] \in {}} = {}
  OBVIOUS
<1>2. Cardinality({}) = 0
  BY FS_EmptySet
<1>3. QED
  BY <1>1, <1>2 DEF HowMany

LEMMA UnmatchedCount ==
  ASSUME join \in Joins, NEW rs \in Seq(RightRows(join)), Groups(join, table, rs), NEW again,
         matched = KeysAmong(join, again) \cap DOMAIN table
  PROVE  /\ Unmatched \in Seq(OutRows(join))
         /\ \A x : HowMany(Unmatched, {x}) = Cardinality(LonelyRight(join, again, rs, x))
<1> DEFINE U == DOMAIN table \ matched
           c == Cardinality(U)
           s == SetToSeq(U)
           nl == NullRow(join.leftNames)
           O == OutRows(join)
           R == RightRows(join)
           seqs == [k \in 1..c |-> [i \in DOMAIN table[s[k]] |-> CombineRows(join, nl, table[s[k]][i])]]
<1>1. Unmatched = FlattenSeq(seqs)
  BY DEF Unmatched
<1>2. IsFiniteSet(U)
  BY KeysAreFinite, FS_Difference
<1>3. s \in [1..c -> U] /\ IsInjective(s) /\ c \in Nat /\ \A key \in U : \E k \in 1..c : s[k] = key
  BY <1>2, InOneSequence
<1>4. nl \in LeftRows(join) /\ rs \in Seq(R)
  BY JoinFacts
<1>5. \A key \in U : table[key] \in Seq(R) /\ \A X \in SUBSET R : HowMany(table[key], X) = HowMany(rs, X \cap WithKeys(join, {key}))
  BY DEF Groups
<1>6. \A k \in DOMAIN rs : RightKeyOf(join, rs[k]) \in U <=> RightKeyOf(join, rs[k]) \notin KeysAmong(join, again)
  BY DEF Groups
<1> HIDE DEF U, c, s
<1>7. DOMAIN seqs = 1..c /\ seqs = [k \in 1..c |-> seqs[k]]
      /\ \A k \in 1..c : seqs[k] = [i \in DOMAIN table[s[k]] |-> CombineRows(join, nl, table[s[k]][i])]
  OBVIOUS
<1> HIDE DEF seqs
<1>8. ASSUME NEW k \in 1..c
      PROVE  /\ seqs[k] \in Seq(O)
             /\ \A x : HowMany(seqs[k], {x}) = HowMany(rs, Becoming(join, nl, x) \cap WithKeys(join, {s[k]}))
  <2> DEFINE rows == table[s[k]]
  <2>1. s[k] \in U
    BY <1>3
  <2>2. rows \in Seq(R) /\ seqs[k] = [i \in DOMAIN rows |-> CombineRows(join, nl, rows[i])]
    BY <1>5, <1>7, <2>1
  <2>3. \A X \in SUBSET R : HowMany(rows, X) = HowMany(rs, X \cap WithKeys(join, {s[k]}))
    BY <1>5, <2>1
  <2> HIDE DEF rows, nl
  <2>4. seqs[k] \in Seq(O) /\ \A x : HowMany(seqs[k], {x}) = HowMany(rows, Becoming(join, nl, x))
    BY <1>4, <2>2, CombinedRows
  <2>5. \A x : Becoming(join, nl, x) \in SUBSET R
    BY DEF Becoming
  <2>6. QED
    BY <2>3, <2>4, <2>5
<1> DEFINE Q == Seq(O)
<1>9. seqs \in Seq(Q) /\ Len(seqs) = c
  <2> HIDE DEF Q
  <2>1. \A k \in 1..c : seqs[k] \in Q
    BY <1>8 DEF Q
  <2>2. QED
    BY <1>3, <1>7, <2>1, ListOf
<1>10. PICK acc \in [0..c -> Seq(O)] : Concats(acc, c, seqs) /\ FlattenSeq(seqs) = acc[c]
  <2> HIDE DEF O
  <2>1. c = Len(seqs) /\ seqs \in Seq(Seq(O))
    BY <1>9
  <2>2. QED
    BY <2>1, FlattenPasses
<1>11. ASSUME NEW x PROVE HowMany(acc[c], {x}) = Cardinality(LonelyRight(join, again, rs, x))
  <2> DEFINE B == Becoming(join, nl, x)
             upTo(k) == {s[i] : i \in 1..k}
             S == {k \in 0..c : HowMany(acc[k], {x}) = HowMany(rs, B \cap WithKeys(join, upTo(k)))}
  <2>1. 0 \in S
    <3>1. B \cap WithKeys(join, upTo(0)) = {}
      BY DEF WithKeys
    <3>2. HowMany(rs, {}) = 0
      BY <1>4, HowManyOfEmpty
    <3>3. acc[0] = <<>> /\ HowMany(<<>>, {x}) = 0
      BY <1>10, HowManyOfNone DEF Concats
    <3>4. 0 \in 0..c
      BY <1>3
    <3>5. HowMany(acc[0], {x}) = HowMany(rs, B \cap WithKeys(join, upTo(0)))
      <4> HIDE DEF B, upTo
      <4>1. QED
        BY <3>1, <3>2, <3>3
    <3>6. QED
      BY <3>4, <3>5
  <2>2. ASSUME NEW k \in 1..c, k - 1 \in S PROVE k \in S
    <3> DEFINE X == B \cap WithKeys(join, upTo(k - 1))
               Y == B \cap WithKeys(join, {s[k]})
               Z == B \cap WithKeys(join, upTo(k))
    <3>1. k - 1 \in 0..c /\ k \in 0..c
      BY <1>3
    <3>2. upTo(k) = upTo(k - 1) \cup {s[k]} /\ s[k] \notin upTo(k - 1)
      <4>1. 1..k = (1..(k - 1)) \cup {k} /\ k \notin 1..(k - 1) /\ 1..k \subseteq 1..c
        BY <1>3
      <4>2. \A i \in 1..(k - 1) : s[i] # s[k]
        BY <1>3, <4>1 DEF IsInjective
      <4>3. QED
        BY <4>1, <4>2
    <3>3. Z = X \cup Y /\ X \cap Y = {}
      BY <3>2 DEF WithKeys
    <3>4. acc[k] = acc[k - 1] \o seqs[k] /\ acc[k - 1] \in Seq(O) /\ seqs[k] \in Seq(O)
      BY <1>8, <1>10, <3>1 DEF Concats
    <3>5. HowMany(acc[k - 1], {x}) = HowMany(rs, X) /\ HowMany(seqs[k], {x}) = HowMany(rs, Y)
      BY <1>8, <2>2
    <3> HIDE DEF X, Y, Z, O, R
    <3>6. HowMany(acc[k], {x}) = HowMany(acc[k - 1], {x}) + HowMany(seqs[k], {x})
      BY <3>4, HowManyJoined
    <3>7. HowMany(rs, X \cup Y) = HowMany(rs, X) + HowMany(rs, Y)
      BY <1>4, <3>3, HowManyOfTwo
    <3>8. HowMany(acc[k], {x}) = HowMany(rs, Z)
      BY <3>3, <3>5, <3>6, <3>7
    <3>9. QED
      BY <3>1, <3>8 DEF Z
  <2> HIDE DEF S
  <2>3. 0..c \subseteq S
    BY <1>3, <2>1, <2>2, BoundedInduction
  <2>4. c \in S
    BY <1>3, <2>3
  <2>5. HowMany(acc[c], {x}) = HowMany(rs, B \cap WithKeys(join, upTo(c)))
    BY <2>4 DEF S
  <2>6. upTo(c) = U
    BY <1>3
  <2>7. {k \in DOMAIN rs : rs[k] \in B \cap WithKeys(join, U)} = LonelyRight(join, again, rs, x)
    <3>1. \A k \in DOMAIN rs : rs[k] \in R
      BY <1>4
    <3>2. \A k \in DOMAIN rs : rs[k] \in B \cap WithKeys(join, U)
                                 <=> k \in LonelyRight(join, again, rs, x)
      BY <1>6, <3>1 DEF Becoming, WithKeys, LonelyRight
    <3>3. LonelyRight(join, again, rs, x) \subseteq DOMAIN rs
      BY DEF LonelyRight
    <3> HIDE DEF B
    <3>4. QED
      BY <3>2, <3>3
  <2> HIDE DEF B, upTo
  <2>8. QED
    BY <2>5, <2>6, <2>7 DEF HowMany
<1>12. acc[c] \in Seq(O)
  BY <1>3, <1>10
<1>13. QED
  BY <1>1, <1>10, <1>11, <1>12
-----------------------------------------------------------------------------
(***************************************************************************)
(* The batches that have been read.                                        *)
(***************************************************************************)
LEMMA NothingRead ==
  ASSUME NEW R, NEW batches \in Seq(Seq(R))
  PROVE  IsRest(batches, batches) /\ ReadBefore(batches, batches) = <<>>
<1> DEFINE E == Seq(R)
<1>1. batches \in Seq(E)
  OBVIOUS
<1> HIDE DEF E
<1>2. IsRest(batches, batches) /\ Gone(batches, batches) = 0
  BY <1>1, AllIsLeft
<1>3. SubSeq(batches, 1, 0) = <<>> /\ <<>> \in Seq(E)
  BY <1>1
<1>4. FlattenSeq(<<>>) = <<>>
  BY <1>3, FlattenProperties DEF E
<1>5. QED
  BY <1>2, <1>3, <1>4 DEF ReadBefore

LEMMA AllRead ==
  ASSUME NEW R, NEW batches \in Seq(Seq(R)), NEW rest \in Seq(Seq(R)), IsRest(rest, batches), rest = <<>>
  PROVE  ReadBefore(batches, rest) = FlattenSeq(batches)
<1> DEFINE E == Seq(R)
<1>1. batches \in Seq(E) /\ rest \in Seq(E)
  OBVIOUS
<1> HIDE DEF E
<1>2. Gone(batches, rest) = Len(batches)
  BY <1>1, RestFacts
<1>3. SubSeq(batches, 1, Len(batches)) = batches
  BY <1>1
<1>4. QED
  BY <1>2, <1>3 DEF ReadBefore

LEMMA MoreRead ==
  ASSUME NEW R, NEW batches \in Seq(Seq(R)), NEW rest \in Seq(Seq(R)), IsRest(rest, batches), rest # <<>>
  PROVE  /\ Head(rest) \in Seq(R) /\ Tail(rest) \in Seq(Seq(R)) /\ IsRest(Tail(rest), batches)
         /\ ReadBefore(batches, rest) \in Seq(R)
         /\ ReadBefore(batches, Tail(rest)) = ReadBefore(batches, rest) \o Head(rest)
<1> DEFINE E == Seq(R)
           g == Gone(batches, rest)
           s == SubSeq(batches, 1, g)
           t == SubSeq(batches, 1, g + 1)
<1>1. batches \in Seq(E) /\ rest \in Seq(E)
  OBVIOUS
<1> HIDE DEF E
<1>2. g \in 0..Len(batches) /\ g + 1 \in 1..Len(batches) /\ Head(rest) = batches[g + 1]
      /\ IsRest(Tail(rest), batches) /\ Gone(batches, Tail(rest)) = g + 1
  BY <1>1, RestFacts
<1>3. Head(rest) \in E /\ Tail(rest) \in Seq(E)
  BY <1>1
<1> HIDE DEF g
<1>4. s \in Seq(E) /\ t \in Seq(E) /\ Len(s) = g /\ Len(t) = g + 1 /\ t[g + 1] = batches[g + 1]
      /\ \A k \in 1..g : t[k] = s[k]
  BY <1>1, <1>2, SMTT(30)
<1>5. s \in Seq(Seq(R)) /\ t \in Seq(Seq(R))
  BY <1>4 DEF E
<1> HIDE DEF s, t
<1>6. FlattenSeq(t) = FlattenSeq(s) \o t[Len(t)]
  <2>1. Len(t) = Len(s) + 1 /\ \A k \in 1..Len(s) : t[k] = s[k]
    BY <1>4
  <2>2. QED
    BY <1>5, <2>1, FlattenLonger
<1>7. FlattenSeq(s) \in Seq(R)
  BY <1>5, FlattenProperties
<1>8. ReadBefore(batches, rest) = FlattenSeq(s) /\ ReadBefore(batches, Tail(rest)) = FlattenSeq(t)
  BY <1>2 DEF ReadBefore, s, t, g
<1>9. QED
  BY <1>2, <1>3, <1>4, <1>6, <1>7, <1>8 DEF E

LEMMA InputFacts ==
  ASSUME TypeInv
  PROVE  /\ right \in Seq(Seq(RightRows(join))) /\ RightRead \in Seq(RightRows(join))
         /\ \A scan \in left : scan \in Seq(Seq(LeftRows(join))) /\ FlattenSeq(scan) \in Seq(LeftRows(join))
<1>1. join \in Joins /\ left \in LeftScans /\ right \in Rights
  BY DEF TypeInv
<1>2. right \in Seq(Seq(RightRows(join))) /\ \A scan \in left : scan \in Seq(Seq(LeftRows(join)))
  BY <1>1, JoinFacts
<1>3. RightRead \in Seq(RightRows(join))
  BY <1>2, FlattenProperties DEF RightRead
<1>4. ASSUME NEW scan \in left PROVE FlattenSeq(scan) \in Seq(LeftRows(join))
  BY <1>2, FlattenProperties
<1>5. QED
  BY <1>2, <1>3, <1>4
-----------------------------------------------------------------------------
(***************************************************************************)
(* The actions.                                                            *)
(***************************************************************************)
LEMMA InitInv == Init => Inv
  BY DEF Init, Inv, TypeInv, StartInv, BuildInv, ProbeInv, RescanInv, DoneInv

\* No rows make an empty table.
LEMMA GroupsNone ==
  ASSUME NEW j
  PROVE  Groups(j, [key \in {} |-> <<>>], <<>>)
  BY DEF Groups

LEMMA ProbedNone ==
  ASSUME NEW j, NEW rs
  PROVE  BagWith(Probed(j, <<>>, rs)) = EmptyBag
<1>1. ASSUME NEW x PROVE Cardinality(Pairs(j, <<>>, rs, x)) = 0 /\ Cardinality(LonelyLeft(j, <<>>, rs, x)) = 0
  <2>1. Pairs(j, <<>>, rs, x) = {} /\ LonelyLeft(j, <<>>, rs, x) = {}
    BY DEF Pairs, LonelyLeft
  <2>2. QED
    BY <2>1, FS_EmptySet
<1>2. \A x : Cardinality(Pairs(j, <<>>, rs, x)) + Cardinality(LonelyLeft(j, <<>>, rs, x)) = 0
  <2>1. TAKE x
  <2> DEFINE a == Cardinality(Pairs(j, <<>>, rs, x))
             b == Cardinality(LonelyLeft(j, <<>>, rs, x))
  <2>2. a = 0 /\ b = 0
    BY <1>1
  <2> HIDE DEF a, b
  <2>3. a + b = 0
    BY <2>2
  <2>4. QED
    BY <2>3 DEF a, b
<1>3. Probed(j, <<>>, rs) = [x \in OutRows(j) |-> 0]
  <2> DEFINE O == OutRows(j)
             count(x) == Cardinality(Pairs(j, <<>>, rs, x)) + Cardinality(LonelyLeft(j, <<>>, rs, x))
  <2>1. \A x \in O : count(x) = 0
    BY <1>2
  <2> HIDE DEF O, count
  <2>2. [x \in O |-> count(x)] = [x \in O |-> 0]
    BY <2>1
  <2>3. QED
    BY <2>2 DEF Probed, O, count
<1>4. QED
  BY <1>3, BagOfNone

LEMMA StartBuildInv ==
  ASSUME Inv, StartBuild
  PROVE  Inv'
<1>1. TypeInv /\ phase = "start" /\ join.type \in Supported /\ phase' = "build" /\ todo' = right
      /\ table = [key \in {} |-> <<>>] /\ matched = {} /\ output = EmptyBag
      /\ join' = join /\ left' = left /\ right' = right /\ first' = first /\ second' = second
      /\ table' = table /\ matched' = matched /\ output' = output
  BY DEF Inv, StartInv, StartBuild, given
<1>2. TypeInv'
  BY <1>1 DEF TypeInv
<1>3. right \in Seq(Seq(RightRows(join)))
  BY <1>1, InputFacts
<1>4. IsRest(right, right) /\ ReadBefore(right, right) = <<>>
  BY <1>3, NothingRead
<1>5. Groups(join, table, ReadBefore(right, right))
  BY <1>1, <1>4, GroupsNone
<1>6. BuildInv'
  BY <1>1, <1>3, <1>4, <1>5 DEF BuildInv, ReadOf
<1>7. QED
  BY <1>1, <1>2, <1>6 DEF Inv, StartInv, ProbeInv, RescanInv, DoneInv

LEMMA BuildBatchInv ==
  ASSUME Inv, BuildBatch
  PROVE  Inv'
<1>1. TypeInv /\ phase = "build" /\ todo # <<>> /\ phase' = "build" /\ todo' = Tail(todo)
      /\ table' = FoldLeft(Insert, table, Head(todo)) /\ matched = {} /\ output = EmptyBag
      /\ join' = join /\ left' = left /\ right' = right /\ first' = first /\ second' = second
      /\ matched' = matched /\ output' = output
      /\ todo \in Seq(Seq(RightRows(join))) /\ IsRest(todo, right) /\ Groups(join, table, ReadBefore(right, todo))
  BY DEF Inv, BuildInv, BuildBatch, given, ReadOf
<1>2. TypeInv'
  BY <1>1 DEF TypeInv
<1>3. right \in Seq(Seq(RightRows(join)))
  BY <1>1, InputFacts
<1> DEFINE batch == Head(todo)
           rows == ReadBefore(right, todo)
<1>4. batch \in Seq(RightRows(join)) /\ Tail(todo) \in Seq(Seq(RightRows(join))) /\ IsRest(Tail(todo), right)
      /\ rows \in Seq(RightRows(join)) /\ ReadBefore(right, Tail(todo)) = rows \o batch
  BY <1>1, <1>3, MoreRead
<1>5. Groups(join, FoldLeft(Insert, table, batch), rows \o batch)
  BY <1>1, <1>4, BatchGroups
<1>6. Groups(join, table', ReadBefore(right, Tail(todo)))
  BY <1>1, <1>4, <1>5
<1>7. BuildInv'
  BY <1>1, <1>4, <1>6 DEF BuildInv, ReadOf
<1>8. QED
  BY <1>1, <1>2, <1>7 DEF Inv, StartInv, ProbeInv, RescanInv, DoneInv

LEMMA RefuseInv ==
  ASSUME Inv, Refuse
  PROVE  Inv'
<1>1. TypeInv /\ phase' = "failed" /\ join' = join /\ left' = left /\ right' = right
  BY DEF Inv, Refuse, given
<1>2. QED
  BY <1>1 DEF Inv, TypeInv, StartInv, BuildInv, ProbeInv, RescanInv, DoneInv

LEMMA FailsInv ==
  ASSUME Inv, Fails
  PROVE  Inv'
<1>1. TypeInv /\ phase' = "failed" /\ join' = join /\ left' = left /\ right' = right
  BY DEF Inv, Fails, given
<1>2. QED
  BY <1>1 DEF Inv, TypeInv, StartInv, BuildInv, ProbeInv, RescanInv, DoneInv

LEMMA StartProbeInv ==
  ASSUME Inv, StartProbe
  PROVE  Inv'
<1>1. TypeInv /\ phase = "build" /\ todo = <<>> /\ phase' = "probe" /\ todo' \in left /\ first' = todo'
      /\ matched = {} /\ output = EmptyBag
      /\ join' = join /\ left' = left /\ right' = right /\ second' = second
      /\ table' = table /\ matched' = matched /\ output' = output
      /\ todo \in Seq(Seq(RightRows(join))) /\ IsRest(todo, right) /\ Groups(join, table, ReadBefore(right, todo))
  BY DEF Inv, BuildInv, StartProbe, given, ReadOf
<1>2. TypeInv'
  BY <1>1 DEF TypeInv
<1>3. right \in Seq(Seq(RightRows(join))) /\ todo' \in Seq(Seq(LeftRows(join)))
  BY <1>1, InputFacts
<1>4. Groups(join, table, RightRead)
  BY <1>1, <1>3, AllRead DEF RightRead
<1>5. IsRest(todo', todo') /\ ReadBefore(todo', todo') = <<>>
  BY <1>3, NothingRead
<1>6. BagWith(Probed(join, ReadBefore(todo', todo'), RightRead)) = EmptyBag
  BY <1>5, ProbedNone
<1>7. ProbeInv'
  BY <1>1, <1>3, <1>4, <1>5, <1>6 DEF ProbeInv, ReadOf, RightRead
<1>8. QED
  BY <1>1, <1>2, <1>7 DEF Inv, StartInv, BuildInv, RescanInv, DoneInv

\* What a batch adds to the output is what its rows add to what was probed.
LEMMA BatchAdds ==
  ASSUME join \in Joins, NEW rs \in Seq(RightRows(join)), Groups(join, table, rs),
         NEW batch \in Seq(LeftRows(join)), NEW ls \in Seq(LeftRows(join))
  PROVE  BagWith(Probed(join, ls, rs)) (+) BagOf(FlattenSeq([i \in DOMAIN batch |-> Matches(batch[i])]))
           = BagWith(Probed(join, ls \o batch, rs))
<1> DEFINE O == OutRows(join)
           found == [i \in DOMAIN batch |-> Matches(batch[i])]
           made == FlattenSeq(found)
           f == Probed(join, ls, rs)
           g == [x \in O |-> HowMany(made, {x})]
           h == Probed(join, ls \o batch, rs)
<1>1. found = [i \in DOMAIN batch |-> Matches(batch[i])]
  OBVIOUS
<1>2. f \in [O -> Nat] /\ h \in [O -> Nat]
  <2>1. ls \o batch \in Seq(LeftRows(join))
    OBVIOUS
  <2>2. QED
    BY <2>1, ProbedIsCount
<1> HIDE DEF found
<1>3. \A x \in O : made \in Seq(O) /\ h[x] = f[x] + HowMany(made, {x})
  BY <1>1, ProbedOfBatch
<1>4. PICK any \in O : TRUE
  BY JoinFacts, InOutRows
<1>5. made \in Seq(O)
  BY <1>3, <1>4
<1> HIDE DEF O, made, f, h
<1>6. BagOf(made) = BagWith(g)
  BY <1>5, BagOfCounts
<1>7. g \in [O -> Nat] /\ \A x \in O : g[x] = HowMany(made, {x})
  BY <1>5, HowManyIsFinite
<1>8. h = [x \in O |-> f[x] + g[x]]
  BY <1>2, <1>3, <1>7
<1> HIDE DEF g
<1>9. BagWith(f) (+) BagWith(g) = BagWith(h)
  <2>1. f \in [O -> Nat] /\ g \in [O -> Nat]
    BY <1>2, <1>7
  <2>2. BagWith(f) (+) BagWith(g) = BagWith([x \in O |-> f[x] + g[x]])
    BY ONLY <2>1, BagSum
  <2>3. QED
    BY <1>8, <2>2
<1>10. QED
  BY <1>6, <1>9 DEF f, h, made, found

LEMMA ProbeBatchInv ==
  ASSUME Inv, ProbeBatch
  PROVE  Inv'
<1> DEFINE batch == Head(todo)
           ls == ReadBefore(first, todo)
<1>1. TypeInv /\ phase = "probe" /\ todo # <<>> /\ phase' = "probe" /\ todo' = Tail(todo)
      /\ output' = output (+) BagOf(FlattenSeq([i \in DOMAIN batch |-> Matches(batch[i])])) /\ matched = {}
      /\ join' = join /\ left' = left /\ right' = right /\ first' = first /\ second' = second
      /\ table' = table /\ matched' = matched
      /\ todo \in Seq(Seq(LeftRows(join))) /\ IsRest(todo, first) /\ Groups(join, table, RightRead)
      /\ output = BagWith(Probed(join, ls, RightRead))
  BY DEF Inv, ProbeInv, ProbeBatch, given, ReadOf
<1>2. TypeInv'
  BY <1>1 DEF TypeInv
<1>3. first \in Seq(Seq(LeftRows(join))) /\ RightRead \in Seq(RightRows(join)) /\ join \in Joins
  BY <1>1, InputFacts DEF TypeInv
<1>4. batch \in Seq(LeftRows(join)) /\ Tail(todo) \in Seq(Seq(LeftRows(join))) /\ IsRest(Tail(todo), first)
      /\ ls \in Seq(LeftRows(join)) /\ ReadBefore(first, Tail(todo)) = ls \o batch
  BY <1>1, <1>3, MoreRead
<1> HIDE DEF batch, ls
<1>5. output' = BagWith(Probed(join, ReadBefore(first, Tail(todo)), RightRead))
  BY <1>1, <1>3, <1>4, BatchAdds
<1>6. ProbeInv'
  BY <1>1, <1>4, <1>5 DEF ProbeInv, ReadOf, RightRead
<1>7. QED
  BY <1>1, <1>2, <1>6 DEF Inv, StartInv, BuildInv, RescanInv, DoneInv

LEMMA FinishInv ==
  ASSUME Inv, Finish
  PROVE  Inv'
<1>1. TypeInv /\ phase = "probe" /\ todo = <<>> /\ join.type # "Right" /\ phase' = "done"
      /\ join' = join /\ left' = left /\ right' = right /\ first' = first /\ second' = second /\ output' = output
      /\ todo \in Seq(Seq(LeftRows(join))) /\ IsRest(todo, first)
      /\ output = BagWith(Probed(join, ReadBefore(first, todo), RightRead))
  BY DEF Inv, ProbeInv, Finish, given, ReadOf
<1>2. TypeInv'
  BY <1>1 DEF TypeInv
<1>3. first \in Seq(Seq(LeftRows(join))) /\ LeftRead \in Seq(LeftRows(join)) /\ RightRead \in Seq(RightRows(join))
  BY <1>1, InputFacts DEF TypeInv, LeftRead
<1>4. ReadBefore(first, todo) = LeftRead
  BY <1>1, <1>3, AllRead DEF LeftRead
<1>5. Answered(join, LeftRead, LeftAgain, RightRead) = Probed(join, LeftRead, RightRead)
  <2> DEFINE p == Probed(join, LeftRead, RightRead)
             O == OutRows(join)
  <2>1. p \in [O -> Nat]
    BY <1>3, ProbedIsCount
  <2>2. Answered(join, LeftRead, LeftAgain, RightRead) = [x \in O |-> p[x] + 0]
    BY <1>1 DEF Answered
  <2> HIDE DEF p, O
  <2>3. p = [x \in O |-> p[x] + 0]
    BY <2>1
  <2>4. QED
    BY <2>2, <2>3 DEF p
<1>6. output' = BagWith(Answered(join, LeftRead, LeftAgain, RightRead))
  BY <1>1, <1>4, <1>5
<1>7. DoneInv'
  BY <1>1, <1>6 DEF DoneInv, LeftRead, LeftAgain, RightRead
<1>8. QED
  BY <1>1, <1>2, <1>7 DEF Inv, StartInv, BuildInv, ProbeInv, RescanInv

LEMMA StartRescanInv ==
  ASSUME Inv, StartRescan
  PROVE  Inv'
<1>1. TypeInv /\ phase = "probe" /\ todo = <<>> /\ join.type = "Right" /\ phase' = "rescan"
      /\ todo' \in left /\ second' = todo' /\ matched = {}
      /\ join' = join /\ left' = left /\ right' = right /\ first' = first
      /\ table' = table /\ matched' = matched /\ output' = output
      /\ todo \in Seq(Seq(LeftRows(join))) /\ IsRest(todo, first) /\ Groups(join, table, RightRead)
      /\ output = BagWith(Probed(join, ReadBefore(first, todo), RightRead))
  BY DEF Inv, ProbeInv, StartRescan, given, ReadOf
<1>2. TypeInv'
  BY <1>1 DEF TypeInv
<1>3. first \in Seq(Seq(LeftRows(join))) /\ todo' \in Seq(Seq(LeftRows(join)))
  BY <1>1, InputFacts DEF TypeInv
<1>4. ReadBefore(first, todo) = LeftRead
  BY <1>1, <1>3, AllRead DEF LeftRead
<1>5. IsRest(todo', todo') /\ ReadBefore(todo', todo') = <<>>
  BY <1>3, NothingRead
<1>6. KeysAmong(join, <<>>) = {}
  BY DEF KeysAmong
<1>7. matched = KeysAmong(join, ReadBefore(todo', todo')) \cap DOMAIN table
  BY <1>1, <1>5, <1>6
<1>8. RescanInv'
  BY <1>1, <1>3, <1>4, <1>5, <1>7 DEF RescanInv, ReadOf, LeftRead, RightRead
<1>9. QED
  BY <1>1, <1>2, <1>8 DEF Inv, StartInv, BuildInv, ProbeInv, DoneInv

LEMMA RescanBatchInv ==
  ASSUME Inv, RescanBatch
  PROVE  Inv'
<1> DEFINE batch == Head(todo)
           ls == ReadBefore(second, todo)
<1>1. TypeInv /\ phase = "rescan" /\ todo # <<>> /\ phase' = "rescan" /\ todo' = Tail(todo)
      /\ matched' = matched \cup {KeyOf(LeftKeys(join), l) : l \in {l \in Range(batch) : Found(l)}}
      /\ join' = join /\ left' = left /\ right' = right /\ first' = first /\ second' = second
      /\ table' = table /\ output' = output
      /\ todo \in Seq(Seq(LeftRows(join))) /\ IsRest(todo, second) /\ Groups(join, table, RightRead)
      /\ matched = KeysAmong(join, ls) \cap DOMAIN table
      /\ output = BagWith(Probed(join, LeftRead, RightRead))
  BY DEF Inv, RescanInv, RescanBatch, given, ReadOf
<1>2. TypeInv'
  BY <1>1 DEF TypeInv
<1>3. second \in Seq(Seq(LeftRows(join)))
  BY <1>1, InputFacts DEF TypeInv
<1>4. batch \in Seq(LeftRows(join)) /\ Tail(todo) \in Seq(Seq(LeftRows(join))) /\ IsRest(Tail(todo), second)
      /\ ls \in Seq(LeftRows(join)) /\ ReadBefore(second, Tail(todo)) = ls \o batch
  BY <1>1, <1>3, MoreRead
<1> HIDE DEF batch, ls
<1>5. KeysAmong(join, ls \o batch) = KeysAmong(join, ls) \cup {LeftKeyOf(join, l) : l \in Range(batch)}
  BY <1>4, KeysAmongMore
<1>6. {KeyOf(LeftKeys(join), l) : l \in {l \in Range(batch) : Found(l)}}
        = {LeftKeyOf(join, l) : l \in Range(batch)} \cap DOMAIN table
  BY DEF Found, LeftKeyOf
<1>7. matched' = KeysAmong(join, ReadBefore(second, Tail(todo))) \cap DOMAIN table
  BY <1>1, <1>4, <1>5, <1>6
<1>8. RescanInv'
  BY <1>1, <1>4, <1>7 DEF RescanInv, ReadOf, LeftRead, RightRead
<1>9. QED
  BY <1>1, <1>2, <1>8 DEF Inv, StartInv, BuildInv, ProbeInv, DoneInv
-----------------------------------------------------------------------------
LEMMA EmitUnmatchedInv ==
  ASSUME Inv, EmitUnmatched
  PROVE  Inv'
<1> DEFINE O == OutRows(join)
           again == ReadBefore(second, todo)
           made == Unmatched
           f == Probed(join, LeftRead, RightRead)
           g == [x \in O |-> HowMany(made, {x})]
           h == Answered(join, LeftRead, LeftAgain, RightRead)
<1>1. TypeInv /\ phase = "rescan" /\ todo = <<>> /\ phase' = "done" /\ join.type = "Right"
      /\ output' = output (+) BagOf(made)
      /\ join' = join /\ left' = left /\ right' = right /\ first' = first /\ second' = second
      /\ todo \in Seq(Seq(LeftRows(join))) /\ IsRest(todo, second) /\ Groups(join, table, RightRead)
      /\ matched = KeysAmong(join, again) \cap DOMAIN table /\ output = BagWith(f)
  BY DEF Inv, RescanInv, EmitUnmatched, given, ReadOf, TypeInv
<1>2. TypeInv'
  BY <1>1 DEF TypeInv
<1>3. /\ second \in Seq(Seq(LeftRows(join))) /\ LeftRead \in Seq(LeftRows(join)) /\ LeftAgain \in Seq(LeftRows(join))
      /\ RightRead \in Seq(RightRows(join)) /\ join \in Joins
  BY <1>1, InputFacts DEF TypeInv, LeftRead, LeftAgain
<1>4. again = LeftAgain
  BY <1>1, <1>3, AllRead DEF LeftAgain
<1>5. made \in Seq(O) /\ \A x : HowMany(made, {x}) = Cardinality(LonelyRight(join, LeftAgain, RightRead, x))
  BY <1>1, <1>3, <1>4, UnmatchedCount
<1>6. f \in [O -> Nat] /\ h \in [O -> Nat]
  BY <1>3, ProbedIsCount
<1>7. h = [x \in O |-> f[x] + Cardinality(LonelyRight(join, LeftAgain, RightRead, x))]
  BY <1>1 DEF Answered
<1> HIDE DEF O, made, f, h
<1>8. BagOf(made) = BagWith(g)
  BY <1>5, BagOfCounts
<1>9. g \in [O -> Nat] /\ \A x \in O : g[x] = Cardinality(LonelyRight(join, LeftAgain, RightRead, x))
  BY <1>5, HowManyIsFinite
<1>10. h = [x \in O |-> f[x] + g[x]]
  BY <1>7, <1>9
<1> HIDE DEF g
<1>11. BagWith(f) (+) BagWith(g) = BagWith(h)
  BY <1>6, <1>9, <1>10, BagSum
<1>12. output' = BagWith(h)
  BY <1>1, <1>8, <1>11
<1>13. DoneInv'
  BY <1>1, <1>12 DEF DoneInv, LeftRead, LeftAgain, RightRead, h
<1>14. QED
  BY <1>1, <1>2, <1>13 DEF Inv, StartInv, BuildInv, ProbeInv, RescanInv

LEMMA StutterInv ==
  ASSUME Inv, UNCHANGED vars
  PROVE  Inv'
<1>1. join' = join /\ left' = left /\ right' = right /\ phase' = phase /\ todo' = todo /\ first' = first
      /\ second' = second /\ table' = table /\ matched' = matched /\ output' = output
  BY DEF vars
<1>2. TypeInv' /\ StartInv' /\ BuildInv' /\ ProbeInv' /\ RescanInv' /\ DoneInv'
  BY <1>1 DEF Inv, TypeInv, StartInv, BuildInv, ProbeInv, RescanInv, DoneInv, ReadOf, LeftRead, LeftAgain, RightRead
<1>3. QED
  BY <1>2 DEF Inv

\* The table groups what has been read of the right input, the output is what
\* the left rows read so far make of it, and matched holds the keys of the
\* second reading that the table has (HashJoinExec's generator).
THEOREM InvHolds == Spec => []Inv
<1>1. Inv /\ [Next]_vars => Inv'
  BY StartBuildInv, RefuseInv, BuildBatchInv, StartProbeInv, ProbeBatchInv, FinishInv, StartRescanInv,
     RescanBatchInv, EmitUnmatchedInv, FailsInv, StutterInv DEF Next
<1>2. QED
  BY InitInv, <1>1, PTL DEF Spec
-----------------------------------------------------------------------------
(***************************************************************************)
(* The answer.                                                             *)
(***************************************************************************)
\* Equal bags have the same keys.
LEMMA SameKeys ==
  ASSUME NEW j, NEW E, NEW ls \in Seq(E), NEW again \in Seq(E), BagOf(ls) = BagOf(again)
  PROVE  KeysAmong(j, ls) = KeysAmong(j, again)
<1>1. Range(ls) = Range(again)
  <2>1. DOMAIN BagOf(ls) = Range(ls) /\ DOMAIN BagOf(again) = Range(again)
    BY DEF BagOf
  <2>2. QED
    BY <2>1
<1>2. KeysAmong(j, ls) = {LeftKeyOf(j, l) : l \in Range(ls)} /\ KeysAmong(j, again) = {LeftKeyOf(j, l) : l \in Range(again)}
  BY DEF KeysAmong, Range
<1>3. QED
  BY <1>1, <1>2

LEMMA AnsweredTwice ==
  ASSUME NEW j, NEW ls, NEW again, NEW rs, j.type = "Right" => KeysAmong(j, ls) = KeysAmong(j, again)
  PROVE  Answered(j, ls, again, rs) = Answered(j, ls, ls, rs)
<1>1. CASE j.type = "Right"
  <2>1. \A x : LonelyRight(j, ls, rs, x) = LonelyRight(j, again, rs, x)
    BY <1>1 DEF LonelyRight
  <2>2. QED
    BY <2>1 DEF Answered
<1>2. CASE j.type # "Right"
  BY <1>2 DEF Answered
<1>3. QED
  BY <1>1, <1>2

\* Both equalities pair the same rows where no Nulls meet.
LEMMA NullsApart ==
  ASSUME NEW j, NEW l, NEW r,
         ~(LeftKeyOf(j, l) = RightKeyOf(j, r) /\ Null \in Range(LeftKeyOf(j, l)))
  PROVE  Agree(j, "NullEqualsNothing", l, r) <=> Agree(j, "NullEqualsNull", l, r)
<1>1. Agree(j, "NullEqualsNothing", l, r) => Agree(j, "NullEqualsNull", l, r)
  BY DEF Agree
<1>2. ASSUME Agree(j, "NullEqualsNull", l, r) PROVE Agree(j, "NullEqualsNothing", l, r)
  <2>1. LeftKeyOf(j, l) = RightKeyOf(j, r)
    BY <1>2, AgreeByKeys
  <2>2. Null \notin Range(LeftKeyOf(j, l))
    BY <2>1
  <2>3. LeftKeyOf(j, l) = [k \in DOMAIN j.on |-> l[PositionOf(j.leftNames, j.on[k][1])]]
    BY DEF LeftKeyOf, KeyOf, LeftKeys
  <2>4. \A k \in DOMAIN j.on : l[PositionOf(j.leftNames, j.on[k][1])] # Null
    BY <2>2, <2>3 DEF Range
  <2>5. QED
    BY <1>2, <2>4 DEF Agree, Range
<1>3. QED
  BY <1>1, <1>2

LEMMA RelationsApart ==
  ASSUME NEW j, NEW ls, NEW rs, ~NullsMeet(j, ls, rs)
  PROVE  Relation(j, "NullEqualsNothing", ls, rs) = Relation(j, "NullEqualsNull", ls, rs)
<1> DEFINE PairsOf(nulls) == {p \in (DOMAIN ls) \X (DOMAIN rs) : Agree(j, nulls, ls[p[1]], rs[p[2]])}
<1>1. ASSUME NEW i \in DOMAIN ls, NEW k \in DOMAIN rs
      PROVE  Agree(j, "NullEqualsNothing", ls[i], rs[k]) <=> Agree(j, "NullEqualsNull", ls[i], rs[k])
  <2>1. ls[i] \in Range(ls) /\ rs[k] \in Range(rs)
    BY DEF Range
  <2>2. ~(LeftKeyOf(j, ls[i]) = RightKeyOf(j, rs[k]) /\ Null \in Range(LeftKeyOf(j, ls[i])))
    BY <2>1 DEF NullsMeet, LeftKeyOf, RightKeyOf
  <2>3. QED
    BY <2>2, NullsApart
<1>2. PairsOf("NullEqualsNothing") = PairsOf("NullEqualsNull")
  BY <1>1
<1>3. QED
  BY <1>2 DEF Relation

\* The join as HashJoinExec does it, with Nulls that agree.
NullsAgree == Relation(join, "NullEqualsNull", FlattenSeq(first), FlattenSeq(right))

LEMMA InvAnswersNulls ==
  ASSUME Inv, phase = "done", Repeatable, ~SharesKeyOnRight
  PROVE  output = NullsAgree
<1>1. /\ join \in Joins /\ LeftRead \in Seq(LeftRows(join)) /\ RightRead \in Seq(RightRows(join))
      /\ join.type = "Right" => LeftAgain \in Seq(LeftRows(join))
  BY InputFacts DEF Inv, TypeInv, LeftRead, LeftAgain
<1>2. join.type = "Right" => DuplicateKeys(join) = {}
  BY DEF SharesKeyOnRight
<1>3. join.type = "Right" => KeysAmong(join, LeftRead) = KeysAmong(join, LeftAgain)
  BY <1>1, SameKeys DEF Repeatable, LeftRead, LeftAgain
<1>4. output = BagWith(Answered(join, LeftRead, LeftAgain, RightRead))
  BY DEF Inv, DoneInv
<1>5. Answered(join, LeftRead, LeftAgain, RightRead) = Answered(join, LeftRead, LeftRead, RightRead)
  BY <1>3, AnsweredTwice
<1>6. NullsAgree = BagWith(Answered(join, LeftRead, LeftRead, RightRead))
  BY <1>1, <1>2, RelationIsAnswered DEF NullsAgree, LeftRead, RightRead
<1>7. QED
  BY <1>4, <1>5, <1>6

LEMMA InvAnswers == Inv => AnswerIsTheJoin
<1> SUFFICES ASSUME Inv, phase = "done", Repeatable, ~SharesKeyOnRight, ~NullKeysMeet PROVE output = TheJoin
  BY DEF AnswerIsTheJoin
<1>1. output = NullsAgree
  BY InvAnswersNulls
<1>2. TheJoin = NullsAgree
  BY RelationsApart DEF NullKeysMeet, TheJoin, NullsAgree
<1>3. QED
  BY <1>1, <1>2

\* A join that has ended has given the rows of the relational join, each as
\* often as the relation has it, whatever the rows, the keys, the batches and
\* the errors on the way (HashJoinExec, against Join's schema and the equality
\* the planner asks for): if no Nulls meet in the keys, and for a right join if
\* its left input was the same twice and no key name is shared.
THEOREM AnswerIsTheJoinHolds == Spec => []AnswerIsTheJoin
<1>1. QED
  BY InvHolds, InvAnswers, PTL

\* Where Nulls meet the answer is the join in which they are equal, whichever
\* equality the planner asks for (HashJoinExec never reads null_equality).
THEOREM NullEqualityIsIgnored ==
  Spec => [](phase = "done" /\ Repeatable /\ ~SharesKeyOnRight => output = NullsAgree)
<1>1. Inv => (phase = "done" /\ Repeatable /\ ~SharesKeyOnRight => output = NullsAgree)
  BY InvAnswersNulls
<1>2. QED
  BY InvHolds, <1>1, PTL
=============================================================================
