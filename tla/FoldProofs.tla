----------------------------- MODULE FoldProofs -----------------------------
(***************************************************************************)
(* Induction over the natural numbers and over sequences, stated with sets *)
(* and functions, and what it gives of the folds the models are built      *)
(* from: a fold goes through one value per element.                        *)
(***************************************************************************)
EXTENDS Integers, Sequences, SequencesExt, FiniteSetsExt, SequenceTheorems, FiniteSetTheorems, WellFoundedInduction, TLAPS

(***************************************************************************)
(* Induction.                                                              *)
(***************************************************************************)
LEMMA LeastElement ==
  ASSUME NEW T, T \subseteq Nat, T # {}
  PROVE  \E x \in T : \A y \in T : x <= y
<1> DEFINE R == OpToRel(<, Nat)
<1>1. IsWellFoundedOn(R, Nat)
  BY NatLessThanWellFounded
<1>2. \A x, y \in Nat : <<y, x>> \in R <=> y < x
  BY DEF OpToRel
<1> HIDE DEF R
<1>3. PICK x \in T : \A y \in T : ~ (<<y, x>> \in R)
  BY <1>1, WFMin
<1>4. \A y \in T : y \in Nat /\ x \in Nat /\ ~(y < x)
  BY <1>2, <1>3
<1>5. QED
  BY <1>4

LEMMA SetInduction ==
  ASSUME NEW S, 0 \in S, \A n \in Nat : n \in S => n + 1 \in S
  PROVE  Nat \subseteq S
<1> SUFFICES ASSUME NEW k \in Nat, k \notin S PROVE FALSE
  OBVIOUS
<1> DEFINE T == {n \in Nat : n \notin S}
<1>1. PICK x \in T : \A y \in T : x <= y
  BY LeastElement
<1>2. x > 0 /\ x - 1 \in Nat /\ x - 1 \notin T
  BY <1>1
<1>3. QED
  BY <1>1, <1>2

\* Induction up to a bound.
LEMMA BoundedInduction ==
  ASSUME NEW n \in Nat, NEW S, 0 \in S, \A k \in 1..n : k - 1 \in S => k \in S
  PROVE  0..n \subseteq S
<1> DEFINE T == {k \in Nat : k <= n => k \in S}
<1>1. 0 \in T
  OBVIOUS
<1>2. \A k \in Nat : k \in T => k + 1 \in T
  OBVIOUS
<1> HIDE DEF T
<1>3. Nat \subseteq T
  BY <1>1, <1>2, SetInduction
<1>4. QED
  BY <1>3 DEF T
-----------------------------------------------------------------------------
(***************************************************************************)
(* Folds.                                                                  *)
(***************************************************************************)
\* What goes through a step for each of 1..n, from base on.
Passes(acc, n, base, step) ==
  acc[0] = base /\ \A k \in 1..n : acc[k] = step[<<k, acc[k - 1]>>]

LEMMA PassesExists ==
  ASSUME NEW n \in Nat, NEW V, NEW base \in V, NEW step \in [(1..n) \X V -> V]
  PROVE  \E acc \in [0..n -> V] : Passes(acc, n, base, step)
<1> DEFINE S == {m \in Nat : \E acc \in [0..m -> V] : Passes(acc, m, base, step)}
<1>1. 0 \in S
  <2>1. [k \in 0..0 |-> base] \in [0..0 -> V] /\ Passes([k \in 0..0 |-> base], 0, base, step)
    BY DEF Passes
  <2>2. QED
    BY <2>1
<1>2. ASSUME NEW k \in 1..n, k - 1 \in S PROVE k \in S
  <2>1. PICK acc \in [0..(k - 1) -> V] : Passes(acc, k - 1, base, step)
    BY <1>2
  <2> DEFINE longer == [j \in 0..k |-> IF j = k THEN step[<<k, acc[k - 1]>>] ELSE acc[j]]
  <2>2. longer \in [0..k -> V]
    BY <2>1
  <2>3. longer[0] = base /\ longer[k] = step[<<k, longer[k - 1]>>]
    <3>1. longer[0] = acc[0] /\ longer[k - 1] = acc[k - 1] /\ longer[k] = step[<<k, acc[k - 1]>>]
      OBVIOUS
    <3>2. QED
      BY <2>1, <3>1 DEF Passes
  <2>4. ASSUME NEW j \in 1..k PROVE longer[j] = step[<<j, longer[j - 1]>>]
    <3>1. CASE j = k
      BY <2>3, <3>1
    <3>2. CASE j # k
      <4>1. j \in 1..(k - 1) /\ longer[j] = acc[j] /\ longer[j - 1] = acc[j - 1]
        BY <3>2
      <4>2. QED
        BY <2>1, <4>1 DEF Passes
    <3>3. QED
      BY <3>1, <3>2
  <2> HIDE DEF longer
  <2>5. Passes(longer, k, base, step)
    BY <2>3, <2>4 DEF Passes
  <2>6. QED
    BY <2>2, <2>5
<1> HIDE DEF S
<1>3. 0..n \subseteq S
  BY <1>1, <1>2, BoundedInduction
<1>4. n \in S
  BY <1>3
<1>5. QED
  BY <1>4 DEF S

LEMMA PassesUnique ==
  ASSUME NEW n \in Nat, NEW base, NEW step, NEW a, NEW b,
         Passes(a, n, base, step), Passes(b, n, base, step)
  PROVE  \A k \in 0..n : a[k] = b[k]
<1> DEFINE S == {k \in 0..n : a[k] = b[k]}
<1>1. 0 \in S
  BY DEF Passes
<1>2. ASSUME NEW k \in 1..n, k - 1 \in S PROVE k \in S
  <2>1. a[k] = step[<<k, a[k - 1]>>] /\ b[k] = step[<<k, b[k - 1]>>]
    BY DEF Passes
  <2>2. QED
    BY <1>2, <2>1
<1> HIDE DEF S
<1>3. 0..n \subseteq S
  BY <1>1, <1>2, BoundedInduction
<1>4. QED
  BY <1>3 DEF S

\* A fold of the elements 1..n of a sequence takes them out of a set of
\* places, the last one first.
LEMMA MaxOfPlaces ==
  ASSUME NEW n \in Nat, NEW s \in SUBSET (1..n), s # {}
  PROVE  Max(s) \in s /\ \A x \in s : x <= Max(s)
<1> DEFINE T == {n - x : x \in s}
<1>1. T \subseteq Nat /\ T # {}
  <2>1. \A x \in s : x \in 1..n /\ n - x \in Nat
    OBVIOUS
  <2>2. QED
    BY <2>1
<1>2. PICK t \in T : \A u \in T : t <= u
  BY <1>1, LeastElement
<1>3. PICK x \in s : t = n - x
  BY <1>2
<1>4. \A y \in s : n - y \in T /\ y \in 1..n
  OBVIOUS
<1> HIDE DEF T
<1>5. \A y \in s : y <= x
  BY <1>2, <1>3, <1>4
<1>6. QED
  BY <1>3, <1>5 DEF Max

LEMMA MaxOfPrefix ==
  ASSUME NEW n \in Nat, NEW k \in 1..n
  PROVE  Max(1..k) = k /\ (1..k) \ {k} = 1..(k - 1) /\ 1..k \in SUBSET (1..n) /\ 1..k # {}
<1>1. 1..k \in SUBSET (1..n) /\ 1..k # {} /\ k \in 1..k
  OBVIOUS
<1>2. Max(1..k) \in 1..k /\ k <= Max(1..k)
  BY <1>1, MaxOfPlaces
<1>3. QED
  BY <1>1, <1>2

\* The step a fold takes on a set of places, given what it has for the rest.
FoldsTo(g, n, base, step) ==
  /\ g[{}] = base
  /\ \A s \in (SUBSET (1..n)) \ {{}} : g[s] = step[<<Max(s), g[s \ {Max(s)}]>>]

LEMMA FoldExists ==
  ASSUME NEW n \in Nat, NEW V, NEW base \in V, NEW step \in [(1..n) \X V -> V]
  PROVE  \E g \in [SUBSET (1..n) -> V] : FoldsTo(g, n, base, step)
<1> DEFINE S == {m \in 0..n : \E g \in [SUBSET (1..m) -> V] : FoldsTo(g, m, base, step)}
<1>1. 0 \in S
  <2> DEFINE g == [s \in SUBSET (1..0) |-> base]
  <2>1. g \in [SUBSET (1..0) -> V] /\ SUBSET (1..0) = {{}} /\ g[{}] = base
    OBVIOUS
  <2>2. FoldsTo(g, 0, base, step)
    BY <2>1 DEF FoldsTo
  <2>3. g \in [SUBSET (1..0) -> V]
    BY <2>1
  <2>4. \E h \in [SUBSET (1..0) -> V] : FoldsTo(h, 0, base, step)
    BY <2>2, <2>3
  <2>5. 0 \in 0..n
    OBVIOUS
  <2> HIDE DEF g
  <2>6. QED
    BY <2>4, <2>5
<1>2. ASSUME NEW m \in 1..n, m - 1 \in S PROVE m \in S
  <2>1. PICK g \in [SUBSET (1..(m - 1)) -> V] : FoldsTo(g, m - 1, base, step)
    BY <1>2
  <2> DEFINE h == [s \in SUBSET (1..m) |-> IF m \in s THEN step[<<m, g[s \ {m}]>>] ELSE g[s]]
  <2>2. \A s \in SUBSET (1..m) : s \ {m} \in SUBSET (1..(m - 1)) /\ (m \notin s => s \in SUBSET (1..(m - 1)))
    OBVIOUS
  <2>3. h \in [SUBSET (1..m) -> V]
    <3>1. ASSUME NEW s \in SUBSET (1..m)
          PROVE  (IF m \in s THEN step[<<m, g[s \ {m}]>>] ELSE g[s]) \in V
      BY <2>1, <2>2
    <3>2. QED
      BY <3>1
  <2>4. h[{}] = base
    BY <2>1 DEF FoldsTo
  <2>5. \A s \in SUBSET (1..m) : h[s] = IF m \in s THEN step[<<m, g[s \ {m}]>>] ELSE g[s]
    OBVIOUS
  <2> HIDE DEF h
  <2>6. ASSUME NEW s \in (SUBSET (1..m)) \ {{}} PROVE h[s] = step[<<Max(s), h[s \ {Max(s)}]>>]
    <3>1. Max(s) \in s /\ \A x \in s : x <= Max(s)
      <4>1. m \in Nat /\ s \in SUBSET (1..m) /\ s # {}
        OBVIOUS
      <4>2. QED
        BY <4>1, MaxOfPlaces
    <3>2. CASE m \in s
      <4>1. Max(s) = m
        <5>1. Max(s) \in 1..m /\ m <= Max(s)
          BY <3>1, <3>2
        <5>2. QED
          BY <5>1
      <4>2. h[s \ {m}] = g[s \ {m}]
        BY <2>2, <2>5
      <4>3. QED
        BY <2>5, <3>2, <4>1, <4>2
    <3>3. CASE m \notin s
      <4>1. h[s] = g[s] /\ h[s \ {Max(s)}] = g[s \ {Max(s)}]
        BY <2>5, <3>3
      <4>2. g[s] = step[<<Max(s), g[s \ {Max(s)}]>>]
        BY <2>1, <2>2, <3>3 DEF FoldsTo
      <4>3. QED
        BY <4>1, <4>2
    <3>4. QED
      BY <3>2, <3>3
  <2>7. FoldsTo(h, m, base, step)
    BY <2>4, <2>6 DEF FoldsTo
  <2>8. QED
    BY <2>3, <2>7
<1> HIDE DEF S
<1>3. 0..n \subseteq S
  BY <1>1, <1>2, BoundedInduction
<1>4. n \in S
  BY <1>3
<1>5. QED
  BY <1>4 DEF S

\* Whatever takes those steps where it stays among the values of a fold
\* passes through the prefixes.
FoldsAmong(g, V, n, base, step) ==
  /\ g[{}] = base
  /\ \A s \in (SUBSET (1..n)) \ {{}} :
       g[s \ {Max(s)}] \in V => g[s] = step[<<Max(s), g[s \ {Max(s)}]>>]

PassesTo(end, V, n, base, step) ==
  \E acc \in [0..n -> V] : Passes(acc, n, base, step) /\ acc[n] = end

LEMMA FoldPasses ==
  ASSUME NEW n \in Nat, NEW V, NEW base \in V, NEW step \in [(1..n) \X V -> V], NEW g,
         FoldsAmong(g, V, n, base, step)
  PROVE  PassesTo(g[1..n], V, n, base, step)
<1> DEFINE acc == [k \in 0..n |-> g[1..k]]
           S == {k \in 0..n : acc[k] \in V /\ (k > 0 => acc[k] = step[<<k, acc[k - 1]>>])}
<1>1. 0 \in S /\ acc[0] = base
  <2>1. 1..0 = {}
    OBVIOUS
  <2>2. QED
    BY <2>1 DEF FoldsAmong
<1>2. ASSUME NEW k \in 1..n, k - 1 \in S PROVE k \in S
  <2>1. Max(1..k) = k /\ (1..k) \ {k} = 1..(k - 1) /\ 1..k \in SUBSET (1..n) /\ 1..k # {}
    BY MaxOfPrefix
  <2>2. acc[k] = g[1..k] /\ acc[k - 1] = g[1..(k - 1)] /\ acc[k - 1] \in V
    BY <1>2
  <2>3. g[1..k] = step[<<k, g[1..(k - 1)]>>]
    <3> DEFINE s == 1..k
    <3>1. s \in (SUBSET (1..n)) \ {{}} /\ Max(s) = k /\ s \ {k} = 1..(k - 1)
      BY <2>1
    <3>2. g[1..(k - 1)] \in V
      BY <2>2
    <3> HIDE DEF s
    <3>3. QED
      BY <3>1, <3>2 DEF s, FoldsAmong
  <2>4. step[<<k, acc[k - 1]>>] \in V
    BY <2>2
  <2>5. QED
    BY <2>2, <2>3, <2>4
<1>3. acc[n] = g[1..n] /\ DOMAIN acc = 0..n /\ acc = [k \in 0..n |-> acc[k]]
  OBVIOUS
<1> HIDE DEF S
<1>4. 0..n \subseteq S
  BY <1>1, <1>2, BoundedInduction
<1>5. \A k \in 0..n : acc[k] \in V /\ (k > 0 => acc[k] = step[<<k, acc[k - 1]>>])
  BY <1>4 DEF S
<1> HIDE DEF acc
<1>6. acc \in [0..n -> V]
  BY <1>3, <1>5
<1>7. Passes(acc, n, base, step)
  BY <1>1, <1>5 DEF Passes
<1>8. QED
  BY <1>3, <1>6, <1>7 DEF PassesTo
-----------------------------------------------------------------------------
(***************************************************************************)
(* Sequences.                                                              *)
(***************************************************************************)
LEMMA AppendInduction ==
  ASSUME NEW E, NEW T, <<>> \in T, \A s \in Seq(E) : s \in T => \A e \in E : Append(s, e) \in T
  PROVE  Seq(E) \subseteq T
<1> DEFINE S == {n \in Nat : \A s \in Seq(E) : Len(s) = n => s \in T}
<1>1. 0 \in S
  <2>1. \A s \in Seq(E) : Len(s) = 0 => s = <<>>
    OBVIOUS
  <2>2. QED
    BY <2>1
<1>2. ASSUME NEW n \in Nat, n \in S PROVE n + 1 \in S
  <2> SUFFICES ASSUME NEW s \in Seq(E), Len(s) = n + 1 PROVE s \in T
    OBVIOUS
  <2> DEFINE front == SubSeq(s, 1, n)
  <2>1. front \in Seq(E) /\ Len(front) = n /\ s[n + 1] \in E
    OBVIOUS
  <2>2. s = Append(front, s[n + 1])
    OBVIOUS
  <2> HIDE DEF front
  <2>3. front \in T
    BY <1>2, <2>1
  <2>4. QED
    BY <2>1, <2>2, <2>3
<1> HIDE DEF S
<1>3. Nat \subseteq S
  BY <1>1, <1>2, SetInduction
<1>4. \A s \in Seq(E) : Len(s) \in S
  BY <1>3
<1>5. QED
  BY <1>4 DEF S

\* The sequences joined one after another.
Concats(acc, n, seqs) ==
  acc[0] = <<>> /\ \A k \in 1..n : acc[k] = acc[k - 1] \o seqs[k]

\* FlattenSeq goes through the sequences one after another.
LEMMA FlattenPasses ==
  ASSUME NEW R, NEW seqs \in Seq(Seq(R)), NEW n, n = Len(seqs)
  PROVE  \E acc \in [0..n -> Seq(R)] : Concats(acc, n, seqs) /\ FlattenSeq(seqs) = acc[n]
<1> DEFINE V == Seq(R)
           step == [p \in (1..n) \X V |-> p[2] \o seqs[p[1]]]
<1>1. n \in Nat /\ (\A k \in 1..n : seqs[k] \in V) /\ (n = 0 => seqs = <<>>)
  OBVIOUS
<1>2. <<>> \in V /\ \A v, w \in V : v \o w \in V
  OBVIOUS
<1>3. \A v \in V : <<>> \o v = v
  OBVIOUS
<1> HIDE DEF V
<1>4. step \in [(1..n) \X V -> V]
  <2>1. \A p \in (1..n) \X V : p[2] \in V /\ p[1] \in 1..n
    OBVIOUS
  <2>2. QED
    BY <1>1, <1>2, <2>1
<1>5. \A k \in 1..n : \A v \in V : step[<<k, v>>] = v \o seqs[k]
  OBVIOUS
<1> HIDE DEF step
<1>6. PICK acc \in [0..n -> V] : Passes(acc, n, <<>>, step)
  BY <1>1, <1>2, <1>4, PassesExists
<1>7. acc[0] = <<>>
  BY <1>6 DEF Passes
<1>8. ASSUME NEW k \in 1..n PROVE acc[k] = acc[k - 1] \o seqs[k]
  <2>1. k - 1 \in 0..n
    BY <1>1
  <2>2. acc[k - 1] \in V /\ acc[k] = step[<<k, acc[k - 1]>>]
    BY <1>6, <2>1 DEF Passes
  <2>3. QED
    BY <1>5, <2>2
<1>9. FlattenSeq(seqs) = acc[n]
  <2>1. CASE n = 0
    <3>1. seqs = <<>>
      BY <1>1, <2>1
    <3>2. QED
      BY <1>7, <2>1, <3>1 DEF FlattenSeq
  <2>2. CASE n # 0
    <3> DEFINE flat(f) == [i \in 1..n |-> IF i = 1 THEN seqs[i] ELSE f[i - 1] \o seqs[i]]
               fl == CHOOSE f : f = flat(f)
               made == [i \in 1..n |-> acc[i]]
    <3>1. FlattenSeq(seqs) = fl[n]
      <4>1. seqs # <<>>
        BY <2>2
      <4>2. QED
        BY <4>1 DEF FlattenSeq
    <3>2. acc[1] = seqs[1]
      <4>1. 1 \in 1..n /\ 1 - 1 = 0
        BY <1>1, <2>2
      <4>2. acc[1] = acc[0] \o seqs[1] /\ seqs[1] \in V
        BY <1>1, <1>8, <4>1
      <4>3. QED
        BY <1>3, <1>7, <4>2
    <3>3. made = flat(made)
      <4>1. ASSUME NEW i \in 1..n
            PROVE  acc[i] = IF i = 1 THEN seqs[i] ELSE made[i - 1] \o seqs[i]
        <5>1. CASE i = 1
          BY <3>2, <5>1
        <5>2. CASE i # 1
          <6>1. i - 1 \in 1..n
            BY <1>1, <5>2
          <6>2. made[i - 1] = acc[i - 1]
            BY <6>1
          <6>3. QED
            BY <1>8, <5>2, <6>2
        <5>3. QED
          BY <5>1, <5>2
      <4>2. QED
        BY <4>1
    <3>4. fl = flat(fl)
      BY <3>3
    <3> HIDE DEF fl
    <3>5. \A i \in 1..n : fl[i] = IF i = 1 THEN seqs[i] ELSE fl[i - 1] \o seqs[i]
      BY <3>4
    <3> DEFINE S == {k \in 0..n : k = 0 \/ fl[k] = acc[k]}
    <3>6. 0 \in S
      BY <1>1
    <3>7. ASSUME NEW k \in 1..n, k - 1 \in S PROVE k \in S
      <4>1. CASE k = 1
        BY <1>1, <3>2, <3>5, <4>1
      <4>2. CASE k # 1
        <5>1. fl[k - 1] = acc[k - 1]
          BY <1>1, <3>7, <4>2
        <5>2. fl[k] = fl[k - 1] \o seqs[k] /\ acc[k] = acc[k - 1] \o seqs[k]
          BY <1>8, <3>5, <4>2
        <5>3. fl[k] = acc[k]
          BY <5>1, <5>2
        <5>4. k \in 0..n
          BY <1>1
        <5>5. QED
          BY <5>3, <5>4
      <4>3. QED
        BY <4>1, <4>2
    <3> HIDE DEF S
    <3>8. 0..n \subseteq S
      BY <1>1, <3>6, <3>7, BoundedInduction
    <3>9. n \in S
      BY <1>1, <3>8
    <3>10. QED
      BY <2>2, <3>1, <3>9 DEF S
  <2>3. QED
    BY <2>1, <2>2
<1>10. QED
  BY <1>6, <1>7, <1>8, <1>9 DEF V, Concats

LEMMA FlattenProperties ==
  ASSUME NEW R, NEW seqs \in Seq(Seq(R))
  PROVE  /\ FlattenSeq(seqs) \in Seq(R)
         /\ seqs = <<>> => FlattenSeq(seqs) = <<>>
<1> DEFINE n == Len(seqs)
<1>1. n \in Nat /\ n \in 0..n /\ (seqs = <<>> => n = 0) /\ n = Len(seqs)
  OBVIOUS
<1> HIDE DEF n
<1>2. PICK acc \in [0..n -> Seq(R)] : Concats(acc, n, seqs) /\ FlattenSeq(seqs) = acc[n]
  BY <1>1, FlattenPasses
<1>3. QED
  BY <1>1, <1>2 DEF Concats

LEMMA FlattenLonger ==
  ASSUME NEW R, NEW seqs \in Seq(Seq(R)), NEW more \in Seq(Seq(R)), NEW n, NEW m,
         n = Len(seqs), m = Len(more), m = n + 1, \A k \in 1..n : more[k] = seqs[k]
  PROVE  FlattenSeq(more) = FlattenSeq(seqs) \o more[m]
<1>1. n \in Nat /\ m \in Nat /\ m - 1 = n /\ m \in 1..m /\ n \in 0..n
  OBVIOUS
<1>2. PICK a \in [0..n -> Seq(R)] : Concats(a, n, seqs) /\ FlattenSeq(seqs) = a[n]
  BY FlattenPasses
<1>3. PICK b \in [0..m -> Seq(R)] : Concats(b, m, more) /\ FlattenSeq(more) = b[m]
  BY FlattenPasses
<1> DEFINE S == {k \in 0..n : a[k] = b[k]}
<1>4. 0 \in S
  BY <1>1, <1>2, <1>3 DEF Concats
<1>5. ASSUME NEW k \in 1..n, k - 1 \in S PROVE k \in S
  <2>1. k \in 1..m /\ k \in 0..n
    BY <1>1
  <2>2. b[k] = b[k - 1] \o more[k] /\ a[k] = a[k - 1] \o seqs[k] /\ more[k] = seqs[k]
    BY <1>2, <1>3, <2>1 DEF Concats
  <2>3. a[k - 1] = b[k - 1]
    BY <1>5
  <2>4. QED
    BY <2>1, <2>2, <2>3
<1> HIDE DEF S
<1>6. 0..n \subseteq S
  BY <1>1, <1>4, <1>5, BoundedInduction
<1>7. n \in S
  BY ONLY <1>1, <1>6
<1>8. a[n] = b[n]
  BY <1>7 DEF S
<1>9. b[m] = b[m - 1] \o more[m] /\ m - 1 = n
  BY <1>1, <1>3 DEF Concats
<1>10. QED
  BY <1>2, <1>3, <1>8, <1>9

LEMMA FlattenAppend ==
  ASSUME NEW R, NEW seqs \in Seq(Seq(R)), NEW last \in Seq(R)
  PROVE  FlattenSeq(Append(seqs, last)) = FlattenSeq(seqs) \o last
<1> DEFINE more == Append(seqs, last)
<1>1. more \in Seq(Seq(R)) /\ Len(more) = Len(seqs) + 1 /\ more[Len(seqs) + 1] = last
      /\ \A k \in 1..Len(seqs) : more[k] = seqs[k]
  OBVIOUS
<1> HIDE DEF more
<1>2. FlattenSeq(more) = FlattenSeq(seqs) \o more[Len(more)]
  BY <1>1, FlattenLonger
<1>3. QED
  BY <1>1, <1>2 DEF more

LEMMA FlattenConcat ==
  ASSUME NEW R, NEW s \in Seq(Seq(R)), NEW t \in Seq(Seq(R))
  PROVE  FlattenSeq(s \o t) = FlattenSeq(s) \o FlattenSeq(t)
<1> DEFINE E == Seq(R)
           T == {u \in Seq(E) : FlattenSeq(s \o u) = FlattenSeq(s) \o FlattenSeq(u)}
<1>1. FlattenSeq(s) \in Seq(R) /\ s \in Seq(E) /\ t \in Seq(E)
  BY FlattenProperties
<1>2. <<>> \in T
  <2>1. s \o <<>> = s /\ <<>> \in Seq(E)
    BY <1>1, ConcatEmptySeq, EmptySeq
  <2>2. FlattenSeq(<<>>) = <<>>
    BY <2>1, FlattenProperties
  <2>3. FlattenSeq(s) \o <<>> = FlattenSeq(s)
    BY <1>1, ConcatEmptySeq
  <2>4. QED
    BY <2>1, <2>2, <2>3
<1>3. ASSUME NEW u \in Seq(E), u \in T, NEW e \in E PROVE Append(u, e) \in T
  <2>1. s \o Append(u, e) = Append(s \o u, e) /\ s \o u \in Seq(E) /\ Append(u, e) \in Seq(E)
    <3>1. s \in Seq(E)
      BY <1>1
    <3> HIDE DEF E
    <3>2. QED
      BY <3>1
  <2>2. FlattenSeq(Append(s \o u, e)) = FlattenSeq(s \o u) \o e
    BY <2>1, FlattenAppend
  <2>3. FlattenSeq(Append(u, e)) = FlattenSeq(u) \o e /\ FlattenSeq(u) \in Seq(R)
    BY FlattenAppend, FlattenProperties
  <2>4. FlattenSeq(s \o u) = FlattenSeq(s) \o FlattenSeq(u)
    BY <1>3
  <2>5. (FlattenSeq(s) \o FlattenSeq(u)) \o e = FlattenSeq(s) \o (FlattenSeq(u) \o e)
    BY <1>1, <2>3, ConcatAssociative, SMTT(30)
  <2>6. FlattenSeq(s \o Append(u, e)) = FlattenSeq(s) \o FlattenSeq(Append(u, e))
    BY <2>1, <2>2, <2>3, <2>4, <2>5
  <2>7. QED
    BY <2>1, <2>6
<1> HIDE DEF T, E
<1>4. Seq(E) \subseteq T
  BY <1>2, <1>3, AppendInduction
<1>5. t \in T
  BY <1>1, <1>4
<1>6. QED
  BY <1>5 DEF T

LEMMA MinOfTwo ==
  ASSUME NEW x \in Nat, NEW y \in Nat
  PROVE  Min({x, y}) = IF x <= y THEN x ELSE y
<1> DEFINE m == IF x <= y THEN x ELSE y
<1>1. m \in {x, y} /\ \A z \in {x, y} : m <= z
  OBVIOUS
<1>2. \A w \in {x, y} : (\A z \in {x, y} : w <= z) => w = m
  OBVIOUS
<1> HIDE DEF m
<1>3. Min({x, y}) = m
  BY <1>1, <1>2 DEF Min
<1>4. QED
  BY <1>3 DEF m

LEMMA ConcatEqual ==
  ASSUME NEW S, NEW s \in Seq(S), NEW t \in Seq(S), NEW u \in Seq(S), Len(u) = Len(s) + Len(t),
         \A i \in 1..Len(s) : u[i] = s[i],
         \A i \in 1..Len(t) : u[Len(s) + i] = t[i]
  PROVE  u = s \o t
<1>1. s \o t \in Seq(S) /\ Len(s \o t) = Len(s) + Len(t) /\ Len(s) \in Nat /\ Len(t) \in Nat
      /\ \A i \in 1..Len(s) + Len(t) : (s \o t)[i] = IF i <= Len(s) THEN s[i] ELSE t[i - Len(s)]
  BY ConcatProperties
<1>2. ASSUME NEW i \in 1..Len(u) PROVE u[i] = (s \o t)[i]
  <2>1. CASE i <= Len(s)
    <3>1. i \in 1..Len(s) /\ (s \o t)[i] = s[i]
      BY <1>1, <2>1
    <3>2. QED
      BY <3>1
  <2>2. CASE ~(i <= Len(s))
    <3>1. i - Len(s) \in 1..Len(t) /\ (s \o t)[i] = t[i - Len(s)] /\ Len(s) + (i - Len(s)) = i
      BY <1>1, <2>2
    <3>2. QED
      BY <3>1
  <2>3. QED
    BY <2>1, <2>2
<1>3. QED
  BY <1>1, <1>2, SeqEqual
-----------------------------------------------------------------------------
(***************************************************************************)
(* Batches: a sequence of sequences that is read from its head.            *)
(***************************************************************************)
LEMMA FlattenFront ==
  ASSUME NEW R, NEW bs \in Seq(Seq(R)), NEW a \in 0..Len(bs), NEW b \in a..Len(bs)
  PROVE  /\ FlattenSeq(SubSeq(bs, 1, b)) \in Seq(R)
         /\ FlattenSeq(SubSeq(bs, 1, b)) = FlattenSeq(SubSeq(bs, 1, a)) \o FlattenSeq(SubSeq(bs, a + 1, b))
         /\ FlattenSeq(SubSeq(bs, 1, a)) \in Seq(R) /\ FlattenSeq(SubSeq(bs, a + 1, b)) \in Seq(R)
<1> DEFINE E == Seq(R)
           s == SubSeq(bs, 1, a)
           t == SubSeq(bs, a + 1, b)
           u == SubSeq(bs, 1, b)
<1>1. bs \in Seq(E)
  OBVIOUS
<1> HIDE DEF E
<1>2. s \in Seq(E) /\ t \in Seq(E) /\ u \in Seq(E) /\ Len(s) = a /\ Len(t) = b - a /\ Len(u) = b
      /\ (\A i \in 1..a : s[i] = bs[i]) /\ (\A i \in 1..(b - a) : t[i] = bs[a + i]) /\ (\A i \in 1..b : u[i] = bs[i])
  BY <1>1
<1> HIDE DEF s, t, u
<1>3. Len(u) = Len(s) + Len(t) /\ (\A i \in 1..Len(s) : u[i] = s[i]) /\ (\A i \in 1..Len(t) : u[Len(s) + i] = t[i])
  <2>1. a \in Nat /\ b \in Nat /\ a <= b
    OBVIOUS
  <2>2. Len(u) = Len(s) + Len(t)
    BY <1>2, <2>1
  <2>3. \A i \in 1..Len(s) : i \in 1..b /\ u[i] = s[i]
    <3>1. \A i \in 1..a : i \in 1..b
      BY <2>1
    <3>2. \A i \in 1..a : u[i] = bs[i] /\ s[i] = bs[i]
      BY ONLY <1>2, <3>1
    <3>3. QED
      BY ONLY <1>2, <3>1, <3>2
  <2>4. \A i \in 1..Len(t) : a + i \in 1..b /\ u[a + i] = t[i]
    BY <1>2, <2>1
  <2>5. QED
    BY <1>2, <2>2, <2>3, <2>4
<1>4. u = s \o t
  BY <1>2, <1>3, ConcatEqual
<1>5. FlattenSeq(s \o t) = FlattenSeq(s) \o FlattenSeq(t)
  BY <1>2, FlattenConcat DEF E
<1>6. FlattenSeq(u) \in Seq(R) /\ FlattenSeq(s) \in Seq(R) /\ FlattenSeq(t) \in Seq(R)
  BY <1>2, FlattenProperties DEF E
<1>7. QED
  BY <1>4, <1>5, <1>6 DEF s, t, u

\* The batches a sequence no longer has.
Gone(all, rest) == Len(all) - Len(rest)
IsRest(rest, all) == Len(rest) <= Len(all) /\ rest = SubSeq(all, Gone(all, rest) + 1, Len(all))

LEMMA RestFacts ==
  ASSUME NEW E, NEW all \in Seq(E), NEW rest \in Seq(E), IsRest(rest, all)
  PROVE  /\ Gone(all, rest) \in 0..Len(all)
         /\ rest = <<>> => Gone(all, rest) = Len(all)
         /\ rest # <<>> => /\ Gone(all, rest) + 1 \in 1..Len(all)
                           /\ Head(rest) = all[Gone(all, rest) + 1]
                           /\ IsRest(Tail(rest), all)
                           /\ Gone(all, Tail(rest)) = Gone(all, rest) + 1
<1> DEFINE n == Len(all)
           l == Len(rest)
           g == Gone(all, rest)
<1>1. n \in Nat /\ l \in Nat
  OBVIOUS
<1>2. rest = SubSeq(all, g + 1, n) /\ l <= n /\ g = n - l
  BY DEF IsRest, Gone
<1>3. (rest = <<>>) <=> l = 0
  OBVIOUS
<1> HIDE DEF n, l, g
<1>4. g \in 0..n /\ (l = 0 => g = n)
  BY <1>1, <1>2
<1>5. ASSUME rest # <<>>
      PROVE  /\ g + 1 \in 1..n /\ Head(rest) = all[g + 1]
             /\ IsRest(Tail(rest), all) /\ Gone(all, Tail(rest)) = g + 1
  <2>1. l # 0 /\ g + 1 \in 1..n
    BY <1>1, <1>2, <1>3, <1>4, <1>5
  <2>2. \A i \in 1..l : rest[i] = all[g + i]
    <3>1. \A i \in 1..(n - (g + 1) + 1) : SubSeq(all, g + 1, n)[i] = all[(g + 1) + i - 1]
      BY <1>1, <1>4, <2>1 DEF n
    <3>2. n - (g + 1) + 1 = l /\ \A i \in 1..l : (g + 1) + i - 1 = g + i
      BY <1>1, <1>2, <1>4
    <3>3. QED
      BY <1>2, <3>1, <3>2
  <2>3. Head(rest) = all[g + 1]
    <3>1. Head(rest) = rest[1] /\ 1 \in 1..l
      BY <1>1, <1>5, <2>1 DEF l
    <3>2. QED
      BY <2>2, <3>1
  <2> DEFINE t == Tail(rest)
             u == SubSeq(all, g + 2, n)
  <2>4. t \in Seq(E) /\ Len(t) = l - 1 /\ \A i \in 1..Len(t) : t[i] = rest[i + 1]
    BY <1>5 DEF l
  <2>5. u \in Seq(E) /\ Len(u) = n - (g + 2) + 1 /\ \A i \in 1..Len(u) : u[i] = all[(g + 2) + i - 1]
    BY <1>1, <1>4, <2>1 DEF n
  <2> HIDE DEF t, u
  <2>6. Len(t) = Len(u) /\ n - (l - 1) = g + 1
    <3>1. n \in Nat /\ l \in Nat /\ g = n - l
      BY <1>1, <1>2
    <3>2. Len(t) = l - 1 /\ Len(u) = n - (g + 2) + 1
      BY <2>4, <2>5
    <3>3. QED
      BY ONLY <3>1, <3>2
  <2>7. ASSUME NEW i \in 1..Len(t) PROVE t[i] = u[i]
    <3>1. i + 1 \in 1..l /\ g + (i + 1) = (g + 2) + i - 1
      BY <1>1, <1>4, <2>1, <2>4
    <3>2. QED
      BY <2>2, <2>4, <2>5, <2>6, <3>1
  <2>8. t = u
    BY <2>4, <2>5, <2>6, <2>7, SeqEqual
  <2>9. Gone(all, t) = g + 1
    BY <2>4, <2>6 DEF Gone, n
  <2>10. Len(t) <= n /\ (g + 1) + 1 = g + 2
    BY <1>1, <1>2, <1>4, <2>4
  <2>11. IsRest(t, all)
    BY <2>8, <2>9, <2>10 DEF IsRest, u, n
  <2>12. QED
    BY <2>1, <2>3, <2>9, <2>11 DEF t
<1>6. QED
  BY <1>3, <1>4, <1>5 DEF g, n

LEMMA AllIsLeft ==
  ASSUME NEW E, NEW all \in Seq(E)
  PROVE  IsRest(all, all) /\ Gone(all, all) = 0
<1>1. Len(all) \in Nat /\ Len(all) - Len(all) = 0 /\ SubSeq(all, 0 + 1, Len(all)) = all
  OBVIOUS
<1>2. QED
  BY <1>1 DEF IsRest, Gone
-----------------------------------------------------------------------------
(***************************************************************************)
(* Sums over finite sets.                                                  *)
(***************************************************************************)
\* The element a sum takes out of a set.
One(s) == CHOOSE x \in s : TRUE

Rest(s) == s \ {One(s)}

LEMMA OneIsTaken ==
  ASSUME NEW D, IsFiniteSet(D), NEW s \in SUBSET D, s # {}
  PROVE  /\ One(s) \in s /\ Rest(s) \in SUBSET D
         /\ Cardinality(s) \in Nat \ {0} /\ Cardinality(Rest(s)) = Cardinality(s) - 1
<1>1. One(s) \in s
  BY DEF One
<1>2. IsFiniteSet(s)
  BY FS_Subset
<1>3. Cardinality(s) \in Nat /\ Cardinality(s) # 0
  BY <1>2, FS_CardinalityType, FS_EmptySet
<1>4. Cardinality(s \ {One(s)}) = Cardinality(s) - 1
  BY <1>1, <1>2, FS_RemoveElement
<1>5. QED
  BY <1>1, <1>3, <1>4 DEF Rest

\* What holds of the empty set, and of a set when it holds of the rest, holds
\* of a finite set and its subsets.
LEMMA RestInduction ==
  ASSUME NEW D, IsFiniteSet(D), NEW W, {} \in W, \A s \in (SUBSET D) \ {{}} : Rest(s) \in W => s \in W
  PROVE  SUBSET D \subseteq W
<1> DEFINE n == Cardinality(D)
           S == {k \in 0..n : \A s \in SUBSET D : Cardinality(s) = k => s \in W}
<1>1. n \in Nat /\ \A s \in SUBSET D : IsFiniteSet(s) /\ Cardinality(s) \in 0..n
  <2>1. n \in Nat
    BY FS_CardinalityType
  <2>2. ASSUME NEW s \in SUBSET D PROVE IsFiniteSet(s) /\ Cardinality(s) \in Nat /\ Cardinality(s) <= n
    BY FS_Subset, FS_CardinalityType
  <2>3. QED
    BY <2>1, <2>2
<1>2. 0 \in S
  BY <1>1, FS_EmptySet
<1>3. ASSUME NEW k \in 1..n, k - 1 \in S PROVE k \in S
  <2>1. ASSUME NEW s \in SUBSET D, Cardinality(s) = k PROVE s \in W
    <3>1. s # {}
      BY <1>1, <2>1, FS_EmptySet
    <3>2. Rest(s) \in SUBSET D /\ Cardinality(Rest(s)) = k - 1
      BY <2>1, <3>1, OneIsTaken
    <3>3. QED
      BY <1>3, <3>1, <3>2
  <2>2. QED
    BY <2>1
<1> HIDE DEF S
<1>4. 0..n \subseteq S
  BY <1>1, <1>2, <1>3, BoundedInduction
<1>5. QED
  BY <1>1, <1>4 DEF S

\* What the sums of f are over the subsets of a set.
SumsOn(g, D, f) ==
  /\ g[{}] = 0
  /\ \A s \in (SUBSET D) \ {{}} : g[s] = f[One(s)] + g[Rest(s)]

LEMMA SumsExist ==
  ASSUME NEW D, IsFiniteSet(D), NEW f, \A x \in D : f[x] \in Nat
  PROVE  \E g \in [SUBSET D -> Nat] : SumsOn(g, D, f)
<1> DEFINE n == Cardinality(D)
           UpTo(k) == {s \in SUBSET D : Cardinality(s) <= k}
           Until(g, k) == g[{}] = 0 /\ \A s \in UpTo(k) \ {{}} : g[s] = f[One(s)] + g[Rest(s)]
           S == {k \in 0..n : \E g \in [UpTo(k) -> Nat] : Until(g, k)}
<1>1. n \in Nat /\ \A s \in SUBSET D : Cardinality(s) \in 0..n
  <2>1. n \in Nat
    BY FS_CardinalityType
  <2>2. ASSUME NEW s \in SUBSET D PROVE Cardinality(s) \in Nat /\ Cardinality(s) <= n
    BY FS_Subset, FS_CardinalityType
  <2>3. QED
    BY <2>1, <2>2
<1>2. {} \in SUBSET D /\ Cardinality({}) = 0
  BY FS_EmptySet
<1>3. 0 \in S
  <2> DEFINE g == [s \in UpTo(0) |-> 0]
  <2>1. UpTo(0) = {{}}
    BY <1>1, <1>2, FS_EmptySet, FS_Subset
  <2>2. g \in [UpTo(0) -> Nat] /\ Until(g, 0)
    BY <2>1
  <2>3. 0 \in 0..n
    BY <1>1
  <2> HIDE DEF g, Until, UpTo
  <2>4. QED
    BY <2>2, <2>3
<1>4. ASSUME NEW k \in 1..n, k - 1 \in S PROVE k \in S
  <2>1. PICK g \in [UpTo(k - 1) -> Nat] : Until(g, k - 1)
    BY <1>4
  <2> DEFINE h == [s \in UpTo(k) |-> IF s = {} THEN 0 ELSE f[One(s)] + g[Rest(s)]]
  <2>2. ASSUME NEW s \in UpTo(k) \ {{}} PROVE Rest(s) \in UpTo(k - 1) /\ f[One(s)] \in Nat /\ Rest(s) \in UpTo(k)
    <3>1. s \in SUBSET D /\ s # {} /\ Cardinality(s) <= k
      BY <2>2
    <3>2. One(s) \in s /\ Rest(s) \in SUBSET D /\ Cardinality(s) \in Nat \ {0} /\ Cardinality(Rest(s)) = Cardinality(s) - 1
      BY <3>1, OneIsTaken
    <3>3. QED
      BY <1>1, <3>1, <3>2
  <2>3. h \in [UpTo(k) -> Nat]
    <3>1. ASSUME NEW s \in UpTo(k) PROVE (IF s = {} THEN 0 ELSE f[One(s)] + g[Rest(s)]) \in Nat
      <4>1. CASE s # {}
        <5>1. f[One(s)] \in Nat /\ g[Rest(s)] \in Nat
          BY <2>1, <2>2, <4>1
        <5>2. QED
          BY <4>1, <5>1
      <4>2. QED
        BY <4>1
    <3>2. QED
      BY <3>1
  <2>4. h[{}] = 0
    BY <1>1, <1>2
  <2>5. ASSUME NEW s \in UpTo(k - 1) PROVE h[s] = g[s]
    <3>1. s \in UpTo(k)
      BY <1>1, <2>5
    <3>2. h[s] = IF s = {} THEN 0 ELSE f[One(s)] + g[Rest(s)]
      BY <3>1
    <3> HIDE DEF h, UpTo
    <3>3. QED
      BY <2>1, <2>5, <3>2
  <2>6. ASSUME NEW s \in UpTo(k) \ {{}} PROVE h[s] = f[One(s)] + h[Rest(s)]
    <3>1. h[s] = f[One(s)] + g[Rest(s)]
      BY <2>6
    <3> HIDE DEF h, UpTo
    <3>2. QED
      BY <2>2, <2>5, <3>1
  <2> HIDE DEF h
  <2>7. Until(h, k)
    BY <2>4, <2>6
  <2>8. k \in 0..n
    BY <1>1
  <2> HIDE DEF Until, UpTo
  <2>9. QED
    BY <2>3, <2>7, <2>8
<1> HIDE DEF S
<1>5. 0..n \subseteq S
  BY <1>1, <1>3, <1>4, BoundedInduction
<1>6. PICK g \in [UpTo(n) -> Nat] : Until(g, n)
  BY <1>1, <1>5 DEF S
<1>7. UpTo(n) = SUBSET D
  BY <1>1
<1> HIDE DEF UpTo
<1>8. QED
  BY <1>6, <1>7 DEF SumsOn

LEMMA SumIsOfSums ==
  ASSUME NEW D, IsFiniteSet(D), NEW f, \A x \in D : f[x] \in Nat
  PROVE  \E g \in [SUBSET D -> Nat] : SumsOn(g, D, f) /\ SumFunctionOnSet(f, D) = g[D]
<1> DEFINE eq(g) == [s \in SUBSET D |-> IF s = {} THEN 0 ELSE LET x == CHOOSE x \in s : TRUE IN f[x] + g[s \ {x}]]
           fold == CHOOSE g : g = eq(g)
<1>1. SumFunctionOnSet(f, D) = fold[D]
  BY DEF SumFunctionOnSet, FoldFunctionOnSet, MapThenFoldSet
<1>2. PICK g \in [SUBSET D -> Nat] : SumsOn(g, D, f)
  BY SumsExist
<1>3. g = eq(g)
  BY <1>2 DEF SumsOn, One, Rest
<1>4. fold = eq(fold)
  BY <1>3
<1> HIDE DEF fold
<1>5. fold[{}] = 0
  BY <1>4
<1>6. ASSUME NEW s \in (SUBSET D) \ {{}} PROVE fold[s] = f[One(s)] + fold[Rest(s)]
  BY <1>4 DEF One, Rest
<1> DEFINE W == {s \in SUBSET D : fold[s] \in Nat}
<1>7. {} \in W
  BY <1>5
<1>8. \A s \in (SUBSET D) \ {{}} : Rest(s) \in W => s \in W
  <2>1. ASSUME NEW s \in (SUBSET D) \ {{}}, Rest(s) \in W PROVE s \in W
    <3>1. One(s) \in D
      BY OneIsTaken
    <3>2. f[One(s)] \in Nat /\ fold[Rest(s)] \in Nat
      BY <2>1, <3>1
    <3>3. QED
      BY <1>6, <3>2
  <2>2. QED
    BY <2>1
<1> HIDE DEF W
<1>9. SUBSET D \subseteq W
  BY <1>7, <1>8, RestInduction
<1>10. fold = [s \in SUBSET D |-> fold[s]] /\ \A s \in SUBSET D : fold[s] \in Nat
  <2>1. DOMAIN fold = SUBSET D /\ fold = [s \in DOMAIN fold |-> fold[s]]
    BY <1>4
  <2>2. QED
    BY <1>9, <2>1 DEF W
<1>11. fold \in [SUBSET D -> Nat]
  BY <1>10
<1>12. SumsOn(fold, D, f)
  BY <1>5, <1>6 DEF SumsOn
<1>13. QED
  BY <1>1, <1>11, <1>12
=============================================================================
