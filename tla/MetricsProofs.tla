--------------------------- MODULE MetricsProofs ---------------------------
(***************************************************************************)
(* That Metrics keeps TimeIsCountedOnce, EndCoversTheStream,               *)
(* ReportsAreBetween, BytesCoverTheBatches and SkewMeasuresBalance: the    *)
(* cells an operator writes are its own, its time is no longer than it is  *)
(* open, whoever drops its handles leaves an end behind, the shared list   *)
(* only grows, so that a reader sees what lies between, the bytes are the  *)
(* sizes of the batches, one by one, and the skew is the part of the sum   *)
(* of squares that is spread.                                              *)
(***************************************************************************)
EXTENDS Metrics, FoldProofs, FiniteSetTheorems

Kept == {"stream", "clone"}

StreamState == {"new", "idle", "polling", "rows", "bytes", "recorded", "ending", "ended", "over"}

Stream == [pc : StreamState, base : Nat, batch : Nat, timer : Nat \cup {None},
           polls : Nat, last : Nat \cup {None}]

Handle == [pc : {"none", "held", "checked", "stamped", "gone"}, stamp : Nat \cup {None}]

\* What the steps of one operator and of its handles leave well-formed.
TypeInv ==
  /\ plan \in Plans
  /\ clock \in Nat
  /\ op \in [Partitions -> Stream]
  /\ handle \in [Partitions -> [Kept -> Handle]]

\* The metrics of partition p are those behind its base.
RegionOf(p) == op[p].base + 1..op[p].base + 6 + Len(Extras[p])

HasCell(m) == /\ "value" \in DOMAIN m
              /\ "cells" \in DOMAIN m.value
              /\ 1 \in DOMAIN m.value.cells

\* The registry is a list, and each operator has a place of its own in it.
RegistryInv ==
  /\ \E S : registry \in Seq(S)
  /\ \A p \in Opened : RegionOf(p) \subseteq 1..Len(registry)
  /\ \A p, q \in Opened : p # q => RegionOf(p) \cap RegionOf(q) = {}
  /\ \A p \in Opened : \A kind \in DOMAIN Offset : HasCell(registry[Index(p, kind)])

CellTypes(p) ==
  /\ Cell(p, "StartTimestamp") \in Nat
  /\ Cell(p, "EndTimestamp") \in Nat \cup {None}
  /\ Cell(p, "ElapsedCompute") \in Nat

\* A timer that runs has counted nothing of its interval yet.
TimeOf(p) ==
  LET start   == Cell(p, "StartTimestamp")
      elapsed == Cell(p, "ElapsedCompute")
      timer   == op[p].timer
  IN  /\ start <= clock
      /\ timer = None => elapsed <= clock - start + op[p].polls
      /\ timer # None => timer <= clock /\ elapsed + 1 <= timer - start + op[p].polls
      /\ op[p].pc \in {"idle", "over"} => timer = None

HasStamp(p, h) == handle[p][h].pc = "stamped"

\* An end that was written, or is going to be, is not before the start; it is
\* behind the last batch too if the stream's own handle is the only one.
EndOf(p) ==
  LET start == Cell(p, "StartTimestamp")
      end   == Cell(p, "EndTimestamp")
      last  == op[p].last
      own   == handle[p].stream
  IN  /\ end # None => start <= end
      /\ \A h \in Kept : HasStamp(p, h) => handle[p][h].stamp \in Nat /\ start <= handle[p][h].stamp
      /\ \A h \in Kept : handle[p][h].pc = "gone" => end # None
      /\ op[p].pc \in {"ended", "over"} => end # None
      /\ own.pc = "held" => op[p].pc # "ending"
      /\ own.pc \in {"checked", "gone"} => op[p].pc \in {"idle", "over"}
      /\ own.pc = "stamped" => op[p].pc \in {"idle", "over", "ending"}
      /\ last # None => last <= clock
      /\ handle[p].clone.pc = "none" =>
           /\ own.pc = "stamped" /\ last # None => last <= own.stamp
           /\ end # None /\ last # None => last <= end
           /\ end # None => own.pc = "gone" \/ op[p].pc \in {"ended", "over"}

\* Nothing has happened to a stream that was not opened.
NewOf(p) == /\ \A h \in Kept : handle[p][h].pc = "none"
            /\ op[p].timer = None /\ op[p].last = None /\ op[p].polls = 0

PartitionInv(p) == IF p \in Opened THEN CellTypes(p) /\ TimeOf(p) /\ EndOf(p) ELSE NewOf(p)

MInv == TypeInv /\ RegistryInv /\ \A p \in Partitions : PartitionInv(p)
-----------------------------------------------------------------------------
(***************************************************************************)
(* What is written in the registry.                                        *)
(***************************************************************************)
Written(r, i, x) == [r EXCEPT ![i].value.cells[1] = x]

\* One cell of a list of metrics is written: nothing else of it changes.
LEMMA WriteOneCell ==
  ASSUME NEW S, NEW r \in Seq(S), NEW i \in 1..Len(r), HasCell(r[i]), NEW x,
         NEW w, w = Written(r, i, x)
  PROVE  /\ \E T : w \in Seq(T)
         /\ Len(w) = Len(r)
         /\ HasCell(w[i]) /\ w[i].value.cells[1] = x
         /\ \A k \in 1..Len(r) : k # i => w[k] = r[k]
<1> DEFINE m == [r[i] EXCEPT !.value.cells[1] = x]
           v == [r[i].value EXCEPT !.cells[1] = x]
           c == [r[i].value.cells EXCEPT ![1] = x]
<1>1. 1 \in DOMAIN c /\ c[1] = x
  BY DEF HasCell
<1>2. "cells" \in DOMAIN v /\ v.cells = c
  BY DEF HasCell
<1>3. "value" \in DOMAIN m /\ m.value = v
  BY DEF HasCell
<1>4. w = [r EXCEPT ![i] = m]
  BY DEF Written
<1> HIDE DEF c, v
<1>5. HasCell(m) /\ m.value.cells[1] = x
  BY <1>1, <1>2, <1>3 DEF HasCell
<1> HIDE DEF m
<1>6. r \in [1..Len(r) -> S] /\ Len(r) \in Nat
  OBVIOUS
<1>7. [r EXCEPT ![i] = m] \in [1..Len(r) -> S \cup {m}]
  BY <1>6
<1>8. [r EXCEPT ![i] = m] \in Seq(S \cup {m}) /\ Len([r EXCEPT ![i] = m]) = Len(r)
  BY <1>6, <1>7
<1>9. QED
  BY <1>4, <1>5, <1>6, <1>8

LEMMA InItsRegion ==
  ASSUME TypeInv, NEW q \in Opened, NEW kind \in DOMAIN Offset
  PROVE  Index(q, kind) \in RegionOf(q)
<1>1. op[q].base \in Nat /\ Len(Extras[q]) \in Nat
  BY ExtrasAssumption DEF TypeInv, Opened, Partitions, Batches, Stream
<1>2. Offset[kind] \in 1..6
  BY DEF Offset
<1>3. \A b, l \in Nat : \A o \in 1..6 : b + o \in b + 1..b + 6 + l
  OBVIOUS
<1>4. QED
  BY <1>1, <1>2, <1>3 DEF Index, RegionOf

\* An operator writes one of its cells: the registry keeps its shape, and no
\* other cell changes.
LEMMA WriteCell ==
  ASSUME TypeInv, RegistryInv, NEW p \in Opened, NEW kind \in DOMAIN Offset, NEW x,
         registry' = After(p, kind, x), plan' = plan, Opened' = Opened,
         \A q \in Partitions : op'[q].base = op[q].base
  PROVE  /\ RegistryInv'
         /\ Cell(p, kind)' = x
         /\ \A q \in Opened : \A k \in DOMAIN Offset :
              (q # p \/ k # kind) => Cell(q, k)' = Cell(q, k)
<1> DEFINE i == Index(p, kind)
<1>1. PICK S : registry \in Seq(S)
  BY DEF RegistryInv
<1>2. \A k \in DOMAIN Offset : Offset[k] \in 1..6 /\ \A l \in DOMAIN Offset : Offset[k] = Offset[l] => k = l
  BY DEF Offset
<1>3. \A q \in Opened : op[q].base \in Nat /\ Len(Extras[q]) \in Nat /\ op'[q].base = op[q].base
  BY ExtrasAssumption DEF TypeInv, Opened, Partitions, Batches, Stream
<1>4. \A q \in Opened : \A k \in DOMAIN Offset : Index(q, k) \in RegionOf(q) /\ Index(q, k)' = Index(q, k)
  BY <1>2, <1>3, SMTT(30) DEF Index, RegionOf
<1>5. \A q \in Opened : \A k \in DOMAIN Offset : Index(q, k) \in 1..Len(registry)
  BY <1>4 DEF RegistryInv
<1>6. \A q \in Opened : \A k \in DOMAIN Offset : (q # p \/ k # kind) => Index(q, k) # i
  <2> TAKE q \in Opened
  <2> TAKE k \in DOMAIN Offset
  <2>1. CASE q # p
    BY <1>4, <2>1 DEF RegistryInv
  <2>2. CASE q = p /\ k # kind
    BY <1>2, <1>3, <2>2 DEF Index
  <2>3. QED
    BY <2>1, <2>2
<1>7. HasCell(registry[i]) /\ i \in 1..Len(registry)
  BY <1>5 DEF RegistryInv
<1>7a. registry' = Written(registry, i, x)
  BY DEF After, Written
<1> HIDE DEF i
<1>8. /\ \E T : registry' \in Seq(T)
      /\ Len(registry') = Len(registry)
      /\ HasCell(registry'[i]) /\ registry'[i].value.cells[1] = x
      /\ \A k \in 1..Len(registry) : k # i => registry'[k] = registry[k]
  BY <1>1, <1>7, <1>7a, WriteOneCell
<1>9. \A q \in Opened : RegionOf(q)' = RegionOf(q)
  BY <1>3 DEF RegionOf
<1>10. \A q \in Opened : \A k \in DOMAIN Offset : HasCell(registry'[Index(q, k)])
  BY <1>5, <1>6, <1>7, <1>8 DEF RegistryInv, i
<1>11. RegistryInv'
  BY <1>4, <1>8, <1>9, <1>10 DEF RegistryInv, Offset
<1>12. Cell(p, kind)' = x
  BY <1>4, <1>8 DEF Cell, i
<1>13. \A q \in Opened : \A k \in DOMAIN Offset : (q # p \/ k # kind) => Cell(q, k)' = Cell(q, k)
  BY <1>4, <1>5, <1>6, <1>8 DEF Cell
<1>14. QED
  BY <1>11, <1>12, <1>13

\* What a step that writes nothing keeps.
LEMMA WriteNothing ==
  ASSUME TypeInv, RegistryInv, registry' = registry, plan' = plan, Opened' = Opened,
         \A q \in Partitions : op'[q].base = op[q].base
  PROVE  RegistryInv' /\ \A q \in Opened : \A k \in DOMAIN Offset : Cell(q, k)' = Cell(q, k)
<1>1. \A q \in Opened : op'[q].base = op[q].base
  BY DEF Opened
<1>2. \A q \in Opened : RegionOf(q)' = RegionOf(q)
  BY <1>1 DEF RegionOf
<1>3. \A q \in Opened : \A k \in DOMAIN Offset : Index(q, k)' = Index(q, k)
  BY <1>1 DEF Index, Offset
<1>4. \A q \in Opened : \A k \in DOMAIN Offset : HasCell(registry[Index(q, k)])'
  BY <1>3 DEF RegistryInv, Offset
<1>5. RegistryInv'
  BY <1>2, <1>4 DEF RegistryInv, Offset
<1>6. QED
  BY <1>3, <1>5 DEF Cell

\* A partition that takes no step keeps its invariant while the clock moves on.
LEMMA FramePartition ==
  ASSUME TypeInv, TypeInv', NEW q \in Partitions, PartitionInv(q), plan' = plan, clock <= clock',
         op'[q] = op[q], handle'[q] = handle[q],
         q \in Opened => \A k \in DOMAIN Offset : Cell(q, k)' = Cell(q, k)
  PROVE  PartitionInv(q)'
<1>1. q \in Opened' <=> q \in Opened
  BY DEF Opened, Partitions, Batches
<1>2. CASE q \notin Opened
  BY <1>1, <1>2 DEF PartitionInv, NewOf
<1>3. CASE q \in Opened
  <2>1. /\ Cell(q, "StartTimestamp")' = Cell(q, "StartTimestamp")
        /\ Cell(q, "EndTimestamp")' = Cell(q, "EndTimestamp")
        /\ Cell(q, "ElapsedCompute")' = Cell(q, "ElapsedCompute")
    BY <1>3 DEF Offset
  <2>2. clock \in Nat /\ clock' \in Nat /\ op[q].polls \in Nat
    BY DEF TypeInv, Stream
  <2>3. op[q].timer \in Nat \cup {None} /\ op[q].last \in Nat \cup {None}
    BY DEF TypeInv, Stream
  <2>4. CellTypes(q) /\ TimeOf(q) /\ EndOf(q)
    BY <1>3 DEF PartitionInv
  <2>5. CellTypes(q)'
    BY <2>1, <2>4 DEF CellTypes
  <2>6. TimeOf(q)'
    BY <2>1, <2>2, <2>3, <2>4, ClockAssumption, NoValueAssumption DEF CellTypes, TimeOf
  <2>7. EndOf(q)'
    BY <2>1, <2>2, <2>3, <2>4, ClockAssumption, NoValueAssumption DEF EndOf, HasStamp
  <2>8. QED
    BY <1>1, <1>3, <2>5, <2>6, <2>7 DEF PartitionInv
<1>4. QED
  BY <1>2, <1>3
-----------------------------------------------------------------------------
(***************************************************************************)
(* The steps.                                                              *)
(***************************************************************************)
\* A step of one partition: the other partitions stay as they are, and no
\* partition is opened.
StepsAlone(p) ==
  /\ plan' = plan /\ clock' = clock
  /\ op' = [op EXCEPT ![p] = op'[p]] /\ op'[p] \in Stream
  /\ op'[p].base = op[p].base
  /\ handle' = [handle EXCEPT ![p] = handle'[p]] /\ handle'[p] \in [Kept -> Handle]
  /\ op'[p].pc = "new" <=> op[p].pc = "new"

LEMMA StreamSteps ==
  ASSUME TypeInv, NEW p \in Partitions,
         \/ StartTimer(p) \/ StopEarly(p) \/ EndPoll(p)
         \/ RecordRows(p) \/ RecordBytes(p) \/ RecordBatches(p)
  PROVE  StepsAlone(p) /\ op[p].pc # "new" /\ handle' = handle
<1> USE DEF TypeInv, Stream, StreamState, StepsAlone
<1>1. CASE StartTimer(p)
  BY <1>1 DEF StartTimer
<1>2. CASE StopEarly(p)
  BY <1>2 DEF StopEarly, Stopped
<1>3. CASE EndPoll(p)
  BY <1>3 DEF EndPoll, Stopped
<1>4. CASE RecordRows(p)
  BY <1>4 DEF RecordRows
<1>5. CASE RecordBytes(p)
  BY <1>5 DEF RecordBytes
<1>6. CASE RecordBatches(p)
  BY <1>6 DEF RecordBatches
<1>7. QED
  BY <1>1, <1>2, <1>3, <1>4, <1>5, <1>6

\* What a step makes of the one handle it concerns.
LEMMA HandleSteps ==
  ASSUME TypeInv, NEW p \in Partitions, NEW h \in Kept,
         \/ HandleStep(p, h)
         \/ h = "stream" /\ Done(p)
         \/ h = "clone" /\ Clone(p)
  PROVE  StepsAlone(p) /\ \A g \in Kept : g # h => handle'[p][g] = handle[p][g]
<1> USE DEF TypeInv, Handle, Kept
<1>1. CASE Drop(p, h)
  BY <1>1 DEF Drop, TryDone, StepsAlone
<1>2. CASE Stamp(p, h)
  BY <1>2 DEF Stamp, StepsAlone
<1>3. CASE Write(p, h)
  <2>1. op'[p] \in Stream /\ op' = [op EXCEPT ![p] = op'[p]]
        /\ op'[p].base = op[p].base /\ (op'[p].pc = "new" <=> op[p].pc = "new")
    BY <1>3 DEF Write, Stream, StreamState
  <2>2. PICK pc \in {"held", "gone"} : handle' = [handle EXCEPT ![p][h].pc = pc]
    BY <1>3 DEF Write
  <2>3. handle'[p] \in [Kept -> Handle] /\ handle' = [handle EXCEPT ![p] = handle'[p]]
        /\ \A g \in Kept : g # h => handle'[p][g] = handle[p][g]
    BY <2>2, SMTT(30)
  <2>4. QED
    BY <1>3, <2>1, <2>3 DEF Write, StepsAlone
<1>4. CASE h = "stream" /\ Done(p)
  <2>1. op'[p] \in Stream /\ op' = [op EXCEPT ![p] = op'[p]]
        /\ op'[p].base = op[p].base /\ (op'[p].pc = "new" <=> op[p].pc = "new")
    BY <1>4 DEF Done, Stream, StreamState
  <2> DEFINE new == [pc |-> "stamped", stamp |-> clock]
  <2>2. new \in Handle
    OBVIOUS
  <2>3. handle' = [handle EXCEPT ![p] = [handle[p] EXCEPT !.stream = new]]
    BY <1>4 DEF Done
  <2> HIDE DEF new
  <2>4. handle'[p] \in [Kept -> Handle] /\ handle' = [handle EXCEPT ![p] = handle'[p]]
        /\ \A g \in Kept : g # h => handle'[p][g] = handle[p][g]
    BY <1>4, <2>2, <2>3
  <2>5. plan' = plan /\ clock' = clock
    BY <1>4 DEF Done
  <2>6. QED
    BY <2>1, <2>4, <2>5 DEF StepsAlone
<1>5. CASE h = "clone" /\ Clone(p)
  <2>1. plan' = plan /\ clock' = clock /\ op' = op /\ op[p] \in Stream
    BY <1>5 DEF Clone
  <2> DEFINE new == [handle[p].clone EXCEPT !.pc = "held"]
  <2>2. new \in Handle
    OBVIOUS
  <2>3. handle' = [handle EXCEPT ![p] = [handle[p] EXCEPT !.clone = new]]
    BY <1>5 DEF Clone
  <2> HIDE DEF new
  <2>4. handle'[p] \in [Kept -> Handle] /\ handle' = [handle EXCEPT ![p] = handle'[p]]
        /\ \A g \in Kept : g # h => handle'[p][g] = handle[p][g]
    BY <1>5, <2>2, <2>3
  <2>5. QED
    BY <2>1, <2>4 DEF StepsAlone
<1>6. QED
  BY <1>1, <1>2, <1>3, <1>4, <1>5 DEF HandleStep

LEMMA AloneKeepsTypes ==
  ASSUME TypeInv, NEW p \in Partitions, StepsAlone(p)
  PROVE  /\ TypeInv' /\ Opened' = Opened /\ Partitions' = Partitions
         /\ \A q \in Partitions : op'[q].base = op[q].base
         /\ \A q \in Partitions : q # p => op'[q] = op[q] /\ handle'[q] = handle[q]
<1>1. Partitions' = Partitions
  BY DEF StepsAlone, Partitions, Batches
<1>2. TypeInv'
  BY <1>1 DEF StepsAlone, TypeInv
<1>3. QED
  BY <1>1, <1>2 DEF StepsAlone, TypeInv, Opened

LEMMA OpenStep ==
  ASSUME TypeInv, RegistryInv, NEW p \in Partitions, Open(p)
  PROVE  /\ TypeInv' /\ Opened' = Opened \cup {p} /\ Partitions' = Partitions /\ p \notin Opened
         /\ \A q \in Partitions : q # p => op'[q] = op[q] /\ handle'[q] = handle[q]
         /\ op'[p].pc = "idle" /\ op'[p].base = Len(registry) /\ op'[p].timer = op[p].timer
         /\ op'[p].last = op[p].last /\ op'[p].polls = op[p].polls
         /\ handle'[p].stream.pc = "held" /\ handle'[p].clone = handle[p].clone
<1>1. Partitions' = Partitions /\ Len(registry) \in Nat
  BY DEF Open, Partitions, Batches, RegistryInv
<1>2. op'[p] \in Stream /\ op' = [op EXCEPT ![p] = op'[p]]
      /\ op'[p].pc = "idle" /\ op'[p].base = Len(registry) /\ op'[p].timer = op[p].timer
      /\ op'[p].last = op[p].last /\ op'[p].polls = op[p].polls
  BY <1>1 DEF Open, Stream, StreamState, TypeInv
<1>3. handle'[p] \in [Kept -> Handle] /\ handle' = [handle EXCEPT ![p] = handle'[p]]
      /\ handle'[p].stream.pc = "held" /\ handle'[p].clone = handle[p].clone
  <2> DEFINE own == [handle[p].stream EXCEPT !.pc = "held"]
  <2>1. handle[p] \in [Kept -> Handle] /\ own \in Handle /\ own.pc = "held"
    BY DEF Handle, Kept, TypeInv
  <2>2. handle' = [handle EXCEPT ![p] = [handle[p] EXCEPT !.stream = own]]
    BY DEF Open, TypeInv
  <2> HIDE DEF own
  <2>3. QED
    BY <2>1, <2>2 DEF Kept, TypeInv
<1>4. TypeInv'
  BY <1>1, <1>2, <1>3 DEF Open, TypeInv
<1>5. QED
  <2>1. \A q \in Partitions : q # p => op'[q] = op[q] /\ handle'[q] = handle[q]
    BY DEF Open, TypeInv
  <2>2. Opened' = Opened \cup {p} /\ p \notin Opened
    BY <1>1, <1>2, <2>1 DEF Open, Opened
  <2>3. QED
    BY <1>1, <1>2, <1>3, <1>4, <2>1, <2>2

LEMMA SixTuple ==
  ASSUME NEW a, NEW b, NEW c, NEW d, NEW e, NEW f
  PROVE  /\ <<a, b, c, d, e, f>> \in Seq({a, b, c, d, e, f})
         /\ Len(<<a, b, c, d, e, f>>) = 6
         /\ <<a, b, c, d, e, f>>[1] = a /\ <<a, b, c, d, e, f>>[2] = b /\ <<a, b, c, d, e, f>>[3] = c
         /\ <<a, b, c, d, e, f>>[4] = d /\ <<a, b, c, d, e, f>>[5] = e /\ <<a, b, c, d, e, f>>[6] = f
OBVIOUS

\* The six metrics of BaselineOf, by their place.
LEMMA BaselineShape ==
  ASSUME NEW p
  PROVE  /\ \E T : BaselineOf(p) \in Seq(T)
         /\ Len(BaselineOf(p)) = 6
         /\ \A i \in 1..6 : HasCell(BaselineOf(p)[i])
         /\ BaselineOf(p)[1].value.cells[1] = clock
         /\ BaselineOf(p)[2].value.cells[1] = None
         /\ BaselineOf(p)[3].value.cells[1] = 0
<1> DEFINE made(v, type) == Build(p, type, v)
           m(kind, type) == Build(p, type, New(kind))
           begun == [New("StartTimestamp") EXCEPT !.cells = <<clock>>]
           first == [m("StartTimestamp", "Dev") EXCEPT !.value.cells = <<clock>>]
<1>0. \A kind : "cells" \in DOMAIN New(kind) /\ New(kind).cells = EmptyCells(kind)
  BY DEF New, Value
<1>0a. \A v, type : "value" \in DOMAIN made(v, type) /\ made(v, type).value = v
  BY DEF Build, Metric
<1>1. HasCell(first) /\ first.value.cells[1] = clock
  <2>1. "cells" \in DOMAIN begun /\ begun.cells = <<clock>>
    BY <1>0
  <2>2. "value" \in DOMAIN first /\ first.value = begun
    BY <1>0a
  <2> HIDE DEF begun, first
  <2>3. QED
    BY <2>1, <2>2 DEF HasCell
<1>2. \A kind, type : 1 \in DOMAIN EmptyCells(kind) =>
        HasCell(m(kind, type)) /\ m(kind, type).value.cells = EmptyCells(kind)
  BY <1>0, <1>0a DEF HasCell
<1>3. /\ EmptyCells("EndTimestamp") = <<None>>
      /\ EmptyCells("ElapsedCompute") = <<0>> /\ EmptyCells("OutputRows") = <<0>>
      /\ EmptyCells("OutputBytes") = <<0>> /\ EmptyCells("OutputBatches") = <<0>>
  BY DEF EmptyCells, Timestamps
<1>4. BaselineOf(p) = <<first, m("EndTimestamp", "Summary"), m("ElapsedCompute", "Summary"),
                        m("OutputRows", "Summary"), m("OutputBytes", "Summary"), m("OutputBatches", "Dev")>>
  BY DEF BaselineOf
<1> DEFINE b == BaselineOf(p)
<1>5. /\ HasCell(m("EndTimestamp", "Summary")) /\ m("EndTimestamp", "Summary").value.cells[1] = None
      /\ HasCell(m("ElapsedCompute", "Summary")) /\ m("ElapsedCompute", "Summary").value.cells[1] = 0
      /\ HasCell(m("OutputRows", "Summary")) /\ HasCell(m("OutputBytes", "Summary"))
      /\ HasCell(m("OutputBatches", "Dev"))
  BY <1>2, <1>3
<1> HIDE DEF first, m
<1>6. /\ b \in Seq({first, m("EndTimestamp", "Summary"), m("ElapsedCompute", "Summary"),
                    m("OutputRows", "Summary"), m("OutputBytes", "Summary"), m("OutputBatches", "Dev")})
      /\ Len(b) = 6
      /\ b[1] = first /\ b[2] = m("EndTimestamp", "Summary") /\ b[3] = m("ElapsedCompute", "Summary")
      /\ b[4] = m("OutputRows", "Summary") /\ b[5] = m("OutputBytes", "Summary")
      /\ b[6] = m("OutputBatches", "Dev")
  BY <1>4, SixTuple
<1> HIDE DEF b
<1>7. \A i \in 1..6 : HasCell(b[i])
  <2>1. \A i \in 1..6 : i = 1 \/ i = 2 \/ i = 3 \/ i = 4 \/ i = 5 \/ i = 6
    OBVIOUS
  <2>2. QED
    BY <1>1, <1>5, <1>6, <2>1
<1>8. QED
  BY <1>1, <1>5, <1>6, <1>7 DEF b

\* A list behind another.
LEMMA Concatenation ==
  ASSUME NEW R, NEW B, NEW r \in Seq(R), NEW b \in Seq(B)
  PROVE  /\ \E S : r \o b \in Seq(S)
         /\ Len(r \o b) = Len(r) + Len(b)
         /\ \A i \in 1..Len(r) : (r \o b)[i] = r[i]
         /\ \A i \in 1..Len(b) : (r \o b)[Len(r) + i] = b[i]
<1>1. r \in Seq(R \cup B) /\ b \in Seq(R \cup B) /\ Len(r) \in Nat /\ Len(b) \in Nat
  OBVIOUS
<1>2. r \o b \in Seq(R \cup B) /\ Len(r \o b) = Len(r) + Len(b)
  BY <1>1, ConcatProperties
<1>3. \A i \in 1 .. Len(r) + Len(b) : (r \o b)[i] = IF i <= Len(r) THEN r[i] ELSE b[i - Len(r)]
  BY <1>1, ConcatProperties
<1>4. \A i \in 1..Len(r) : (r \o b)[i] = r[i]
  BY <1>1, <1>3
<1>5. \A i \in 1..Len(b) : (r \o b)[Len(r) + i] = b[i]
  BY <1>1, <1>3
<1>6. QED
  BY <1>2, <1>4, <1>5

\* A partition that is opened gets a place of its own behind the others.
LEMMA OpenRegistry ==
  ASSUME TypeInv, RegistryInv, NEW p \in Partitions, Open(p)
  PROVE  /\ RegistryInv'
         /\ Cell(p, "StartTimestamp")' = clock
         /\ Cell(p, "EndTimestamp")' = None
         /\ Cell(p, "ElapsedCompute")' = 0
         /\ \A q \in Opened : \A k \in DOMAIN Offset : Cell(q, k)' = Cell(q, k)
<1> DEFINE b == BaselineOf(p)
           e == ExtrasOf(p)
           n == Len(registry)
<1>1. PICK R : registry \in Seq(R)
  BY DEF RegistryInv
<1>2. PICK B : b \in Seq(B)
  BY BaselineShape
<1>3. e \in Seq({e[i] : i \in DOMAIN e}) /\ Len(e) = Len(Extras[p]) /\ Len(Extras[p]) \in Nat
  <2>1. Len(Extras[p]) \in Nat /\ DOMAIN Extras[p] = 1..Len(Extras[p])
    BY ExtrasAssumption DEF TypeInv, Partitions, Batches
  <2>2. DOMAIN e = 1..Len(Extras[p]) /\ e = [i \in 1..Len(Extras[p]) |-> e[i]]
    BY <2>1 DEF ExtrasOf
  <2> HIDE DEF e
  <2>3. QED
    BY <2>1, <2>2
<1>4. n \in Nat /\ Len(b) = 6
  BY <1>1, BaselineShape
<1>5. registry' = (registry \o b) \o e
  BY DEF Open
<1>5a. \A i \in 1..6 : HasCell(b[i])
  BY BaselineShape
<1>5b. b[1].value.cells[1] = clock /\ b[2].value.cells[1] = None /\ b[3].value.cells[1] = 0
  BY BaselineShape
<1> HIDE DEF b, e
<1>6. /\ \E S : registry \o b \in Seq(S)
      /\ Len(registry \o b) = n + 6
      /\ \A i \in 1..n : (registry \o b)[i] = registry[i]
      /\ \A i \in 1..6 : (registry \o b)[n + i] = b[i]
  <2>1. /\ \E S : registry \o b \in Seq(S)
        /\ Len(registry \o b) = Len(registry) + Len(b)
        /\ \A i \in 1..Len(registry) : (registry \o b)[i] = registry[i]
        /\ \A i \in 1..Len(b) : (registry \o b)[Len(registry) + i] = b[i]
    BY <1>1, <1>2, Concatenation
  <2>2. QED
    BY <1>4, <2>1
<1>7. /\ \E S : registry' \in Seq(S)
      /\ Len(registry') = n + 6 + Len(Extras[p])
      /\ \A i \in 1..n + 6 : registry'[i] = (registry \o b)[i]
  <2>1. PICK S : registry \o b \in Seq(S)
    BY <1>6
  <2>2. PICK E : e \in Seq(E)
    BY <1>3
  <2> DEFINE c == registry \o b
  <2>3. Len(c) = n + 6 /\ registry' = c \o e
    BY <1>5, <1>6
  <2>3a. c \in Seq(S)
    BY <2>1
  <2> HIDE DEF c
  <2>4. /\ \E T : c \o e \in Seq(T)
        /\ Len(c \o e) = Len(c) + Len(e)
        /\ \A i \in 1..Len(c) : (c \o e)[i] = c[i]
    BY <2>2, <2>3a, Concatenation
  <2>5. QED
    BY <1>3, <2>3, <2>4 DEF c
<1>8. /\ \A i \in 1..n : registry'[i] = registry[i]
      /\ \A i \in 1..6 : registry'[n + i] = b[i]
  <2>1. \A i \in 1..n : i \in 1..n + 6
    BY <1>4
  <2>2. \A i \in 1..6 : n + i \in 1..n + 6
    BY <1>4
  <2>3. QED
    BY <1>6, <1>7, <2>1, <2>2
<1>9. /\ Opened' = Opened \cup {p} /\ p \notin Opened /\ op'[p].base = n
      /\ \A q \in Opened : op'[q] = op[q] /\ q # p
  BY OpenStep DEF Opened
<1> HIDE DEF n
<1>10. \A k \in DOMAIN Offset : Offset[k] \in 1..6
  BY DEF Offset
<1>11. \A q \in Opened : RegionOf(q)' = RegionOf(q) /\ RegionOf(q) \subseteq 1..n
       /\ \A k \in DOMAIN Offset : Index(q, k)' = Index(q, k) /\ Index(q, k) \in 1..n
  <2> TAKE q \in Opened
  <2>2. \A k \in DOMAIN Offset : Index(q, k) \in RegionOf(q)
    BY InItsRegion
  <2>3. RegionOf(q) \subseteq 1..n
    BY DEF RegistryInv, n
  <2>4. RegionOf(q)' = RegionOf(q) /\ \A k \in DOMAIN Offset : Index(q, k)' = Index(q, k)
    BY <1>9 DEF RegionOf, Index
  <2>5. QED
    BY <2>2, <2>3, <2>4
<1>12. RegionOf(p)' = n + 1..n + 6 + Len(Extras[p])
       /\ \A k \in DOMAIN Offset : Index(p, k)' = n + Offset[k]
  BY <1>9 DEF RegionOf, Index
<1>13. \A k \in DOMAIN Offset : HasCell(registry'[Index(p, k)'])
  BY <1>5a, <1>8, <1>10, <1>12
<1>14. \A q \in Opened : \A k \in DOMAIN Offset : HasCell(registry'[Index(q, k)'])
  BY <1>8, <1>11 DEF RegistryInv
<1>15. RegistryInv'
  <2> DEFINE l == Len(Extras[p])
  <2> l \in Nat /\ n \in Nat /\ RegionOf(p)' = n + 1..n + 6 + l /\ Len(registry') = n + 6 + l
    BY <1>3, <1>4, <1>7, <1>12
  <2> HIDE DEF l
  <2>0. 1..n \subseteq 1..Len(registry') /\ RegionOf(p)' \subseteq 1..Len(registry')
    OBVIOUS
  <2>1. \A q \in Opened' : RegionOf(q)' \subseteq 1..Len(registry')
    BY <1>9, <1>11, <2>0
  <2>2. \A q \in Opened : RegionOf(q)' \cap RegionOf(p)' = {}
    BY <1>11
  <2>3. \A q, r \in Opened : q # r => RegionOf(q)' \cap RegionOf(r)' = {}
    BY <1>11 DEF RegistryInv
  <2>4. \A q, r \in Opened' : q # r => RegionOf(q)' \cap RegionOf(r)' = {}
    BY <1>9, <2>2, <2>3
  <2>5. \A q \in Opened' : \A k \in DOMAIN Offset : HasCell(registry'[Index(q, k)'])
    BY <1>9, <1>13, <1>14
  <2>6. QED
    BY <1>7, <2>1, <2>4, <2>5 DEF RegistryInv, Offset
<1>16. \A q \in Opened : \A k \in DOMAIN Offset : Cell(q, k)' = Cell(q, k)
  BY <1>8, <1>11 DEF Cell
<1>17. /\ Cell(p, "StartTimestamp")' = clock
       /\ Cell(p, "EndTimestamp")' = None
       /\ Cell(p, "ElapsedCompute")' = 0
  <2>1. Index(p, "StartTimestamp")' = n + 1 /\ Index(p, "EndTimestamp")' = n + 2
        /\ Index(p, "ElapsedCompute")' = n + 3
    BY <1>12 DEF Offset
  <2>2. QED
    BY <1>5b, <1>8, <2>1 DEF Cell
<1>18. QED
  BY <1>15, <1>16, <1>17

\* The metrics an operator adds of its own lie behind its cells.
LEMMA WriteExtras ==
  ASSUME TypeInv, RegistryInv, NEW p \in Opened, NEW x, plan' = plan, Opened' = Opened,
         registry' = WithExtras(p, After(p, "OutputBatches", x)),
         \A q \in Partitions : op'[q].base = op[q].base
  PROVE  /\ RegistryInv'
         /\ \A q \in Opened : \A k \in DOMAIN Offset \ {"OutputBatches"} : Cell(q, k)' = Cell(q, k)
         /\ \A q \in Opened \ {p} : Cell(q, "OutputBatches")' = Cell(q, "OutputBatches")
<1> DEFINE at == Index(p, "OutputBatches")
           m  == After(p, "OutputBatches", x)
           n  == Len(registry)
           own == Extras[p]
<1>1. PICK S : registry \in Seq(S)
  BY DEF RegistryInv
<1>2. n \in Nat /\ DOMAIN registry = 1..n
  BY <1>1
<1>3. at \in 1..n /\ HasCell(registry[at])
  BY InItsRegion DEF RegistryInv, Offset
<1>4. m = Written(registry, at, x)
  BY DEF After, Written
<1>5. Len(own) \in Nat /\ DOMAIN own = 1..Len(own) /\ op[p].base \in Nat /\ at = op[p].base + 6
  BY ExtrasAssumption DEF TypeInv, Opened, Partitions, Batches, Stream, Index, Offset
<1>6. RegionOf(p) = op[p].base + 1..op[p].base + 6 + Len(own)
  BY DEF RegionOf
<1>7. DOMAIN registry' = DOMAIN m
      /\ \A i \in DOMAIN m : i - at \notin DOMAIN own => registry'[i] = m[i]
  BY DEF WithExtras
<1> HIDE DEF at, m, own
<1>8. /\ \E T : m \in Seq(T)
      /\ Len(m) = n /\ HasCell(m[at])
      /\ \A i \in 1..n : i # at => m[i] = registry[i]
  BY <1>1, <1>3, <1>4, WriteOneCell
<1>9. DOMAIN m = 1..n
  BY <1>8
<1>10. registry' = [i \in DOMAIN m |-> registry'[i]]
  BY DEF WithExtras, m
<1> HIDE DEF n
<1>11. registry' \in Seq({registry'[i] : i \in 1..n}) /\ Len(registry') = n
  BY <1>2, <1>9, <1>10
<1>12. \A q \in Opened : \A k \in DOMAIN Offset :
         Index(q, k) \in 1..n /\ Index(q, k) - at \notin DOMAIN own
  <2> TAKE q \in Opened
  <2> TAKE k \in DOMAIN Offset
  <2>1. Index(q, k) \in RegionOf(q) /\ RegionOf(q) \subseteq 1..n
    BY InItsRegion DEF RegistryInv, n
  <2> DEFINE i == Index(q, k)
             b == op[p].base
             l == Len(own)
  <2>2. i \in Nat
    BY <1>2, <2>1
  <2>3. CASE q = p
    <3>1. Offset[k] \in 1..6
      BY DEF Offset
    <3>2. i = b + Offset[k]
      BY <2>3 DEF Index
    <3> HIDE DEF i, b
    <3>3. i - at <= 0
      BY <1>5, <2>2, <3>1, <3>2, SMTT(30) DEF b
    <3>4. QED
      BY <1>5, <2>1, <3>3 DEF i
  <2>4. CASE q # p
    <3>1. i \notin RegionOf(p)
      BY <2>1, <2>4 DEF RegistryInv
    <3> HIDE DEF i
    <3>2. ASSUME i - at \in DOMAIN own PROVE FALSE
      <4>1. i - at \in 1..l
        BY <1>5, <3>2
      <4>2. i \in b + 1..b + 6 + l
        BY <1>5, <2>2, <4>1
      <4>3. QED
        BY <1>6, <3>1, <4>2
    <3>3. QED
      BY <2>1, <3>2 DEF i
  <2>5. QED
    BY <2>3, <2>4
<1>13. \A q \in Opened : \A k \in DOMAIN Offset : registry'[Index(q, k)] = m[Index(q, k)]
  BY <1>7, <1>9, <1>12
<1>14. \A q \in Opened : op'[q].base = op[q].base
  BY DEF Opened
<1>15. \A q \in Opened : \A k \in DOMAIN Offset : Index(q, k)' = Index(q, k)
  BY <1>14 DEF Index, Offset
<1>16. \A q \in Opened : \A k \in DOMAIN Offset : HasCell(m[Index(q, k)])
  BY <1>8, <1>12 DEF RegistryInv
<1>17. RegistryInv'
  <2>1. \A q \in Opened : RegionOf(q)' = RegionOf(q)
    BY <1>14 DEF RegionOf
  <2>2. \A q \in Opened : \A k \in DOMAIN Offset : HasCell(registry'[Index(q, k)'])
    BY <1>13, <1>15, <1>16
  <2>3. Opened' = Opened /\ Len(registry') = Len(registry) /\ Offset' = Offset
    BY <1>11 DEF n, Offset
  <2>4. \A q \in Opened' : RegionOf(q)' \subseteq 1..Len(registry')
    BY <2>1, <2>3 DEF RegistryInv
  <2>5. \A q, r \in Opened' : q # r => RegionOf(q)' \cap RegionOf(r)' = {}
    BY <2>1, <2>3 DEF RegistryInv
  <2>6. QED
    BY <1>11, <2>2, <2>3, <2>4, <2>5 DEF RegistryInv
<1>18. \A q \in Opened : \A k \in DOMAIN Offset :
         (q # p \/ k # "OutputBatches") => Index(q, k) # at
  <2> TAKE q \in Opened
  <2> TAKE k \in DOMAIN Offset
  <2>1. CASE q # p
    <3>1. Index(q, k) \in RegionOf(q) /\ Index(p, "OutputBatches") \in RegionOf(p)
      BY InItsRegion DEF Offset
    <3>2. QED
      BY <2>1, <3>1 DEF RegistryInv, at
  <2>2. CASE q = p /\ k # "OutputBatches"
    <3>1. Offset[k] \in 1..5
      BY <2>2 DEF Offset
    <3>2. Index(q, k) = op[p].base + Offset[k]
      BY <2>2 DEF Index
    <3>3. \A b \in Nat : \A o \in 1..5 : b + o # b + 6
      OBVIOUS
    <3>4. QED
      BY <1>5, <3>1, <3>2, <3>3
  <2>3. QED
    BY <2>1, <2>2
<1>19. \A q \in Opened : \A k \in DOMAIN Offset :
         (q # p \/ k # "OutputBatches") => Cell(q, k)' = Cell(q, k)
  BY <1>8, <1>12, <1>13, <1>15, <1>18 DEF Cell
<1>20. QED
  BY <1>17, <1>19 DEF Offset
-----------------------------------------------------------------------------
(***************************************************************************)
(* The invariant.                                                          *)
(***************************************************************************)
\* What one partition's step leaves: all the registry, and its own part.
OwnPart(p) ==
  /\ RegistryInv'
  /\ \A q \in Opened \ {p} : \A k \in DOMAIN Offset : Cell(q, k)' = Cell(q, k)
  /\ CellTypes(p)' /\ TimeOf(p)' /\ EndOf(p)'

\* A poll begins; nothing is written.
LEMMA StartTimerStep ==
  ASSUME MInv, NEW p \in Opened, StartTimer(p)
  PROVE  OwnPart(p)
<1>1. p \in Partitions /\ StepsAlone(p)
  BY StreamSteps DEF Opened, MInv
<1>2. /\ op'[p].pc = "polling" /\ op'[p].timer = clock /\ op'[p].polls = op[p].polls + 1
      /\ op'[p].last = op[p].last /\ handle' = handle /\ registry' = registry /\ clock' = clock
      /\ op[p].pc = "idle" /\ handle[p].stream.pc = "held"
  BY <1>1 DEF StartTimer, MInv, TypeInv, Stream
<1>3. RegistryInv' /\ \A q \in Opened : \A k \in DOMAIN Offset : Cell(q, k)' = Cell(q, k)
  BY <1>1, <1>2, AloneKeepsTypes, WriteNothing DEF MInv, StepsAlone
<1>4. /\ Cell(p, "StartTimestamp")' = Cell(p, "StartTimestamp")
      /\ Cell(p, "EndTimestamp")' = Cell(p, "EndTimestamp")
      /\ Cell(p, "ElapsedCompute")' = Cell(p, "ElapsedCompute")
  BY <1>3 DEF Offset
<1>5. CellTypes(p) /\ TimeOf(p) /\ EndOf(p)
  BY <1>1 DEF MInv, PartitionInv
<1>6. CellTypes(p)'
  BY <1>4, <1>5 DEF CellTypes
<1>7. clock \in Nat /\ op[p].polls \in Nat
  BY <1>1 DEF MInv, TypeInv, Stream
<1>8. TimeOf(p)'
  BY <1>2, <1>4, <1>5, <1>7, ClockAssumption, NoValueAssumption DEF TimeOf, CellTypes
<1>9. EndOf(p)'
  BY <1>2, <1>4, <1>5 DEF EndOf, HasStamp
<1>10. QED
  BY <1>3, <1>6, <1>8, <1>9 DEF OwnPart

\* The timer is stopped: its interval is counted, and the guard forgets it.
LEMMA StopStep ==
  ASSUME MInv, NEW p \in Opened, StopEarly(p) \/ EndPoll(p)
  PROVE  OwnPart(p)
<1>1. p \in Partitions /\ StepsAlone(p)
  BY StreamSteps DEF Opened, MInv
<1>2. /\ op'[p].timer = None /\ op'[p].polls = op[p].polls
      /\ op'[p].last = op[p].last /\ handle' = handle /\ registry' = Elapsed(p) /\ clock' = clock
      /\ \/ op[p].pc \in {"polling", "recorded"} /\ op'[p].pc \in {"polling", "idle"}
         \/ op[p].pc = "ended" /\ op'[p].pc = "over"
  <2>1. op[p] \in Stream /\ op \in [Partitions -> Stream]
    BY <1>1 DEF MInv, TypeInv
  <2>2. CASE StopEarly(p)
    BY <1>1, <2>1, <2>2 DEF StopEarly, Stopped, Stream
  <2>3. CASE EndPoll(p)
    <3>1. op'[p] = [Stopped(p) EXCEPT !.pc = IF @ = "ended" THEN "over" ELSE "idle"]
      BY <1>1, <2>1, <2>3 DEF EndPoll
    <3>2. /\ Stopped(p) \in Stream /\ Stopped(p).pc = op[p].pc /\ Stopped(p).timer = None
          /\ Stopped(p).polls = op[p].polls /\ Stopped(p).last = op[p].last
      BY <2>1 DEF Stopped, Stream
    <3>3. /\ op'[p].timer = None /\ op'[p].polls = op[p].polls /\ op'[p].last = op[p].last
          /\ op'[p].pc = IF op[p].pc = "ended" THEN "over" ELSE "idle"
      BY <3>1, <3>2 DEF Stream
    <3>4. QED
      BY <2>3, <3>3 DEF EndPoll
  <2>4. QED
    BY <2>2, <2>3
<1>3. CellTypes(p) /\ TimeOf(p) /\ EndOf(p)
  BY <1>1 DEF MInv, PartitionInv
<1>4. /\ Opened' = Opened /\ plan' = plan
      /\ \A q \in Partitions : op'[q].base = op[q].base
  BY <1>1, AloneKeepsTypes DEF MInv, StepsAlone
<1>5. clock \in Nat /\ op[p].polls \in Nat /\ op[p].timer \in Nat \cup {None}
  BY <1>1 DEF MInv, TypeInv, Stream
<1>6. /\ RegistryInv'
      /\ \A q \in Opened \ {p} : \A k \in DOMAIN Offset : Cell(q, k)' = Cell(q, k)
      /\ Cell(p, "StartTimestamp")' = Cell(p, "StartTimestamp")
      /\ Cell(p, "EndTimestamp")' = Cell(p, "EndTimestamp")
      /\ op[p].timer = None => Cell(p, "ElapsedCompute")' = Cell(p, "ElapsedCompute")
      /\ op[p].timer # None =>
           Cell(p, "ElapsedCompute")' = AddDuration(Cell(p, "ElapsedCompute"), clock - op[p].timer)
  <2>1. CASE op[p].timer = None
    <3>1. registry' = registry
      BY <1>2, <2>1 DEF Elapsed
    <3>2. QED
      BY <1>4, <2>1, <3>1, WriteNothing DEF MInv, Offset
  <2>2. CASE op[p].timer # None
    <3>1. registry' = After(p, "ElapsedCompute", AddDuration(Cell(p, "ElapsedCompute"), clock - op[p].timer))
      BY <1>2, <2>2 DEF Elapsed
    <3>2. QED
      BY <1>4, <2>2, <3>1, WriteCell DEF MInv, Offset
  <2>3. QED
    BY <2>1, <2>2
<1>7. CellTypes(p)' /\ TimeOf(p)'
  BY <1>2, <1>3, <1>5, <1>6, ClockAssumption, NoValueAssumption DEF CellTypes, TimeOf, AddDuration
<1>8. EndOf(p)'
  BY <1>2, <1>3, <1>6 DEF EndOf, HasStamp
<1>9. QED
  BY <1>6, <1>7, <1>8 DEF OwnPart

\* A batch is recorded: no cell the invariant speaks of is written, and the
\* handle of the stream is held, so that no end is there to fall behind.
LEMMA RecordStep ==
  ASSUME MInv, NEW p \in Opened, RecordRows(p) \/ RecordBytes(p) \/ RecordBatches(p)
  PROVE  OwnPart(p)
<1>1. p \in Partitions /\ StepsAlone(p)
  BY StreamSteps DEF Opened, MInv
<1>2. /\ op'[p].timer = op[p].timer /\ op'[p].polls = op[p].polls
      /\ op'[p].last \in {op[p].last, clock} /\ handle' = handle /\ clock' = clock
      /\ op[p].pc \in {"polling", "rows", "bytes"} /\ op'[p].pc \in {"rows", "bytes", "recorded"}
  <2>1. op[p] \in Stream /\ op \in [Partitions -> Stream]
    BY <1>1 DEF MInv, TypeInv
  <2>2. CASE RecordRows(p)
    BY <1>1, <2>1, <2>2 DEF RecordRows, Stream
  <2>3. CASE RecordBytes(p)
    BY <1>1, <2>1, <2>3 DEF RecordBytes, Stream
  <2>4. CASE RecordBatches(p)
    BY <1>1, <2>1, <2>4 DEF RecordBatches, Stream
  <2>5. QED
    BY <2>2, <2>3, <2>4
<1>3. CellTypes(p) /\ TimeOf(p) /\ EndOf(p)
  BY <1>1 DEF MInv, PartitionInv
<1>4. /\ Opened' = Opened /\ plan' = plan
      /\ \A q \in Partitions : op'[q].base = op[q].base
  BY <1>1, AloneKeepsTypes DEF MInv, StepsAlone
<1>5. clock \in Nat /\ op[p].polls \in Nat /\ op[p].timer \in Nat \cup {None}
  BY <1>1 DEF MInv, TypeInv, Stream
<1>6. /\ RegistryInv'
      /\ \A q \in Opened \ {p} : \A k \in DOMAIN Offset : Cell(q, k)' = Cell(q, k)
      /\ Cell(p, "StartTimestamp")' = Cell(p, "StartTimestamp")
      /\ Cell(p, "EndTimestamp")' = Cell(p, "EndTimestamp")
      /\ Cell(p, "ElapsedCompute")' = Cell(p, "ElapsedCompute")
  <2>1. CASE RecordRows(p)
    <3>1. registry' = After(p, "OutputRows", Cell(p, "OutputRows") + Batches[p][op[p].batch].rows)
      BY <2>1 DEF RecordRows, Add
    <3>2. QED
      BY <1>4, <3>1, WriteCell DEF MInv, Offset
  <2>2. CASE RecordBytes(p)
    <3>1. registry' = After(p, "OutputBytes", Cell(p, "OutputBytes") + MemorySize(Batches[p][op[p].batch]))
      BY <2>2 DEF RecordBytes, Add
    <3>2. QED
      BY <1>4, <3>1, WriteCell DEF MInv, Offset
  <2>3. CASE RecordBatches(p)
    <3>1. registry' = WithExtras(p, After(p, "OutputBatches", Cell(p, "OutputBatches") + 1))
      BY <2>3 DEF RecordBatches
    <3>2. QED
      BY <1>4, <3>1, WriteExtras DEF MInv, Offset
  <2>4. QED
    BY <2>1, <2>2, <2>3
<1>7. CellTypes(p)' /\ TimeOf(p)'
  BY <1>2, <1>3, <1>6 DEF CellTypes, TimeOf
<1>8. EndOf(p)'
  BY <1>2, <1>3, <1>5, <1>6, ClockAssumption, NoValueAssumption DEF EndOf, HasStamp
<1>9. QED
  BY <1>6, <1>7, <1>8 DEF OwnPart

\* The stream ends, a handle is cloned, or a handle is on its way out: the
\* end that it is going to write lies behind all that was given.
LEMMA HandleStepKeeps ==
  ASSUME MInv, NEW p \in Opened, NEW h \in Kept,
         \/ Drop(p, h) \/ Stamp(p, h)
         \/ h = "stream" /\ Done(p)
         \/ h = "clone" /\ Clone(p)
  PROVE  OwnPart(p)
<1>1. p \in Partitions /\ StepsAlone(p) /\ \A g \in Kept : g # h => handle'[p][g] = handle[p][g]
  BY HandleSteps DEF Opened, MInv, HandleStep
<1>2. CellTypes(p) /\ TimeOf(p) /\ EndOf(p)
  BY <1>1 DEF MInv, PartitionInv
<1>3. /\ Opened' = Opened /\ plan' = plan /\ clock' = clock
      /\ \A q \in Partitions : op'[q].base = op[q].base
  BY <1>1, AloneKeepsTypes DEF MInv, StepsAlone
<1>4. registry' = registry
  BY DEF Drop, Stamp, Done, Clone
<1>5. RegistryInv' /\ \A q \in Opened : \A k \in DOMAIN Offset : Cell(q, k)' = Cell(q, k)
  BY <1>3, <1>4, WriteNothing DEF MInv
<1>6. /\ Cell(p, "StartTimestamp")' = Cell(p, "StartTimestamp")
      /\ Cell(p, "EndTimestamp")' = Cell(p, "EndTimestamp")
      /\ Cell(p, "ElapsedCompute")' = Cell(p, "ElapsedCompute")
  BY <1>5 DEF Offset
<1>7. clock \in Nat /\ op[p] \in Stream /\ op \in [Partitions -> Stream]
      /\ handle[p] \in [Kept -> Handle] /\ handle \in [Partitions -> [Kept -> Handle]]
  BY <1>1 DEF MInv, TypeInv
<1>8. /\ op'[p].timer = op[p].timer /\ op'[p].polls = op[p].polls /\ op'[p].last = op[p].last
      /\ \/ op'[p].pc = op[p].pc
         \/ op[p].pc = "polling" /\ op'[p].pc = "ending"
  BY <1>1, <1>7 DEF Drop, Stamp, Done, Clone, Stream
<1>9. CellTypes(p)' /\ TimeOf(p)'
  BY <1>2, <1>3, <1>6, <1>8 DEF CellTypes, TimeOf
<1>10. EndOf(p)'
  <2>1. op[p].last \in Nat \cup {None} /\ Cell(p, "StartTimestamp") \in Nat
    BY <1>2, <1>7 DEF Stream, CellTypes
  <2>2. CASE Drop(p, h)
    <3>1. handle'[p][h].pc = TryDone(p) /\ handle[p][h].pc = "held" /\ op' = op
      BY <1>1, <1>7, <2>2 DEF Drop, Handle
    <3>2. h = "stream" => op[p].pc \in {"idle", "over"}
      BY <2>2 DEF Drop
    <3>3. QED
      BY <1>1, <1>2, <1>3, <1>6, <3>1, <3>2 DEF EndOf, HasStamp, TryDone, Kept
  <2>3. CASE Stamp(p, h)
    <3>1. handle'[p][h].pc = "stamped" /\ handle'[p][h].stamp = clock /\ handle[p][h].pc = "checked" /\ op' = op
      BY <1>1, <1>7, <2>3 DEF Stamp
    <3>2. QED
      BY <1>1, <1>2, <1>3, <1>6, <1>7, <2>1, <3>1 DEF EndOf, TimeOf, HasStamp, Kept
  <2>4. CASE h = "stream" /\ Done(p)
    <3>1. handle'[p].stream.pc = "stamped" /\ handle'[p].stream.stamp = clock /\ op[p].pc = "polling"
          /\ op'[p].pc = "ending"
      BY <1>1, <1>7, <2>4 DEF Done, Kept, Stream
    <3>2. QED
      BY <1>1, <1>2, <1>3, <1>6, <1>7, <1>8, <2>1, <2>4, <3>1 DEF EndOf, TimeOf, HasStamp, Kept
  <2>5. CASE h = "clone" /\ Clone(p)
    <3>1. handle'[p].clone.pc = "held" /\ handle[p].clone.pc = "none" /\ op' = op
      BY <1>1, <1>7, <2>5 DEF Clone, Kept, Handle
    <3>2. QED
      BY <1>1, <1>2, <1>3, <1>6, <2>5, <3>1 DEF EndOf, HasStamp, Kept
  <2>6. QED
    BY <2>2, <2>3, <2>4, <2>5
<1>11. QED
  BY <1>5, <1>9, <1>10 DEF OwnPart

\* The end is written, whoever writes it: not before the start, and behind
\* the last batch if no clone can come with an older reading of the clock.
LEMMA WriteStep ==
  ASSUME MInv, NEW p \in Opened, NEW h \in Kept, Write(p, h)
  PROVE  OwnPart(p)
<1>1. p \in Partitions /\ StepsAlone(p) /\ \A g \in Kept : g # h => handle'[p][g] = handle[p][g]
  BY HandleSteps DEF Opened, MInv, HandleStep
<1>2. CellTypes(p) /\ TimeOf(p) /\ EndOf(p)
  BY <1>1 DEF MInv, PartitionInv
<1>3. /\ Opened' = Opened /\ plan' = plan /\ clock' = clock
      /\ \A q \in Partitions : op'[q].base = op[q].base
  BY <1>1, AloneKeepsTypes DEF MInv, StepsAlone
<1>4. registry' = After(p, "EndTimestamp", handle[p][h].stamp) /\ handle[p][h].pc = "stamped"
  BY DEF Write
<1>5. /\ RegistryInv'
      /\ \A q \in Opened \ {p} : \A k \in DOMAIN Offset : Cell(q, k)' = Cell(q, k)
      /\ Cell(p, "StartTimestamp")' = Cell(p, "StartTimestamp")
      /\ Cell(p, "EndTimestamp")' = handle[p][h].stamp
      /\ Cell(p, "ElapsedCompute")' = Cell(p, "ElapsedCompute")
  BY <1>3, <1>4, WriteCell DEF MInv, Offset
<1>6. clock \in Nat /\ op[p] \in Stream /\ op \in [Partitions -> Stream]
      /\ handle[p] \in [Kept -> Handle] /\ handle \in [Partitions -> [Kept -> Handle]]
  BY <1>1 DEF MInv, TypeInv
<1>7. /\ op'[p].timer = op[p].timer /\ op'[p].polls = op[p].polls /\ op'[p].last = op[p].last
      /\ \/ op[p].pc # "ending" /\ op'[p].pc = op[p].pc
         \/ h = "stream" /\ op[p].pc = "ending" /\ op'[p].pc = "ended"
         \/ h # "stream" /\ op'[p].pc = op[p].pc
  BY <1>1, <1>6 DEF Write, Stream
<1>8. /\ handle'[p][h].pc = IF h = "stream" /\ op[p].pc = "ending" THEN "held" ELSE "gone"
      /\ \A g \in Kept \ {h} : handle'[p][g] = handle[p][g]
  BY <1>1, <1>6 DEF Write, Handle
<1>9. handle[p][h].stamp \in Nat /\ Cell(p, "StartTimestamp") <= handle[p][h].stamp
  BY <1>2, <1>4 DEF EndOf, HasStamp
<1>10. CellTypes(p)' /\ TimeOf(p)'
  BY <1>2, <1>3, <1>5, <1>7, <1>9 DEF CellTypes, TimeOf
<1>11. EndOf(p)'
  <2>1. handle[p][h].stamp # None
    BY <1>9, ClockAssumption, NoValueAssumption
  <2>2. CASE h = "stream"
    BY <1>2, <1>3, <1>4, <1>5, <1>7, <1>8, <1>9, <2>1, <2>2 DEF EndOf, HasStamp, Kept
  <2>3. CASE h = "clone"
    BY <1>2, <1>3, <1>4, <1>5, <1>7, <1>8, <1>9, <2>1, <2>3 DEF EndOf, HasStamp, Kept
  <2>4. QED
    BY <2>2, <2>3 DEF Kept
<1>12. QED
  BY <1>5, <1>10, <1>11 DEF OwnPart

\* A partition that is opened starts at the clock, without an end or time.
LEMMA OpenKeeps ==
  ASSUME MInv, NEW p \in Partitions, Open(p)
  PROVE  RegistryInv' /\ PartitionInv(p)'
<1>1. /\ TypeInv' /\ p \in Opened' /\ p \in Partitions' /\ p \notin Opened /\ clock' = clock
      /\ op'[p].pc = "idle" /\ op'[p].timer = op[p].timer
      /\ op'[p].last = op[p].last /\ op'[p].polls = op[p].polls
      /\ handle'[p].stream.pc = "held" /\ handle'[p].clone = handle[p].clone
  BY OpenStep DEF MInv, Open
<1>2. NewOf(p)
  BY <1>1 DEF MInv, PartitionInv
<1>3. /\ RegistryInv'
      /\ Cell(p, "StartTimestamp")' = clock
      /\ Cell(p, "EndTimestamp")' = None
      /\ Cell(p, "ElapsedCompute")' = 0
  BY OpenRegistry DEF MInv
<1>4. clock \in Nat
  BY DEF MInv, TypeInv
<1>5. CellTypes(p)' /\ TimeOf(p)'
  BY <1>1, <1>2, <1>3, <1>4 DEF CellTypes, TimeOf, NewOf
<1>6. EndOf(p)'
  BY <1>1, <1>2, <1>3 DEF EndOf, NewOf, HasStamp, Kept
<1>7. QED
  BY <1>1, <1>3, <1>5, <1>6 DEF PartitionInv

LEMMA MInit == Init => MInv
<1> SUFFICES ASSUME Init PROVE MInv
  OBVIOUS
<1>1. /\ plan \in Plans /\ clock = 0 /\ registry = <<>>
      /\ op = [p \in Partitions |-> [pc |-> "new", base |-> 0, batch |-> 1, timer |-> None, polls |-> 0, last |-> None]]
      /\ handle = [p \in Partitions |-> [h \in {"stream", "clone"} |-> [pc |-> "none", stamp |-> None]]]
  BY DEF Init
<1>2. TypeInv
  BY <1>1 DEF TypeInv, Stream, StreamState, Handle, Kept
<1>3. Opened = {}
  BY <1>1 DEF Opened
<1>4. registry \in Seq({})
  BY <1>1
<1>5. RegistryInv
  BY <1>3, <1>4 DEF RegistryInv
<1>6. \A p \in Partitions : PartitionInv(p)
  BY <1>1, <1>3 DEF PartitionInv, NewOf, Kept
<1>7. QED
  BY <1>2, <1>5, <1>6 DEF MInv

LEMMA MStep == MInv /\ [Next]_vars => MInv'
<1> SUFFICES ASSUME MInv, [Next]_vars PROVE MInv'
  OBVIOUS
<1>2. ASSUME UNCHANGED <<plan, registry, op, handle>>, clock <= clock', clock' \in Nat
      PROVE  MInv'
  <2>1. Opened' = Opened /\ Partitions' = Partitions
    BY <1>2 DEF Opened, Partitions, Batches
  <2>1a. TypeInv'
    BY <1>2, <2>1 DEF MInv, TypeInv
  <2>2. RegistryInv' /\ \A q \in Opened : \A k \in DOMAIN Offset : Cell(q, k)' = Cell(q, k)
    BY <1>2, <2>1, WriteNothing DEF MInv
  <2>3. \A q \in Partitions : PartitionInv(q)'
    BY <1>2, <2>1a, <2>2, FramePartition DEF MInv
  <2>4. QED
    BY <2>1, <2>1a, <2>2, <2>3 DEF MInv
<1>3. clock \in Nat
  BY DEF MInv, TypeInv
<1>4. CASE CloneInner \/ Read \/ Report \/ UNCHANGED vars
  BY <1>2, <1>3, <1>4 DEF CloneInner, Read, Report, vars
<1>5. CASE Tick
  BY <1>2, <1>3, <1>5, ClockAssumption, NoValueAssumption DEF Tick
<1>6. ASSUME NEW p \in Partitions, Open(p)
      PROVE  MInv'
  <2>1. RegistryInv' /\ PartitionInv(p)'
    BY <1>6, OpenKeeps
  <2>2. /\ TypeInv' /\ Partitions' = Partitions /\ plan' = plan /\ clock' = clock
        /\ \A q \in Partitions : q # p => op'[q] = op[q] /\ handle'[q] = handle[q]
        /\ \A q \in Opened : \A k \in DOMAIN Offset : Cell(q, k)' = Cell(q, k)
    BY <1>6, OpenStep, OpenRegistry DEF MInv, Open
  <2>3. \A q \in Partitions \ {p} : PartitionInv(q)'
    BY <1>3, <2>2, FramePartition DEF MInv
  <2>4. QED
    BY <2>1, <2>2, <2>3 DEF MInv
<1>7. ASSUME NEW p \in Opened, StepsAlone(p), OwnPart(p)
      PROVE  MInv'
  <2>1. /\ TypeInv' /\ p \in Partitions /\ Opened' = Opened /\ Partitions' = Partitions /\ plan' = plan /\ clock' = clock
        /\ \A q \in Partitions : q # p => op'[q] = op[q] /\ handle'[q] = handle[q]
    BY <1>7, AloneKeepsTypes DEF MInv, Opened, StepsAlone
  <2>2. \A q \in Partitions \ {p} : PartitionInv(q)'
    BY <1>3, <1>7, <2>1, FramePartition DEF MInv, OwnPart
  <2>3. PartitionInv(p)'
    BY <1>7, <2>1 DEF OwnPart, PartitionInv
  <2>4. QED
    BY <1>7, <2>1, <2>2, <2>3 DEF MInv, OwnPart
<1>8. ASSUME NEW p \in Partitions, OperatorStep(p), ~Open(p)
      PROVE  MInv'
  <2>1. p \in Opened
    <3>1. CASE p \notin Opened
      <4>1. op[p].pc = "new" /\ handle[p].stream.pc = "none"
        BY <3>1 DEF MInv, PartitionInv, NewOf, Opened, Kept
      <4>2. QED
        BY <1>8, <4>1 DEF OperatorStep, StartTimer, StopEarly, EndPoll, RecordRows, RecordBytes,
           RecordBatches, Done, Clone
    <3>2. QED
      BY <3>1
  <2>2. StepsAlone(p)
    BY <1>8, StreamSteps, HandleSteps DEF MInv, OperatorStep, Kept
  <2>3. OwnPart(p)
    BY <1>8, <2>1, StartTimerStep, StopStep, RecordStep, HandleStepKeeps DEF OperatorStep, Kept
  <2>4. QED
    BY <1>7, <2>1, <2>2, <2>3
<1>9. ASSUME NEW p \in Partitions, NEW h \in Kept, HandleStep(p, h)
      PROVE  MInv'
  <2>1. p \in Opened
    <3>1. CASE p \notin Opened
      <4>1. handle[p][h].pc = "none"
        BY <3>1 DEF MInv, PartitionInv, NewOf
      <4>2. QED
        BY <1>9, <4>1 DEF HandleStep, Drop, Stamp, Write
    <3>2. QED
      BY <3>1
  <2>2. StepsAlone(p)
    BY <1>9, HandleSteps DEF MInv
  <2>3. OwnPart(p)
    BY <1>9, <2>1, HandleStepKeeps, WriteStep DEF HandleStep
  <2>4. QED
    BY <1>7, <2>1, <2>2, <2>3
<1>10. QED
  BY <1>4, <1>5, <1>6, <1>8, <1>9 DEF Next, Kept
-----------------------------------------------------------------------------
(***************************************************************************)
(* Each operator keeps to its own place in the shared set of metrics, its  *)
(* timer has counted nothing of an interval that still runs, and an end    *)
(* that was or will be written is not before what it has to cover.         *)
(***************************************************************************)
THEOREM MetricsInvariance == Spec => []MInv
<1>1. Init => MInv
  BY MInit
<1>2. MInv /\ [Next]_vars => MInv'
  BY MStep
<1>3. QED
  BY <1>1, <1>2, PTL DEF Spec

(***************************************************************************)
(* The time of an operator is no longer than it has been open, one ns for  *)
(* each poll aside, however the guards of its timer are stopped and        *)
(* dropped, and whatever other operators and readers do meanwhile.         *)
(***************************************************************************)
THEOREM TimeIsNotCountedTwice == Spec => []TimeIsCountedOnce
<1>1. MInv => TimeIsCountedOnce
  <2> SUFFICES ASSUME MInv, NEW p \in Opened
               PROVE  Cell(p, "ElapsedCompute") <= clock - Cell(p, "StartTimestamp") + op[p].polls
    BY DEF TimeIsCountedOnce
  <2>1. p \in Partitions /\ CellTypes(p) /\ TimeOf(p)
    BY DEF MInv, PartitionInv, Opened
  <2>2. clock \in Nat /\ op[p].polls \in Nat /\ op[p].timer \in Nat \cup {None}
    BY <2>1 DEF MInv, TypeInv, Stream
  <2>3. QED
    BY <2>1, <2>2 DEF CellTypes, TimeOf
<1>2. QED
  BY <1>1, MetricsInvariance, PTL

(***************************************************************************)
(* Once every handle of a stream is dropped it has an end, which is not    *)
(* before its start, nor before its last batch if it was never cloned,     *)
(* in whatever order two handles look, read the clock and write; for a     *)
(* wall clock that does not go back.                                       *)
(***************************************************************************)
THEOREM DroppedStreamsHaveAnEnd == Spec => []EndCoversTheStream
<1>1. MInv => EndCoversTheStream
  <2> SUFFICES ASSUME MInv, NEW p \in Opened,
                      handle[p].stream.pc = "gone", handle[p].clone.pc \in {"none", "gone"}
               PROVE  /\ Cell(p, "EndTimestamp") # None
                      /\ Cell(p, "StartTimestamp") <= Cell(p, "EndTimestamp")
                      /\ (handle[p].clone.pc = "none" /\ op[p].last # None) => op[p].last <= Cell(p, "EndTimestamp")
    BY DEF EndCoversTheStream
  <2>1. EndOf(p)
    BY DEF MInv, PartitionInv, Opened
  <2>2. QED
    BY <2>1 DEF EndOf, Kept
<1>2. QED
  BY <1>1, MetricsInvariance, PTL
-----------------------------------------------------------------------------
(***************************************************************************)
(* Totals.                                                                 *)
(***************************************************************************)
AnyMetric ==
  [value : Values, partition : DOMAIN Extras, type : Types, category : Categories \cup {None}]

\* The values of a kind, and what a total shows.
OfKind(kind) == {v \in Values : v.kind = kind}
NumberOf(total) == IF total = None THEN 0 ELSE AsUsize(total)

\* A value of a counter holds one number.
LEMMA CounterValue ==
  ASSUME NEW kind \in Outputs, NEW v \in OfKind(kind)
  PROVE  v \in Values /\ v # None /\ v # Mismatch /\ v.kind = kind /\ v.cells \in Seq(Nat) /\ DOMAIN v.cells = {1}
         /\ v.cells[1] \in Nat /\ NumberOf(v) = v.cells[1]
<1>1. v \in Values /\ v.kind = kind /\ v # None /\ v # Mismatch
  BY NoValueAssumption DEF OfKind
<1>2. v.kind \notin Timestamps /\ v.kind \notin {"PruningMetrics", "Ratio"} /\ EmptyCells(v.kind) = <<0>>
  BY <1>1 DEF Outputs, Timestamps, EmptyCells
<1>3. v.cells \in Seq(Nat) /\ DOMAIN v.cells = DOMAIN <<0>>
  BY <1>1, <1>2 DEF Values
<1>4. DOMAIN <<0>> = {1}
  OBVIOUS
<1>5. v.cells[1] \in Nat /\ v.cells[1] # None
  BY <1>3, <1>4, NoValueAssumption
<1>6. QED
  BY <1>1, <1>2, <1>3, <1>4, <1>5 DEF NumberOf, AsUsize

\* A value with another number is a value.
LEMMA CounterOf ==
  ASSUME NEW kind \in Outputs, NEW v \in OfKind(kind), NEW cells, cells \in Seq(Nat), DOMAIN cells = {1}
  PROVE  [v EXCEPT !.cells = cells] \in OfKind(kind) /\ [v EXCEPT !.cells = cells].cells = cells
<1> DEFINE w == [v EXCEPT !.cells = cells]
           Record == [kind : Kinds, name : Names, cells : Seq(Nat \cup {None}), merge : Merges]
<1>1. v \in Record /\ v.kind = kind /\ DOMAIN v.cells = DOMAIN EmptyCells(kind)
  BY DEF OfKind, Values
<1>2. DOMAIN v.cells = {1}
  BY CounterValue
<1>3. cells \in Seq(Nat \cup {None})
  OBVIOUS
<1>4. w \in Record /\ w.kind = kind /\ w.cells = cells
  BY <1>1, <1>3
<1> HIDE DEF w
<1>5. w \in Values
  BY <1>1, <1>2, <1>4 DEF Values
<1>6. QED
  BY <1>4, <1>5 DEF OfKind, w

LEMMA AddsCounters ==
  ASSUME NEW kind \in Outputs, NEW sum \in OfKind(kind) \cup {None}, NEW v \in OfKind(kind)
  PROVE  AddTo(sum, v) \in OfKind(kind) /\ NumberOf(AddTo(sum, v)) = NumberOf(sum) + v.cells[1]
<1> DEFINE from == IF sum = None THEN NewEmpty(v) ELSE sum
           cells == [i \in DOMAIN from.cells |-> from.cells[i] + v.cells[i]]
<1>1. v.kind = kind /\ DOMAIN v.cells = {1} /\ v.cells[1] \in Nat
  BY CounterValue
<1>2. EmptyCells(kind) = <<0>> /\ kind \notin Times /\ kind \notin {"StartTimestamp", "EndTimestamp", "Ratio"}
  BY DEF EmptyCells, Outputs, Timestamps, Times
<1>3. from \in OfKind(kind) /\ from.cells[1] = NumberOf(sum)
  <2>1. CASE sum = None
    <3> DEFINE nought == <<0>>
    <3>1. NewEmpty(v) = [v EXCEPT !.cells = nought]
      BY <1>1, <1>2 DEF NewEmpty
    <3>2. nought \in Seq(Nat) /\ DOMAIN nought = {1} /\ nought[1] = 0
      OBVIOUS
    <3> HIDE DEF nought
    <3>3. NewEmpty(v) \in OfKind(kind) /\ NewEmpty(v).cells = nought
      BY <3>1, <3>2, CounterOf
    <3>4. QED
      BY <2>1, <3>2, <3>3 DEF NumberOf
  <2>2. CASE sum # None
    BY <2>2, CounterValue
  <2>3. QED
    BY <2>1, <2>2
<1> HIDE DEF from
<1>4. from.kind = kind /\ from # Mismatch /\ DOMAIN from.cells = {1} /\ from.cells[1] \in Nat
  BY <1>3, CounterValue
<1>5. AddTo(sum, v) = Aggregate(from, v)
  BY DEF AddTo, from
<1>6. Aggregate(from, v) = [from EXCEPT !.cells = cells]
  BY <1>1, <1>2, <1>4 DEF Aggregate
<1>7. cells \in Seq(Nat) /\ DOMAIN cells = {1} /\ cells[1] = from.cells[1] + v.cells[1]
  <2>1. DOMAIN cells = 1..1 /\ cells[1] = from.cells[1] + v.cells[1] /\ cells[1] \in Nat
    BY <1>1, <1>4
  <2>2. cells = [i \in 1..1 |-> cells[1]]
    BY <1>4
  <2> HIDE DEF cells
  <2>3. QED
    BY <2>1, <2>2
<1> HIDE DEF cells
<1>8. AddTo(sum, v) \in OfKind(kind) /\ AddTo(sum, v).cells = cells
  BY <1>3, <1>5, <1>6, <1>7, CounterOf
<1>9. NumberOf(AddTo(sum, v)) = cells[1]
  BY <1>8, CounterValue
<1>10. QED
  BY <1>3, <1>7, <1>8, <1>9

\* What a total is after each metric.
SumsUp(acc, n, metrics, kind) ==
  /\ acc[0] = None
  /\ \A k \in 1..n : acc[k] = IF metrics[k].value.kind = kind THEN AddTo(acc[k - 1], metrics[k].value) ELSE acc[k - 1]

LEMMA TotalPasses ==
  ASSUME NEW kind \in Outputs, NEW metrics \in Seq(AnyMetric), NEW n, n = Len(metrics)
  PROVE  \E acc \in [0..n -> OfKind(kind) \cup {None}] :
           SumsUp(acc, n, metrics, kind) /\ Total(metrics, kind) = acc[n]
<1> DEFINE V == OfKind(kind) \cup {None}
           Step(k, x) == IF metrics[k].value.kind = kind THEN AddTo(x, metrics[k].value) ELSE x
           step == [p \in (1..n) \X V |-> Step(p[1], p[2])]
           eq(f) == [k \in 0..n |-> IF k = 0 THEN None ELSE Step(k, f[k - 1])]
           sum == CHOOSE f : f = eq(f)
<1>1. n \in Nat /\ \A k \in 1..n : metrics[k] \in AnyMetric
  OBVIOUS
<1>2. None \in V
  OBVIOUS
<1>3. \A k \in 1..n : \A x \in V : Step(k, x) \in V
  BY <1>1, AddsCounters DEF AnyMetric, OfKind
<1>4. Total(metrics, kind) = sum[n]
  BY DEF Total
<1> HIDE DEF Step, V
<1>5. step \in [(1..n) \X V -> V] /\ \A k \in 1..n : \A x \in V : step[<<k, x>>] = Step(k, x)
  BY <1>3
<1> HIDE DEF step
<1>6. PICK acc \in [0..n -> V] : Passes(acc, n, None, step)
  BY <1>1, <1>2, <1>5, PassesExists
<1>7. acc = eq(acc)
  <2>1. ASSUME NEW k \in 0..n PROVE acc[k] = IF k = 0 THEN None ELSE Step(k, acc[k - 1])
    <3>1. CASE k = 0
      BY <1>6, <3>1 DEF Passes
    <3>2. CASE k # 0
      <4>1. k \in 1..n /\ k - 1 \in 0..n
        BY <1>1, <3>2
      <4>2. acc[k] = step[<<k, acc[k - 1]>>] /\ acc[k - 1] \in V
        BY <1>6, <4>1 DEF Passes
      <4>3. QED
        BY <1>5, <3>2, <4>1, <4>2
    <3>3. QED
      BY <3>1, <3>2
  <2>2. QED
    BY <2>1
<1>8. sum = eq(sum)
  BY <1>7
<1> HIDE DEF sum
<1>9. sum = [k \in 0..n |-> sum[k]] /\ sum[0] = None /\ \A k \in 1..n : sum[k] = Step(k, sum[k - 1])
  BY <1>1, <1>8
<1> DEFINE S == {k \in 0..n : sum[k] \in V}
<1>10. 0 \in S
  BY <1>1, <1>2, <1>9
<1>11. ASSUME NEW k \in 1..n, k - 1 \in S PROVE k \in S
  BY <1>1, <1>3, <1>9, <1>11
<1> HIDE DEF S
<1>12. 0..n \subseteq S
  BY <1>1, <1>10, <1>11, BoundedInduction
<1>13. sum \in [0..n -> V]
  BY <1>9, <1>12 DEF S
<1>14. SumsUp(sum, n, metrics, kind)
  BY <1>9 DEF SumsUp, Step
<1>15. QED
  BY <1>4, <1>13, <1>14 DEF V

\* The number of an output that a metric holds.
Amount(m, kind) == IF m.value.kind = kind THEN m.value.cells[1] ELSE 0

LEMMA TotalStep ==
  ASSUME NEW kind \in Outputs, NEW sum \in OfKind(kind) \cup {None}, NEW m \in AnyMetric,
         NEW next, next = IF m.value.kind = kind THEN AddTo(sum, m.value) ELSE sum
  PROVE  /\ NumberOf(next) = NumberOf(sum) + Amount(m, kind)
         /\ NumberOf(sum) \in Nat /\ NumberOf(next) \in Nat /\ Amount(m, kind) \in Nat
<1>1. NumberOf(sum) \in Nat
  BY CounterValue DEF NumberOf
<1>2. CASE m.value.kind = kind
  <2>1. m.value \in OfKind(kind)
    BY <1>2 DEF AnyMetric, OfKind
  <2>2. next \in OfKind(kind) /\ NumberOf(next) = NumberOf(sum) + m.value.cells[1]
    BY <1>2, <2>1, AddsCounters
  <2>3. m.value.cells[1] \in Nat /\ NumberOf(next) \in Nat
    BY <2>1, <2>2, CounterValue
  <2>4. QED
    BY <1>1, <1>2, <2>2, <2>3 DEF Amount
<1>3. CASE m.value.kind # kind
  BY <1>1, <1>3 DEF Amount
<1>4. QED
  BY <1>2, <1>3

\* The first n metrics of a list are those of another, and count no more.
NotAbove(s, t, n) ==
  \A i \in 1..n : /\ s[i].value.kind = t[i].value.kind
                  /\ s[i].value.kind \in Outputs => s[i].value.cells[1] <= t[i].value.cells[1]

LEMMA TotalsGrow ==
  ASSUME NEW s \in Seq(AnyMetric), NEW t \in Seq(AnyMetric), Len(s) <= Len(t), NotAbove(s, t, Len(s)), NEW kind \in Outputs
  PROVE  Totals(s)[kind] <= Totals(t)[kind]
<1> DEFINE n == Len(s)
           m == Len(t)
           V == OfKind(kind) \cup {None}
<1>1. n \in Nat /\ m \in Nat /\ n <= m /\ (\A k \in 1..n : s[k] \in AnyMetric)
      /\ (\A k \in 1..m : t[k] \in AnyMetric) /\ n = Len(s) /\ m = Len(t)
  OBVIOUS
<1> HIDE DEF n, m, V
<1>2. PICK a \in [0..n -> V] : SumsUp(a, n, s, kind) /\ Total(s, kind) = a[n]
  <2>1. n = Len(s)
    BY DEF n
  <2>2. QED
    BY <2>1, TotalPasses DEF V
<1>3. PICK b \in [0..m -> V] : SumsUp(b, m, t, kind) /\ Total(t, kind) = b[m]
  <2>1. m = Len(t)
    BY DEF m
  <2>2. QED
    BY <2>1, TotalPasses DEF V
<1>4. ASSUME NEW k \in 1..n
      PROVE  k - 1 \in 0..n /\ NumberOf(a[k]) = NumberOf(a[k - 1]) + Amount(s[k], kind)
             /\ NumberOf(a[k - 1]) \in Nat /\ NumberOf(a[k]) \in Nat /\ Amount(s[k], kind) \in Nat
  <2>1. k - 1 \in 0..n
    BY <1>1
  <2>2. a[k] = IF s[k].value.kind = kind THEN AddTo(a[k - 1], s[k].value) ELSE a[k - 1]
    BY <1>2 DEF SumsUp
  <2>3. a[k - 1] \in OfKind(kind) \cup {None} /\ s[k] \in AnyMetric
    BY <1>1, <1>2, <2>1 DEF V
  <2>4. QED
    BY <2>1, <2>2, <2>3, TotalStep
<1>5. ASSUME NEW k \in 1..m
      PROVE  k - 1 \in 0..m /\ NumberOf(b[k]) = NumberOf(b[k - 1]) + Amount(t[k], kind)
             /\ NumberOf(b[k - 1]) \in Nat /\ NumberOf(b[k]) \in Nat /\ Amount(t[k], kind) \in Nat
  <2>1. k - 1 \in 0..m
    BY <1>1
  <2>2. b[k] = IF t[k].value.kind = kind THEN AddTo(b[k - 1], t[k].value) ELSE b[k - 1]
    BY <1>3 DEF SumsUp
  <2>3. b[k - 1] \in OfKind(kind) \cup {None}
    BY <1>3, <2>1 DEF V
  <2>3a. t[k] \in AnyMetric
    BY <1>1
  <2>4. QED
    BY <2>1, <2>2, <2>3, <2>3a, TotalStep
<1>6. a[0] = None /\ b[0] = None /\ NumberOf(None) = 0
  BY <1>2, <1>3 DEF SumsUp, NumberOf
<1> DEFINE seen(k) == IF k <= n THEN k ELSE n
           S == {k \in 0..m : NumberOf(a[seen(k)]) <= NumberOf(b[k])}
<1>7. 0 \in S
  <2>1. seen(0) = 0 /\ 0 \in 0..m
    BY <1>1
  <2>2. QED
    BY <1>6, <2>1
<1>8. ASSUME NEW k \in 1..m, k - 1 \in S PROVE k \in S
  <2>1. k \in 0..m
    BY <1>1
  <2>2. CASE k <= n
    <3>1. k \in 1..n /\ seen(k) = k /\ seen(k - 1) = k - 1
      BY <1>1, <2>2
    <3>2. NumberOf(a[k - 1]) <= NumberOf(b[k - 1])
      BY <1>8, <3>1
    <3>3. Amount(s[k], kind) <= Amount(t[k], kind)
      <4>1. /\ s[k].value.kind = t[k].value.kind
            /\ s[k].value.kind \in Outputs => s[k].value.cells[1] <= t[k].value.cells[1]
        BY <3>1 DEF NotAbove, n
      <4>2. CASE s[k].value.kind = kind
        BY <4>1, <4>2 DEF Amount
      <4>3. CASE s[k].value.kind # kind
        BY <4>1, <4>3 DEF Amount
      <4>4. QED
        BY <4>2, <4>3
    <3>4. NumberOf(a[k]) <= NumberOf(b[k])
      BY <1>4, <1>5, <3>1, <3>2, <3>3
    <3>5. QED
      BY <2>1, <3>1, <3>4
  <2>3. CASE ~(k <= n)
    <3>1. seen(k) = n /\ seen(k - 1) = n
      BY <1>1, <2>3
    <3>2. NumberOf(a[n]) <= NumberOf(b[k - 1])
      BY <1>8, <3>1
    <3>3. NumberOf(a[n]) \in Nat
      BY <1>1, <1>4, <1>6
    <3>4. NumberOf(a[n]) <= NumberOf(b[k])
      BY <1>5, <3>2, <3>3
    <3>5. QED
      BY <2>1, <3>1, <3>4
  <2>4. QED
    BY <2>2, <2>3
<1> HIDE DEF S
<1>9. 0..m \subseteq S
  BY <1>1, <1>7, <1>8, BoundedInduction
<1>10. m \in S /\ seen(m) = n
  BY <1>1, <1>9
<1>11. NumberOf(a[n]) <= NumberOf(b[m])
  BY <1>10 DEF S
<1>12. Totals(s)[kind] = NumberOf(Total(s, kind)) /\ Totals(t)[kind] = NumberOf(Total(t, kind))
  BY DEF Totals, NumberOf
<1>13. QED
  BY <1>2, <1>3, <1>11, <1>12
-----------------------------------------------------------------------------
(***************************************************************************)
(* The memory of batches.                                                  *)
(***************************************************************************)
Buffers == DOMAIN Capacity
Counter == [counted : SUBSET Buffers, usage : Nat]
Column  == Seq(Buffers)

CountOne(c, b) ==
  IF b \in c.counted THEN c ELSE [counted |-> c.counted \cup {b}, usage |-> c.usage + Capacity[b]]

LEMMA OneCounts ==
  ASSUME NEW c \in Counter, NEW b \in Buffers
  PROVE  CountOne(c, b) \in Counter /\ CountOne(c, b).counted = c.counted \cup {b}
<1>1. Capacity[b] \in Nat
  BY PlansAssumption DEF Buffers
<1>2. CASE b \in c.counted
  BY <1>2 DEF CountOne
<1>3. CASE b \notin c.counted
  BY <1>1, <1>3 DEF CountOne, Counter
<1>4. QED
  BY <1>2, <1>3

BuffersCounted(acc, n, c, buffers) == acc[0] = c /\ \A k \in 1..n : acc[k] = CountOne(acc[k - 1], buffers[k])

LEMMA BuffersPass ==
  ASSUME NEW c \in Counter, NEW buffers \in Column, NEW n, n = Len(buffers)
  PROVE  \E acc \in [0..n -> Counter] : BuffersCounted(acc, n, c, buffers) /\ CountBuffers(c, buffers) = acc[n]
<1> DEFINE V == Counter
           Step(k, x) == IF buffers[k] \in x.counted THEN x ELSE [counted |-> x.counted \cup {buffers[k]}, usage |-> x.usage + Capacity[buffers[k]]]
           step == [p \in (1..n) \X V |-> Step(p[1], p[2])]
           eq(g) == [s \in SUBSET (1..n) |-> IF s = {} THEN c ELSE LET x == Max(s) IN Step(x, g[s \ {x}])]
           fold == CHOOSE g : g = eq(g)
<1>1. n \in Nat /\ DOMAIN buffers = 1..n /\ \A k \in 1..n : buffers[k] \in Buffers
  BY DEF Column
<1>2. c \in V
  OBVIOUS
<1>3. \A k \in 1..n : \A x \in V : Step(k, x) \in V
  BY <1>1, OneCounts DEF Column, CountOne
<1>4. CountBuffers(c, buffers) = fold[1..n]
  BY <1>1 DEF CountBuffers,FoldLeft, MapThenFoldSet
<1> HIDE DEF Step, V
<1>5. step \in [(1..n) \X V -> V]
  BY <1>3
<1>6. \A k \in 1..n : \A x \in V : step[<<k, x>>] = Step(k, x)
  OBVIOUS
<1> HIDE DEF step
<1>7. PICK g0 \in [SUBSET (1..n) -> V] : FoldsTo(g0, n, c, step)
  BY <1>1, <1>2, <1>5, FoldExists
<1>8. g0 = eq(g0)
  <2>1. ASSUME NEW s \in SUBSET (1..n)
        PROVE  g0[s] = IF s = {} THEN c ELSE LET x == Max(s) IN Step(x, g0[s \ {x}])
    <3>1. CASE s = {}
      BY <1>7, <3>1 DEF FoldsTo
    <3>2. CASE s # {}
      <4>1. Max(s) \in s
        BY <1>1, <3>2, MaxOfPlaces
      <4>2. Max(s) \in 1..n /\ s \ {Max(s)} \in SUBSET (1..n)
        BY <4>1
      <4>3. g0[s] = step[<<Max(s), g0[s \ {Max(s)}]>>] /\ g0[s \ {Max(s)}] \in V
        BY <1>7, <3>2, <4>2 DEF FoldsTo
      <4>4. QED
        BY <1>6, <3>2, <4>2, <4>3
    <3>3. QED
      BY <3>1, <3>2
  <2>2. QED
    BY <2>1
<1>9. fold = eq(fold)
  BY <1>8
<1> HIDE DEF fold
<1>10. fold[{}] = c
  BY <1>9
<1>11. ASSUME NEW s \in (SUBSET (1..n)) \ {{}}, fold[s \ {Max(s)}] \in V
       PROVE  fold[s] = step[<<Max(s), fold[s \ {Max(s)}]>>]
  <2>1. Max(s) \in 1..n
    BY <1>1, MaxOfPlaces
  <2>2. fold[s] = Step(Max(s), fold[s \ {Max(s)}])
    BY <1>9
  <2>3. QED
    BY <1>6, <1>11, <2>1, <2>2
<1>12. FoldsAmong(fold, V, n, c, step)
  BY <1>10, <1>11 DEF FoldsAmong
<1>13. PassesTo(fold[1..n], V, n, c, step)
  BY <1>1, <1>2, <1>5, <1>12, FoldPasses
<1>14. PICK acc \in [0..n -> V] : Passes(acc, n, c, step) /\ acc[n] = fold[1..n]
  BY <1>13 DEF PassesTo
<1>15. ASSUME NEW k \in 1..n PROVE acc[k] = CountOne(acc[k - 1], buffers[k])
  <2>1. k - 1 \in 0..n
    BY <1>1
  <2>2. acc[k] = step[<<k, acc[k - 1]>>] /\ acc[k - 1] \in V
    BY <1>14, <2>1 DEF Passes
  <2>3. QED
    BY <1>6, <2>2 DEF Step, CountOne
<1>16. BuffersCounted(acc, n, c, buffers)
  BY <1>14, <1>15 DEF Passes, BuffersCounted
<1>17. QED
  BY <1>4, <1>14, <1>16 DEF V

\* What a column or a batch makes of a counter, next to what it makes of a
\* new one: buffers that both have are counted once.
Together(c, own, both) ==
  /\ both.counted = c.counted \cup own.counted
  /\ both.usage <= c.usage + own.usage
  /\ c.counted \cap own.counted = {} => both.usage = c.usage + own.usage

LEMMA TogetherOne ==
  ASSUME NEW c \in Counter, NEW own \in Counter, NEW both \in Counter, Together(c, own, both), NEW b \in Buffers
  PROVE  Together(c, CountOne(own, b), CountOne(both, b))
<1> DEFINE more == [counted |-> own.counted \cup {b}, usage |-> own.usage + Capacity[b]]
           all == [counted |-> both.counted \cup {b}, usage |-> both.usage + Capacity[b]]
<1>1. Capacity[b] \in Nat
  BY PlansAssumption DEF Buffers
<1>2. both.usage \in Nat /\ own.usage \in Nat /\ c.usage \in Nat
  BY DEF Counter
<1>3. CASE b \in own.counted
  BY <1>3 DEF CountOne, Together
<1>4. CASE b \notin own.counted /\ b \in c.counted
  <2>1. CountOne(both, b) = both /\ CountOne(own, b) = more
    BY <1>4 DEF CountOne, Together
  <2>2. more.counted = own.counted \cup {b} /\ more.usage = own.usage + Capacity[b]
    OBVIOUS
  <2> HIDE DEF more
  <2>3. Together(c, more, both)
    BY <1>1, <1>2, <1>4, <2>2 DEF Together
  <2>4. QED
    BY <2>1, <2>3
<1>5. CASE b \notin own.counted /\ b \notin c.counted
  <2>1. CountOne(both, b) = all /\ CountOne(own, b) = more
    BY <1>5 DEF CountOne, Together
  <2>2. more.counted = own.counted \cup {b} /\ more.usage = own.usage + Capacity[b]
        /\ all.counted = both.counted \cup {b} /\ all.usage = both.usage + Capacity[b]
    OBVIOUS
  <2> HIDE DEF more, all
  <2>3. Together(c, more, all)
    BY <1>1, <1>2, <1>5, <2>2 DEF Together
  <2>4. QED
    BY <2>1, <2>3
<1>6. QED
  BY <1>3, <1>4, <1>5

LEMMA ColumnCounts ==
  ASSUME NEW c \in Counter, NEW buffers \in Column
  PROVE  CountBuffers(c, buffers) \in Counter /\ CountBuffers(c, buffers).counted = c.counted \cup ToSet(buffers)
<1> DEFINE n == Len(buffers)
           among(k) == {buffers[i] : i \in 1..k}
<1>1. n \in Nat /\ DOMAIN buffers = 1..n /\ \A k \in 1..n : buffers[k] \in Buffers
  BY DEF Column
<1>2. n = Len(buffers)
  OBVIOUS
<1> HIDE DEF n
<1>3. PICK acc \in [0..n -> Counter] : BuffersCounted(acc, n, c, buffers) /\ CountBuffers(c, buffers) = acc[n]
  BY <1>2, BuffersPass
<1> DEFINE S == {k \in 0..n : acc[k].counted = c.counted \cup among(k)}
<1>4. 0 \in S
  <2>1. among(0) = {}
    OBVIOUS
  <2>2. acc[0] = c /\ 0 \in 0..n
    BY <1>1, <1>3 DEF BuffersCounted
  <2>3. QED
    BY <2>1, <2>2
<1>5. ASSUME NEW k \in 1..n, k - 1 \in S PROVE k \in S
  <2>1. k \in 0..n /\ k - 1 \in 0..n /\ 1..k = (1..(k - 1)) \cup {k}
    BY <1>1
  <2>2. among(k) = among(k - 1) \cup {buffers[k]}
    BY <2>1
  <2>3. acc[k] = CountOne(acc[k - 1], buffers[k]) /\ acc[k - 1] \in Counter /\ acc[k - 1].counted = c.counted \cup among(k - 1)
    BY <1>3, <1>5, <2>1 DEF BuffersCounted
  <2> HIDE DEF among
  <2>4. acc[k].counted = acc[k - 1].counted \cup {buffers[k]}
    BY <1>1, <2>3, OneCounts
  <2>5. QED
    BY <2>1, <2>2, <2>3, <2>4
<1> HIDE DEF S
<1>6. 0..n \subseteq S
  BY <1>1, <1>4, <1>5, BoundedInduction
<1>7. n \in S /\ n \in 0..n
  BY <1>1, <1>6
<1>8. among(n) = ToSet(buffers)
  BY <1>1 DEF ToSet
<1>9. QED
  BY <1>3, <1>7, <1>8 DEF S

LEMMA TogetherColumn ==
  ASSUME NEW c \in Counter, NEW own \in Counter, NEW both \in Counter, Together(c, own, both), NEW buffers \in Column
  PROVE  Together(c, CountBuffers(own, buffers), CountBuffers(both, buffers))
<1> DEFINE n == Len(buffers)
<1>1. n \in Nat /\ \A k \in 1..n : buffers[k] \in Buffers
  BY DEF Column
<1>2. n = Len(buffers)
  OBVIOUS
<1> HIDE DEF n
<1>3. PICK a \in [0..n -> Counter] : BuffersCounted(a, n, own, buffers) /\ CountBuffers(own, buffers) = a[n]
  BY <1>2, BuffersPass
<1>4. PICK d \in [0..n -> Counter] : BuffersCounted(d, n, both, buffers) /\ CountBuffers(both, buffers) = d[n]
  BY <1>2, BuffersPass
<1> DEFINE S == {k \in 0..n : Together(c, a[k], d[k])}
<1>5. 0 \in S
  BY <1>1, <1>3, <1>4 DEF BuffersCounted
<1>6. ASSUME NEW k \in 1..n, k - 1 \in S PROVE k \in S
  <2>1. k \in 0..n /\ k - 1 \in 0..n
    BY <1>1
  <2>2. a[k] = CountOne(a[k - 1], buffers[k]) /\ d[k] = CountOne(d[k - 1], buffers[k])
        /\ a[k - 1] \in Counter /\ d[k - 1] \in Counter
    BY <1>3, <1>4, <2>1 DEF BuffersCounted
  <2>3. QED
    BY <1>1, <1>6, <2>1, <2>2, TogetherOne
<1> HIDE DEF S
<1>7. 0..n \subseteq S
  BY <1>1, <1>5, <1>6, BoundedInduction
<1>8. n \in S
  BY <1>1, <1>7
<1>9. QED
  BY <1>3, <1>4, <1>8 DEF S

ColumnsCounted(acc, n, c, columns) == acc[0] = c /\ \A k \in 1..n : acc[k] = CountBuffers(acc[k - 1], columns[k])

LEMMA ColumnsFold ==
  ASSUME NEW c \in Counter, NEW columns \in Seq(Column), NEW n, n = Len(columns)
  PROVE  \E acc \in [0..n -> Counter] :
           ColumnsCounted(acc, n, c, columns) /\ FoldLeft(CountBuffers, c, columns) = acc[n]
<1> DEFINE V == Counter
           Step(k, x) == CountBuffers(x, columns[k])
           step == [p \in (1..n) \X V |-> Step(p[1], p[2])]
           eq(g) == [s \in SUBSET (1..n) |-> IF s = {} THEN c ELSE LET x == Max(s) IN Step(x, g[s \ {x}])]
           fold == CHOOSE g : g = eq(g)
<1>1. n \in Nat /\ DOMAIN columns = 1..n /\ \A k \in 1..n : columns[k] \in Column
  OBVIOUS
<1>2. c \in V
  OBVIOUS
<1>3. \A k \in 1..n : \A x \in V : Step(k, x) \in V
  BY <1>1, ColumnCounts
<1>4. FoldLeft(CountBuffers, c, columns) = fold[1..n]
  BY <1>1 DEF FoldLeft, MapThenFoldSet
<1> HIDE DEF Step, V
<1>5. step \in [(1..n) \X V -> V]
  BY <1>3
<1>6. \A k \in 1..n : \A x \in V : step[<<k, x>>] = Step(k, x)
  OBVIOUS
<1> HIDE DEF step
<1>7. PICK g0 \in [SUBSET (1..n) -> V] : FoldsTo(g0, n, c, step)
  BY <1>1, <1>2, <1>5, FoldExists
<1>8. g0 = eq(g0)
  <2>1. ASSUME NEW s \in SUBSET (1..n)
        PROVE  g0[s] = IF s = {} THEN c ELSE LET x == Max(s) IN Step(x, g0[s \ {x}])
    <3>1. CASE s = {}
      BY <1>7, <3>1 DEF FoldsTo
    <3>2. CASE s # {}
      <4>1. Max(s) \in s
        BY <1>1, <3>2, MaxOfPlaces
      <4>2. Max(s) \in 1..n /\ s \ {Max(s)} \in SUBSET (1..n)
        BY <4>1
      <4>3. g0[s] = step[<<Max(s), g0[s \ {Max(s)}]>>] /\ g0[s \ {Max(s)}] \in V
        BY <1>7, <3>2, <4>2 DEF FoldsTo
      <4>4. QED
        BY <1>6, <3>2, <4>2, <4>3
    <3>3. QED
      BY <3>1, <3>2
  <2>2. QED
    BY <2>1
<1>9. fold = eq(fold)
  BY <1>8
<1> HIDE DEF fold
<1>10. fold[{}] = c
  BY <1>9
<1>11. ASSUME NEW s \in (SUBSET (1..n)) \ {{}}, fold[s \ {Max(s)}] \in V
       PROVE  fold[s] = step[<<Max(s), fold[s \ {Max(s)}]>>]
  <2>1. Max(s) \in 1..n
    BY <1>1, MaxOfPlaces
  <2>2. fold[s] = Step(Max(s), fold[s \ {Max(s)}])
    BY <1>9
  <2>3. QED
    BY <1>6, <1>11, <2>1, <2>2
<1>12. FoldsAmong(fold, V, n, c, step)
  BY <1>10, <1>11 DEF FoldsAmong
<1>13. PassesTo(fold[1..n], V, n, c, step)
  BY <1>1, <1>2, <1>5, <1>12, FoldPasses
<1>14. PICK acc \in [0..n -> V] : Passes(acc, n, c, step) /\ acc[n] = fold[1..n]
  BY <1>13 DEF PassesTo
<1>15. ASSUME NEW k \in 1..n PROVE acc[k] = CountBuffers(acc[k - 1], columns[k])
  <2>1. k - 1 \in 0..n
    BY <1>1
  <2>2. acc[k] = step[<<k, acc[k - 1]>>] /\ acc[k - 1] \in V
    BY <1>14, <2>1 DEF Passes
  <2>3. QED
    BY <1>6, <2>2 DEF Step
<1>16. ColumnsCounted(acc, n, c, columns)
  BY <1>14, <1>15 DEF Passes, ColumnsCounted
<1>17. QED
  BY <1>4, <1>14, <1>16 DEF V

LEMMA ColumnsPass ==
  ASSUME NEW c \in Counter, NEW batch, batch.columns \in Seq(Column), NEW n, n = Len(batch.columns)
  PROVE  \E acc \in [0..n -> Counter] : ColumnsCounted(acc, n, c, batch.columns) /\ CountBatch(c, batch) = acc[n]
<1> DEFINE columns == batch.columns
           fold == FoldLeft(CountBuffers, c, columns)
<1>a. CountBatch(c, batch) = fold /\ columns \in Seq(Column) /\ n = Len(columns)
  BY DEF CountBatch
<1> HIDE DEF columns
<1>b. \E acc \in [0..n -> Counter] : ColumnsCounted(acc, n, c, columns) /\ fold = acc[n]
  BY <1>a, ColumnsFold
<1>c. QED
  BY <1>a, <1>b DEF columns

\* The buffers of a batch.
BuffersOf(batch) == UNION {ToSet(column) : column \in ToSet(batch.columns)}

LEMMA BatchCounts ==
  ASSUME NEW c \in Counter, NEW batch, batch.columns \in Seq(Column)
  PROVE  CountBatch(c, batch) \in Counter /\ CountBatch(c, batch).counted = c.counted \cup BuffersOf(batch)
<1> DEFINE columns == batch.columns
           n == Len(columns)
           among(k) == UNION {ToSet(columns[i]) : i \in 1..k}
<1>1. n \in Nat /\ DOMAIN columns = 1..n /\ \A k \in 1..n : columns[k] \in Column
  OBVIOUS
<1>2. n = Len(batch.columns)
  OBVIOUS
<1> HIDE DEF n
<1>3. PICK acc \in [0..n -> Counter] : ColumnsCounted(acc, n, c, columns) /\ CountBatch(c, batch) = acc[n]
  BY <1>2, ColumnsPass
<1>8. among(n) = BuffersOf(batch)
  BY <1>1 DEF ToSet, BuffersOf
<1> HIDE DEF columns
<1> DEFINE S == {k \in 0..n : acc[k].counted = c.counted \cup among(k)}
<1>4. 0 \in S
  <2>1. among(0) = {}
    OBVIOUS
  <2>2. acc[0] = c /\ 0 \in 0..n
    BY <1>1, <1>3 DEF ColumnsCounted
  <2>3. QED
    BY <2>1, <2>2
<1>5. ASSUME NEW k \in 1..n, k - 1 \in S PROVE k \in S
  <2>1. k \in 0..n /\ k - 1 \in 0..n /\ 1..k = (1..(k - 1)) \cup {k}
    BY <1>1
  <2>2. among(k) = among(k - 1) \cup ToSet(columns[k])
    BY <2>1
  <2>3. acc[k] = CountBuffers(acc[k - 1], columns[k]) /\ acc[k - 1] \in Counter /\ acc[k - 1].counted = c.counted \cup among(k - 1)
    BY <1>3, <1>5, <2>1 DEF ColumnsCounted
  <2> HIDE DEF among
  <2>4. acc[k].counted = acc[k - 1].counted \cup ToSet(columns[k])
    BY <1>1, <2>3, ColumnCounts
  <2>5. QED
    BY <2>1, <2>2, <2>3, <2>4
<1> HIDE DEF S
<1>6. 0..n \subseteq S
  BY <1>1, <1>4, <1>5, BoundedInduction
<1>7. n \in S /\ n \in 0..n
  BY <1>1, <1>6
<1>9. QED
  BY <1>3, <1>7, <1>8 DEF S

LEMMA NewCounterIsOne == NewCounter \in Counter /\ NewCounter.counted = {} /\ NewCounter.usage = 0
  BY DEF NewCounter, Counter

LEMMA TogetherBatch ==
  ASSUME NEW c \in Counter, NEW batch, batch.columns \in Seq(Column)
  PROVE  /\ Together(c, CountBatch(NewCounter, batch), CountBatch(c, batch))
         /\ MemorySize(batch) = CountBatch(NewCounter, batch).usage /\ MemorySize(batch) \in Nat
<1> DEFINE columns == batch.columns
           n == Len(columns)
<1>1. n \in Nat /\ \A k \in 1..n : columns[k] \in Column
  OBVIOUS
<1>2. n = Len(batch.columns)
  OBVIOUS
<1> HIDE DEF n
<1>3. PICK a \in [0..n -> Counter] : ColumnsCounted(a, n, NewCounter, columns) /\ CountBatch(NewCounter, batch) = a[n]
  BY <1>2, ColumnsPass, NewCounterIsOne
<1>4. PICK d \in [0..n -> Counter] : ColumnsCounted(d, n, c, columns) /\ CountBatch(c, batch) = d[n]
  BY <1>2, ColumnsPass
<1> HIDE DEF columns
<1> DEFINE S == {k \in 0..n : Together(c, a[k], d[k])}
<1>5. 0 \in S
  <2>1. Together(c, NewCounter, c)
    BY NewCounterIsOne DEF Together, Counter
  <2>2. QED
    BY <1>1, <1>3, <1>4, <2>1 DEF ColumnsCounted
<1>6. ASSUME NEW k \in 1..n, k - 1 \in S PROVE k \in S
  <2>1. k \in 0..n /\ k - 1 \in 0..n
    BY <1>1
  <2>2. a[k] = CountBuffers(a[k - 1], columns[k]) /\ d[k] = CountBuffers(d[k - 1], columns[k])
        /\ a[k - 1] \in Counter /\ d[k - 1] \in Counter
    BY <1>3, <1>4, <2>1 DEF ColumnsCounted
  <2>3. QED
    BY <1>1, <1>6, <2>1, <2>2, TogetherColumn
<1> HIDE DEF S
<1>7. 0..n \subseteq S
  BY <1>1, <1>5, <1>6, BoundedInduction
<1>8. n \in S /\ n \in 0..n
  BY <1>1, <1>7
<1>9. Together(c, CountBatch(NewCounter, batch), CountBatch(c, batch))
  BY <1>3, <1>4, <1>8 DEF S
<1>10. CountBatch(NewCounter, batch) \in Counter
  BY <1>3, <1>8
<1>11. QED
  BY <1>9, <1>10 DEF MemorySize, Counter
-----------------------------------------------------------------------------
(***************************************************************************)
(* The list of metrics only grows, and so do the counters in it.           *)
(***************************************************************************)
\* The metrics of partition p lie in list r as it was registered.
LayoutIn(r, p) ==
  /\ \A kind \in DOMAIN Offset : r[Index(p, kind)].value.kind = kind
  /\ \A i \in DOMAIN Extras[p] : r[Index(p, "OutputBatches") + i].value \in {NewEmpty(Extras[p][i]), Extras[p][i]}

LayoutInv == registry \in Seq(AnyMetric) /\ \A p \in Opened : LayoutIn(registry, p)

\* List w has the metrics of list r, with the same kinds and no lower counters.
Grown(r, w) == w \in Seq(AnyMetric) /\ Len(r) <= Len(w) /\ NotAbove(r, w, Len(r))

LEMMA WriteNumber ==
  ASSUME NEW m \in AnyMetric, NEW x \in Nat, NEW w, w = [m EXCEPT !.value.cells[1] = x]
  PROVE  w \in AnyMetric /\ w.value.kind = m.value.kind /\ w.value.cells[1] = x
<1> DEFINE v == m.value
           c == [v.cells EXCEPT ![1] = x]
           u == [v EXCEPT !.cells = c]
           n == Len(v.cells)
           Record == [kind : Kinds, name : Names, cells : Seq(Nat \cup {None}), merge : Merges]
<1>1. v \in Record /\ DOMAIN v.cells = DOMAIN EmptyCells(v.kind) /\ (v.kind \notin Timestamps => v.cells \in Seq(Nat))
  BY DEF AnyMetric, Values
<1>2. v.cells \in Seq(Nat \cup {None}) /\ 1 \in DOMAIN v.cells
  BY <1>1 DEF EmptyCells
<1>3. c \in Seq(Nat \cup {None}) /\ c[1] = x /\ DOMAIN c = DOMAIN v.cells
  BY <1>2
<1>4. v.kind \notin Timestamps => c \in Seq(Nat)
  BY <1>1, <1>2
<1>5. w = [m EXCEPT !.value = u]
  OBVIOUS
<1> HIDE DEF c, v
<1>6. u \in Record /\ u.kind = v.kind /\ u.cells = c
  BY <1>1, <1>3
<1> HIDE DEF u
<1>7. u \in Values
  BY <1>1, <1>3, <1>4, <1>6 DEF Values
<1>8. w \in AnyMetric /\ w.value = u
  BY <1>5, <1>7 DEF AnyMetric
<1>9. QED
  BY <1>3, <1>6, <1>8 DEF v

\* Each metric may become another of its kind.
Rising(m, w) ==
  w \in AnyMetric /\ w.value.kind = m.value.kind
    /\ (m.value.kind \in Outputs => m.value.cells[1] <= w.value.cells[1])

LEMMA CountsOfMetric ==
  ASSUME NEW m \in AnyMetric, m.value.kind \in Outputs
  PROVE  m.value.cells[1] \in Nat
<1>1. m.value \in OfKind(m.value.kind)
  BY DEF AnyMetric, OfKind
<1>2. QED
  BY <1>1, CounterValue

LEMMA GrownByMetrics ==
  ASSUME NEW r \in Seq(AnyMetric), NEW w, w = [i \in DOMAIN r |-> w[i]], \A i \in 1..Len(r) : Rising(r[i], w[i])
  PROVE  Grown(r, w) /\ Len(w) = Len(r)
<1> DEFINE n == Len(r)
<1>1. n \in Nat /\ DOMAIN r = 1..n
  OBVIOUS
<1>2. \A i \in 1..n : w[i] \in AnyMetric
  BY DEF Rising
<1>2a. NotAbove(r, w, n)
  BY DEF Rising, NotAbove
<1> HIDE DEF n
<1>3. w = [i \in 1..n |-> w[i]] /\ DOMAIN w = 1..n
  BY <1>1
<1>4. w \in Seq(AnyMetric) /\ Len(w) = n
  <2> DEFINE M == AnyMetric
  <2>1. w \in [1..n -> M]
    BY <1>2, <1>3
  <2> HIDE DEF M
  <2>2. w \in Seq(M) /\ Len(w) = n
    BY <1>1, <2>1
  <2>3. QED
    BY <2>2 DEF M
<1>5. QED
  BY <1>1, <1>2a, <1>4 DEF Grown, n

LEMMA GrownTwice ==
  ASSUME NEW r \in Seq(AnyMetric), NEW u \in Seq(AnyMetric), NEW w \in Seq(AnyMetric), NEW n \in Nat, n <= Len(r), n <= Len(u),
         NotAbove(r, u, n), NEW m \in Nat, n <= m, m <= Len(u), m <= Len(w), NotAbove(u, w, m)
  PROVE  NotAbove(r, w, n)
<1> SUFFICES ASSUME NEW i \in 1..n
             PROVE  /\ r[i].value.kind = w[i].value.kind
                    /\ r[i].value.kind \in Outputs => r[i].value.cells[1] <= w[i].value.cells[1]
  BY DEF NotAbove
<1>1. i \in 1..n /\ i \in 1..m /\ i \in 1..Len(r) /\ i \in 1..Len(u) /\ i \in 1..Len(w)
  OBVIOUS
<1>2. r[i] \in AnyMetric /\ u[i] \in AnyMetric /\ w[i] \in AnyMetric
  BY <1>1
<1>3. /\ r[i].value.kind = u[i].value.kind /\ u[i].value.kind = w[i].value.kind
      /\ r[i].value.kind \in Outputs => r[i].value.cells[1] <= u[i].value.cells[1] /\ u[i].value.cells[1] <= w[i].value.cells[1]
  BY <1>1 DEF NotAbove
<1>4. ASSUME r[i].value.kind \in Outputs PROVE r[i].value.cells[1] <= w[i].value.cells[1]
  <2>1. r[i].value.cells[1] \in Nat /\ u[i].value.cells[1] \in Nat /\ w[i].value.cells[1] \in Nat
    BY <1>2, <1>3, <1>4, CountsOfMetric
  <2>2. QED
    BY <1>3, <1>4, <2>1
<1>5. QED
  BY <1>3, <1>4

\* Where the metrics of the partitions lie.
LEMMA Places ==
  ASSUME TypeInv, RegistryInv, NEW p \in Opened
  PROVE  /\ op[p].base \in Nat /\ Len(Extras[p]) \in Nat /\ DOMAIN Extras[p] = 1..Len(Extras[p])
         /\ Extras[p] \in Seq(Values) /\ p \in DOMAIN Extras
         /\ \A kind \in DOMAIN Offset : Index(p, kind) \in RegionOf(p) /\ Index(p, kind) <= op[p].base + 6
         /\ Index(p, "OutputBatches") = op[p].base + 6
         /\ \A i \in DOMAIN Extras[p] : op[p].base + 6 + i \in RegionOf(p)
         /\ RegionOf(p) \subseteq 1..Len(registry) /\ Len(registry) \in Nat
<1>1. p \in Partitions /\ p \in DOMAIN Extras /\ Extras[p] \in Seq(Values)
  BY ExtrasAssumption, PlansAssumption DEF TypeInv, Opened, Partitions, Batches
<1>2. op[p].base \in Nat /\ Len(Extras[p]) \in Nat /\ DOMAIN Extras[p] = 1..Len(Extras[p])
  BY <1>1 DEF TypeInv, Stream
<1>3. \A kind \in DOMAIN Offset : Offset[kind] \in 1..6 /\ Offset["OutputBatches"] = 6
  BY DEF Offset
<1>4. Index(p, "OutputBatches") = op[p].base + 6
  BY DEF Index, Offset
<1>5. \A kind \in DOMAIN Offset : Index(p, kind) \in RegionOf(p)
  BY InItsRegion
<1>6. \A b \in Nat : \A o \in 1..6 : b + o <= b + 6
  OBVIOUS
<1>7. \A kind \in DOMAIN Offset : Index(p, kind) <= op[p].base + 6
  BY <1>2, <1>3, <1>6 DEF Index
<1>8. \A i \in DOMAIN Extras[p] : op[p].base + 6 + i \in RegionOf(p)
  <2> DEFINE b == op[p].base
             l == Len(Extras[p])
  <2>1. \A i \in 1..l : b + 6 + i \in b + 1..b + 6 + l
    BY <1>2
  <2>2. QED
    BY <1>2, <2>1 DEF RegionOf
<1>9. RegionOf(p) \subseteq 1..Len(registry) /\ Len(registry) \in Nat
  BY DEF RegistryInv
<1>10. QED
  BY <1>1, <1>2, <1>4, <1>5, <1>7, <1>8, <1>9

\* A cell is written: the list is grown, and keeps its layout.
LEMMA CellGrows ==
  ASSUME TypeInv, RegistryInv, LayoutInv, NEW p \in Opened, NEW kind \in DOMAIN Offset, NEW x \in Nat,
         kind \in Outputs => Cell(p, kind) <= x, NEW w, w = After(p, kind, x)
  PROVE  /\ Grown(registry, w) /\ Len(w) = Len(registry)
         /\ \A q \in Opened : LayoutIn(w, q)
         /\ \A i \in 1..Len(registry) : i # Index(p, kind) => w[i] = registry[i]
         /\ \A i \in 1..Len(registry) : w[i].value.kind = registry[i].value.kind
<1> DEFINE n == Len(registry)
           at == Index(p, kind)
<1>1. registry \in Seq(AnyMetric) /\ n \in Nat /\ DOMAIN registry = 1..n /\ \A i \in 1..n : registry[i] \in AnyMetric
  BY DEF LayoutInv
<1>2. at \in 1..n
  BY Places
<1>3. w = [registry EXCEPT ![at].value.cells[1] = x]
  BY DEF After
<1>4. registry[at].value.kind = kind /\ Cell(p, kind) = registry[at].value.cells[1]
  BY DEF LayoutInv, LayoutIn, Cell
<1> DEFINE m == [registry[at] EXCEPT !.value.cells[1] = x]
<1>5. w = [registry EXCEPT ![at] = m]
  BY <1>3
<1>6. m \in AnyMetric /\ m.value.kind = registry[at].value.kind /\ m.value.cells[1] = x
  <2> DEFINE old == registry[at]
  <2>1. old \in AnyMetric
    BY <1>1, <1>2
  <2>2. m = [old EXCEPT !.value.cells[1] = x]
    OBVIOUS
  <2> HIDE DEF m, old
  <2>3. m \in AnyMetric /\ m.value.kind = old.value.kind /\ m.value.cells[1] = x
    BY <2>1, <2>2, WriteNumber
  <2>4. QED
    BY <2>3 DEF old
<1> HIDE DEF m, at, n
<1>7. w[at] = m /\ (\A i \in 1..n : i # at => w[i] = registry[i]) /\ w = [i \in DOMAIN registry |-> w[i]]
  BY <1>1, <1>2, <1>5
<1>8. \A i \in 1..n : Rising(registry[i], w[i])
  <2> TAKE i \in 1..n
  <2>1. CASE i = at
    BY <1>4, <1>6, <1>7, <2>1 DEF Rising
  <2>2. CASE i # at
    <3>1. w[i] = registry[i] /\ registry[i] \in AnyMetric
      BY <1>1, <1>7, <2>2
    <3>2. registry[i].value.kind \in Outputs => registry[i].value.cells[1] \in Nat
      BY <3>1, CountsOfMetric
    <3>3. QED
      BY <3>1, <3>2 DEF Rising
  <2>3. QED
    BY <2>1, <2>2
<1>9. Grown(registry, w) /\ Len(w) = n
  BY <1>1, <1>7, <1>8, GrownByMetrics DEF n
<1>10. \A i \in 1..n : w[i].value.kind = registry[i].value.kind
  BY <1>8 DEF Rising
<1>11. ASSUME NEW q \in Opened PROVE LayoutIn(w, q)
  <2>1. \A k \in DOMAIN Offset : Index(q, k) \in 1..n
    BY Places DEF n
  <2>2. \A k \in DOMAIN Offset : w[Index(q, k)].value.kind = k
    BY <1>10, <2>1 DEF LayoutInv, LayoutIn
  <2>3. ASSUME NEW i \in DOMAIN Extras[q] PROVE w[Index(q, "OutputBatches") + i] = registry[Index(q, "OutputBatches") + i]
    <3> DEFINE k == op[q].base + 6 + i
    <3>1. Index(q, "OutputBatches") + i = k /\ k \in RegionOf(q) /\ k \in 1..n /\ i \in Nat /\ i > 0 /\ op[q].base \in Nat
      BY Places DEF n
    <3>2. k # at
      <4>1. CASE q = p
        <5>1. at <= op[q].base + 6 /\ at \in Nat
          BY <1>2, <4>1, Places DEF at
        <5>2. QED
          BY <3>1, <5>1
      <4>2. CASE q # p
        <5>1. at \in RegionOf(p) /\ RegionOf(p) \cap RegionOf(q) = {}
          BY <4>2, Places DEF at, RegistryInv
        <5>2. QED
          BY <3>1, <5>1
      <4>3. QED
        BY <4>1, <4>2
    <3>3. QED
      BY <1>7, <3>1, <3>2
  <2>4. QED
    BY <2>2, <2>3 DEF LayoutInv, LayoutIn
<1>12. QED
  BY <1>7, <1>9, <1>10, <1>11 DEF n, at
\* What the cells of a kind are before anything is counted.
LEMMA EmptyCellsShape ==
  ASSUME NEW kind
  PROVE  EmptyCells(kind) \in Seq(Nat \cup {None}) /\ (kind \notin Timestamps => EmptyCells(kind) \in Seq(Nat))
<1> DEFINE missing == <<None>>
           three == <<0, 0, 0>>
           two == <<0, 0>>
           one == <<0>>
           N == Nat \cup {None}
<1>1. missing \in Seq(N) /\ three \in Seq(N) /\ two \in Seq(N) /\ one \in Seq(N)
  OBVIOUS
<1>2. three \in Seq(Nat) /\ two \in Seq(Nat) /\ one \in Seq(Nat)
  OBVIOUS
<1>3. EmptyCells(kind) = CASE kind \in Timestamps -> missing
                          [] kind = "PruningMetrics" -> three
                          [] kind = "Ratio" -> two
                          [] OTHER -> one
  BY DEF EmptyCells
<1> HIDE DEF missing, three, two, one, N
<1>4. CASE kind \in Timestamps
  <2>1. EmptyCells(kind) = missing
    BY <1>3, <1>4 DEF Timestamps
  <2>2. QED
    BY <1>1, <1>4, <2>1 DEF N
<1>5. CASE kind \notin Timestamps
  <2>1. EmptyCells(kind) \in {three, two, one}
    BY <1>3, <1>5
  <2>2. QED
    BY <1>1, <1>2, <1>5, <2>1 DEF N
<1>6. QED
  BY <1>4, <1>5

\* A value before anything is counted.
LEMMA EmptyIsValue ==
  ASSUME NEW v \in Values
  PROVE  /\ NewEmpty(v) \in Values /\ NewEmpty(v).kind = v.kind
         /\ v.kind \in Outputs => NewEmpty(v).cells[1] = 0 /\ v.cells[1] \in Nat
<1> DEFINE c == EmptyCells(v.kind)
           Record == [kind : Kinds, name : Names, cells : Seq(Nat \cup {None}), merge : Merges]
           w == [v EXCEPT !.cells = c]
<1>1. v \in Record
  BY DEF Values
<1>2. c \in Seq(Nat \cup {None}) /\ (v.kind \notin Timestamps => c \in Seq(Nat))
  BY EmptyCellsShape
<1>3. NewEmpty(v) = w
  BY DEF NewEmpty
<1>4. v.kind \in Outputs => c = <<0>>
  BY DEF Outputs, EmptyCells, Timestamps
<1> HIDE DEF c
<1>5. w \in Record /\ w.kind = v.kind /\ w.cells = c
  BY <1>1, <1>2
<1> HIDE DEF w
<1>6. w \in Values
  BY <1>2, <1>5 DEF Values, c
<1>7. v.kind \in Outputs => v.cells[1] \in Nat
  BY CounterValue DEF OfKind
<1>8. QED
  BY <1>3, <1>4, <1>5, <1>6, <1>7

\* The operator's own metrics are recorded.
LEMMA ExtrasGrow ==
  ASSUME TypeInv, RegistryInv, LayoutInv, NEW p \in Opened, NEW x \in Nat, Cell(p, "OutputBatches") <= x,
         NEW w, w = WithExtras(p, After(p, "OutputBatches", x))
  PROVE  Grown(registry, w) /\ Len(w) = Len(registry) /\ \A q \in Opened : LayoutIn(w, q)
<1> DEFINE n == Len(registry)
           u == After(p, "OutputBatches", x)
           base == Index(p, "OutputBatches")
           own == Extras[p]
<1>0. "OutputBatches" \in DOMAIN Offset
  BY DEF Offset
<1>1. /\ Grown(registry, u) /\ Len(u) = n
      /\ \A q \in Opened : LayoutIn(u, q)
      /\ \A i \in 1..n : u[i].value.kind = registry[i].value.kind
  BY <1>0, CellGrows
<1>2. registry \in Seq(AnyMetric) /\ n \in Nat /\ DOMAIN registry = 1..n
  BY DEF LayoutInv
<1>3. u \in Seq(AnyMetric) /\ DOMAIN u = 1..n /\ \A i \in 1..n : u[i] \in AnyMetric
  BY <1>1, <1>2 DEF Grown
<1>4. own \in Seq(Values) /\ DOMAIN own = 1..Len(own) /\ Len(own) \in Nat /\ base = op[p].base + 6 /\ op[p].base \in Nat
  BY Places
<1>4a. \A i \in DOMAIN own : own[i] \in Values
  BY <1>4
<1>5. w = [i \in DOMAIN u |-> IF i - base \in DOMAIN own THEN [u[i] EXCEPT !.value = own[i - base]] ELSE u[i]]
  BY DEF WithExtras
<1>6. \A i \in DOMAIN own : base + i \in 1..n /\ u[base + i].value \in {NewEmpty(own[i]), own[i]}
  <2>1. \A i \in DOMAIN own : base + i \in 1..n
    BY <1>4, Places
  <2>2. QED
    BY <1>1, <2>1 DEF LayoutIn
<1> HIDE DEF u, base, own, n
<1>7. w = [i \in DOMAIN u |-> w[i]] /\ DOMAIN w = 1..n
      /\ (\A i \in 1..n : i - base \in DOMAIN own => w[i] = [u[i] EXCEPT !.value = own[i - base]])
      /\ (\A i \in 1..n : i - base \notin DOMAIN own => w[i] = u[i])
  BY <1>3, <1>5
<1>8. ASSUME NEW i \in 1..n PROVE Rising(u[i], w[i])
  <2>1. CASE i - base \in DOMAIN own
    <3> DEFINE v == own[i - base]
    <3>1. v \in Values /\ base + (i - base) = i
      BY <1>4, <1>4a, <2>1
    <3>2. u[i].value \in {NewEmpty(v), v}
      BY <1>6, <2>1, <3>1
    <3>3. w[i] = [u[i] EXCEPT !.value = v] /\ u[i] \in AnyMetric
      BY <1>3, <1>7, <2>1
    <3> HIDE DEF v
    <3>4. w[i] \in AnyMetric /\ w[i].value = v
      BY <3>1, <3>3 DEF AnyMetric
    <3>5. QED
      BY <3>1, <3>2, <3>4, EmptyIsValue DEF Rising
  <2>2. CASE i - base \notin DOMAIN own
    <3>1. w[i] = u[i] /\ u[i] \in AnyMetric
      BY <1>3, <1>7, <2>2
    <3>2. u[i].value.kind \in Outputs => u[i].value.cells[1] \in Nat
      BY <3>1, CountsOfMetric
    <3>3. QED
      BY <3>1, <3>2 DEF Rising
  <2>3. QED
    BY <2>1, <2>2
<1>9. Len(u) = n
  BY <1>1 DEF n
<1>10. Grown(u, w) /\ Len(w) = n
  BY <1>3, <1>7, <1>8, <1>9, GrownByMetrics
<1>11. NotAbove(registry, w, n)
  <2>1. w \in Seq(AnyMetric) /\ NotAbove(u, w, n)
    BY <1>9, <1>10 DEF Grown
  <2>2. NotAbove(registry, u, n) /\ Len(registry) = n
    BY <1>1 DEF Grown, n, u
  <2>3. QED
    BY <1>2, <1>3, <1>9, <1>10, <2>1, <2>2, GrownTwice
<1>12. Grown(registry, w)
  BY <1>2, <1>10, <1>11 DEF Grown, n
<1>13. ASSUME NEW q \in Opened PROVE LayoutIn(w, q)
  <2>1. \A k \in DOMAIN Offset : Index(q, k) \in 1..n
    BY Places DEF n
  <2>2. \A k \in DOMAIN Offset : w[Index(q, k)].value.kind = k
    <3>1. \A i \in 1..n : w[i].value.kind = u[i].value.kind
      BY <1>8 DEF Rising
    <3>2. QED
      BY <1>1, <2>1, <3>1 DEF LayoutIn, u
  <2>3. ASSUME NEW i \in DOMAIN Extras[q]
        PROVE  w[Index(q, "OutputBatches") + i].value \in {NewEmpty(Extras[q][i]), Extras[q][i]}
    <3> DEFINE k == op[q].base + 6 + i
    <3>1. Index(q, "OutputBatches") + i = k /\ k \in RegionOf(q) /\ k \in 1..n /\ op[q].base \in Nat /\ i \in Nat
      BY Places DEF n
    <3>2. u[k].value \in {NewEmpty(Extras[q][i]), Extras[q][i]}
      BY <1>1, <3>1 DEF LayoutIn, u
    <3> HIDE DEF k
    <3>3. CASE k - base \notin DOMAIN own
      BY <1>7, <3>1, <3>2, <3>3
    <3>4. CASE k - base \in DOMAIN own
      <4>1. k \in RegionOf(p)
        <5>1. base + (k - base) = k
          BY <1>4, <3>1
        <5>2. op[p].base + 6 + (k - base) \in RegionOf(p)
          BY <3>4, Places DEF own
        <5>3. QED
          BY <1>4, <5>1, <5>2
      <4>2. q = p
        BY <3>1, <4>1 DEF RegistryInv
      <4>3. k - base = i
        BY <1>4, <3>1, <4>2 DEF k
      <4>4. w[k].value = own[i]
        <5> DEFINE m == u[k]
        <5>1. w[k] = [m EXCEPT !.value = own[i]] /\ m \in AnyMetric
          BY <1>3, <1>7, <3>1, <3>4, <4>3
        <5> HIDE DEF m
        <5>2. [m EXCEPT !.value = own[i]].value = own[i]
          BY <5>1 DEF AnyMetric
        <5>3. QED
          BY <5>1, <5>2
      <4>5. QED
        BY <3>1, <4>2, <4>4 DEF own
    <3>5. QED
      BY <3>3, <3>4
  <2>4. QED
    BY <2>2, <2>3 DEF LayoutIn
<1>14. QED
  BY <1>10, <1>12, <1>13 DEF n

\* What an operator registers.
LEMMA NewIsValue ==
  ASSUME NEW kind \in DOMAIN Offset
  PROVE  New(kind) \in Values /\ New(kind).kind = kind /\ New(kind).cells = EmptyCells(kind)
         /\ CategoryOfKind(kind) \in Categories \cup {None}
<1> DEFINE c == EmptyCells(kind)
           Record == [kind : Kinds, name : Names, cells : Seq(Nat \cup {None}), merge : Merges]
           v == New(kind)
<1>1. c \in Seq(Nat \cup {None}) /\ (kind \notin Timestamps => c \in Seq(Nat))
  BY EmptyCellsShape
<1>2. kind \in Kinds
  BY DEF Offset, Kinds, Counters, Times, Timestamps
<1> HIDE DEF c
<1>3. v = [kind |-> kind, name |-> "", cells |-> c, merge |-> ""]
  BY DEF New, Value, c
<1> HIDE DEF v
<1> DEFINE given == kind
           nameless == ""
<1>3a. v = [kind |-> given, name |-> nameless, cells |-> c, merge |-> nameless] /\ given \in Kinds /\ nameless \in Names \cap Merges
  <2>1. v = [kind |-> given, name |-> nameless, cells |-> c, merge |-> nameless]
    BY <1>3, Zenon
  <2>2. given \in Kinds
    BY <1>2
  <2>3. nameless \in Names \cap Merges
    BY DEF Names, Merges
  <2>4. QED
    BY <2>1, <2>2, <2>3
<1> HIDE DEF given, nameless
<1>4. v \in Record /\ v.kind = given /\ v.cells = c
  BY <1>1, <1>3a
<1>4a. v.kind = kind
  BY <1>4 DEF given
<1>5. v \in Values
  BY <1>1, <1>4, <1>4a DEF Values, c
<1>6. CategoryOfKind(kind) \in Categories \cup {None}
  BY DEF CategoryOfKind, Categories
<1>7. QED
  BY <1>4, <1>4a, <1>5, <1>6 DEF v, c

LEMMA BuildIsMetric ==
  ASSUME NEW p \in DOMAIN Extras, NEW kind \in DOMAIN Offset, NEW type \in Types
  PROVE  /\ Build(p, type, New(kind)) \in AnyMetric /\ Build(p, type, New(kind)).value.kind = kind
         /\ Build(p, type, New(kind)).value.cells = EmptyCells(kind)
<1> DEFINE v == New(kind)
<1>1. v \in Values /\ v.kind = kind /\ v.cells = EmptyCells(kind) /\ CategoryOfKind(v.kind) \in Categories \cup {None}
  BY NewIsValue
<1> HIDE DEF v
<1>2. Build(p, type, v) = [value |-> v, partition |-> p, type |-> type, category |-> CategoryOfKind(v.kind)]
  BY DEF Build, Metric
<1>3. Build(p, type, v) \in AnyMetric /\ Build(p, type, v).value = v
  BY <1>1, <1>2 DEF AnyMetric
<1>4. QED
  BY <1>1, <1>3 DEF v

LEMMA BaselineMetrics ==
  ASSUME NEW p \in DOMAIN Extras, clock \in Nat
  PROVE  /\ BaselineOf(p) \in Seq(AnyMetric) /\ Len(BaselineOf(p)) = 6
         /\ \A kind \in DOMAIN Offset : BaselineOf(p)[Offset[kind]].value.kind = kind
         /\ BaselineOf(p)[5].value.cells[1] = 0
<1> DEFINE m(kind, type) == Build(p, type, New(kind))
           a == [m("StartTimestamp", "Dev") EXCEPT !.value.cells = <<clock>>]
           a0 == m("StartTimestamp", "Dev")
           w == [a0 EXCEPT !.value.cells[1] = clock]
           b == m("EndTimestamp", "Summary")
           c == m("ElapsedCompute", "Summary")
           d == m("OutputRows", "Summary")
           e == m("OutputBytes", "Summary")
           f == m("OutputBatches", "Dev")
<1>1. BaselineOf(p) = <<a, b, c, d, e, f>>
  BY DEF BaselineOf
<1>2. {"StartTimestamp", "EndTimestamp", "ElapsedCompute", "OutputRows", "OutputBytes", "OutputBatches"} \subseteq DOMAIN Offset
      /\ {"Dev", "Summary"} \subseteq Types
  BY DEF Offset, Types
<1>3. /\ b \in AnyMetric /\ b.value.kind = "EndTimestamp" /\ c \in AnyMetric /\ c.value.kind = "ElapsedCompute"
      /\ d \in AnyMetric /\ d.value.kind = "OutputRows" /\ e \in AnyMetric /\ e.value.kind = "OutputBytes"
      /\ f \in AnyMetric /\ f.value.kind = "OutputBatches" /\ e.value.cells = EmptyCells("OutputBytes")
      /\ a0 \in AnyMetric /\ a0.value.kind = "StartTimestamp" /\ a0.value.cells = EmptyCells("StartTimestamp")
  BY <1>2, BuildIsMetric
<1>4. EmptyCells("OutputBytes")[1] = 0 /\ EmptyCells("StartTimestamp") = <<None>>
  BY DEF EmptyCells, Timestamps
<1>5. a \in AnyMetric /\ a.value.kind = "StartTimestamp"
  <2> DEFINE v == a0.value
             u == [v EXCEPT !.cells = <<clock>>]
             Record == [kind : Kinds, name : Names, cells : Seq(Nat \cup {None}), merge : Merges]
  <2>1. v \in Values /\ v.kind = "StartTimestamp" /\ v.cells = <<None>>
    BY <1>3, <1>4 DEF AnyMetric
  <2>2. v \in Record
    BY <2>1 DEF Values
  <2> DEFINE one == <<clock>>
  <2>3. one \in Seq(Nat \cup {None}) /\ DOMAIN one = DOMAIN <<None>>
    OBVIOUS
  <2>4. a = [a0 EXCEPT !.value = u]
    OBVIOUS
  <2>5. u = [v EXCEPT !.cells = one]
    OBVIOUS
  <2> HIDE DEF one, u, v, a0, a
  <2>6. u \in Record /\ u.kind = "StartTimestamp" /\ u.cells = one
    BY <2>1, <2>2, <2>3, <2>5
  <2>7. u \in Values
    BY <2>3, <2>6, <1>4 DEF Values, Timestamps
  <2>8. a \in AnyMetric /\ a.value = u
    BY <1>3, <2>4, <2>7 DEF AnyMetric
  <2>9. QED
    BY <2>6, <2>8
<1> HIDE DEF a, b, c, d, e, f
<1> DEFINE s == BaselineOf(p)
<1>6. s \in Seq({a, b, c, d, e, f}) /\ Len(s) = 6
      /\ s[1] = a /\ s[2] = b /\ s[3] = c /\ s[4] = d /\ s[5] = e /\ s[6] = f
  BY <1>1, SixTuple
<1> HIDE DEF s
<1>7. s \in Seq(AnyMetric)
  <2> DEFINE M == AnyMetric
             six == {a, b, c, d, e, f}
  <2>1. six \subseteq M
    BY <1>3, <1>5
  <2>1a. s \in Seq(six)
    BY <1>6
  <2> HIDE DEF M, six
  <2>2. s \in Seq(M)
    BY <2>1, <2>1a
  <2>3. QED
    BY <2>2 DEF M
<1>8. \A kind \in DOMAIN Offset : s[Offset[kind]].value.kind = kind
  BY <1>3, <1>5, <1>6 DEF Offset
<1>9. QED
  BY <1>3, <1>4, <1>6, <1>7, <1>8 DEF s
\* A list holds the counters that it holds.
LEMMA NotAboveItself ==
  ASSUME NEW r \in Seq(AnyMetric), NEW w, NEW n \in Nat, n <= Len(r), \A i \in 1..n : w[i] = r[i]
  PROVE  NotAbove(r, w, n) /\ NotAbove(w, r, n)
<1> SUFFICES ASSUME NEW i \in 1..n
             PROVE  r[i].value.kind \in Outputs => r[i].value.cells[1] <= r[i].value.cells[1]
  BY DEF NotAbove
<1>1. r[i] \in AnyMetric
  <2>1. i \in 1..Len(r)
    OBVIOUS
  <2>2. QED
    BY <2>1
<1>2. r[i].value.kind \in Outputs => r[i].value.cells[1] \in Nat
  BY <1>1, CountsOfMetric
<1>3. QED
  BY <1>2

\* What an operator registers next to the baseline.
LEMMA ExtrasMetrics ==
  ASSUME NEW p \in DOMAIN Extras, NEW l, l = Len(Extras[p])
  PROVE  /\ ExtrasOf(p) \in Seq(AnyMetric) /\ Len(ExtrasOf(p)) = l /\ l \in Nat /\ DOMAIN Extras[p] = 1..l
         /\ \A i \in 1..l : ExtrasOf(p)[i].value = NewEmpty(Extras[p][i])
<1> DEFINE own == Extras[p]
           e == ExtrasOf(p)
           M == AnyMetric
<1>1. own \in Seq(Values)
  BY ExtrasAssumption
<1>2. l \in Nat /\ DOMAIN own = 1..l /\ \A i \in 1..l : own[i] \in Values
  BY <1>1
<1>3. e = [i \in 1..l |-> Build(p, "Dev", NewEmpty(own[i]))]
  BY <1>2 DEF ExtrasOf
<1> HIDE DEF e, own
<1>4. ASSUME NEW i \in 1..l PROVE e[i] \in M /\ e[i].value = NewEmpty(own[i])
  <2> DEFINE v == NewEmpty(own[i])
             category == CategoryOfKind(v.kind)
             dev == "Dev"
  <2>1. v \in Values
    BY <1>2, EmptyIsValue
  <2>2. category \in Categories \cup {None}
    BY DEF CategoryOfKind, Categories
  <2>3. e[i] = [value |-> v, partition |-> p, type |-> dev, category |-> category]
    BY <1>3 DEF Build, Metric
  <2>4. dev \in Types
    BY DEF Types
  <2> HIDE DEF v, category, dev
  <2>5. e[i] \in AnyMetric /\ e[i].value = v
    BY <2>1, <2>2, <2>3, <2>4 DEF AnyMetric
  <2>6. QED
    BY <2>5 DEF v
<1>5. e = [i \in 1..l |-> e[i]]
  BY <1>3
<1> HIDE DEF M
<1>6. e \in Seq(M) /\ Len(e) = l
  BY <1>2, <1>4, <1>5
<1>7. QED
  BY <1>2, <1>4, <1>6 DEF M, e, own

\* Two lists, one after the other.
LEMMA TwoLists ==
  ASSUME NEW M, NEW a \in Seq(M), NEW b \in Seq(M)
  PROVE  /\ a \o b \in Seq(M) /\ Len(a \o b) = Len(a) + Len(b) /\ Len(a) \in Nat /\ Len(b) \in Nat
         /\ \A i \in 1..Len(a) : (a \o b)[i] = a[i]
         /\ \A i \in 1..Len(b) : (a \o b)[Len(a) + i] = b[i]
  OBVIOUS

\* A partition is opened.
LEMMA OpenGrows ==
  ASSUME TypeInv, RegistryInv, LayoutInv, NEW p \in Partitions, Open(p)
  PROVE  Grown(registry, registry') /\ LayoutInv' /\ Cell(p, "OutputBytes")' = 0
<1> DEFINE b == BaselineOf(p)
           e == ExtrasOf(p)
           n == Len(registry)
           l == Len(Extras[p])
           M == AnyMetric
           u == registry \o b
<1>1. registry \in Seq(M) /\ n = Len(registry) /\ n \in Nat
  BY DEF LayoutInv
<1>2. p \in DOMAIN Extras /\ clock \in Nat
  BY PlansAssumption DEF TypeInv, Partitions, Batches
<1>3. b \in Seq(M) /\ 6 = Len(b) /\ (\A kind \in DOMAIN Offset : b[Offset[kind]].value.kind = kind) /\ b[5].value.cells[1] = 0
  BY <1>2, BaselineMetrics
<1>4. e \in Seq(M) /\ l = Len(e) /\ l \in Nat /\ DOMAIN Extras[p] = 1..l
      /\ \A i \in 1..l : e[i].value = NewEmpty(Extras[p][i])
  BY <1>2, ExtrasMetrics
<1>5. registry' = u \o e
  BY DEF Open
<1>6. /\ Opened' = Opened \cup {p} /\ p \notin Opened /\ op'[p].base = n
      /\ \A q \in Opened : op'[q] = op[q]
  BY OpenStep DEF Opened
<1> HIDE DEF b, e, n, l
<1>7. /\ u \in Seq(M) /\ Len(u) = n + 6
      /\ \A i \in 1..n : u[i] = registry[i]
      /\ \A i \in 1..6 : u[n + i] = b[i]
  <2> HIDE DEF M
  <2>1. registry \in Seq(M) /\ b \in Seq(M)
    BY <1>1, <1>3
  <2>2. /\ registry \o b \in Seq(M) /\ Len(registry \o b) = Len(registry) + Len(b)
        /\ \A i \in 1..Len(registry) : (registry \o b)[i] = registry[i]
        /\ \A i \in 1..Len(b) : (registry \o b)[Len(registry) + i] = b[i]
    BY <2>1, TwoLists
  <2>3. u = registry \o b /\ n = Len(registry) /\ 6 = Len(b)
    BY <1>1, <1>3
  <2> HIDE DEF u
  <2>4. QED
    BY <2>2, <2>3
<1> HIDE DEF u
<1>8. /\ registry' \in Seq(M) /\ Len(registry') = n + 6 + l
      /\ \A i \in 1..n + 6 : registry'[i] = u[i]
      /\ \A i \in 1..l : registry'[n + 6 + i] = e[i]
  <2> HIDE DEF M
  <2>1. u \in Seq(M) /\ e \in Seq(M)
    BY <1>4, <1>7
  <2>2. /\ u \o e \in Seq(M) /\ Len(u \o e) = Len(u) + Len(e)
        /\ \A i \in 1..Len(u) : (u \o e)[i] = u[i]
        /\ \A i \in 1..Len(e) : (u \o e)[Len(u) + i] = e[i]
    BY <2>1, TwoLists
  <2>3. registry' = u \o e /\ n + 6 = Len(u) /\ l = Len(e)
    BY <1>4, <1>5, <1>7
  <2>4. QED
    BY <2>2, <2>3
<1>9. /\ \A i \in 1..n : registry'[i] = registry[i]
      /\ \A i \in 1..6 : registry'[n + i] = b[i]
  <2>1. ASSUME NEW i \in 1..n PROVE registry'[i] = registry[i]
    <3>1. i \in 1..n + 6
      BY <1>1
    <3>2. QED
      BY <1>7, <1>8, <3>1
  <2>2. ASSUME NEW i \in 1..6 PROVE registry'[n + i] = b[i]
    <3>1. n + i \in 1..n + 6
      BY <1>1
    <3>2. QED
      BY <1>7, <1>8, <3>1
  <2>3. QED
    BY <2>1, <2>2
<1>10. Grown(registry, registry')
  <2>1. NotAbove(registry, registry', n)
    BY <1>1, <1>9, NotAboveItself, SMTT(30)
  <2>2. n <= n + 6 + l
    BY <1>1, <1>4
  <2>3. QED
    BY <1>8, <2>1, <2>2 DEF Grown, n
<1>11. ASSUME NEW q \in Opened PROVE LayoutIn(registry, q)'
  <2>1. /\ \A k \in DOMAIN Offset : Index(q, k) \in 1..n
        /\ \A i \in DOMAIN Extras[q] : Index(q, "OutputBatches") + i \in 1..n
    BY Places DEF n
  <2>2. \A k \in DOMAIN Offset : Index(q, k)' = Index(q, k)
    BY <1>6 DEF Index, Offset
  <2>3. "OutputBatches" \in DOMAIN Offset
    BY DEF Offset
  <2>4. QED
    BY <1>9, <2>1, <2>2, <2>3 DEF LayoutInv, LayoutIn, Offset
<1>12. \A k \in DOMAIN Offset : Index(p, k)' = n + Offset[k] /\ Offset[k] \in 1..6
  BY <1>6 DEF Index, Offset
<1>13. LayoutIn(registry, p)'
  <2>1. \A k \in DOMAIN Offset : registry'[Index(p, k)'].value.kind = k
    BY <1>3, <1>9, <1>12
  <2>2. Index(p, "OutputBatches")' = n + 6
    BY <1>12 DEF Offset
  <2>3. \A i \in DOMAIN Extras[p] : registry'[n + 6 + i].value = NewEmpty(Extras[p][i])
    BY <1>4, <1>8
  <2>4. QED
    BY <2>1, <2>2, <2>3 DEF LayoutIn, Offset
<1>14. LayoutInv'
  BY <1>6, <1>8, <1>11, <1>13 DEF LayoutInv
<1>15. Cell(p, "OutputBytes")' = 0
  <2>1. Index(p, "OutputBytes")' = n + 5
    BY <1>12 DEF Offset
  <2>2. registry'[n + 5] = b[5]
    BY <1>9
  <2>3. QED
    BY <1>3, <2>1, <2>2 DEF Cell
<1>16. QED
  BY <1>10, <1>14, <1>15

\* The batch a stream is at, and the number of its batches that are recorded.
BatchInv ==
  \A p \in Partitions :
    /\ Batches[p] \in Seq(BatchesOf(Capacity)) /\ op[p].batch \in 1..Len(Batches[p]) + 1
    /\ op[p].pc \in {"rows", "bytes"} => op[p].batch <= Len(Batches[p])

LEMMA BatchInit == Init => BatchInv
<1> SUFFICES ASSUME Init, NEW p \in Partitions
             PROVE  /\ Batches[p] \in Seq(BatchesOf(Capacity)) /\ op[p].batch \in 1..Len(Batches[p]) + 1
                    /\ op[p].pc \in {"rows", "bytes"} => op[p].batch <= Len(Batches[p])
  BY DEF BatchInv
<1>1. op[p].batch = 1 /\ op[p].pc = "new"
  BY DEF Init
<1>2. Batches[p] \in Seq(BatchesOf(Capacity))
  BY PlansAssumption DEF Init, Batches, Partitions
<1> DEFINE given == Batches[p]
           E == BatchesOf(Capacity)
<1>3. given \in Seq(E)
  BY <1>2
<1> HIDE DEF given, E
<1>4. Len(given) \in Nat
  BY <1>3
<1>5. QED
  BY <1>1, <1>2, <1>4 DEF given

LEMMA BatchStep == TypeInv /\ BatchInv /\ [Next]_vars => BatchInv'
<1> SUFFICES ASSUME TypeInv, BatchInv, [Next]_vars PROVE BatchInv'
  OBVIOUS
<1>1. ASSUME plan' = plan,
             \A p \in Partitions : op'[p].batch = op[p].batch /\ (op'[p].pc \in {"rows", "bytes"} => op[p].pc \in {"rows", "bytes"})
      PROVE  BatchInv'
  BY <1>1 DEF BatchInv, Partitions, Batches
<1>2. CASE CloneInner \/ Read \/ Report \/ Tick \/ UNCHANGED vars
  BY <1>1, <1>2 DEF CloneInner, Read, Report, Tick, vars
<1>3. ASSUME NEW p \in Partitions, Open(p) \/ StartTimer(p) \/ StopEarly(p) \/ EndPoll(p) \/ Done(p) \/ Clone(p)
      PROVE  BatchInv'
  <2>1. plan' = plan
    BY <1>3 DEF Open, StartTimer, StopEarly, EndPoll, Done, Clone
  <2>2. \A q \in Partitions : op'[q].batch = op[q].batch /\ (op'[q].pc \in {"rows", "bytes"} => op[q].pc \in {"rows", "bytes"})
    <3>1. CASE Open(p)
      BY <3>1 DEF Open, TypeInv, Stream
    <3>2. CASE StartTimer(p)
      BY <3>2 DEF StartTimer, TypeInv, Stream
    <3>3. CASE StopEarly(p)
      BY <3>3 DEF StopEarly, Stopped, TypeInv, Stream
    <3>4. CASE EndPoll(p)
      BY <3>4 DEF EndPoll, Stopped, TypeInv, Stream
    <3>5. CASE Done(p)
      BY <3>5 DEF Done, TypeInv, Stream
    <3>6. CASE Clone(p)
      BY <3>6 DEF Clone
    <3>7. QED
      BY <1>3, <3>1, <3>2, <3>3, <3>4, <3>5, <3>6
  <2>3. QED
    BY <1>1, <2>1, <2>2
<1>4. ASSUME NEW p \in Partitions, NEW h, HandleStep(p, h)
      PROVE  BatchInv'
  <2>1. plan' = plan
    BY <1>4 DEF HandleStep, Drop, Stamp, Write
  <2>2. \A q \in Partitions : op'[q].batch = op[q].batch /\ (op'[q].pc \in {"rows", "bytes"} => op[q].pc \in {"rows", "bytes"})
    <3>1. CASE Drop(p, h) \/ Stamp(p, h)
      BY <3>1 DEF Drop, Stamp
    <3>2. CASE Write(p, h)
      <4>1. op' = op \/ (op' = [op EXCEPT ![p].pc = "ended"])
        BY <3>2 DEF Write
      <4>2. QED
        BY <4>1 DEF TypeInv, Stream
    <3>3. QED
      BY <1>4, <3>1, <3>2 DEF HandleStep
  <2>3. QED
    BY <1>1, <2>1, <2>2
<1>5. ASSUME NEW p \in Partitions, RecordRows(p) \/ RecordBytes(p) \/ RecordBatches(p)
      PROVE  BatchInv'
  <2>1. plan' = plan /\ Partitions' = Partitions /\ Batches' = Batches
    BY <1>5 DEF RecordRows, RecordBytes, RecordBatches, Partitions, Batches
  <2>2. \A q \in Partitions : q # p => op'[q] = op[q]
    BY <1>5 DEF RecordRows, RecordBytes, RecordBatches, TypeInv
  <2>3. \/ op'[p].batch = op[p].batch /\ op[p].batch <= Len(Batches[p])
        \/ op'[p].batch = op[p].batch + 1 /\ op[p].batch <= Len(Batches[p]) /\ op'[p].pc = "recorded"
    BY <1>5 DEF RecordRows, RecordBytes, RecordBatches, TypeInv, Stream, BatchInv
  <2>4. op[p].batch \in 1..Len(Batches[p]) + 1 /\ Batches[p] \in Seq(BatchesOf(Capacity))
    BY DEF BatchInv
  <2> DEFINE given == Batches[p]
             E == BatchesOf(Capacity)
  <2>5. given \in Seq(E)
    BY <2>4
  <2> HIDE DEF E
  <2>6. Len(given) \in Nat
    BY <2>5
  <2>7. op'[p].batch \in 1..Len(Batches[p]) + 1 /\ (op'[p].pc \in {"rows", "bytes"} => op'[p].batch <= Len(Batches[p]))
    BY <2>3, <2>4, <2>6
  <2>8. QED
    BY <2>1, <2>2, <2>4, <2>7 DEF BatchInv
<1>6. QED
  BY <1>2, <1>3, <1>4, <1>5 DEF Next, OperatorStep

LEMMA BatchIsOne ==
  ASSUME BatchInv, NEW p \in Partitions, NEW k \in 1..Len(Batches[p])
  PROVE  Batches[p][k].rows \in Nat /\ Batches[p][k].columns \in Seq(Column) /\ MemorySize(Batches[p][k]) \in Nat
<1> DEFINE given == Batches[p]
           E == BatchesOf(Capacity)
<1>1. given \in Seq(E) /\ k \in 1..Len(given)
  BY DEF BatchInv
<1> HIDE DEF given, E
<1>2. given[k] \in E
  BY <1>1
<1>3. given[k].rows \in Nat /\ given[k].columns \in Seq(Column)
  BY <1>2 DEF E, BatchesOf, Column, Buffers
<1>4. MemorySize(given[k]) \in Nat
  BY <1>3, TogetherBatch, NewCounterIsOne
<1>5. QED
  BY <1>3, <1>4 DEF given

LEMMA CellIsCount ==
  ASSUME LayoutInv, TypeInv, RegistryInv, NEW p \in Opened, NEW kind \in Outputs
  PROVE  kind \in DOMAIN Offset /\ Cell(p, kind) \in Nat
<1>1. kind \in DOMAIN Offset
  BY DEF Outputs, Offset
<1>2. Index(p, kind) \in 1..Len(registry) /\ registry[Index(p, kind)].value.kind = kind
  BY <1>1, Places DEF LayoutInv, LayoutIn
<1>3. registry[Index(p, kind)] \in AnyMetric
  BY <1>2 DEF LayoutInv
<1>4. QED
  BY <1>1, <1>2, <1>3, CountsOfMetric DEF Cell

\* A step of a stream or of a handle: the list keeps its layout.
LEMMA KeepsLayout ==
  ASSUME TypeInv, RegistryInv, LayoutInv, plan' = plan, Opened' = Opened, \A q \in Partitions : op'[q].base = op[q].base,
         Grown(registry, registry'), \A q \in Opened : LayoutIn(registry', q)
  PROVE  LayoutInv'
<1>1. \A q \in Opened : \A k \in DOMAIN Offset : Index(q, k)' = Index(q, k)
  BY DEF Index, Offset, Opened
<1>2. "OutputBatches" \in DOMAIN Offset
  BY DEF Offset
<1>3. \A q \in Opened : LayoutIn(registry, q)'
  BY <1>1, <1>2 DEF LayoutIn, Offset
<1>4. QED
  BY <1>3 DEF LayoutInv, Grown

LEMMA CellStepGrows ==
  ASSUME TypeInv, RegistryInv, LayoutInv, plan' = plan, Opened' = Opened, \A q \in Partitions : op'[q].base = op[q].base,
         NEW p \in Opened, NEW kind \in DOMAIN Offset, NEW x \in Nat,
         kind \in Outputs => Cell(p, kind) <= x, registry' = After(p, kind, x)
  PROVE  Grown(registry, registry') /\ LayoutInv'
<1>1. Grown(registry, registry') /\ \A q \in Opened : LayoutIn(registry', q)
  BY CellGrows
<1>2. QED
  BY <1>1, KeepsLayout

LEMMA NothingGrows ==
  ASSUME TypeInv, RegistryInv, LayoutInv, plan' = plan, Opened' = Opened, \A q \in Partitions : op'[q].base = op[q].base,
         registry' = registry
  PROVE  Grown(registry, registry') /\ LayoutInv'
<1>1. registry \in Seq(AnyMetric) /\ Len(registry) \in Nat
  BY DEF LayoutInv
<1>2. NotAbove(registry, registry, Len(registry))
  BY <1>1, NotAboveItself
<1>3. Grown(registry, registry')
  BY <1>1, <1>2 DEF Grown
<1>4. \A q \in Opened : LayoutIn(registry', q)
  BY DEF LayoutInv
<1>5. QED
  BY <1>3, <1>4, KeepsLayout

LEMMA StepGrows ==
  ASSUME MInv, BatchInv, LayoutInv, [Next]_vars
  PROVE  Grown(registry, registry') /\ LayoutInv'
<1>0. TypeInv /\ RegistryInv
  BY DEF MInv
<1>1. CASE CloneInner \/ Read \/ Report \/ Tick \/ UNCHANGED vars
  <2>1. plan' = plan /\ op' = op /\ registry' = registry
    BY <1>1 DEF CloneInner, Read, Report, Tick, vars
  <2>2. Opened' = Opened
    BY <2>1 DEF Opened, Partitions, Batches
  <2>3. QED
    BY <1>0, <2>1, <2>2, NothingGrows
<1>2. ASSUME NEW p \in Partitions, Open(p)
      PROVE  Grown(registry, registry') /\ LayoutInv'
  BY <1>0, <1>2, OpenGrows
<1>3. ASSUME NEW p \in Partitions, OperatorStep(p) \/ \E h \in Kept : HandleStep(p, h), ~Open(p)
      PROVE  Grown(registry, registry') /\ LayoutInv'
  <2>1. p \in Opened
    <3>1. CASE p \notin Opened
      <4>1. op[p].pc = "new" /\ \A h \in Kept : handle[p][h].pc = "none"
        BY <3>1 DEF MInv, PartitionInv, NewOf, Opened
      <4>2. handle[p].stream.pc = "none"
        BY <4>1 DEF Kept
      <4>3. QED
        BY <1>3, <4>1, <4>2 DEF OperatorStep, StartTimer, StopEarly, EndPoll, RecordRows, RecordBytes,
           RecordBatches, Done, Clone, HandleStep, Drop, Stamp, Write
    <3>2. QED
      BY <3>1
  <2>2. StepsAlone(p)
    BY <1>0, <1>3, StreamSteps, HandleSteps DEF OperatorStep, Kept
  <2>3. plan' = plan /\ Opened' = Opened /\ \A q \in Partitions : op'[q].base = op[q].base
    BY <1>0, <2>2, AloneKeepsTypes DEF StepsAlone
  <2>4. CellTypes(p) /\ TimeOf(p) /\ EndOf(p)
    BY <2>1 DEF MInv, PartitionInv
  <2>5. CASE registry' = registry
    BY <1>0, <2>3, <2>5, NothingGrows
  <2>6. CASE StopEarly(p) \/ EndPoll(p)
    <3>1. registry' = Elapsed(p)
      BY <2>6 DEF StopEarly, EndPoll
    <3>2. CASE op[p].timer = None
      BY <2>5, <3>1, <3>2 DEF Elapsed
    <3>3. CASE op[p].timer # None
      <4> DEFINE x == AddDuration(Cell(p, "ElapsedCompute"), clock - op[p].timer)
      <4>1. op[p].timer \in Nat /\ clock \in Nat /\ Cell(p, "ElapsedCompute") \in Nat
        BY <1>0, <1>3, <2>4, <3>3 DEF TypeInv, Stream, CellTypes
      <4>2. x \in Nat
        BY <4>1 DEF AddDuration
      <4>3. registry' = After(p, "ElapsedCompute", x) /\ "ElapsedCompute" \in DOMAIN Offset /\ "ElapsedCompute" \notin Outputs
        BY <3>1, <3>3 DEF Elapsed, Offset, Outputs
      <4> HIDE DEF x
      <4>4. QED
        BY <1>0, <2>1, <2>3, <4>2, <4>3, CellStepGrows
    <3>4. QED
      BY <3>2, <3>3
  <2>7. CASE RecordRows(p)
    <3> DEFINE k == op[p].batch
               x == Cell(p, "OutputRows") + Batches[p][k].rows
    <3>1. k \in 1..Len(Batches[p])
      BY <1>3, <2>7 DEF RecordRows, BatchInv
    <3>2. Batches[p][k].rows \in Nat /\ Cell(p, "OutputRows") \in Nat /\ "OutputRows" \in DOMAIN Offset
      <4>1. "OutputRows" \in Outputs
        BY DEF Outputs
      <4>2. QED
        BY <1>0, <1>3, <2>1, <3>1, <4>1, BatchIsOne, CellIsCount
    <3>3. x \in Nat /\ Cell(p, "OutputRows") <= x
      BY <3>2
    <3>4. registry' = After(p, "OutputRows", x)
      BY <2>7 DEF RecordRows, Add
    <3> HIDE DEF x
    <3>5. QED
      BY <1>0, <2>1, <2>3, <3>2, <3>3, <3>4, CellStepGrows
  <2>8. CASE RecordBytes(p)
    <3> DEFINE k == op[p].batch
               x == Cell(p, "OutputBytes") + MemorySize(Batches[p][k])
    <3>1. k \in 1..Len(Batches[p])
      BY <1>3, <2>8 DEF RecordBytes, BatchInv
    <3>2. MemorySize(Batches[p][k]) \in Nat /\ Cell(p, "OutputBytes") \in Nat /\ "OutputBytes" \in DOMAIN Offset
      <4>1. "OutputBytes" \in Outputs
        BY DEF Outputs
      <4>2. QED
        BY <1>0, <1>3, <2>1, <3>1, <4>1, BatchIsOne, CellIsCount
    <3>3. x \in Nat /\ Cell(p, "OutputBytes") <= x
      BY <3>2
    <3>4. registry' = After(p, "OutputBytes", x)
      BY <2>8 DEF RecordBytes, Add
    <3> HIDE DEF x
    <3>5. QED
      BY <1>0, <2>1, <2>3, <3>2, <3>3, <3>4, CellStepGrows
  <2>9. CASE RecordBatches(p)
    <3> DEFINE x == Cell(p, "OutputBatches") + 1
    <3>1. Cell(p, "OutputBatches") \in Nat
      BY <1>0, <2>1, CellIsCount DEF Outputs
    <3>2. x \in Nat /\ Cell(p, "OutputBatches") <= x
      BY <3>1
    <3>3. registry' = WithExtras(p, After(p, "OutputBatches", x))
      BY <2>9 DEF RecordBatches
    <3> HIDE DEF x
    <3>4. Grown(registry, registry') /\ \A q \in Opened : LayoutIn(registry', q)
      BY <1>0, <2>1, <3>2, <3>3, ExtrasGrow
    <3>5. QED
      BY <1>0, <2>3, <3>4, KeepsLayout
  <2>10. ASSUME NEW h \in Kept, Write(p, h)
         PROVE  Grown(registry, registry') /\ LayoutInv'
    <3> DEFINE x == handle[p][h].stamp
    <3>1. x \in Nat
      BY <2>4, <2>10 DEF Write, EndOf, HasStamp
    <3>2. registry' = After(p, "EndTimestamp", x) /\ "EndTimestamp" \in DOMAIN Offset /\ "EndTimestamp" \notin Outputs
      BY <2>10 DEF Write, Offset, Outputs
    <3> HIDE DEF x
    <3>3. QED
      BY <1>0, <2>1, <2>3, <3>1, <3>2, CellStepGrows
  <2>11. QED
    BY <1>3, <2>5, <2>6, <2>7, <2>8, <2>9, <2>10 DEF OperatorStep, HandleStep, StartTimer, Done, Clone, Drop, Stamp
<1>4. QED
  BY <1>1, <1>2, <1>3 DEF Next, Kept
-----------------------------------------------------------------------------
(***************************************************************************)
(* What a reader sees lies between the counters it found and those there   *)
(* are.                                                                    *)
(***************************************************************************)
\* The list snap is the metrics as they were when the report was begun.
BegunWith(snap) ==
  /\ Len(snap) = reader.length /\ reader.before = Totals(snap)
  /\ NotAbove(snap, reader.seen, Len(reader.seen))
  /\ NotAbove(snap, registry, reader.length)

ReaderInv ==
  /\ {"pc", "length", "before", "seen"} \subseteq DOMAIN reader
  /\ reader.pc \in {"reading", "read"} =>
       /\ reader.seen \in Seq(AnyMetric) /\ reader.length \in Nat
       /\ Len(reader.seen) <= reader.length /\ reader.length <= Len(registry)
       /\ reader.pc = "read" => Len(reader.seen) = reader.length
       /\ NotAbove(reader.seen, registry, Len(reader.seen))
       /\ \E snap \in Seq(AnyMetric) : BegunWith(snap)

\* The reader waits while the list grows.
LEMMA ReaderWaits ==
  ASSUME LayoutInv, ReaderInv, reader' = reader, Grown(registry, registry')
  PROVE  ReaderInv'
<1> SUFFICES ASSUME reader.pc \in {"reading", "read"}
             PROVE  /\ reader.length <= Len(registry')
                    /\ NotAbove(reader.seen, registry', Len(reader.seen))
                    /\ \E snap \in Seq(AnyMetric) : /\ BegunWith(snap)
                                                    /\ NotAbove(snap, registry', reader.length)
  BY DEF ReaderInv, BegunWith
<1> DEFINE seen == reader.seen
           n == Len(seen)
           r == Len(registry)
           length == reader.length
<1>1. /\ seen \in Seq(AnyMetric) /\ length \in Nat /\ n \in Nat /\ n <= length /\ length <= r
      /\ NotAbove(seen, registry, n)
  BY DEF ReaderInv
<1>2. PICK snap \in Seq(AnyMetric) : BegunWith(snap)
  BY DEF ReaderInv
<1>3. registry \in Seq(AnyMetric) /\ registry' \in Seq(AnyMetric) /\ r \in Nat /\ r <= Len(registry') /\ NotAbove(registry, registry', r)
      /\ Len(registry') \in Nat
  BY DEF LayoutInv, Grown
<1>4. Len(snap) = length /\ NotAbove(snap, registry, length)
  BY <1>2 DEF BegunWith
<1> HIDE DEF n, r, length, seen
<1>5. NotAbove(snap, registry', length)
  <2>1. length <= Len(snap) /\ length <= Len(registry) /\ r = Len(registry)
    BY <1>1, <1>4 DEF r
  <2>2. QED
    BY <1>1, <1>3, <1>4, <2>1, GrownTwice
<1>6. NotAbove(seen, registry', n)
  <2>1. n <= Len(seen) /\ n <= Len(registry) /\ r = Len(registry)
    BY <1>1, <1>3 DEF n, r
  <2>2. n <= r
    BY <1>1, <1>3
  <2>3. QED
    BY <1>1, <1>3, <2>1, <2>2, GrownTwice
<1>7. length <= Len(registry')
  BY <1>1, <1>3
<1>8. QED
  BY <1>2, <1>5, <1>6, <1>7 DEF seen, n, length

\* The list is taken: nothing of it is read yet.
LEMMA ReaderBegins ==
  ASSUME LayoutInv, ReaderInv, CloneInner
  PROVE  ReaderInv'
<1>1. reader' = [pc |-> "reading", length |-> Len(registry), before |-> Totals(registry), seen |-> <<>>] /\ registry' = registry
  BY DEF CloneInner
<1>2. registry \in Seq(AnyMetric) /\ Len(registry) \in Nat
  BY DEF LayoutInv
<1>3. <<>> \in Seq(AnyMetric) /\ Len(<<>>) = 0 /\ Len(<<>>) <= Len(registry)
  BY <1>2
<1>4. NotAbove(registry, registry, Len(registry))
  BY <1>2, NotAboveItself
<1>5. \A s, t : NotAbove(s, t, 0)
  BY DEF NotAbove
<1>6. /\ reader'.pc = "reading" /\ reader'.length = Len(registry) /\ reader'.before = Totals(registry) /\ reader'.seen = <<>>
      /\ DOMAIN reader' = {"pc", "length", "before", "seen"}
  BY <1>1
<1>7. BegunWith(registry)'
  BY <1>1, <1>3, <1>4, <1>5, <1>6 DEF BegunWith
<1>8. \E snap \in Seq(AnyMetric) : BegunWith(snap)'
  <2>1. registry' = registry
    BY <1>1
  <2>2. /\ Len(registry) = reader'.length /\ reader'.before = Totals(registry)
        /\ NotAbove(registry, reader'.seen, Len(reader'.seen))
        /\ NotAbove(registry, registry', reader'.length)
    BY <1>3, <1>4, <1>5, <1>6, <2>1
  <2>3. QED
    BY <1>2, <2>2 DEF BegunWith
<1>9. QED
  BY <1>2, <1>3, <1>5, <1>6, <1>8, <1>1 DEF ReaderInv

LEMMA ReadsOn ==
  ASSUME NEW M, NEW s \in Seq(M), NEW r \in Seq(M), NEW n, n = Len(s), NEW to \in Nat, n <= to, to <= Len(r),
         NEW w, w = s \o SubSeq(r, n + 1, to)
  PROVE  /\ w \in Seq(M) /\ Len(w) = to
         /\ \A i \in 1..n : w[i] = s[i]
         /\ \A i \in 1..to : i > n => w[i] = r[i]
<1> DEFINE c == SubSeq(r, n + 1, to)
           m == to - n
<1>1. n \in Nat /\ m \in Nat /\ Len(r) \in Nat
  OBVIOUS
<1>2. c \in Seq(M) /\ m = Len(c) /\ \A i \in 1..m : c[i] = r[n + i]
  BY <1>1
<1>3. w = s \o c
  OBVIOUS
<1>3a. n + m = to /\ \A i \in 1..to : i > n => i - n \in 1..m
  BY <1>1
<1> HIDE DEF c, m
<1>4. w \in Seq(M) /\ Len(w) = n + m /\ (\A i \in 1..n : w[i] = s[i]) /\ \A i \in 1..m : w[n + i] = c[i]
  <2>1. c \in Seq(M) /\ m = Len(c) /\ n = Len(s)
    BY <1>2
  <2>2. /\ s \o c \in Seq(M) /\ Len(s \o c) = Len(s) + Len(c)
        /\ \A i \in 1..Len(s) : (s \o c)[i] = s[i]
        /\ \A i \in 1..Len(c) : (s \o c)[Len(s) + i] = c[i]
    BY <2>1, TwoLists
  <2>3. QED
    BY <1>3, <2>1, <2>2
<1>5. ASSUME NEW i \in 1..to, i > n PROVE w[i] = r[i]
  <2>1. i - n \in 1..m /\ n + (i - n) = i
    BY <1>1, <1>3a, <1>5
  <2>2. QED
    BY <1>2, <1>4, <2>1
<1>6. n + m = to
  BY <1>3a
<1>7. QED
  BY <1>4, <1>5, <1>6

\* The reader takes the cells up to the next counter.
LEMMA ReaderReads ==
  ASSUME LayoutInv, ReaderInv, Read
  PROVE  ReaderInv'
<1> DEFINE seen == reader.seen
           n == Len(seen)
           length == reader.length
           outputs == {i \in n + 1..length : registry[i].value.kind \in Outputs}
           to == IF outputs = {} THEN length ELSE Min(outputs)
           w == seen \o SubSeq(registry, n + 1, to)
<1>1. /\ seen \in Seq(AnyMetric) /\ n = Len(seen) /\ length \in Nat /\ n \in Nat /\ n <= length /\ length <= Len(registry)
      /\ NotAbove(seen, registry, n) /\ {"pc", "length", "before", "seen"} \subseteq DOMAIN reader
  BY DEF ReaderInv, Read
<1>2. PICK snap \in Seq(AnyMetric) : BegunWith(snap)
  BY DEF ReaderInv, Read
<1>3. registry \in Seq(AnyMetric) /\ registry' = registry /\ Len(registry) \in Nat
  BY DEF LayoutInv, Read
<1>4. reader' = [reader EXCEPT !.seen = w, !.pc = IF to = length THEN "read" ELSE "reading"]
  BY DEF Read
<1>5. Len(snap) = length /\ reader.before = Totals(snap) /\ NotAbove(snap, seen, n) /\ NotAbove(snap, registry, length)
  BY <1>2 DEF BegunWith
<1>6. to \in Nat /\ n <= to /\ to <= length
  <2>1. CASE outputs = {}
    BY <1>1, <2>1
  <2>2. CASE outputs # {}
    <3>1. outputs \subseteq Nat /\ \A i \in outputs : n <= i /\ i <= length
      BY <1>1
    <3> HIDE DEF outputs
    <3>2. \E i \in outputs : \A k \in outputs : i <= k
      BY <2>2, <3>1, LeastElement
    <3>3. Min(outputs) \in outputs
      BY <3>2 DEF Min
    <3>4. QED
      BY <2>2, <3>1, <3>3
  <2>3. QED
    BY <2>1, <2>2
<1> HIDE DEF outputs, to, length, n, seen
<1>7. /\ w \in Seq(AnyMetric) /\ Len(w) = to
      /\ \A i \in 1..n : w[i] = seen[i]
      /\ \A i \in 1..to : i > n => w[i] = registry[i]
  <2> DEFINE M == AnyMetric
  <2>1. seen \in Seq(M) /\ registry \in Seq(M) /\ to <= Len(registry) /\ w = seen \o SubSeq(registry, n + 1, to)
    BY <1>1, <1>3, <1>6
  <2> HIDE DEF w, M
  <2>2. /\ w \in Seq(M) /\ Len(w) = to
        /\ \A i \in 1..n : w[i] = seen[i]
        /\ \A i \in 1..to : i > n => w[i] = registry[i]
    BY <1>1, <1>6, <2>1, ReadsOn
  <2>3. QED
    BY <2>2 DEF M
<1> HIDE DEF w
<1>8. reader'.seen = w /\ reader'.length = length /\ reader'.before = reader.before
      /\ (reader'.pc = "read" => to = length) /\ reader'.pc \in {"reading", "read"} /\ DOMAIN reader' = DOMAIN reader
  BY <1>1, <1>4 DEF length
<1>9. NotAbove(w, registry, to)
  <2> SUFFICES ASSUME NEW i \in 1..to
               PROVE  /\ w[i].value.kind = registry[i].value.kind
                      /\ w[i].value.kind \in Outputs => w[i].value.cells[1] <= registry[i].value.cells[1]
    BY DEF NotAbove
  <2>1. CASE i <= n
    <3>1. i \in 1..n
      BY <1>1, <1>6, <2>1
    <3>2. QED
      BY <1>1, <1>7, <3>1 DEF NotAbove
  <2>2. CASE ~(i <= n)
    <3>1. w[i] = registry[i] /\ i \in 1..Len(registry)
      BY <1>1, <1>3, <1>6, <1>7, <2>2
    <3>2. registry[i] \in AnyMetric
      BY <1>3, <3>1
    <3>3. registry[i].value.kind \in Outputs => registry[i].value.cells[1] \in Nat
      BY <3>2, CountsOfMetric
    <3>4. QED
      BY <3>1, <3>3
  <2>3. QED
    BY <2>1, <2>2
<1>10. NotAbove(snap, w, to)
  <2> SUFFICES ASSUME NEW i \in 1..to
               PROVE  /\ snap[i].value.kind = w[i].value.kind
                      /\ snap[i].value.kind \in Outputs => snap[i].value.cells[1] <= w[i].value.cells[1]
    BY DEF NotAbove
  <2>1. CASE i <= n
    <3>1. i \in 1..n
      BY <1>1, <1>6, <2>1
    <3>2. QED
      BY <1>5, <1>7, <3>1 DEF NotAbove
  <2>2. CASE ~(i <= n)
    <3>1. w[i] = registry[i] /\ i \in 1..length
      BY <1>1, <1>6, <1>7, <2>2
    <3>2. QED
      BY <1>5, <3>1 DEF NotAbove
  <2>3. QED
    BY <2>1, <2>2
<1>11. \E s \in Seq(AnyMetric) : BegunWith(s)'
  <2>1. /\ Len(snap) = reader'.length /\ reader'.before = Totals(snap)
        /\ NotAbove(snap, reader'.seen, Len(reader'.seen))
        /\ NotAbove(snap, registry', reader'.length)
    BY <1>3, <1>5, <1>7, <1>8, <1>10
  <2>2. QED
    BY <2>1 DEF BegunWith
<1>12. length <= Len(registry)
  BY <1>1
<1>13. QED
  BY <1>1, <1>3, <1>6, <1>7, <1>8, <1>9, <1>11, <1>12 DEF ReaderInv

RInv == MInv /\ BatchInv /\ LayoutInv /\ ReaderInv

LEMMA RInit == Init => RInv
<1> SUFFICES ASSUME Init PROVE RInv
  OBVIOUS
<1>1. registry = <<>> /\ Opened = {} /\ reader.pc = "idle" /\ DOMAIN reader = {"pc", "length", "before", "seen"}
  BY DEF Init, Opened
<1>2. LayoutInv
  BY <1>1 DEF LayoutInv
<1>3. ReaderInv
  BY <1>1 DEF ReaderInv
<1>4. QED
  BY <1>2, <1>3, MInit, BatchInit DEF RInv

LEMMA RStep == RInv /\ [Next]_vars => RInv'
<1> SUFFICES ASSUME RInv, [Next]_vars PROVE RInv'
  OBVIOUS
<1>1. MInv' /\ BatchInv'
  BY MStep, BatchStep DEF RInv, MInv
<1>2. Grown(registry, registry') /\ LayoutInv'
  BY StepGrows DEF RInv
<1>3. reader' = reader \/ CloneInner \/ Read \/ Report
  BY DEF Next, Tick, OperatorStep, Open, StartTimer, StopEarly, EndPoll, RecordRows, RecordBytes, RecordBatches,
     Done, Clone, HandleStep, Drop, Stamp, Write, vars
<1>4. ReaderInv'
  <2>1. CASE reader' = reader
    BY <1>2, <2>1, ReaderWaits DEF RInv
  <2>2. CASE Report
    <3>1. reader'.pc = "printed" /\ DOMAIN reader' = DOMAIN reader
      BY <2>2 DEF Report, RInv, ReaderInv
    <3>2. QED
      BY <3>1 DEF RInv, ReaderInv
  <2>3. QED
    BY <1>3, <2>1, <2>2, ReaderBegins, ReaderReads DEF RInv
<1>5. QED
  BY <1>1, <1>2, <1>4 DEF RInv

(***************************************************************************)
(* Whatever is registered and recorded, the shared list only grows: it     *)
(* loses no metric, and none of its counters ever goes down.               *)
(***************************************************************************)
THEOREM CountersOnlyGrow == Spec => [][Grown(registry, registry')]_vars
<1>1. RInv /\ [Next]_vars => [Grown(registry, registry')]_vars
  BY StepGrows DEF RInv
<1>2. QED
  BY <1>1, RInit, RStep, PTL DEF Spec

(***************************************************************************)
(* A report that is read cell by cell while the operators run shows no     *)
(* less than there was when it was begun, and no more than there is.       *)
(***************************************************************************)
THEOREM ReportsLieBetween == Spec => []ReportsAreBetween
<1>1. RInv => ReportsAreBetween
  <2> SUFFICES ASSUME RInv, reader.pc = "read", NEW kind \in Outputs
               PROVE  /\ reader.before[kind] <= Totals(reader.seen)[kind]
                      /\ Totals(reader.seen)[kind] <= Totals(registry)[kind]
    BY DEF ReportsAreBetween
  <2>1. /\ reader.seen \in Seq(AnyMetric) /\ Len(reader.seen) = reader.length /\ reader.length <= Len(registry)
        /\ NotAbove(reader.seen, registry, Len(reader.seen)) /\ reader.length \in Nat
    BY DEF RInv, ReaderInv
  <2>2. PICK snap \in Seq(AnyMetric) : BegunWith(snap)
    BY DEF RInv, ReaderInv
  <2>3. registry \in Seq(AnyMetric)
    BY DEF RInv, LayoutInv
  <2>4. Len(snap) = reader.length /\ reader.before = Totals(snap) /\ NotAbove(snap, reader.seen, Len(reader.seen))
    BY <2>2 DEF BegunWith
  <2>5. Len(snap) <= Len(reader.seen) /\ NotAbove(snap, reader.seen, Len(snap)) /\ Len(reader.seen) <= Len(registry)
    BY <2>1, <2>4
  <2>6. Totals(snap)[kind] <= Totals(reader.seen)[kind]
    BY <2>1, <2>5, TotalsGrow
  <2>7. Totals(reader.seen)[kind] <= Totals(registry)[kind]
    BY <2>1, <2>3, <2>5, TotalsGrow
  <2>8. QED
    BY <2>4, <2>6, <2>7
<1>2. QED
  BY <1>1, RInit, RStep, PTL DEF Spec
-----------------------------------------------------------------------------
(***************************************************************************)
(* The bytes that are recorded are the sizes of the batches, one by one;   *)
(* the memory they keep alive is no more.                                  *)
(***************************************************************************)
AddsUp(f, n, batches) == f[0] = 0 /\ \A k \in 1..n : f[k] = f[k - 1] + MemorySize(batches[k])

\* The sizes of the first k batches, for each k.
Sizes(batches) == CHOOSE f \in [0..Len(batches) -> Nat] : AddsUp(f, Len(batches), batches)

LEMMA SizesExist ==
  ASSUME NEW batches, NEW n \in Nat, n = Len(batches), \A k \in 1..n : MemorySize(batches[k]) \in Nat
  PROVE  Sizes(batches) \in [0..n -> Nat] /\ AddsUp(Sizes(batches), n, batches)
<1> DEFINE step == [p \in (1..n) \X Nat |-> p[2] + MemorySize(batches[p[1]])]
<1>1. step \in [(1..n) \X Nat -> Nat] /\ \A k \in 1..n : \A x \in Nat : step[<<k, x>>] = x + MemorySize(batches[k])
  OBVIOUS
<1> HIDE DEF step
<1>2. PICK acc \in [0..n -> Nat] : Passes(acc, n, 0, step)
  BY <1>1, PassesExists
<1>3. AddsUp(acc, n, batches)
  <2>0. \A k \in 1..n : k - 1 \in 0..n
    OBVIOUS
  <2>1. \A k \in 1..n : acc[k - 1] \in Nat /\ acc[k] = step[<<k, acc[k - 1]>>]
    BY <1>2, <2>0 DEF Passes
  <2>2. acc[0] = 0
    BY <1>2 DEF Passes
  <2>3. QED
    BY <1>1, <2>1, <2>2 DEF AddsUp
<1>4. QED
  BY <1>3 DEF Sizes

\* The number of batches whose size is recorded.
Recorded(p) == IF op[p].pc = "bytes" THEN op[p].batch ELSE op[p].batch - 1

SizesOf(p) ==
  IF p \in Opened THEN Cell(p, "OutputBytes") = Sizes(Batches[p])[Recorded(p)] ELSE op[p].batch = 1

SizesInv == \A p \in Partitions : SizesOf(p)

LEMMA SizesOfPartition ==
  ASSUME BatchInv, NEW p \in Partitions, NEW n, n = Len(Batches[p])
  PROVE  /\ n \in Nat /\ Sizes(Batches[p]) \in [0..n -> Nat] /\ AddsUp(Sizes(Batches[p]), n, Batches[p])
         /\ \A k \in 1..n : MemorySize(Batches[p][k]) \in Nat /\ Batches[p][k].columns \in Seq(Column)
<1>1. n \in Nat
  <2> DEFINE given == Batches[p]
             E == BatchesOf(Capacity)
  <2>1. given \in Seq(E)
    BY DEF BatchInv
  <2> HIDE DEF E
  <2>2. Len(given) \in Nat
    BY <2>1
  <2>3. QED
    BY <2>2
<1>2. \A k \in 1..n : MemorySize(Batches[p][k]) \in Nat /\ Batches[p][k].columns \in Seq(Column)
  BY BatchIsOne
<1>3. QED
  BY <1>1, <1>2, SizesExist

\* A partition that records no bytes.
LEMMA SizesStay ==
  ASSUME NEW p \in Partitions, SizesOf(p), plan' = plan, op'[p].pc = "new" <=> op[p].pc = "new",
         Recorded(p)' = Recorded(p), op[p].pc = "new" => op'[p].batch = op[p].batch,
         p \in Opened => Cell(p, "OutputBytes")' = Cell(p, "OutputBytes")
  PROVE  SizesOf(p)'
<1>1. p \in Opened' <=> p \in Opened
  BY DEF Opened, Partitions, Batches
<1>2. CASE p \in Opened
  BY <1>1, <1>2 DEF SizesOf, Batches
<1>3. CASE p \notin Opened
  BY <1>1, <1>3 DEF SizesOf, Opened
<1>4. QED
  BY <1>2, <1>3

LEMMA SizesInit == Init => SizesInv
<1> SUFFICES ASSUME Init, NEW p \in Partitions PROVE SizesOf(p)
  BY DEF SizesInv
<1>1. op[p].pc = "new" /\ op[p].batch = 1
  BY DEF Init
<1>2. QED
  BY <1>1 DEF SizesOf, Opened

LEMMA SizesStep ==
  ASSUME RInv, SizesInv, [Next]_vars
  PROVE  SizesInv'
<1>0. MInv /\ BatchInv /\ LayoutInv /\ TypeInv /\ RegistryInv
  BY DEF RInv, MInv
<1>1. CASE CloneInner \/ Read \/ Report \/ Tick \/ UNCHANGED vars
  <2>1. plan' = plan /\ op' = op /\ registry' = registry
    BY <1>1 DEF CloneInner, Read, Report, Tick, vars
  <2>2. Partitions' = Partitions /\ \A p \in Partitions : Cell(p, "OutputBytes")' = Cell(p, "OutputBytes") /\ Recorded(p)' = Recorded(p)
    BY <2>1 DEF Partitions, Batches, Cell, Index, Recorded
  <2>3. QED
    BY <2>1, <2>2, SizesStay DEF SizesInv
<1>2. ASSUME NEW p \in Partitions, Open(p)
      PROVE  SizesInv'
  <2>1. /\ Opened' = Opened \cup {p} /\ Partitions' = Partitions /\ p \notin Opened /\ plan' = plan
        /\ \A q \in Partitions : q # p => op'[q] = op[q]
    <3>1. plan' = plan
      BY <1>2 DEF Open
    <3>2. QED
      BY <1>0, <1>2, <3>1, OpenStep
  <2>2. op'[p].batch = op[p].batch /\ op'[p].pc = "idle"
    BY <1>0, <1>2 DEF Open, TypeInv, Stream
  <2>3. Cell(p, "OutputBytes")' = 0
    BY <1>0, <1>2, OpenGrows
  <2>4. "OutputBytes" \in DOMAIN Offset
    BY DEF Offset
  <2>5. \A q \in Opened : Cell(q, "OutputBytes")' = Cell(q, "OutputBytes")
    BY <1>0, <1>2, <2>4, OpenRegistry
  <2>6. \A q \in Partitions : q # p => SizesOf(q)'
    <3> TAKE q \in Partitions
    <3> HAVE q # p
    <3>1. op'[q] = op[q]
      BY <2>1
    <3>2. Recorded(q)' = Recorded(q)
      BY <3>1 DEF Recorded
    <3>3. QED
      BY <2>1, <2>5, <3>1, <3>2, SizesStay DEF SizesInv
  <2>7. SizesOf(p)'
    <3>1. op[p].batch = 1
      BY <2>1 DEF SizesInv, SizesOf
    <3>2. Recorded(p)' = 0
      BY <2>2, <3>1 DEF Recorded
    <3>3. Sizes(Batches[p])[0] = 0
      BY <1>0, SizesOfPartition DEF AddsUp
    <3>4. QED
      BY <2>1, <2>3, <3>2, <3>3 DEF SizesOf, Batches
  <2>8. QED
    BY <2>1, <2>6, <2>7 DEF SizesInv
<1>3. ASSUME NEW p \in Partitions, OperatorStep(p) \/ \E h \in Kept : HandleStep(p, h), ~Open(p)
      PROVE  SizesInv'
  <2>1. p \in Opened
    <3>1. CASE p \notin Opened
      <4>1. op[p].pc = "new" /\ \A h \in Kept : handle[p][h].pc = "none"
        BY <1>0, <3>1 DEF MInv, PartitionInv, NewOf, Opened
      <4>2. handle[p].stream.pc = "none"
        BY <4>1 DEF Kept
      <4>3. QED
        BY <1>3, <4>1, <4>2 DEF OperatorStep, StartTimer, StopEarly, EndPoll, RecordRows, RecordBytes,
           RecordBatches, Done, Clone, HandleStep, Drop, Stamp, Write
    <3>2. QED
      BY <3>1
  <2>2. StepsAlone(p)
    BY <1>0, <1>3, StreamSteps, HandleSteps DEF OperatorStep, Kept
  <2>3. plan' = plan /\ Opened' = Opened /\ Partitions' = Partitions
        /\ (\A q \in Partitions : op'[q].base = op[q].base) /\ \A q \in Partitions : q # p => op'[q] = op[q]
    BY <1>0, <2>2, AloneKeepsTypes DEF StepsAlone
  <2>4. op[p].pc # "new" /\ (op'[p].pc = "new" <=> op[p].pc = "new")
    BY <2>1, <2>2 DEF Opened, StepsAlone
  <2>5. "OutputBytes" \in DOMAIN Offset
    BY DEF Offset
  <2>6. ASSUME \A q \in Opened \ {p} : Cell(q, "OutputBytes")' = Cell(q, "OutputBytes"), SizesOf(p)'
        PROVE  SizesInv'
    <3>1. ASSUME NEW q \in Partitions, q # p PROVE SizesOf(q)'
      <4>1. op'[q] = op[q]
        BY <2>3, <3>1
      <4>2. Recorded(q)' = Recorded(q)
        BY <4>1 DEF Recorded
      <4>3. QED
        BY <2>3, <2>6, <3>1, <4>1, <4>2, SizesStay DEF SizesInv
    <3>2. QED
      BY <2>3, <2>6, <3>1 DEF SizesInv
  <2>7. ASSUME \A q \in Opened : Cell(q, "OutputBytes")' = Cell(q, "OutputBytes"), Recorded(p)' = Recorded(p)
        PROVE  SizesInv'
    <3>1. SizesOf(p)'
      BY <2>1, <2>3, <2>4, <2>7, SizesStay DEF SizesInv
    <3>2. QED
      BY <2>6, <2>7, <3>1
  <2>8. ASSUME NEW kind \in DOMAIN Offset \ {"OutputBytes"}, NEW x, registry' = After(p, kind, x)
        PROVE  \A q \in Opened : Cell(q, "OutputBytes")' = Cell(q, "OutputBytes")
    BY <1>0, <2>1, <2>3, <2>5, <2>8, WriteCell
  <2>9. CASE StopEarly(p) \/ EndPoll(p)
    <3>1. registry' = Elapsed(p)
      BY <2>9 DEF StopEarly, EndPoll
    <3>2. \A q \in Opened : Cell(q, "OutputBytes")' = Cell(q, "OutputBytes")
      <4>1. CASE op[p].timer = None
        <5>1. registry' = registry
          BY <3>1, <4>1 DEF Elapsed
        <5>2. QED
          BY <1>0, <2>3, <2>5, <5>1, WriteNothing
      <4>2. CASE op[p].timer # None
        <5> DEFINE x == AddDuration(Cell(p, "ElapsedCompute"), clock - op[p].timer)
        <5>1. registry' = After(p, "ElapsedCompute", x) /\ "ElapsedCompute" \in DOMAIN Offset \ {"OutputBytes"}
          BY <3>1, <4>2 DEF Elapsed, Offset
        <5> HIDE DEF x
        <5>2. QED
          BY <2>8, <5>1
      <4>3. QED
        BY <4>1, <4>2
    <3>3. Recorded(p)' = Recorded(p)
      <4>1. op'[p].batch = op[p].batch /\ op'[p].pc # "bytes" /\ op[p].pc # "bytes"
        BY <1>0, <2>9, ZenonT(40) DEF StopEarly, EndPoll, Stopped, TypeInv, Stream
      <4>2. QED
        BY <4>1 DEF Recorded
    <3>4. QED
      BY <2>7, <3>2, <3>3
  <2>10. CASE RecordRows(p)
    <3> DEFINE x == Cell(p, "OutputRows") + Batches[p][op[p].batch].rows
    <3>1. registry' = After(p, "OutputRows", x) /\ "OutputRows" \in DOMAIN Offset \ {"OutputBytes"}
      BY <2>10 DEF RecordRows, Add, Offset
    <3> HIDE DEF x
    <3>2. \A q \in Opened : Cell(q, "OutputBytes")' = Cell(q, "OutputBytes")
      BY <2>8, <3>1
    <3>3. Recorded(p)' = Recorded(p)
      <4>1. op'[p].batch = op[p].batch /\ op'[p].pc # "bytes" /\ op[p].pc # "bytes"
        BY <1>0, <2>10 DEF RecordRows, TypeInv, Stream
      <4>2. QED
        BY <4>1 DEF Recorded
    <3>4. QED
      BY <2>7, <3>2, <3>3
  <2>11. CASE RecordBytes(p)
    <3> DEFINE k == op[p].batch
               x == Cell(p, "OutputBytes") + MemorySize(Batches[p][k])
               n == Len(Batches[p])
               f == Sizes(Batches[p])
    <3>1. registry' = After(p, "OutputBytes", x)
      BY <2>11 DEF RecordBytes, Add
    <3>2. op[p].pc = "rows" /\ op'[p].pc = "bytes" /\ op'[p].batch = k
      BY <1>0, <2>11 DEF RecordBytes, TypeInv, Stream
    <3>3. k \in 1..n
      BY <1>0, <3>2 DEF BatchInv
    <3>4. f[k] = f[k - 1] + MemorySize(Batches[p][k])
      BY <1>0, <3>3, SizesOfPartition DEF AddsUp
    <3>5. Cell(p, "OutputBytes") = f[k - 1]
      BY <2>1, <3>2 DEF SizesInv, SizesOf, Recorded
    <3>6. x = f[k]
      BY <3>4, <3>5
    <3> HIDE DEF x
    <3>7. /\ Cell(p, "OutputBytes")' = x
          /\ \A q \in Opened \ {p} : Cell(q, "OutputBytes")' = Cell(q, "OutputBytes")
      BY <1>0, <2>1, <2>3, <2>5, <3>1, WriteCell
    <3>8. SizesOf(p)'
      BY <2>1, <2>3, <3>2, <3>6, <3>7 DEF SizesOf, Recorded, Batches
    <3>9. QED
      BY <2>6, <3>7, <3>8
  <2>12. CASE RecordBatches(p)
    <3> DEFINE x == Cell(p, "OutputBatches") + 1
    <3>1. registry' = WithExtras(p, After(p, "OutputBatches", x)) /\ "OutputBytes" \in DOMAIN Offset \ {"OutputBatches"}
      BY <2>12 DEF RecordBatches, Offset
    <3> HIDE DEF x
    <3>2. \A q \in Opened : Cell(q, "OutputBytes")' = Cell(q, "OutputBytes")
      BY <1>0, <2>1, <2>3, <3>1, WriteExtras
    <3>3. Recorded(p)' = Recorded(p)
      <4>1. op'[p].batch = op[p].batch + 1 /\ op'[p].pc = "recorded" /\ op[p].pc = "bytes" /\ op[p].batch \in Nat
        BY <1>0, <2>12 DEF RecordBatches, TypeInv, Stream
      <4>2. QED
        BY <4>1 DEF Recorded
    <3>4. QED
      BY <2>7, <3>2, <3>3
  <2>13. ASSUME NEW h \in Kept, Write(p, h)
         PROVE  SizesInv'
    <3> DEFINE x == handle[p][h].stamp
    <3>1. registry' = After(p, "EndTimestamp", x) /\ "EndTimestamp" \in DOMAIN Offset \ {"OutputBytes"}
      BY <2>13 DEF Write, Offset
    <3> HIDE DEF x
    <3>2. \A q \in Opened : Cell(q, "OutputBytes")' = Cell(q, "OutputBytes")
      BY <2>8, <3>1
    <3>3. Recorded(p)' = Recorded(p)
      <4>1. op' = op \/ (op[p].pc = "ending" /\ op' = [op EXCEPT ![p].pc = "ended"])
        BY <2>13 DEF Write
      <4>2. op'[p].batch = op[p].batch /\ (op'[p].pc = "bytes" <=> op[p].pc = "bytes")
        BY <1>0, <4>1 DEF TypeInv, Stream
      <4>3. QED
        BY <4>2 DEF Recorded
    <3>4. QED
      BY <2>7, <3>2, <3>3
  <2>14. CASE StartTimer(p) \/ Done(p) \/ Clone(p) \/ (\E h \in Kept : Drop(p, h) \/ Stamp(p, h))
    <3>1. registry' = registry
      BY <2>14 DEF StartTimer, Done, Clone, Drop, Stamp
    <3>2. \A q \in Opened : Cell(q, "OutputBytes")' = Cell(q, "OutputBytes")
      BY <1>0, <2>3, <2>5, <3>1, WriteNothing
    <3>3. Recorded(p)' = Recorded(p)
      <4>1. (op'[p].batch = op[p].batch /\ op'[p].pc # "bytes" /\ op[p].pc # "bytes") \/ op'[p] = op[p]
        BY <1>0, <2>14 DEF StartTimer, Done, Clone, Drop, Stamp, TypeInv, Stream
      <4>2. QED
        BY <4>1 DEF Recorded
    <3>4. QED
      BY <2>7, <3>2, <3>3
  <2>15. QED
    BY <1>3, <2>9, <2>10, <2>11, <2>12, <2>13, <2>14 DEF OperatorStep, HandleStep
<1>4. QED
  BY <1>1, <1>2, <1>3 DEF Next, Kept

BatchesCounted(acc, n, batches) == acc[0] = NewCounter /\ \A k \in 1..n : acc[k] = CountBatch(acc[k - 1], batches[k])

LEMMA BatchesFold ==
  ASSUME NEW batches, NEW n \in Nat, DOMAIN batches = 1..n, \A k \in 1..n : batches[k].columns \in Seq(Column)
  PROVE  \E acc \in [0..n -> Counter] :
           BatchesCounted(acc, n, batches) /\ FoldLeft(CountBatch, NewCounter, batches) = acc[n]
<1> DEFINE V == Counter
           Step(k, x) == CountBatch(x, batches[k])
           step == [p \in (1..n) \X V |-> Step(p[1], p[2])]
           eq(g) == [s \in SUBSET (1..n) |-> IF s = {} THEN NewCounter ELSE LET x == Max(s) IN Step(x, g[s \ {x}])]
           fold == CHOOSE g : g = eq(g)
<1>1. n \in Nat /\ DOMAIN batches = 1..n /\ \A k \in 1..n : batches[k].columns \in Seq(Column)
  OBVIOUS
<1>2. NewCounter \in V
  BY NewCounterIsOne
<1>3. \A k \in 1..n : \A x \in V : Step(k, x) \in V
  BY <1>1, BatchCounts
<1>4. FoldLeft(CountBatch, NewCounter, batches) = fold[1..n]
  BY <1>1 DEF FoldLeft, MapThenFoldSet
<1> HIDE DEF Step, V
<1>5. step \in [(1..n) \X V -> V]
  BY <1>3
<1>6. \A k \in 1..n : \A x \in V : step[<<k, x>>] = Step(k, x)
  OBVIOUS
<1> HIDE DEF step
<1>7. PICK g0 \in [SUBSET (1..n) -> V] : FoldsTo(g0, n, NewCounter, step)
  BY <1>1, <1>2, <1>5, FoldExists
<1>8. g0 = eq(g0)
  <2>1. ASSUME NEW s \in SUBSET (1..n)
        PROVE  g0[s] = IF s = {} THEN NewCounter ELSE LET x == Max(s) IN Step(x, g0[s \ {x}])
    <3>1. CASE s = {}
      BY <1>7, <3>1 DEF FoldsTo
    <3>2. CASE s # {}
      <4>1. Max(s) \in s
        BY <1>1, <3>2, MaxOfPlaces
      <4>2. Max(s) \in 1..n /\ s \ {Max(s)} \in SUBSET (1..n)
        BY <4>1
      <4>3. g0[s] = step[<<Max(s), g0[s \ {Max(s)}]>>] /\ g0[s \ {Max(s)}] \in V
        BY <1>7, <3>2, <4>2 DEF FoldsTo
      <4>4. QED
        BY <1>6, <3>2, <4>2, <4>3
    <3>3. QED
      BY <3>1, <3>2
  <2>2. QED
    BY <2>1
<1>9. fold = eq(fold)
  BY <1>8
<1> HIDE DEF fold
<1>10. fold[{}] = NewCounter
  BY <1>9
<1>11. ASSUME NEW s \in (SUBSET (1..n)) \ {{}}, fold[s \ {Max(s)}] \in V
       PROVE  fold[s] = step[<<Max(s), fold[s \ {Max(s)}]>>]
  <2>1. Max(s) \in 1..n
    BY <1>1, MaxOfPlaces
  <2>2. fold[s] = Step(Max(s), fold[s \ {Max(s)}])
    BY <1>9
  <2>3. QED
    BY <1>6, <1>11, <2>1, <2>2
<1>12. FoldsAmong(fold, V, n, NewCounter, step)
  BY <1>10, <1>11 DEF FoldsAmong
<1>13. PassesTo(fold[1..n], V, n, NewCounter, step)
  BY <1>1, <1>2, <1>5, <1>12, FoldPasses
<1>14. PICK acc \in [0..n -> V] : Passes(acc, n, NewCounter, step) /\ acc[n] = fold[1..n]
  BY <1>13 DEF PassesTo
<1>15. ASSUME NEW k \in 1..n PROVE acc[k] = CountBatch(acc[k - 1], batches[k])
  <2>1. k - 1 \in 0..n
    BY <1>1
  <2>2. acc[k] = step[<<k, acc[k - 1]>>] /\ acc[k - 1] \in V
    BY <1>14, <2>1 DEF Passes
  <2>3. QED
    BY <1>6, <2>2 DEF Step
<1>16. BatchesCounted(acc, n, batches)
  BY <1>14, <1>15 DEF Passes, BatchesCounted
<1>17. QED
  BY <1>4, <1>14, <1>16 DEF V

\* The memory batches keep alive is no more than their sizes.
LEMMA KeptIsCovered ==
  ASSUME NEW batches, NEW n \in Nat, DOMAIN batches = 1..n, \A k \in 1..n : batches[k].columns \in Seq(Column),
         NEW f, \A k \in 0..n : f[k] \in Nat, AddsUp(f, n, batches),
         NEW acc \in [0..n -> Counter], BatchesCounted(acc, n, batches)
  PROVE  /\ acc[n].usage <= f[n]
         /\ (\A b, c \in 1..n : b # c => BuffersOf(batches[b]) \cap BuffersOf(batches[c]) = {}) => acc[n].usage = f[n]
<1> DEFINE apart == \A b, c \in 1..n : b # c => BuffersOf(batches[b]) \cap BuffersOf(batches[c]) = {}
           among(k) == UNION {BuffersOf(batches[i]) : i \in 1..k}
           S == {k \in 0..n : /\ acc[k].counted = among(k) /\ acc[k].usage <= f[k]
                              /\ apart => acc[k].usage = f[k]}
<1>1. 0 \in S
  <2>1. among(0) = {}
    OBVIOUS
  <2>2. acc[0].counted = {} /\ acc[0].usage = 0 /\ f[0] = 0
    BY NewCounterIsOne DEF BatchesCounted, AddsUp
  <2>3. QED
    BY <2>1, <2>2
<1>2. ASSUME NEW k \in 1..n, k - 1 \in S PROVE k \in S
  <2> DEFINE c == acc[k - 1]
             batch == batches[k]
             own == CountBatch(NewCounter, batch)
             both == CountBatch(c, batch)
  <2>1. k \in 0..n /\ k - 1 \in 0..n /\ 1..k = (1..(k - 1)) \cup {k}
    OBVIOUS
  <2>2. acc[k] = both /\ c \in Counter /\ batch.columns \in Seq(Column) /\ f[k] = f[k - 1] + MemorySize(batch)
        /\ f[k - 1] \in Nat
    BY <2>1 DEF BatchesCounted, AddsUp
  <2>3. c.counted = among(k - 1) /\ c.usage <= f[k - 1] /\ (apart => c.usage = f[k - 1])
    BY <1>2
  <2>4. Together(c, own, both) /\ MemorySize(batch) = own.usage /\ MemorySize(batch) \in Nat
    BY <2>2, TogetherBatch
  <2>5. both \in Counter /\ own.counted = BuffersOf(batch)
    <3>1. both \in Counter
      BY <2>2, BatchCounts
    <3>2. own.counted = NewCounter.counted \cup BuffersOf(batch)
      BY <2>2, BatchCounts, NewCounterIsOne
    <3>3. QED
      BY <3>1, <3>2, NewCounterIsOne
  <2>6. among(k) = among(k - 1) \cup BuffersOf(batch)
    BY <2>1
  <2>7. apart => among(k - 1) \cap BuffersOf(batch) = {}
    <3> SUFFICES ASSUME apart, NEW i \in 1..(k - 1) PROVE BuffersOf(batches[i]) \cap BuffersOf(batches[k]) = {}
      OBVIOUS
    <3>1. i \in 1..n /\ i # k
      OBVIOUS
    <3>2. QED
      BY <3>1
  <2> HIDE DEF apart, among, own, both, c, batch
  <2>8. both.usage \in Nat /\ c.usage \in Nat
    BY <2>2, <2>5 DEF Counter
  <2>9. both.counted = among(k) /\ both.usage <= f[k] /\ (apart => both.usage = f[k])
    BY <2>2, <2>3, <2>4, <2>5, <2>6, <2>7, <2>8 DEF Together
  <2>10. QED
    BY <2>1, <2>2, <2>9
<1> HIDE DEF S
<1>3. 0..n \subseteq S
  BY <1>1, <1>2, BoundedInduction
<1>4. n \in S
  BY <1>3
<1>5. QED
  BY <1>4 DEF S

(***************************************************************************)
(* The bytes of a stream are the sizes of the batches it gave, each for    *)
(* itself: they cover the memory those keep alive, and are just that       *)
(* where no two batches share a buffer.                                    *)
(***************************************************************************)
THEOREM BytesAreCovered == Spec => []BytesCoverTheBatches
<1>1. RInv /\ SizesInv => BytesCoverTheBatches
  <2> SUFFICES ASSUME RInv, SizesInv, NEW p \in Opened, op[p].pc \in {"idle", "over"}
               PROVE  LET given   == SubSeq(Batches[p], 1, op[p].batch - 1)
                          buffers == [b \in DOMAIN given |-> UNION {ToSet(c) : c \in ToSet(given[b].columns)}]
                          kept    == FoldLeft(CountBatch, NewCounter, given).usage
                      IN  /\ kept <= Cell(p, "OutputBytes")
                          /\ (\A b, c \in DOMAIN given : b # c => buffers[b] \cap buffers[c] = {})
                               => kept = Cell(p, "OutputBytes")
    BY DEF BytesCoverTheBatches
  <2> DEFINE given   == SubSeq(Batches[p], 1, op[p].batch - 1)
             buffers == [b \in DOMAIN given |-> UNION {ToSet(c) : c \in ToSet(given[b].columns)}]
             kept    == FoldLeft(CountBatch, NewCounter, given).usage
  <2>0. \A b \in DOMAIN given : buffers[b] = BuffersOf(given[b])
    BY DEF BuffersOf
  <2> DEFINE n == op[p].batch - 1
             all == Batches[p]
             f == Sizes(all)
             l == Len(all)
             E == BatchesOf(Capacity)
  <2>1. p \in Partitions /\ BatchInv /\ l = Len(Batches[p])
    BY DEF Opened, RInv
  <2>2. all \in Seq(E) /\ n + 1 \in 1..l + 1 /\ op[p].batch \in Int
    BY <2>1 DEF BatchInv
  <2>3. /\ l \in Nat /\ f \in [0..l -> Nat] /\ AddsUp(f, l, all)
        /\ \A k \in 1..l : all[k].columns \in Seq(Column)
    BY <2>1, SizesOfPartition
  <2>4. Cell(p, "OutputBytes") = f[n]
    BY <2>1 DEF SizesInv, SizesOf, Recorded
  <2>5. given = SubSeq(all, 1, n) /\ l = Len(all) /\ kept = FoldLeft(CountBatch, NewCounter, given).usage
    OBVIOUS
  <2> SUFFICES /\ kept <= Cell(p, "OutputBytes")
               /\ (\A b, c \in DOMAIN given : b # c => buffers[b] \cap buffers[c] = {}) => kept = Cell(p, "OutputBytes")
    OBVIOUS
  <2> HIDE DEF n, all, f, l, E, given, kept, buffers
  <2>6. n \in 0..l
    BY <2>2, <2>3 DEF n
  <2>7. DOMAIN given = 1..n /\ \A k \in 1..n : given[k] = all[k] /\ k \in 1..l
    BY <2>2, <2>3, <2>5, <2>6
  <2>8. \A k \in 1..n : given[k].columns \in Seq(Column)
    BY <2>3, <2>7
  <2>9. (\A k \in 0..n : f[k] \in Nat) /\ n \in Nat
    <3>1. \A k \in 0..n : k \in 0..l
      BY <2>3, <2>6
    <3>2. QED
      BY <2>3, <2>6, <3>1
  <2>10. AddsUp(f, n, given)
    BY <2>3, <2>7 DEF AddsUp
  <2>11. PICK acc \in [0..n -> Counter] :
           BatchesCounted(acc, n, given) /\ FoldLeft(CountBatch, NewCounter, given) = acc[n]
    BY <2>7, <2>8, <2>9, BatchesFold
  <2>12. /\ acc[n].usage <= f[n]
         /\ (\A b, c \in 1..n : b # c => BuffersOf(given[b]) \cap BuffersOf(given[c]) = {}) => acc[n].usage = f[n]
    <3>1. n \in Nat /\ DOMAIN given = 1..n
      BY <2>7, <2>9
    <3>2. \A k \in 0..n : f[k] \in Nat
      BY <2>9
    <3>3. acc \in [0..n -> Counter] /\ BatchesCounted(acc, n, given)
      BY <2>11
    <3>4. QED
      BY ONLY <2>8, <2>10, <3>1, <3>2, <3>3, KeptIsCovered, SMTT(30)
  <2>13. kept = acc[n].usage
    BY <2>5, <2>11
  <2>14. QED
    BY <2>0, <2>4, <2>7, <2>12, <2>13
<1>2. Init => RInv /\ SizesInv
  BY RInit, SizesInit
<1>3. RInv /\ SizesInv /\ [Next]_vars => (RInv /\ SizesInv)'
  BY RStep, SizesStep
<1>4. QED
  BY <1>1, <1>2, <1>3, PTL DEF Spec
-----------------------------------------------------------------------------
(***************************************************************************)
(* The skew of the rows.  With x the rows of n partitions, n times the sum *)
(* of the squares exceeds the square of the total by the squared           *)
(* differences, and the square of the total exceeds the sum of the squares *)
(* by the products; a difference or a product that counts shows in it.     *)
(***************************************************************************)
\* The sums of numbers, and of their squares, over the subsets of a set.
SumsOf(D, x, T, Q) ==
  /\ IsFiniteSet(D) /\ x \in [D -> Nat]
  /\ T \in [SUBSET D -> Nat] /\ SumsOn(T, D, x)
  /\ Q \in [SUBSET D -> Nat] /\ SumsOn(Q, D, SquaresOf(x))

LEMMA SumsStep ==
  ASSUME NEW D, NEW x, NEW T, NEW Q, SumsOf(D, x, T, Q), NEW s \in (SUBSET D) \ {{}}
  PROVE  /\ One(s) \in s /\ One(s) \in D /\ Rest(s) \in SUBSET D
         /\ \A p \in s : p # One(s) => p \in Rest(s)
         /\ Cardinality(Rest(s)) \in Nat /\ Cardinality(s) = Cardinality(Rest(s)) + 1
         /\ x[One(s)] \in Nat /\ T[Rest(s)] \in Nat /\ Q[Rest(s)] \in Nat
         /\ T[s] = T[Rest(s)] + x[One(s)] /\ Q[s] = Q[Rest(s)] + x[One(s)] * x[One(s)]
<1>1. IsFiniteSet(D) /\ s \in SUBSET D /\ s # {}
  BY DEF SumsOf
<1>2. /\ One(s) \in s /\ Rest(s) \in SUBSET D
      /\ Cardinality(s) \in Nat \ {0} /\ Cardinality(Rest(s)) = Cardinality(s) - 1
  BY <1>1, OneIsTaken
<1>3. x[One(s)] \in Nat /\ T[Rest(s)] \in Nat /\ Q[Rest(s)] \in Nat
  BY <1>1, <1>2 DEF SumsOf
<1>4. T[s] = x[One(s)] + T[Rest(s)]
  BY <1>1 DEF SumsOf, SumsOn
<1>5. Q[s] = x[One(s)] * x[One(s)] + Q[Rest(s)]
  <2>1. Q[s] = SquaresOf(x)[One(s)] + Q[Rest(s)]
    BY <1>1 DEF SumsOf, SumsOn
  <2>2. SquaresOf(x)[One(s)] = x[One(s)] * x[One(s)]
    BY <1>1, <1>2 DEF SumsOf, SquaresOf
  <2>3. QED
    BY <2>1, <2>2
<1>6. \A p \in s : p # One(s) => p \in Rest(s)
  BY DEF Rest
<1>7. QED
  BY <1>1, <1>2, <1>3, <1>4, <1>5, <1>6

\* The squared distance of all numbers from one, at least that of each.
Distance(T, Q, s, y) == Q[s] - 2 * (T[s] * y) + Cardinality(s) * (y * y)

LEMMA DistancesAdd ==
  ASSUME NEW D, NEW x, NEW T, NEW Q, SumsOf(D, x, T, Q), NEW y \in Nat
  PROVE  \A s \in SUBSET D : /\ Distance(T, Q, s, y) \in Nat
                             /\ \A p \in s : (x[p] - y) * (x[p] - y) <= Distance(T, Q, s, y)
<1> DEFINE Sq(p) == (x[p] - y) * (x[p] - y)
           W == {s \in SUBSET D : Distance(T, Q, s, y) \in Nat /\ \A p \in s : Sq(p) <= Distance(T, Q, s, y)}
<1>1. {} \in W
  <2>1. T[{}] = 0 /\ Q[{}] = 0 /\ Cardinality({}) = 0
    BY FS_EmptySet DEF SumsOf, SumsOn
  <2>2. Distance(T, Q, {}, y) = 0
    BY <2>1 DEF Distance
  <2>3. QED
    BY <2>1, <2>2
<1>2. ASSUME NEW s \in (SUBSET D) \ {{}}, Rest(s) \in W PROVE s \in W
  <2> DEFINE r == Rest(s)
             c == One(s)
             z == x[c]
             m == Cardinality(r)
             d == Distance(T, Q, r, y)
  <2>1. /\ \A p \in s : p # c => p \in r
        /\ m \in Nat /\ Cardinality(s) = m + 1 /\ z \in Nat /\ T[r] \in Nat /\ Q[r] \in Nat
        /\ T[s] = T[r] + z /\ Q[s] = Q[r] + z * z
    BY SumsStep
  <2>2. d \in Nat /\ \A p \in r : Sq(p) <= d
    BY <1>2
  <2>3. \A p \in s : Sq(p) \in Nat
    <3>1. ASSUME NEW a \in Int PROVE a * a \in Nat
      OBVIOUS
    <3>2. \A p \in s : x[p] \in Nat
      BY DEF SumsOf
    <3>3. QED
      BY <3>1, <3>2
  <2>4. c \in s
    BY SumsStep
  <2>5. Distance(T, Q, s, y) = d + Sq(c)
    <3>1. ASSUME NEW q \in Int, NEW t \in Int, NEW i \in Int, NEW u \in Int
          PROVE  (q + u * u) - 2 * ((t + u) * y) + (i + 1) * (y * y) = (q - 2 * (t * y) + i * (y * y)) + (u - y) * (u - y)
      OBVIOUS
    <3>2. (Q[r] + z * z) - 2 * ((T[r] + z) * y) + (m + 1) * (y * y) = (Q[r] - 2 * (T[r] * y) + m * (y * y)) + (z - y) * (z - y)
      <4> HIDE DEF r, m, z
      <4>1. QED
        BY <2>1, <3>1
    <3>3. QED
      BY <2>1, <3>2 DEF Distance
  <2> HIDE DEF Sq, d, c, r, z, m
  <2>6. ASSUME NEW p \in s PROVE Sq(p) <= d + Sq(c)
    <3>1. CASE p = c
      BY <2>2, <2>3, <2>4, <3>1
    <3>2. CASE p # c
      BY <2>1, <2>2, <2>3, <2>4, <2>6, <3>2
    <3>3. QED
      BY <3>1, <3>2
  <2>7. d + Sq(c) \in Nat
    BY <2>2, <2>3, <2>4
  <2>8. QED
    BY <2>5, <2>6, <2>7
<1> HIDE DEF W
<1>3. SUBSET D \subseteq W
  BY <1>1, <1>2, RestInduction DEF SumsOf
<1>4. QED
  BY <1>3 DEF W

\* The spread of the numbers, at least the squared difference of any two.
Spread(T, Q, s) == Cardinality(s) * Q[s] - T[s] * T[s]

LEMMA SpreadAdds ==
  ASSUME NEW D, NEW x, NEW T, NEW Q, SumsOf(D, x, T, Q)
  PROVE  \A s \in SUBSET D : /\ Spread(T, Q, s) \in Nat
                             /\ \A p, q \in s : (x[p] - x[q]) * (x[p] - x[q]) <= Spread(T, Q, s)
<1> DEFINE Sq(p, q) == (x[p] - x[q]) * (x[p] - x[q])
           W == {s \in SUBSET D : Spread(T, Q, s) \in Nat /\ \A p, q \in s : Sq(p, q) <= Spread(T, Q, s)}
<1>1. {} \in W
  <2>1. T[{}] = 0 /\ Q[{}] = 0 /\ Cardinality({}) = 0
    BY FS_EmptySet DEF SumsOf, SumsOn
  <2>2. Spread(T, Q, {}) = 0
    BY <2>1 DEF Spread
  <2>3. QED
    BY <2>1, <2>2
<1>2. ASSUME NEW s \in (SUBSET D) \ {{}}, Rest(s) \in W PROVE s \in W
  <2> DEFINE r == Rest(s)
             c == One(s)
             z == x[c]
             m == Cardinality(r)
             v == Spread(T, Q, r)
             d == Distance(T, Q, r, z)
  <2>1. /\ \A p \in s : p # c => p \in r
        /\ m \in Nat /\ Cardinality(s) = m + 1 /\ z \in Nat /\ T[r] \in Nat /\ Q[r] \in Nat
        /\ T[s] = T[r] + z /\ Q[s] = Q[r] + z * z
    BY SumsStep
  <2>2. v \in Nat /\ \A p, q \in r : Sq(p, q) <= v
    BY <1>2
  <2>3. d \in Nat /\ \A p \in r : Sq(p, c) <= d
    <3>1. r \in SUBSET D
      BY SumsStep
    <3>2. QED
      BY <2>1, <3>1, DistancesAdd
  <2>4. \A p, q \in s : Sq(p, q) \in Nat /\ Sq(p, q) = Sq(q, p) /\ Sq(p, p) = 0
    <3>1. ASSUME NEW a \in Nat, NEW b \in Nat
          PROVE  (a - b) * (a - b) \in Nat /\ (a - b) * (a - b) = (b - a) * (b - a) /\ (a - a) * (a - a) = 0
      OBVIOUS
    <3>2. \A p \in s : x[p] \in Nat
      BY DEF SumsOf
    <3>3. QED
      BY <3>1, <3>2
  <2>5. Spread(T, Q, s) = v + d
    <3>1. (m + 1) * (Q[r] + z * z) - (T[r] + z) * (T[r] + z)
            = (m * Q[r] - T[r] * T[r]) + (Q[r] - 2 * (T[r] * z) + m * (z * z))
      <4> DEFINE a == T[r]
                 b == Q[r]
      <4>1. m \in Int /\ z \in Int /\ a \in Int /\ b \in Int
        BY <2>1
      <4> HIDE DEF r, m, z, a, b
      <4>2. (m + 1) * (b + z * z) - (a + z) * (a + z) = (m * b - a * a) + (b - 2 * (a * z) + m * (z * z))
        BY <4>1
      <4>3. QED
        BY <4>2 DEF a, b
    <3>2. QED
      BY <2>1, <3>1 DEF Distance, Spread
  <2> HIDE DEF Sq, v, d, c, r, z, m
  <2>6. ASSUME NEW p \in s, NEW q \in s PROVE Sq(p, q) <= v + d
    <3>1. Sq(p, q) \in Nat /\ Sq(p, q) = Sq(q, p) /\ Sq(p, p) = 0
      BY <2>4, <2>6
    <3>2. CASE p = c /\ q = c
      BY <2>2, <2>3, <3>1, <3>2
    <3>3. CASE p # c /\ q # c
      BY <2>1, <2>2, <2>3, <2>6, <3>1, <3>3
    <3>4. CASE p # c /\ q = c
      BY <2>1, <2>2, <2>3, <2>6, <3>1, <3>4
    <3>5. CASE p = c /\ q # c
      <4>1. Sq(q, c) <= d
        BY <2>1, <2>3, <2>6, <3>5
      <4>2. QED
        BY <2>2, <2>3, <3>1, <3>5, <4>1
    <3>6. QED
      BY <3>2, <3>3, <3>4, <3>5
  <2>7. v + d \in Nat
    BY <2>2, <2>3
  <2>8. QED
    BY <2>5, <2>6, <2>7 DEF Sq
<1> HIDE DEF W
<1>3. SUBSET D \subseteq W
  BY <1>1, <1>2, RestInduction DEF SumsOf
<1>4. QED
  BY <1>3 DEF W

\* The square of the total covers the squares and the products.
Mixed(T, Q, s) == T[s] * T[s] - Q[s]

LEMMA MixedAdds ==
  ASSUME NEW D, NEW x, NEW T, NEW Q, SumsOf(D, x, T, Q)
  PROVE  \A s \in SUBSET D : /\ Mixed(T, Q, s) \in Nat /\ T[s] <= Q[s]
                             /\ \A p \in s : x[p] <= T[s]
                             /\ \A p, q \in s : p # q => 2 * (x[p] * x[q]) <= Mixed(T, Q, s)
<1> DEFINE W == {s \in SUBSET D : /\ Mixed(T, Q, s) \in Nat /\ T[s] <= Q[s]
                                  /\ \A p \in s : x[p] <= T[s]
                                  /\ \A p, q \in s : p # q => 2 * (x[p] * x[q]) <= Mixed(T, Q, s)}
<1>1. {} \in W
  <2>1. T[{}] = 0 /\ Q[{}] = 0
    BY DEF SumsOf, SumsOn
  <2>2. Mixed(T, Q, {}) = 0
    BY <2>1 DEF Mixed
  <2>3. QED
    BY <2>1, <2>2
<1>2. ASSUME NEW s \in (SUBSET D) \ {{}}, Rest(s) \in W PROVE s \in W
  <2> DEFINE r == Rest(s)
             c == One(s)
             z == x[c]
             w == Mixed(T, Q, r)
             t == T[r]
  <2>1. /\ \A p \in s : p # c => p \in r
        /\ z \in Nat /\ t \in Nat /\ Q[r] \in Nat
        /\ T[s] = t + z /\ Q[s] = Q[r] + z * z
    BY SumsStep
  <2>2. /\ w \in Nat /\ t <= Q[r] /\ \A p \in r : x[p] <= t
        /\ \A p, q \in r : p # q => 2 * (x[p] * x[q]) <= w
    BY <1>2
  <2>3. Mixed(T, Q, s) = w + 2 * (t * z)
    <3>1. ASSUME NEW q \in Int, NEW a \in Int, NEW y \in Int
          PROVE  (a + y) * (a + y) - (q + y * y) = (a * a - q) + 2 * (a * y)
      OBVIOUS
    <3>2. (t + z) * (t + z) - (Q[r] + z * z) = (t * t - Q[r]) + 2 * (t * z)
      BY <2>1, <3>1
    <3>3. QED
      BY <2>1, <3>2 DEF Mixed
  <2>4. (\A p \in s : x[p] \in Nat) /\ x[c] = z
    BY DEF SumsOf
  <2> HIDE DEF w, z, t, r, c
  <2>5. t * z \in Nat /\ z <= z * z
    BY <2>1
  <2>6. T[s] <= Q[s]
    BY <2>1, <2>2, <2>5
  <2>7. ASSUME NEW p \in s PROVE x[p] <= T[s]
    <3>1. CASE p = c
      BY <2>1, <2>4, <3>1
    <3>2. CASE p # c
      BY <2>1, <2>2, <2>4, <2>7, <3>2
    <3>3. QED
      BY <3>1, <3>2
  <2>8. ASSUME NEW p \in s, NEW q \in s, p # q PROVE 2 * (x[p] * x[q]) <= w + 2 * (t * z)
    <3>1. \A y \in Nat : y <= t => y * z <= t * z /\ y * z = z * y
      <4>1. ASSUME NEW y \in Nat, y <= t PROVE y * z <= t * z /\ y * z = z * y
        BY <2>1, <4>1
      <4>2. QED
        BY <4>1
    <3>2. x[p] \in Nat /\ x[q] \in Nat /\ (p # c => p \in r) /\ (q # c => q \in r)
      BY <2>1, <2>4, <2>8
    <3>3. CASE p # c /\ q # c
      <4> DEFINE b == x[p] * x[q]
      <4>1. b \in Int /\ 2 * b <= w
        BY <2>2, <2>8, <3>2, <3>3
      <4> HIDE DEF b
      <4>2. QED
        BY <2>2, <2>5, <4>1 DEF b
    <3>4. CASE q = c
      <4>1. p \in r /\ x[q] = z
        BY <2>4, <2>8, <3>2, <3>4
      <4>2. x[p] * x[q] <= t * z /\ x[p] * x[q] \in Int
        BY <2>2, <3>1, <3>2, <4>1
      <4>3. QED
        BY <2>2, <2>5, <4>2
    <3>5. CASE p = c
      <4>1. q \in r /\ x[p] = z
        BY <2>4, <2>8, <3>2, <3>5
      <4>2. x[p] * x[q] <= t * z /\ x[p] * x[q] \in Int
        BY <2>2, <3>1, <3>2, <4>1
      <4>3. QED
        BY <2>2, <2>5, <4>2
    <3>6. QED
      BY <3>3, <3>4, <3>5
  <2>9. Mixed(T, Q, s) \in Nat
    BY <2>2, <2>3, <2>5
  <2>10. QED
    BY <2>3, <2>6, <2>7, <2>8, <2>9
<1> HIDE DEF W
<1>3. SUBSET D \subseteq W
  BY <1>1, <1>2, RestInduction DEF SumsOf
<1>4. QED
  BY <1>3 DEF W

\* Numbers that are all the same have no spread.
LEMMA NoSpread ==
  ASSUME NEW D, NEW x, NEW T, NEW Q, SumsOf(D, x, T, Q), NEW e \in Nat, \A p \in D : x[p] = e
  PROVE  Spread(T, Q, D) = 0
<1> DEFINE W == {s \in SUBSET D : T[s] = Cardinality(s) * e /\ Q[s] = Cardinality(s) * (e * e)}
<1>1. {} \in W
  <2>1. T[{}] = 0 /\ Q[{}] = 0 /\ Cardinality({}) = 0
    BY FS_EmptySet DEF SumsOf, SumsOn
  <2>2. QED
    BY <2>1
<1>2. ASSUME NEW s \in (SUBSET D) \ {{}}, Rest(s) \in W PROVE s \in W
  <2> DEFINE m == Cardinality(Rest(s))
  <2>1. x[One(s)] = e
    BY SumsStep
  <2>2. m \in Nat /\ Cardinality(s) = m + 1 /\ T[s] = m * e + e /\ Q[s] = m * (e * e) + e * e
    BY <1>2, <2>1, SumsStep
  <2> HIDE DEF m
  <2>3. m * e + e = (m + 1) * e /\ m * (e * e) + e * e = (m + 1) * (e * e)
    BY <2>2
  <2>4. QED
    BY <2>2, <2>3
<1> HIDE DEF W
<1>3. SUBSET D \subseteq W /\ Cardinality(D) \in Nat
  BY <1>1, <1>2, RestInduction, FS_CardinalityType DEF SumsOf
<1>4. T[D] = Cardinality(D) * e /\ Q[D] = Cardinality(D) * (e * e)
  BY <1>3 DEF W
<1>5. \A n \in Nat : n * (n * (e * e)) = (n * e) * (n * e)
  OBVIOUS
<1>6. QED
  BY <1>3, <1>4, <1>5 DEF Spread

\* One number and zeros have no products.
LEMMA NothingMixed ==
  ASSUME NEW D, NEW x, NEW T, NEW Q, SumsOf(D, x, T, Q), NEW b \in D, \A p \in D : p # b => x[p] = 0
  PROVE  Mixed(T, Q, D) = 0
<1> DEFINE W == {s \in SUBSET D : Mixed(T, Q, s) = 0 /\ (b \notin s => T[s] = 0)}
<1>1. {} \in W
  <2>1. T[{}] = 0 /\ Q[{}] = 0
    BY DEF SumsOf, SumsOn
  <2>2. QED
    BY <2>1 DEF Mixed
<1>2. ASSUME NEW s \in (SUBSET D) \ {{}}, Rest(s) \in W PROVE s \in W
  <2> DEFINE r == Rest(s)
             z == x[One(s)]
             t == T[r]
  <2>1. /\ z \in Nat /\ t \in Nat /\ Q[r] \in Nat /\ One(s) \in s /\ One(s) \in D
        /\ T[s] = t + z /\ Q[s] = Q[r] + z * z
    BY SumsStep
  <2>2. t * t - Q[r] = 0 /\ (b \notin r => t = 0)
    BY <1>2 DEF Mixed
  <2>3. z = 0 \/ (One(s) = b /\ b \notin r)
    BY <2>1 DEF Rest
  <2>4. b \notin s => z = 0 /\ b \notin r
    BY <2>1 DEF Rest
  <2> HIDE DEF z, t, r
  <2>5. t = 0 \/ z = 0
    BY <2>2, <2>3
  <2>6. Mixed(T, Q, s) = 0
    <3>1. CASE t = 0
      BY <2>1, <2>2, <3>1 DEF Mixed
    <3>2. CASE z = 0
      BY <2>1, <2>2, <3>2 DEF Mixed
    <3>3. QED
      BY <2>5, <3>1, <3>2
  <2>7. b \notin s => T[s] = 0
    BY <2>1, <2>2, <2>4
  <2>8. QED
    BY <2>6, <2>7
<1> HIDE DEF W
<1>3. SUBSET D \subseteq W
  BY <1>1, <1>2, RestInduction DEF SumsOf
<1>4. QED
  BY <1>3 DEF W

\* The share of a part in a whole, in hundredths of a percent, and what it says.
IsShare(shown, v, d) ==
  /\ shown \in 0..10000
  /\ v = 0 => shown = 0
  /\ v = d => shown = 10000
  /\ shown = 0 => 20000 * v < d
  /\ shown = 10000 => 20000 * (d - v) <= d

LEMMA Shares ==
  ASSUME NEW v \in Nat, NEW d \in Nat, d > 0, v <= d
  PROVE  IsShare(Rounded(10000 * v, d), v, d)
<1> DEFINE a == 20000 * v + d
           b == 2 * d
           shown == Rounded(10000 * v, d)
<1>1. shown = a \div b
  BY DEF Rounded
<1>2. a \in Nat /\ b \in Nat /\ b > 0 /\ a < 10001 * b
  OBVIOUS
<1>3. (v = 0 => a < b) /\ (v = d => a >= 10000 * b) /\ (a < b => 20000 * v < d) /\ (a >= 10000 * b => 20000 * (d - v) <= d)
  OBVIOUS
<1> HIDE DEF a, b, shown
<1>4. a \div b >= 0 /\ a \div b \in Int
  BY <1>2
<1>5. a \div b <= 10000
  BY <1>2
<1>6. a < b => a \div b = 0
  BY <1>2
<1>7. a \div b = 0 => a < b
  BY <1>2
<1>8. a >= 10000 * b => a \div b = 10000
  BY <1>2
<1>9. a \div b = 10000 => a >= 10000 * b
  BY <1>2
<1>10. shown \in 0..10000
  <2>1. shown \in Int /\ shown >= 0
    BY <1>1, <1>4
  <2>2. shown <= 10000
    BY <1>1, <1>5
  <2>3. QED
    BY <2>1, <2>2
<1>11. (v = 0 => shown = 0) /\ (v = d => shown = 10000)
  BY <1>1, <1>3, <1>6, <1>8
<1>12. (shown = 0 => 20000 * v < d) /\ (shown = 10000 => 20000 * (d - v) <= d)
  <2> DEFINE low == 20000 * v < d
             high == 20000 * (d - v) <= d
  <2>1. (a < b => low) /\ (a >= 10000 * b => high)
    BY <1>3
  <2> HIDE DEF low, high
  <2>2. (shown = 0 => low) /\ (shown = 10000 => high)
    BY <1>1, <1>7, <1>9, <2>1
  <2>3. QED
    BY <2>2 DEF low, high
<1>13. IsShare(shown, v, d)
  BY <1>10, <1>11, <1>12 DEF IsShare
<1>14. QED
  BY <1>13 DEF shown

\* What a skew says of how evenly the numbers are spread.
TellsBalance(D, x, skew, lost) ==
  /\ skew \in 0..10000
  /\ (\A p, q \in D : x[p] = x[q]) => skew = 0
  /\ Cardinality({p \in D : x[p] > 0}) = 1 => skew = 10000
  /\ skew = 0 => \A p, q \in D : 20000 * ((x[p] - x[q]) * (x[p] - x[q])) <= lost
  /\ skew = 10000 => \A p, q \in D : p # q => 40000 * (x[p] * x[q]) <= lost

\* The skew of several numbers says so when not all of them are 0.
LEMMA SharesOfSums ==
  ASSUME NEW D, NEW x, NEW T, NEW Q, SumsOf(D, x, T, Q), Cardinality(D) > 1, T[D] # 0
  PROVE  TellsBalance(D, x,
                      Rounded(10000 * (Cardinality(D) * Q[D] - T[D] * T[D]), Q[D] * (Cardinality(D) - 1)),
                      (Cardinality(D) - 1) * (T[D] * T[D]))
<1> DEFINE n == Cardinality(D)
           t == T[D]
           q2 == Q[D]
           v == n * q2 - t * t
           w == t * t - q2
           d == q2 * (n - 1)
           lost == (n - 1) * (t * t)
           skew == Rounded(10000 * v, d)
<1>1. n \in Nat /\ n > 1 /\ t \in Nat /\ t > 0 /\ q2 \in Nat
  BY FS_CardinalityType DEF SumsOf
<1>2. D \in SUBSET D /\ (\A p \in D : x[p] \in Nat) /\ IsFiniteSet(D)
  BY DEF SumsOf
<1>3. v \in Nat /\ \A p, q \in D : (x[p] - x[q]) * (x[p] - x[q]) <= v
  BY <1>2, SpreadAdds DEF Spread
<1>4. w \in Nat /\ t <= q2 /\ \A p, q \in D : p # q => 2 * (x[p] * x[q]) <= w
  BY <1>2, MixedAdds DEF Mixed
<1>5. d \in Nat /\ d > 0 /\ v + w = d /\ d <= lost /\ lost \in Nat
  <2>1. ASSUME NEW a \in Nat, a > 1, NEW b \in Nat, NEW c \in Nat, b > 0, b * b - c \in Nat, b <= c
        PROVE  /\ c * (a - 1) \in Nat /\ c * (a - 1) > 0
               /\ (a * c - b * b) + (b * b - c) = c * (a - 1)
               /\ c * (a - 1) <= (a - 1) * (b * b) /\ (a - 1) * (b * b) \in Nat
    <3>1. c > 0 /\ c <= b * b /\ a - 1 \in Nat /\ a - 1 > 0 /\ b * b \in Nat
      BY <2>1
    <3>2. \A i, j, k \in Nat : i <= j => i * k <= k * j
      OBVIOUS
    <3>3. c * (a - 1) <= (a - 1) * (b * b)
      BY <3>1, <3>2
    <3>4. QED
      BY <2>1, <3>1, <3>3
  <2> HIDE DEF n, t, q2
  <2>2. QED
    BY <1>1, <1>4, <2>1
<1>6. (\A p, q \in D : x[p] = x[q]) => v = 0
  <2>1. SUFFICES ASSUME \A p, q \in D : x[p] = x[q] PROVE v = 0
    OBVIOUS
  <2>2. PICK e \in D : TRUE
    BY <1>1, <1>2, FS_EmptySet
  <2>3. x[e] \in Nat /\ \A p \in D : x[p] = x[e]
    BY <1>2, <2>1
  <2>4. Spread(T, Q, D) = 0
    BY <2>3, NoSpread
  <2>5. QED
    BY <2>4 DEF Spread
<1>7. Cardinality({p \in D : x[p] > 0}) = 1 => w = 0
  <2>1. SUFFICES ASSUME Cardinality({p \in D : x[p] > 0}) = 1 PROVE w = 0
    OBVIOUS
  <2>2. IsFiniteSet({p \in D : x[p] > 0})
    BY <1>2, FS_Subset
  <2>3. PICK b : {p \in D : x[p] > 0} = {b}
    BY <2>1, <2>2, FS_Singleton
  <2>4. b \in D /\ \A p \in D : p # b => x[p] = 0
    BY <1>2, <2>3
  <2>5. Mixed(T, Q, D) = 0
    BY <2>4, NothingMixed
  <2>6. QED
    BY <2>5 DEF Mixed
<1> HIDE DEF n, t, q2, v, w, d, lost
<1>8. v <= d /\ d - v = w
  BY <1>3, <1>4, <1>5
<1>9. /\ skew \in 0..10000
      /\ v = 0 => skew = 0
      /\ v = d => skew = 10000
      /\ skew = 0 => 20000 * v < d
      /\ skew = 10000 => 20000 * w <= d
  <2>1. v \in Nat /\ d \in Nat /\ d > 0 /\ v <= d
    BY <1>3, <1>5, <1>8
  <2>2. IsShare(skew, v, d)
    BY <2>1, Shares
  <2> HIDE DEF skew
  <2>3. QED
    BY <1>8, <2>2 DEF IsShare
<1> HIDE DEF skew
<1>10. (\A p, q \in D : x[p] = x[q]) => skew = 0
  BY <1>6, <1>9
<1>11. Cardinality({p \in D : x[p] > 0}) = 1 => skew = 10000
  BY <1>5, <1>3, <1>7, <1>9
<1>12. ASSUME skew = 0, NEW p \in D, NEW q \in D PROVE 20000 * ((x[p] - x[q]) * (x[p] - x[q])) <= lost
  <2> DEFINE y == (x[p] - x[q]) * (x[p] - x[q])
  <2>1. y \in Int /\ y <= v
    BY <1>2, <1>3, <1>12
  <2> HIDE DEF y
  <2>2. 20000 * y <= lost
    BY <1>3, <1>5, <1>9, <1>12, <2>1
  <2>3. QED
    BY <2>2 DEF y
<1>13. ASSUME skew = 10000, NEW p \in D, NEW q \in D, p # q PROVE 40000 * (x[p] * x[q]) <= lost
  <2> DEFINE y == x[p] * x[q]
  <2>1. y \in Int /\ 2 * y <= w
    BY <1>2, <1>4, <1>13
  <2> HIDE DEF y
  <2>2. 40000 * y <= lost
    BY <1>4, <1>5, <1>9, <1>13, <2>1
  <2>3. QED
    BY <2>2 DEF y
<1>14. TellsBalance(D, x, skew, lost)
  BY <1>9, <1>10, <1>11, <1>12, <1>13 DEF TellsBalance
<1>15. QED
  BY <1>14 DEF n, t, q2, v, d, lost, skew

\* The rows of a partition are a number.
LEMMA RowsAreNumbers ==
  ASSUME NEW metrics \in Seq(AnyMetric)
  PROVE  IsFiniteSet(DOMAIN RowsOf(metrics)) /\ RowsOf(metrics) \in [DOMAIN RowsOf(metrics) -> Nat]
<1> DEFINE counts == {i \in DOMAIN metrics : metrics[i].value.kind = "OutputRows" /\ metrics[i].partition # None}
           number == [i \in DOMAIN metrics |-> metrics[i].value.cells[1]]
           D == {metrics[i].partition : i \in counts}
           Part(p) == {i \in counts : metrics[i].partition = p}
<1>1. RowsOf(metrics) = [p \in D |-> SumFunctionOnSet(number, Part(p))]
  BY DEF RowsOf
<1>2. IsFiniteSet(counts)
  <2>1. IsFiniteSet(1..Len(metrics)) /\ counts \in SUBSET (1..Len(metrics))
    BY FS_Interval
  <2>2. QED
    BY <2>1, FS_Subset
<1>3. ASSUME NEW i \in counts PROVE number[i] \in Nat
  <2>1. i \in DOMAIN metrics /\ metrics[i].value.kind = "OutputRows"
    BY <1>3
  <2>2. metrics[i] \in AnyMetric
    BY <2>1
  <2>3. metrics[i].value \in Values
    BY <2>2 DEF AnyMetric
  <2>4. "OutputRows" \in Outputs
    BY DEF Outputs
  <2>5. metrics[i].value \in OfKind("OutputRows")
    BY <2>1, <2>3 DEF OfKind
  <2>6. metrics[i].value.cells[1] \in Nat
    BY <2>4, <2>5, CounterValue
  <2>7. QED
    BY <2>1, <2>6
<1>4. IsFiniteSet(D)
  <2> DEFINE f == [i \in counts |-> metrics[i].partition]
  <2>1. f \in Surjection(counts, D)
    BY DEF Surjection
  <2> HIDE DEF f, counts, D
  <2>2. QED
    BY <1>2, <2>1, FS_Surjection
<1>5. ASSUME NEW p \in D PROVE SumFunctionOnSet(number, Part(p)) \in Nat
  <2>1. IsFiniteSet(Part(p)) /\ \A i \in Part(p) : i \in counts
    BY <1>2, FS_Subset
  <2>2. \A i \in Part(p) : number[i] \in Nat
    BY <1>3, <2>1
  <2> DEFINE P == Part(p)
  <2>3. P \in SUBSET P
    OBVIOUS
  <2> HIDE DEF number, counts, P
  <2>4. IsFiniteSet(P) /\ \A i \in P : number[i] \in Nat
    BY <2>1, <2>2 DEF P
  <2>5. PICK g \in [SUBSET P -> Nat] : SumFunctionOnSet(number, P) = g[P]
    BY <2>4, SumIsOfSums
  <2>6. QED
    BY <2>3, <2>5 DEF P
<1> HIDE DEF D, Part, number
<1>6. QED
  BY <1>1, <1>4, <1>5

(***************************************************************************)
(* The skew that EXPLAIN ANALYZE shows is a percentage, whatever the rows: *)
(* 0 for partitions with as many rows each and 100 where one has them all, *)
(* and close to that only for rows that are close to that.                 *)
(***************************************************************************)
THEOREM SkewIsBalance == Spec => []SkewMeasuresBalance
<1>1. RInv => SkewMeasuresBalance
  <2> SUFFICES ASSUME RInv PROVE SkewMeasuresBalance
    OBVIOUS
  <2> DEFINE x == RowsOf(Shown)
             D == DOMAIN x
             n == Cardinality(D)
             t == SumFunction(x)
             q2 == SumFunction(SquaresOf(x))
             lost == (n - 1) * (t * t)
             skew == Skew(Shown)
  <2>1. Shown \in Seq(AnyMetric)
    BY DEF RInv, ReaderInv, Shown
  <2>2. IsFiniteSet(D) /\ x \in [D -> Nat] /\ n \in Nat
    BY <2>1, RowsAreNumbers, FS_CardinalityType
  <2>3. skew = CASE n = 0          -> None
                 [] n = 1          -> 0
                 [] n > 1 /\ t = 0 -> None
                 [] OTHER          -> Rounded(10000 * (n * q2 - t * t), q2 * (n - 1))
    BY DEF Skew
  <2>4. SUFFICES ASSUME skew # None
                 PROVE  /\ skew \in 0..10000
                        /\ (\A p, q \in D : x[p] = x[q]) => skew = 0
                        /\ (n > 1 /\ Cardinality({p \in D : x[p] > 0}) = 1) => skew = 10000
                        /\ skew = 0 => \A p, q \in D : 20000 * ((x[p] - x[q]) * (x[p] - x[q])) <= lost
                        /\ skew = 10000 => /\ n > 1
                                           /\ \A p, q \in D : p # q => 40000 * (x[p] * x[q]) <= lost
    BY DEF SkewMeasuresBalance
  <2> HIDE DEF skew, x
  <2>5. CASE n = 1
    <3>1. skew = 0
      BY <2>3, <2>5
    <3>2. PICK e : D = {e}
      BY <2>2, <2>5, FS_Singleton
    <3>3. x[e] \in Nat
      BY <2>2, <3>2
    <3>4. \A p, q \in D : 20000 * ((x[p] - x[q]) * (x[p] - x[q])) = 0
      BY <3>2, <3>3
    <3>5. lost = 0
      <4>1. PICK g \in [SUBSET D -> Nat] : SumFunctionOnSet(x, D) = g[D]
        BY <2>2, SumIsOfSums
      <4>2. t \in Nat
        BY <4>1 DEF SumFunction
      <4> HIDE DEF t, n
      <4>3. QED
        BY <2>5, <4>2
    <3> HIDE DEF lost, n, D
    <3>6. QED
      BY <2>5, <3>1, <3>4, <3>5
  <2>6. CASE n # 1
    <3>1. n > 1 /\ t # 0 /\ skew = Rounded(10000 * (n * q2 - t * t), q2 * (n - 1))
      <4> HIDE DEF n, t, q2
      <4>1. QED
        BY <2>2, <2>3, <2>4, <2>6
    <3>2. PICK T \in [SUBSET D -> Nat] : SumsOn(T, D, x) /\ SumFunctionOnSet(x, D) = T[D]
      BY <2>2, SumIsOfSums
    <3>3. \A p \in D : SquaresOf(x)[p] \in Nat
      BY <2>2 DEF SquaresOf
    <3>4. PICK Q \in [SUBSET D -> Nat] : SumsOn(Q, D, SquaresOf(x)) /\ SumFunctionOnSet(SquaresOf(x), D) = Q[D]
      BY <2>2, <3>3, SumIsOfSums
    <3>5. SumsOf(D, x, T, Q)
      BY <2>2, <3>2, <3>4 DEF SumsOf
    <3>6. t = T[D] /\ q2 = Q[D]
      BY <3>2, <3>4 DEF SumFunction, SquaresOf
    <3>7. n = Cardinality(D)
      OBVIOUS
    <3> DEFINE allLost == (Cardinality(D) - 1) * (T[D] * T[D])
               share == Rounded(10000 * (Cardinality(D) * Q[D] - T[D] * T[D]), Q[D] * (Cardinality(D) - 1))
    <3> HIDE DEF D, t, q2, n
    <3>8. Cardinality(D) > 1 /\ T[D] # 0
      BY <3>1, <3>6, <3>7
    <3>9. TellsBalance(D, x, share, allLost)
      BY <3>5, <3>8, SharesOfSums
    <3>10. skew = share /\ lost = allLost
      BY <3>1, <3>6, <3>7
    <3> HIDE DEF share, allLost, lost
    <3>11. TellsBalance(D, x, skew, lost)
      BY <3>9, <3>10
    <3>12. n > 1
      BY <3>1
    <3>13. QED
      BY <3>11, <3>12 DEF TellsBalance
  <2>7. QED
    BY <2>5, <2>6
<1>2. QED
  BY <1>1, RInit, RStep, PTL DEF Spec
=============================================================================
