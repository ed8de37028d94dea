------------------------- MODULE PlanDisplayProofs -------------------------
(***************************************************************************)
(* Proofs about PlanDisplay: the indented text and the graph are the plan, *)
(* for plans of any size and shape.                                        *)
(*                                                                         *)
(* The walk has always written the first operators of the plan, and the    *)
(* stack is the path from the root to the one it stands at: what is        *)
(* written after an operator of the path lies below it, and the next       *)
(* operator to be written is the child of one of them.                     *)
(***************************************************************************)
EXTENDS PlanDisplay, SequenceTheorems, TLAPS

Textual == request.form \in {"indent", "graphviz"}

\* What is written behind the label of an operator.
Behind == Seq({"metrics", "statistics", "schema"})

Lines ==
  IF request.form = "graphviz"
  THEN [id : Nat, node : Nat, edge : Nat \cup {NoNode}, suffixes : Behind]
  ELSE [indent : Nat, node : Nat, suffixes : Behind]

Visitors == [layer : {"start"}, y : {0}, indent : Nat, next : Nat, parents : Seq(Nat)]

DepthsOK ==
  /\ Len(plan) \in Nat \ {0}
  /\ Nodes = 1..Len(plan)
  /\ \A i \in Nodes : plan[i].depth \in Nat
  /\ plan[1].depth = 0
  /\ \A i \in 2..Len(plan) : plan[i].depth \in 1..(plan[i - 1].depth + 1)

TextTypes ==
  /\ out \in Seq(Lines)
  /\ stack \in Seq(Nat)
  /\ visitor \in Visitors

\* What has been written is the beginning of the plan.
PrefixInv ==
  /\ Len(out) <= Len(plan)
  /\ \A k \in 1..Len(out) : out[k].node = k

\* The stack is the path of the walk, and holds the parent of what comes next.
PathInv ==
  /\ \A k \in 1..Len(stack) :
       /\ stack[k] \in 1..Len(out)
       /\ plan[stack[k]].depth = k - 1
       /\ \A i \in (stack[k] + 1)..Len(out) : plan[i].depth >= k
  /\ (0 < Len(out) /\ Len(out) < Len(plan)) => plan[Len(out) + 1].depth \in 1..Len(stack)

\* The indentation is the depth.
IndentInv ==
  request.form = "indent" =>
    /\ visitor.indent = Len(stack)
    /\ \A k \in 1..Len(out) : out[k].indent = plan[k].depth

\* The operator at j of a plan is a child of the one at i.
ChildOf(t, i, j) ==
  /\ i < j
  /\ t[j].depth = t[i].depth + 1
  /\ \A k \in (i + 1)..(j - 1) : t[k].depth > t[i].depth

\* Ids count the operators, and an edge leads to the parent.
GraphInv ==
  request.form = "graphviz" =>
    /\ visitor.next = Len(out)
    /\ Len(visitor.parents) = Len(stack)
    /\ \A k \in 1..Len(stack) : visitor.parents[k] = stack[k] - 1
    /\ \A k \in 1..Len(out) :
         /\ out[k].id = k - 1
         /\ k = 1 => out[k].edge = NoNode
         /\ k > 1 => out[k].edge \in 0..(k - 2) /\ ChildOf(plan, out[k].edge + 1, k)

TextInv ==
  Textual => TextTypes /\ PrefixInv /\ PathInv /\ IndentInv /\ GraphInv

\* The walk and the drawing do not meet.
FormsInv ==
  /\ request.form # "tree" => visitor \in Visitors
  /\ ~Textual => stack = <<>>

DInv == plan \in Trees /\ FormsInv /\ TextInv
-----------------------------------------------------------------------------
(***************************************************************************)
(* The plan.                                                               *)
(***************************************************************************)

\* Depths are numbers, by induction over the operators.
LEMMA DepthsAreOK == plan \in Trees => DepthsOK
<1> SUFFICES ASSUME plan \in Trees PROVE DepthsOK
    OBVIOUS
<1>1. /\ Len(plan) \in Nat \ {0}
      /\ DOMAIN plan = 1..Len(plan)
      /\ plan[1].depth = 0
      /\ \A i \in 2..Len(plan) : plan[i].depth \in 1..(plan[i - 1].depth + 1)
    BY TreesAssumption
<1>2. \A i \in 1..Len(plan) : plan[i].depth \in Nat
  <2>1. TAKE i \in 1..Len(plan)
  <2>2. CASE i = 1
        BY <1>1, <2>2
  <2>3. CASE i # 1
        BY <1>1, <2>1, <2>3
  <2> QED
      BY <2>2, <2>3
<1> QED
    BY <1>1, <1>2 DEF DepthsOK, Nodes

\* What lies below an operator, and that it is a child, in terms of depths.
LEMMA ParentMeaning ==
  ASSUME NEW i \in Nodes, NEW j \in Nodes, DepthsOK
  PROVE  IsParent(i, j) <=> ChildOf(plan, i, j)
<1>1. i \in Nat /\ j \in Nat /\ plan[i].depth \in Nat /\ plan[j].depth \in Nat
    BY DEF DepthsOK
<1>2. IsParent(i, j) <=>
        /\ i < j
        /\ plan[j].depth = plan[i].depth + 1
        /\ \A k \in (i + 1)..j : plan[k].depth > plan[i].depth
    BY <1>1 DEF IsParent, Children, Below
<1>3. ASSUME i < j, plan[j].depth = plan[i].depth + 1,
             \A k \in (i + 1)..(j - 1) : plan[k].depth > plan[i].depth,
             NEW k \in (i + 1)..j
      PROVE  plan[k].depth > plan[i].depth
  <2>1. CASE k = j
        BY <1>1, <1>3, <2>1
  <2>2. CASE k # j
        BY <1>1, <1>3, <2>2
  <2> QED
      BY <2>1, <2>2
<1>4. ASSUME \A k \in (i + 1)..j : plan[k].depth > plan[i].depth,
             NEW k \in (i + 1)..(j - 1)
      PROVE  plan[k].depth > plan[i].depth
    BY <1>1, <1>4
<1> QED
    BY <1>2, <1>3, <1>4 DEF ChildOf

\* An operator has at most one parent.
LEMMA OneParent ==
  ASSUME NEW p \in Nodes, NEW q \in Nodes, NEW j \in Nodes, DepthsOK,
         IsParent(p, j), IsParent(q, j)
  PROVE  p = q
<1>1. \A x, y \in Nodes : IsParent(x, j) /\ IsParent(y, j) => ~(x < y)
  <2>1. SUFFICES ASSUME NEW x \in Nodes, NEW y \in Nodes, IsParent(x, j), IsParent(y, j), x < y
                 PROVE  FALSE
        OBVIOUS
  <2>2. /\ x < j /\ plan[j].depth = plan[x].depth + 1
        /\ \A k \in (x + 1)..(j - 1) : plan[k].depth > plan[x].depth
        BY <2>1, ParentMeaning DEF ChildOf
  <2>3. y < j /\ plan[j].depth = plan[y].depth + 1
        BY <2>1, ParentMeaning DEF ChildOf
  <2>4. y \in (x + 1)..(j - 1)
        BY <2>1, <2>3 DEF DepthsOK
  <2>5. plan[x].depth \in Nat /\ plan[y].depth \in Nat
        BY <2>1 DEF DepthsOK
  <2> QED
      BY <2>2, <2>3, <2>4, <2>5
<1> QED
    BY <1>1 DEF DepthsOK

\* The suffixes of a line are known ones.
LEMMA TrailingType == Trailing \in Behind
<1> DEFINE T == {"metrics", "statistics", "schema"}
           a == IF request.options.metrics # "none" THEN <<"metrics">> ELSE <<>>
           b == IF request.options.statistics THEN <<"statistics">> ELSE <<>>
           c == IF request.options.schema /\ request.form # "graphviz" THEN <<"schema">> ELSE <<>>
<1>1. /\ <<"metrics">> \in Seq(T) /\ <<"statistics">> \in Seq(T) /\ <<"schema">> \in Seq(T)
      /\ <<>> \in Seq(T)
    OBVIOUS
<1>2. a \in Seq(T) /\ b \in Seq(T) /\ c \in Seq(T)
    BY <1>1
<1>3. Trailing = a \o b \o c
    BY DEF Trailing
<1> HIDE DEF a, b, c
<1>4. a \o b \o c \in Seq(T)
    BY <1>2
<1> QED
    BY <1>3, <1>4 DEF Behind
-----------------------------------------------------------------------------
(***************************************************************************)
(* The next operator.                                                      *)
(***************************************************************************)

\* The children of the top of the stack that are still to come are those
\* behind what has been written.
LEMMA UnvisitedAre ==
  ASSUME DepthsOK, TextTypes, PrefixInv, PathInv, stack # <<>>
  PROVE  /\ Last(stack) = stack[Len(stack)]
         /\ Len(stack) \in Nat \ {0}
         /\ Last(stack) \in 1..Len(out)
         /\ Last(stack) \in Nodes
         /\ Len(out) \in Nat \ {0}
         /\ Unvisited(Last(stack)) = {c \in Children(Last(stack)) : c > Len(out)}
<1>1. /\ Last(stack) = stack[Len(stack)]
      /\ Len(stack) \in Nat \ {0}
    BY DEF TextTypes, Last
<1>2. Len(out) \in Nat /\ DOMAIN out = 1..Len(out)
    BY DEF TextTypes
<1>3. Last(stack) \in 1..Len(out)
    BY <1>1 DEF PathInv
<1>4. Last(stack) \in Nodes /\ Len(out) # 0
    BY <1>2, <1>3 DEF DepthsOK, PrefixInv
<1>5. ASSUME NEW c \in Children(Last(stack))
      PROVE  (\A k \in DOMAIN out : out[k].node # c) <=> c > Len(out)
  <2>1. c \in Nat /\ c > 0
        BY <1>5 DEF Children, Below, DepthsOK
  <2>2. \A k \in DOMAIN out : out[k].node = k
        BY <1>2 DEF PrefixInv
  <2>3. ASSUME \A k \in DOMAIN out : out[k].node # c PROVE c > Len(out)
    <3>1. c \notin 1..Len(out)
          BY <2>2, <2>3, <1>2
    <3> QED
        BY <3>1, <2>1, <1>2
  <2>4. ASSUME c > Len(out), NEW k \in DOMAIN out PROVE out[k].node # c
        BY <2>2, <2>4, <1>2, <2>1
  <2> QED
      BY <2>3, <2>4
<1>6. Unvisited(Last(stack)) = {c \in Children(Last(stack)) : c > Len(out)}
    BY <1>5 DEF Unvisited
<1> QED
    BY <1>1, <1>2, <1>3, <1>4, <1>6

\* A child that is still to come is the very next operator; and the next
\* operator is one, unless it is less deep than the top of the stack.
LEMMA NextIsChild ==
  ASSUME DepthsOK, TextTypes, PrefixInv, PathInv, stack # <<>>,
         Len(out) < Len(plan)
  PROVE  IsParent(Last(stack), Len(out) + 1) <=> plan[Len(out) + 1].depth = Len(stack)
<1> DEFINE top == Last(stack)
           m   == Len(out)
<1>1. /\ top = stack[Len(stack)] /\ Len(stack) \in Nat \ {0} /\ top \in 1..m /\ top \in Nodes
      /\ m \in Nat \ {0}
    BY UnvisitedAre
<1>2. plan[top].depth = Len(stack) - 1
    BY <1>1 DEF PathInv
<1>3. \A k \in (top + 1)..m : plan[k].depth > plan[top].depth
  <2>1. \A k \in (top + 1)..m : plan[k].depth >= Len(stack)
        BY <1>1 DEF PathInv
  <2>2. \A k \in (top + 1)..m : plan[k].depth \in Nat
        BY <1>1 DEF DepthsOK, PrefixInv
  <2> QED
      BY <2>1, <2>2, <1>1, <1>2
<1>4. m + 1 \in Nodes /\ top < m + 1 /\ plan[m + 1].depth \in Nat
    BY <1>1 DEF DepthsOK
<1>5. (m + 1) - 1 = m
    BY <1>1
<1> HIDE DEF top, m
<1>6. IsParent(top, m + 1) <=> plan[m + 1].depth = plan[top].depth + 1
    BY <1>1, <1>3, <1>4, <1>5, ParentMeaning DEF ChildOf
<1> QED
    BY <1>1, <1>2, <1>4, <1>6 DEF top, m

LEMMA ChildIsNext ==
  ASSUME DepthsOK, TextTypes, PrefixInv, PathInv, stack # <<>>,
         Unvisited(Last(stack)) # {}
  PROVE  /\ Min(Unvisited(Last(stack))) = Len(out) + 1
         /\ Len(out) < Len(plan)
         /\ plan[Len(out) + 1].depth = Len(stack)
         /\ IsParent(Last(stack), Len(out) + 1)
<1> DEFINE top == Last(stack)
           m   == Len(out)
<1>1. /\ top = stack[Len(stack)] /\ Len(stack) \in Nat \ {0} /\ top \in 1..m /\ top \in Nodes
      /\ m \in Nat \ {0}
      /\ Unvisited(top) = {c \in Children(top) : c > m}
    BY UnvisitedAre
<1>2. PICK c \in Children(top) : c > m
    BY <1>1
<1>3. c \in Nodes /\ IsParent(top, c)
    BY <1>2 DEF IsParent, Children, Below
<1>4. c \in 1..Len(plan) /\ Len(plan) \in Nat
    BY <1>3 DEF DepthsOK
<1>5. m < Len(plan) /\ m + 1 \in Nodes /\ m + 1 \in (top + 1)..c
    BY <1>1, <1>2, <1>4 DEF DepthsOK
<1>6. plan[m + 1].depth > plan[top].depth
    BY <1>3, <1>5 DEF IsParent, Children, Below
<1>7. plan[top].depth = Len(stack) - 1
    BY <1>1 DEF PathInv
<1>8. plan[m + 1].depth \in 1..Len(stack)
    BY <1>1, <1>5 DEF PathInv
<1>9. plan[m + 1].depth = Len(stack)
    BY <1>1, <1>6, <1>7, <1>8
<1>10. IsParent(top, m + 1)
    BY <1>5, <1>9, NextIsChild
<1>11. m + 1 \in Unvisited(top) /\ \A d \in Unvisited(top) : m + 1 <= d
  <2>1. m + 1 \in Unvisited(top)
        BY <1>1, <1>10 DEF IsParent
  <2>2. \A d \in Unvisited(top) : d \in Nat
        BY <1>1 DEF Children, Below, DepthsOK
  <2> QED
      BY <1>1, <2>1, <2>2
<1>12. \A d \in Unvisited(top) : d \in Nat
    BY <1>1 DEF Children, Below, DepthsOK
<1> HIDE DEF top, m
<1>13. Min(Unvisited(top)) = m + 1
  <2> DEFINE U == Unvisited(top)
  <2>1. m + 1 \in U /\ (\A d \in U : m + 1 <= d) /\ (\A d \in U : d \in Nat)
        BY <1>11, <1>12
  <2> HIDE DEF U
  <2>2. Min(U) \in U /\ \A d \in U : Min(U) <= d
        BY <2>1 DEF Min
  <2> QED
      BY <2>1, <2>2 DEF U
<1> QED
    BY <1>5, <1>9, <1>10, <1>13 DEF top, m

\* When the top of the stack has no child left, what comes next is less deep.
LEMMA NothingLeft ==
  ASSUME DepthsOK, TextTypes, PrefixInv, PathInv, stack # <<>>,
         Unvisited(Last(stack)) = {}, Len(out) < Len(plan)
  PROVE  plan[Len(out) + 1].depth \in 1..(Len(stack) - 1)
<1>1. /\ Len(stack) \in Nat \ {0} /\ Len(out) \in Nat \ {0}
      /\ Unvisited(Last(stack)) = {c \in Children(Last(stack)) : c > Len(out)}
    BY UnvisitedAre
<1>2. ~IsParent(Last(stack), Len(out) + 1)
    BY <1>1 DEF IsParent
<1>3. plan[Len(out) + 1].depth # Len(stack)
    BY <1>2, NextIsChild
<1>4. plan[Len(out) + 1].depth \in 1..Len(stack)
    BY <1>1 DEF PathInv
<1> QED
    BY <1>1, <1>3, <1>4
-----------------------------------------------------------------------------
(***************************************************************************)
(* The steps of the walk.                                                  *)
(***************************************************************************)

\* What the visits make of the visitor.
LEMMA VisitorSteps ==
  ASSUME NEW v \in Visitors
  PROVE  /\ LET w == [v EXCEPT !.indent = @ + 1]
            IN  w \in Visitors /\ w.indent = v.indent + 1
         /\ LET w == [v EXCEPT !.next = @ + 1, !.parents = Append(@, v.next)]
            IN  w \in Visitors /\ w.next = v.next + 1 /\ w.parents = Append(v.parents, v.next)
         /\ v.indent > 0 =>
              LET w == [v EXCEPT !.indent = @ - 1]
              IN  w \in Visitors /\ w.indent = v.indent - 1
         /\ v.parents # <<>> =>
              LET w == [v EXCEPT !.parents = Front(@)]
              IN  w \in Visitors /\ w.next = v.next /\ w.parents = Front(v.parents)
<1> DEFINE P == Seq(Nat)
<1>1. /\ v.indent \in Nat /\ v.next \in Nat /\ v.parents \in P
      /\ v \in [layer : {"start"}, y : {0}, indent : Nat, next : Nat, parents : P]
    BY DEF Visitors
<1>2. Append(v.parents, v.next) \in P
    BY <1>1
<1>3. v.parents # <<>> => Front(v.parents) \in P
    BY <1>1 DEF Front
<1>4. Visitors = [layer : {"start"}, y : {0}, indent : Nat, next : Nat, parents : P]
    BY DEF Visitors
<1> HIDE DEF P
<1>5. LET w == [v EXCEPT !.indent = @ + 1]
      IN  w \in Visitors /\ w.indent = v.indent + 1
    BY <1>1, <1>4
<1>6. LET w == [v EXCEPT !.next = @ + 1, !.parents = Append(@, v.next)]
      IN  w \in Visitors /\ w.next = v.next + 1 /\ w.parents = Append(v.parents, v.next)
  <2> DEFINE q == Append(v.parents, v.next)
  <2>1. q \in P
        BY <1>2
  <2> HIDE DEF q
  <2> DEFINE R == [layer : {"start"}, y : {0}, indent : Nat, next : Nat, parents : P]
             u == [v EXCEPT !.next = @ + 1]
             w == [u EXCEPT !.parents = q]
  <2>3. u \in R /\ u.next = v.next + 1
        BY <1>1
  <2> HIDE DEF u
  <2>4. w \in R /\ w.next = u.next /\ w.parents = q
        BY <2>1, <2>3
  <2> USE DEF u
  <2>5. w = [v EXCEPT !.next = @ + 1, !.parents = q]
        BY <1>1
  <2> HIDE DEF u, w
  <2>2. LET x == [v EXCEPT !.next = @ + 1, !.parents = q]
        IN  x \in Visitors /\ x.next = v.next + 1 /\ x.parents = q
        BY <1>4, <2>3, <2>4, <2>5
  <2> QED
      BY <2>2 DEF q
<1>7. v.indent > 0 =>
        LET w == [v EXCEPT !.indent = @ - 1]
        IN  w \in Visitors /\ w.indent = v.indent - 1
    BY <1>1, <1>4
<1>8. v.parents # <<>> =>
        LET w == [v EXCEPT !.parents = Front(@)]
        IN  w \in Visitors /\ w.next = v.next /\ w.parents = Front(v.parents)
  <2> DEFINE q == Front(v.parents)
  <2>1. v.parents # <<>> => q \in P
        BY <1>3
  <2> HIDE DEF q
  <2>2. q \in P =>
          LET w == [v EXCEPT !.parents = q]
          IN  w \in Visitors /\ w.next = v.next /\ w.parents = q
        BY <1>1, <1>4
  <2> QED
      BY <2>1, <2>2 DEF q
<1> QED
    BY <1>5, <1>6, <1>7, <1>8

\* The path goes on to the operator that is written.
LEMMA PathGrows ==
  ASSUME DepthsOK, TextTypes, PrefixInv, PathInv,
         Len(out) < Len(plan),
         plan[Len(out) + 1].depth = Len(stack),
         plan' = plan, Len(out') = Len(out) + 1,
         stack' = Append(stack, Len(out) + 1)
  PROVE  stack' \in Seq(Nat) /\ PathInv'
<1> DEFINE m == Len(out)
           L == Len(stack)
<1>1. m \in Nat /\ L \in Nat /\ Len(plan) \in Nat /\ stack \in Seq(Nat)
    BY DEF TextTypes, DepthsOK
<1>2. /\ stack' \in Seq(Nat) /\ Len(stack') = L + 1 /\ stack'[L + 1] = m + 1
      /\ \A k \in 1..L : stack'[k] = stack[k]
    BY <1>1
<1>3. ASSUME NEW k \in 1..(L + 1)
      PROVE  /\ stack'[k] \in 1..(m + 1)
             /\ plan[stack'[k]].depth = k - 1
             /\ \A i \in (stack'[k] + 1)..(m + 1) : plan[i].depth >= k
  <2>1. CASE k = L + 1
        BY <1>1, <1>2, <2>1
  <2>2. CASE k # L + 1
    <3>1. k \in 1..L /\ stack'[k] = stack[k]
          BY <1>1, <1>2, <1>3, <2>2
    <3>2. stack[k] \in 1..m /\ plan[stack[k]].depth = k - 1
          BY <3>1 DEF PathInv
    <3>3. ASSUME NEW i \in (stack[k] + 1)..(m + 1) PROVE plan[i].depth >= k
      <4>1. CASE i = m + 1
            BY <4>1, <3>1, <1>1
      <4>2. CASE i # m + 1
        <5>1. i \in (stack[k] + 1)..m
              BY <4>2, <3>2, <3>3, <1>1
        <5> QED
            BY <5>1, <3>1 DEF PathInv
      <4> QED
          BY <4>1, <4>2
    <3> QED
        BY <3>1, <3>2, <3>3, <1>1
  <2> QED
      BY <2>1, <2>2
<1>4. m + 1 < Len(plan) => plan[m + 2].depth \in 1..(L + 1)
    BY <1>1 DEF DepthsOK
<1> QED
    BY <1>1, <1>2, <1>3, <1>4, SMTT(30) DEF PathInv

\* Writing the next operator, which goes on the stack: i is the length the
\* text has afterwards, and the operator hangs from the top of the stack.
LEMMA PreVisitKeeps ==
  ASSUME plan \in Trees, Textual, DepthsOK, TextTypes, PrefixInv, PathInv, IndentInv, GraphInv,
         Len(out) < Len(plan),
         PreVisit(Len(out) + 1), UNCHANGED <<plan, request>>,
         stack' = Append(stack, Len(out) + 1),
         plan[Len(out) + 1].depth = Len(stack),
         (stack = <<>>) <=> (Len(out) = 0),
         stack # <<>> => ChildOf(plan, Last(stack), Len(out) + 1)
  PROVE  TextInv'
<1> DEFINE m == Len(out)
           new == m + 1
<1>1. /\ m \in Nat /\ Len(stack) \in Nat /\ new \in Nodes /\ Len(plan) \in Nat \ {0}
      /\ visitor \in Visitors
    BY DEF TextTypes, DepthsOK
<1>2. Textual' /\ Lines' = Lines /\ DepthsOK'
    BY DEF Textual, Lines, DepthsOK, Nodes
<1>3. CASE request.form = "indent"
  <2> DEFINE line == [indent |-> visitor.indent, node |-> new, suffixes |-> Trailing]
  <2>1. out' = Append(out, line) /\ visitor' = [visitor EXCEPT !.indent = @ + 1]
        BY <1>3 DEF PreVisit, IndentPreVisit, GraphvizPreVisit
  <2>2. line \in Lines
        BY <1>1, <1>3, TrailingType DEF Lines, Visitors
  <2>3. out' \in Seq(Lines) /\ Len(out') = m + 1
        /\ (\A k \in 1..m : out'[k] = out[k]) /\ out'[new] = line
        BY <2>1, <2>2 DEF TextTypes
  <2>4. visitor' \in Visitors /\ visitor'.indent = Len(stack) + 1
    <3>1. visitor.indent = Len(stack)
          BY <1>3 DEF IndentInv
    <3>2. visitor' \in Visitors /\ visitor'.indent = visitor.indent + 1
          BY <1>1, <2>1, VisitorSteps
    <3> QED
        BY <3>1, <3>2
  <2>5. IndentInv'
    <3>1. Len(stack') = Len(stack) + 1
          BY DEF TextTypes
    <3>2. ASSUME NEW k \in 1..Len(out') PROVE out'[k].indent = plan[k].depth
      <4>1. CASE k = new
            BY <2>3, <4>1, <1>3 DEF IndentInv
      <4>2. CASE k # new
            BY <2>3, <4>2, <1>1, <1>3, <3>2 DEF IndentInv
      <4> QED
          BY <4>1, <4>2
    <3> QED
        BY <2>4, <3>1, <3>2 DEF IndentInv
  <2>6. GraphInv'
        BY <1>3 DEF GraphInv
  <2>7. \A k \in 1..Len(out') : out'[k].node = k
    <3>1. TAKE k \in 1..Len(out')
    <3>2. CASE k = new
          BY <2>3, <3>2
    <3>3. CASE k # new
          BY <2>3, <3>3, <1>1, <3>1 DEF PrefixInv
    <3> QED
        BY <3>2, <3>3
  <2> QED
      BY <1>2, <2>3, <2>4, <2>5, <2>6, <2>7, PathGrows DEF TextInv, TextTypes, PrefixInv
<1>4. CASE request.form = "graphviz"
  <2> DEFINE line == [id |-> visitor.next, node |-> new, edge |-> GraphvizParent(visitor.parents), suffixes |-> Trailing]
  <2>1. /\ out' = Append(out, line)
        /\ visitor' = [visitor EXCEPT !.next = @ + 1, !.parents = Append(@, visitor.next)]
        BY <1>4 DEF PreVisit, IndentPreVisit, GraphvizPreVisit
  <2>2. /\ visitor.next = m /\ visitor.parents \in Seq(Nat) /\ Len(visitor.parents) = Len(stack)
        /\ \A k \in 1..Len(stack) : visitor.parents[k] = stack[k] - 1
        BY <1>1, <1>4 DEF GraphInv, Visitors
  <2>3. /\ stack = <<>> => line.edge = NoNode
        /\ stack # <<>> => line.edge = Last(stack) - 1 /\ Last(stack) \in 1..m
    <3>1. CASE stack = <<>>
      <4>1. visitor.parents = <<>>
            BY <2>2, <3>1
      <4> QED
          BY <3>1, <4>1 DEF GraphvizParent
    <3>2. CASE stack # <<>>
      <4>1. /\ Last(stack) = stack[Len(stack)] /\ Len(stack) \in Nat \ {0}
            /\ Last(stack) \in 1..Len(out)
            BY <3>2, UnvisitedAre
      <4>2. visitor.parents # <<>> /\ Last(visitor.parents) = visitor.parents[Len(stack)]
            BY <2>2, <4>1 DEF Last
      <4> QED
          BY <2>2, <4>1, <4>2, <3>2 DEF GraphvizParent
    <3> QED
        BY <3>1, <3>2
  <2>4. line.edge \in Nat \cup {NoNode}
        BY <1>1, <2>3
  <2>5. line \in Lines
        BY <1>1, <1>4, <2>2, <2>4, TrailingType DEF Lines
  <2>6. out' \in Seq(Lines) /\ Len(out') = m + 1
        /\ (\A k \in 1..m : out'[k] = out[k]) /\ out'[new] = line
        BY <2>1, <2>5 DEF TextTypes
  <2>7. /\ visitor' \in Visitors /\ visitor'.next = new
        /\ visitor'.parents = Append(visitor.parents, m)
        BY <1>1, <2>1, <2>2, VisitorSteps
  <2>8. GraphInv'
    <3>1. Len(stack') = Len(stack) + 1 /\ stack'[Len(stack) + 1] = new
          /\ \A k \in 1..Len(stack) : stack'[k] = stack[k]
          BY <1>1 DEF TextTypes
    <3>2. /\ Len(visitor'.parents) = Len(stack) + 1 /\ visitor'.parents[Len(stack) + 1] = m
          /\ \A k \in 1..Len(stack) : visitor'.parents[k] = visitor.parents[k]
          BY <2>2, <2>7, <1>1
    <3>3. ASSUME NEW k \in 1..Len(stack') PROVE visitor'.parents[k] = stack'[k] - 1
      <4>1. CASE k = Len(stack) + 1
            BY <3>1, <3>2, <4>1, <1>1
      <4>2. CASE k # Len(stack) + 1
            BY <3>1, <3>2, <3>3, <4>2, <2>2, <1>1
      <4> QED
          BY <4>1, <4>2
    <3>4. ASSUME NEW k \in 1..Len(out')
          PROVE  /\ out'[k].id = k - 1
                 /\ k = 1 => out'[k].edge = NoNode
                 /\ k > 1 => out'[k].edge \in 0..(k - 2) /\ ChildOf(plan, out'[k].edge + 1, k)
      <4>1. CASE k = new
        <5>1. out'[k].id = k - 1 /\ out'[k].edge = line.edge
              BY <2>2, <2>6, <4>1, <1>1
        <5>2. CASE m = 0
              BY <5>1, <5>2, <2>3, <4>1
        <5>3. CASE m # 0
          <6>1. line.edge = Last(stack) - 1 /\ Last(stack) \in 1..m /\ ChildOf(plan, Last(stack), new)
                BY <5>3, <2>3
          <6>2. (Last(stack) - 1) + 1 = Last(stack)
                BY <6>1
          <6> QED
              BY <5>1, <5>3, <6>1, <6>2, <4>1, <1>1
        <5> QED
            BY <5>2, <5>3
      <4>2. CASE k # new
            BY <2>6, <3>4, <4>2, <1>1, <1>4, SMTT(30) DEF GraphInv
      <4> QED
          BY <4>1, <4>2
    <3> QED
        BY <2>6, <2>7, <3>1, <3>2, <3>3, <3>4 DEF GraphInv
  <2>9. IndentInv'
        BY <1>4 DEF IndentInv
  <2>10. \A k \in 1..Len(out') : out'[k].node = k
    <3>1. TAKE k \in 1..Len(out')
    <3>2. CASE k = new
          BY <2>6, <3>2
    <3>3. CASE k # new
          BY <2>6, <3>3, <1>1, <3>1 DEF PrefixInv
    <3> QED
        BY <3>2, <3>3
  <2> QED
      BY <1>2, <2>6, <2>7, <2>8, <2>9, <2>10, PathGrows DEF TextInv, TextTypes, PrefixInv
<1> QED
    BY <1>3, <1>4 DEF Textual

\* A sequence without its last element.
LEMMA FrontIs ==
  ASSUME NEW s \in Seq(Nat), s # <<>>
  PROVE  /\ Front(s) \in Seq(Nat) /\ Len(Front(s)) = Len(s) - 1
         /\ \A k \in 1..(Len(s) - 1) : Front(s)[k] = s[k]
<1>1. Len(s) \in Nat \ {0} /\ Front(s) = SubSeq(s, 1, Len(s) - 1)
    BY DEF Front
<1>2. SubSeq(s, 1, Len(s) - 1) \in Seq(Nat)
    BY <1>1
<1>3. Len(SubSeq(s, 1, Len(s) - 1)) = Len(s) - 1
  <2> DEFINE n == Len(s) - 1
  <2>1. n \in Nat /\ \A i \in 1..n : s[i] \in Nat
        BY <1>1
  <2>2. Len(SubSeq(s, 1, n)) = IF 1 <= n THEN n - 1 + 1 ELSE 0
        BY <1>1, <2>1, SubSeqProperties
  <2> DEFINE l == Len(SubSeq(s, 1, n))
  <2>3. l = IF 1 <= n THEN n - 1 + 1 ELSE 0
        BY <2>2
  <2> HIDE DEF l, n
  <2>4. l = n
        BY <2>1, <2>3
  <2> QED
      BY <2>4 DEF l, n
<1>4. \A k \in 1..(Len(s) - 1) : SubSeq(s, 1, Len(s) - 1)[k] = s[k]
    BY <1>1
<1> QED
    BY <1>1, <1>2, <1>3, <1>4

\* Leaving the top of the stack.
LEMMA PostVisitKeeps ==
  ASSUME Textual, DepthsOK, TextTypes, PrefixInv, PathInv, IndentInv, GraphInv, PostVisit
  PROVE  TextInv'
<1> DEFINE L == Len(stack)
           m == Len(out)
<1>1. /\ stack # <<>> /\ Unvisited(Last(stack)) = {} /\ visitor' = PostVisited
      /\ stack' = Front(stack) /\ plan' = plan /\ request' = request /\ out' = out
    BY DEF PostVisit
<1>2. /\ m \in Nat /\ L \in Nat \ {0} /\ stack \in Seq(Nat) /\ visitor \in Visitors
      /\ Len(plan) \in Nat
    BY <1>1 DEF TextTypes, DepthsOK
<1>3. /\ stack' \in Seq(Nat) /\ Len(stack') = L - 1
      /\ \A k \in 1..(L - 1) : stack'[k] = stack[k]
    BY <1>1, <1>2, FrontIs
<1>4. Textual' /\ Lines' = Lines
    BY <1>1 DEF Textual, Lines
<1>5. PathInv'
  <2>1. ASSUME NEW k \in 1..(L - 1)
        PROVE  /\ stack'[k] \in 1..m
               /\ plan[stack'[k]].depth = k - 1
               /\ \A i \in (stack'[k] + 1)..m : plan[i].depth >= k
    <3>1. L \in Nat /\ k \in 1..(L - 1)
          BY <1>2, <2>1
    <3>2. k \in 1..L
      <4> HIDE DEF L
      <4> QED
          BY <3>1
    <3>3. stack'[k] = stack[k]
          BY <1>3, <2>1
    <3> QED
        BY <3>2, <3>3 DEF PathInv
  <2>2. m < Len(plan) => plan[m + 1].depth \in 1..(L - 1)
        BY <1>1, NothingLeft
  <2> QED
      BY <1>1, <1>3, <2>1, <2>2 DEF PathInv
<1>6. PrefixInv'
    BY <1>1 DEF PrefixInv
<1>7. visitor' \in Visitors /\ IndentInv' /\ GraphInv'
  <2>1. CASE request.form = "indent"
    <3>1. visitor.indent = L /\ visitor' = [visitor EXCEPT !.indent = @ - 1]
          BY <1>1, <2>1 DEF IndentInv, PostVisited
    <3>2. visitor' \in Visitors /\ visitor'.indent = L - 1
          BY <1>2, <3>1, L > 0, VisitorSteps
    <3> QED
        BY <1>1, <1>3, <2>1, <3>2 DEF IndentInv, GraphInv
  <2>2. CASE request.form = "graphviz"
    <3>1. /\ Len(visitor.parents) = L /\ visitor.parents \in Seq(Nat)
          /\ visitor.next = m
          /\ \A k \in 1..L : visitor.parents[k] = stack[k] - 1
          /\ visitor' = [visitor EXCEPT !.parents = Front(@)]
          BY <1>1, <1>2, <2>2 DEF GraphInv, PostVisited, Visitors
    <3>2. visitor.parents # <<>>
          BY <1>2, <3>1
    <3>3. /\ visitor' \in Visitors /\ visitor'.next = m
          /\ visitor'.parents = Front(visitor.parents)
          BY <1>2, <3>1, <3>2, VisitorSteps
    <3>4. /\ Len(visitor'.parents) = L - 1
          /\ \A k \in 1..(L - 1) : visitor'.parents[k] = visitor.parents[k]
          BY <1>2, <3>1, <3>2, <3>3, FrontIs
    <3>5. ASSUME NEW k \in 1..(L - 1) PROVE visitor'.parents[k] = stack'[k] - 1
      <4>1. k \in 1..L
            BY <1>2, <3>5
      <4>2. visitor'.parents[k] = visitor.parents[k] /\ stack'[k] = stack[k]
            BY <1>3, <3>4, <3>5
      <4> QED
          BY <3>1, <4>1, <4>2
    <3> QED
        BY <1>1, <1>3, <2>2, <3>3, <3>4, <3>5 DEF IndentInv, GraphInv
  <2> QED
      BY <2>1, <2>2 DEF Textual
<1>8. TextTypes'
    BY <1>1, <1>3, <1>4, <1>7 DEF TextTypes
<1> QED
    BY <1>5, <1>6, <1>7, <1>8 DEF TextInv

\* The walk begins at the root.
LEMMA AcceptKeeps ==
  ASSUME DInv, Accept, Textual
  PROVE  TextInv'
<1>1. /\ DepthsOK /\ TextTypes /\ PrefixInv /\ PathInv /\ IndentInv /\ GraphInv /\ plan \in Trees
    BY DepthsAreOK DEF DInv, TextInv
<1>2. /\ out = <<>> /\ PreVisit(1) /\ stack' = <<1>> /\ UNCHANGED <<plan, request>>
    BY DEF Accept, Textual
<1>3. Len(out) = 0
    BY <1>2
<1>4. stack = <<>>
  <2>1. Len(stack) \in Nat /\ stack \in Seq(Nat)
        BY <1>1 DEF TextTypes
  <2>2. Len(stack) = 0
    <3>1. SUFFICES ASSUME Len(stack) # 0 PROVE FALSE
          OBVIOUS
    <3>2. stack[1] \in 1..Len(out)
          BY <1>1, <2>1, <3>1 DEF PathInv
    <3> QED
        BY <1>3, <3>2
  <2> QED
      BY <2>1, <2>2
<1>5. /\ Len(out) < Len(plan) /\ Len(out) + 1 = 1 /\ Len(stack) = 0
      /\ plan[1].depth = 0 /\ Append(stack, 1) = <<1>>
    BY <1>1, <1>3, <1>4 DEF DepthsOK
<1>6. /\ PreVisit(Len(out) + 1) /\ stack' = Append(stack, Len(out) + 1)
      /\ plan[Len(out) + 1].depth = Len(stack)
      /\ (stack = <<>>) <=> (Len(out) = 0)
    BY <1>2, <1>3, <1>4, <1>5
<1> QED
    BY <1>1, <1>2, <1>4, <1>5, <1>6, PreVisitKeeps

\* A child is written next.
LEMMA VisitChildKeeps ==
  ASSUME DInv, VisitChild, Textual
  PROVE  TextInv'
<1>1. /\ DepthsOK /\ TextTypes /\ PrefixInv /\ PathInv /\ IndentInv /\ GraphInv /\ plan \in Trees
    BY DepthsAreOK DEF DInv, TextInv
<1>2. /\ stack # <<>> /\ Unvisited(Last(stack)) # {} /\ UNCHANGED <<plan, request>>
      /\ PreVisit(Min(Unvisited(Last(stack)))) /\ stack' = Append(stack, Min(Unvisited(Last(stack))))
    BY DEF VisitChild
<1>3. /\ Min(Unvisited(Last(stack))) = Len(out) + 1
      /\ Len(out) < Len(plan)
      /\ plan[Len(out) + 1].depth = Len(stack)
      /\ IsParent(Last(stack), Len(out) + 1)
    BY <1>1, <1>2, ChildIsNext
<1>4. Last(stack) \in Nodes /\ Len(out) \in Nat \ {0}
    BY <1>1, <1>2, UnvisitedAre
<1>5. Len(out) + 1 \in Nodes
    BY <1>1, <1>3, <1>4 DEF DepthsOK
<1>6. ChildOf(plan, Last(stack), Len(out) + 1)
    BY <1>1, <1>3, <1>4, <1>5, ParentMeaning
<1>7. PreVisit(Len(out) + 1) /\ stack' = Append(stack, Len(out) + 1)
    BY <1>2, <1>3
<1> QED
    BY <1>1, <1>2, <1>3, <1>4, <1>6, <1>7, PreVisitKeeps
-----------------------------------------------------------------------------
(***************************************************************************)
(* The invariant.                                                          *)
(***************************************************************************)

LEMMA DInvInit == Init => DInv
<1> SUFFICES ASSUME Init PROVE DInv
    OBVIOUS
<1>1. /\ plan \in Trees /\ stack = <<>> /\ out = <<>>
      /\ visitor = [layer |-> "start", y |-> 0, indent |-> 0, next |-> 0, parents |-> <<>>]
    BY DEF Init
<1>2. DepthsOK
    BY <1>1, DepthsAreOK
<1>4. TextTypes
  <2>1. <<>> \in Seq(Nat) /\ <<>> \in Seq(Lines)
        OBVIOUS
  <2>2. visitor \in Visitors
        BY <1>1, <2>1 DEF Visitors
  <2> QED
      BY <1>1, <2>1, <2>2 DEF TextTypes
<1>3. FormsInv
    BY <1>1, <1>4 DEF FormsInv, TextTypes
<1>5. Len(out) = 0 /\ Len(stack) = 0
    BY <1>1
<1>6. PrefixInv /\ PathInv
    BY <1>2, <1>5 DEF PrefixInv, PathInv, DepthsOK
<1>7. IndentInv /\ GraphInv
  <2>1. visitor.indent = 0 /\ visitor.next = 0 /\ visitor.parents = <<>>
        BY <1>1
  <2> QED
      BY <1>5, <2>1 DEF IndentInv, GraphInv
<1> QED
    BY <1>1, <1>3, <1>4, <1>6, <1>7 DEF DInv, TextInv

\* A walk that keeps its invariant keeps the forms apart.
LEMMA TextHasForms ==
  ASSUME Textual, TextInv', request' = request
  PROVE  FormsInv'
  BY DEF Textual, TextInv, TextTypes, FormsInv

LEMMA DInvNext == DInv /\ [Next]_vars => DInv'
<1> SUFFICES ASSUME DInv, [Next]_vars PROVE DInv'
    OBVIOUS
<1>1. /\ plan' = plan /\ request' = request
    BY DEF Next, vars, CreateTree, RenderTopLayer, RenderBoxContent, RenderBottomLayer, RenderLayer,
           Accept, VisitChild, PostVisit
<1>2. plan' \in Trees /\ plan \in Trees /\ FormsInv
    BY <1>1 DEF DInv
<1>3. CASE UNCHANGED vars
  <2>1. UNCHANGED <<out, stack, visitor>>
        BY <1>3 DEF vars
  <2>2. FormsInv'
        BY <1>1, <1>2, <2>1 DEF FormsInv, Textual
  <2>3. TextInv'
        BY <1>1, <2>1 DEF DInv, TextInv, Textual, TextTypes, Lines, PrefixInv, PathInv, IndentInv, GraphInv
  <2> QED
      BY <1>2, <2>2, <2>3 DEF DInv
<1>4. CASE CreateTree \/ RenderTopLayer \/ RenderBoxContent \/ RenderBottomLayer
  <2>1. request.form = "tree"
        BY <1>2, <1>4 DEF FormsInv, Visitors, CreateTree, RenderTopLayer, RenderBoxContent, RenderBottomLayer, RenderLayer
  <2>2. stack' = stack
        BY <1>4 DEF CreateTree, RenderTopLayer, RenderBoxContent, RenderBottomLayer, RenderLayer
  <2> QED
      BY <1>1, <1>2, <2>1, <2>2 DEF DInv, FormsInv, TextInv, Textual
<1>5. CASE Accept
  <2>1. visitor' \in Visitors
    <3>1. visitor \in Visitors /\ PreVisit(1)
          BY <1>2, <1>5 DEF Accept, FormsInv
    <3>2. visitor' = [visitor EXCEPT !.indent = @ + 1]
          \/ visitor' = [visitor EXCEPT !.next = @ + 1, !.parents = Append(@, visitor.next)]
          BY <3>1 DEF PreVisit, IndentPreVisit, GraphvizPreVisit
    <3> QED
        BY <3>1, <3>2, VisitorSteps
  <2>2. ~Textual => stack' = <<>>
        BY <1>5 DEF Accept, Textual, PreVisit, IndentPreVisit, GraphvizPreVisit
  <2>3. TextInv'
    <3>1. CASE Textual
          BY <1>5, <3>1, AcceptKeeps
    <3>2. CASE ~Textual
          BY <1>1, <3>2 DEF TextInv, Textual
    <3> QED
        BY <3>1, <3>2
  <2> QED
      BY <1>1, <1>2, <2>1, <2>2, <2>3 DEF DInv, FormsInv, Textual
<1>6. CASE VisitChild
  <2>1. Textual
        BY <1>2, <1>6 DEF FormsInv, VisitChild
  <2>2. TextInv'
        BY <1>6, <2>1, VisitChildKeeps
  <2> QED
      BY <1>1, <1>2, <2>1, <2>2, TextHasForms DEF DInv
<1>7. CASE PostVisit
  <2>1. Textual
        BY <1>2, <1>7 DEF FormsInv, PostVisit
  <2>2. TextInv'
        BY <1>2, <1>7, <2>1, PostVisitKeeps, DepthsAreOK DEF DInv, TextInv
  <2> QED
      BY <1>1, <1>2, <2>1, <2>2, TextHasForms DEF DInv
<1> QED
    BY <1>3, <1>4, <1>5, <1>6, <1>7 DEF Next

\* The inductive invariant holds in every state of every rendering.
THEOREM DisplayInvariance == Spec => []DInv
<1>1. Init => DInv
    BY DInvInit
<1>2. DInv /\ [Next]_vars => DInv'
    BY DInvNext
<1> QED
    BY <1>1, <1>2, PTL DEF Spec
-----------------------------------------------------------------------------
(***************************************************************************)
(* A text that has been written.                                           *)
(***************************************************************************)

\* When the walk is over, all operators have been written.
LEMMA AllWritten ==
  ASSUME DInv, Written
  PROVE  /\ Textual /\ DepthsOK /\ TextTypes /\ PrefixInv /\ IndentInv /\ GraphInv
         /\ Len(out) = Len(plan) /\ DOMAIN out = Nodes
<1>1. Textual /\ stack = <<>> /\ out # <<>>
    BY DEF Written, Textual
<1>2. DepthsOK /\ TextTypes /\ PrefixInv /\ PathInv /\ IndentInv /\ GraphInv
    BY <1>1, DepthsAreOK DEF DInv, TextInv
<1>3. Len(out) \in Nat \ {0} /\ Len(stack) = 0 /\ DOMAIN out = 1..Len(out) /\ Len(plan) \in Nat
    BY <1>1, <1>2 DEF TextTypes, DepthsOK
<1>4. ~(Len(out) < Len(plan))
    BY <1>2, <1>3 DEF PathInv
<1>5. Len(out) = Len(plan)
    BY <1>2, <1>3, <1>4 DEF PrefixInv
<1> QED
    BY <1>1, <1>2, <1>3, <1>5 DEF DepthsOK

\* The operators come in the order of the plan.
LEMMA WrittenInOrder ==
  ASSUME DInv, Written
  PROVE  [k \in DOMAIN out |-> out[k].node] = [i \in Nodes |-> i]
<1>1. DOMAIN out = Nodes /\ DOMAIN out = 1..Len(out) /\ PrefixInv
    BY AllWritten DEF TextTypes
<1>2. \A k \in DOMAIN out : out[k].node = k
    BY <1>1 DEF PrefixInv
<1> QED
    BY <1>1, <1>2

\* The indentation tells the parents.
LEMMA IndentTellsParents ==
  ASSUME DInv, Written, request.form # "graphviz", NEW i \in Nodes, NEW j \in Nodes
  PROVE  IsParent(i, j) <=>
           /\ i < j
           /\ out[i].indent = out[j].indent - 1
           /\ \A k \in (i + 1)..(j - 1) : out[k].indent >= out[j].indent
<1>1. /\ request.form = "indent" /\ DepthsOK /\ IndentInv
      /\ Nodes = 1..Len(out)
    BY AllWritten DEF Textual, TextTypes
<1>2. \A k \in Nodes : out[k].indent = plan[k].depth /\ plan[k].depth \in Nat
    BY <1>1 DEF IndentInv, DepthsOK
<1>3. IsParent(i, j) <=> ChildOf(plan, i, j)
    BY <1>1, ParentMeaning
<1>4. i \in Nat /\ j \in Nat /\ \A k \in (i + 1)..(j - 1) : k \in Nodes
    BY <1>1 DEF DepthsOK
<1>5. plan[i].depth \in Nat /\ plan[j].depth \in Nat
      /\ out[i].indent = plan[i].depth /\ out[j].indent = plan[j].depth
    BY <1>2
<1>6. \A k \in (i + 1)..(j - 1) : out[k].indent = plan[k].depth /\ plan[k].depth \in Nat
    BY <1>2, <1>4
<1> QED
    BY <1>3, <1>5, <1>6 DEF ChildOf

\* The edges tell the parents.
LEMMA EdgesTellParents ==
  ASSUME DInv, Written, request.form = "graphviz", NEW i \in Nodes, NEW j \in Nodes
  PROVE  IsParent(i, j) <=> out[j].edge = out[i].id
<1>1. DepthsOK /\ GraphInv /\ Nodes = 1..Len(out)
    BY AllWritten DEF TextTypes
<1>2. out[i].id = i - 1 /\ i - 1 \in Nat /\ i \in Nat /\ j \in Nat
    BY <1>1 DEF GraphInv, DepthsOK
<1>3. IsParent(i, j) <=> ChildOf(plan, i, j)
    BY <1>1, ParentMeaning
<1>4. CASE j = 1
  <2>1. out[j].edge = NoNode /\ ~(i < j)
        BY <1>1, <1>4 DEF GraphInv
  <2>2. ~IsParent(i, j)
        BY <1>3, <2>1 DEF ChildOf
  <2>3. out[j].edge # out[i].id
        BY <1>2, <2>1, NoNodeAssumption
  <2> QED
      BY <2>2, <2>3
<1>5. CASE j # 1
  <2>1. out[j].edge \in 0..(j - 2) /\ ChildOf(plan, out[j].edge + 1, j)
        BY <1>1, <1>2, <1>5 DEF GraphInv
  <2>2. out[j].edge + 1 \in Nodes
        BY <1>1, <1>2, <2>1
  <2>3. IsParent(out[j].edge + 1, j)
        BY <1>1, <2>1, <2>2, ParentMeaning
  <2>4. IsParent(i, j) => i = out[j].edge + 1
        BY <1>1, <2>2, <2>3, OneParent
  <2> QED
      BY <1>2, <2>1, <2>3, <2>4
<1> QED
    BY <1>4, <1>5

\* TextIsThePlan: whatever the plan, the lines of an indented text and the
\* nodes of a graph are its operators in the order in which accept visits
\* them, and indentation and edges tell the parents.
THEOREM TextTellsThePlan == Spec => []TextIsThePlan
<1>1. DInv => TextIsThePlan
  <2>1. SUFFICES ASSUME DInv, Written PROVE
          /\ [k \in DOMAIN out |-> out[k].node] = [i \in Nodes |-> i]
          /\ \A i, j \in Nodes :
               IsParent(i, j) <=>
                 IF request.form = "graphviz" THEN out[j].edge = out[i].id
                 ELSE /\ i < j
                      /\ out[i].indent = out[j].indent - 1
                      /\ \A k \in (i + 1)..(j - 1) : out[k].indent >= out[j].indent
        BY DEF TextIsThePlan
  <2>2. [k \in DOMAIN out |-> out[k].node] = [i \in Nodes |-> i]
        BY <2>1, WrittenInOrder
  <2>3. ASSUME NEW i \in Nodes, NEW j \in Nodes
        PROVE  IsParent(i, j) <=>
                 IF request.form = "graphviz" THEN out[j].edge = out[i].id
                 ELSE /\ i < j
                      /\ out[i].indent = out[j].indent - 1
                      /\ \A k \in (i + 1)..(j - 1) : out[k].indent >= out[j].indent
    <3>1. CASE request.form = "graphviz"
          BY <2>1, <3>1, EdgesTellParents
    <3>2. CASE request.form # "graphviz"
          BY <2>1, <3>2, IndentTellsParents
    <3> QED
        BY <3>1, <3>2
  <2> QED
      BY <2>2, <2>3
<1> QED
    BY <1>1, DisplayInvariance, PTL
=============================================================================
