---------------------------- MODULE PlanDisplay ----------------------------
(***************************************************************************)
(* EXPLAIN: a physical plan written as indented lines, as a Graphviz       *)
(* graph, as one line, or drawn as boxes with lines between them.  A plan  *)
(* is the sequence of its operators in the order they are visited, each    *)
(* with its depth.  Of a text only its length and the places where it may  *)
(* be broken are kept; the characters are ASCII.                           *)
(***************************************************************************)
EXTENDS Integers, FiniteSets, Sequences, SequencesExt, FiniteSetsExt

CONSTANTS
  Trees,            \* the plans: sequences of [depth, name, info]
  Forms,            \* of "indent", "graphviz", "one_line", "tree"
  Options,          \* what is shown behind a label
  RenderWidths,     \* maximum_render_width
  NoNode            \* an empty cell

\* A plan has a root, and an operator is at most one step below the one before it.
ASSUME TreesAssumption ==
  \A t \in Trees :
    /\ Len(t) \in Nat \ {0}
    /\ DOMAIN t = 1..Len(t)
    /\ t[1].depth = 0
    /\ \A i \in 2..Len(t) : t[i].depth \in 1..(t[i - 1].depth + 1)

ASSUME NoNodeAssumption == NoNode \notin Nat

NodeRenderWidth == 29
MaxExtraLines   == 30
Half            == NodeRenderWidth \div 2

VARIABLES
  plan,     \* the operators
  request,  \* the form, its options and the maximum width
  grid,     \* RenderTree
  stack,    \* the operators whose visit has begun, with the children visited
  visitor,  \* the state of the visitor
  out       \* what has been written: lines, or rows of glyphs

vars == <<plan, request, grid, stack, visitor, out>>
-----------------------------------------------------------------------------
(***************************************************************************)
(* The tree.                                                               *)
(***************************************************************************)
Nodes == DOMAIN plan

\* The operators below i follow it, up to the first that is not deeper.
Below(i) == {j \in Nodes : j > i /\ \A k \in (i + 1)..j : plan[k].depth > plan[i].depth}

Children(i) == {j \in Below(i) : plan[j].depth = plan[i].depth + 1}

IsParent(i, j) == j \in Children(i)

\* get_tree_width_height: operators without children are one cell wide.
Size[i \in Nat] ==
  LET sizes == {[node |-> c, width |-> Size[c].width, height |-> Size[c].height] : c \in Children(i)}
  IN  IF sizes = {} THEN [width |-> 1, height |-> 1]
      ELSE [width |-> MapThenSumSet(LAMBDA s : s.width, sizes), height |-> Max({s.height : s \in sizes}) + 1]

\* create_tree_recursive: a child stands to the right of its elder siblings.
Place[i \in Nat] ==
  IF i = 1 THEN [x |-> 0, y |-> 0]
  ELSE LET parent == CHOOSE p \in Nodes : IsParent(p, i)
           elder  == {c \in Children(parent) : c < i}
       IN  [x |-> Place[parent].x + MapThenSumSet(LAMBDA c : Size[c].width, elder),
            y |-> Place[parent].y + 1]

Position(g, x, y) == y * g.width + x

CreatedTree ==
  LET size == Size[1]
      new  == [width |-> size.width, height |-> size.height]
  IN  [width |-> size.width, height |-> size.height,
       nodes |-> FoldLeft(LAMBDA acc, i : [acc EXCEPT ![Position(new, Place[i].x, Place[i].y)] = i],
                          [p \in 0..((size.width + 1) * (size.height + 1) - 1) |-> NoNode],
                          Reverse([i \in Nodes |-> i]))]

GetNode(x, y) ==
  IF x >= grid.width \/ y >= grid.height THEN NoNode ELSE grid.nodes[Position(grid, x, y)]

HasNode(x, y) == GetNode(x, y) # NoNode
-----------------------------------------------------------------------------
(***************************************************************************)
(* The lines in a box.  A text is its length and where it may be broken;   *)
(* a line is the piece of a text it shows.                                 *)
(***************************************************************************)
Line(text, from, to) == [text |-> text, from |-> from, to |-> to]
Plain(width)         == Line("", 0, width)

Separator == Plain(NodeRenderWidth - 9)
Padding   == Plain(0)
Ellipsis  == Plain(3)

Exceeds(width) == width > NodeRenderWidth - 2

(***************************************************************************)
(* split_string_buffer: walking on after a break, the columns between the  *)
(* break and the place it was found are counted twice, which only makes    *)
(* the next line shorter.                                                  *)
(***************************************************************************)
FirstTooLong(text, at) ==
  LET tooLong == {p \in at.pos..(text.length - 1) : Exceeds(at.width + (p - at.pos) + 1)}
  IN  IF tooLong = {} THEN text.length ELSE Min(tooLong)

LastSplit(text, at, until) ==
  LET splits == {p \in text.splits : at.pos <= p /\ p < until} \cup {at.split}
  IN  Max(splits)

BreakAt(at, found, until) == IF at.start + 8 > found THEN until ELSE found

SplitStringBuffer(text) ==
  LET Walk[at \in [pos : Nat, start : Nat, width : Nat, split : Nat]] ==
        LET until == FirstTooLong(text, at)
        IN  IF until = text.length
            THEN IF text.length > at.start THEN <<Line(text.name, at.start, text.length)>> ELSE <<>>
            ELSE LET break == BreakAt(at, LastSplit(text, at, until), until)
                 IN  <<Line(text.name, at.start, break)>>
                     \o Walk[[pos |-> break, start |-> break, width |-> until - break, split |-> break]]
  IN  Walk[[pos |-> 0, start |-> 0, width |-> 0, split |-> 0]]

\* A value is one line of the operator's own text, so it has no line break.
Inlined(entry) ==
  entry.value.length > 0 /\ entry.key.length + entry.value.length + 2 < NodeRenderWidth - 7

\* "key: value", or two lines, or the key alone; key and value are broken alike.
Shows(entry) ==
  CASE entry.value.length = 0 -> SplitStringBuffer(entry.key)
    [] Inlined(entry) -> <<Line("inlined", 0, entry.key.length + 2 + entry.value.length)>>
    [] OTHER -> SplitStringBuffer([entry.key EXCEPT !.length = @ + 1, !.splits = @ \cup {entry.key.length}])
                \o SplitStringBuffer(entry.value)

Truncated(lines) ==
  IF Len(lines) > MaxExtraLines THEN Append(SubSeq(lines, 1, MaxExtraLines), Ellipsis) ELSE lines

\* split_up_extra_info, over the entries in the order of their keys.
SplitUpExtraInfo(info) ==
  IF info = <<>> THEN <<>>
  ELSE FoldLeft(LAMBDA acc, k :
                  LET both == k > 1 /\ Inlined(info[k]) /\ Inlined(info[k - 1])
                      pad  == IF k > 1 /\ ~both THEN <<Padding>> ELSE <<>>
                  IN  Truncated(acc \o pad \o Shows(info[k])),
                <<Separator>>, [k \in DOMAIN info |-> k])
-----------------------------------------------------------------------------
(***************************************************************************)
(* The drawing.  A row is a sequence of strokes: a glyph and how often it  *)
(* is repeated.                                                            *)
(***************************************************************************)
Stroke(glyph, n) == [glyph |-> glyph, n |-> n]
One(glyph)       == <<Stroke(glyph, 1)>>
Many(glyph)      == <<Stroke(glyph, Half)>>
Border(glyph)    == <<Stroke(glyph, Half - 1)>>
Cell(glyph)      == <<Stroke(glyph, NodeRenderWidth)>>
Nothing          == <<>>

Shown(x) == request.width = 0 \/ x * NodeRenderWidth < request.width

HasAdjacentNodes(x, y) == \E i \in x..(grid.width - 1) : HasNode(i, y)

(***************************************************************************)
(* should_render_whitespace: the next operator to the left has children    *)
(* beyond this cell.                                                       *)
(***************************************************************************)
ShouldRenderWhitespace(x, y) ==
  LET left == {i \in 0..x : HasNode(i, y)}
  IN  /\ left # {}
      /\ LET p     == Max(left)
             found == Cardinality({i \in p..x : HasNode(i, y + 1)})
             n     == Cardinality(Children(GetNode(p, y)))
         IN  n > 1 /\ found < n

TopCell(x, y) ==
  IF HasNode(x, y)
  THEN One("ltcorner") \o Border("horizontal") \o One(IF y = 0 THEN "horizontal" ELSE "dmiddle")
       \o Border("horizontal") \o One("rtcorner")
  ELSE IF HasAdjacentNodes(x, y) THEN Cell("space") ELSE Nothing

\* The text of a box is centred; one that is too long is cut.
AdjustText(width) ==
  LET room   == NodeRenderWidth - 2
      spaces == room - width
  IN  IF width > room THEN <<Stroke("text", room - 3), Stroke("text", 3)>>
      ELSE <<Stroke("space", (spaces \div 2) + (spaces % 2)), Stroke("text", width), Stroke("space", spaces \div 2)>>

BoxRow(node, row, halfway, lines) ==
  One("vertical")
  \o AdjustText(CASE row = 0             -> plan[node].name
                  [] row \in DOMAIN lines -> lines[row].to - lines[row].from
                  [] OTHER                -> 0)
  \o One(IF row = halfway /\ Cardinality(Children(node)) > 1 THEN "lmiddle" ELSE "vertical")

\* Mutant: a line does not go on past a child.
StopsAtChild(x, y) ==
  IF HasNode(x, y + 1)
  THEN Many("horizontal") \o One("rtcorner") \o (IF HasAdjacentNodes(x, y) THEN Many("space") ELSE Nothing)
  ELSE IF ShouldRenderWhitespace(x, y) THEN Cell("horizontal")
  ELSE IF HasAdjacentNodes(x, y) THEN Cell("space") ELSE Nothing

\* The row that joins an operator to its younger children.
JoiningRow(x, y) ==
  IF HasNode(x, y + 1)
  THEN Many("horizontal")
       \o IF ShouldRenderWhitespace(x, y) THEN One("tmiddle") \o Many("horizontal")
          ELSE One("rtcorner") \o (IF HasAdjacentNodes(x, y) THEN Many("space") ELSE Nothing)
  ELSE IF ShouldRenderWhitespace(x, y) THEN Cell("horizontal")
  ELSE IF HasAdjacentNodes(x, y) THEN Cell("space") ELSE Nothing

\* The rows below it lead down to the children.
LeadingDown(x, y) ==
  LET more == HasAdjacentNodes(x, y) \/ ShouldRenderWhitespace(x, y)
  IN  IF HasNode(x, y + 1)
      THEN Many("space") \o One("vertical") \o (IF more THEN Many("space") ELSE Nothing)
      ELSE IF more THEN Cell("space") ELSE Nothing

ContentCell(x, y, row, halfway, lines) ==
  CASE HasNode(x, y)  -> BoxRow(GetNode(x, y), row, halfway, lines[x])
    [] ~HasNode(x, y) /\ row = halfway -> JoiningRow(x, y)
    [] ~HasNode(x, y) /\ row > halfway -> LeadingDown(x, y)
    [] OTHER -> IF HasAdjacentNodes(x, y) THEN Cell("space") ELSE Nothing

BottomCell(x, y) ==
  IF HasNode(x, y)
  THEN One("ldcorner") \o Border("horizontal") \o One(IF HasNode(x, y + 1) THEN "tmiddle" ELSE "horizontal")
       \o Border("horizontal") \o One("rdcorner")
  ELSE LeadingDown(x, y)

RowOf(cells) ==
  FoldLeft(LAMBDA acc, x : IF Shown(x) THEN acc \o cells[x] ELSE acc, <<>>, [k \in 1..Cardinality(DOMAIN cells) |-> k - 1])

TopLayer(y) == <<RowOf([x \in 0..(grid.width - 1) |-> TopCell(x, y)])>>

\* Every row of the boxes: the names, then their lines.
BoxContent(y) ==
  LET lines   == [x \in 0..(grid.width - 1) |->
                    IF HasNode(x, y) THEN SplitUpExtraInfo(plan[GetNode(x, y)].info) ELSE <<>>]
      extra   == Max({Len(lines[x]) : x \in DOMAIN lines})
      halfway == (extra + 1) \div 2
  IN  [k \in 1..(extra + 1) |-> RowOf([x \in 0..(grid.width - 1) |-> ContentCell(x, y, k - 1, halfway, lines)])]

BottomLayer(y) == <<RowOf([x \in 0..grid.width |-> BottomCell(x, y)])>>
-----------------------------------------------------------------------------
(***************************************************************************)
(* The steps.                                                              *)
(***************************************************************************)
Init ==
  /\ plan \in Trees
  /\ request \in [form : Forms, options : Options, width : RenderWidths]
  /\ request.form \in {"graphviz", "tree"} \/ request.width = 0
  /\ request.form = "tree" => request.options.metrics = "none" /\ ~request.options.schema
  /\ grid = [width |-> 0, height |-> 0, nodes |-> <<>>]
  /\ stack = <<>>
  /\ visitor = [layer |-> "start", y |-> 0, indent |-> 0, next |-> 0, parents |-> <<>>]
  /\ out = <<>>

CreateTree ==
  /\ request.form = "tree"
  /\ visitor.layer = "start"
  /\ grid' = CreatedTree
  /\ visitor' = [visitor EXCEPT !.layer = "top"]
  /\ UNCHANGED <<plan, request, stack, out>>

RenderLayer(layer, rows, next, step) ==
  /\ visitor.layer = layer
  /\ visitor.y < grid.height
  /\ out' = Append(out, [layer |-> layer, y |-> visitor.y, rows |-> rows])
  /\ visitor' = [visitor EXCEPT !.layer = next, !.y = @ + step]
  /\ UNCHANGED <<plan, request, grid, stack>>

RenderTopLayer    == RenderLayer("top", TopLayer(visitor.y), "content", 0)
RenderBoxContent  == RenderLayer("content", BoxContent(visitor.y), "bottom", 0)
RenderBottomLayer == RenderLayer("bottom", BottomLayer(visitor.y), "top", 1)

\* What pre_visit writes behind the label of an operator.
Trailing ==
  (IF request.options.metrics # "none" THEN <<"metrics">> ELSE <<>>)
  \o (IF request.options.statistics THEN <<"statistics">> ELSE <<>>)
  \o (IF request.options.schema /\ request.form # "graphviz" THEN <<"schema">> ELSE <<>>)

IndentPreVisit(i) ==
  /\ request.form \in {"indent", "one_line"}
  /\ out' = Append(out, [indent |-> visitor.indent, node |-> i, suffixes |-> Trailing])
  /\ visitor' = [visitor EXCEPT !.indent = @ + 1]

GraphvizParent(parents) == IF parents = <<>> THEN NoNode ELSE Last(parents)

GraphvizPreVisit(i) ==
  /\ request.form = "graphviz"
  /\ out' = Append(out, [id |-> visitor.next, node |-> i, edge |-> GraphvizParent(visitor.parents), suffixes |-> Trailing])
  /\ visitor' = [visitor EXCEPT !.next = @ + 1, !.parents = Append(@, visitor.next)]

PreVisit(i) == IndentPreVisit(i) \/ GraphvizPreVisit(i)

\* accept, from the root.
Accept ==
  /\ request.form # "tree"
  /\ visitor.layer = "start"
  /\ out = <<>>
  /\ PreVisit(1)
  /\ stack' = IF request.form = "one_line" THEN <<>> ELSE <<1>>
  /\ UNCHANGED <<plan, request, grid>>

Unvisited(i) == {c \in Children(i) : \A k \in DOMAIN out : out[k].node # c}

VisitChild ==
  /\ stack # <<>>
  /\ Unvisited(Last(stack)) # {}
  /\ LET child == Min(Unvisited(Last(stack)))
     IN  /\ PreVisit(child)
         /\ stack' = Append(stack, child)
  /\ UNCHANGED <<plan, request, grid>>

\* Mutant: the indentation is not taken back.
KeepsIndent == visitor

PostVisited ==
  IF request.form = "graphviz" THEN [visitor EXCEPT !.parents = Front(@)]
                               ELSE [visitor EXCEPT !.indent = @ - 1]

PostVisit ==
  /\ stack # <<>>
  /\ Unvisited(Last(stack)) = {}
  /\ visitor' = PostVisited
  /\ stack' = Front(stack)
  /\ UNCHANGED <<plan, request, grid, out>>

Next ==
  \/ CreateTree \/ RenderTopLayer \/ RenderBoxContent \/ RenderBottomLayer
  \/ Accept \/ VisitChild \/ PostVisit

Spec == Init /\ [][Next]_vars
-----------------------------------------------------------------------------
(***************************************************************************)
(* Properties.                                                             *)
(***************************************************************************)
Drawn   == request.form = "tree" /\ visitor.layer = "top" /\ visitor.y = grid.height
Written == request.form \in {"indent", "graphviz"} /\ stack = <<>> /\ out # <<>>

Picture == FoldLeft(LAMBDA acc, l : acc \o l.rows, <<>>, out)

Columns(row) == FoldLeft(LAMBDA acc, s : acc \o [k \in 1..s.n |-> s.glyph], <<>>, row)

(***************************************************************************)
(* The box of an operator begins in the row and the column of its place,   *)
(* and a line that is read from the top of the box upwards, and then to    *)
(* the left, ends at the operator it is a child of.                        *)
(***************************************************************************)
FirstRow(y) ==
  1 + FoldLeft(LAMBDA acc, l : IF l.y < y THEN acc + Len(l.rows) ELSE acc, 0, out)

Glyph(p, r, c) == IF r \in DOMAIN p /\ c \in DOMAIN p[r] THEN p[r][c] ELSE "none"

ReadsAsChild(p, parent, child) ==
  LET r    == FirstRow(Place[child].y) - 1
      c    == Place[child].x * NodeRenderWidth + Half + 1
      row  == Max({k \in 0..r : Glyph(p, k, c) # "vertical"})
      left == Max({k \in 0..(c - 1) : Glyph(p, row, k) \notin {"horizontal", "tmiddle"}})
      edge == Place[parent].x * NodeRenderWidth
  IN  /\ Glyph(p, r + 1, c) = "dmiddle"
      /\ IF Glyph(p, row, left) = "ldcorner"
         THEN row = r /\ Glyph(p, row, c) = "tmiddle" /\ left = edge + 1
         ELSE /\ Glyph(p, row, c) \in {"tmiddle", "rtcorner"}
              /\ Glyph(p, row, left) = "lmiddle"
              /\ left = edge + NodeRenderWidth
              /\ row >= FirstRow(Place[parent].y)

\* The strokes that meet a glyph from its four sides.
ArmsOf ==
  [ltcorner |-> {"right", "down"}, rtcorner |-> {"left", "down"}, ldcorner |-> {"right", "up"},
   rdcorner |-> {"left", "up"}, tmiddle |-> {"left", "right", "down"}, dmiddle |-> {"left", "right", "up"},
   lmiddle |-> {"up", "down", "right"}, vertical |-> {"up", "down"}, horizontal |-> {"left", "right"},
   space |-> {}, text |-> {}, none |-> {}]

Joined(p, width) ==
  \A r \in DOMAIN p : \A c \in DOMAIN p[r] :
    LET arms == ArmsOf[p[r][c]]
    IN  /\ "down" \in arms => "up" \in ArmsOf[Glyph(p, r + 1, c)]
        /\ "up" \in arms => "down" \in ArmsOf[Glyph(p, r - 1, c)]
        /\ "left" \in arms => "right" \in ArmsOf[Glyph(p, r, c - 1)]
        /\ ("right" \in arms /\ c < width) => "left" \in ArmsOf[Glyph(p, r, c + 1)]

\* The columns that fit the width: whole boxes, the last one may stick out.
LastColumn == Max({(x + 1) * NodeRenderWidth : x \in {k \in 0..(grid.width - 1) : Shown(k)}})

(***************************************************************************)
(* The drawing is the plan: every line that begins somewhere ends at       *)
(* something, each box within the width is drawn at its place, and reading *)
(* the lines from a box leads to the operator it feeds.                    *)
(***************************************************************************)
PictureIsThePlan ==
  Drawn =>
    LET p == [r \in DOMAIN Picture |-> Columns(Picture[r])]
    IN  /\ Joined(p, LastColumn)
        /\ \A i, j \in Nodes :
             (IsParent(i, j) /\ Shown(Place[j].x)) => ReadsAsChild(p, i, j)

(***************************************************************************)
(* The text is the plan: the operators come in the order of the plan; the  *)
(* one a line is below is the next one above with one step less, and the   *)
(* edges of the graph are those of the plan.                               *)
(***************************************************************************)
TextIsThePlan ==
  Written =>
    /\ [k \in DOMAIN out |-> out[k].node] = [i \in Nodes |-> i]
    /\ \A i, j \in Nodes :
         IsParent(i, j) <=>
           IF request.form = "graphviz" THEN out[j].edge = out[i].id
           ELSE /\ i < j
                /\ out[i].indent = out[j].indent - 1
                /\ \A k \in (i + 1)..(j - 1) : out[k].indent >= out[j].indent
=============================================================================
