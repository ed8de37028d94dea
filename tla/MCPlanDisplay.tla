--------------------------- MODULE MCPlanDisplay ---------------------------
(***************************************************************************)
(* PlanDisplay for TLC: every shape of a plan of up to MaxNodes operators, *)
(* with no, short and long entries in their boxes.                         *)
(***************************************************************************)
EXTENDS PlanDisplay

CONSTANT MaxNodes

Text(name, length, splits) == [name |-> name, length |-> length, splits |-> splits]
Entry(key, value) == [key |-> key, value |-> value]

Key   == Text("key", 5, {})
Short == Text("short", 8, {3})
Long  == Text("long", 61, {4, 20, 26, 45})
Tight == Text("tight", 96, {7, 8, 27, 35})

Infos ==
  <<<<>>, <<Entry(Key, Short)>>, <<Entry(Key, Text("empty", 0, {})), Entry(Key, Long)>>,
    <<Entry(Key, Short), Entry(Key, Short), Entry(Key, Tight)>>, [k \in 1..33 |-> Entry(Key, Short)]>>

Shapes ==
  {d \in UNION {[1..n -> 0..(n - 1)] : n \in 1..MaxNodes} :
     d[1] = 0 /\ \A i \in 2..Len(d) : d[i] \in 1..(d[i - 1] + 1)}

MCTrees ==
  {[i \in DOMAIN d |-> [depth |-> d[i], name |-> IF i = 2 THEN 31 ELSE 10, info |-> Infos[((from + i) % 5) + 1]]] :
     d \in Shapes, from \in 0..4}

MCOptions == [metrics : {"none", "full"}, statistics : {FALSE}, schema : BOOLEAN]
=============================================================================
