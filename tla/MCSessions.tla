----------------------------- MODULE MCSessions -----------------------------
EXTENDS Sessions, TLC

CONSTANTS target, batch, legacy, other,  \* keys of settings
          eight, zeroEight, four, word,
          one, two                       \* threads

MCKeys  == {target, batch, legacy, other}
MCTexts == {eight, zeroEight, four, word}
\* "08" is a number with two spellings; a word is none.
MCParse == eight :> 8 @@ zeroEight :> 8 @@ four :> 4
MCPrinted == 8 :> eight @@ 4 :> four
MCParts == {"analyzer", "optimizer", "physical_optimizers", Planner, "scalar_functions",
            "aggregate_functions", "window_functions", "table_factories",
            "serializer_registry", "runtime_env"}

NoCalls == [sizes |-> {}, settings |-> {}, parts |-> {}, maps |-> {}, standalone |-> FALSE, calls |-> one :> 4 @@ two :> 0]
Pair(k, x) == [key |-> k, text |-> x]

\* One after the other: configurations, contexts of a map, states, and
\* standalone contexts, of states that differ from the default.
MCPlans ==
  {[NoCalls EXCEPT !.sizes = {4},
                   !.settings = {Pair(k, x) : k \in MCKeys \ {other}, x \in {eight, word}}],
   [NoCalls EXCEPT !.maps = UNION {[K -> {zeroEight, word}] : K \in SUBSET MCKeys}
                              \cup {target :> four, (batch :> four) @@ (legacy :> eight)},
                   !.calls[one] = 2],
   [NoCalls EXCEPT !.settings = {Pair(batch, four), Pair(other, word)},
                   !.parts = {"runtime_env", Planner},
                   !.calls[one] = 5],
   [NoCalls EXCEPT !.settings = {Pair(legacy, four)}, !.parts = {"optimizer"},
                   !.standalone = TRUE, !.calls = one :> 5 @@ two :> 1]}
=============================================================================
