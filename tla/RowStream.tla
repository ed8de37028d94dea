------------------------------ MODULE RowStream ------------------------------
(***************************************************************************)
(* What the stream of a plan promises to the caller that drains it: rows   *)
(* that begin one of the answers of the plan, then the end when they are   *)
(* all of it, or an error.                                                 *)
(***************************************************************************)
EXTENDS Sequences, SequencesExt

VARIABLES
  answers,    \* the row sequences that are right, chosen once
  received,   \* the rows the caller has
  ended       \* "no", "complete" or "error"

vars == <<answers, received, ended>>

Init == answers # {} /\ received = <<>> /\ ended = "no"

\* A batch, which may be empty, and which leaves an answer within reach.
Deliver ==
  /\ ended = "no"
  /\ IsPrefix(received, received')
  /\ \E answer \in answers : IsPrefix(received', answer)
  /\ UNCHANGED <<answers, ended>>

Complete == ended = "no" /\ received \in answers /\ ended' = "complete" /\ UNCHANGED <<answers, received>>

Fail == ended = "no" /\ ended' = "error" /\ UNCHANGED <<answers, received>>

Next == Deliver \/ Complete \/ Fail

Spec == Init /\ [][Next]_vars
=============================================================================
