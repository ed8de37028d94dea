------------------------------ MODULE QueryJob ------------------------------
(***************************************************************************)
(* What the distributed query path promises to the caller that polls a     *)
(* DistributedQueryExec stream: every query is answered at most once, and  *)
(* the answer is either complete or absent.  A query is a set of groups    *)
(* (the rows the partial aggregate produces, or the rows of a plan that    *)
(* is not an aggregate); an answer says how many times each group's        *)
(* partial state was merged into the result.  There are no stages,         *)
(* executors, calls or files at this level: DistributedJob implements it.  *)
(***************************************************************************)
EXTENDS Naturals

CONSTANTS
  Jobs,    \* the calls of Scheduler::execute, one fresh uuid each
  Groups,  \* everything a query may return a row for
  Shapes,  \* the plan shapes the planner tells apart
  Copies   \* Copies[s]: how often a query of shape s merges each group

VARIABLES
  status,  \* where each job stands
  query,   \* what each job asks
  answer   \* what each job that is done returned

jobVars == <<status, query, answer>>

Ended == {"done", "failed", "panicked", "cancelled"}

\* The complete answer of a query: k copies of each of its groups and
\* nothing else.
Times(k, gs) == [g \in Groups |-> IF g \in gs THEN k ELSE 0]

Complete(q) == Times(Copies[q.shape], q.groups)

JobInit ==
  /\ status = [j \in Jobs |-> "idle"]
  /\ query \in [Jobs -> [shape: Shapes, groups: SUBSET Groups, encodable: BOOLEAN, executors: Nat]]
  /\ answer = [j \in Jobs |-> Times(0, {})]

Start(j) ==
  /\ status[j] = "idle"
  /\ status' = [status EXCEPT ![j] = "running"]
  /\ UNCHANGED <<query, answer>>

Answer(j) ==
  /\ status[j] = "running"
  /\ status' = [status EXCEPT ![j] = "done"]
  /\ answer' = [answer EXCEPT ![j] = Complete(query[j])]
  /\ UNCHANGED query

GiveUp(j) ==
  /\ status[j] \in {"idle", "running"}
  /\ \E s \in Ended \ {"done"} : status' = [status EXCEPT ![j] = s]
  /\ UNCHANGED <<query, answer>>

JobNext == \E j \in Jobs : Start(j) \/ Answer(j) \/ GiveUp(j)

JobSpec == JobInit /\ [][JobNext]_jobVars
=============================================================================
