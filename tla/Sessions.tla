------------------------------ MODULE Sessions ------------------------------
(***************************************************************************)
(* Sessions: how the settings of an application, the parts it gives its    *)
(* SessionStateBuilder and the executor a standalone context starts come   *)
(* together in the contexts that run queries.  Threads of one process each *)
(* build a configuration, a state and a context; they share the counter    *)
(* of session ids.  A standalone context spawns a server thread, which     *)
(* announces the port it is bound to and then serves until the process     *)
(* ends.                                                                   *)
(***************************************************************************)
EXTENDS Naturals, FiniteSets

CONSTANTS
  Threads,           \* threads of the application
  Plans,             \* what threads call with, and a bound on the calls of each
  Keys,              \* keys of settings
  TargetKey, BatchKey, LegacyKey,  \* the keys that are read
  Texts,             \* strings a setting may have
  Parse,             \* str::parse::<usize>, where it succeeds
  Printed,           \* usize::to_string
  DefaultPartitions, \* available_parallelism()
  DefaultBatch,      \* 1024
  Parts,             \* the parts of a state that are only handed on
  OwnId,             \* a session id of the caller's
  None               \* an Option without a value

ASSUME KeysAssumption == /\ {TargetKey, BatchKey, LegacyKey} \subseteq Keys
                         /\ LegacyKey # BatchKey /\ TargetKey \notin {LegacyKey, BatchKey}
ASSUME ParseAssumption == /\ DOMAIN Parse \subseteq Texts
                          /\ \A text \in DOMAIN Parse : Parse[text] \in Nat
                          /\ \A n \in DOMAIN Printed : Printed[n] \in DOMAIN Parse /\ Parse[Printed[n]] = n
ASSUME DefaultsAssumption == DefaultPartitions \in Nat /\ DefaultBatch \in Nat
ASSUME PartsAssumption == {"query_planner", "runtime_env"} \subseteq Parts

VARIABLES
  plan,     \* the calls this behaviour may make
  counter,  \* the static COUNTER of new_session_id
  thread,   \* per thread of the application: its values, and its call
  server    \* per thread: the server it spawned

vars == <<plan, counter, thread, server>>

Maps == UNION {[K -> Texts] : K \in SUBSET Keys}
Insert(map, key, text) ==
  [k \in DOMAIN map \cup {key} |-> IF k = key THEN text ELSE map[k]]
-----------------------------------------------------------------------------
(***************************************************************************)
(* SessionConfig: typed options and a string map of the same settings.     *)
(***************************************************************************)
Configs == [partitions : Nat, batch : Nat, settings : Maps]

NewConfig == [partitions |-> DefaultPartitions, batch |-> DefaultBatch,
              settings |-> [k \in {} |-> None]]

\* Mutant: the setter leaves the string map alone.
OnlyTyped(config, n) == [config EXCEPT !.partitions = n]
WithTargetPartitions(config, n) ==
  [config EXCEPT !.partitions = n, !.settings = Insert(config.settings, TargetKey, Printed[n])]

WithBatchSize(config, n) ==
  [config EXCEPT !.batch = n, !.settings = Insert(config.settings, BatchKey, Printed[n])]

\* A string that is no number goes into the map and changes no option.
Recognised(key, text, keys) == key \in keys /\ text \in DOMAIN Parse

WithSetting(config, key, text) ==
  [partitions |-> IF Recognised(key, text, {TargetKey}) THEN Parse[text] ELSE config.partitions,
   batch |-> IF Recognised(key, text, {BatchKey, LegacyKey}) THEN Parse[text] ELSE config.batch,
   settings |-> Insert(config.settings, key, text)]

\* What the contexts read on their own: the legacy key only.
LegacyBatch(settings) ==
  IF LegacyKey \in DOMAIN settings /\ settings[LegacyKey] \in DOMAIN Parse
  THEN Parse[settings[LegacyKey]]
  ELSE DefaultBatch
-----------------------------------------------------------------------------
(***************************************************************************)
(* SessionState and its builder.  A part is the default one, one of the    *)
(* caller, or the planner that sends queries to executors.                 *)
(***************************************************************************)
Planner == "query_planner"
Choices == {"default", "own", "distributed"}

StateRecords == [id : Nat \cup {OwnId}, config : Configs, parts : [Parts -> Choices]]

\* What the calls of the threads may be given.
ASSUME PlansAssumption ==
  \A p \in Plans :
    /\ p.sizes \subseteq DOMAIN Printed
    /\ p.settings \subseteq [key : Keys, text : Texts]
    /\ p.parts \subseteq Parts
    /\ p.maps \subseteq Maps
ASSUME NoneAssumption ==
  /\ None \notin Choices \cup {"address", "error"}
  /\ None \notin Nat \cup {OwnId}
  /\ None \notin Configs
  /\ None \notin StateRecords

NewBuilder == [id |-> None, config |-> None, parts |-> [p \in Parts |-> None]]

\* Mutant: the configuration is forgotten.
WithoutConfig(state) == [state EXCEPT !.config = None]
NewFrom(state) == state

With(builder, part, choice) == [builder EXCEPT !.parts[part] = choice]

\* Every part left open becomes the default; the id comes from the counter.
Built(builder, n) ==
  [id     |-> IF builder.id = None THEN n ELSE builder.id,
   config |-> IF builder.config = None THEN NewConfig ELSE builder.config,
   parts  |-> [p \in Parts |-> IF builder.parts[p] = None THEN "default" ELSE builder.parts[p]]]

NewSessionId(builder) == IF builder.id = None THEN counter + 1 ELSE counter

NewDistributedState == With(NewBuilder, Planner, "distributed")
UpgradeForDistributed(state) == With(NewFrom(state), Planner, "distributed")
-----------------------------------------------------------------------------
(***************************************************************************)
(* Contexts.  The tables are the batch sizes their files are read with.    *)
(***************************************************************************)
\* Mutant: the state is built without the configuration the map was folded into.
WithoutSettings(settings, config, n) ==
  [kind |-> "single", settings |-> settings, batch |-> LegacyBatch(settings),
   tables |-> {}, state |-> Built(NewBuilder, n)]
NewContext(settings, config, n) ==
  [kind |-> "single", settings |-> settings, batch |-> LegacyBatch(settings),
   tables |-> {}, state |-> Built([NewBuilder EXCEPT !.config = config], n)]

\* Mutant: the context of a state reads its batch size as SessionContext::new does.
ReadsTheMap(state) ==
  [kind |-> "of state", settings |-> state.config.settings,
   batch |-> LegacyBatch(state.config.settings), tables |-> {}, state |-> state]
NewWithState(state) ==
  [kind |-> "of state", settings |-> state.config.settings, batch |-> state.config.batch,
   tables |-> {}, state |-> state]

WithParallelism(settings) ==
  [kind |-> "parallel", settings |-> settings, batch |-> LegacyBatch(settings),
   tables |-> {}, state |-> None]

\* The TaskContext of a query: the session's, or one of the parallel context's own.
TaskCtx(context) ==
  IF context.kind = "parallel"
  THEN [executor |-> "parallel", config |-> NewConfig, runtime |-> "default"]
  ELSE [executor |-> context.state.id, config |-> context.state.config,
        runtime |-> context.state.parts["runtime_env"]]

\* The TaskContext of the executor a standalone context starts: none of the caller's settings.
ExecutorCtx == [executor |-> "standalone-1", config |-> NewConfig, runtime |-> "own"]
-----------------------------------------------------------------------------
Idle == [at |-> "free", calls |-> 0, config |-> NewConfig, builder |-> NewBuilder,
         state |-> None, context |-> None, left |-> {}, given |-> None, task |-> None]

NoServer == [at |-> "none", message |-> None, listening |-> FALSE]

\* A server thread that has started, before it has built its runtime.
Spawned == [NoServer EXCEPT !.at = "started"]

Init == /\ plan \in Plans
        /\ counter = 0
        /\ thread = [t \in Threads |-> Idle]
        /\ server = [t \in Threads |-> NoServer]

\* A thread is between two calls and may make the next.
Calls(t) == thread[t].at = "free" /\ thread[t].calls < plan.calls[t]

Called(t, new) == /\ thread' = [thread EXCEPT ![t] = [new EXCEPT !.calls = @ + 1]]
                  /\ UNCHANGED <<plan, server>>
-----------------------------------------------------------------------------
(***************************************************************************)
(* Building a configuration and a state.                                   *)
(***************************************************************************)
SetTargetPartitions(t) ==
  /\ Calls(t)
  /\ \E n \in plan.sizes :
       Called(t, [thread[t] EXCEPT !.config = WithTargetPartitions(@, n)])
  /\ UNCHANGED counter

SetBatchSize(t) ==
  /\ Calls(t)
  /\ \E n \in plan.sizes :
       Called(t, [thread[t] EXCEPT !.config = WithBatchSize(@, n)])
  /\ UNCHANGED counter

Set(t) ==
  /\ Calls(t)
  /\ \E s \in plan.settings :
       Called(t, [thread[t] EXCEPT !.config = WithSetting(@, s.key, s.text)])
  /\ UNCHANGED counter

\* SessionStateBuilder::new, or new_from a state the thread has.
StartBuilder(t) ==
  /\ Calls(t)
  /\ plan.parts # {}
  /\ \/ Called(t, [thread[t] EXCEPT !.builder = NewBuilder])
     \/ /\ thread[t].state # None
        /\ Called(t, [thread[t] EXCEPT !.builder = NewFrom(thread[t].state), !.state = None])
  /\ UNCHANGED counter

Give(t) ==
  /\ Calls(t)
  /\ \/ \E p \in plan.parts :
          Called(t, [thread[t] EXCEPT !.builder = With(@, p, "own")])
     \/ /\ plan.parts # {}
        /\ Called(t, [thread[t] EXCEPT !.builder.config = thread[t].config])
     \/ /\ plan.parts # {}
        /\ Called(t, [thread[t] EXCEPT !.builder.id = OwnId])
  /\ UNCHANGED counter

\* build takes the builder.
Build(t) ==
  /\ Calls(t)
  /\ plan.parts # {}
  /\ Called(t, [thread[t] EXCEPT !.state = Built(thread[t].builder, counter),
                                 !.builder = NewBuilder])
  /\ counter' = NewSessionId(thread[t].builder)
-----------------------------------------------------------------------------
(***************************************************************************)
(* Contexts of the local process.                                          *)
(***************************************************************************)
\* SessionContext::new goes through the map in the order of the hash map, which
\* differs from one run to the next.
StartContext(t) ==
  /\ Calls(t)
  /\ \E settings \in plan.maps :
       Called(t, [thread[t] EXCEPT !.at = "folding", !.config = NewConfig, !.given = settings,
                                   !.left = DOMAIN settings])
  /\ UNCHANGED counter

Fold(t) ==
  /\ thread[t].at = "folding"
  /\ \E key \in thread[t].left :
       thread' = [thread EXCEPT ![t].config = WithSetting(@, key, thread[t].given[key]),
                                ![t].left = @ \ {key}]
  /\ UNCHANGED <<plan, counter, server>>

FinishContext(t) ==
  /\ thread[t].at = "folding"
  /\ thread[t].left = {}
  /\ thread' = [thread EXCEPT
                  ![t].at = "free", ![t].given = None, ![t].config = NewConfig,
                  ![t].context = NewContext(thread[t].given, thread[t].config, counter)]
  /\ counter' = NewSessionId(NewBuilder)
  /\ UNCHANGED <<plan, server>>

MakeOfState(t) ==
  /\ Calls(t)
  /\ thread[t].state # None
  /\ Called(t, [thread[t] EXCEPT !.context = NewWithState(thread[t].state), !.state = None])
  /\ UNCHANGED counter

MakeParallel(t) ==
  /\ Calls(t)
  /\ \E settings \in plan.maps :
       Called(t, [thread[t] EXCEPT !.context = WithParallelism(settings)])
  /\ UNCHANGED counter

\* register_csv: the source keeps the batch size it was made with.
RegisterCsv(t) ==
  /\ Calls(t)
  /\ thread[t].context # None
  /\ Called(t, [thread[t] EXCEPT !.context.tables = @ \cup {thread[t].context.batch}])
  /\ UNCHANGED counter

\* A query planned and run in the process.
Execute(t) ==
  /\ Calls(t)
  /\ thread[t].context # None
  /\ thread[t].context.kind # "standalone"
  /\ Called(t, [thread[t] EXCEPT !.task = TaskCtx(thread[t].context)])
  /\ UNCHANGED counter
-----------------------------------------------------------------------------
(***************************************************************************)
(* A standalone context: standalone, or standalone_with_state.  The caller *)
(* blocks on the channel until the server thread has sent its address.     *)
(***************************************************************************)
StartStandalone(t) ==
  /\ plan.standalone
  /\ Calls(t)
  /\ server[t].at = "none"
  /\ \E given \in {None, thread[t].state} :
       thread' = [thread EXCEPT ![t].at = "receiving", ![t].calls = @ + 1,
                                ![t].given = given, ![t].state = None]
  /\ server' = [server EXCEPT ![t] = Spawned]
  /\ UNCHANGED <<plan, counter>>

\* remote and remote_with_state: not implemented.
Remote(t) == plan.standalone /\ Calls(t) /\ Called(t, thread[t]) /\ UNCHANGED counter

ServerStep(t, at, new) ==
  /\ server[t].at = at
  /\ server' = [server EXCEPT ![t] = new]
  /\ UNCHANGED <<plan, counter, thread>>

\* The runtime, the bind or the address of the socket may fail: the caller is told.
Fail(t) == \E at \in {"started", "runtime", "bound"} :
             ServerStep(t, at, [at |-> "ended", message |-> "error", listening |-> FALSE])

\* Mutant: the address is sent before the bind.
AnnouncesFirst(t) ==
  ServerStep(t, "started", [server[t] EXCEPT !.at = "runtime", !.message = "address"])
BuildRuntime(t) == ServerStep(t, "started", [server[t] EXCEPT !.at = "runtime"])

Bind(t) == ServerStep(t, "runtime", [server[t] EXCEPT !.at = "bound", !.listening = TRUE])

\* Mutant: the server serves without having sent its address.
ServesFirst(t) == ServerStep(t, "bound", [server[t] EXCEPT !.at = "serving"])
SendAddress(t) ==
  ServerStep(t, "bound", [server[t] EXCEPT !.at = "sent", !.message = "address"])

\* The executor's TaskContext and producer are made after the address is sent.
Serve(t) == ServerStep(t, "sent", [server[t] EXCEPT !.at = "serving"])

Receive(t) ==
  /\ thread[t].at = "receiving"
  /\ server[t].message # None
  /\ thread' = [thread EXCEPT ![t].at = IF server[t].message = "address" THEN "connecting"
                                                                         ELSE "free"]
  /\ UNCHANGED <<plan, counter, server>>

\* A bound socket takes a connection before anything is served on it; the
\* connection may still fail.  The given state keeps all but its planner.
Connect(t) ==
  /\ thread[t].at = "connecting"
  /\ \/ /\ server[t].listening
        /\ LET builder == IF thread[t].given = None
                          THEN NewDistributedState
                          ELSE UpgradeForDistributed(thread[t].given)
               context == NewWithState(Built(builder, counter))
           IN /\ thread' = [thread EXCEPT ![t].at = "free",
                                          ![t].context = [context EXCEPT !.kind = "standalone"]]
              /\ counter' = NewSessionId(builder)
     \/ /\ thread' = [thread EXCEPT ![t].at = "free"]
        /\ UNCHANGED counter
  /\ UNCHANGED <<plan, server>>

\* A query sent to the executor waits until the server takes it.
Ask(t) ==
  /\ Calls(t)
  /\ thread[t].context # None
  /\ thread[t].context.kind = "standalone"
  /\ Called(t, [thread[t] EXCEPT !.at = "asking"])
  /\ UNCHANGED counter

Answer(t) ==
  /\ thread[t].at = "asking"
  /\ server[t].at = "serving"
  /\ thread' = [thread EXCEPT ![t].at = "free", ![t].task = ExecutorCtx]
  /\ UNCHANGED <<plan, counter, server>>
-----------------------------------------------------------------------------
CallSteps(t) == \/ SetTargetPartitions(t) \/ SetBatchSize(t) \/ Set(t)
                \/ StartBuilder(t) \/ Give(t) \/ Build(t)
                \/ StartContext(t) \/ MakeOfState(t) \/ MakeParallel(t)
                \/ RegisterCsv(t) \/ Execute(t)
                \/ StartStandalone(t) \/ Remote(t) \/ Ask(t)

\* The rest of a call that has begun, and the thread it has spawned.
RunSteps(t) == Fold(t) \/ FinishContext(t) \/ Receive(t) \/ Connect(t)
ServerSteps(t) == \/ Fail(t) \/ BuildRuntime(t) \/ Bind(t) \/ SendAddress(t)
                  \/ Serve(t) \/ Answer(t)

Next == \E t \in Threads : CallSteps(t) \/ RunSteps(t) \/ ServerSteps(t)

\* The system runs every thread that can run; the application need not call.
Spec == /\ Init /\ [][Next]_vars
        /\ \A t \in Threads : WF_vars(RunSteps(t)) /\ WF_vars(ServerSteps(t))
-----------------------------------------------------------------------------
(***************************************************************************)
(* Properties.                                                             *)
(***************************************************************************)
States == {thread[t].state : t \in Threads}
            \cup {thread[t].context.state : t \in {u \in Threads : thread[u].context # None}}

ConfigsHeld == {thread[t].config : t \in Threads}
                 \cup {s.config : s \in States \ {None}}

\* The text of a key is a number.
Numeric(config, key) == key \in DOMAIN config.settings /\ config.settings[key] \in DOMAIN Parse

ViewsOf(config) ==
  /\ Numeric(config, TargetKey) => config.partitions = Parse[config.settings[TargetKey]]
  /\ TargetKey \notin DOMAIN config.settings => config.partitions = DefaultPartitions
  /\ {BatchKey, LegacyKey} \cap DOMAIN config.settings = {} => config.batch = DefaultBatch
  /\ \A key, other \in {BatchKey, LegacyKey} :
       key # other /\ Numeric(config, key) /\ (Numeric(config, other) \/ other \notin DOMAIN config.settings)
         => config.batch \in {Parse[config.settings[k]] : k \in {key, other} \cap DOMAIN config.settings}

\* The typed options and the string map of a configuration tell the same story,
\* whatever mixture of setters made it and whatever became of it since: an
\* option of a key that was never set is the default, the partitions are the
\* number in the map, and the batch size is that of one of its two keys when
\* each that is set is a number (SessionConfig::with_*, task_context.rs 99-157).
ViewsAgree == \A config \in ConfigsHeld : ViewsOf(config)

\* A context reads its files in batches of the size its state says, unless the
\* settings given to SessionContext::new have the canonical key, which only the
\* state reads, and with the legacy key also set the order of a hash map
\* (session_context.rs 66-104).
BatchSizesAgree ==
  \A t \in Threads :
    LET context == thread[t].context
    IN context # None /\ context.kind # "parallel" =>
         \/ context.batch = context.state.config.batch
         \/ context.kind = "single" /\ BatchKey \in DOMAIN context.settings

\* A setting given to a session context is one its local queries find in the
\* configuration of their task (SessionContext::new, task_ctx).
SettingsReachTasks ==
  \A t \in Threads :
    LET context == thread[t].context
    IN context # None /\ context.kind = "single" =>
         TaskCtx(context).config.settings = context.settings

\* standalone_with_state changes the planner of the state it is given and
\* nothing else: settings, functions, rules, runtime and id are those of the
\* caller (upgrade_for_distributed: "The rest of the state is preserved").
GivenStateIsKept ==
  [][\A t \in Threads :
       thread[t].at = "connecting" /\ thread'[t].context # thread[t].context
       /\ thread[t].given # None
       => LET given == thread[t].given
              state == thread'[t].context.state
          IN /\ state.parts[Planner] = "distributed"
             /\ \A p \in Parts \ {Planner} : state.parts[p] = given.parts[p]
             /\ state.id = given.id
             /\ state.config = given.config
             /\ thread'[t].context.settings = given.config.settings]_vars

\* A caller that has an address finds a listening socket behind it, though
\* nothing serves it yet: "a race here would let the caller connect before the
\* socket is listening" (spawn_in_process_flight_server, standalone.rs 82-88).
NobodyIsRefused ==
  \A t \in Threads : thread[t].at \in {"connecting", "asking"} => server[t].listening

\* A call that has begun returns, with a context, an answer or an error: no
\* caller waits for ever on the channel or on a server that has not begun to
\* serve.
EveryCallReturns == \A t \in Threads : thread[t].at # "free" ~> thread[t].at = "free"
=============================================================================
