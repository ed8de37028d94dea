--------------------------- MODULE SessionsProofs ---------------------------
(***************************************************************************)
(* That Sessions keeps what it promises of configurations and contexts for *)
(* any number of threads, any keys, settings and parts, and any numbers.   *)
(***************************************************************************)
EXTENDS Sessions, TLAPS

Ids       == Nat \cup {OwnId}
Builders  == [id : Ids \cup {None}, config : Configs \cup {None}, parts : [Parts -> Choices \cup {None}]]
Contexts  == [kind : {"single", "of state", "parallel", "standalone"}, settings : Maps,
              batch : Nat, tables : SUBSET Nat, state : StateRecords \cup {None}]
Tasks     == [executor : Ids \cup {"parallel", "standalone-1"}, config : Configs,
              runtime : Choices]
ThreadPc  == {"free", "folding", "receiving", "connecting", "asking"}
ThreadRecords ==
  [at : ThreadPc, calls : Nat, config : Configs, builder : Builders,
   state : StateRecords \cup {None}, context : Contexts \cup {None}, left : SUBSET Keys,
   given : Maps \cup StateRecords \cup {None}, task : Tasks \cup {None}]

ServerPc == {"none", "started", "runtime", "bound", "sent", "serving", "ended"}
ServerRecords == [at : ServerPc, message : {None, "address", "error"}, listening : BOOLEAN]

TypeOK == /\ plan \in Plans
          /\ counter \in Nat
          /\ thread \in [Threads -> ThreadRecords]
          /\ server \in [Threads -> ServerRecords]

\* What the map that is folded into a configuration has become of so far.
FoldedOf(h) ==
  /\ h.given \in Maps
  /\ h.left \subseteq DOMAIN h.given
  /\ DOMAIN h.config.settings = DOMAIN h.given \ h.left
  /\ \A k \in DOMAIN h.config.settings : h.config.settings[k] = h.given[k]
  /\ BatchKey \notin DOMAIN h.given => h.config.batch = LegacyBatch(h.config.settings)

StateSound(state) == state = None \/ (state \in StateRecords /\ ViewsOf(state.config))

ContextSound(context) ==
  /\ StateSound(context.state)
  /\ context.kind # "parallel" =>
       /\ context.state # None
       /\ context.batch = context.state.config.batch
            \/ (context.kind = "single" /\ BatchKey \in DOMAIN context.settings)
       /\ context.kind = "single" => context.state.config.settings = context.settings

Sound(h) ==
  /\ ViewsOf(h.config)
  /\ h.builder.config = None \/ ViewsOf(h.builder.config)
  /\ StateSound(h.state)
  /\ h.context = None \/ ContextSound(h.context)
  /\ h.at \in {"receiving", "connecting"} => StateSound(h.given)
  /\ h.at = "folding" => FoldedOf(h)

\* A server that has announced its address is bound to it.
Bound(s) == s.at \in {"bound", "sent", "serving"} => s.listening
Announced(s) == s.at \in {"sent", "serving"}

\* A caller that has an address has it from its server.
Meets(h, s) ==
  /\ h.at \in {"connecting", "asking"} => Announced(s)
  /\ (h.context # None /\ h.context.kind = "standalone") => Announced(s)

ThreadInv == \A t \in Threads : Sound(thread[t])
ServerInv == \A t \in Threads : Bound(server[t]) /\ (server[t].message = "address" => Announced(server[t]))
MeetInv   == \A t \in Threads : Meets(thread[t], server[t])

IInv == TypeOK /\ ThreadInv /\ ServerInv /\ MeetInv

\* What a thread may become next to its server, and a server next to its thread.
Good(h, s) == h \in ThreadRecords /\ Sound(h) /\ Meets(h, s)
GoodServer(s, old) ==
  /\ s \in ServerRecords /\ Bound(s)
  /\ s.message = "address" => Announced(s)
  /\ Announced(old) => Announced(s)
-----------------------------------------------------------------------------
(***************************************************************************)
(* Maps and configurations.                                                *)
(***************************************************************************)
LEMMA MapsType ==
  ASSUME NEW f
  PROVE  f \in Maps <=> (DOMAIN f \subseteq Keys /\ f \in [DOMAIN f -> Texts])
<1>1. ASSUME f \in Maps PROVE DOMAIN f \subseteq Keys /\ f \in [DOMAIN f -> Texts]
  <2>1. PICK K \in SUBSET Keys : f \in [K -> Texts]
    BY <1>1 DEF Maps
  <2>2. QED
    BY <2>1
<1>2. ASSUME DOMAIN f \subseteq Keys, f \in [DOMAIN f -> Texts] PROVE f \in Maps
  BY <1>2 DEF Maps
<1>3. QED
  BY <1>1, <1>2

\* HashMap::insert.
LEMMA InsertType ==
  ASSUME NEW map \in Maps, NEW key \in Keys, NEW text \in Texts
  PROVE  /\ Insert(map, key, text) \in Maps
         /\ DOMAIN Insert(map, key, text) = DOMAIN map \cup {key}
         /\ Insert(map, key, text)[key] = text
         /\ \A k \in DOMAIN map \ {key} : Insert(map, key, text)[k] = map[k]
<1> DEFINE new == Insert(map, key, text)
<1>1. DOMAIN map \subseteq Keys /\ map \in [DOMAIN map -> Texts]
  BY MapsType
<1>2. /\ DOMAIN new = DOMAIN map \cup {key}
      /\ \A k \in DOMAIN new : new[k] = IF k = key THEN text ELSE map[k]
  BY DEF Insert
<1>3. new \in [DOMAIN new -> Texts]
  BY <1>1 DEF Insert
<1>4. new \in Maps
  BY <1>1, <1>2, <1>3, MapsType
<1>5. QED
  BY <1>2, <1>4

\* A number is printed as a text that is parsed as it.
LEMMA PrintedParses ==
  ASSUME NEW n \in DOMAIN Printed
  PROVE  /\ Printed[n] \in Texts /\ Printed[n] \in DOMAIN Parse
         /\ Parse[Printed[n]] = n /\ n \in Nat
BY ParseAssumption

\* The configuration of SessionConfig::new.
LEMMA NewConfigSound ==
  /\ NewConfig \in Configs
  /\ ViewsOf(NewConfig)
  /\ DOMAIN NewConfig.settings = {}
  /\ NewConfig.batch = DefaultBatch
<1>1. [k \in {} |-> None] \in Maps
  BY MapsType
<1>2. QED
  BY <1>1, DefaultsAssumption DEF NewConfig, Configs, ViewsOf, Numeric

\* What a setter writes: the text into the map, and its number into the option.
Written(config, new, key, text) ==
  /\ new \in Configs
  /\ DOMAIN new.settings = DOMAIN config.settings \cup {key}
  /\ new.settings[key] = text
  /\ \A k \in DOMAIN config.settings \ {key} : new.settings[k] = config.settings[k]
  /\ new.partitions = IF Recognised(key, text, {TargetKey}) THEN Parse[text] ELSE config.partitions
  /\ new.batch = IF Recognised(key, text, {BatchKey, LegacyKey}) THEN Parse[text] ELSE config.batch

\* The views agree after each setting, if they did before.
LEMMA WrittenSound ==
  ASSUME NEW config \in Configs, ViewsOf(config), NEW key \in Keys, NEW text \in Texts,
         NEW new, Written(config, new, key, text)
  PROVE  ViewsOf(new)
<1>1. Numeric(new, TargetKey) => new.partitions = Parse[new.settings[TargetKey]]
  BY KeysAssumption DEF Written, ViewsOf, Numeric, Recognised
<1>2. TargetKey \notin DOMAIN new.settings => new.partitions = DefaultPartitions
  BY KeysAssumption DEF Written, ViewsOf, Numeric, Recognised
<1>3. {BatchKey, LegacyKey} \cap DOMAIN new.settings = {} => new.batch = DefaultBatch
  BY KeysAssumption DEF Written, ViewsOf, Numeric, Recognised
<1>4. ASSUME NEW k \in {BatchKey, LegacyKey}, NEW other \in {BatchKey, LegacyKey}, k # other,
             Numeric(new, k), Numeric(new, other) \/ other \notin DOMAIN new.settings
      PROVE  new.batch \in {Parse[new.settings[x]] : x \in {k, other} \cap DOMAIN new.settings}
  <2>1. CASE key \in {BatchKey, LegacyKey}
    BY <1>4, <2>1, KeysAssumption DEF Written, Numeric, Recognised
  <2>2. CASE key \notin {BatchKey, LegacyKey}
    <3>1. new.batch = config.batch
      BY <2>2 DEF Written, Recognised
    <3>2. Numeric(config, k) /\ (Numeric(config, other) \/ other \notin DOMAIN config.settings)
      BY <1>4, <2>2 DEF Written, Numeric
    <3>3. config.batch \in {Parse[config.settings[x]] : x \in {k, other} \cap DOMAIN config.settings}
      BY <3>2, <1>4 DEF ViewsOf
    <3>4. {k, other} \cap DOMAIN config.settings = {k, other} \cap DOMAIN new.settings
      BY <1>4, <2>2 DEF Written
    <3>5. \A x \in {k, other} \cap DOMAIN config.settings : new.settings[x] = config.settings[x]
      BY <1>4, <2>2 DEF Written
    <3>6. QED
      BY <3>1, <3>3, <3>4, <3>5
  <2>3. QED
    BY <2>1, <2>2
<1>5. QED
  BY <1>1, <1>2, <1>3, <1>4 DEF ViewsOf

LEMMA WithSettingWrites ==
  ASSUME NEW config \in Configs, NEW key \in Keys, NEW text \in Texts
  PROVE  Written(config, WithSetting(config, key, text), key, text)
<1> DEFINE map == Insert(config.settings, key, text)
<1>1. config.partitions \in Nat /\ config.batch \in Nat /\ config.settings \in Maps
  BY DEF Configs
<1>2. /\ map \in Maps
      /\ DOMAIN map = DOMAIN config.settings \cup {key}
      /\ map[key] = text
      /\ \A k \in DOMAIN config.settings \ {key} : map[k] = config.settings[k]
  BY <1>1, InsertType
<1> HIDE DEF map
<1>3. Recognised(key, text, {TargetKey}) \/ Recognised(key, text, {BatchKey, LegacyKey}) => Parse[text] \in Nat
  BY ParseAssumption DEF Recognised
<1>4. WithSetting(config, key, text) =
        [partitions |-> IF Recognised(key, text, {TargetKey}) THEN Parse[text] ELSE config.partitions,
         batch |-> IF Recognised(key, text, {BatchKey, LegacyKey}) THEN Parse[text] ELSE config.batch,
         settings |-> map]
  BY DEF WithSetting, map
<1>5. QED
  BY <1>1, <1>2, <1>3, <1>4 DEF Written, Configs

LEMMA WithTargetPartitionsWrites ==
  ASSUME NEW config \in Configs, NEW n \in DOMAIN Printed
  PROVE  Written(config, WithTargetPartitions(config, n), TargetKey, Printed[n])
<1> DEFINE map == Insert(config.settings, TargetKey, Printed[n])
           new == [config EXCEPT !.partitions = n, !.settings = map]
<1>1. config \in [partitions : Nat, batch : Nat, settings : Maps]
  BY DEF Configs
<1>2. Printed[n] \in Texts /\ Printed[n] \in DOMAIN Parse /\ Parse[Printed[n]] = n /\ n \in Nat
  BY PrintedParses
<1>3. /\ map \in Maps
      /\ DOMAIN map = DOMAIN config.settings \cup {TargetKey}
      /\ map[TargetKey] = Printed[n]
      /\ \A k \in DOMAIN config.settings \ {TargetKey} : map[k] = config.settings[k]
  BY <1>1, <1>2, KeysAssumption, InsertType, ZenonT(40)
<1> HIDE DEF map
<1>4. /\ new \in [partitions : Nat, batch : Nat, settings : Maps]
      /\ new.partitions = n /\ new.batch = config.batch /\ new.settings = map
  BY <1>1, <1>2, <1>3
<1> HIDE DEF new
<1>5. Recognised(TargetKey, Printed[n], {TargetKey}) /\ ~Recognised(TargetKey, Printed[n], {BatchKey, LegacyKey})
  BY <1>2, KeysAssumption DEF Recognised
<1>6. Written(config, new, TargetKey, Printed[n])
  BY <1>2, <1>3, <1>4, <1>5 DEF Written, Configs
<1>7. QED
  BY <1>6 DEF WithTargetPartitions, new, map

LEMMA WithBatchSizeWrites ==
  ASSUME NEW config \in Configs, NEW n \in DOMAIN Printed
  PROVE  Written(config, WithBatchSize(config, n), BatchKey, Printed[n])
<1> DEFINE map == Insert(config.settings, BatchKey, Printed[n])
           new == [config EXCEPT !.batch = n, !.settings = map]
<1>1. config \in [partitions : Nat, batch : Nat, settings : Maps]
  BY DEF Configs
<1>2. Printed[n] \in Texts /\ Printed[n] \in DOMAIN Parse /\ Parse[Printed[n]] = n /\ n \in Nat
  BY PrintedParses
<1>3. /\ map \in Maps
      /\ DOMAIN map = DOMAIN config.settings \cup {BatchKey}
      /\ map[BatchKey] = Printed[n]
      /\ \A k \in DOMAIN config.settings \ {BatchKey} : map[k] = config.settings[k]
  BY <1>1, <1>2, KeysAssumption, InsertType
<1> HIDE DEF map
<1>4. /\ new \in [partitions : Nat, batch : Nat, settings : Maps]
      /\ new.partitions = config.partitions /\ new.batch = n /\ new.settings = map
  BY <1>1, <1>2, <1>3
<1> HIDE DEF new
<1>5. ~Recognised(BatchKey, Printed[n], {TargetKey}) /\ Recognised(BatchKey, Printed[n], {BatchKey, LegacyKey})
  BY <1>2, KeysAssumption DEF Recognised
<1>6. Written(config, new, BatchKey, Printed[n])
  BY <1>2, <1>3, <1>4, <1>5 DEF Written, Configs
<1>7. QED
  BY <1>6 DEF WithBatchSize, new, map

\* What the contexts read on their own is a number.
LEMMA LegacyBatchType ==
  ASSUME NEW settings PROVE LegacyBatch(settings) \in Nat
BY ParseAssumption, DefaultsAssumption DEF LegacyBatch
-----------------------------------------------------------------------------
(***************************************************************************)
(* States, builders and contexts.                                          *)
(***************************************************************************)
\* A builder that was given nothing; the default is the part of no one.
LEMMA NewBuilderType == NewBuilder \in Builders
BY DEF NewBuilder, Builders

LEMMA WithType ==
  ASSUME NEW builder \in Builders, NEW part \in Parts, NEW choice \in Choices
  PROVE  With(builder, part, choice) \in Builders /\ With(builder, part, choice).config = builder.config
BY DEF With, Builders

\* build gives a state of its own: the configuration that was given, if any.
LEMMA BuiltType ==
  ASSUME NEW builder \in Builders, NEW n \in Nat
  PROVE  /\ Built(builder, n) \in StateRecords
         /\ Built(builder, n) # None
         /\ Built(builder, n).config = IF builder.config = None THEN NewConfig ELSE builder.config
<1>1. /\ builder.id \in Ids \cup {None}
      /\ builder.config \in Configs \cup {None}
      /\ builder.parts \in [Parts -> Choices \cup {None}]
  BY DEF Builders
<1>2. [p \in Parts |-> IF builder.parts[p] = None THEN "default" ELSE builder.parts[p]] \in [Parts -> Choices]
  BY <1>1 DEF Choices
<1>3. Built(builder, n) \in StateRecords
  BY <1>1, <1>2, NewConfigSound DEF Built, StateRecords, Ids
<1>4. Built(builder, n).config = IF builder.config = None THEN NewConfig ELSE builder.config
  BY DEF Built
<1>5. QED
  BY <1>3, <1>4, NoneAssumption
-----------------------------------------------------------------------------
(***************************************************************************)
(* A step changes one thread, or one server, and leaves the others.        *)
(***************************************************************************)
LEMMA ThreadFrame ==
  ASSUME IInv, NEW t \in Threads, NEW h, Good(h, server[t]), thread' = [thread EXCEPT ![t] = h],
         plan' = plan, server' = server, counter' \in Nat
  PROVE  IInv'
<1>1. TypeOK'
  BY DEF IInv, TypeOK, Good
<1>2. \A u \in Threads : thread'[u] = IF u = t THEN h ELSE thread[u]
  BY DEF IInv, TypeOK
<1>3. ThreadInv'
  <2> SUFFICES ASSUME NEW u \in Threads PROVE Sound(thread'[u])
    BY DEF ThreadInv
  <2> QED
    BY <1>2 DEF IInv, ThreadInv, Good
<1>4. ServerInv'
  BY DEF IInv, ServerInv
<1>5. MeetInv'
  <2> SUFFICES ASSUME NEW u \in Threads PROVE Meets(thread'[u], server'[u])
    BY DEF MeetInv
  <2> QED
    BY <1>2 DEF IInv, MeetInv, Good
<1>6. QED
  BY <1>1, <1>3, <1>4, <1>5 DEF IInv

LEMMA ServerFrame ==
  ASSUME IInv, NEW t \in Threads, NEW s, GoodServer(s, server[t]),
         server' = [server EXCEPT ![t] = s], UNCHANGED <<plan, counter, thread>>
  PROVE  IInv'
<1>1. TypeOK'
  BY DEF IInv, TypeOK, GoodServer
<1>2. \A u \in Threads : server'[u] = IF u = t THEN s ELSE server[u]
  BY DEF IInv, TypeOK
<1>3. ThreadInv'
  BY DEF IInv, ThreadInv
<1>4. ServerInv'
  <2> SUFFICES ASSUME NEW u \in Threads
               PROVE  Bound(server'[u]) /\ (server'[u].message = "address" => Announced(server'[u]))
    BY DEF ServerInv
  <2> QED
    BY <1>2 DEF IInv, ServerInv, GoodServer
<1>5. MeetInv'
  <2> SUFFICES ASSUME NEW u \in Threads PROVE Meets(thread[u], server'[u])
    BY DEF MeetInv
  <2>1. Meets(thread[u], server[u])
    BY DEF IInv, MeetInv
  <2>2. Announced(server[u]) => Announced(server'[u])
    BY <1>2 DEF GoodServer
  <2> QED
    BY <2>1, <2>2 DEF Meets
<1>6. QED
  BY <1>1, <1>3, <1>4, <1>5 DEF IInv

\* The count of its calls is all that tells a thread after a call from the
\* one the call made of it.
LEMMA CountedGood ==
  ASSUME NEW h, NEW s, Good(h, s)
  PROVE  Good([h EXCEPT !.calls = @ + 1], s)
<1> DEFINE new == [h EXCEPT !.calls = @ + 1]
<1>1. /\ new \in ThreadRecords
      /\ new.at = h.at /\ new.config = h.config /\ new.builder = h.builder /\ new.state = h.state
      /\ new.context = h.context /\ new.left = h.left /\ new.given = h.given
  BY DEF Good, ThreadRecords
<1>2. Sound(new)
  BY <1>1 DEF Good, Sound, FoldedOf
<1>3. Meets(new, s)
  BY <1>1 DEF Good, Meets
<1>4. QED
  BY <1>1, <1>2, <1>3 DEF Good

LEMMA CalledFrame ==
  ASSUME IInv, NEW t \in Threads, NEW h, Good(h, server[t]), Called(t, h), counter' \in Nat
  PROVE  IInv'
<1>1. Good([h EXCEPT !.calls = @ + 1], server[t])
  BY CountedGood
<1>2. QED
  BY <1>1, ThreadFrame DEF Called

\* A thread of a reachable state is good.
LEMMA ThreadGood ==
  ASSUME IInv, NEW t \in Threads
  PROVE  Good(thread[t], server[t])
BY DEF IInv, TypeOK, ThreadInv, MeetInv, Good
-----------------------------------------------------------------------------
(***************************************************************************)
(* What each call makes of its thread.                                     *)
(***************************************************************************)
LEMMA ConfigGood ==
  ASSUME NEW h, NEW s, Good(h, s), h.at # "folding", NEW config \in Configs, ViewsOf(config)
  PROVE  Good([h EXCEPT !.config = config], s)
<1> DEFINE new == [h EXCEPT !.config = config]
<1>1. /\ new \in ThreadRecords
      /\ new.at = h.at /\ new.config = config /\ new.builder = h.builder /\ new.state = h.state
      /\ new.context = h.context /\ new.left = h.left /\ new.given = h.given
  BY DEF Good, ThreadRecords
<1>2. Sound(new)
  BY <1>1 DEF Good, Sound
<1>3. Meets(new, s)
  BY <1>1 DEF Good, Meets
<1>4. QED
  BY <1>1, <1>2, <1>3 DEF Good

LEMMA BuilderGood ==
  ASSUME NEW h, NEW s, Good(h, s), NEW b \in Builders, b.config = None \/ ViewsOf(b.config)
  PROVE  /\ Good([h EXCEPT !.builder = b], s)
         /\ Good([h EXCEPT !.builder = b, !.state = None], s)
<1> SUFFICES ASSUME NEW state \in {h.state, None}
             PROVE  Good([h EXCEPT !.builder = b, !.state = state], s)
  <2>1. [h EXCEPT !.builder = b] = [h EXCEPT !.builder = b, !.state = h.state]
    BY DEF Good, ThreadRecords
  <2>2. QED
    BY <2>1
<1> DEFINE new == [h EXCEPT !.builder = b, !.state = state]
<1>1. /\ new \in ThreadRecords
      /\ new.at = h.at /\ new.config = h.config /\ new.builder = b /\ new.state = state
      /\ new.context = h.context /\ new.left = h.left /\ new.given = h.given
  BY DEF Good, ThreadRecords
<1>2. Sound(new)
  BY <1>1 DEF Good, Sound, FoldedOf, StateSound
<1>3. Meets(new, s)
  BY <1>1 DEF Good, Meets
<1>4. QED
  BY <1>1, <1>2, <1>3 DEF Good

LEMMA BuildGood ==
  ASSUME NEW h, NEW s, Good(h, s), NEW state \in StateRecords, ViewsOf(state.config)
  PROVE  Good([h EXCEPT !.state = state, !.builder = NewBuilder], s)
<1> DEFINE new == [h EXCEPT !.state = state, !.builder = NewBuilder]
<1>1. /\ new \in ThreadRecords
      /\ new.at = h.at /\ new.config = h.config /\ new.builder = NewBuilder /\ new.state = state
      /\ new.context = h.context /\ new.left = h.left /\ new.given = h.given
  BY NewBuilderType DEF Good, ThreadRecords
<1>2. NewBuilder.config = None
  BY DEF NewBuilder
<1>3. Sound(new)
  BY <1>1, <1>2 DEF Good, Sound, FoldedOf, StateSound
<1>4. Meets(new, s)
  BY <1>1 DEF Good, Meets
<1>5. QED
  BY <1>1, <1>3, <1>4 DEF Good

LEMMA ContextGood ==
  ASSUME NEW h, NEW s, Good(h, s), NEW context \in Contexts, ContextSound(context),
         context.kind = "standalone" => Announced(s)
  PROVE  /\ Good([h EXCEPT !.context = context], s)
         /\ Good([h EXCEPT !.context = context, !.state = None], s)
<1> SUFFICES ASSUME NEW state \in {h.state, None}
             PROVE  Good([h EXCEPT !.context = context, !.state = state], s)
  <2>1. [h EXCEPT !.context = context] = [h EXCEPT !.context = context, !.state = h.state]
    BY DEF Good, ThreadRecords
  <2>2. QED
    BY <2>1
<1> DEFINE new == [h EXCEPT !.context = context, !.state = state]
<1>1. /\ new \in ThreadRecords
      /\ new.at = h.at /\ new.config = h.config /\ new.builder = h.builder /\ new.state = state
      /\ new.context = context /\ new.left = h.left /\ new.given = h.given
  BY DEF Good, ThreadRecords
<1>2. Sound(new)
  BY <1>1 DEF Good, Sound, FoldedOf, StateSound
<1>3. Meets(new, s)
  BY <1>1 DEF Good, Meets
<1>4. QED
  BY <1>1, <1>2, <1>3 DEF Good

LEMMA TaskGood ==
  ASSUME NEW h, NEW s, Good(h, s), NEW task \in Tasks, NEW at \in {h.at, "free"}
  PROVE  Good([h EXCEPT !.at = at, !.task = task], s)
<1> DEFINE new == [h EXCEPT !.at = at, !.task = task]
<1>1. /\ new \in ThreadRecords
      /\ new.at = at /\ new.config = h.config /\ new.builder = h.builder /\ new.state = h.state
      /\ new.context = h.context /\ new.left = h.left /\ new.given = h.given
  BY DEF Good, ThreadRecords, ThreadPc
<1>2. Sound(new)
  BY <1>1 DEF Good, Sound, FoldedOf
<1>3. Meets(new, s)
  BY <1>1 DEF Good, Meets
<1>4. QED
  BY <1>1, <1>2, <1>3 DEF Good

\* A call that goes on, or returns without a context.
LEMMA AtGood ==
  ASSUME NEW h, NEW s, Good(h, s), NEW at \in {"free", "connecting", "asking"},
         at = "connecting" => h.at = "receiving",
         at # "free" => Announced(s)
  PROVE  Good([h EXCEPT !.at = at], s)
<1> DEFINE new == [h EXCEPT !.at = at]
<1>1. /\ new \in ThreadRecords
      /\ new.at = at /\ new.config = h.config /\ new.builder = h.builder /\ new.state = h.state
      /\ new.context = h.context /\ new.left = h.left /\ new.given = h.given
  BY DEF Good, ThreadRecords, ThreadPc
<1>2. Sound(new)
  BY <1>1 DEF Good, Sound
<1>3. Meets(new, s)
  BY <1>1 DEF Good, Meets
<1>4. QED
  BY <1>1, <1>2, <1>3 DEF Good
-----------------------------------------------------------------------------
(***************************************************************************)
(* Every step.                                                             *)
(***************************************************************************)
LEMMA SettersKeep ==
  ASSUME IInv, NEW t \in Threads, SetTargetPartitions(t) \/ SetBatchSize(t) \/ Set(t)
  PROVE  IInv'
<1> DEFINE h == thread[t]
<1>1. Good(h, server[t]) /\ counter \in Nat /\ plan \in Plans
  BY ThreadGood DEF IInv, TypeOK
<1>2. h.at = "free" /\ counter' = counter
  BY DEF SetTargetPartitions, SetBatchSize, Set, Calls
<1>3. h.config \in Configs /\ ViewsOf(h.config)
  BY <1>1 DEF Good, Sound, ThreadRecords
<1> DEFINE After(config) == Called(t, [h EXCEPT !.config = config])
<1>4. ASSUME NEW config, NEW key \in Keys, NEW text \in Texts, Written(h.config, config, key, text), After(config)
      PROVE  IInv'
  <2>1. config \in Configs /\ ViewsOf(config)
    BY <1>3, <1>4, WrittenSound DEF Written
  <2>2. Good([h EXCEPT !.config = config], server[t])
    BY <1>1, <1>2, <2>1, ConfigGood
  <2>3. QED
    BY <1>1, <1>2, <1>4, <2>2, CalledFrame
<1>5. CASE SetTargetPartitions(t)
  <2>1. PICK n \in plan.sizes : After(WithTargetPartitions(h.config, n))
    BY <1>5 DEF SetTargetPartitions
  <2>2. n \in DOMAIN Printed
    BY <1>1, PlansAssumption
  <2>3. QED
    BY <1>3, <1>4, <2>1, <2>2, PrintedParses, KeysAssumption, WithTargetPartitionsWrites
<1>6. CASE SetBatchSize(t)
  <2>1. PICK n \in plan.sizes : After(WithBatchSize(h.config, n))
    BY <1>6 DEF SetBatchSize
  <2>2. n \in DOMAIN Printed
    BY <1>1, PlansAssumption
  <2>3. QED
    BY <1>3, <1>4, <2>1, <2>2, PrintedParses, KeysAssumption, WithBatchSizeWrites
<1>7. CASE Set(t)
  <2>1. PICK x \in plan.settings : After(WithSetting(h.config, x.key, x.text))
    BY <1>7 DEF Set
  <2>2. x.key \in Keys /\ x.text \in Texts
    BY <1>1, PlansAssumption
  <2>3. QED
    BY <1>3, <1>4, <2>1, <2>2, WithSettingWrites
<1>8. QED
  BY <1>5, <1>6, <1>7

LEMMA BuilderKeeps ==
  ASSUME IInv, NEW t \in Threads, StartBuilder(t) \/ Give(t) \/ Build(t)
  PROVE  IInv'
<1> DEFINE h == thread[t]
<1>1. Good(h, server[t]) /\ counter \in Nat /\ plan \in Plans
  BY ThreadGood DEF IInv, TypeOK
<1>2. /\ h.config \in Configs /\ ViewsOf(h.config)
      /\ h.builder \in Builders /\ (h.builder.config = None \/ ViewsOf(h.builder.config))
      /\ StateSound(h.state)
  BY <1>1 DEF Good, Sound, ThreadRecords
<1>3. ASSUME NEW b \in Builders, b.config = None \/ ViewsOf(b.config), counter' = counter,
             \/ Called(t, [h EXCEPT !.builder = b])
             \/ Called(t, [h EXCEPT !.builder = b, !.state = None])
      PROVE  IInv'
  BY <1>1, <1>3, BuilderGood, CalledFrame
<1>4. CASE StartBuilder(t)
  <2>1. CASE Called(t, [h EXCEPT !.builder = NewBuilder])
    BY <1>3, <1>4, <2>1, NewBuilderType DEF StartBuilder, NewBuilder
  <2>2. CASE h.state # None /\ Called(t, [h EXCEPT !.builder = NewFrom(h.state), !.state = None])
    <3>1. h.state \in Builders /\ ViewsOf(h.state.config)
      BY <1>2, <2>2 DEF StateSound, StateRecords, Builders, Ids
    <3>2. QED
      BY <1>3, <1>4, <2>2, <3>1 DEF StartBuilder, NewFrom
  <2>3. QED
    BY <1>4, <2>1, <2>2 DEF StartBuilder
<1>5. CASE Give(t)
  <2>1. counter' = counter
    BY <1>5 DEF Give
  <2>2. ASSUME NEW p \in plan.parts, Called(t, [h EXCEPT !.builder = With(@, p, "own")]) PROVE IInv'
    <3>1. p \in Parts /\ "own" \in Choices
      BY <1>1, PlansAssumption DEF Choices
    <3>2. With(h.builder, p, "own") \in Builders /\ With(h.builder, p, "own").config = h.builder.config
      BY <1>2, <3>1, WithType
    <3>3. QED
      BY <1>2, <1>3, <2>1, <2>2, <3>2
  <2>3. ASSUME Called(t, [h EXCEPT !.builder.config = h.config]) PROVE IInv'
    <3> DEFINE b == [h.builder EXCEPT !.config = h.config]
    <3>1. b \in Builders /\ b.config = h.config
      BY <1>2 DEF Builders
    <3>2. QED
      BY <1>2, <1>3, <2>1, <2>3, <3>1
  <2>4. ASSUME Called(t, [h EXCEPT !.builder.id = OwnId]) PROVE IInv'
    <3> DEFINE b == [h.builder EXCEPT !.id = OwnId]
    <3>1. b \in Builders /\ b.config = h.builder.config
      BY <1>2 DEF Builders, Ids
    <3>2. QED
      BY <1>2, <1>3, <2>1, <2>4, <3>1
  <2>5. QED
    BY <1>5, <2>2, <2>3, <2>4 DEF Give
<1>6. CASE Build(t)
  <2> DEFINE state == Built(h.builder, counter)
  <2>1. state \in StateRecords /\ state.config = IF h.builder.config = None THEN NewConfig ELSE h.builder.config
    BY <1>1, <1>2, BuiltType
  <2>2. ViewsOf(state.config)
    BY <1>2, <2>1, NewConfigSound
  <2>3. Good([h EXCEPT !.state = state, !.builder = NewBuilder], server[t])
    BY <1>1, <2>1, <2>2, BuildGood
  <2>4. counter' \in Nat
    BY <1>1, <1>6 DEF Build, NewSessionId
  <2>5. QED
    BY <1>6, <2>3, <2>4, CalledFrame DEF Build
<1>7. QED
  BY <1>4, <1>5, <1>6

LEMMA StartContextKeeps ==
  ASSUME IInv, NEW t \in Threads, StartContext(t)
  PROVE  IInv'
<1> DEFINE h == thread[t]
<1>1. Good(h, server[t]) /\ counter \in Nat /\ plan \in Plans /\ counter' = counter
  BY ThreadGood DEF IInv, TypeOK, StartContext
<1>2. PICK settings \in plan.maps :
        Called(t, [h EXCEPT !.at = "folding", !.config = NewConfig, !.given = settings, !.left = DOMAIN settings])
  BY DEF StartContext
<1> DEFINE new == [h EXCEPT !.at = "folding", !.config = NewConfig, !.given = settings, !.left = DOMAIN settings]
<1>3. settings \in Maps /\ DOMAIN settings \subseteq Keys
  BY <1>1, MapsType, PlansAssumption
<1>4. /\ new \in ThreadRecords
      /\ new.at = "folding" /\ new.config = NewConfig /\ new.builder = h.builder /\ new.state = h.state
      /\ new.context = h.context /\ new.left = DOMAIN settings /\ new.given = settings
  BY <1>1, <1>3, NewConfigSound DEF Good, ThreadRecords, ThreadPc
<1>5. FoldedOf(new)
  BY <1>3, <1>4, NewConfigSound DEF FoldedOf, LegacyBatch
<1>6. Good(new, server[t])
  BY <1>1, <1>4, <1>5, NewConfigSound DEF Good, Sound, Meets
<1>7. QED
  BY <1>1, <1>2, <1>6, CalledFrame

\* The batch size of a fold is that of the legacy key, as long as the map has
\* no other.
LEMMA FoldedGrows ==
  ASSUME NEW h \in ThreadRecords, FoldedOf(h), NEW key \in h.left,
         NEW config, Written(h.config, config, key, h.given[key])
  PROVE  FoldedOf([h EXCEPT !.config = config, !.left = @ \ {key}])
<1> DEFINE new == [h EXCEPT !.config = config, !.left = @ \ {key}]
<1>1. new.config = config /\ new.left = h.left \ {key} /\ new.given = h.given
  BY DEF ThreadRecords
<1> HIDE DEF new
<1>2. /\ new.given \in Maps /\ new.left \subseteq DOMAIN new.given
      /\ DOMAIN config.settings = DOMAIN new.given \ new.left
      /\ \A k \in DOMAIN config.settings : config.settings[k] = new.given[k]
  BY <1>1 DEF FoldedOf, Written
<1>3. ASSUME BatchKey \notin DOMAIN h.given PROVE config.batch = LegacyBatch(config.settings)
  <2>1. h.config.batch = LegacyBatch(h.config.settings) /\ key # BatchKey /\ key \notin DOMAIN h.config.settings
    BY <1>3 DEF FoldedOf
  <2>2. CASE key = LegacyKey
    BY <2>1, <2>2 DEF Written, LegacyBatch, Recognised
  <2>3. CASE key # LegacyKey
    BY <2>1, <2>3 DEF Written, LegacyBatch, Recognised
  <2>4. QED
    BY <2>2, <2>3
<1>4. QED
  BY <1>1, <1>2, <1>3 DEF FoldedOf, new

LEMMA FoldKeeps ==
  ASSUME IInv, NEW t \in Threads, Fold(t)
  PROVE  IInv'
<1> DEFINE h == thread[t]
<1>1. Good(h, server[t]) /\ counter \in Nat /\ h.at = "folding"
  BY ThreadGood DEF IInv, TypeOK, Fold
<1>2. h \in ThreadRecords /\ FoldedOf(h) /\ h.config \in Configs /\ ViewsOf(h.config)
  BY <1>1 DEF Good, Sound, ThreadRecords
<1>3. PICK key \in h.left : thread' = [thread EXCEPT ![t].config = WithSetting(@, key, h.given[key]),
                                                     ![t].left = @ \ {key}]
  BY DEF Fold
<1> DEFINE config == WithSetting(h.config, key, h.given[key])
           new == [h EXCEPT !.config = config, !.left = @ \ {key}]
<1>4. key \in Keys /\ h.given[key] \in Texts
  BY <1>2, MapsType DEF FoldedOf, ThreadRecords
<1>5. Written(h.config, config, key, h.given[key])
  BY <1>2, <1>4, WithSettingWrites
<1>6. config \in Configs /\ ViewsOf(config)
  BY <1>2, <1>4, <1>5, WrittenSound DEF Written
<1>7. FoldedOf(new)
  BY <1>2, <1>5, FoldedGrows
<1>8. thread' = [thread EXCEPT ![t] = new]
  BY <1>3
<1> HIDE DEF config
<1>9. /\ new \in ThreadRecords
      /\ new.at = h.at /\ new.config = config /\ new.builder = h.builder /\ new.state = h.state
      /\ new.context = h.context /\ new.given = h.given
  BY <1>2, <1>6 DEF ThreadRecords
<1>10. Good(new, server[t])
  BY <1>1, <1>6, <1>7, <1>9 DEF Good, Sound, Meets
<1>11. QED
  BY <1>1, <1>8, <1>10, ThreadFrame DEF Fold

\* A context made of a map that has been folded reads what its state says.
LEMMA NewContextSound ==
  ASSUME NEW h \in ThreadRecords, FoldedOf(h), h.left = {}, ViewsOf(h.config), NEW n \in Nat
  PROVE  /\ NewContext(h.given, h.config, n) \in Contexts
         /\ ContextSound(NewContext(h.given, h.config, n))
<1> DEFINE builder == [NewBuilder EXCEPT !.config = h.config]
           state == Built(builder, n)
           context == NewContext(h.given, h.config, n)
<1>1. h.config \in Configs /\ h.config # None
  BY NoneAssumption DEF ThreadRecords
<1>2. builder \in Builders /\ builder.config = h.config
  BY <1>1, NewBuilderType DEF Builders
<1>3. state \in StateRecords /\ state # None /\ state.config = h.config
  BY <1>1, <1>2, BuiltType
<1> HIDE DEF builder
<1>4. /\ context.kind = "single" /\ context.settings = h.given /\ context.batch = LegacyBatch(h.given)
      /\ context.state = state /\ context \in Contexts
  <2>1. context = [kind |-> "single", settings |-> h.given, batch |-> LegacyBatch(h.given),
                   tables |-> {}, state |-> state]
    BY DEF NewContext, builder
  <2>2. h.given \in Maps /\ LegacyBatch(h.given) \in Nat
    BY LegacyBatchType DEF FoldedOf
  <2> HIDE DEF context, state
  <2>3. QED
    BY <1>3, <2>1, <2>2 DEF Contexts
<1> HIDE DEF state, context
<1>5. h.config.settings = h.given
  <2>1. /\ h.config.settings \in [DOMAIN h.config.settings -> Texts]
        /\ h.given \in [DOMAIN h.given -> Texts]
    BY <1>1, MapsType DEF FoldedOf, Configs
  <2>2. DOMAIN h.config.settings = DOMAIN h.given
    BY DEF FoldedOf
  <2>3. \A k \in DOMAIN h.given : h.config.settings[k] = h.given[k]
    BY <2>2 DEF FoldedOf
  <2>4. QED
    BY <2>1, <2>2, <2>3
<1>6. BatchKey \notin DOMAIN h.given => h.config.batch = LegacyBatch(h.given)
  BY <1>5 DEF FoldedOf
<1>7. ContextSound(context)
  BY <1>3, <1>4, <1>5, <1>6 DEF ContextSound, StateSound
<1>8. QED
  BY <1>4, <1>7 DEF context

LEMMA FinishContextKeeps ==
  ASSUME IInv, NEW t \in Threads, FinishContext(t)
  PROVE  IInv'
<1> DEFINE h == thread[t]
           context == NewContext(h.given, h.config, counter)
           new == [h EXCEPT !.at = "free", !.given = None, !.config = NewConfig, !.context = context]
<1>1. Good(h, server[t]) /\ counter \in Nat /\ h.at = "folding" /\ h.left = {}
  BY ThreadGood DEF IInv, TypeOK, FinishContext
<1>2. context \in Contexts /\ ContextSound(context)
  BY <1>1, NewContextSound DEF Good, Sound
<1>3. context.kind = "single"
  BY DEF NewContext
<1>4. thread' = [thread EXCEPT ![t] = new]
  BY DEF FinishContext
<1> HIDE DEF context
<1>5. /\ new \in ThreadRecords
      /\ new.at = "free" /\ new.config = NewConfig /\ new.builder = h.builder /\ new.state = h.state
      /\ new.context = context
  BY <1>1, <1>2, NewConfigSound DEF Good, ThreadRecords, ThreadPc
<1>6. Good(new, server[t])
  BY <1>1, <1>2, <1>3, <1>5, NewConfigSound DEF Good, Sound, Meets
<1>7. counter' \in Nat
  BY <1>1 DEF FinishContext, NewSessionId
<1>8. QED
  BY <1>4, <1>6, <1>7, ThreadFrame DEF FinishContext

\* A context of a state has the settings and the batch size of the state.
LEMMA NewWithStateSound ==
  ASSUME NEW state \in StateRecords, ViewsOf(state.config),
         NEW context \in {NewWithState(state), [NewWithState(state) EXCEPT !.kind = "standalone"]}
  PROVE  context \in Contexts /\ ContextSound(context)
<1>1. state.config \in Configs /\ state # None
  BY NoneAssumption DEF StateRecords
<1>2. state.config.settings \in Maps /\ state.config.batch \in Nat
  BY <1>1 DEF Configs
<1> DEFINE Fields(c) == /\ c.settings = state.config.settings /\ c.batch = state.config.batch
                        /\ c.state = state /\ c \in Contexts
<1>3. NewWithState(state).kind = "of state" /\ Fields(NewWithState(state))
  BY <1>2 DEF NewWithState, Contexts
<1>4. ASSUME NEW c \in Contexts, Fields(c)
      PROVE  [c EXCEPT !.kind = "standalone"].kind = "standalone" /\ Fields([c EXCEPT !.kind = "standalone"])
  BY <1>4 DEF Contexts
<1>5. context.kind \in {"of state", "standalone"} /\ Fields(context)
  BY <1>3, <1>4
<1>6. QED
  BY <1>1, <1>5 DEF ContextSound, StateSound

LEMMA ContextsKeep ==
  ASSUME IInv, NEW t \in Threads, MakeOfState(t) \/ MakeParallel(t) \/ RegisterCsv(t) \/ Execute(t)
  PROVE  IInv'
<1> DEFINE h == thread[t]
<1>1. Good(h, server[t]) /\ h \in ThreadRecords /\ Sound(h) /\ counter \in Nat /\ plan \in Plans
  BY ThreadGood DEF IInv, TypeOK, Good
<1>2. counter' = counter /\ h.at = "free"
  BY DEF MakeOfState, MakeParallel, RegisterCsv, Execute, Calls
<1>3. CASE MakeOfState(t)
  <2>1. h.state \in StateRecords /\ ViewsOf(h.state.config)
    BY <1>1, <1>3 DEF MakeOfState, Sound, StateSound
  <2> DEFINE context == NewWithState(h.state)
  <2>2. context.kind = "of state"
    BY DEF NewWithState
  <2>3. context \in Contexts /\ ContextSound(context)
    BY <2>1, NewWithStateSound
  <2> HIDE DEF context
  <2>4. Good([h EXCEPT !.context = context, !.state = None], server[t])
    BY <1>1, <2>2, <2>3, ContextGood
  <2>5. QED
    BY <1>1, <1>2, <1>3, <2>4, CalledFrame DEF MakeOfState, context
<1>4. CASE MakeParallel(t)
  <2>1. PICK settings \in plan.maps : Called(t, [h EXCEPT !.context = WithParallelism(settings)])
    BY <1>4 DEF MakeParallel
  <2> DEFINE context == WithParallelism(settings)
  <2>2. settings \in Maps /\ LegacyBatch(settings) \in Nat
    BY <1>1, PlansAssumption, LegacyBatchType
  <2>3. context \in Contexts /\ context.kind = "parallel" /\ context.state = None
    BY <2>2 DEF WithParallelism, Contexts
  <2> HIDE DEF context
  <2>4. ContextSound(context)
    BY <2>3 DEF ContextSound, StateSound
  <2>5. Good([h EXCEPT !.context = context], server[t])
    BY <1>1, <2>3, <2>4, ContextGood
  <2>6. QED
    BY <1>1, <1>2, <2>1, <2>5, CalledFrame DEF context
<1>5. CASE RegisterCsv(t)
  <2> DEFINE old == h.context
             context == [old EXCEPT !.tables = @ \cup {old.batch}]
  <2>1. old \in Contexts /\ ContextSound(old)
    BY <1>1, <1>5 DEF RegisterCsv, ThreadRecords, Sound
  <2>2. /\ context \in Contexts /\ context.kind = old.kind /\ context.settings = old.settings
        /\ context.batch = old.batch /\ context.state = old.state
    BY <2>1 DEF Contexts
  <2>3. ContextSound(context)
    BY <2>1, <2>2 DEF ContextSound
  <2>4. old.kind = "standalone" => Announced(server[t])
    BY <1>1, <1>5 DEF RegisterCsv, Good, Meets
  <2>5. Called(t, [h EXCEPT !.context = context])
    BY <1>5 DEF RegisterCsv
  <2> HIDE DEF context
  <2>6. Good([h EXCEPT !.context = context], server[t])
    BY <1>1, <2>2, <2>3, <2>4, ContextGood
  <2>7. QED
    BY <1>1, <1>2, <2>5, <2>6, CalledFrame
<1>6. CASE Execute(t)
  <2> DEFINE task == TaskCtx(h.context)
  <2>1. h.context \in Contexts /\ ContextSound(h.context)
    BY <1>1, <1>6 DEF Execute, ThreadRecords, Sound
  <2>2. h.context.kind # "parallel" => h.context.state \in StateRecords
    BY <2>1 DEF ContextSound, Contexts
  <2>3. task \in Tasks
    BY <2>2, NewConfigSound, PartsAssumption DEF TaskCtx, Tasks, StateRecords, Choices, Ids
  <2>4. Called(t, [h EXCEPT !.at = h.at, !.task = task])
    <3>1. [h EXCEPT !.at = h.at, !.task = task] = [h EXCEPT !.task = task]
      BY <1>1 DEF ThreadRecords
    <3>2. QED
      BY <1>6, <3>1 DEF Execute
  <2>5. Good([h EXCEPT !.at = h.at, !.task = task], server[t])
    BY <1>1, <2>3, TaskGood
  <2>6. QED
    BY <1>1, <1>2, <2>4, <2>5, CalledFrame
<1>7. QED
  BY <1>3, <1>4, <1>5, <1>6

LEMMA ReceivingType ==
  ASSUME NEW h \in ThreadRecords, NEW given \in StateRecords \cup {None}
  PROVE  LET new == [h EXCEPT !.at = "receiving", !.calls = @ + 1, !.given = given, !.state = None]
         IN  /\ new \in ThreadRecords
             /\ new.at = "receiving" /\ new.config = h.config /\ new.builder = h.builder /\ new.state = None
             /\ new.context = h.context /\ new.given = given
<1> DEFINE calls == h.calls + 1
           new == [h EXCEPT !.at = "receiving", !.calls = calls, !.given = given, !.state = None]
<1>1. calls \in Nat
  BY DEF ThreadRecords
<1> HIDE DEF calls
<1>2. new \in ThreadRecords
  BY <1>1 DEF ThreadRecords, ThreadPc
<1>3. /\ new.at = "receiving" /\ new.config = h.config /\ new.builder = h.builder /\ new.state = None
      /\ new.context = h.context /\ new.given = given
  BY DEF ThreadRecords
<1>4. QED
  BY <1>2, <1>3 DEF calls

LEMMA StandaloneKeeps ==
  ASSUME IInv, NEW t \in Threads, StartStandalone(t) \/ Remote(t) \/ Ask(t)
  PROVE  IInv'
<1> DEFINE h == thread[t]
<1>1. Good(h, server[t]) /\ h \in ThreadRecords /\ Sound(h) /\ counter \in Nat
  BY ThreadGood DEF IInv, TypeOK, Good
<1>2. counter' = counter /\ h.at = "free"
  BY DEF StartStandalone, Remote, Ask, Calls
<1>3. CASE StartStandalone(t)
  <2>1. PICK given \in {None, h.state} :
          thread' = [thread EXCEPT ![t].at = "receiving", ![t].calls = @ + 1, ![t].given = given, ![t].state = None]
    BY <1>3 DEF StartStandalone
  <2> DEFINE new == [h EXCEPT !.at = "receiving", !.calls = @ + 1, !.given = given, !.state = None]
  <2>2. server[t].at = "none" /\ server' = [server EXCEPT ![t] = Spawned] /\ plan' = plan
    BY <1>3 DEF StartStandalone
  <2>3. thread' = [thread EXCEPT ![t] = new]
    BY <2>1
  <2>4. /\ new \in ThreadRecords
        /\ new.at = "receiving" /\ new.config = h.config /\ new.builder = h.builder /\ new.state = None
        /\ new.context = h.context /\ new.given = given
    BY <1>1, ReceivingType DEF ThreadRecords
  <2>5. StateSound(given)
    BY <1>1 DEF Sound, StateSound
  <2>6. Sound(new)
    BY <1>1, <2>4, <2>5 DEF Sound, StateSound
  <2>7. ~Announced(server[t])
    BY <2>2 DEF Announced
  <2>8. GoodServer(Spawned, server[t])
    BY <2>7, NoneAssumption DEF GoodServer, Spawned, NoServer, ServerRecords, ServerPc, Bound, Announced
  <2>9. h.context = None \/ h.context.kind # "standalone"
    BY <1>1, <2>7 DEF Good, Meets
  <2>10. Good(new, Spawned)
    BY <2>4, <2>6, <2>9 DEF Good, Meets
  <2> HIDE DEF new
  <2>11. \A u \in Threads : /\ thread'[u] = IF u = t THEN new ELSE thread[u]
                            /\ server'[u] = IF u = t THEN Spawned ELSE server[u]
    BY <2>2, <2>3 DEF IInv, TypeOK
  <2>12. TypeOK'
    BY <1>2, <2>2, <2>3, <2>4, <2>8 DEF IInv, TypeOK, GoodServer
  <2>13. ThreadInv'
    BY <2>10, <2>11 DEF IInv, ThreadInv, Good
  <2>14. ServerInv'
    BY <2>8, <2>11 DEF IInv, ServerInv, GoodServer
  <2>15. MeetInv'
    BY <2>10, <2>11 DEF IInv, MeetInv, Good
  <2>16. QED
    BY <2>12, <2>13, <2>14, <2>15 DEF IInv
<1>4. CASE Remote(t)
  BY <1>1, <1>2, <1>4, CalledFrame DEF Remote
<1>5. CASE Ask(t)
  <2>1. Announced(server[t])
    BY <1>1, <1>5 DEF Ask, Good, Meets
  <2>2. Good([h EXCEPT !.at = "asking"], server[t])
    BY <1>1, <2>1, AtGood
  <2>3. QED
    BY <1>1, <1>2, <1>5, <2>2, CalledFrame DEF Ask
<1>6. QED
  BY <1>3, <1>4, <1>5

LEMMA ServerKeeps ==
  ASSUME IInv, NEW t \in Threads,
         Fail(t) \/ BuildRuntime(t) \/ Bind(t) \/ SendAddress(t) \/ Serve(t)
  PROVE  IInv'
<1> DEFINE s == server[t]
<1>1. s \in ServerRecords /\ Bound(s) /\ (s.message = "address" => Announced(s))
  BY DEF IInv, TypeOK, ServerInv
<1>2. CASE Fail(t)
  <2> DEFINE new == [at |-> "ended", message |-> "error", listening |-> FALSE]
  <2>1. ~Announced(s) /\ ServerStep(t, s.at, new)
    BY <1>2 DEF Fail, ServerStep, Announced
  <2>2. GoodServer(new, s)
    BY <2>1 DEF GoodServer, ServerRecords, ServerPc, Bound
  <2>3. QED
    BY <2>1, <2>2, ServerFrame DEF ServerStep
<1>3. CASE BuildRuntime(t)
  <2>1. GoodServer([s EXCEPT !.at = "runtime"], s)
    BY <1>1, <1>3 DEF BuildRuntime, ServerStep, GoodServer, ServerRecords, ServerPc, Bound, Announced
  <2>2. QED
    BY <1>3, <2>1, ServerFrame DEF BuildRuntime, ServerStep
<1>4. CASE Bind(t)
  <2>1. GoodServer([s EXCEPT !.at = "bound", !.listening = TRUE], s)
    BY <1>1, <1>4 DEF Bind, ServerStep, GoodServer, ServerRecords, ServerPc, Bound, Announced
  <2>2. QED
    BY <1>4, <2>1, ServerFrame DEF Bind, ServerStep
<1>5. CASE SendAddress(t)
  <2>1. GoodServer([s EXCEPT !.at = "sent", !.message = "address"], s)
    BY <1>1, <1>5 DEF SendAddress, ServerStep, GoodServer, ServerRecords, ServerPc, Bound, Announced
  <2>2. QED
    BY <1>5, <2>1, ServerFrame DEF SendAddress, ServerStep
<1>6. CASE Serve(t)
  <2>1. GoodServer([s EXCEPT !.at = "serving"], s)
    BY <1>1, <1>6 DEF Serve, ServerStep, GoodServer, ServerRecords, ServerPc, Bound, Announced
  <2>2. QED
    BY <1>6, <2>1, ServerFrame DEF Serve, ServerStep
<1>7. QED
  BY <1>2, <1>3, <1>4, <1>5, <1>6

\* What a standalone context is made of: the default state, or the caller's,
\* with the planner for executors and all else as it was.
LEMMA UpgradedType ==
  ASSUME NEW given \in StateRecords \cup {None}, given # None => ViewsOf(given.config),
         NEW n \in Nat
  PROVE  LET builder == IF given = None THEN NewDistributedState ELSE UpgradeForDistributed(given)
             state   == Built(builder, n)
         IN  /\ state \in StateRecords /\ ViewsOf(state.config)
             /\ NewSessionId(builder) \in {counter, counter + 1}
             /\ given # None =>
                  /\ state.parts[Planner] = "distributed"
                  /\ \A p \in Parts \ {Planner} : state.parts[p] = given.parts[p]
                  /\ state.id = given.id
                  /\ state.config = given.config
<1> DEFINE builder == IF given = None THEN NewDistributedState ELSE UpgradeForDistributed(given)
           state   == Built(builder, n)
<1>1. Planner \in Parts /\ "distributed" \in Choices /\ NewBuilder.config = None
  BY PartsAssumption DEF Planner, Choices, NewBuilder
<1>2. CASE given = None
  <2>1. builder \in Builders /\ builder.config = None
    BY <1>1, <1>2, NewBuilderType, WithType DEF NewDistributedState
  <2>2. QED
    BY <1>2, <2>1, BuiltType, NewConfigSound DEF NewSessionId
<1>3. CASE given # None
  <2>1. given \in Builders /\ given.id # None /\ given.config # None /\ given.parts \in [Parts -> Choices]
    BY <1>3, NoneAssumption DEF StateRecords, Builders, Ids
  <2>2. /\ builder \in Builders /\ builder.config = given.config /\ builder.id = given.id
        /\ builder.parts = [given.parts EXCEPT ![Planner] = "distributed"]
    BY <1>1, <1>3, <2>1, WithType DEF UpgradeForDistributed, NewFrom, With, Builders
  <2> HIDE DEF builder
  <2>3. state \in StateRecords /\ state.config = given.config /\ ViewsOf(state.config)
    BY <1>3, <2>1, <2>2, BuiltType
  <2>4. state.id = given.id
    BY <2>1, <2>2 DEF Built
  <2>5. \A p \in Parts : state.parts[p] = IF p = Planner THEN "distributed" ELSE given.parts[p]
    <3>1. \A p \in Parts : builder.parts[p] = IF p = Planner THEN "distributed" ELSE given.parts[p]
      BY <1>1, <2>1, <2>2
    <3>2. \A p \in Parts : builder.parts[p] # None
      BY <1>1, <2>1, <3>1, NoneAssumption
    <3>3. QED
      BY <3>1, <3>2 DEF Built
  <2>6. NewSessionId(builder) = counter
    BY <2>1, <2>2 DEF NewSessionId
  <2>7. QED
    BY <1>1, <2>3, <2>4, <2>5, <2>6 DEF builder
<1>4. QED
  BY <1>2, <1>3

LEMMA AnswersKeep ==
  ASSUME IInv, NEW t \in Threads, Receive(t) \/ Connect(t) \/ Answer(t)
  PROVE  IInv'
<1> DEFINE h == thread[t]
<1>1. Good(h, server[t]) /\ h \in ThreadRecords /\ Sound(h) /\ counter \in Nat
  BY ThreadGood DEF IInv, TypeOK, Good
<1>2. CASE Receive(t)
  <2> DEFINE at == IF server[t].message = "address" THEN "connecting" ELSE "free"
  <2>1. h.at = "receiving" /\ thread' = [thread EXCEPT ![t] = [h EXCEPT !.at = at]]
    BY <1>2 DEF Receive
  <2>2. at # "free" => Announced(server[t])
    BY DEF IInv, ServerInv
  <2>3. Good([h EXCEPT !.at = at], server[t])
    BY <1>1, <2>1, <2>2, AtGood
  <2> HIDE DEF at
  <2>4. QED
    BY <1>1, <1>2, <2>1, <2>3, ThreadFrame DEF Receive
<1>3. CASE Connect(t)
  <2>1. h.at = "connecting" /\ StateSound(h.given) /\ Announced(server[t])
    BY <1>1, <1>3 DEF Connect, Sound, Good, Meets
  <2>2. Good([h EXCEPT !.at = "free"], server[t])
    BY <1>1, AtGood
  <2>3. CASE thread' = [thread EXCEPT ![t].at = "free"] /\ UNCHANGED counter
    BY <1>1, <1>3, <2>2, <2>3, ThreadFrame DEF Connect
  <2> DEFINE builder == IF h.given = None THEN NewDistributedState ELSE UpgradeForDistributed(h.given)
             made    == NewWithState(Built(builder, counter))
             context == [made EXCEPT !.kind = "standalone"]
  <2>4. CASE /\ thread' = [thread EXCEPT ![t].at = "free", ![t].context = context]
             /\ counter' = NewSessionId(builder)
    <3>1. /\ Built(builder, counter) \in StateRecords
          /\ ViewsOf(Built(builder, counter).config)
          /\ NewSessionId(builder) \in {counter, counter + 1}
      BY <1>1, <2>1, UpgradedType DEF StateSound
    <3> HIDE DEF builder
    <3>2. context \in Contexts /\ ContextSound(context)
      BY <3>1, NewWithStateSound
    <3> HIDE DEF context
    <3>3. Good([[h EXCEPT !.at = "free"] EXCEPT !.context = context], server[t])
      BY <2>1, <2>2, <3>2, ContextGood
    <3>4. thread' = [thread EXCEPT ![t] = [[h EXCEPT !.at = "free"] EXCEPT !.context = context]]
      BY <2>4
    <3>5. counter' \in Nat
      BY <1>1, <2>4, <3>1
    <3>6. QED
      BY <1>3, <3>3, <3>4, <3>5, ThreadFrame DEF Connect
  <2>5. QED
    BY <1>3, <2>3, <2>4 DEF Connect
<1>4. CASE Answer(t)
  <2>1. ExecutorCtx \in Tasks
    BY NewConfigSound DEF ExecutorCtx, Tasks, Choices
  <2>2. Good([h EXCEPT !.at = "free", !.task = ExecutorCtx], server[t])
    BY <1>1, <2>1, TaskGood
  <2>3. thread' = [thread EXCEPT ![t] = [h EXCEPT !.at = "free", !.task = ExecutorCtx]]
    BY <1>4 DEF Answer
  <2>4. QED
    BY <1>1, <1>4, <2>2, <2>3, ThreadFrame DEF Answer
<1>5. QED
  BY <1>2, <1>3, <1>4
-----------------------------------------------------------------------------
(***************************************************************************)
(* The theorems.                                                           *)
(***************************************************************************)
LEMMA InitKeeps == Init => IInv
<1> SUFFICES ASSUME Init PROVE IInv
  OBVIOUS
<1>1. Idle \in ThreadRecords
  BY NewConfigSound, NewBuilderType DEF Idle, ThreadRecords, ThreadPc
<1>2. NoServer \in ServerRecords
  BY DEF NoServer, ServerRecords, ServerPc
<1>3. TypeOK
  BY <1>1, <1>2 DEF Init, TypeOK
<1>4. Sound(Idle)
  BY NewConfigSound DEF Sound, Idle, StateSound, NewBuilder
<1>5. Bound(NoServer) /\ NoServer.message # "address"
  BY NoneAssumption DEF NoServer, Bound
<1>6. Meets(Idle, NoServer)
  BY DEF Meets, Idle
<1>7. QED
  BY <1>3, <1>4, <1>5, <1>6 DEF Init, IInv, ThreadInv, ServerInv, MeetInv

LEMMA StepKeeps == IInv /\ [Next]_vars => IInv'
<1> SUFFICES ASSUME IInv, [Next]_vars PROVE IInv'
  OBVIOUS
<1>1. CASE UNCHANGED vars
  BY <1>1 DEF vars, IInv, TypeOK, ThreadInv, ServerInv, MeetInv
<1>2. ASSUME NEW t \in Threads, CallSteps(t) PROVE IInv'
  BY <1>2, SettersKeep, BuilderKeeps, StartContextKeeps, ContextsKeep, StandaloneKeeps DEF CallSteps
<1>3. ASSUME NEW t \in Threads, RunSteps(t) PROVE IInv'
  BY <1>3, FoldKeeps, FinishContextKeeps, AnswersKeep DEF RunSteps
<1>4. ASSUME NEW t \in Threads, ServerSteps(t) PROVE IInv'
  BY <1>4, ServerKeeps, AnswersKeep DEF ServerSteps
<1>5. QED
  BY <1>1, <1>2, <1>3, <1>4 DEF Next

\* The states of Sessions have the types of their variables, and the inductive
\* invariant of the theorems below holds in all of them.
THEOREM Invariant == Spec => []IInv
<1>1. QED
  BY InitKeeps, StepKeeps, PTL DEF Spec

\* The typed options and the string map of every configuration agree
\* (task_context.rs 99-157).
THEOREM ViewsAlwaysAgree == Spec => []ViewsAgree
<1>1. IInv => ViewsAgree
  <2> SUFFICES ASSUME IInv, NEW config \in ConfigsHeld PROVE ViewsOf(config)
    BY DEF ViewsAgree
  <2>1. \A t \in Threads : /\ ViewsOf(thread[t].config)
                           /\ StateSound(thread[t].state)
                           /\ thread[t].context # None => StateSound(thread[t].context.state)
    BY DEF IInv, ThreadInv, Sound, ContextSound
  <2>2. \A s \in States : s # None => ViewsOf(s.config)
    BY <2>1 DEF States, StateSound
  <2>3. QED
    BY <2>1, <2>2 DEF ConfigsHeld
<1>2. QED
  BY <1>1, Invariant, PTL

\* A context reads batches of the size its state says, unless its map has the
\* key that only the state reads (session_context.rs 66-104).
THEOREM BatchSizesAlwaysAgree == Spec => []BatchSizesAgree
<1>1. IInv => BatchSizesAgree
  BY DEF BatchSizesAgree, IInv, ThreadInv, Sound, ContextSound
<1>2. QED
  BY <1>1, Invariant, PTL

\* A setting given to a session context reaches the tasks of its queries
\* (SessionContext::new, task_ctx).
THEOREM SettingsAlwaysReachTasks == Spec => []SettingsReachTasks
<1>1. IInv => SettingsReachTasks
  BY DEF SettingsReachTasks, TaskCtx, IInv, ThreadInv, Sound, ContextSound
<1>2. QED
  BY <1>1, Invariant, PTL

\* Who was sent an address finds a socket that listens (standalone.rs 82-113).
THEOREM NobodyIsEverRefused == Spec => []NobodyIsRefused
<1>1. IInv => NobodyIsRefused
  BY DEF NobodyIsRefused, IInv, ServerInv, MeetInv, Meets, Bound, Announced
<1>2. QED
  BY <1>1, Invariant, PTL

\* A step of one thread is of no other.
LEMMA OthersStay ==
  ASSUME TypeOK, NEW t \in Threads, NEW u \in Threads \ {t},
         CallSteps(u) \/ RunSteps(u) \/ ServerSteps(u)
  PROVE  thread'[t] = thread[t]
<1>1. CASE CallSteps(u)
  BY <1>1 DEF TypeOK, CallSteps, Called, SetTargetPartitions, SetBatchSize, Set, StartBuilder, Give,
              Build, StartContext, MakeOfState, MakeParallel, RegisterCsv, Execute, StartStandalone,
              Remote, Ask
<1>2. CASE RunSteps(u)
  BY <1>2 DEF TypeOK, RunSteps, Fold, FinishContext, Receive, Connect
<1>3. CASE ServerSteps(u)
  BY <1>3 DEF TypeOK, ServerSteps, ServerStep, Fail, BuildRuntime, Bind, SendAddress, Serve, Answer
<1>4. QED
  BY <1>1, <1>2, <1>3

\* A thread that has an address either connects or waits.
LEMMA ConnectsNext ==
  ASSUME TypeOK, NEW t \in Threads, thread[t].at = "connecting", [Next]_vars,
         thread'[t] # thread[t]
  PROVE  Connect(t)
<1>1. PICK u \in Threads : CallSteps(u) \/ RunSteps(u) \/ ServerSteps(u)
  BY DEF Next, vars
<1>2. u = t
  BY <1>1, OthersStay
<1>3. ~CallSteps(t)
  BY DEF CallSteps, Calls, SetTargetPartitions, SetBatchSize, Set, StartBuilder, Give, Build, StartContext,
         MakeOfState, MakeParallel, RegisterCsv, Execute, StartStandalone, Remote, Ask
<1>4. ~ServerSteps(t)
  BY DEF ServerSteps, ServerStep, Fail, BuildRuntime, Bind, SendAddress, Serve, Answer
<1>5. QED
  BY <1>1, <1>2, <1>3, <1>4 DEF RunSteps, Fold, FinishContext, Receive

\* standalone_with_state changes the planner of the state it is given and
\* nothing else (upgrade_for_distributed).
THEOREM GivenStateIsAlwaysKept == Spec => GivenStateIsKept
<1> DEFINE Kept(t) ==
      thread[t].at = "connecting" /\ thread'[t].context # thread[t].context /\ thread[t].given # None
      => LET given == thread[t].given
             state == thread'[t].context.state
         IN /\ state.parts[Planner] = "distributed"
            /\ \A p \in Parts \ {Planner} : state.parts[p] = given.parts[p]
            /\ state.id = given.id
            /\ state.config = given.config
            /\ thread'[t].context.settings = given.config.settings
<1>1. IInv /\ [Next]_vars => \A t \in Threads : Kept(t)
  <2> SUFFICES ASSUME IInv, [Next]_vars, NEW t \in Threads, thread[t].at = "connecting",
                      thread'[t].context # thread[t].context, thread[t].given # None
               PROVE  Kept(t)
    OBVIOUS
  <2> DEFINE given == thread[t].given
             builder == UpgradeForDistributed(given)
             state == Built(builder, counter)
  <2>1. Connect(t)
    BY ConnectsNext DEF IInv
  <2>2. given \in StateRecords /\ ViewsOf(given.config) /\ counter \in Nat
    BY DEF IInv, TypeOK, ThreadInv, Sound, StateSound
  <2>3. /\ state.parts[Planner] = "distributed"
        /\ \A p \in Parts \ {Planner} : state.parts[p] = given.parts[p]
        /\ state.id = given.id
        /\ state.config = given.config
    BY <2>2, UpgradedType
  <2>4. thread'[t].context = [NewWithState(state) EXCEPT !.kind = "standalone"]
    BY <2>1 DEF Connect, IInv, TypeOK, ThreadRecords
  <2> HIDE DEF state
  <2>5. thread'[t].context.state = state /\ thread'[t].context.settings = state.config.settings
    BY <2>4 DEF NewWithState
  <2>6. QED
    BY <2>3, <2>5
<1>2. QED
  BY <1>1, Invariant, PTL DEF Spec, GivenStateIsKept
=============================================================================
