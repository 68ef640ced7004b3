--------------------------- MODULE HotConfigProofs ----------------------------
(***************************************************************************)
(* Theorems about HotConfig, for any texts, replies and endpoints and any  *)
(* number of threads, saves and reloads.                                   *)
(***************************************************************************)
EXTENDS HotConfig, TLAPS

-----------------------------------------------------------------------------
(* Types. *)

LEMMA BlankType == Blank \in Setting
  BY SettingsAssumption DEF Blank

\* A table names an adapter and a profile, whatever it holds.
LEMMA AdapterType == \A toml : Backend(toml) \in Adapters
  BY DEF Backend, OrElse, Adapters

LEMMA ProfileType == \A toml : Profile(toml) \in Profiles
  BY ProfilesAssumption DEF Profile, OrElse

LEMMA WarningsType == \A toml, profile, info : Warnings(toml, profile, info) \in SUBSET Kinds
  BY DEF Warnings, Kinds

\* An answer is a fact of its adapter, also after the tokenizer was asked.
LEMMA HeardType ==
  ASSUME NEW b \in Adapters, NEW reply
  PROVE  /\ Heard(b, reply).backend = b
         /\ {"backend", "status", "slot", "limit", "eos", "bias"} \subseteq DOMAIN Heard(b, reply)
  BY DEF Heard, FromProps, FromModels, Unverified, Adapters

LEMMA InfoType ==
  ASSUME NEW b \in Adapters
  PROVE  Unverified(b) \in Infos /\ \A reply \in Replies(b) : Heard(b, reply) \in Infos
<1>1. Unverified(b) \in HeardInfos
  BY DEF HeardInfos
<1>2. ASSUME NEW reply \in Replies(b) PROVE Heard(b, reply) \in HeardInfos
  <2>1. Heard(b, reply) \in {Heard(b, r) : r \in Replies(b)}
    OBVIOUS
  <2>2. Heard(b, reply) \in UNION {{Heard(c, r) : r \in Replies(c)} : c \in Adapters}
    BY <2>1
  <2> QED BY <2>2 DEF HeardInfos
<1> QED BY <1>1, <1>2 DEF Infos

LEMMA ResolvedType ==
  ASSUME NEW info \in Infos, NEW found \in BOOLEAN
  PROVE  Resolved(info, found) \in Infos
<1>1. ASSUME NEW i \in HeardInfos
      PROVE  i.backend \in Adapters /\ {"backend", "eos", "bias"} \subseteq DOMAIN i
  BY HeardType DEF HeardInfos, Unverified
<1>2. PICK i \in HeardInfos : info = i \/ info = Resolved(i, TRUE)
  BY DEF Infos
<1>3. info = i \/ info = [i EXCEPT !.bias = i.eos]
  BY <1>2 DEF Resolved
<1>4. CASE found
  <2>1. Resolved(info, found) = [info EXCEPT !.bias = info.eos]
    BY <1>4 DEF Resolved
  <2>2. info.eos = i.eos
    BY <1>1, <1>3
  <2>3. [info EXCEPT !.bias = info.eos] = [i EXCEPT !.bias = i.eos]
    BY <1>1, <1>3, <2>2
  <2> QED BY <2>1, <2>3 DEF Infos, Resolved
<1>5. CASE ~found
  <2>1. Resolved(info, found) \in {info, Unverified(info.backend)}
    BY <1>5 DEF Resolved
  <2>2. info.backend = i.backend
    BY <1>1, <1>3
  <2> QED BY <1>1, <2>1, <2>2, InfoType
<1> QED BY <1>4, <1>5

LEMMA OutcomesType ==
  ASSUME NEW heard \in Infos, NEW info \in Outcomes(heard)
  PROVE  info \in Infos
  BY ResolvedType DEF Outcomes

LEMMA LearnedType ==
  ASSUME NEW e \in Endpoints, NEW b \in Adapters
  PROVE  Learned(e, b) \subseteq Infos
<1>1. ASSUME NEW reply \in Says[e, b]
      PROVE  Heard(b, reply) \in Infos
  <2>1. reply \in Replies(b)
    BY DEF Replies
  <2> QED BY <2>1, InfoType
<1> QED
  BY <1>1, OutcomesType DEF Learned

LEMMA WithType ==
  ASSUME NEW s \in Setting
  PROVE  With(s) \in Data /\ Loaded(s) \in ConfigState
  BY ProfileType DEF With, Loaded, Data, ConfigState

LEMMA FreshType == Fresh \in Local
<1>1. With(Blank) \in Data /\ Loaded(Blank) \in ConfigState
  BY BlankType, WithType
<1>2. [endpoint |-> Blank.endpoint, backend |-> "vllm", generation |-> 1] \in Key
  BY BlankType DEF Setting, Key, Adapters
<1>3. Unasked \in Fact
  BY InfoType DEF Unasked, Fact, Adapters
<1> QED
  BY <1>1, <1>2, <1>3 DEF Fresh, Local, Pcs, Rets

\* A thread that calls or returns from maybe_reload keeps nothing but its place.
LEMMA OnlyType ==
  ASSUME TypeOK, NEW t \in Threads, NEW pc \in Pcs, NEW ret \in Rets, NEW b \in BOOLEAN,
         Only(t, pc, ret, b)
  PROVE  /\ loc' \in [Threads -> Local]
         /\ loc'[t].pc = pc
         /\ \A u \in Threads : u # t => loc'[u] = loc[u]
<1> DEFINE new == [Fresh EXCEPT !.pc = pc, !.ret = ret, !.reloaded = b, !.defers = loc[t].defers]
<1>1. loc[t].defers \in BOOLEAN /\ loc \in [Threads -> Local]
  BY DEF TypeOK, Local
<1>2. new \in Local /\ new.pc = pc
  BY <1>1, FreshType DEF Local
<1>3. loc' = [loc EXCEPT ![t] = new]
  BY DEF Only
<1> QED
  BY <1>1, <1>2, <1>3

LEMMA GoType ==
  ASSUME TypeOK, NEW t \in Threads, NEW pc \in Pcs, Go(t, pc)
  PROVE  /\ loc' \in [Threads -> Local]
         /\ loc'[t] = [loc[t] EXCEPT !.pc = pc]
         /\ loc'[t].pc = pc
         /\ \A u \in Threads : u # t => loc'[u] = loc[u]
  BY DEF TypeOK, Local, Go

LEMMA MineType ==
  ASSUME TypeOK, NEW t \in Threads
  PROVE  /\ Home[t] \in Processes
         /\ Mine(t) \in ConfigState
         /\ Endpoint(t) \in Endpoints
         /\ loc[t] \in Local
  BY HomeAssumption DEF TypeOK, Mine, Endpoint, ConfigState, Data, Setting

-----------------------------------------------------------------------------
(* TypeOK. *)

LEMMA InitTyped == Init => TypeOK
<1> SUFFICES ASSUME Init PROVE TypeOK
  OBVIOUS
<1>1. PICK s \in {x \in Settings : Opens(x.toml)} :
        /\ file = [data |-> With(s), mtime |-> 0]
        /\ tmp = {} /\ clock = 0 /\ saves = 0
        /\ cfg = [p \in Processes |-> Loaded(s)]
        /\ entry = [p \in Processes |-> {}]
        /\ acked = {}
  BY DEF Init
<1>2. s \in Setting
  BY SettingsAssumption
<1>3. With(s) \in Data /\ Loaded(s) \in ConfigState
  BY <1>2, WithType
<1>4. loc \in [Threads -> Local]
  <2>1. PICK defers \in [Threads -> BOOLEAN], pc \in [Threads -> {"turn", "start"}] :
          loc = [t \in Threads |-> [Fresh EXCEPT !.pc = pc[t], !.defers = defers[t]]]
    BY DEF Init
  <2>2. ASSUME NEW t \in Threads
        PROVE  [Fresh EXCEPT !.pc = pc[t], !.defers = defers[t]] \in Local
    BY FreshType DEF Local, Pcs
  <2> QED BY <2>1, <2>2
<1>5. file \in File
  BY <1>1, <1>3 DEF File
<1>6. cfg \in [Processes -> ConfigState]
  BY <1>1, <1>3
<1>7. \A q \in Processes : cfg[q].runtime = {} /\ entry[q] = {}
  BY <1>1 DEF Loaded
<1>8. entry \in [Processes -> SUBSET Entry]
  BY <1>1
<1>9. saves \in 0 .. MaxSaves /\ clock \in Nat /\ tmp = {} /\ acked = {}
  BY <1>1, SavesAssumption
<1> QED
  BY <1>4, <1>5, <1>6, <1>7, <1>8, <1>9 DEF TypeOK

\* A step that changes one thread and nothing shared keeps the types.
LEMMA LocalStepTyped ==
  ASSUME TypeOK, loc' \in [Threads -> Local], UNCHANGED <<disk, cfg, entry, acked>>
  PROVE  TypeOK'
  BY DEF TypeOK, disk

\* One that also replaces the configuration in memory.
LEMMA ConfigStepTyped ==
  ASSUME TypeOK, loc' \in [Threads -> Local], UNCHANGED <<disk, entry, acked>>,
         NEW p \in Processes, NEW c \in ConfigState, \A f, g \in c.runtime : f = g,
         cfg' = [cfg EXCEPT ![p] = c]
  PROVE  TypeOK'
<1>1. cfg' \in [Processes -> ConfigState]
  BY DEF TypeOK
<1>2. \A q \in Processes : \A f, g \in cfg'[q].runtime : f = g
  BY DEF TypeOK
<1> QED
  BY <1>1, <1>2 DEF TypeOK, disk

LEMMA FactType ==
  ASSUME TypeOK, NEW t \in Threads
  PROVE  /\ loc[t].fact \in Fact /\ loc[t].warned \in SUBSET Kinds /\ loc[t].key \in Key /\ loc[t].data \in Data
         /\ loc[t].mtime \in Nat /\ loc[t].generation \in Nat
         /\ loc[t].ret \in Rets /\ loc[t].snap \in ConfigState /\ loc[t].bound \in SUBSET Entry
         /\ loc[t].pc \in Pcs /\ loc[t].defers \in BOOLEAN
  BY MineType DEF Local

LEMMA ReloadTyped ==
  ASSUME TypeOK, NEW t \in Threads, Reload(t)
  PROVE  TypeOK'
<1> USE FactType, MineType
<1>0. file.mtime \in Nat /\ file.data \in Data
  BY DEF TypeOK, File
<1>1. CASE Stat(t)
  <2>2. "compare" \in Pcs
    BY DEF Pcs
  <2>0. [loc[t] EXCEPT !.pc = "compare", !.mtime = file.mtime] \in Local
    BY <1>0, <2>2 DEF Local
  <2>1. loc' \in [Threads -> Local]
    BY <1>1, <2>0 DEF Stat, TypeOK
  <2> QED BY <1>1, <2>1, LocalStepTyped DEF Stat
<1>2. CASE Compare(t)
  <2>1. loc[t].ret \in Pcs /\ "turn" \in Rets /\ "read" \in Pcs
    BY DEF Rets, Pcs
  <2>2. loc' \in [Threads -> Local]
    BY <1>2, <2>1, OnlyType, GoType DEF Compare, Return
  <2> QED BY <1>2, <2>2, LocalStepTyped DEF Compare
<1>3. CASE ReadFile(t)
  <2>1. OnFailure(loc[t].ret) \in Pcs /\ "turn" \in Rets
    BY DEF Rets, Pcs, OnFailure
  <2>2. loc' \in [Threads -> Local]
    <3>1. CASE Loads(file.data.set.toml)
      BY <1>3, <3>1 DEF ReadFile, TypeOK, File, Local, Pcs
    <3>2. CASE ~Loads(file.data.set.toml)
      BY <1>3, <3>2, <2>1, OnlyType DEF ReadFile, Return
    <3> QED BY <3>1, <3>2
  <2> QED BY <1>3, <2>2, LocalStepTyped DEF ReadFile
<1>4. CASE Stamp(t)
  <2>0. [loc[t] EXCEPT !.pc = "install", !.mtime = file.mtime] \in Local
    BY <1>0, ZenonT(60) DEF Local, Pcs
  <2>1. loc' \in [Threads -> Local]
    BY <1>4, <2>0 DEF Stamp, TypeOK
  <2> QED BY <1>4, <2>1, LocalStepTyped DEF Stamp
<1>5. CASE Install(t)
  <2> DEFINE c == [data |-> loc[t].data, mtime |-> loc[t].mtime,
                   generation |-> Mine(t).generation + 1, profile |-> Mine(t).profile,
                   runtime |-> {}]
  <2>1. loc[t].ret \in Pcs /\ "turn" \in Rets
    BY DEF Rets, Pcs
  <2>2. loc' \in [Threads -> Local]
    BY <1>5, <2>1, OnlyType DEF Install, Return
  <2>3. c \in ConfigState /\ c.runtime = {}
    BY DEF ConfigState
  <2>4. cfg' = [cfg EXCEPT ![Home[t]] = c]
    BY <1>5 DEF Install, Mine
  <2> HIDE DEF c
  <2> QED BY <1>5, <2>2, <2>3, <2>4, ConfigStepTyped DEF Install
<1> QED
  BY <1>1, <1>2, <1>3, <1>4, <1>5 DEF Reload

LEMMA PublishTyped ==
  ASSUME TypeOK, NEW t \in Threads, NEW pc \in Pcs, Publish(t, pc),
         UNCHANGED <<disk, entry, acked>>
  PROVE  TypeOK'
<1> USE FactType, MineType
<1>1. "end" \in Pcs /\ "turn" \in Rets
  BY DEF Pcs, Rets
<1>2. CASE Mine(t).generation = loc[t].generation
  <2> DEFINE c == [cfg[Home[t]] EXCEPT !.runtime = {loc[t].fact}]
  <2>1. c \in ConfigState /\ c.runtime = {loc[t].fact}
    BY DEF ConfigState, Mine
  <2>2. cfg' = [cfg EXCEPT ![Home[t]] = c] /\ loc' \in [Threads -> Local]
    BY <1>2, GoType DEF Publish
  <2> HIDE DEF c
  <2> QED BY <2>1, <2>2, ConfigStepTyped
<1>3. CASE Mine(t).generation # loc[t].generation
  <2>1. loc' \in [Threads -> Local] /\ UNCHANGED cfg
    BY <1>1, <1>3, OnlyType DEF Publish, Return
  <2> QED BY <2>1, LocalStepTyped
<1> QED
  BY <1>2, <1>3

LEMMA PreflightTyped ==
  ASSUME TypeOK, NEW t \in Threads, Preflight(t)
  PROVE  TypeOK'
<1> USE FactType, MineType
<1>1. CASE StartPreflight(t)
  <2>1. "stat" \in Pcs /\ "generation" \in Rets
    BY DEF Pcs, Rets
  <2>2. loc' \in [Threads -> Local]
    BY <1>1, <2>1, OnlyType DEF StartPreflight, CallReload
  <2> QED BY <1>1, <2>2, LocalStepTyped DEF StartPreflight
<1>2. CASE ReadGeneration(t)
  <2>0. Mine(t).generation \in Nat
    BY DEF ConfigState
  <2>1. [loc[t] EXCEPT !.pc = "endpoint", !.generation = Mine(t).generation] \in Local
    BY <2>0, ZenonT(60) DEF Local, Pcs
  <2>2. loc' \in [Threads -> Local]
    BY <1>2, <2>1 DEF ReadGeneration, TypeOK
  <2> QED BY <1>2, <2>2, LocalStepTyped DEF ReadGeneration
<1>3. CASE ReadKeyEndpoint(t)
  <2>0. [loc[t].key EXCEPT !.endpoint = Endpoint(t)] \in Key
    BY DEF Key
  <2>1. [loc[t] EXCEPT !.pc = "backend", !.key = [loc[t].key EXCEPT !.endpoint = Endpoint(t)]] \in Local
    BY <2>0, ZenonT(60) DEF Local, Pcs
  <2>2. loc' \in [Threads -> Local]
    BY <1>3, <2>1 DEF ReadKeyEndpoint, TypeOK
  <2> QED BY <1>3, <2>2, LocalStepTyped DEF ReadKeyEndpoint
<1>14. CASE ReadKeyBackend(t)
  <2>0. [loc[t].key EXCEPT !.backend = Backend(Toml(t))] \in Key
    BY AdapterType DEF Key
  <2>1. [loc[t] EXCEPT !.pc = "key",
                       !.key = [loc[t].key EXCEPT !.backend = Backend(Toml(t))]] \in Local
    BY <2>0, ZenonT(60) DEF Local, Pcs
  <2>2. loc' \in [Threads -> Local]
    BY <1>14, <2>1 DEF ReadKeyBackend, TypeOK
  <2> QED BY <1>14, <2>2, LocalStepTyped DEF ReadKeyBackend
<1>4. CASE ReadKeyGeneration(t)
  <2>0. [loc[t].key EXCEPT !.generation = Mine(t).generation] \in Key
    BY DEF Key, ConfigState
  <2>1. [loc[t] EXCEPT !.pc = "lookup",
                       !.key = [loc[t].key EXCEPT !.generation = Mine(t).generation]] \in Local
    BY <2>0, ZenonT(60) DEF Local, Pcs
  <2>2. loc' \in [Threads -> Local]
    BY <1>4, <2>1 DEF ReadKeyGeneration, TypeOK
  <2> QED BY <1>4, <2>2, LocalStepTyped DEF ReadKeyGeneration
<1>5. CASE LookupRuntime(t)
  <2>1. ASSUME NEW e \in entry[Home[t]]
        PROVE  [loc[t] EXCEPT !.pc = "reuse", !.fact = e.fact, !.warned = e.warned] \in Local
    <3>1. e.fact \in Fact /\ e.warned \in SUBSET Kinds
      BY DEF TypeOK, Entry
    <3>2. "reuse" \in Pcs
      BY DEF Pcs
    <3> QED BY <3>1, <3>2 DEF Local
  <2>2. "clear" \in Pcs
    BY DEF Pcs
  <2>3. loc' \in [Threads -> Local]
    <3>1. CASE \E e \in entry[Home[t]] :
                 loc' = [loc EXCEPT ![t].pc = "reuse", ![t].fact = e.fact, ![t].warned = e.warned]
      <4>1. PICK e \in entry[Home[t]] :
              loc' = [loc EXCEPT ![t].pc = "reuse", ![t].fact = e.fact, ![t].warned = e.warned]
        BY <3>1
      <4>2. [loc[t] EXCEPT !.pc = "reuse", !.fact = e.fact, !.warned = e.warned] \in Local
        BY <2>1
      <4> QED BY <4>1, <4>2 DEF TypeOK
    <3>2. CASE Go(t, "clear")
      BY <3>2, <2>2, GoType
    <3> QED BY <1>5, <3>1, <3>2 DEF LookupRuntime
  <2> QED BY <1>5, <2>3, LocalStepTyped DEF LookupRuntime
<1>6. CASE ReuseRuntime(t)
  <2>1. "report" \in Pcs
    BY DEF Pcs
  <2> QED BY <1>6, <2>1, PublishTyped DEF ReuseRuntime
<1>7. CASE ClearRuntime(t)
  <2> DEFINE c == [cfg[Home[t]] EXCEPT !.runtime = {}]
  <2>1. "end" \in Pcs /\ "turn" \in Rets /\ "probe" \in Pcs
    BY DEF Pcs, Rets
  <2>2. CASE Mine(t).generation = loc[t].generation
    <3>1. c \in ConfigState /\ c.runtime = {}
      BY DEF ConfigState, Mine
    <3>2. cfg' = [cfg EXCEPT ![Home[t]] = c] /\ loc' \in [Threads -> Local]
      BY <1>7, <2>1, <2>2, GoType DEF ClearRuntime
    <3> HIDE DEF c
    <3> QED BY <1>7, <3>1, <3>2, ConfigStepTyped DEF ClearRuntime
  <2>3. CASE Mine(t).generation # loc[t].generation
    <3>1. loc' \in [Threads -> Local] /\ UNCHANGED cfg
      BY <1>7, <2>1, <2>3, OnlyType DEF ClearRuntime, Return
    <3> QED BY <1>7, <3>1, LocalStepTyped DEF ClearRuntime
  <2> QED BY <2>2, <2>3
<1>8. CASE Probe(t)
  <2>1. loc[t].key.backend \in Adapters
    BY DEF Key
  <2>2. PICK reply \in Says[Endpoint(t), loc[t].key.backend] :
          LET info == Heard(loc[t].key.backend, reply)
          IN  loc' = [loc EXCEPT ![t].pc = IF info.eos = {} THEN "publish" ELSE "tokenize",
                                 ![t].fact = [of |-> {Endpoint(t)}, told |-> info]]
    BY <1>8 DEF Probe
  <2> DEFINE info == Heard(loc[t].key.backend, reply)
             next == IF info.eos = {} THEN "publish" ELSE "tokenize"
  <2>3. info \in Infos
    <3>1. reply \in Replies(loc[t].key.backend)
      BY <2>2 DEF Replies
    <3> QED BY <2>1, <3>1, InfoType
  <2>4. [of |-> {Endpoint(t)}, told |-> info] \in Fact /\ next \in Pcs
    BY <2>3 DEF Fact, Pcs
  <2>5. loc' = [loc EXCEPT ![t].pc = next, ![t].fact = [of |-> {Endpoint(t)}, told |-> info]]
    BY <2>2
  <2> HIDE DEF info, next
  <2> DEFINE new == [loc[t] EXCEPT !.pc = next, !.fact = [of |-> {Endpoint(t)}, told |-> info]]
  <2>6. new \in Local
    BY <2>4 DEF Local
  <2>8. loc' = [loc EXCEPT ![t] = new]
    BY <2>5
  <2> HIDE DEF new
  <2>7. loc' \in [Threads -> Local]
    BY <2>6, <2>8 DEF TypeOK
  <2> QED BY <1>8, <2>7, LocalStepTyped DEF Probe
<1>9. CASE Tokenize(t)
  <2>1. ASSUME NEW found \in BOOLEAN
        PROVE  [loc[t] EXCEPT !.pc = "publish",
                  !.fact = [of |-> loc[t].fact.of \cup {Endpoint(t)},
                            told |-> Resolved(loc[t].fact.told, found)]] \in Local
    <3>1. [of |-> loc[t].fact.of \cup {Endpoint(t)},
           told |-> Resolved(loc[t].fact.told, found)] \in Fact
      BY ResolvedType DEF Fact
    <3> QED BY <3>1, ZenonT(60) DEF Local, Pcs
  <2>2. loc' \in [Threads -> Local]
    BY <1>9, <2>1 DEF Tokenize, TypeOK
  <2> QED BY <1>9, <2>2, LocalStepTyped DEF Tokenize
<1>10. CASE PublishRuntime(t)
  <2>1. "recheck" \in Pcs
    BY DEF Pcs
  <2> QED BY <1>10, <2>1, PublishTyped DEF PublishRuntime
<1>11. CASE Recheck(t)
  <2> DEFINE next == IF Mine(t).generation = loc[t].generation THEN "store" ELSE "end"
             warned == Warnings(Toml(t), Mine(t).profile, loc[t].fact.told)
  <2>1. next \in Pcs /\ warned \in SUBSET Kinds
    BY WarningsType DEF Pcs
  <2>3. loc' = [loc EXCEPT ![t].pc = next, ![t].warned = warned]
    BY <1>11 DEF Recheck
  <2> HIDE DEF next, warned
  <2>4. [loc[t] EXCEPT !.pc = next, !.warned = warned] \in Local
    BY <2>1 DEF Local
  <2>2. loc' \in [Threads -> Local]
    BY <2>3, <2>4 DEF TypeOK
  <2> QED BY <1>11, <2>2, LocalStepTyped DEF Recheck
<1>12. CASE StoreEntry(t)
  <2> DEFINE e == [key |-> loc[t].key, fact |-> loc[t].fact, warned |-> loc[t].warned]
  <2>1. "report" \in Pcs /\ e \in Entry
    BY DEF Pcs, Entry
  <2>2. loc' \in [Threads -> Local]
    BY <1>12, <2>1, GoType DEF StoreEntry
  <2>3. entry' = [entry EXCEPT ![Home[t]] = {e}]
    BY <1>12 DEF StoreEntry
  <2> HIDE DEF e
  <2>4. entry' \in [Processes -> SUBSET Entry] /\ \A q \in Processes : \A f, g \in entry'[q] : f = g
    BY <2>1, <2>3 DEF TypeOK
  <2>5. UNCHANGED <<file, tmp, clock, saves, cfg, acked>>
    BY <1>12 DEF StoreEntry, disk
  <2> QED BY <2>2, <2>4, <2>5 DEF TypeOK
<1>13. CASE Report(t)
  <2>1. "turn" \in Pcs /\ "end" \in Pcs /\ "turn" \in Rets
    BY DEF Pcs, Rets
  <2>2. loc' \in [Threads -> Local]
    BY <1>13, <2>1, OnlyType, GoType DEF Report, Return
  <2> QED BY <1>13, <2>2, LocalStepTyped DEF Report
<1> QED
  BY <1>1, <1>2, <1>3, <1>4, <1>5, <1>6, <1>7, <1>8, <1>9, <1>10, <1>11, <1>12, <1>13, <1>14 DEF Preflight

LEMMA InvocationTyped ==
  ASSUME TypeOK, NEW t \in Threads, Invocation(t)
  PROVE  TypeOK'
<1> USE FactType, MineType
<1>1. CASE Turn(t)
  <2>1. "stat" \in Pcs /\ "turn" \in Rets /\ "again" \in Rets
    BY DEF Pcs, Rets
  <2>2. loc' \in [Threads -> Local]
    BY <1>1, <2>1, OnlyType DEF Turn, CallReload, Return
  <2> QED BY <1>1, <2>2, LocalStepTyped DEF Turn
<1>2. CASE Again(t)
  <2>1. "stat" \in Pcs /\ "snapshot" \in Rets
    BY DEF Pcs, Rets
  <2>2. loc' \in [Threads -> Local]
    BY <1>2, <2>1, OnlyType DEF Again, CallReload, Return
  <2> QED BY <1>2, <2>2, LocalStepTyped DEF Again
<1>3. CASE Snapshot(t)
  <2>1. [loc[t] EXCEPT !.pc = "bind", !.snap = Mine(t)] \in Local
    BY ZenonT(60) DEF Local, Pcs
  <2>2. loc' \in [Threads -> Local]
    BY <1>3, <2>1 DEF Snapshot, TypeOK
  <2> QED BY <1>3, <2>2, LocalStepTyped DEF Snapshot
<1>4. CASE Bind(t)
  <2>0. entry[Home[t]] \in SUBSET Entry
    BY DEF TypeOK
  <2>1. [loc[t] EXCEPT !.pc = "prepare", !.bound = entry[Home[t]]] \in Local
    BY <2>0, ZenonT(60) DEF Local, Pcs
  <2>2. loc' \in [Threads -> Local]
    BY <1>4, <2>1 DEF Bind, TypeOK
  <2> QED BY <1>4, <2>2, LocalStepTyped DEF Bind
<1>5. CASE Prepare(t)
  <2>1. \A a \in Answers(t) : a.fact \in Fact
    <3> DEFINE set == loc[t].snap.data.set
    <3>1. \A e \in loc[t].bound : e.fact \in Fact
      BY DEF Entry
    <3>2. set.endpoint \in Endpoints /\ Backend(set.toml) \in Adapters
      BY AdapterType DEF ConfigState, Data, Setting
    <3>3. \A info \in Learned(set.endpoint, Backend(set.toml)) :
            [of |-> {set.endpoint}, told |-> info] \in Fact
      BY <3>2, LearnedType DEF Fact
    <3> QED BY <3>1, <3>3 DEF Answers
  <2>2. "turn" \in Pcs /\ "turn" \in Rets
    BY DEF Pcs, Rets
  <2>3. ASSUME NEW f \in Fact
        PROVE  [loc[t] EXCEPT !.snap = [loc[t].snap EXCEPT !.runtime = {f}],
                              !.bound = {}, !.pc = "plan"] \in Local
    <3>1. [loc[t].snap EXCEPT !.runtime = {f}] \in ConfigState
      BY DEF ConfigState
    <3> QED BY <3>1, ZenonT(60) DEF Local, Pcs
  <2>4. [loc[t] EXCEPT !.bound = {}, !.pc = "plan"] \in Local
    BY ZenonT(60) DEF Local, Pcs
  <2>5. loc' \in [Threads -> Local]
    <3>1. CASE NeedsPreflight(t)
      <4>1. PICK a \in Answers(t) :
              \/ Return(t, "turn", FALSE)
              \/ loc' = [loc EXCEPT ![t].snap.runtime = {a.fact}, ![t].bound = {}, ![t].pc = "plan"]
        BY <1>5, <3>1 DEF Prepare
      <4>2. CASE Return(t, "turn", FALSE)
        BY <4>2, <2>2, OnlyType DEF Return
      <4>3. CASE loc' = [loc EXCEPT ![t].snap.runtime = {a.fact}, ![t].bound = {}, ![t].pc = "plan"]
        <5>1. [loc[t] EXCEPT !.snap = [loc[t].snap EXCEPT !.runtime = {a.fact}],
                             !.bound = {}, !.pc = "plan"] \in Local
          BY <2>1, <2>3
        <5> QED BY <4>3, <5>1 DEF TypeOK
      <4> QED BY <4>1, <4>2, <4>3
    <3>2. CASE ~NeedsPreflight(t)
      BY <1>5, <3>2, <2>4 DEF Prepare, TypeOK
    <3> QED BY <3>1, <3>2
  <2> QED BY <1>5, <2>5, LocalStepTyped DEF Prepare
<1>6. CASE Translate(t)
  <2>1. "turn" \in Pcs /\ "turn" \in Rets
    BY DEF Pcs, Rets
  <2>2. loc' \in [Threads -> Local]
    BY <1>6, <2>1, OnlyType DEF Translate, CallReload, Return
  <2> QED BY <1>6, <2>2, LocalStepTyped DEF Translate
<1> QED
  BY <1>1, <1>2, <1>3, <1>4, <1>5, <1>6 DEF Invocation

LEMMA MutationTyped ==
  ASSUME TypeOK, NEW t \in Threads, Mutation(t)
  PROVE  TypeOK'
<1> USE FactType, MineType
<1>1. CASE StartMutation(t)
  <2>1. "stat" \in Pcs /\ "clone" \in Rets
    BY DEF Pcs, Rets
  <2>2. loc' \in [Threads -> Local]
    BY <1>1, <2>1, OnlyType DEF StartMutation, CallReload, Return
  <2> QED BY <1>1, <2>2, LocalStepTyped DEF StartMutation
<1>2. CASE Clone(t)
  <2> DEFINE d == Mine(t).data
             e == IF Job[t] = "claim" THEN [d EXCEPT !.owners = @ \cup {t}]
                                      ELSE [d EXCEPT !.secret = {t}]
  <2>1. d \in Data
    BY DEF ConfigState
  <2> HIDE DEF d
  <2>2. e \in Data
    BY <2>1 DEF Data
  <2>3. loc' = [loc EXCEPT ![t].pc = "write", ![t].data = e]
    BY <1>2 DEF Clone, d
  <2> HIDE DEF e
  <2>4. [loc[t] EXCEPT !.pc = "write", !.data = e] \in Local
    BY <2>2, ZenonT(60) DEF Local, Pcs
  <2>5. loc' \in [Threads -> Local]
    BY <2>3, <2>4 DEF TypeOK
  <2> QED BY <1>2, <2>5, LocalStepTyped DEF Clone
<1>3. CASE WriteTemp(t)
  <2>1. "rename" \in Pcs
    BY DEF Pcs
  <2>2. loc' \in [Threads -> Local]
    BY <1>3, <2>1, GoType DEF WriteTemp
  <2>3. clock' \in Nat
    BY <1>3 DEF WriteTemp, TypeOK
  <2>4. [data |-> loc[t].data, mtime |-> clock'] \in File
    BY <2>3 DEF File
  <2>5. tmp' \in SUBSET File /\ \A f, g \in tmp' : f = g
    BY <1>3, <2>4 DEF WriteTemp
  <2>6. UNCHANGED <<file, saves, cfg, entry, acked>>
    BY <1>3 DEF WriteTemp
  <2> QED BY <2>2, <2>3, <2>5, <2>6 DEF TypeOK
<1>4. CASE Rename(t)
  <2>1. "end" \in Pcs /\ "turn" \in Rets
    BY DEF Pcs, Rets
  <2>5. "read" \in Pcs /\ "persisted" \in Rets
    BY DEF Pcs, Rets
  <2>2. [loc[t] EXCEPT !.pc = "read", !.ret = "persisted"] \in Local
    BY <2>5 DEF Local
  <2>3. loc' \in [Threads -> Local] /\ file' \in File
    <3>1. CASE tmp = {}
      BY <1>4, <3>1, <2>1, OnlyType DEF Rename, Return, TypeOK
    <3>2. CASE tmp # {}
      BY <1>4, <3>2, <2>2 DEF Rename, TypeOK
    <3> QED BY <3>1, <3>2
  <2>4. tmp' = {} /\ UNCHANGED <<clock, saves, cfg, entry, acked>>
    BY <1>4 DEF Rename
  <2> QED BY <2>3, <2>4 DEF TypeOK
<1>5. CASE Acknowledge(t)
  <2>1. "end" \in Pcs /\ "turn" \in Rets
    BY DEF Pcs, Rets
  <2>2. loc' \in [Threads -> Local]
    BY <1>5, <2>1, OnlyType DEF Acknowledge, Return
  <2>3. acked' \in SUBSET Threads
    BY <1>5 DEF Acknowledge, TypeOK
  <2>4. UNCHANGED <<file, tmp, clock, saves, cfg, entry>>
    BY <1>5 DEF Acknowledge, disk
  <2> QED BY <2>2, <2>3, <2>4 DEF TypeOK
<1> QED
  BY <1>1, <1>2, <1>3, <1>4, <1>5 DEF Mutation

LEMMA SaveTyped ==
  ASSUME TypeOK, NEW s \in Settings, Save(s)
  PROVE  TypeOK'
<1>1. s \in Setting
  BY SettingsAssumption
<1>2. clock' \in Nat /\ saves' \in 0 .. MaxSaves
  BY SavesAssumption DEF Save, TypeOK
<1>3. [file.data EXCEPT !.set = s] \in Data
  BY <1>1 DEF TypeOK, File, Data
<1>4. file' \in File
  BY <1>2, <1>3 DEF Save, File
<1>5. UNCHANGED <<tmp, cfg, entry, loc, acked>>
  BY DEF Save
<1> QED
  BY <1>2, <1>4, <1>5 DEF TypeOK

LEMMA ExpireTyped ==
  ASSUME TypeOK, NEW p \in Processes, Expire(p)
  PROVE  TypeOK'
<1>1. entry' \in [Processes -> SUBSET Entry] /\ \A q \in Processes : \A e, f \in entry'[q] : e = f
  BY DEF Expire, TypeOK
<1>2. UNCHANGED <<file, tmp, clock, saves, cfg, loc, acked>>
  BY DEF Expire, disk
<1> QED
  BY <1>1, <1>2 DEF TypeOK

LEMMA StepTyped == TypeOK /\ [Next]_vars => TypeOK'
<1> SUFFICES ASSUME TypeOK, [Next]_vars PROVE TypeOK'
  OBVIOUS
<1>1. CASE Next
  BY <1>1, ReloadTyped, PreflightTyped, InvocationTyped, MutationTyped, SaveTyped, ExpireTyped
     DEF Next
<1>2. CASE UNCHANGED vars
  BY <1>2 DEF TypeOK, vars, disk
<1> QED
  BY <1>1, <1>2

\* Every variable of the model keeps its shape, whatever the instance.
THEOREM ConfigTypeCorrect == Spec => []TypeOK
<1> QED
  BY InitTyped, StepTyped, PTL DEF Spec

-----------------------------------------------------------------------------
(* FactsOwned. *)

\* Where InFlight says something of a thread.
Flight == {"endpoint", "backend", "key", "lookup", "reuse", "clear", "probe", "tokenize", "publish",
           "recheck", "store"}

\* A configuration keeps its data or moves to a new generation.
Advances(p) ==
  \/ cfg'[p].generation = cfg[p].generation /\ cfg'[p].data = cfg[p].data
  \/ cfg'[p].generation = cfg[p].generation + 1

LEMMA GroundedInFlight ==
  ASSUME NEW t \in Threads, loc'[t].pc \notin Flight
  PROVE  InFlight(t)'
  BY DEF InFlight, Flight

\* What others do cannot disturb a thread in flight: it loses the live generation.
LEMMA OtherInFlight ==
  ASSUME TypeOK, NEW t \in Threads, InFlight(t), loc'[t] = loc[t], Advances(Home[t])
  PROVE  InFlight(t)'
<1>1. Mine(t).generation \in Nat /\ loc[t].generation \in Nat
  BY MineType, FactType DEF ConfigState
<1>2. CASE Mine(t)'.generation = Mine(t).generation /\ Mine(t)'.data = Mine(t).data
  <2>1. Endpoint(t)' = Endpoint(t)
    BY <1>2 DEF Endpoint
  <2> QED BY <1>2, <2>1 DEF InFlight
<1>3. CASE Mine(t)'.generation = Mine(t).generation + 1
  <2>1. loc[t].pc \in Flight \ {"store"} =>
          loc'[t].generation <= Mine(t)'.generation /\ loc'[t].generation # Mine(t)'.generation
    BY <1>1, <1>3 DEF InFlight, Flight
  <2> QED BY <2>1 DEF InFlight, Flight
<1> QED
  BY <1>2, <1>3 DEF Advances, Mine

\* So a step owes an argument only for its own thread and for the facts.
LEMMA OneThreadMoves ==
  ASSUME TypeOK, NEW t \in Threads, \A u \in Threads : InFlight(u), InFlight(t)',
         \A u \in Threads : u # t => loc'[u] = loc[u], \A q \in Processes : Advances(q)
  PROVE  \A u \in Threads : InFlight(u)'
<1> SUFFICES ASSUME NEW u \in Threads, u # t PROVE InFlight(u)'
  OBVIOUS
<1> QED
  BY OtherInFlight, HomeAssumption

LEMMA StillAdvances ==
  ASSUME UNCHANGED cfg
  PROVE  \A q \in Processes : Advances(q)
  BY DEF Advances

LEMMA PublishAdvances ==
  ASSUME TypeOK, NEW q \in Processes, NEW r \in SUBSET Fact,
         cfg' = [cfg EXCEPT ![q].runtime = r]
  PROVE  /\ \A x \in Processes : Advances(x)
         /\ cfg'[q].runtime = r
         /\ \A x \in Processes : x # q => cfg'[x] = cfg[x]
         /\ \A x \in Processes : cfg'[x].data = cfg[x].data
                                /\ cfg'[x].generation = cfg[x].generation
  BY DEF TypeOK, ConfigState, Advances

LEMMA FactsKept ==
  ASSUME FactsOwned, UNCHANGED <<cfg, entry>>
  PROVE  FactsOwned'
  BY DEF FactsOwned

LEMMA ReloadOwned ==
  ASSUME IInv, NEW t \in Threads, Reload(t)
  PROVE  FactsOwned' /\ \A u \in Threads : InFlight(u)'
<1> USE FactType, MineType DEF IInv
<1>0. /\ OnFailure(loc[t].ret) \in Pcs \ Flight
      /\ loc[t].ret \in Pcs \ Flight
      /\ {"read", "stamp", "compare", "install"} \subseteq Pcs \ Flight
      /\ "turn" \in Rets
  BY DEF OnFailure, Rets, Pcs, Flight
<1>1. /\ loc'[t].pc \notin Flight
      /\ \A u \in Threads : u # t => loc'[u] = loc[u]
  <2>1. CASE Stat(t)
    BY <1>0, <2>1 DEF Stat, TypeOK, Local
  <2>2. CASE Compare(t)
    <3>1. CASE Only(t, loc[t].ret, "turn", FALSE)
      BY <1>0, <3>1, OnlyType
    <3>2. CASE Go(t, "read")
      BY <1>0, <3>2, GoType, ZenonT(60)
    <3> QED BY <2>2, <3>1, <3>2 DEF Compare, Return
  <2>3. CASE ReadFile(t)
    <3>1. CASE Loads(file.data.set.toml)
      BY <1>0, <2>3, <3>1 DEF ReadFile, TypeOK, Local
    <3>2. CASE ~Loads(file.data.set.toml)
      BY <1>0, <2>3, <3>2, OnlyType DEF ReadFile, Return
    <3> QED BY <3>1, <3>2
  <2>4. CASE Stamp(t)
    BY <1>0, <2>4 DEF Stamp, TypeOK, Local
  <2>5. CASE Install(t)
    BY <1>0, <2>5, OnlyType DEF Install, Return
  <2> QED BY <2>1, <2>2, <2>3, <2>4, <2>5 DEF Reload
<1>2. FactsOwned' /\ \A q \in Processes : Advances(q)
  <2>1. CASE UNCHANGED <<cfg, entry>>
    BY <2>1, FactsKept, StillAdvances
  <2>2. CASE Install(t)
    <3> DEFINE c == [data |-> loc[t].data, mtime |-> loc[t].mtime,
                     generation |-> Mine(t).generation + 1, profile |-> Mine(t).profile,
                   runtime |-> {}]
    <3>1. cfg' = [cfg EXCEPT ![Home[t]] = c] /\ UNCHANGED entry
      BY <2>2 DEF Install, Mine
    <3>2. \A q \in Processes : q # Home[t] => cfg'[q] = cfg[q]
      BY <3>1 DEF TypeOK
    <3>3. cfg'[Home[t]].runtime = {} /\ cfg'[Home[t]].generation = cfg[Home[t]].generation + 1
      BY <3>1 DEF TypeOK, Mine
    <3> HIDE DEF c
    <3> QED BY <3>1, <3>2, <3>3 DEF FactsOwned, Advances
  <2> QED BY <2>1, <2>2 DEF Reload, Stat, Compare, ReadFile, Stamp
<1>3. InFlight(t)'
  BY <1>1, GroundedInFlight
<1> QED
  BY <1>1, <1>2, <1>3, OneThreadMoves

LEMMA InvocationOwned ==
  ASSUME IInv, NEW t \in Threads, Invocation(t)
  PROVE  FactsOwned' /\ \A u \in Threads : InFlight(u)'
<1> USE FactType, MineType DEF IInv
<1>0. /\ {"stat", "bind", "prepare", "plan", "turn"} \subseteq Pcs \ Flight
      /\ {"turn", "again", "snapshot"} \subseteq Rets
  BY DEF Rets, Pcs, Flight
<1>1. /\ loc'[t].pc \notin Flight
      /\ \A u \in Threads : u # t => loc'[u] = loc[u]
  <2>1. CASE Turn(t)
    BY <1>0, <2>1, OnlyType DEF Turn, CallReload
  <2>2. CASE Again(t)
    BY <1>0, <2>2, OnlyType DEF Again, CallReload
  <2>3. CASE Snapshot(t)
    BY <1>0, <2>3 DEF Snapshot, TypeOK, Local
  <2>4. CASE Bind(t)
    BY <1>0, <2>4 DEF Bind, TypeOK, Local
  <2>5. CASE Prepare(t)
    <3>1. \/ Return(t, "turn", FALSE)
          \/ \E a \in Answers(t) :
               loc' = [loc EXCEPT ![t].snap.runtime = {a.fact}, ![t].bound = {}, ![t].pc = "plan"]
          \/ loc' = [loc EXCEPT ![t].bound = {}, ![t].pc = "plan"]
      BY <2>5 DEF Prepare
    <3>2. CASE Return(t, "turn", FALSE)
      BY <1>0, <3>2, OnlyType DEF Return
    <3>3. ASSUME NEW f,
                 loc' = [loc EXCEPT ![t].snap.runtime = {f}, ![t].bound = {}, ![t].pc = "plan"]
          PROVE  loc'[t].pc \notin Flight /\ \A u \in Threads : u # t => loc'[u] = loc[u]
      BY <1>0, <3>3 DEF TypeOK, Local
    <3>4. CASE loc' = [loc EXCEPT ![t].bound = {}, ![t].pc = "plan"]
      BY <1>0, <3>4 DEF TypeOK, Local
    <3>5. CASE \E a \in Answers(t) :
                 loc' = [loc EXCEPT ![t].snap.runtime = {a.fact}, ![t].bound = {}, ![t].pc = "plan"]
      <4>1. PICK a \in Answers(t) :
              loc' = [loc EXCEPT ![t].snap.runtime = {a.fact}, ![t].bound = {}, ![t].pc = "plan"]
        BY <3>5
      <4> QED BY <4>1, <3>3
    <3> QED BY <3>1, <3>2, <3>4, <3>5
  <2>6. CASE Translate(t)
    BY <1>0, <2>6, OnlyType DEF Translate, Return
  <2> QED BY <2>1, <2>2, <2>3, <2>4, <2>5, <2>6 DEF Invocation
<1>2. UNCHANGED <<cfg, entry>>
  BY DEF Invocation, Turn, Again, Snapshot, Bind, Prepare, Translate
<1>3. InFlight(t)'
  BY <1>1, GroundedInFlight
<1> QED
  BY <1>1, <1>2, <1>3, OneThreadMoves, StillAdvances, FactsKept

LEMMA MutationOwned ==
  ASSUME IInv, NEW t \in Threads, Mutation(t)
  PROVE  FactsOwned' /\ \A u \in Threads : InFlight(u)'
<1> USE FactType, MineType DEF IInv
<1>0. /\ {"stat", "write", "rename", "read", "end"} \subseteq Pcs \ Flight
      /\ {"turn", "clone"} \subseteq Rets
  BY DEF Rets, Pcs, Flight
<1>1. /\ loc'[t].pc \notin Flight
      /\ \A u \in Threads : u # t => loc'[u] = loc[u]
  <2>1. CASE StartMutation(t)
    BY <1>0, <2>1, OnlyType DEF StartMutation, CallReload
  <2>2. CASE Clone(t)
    <3>1. PICK d : loc' = [loc EXCEPT ![t].pc = "write", ![t].data = d]
      BY <2>2 DEF Clone
    <3> QED BY <1>0, <3>1 DEF TypeOK, Local
  <2>3. CASE WriteTemp(t)
    <3>1. Go(t, "rename")
      BY <2>3 DEF WriteTemp
    <3> QED BY <1>0, <3>1, GoType
  <2>4. CASE Rename(t)
    <3>1. CASE tmp = {}
      BY <1>0, <2>4, <3>1, OnlyType DEF Rename, Return
    <3>2. CASE tmp # {}
      <4>1. loc' = [loc EXCEPT ![t].pc = "read", ![t].ret = "persisted"]
        BY <2>4, <3>2 DEF Rename
      <4> QED BY <1>0, <4>1 DEF TypeOK, Local
    <3> QED BY <3>1, <3>2
  <2>5. CASE Acknowledge(t)
    BY <1>0, <2>5, OnlyType DEF Acknowledge, Return
  <2> QED BY <2>1, <2>2, <2>3, <2>4, <2>5 DEF Mutation
<1>2. UNCHANGED <<cfg, entry>>
  BY DEF Mutation, StartMutation, Clone, WriteTemp, Rename, Acknowledge
<1>3. InFlight(t)'
  BY <1>1, GroundedInFlight
<1> QED
  BY <1>1, <1>2, <1>3, OneThreadMoves, StillAdvances, FactsKept

\* Publishing facts that are owned if the generation is live keeps all facts owned.
LEMMA PublishOwned ==
  ASSUME IInv, NEW t \in Threads, NEW pc \in Pcs, Publish(t, pc), UNCHANGED entry,
         loc[t].generation = Mine(t).generation => loc[t].fact.of = {Endpoint(t)}
  PROVE  /\ FactsOwned' /\ \A q \in Processes : Advances(q)
         /\ \A u \in Threads : u # t => loc'[u] = loc[u]
         /\ \/ loc'[t].pc = "end"
            \/ /\ loc' = [loc EXCEPT ![t].pc = pc]
               /\ loc[t].generation = Mine(t).generation
         /\ cfg'[Home[t]].data = cfg[Home[t]].data
         /\ cfg'[Home[t]].generation = cfg[Home[t]].generation
<1> USE FactType, MineType DEF IInv
<1>1. CASE Mine(t).generation = loc[t].generation
  <2>1. cfg' = [cfg EXCEPT ![Home[t]].runtime = {loc[t].fact}] /\ Go(t, pc)
    BY <1>1 DEF Publish
  <2>2. /\ \A x \in Processes : Advances(x)
        /\ cfg'[Home[t]].runtime = {loc[t].fact}
        /\ \A x \in Processes : x # Home[t] => cfg'[x] = cfg[x]
        /\ \A x \in Processes : cfg'[x].data = cfg[x].data
                               /\ cfg'[x].generation = cfg[x].generation
    <3>1. {loc[t].fact} \in SUBSET Fact /\ Home[t] \in Processes
      OBVIOUS
    <3>2. cfg' = [cfg EXCEPT ![Home[t]].runtime = {loc[t].fact}]
      BY <2>1
    <3> HIDE FactType, MineType DEF IInv
    <3>3. TypeOK
      BY DEF IInv
    <3> QED BY <3>1, <3>2, <3>3, PublishAdvances
  <2>3. FactsOwned'
    <3>1. loc[t].fact.of = {cfg[Home[t]].data.set.endpoint}
      BY <1>1 DEF Endpoint, Mine
    <3> QED BY <2>2, <3>1 DEF FactsOwned
  <2>4. \A u \in Threads : u # t => loc'[u] = loc[u]
    BY <2>1, GoType
  <2> QED BY <1>1, <2>1, <2>2, <2>3, <2>4 DEF Go
<1>2. CASE Mine(t).generation # loc[t].generation
  <2>1. "end" \in Pcs /\ "turn" \in Rets
    BY DEF Pcs, Rets
  <2>2. Only(t, "end", "turn", FALSE) /\ UNCHANGED cfg
    BY <1>2 DEF Publish, Return
  <2>3. loc'[t].pc = "end" /\ \A u \in Threads : u # t => loc'[u] = loc[u]
    BY <2>1, <2>2, OnlyType
  <2> QED BY <2>2, <2>3, FactsKept, StillAdvances
<1> QED
  BY <1>1, <1>2

LEMMA PreflightOwned ==
  ASSUME IInv, NEW t \in Threads, Preflight(t)
  PROVE  FactsOwned' /\ \A u \in Threads : InFlight(u)'
<1> USE FactType, MineType DEF IInv
<1>0. /\ Mine(t).generation \in Nat
      /\ InFlight(t)
      /\ {"stat", "end", "turn", "report"} \subseteq Pcs \ Flight
      /\ {"recheck", "clear", "probe", "store"} \subseteq Pcs
      /\ {"turn", "generation"} \subseteq Rets
  BY DEF ConfigState, Pcs, Rets, Flight
<1>1. CASE StartPreflight(t)
  <2>1. loc'[t].pc = "stat" /\ \A u \in Threads : u # t => loc'[u] = loc[u]
    BY <1>0, <1>1, OnlyType DEF StartPreflight, CallReload
  <2>2. InFlight(t)'
    BY <1>0, <2>1, GroundedInFlight
  <2>3. UNCHANGED <<cfg, entry>>
    BY <1>1 DEF StartPreflight
  <2> QED BY <2>1, <2>2, <2>3, OneThreadMoves, StillAdvances, FactsKept
<1>2. CASE ReadGeneration(t)
  <2>1. /\ loc[t].pc = "generation" /\ loc'[t].pc = "endpoint"
        /\ loc'[t].generation = Mine(t).generation
        /\ \A u \in Threads : u # t => loc'[u] = loc[u]
    BY <1>2 DEF ReadGeneration, At, TypeOK, Local, Key
  <2>2. UNCHANGED <<cfg, entry>>
    BY <1>2 DEF ReadGeneration
  <2>3. Mine(t)' = Mine(t) /\ Endpoint(t)' = Endpoint(t)
    BY <2>2 DEF Mine, Endpoint
  <2>4. InFlight(t)'
    BY <2>1, <2>3, <1>0 DEF InFlight
  <2> QED BY <2>1, <2>2, <2>4, OneThreadMoves, StillAdvances, FactsKept
<1>3. CASE ReadKeyEndpoint(t)
  <2>1. /\ loc[t].pc = "endpoint" /\ loc'[t].pc = "backend"
        /\ loc'[t].generation = loc[t].generation
        /\ loc'[t].key.endpoint = Endpoint(t)
        /\ \A u \in Threads : u # t => loc'[u] = loc[u]
    BY <1>3 DEF ReadKeyEndpoint, At, TypeOK, Local, Key
  <2>2. UNCHANGED <<cfg, entry>>
    BY <1>3 DEF ReadKeyEndpoint
  <2>3. Mine(t)' = Mine(t) /\ Endpoint(t)' = Endpoint(t)
    BY <2>2 DEF Mine, Endpoint
  <2>4. InFlight(t)'
    BY <2>1, <2>3, <1>0 DEF InFlight
  <2> QED BY <2>1, <2>2, <2>4, OneThreadMoves, StillAdvances, FactsKept
<1>14. CASE ReadKeyBackend(t)
  <2>1. /\ loc[t].pc = "backend" /\ loc'[t].pc = "key"
        /\ loc'[t].generation = loc[t].generation
        /\ loc'[t].key.endpoint = loc[t].key.endpoint
        /\ \A u \in Threads : u # t => loc'[u] = loc[u]
    BY <1>14 DEF ReadKeyBackend, At, TypeOK, Local, Key
  <2>2. UNCHANGED <<cfg, entry>>
    BY <1>14 DEF ReadKeyBackend
  <2>3. Mine(t)' = Mine(t) /\ Endpoint(t)' = Endpoint(t)
    BY <2>2 DEF Mine, Endpoint
  <2>4. InFlight(t)'
    BY <2>1, <2>3, <1>0 DEF InFlight
  <2> QED BY <2>1, <2>2, <2>4, OneThreadMoves, StillAdvances, FactsKept
<1>4. CASE ReadKeyGeneration(t)
  <2>1. /\ loc[t].pc = "key" /\ loc'[t].pc = "lookup"
        /\ loc'[t].generation = loc[t].generation
        /\ loc'[t].key.endpoint = loc[t].key.endpoint
        /\ \A u \in Threads : u # t => loc'[u] = loc[u]
    BY <1>4 DEF ReadKeyGeneration, At, TypeOK, Local, Key
  <2>2. UNCHANGED <<cfg, entry>>
    BY <1>4 DEF ReadKeyGeneration
  <2>3. Mine(t)' = Mine(t) /\ Endpoint(t)' = Endpoint(t)
    BY <2>2 DEF Mine, Endpoint
  <2>4. InFlight(t)'
    BY <2>1, <2>3, <1>0 DEF InFlight
  <2> QED BY <2>1, <2>2, <2>4, OneThreadMoves, StillAdvances, FactsKept
<1>5. CASE LookupRuntime(t)
  <2>1. UNCHANGED <<cfg, entry>> /\ loc[t].pc = "lookup"
    BY <1>5 DEF LookupRuntime, At
  <2>2. Mine(t)' = Mine(t) /\ Endpoint(t)' = Endpoint(t)
    BY <2>1 DEF Mine, Endpoint
  <2>3. InFlight(t)' /\ \A u \in Threads : u # t => loc'[u] = loc[u]
    <3>1. CASE \E e \in entry[Home[t]] :
                 /\ e.key = loc[t].key
                 /\ loc' = [loc EXCEPT ![t].pc = "reuse", ![t].fact = e.fact, ![t].warned = e.warned]
      <4>1. PICK e \in entry[Home[t]] :
              /\ e.key = loc[t].key
              /\ loc' = [loc EXCEPT ![t].pc = "reuse", ![t].fact = e.fact, ![t].warned = e.warned]
        BY <3>1
      <4>2. e.fact.of = {loc[t].key.endpoint}
        BY <4>1 DEF FactsOwned
      <4>3. /\ loc'[t].pc = "reuse" /\ loc'[t].fact = e.fact
            /\ loc'[t].key = loc[t].key /\ loc'[t].generation = loc[t].generation
            /\ \A u \in Threads : u # t => loc'[u] = loc[u]
        BY <4>1 DEF TypeOK, Local
      <4> QED BY <1>0, <2>1, <2>2, <4>2, <4>3 DEF InFlight
    <3>2. CASE Go(t, "clear")
      <4>1. /\ loc'[t].pc = "clear" /\ loc'[t].fact = loc[t].fact
            /\ loc'[t].key = loc[t].key /\ loc'[t].generation = loc[t].generation
            /\ \A u \in Threads : u # t => loc'[u] = loc[u]
        BY <3>2 DEF Go, TypeOK, Local
      <4> QED BY <1>0, <2>1, <2>2, <4>1 DEF InFlight
    <3> QED BY <1>5, <3>1, <3>2 DEF LookupRuntime
  <2> QED BY <2>1, <2>3, OneThreadMoves, StillAdvances, FactsKept
<1>6. CASE ReuseRuntime(t)
  <2>1. loc[t].pc = "reuse" /\ UNCHANGED entry /\ Publish(t, "report")
    BY <1>6 DEF ReuseRuntime, At
  <2>2. loc[t].generation = Mine(t).generation => loc[t].fact.of = {Endpoint(t)}
    BY <1>0, <2>1 DEF InFlight
  <2>3. /\ FactsOwned' /\ \A q \in Processes : Advances(q)
        /\ \A u \in Threads : u # t => loc'[u] = loc[u]
        /\ loc'[t].pc = "end" \/ loc' = [loc EXCEPT ![t].pc = "report"]
    BY <1>0, <2>1, <2>2, PublishOwned
  <2>4. loc'[t].pc \in {"end", "report"}
    BY <2>3 DEF TypeOK, Local
  <2>5. InFlight(t)'
    BY <1>0, <2>4, GroundedInFlight
  <2> QED BY <2>3, <2>5, OneThreadMoves
<1>7. CASE ClearRuntime(t)
  <2>1. loc[t].pc = "clear" /\ UNCHANGED entry
    BY <1>7 DEF ClearRuntime, At
  <2>2. CASE Mine(t).generation = loc[t].generation
    <3>1. cfg' = [cfg EXCEPT ![Home[t]].runtime = {}] /\ Go(t, "probe")
      BY <1>7, <2>2 DEF ClearRuntime
    <3>2. /\ \A x \in Processes : Advances(x)
          /\ cfg'[Home[t]].runtime = {}
          /\ \A x \in Processes : x # Home[t] => cfg'[x] = cfg[x]
          /\ \A x \in Processes : cfg'[x].data = cfg[x].data
                                 /\ cfg'[x].generation = cfg[x].generation
      <4>1. {} \in SUBSET Fact /\ Home[t] \in Processes
        OBVIOUS
      <4>2. cfg' = [cfg EXCEPT ![Home[t]].runtime = {}]
        BY <3>1
      <4> HIDE FactType, MineType DEF IInv
      <4>3. TypeOK
        BY DEF IInv
      <4> QED BY <4>1, <4>2, <4>3, PublishAdvances
    <3>3. FactsOwned'
      BY <2>1, <3>2, SMTT(30) DEF FactsOwned
    <3>4. /\ loc'[t].pc = "probe" /\ loc'[t].fact = loc[t].fact
          /\ loc'[t].key = loc[t].key /\ loc'[t].generation = loc[t].generation
          /\ \A u \in Threads : u # t => loc'[u] = loc[u]
      BY <3>1 DEF Go, TypeOK, Local
    <3>5. Mine(t)'.generation = Mine(t).generation /\ Endpoint(t)' = Endpoint(t)
      BY <3>2 DEF Mine, Endpoint
    <3>6. InFlight(t)'
      BY <1>0, <2>1, <3>4, <3>5 DEF InFlight
    <3> QED BY <3>2, <3>3, <3>4, <3>6, OneThreadMoves
  <2>3. CASE Mine(t).generation # loc[t].generation
    <3>1. Only(t, "end", "turn", FALSE) /\ UNCHANGED cfg
      BY <1>7, <2>3 DEF ClearRuntime, Return
    <3>2. loc'[t].pc = "end" /\ \A u \in Threads : u # t => loc'[u] = loc[u]
      BY <1>0, <3>1, OnlyType
    <3>3. InFlight(t)'
      BY <1>0, <3>2, GroundedInFlight
    <3> QED BY <2>1, <3>1, <3>2, <3>3, OneThreadMoves, StillAdvances, FactsKept
  <2> QED BY <2>2, <2>3
<1>8. CASE Probe(t)
  <2>1. \E next \in {"tokenize", "publish"} : \E info :
          loc' = [loc EXCEPT ![t].pc = next, ![t].fact = [of |-> {Endpoint(t)}, told |-> info]]
    BY <1>8 DEF Probe
  <2>2. /\ loc'[t].pc \in {"tokenize", "publish"} /\ loc'[t].fact.of = {Endpoint(t)}
        /\ loc'[t].key = loc[t].key /\ loc'[t].generation = loc[t].generation
        /\ \A u \in Threads : u # t => loc'[u] = loc[u]
    BY <2>1 DEF TypeOK, Local
  <2>3. UNCHANGED <<cfg, entry>> /\ loc[t].pc = "probe"
    BY <1>8 DEF Probe, At
  <2>4. Mine(t)' = Mine(t) /\ Endpoint(t)' = Endpoint(t)
    BY <2>3 DEF Mine, Endpoint
  <2>5. InFlight(t)'
    BY <1>0, <2>2, <2>3, <2>4 DEF InFlight
  <2> QED BY <2>2, <2>3, <2>5, OneThreadMoves, StillAdvances, FactsKept
<1>9. CASE Tokenize(t)
  <2>1. \E info :
          loc' = [loc EXCEPT ![t].pc = "publish",
                    ![t].fact = [of |-> loc[t].fact.of \cup {Endpoint(t)}, told |-> info]]
    BY <1>9 DEF Tokenize, TypeOK, Local
  <2>2. /\ loc'[t].pc = "publish" /\ loc'[t].fact.of = loc[t].fact.of \cup {Endpoint(t)}
        /\ loc'[t].key = loc[t].key /\ loc'[t].generation = loc[t].generation
        /\ \A u \in Threads : u # t => loc'[u] = loc[u]
    BY <2>1 DEF TypeOK, Local
  <2>3. UNCHANGED <<cfg, entry>> /\ loc[t].pc = "tokenize"
    BY <1>9 DEF Tokenize, At
  <2>4. Mine(t)' = Mine(t) /\ Endpoint(t)' = Endpoint(t)
    BY <2>3 DEF Mine, Endpoint
  <2>5. loc[t].generation = Mine(t).generation => loc'[t].fact.of = {Endpoint(t)}
    BY <1>0, <2>2, <2>3 DEF InFlight
  <2>6. InFlight(t)'
    BY <1>0, <2>2, <2>3, <2>4, <2>5 DEF InFlight
  <2> QED BY <2>2, <2>3, <2>6, OneThreadMoves, StillAdvances, FactsKept
<1>10. CASE PublishRuntime(t)
  <2>1. loc[t].pc = "publish" /\ UNCHANGED entry /\ Publish(t, "recheck")
    BY <1>10 DEF PublishRuntime, At
  <2>2. loc[t].generation = Mine(t).generation => loc[t].fact.of = {Endpoint(t)}
    BY <1>0, <2>1 DEF InFlight
  <2>3. /\ FactsOwned' /\ \A q \in Processes : Advances(q)
        /\ \A u \in Threads : u # t => loc'[u] = loc[u]
        /\ \/ loc'[t].pc = "end"
           \/ loc' = [loc EXCEPT ![t].pc = "recheck"] /\ loc[t].generation = Mine(t).generation
        /\ cfg'[Home[t]].data = cfg[Home[t]].data
        /\ cfg'[Home[t]].generation = cfg[Home[t]].generation
    BY <1>0, <2>1, <2>2, PublishOwned
  <2>4. Mine(t)'.generation = Mine(t).generation /\ Endpoint(t)' = Endpoint(t)
    BY <2>3 DEF Mine, Endpoint
  <2>5. InFlight(t)'
    <3>1. CASE loc'[t].pc = "end"
      BY <1>0, <3>1, GroundedInFlight
    <3>2. CASE loc' = [loc EXCEPT ![t].pc = "recheck"]
      <4>1. /\ loc'[t].pc = "recheck" /\ loc'[t].fact = loc[t].fact
            /\ loc'[t].key = loc[t].key /\ loc'[t].generation = loc[t].generation
        BY <3>2 DEF TypeOK, Local
      <4> QED BY <1>0, <2>1, <2>2, <2>4, <4>1 DEF InFlight
    <3> QED BY <2>3, <3>1, <3>2
  <2> QED BY <2>3, <2>5, OneThreadMoves
<1>11. CASE Recheck(t)
  <2>1. UNCHANGED <<cfg, entry>> /\ loc[t].pc = "recheck"
    BY <1>11 DEF Recheck, At
  <2>2. InFlight(t)' /\ \A u \in Threads : u # t => loc'[u] = loc[u]
    <3>1. CASE Mine(t).generation = loc[t].generation
      <4>1. \E w : loc' = [loc EXCEPT ![t].pc = "store", ![t].warned = w]
        BY <1>11, <3>1 DEF Recheck
      <4>2. /\ loc'[t].pc = "store" /\ loc'[t].fact = loc[t].fact /\ loc'[t].key = loc[t].key
            /\ \A u \in Threads : u # t => loc'[u] = loc[u]
        BY <4>1 DEF TypeOK, Local
      <4>3. loc[t].fact.of = {loc[t].key.endpoint}
        BY <1>0, <2>1, <3>1 DEF InFlight
      <4> QED BY <4>2, <4>3 DEF InFlight
    <3>2. CASE Mine(t).generation # loc[t].generation
      <4>1. \E w : loc' = [loc EXCEPT ![t].pc = "end", ![t].warned = w]
        BY <1>11, <3>2 DEF Recheck
      <4>2. loc'[t].pc = "end" /\ \A u \in Threads : u # t => loc'[u] = loc[u]
        BY <4>1 DEF TypeOK, Local
      <4> QED BY <1>0, <4>2, GroundedInFlight
    <3> QED BY <3>1, <3>2
  <2> QED BY <2>1, <2>2, OneThreadMoves, StillAdvances, FactsKept
<1>12. CASE StoreEntry(t)
  <2> DEFINE e == [key |-> loc[t].key, fact |-> loc[t].fact, warned |-> loc[t].warned]
  <2>1. loc[t].pc = "store" /\ UNCHANGED cfg /\ Go(t, "report")
    BY <1>12 DEF StoreEntry, At
  <2>2. loc'[t].pc = "report" /\ \A u \in Threads : u # t => loc'[u] = loc[u]
    BY <1>0, <2>1, GoType
  <2>3. e.fact.of = {e.key.endpoint}
    BY <1>0, <2>1 DEF InFlight
  <2>4. entry' = [entry EXCEPT ![Home[t]] = {e}]
    BY <1>12 DEF StoreEntry
  <2> HIDE DEF e
  <2>5. FactsOwned'
    BY <2>1, <2>3, <2>4 DEF FactsOwned, TypeOK
  <2>6. InFlight(t)'
    BY <1>0, <2>2, GroundedInFlight
  <2> QED BY <2>1, <2>2, <2>5, <2>6, OneThreadMoves, StillAdvances
<1>13. CASE Report(t)
  <2>1. UNCHANGED <<cfg, entry>>
    BY <1>13 DEF Report
  <2>2. \E pc \in {"end", "turn"} : Only(t, pc, "turn", FALSE)
    BY <1>13 DEF Report, Return
  <2>3. loc'[t].pc \in {"end", "turn"} /\ \A u \in Threads : u # t => loc'[u] = loc[u]
    BY <1>0, <2>2, OnlyType
  <2>4. InFlight(t)'
    BY <1>0, <2>3, GroundedInFlight
  <2> QED BY <2>1, <2>3, <2>4, OneThreadMoves, StillAdvances, FactsKept
<1> QED
  BY <1>1, <1>2, <1>3, <1>4, <1>5, <1>6, <1>7, <1>8, <1>9, <1>10, <1>11, <1>12, <1>13, <1>14 DEF Preflight

LEMMA InitOwned == Init => IInv
<1> SUFFICES ASSUME Init PROVE FactsOwned /\ \A t \in Threads : InFlight(t)
  BY InitTyped DEF IInv
<1>1. FactsOwned
  <2>1. PICK s \in Settings : /\ cfg = [p \in Processes |-> Loaded(s)]
                             /\ entry = [p \in Processes |-> {}]
    BY DEF Init
  <2> QED BY <2>1 DEF Loaded, FactsOwned
<1>2. ASSUME NEW t \in Threads PROVE loc[t].pc \in {"turn", "start"}
  <2>1. PICK defers \in [Threads -> BOOLEAN], pc \in [Threads -> {"turn", "start"}] :
          loc = [u \in Threads |-> [Fresh EXCEPT !.pc = pc[u], !.defers = defers[u]]]
    BY DEF Init
  <2> QED BY <2>1, FreshType DEF Local
<1> QED
  BY <1>1, <1>2 DEF InFlight

LEMMA StepOwned == IInv /\ [Next]_vars => IInv'
<1> SUFFICES ASSUME IInv, [Next]_vars
             PROVE  FactsOwned' /\ \A t \in Threads : InFlight(t)'
  BY StepTyped DEF IInv
<1>1. ASSUME NEW t \in Threads, Reload(t) \/ Preflight(t) \/ Invocation(t) \/ Mutation(t)
      PROVE  FactsOwned' /\ \A u \in Threads : InFlight(u)'
  BY <1>1, ReloadOwned, PreflightOwned, InvocationOwned, MutationOwned
<1>2. CASE UNCHANGED <<cfg, loc>> /\ \A p \in Processes : entry'[p] \subseteq entry[p]
  <2>1. FactsOwned'
    BY <1>2 DEF FactsOwned, IInv
  <2>2. \A t \in Threads : InFlight(t)'
    BY <1>2 DEF InFlight, IInv, Mine, Endpoint
  <2> QED BY <2>1, <2>2
<1>3. ASSUME NEW s \in Settings, Save(s)
      PROVE  UNCHANGED <<cfg, loc>> /\ \A p \in Processes : entry'[p] \subseteq entry[p]
  BY <1>3 DEF Save
<1>4. ASSUME NEW q \in Processes, Expire(q)
      PROVE  UNCHANGED <<cfg, loc>> /\ \A p \in Processes : entry'[p] \subseteq entry[p]
  BY <1>4 DEF Expire, IInv, TypeOK
<1>5. CASE UNCHANGED vars
  BY <1>2, <1>5 DEF vars
<1> QED
  BY <1>1, <1>2, <1>3, <1>4, <1>5 DEF Next

\* Whatever reloads run while probes are in flight, published facts were told by
\* the endpoint of the configuration they stand beside, and a reusable entry by
\* the endpoint it is filed under.
THEOREM FactsStayOwned == Spec => []FactsOwned
<1>1. IInv => FactsOwned
  BY DEF IInv
<1> QED
  BY <1>1, InitOwned, StepOwned, PTL DEF Spec

-----------------------------------------------------------------------------
(* A plan keeps to what the configuration and its endpoint allow: the       *)
(* inductive invariant.                                                    *)

\* What a single endpoint told, it told to the adapter that is in force.
Honest(f, b) == \A e \in Endpoints : f.of = {e} => f.told \in Learned(e, b)

Filed(e) == e.fact.of = {e.key.endpoint} /\ Honest(e.fact, e.key.backend)

SoundConfig(c) ==
    /\ Loads(c.data.set.toml)
    /\ \A f \in c.runtime : f.of = {c.data.set.endpoint} /\ Honest(f, Backend(c.data.set.toml))
    /\ \A f, g \in c.runtime : f = g

\* Where a preflight has read the adapter, and where it holds a complete answer.
Keyed == {"key", "lookup", "reuse", "clear", "probe", "tokenize", "publish", "recheck"}
Answered == {"publish", "recheck", "store", "reuse"}

\* An answer with a false end token, about which the endpoint is to be asked again.
HalfAsked(t) ==
    \E e \in Endpoints : \E reply \in Says[e, loc[t].key.backend] :
        LET info == Heard(loc[t].key.backend, reply)
        IN  loc[t].fact = [of |-> {e}, told |-> info] /\ info.eos # {}

Grounded(t) ==
    /\ loc[t].pc \in {"stamp", "install"} => Loads(loc[t].data.set.toml)
    /\ loc[t].pc \in Keyed /\ loc[t].generation = Mine(t).generation =>
         loc[t].key.backend = Backend(Toml(t))
    /\ loc[t].pc = "tokenize" => HalfAsked(t)
    /\ loc[t].pc \in Answered => Honest(loc[t].fact, loc[t].key.backend)
    /\ loc[t].pc \in {"bind", "prepare", "plan"} => SoundConfig(loc[t].snap)
    /\ loc[t].pc = "prepare" => \A e \in loc[t].bound : Filed(e)

Stored ==
    \A p \in Processes : SoundConfig(cfg[p]) /\ \A e \in entry[p] : Filed(e)

PlanInv == IInv /\ Stored /\ \A t \in Threads : Grounded(t)
-----------------------------------------------------------------------------
(* What the getters return. *)

LEMMA OrElseIn ==
  ASSUME NEW S, NEW option \in SUBSET S, NEW default \in S
  PROVE  OrElse(option, default) \in S /\ (option # {} => OrElse(option, default) \in option)
  BY DEF OrElse

LEMMA PositiveU32Type ==
  ASSUME NEW toml, NEW key, NEW default \in Nat \ {0}
  PROVE  PositiveU32(toml, key, default) \in Nat \ {0}
<1> DEFINE option == {n \in Sorted(Entries(toml, key), "integer") : n \in 1 .. MaxU32}
<1>1. option \in SUBSET (Nat \ {0})
  BY WidthAssumption
<1> HIDE DEF option
<1>2. OrElse(option, default) \in Nat \ {0}
  BY <1>1, OrElseIn
<1> QED
  BY <1>2 DEF PositiveU32, option

LEMMA ContextType ==
  ASSUME NEW toml
  PROVE  TotalContext(toml) \in Nat \ {0} /\ ParallelSlots(toml) \in Nat \ {0}
<1>1. ContextWindow(toml) \in Nat \ {0} /\ 1 \in Nat \ {0}
  BY PositiveU32Type DEF ContextWindow
<1> QED
  BY <1>1, PositiveU32Type DEF TotalContext, ParallelSlots

\* A text that loads gives its slots no more than the context holds.
LEMMA ShareFits ==
  ASSUME NEW toml, Loads(toml)
  PROVE  /\ PerRequestContext(toml) \in Int
         /\ PerRequestContext(toml) * ParallelSlots(toml) <= TotalContext(toml)
<1> DEFINE key == "backend.per_request_context"
           share == TotalContext(toml) \div ParallelSlots(toml)
           explicit == {n \in Sorted(Entries(toml, key), "integer") : n > 0}
           cut == {n % (MaxU32 + 1) : n \in explicit}
<1>1. /\ \A v \in Entries(toml, key) : v.sort = "integer" /\ v.of \in 1 .. MaxU32
      /\ \A n \in Sorted(Entries(toml, key), "integer") : n <= share
  BY DEF Loads, ValidContext, ContextKeys
<1>2. \A n \in explicit : n \in Nat /\ n <= MaxU32 /\ n <= share
  BY <1>1, WidthAssumption DEF Sorted
<1>3. TotalContext(toml) \in Nat /\ ParallelSlots(toml) \in Nat \ {0}
  BY ContextType
<1>4. share \in Int /\ share * ParallelSlots(toml) <= TotalContext(toml)
  BY <1>3
<1> HIDE DEF explicit, share
<1>5. \A n \in explicit : n % (MaxU32 + 1) = n
  BY <1>2, WidthAssumption
<1>6. cut \in SUBSET {n \in Int : n <= share}
  BY <1>2, <1>5
<1> HIDE DEF cut
<1> DEFINE below == {n \in Int : n <= share}
<1>10. cut \in SUBSET below /\ share \in below
  BY <1>4, <1>6
<1>7. OrElse(cut, share) \in Int /\ OrElse(cut, share) <= share
  <2>1. below = {n \in Int : n <= share}
    OBVIOUS
  <2> HIDE DEF below
  <2>2. OrElse(cut, share) \in below
    BY <1>10, OrElseIn
  <2> QED BY <2>1, <2>2
<1>8. PerRequestContext(toml) = OrElse(cut, share)
  BY DEF PerRequestContext, cut, explicit, share
<1>9. ASSUME NEW n \in Int, n <= share
      PROVE  n * ParallelSlots(toml) <= share * ParallelSlots(toml)
  BY <1>3, <1>4, <1>9
<1> QED
  BY <1>3, <1>4, <1>7, <1>8, <1>9

LEMMA MaxOutputType ==
  ASSUME NEW toml
  PROVE  MaxOutputTokens(toml) \in Int
<1>1. 4096 \in Nat \ {0}
  OBVIOUS
<1> QED
  BY <1>1, PositiveU32Type DEF MaxOutputTokens

\* Least is bounded by both, when there is at most one of them to be bounded by.
LEMMA LeastBounds ==
  ASSUME NEW n \in Int, NEW option \in SUBSET Int
  PROVE  /\ Least(n, option) \in Int
         /\ Least(n, option) <= n
         /\ \A x \in option : option \subseteq {x} => Least(n, option) <= x
<1> DEFINE m == OrElse(option, n)
<1>1. m \in Int /\ (option # {} => m \in option)
  BY OrElseIn
<1>2. Least(n, option) = IF m < n THEN m ELSE n
  BY DEF Least
<1> HIDE DEF m
<1> QED
  BY <1>1, <1>2
-----------------------------------------------------------------------------
(* What a reply says. *)

LEMMA FirstOfOne ==
  ASSUME NEW object, NEW names, DOMAIN names \subseteq Int
  PROVE  \A v, w \in FirstOf(object, names) : v = w
<1> DEFINE here == {i \in DOMAIN names : names[i] \in DOMAIN object}
<1>1. \A i, j \in here : (\A k \in here : i <= k) /\ (\A k \in here : j <= k) => i = j
  OBVIOUS
<1> QED
  BY <1>1 DEF FirstOf

\* A count a reply gives is one whole number.
LEMMA U32One ==
  ASSUME NEW values, \A v, w \in values : v = w
  PROVE  U32(values) \in SUBSET Int /\ \A x \in U32(values) : U32(values) \subseteq {x}
<1>1. U32(values) \in SUBSET Int
  BY WidthAssumption DEF U32, IsU32
<1>2. ASSUME NEW x \in U32(values), NEW y \in U32(values)
      PROVE  x = y
  BY DEF U32
<1> QED
  BY <1>1, <1>2

Counted(info) ==
    /\ info.slot \in SUBSET Int /\ \A x \in info.slot : info.slot \subseteq {x}
    /\ info.limit \in SUBSET Int /\ \A x \in info.limit : info.limit \subseteq {x}

LEMMA HeardCounted ==
  ASSUME NEW b \in Adapters, NEW reply
  PROVE  Counted(Heard(b, reply))
<1>1. ASSUME NEW c PROVE Counted(Unverified(c))
  BY DEF Counted, Unverified
<1>2. ASSUME NEW c, NEW models, NEW status PROVE Counted(FromModels(c, models, status))
  BY DEF Counted, FromModels
<1>3. ASSUME NEW props, NEW status PROVE Counted(FromProps(props, status))
  <2> DEFINE slots == FirstOf(props, <<"n_ctx_per_seq", "n_ctx_slot">>)
             limits == Preferred(Part(props, "default_generation_settings"), LimitKeys)
  <2>1. \A v, w \in slots : v = w
    BY FirstOfOne
  <2>2. \A v, w \in limits : v = w
    <3>1. DOMAIN LimitKeys \subseteq Int
      BY DEF LimitKeys
    <3> QED BY <3>1, FirstOfOne DEF Preferred
  <2>3. FromProps(props, status).slot = U32(slots) /\ FromProps(props, status).limit = U32(limits)
    BY DEF FromProps
  <2> HIDE DEF slots, limits
  <2> QED BY <2>1, <2>2, <2>3, U32One DEF Counted
<1> QED
  BY <1>1, <1>2, <1>3 DEF Heard

LEMMA LearnedCounted ==
  ASSUME NEW e, NEW b \in Adapters, NEW info \in Learned(e, b)
  PROVE  Counted(info) /\ info.backend = b
<1>1. PICK reply \in Says[e, b] : info \in Outcomes(Heard(b, reply))
  BY Zenon DEF Learned
<1> DEFINE heard == Heard(b, reply)
<1>2. Counted(heard) /\ heard.backend = b /\ {"backend", "slot", "limit"} \subseteq DOMAIN heard
  BY HeardCounted, HeardType
<1>3. info = heard \/ info = [heard EXCEPT !.bias = heard.eos] \/ info = Unverified(heard.backend)
  BY <1>1 DEF Outcomes, Resolved
<1>4. Counted(Unverified(b)) /\ Unverified(b).backend = b
  BY DEF Counted, Unverified
<1>5. Counted([heard EXCEPT !.bias = heard.eos]) /\ [heard EXCEPT !.bias = heard.eos].backend = b
  <2>1. Counted(heard) /\ heard.backend = b /\ {"backend", "slot", "limit"} \subseteq DOMAIN heard
    BY <1>2
  <2> HIDE DEF heard
  <2>3. /\ [heard EXCEPT !.bias = heard.eos].slot = heard.slot
        /\ [heard EXCEPT !.bias = heard.eos].limit = heard.limit
        /\ [heard EXCEPT !.bias = heard.eos].backend = heard.backend
    BY <2>1
  <2> QED BY <2>1, <2>3 DEF Counted
<1> HIDE DEF heard
<1> QED
  BY <1>2, <1>3, <1>4, <1>5
-----------------------------------------------------------------------------
(* A sound configuration fits. *)

\* The limits follow from the one fact there is.
LEMMA LimitsFrom ==
  ASSUME NEW toml, Loads(toml), NEW facts,
         \A g \in facts : Counted(g) /\ g.backend = Backend(toml),
         \A g, h \in facts : g = h
  PROVE  /\ ResolvedPerRequestContext(toml, facts) * ParallelSlots(toml) <= TotalContext(toml)
         /\ \A info \in facts :
              IF info.status = "unverified"
                THEN /\ ResolvedPerRequestContext(toml, facts) <= 4096
                     /\ ResolvedMaxOutputTokens(toml, facts) <= 1024
                ELSE /\ \A n \in info.slot : ResolvedPerRequestContext(toml, facts) <= n
                     /\ \A n \in info.limit : ResolvedMaxOutputTokens(toml, facts) <= n
<1> DEFINE slots == UNION {Capped(g, g.slot, 4096) : g \in facts}
           limits == UNION {Capped(g, g.limit, 1024) : g \in facts}
           context == Least(PerRequestContext(toml), slots)
           output == Least(MaxOutputTokens(toml), limits)
<1>1. Relevant(toml, facts) = facts
  BY DEF Relevant
<1>2. /\ ResolvedPerRequestContext(toml, facts) = context
      /\ ResolvedMaxOutputTokens(toml, facts) = output
  BY <1>1 DEF ResolvedPerRequestContext, ResolvedMaxOutputTokens
<1>3. slots \in SUBSET Int /\ \A x \in slots : slots \subseteq {x}
  BY DEF Counted, Capped
<1>4. limits \in SUBSET Int /\ \A x \in limits : limits \subseteq {x}
  BY DEF Counted, Capped
<1>5. ASSUME NEW info \in facts
      PROVE  IF info.status = "unverified"
               THEN 4096 \in slots /\ 1024 \in limits
               ELSE info.slot \subseteq slots /\ info.limit \subseteq limits
  BY DEF Capped
<1> HIDE DEF slots, limits
<1>6. /\ context \in Int /\ context <= PerRequestContext(toml)
      /\ \A x \in slots : context <= x
  BY <1>3, LeastBounds, ShareFits
<1>7. \A x \in limits : output <= x
  BY <1>4, LeastBounds, MaxOutputType
<1> HIDE DEF context, output
<1>8. context * ParallelSlots(toml) <= TotalContext(toml)
  <2>1. /\ PerRequestContext(toml) \in Int /\ ParallelSlots(toml) \in Nat /\ TotalContext(toml) \in Nat
        /\ PerRequestContext(toml) * ParallelSlots(toml) <= TotalContext(toml)
    BY ShareFits, ContextType
  <2>2. context * ParallelSlots(toml) <= PerRequestContext(toml) * ParallelSlots(toml)
    BY <1>6, <2>1
  <2> QED BY <1>6, <2>1, <2>2
<1> QED
  BY <1>2, <1>5, <1>6, <1>7, <1>8

LEMMA SoundFits ==
  ASSUME NEW c \in ConfigState, SoundConfig(c)
  PROVE  Fits(c)
<1> DEFINE toml == c.data.set.toml
           e == c.data.set.endpoint
           told == {f.told : f \in c.runtime}
<1>1. e \in Endpoints /\ Backend(toml) \in Adapters /\ Loads(toml)
  BY AdapterType DEF ConfigState, Data, Setting, SoundConfig
<1>2. told \subseteq Learned(e, Backend(toml))
  BY <1>1 DEF SoundConfig, Honest
<1>3. \A g, h \in told : g = h
  BY DEF SoundConfig
<1>4. c.runtime # {} => told # {}
  OBVIOUS
<1>5. Fits(c) <=>
        /\ ResolvedPerRequestContext(toml, told) * ParallelSlots(toml) <= TotalContext(toml)
        /\ c.runtime # {} =>
             \E info \in Learned(e, Backend(toml)) :
               IF info.status = "unverified"
                 THEN /\ ResolvedPerRequestContext(toml, told) <= 4096
                      /\ ResolvedMaxOutputTokens(toml, told) <= 1024
                 ELSE /\ \A n \in info.slot : ResolvedPerRequestContext(toml, told) <= n
                      /\ \A n \in info.limit : ResolvedMaxOutputTokens(toml, told) <= n
  BY DEF Fits
<1> HIDE DEF toml, e, told
<1>6. \A g \in told : Counted(g) /\ g.backend = Backend(toml)
  BY <1>1, <1>2, LearnedCounted
<1> QED
  BY <1>1, <1>2, <1>3, <1>4, <1>5, <1>6, LimitsFrom
-----------------------------------------------------------------------------
(* What a step leaves alone. *)

Acts(t) == Reload(t) \/ Preflight(t) \/ Invocation(t) \/ Mutation(t)

LEMMA OnlyOthers ==
  ASSUME TypeOK, NEW t \in Threads, NEW pc, NEW ret, NEW b, Only(t, pc, ret, b)
  PROVE  /\ \A u \in Threads : u # t => loc'[u] = loc[u]
         /\ loc'[t].pc = pc
<1> DEFINE new == [Fresh EXCEPT !.pc = pc, !.ret = ret, !.reloaded = b, !.defers = loc[t].defers]
<1>1. loc' = [loc EXCEPT ![t] = new]
  BY DEF Only
<1>2. new.pc = pc
  BY FreshType DEF Local
<1> HIDE DEF new
<1> QED
  BY <1>1, <1>2 DEF TypeOK

LEMMA OthersStay ==
  ASSUME TypeOK, NEW t \in Threads, Acts(t)
  PROVE  \A u \in Threads : u # t => loc'[u] = loc[u]
<1>1. CASE \E pc, ret, b : Only(t, pc, ret, b)
  BY <1>1, OnlyOthers
<1>2. CASE \E pc : Go(t, pc)
  BY <1>2 DEF Go, TypeOK
<1>3. CASE Reload(t)
  <2>1. CASE Stat(t)
    BY <2>1 DEF Stat, TypeOK
  <2>2. CASE Compare(t)
    BY <2>2, <1>1, <1>2 DEF Compare, Return
  <2>3. CASE ReadFile(t)
    <3>1. CASE Loads(file.data.set.toml)
      BY <2>3, <3>1 DEF ReadFile, TypeOK
    <3>2. CASE ~Loads(file.data.set.toml)
      BY <2>3, <3>2, <1>1 DEF ReadFile, Return
    <3> QED BY <3>1, <3>2
  <2>4. CASE Stamp(t)
    BY <2>4 DEF Stamp, TypeOK
  <2>5. CASE Install(t)
    BY <2>5, <1>1 DEF Install, Return
  <2> QED BY <1>3, <2>1, <2>2, <2>3, <2>4, <2>5 DEF Reload
<1>4. CASE Preflight(t)
  <2>1. CASE StartPreflight(t)
    BY <2>1, <1>1 DEF StartPreflight, CallReload
  <2>2. CASE ReadGeneration(t) \/ ReadKeyEndpoint(t) \/ ReadKeyBackend(t) \/ ReadKeyGeneration(t)
    BY <2>2 DEF ReadGeneration, ReadKeyEndpoint, ReadKeyBackend, ReadKeyGeneration, TypeOK
  <2>3. CASE LookupRuntime(t)
    BY <2>3, <1>2 DEF LookupRuntime, TypeOK
  <2>4. CASE ReuseRuntime(t) \/ PublishRuntime(t)
    BY <2>4, <1>1, <1>2 DEF ReuseRuntime, PublishRuntime, Publish, Return
  <2>5. CASE ClearRuntime(t)
    BY <2>5, <1>1, <1>2 DEF ClearRuntime, Return
  <2>6. CASE Probe(t)
    BY <2>6 DEF Probe, TypeOK
  <2>7. CASE Tokenize(t)
    BY <2>7 DEF Tokenize, TypeOK
  <2>8. CASE Recheck(t)
    BY <2>8 DEF Recheck, TypeOK
  <2>9. CASE StoreEntry(t) \/ Report(t)
    BY <2>9, <1>1, <1>2 DEF StoreEntry, Report, Return
  <2> QED BY <1>4, <2>1, <2>2, <2>3, <2>4, <2>5, <2>6, <2>7, <2>8, <2>9 DEF Preflight
<1>5. CASE Invocation(t)
  <2>1. CASE Turn(t) \/ Again(t) \/ Translate(t)
    BY <2>1, <1>1 DEF Turn, Again, Translate, CallReload, Return
  <2>2. CASE Snapshot(t) \/ Bind(t)
    BY <2>2 DEF Snapshot, Bind, TypeOK
  <2>3. CASE Prepare(t)
    <3>1. CASE NeedsPreflight(t)
      BY <2>3, <3>1, <1>1 DEF Prepare, Return, TypeOK
    <3>2. CASE ~NeedsPreflight(t)
      BY <2>3, <3>2 DEF Prepare, TypeOK
    <3> QED BY <3>1, <3>2
  <2> QED BY <1>5, <2>1, <2>2, <2>3 DEF Invocation
<1>6. CASE Mutation(t)
  <2>1. CASE StartMutation(t) \/ Acknowledge(t)
    BY <2>1, <1>1 DEF StartMutation, Acknowledge, CallReload, Return
  <2>2. CASE Clone(t)
    BY <2>2 DEF Clone, TypeOK
  <2>3. CASE WriteTemp(t)
    BY <2>3, <1>2 DEF WriteTemp
  <2>4. CASE Rename(t)
    <3>1. CASE tmp = {}
      BY <2>4, <3>1, <1>1 DEF Rename, Return
    <3>2. CASE tmp # {}
      BY <2>4, <3>2 DEF Rename, TypeOK
    <3> QED BY <3>1, <3>2
  <2> QED BY <1>6, <2>1, <2>2, <2>3, <2>4 DEF Mutation
<1> QED
  BY <1>3, <1>4, <1>5, <1>6 DEF Acts
\* Only two things ever happen to the configuration of a process.
LEMMA ConfigMoves ==
  ASSUME TypeOK, NEW t \in Threads, Acts(t)
  PROVE  \/ UNCHANGED cfg
         \/ /\ Install(t)
            /\ cfg' = [cfg EXCEPT ![Home[t]] =
                         [data |-> loc[t].data, mtime |-> loc[t].mtime,
                          generation |-> Mine(t).generation + 1, profile |-> Mine(t).profile,
                          runtime |-> {}]]
         \/ /\ ClearRuntime(t)
            /\ cfg' = [cfg EXCEPT ![Home[t]].runtime = {}]
         \/ /\ ReuseRuntime(t) \/ PublishRuntime(t)
            /\ Mine(t).generation = loc[t].generation
            /\ cfg' = [cfg EXCEPT ![Home[t]].runtime = {loc[t].fact}]
<1>1. CASE Reload(t)
  BY <1>1 DEF Reload, Stat, Compare, ReadFile, Stamp, Install, Mine
<1>2. CASE Preflight(t)
  BY <1>2 DEF Preflight, StartPreflight, ReadGeneration, ReadKeyEndpoint, ReadKeyBackend,
     ReadKeyGeneration, LookupRuntime, ReuseRuntime, ClearRuntime, Probe, Tokenize,
     PublishRuntime, Recheck, StoreEntry, Report, Publish
<1>3. CASE Invocation(t)
  BY <1>3 DEF Invocation, Turn, Again, Snapshot, Bind, Prepare, Translate
<1>4. CASE Mutation(t)
  BY <1>4 DEF Mutation, StartMutation, Clone, WriteTemp, Rename, Acknowledge
<1> QED
  BY <1>1, <1>2, <1>3, <1>4 DEF Acts

LEMMA AllAdvance ==
  ASSUME TypeOK, NEW t \in Threads, Acts(t)
  PROVE  \A q \in Processes : Advances(q)
<1>1. CASE UNCHANGED cfg
  BY <1>1, StillAdvances
<1>2. CASE Install(t)
  <2> DEFINE c == [data |-> loc[t].data, mtime |-> loc[t].mtime,
                   generation |-> Mine(t).generation + 1, profile |-> Mine(t).profile,
                   runtime |-> {}]
  <2>1. cfg' = [cfg EXCEPT ![Home[t]] = c] /\ c.generation = Mine(t).generation + 1
    BY <1>2 DEF Install, Mine
  <2> HIDE DEF c
  <2> QED BY <2>1 DEF TypeOK, Advances, Mine
<1>3. ASSUME NEW r \in SUBSET Fact, cfg' = [cfg EXCEPT ![Home[t]].runtime = r]
      PROVE  \A q \in Processes : Advances(q)
  BY <1>3, MineType, PublishAdvances
<1>4. {} \in SUBSET Fact /\ {loc[t].fact} \in SUBSET Fact
  BY FactType
<1> QED
  BY <1>1, <1>2, <1>3, <1>4, ConfigMoves

\* The places at which Grounded says something.
Watched == Keyed \cup Answered \cup {"stamp", "install", "bind", "prepare", "plan"}

LEMMA QuietGrounded ==
  ASSUME NEW t \in Threads, loc'[t].pc \notin Watched
  PROVE  Grounded(t)'
  BY DEF Grounded, Watched, Keyed, Answered

\* As for InFlight: a reload by another thread ends what depends on the live generation.
LEMMA OtherGrounded ==
  ASSUME TypeOK, NEW t \in Threads, InFlight(t), Grounded(t), loc'[t] = loc[t], Advances(Home[t])
  PROVE  Grounded(t)'
<1>1. Mine(t).generation \in Nat /\ loc[t].generation \in Nat
  BY MineType, FactType DEF ConfigState
<1>2. loc[t].pc \in Keyed => loc[t].generation <= Mine(t).generation
  BY DEF InFlight, Keyed
<1>3. \/ Mine(t)'.generation = Mine(t).generation /\ Toml(t)' = Toml(t)
      \/ Mine(t)'.generation = Mine(t).generation + 1
  BY DEF Advances, Mine, Toml
<1>4. HalfAsked(t)' <=> HalfAsked(t)
  BY DEF HalfAsked
<1>5. loc[t].pc \in Keyed /\ loc[t].generation = Mine(t)'.generation =>
        loc[t].generation = Mine(t).generation /\ Toml(t)' = Toml(t)
  BY <1>1, <1>2, <1>3
<1> QED
  BY <1>4, <1>5 DEF Grounded

LEMMA StoredKept ==
  ASSUME Stored, UNCHANGED <<cfg, entry>>
  PROVE  Stored'
  BY DEF Stored

LEMMA StoredConfig ==
  ASSUME PlanInv, NEW p \in Processes, UNCHANGED entry,
         NEW c, cfg' = [cfg EXCEPT ![p] = c], SoundConfig(c)
  PROVE  Stored'
<1>1. \A q \in Processes : cfg'[q] = IF q = p THEN c ELSE cfg[q]
  BY DEF PlanInv, IInv, TypeOK
<1> QED
  BY <1>1 DEF PlanInv, Stored
-----------------------------------------------------------------------------
(* What each step owes: the stored configurations, and its own thread. *)

LEMMA MutationGrounded ==
  ASSUME PlanInv, NEW t \in Threads, Mutation(t)
  PROVE  Stored' /\ Grounded(t)'
<1>0. TypeOK
  BY DEF PlanInv, IInv
<1>1. UNCHANGED <<cfg, entry>>
  BY DEF Mutation, StartMutation, Clone, WriteTemp, Rename, Acknowledge
<1>2. loc'[t].pc \in {"stat", "write", "rename", "read", "end"}
  <2>1. CASE StartMutation(t) \/ Acknowledge(t)
    BY <1>0, <2>1, OnlyOthers DEF StartMutation, Acknowledge, CallReload, Return
  <2>2. CASE Clone(t)
    <3>1. PICK d : loc' = [loc EXCEPT ![t].pc = "write", ![t].data = d]
      BY <2>2 DEF Clone
    <3> QED BY <1>0, <3>1 DEF TypeOK, Local
  <2>3. CASE WriteTemp(t)
    BY <1>0, <2>3 DEF WriteTemp, Go, TypeOK, Local
  <2>4. CASE Rename(t)
    <3>1. CASE tmp = {}
      BY <1>0, <2>4, <3>1, OnlyOthers DEF Rename, Return
    <3>2. CASE tmp # {}
      <4>1. loc' = [loc EXCEPT ![t].pc = "read", ![t].ret = "persisted"]
        BY <2>4, <3>2 DEF Rename
      <4> QED BY <1>0, <4>1 DEF TypeOK, Local
    <3> QED BY <3>1, <3>2
  <2> QED BY <2>1, <2>2, <2>3, <2>4 DEF Mutation
<1>3. Stored'
  BY <1>1, StoredKept DEF PlanInv
<1>4. loc'[t].pc \notin Watched
  BY <1>2 DEF Watched, Keyed, Answered
<1> QED
  BY <1>3, <1>4, QuietGrounded

LEMMA ReloadGrounded ==
  ASSUME PlanInv, NEW t \in Threads, Reload(t)
  PROVE  Stored' /\ Grounded(t)'
<1>0. TypeOK /\ Stored /\ Grounded(t) /\ loc[t].ret \in Rets
  BY FactType DEF PlanInv, IInv
<1>1. CASE Stat(t) \/ Compare(t)
  <2>1. loc'[t].pc \in {"compare", "read"} \cup Rets
    <3>1. CASE Stat(t)
      BY <1>0, <3>1 DEF Stat, TypeOK, Local
    <3>2. CASE Compare(t)
      <4>1. CASE Only(t, loc[t].ret, "turn", FALSE)
        BY <1>0, <4>1, OnlyOthers
      <4>2. CASE Go(t, "read")
        BY <1>0, <4>2 DEF Go, TypeOK, Local
      <4> QED BY <3>2, <4>1, <4>2 DEF Compare, Return
    <3> QED BY <1>1, <3>1, <3>2
  <2>2. UNCHANGED <<cfg, entry>>
    BY <1>1 DEF Stat, Compare
  <2>3. loc'[t].pc \notin Watched
    BY <2>1 DEF Rets, Watched, Keyed, Answered
  <2> QED BY <1>0, <2>2, <2>3, StoredKept, QuietGrounded
<1>2. CASE ReadFile(t)
  <2>1. UNCHANGED <<cfg, entry>>
    BY <1>2 DEF ReadFile
  <2>2. CASE Loads(file.data.set.toml)
    <3>1. loc'[t].pc = "stamp" /\ loc'[t].data = file.data
      BY <1>0, <1>2, <2>2 DEF ReadFile, TypeOK, Local
    <3>2. Grounded(t)'
      BY <2>2, <3>1 DEF Grounded, Keyed, Answered
    <3> QED BY <1>0, <2>1, <3>2, StoredKept
  <2>3. CASE ~Loads(file.data.set.toml)
    <3>1. loc'[t].pc = OnFailure(loc[t].ret)
      BY <1>0, <1>2, <2>3, OnlyOthers DEF ReadFile, Return
    <3>2. loc'[t].pc \notin Watched
      BY <3>1 DEF OnFailure, Watched, Keyed, Answered
    <3> QED BY <1>0, <2>1, <3>2, StoredKept, QuietGrounded
  <2> QED BY <2>2, <2>3
<1>3. CASE Stamp(t)
  <2>1. loc[t].pc = "stamp" /\ loc'[t].pc = "install" /\ loc'[t].data = loc[t].data
    BY <1>0, <1>3 DEF Stamp, At, TypeOK, Local
  <2>2. Grounded(t)'
    BY <1>0, <2>1 DEF Grounded, Keyed, Answered
  <2>3. UNCHANGED <<cfg, entry>>
    BY <1>3 DEF Stamp
  <2> QED BY <1>0, <2>2, <2>3, StoredKept
<1>4. CASE Install(t)
  <2> DEFINE c == [data |-> loc[t].data, mtime |-> loc[t].mtime,
                   generation |-> Mine(t).generation + 1, profile |-> Mine(t).profile,
                   runtime |-> {}]
  <2>1. cfg' = [cfg EXCEPT ![Home[t]] = c] /\ UNCHANGED entry
    BY <1>4 DEF Install, Mine
  <2>2. SoundConfig(c)
    BY <1>0, <1>4 DEF Grounded, SoundConfig, Install, At
  <2>3. loc'[t].pc = loc[t].ret
    BY <1>0, <1>4, OnlyOthers DEF Install, Return
  <2>4. loc'[t].pc \notin Watched
    BY <1>0, <2>3 DEF Rets, Watched, Keyed, Answered
  <2> HIDE DEF c
  <2> QED BY <1>0, <2>1, <2>2, <2>4, MineType, StoredConfig, QuietGrounded
<1> QED
  BY <1>1, <1>2, <1>3, <1>4 DEF Reload

LEMMA InvocationGrounded ==
  ASSUME PlanInv, NEW t \in Threads, Invocation(t)
  PROVE  Stored' /\ Grounded(t)'
<1>0. TypeOK /\ FactsOwned /\ Stored /\ Grounded(t) /\ Home[t] \in Processes
  BY MineType DEF PlanInv, IInv
<1>1. Stored'
  BY <1>0, StoredKept DEF Invocation, Turn, Again, Snapshot, Bind, Prepare, Translate
<1> SUFFICES Grounded(t)'
  BY <1>1
<1>2. ASSUME NEW pc \in {"stat", "turn"}, loc'[t].pc = pc
      PROVE  Grounded(t)'
  BY <1>2, QuietGrounded DEF Watched, Keyed, Answered
<1>3. CASE Turn(t) \/ Again(t) \/ Translate(t)
  BY <1>0, <1>2, <1>3, OnlyOthers DEF Turn, Again, Translate, CallReload, Return
<1>4. CASE Snapshot(t)
  <2>1. loc'[t].pc = "bind" /\ loc'[t].snap = Mine(t)
    BY <1>0, <1>4 DEF Snapshot, TypeOK, Local
  <2>2. SoundConfig(Mine(t))
    BY <1>0 DEF Stored, Mine
  <2> QED BY <2>1, <2>2 DEF Grounded, Keyed, Answered
<1>5. CASE Bind(t)
  <2>1. /\ loc[t].pc = "bind" /\ loc'[t].pc = "prepare"
        /\ loc'[t].snap = loc[t].snap /\ loc'[t].bound = entry[Home[t]]
    BY <1>0, <1>5 DEF Bind, At, TypeOK, Local
  <2> QED BY <1>0, <2>1 DEF Stored, Grounded, Keyed, Answered
<1>6. CASE Prepare(t)
  <2> DEFINE s == loc[t].snap
             set == s.data.set
  <2>1. loc[t].pc = "prepare" /\ SoundConfig(s) /\ \A e \in loc[t].bound : Filed(e)
    BY <1>0, <1>6 DEF Prepare, At, Grounded
  <2>2. ASSUME NEW a \in Answers(t)
        PROVE  a.fact.of = {set.endpoint} /\ Honest(a.fact, Backend(set.toml))
    <3> DEFINE k == [endpoint |-> set.endpoint, backend |-> Backend(set.toml), generation |-> s.generation]
    <3>1. \/ \E e \in loc[t].bound : e.key = k /\ a.fact = e.fact
          \/ \E info \in Learned(set.endpoint, Backend(set.toml)) :
               a.fact = [of |-> {set.endpoint}, told |-> info]
      <4>1. \/ a \in {[fact |-> e.fact, warned |-> e.warned] : e \in {x \in loc[t].bound : x.key = k}}
            \/ a \in {[fact |-> [of |-> {set.endpoint}, told |-> info],
                       warned |-> Warnings(set.toml, s.profile, info)]
                        : info \in Learned(set.endpoint, k.backend)}
        BY Zenon DEF Answers
      <4>2. k.backend = Backend(set.toml)
        OBVIOUS
      <4>3. ASSUME NEW e \in {x \in loc[t].bound : x.key = k}, a = [fact |-> e.fact, warned |-> e.warned]
            PROVE  e \in loc[t].bound /\ e.key = k /\ a.fact = e.fact
        BY <4>3
      <4>4. ASSUME NEW info \in Learned(set.endpoint, k.backend),
                   a = [fact |-> [of |-> {set.endpoint}, told |-> info],
                        warned |-> Warnings(set.toml, s.profile, info)]
            PROVE  a.fact = [of |-> {set.endpoint}, told |-> info]
        BY <4>4
      <4> HIDE DEF k, set, s
      <4> QED BY <4>1, <4>2, <4>3, <4>4
    <3>2. k.endpoint = set.endpoint /\ k.backend = Backend(set.toml)
      OBVIOUS
    <3> HIDE DEF k, set, s
    <3>3. CASE \E e \in loc[t].bound : e.key = k /\ a.fact = e.fact
      BY <2>1, <3>2, <3>3 DEF Filed
    <3>4. CASE \E info \in Learned(set.endpoint, Backend(set.toml)) :
                 a.fact = [of |-> {set.endpoint}, told |-> info]
      BY <3>4 DEF Honest
    <3> QED BY <3>1, <3>3, <3>4
  <2>3. ASSUME NEW f, f.of = {set.endpoint}, Honest(f, Backend(set.toml)),
               loc' = [loc EXCEPT ![t].snap.runtime = {f}, ![t].bound = {}, ![t].pc = "plan"]
        PROVE  Grounded(t)'
    <3>1. /\ loc'[t].pc = "plan" /\ loc'[t].snap.data = s.data
          /\ loc'[t].snap.runtime = {f}
      BY <1>0, <2>3 DEF TypeOK, Local, ConfigState
    <3> QED BY <2>1, <2>3, <3>1 DEF Grounded, SoundConfig, Keyed, Answered
  <2>4. CASE loc' = [loc EXCEPT ![t].bound = {}, ![t].pc = "plan"]
    <3>1. loc'[t].pc = "plan" /\ loc'[t].snap = s
      BY <1>0, <2>4 DEF TypeOK, Local
    <3> QED BY <2>1, <3>1 DEF Grounded, Keyed, Answered
  <2>5. CASE Return(t, "turn", FALSE)
    BY <1>0, <1>2, <2>5, OnlyOthers DEF Return
  <2>6. \/ Return(t, "turn", FALSE)
        \/ \E a \in Answers(t) :
             loc' = [loc EXCEPT ![t].snap.runtime = {a.fact}, ![t].bound = {}, ![t].pc = "plan"]
        \/ loc' = [loc EXCEPT ![t].bound = {}, ![t].pc = "plan"]
    BY <1>6 DEF Prepare
  <2>7. ASSUME NEW a \in Answers(t),
               loc' = [loc EXCEPT ![t].snap.runtime = {a.fact}, ![t].bound = {}, ![t].pc = "plan"]
        PROVE  Grounded(t)'
    BY <2>2, <2>3, <2>7
  <2> QED BY <2>4, <2>5, <2>6, <2>7
<1> QED
  BY <1>3, <1>4, <1>5, <1>6 DEF Invocation
\* What one question may come to, when the tokenizer need not, or must, be asked.
LEMMA LearnedFrom ==
  ASSUME NEW e, NEW b, NEW reply \in Says[e, b]
  PROVE  /\ Heard(b, reply).eos = {} => Heard(b, reply) \in Learned(e, b)
         /\ Heard(b, reply).eos # {} =>
              \A found \in BOOLEAN : Resolved(Heard(b, reply), found) \in Learned(e, b)
<1>1. Outcomes(Heard(b, reply)) \subseteq Learned(e, b)
  BY Zenon DEF Learned
<1> QED
  BY <1>1 DEF Outcomes

\* Clearing or replacing the facts of a sound configuration leaves a sound one.
LEMMA FactsStored ==
  ASSUME PlanInv, NEW t \in Threads, UNCHANGED entry,
         NEW r \in SUBSET Fact, cfg' = [cfg EXCEPT ![Home[t]].runtime = r],
         \A f \in r : f.of = {Endpoint(t)} /\ Honest(f, Backend(Toml(t))),
         \A f, g \in r : f = g
  PROVE  Stored'
<1> DEFINE c == [cfg[Home[t]] EXCEPT !.runtime = r]
<1>0. TypeOK /\ Stored /\ Home[t] \in Processes
  BY MineType DEF PlanInv, IInv
<1>1. c.data = Mine(t).data /\ c.runtime = r
  BY <1>0 DEF TypeOK, ConfigState, Mine
<1>2. Loads(Toml(t))
  BY <1>0 DEF Stored, SoundConfig, Toml, Mine
<1>3. cfg' = [cfg EXCEPT ![Home[t]] = c]
  OBVIOUS
<1> HIDE DEF c
<1>4. SoundConfig(c)
  BY <1>1, <1>2 DEF SoundConfig, Toml, Endpoint
<1> QED
  BY <1>0, <1>3, <1>4, StoredConfig

\* Publication is where the two halves meet: while the generation is still the live
\* one, the thread's answer came from the live endpoint and to the live adapter.
LEMMA PublishStored ==
  ASSUME PlanInv, NEW t \in Threads, NEW pc, Publish(t, pc), UNCHANGED entry,
         loc[t].pc \in {"reuse", "publish"}
  PROVE  /\ Stored'
         /\ \/ loc'[t].pc = "end"
            \/ /\ loc'[t].pc = pc /\ loc'[t].fact = loc[t].fact /\ loc'[t].key = loc[t].key
               /\ loc'[t].generation = Mine(t).generation
               /\ loc[t].key.backend = Backend(Toml(t))
               /\ Mine(t)'.generation = Mine(t).generation /\ Toml(t)' = Toml(t)
<1>0. /\ TypeOK /\ Stored /\ Grounded(t) /\ InFlight(t) /\ Home[t] \in Processes
      /\ loc[t].fact \in Fact
  BY MineType, FactType DEF PlanInv, IInv
<1>1. CASE Mine(t).generation = loc[t].generation
  <2>1. /\ loc[t].key.backend = Backend(Toml(t))
        /\ Honest(loc[t].fact, loc[t].key.backend)
    BY <1>0, <1>1 DEF Grounded, Keyed, Answered
  <2>2. loc[t].fact.of = {Endpoint(t)}
    BY <1>0, <1>1 DEF InFlight
  <2>3. cfg' = [cfg EXCEPT ![Home[t]].runtime = {loc[t].fact}] /\ Go(t, pc)
    BY <1>1 DEF Publish
  <2>4. Stored'
    <3> DEFINE r == {loc[t].fact}
    <3>1. /\ r \in SUBSET Fact /\ \A f, g \in r : f = g
          /\ \A f \in r : f.of = {Endpoint(t)} /\ Honest(f, Backend(Toml(t)))
      BY <1>0, <2>1, <2>2
    <3>2. cfg' = [cfg EXCEPT ![Home[t]].runtime = r]
      BY <2>3
    <3> HIDE DEF r
    <3> QED BY <3>1, <3>2, FactsStored
  <2>5. /\ loc'[t].pc = pc /\ loc'[t].fact = loc[t].fact /\ loc'[t].key = loc[t].key
        /\ loc'[t].generation = loc[t].generation
    BY <1>0, <2>3 DEF Go, TypeOK, Local
  <2>6. /\ cfg'[Home[t]].generation = cfg[Home[t]].generation
        /\ cfg'[Home[t]].data = cfg[Home[t]].data
    <3>1. {loc[t].fact} \in SUBSET Fact
      BY <1>0
    <3> QED BY <1>0, <2>3, <3>1, PublishAdvances
  <2> QED BY <1>1, <2>1, <2>4, <2>5, <2>6 DEF Mine, Toml
<1>2. CASE Mine(t).generation # loc[t].generation
  <2>1. Only(t, "end", "turn", FALSE) /\ UNCHANGED cfg
    BY <1>2 DEF Publish, Return
  <2> QED BY <1>0, <2>1, OnlyOthers, StoredKept
<1> QED
  BY <1>1, <1>2

LEMMA FactParts ==
  ASSUME NEW f, NEW of, NEW told, f = [of |-> of, told |-> told]
  PROVE  f.of = of /\ f.told = told
  OBVIOUS

LEMMA PreflightGrounded ==
  ASSUME PlanInv, NEW t \in Threads, Preflight(t)
  PROVE  Stored' /\ Grounded(t)'
<1>0. /\ TypeOK /\ FactsOwned /\ Stored /\ Grounded(t) /\ InFlight(t) /\ Home[t] \in Processes
      /\ loc[t] \in Local
  BY MineType DEF PlanInv, IInv
<1>Q. ASSUME loc'[t].pc \in {"stat", "endpoint", "backend", "report", "end", "turn"}
      PROVE  Grounded(t)'
  BY <1>Q, QuietGrounded DEF Watched, Keyed, Answered
<1>K. ASSUME UNCHANGED cfg
      PROVE  Mine(t)' = Mine(t) /\ Toml(t)' = Toml(t) /\ Endpoint(t)' = Endpoint(t)
  BY <1>K DEF Mine, Toml, Endpoint
<1>1. CASE StartPreflight(t)
  <2>1. loc'[t].pc = "stat" /\ UNCHANGED <<cfg, entry>>
    BY <1>0, <1>1, OnlyOthers DEF StartPreflight, CallReload
  <2> QED BY <1>0, <1>Q, <2>1, StoredKept
<1>2. CASE ReadGeneration(t) \/ ReadKeyEndpoint(t)
  <2>1. loc'[t].pc \in {"endpoint", "backend"} /\ UNCHANGED <<cfg, entry>>
    BY <1>0, <1>2 DEF ReadGeneration, ReadKeyEndpoint, TypeOK, Local
  <2> QED BY <1>0, <1>Q, <2>1, StoredKept
<1>3. CASE ReadKeyBackend(t)
  <2>1. /\ loc'[t].pc = "key" /\ loc'[t].key.backend = Backend(Toml(t))
        /\ UNCHANGED <<cfg, entry>>
    BY <1>0, <1>3 DEF ReadKeyBackend, TypeOK, Local, Key
  <2>2. Grounded(t)'
    BY <1>K, <2>1 DEF Grounded, Keyed, Answered
  <2> QED BY <1>0, <2>1, <2>2, StoredKept
<1>4. CASE ReadKeyGeneration(t)
  <2>1. /\ loc[t].pc = "key" /\ loc'[t].pc = "lookup"
        /\ loc'[t].key.backend = loc[t].key.backend /\ loc'[t].generation = loc[t].generation
        /\ UNCHANGED <<cfg, entry>>
    BY <1>0, <1>4 DEF ReadKeyGeneration, At, TypeOK, Local, Key
  <2>2. Grounded(t)'
    BY <1>0, <1>K, <2>1 DEF Grounded, Keyed, Answered
  <2> QED BY <1>0, <2>1, <2>2, StoredKept
<1>5. CASE LookupRuntime(t)
  <2>1. UNCHANGED <<cfg, entry>> /\ loc[t].pc = "lookup"
    BY <1>5 DEF LookupRuntime, At
  <2>2. CASE \E e \in entry[Home[t]] :
               /\ e.key = loc[t].key
               /\ loc' = [loc EXCEPT ![t].pc = "reuse", ![t].fact = e.fact, ![t].warned = e.warned]
    <3>1. PICK e \in entry[Home[t]] :
            /\ e.key = loc[t].key
            /\ loc' = [loc EXCEPT ![t].pc = "reuse", ![t].fact = e.fact, ![t].warned = e.warned]
      BY <2>2
    <3>2. Honest(e.fact, e.key.backend)
      BY <1>0, <3>1 DEF Stored, Filed
    <3>3. /\ loc'[t].pc = "reuse" /\ loc'[t].fact = e.fact
          /\ loc'[t].key = loc[t].key /\ loc'[t].generation = loc[t].generation
      BY <1>0, <3>1 DEF TypeOK, Local
    <3>4. Grounded(t)'
      BY <1>0, <1>K, <2>1, <3>1, <3>2, <3>3 DEF Grounded, Keyed, Answered
    <3> QED BY <1>0, <2>1, <3>4, StoredKept
  <2>3. CASE Go(t, "clear")
    <3>1. /\ loc'[t].pc = "clear"
          /\ loc'[t].key = loc[t].key /\ loc'[t].generation = loc[t].generation
      BY <1>0, <2>3 DEF Go, TypeOK, Local
    <3>2. Grounded(t)'
      BY <1>0, <1>K, <2>1, <3>1 DEF Grounded, Keyed, Answered
    <3> QED BY <1>0, <2>1, <3>2, StoredKept
  <2> QED BY <1>5, <2>2, <2>3 DEF LookupRuntime
<1>6. CASE ReuseRuntime(t)
  <2>1. loc[t].pc = "reuse" /\ UNCHANGED entry /\ Publish(t, "report")
    BY <1>6 DEF ReuseRuntime, At
  <2>2. Stored' /\ loc'[t].pc \in {"end", "report"}
    BY <2>1, PublishStored
  <2> QED BY <1>Q, <2>2
<1>7. CASE ClearRuntime(t)
  <2>1. loc[t].pc = "clear" /\ UNCHANGED entry
    BY <1>7 DEF ClearRuntime, At
  <2>2. CASE Mine(t).generation = loc[t].generation
    <3>1. cfg' = [cfg EXCEPT ![Home[t]].runtime = {}] /\ Go(t, "probe")
      BY <1>7, <2>2 DEF ClearRuntime
    <3>2. /\ {} \in SUBSET Fact /\ \A f, g \in {} : f = g
          /\ \A f \in {} : f.of = {Endpoint(t)} /\ Honest(f, Backend(Toml(t)))
      OBVIOUS
    <3>3. Stored'
      BY <2>1, <3>1, <3>2, FactsStored
    <3>4. Mine(t)'.generation = Mine(t).generation /\ Toml(t)' = Toml(t)
      BY <1>0, <3>1, <3>2, PublishAdvances DEF Mine, Toml
    <3>5. /\ loc'[t].pc = "probe"
          /\ loc'[t].key = loc[t].key /\ loc'[t].generation = loc[t].generation
      BY <1>0, <3>1 DEF Go, TypeOK, Local
    <3>6. Grounded(t)'
      BY <1>0, <2>1, <3>4, <3>5 DEF Grounded, Keyed, Answered
    <3> QED BY <3>3, <3>6
  <2>3. CASE Mine(t).generation # loc[t].generation
    <3>1. Only(t, "end", "turn", FALSE) /\ UNCHANGED cfg
      BY <1>7, <2>3 DEF ClearRuntime, Return
    <3> QED BY <1>0, <1>Q, <2>1, <3>1, OnlyOthers, StoredKept
  <2> QED BY <2>2, <2>3
<1>8. CASE Probe(t)
  <2> DEFINE b == loc[t].key.backend
             e == Endpoint(t)
  <2>1. PICK reply \in Says[e, b] :
          LET info == Heard(b, reply)
          IN  loc' = [loc EXCEPT ![t].pc = IF info.eos = {} THEN "publish" ELSE "tokenize",
                                 ![t].fact = [of |-> {e}, told |-> info]]
    BY <1>8 DEF Probe
  <2> DEFINE info == Heard(b, reply)
  <2>2. loc[t].pc = "probe" /\ UNCHANGED <<cfg, entry>> /\ e \in Endpoints
    BY <1>0, <1>8, MineType DEF Probe, At
  <2>3. info.eos = {} => info \in Learned(e, b)
    BY LearnedFrom
  <2>4. /\ loc'[t].pc = IF info.eos = {} THEN "publish" ELSE "tokenize"
        /\ loc'[t].fact = [of |-> {e}, told |-> info]
        /\ loc'[t].fact.of = {e} /\ loc'[t].fact.told = info
        /\ loc'[t].key = loc[t].key /\ loc'[t].generation = loc[t].generation
    <3> DEFINE next == IF info.eos = {} THEN "publish" ELSE "tokenize"
    <3>1. loc' = [loc EXCEPT ![t].pc = next, ![t].fact = [of |-> {e}, told |-> info]]
      BY <2>1
    <3>2. next = IF info.eos = {} THEN "publish" ELSE "tokenize"
      OBVIOUS
    <3> DEFINE f == [of |-> {e}, told |-> info]
               new == [loc[t] EXCEPT !.pc = next, !.fact = f]
    <3>3. loc' = [loc EXCEPT ![t] = new]
      BY <3>1
    <3>4. f = [of |-> {e}, told |-> info] /\ f.of = {e} /\ f.told = info
      OBVIOUS
    <3> HIDE DEF next, info, e, f
    <3>5. new.pc = next /\ new.fact = f /\ new.key = loc[t].key /\ new.generation = loc[t].generation
      BY <1>0 DEF Local
    <3> HIDE DEF new
    <3>6. loc'[t] = new
      BY <1>0, <3>3, ZenonT(60) DEF TypeOK
    <3> QED BY <3>2, <3>4, <3>5, <3>6
  <2>5. CASE info.eos = {}
    <3> HIDE DEF info, b, e
    <3>4. loc'[t].pc = "publish" /\ loc'[t].fact.of = {e} /\ loc'[t].fact.told \in Learned(e, b)
      BY <2>3, <2>4, <2>5
    <3>1. loc'[t].pc = "publish" /\ Honest(loc'[t].fact, b)
      BY <3>4 DEF Honest
    <3>2. loc'[t].key.backend = b /\ b = loc[t].key.backend
      BY <2>4 DEF b
    <3>3. Grounded(t)'
      BY <1>0, <1>K, <2>2, <2>4, <3>1, <3>2 DEF Grounded, Keyed, Answered
    <3> QED BY <1>0, <2>2, <3>3, StoredKept
  <2>6. CASE info.eos # {}
    <3>1. HalfAsked(t)'
      BY <2>1, <2>2, <2>4, <2>6 DEF HalfAsked
    <3>2. loc'[t].pc = "tokenize"
      BY <2>4, <2>6
    <3> HIDE DEF info, b, e
    <3>3. Grounded(t)'
      BY <1>0, <1>K, <2>2, <2>4, <3>1, <3>2 DEF Grounded, Keyed, Answered
    <3> QED BY <1>0, <2>2, <3>3, StoredKept
  <2> QED BY <2>5, <2>6
<1>9. CASE Tokenize(t)
  <2> DEFINE b == loc[t].key.backend
  <2>1. loc[t].pc = "tokenize" /\ UNCHANGED <<cfg, entry>>
    BY <1>9 DEF Tokenize, At
  <2>2. PICK e \in Endpoints : \E reply \in Says[e, b] :
          LET info == Heard(b, reply)
          IN  loc[t].fact = [of |-> {e}, told |-> info] /\ info.eos # {}
    BY <1>0, <2>1 DEF Grounded, HalfAsked
  <2>3. PICK reply \in Says[e, b] :
          loc[t].fact = [of |-> {e}, told |-> Heard(b, reply)] /\ Heard(b, reply).eos # {}
    BY <2>2
  <2>4. PICK found \in BOOLEAN :
          loc' = [loc EXCEPT ![t].pc = "publish",
                             ![t].fact = [of |-> loc[t].fact.of \cup {Endpoint(t)},
                                          told |-> Resolved(loc[t].fact.told, found)]]
    BY <1>0, <1>9 DEF Tokenize, TypeOK
  <2>5. /\ loc'[t].pc = "publish"
        /\ loc'[t].fact.of = {e} \cup {Endpoint(t)}
        /\ loc'[t].fact.told = Resolved(Heard(b, reply), found)
        /\ loc'[t].key = loc[t].key /\ loc'[t].generation = loc[t].generation
    <3> DEFINE heard == Heard(b, reply)
               asked == loc[t].fact.of \cup {Endpoint(t)}
               told == Resolved(loc[t].fact.told, found)
    <3>1. loc[t].fact.of = {e} /\ loc[t].fact.told = heard
      BY <2>3, FactParts, Zenon
    <3>2. loc' = [loc EXCEPT ![t].pc = "publish", ![t].fact = [of |-> asked, told |-> told]]
      BY <2>4
    <3>3. asked = {e} \cup {Endpoint(t)} /\ told = Resolved(Heard(b, reply), found)
      BY <3>1
    <3> DEFINE f == [of |-> asked, told |-> told]
               new == [loc[t] EXCEPT !.pc = "publish", !.fact = f]
    <3>4. loc' = [loc EXCEPT ![t] = new]
      BY <3>2
    <3> HIDE DEF asked, told, heard, b
    <3>5. f.of = asked /\ f.told = told
      OBVIOUS
    <3> HIDE DEF f
    <3>6. new.pc = "publish" /\ new.fact = f /\ new.key = loc[t].key /\ new.generation = loc[t].generation
      BY <1>0 DEF Local
    <3> HIDE DEF new
    <3>7. loc'[t] = new
      BY <1>0, <3>4 DEF TypeOK
    <3> QED BY <3>3, <3>5, <3>6, <3>7
  <2>6. Resolved(Heard(b, reply), found) \in Learned(e, b)
    BY <2>3, LearnedFrom
  <2>7. Honest(loc'[t].fact, b)
    <3>1. loc'[t].fact.of = {e} \cup {Endpoint(t)} /\ loc'[t].fact.told \in Learned(e, b)
      BY <2>5, <2>6
    <3> HIDE DEF b
    <3> QED BY <3>1 DEF Honest
  <2>8. Grounded(t)'
    BY <1>0, <1>K, <2>1, <2>5, <2>7 DEF Grounded, Keyed, Answered
  <2> QED BY <1>0, <2>1, <2>8, StoredKept
<1>10. CASE PublishRuntime(t)
  <2>1. loc[t].pc = "publish" /\ UNCHANGED entry /\ Publish(t, "recheck")
    BY <1>10 DEF PublishRuntime, At
  <2>2. /\ Stored'
        /\ \/ loc'[t].pc = "end"
           \/ /\ loc'[t].pc = "recheck" /\ loc'[t].fact = loc[t].fact /\ loc'[t].key = loc[t].key
              /\ loc[t].key.backend = Backend(Toml(t)) /\ Toml(t)' = Toml(t)
    BY <2>1, PublishStored
  <2>3. Honest(loc[t].fact, loc[t].key.backend)
    BY <1>0, <2>1 DEF Grounded, Answered
  <2>4. Grounded(t)'
    BY <1>Q, <2>2, <2>3 DEF Grounded, Keyed, Answered
  <2> QED BY <2>2, <2>4
<1>11. CASE Recheck(t)
  <2> DEFINE next == IF Mine(t).generation = loc[t].generation THEN "store" ELSE "end"
  <2>1. loc[t].pc = "recheck" /\ UNCHANGED <<cfg, entry>>
    BY <1>11 DEF Recheck, At
  <2>2. /\ loc'[t].pc \in {"store", "end"}
        /\ loc'[t].fact = loc[t].fact /\ loc'[t].key = loc[t].key
    <3>1. \E w : loc' = [loc EXCEPT ![t].pc = next, ![t].warned = w]
      BY <1>11 DEF Recheck
    <3>2. next \in {"store", "end"}
      OBVIOUS
    <3> HIDE DEF next
    <3> QED BY <1>0, <3>1, <3>2 DEF TypeOK, Local
  <2>3. Grounded(t)'
    BY <1>0, <1>Q, <2>1, <2>2 DEF Grounded, Keyed, Answered
  <2> QED BY <1>0, <2>1, <2>3, StoredKept
<1>12. CASE StoreEntry(t)
  <2> DEFINE e == [key |-> loc[t].key, fact |-> loc[t].fact, warned |-> loc[t].warned]
  <2>1. loc[t].pc = "store" /\ UNCHANGED cfg /\ Go(t, "report")
    BY <1>12 DEF StoreEntry, At
  <2>2. Filed(e)
    BY <1>0, <2>1 DEF InFlight, Grounded, Answered, Filed
  <2>3. entry' = [entry EXCEPT ![Home[t]] = {e}]
    BY <1>12 DEF StoreEntry
  <2> HIDE DEF e
  <2>4. Stored'
    BY <1>0, <2>1, <2>2, <2>3 DEF Stored, TypeOK
  <2>5. loc'[t].pc = "report"
    BY <1>0, <2>1 DEF Go, TypeOK, Local
  <2> QED BY <1>Q, <2>4, <2>5
<1>13. CASE Report(t)
  <2>1. UNCHANGED <<cfg, entry>>
    BY <1>13 DEF Report
  <2>2. \E pc \in {"end", "turn"} : Only(t, pc, "turn", FALSE)
    BY <1>13 DEF Report, Return
  <2>3. loc'[t].pc \in {"end", "turn"}
    BY <1>0, <2>2, OnlyOthers
  <2> QED BY <1>0, <1>Q, <2>1, <2>3, StoredKept
<1> QED
  BY <1>1, <1>2, <1>3, <1>4, <1>5, <1>6, <1>7, <1>8, <1>9, <1>10, <1>11, <1>12, <1>13 DEF Preflight

-----------------------------------------------------------------------------
(* PlanFits. *)

LEMMA InitPlan == Init => PlanInv
<1> SUFFICES ASSUME Init PROVE Stored /\ \A t \in Threads : Grounded(t)
  BY InitOwned DEF PlanInv
<1>1. Stored
  <2>1. PICK s \in {x \in Settings : Opens(x.toml)} :
          /\ cfg = [p \in Processes |-> Loaded(s)]
          /\ entry = [p \in Processes |-> {}]
    BY DEF Init
  <2>2. SoundConfig(Loaded(s))
    BY <2>1 DEF SoundConfig, Loaded, With, Opens
  <2> QED BY <2>1, <2>2 DEF Stored
<1>2. ASSUME NEW t \in Threads PROVE loc[t].pc \in {"turn", "start"}
  <2>1. PICK defers \in [Threads -> BOOLEAN], pc \in [Threads -> {"turn", "start"}] :
          loc = [u \in Threads |-> [Fresh EXCEPT !.pc = pc[u], !.defers = defers[u]]]
    BY DEF Init
  <2> QED BY <2>1, FreshType DEF Local
<1> QED
  BY <1>1, <1>2 DEF Grounded, Keyed, Answered

LEMMA StepPlan == PlanInv /\ [Next]_vars => PlanInv'
<1> SUFFICES ASSUME PlanInv, [Next]_vars
             PROVE  Stored' /\ \A t \in Threads : Grounded(t)'
  BY StepOwned DEF PlanInv
<1>0. TypeOK /\ \A t \in Threads : InFlight(t) /\ Grounded(t)
  BY DEF PlanInv, IInv
<1>1. ASSUME NEW t \in Threads, Acts(t)
      PROVE  Stored' /\ \A u \in Threads : Grounded(u)'
  <2>1. Stored' /\ Grounded(t)'
    BY <1>1, ReloadGrounded, PreflightGrounded, InvocationGrounded, MutationGrounded DEF Acts
  <2>2. ASSUME NEW u \in Threads, u # t PROVE Grounded(u)'
    BY <1>0, <1>1, <2>2, OthersStay, AllAdvance, OtherGrounded, HomeAssumption
  <2> QED BY <2>1, <2>2
<1>2. CASE UNCHANGED <<cfg, loc>> /\ \A p \in Processes : entry'[p] \subseteq entry[p]
  <2>1. Stored'
    BY <1>2 DEF Stored, PlanInv
  <2>2. \A t \in Threads : Grounded(t)'
    BY <1>0, <1>2, OtherGrounded, StillAdvances, HomeAssumption
  <2> QED BY <2>1, <2>2
<1>3. ASSUME NEW s \in Settings, Save(s)
      PROVE  UNCHANGED <<cfg, loc>> /\ \A p \in Processes : entry'[p] \subseteq entry[p]
  BY <1>3 DEF Save
<1>4. ASSUME NEW q \in Processes, Expire(q)
      PROVE  UNCHANGED <<cfg, loc>> /\ \A p \in Processes : entry'[p] \subseteq entry[p]
  BY <1>0, <1>4 DEF Expire, TypeOK
<1>5. CASE UNCHANGED vars
  BY <1>2, <1>5 DEF vars
<1> QED
  BY <1>1, <1>2, <1>3, <1>4, <1>5 DEF Next, Acts

\* Whatever the file, the replies and the order of reloads and probes, a plan keeps
\* to the configured share of the context and to what the endpoint of the plan said.
THEOREM PlansFit == Spec => []PlanFits
<1>1. PlanInv => PlanFits
  <2> SUFFICES ASSUME PlanInv, NEW t \in Threads, At(t, "plan") PROVE Fits(loc[t].snap)
    BY DEF PlanFits
  <2>1. loc[t].snap \in ConfigState /\ SoundConfig(loc[t].snap)
    BY FactType DEF PlanInv, IInv, Grounded, At
  <2> QED BY <2>1, SoundFits
<1> QED
  BY <1>1, InitPlan, StepPlan, PTL DEF Spec
-----------------------------------------------------------------------------
(* What is kept answers the question it is kept under. *)

\* Two fingerprints that agree were made of the same request settings, facts and options.
LEMMA FingerprintTells ==
  ASSUME NEW b, NEW c, NEW t1, NEW t2, NEW o1, NEW o2,
         Fingerprint(b, t1, o1) = Fingerprint(c, t2, o2)
  PROVE  /\ Backend(TomlOf(b)) = Backend(TomlOf(c)) /\ Model(TomlOf(b)) = Model(TomlOf(c))
         /\ b.data.set.endpoint = c.data.set.endpoint
         /\ Runtime(b) = Runtime(c)
         /\ OutputLimit(b) = OutputLimit(c)
         /\ Sent(TomlOf(b)) = Sent(TomlOf(c))
         /\ \A field \in Sent(TomlOf(c)) :
              SentValue(TomlOf(b), field) = SentValue(TomlOf(c), field)
         /\ o1 = o2
<1> DEFINE x == TomlOf(b)
           y == TomlOf(c)
           m == OutputLimit(b)
           n == OutputLimit(c)
           g == [field \in Sent(x) |-> Normalized(x)[field]]
           h == [field \in Sent(y) |-> Normalized(y)[field]]
<1>1. Hashed(b, t1, o1, {m}) = Hashed(c, t2, o2, {n})
  BY DEF Fingerprint
<1>2. /\ Hashed(b, t1, o1, {m}).backend = Backend(x) /\ Hashed(c, t2, o2, {n}).backend = Backend(y)
      /\ Hashed(b, t1, o1, {m}).endpoint_url = b.data.set.endpoint
      /\ Hashed(c, t2, o2, {n}).endpoint_url = c.data.set.endpoint
      /\ Hashed(b, t1, o1, {m}).configured_alias = Model(x)
      /\ Hashed(c, t2, o2, {n}).configured_alias = Model(y)
      /\ Hashed(b, t1, o1, {m}).options_hash = o1 /\ Hashed(c, t2, o2, {n}).options_hash = o2
  BY DEF Hashed
<1>3. /\ Hashed(b, t1, o1, {m}).generation = g /\ Hashed(c, t2, o2, {n}).generation = h
      /\ Hashed(b, t1, o1, {m}).max_output_tokens = {m} /\ Hashed(c, t2, o2, {n}).max_output_tokens = {n}
      /\ Hashed(b, t1, o1, {m}).runtime = Runtime(b) /\ Hashed(c, t2, o2, {n}).runtime = Runtime(c)
  BY DEF Hashed
<1> HIDE DEF x, y, m, n, g, h
<1>4. {m} = {n} /\ g = h /\ Backend(x) = Backend(y)
  BY <1>1, <1>2, <1>3
<1>5. DOMAIN g = Sent(x) /\ DOMAIN h = Sent(y)
  BY DEF g, h
<1>6. Sent(x) = Sent(y)
  BY <1>4, <1>5
<1>7. ASSUME NEW field \in Sent(y) PROVE SentValue(x, field) = SentValue(y, field)
  <2>1. Normalized(x)[field] = Normalized(y)[field]
    <3>1. g[field] = Normalized(x)[field] /\ h[field] = Normalized(y)[field]
      BY <1>6 DEF g, h
    <3> QED BY <1>4, <3>1
  <2> QED BY <1>4, <2>1 DEF SentValue
<1> QED
  BY <1>1, <1>2, <1>3, <1>4, <1>6, <1>7 DEF x, y, m, n

\* Configurations that agree in what the fingerprint holds sample alike.
LEMMA SamplesAlike ==
  ASSUME NEW b, NEW c, Runtime(b) = Runtime(c), Sent(TomlOf(b)) = Sent(TomlOf(c)),
         \A field \in Sent(TomlOf(c)) : SentValue(TomlOf(b), field) = SentValue(TomlOf(c), field)
  PROVE  Sampling(b) = Sampling(c)
<1> DEFINE x == TomlOf(b)
           y == TomlOf(c)
           sb == [field \in GenerationSettingField |->
                    IF field \in Sent(x) THEN {SentValue(x, field)}
                                         ELSE UNION {info.defaults[field] : info \in Runtime(b)}]
           sc == [field \in GenerationSettingField |->
                    IF field \in Sent(y) THEN {SentValue(y, field)}
                                         ELSE UNION {info.defaults[field] : info \in Runtime(c)}]
<1>1. Sampling(b) = sb /\ Sampling(c) = sc
  BY DEF Sampling
<1>2. ASSUME NEW field \in GenerationSettingField PROVE sb[field] = sc[field]
  BY Zenon
<1> QED
  BY <1>1, <1>2

\* A row that may be used leaves no sampler to guess.
LEMMA NoneGuessed ==
  ASSUME NEW c, CacheVerified(c)
  PROVE  Known(Sampling(c))
<1> DEFINE y == TomlOf(c)
<1>1. \/ Sent(y) = GenerationSettingField
      \/ \E info \in Runtime(c) : \A field \in GenerationSettingField : info.defaults[field] # {}
  BY DEF CacheVerified
<1>2. ASSUME NEW field \in GenerationSettingField PROVE Sampling(c)[field] # {}
  <2>1. Sampling(c)[field] = IF field \in Sent(y) THEN {SentValue(y, field)}
                             ELSE UNION {info.defaults[field] : info \in Runtime(c)}
    BY DEF Sampling
  <2>2. CASE field \in Sent(y)
    BY <2>1, <2>2
  <2>3. CASE field \notin Sent(y)
    <3>1. PICK info \in Runtime(c) : info.defaults[field] # {}
      BY <1>1, <2>3
    <3>2. UNION {i.defaults[field] : i \in Runtime(c)} # {}
      BY <3>1
    <3> QED BY <2>1, <2>3, <3>2
  <2> QED BY <2>2, <2>3
<1> QED
  BY <1>2 DEF Known

LEMMA RowsFitAll ==
  ASSUME NEW c, NEW q \in Orders
  PROVE  RowsFit(c, q)
<1> SUFFICES ASSUME CacheVerified(c), NEW row \in Rows, row.key = SegmentKey(c, q)
             PROVE  row.asked = Asked(c, q) /\ Known(Sampling(c))
  BY DEF RowsFit
<1>1. PICK b \in {x \in Bases : CacheVerified(x)}, p \in Orders :
        row = [key |-> SegmentKey(b, p), asked |-> Asked(b, p)]
  BY DEF Rows
<1>2. SegmentKey(b, p) = SegmentKey(c, q) /\ row.asked = Asked(b, p)
  BY <1>1
<1>3. /\ SegmentKey(b, p).content = p.source /\ SegmentKey(c, q).content = q.source
      /\ SegmentKey(b, p).target = p.target /\ SegmentKey(c, q).target = q.target
      /\ SegmentKey(b, p).template = p.template /\ SegmentKey(c, q).template = q.template
      /\ SegmentKey(b, p).options = OptionsHash(b, p) /\ SegmentKey(c, q).options = OptionsHash(c, q)
      /\ SegmentKey(b, p).inference = Fingerprint(b, p.template, OptionsHash(b, p))
      /\ SegmentKey(c, q).inference = Fingerprint(c, q.template, OptionsHash(c, q))
  BY DEF SegmentKey
<1>4. /\ p.source = q.source /\ p.target = q.target /\ p.template = q.template
      /\ OptionsHash(b, p) = OptionsHash(c, q)
      /\ Fingerprint(b, p.template, OptionsHash(b, p)) = Fingerprint(c, q.template, OptionsHash(c, q))
  BY <1>2, <1>3
<1>5. p.opts = q.opts
  <2>1. OptionsHash(b, p).opts = p.opts /\ OptionsHash(c, q).opts = q.opts
    BY DEF OptionsHash
  <2> QED BY <1>4, <2>1
<1>6. Prompt(p) = Prompt(q)
  <2>1. Said(p) = Said(q)
    BY <1>4, <1>5 DEF Said
  <2> QED BY <1>4, <2>1 DEF Prompt
<1> DEFINE x == TomlOf(b)
           y == TomlOf(c)
<1>7. /\ Backend(x) = Backend(y) /\ Model(x) = Model(y)
      /\ b.data.set.endpoint = c.data.set.endpoint
      /\ Runtime(b) = Runtime(c)
      /\ OutputLimit(b) = OutputLimit(c)
      /\ Sent(x) = Sent(y)
      /\ \A field \in Sent(y) : SentValue(x, field) = SentValue(y, field)
  <2> DEFINE ob == OptionsHash(b, p)
             oc == OptionsHash(c, q)
  <2>1. Fingerprint(b, p.template, ob) = Fingerprint(c, q.template, oc)
    BY <1>4
  <2> HIDE DEF ob, oc
  <2> QED BY <2>1, FingerprintTells
<1>8. Sampling(b) = Sampling(c)
  BY <1>7, SamplesAlike
<1>9. Request(b, p) = Request(c, q)
  <2> DEFINE sb == {<<WireName(Backend(x), field), SentValue(x, field)>> : field \in Sent(x)}
             sc == {<<WireName(Backend(y), field), SentValue(y, field)>> : field \in Sent(y)}
  <2>1. sb = sc
    BY <1>7
  <2>2. /\ Request(b, p) = [endpoint |-> b.data.set.endpoint, backend |-> Backend(x), model |-> Model(x),
              messages |-> Prompt(p),
              max_tokens |-> OutputLimit(b),
              samplers |-> sb, logit_bias |-> UNION {info.bias : info \in Runtime(b)}]
        /\ Request(c, q) = [endpoint |-> c.data.set.endpoint, backend |-> Backend(y), model |-> Model(y),
              messages |-> Prompt(q),
              max_tokens |-> OutputLimit(c),
              samplers |-> sc, logit_bias |-> UNION {info.bias : info \in Runtime(c)}]
    BY DEF Request
  <2> HIDE DEF sb, sc, x, y
  <2> QED BY <1>6, <1>7, <2>1, <2>2
<1> QED
  BY <1>2, <1>8, <1>9, NoneGuessed DEF Asked

LEMMA ReplaysFitAll ==
  ASSUME NEW c, NEW q \in Orders
  PROVE  ReplaysFit(c, q)
<1> SUFFICES ASSUME NEW row \in Proofs, FindReplay(c, q, row.proof)
             PROVE  /\ row.asked = Asked(Isolated(c, {row.proof.runtime}), q)
                    /\ Known(row.asked[2])
  BY DEF ReplaysFit
<1>0. PICK some \in {{[proof |-> proof, asked |-> Asked(b, p)] : proof \in PopulationProof(b, p)} :
                       b \in Bases, p \in Orders} : row \in some
  BY DEF Proofs
<1>1. PICK b \in Bases, p \in Orders :
        row \in {[proof |-> proof, asked |-> Asked(b, p)] : proof \in PopulationProof(b, p)}
  BY <1>0
<1>2. PICK proof \in PopulationProof(b, p) : row = [proof |-> proof, asked |-> Asked(b, p)]
  BY <1>1
<1>3. row.proof = proof /\ row.asked = Asked(b, p)
  BY <1>2
<1>4. PICK info :
        /\ CacheVerified(b)
        /\ proof = [configured |-> ConfiguredDigest(b, p), runtime |-> info,
                    inference |-> Fingerprint(b, p.template, OptionsHash(b, p)),
                    requests |-> RequestPlan(b, p)]
  BY <1>2 DEF PopulationProof
<1> DEFINE d == Isolated(c, {proof.runtime})
<1>5. /\ proof.inference = Fingerprint(d, q.template, OptionsHash(d, q))
      /\ proof.requests = RequestPlan(d, q)
  BY <1>3 DEF FindReplay
<1>6. /\ Fingerprint(b, p.template, OptionsHash(b, p)) = Fingerprint(d, q.template, OptionsHash(d, q))
      /\ RequestPlan(b, p) = RequestPlan(d, q)
  <2>1. proof.inference = Fingerprint(b, p.template, OptionsHash(b, p)) /\ proof.requests = RequestPlan(b, p)
    BY <1>4
  <2> QED BY <1>5, <2>1
<1> HIDE DEF d
<1>7. Sampling(b) = Sampling(d)
  <2>1. /\ Runtime(b) = Runtime(d) /\ Sent(TomlOf(b)) = Sent(TomlOf(d))
        /\ \A field \in Sent(TomlOf(d)) : SentValue(TomlOf(b), field) = SentValue(TomlOf(d), field)
    <3> DEFINE ob == OptionsHash(b, p)
               od == OptionsHash(d, q)
    <3>1. Fingerprint(b, p.template, ob) = Fingerprint(d, q.template, od)
      BY <1>6
    <3> HIDE DEF ob, od
    <3> QED BY <3>1, FingerprintTells
  <2> QED BY <2>1, SamplesAlike
<1>8. Request(b, p) = Request(d, q)
  <2>1. RequestPlan(b, p).requests = Request(b, p) /\ RequestPlan(d, q).requests = Request(d, q)
    BY DEF RequestPlan
  <2> QED BY <1>6, <2>1
<1>9. Asked(b, p)[2] = Sampling(b)
  BY DEF Asked
<1> QED
  BY <1>3, <1>4, <1>7, <1>8, <1>9, NoneGuessed DEF Asked, d

\* Of the facts only what was told matters, not by whom.
LEMMA ToldIsAll ==
  ASSUME NEW b, NEW c, b.data = c.data, b.profile = c.profile,
         {f.told : f \in b.runtime} = {f.told : f \in c.runtime}, NEW q
  PROVE  /\ TomlOf(b) = TomlOf(c) /\ OptionsHash(b, q) = OptionsHash(c, q)
         /\ CacheVerified(b) = CacheVerified(c)
         /\ Fingerprint(b, q.template, OptionsHash(b, q)) = Fingerprint(c, q.template, OptionsHash(c, q))
         /\ RequestPlan(b, q) = RequestPlan(c, q)
<1>1. TomlOf(b) = TomlOf(c) /\ Runtime(b) = Runtime(c)
  BY DEF TomlOf, Runtime
<1>2. OptionsHash(b, q) = OptionsHash(c, q)
  BY <1>1 DEF OptionsHash, EffectivePolicy
<1>3. CacheVerified(b) = CacheVerified(c)
  BY <1>1 DEF CacheVerified
<1>4. ASSUME NEW options
      PROVE  Fingerprint(b, q.template, options) = Fingerprint(c, q.template, options)
  BY <1>1 DEF Fingerprint, Hashed, OutputLimit
<1>5. RequestPlan(b, q) = RequestPlan(c, q)
  BY <1>1 DEF RequestPlan, Request, OutputLimit
<1> QED
  BY <1>1, <1>2, <1>3, <1>4, <1>5

\* The facts that a preflight stores are the adapter's own.
LEMMA OutageFitsSound ==
  ASSUME NEW c \in ConfigState, SoundConfig(c), NEW q \in Orders
  PROVE  OutageFits(c, q)
<1> SUFFICES ASSUME NEW proof \in PopulationProof(c, q), NEW facts
             PROVE  FindReplay([c EXCEPT !.runtime = facts], q, proof)
  BY DEF OutageFits
<1> DEFINE toml == TomlOf(c)
           d == [c EXCEPT !.runtime = facts]
<1>1. PICK f \in c.runtime :
        /\ ValidRuntime(f.told) /\ CacheVerified(c)
        /\ proof = [configured |-> ConfiguredDigest(c, q), runtime |-> f.told,
                    inference |-> Fingerprint(c, q.template, OptionsHash(c, q)),
                    requests |-> RequestPlan(c, q)]
  BY DEF PopulationProof
<1> DEFINE info == f.told
           i == Isolated(d, {info})
<1>2. /\ proof.configured = ConfiguredDigest(c, q) /\ proof.runtime = info
      /\ proof.inference = Fingerprint(c, q.template, OptionsHash(c, q))
      /\ proof.requests = RequestPlan(c, q)
  BY <1>1
<1>3. {g.told : g \in c.runtime} = {info}
  BY DEF SoundConfig
<1>4. info.backend = Backend(toml)
  <2>1. f.of = {c.data.set.endpoint} /\ c.data.set.endpoint \in Endpoints
    BY DEF SoundConfig, ConfigState, Data, Setting
  <2>2. info \in Learned(c.data.set.endpoint, Backend(toml)) /\ Backend(toml) \in Adapters
    BY <2>1, AdapterType DEF SoundConfig, Honest, TomlOf
  <2> HIDE DEF toml, info
  <2> QED BY <2>2, LearnedCounted
<1>5. /\ d.data = c.data /\ d.profile = c.profile
      /\ i.data = c.data /\ i.profile = c.profile /\ i.runtime = {[of |-> {}, told |-> info]}
  BY DEF ConfigState, Isolated
<1>6. {g.told : g \in i.runtime} = {info}
  <2> DEFINE rec == [of |-> {}, told |-> info]
  <2>1. rec.told = info /\ i.runtime = {rec}
    BY <1>5
  <2> HIDE DEF rec, i, info
  <2> QED BY <2>1
<1>7. Isolated(d, {}) = Isolated(c, {})
  BY DEF ConfigState, Isolated
<1> HIDE DEF info, i, d
<1>8. TomlOf(d) = TomlOf(c)
  BY <1>5 DEF TomlOf
<1>9. ConfiguredDigest(d, q) = ConfiguredDigest(c, q)
  <2>1. OptionsHash(d, q) = OptionsHash(c, q)
    BY <1>8 DEF OptionsHash, EffectivePolicy
  <2> QED BY <1>5, <1>7, <1>8, <2>1 DEF ConfiguredDigest
<1>10. /\ CacheVerified(i) = CacheVerified(c)
       /\ Fingerprint(i, q.template, OptionsHash(i, q)) = Fingerprint(c, q.template, OptionsHash(c, q))
       /\ RequestPlan(i, q) = RequestPlan(c, q)
  BY <1>3, <1>5, <1>6, ToldIsAll
<1>11. ValidRuntime(info) /\ CacheVerified(c)
  BY <1>1 DEF info
<1>12. FindReplay(d, q, proof)
  BY <1>2, <1>4, <1>8, <1>9, <1>10, <1>11 DEF FindReplay, i
<1> QED
  BY <1>12 DEF d

\* Whatever is edited, reloaded and probed meanwhile, a plan uses only what was kept
\* for the same request, and proves only what can be found again.
THEOREM StoredAnswersTheSame == Spec => []StoredForTheSame
<1>1. PlanInv => StoredForTheSame
  <2> SUFFICES ASSUME PlanInv, NEW t \in Threads, At(t, "plan"), NEW q \in Orders
               PROVE  /\ RowsFit(loc[t].snap, q) /\ ReplaysFit(loc[t].snap, q)
                      /\ OutageFits(loc[t].snap, q)
    BY DEF StoredForTheSame
  <2>1. SoundConfig(loc[t].snap)
    BY DEF PlanInv, Grounded, At
  <2>2. loc[t].snap \in ConfigState
    BY DEF PlanInv, IInv, TypeOK, Local
  <2> QED BY <2>1, <2>2, RowsFitAll, ReplaysFitAll, OutageFitsSound
<1> QED
  BY <1>1, InitPlan, StepPlan, PTL DEF Spec

-----------------------------------------------------------------------------
(* A strict plan stands on verified facts: nothing a translator plans with *)
(* has escaped the report of the preflight, whoever reloads meanwhile.     *)

WarningsOf(c, f) == Warnings(c.data.set.toml, c.profile, f.told)

\* No fact of a strict configuration is one that a strict preflight refuses.
Vetted(c) == c.data.set.strict => \A f \in c.runtime : ~Doubtful(f.told, WarningsOf(c, f))

\* The warnings filed with an entry are those of the configuration of its generation.
Apt(e, c) == e.key.generation = c.generation => e.warned = WarningsOf(c, e.fact)

EntriesApt ==
    \A p \in Processes : \A e \in entry[p] :
        e.key.generation <= cfg[p].generation /\ Apt(e, cfg[p])

\* Where only a thread that translates can be.
Reloading == {"stat", "compare", "read", "stamp", "install"}
Translating == Flight \cup {"generation", "report", "again", "snapshot", "bind", "prepare", "plan"}

Placed(t) ==
    /\ loc[t].pc \in Translating => Job[t] = "translate"
    /\ loc[t].pc = "turn" => Job[t] \in {"watch", "translate"}
    /\ loc[t].pc \in Reloading =>
         /\ loc[t].ret \in {"generation", "again", "snapshot"} => Job[t] = "translate"
         /\ loc[t].ret = "turn" => Job[t] \in {"watch", "translate"}

\* From the publication of facts to the report on them, the process has facts that
\* nobody vouches for; afterwards the thread has ended or they are vetted.
Unreported == {"recheck", "store", "report"}
Looking == {"lookup", "reuse", "clear", "probe", "tokenize", "publish", "recheck"}
Draft(t) == [key |-> loc[t].key, fact |-> loc[t].fact, warned |-> loc[t].warned]

Accounted(t) ==
    /\ loc[t].pc \in Looking => loc[t].generation <= loc[t].key.generation
    /\ loc[t].pc \in Looking \cup {"store"} => loc[t].key.generation <= Mine(t).generation
    /\ loc[t].pc \in {"reuse", "store"} => Apt(Draft(t), Mine(t))
    /\ loc[t].pc \in Unreported => \A f \in Mine(t).runtime : f = loc[t].fact
    /\ loc[t].pc \in {"store", "report"} =>
         \A f \in Mine(t).runtime : loc[t].warned = WarningsOf(Mine(t), f)
    /\ loc[t].pc \notin Unreported \cup {"end"} => Vetted(Mine(t))
    /\ loc[t].pc = "bind" => \A e \in entry[Home[t]] : Apt(e, loc[t].snap)
    /\ loc[t].pc = "prepare" => \A e \in loc[t].bound : Apt(e, loc[t].snap)
    /\ loc[t].pc \in {"bind", "prepare", "plan"} => Vetted(loc[t].snap)
    /\ loc[t].pc = "plan" /\ loc[t].snap.data.set.strict => loc[t].snap.runtime # {}

StrictInv ==
    /\ PlanInv
    /\ EntriesApt
    /\ \A t \in Threads : Placed(t) /\ (Job[t] = "translate" => Accounted(t))
-----------------------------------------------------------------------------
(* Who may be where. *)

LEMMA OnlyPlace ==
  ASSUME TypeOK, NEW t \in Threads, NEW pc, NEW ret, NEW b, Only(t, pc, ret, b)
  PROVE  loc'[t].pc = pc /\ loc'[t].ret = ret
<1> DEFINE new == [Fresh EXCEPT !.pc = pc, !.ret = ret, !.reloaded = b, !.defers = loc[t].defers]
<1>1. loc' = [loc EXCEPT ![t] = new]
  BY DEF Only
<1>2. new.pc = pc /\ new.ret = ret
  BY FreshType DEF Local
<1> HIDE DEF new
<1> QED
  BY <1>1, <1>2 DEF TypeOK

LEMMA ReloadPlaced ==
  ASSUME TypeOK, NEW t \in Threads, Placed(t), Reload(t)
  PROVE  Placed(t)'
<1>0. loc[t].ret \in Rets /\ loc[t].pc \in Reloading
  BY FactType DEF Reload, Stat, Compare, ReadFile, Stamp, Install, At, Reloading
<1>1. \/ loc'[t].pc \in Reloading /\ loc'[t].ret = loc[t].ret
      \/ loc'[t].pc = loc[t].ret
      \/ loc'[t].pc = OnFailure(loc[t].ret)
  <2>1. CASE Stat(t) \/ Stamp(t)
    BY <2>1 DEF Stat, Stamp, TypeOK, Local, Reloading
  <2>2. CASE Compare(t)
    <3>1. CASE Only(t, loc[t].ret, "turn", FALSE)
      BY <3>1, OnlyPlace
    <3>2. CASE Go(t, "read")
      BY <3>2 DEF Go, TypeOK, Local, Reloading
    <3> QED BY <2>2, <3>1, <3>2 DEF Compare, Return
  <2>3. CASE ReadFile(t)
    <3>1. CASE Loads(file.data.set.toml)
      BY <2>3, <3>1 DEF ReadFile, TypeOK, Local, Reloading
    <3>2. CASE ~Loads(file.data.set.toml)
      BY <2>3, <3>2, OnlyPlace DEF ReadFile, Return
    <3> QED BY <3>1, <3>2
  <2>4. CASE Install(t)
    BY <2>4, OnlyPlace DEF Install, Return
  <2> QED BY <2>1, <2>2, <2>3, <2>4 DEF Reload
<1>2. CASE loc'[t].pc \in Reloading /\ loc'[t].ret = loc[t].ret
  BY <1>0, <1>2 DEF Placed, Reloading, Translating, Flight
<1>3. CASE loc'[t].pc = loc[t].ret
  BY <1>0, <1>3 DEF Placed, Reloading, Translating, Flight, Rets
<1>4. CASE loc'[t].pc = OnFailure(loc[t].ret)
  BY <1>0, <1>4 DEF Placed, Reloading, Translating, Flight, OnFailure
<1> QED
  BY <1>1, <1>2, <1>3, <1>4

\* The other steps of a thread that translates, or looks for changes of the file.
LEMMA OwnPlaced ==
  ASSUME TypeOK, NEW t \in Threads, Placed(t), Preflight(t) \/ Invocation(t)
  PROVE  Placed(t)'
<1>1. CASE Job[t] = "translate"
  BY <1>1 DEF Placed
<1>2. CASE Job[t] # "translate"
  <2>1. loc[t].pc \notin Translating
    BY <1>2 DEF Placed
  <2>2. Turn(t)
    BY <1>2, <2>1 DEF Preflight, StartPreflight, ReadGeneration, ReadKeyEndpoint, ReadKeyBackend,
       ReadKeyGeneration, LookupRuntime, ReuseRuntime, ClearRuntime, Probe, Tokenize,
       PublishRuntime, Recheck, StoreEntry, Report, Invocation, Again, Snapshot, Bind, Prepare,
       Translate, At, Translating, Flight
  <2>3. Job[t] = "watch" /\ loc'[t].pc = "stat" /\ loc'[t].ret = "turn"
    BY <1>2, <2>2, OnlyPlace DEF Turn, CallReload, Placed, At
  <2> QED BY <2>3 DEF Placed, Translating, Flight, Reloading
<1> QED
  BY <1>1, <1>2

LEMMA MutationPlaced ==
  ASSUME TypeOK, NEW t \in Threads, Mutation(t)
  PROVE  Placed(t)'
<1>1. CASE StartMutation(t)
  <2>1. loc'[t].pc = "stat" /\ loc'[t].ret = "clone"
    BY <1>1, OnlyPlace DEF StartMutation, CallReload
  <2> QED BY <2>1 DEF Placed, Translating, Flight, Reloading
<1>2. CASE Clone(t)
  <2>1. PICK d : loc' = [loc EXCEPT ![t].pc = "write", ![t].data = d]
    BY <1>2 DEF Clone
  <2>2. loc'[t].pc = "write"
    BY <2>1 DEF TypeOK, Local
  <2> QED BY <2>2 DEF Placed, Translating, Flight, Reloading
<1>3. CASE WriteTemp(t)
  <2>1. loc'[t].pc = "rename"
    BY <1>3 DEF WriteTemp, Go, TypeOK, Local
  <2> QED BY <2>1 DEF Placed, Translating, Flight, Reloading
<1>4. CASE Rename(t) \/ Acknowledge(t)
  <2>1. loc'[t].pc = "end" \/ (loc'[t].pc = "read" /\ loc'[t].ret = "persisted")
    <3>1. CASE Return(t, "end", FALSE)
      BY <3>1, OnlyPlace DEF Return
    <3>2. CASE loc' = [loc EXCEPT ![t].pc = "read", ![t].ret = "persisted"]
      BY <3>2 DEF TypeOK, Local
    <3> QED BY <1>4, <3>1, <3>2 DEF Rename, Acknowledge
  <2> QED BY <2>1 DEF Placed, Translating, Flight, Reloading
<1> QED
  BY <1>1, <1>2, <1>3, <1>4 DEF Mutation

-----------------------------------------------------------------------------
(* What the others leave alone. *)

\* A process as the threads that do not translate leave it.
Untouched(p) ==
    /\ \/ cfg'[p] = cfg[p]
       \/ cfg'[p].generation = cfg[p].generation + 1 /\ cfg'[p].runtime = {}
    /\ entry'[p] \subseteq entry[p]

LEMMA EntryMoves ==
  ASSUME NEW t \in Threads, Acts(t)
  PROVE  UNCHANGED entry \/ StoreEntry(t)
  BY DEF Acts, Reload, Stat, Compare, ReadFile, Stamp, Install, Preflight, StartPreflight,
     ReadGeneration, ReadKeyEndpoint, ReadKeyBackend, ReadKeyGeneration, LookupRuntime,
     ReuseRuntime, ClearRuntime, Probe, Tokenize, PublishRuntime, Recheck, Report, Invocation,
     Turn, Again, Snapshot, Bind, Prepare, Translate, Mutation, StartMutation, Clone, WriteTemp,
     Rename, Acknowledge

LEMMA InstallMoves ==
  ASSUME TypeOK, NEW t \in Threads, Install(t)
  PROVE  /\ cfg'[Home[t]].generation = cfg[Home[t]].generation + 1
         /\ cfg'[Home[t]].runtime = {}
         /\ \A q \in Processes : q # Home[t] => cfg'[q] = cfg[q]
<1> DEFINE c == [data |-> loc[t].data, mtime |-> loc[t].mtime,
                 generation |-> Mine(t).generation + 1, profile |-> Mine(t).profile,
                 runtime |-> {}]
<1>1. cfg' = [cfg EXCEPT ![Home[t]] = c]
  BY DEF Install, Mine
<1>2. c.generation = cfg[Home[t]].generation + 1 /\ c.runtime = {}
  BY DEF Mine
<1> HIDE DEF c
<1> QED
  BY <1>1, <1>2, MineType DEF TypeOK

LEMMA LeavesAlone ==
  ASSUME TypeOK, NEW u \in Threads, Placed(u), Acts(u),
         NEW t \in Threads, t # u, Job[t] = "translate"
  PROVE  Untouched(Home[t])
<1>1. CASE Home[t] # Home[u]
  <2>1. cfg'[Home[t]] = cfg[Home[t]]
    BY <1>1, ConfigMoves, InstallMoves, MineType DEF TypeOK
  <2>2. entry'[Home[t]] = entry[Home[t]]
    BY <1>1, EntryMoves, MineType DEF StoreEntry, TypeOK
  <2> QED BY <2>1, <2>2 DEF Untouched
<1>2. CASE Home[t] = Home[u]
  <2>1. Job[u] # "translate"
    BY <1>2, OneTranslator
  <2>2. loc[u].pc \notin Flight
    BY <2>1 DEF Placed, Translating
  <2>3. ~ClearRuntime(u) /\ ~ReuseRuntime(u) /\ ~PublishRuntime(u) /\ ~StoreEntry(u)
    BY <2>2 DEF ClearRuntime, ReuseRuntime, PublishRuntime, StoreEntry, At, Flight
  <2>4. UNCHANGED entry /\ (UNCHANGED cfg \/ Install(u))
    BY <2>3, ConfigMoves, EntryMoves
  <2> QED BY <1>2, <2>4, InstallMoves DEF Untouched
<1> QED
  BY <1>1, <1>2

LEMMA OtherAccounted ==
  ASSUME TypeOK, NEW t \in Threads, Accounted(t), loc'[t] = loc[t], Untouched(Home[t])
  PROVE  Accounted(t)'
<1>0. /\ Mine(t).generation \in Nat /\ loc[t].generation \in Nat /\ loc[t].key.generation \in Nat
  BY MineType, FactType DEF ConfigState, Key
<1>1. CASE Mine(t)' = Mine(t)
  <2>1. entry'[Home[t]] \subseteq entry[Home[t]]
    BY DEF Untouched
  <2> QED BY <1>1, <2>1 DEF Accounted, Draft, Vetted, Apt, WarningsOf
<1>2. CASE Mine(t)'.generation = Mine(t).generation + 1 /\ Mine(t)'.runtime = {}
  <2>1. entry'[Home[t]] \subseteq entry[Home[t]]
    BY DEF Untouched
  <2>2. Vetted(Mine(t))'
    BY <1>2 DEF Vetted
  <2>3. loc[t].pc \in Looking \cup {"store"} =>
          loc[t].key.generation <= Mine(t)'.generation /\ loc[t].key.generation # Mine(t)'.generation
    BY <1>0, <1>2 DEF Accounted
  <2>4. loc[t].pc \in {"reuse", "store"} => Apt(Draft(t), Mine(t))'
    BY <2>3 DEF Apt, Draft, Looking
  <2> QED BY <1>2, <2>1, <2>2, <2>3, <2>4 DEF Accounted, Vetted, Apt
<1> QED
  BY <1>1, <1>2 DEF Untouched, Mine
-----------------------------------------------------------------------------
(* The thread's own steps. *)

\* Steps between the places that Accounted speaks of.
LEMMA QuietAccounted ==
  ASSUME NEW t \in Threads, Accounted(t), Mine(t)' = Mine(t),
         loc[t].pc \notin Unreported \cup {"end"},
         loc'[t].pc \notin Looking \cup {"store", "report", "bind", "prepare", "plan"}
  PROVE  Accounted(t)'
  BY DEF Accounted, Unreported, Looking, Vetted, WarningsOf

LEMMA ReloadAccounted ==
  ASSUME TypeOK, NEW t \in Threads, Accounted(t), Reload(t)
  PROVE  Accounted(t)'
<1>0. loc[t].ret \in Rets /\ loc[t].pc \in Reloading
  BY FactType DEF Reload, Stat, Compare, ReadFile, Stamp, Install, At, Reloading
<1>1. loc'[t].pc \in Reloading \/ loc'[t].pc = loc[t].ret \/ loc'[t].pc = OnFailure(loc[t].ret)
  <2>1. CASE Stat(t) \/ Stamp(t)
    BY <2>1 DEF Stat, Stamp, TypeOK, Local, Reloading
  <2>2. CASE Compare(t)
    <3>1. CASE Only(t, loc[t].ret, "turn", FALSE)
      BY <3>1, OnlyPlace
    <3>2. CASE Go(t, "read")
      BY <3>2 DEF Go, TypeOK, Local, Reloading
    <3> QED BY <2>2, <3>1, <3>2 DEF Compare, Return
  <2>3. CASE ReadFile(t)
    <3>1. CASE Loads(file.data.set.toml)
      BY <2>3, <3>1 DEF ReadFile, TypeOK, Local, Reloading
    <3>2. CASE ~Loads(file.data.set.toml)
      BY <2>3, <3>2, OnlyPlace DEF ReadFile, Return
    <3> QED BY <3>1, <3>2
  <2>4. CASE Install(t)
    BY <2>4, OnlyPlace DEF Install, Return
  <2> QED BY <2>1, <2>2, <2>3, <2>4 DEF Reload
<1>2. loc'[t].pc \notin Unreported \cup Looking \cup {"store", "report", "bind", "prepare", "plan"}
  BY <1>0, <1>1 DEF Rets, OnFailure, Reloading, Unreported, Looking
<1>3. loc[t].pc \notin Unreported \cup {"end"}
  BY <1>0 DEF Reloading, Unreported
<1>4. CASE UNCHANGED cfg
  BY <1>2, <1>3, <1>4, QuietAccounted DEF Mine
<1>5. CASE Install(t)
  <2>1. Mine(t)'.runtime = {}
    BY <1>5, InstallMoves DEF Mine
  <2> QED BY <1>2, <2>1 DEF Accounted, Vetted, Looking
<1> QED
  BY <1>4, <1>5 DEF Reload, Stat, Compare, ReadFile, Stamp

LEMMA MutationAccounted ==
  ASSUME TypeOK, NEW t \in Threads, Accounted(t), Mutation(t)
  PROVE  Accounted(t)'
<1>1. Mine(t)' = Mine(t)
  BY DEF Mutation, StartMutation, Clone, WriteTemp, Rename, Acknowledge, Mine
<1>2. loc[t].pc \in {"start", "clone", "write", "rename", "persisted"}
  BY DEF Mutation, StartMutation, Clone, WriteTemp, Rename, Acknowledge, At
<1>3. loc'[t].pc \in {"stat", "write", "rename", "read", "end"}
  <2>1. CASE StartMutation(t) \/ Acknowledge(t)
    BY <2>1, OnlyPlace DEF StartMutation, Acknowledge, CallReload, Return
  <2>2. CASE Clone(t)
    <3>1. PICK d : loc' = [loc EXCEPT ![t].pc = "write", ![t].data = d]
      BY <2>2 DEF Clone
    <3> QED BY <3>1 DEF TypeOK, Local
  <2>3. CASE WriteTemp(t)
    BY <2>3 DEF WriteTemp, Go, TypeOK, Local
  <2>4. CASE Rename(t)
    <3>1. CASE Return(t, "end", FALSE)
      BY <3>1, OnlyPlace DEF Return
    <3>2. CASE loc' = [loc EXCEPT ![t].pc = "read", ![t].ret = "persisted"]
      BY <3>2 DEF TypeOK, Local
    <3> QED BY <2>4, <3>1, <3>2 DEF Rename
  <2> QED BY <2>1, <2>2, <2>3, <2>4 DEF Mutation
<1> QED
  BY <1>1, <1>2, <1>3, QuietAccounted DEF Unreported, Looking

LEMMA PublishAccounted ==
  ASSUME TypeOK, NEW t \in Threads, NEW pc \in {"report", "recheck"}, Publish(t, pc)
  PROVE  \/ loc'[t].pc = "end"
         \/ /\ Mine(t).generation = loc[t].generation
            /\ loc'[t].pc = pc
            /\ loc'[t].fact = loc[t].fact /\ loc'[t].warned = loc[t].warned
            /\ loc'[t].key = loc[t].key /\ loc'[t].generation = loc[t].generation
            /\ Mine(t)'.runtime = {loc[t].fact}
            /\ Mine(t)'.generation = Mine(t).generation
            /\ Mine(t)'.data = Mine(t).data /\ Mine(t)'.profile = Mine(t).profile
<1>1. CASE Mine(t).generation = loc[t].generation
  <2>1. cfg' = [cfg EXCEPT ![Home[t]].runtime = {loc[t].fact}] /\ Go(t, pc)
    BY <1>1 DEF Publish
  <2>2. /\ loc'[t].pc = pc /\ loc'[t].fact = loc[t].fact /\ loc'[t].warned = loc[t].warned
        /\ loc'[t].key = loc[t].key /\ loc'[t].generation = loc[t].generation
    BY <2>1 DEF Go, TypeOK, Local
  <2>3. /\ Mine(t)'.runtime = {loc[t].fact}
        /\ Mine(t)'.generation = Mine(t).generation
        /\ Mine(t)'.data = Mine(t).data /\ Mine(t)'.profile = Mine(t).profile
    BY <2>1, MineType DEF Mine, TypeOK, ConfigState
  <2> QED BY <1>1, <2>2, <2>3
<1>2. CASE Mine(t).generation # loc[t].generation
  BY <1>2, OnlyPlace DEF Publish, Return
<1> QED
  BY <1>1, <1>2

LEMMA PreflightAccounted ==
  ASSUME StrictInv, NEW t \in Threads, Accounted(t), Preflight(t)
  PROVE  Accounted(t)'
<1>0. /\ TypeOK /\ EntriesApt /\ InFlight(t) /\ Home[t] \in Processes
      /\ Mine(t).generation \in Nat /\ loc[t].generation \in Nat /\ loc[t].key.generation \in Nat
  BY MineType, FactType DEF StrictInv, PlanInv, IInv, ConfigState, Key
<1>K. ASSUME UNCHANGED cfg
      PROVE  Mine(t)' = Mine(t)
  BY <1>K DEF Mine
<1>Q. ASSUME UNCHANGED cfg, loc[t].pc \notin Unreported \cup {"end"},
             loc'[t].pc \in {"stat", "endpoint", "backend", "key"}
      PROVE  Accounted(t)'
  BY <1>K, <1>Q, QuietAccounted DEF Looking
<1>E. ASSUME loc'[t].pc = "end"
      PROVE  Accounted(t)'
  BY <1>E DEF Accounted, Looking, Unreported
<1>1. CASE StartPreflight(t)
  <2>1. loc'[t].pc = "stat" /\ UNCHANGED cfg /\ loc[t].pc \in {"start", "turn"}
    BY <1>0, <1>1, OnlyPlace DEF StartPreflight, CallReload, At
  <2> QED BY <1>Q, <2>1 DEF Unreported
<1>2. CASE ReadGeneration(t) \/ ReadKeyEndpoint(t) \/ ReadKeyBackend(t)
  <2>1. UNCHANGED cfg /\ loc[t].pc \in {"generation", "endpoint", "backend"}
    BY <1>2 DEF ReadGeneration, ReadKeyEndpoint, ReadKeyBackend, At
  <2>2. loc'[t].pc \in {"endpoint", "backend", "key"}
    BY <1>0, <1>2 DEF ReadGeneration, ReadKeyEndpoint, ReadKeyBackend, TypeOK, Local
  <2> QED BY <1>Q, <2>1, <2>2 DEF Unreported
<1>4. CASE ReadKeyGeneration(t)
  <2>1. /\ loc[t].pc = "key" /\ loc'[t].pc = "lookup"
        /\ loc'[t].key.generation = Mine(t).generation /\ loc'[t].generation = loc[t].generation
        /\ UNCHANGED cfg
    BY <1>0, <1>4 DEF ReadKeyGeneration, At, TypeOK, Local, Key
  <2>2. loc[t].generation <= Mine(t).generation
    BY <1>0, <2>1 DEF InFlight
  <2> QED BY <1>0, <1>K, <2>1, <2>2 DEF Accounted, Vetted, WarningsOf, Looking, Unreported
<1>5. CASE LookupRuntime(t)
  <2>1. UNCHANGED cfg /\ loc[t].pc = "lookup"
    BY <1>5 DEF LookupRuntime, At
  <2>2. CASE \E e \in entry[Home[t]] :
               /\ e.key = loc[t].key
               /\ loc' = [loc EXCEPT ![t].pc = "reuse", ![t].fact = e.fact, ![t].warned = e.warned]
    <3>1. PICK e \in entry[Home[t]] :
            /\ e.key = loc[t].key
            /\ loc' = [loc EXCEPT ![t].pc = "reuse", ![t].fact = e.fact, ![t].warned = e.warned]
      BY <2>2
    <3>2. Apt(e, Mine(t))
      BY <1>0, <3>1 DEF EntriesApt, Mine
    <3>3. /\ loc'[t].pc = "reuse" /\ loc'[t].fact = e.fact /\ loc'[t].warned = e.warned
          /\ loc'[t].key = loc[t].key /\ loc'[t].generation = loc[t].generation
      BY <1>0, <3>1 DEF TypeOK, Local
    <3>4. Apt(Draft(t), Mine(t))'
      BY <1>K, <2>1, <3>1, <3>2, <3>3 DEF Apt, Draft, WarningsOf
    <3> QED BY <1>0, <1>K, <2>1, <3>3, <3>4 DEF Accounted, Vetted, WarningsOf, Looking, Unreported
  <2>3. CASE Go(t, "clear")
    <3>1. /\ loc'[t].pc = "clear"
          /\ loc'[t].key = loc[t].key /\ loc'[t].generation = loc[t].generation
      BY <1>0, <2>3 DEF Go, TypeOK, Local
    <3> QED BY <1>0, <1>K, <2>1, <3>1 DEF Accounted, Vetted, WarningsOf, Looking, Unreported
  <2> QED BY <1>5, <2>2, <2>3 DEF LookupRuntime
<1>6. CASE ReuseRuntime(t)
  <2>1. loc[t].pc = "reuse" /\ Publish(t, "report")
    BY <1>6 DEF ReuseRuntime, At
  <2>2. CASE loc'[t].pc = "end"
    BY <1>E, <2>2
  <2>3. CASE loc'[t].pc # "end"
    <3>1. /\ Mine(t).generation = loc[t].generation
          /\ loc'[t].pc = "report"
          /\ loc'[t].fact = loc[t].fact /\ loc'[t].warned = loc[t].warned
          /\ Mine(t)'.runtime = {loc[t].fact}
          /\ Mine(t)'.data = Mine(t).data /\ Mine(t)'.profile = Mine(t).profile
      BY <1>0, <2>1, <2>3, PublishAccounted
    <3>2. loc[t].key.generation = Mine(t).generation
      BY <1>0, <2>1, <3>1 DEF Accounted, Looking
    <3>3. loc[t].warned = WarningsOf(Mine(t), loc[t].fact)
      BY <2>1, <3>2 DEF Accounted, Apt, Draft
    <3>4. WarningsOf(Mine(t), loc[t].fact) = WarningsOf(Mine(t)', loc[t].fact)
      BY <3>1 DEF WarningsOf
    <3> QED BY <3>1, <3>3, <3>4 DEF Accounted, Looking, Unreported
  <2> QED BY <2>2, <2>3
<1>7. CASE ClearRuntime(t)
  <2>1. loc[t].pc = "clear"
    BY <1>7 DEF ClearRuntime, At
  <2>2. CASE Mine(t).generation = loc[t].generation
    <3>1. cfg' = [cfg EXCEPT ![Home[t]].runtime = {}] /\ Go(t, "probe")
      BY <1>7, <2>2 DEF ClearRuntime
    <3>2. Mine(t)'.runtime = {} /\ Mine(t)'.generation = Mine(t).generation
      BY <1>0, <3>1 DEF Mine, TypeOK, ConfigState
    <3>3. /\ loc'[t].pc = "probe"
          /\ loc'[t].key = loc[t].key /\ loc'[t].generation = loc[t].generation
      BY <1>0, <3>1 DEF Go, TypeOK, Local
    <3> QED BY <1>0, <2>1, <3>2, <3>3 DEF Accounted, Vetted, Looking, Unreported
  <2>3. CASE Mine(t).generation # loc[t].generation
    <3>1. Only(t, "end", "turn", FALSE)
      BY <1>7, <2>3 DEF ClearRuntime, Return
    <3> QED BY <1>0, <1>E, <3>1, OnlyPlace
  <2> QED BY <2>2, <2>3
<1>8. CASE Probe(t) \/ Tokenize(t)
  <2>1. UNCHANGED cfg /\ loc[t].pc \in {"probe", "tokenize"}
    BY <1>8 DEF Probe, Tokenize, At
  <2>2. PICK next \in {"tokenize", "publish"} : \E f :
          loc' = [loc EXCEPT ![t].pc = next, ![t].fact = f]
    BY <1>8 DEF Probe, Tokenize
  <2>3. /\ loc'[t].pc \in {"tokenize", "publish"}
        /\ loc'[t].key = loc[t].key /\ loc'[t].generation = loc[t].generation
    BY <1>0, <2>2 DEF TypeOK, Local
  <2> QED BY <1>0, <1>K, <2>1, <2>3 DEF Accounted, Vetted, WarningsOf, Looking, Unreported
<1>10. CASE PublishRuntime(t)
  <2>1. loc[t].pc = "publish" /\ Publish(t, "recheck")
    BY <1>10 DEF PublishRuntime, At
  <2>2. CASE loc'[t].pc = "end"
    BY <1>E, <2>2
  <2>3. CASE loc'[t].pc # "end"
    <3>1. /\ loc'[t].pc = "recheck" /\ loc'[t].fact = loc[t].fact
          /\ loc'[t].key = loc[t].key /\ loc'[t].generation = loc[t].generation
          /\ Mine(t)'.runtime = {loc[t].fact}
          /\ Mine(t)'.generation = Mine(t).generation
      BY <1>0, <2>1, <2>3, PublishAccounted
    <3> QED BY <2>1, <3>1 DEF Accounted, Looking, Unreported
  <2> QED BY <2>2, <2>3
<1>11. CASE Recheck(t)
  <2>1. loc[t].pc = "recheck" /\ UNCHANGED cfg
    BY <1>11 DEF Recheck, At
  <2> DEFINE next == IF Mine(t).generation = loc[t].generation THEN "store" ELSE "end"
             warned == Warnings(Toml(t), Mine(t).profile, loc[t].fact.told)
  <2>2. /\ loc'[t].pc = next /\ loc'[t].warned = warned
        /\ loc'[t].fact = loc[t].fact /\ loc'[t].key = loc[t].key
    <3>1. loc' = [loc EXCEPT ![t].pc = next, ![t].warned = warned]
      BY <1>11 DEF Recheck
    <3> HIDE DEF next, warned
    <3> QED BY <1>0, <3>1 DEF TypeOK, Local
  <2>3. warned = WarningsOf(Mine(t), loc[t].fact) /\ next \in {"store", "end"}
    BY DEF WarningsOf, Toml
  <2> HIDE DEF next, warned
  <2>4. CASE next = "end"
    BY <1>E, <2>2, <2>4
  <2>5. CASE next = "store"
    <3>1. Apt(Draft(t), Mine(t))'
      BY <1>K, <2>1, <2>2, <2>3 DEF Apt, Draft
    <3> QED BY <1>0, <1>K, <2>1, <2>2, <2>3, <2>5, <3>1 DEF Accounted, Looking, Unreported
  <2> QED BY <2>3, <2>4, <2>5
<1>12. CASE StoreEntry(t)
  <2>1. loc[t].pc = "store" /\ UNCHANGED cfg /\ Go(t, "report")
    BY <1>12 DEF StoreEntry, At
  <2>2. /\ loc'[t].pc = "report" /\ loc'[t].fact = loc[t].fact /\ loc'[t].warned = loc[t].warned
    BY <1>0, <2>1 DEF Go, TypeOK, Local
  <2> QED BY <1>0, <1>K, <2>1, <2>2 DEF Accounted, Looking, Unreported
<1>13. CASE Report(t)
  <2> DEFINE next == IF Mine(t).data.set.strict /\ Doubtful(loc[t].fact.told, loc[t].warned)
                       THEN "end" ELSE "turn"
  <2>1. loc[t].pc = "report" /\ UNCHANGED cfg /\ Only(t, next, "turn", FALSE)
    BY <1>13 DEF Report, Return, At
  <2>2. loc'[t].pc = next
    BY <1>0, <2>1, OnlyPlace
  <2>3. next = "turn" => Vetted(Mine(t))
    BY <2>1 DEF Accounted, Unreported, Vetted
  <2>4. next \in {"turn", "end"}
    OBVIOUS
  <2> HIDE DEF next
  <2> QED BY <1>E, <1>K, <2>1, <2>2, <2>3, <2>4 DEF Accounted, Vetted, WarningsOf, Looking, Unreported
<1> QED
  BY <1>1, <1>2, <1>4, <1>5, <1>6, <1>7, <1>8, <1>10, <1>11, <1>12, <1>13 DEF Preflight
\* The preflight of a snapshot warns by that snapshot, also when it reuses an entry.
LEMMA AnswersWarned ==
  ASSUME NEW t \in Threads, NEW a \in Answers(t), \A e \in loc[t].bound : Apt(e, loc[t].snap)
  PROVE  a.warned = WarningsOf(loc[t].snap, a.fact)
<1> DEFINE s == loc[t].snap
           set == s.data.set
           k == [endpoint |-> set.endpoint, backend |-> Backend(set.toml), generation |-> s.generation]
<1>1. \/ a \in {[fact |-> e.fact, warned |-> e.warned] : e \in {x \in loc[t].bound : x.key = k}}
      \/ a \in {[fact |-> [of |-> {set.endpoint}, told |-> info],
                 warned |-> Warnings(set.toml, s.profile, info)]
                  : info \in Learned(set.endpoint, k.backend)}
  BY Zenon DEF Answers
<1>2. k.generation = s.generation
  OBVIOUS
<1>3. ASSUME NEW e \in {x \in loc[t].bound : x.key = k}, a = [fact |-> e.fact, warned |-> e.warned]
      PROVE  a.warned = WarningsOf(s, a.fact)
  <2>1. e \in loc[t].bound /\ e.key = k /\ a.fact = e.fact /\ a.warned = e.warned
    BY <1>3
  <2> HIDE DEF k
  <2> QED BY <1>2, <2>1 DEF Apt
<1>4. ASSUME NEW info \in Learned(set.endpoint, k.backend),
             a = [fact |-> [of |-> {set.endpoint}, told |-> info],
                  warned |-> Warnings(set.toml, s.profile, info)]
      PROVE  a.warned = WarningsOf(s, a.fact)
  BY <1>4 DEF WarningsOf
<1> HIDE DEF k, set, s
<1> QED
  BY <1>1, <1>3, <1>4 DEF s

LEMMA InvocationAccounted ==
  ASSUME StrictInv, NEW t \in Threads, Accounted(t), Invocation(t)
  PROVE  Accounted(t)'
<1>0. /\ TypeOK /\ EntriesApt /\ Home[t] \in Processes
  BY MineType DEF StrictInv, PlanInv, IInv
<1>1. UNCHANGED <<cfg, entry>> /\ loc[t].pc \notin Unreported \cup {"end"}
  BY DEF Invocation, Turn, Again, Snapshot, Bind, Prepare, Translate, At, Unreported
<1>2. Mine(t)' = Mine(t) /\ Vetted(Mine(t))
  BY <1>1 DEF Mine, Accounted
<1>Q. ASSUME loc'[t].pc \in {"stat", "turn"}
      PROVE  Accounted(t)'
  BY <1>1, <1>2, <1>Q, QuietAccounted DEF Looking
<1>3. CASE Turn(t) \/ Again(t) \/ Translate(t)
  BY <1>0, <1>Q, <1>3, OnlyPlace DEF Turn, Again, Translate, CallReload, Return
<1>4. CASE Snapshot(t)
  <2>1. loc'[t].pc = "bind" /\ loc'[t].snap = Mine(t)
    BY <1>0, <1>4 DEF Snapshot, TypeOK, Local
  <2>2. \A e \in entry'[Home[t]] : Apt(e, Mine(t))
    BY <1>0, <1>1 DEF EntriesApt, Mine
  <2> QED BY <1>2, <2>1, <2>2 DEF Accounted, Vetted, WarningsOf, Looking, Unreported
<1>5. CASE Bind(t)
  <2>1. /\ loc[t].pc = "bind" /\ loc'[t].pc = "prepare"
        /\ loc'[t].snap = loc[t].snap /\ loc'[t].bound = entry[Home[t]]
    BY <1>0, <1>5 DEF Bind, At, TypeOK, Local
  <2>2. Vetted(loc'[t].snap) /\ \A e \in loc'[t].bound : Apt(e, loc'[t].snap)
    BY <2>1 DEF Accounted
  <2>3. Vetted(Mine(t))'
    BY <1>2 DEF Vetted, WarningsOf
  <2> QED BY <2>1, <2>2, <2>3 DEF Accounted, Looking, Unreported
<1>6. CASE Prepare(t)
  <2> DEFINE s == loc[t].snap
             set == s.data.set
  <2>1. /\ loc[t].pc = "prepare" /\ Vetted(s)
        /\ \A e \in loc[t].bound : Apt(e, s)
    BY <1>6 DEF Prepare, At, Accounted
  <2>2. Vetted(Mine(t))'
    BY <1>2 DEF Vetted, WarningsOf
  <2>3. CASE NeedsPreflight(t)
    <3>1. PICK a \in Answers(t) :
            IF set.strict /\ Doubtful(a.fact.told, a.warned)
              THEN Return(t, "turn", FALSE)
              ELSE loc' = [loc EXCEPT ![t].snap.runtime = {a.fact}, ![t].bound = {}, ![t].pc = "plan"]
      BY <1>6, <2>3 DEF Prepare
    <3>2. a.warned = WarningsOf(s, a.fact)
      BY <2>1, AnswersWarned
    <3>3. CASE set.strict /\ Doubtful(a.fact.told, a.warned)
      BY <1>0, <1>Q, <3>1, <3>3, OnlyPlace DEF Return
    <3>4. CASE ~(set.strict /\ Doubtful(a.fact.told, a.warned))
      <4> DEFINE f == a.fact
      <4>1. loc' = [loc EXCEPT ![t].snap.runtime = {f}, ![t].bound = {}, ![t].pc = "plan"]
        BY <3>1, <3>4
      <4>2. set.strict => ~Doubtful(f.told, WarningsOf(s, f))
        BY <3>2, <3>4
      <4> HIDE DEF f
      <4>3. /\ loc'[t].pc = "plan" /\ loc'[t].snap.data = s.data
            /\ loc'[t].snap.profile = s.profile /\ loc'[t].snap.runtime = {f}
        BY <1>0, <4>1 DEF TypeOK, Local, ConfigState
      <4>4. Vetted(loc'[t].snap)
        BY <4>2, <4>3 DEF Vetted, WarningsOf
      <4> QED BY <2>2, <4>3, <4>4 DEF Accounted, Looking, Unreported
    <3> QED BY <3>3, <3>4
  <2>4. CASE ~NeedsPreflight(t)
    <3>1. loc' = [loc EXCEPT ![t].bound = {}, ![t].pc = "plan"]
      BY <1>6, <2>4 DEF Prepare
    <3>2. loc'[t].pc = "plan" /\ loc'[t].snap = s
      BY <1>0, <3>1 DEF TypeOK, Local
    <3>3. set.strict => s.runtime # {}
      BY <2>4 DEF NeedsPreflight
    <3> QED BY <2>1, <2>2, <3>2, <3>3 DEF Accounted, Looking, Unreported
  <2> QED BY <2>3, <2>4
<1> QED
  BY <1>3, <1>4, <1>5, <1>6 DEF Invocation

LEMMA StepEntries ==
  ASSUME StrictInv, NEW t \in Threads, Acts(t), Accounted(t) \/ ~StoreEntry(t)
  PROVE  EntriesApt'
<1>0. /\ TypeOK /\ EntriesApt /\ Home[t] \in Processes
      /\ \A p \in Processes : cfg[p].generation \in Nat /\ \A e \in entry[p] : e.key.generation \in Nat
  BY MineType DEF StrictInv, PlanInv, IInv, TypeOK, ConfigState, Entry, Key
<1>1. CASE UNCHANGED <<cfg, entry>>
  BY <1>0, <1>1 DEF EntriesApt, Apt, WarningsOf
<1>2. CASE UNCHANGED entry /\ Install(t)
  <2>1. ASSUME NEW p \in Processes, NEW e \in entry'[p]
        PROVE  e.key.generation <= cfg'[p].generation /\ Apt(e, cfg'[p])
    <3>1. CASE p = Home[t]
      BY <1>0, <1>2, <2>1, <3>1, InstallMoves DEF EntriesApt, Apt
    <3>2. CASE p # Home[t]
      BY <1>0, <1>2, <2>1, <3>2, InstallMoves DEF EntriesApt
    <3> QED BY <3>1, <3>2
  <2> QED BY <2>1 DEF EntriesApt, Apt, WarningsOf
<1>3. ASSUME NEW r, UNCHANGED entry, cfg' = [cfg EXCEPT ![Home[t]].runtime = r]
      PROVE  EntriesApt'
  <2>1. \A p \in Processes : /\ cfg'[p].generation = cfg[p].generation
                             /\ cfg'[p].data = cfg[p].data /\ cfg'[p].profile = cfg[p].profile
    BY <1>0, <1>3 DEF TypeOK, ConfigState
  <2> QED BY <1>0, <1>3, <2>1 DEF EntriesApt, Apt, WarningsOf
<1>4. CASE StoreEntry(t)
  <2> DEFINE e == [key |-> loc[t].key, fact |-> loc[t].fact, warned |-> loc[t].warned]
  <2>1. loc[t].pc = "store" /\ UNCHANGED cfg /\ entry' = [entry EXCEPT ![Home[t]] = {e}]
    BY <1>4 DEF StoreEntry, At
  <2>2. e.key.generation <= cfg[Home[t]].generation /\ Apt(e, cfg[Home[t]])
    BY <1>4, <2>1 DEF Accounted, Draft, Mine
  <2> HIDE DEF e
  <2>3. \A p \in Processes : entry'[p] = IF p = Home[t] THEN {e} ELSE entry[p]
    BY <1>0, <2>1 DEF TypeOK
  <2> QED BY <1>0, <2>1, <2>2, <2>3 DEF EntriesApt, Apt, WarningsOf
<1>5. CASE UNCHANGED entry
  BY <1>1, <1>2, <1>3, <1>5, <1>0, ConfigMoves
<1> QED
  BY <1>4, <1>5, EntryMoves

-----------------------------------------------------------------------------
(* StrictIsVerified. *)

LEMMA InitStrict == Init => StrictInv
<1> SUFFICES ASSUME Init
             PROVE  EntriesApt /\ \A t \in Threads : Placed(t) /\ (Job[t] = "translate" => Accounted(t))
  BY InitPlan DEF StrictInv
<1>0. TypeOK /\ \A p \in Processes : entry[p] = {} /\ cfg[p].runtime = {}
  <2>1. PICK s \in Settings : /\ cfg = [p \in Processes |-> Loaded(s)]
                             /\ entry = [p \in Processes |-> {}]
    BY DEF Init
  <2> QED BY <2>1, InitTyped DEF Loaded
<1>1. EntriesApt
  BY <1>0 DEF EntriesApt
<1>2. ASSUME NEW t \in Threads
      PROVE  /\ loc[t].pc \in {"turn", "start"}
             /\ loc[t].pc = "turn" => Job[t] \in {"watch", "translate"}
  <2>1. PICK defers \in [Threads -> BOOLEAN], pc \in [Threads -> {"turn", "start"}] :
          /\ \A u \in Threads : pc[u] \in First(u, defers[u])
          /\ loc = [u \in Threads |-> [Fresh EXCEPT !.pc = pc[u], !.defers = defers[u]]]
    BY DEF Init
  <2>2. loc[t].pc = pc[t]
    BY <2>1, FreshType DEF Local
  <2> QED BY <2>1, <2>2 DEF First
<1>3. ASSUME NEW t \in Threads PROVE Placed(t)
  BY <1>2 DEF Placed, Translating, Flight, Reloading
<1>4. ASSUME NEW t \in Threads PROVE Accounted(t)
  BY <1>0, <1>2, MineType DEF Accounted, Looking, Unreported, Vetted, Mine
<1> QED
  BY <1>1, <1>3, <1>4

LEMMA StepStrict == StrictInv /\ [Next]_vars => StrictInv'
<1> SUFFICES ASSUME StrictInv, [Next]_vars
             PROVE  /\ EntriesApt'
                    /\ \A t \in Threads : Placed(t)' /\ (Job[t] = "translate" => Accounted(t)')
  BY StepPlan DEF StrictInv
<1>0. /\ TypeOK /\ EntriesApt
      /\ \A t \in Threads : Placed(t) /\ (Job[t] = "translate" => Accounted(t))
  BY DEF StrictInv, PlanInv, IInv
<1>1. ASSUME NEW u \in Threads, Acts(u)
      PROVE  /\ EntriesApt'
             /\ \A t \in Threads : Placed(t)' /\ (Job[t] = "translate" => Accounted(t)')
  <2>1. Placed(u)'
    BY <1>0, <1>1, ReloadPlaced, OwnPlaced, MutationPlaced DEF Acts
  <2>2. ASSUME Job[u] = "translate" PROVE Accounted(u)'
    BY <1>0, <1>1, <2>2, ReloadAccounted, PreflightAccounted, InvocationAccounted,
       MutationAccounted DEF Acts
  <2>3. ASSUME NEW t \in Threads, t # u PROVE Placed(t)' /\ (Job[t] = "translate" => Accounted(t)')
    <3>1. loc'[t] = loc[t]
      BY <1>0, <1>1, <2>3, OthersStay
    <3>2. Placed(t)'
      BY <1>0, <3>1 DEF Placed
    <3>3. ASSUME Job[t] = "translate" PROVE Accounted(t)'
      BY <1>0, <1>1, <2>3, <3>1, <3>3, LeavesAlone, OtherAccounted
    <3> QED BY <3>2, <3>3
  <2>4. Accounted(u) \/ ~StoreEntry(u)
    <3>1. StoreEntry(u) => Job[u] = "translate"
      BY <1>0 DEF StoreEntry, At, Placed, Translating, Flight
    <3> QED BY <1>0, <3>1
  <2>5. EntriesApt'
    BY <1>1, <2>4, StepEntries
  <2> QED BY <2>1, <2>2, <2>3, <2>5
<1>2. CASE UNCHANGED <<cfg, loc>> /\ \A p \in Processes : entry'[p] \subseteq entry[p]
  <2>1. EntriesApt'
    BY <1>0, <1>2 DEF EntriesApt, Apt, WarningsOf
  <2>2. ASSUME NEW t \in Threads PROVE Placed(t)' /\ (Job[t] = "translate" => Accounted(t)')
    <3>1. Untouched(Home[t])
      BY <1>2, HomeAssumption DEF Untouched
    <3> QED BY <1>0, <1>2, <3>1, OtherAccounted DEF Placed
  <2> QED BY <2>1, <2>2
<1>3. ASSUME NEW s \in Settings, Save(s)
      PROVE  UNCHANGED <<cfg, loc>> /\ \A p \in Processes : entry'[p] \subseteq entry[p]
  BY <1>3 DEF Save
<1>4. ASSUME NEW q \in Processes, Expire(q)
      PROVE  UNCHANGED <<cfg, loc>> /\ \A p \in Processes : entry'[p] \subseteq entry[p]
  BY <1>0, <1>4 DEF Expire, TypeOK
<1>5. CASE UNCHANGED vars
  BY <1>2, <1>5 DEF vars
<1> QED
  BY <1>1, <1>2, <1>3, <1>4, <1>5 DEF Next, Acts

\* A fact with nothing against it was told by a live backend and fits the settings.
LEMMA Undoubted ==
  ASSUME NEW c, NEW f, NEW e, NEW b \in Adapters, f.told \in Learned(e, b),
         ~Doubtful(f.told, WarningsOf(c, f))
  PROVE  /\ \E reply \in Says[e, b] : Live(reply) /\ f.told \in Outcomes(Heard(b, reply))
         /\ f.told.model # {}
         /\ Model(c.data.set.toml) # {} => f.told.model = Model(c.data.set.toml)
         /\ f.told.total \subseteq {TotalContext(c.data.set.toml)}
         /\ f.told.slot \subseteq {PerRequestContext(c.data.set.toml)}
<1> DEFINE toml == c.data.set.toml
           info == f.told
<1>1. info.status = "verified" /\ info.model # {} /\ Warnings(toml, c.profile, info) = {}
  BY DEF Doubtful, WarningsOf
<1>2. /\ info.total \subseteq {TotalContext(toml)}
      /\ info.slot \subseteq {PerRequestContext(toml)}
      /\ Model(toml) = {} \/ info.model \subseteq Model(toml)
  BY <1>1 DEF Warnings
<1>3. \A v, w \in Model(toml) : v = w
  BY DEF Model, Sorted, Entries
<1>4. PICK reply \in Says[e, b] : info \in Outcomes(Heard(b, reply))
  BY Zenon DEF Learned
<1> DEFINE heard == Heard(b, reply)
<1>5. \A x : Unverified(x).status = "unverified"
  BY DEF Unverified
<1>6. heard.status = "verified"
  <2>1. info = heard \/ info = [heard EXCEPT !.bias = heard.eos] \/ info = Unverified(heard.backend)
    BY <1>4 DEF Outcomes, Resolved
  <2>2. "status" \in DOMAIN heard
    BY DEF Heard, FromProps, FromModels, Unverified
  <2> HIDE DEF heard
  <2> QED BY <1>1, <1>5, <2>1, <2>2
<1>7. Live(reply)
  <2>1. ASSUME NEW o, NEW status PROVE /\ FromProps(o, status).status = status
                                      /\ FromModels(b, o, status).status = status
    BY DEF FromProps, FromModels
  <2> DEFINE status == IF Live(reply) THEN "verified" ELSE "historical"
  <2>2. heard \in {FromProps(reply.body.of, status), FromModels(b, reply.body.of, status), Unverified(b)}
    BY DEF Heard
  <2>3. heard.status \in {status, "unverified"}
    BY <1>5, <2>1, <2>2, ZenonT(60)
  <2> QED BY <1>6, <2>3
<1> HIDE DEF heard
<1> QED
  BY <1>1, <1>2, <1>3, <1>4, <1>6, <1>7 DEF heard

\* Whatever reloads run beside it, a plan under a strict configuration has a fact that
\* the endpoint of that configuration told itself, and that denies none of its settings.
THEOREM StrictPlansVerified == Spec => []StrictIsVerified
<1>1. StrictInv => StrictIsVerified
  <2> SUFFICES ASSUME StrictInv, NEW t \in Threads, At(t, "plan"), loc[t].snap.data.set.strict
               PROVE  LET s == loc[t].snap
                          set == s.data.set
                      IN  \E f \in s.runtime :
                            /\ f.of = {set.endpoint}
                            /\ \E reply \in Says[set.endpoint, Backend(set.toml)] :
                                 /\ Live(reply)
                                 /\ f.told \in Outcomes(Heard(Backend(set.toml), reply))
                            /\ f.told.model # {} /\ (Model(set.toml) # {} => f.told.model = Model(set.toml))
                            /\ f.told.total \subseteq {TotalContext(set.toml)}
                            /\ f.told.slot \subseteq {PerRequestContext(set.toml)}
    BY DEF StrictIsVerified
  <2> DEFINE s == loc[t].snap
  <2>1. Job[t] = "translate" /\ Accounted(t) /\ Grounded(t) /\ s \in ConfigState
    BY FactType DEF StrictInv, PlanInv, IInv, Placed, Translating, At
  <2>2. SoundConfig(s) /\ Vetted(s) /\ s.runtime # {}
    BY <2>1 DEF Accounted, Grounded, At
  <2>3. PICK f \in s.runtime : f.of = {s.data.set.endpoint} /\ Honest(f, Backend(s.data.set.toml))
    BY <2>2 DEF SoundConfig
  <2>4. s.data.set.endpoint \in Endpoints /\ Backend(s.data.set.toml) \in Adapters
    BY <2>1, AdapterType DEF ConfigState, Data, Setting
  <2>5. f.told \in Learned(s.data.set.endpoint, Backend(s.data.set.toml))
    BY <2>3, <2>4 DEF Honest
  <2>6. ~Doubtful(f.told, WarningsOf(s, f))
    BY <2>2, <2>3 DEF Vetted
  <2> HIDE DEF s
  <2>7. /\ \E reply \in Says[s.data.set.endpoint, Backend(s.data.set.toml)] :
             Live(reply) /\ f.told \in Outcomes(Heard(Backend(s.data.set.toml), reply))
        /\ f.told.model # {}
        /\ Model(s.data.set.toml) # {} => f.told.model = Model(s.data.set.toml)
        /\ f.told.total \subseteq {TotalContext(s.data.set.toml)}
        /\ f.told.slot \subseteq {PerRequestContext(s.data.set.toml)}
    BY <2>4, <2>5, <2>6, Undoubted
  <2> QED BY <2>3, <2>7 DEF s
<1> QED
  BY <1>1, InitStrict, StepStrict, PTL DEF Spec

=============================================================================
