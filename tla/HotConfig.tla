----------------------------- MODULE HotConfig -----------------------------
(***************************************************************************)
(* The configuration file, the in-memory copy each process keeps of it,    *)
(* and the backend preflight that fills in runtime facts:                  *)
(* hymt-core/src/config.rs and the preflight of hymt-client/src/lib.rs,    *)
(* with the way an invocation binds itself to one generation of both       *)
(* (prepare_invocation in translate.rs).                                   *)
(*                                                                         *)
(* Threads of one process share a HotConfig and a client.  One translates, *)
(* one text after another, with a live preflight first unless the client   *)
(* defers it; others reload, claim ownership or replace the claim          *)
(* password.  A person may save the file in an editor at any time.         *)
(*                                                                         *)
(* A file is its settings and its modification time; every write takes a   *)
(* new time.  A setting is the endpoint, strictness and the table of the   *)
(* keys that FileSettings reads.  A fact about the backend is the          *)
(* endpoints that told it and what BackendFacts makes of their replies.    *)
(***************************************************************************)
EXTENDS InferenceIdentity, FiniteSets

CONSTANTS
    Processes,  \* processes that open the configuration
    Threads,    \* threads that use it
    Home,       \* the process of each thread
    Job,        \* what each thread does
    Endpoints,  \* backends an endpoint URL can name
    Tomls,      \* tables a file may hold
    Says,       \* what each endpoint may reply to each adapter's question
    Settings,   \* what a person may save
    MaxSaves    \* bound on saves by a person

Jobs == {"watch", "translate", "claim", "regenerate"}
Setting == [endpoint : Endpoints, strict : BOOLEAN, toml : Tomls]

ASSUME HomeAssumption == Home \in [Threads -> Processes]
ASSUME JobAssumption == Job \in [Threads -> Jobs]
ASSUME OneTranslator ==
    \A t, u \in Threads :
        Job[t] = "translate" /\ Job[u] = "translate" /\ Home[t] = Home[u] => t = u
ASSUME SettingsAssumption == Settings \subseteq Setting /\ \E s \in Settings : Opens(s.toml)
ASSUME SavesAssumption == MaxSaves \in Nat

VARIABLES
    file,   \* config.toml: settings, owners, the claim password's author, and mtime
    tmp,    \* config.toml.tmp: at most one file
    clock,  \* modification times given out
    saves,  \* saves by a person
    cfg,    \* ConfigState of each process
    entry,  \* runtime_cache of each process: at most one RuntimeCacheEntry
    loc,    \* local state of each thread
    acked   \* history: claims reported to have been persisted

vars == <<file, tmp, clock, saves, cfg, entry, loc, acked>>
disk == <<file, tmp, clock, saves>>

Data == [set : Setting, owners : SUBSET Threads, secret : SUBSET Threads]
File == [data : Data, mtime : Nat]

\* What may be learnt of a backend.
Replies(b) == UNION {Says[e, b] : e \in Endpoints}
HeardInfos == {Unverified(b) : b \in Adapters}
              \cup UNION {{Heard(b, reply) : reply \in Replies(b)} : b \in Adapters}
Infos == HeardInfos \cup {Resolved(info, TRUE) : info \in HeardInfos}
Fact == [of : SUBSET Endpoints, told : Infos]

\* The profile is fixed by the first load, so the key need not hold it.
Key == [endpoint : Endpoints, backend : Adapters, generation : Nat]
ConfigState == [data : Data, mtime : Nat, generation : Nat, profile : Profiles,
                runtime : SUBSET Fact]
Entry == [key : Key, fact : Fact, warned : SUBSET Kinds]

Mine(t) == cfg[Home[t]]
Endpoint(t) == Mine(t).data.set.endpoint
Toml(t) == Mine(t).data.set.toml
At(t, pc) == loc[t].pc = pc
Go(t, pc) == loc' = [loc EXCEPT ![t].pc = pc]

\* A client that defers preflight leaves it to the first text that needs one.
First(t, defers) ==
    CASE Job[t] = "watch" -> {"turn"}
      [] Job[t] = "translate" /\ defers -> {"turn", "start"}
      [] OTHER -> {"start"}

With(s) == [set |-> s, owners |-> {}, secret |-> {}]
Loaded(s) == [data |-> With(s), mtime |-> 0, generation |-> 1, profile |-> Profile(s.toml),
              runtime |-> {}]

\* What a thread's variables are worth before they are assigned.
Blank == CHOOSE s \in Settings : Opens(s.toml)
Unasked == [of |-> {}, told |-> Unverified("vllm")]
Fresh == [pc |-> "end", ret |-> "turn", defers |-> FALSE, reloaded |-> FALSE, mtime |-> 0,
          data |-> With(Blank), generation |-> 1,
          key |-> [endpoint |-> Blank.endpoint, backend |-> "vllm", generation |-> 1],
          fact |-> Unasked, warned |-> {}, snap |-> Loaded(Blank), bound |-> {}]

Init ==
    \E s \in {x \in Settings : Opens(x.toml)} :
        /\ file = [data |-> With(s), mtime |-> 0]
        /\ tmp = {}
        /\ clock = 0
        /\ saves = 0
        /\ cfg = [p \in Processes |-> Loaded(s)]
        /\ entry = [p \in Processes |-> {}]
        /\ \E defers \in [Threads -> BOOLEAN], pc \in [Threads -> {"turn", "start"}] :
             /\ \A t \in Threads : defers[t] => Job[t] = "translate"
             /\ \A t \in Threads : pc[t] \in First(t, defers[t])
             /\ loc = [t \in Threads |-> [Fresh EXCEPT !.pc = pc[t], !.defers = defers[t]]]
        /\ acked = {}

-----------------------------------------------------------------------------
(* maybe_reload and load_from_disk, called from several places. *)

\* No other local of the thread is live where it calls, or where it returns to.
Only(t, pc, ret, reloaded) ==
    loc' = [loc EXCEPT ![t] = [Fresh EXCEPT !.pc = pc, !.ret = ret, !.reloaded = reloaded,
                                            !.defers = loc[t].defers]]
CallReload(t, ret) == Only(t, "stat", ret, FALSE)
Return(t, pc, reloaded) == Only(t, pc, "turn", reloaded)

\* Where a caller goes when the load fails: preflight and the poll loop ignore it.
OnFailure(ret) ==
    CASE ret = "generation" -> "generation"
      [] ret \in {"turn", "again", "snapshot"} -> "turn"
      [] OTHER -> "end"

Stat(t) ==
    /\ At(t, "stat")
    /\ loc' = [loc EXCEPT ![t].pc = "compare", ![t].mtime = file.mtime]
    /\ UNCHANGED <<disk, cfg, entry, acked>>

Compare(t) ==
    /\ At(t, "compare")
    /\ IF Mine(t).mtime = loc[t].mtime THEN Return(t, loc[t].ret, FALSE) ELSE Go(t, "read")
    /\ UNCHANGED <<disk, cfg, entry, acked>>

\* The text is read and validated first; it may be rejected.
ReadFile(t) ==
    /\ At(t, "read")
    /\ IF Loads(file.data.set.toml)
         THEN loc' = [loc EXCEPT ![t].pc = "stamp", ![t].data = file.data]
         ELSE Return(t, OnFailure(loc[t].ret), FALSE)
    /\ UNCHANGED <<disk, cfg, entry, acked>>

\* The modification time is taken only after that.
Stamp(t) ==
    /\ At(t, "stamp")
    /\ loc' = [loc EXCEPT ![t].pc = "install", ![t].mtime = file.mtime]
    /\ UNCHANGED <<disk, cfg, entry, acked>>

\* Mutant of Install: a reload leaves the facts of the previous configuration in place.
KeepingInstall(t) ==
    /\ At(t, "install")
    /\ cfg' = [cfg EXCEPT ![Home[t]] =
                 [data |-> loc[t].data, mtime |-> loc[t].mtime,
                  generation |-> @.generation + 1, profile |-> @.profile, runtime |-> @.runtime]]
    /\ Return(t, loc[t].ret, TRUE)
    /\ UNCHANGED <<disk, entry, acked>>

Install(t) ==
    /\ At(t, "install")
    /\ cfg' = [cfg EXCEPT ![Home[t]] =
                 [data |-> loc[t].data, mtime |-> loc[t].mtime,
                  generation |-> @.generation + 1, profile |-> @.profile, runtime |-> {}]]
    /\ Return(t, loc[t].ret, TRUE)
    /\ UNCHANGED <<disk, entry, acked>>

-----------------------------------------------------------------------------
(* preflight_backend on the live configuration. *)

\* It is public, and the batch plan calls it again when the facts are gone.
StartPreflight(t) ==
    /\ At(t, "start") \/ At(t, "turn")
    /\ Job[t] = "translate"
    /\ CallReload(t, "generation")
    /\ UNCHANGED <<disk, cfg, entry, acked>>

ReadGeneration(t) ==
    /\ At(t, "generation")
    /\ loc' = [loc EXCEPT ![t].pc = "endpoint", ![t].generation = Mine(t).generation]
    /\ UNCHANGED <<disk, cfg, entry, acked>>

\* runtime_cache_key reads the endpoint, the adapter and the generation one by one.
ReadKeyEndpoint(t) ==
    /\ At(t, "endpoint")
    /\ loc' = [loc EXCEPT ![t].pc = "backend", ![t].key.endpoint = Endpoint(t)]
    /\ UNCHANGED <<disk, cfg, entry, acked>>

ReadKeyBackend(t) ==
    /\ At(t, "backend")
    /\ loc' = [loc EXCEPT ![t].pc = "key", ![t].key.backend = Backend(Toml(t))]
    /\ UNCHANGED <<disk, cfg, entry, acked>>

ReadKeyGeneration(t) ==
    /\ At(t, "key")
    /\ loc' = [loc EXCEPT ![t].pc = "lookup", ![t].key.generation = Mine(t).generation]
    /\ UNCHANGED <<disk, cfg, entry, acked>>

\* cached_runtime: an entry of this key that has not expired.
LookupRuntime(t) ==
    /\ At(t, "lookup")
    /\ \/ \E e \in entry[Home[t]] :
             /\ e.key = loc[t].key
             /\ loc' = [loc EXCEPT ![t].pc = "reuse", ![t].fact = e.fact, ![t].warned = e.warned]
       \/ /\ \A e \in entry[Home[t]] : e.key # loc[t].key
          /\ Go(t, "clear")
    /\ UNCHANGED <<disk, cfg, entry, acked>>

\* Mutant of Publish: the facts of a probe are published whatever became of the configuration.
UncheckedPublish(t, pc) ==
    /\ cfg' = [cfg EXCEPT ![Home[t]].runtime = {loc[t].fact}]
    /\ Go(t, pc)

\* set_backend_runtime_info_if_generation, then on to pc; "end" is the error.
Publish(t, pc) ==
    IF Mine(t).generation = loc[t].generation
      THEN /\ cfg' = [cfg EXCEPT ![Home[t]].runtime = {loc[t].fact}]
           /\ Go(t, pc)
      ELSE /\ Return(t, "end", FALSE)
           /\ UNCHANGED cfg

ReuseRuntime(t) ==
    /\ At(t, "reuse")
    /\ Publish(t, "report")
    /\ UNCHANGED <<disk, entry, acked>>

ClearRuntime(t) ==
    /\ At(t, "clear")
    /\ IF Mine(t).generation = loc[t].generation
         THEN /\ cfg' = [cfg EXCEPT ![Home[t]].runtime = {}]
              /\ Go(t, "probe")
         ELSE /\ Return(t, "end", FALSE)
              /\ UNCHANGED cfg
    /\ UNCHANGED <<disk, entry, acked>>

\* fetch_backend_runtime asks what the adapter of the key asks, at the endpoint
\* of this moment.
Probe(t) ==
    /\ At(t, "probe")
    /\ \E reply \in Says[Endpoint(t), loc[t].key.backend] :
         LET info == Heard(loc[t].key.backend, reply)
         IN  loc' = [loc EXCEPT ![t].pc = IF info.eos = {} THEN "publish" ELSE "tokenize",
                                ![t].fact = [of |-> {Endpoint(t)}, told |-> info]]
    /\ UNCHANGED <<disk, cfg, entry, acked>>

\* llama_cpp_false_eos_token_id asks again, at the endpoint of that moment.
Tokenize(t) ==
    /\ At(t, "tokenize")
    /\ \E found \in BOOLEAN :
         loc' = [loc EXCEPT ![t].pc = "publish",
                            ![t].fact = [of |-> @.of \cup {Endpoint(t)},
                                         told |-> Resolved(@.told, found)]]
    /\ UNCHANGED <<disk, cfg, entry, acked>>

PublishRuntime(t) ==
    /\ At(t, "publish")
    /\ Publish(t, "recheck")
    /\ UNCHANGED <<disk, entry, acked>>

\* preflight_warnings, then the generation once more.
Recheck(t) ==
    /\ At(t, "recheck")
    /\ loc' = [loc EXCEPT ![t].pc = IF Mine(t).generation = loc[t].generation THEN "store" ELSE "end",
                          ![t].warned = Warnings(Toml(t), Mine(t).profile, loc[t].fact.told)]
    /\ UNCHANGED <<disk, cfg, entry, acked>>

StoreEntry(t) ==
    /\ At(t, "store")
    /\ entry' = [entry EXCEPT ![Home[t]] =
                    {[key |-> loc[t].key, fact |-> loc[t].fact, warned |-> loc[t].warned]}]
    /\ Go(t, "report")
    /\ UNCHANGED <<disk, cfg, acked>>

\* backend_preflight_report: in strict mode doubt ends the command.
Report(t) ==
    /\ At(t, "report")
    /\ Return(t, IF Mine(t).data.set.strict /\ Doubtful(loc[t].fact.told, loc[t].warned)
                   THEN "end" ELSE "turn", FALSE)
    /\ UNCHANGED <<disk, cfg, entry, acked>>

-----------------------------------------------------------------------------
(* translate_text up to planning: two reloads, one detached snapshot, and a *)
(* preflight of the snapshot when it has no facts.                          *)

Turn(t) ==
    /\ At(t, "turn")
    /\ CallReload(t, IF Job[t] = "watch" THEN "turn" ELSE "again")
    /\ UNCHANGED <<disk, cfg, entry, acked>>

Again(t) ==
    /\ At(t, "again")
    /\ CallReload(t, "snapshot")
    /\ UNCHANGED <<disk, cfg, entry, acked>>

Snapshot(t) ==
    /\ At(t, "snapshot")
    /\ loc' = [loc EXCEPT ![t].pc = "bind", ![t].snap = Mine(t)]
    /\ UNCHANGED <<disk, cfg, entry, acked>>

\* with_config copies the client's entry.
Bind(t) ==
    /\ At(t, "bind")
    /\ loc' = [loc EXCEPT ![t].pc = "prepare", ![t].bound = entry[Home[t]]]
    /\ UNCHANGED <<disk, cfg, entry, acked>>

NeedsPreflight(t) ==
    /\ loc[t].snap.data.set.strict \/ loc[t].defers
    /\ loc[t].reloaded \/ loc[t].snap.runtime = {}

\* What one question to this endpoint may come to.
Learned(e, b) ==
    UNION {Outcomes(Heard(b, reply)) : reply \in Says[e, b]}

\* What the preflight of a detached snapshot may find: nobody else sees it.
Answers(t) ==
    LET s == loc[t].snap
        set == s.data.set
        k == [endpoint |-> set.endpoint, backend |-> Backend(set.toml), generation |-> s.generation]
        cached == {[fact |-> e.fact, warned |-> e.warned] : e \in {x \in loc[t].bound : x.key = k}}
    IN  IF ~loc[t].reloaded /\ cached # {}
          THEN cached
          ELSE {[fact |-> [of |-> {set.endpoint}, told |-> info],
                 warned |-> Warnings(set.toml, s.profile, info)]
                  : info \in Learned(set.endpoint, k.backend)}

Prepare(t) ==
    /\ At(t, "prepare")
    /\ IF NeedsPreflight(t)
         THEN \E a \in Answers(t) :
                IF loc[t].snap.data.set.strict /\ Doubtful(a.fact.told, a.warned)
                  THEN Return(t, "turn", FALSE)
                  ELSE loc' = [loc EXCEPT ![t].snap.runtime = {a.fact}, ![t].bound = {},
                                          ![t].pc = "plan"]
         ELSE loc' = [loc EXCEPT ![t].bound = {}, ![t].pc = "plan"]
    /\ UNCHANGED <<disk, cfg, entry, acked>>

\* Planning, cache lookup and requests use only the snapshot.
Translate(t) ==
    /\ At(t, "plan")
    /\ Return(t, "turn", FALSE)
    /\ UNCHANGED <<disk, cfg, entry, acked>>

-----------------------------------------------------------------------------
(* mutate_telegram: add_telegram_owner and regenerate_telegram_claim_password. *)

StartMutation(t) ==
    /\ At(t, "start")
    /\ Job[t] \in {"claim", "regenerate"}
    /\ CallReload(t, "clone")
    /\ UNCHANGED <<disk, cfg, entry, acked>>

\* The copy in memory is changed, not the file's current text.
Clone(t) ==
    /\ At(t, "clone")
    /\ LET d == Mine(t).data
       IN  loc' = [loc EXCEPT ![t].pc = "write",
                     ![t].data = IF Job[t] = "claim" THEN [d EXCEPT !.owners = @ \cup {t}]
                                                     ELSE [d EXCEPT !.secret = {t}]]
    /\ UNCHANGED <<disk, cfg, entry, acked>>

\* atomic_write: every writer uses the same temporary name.
WriteTemp(t) ==
    /\ At(t, "write")
    /\ clock' = clock + 1
    /\ tmp' = {[data |-> loc[t].data, mtime |-> clock']}
    /\ Go(t, "rename")
    /\ UNCHANGED <<file, saves, cfg, entry, acked>>

Rename(t) ==
    /\ At(t, "rename")
    /\ IF tmp = {}
         THEN Return(t, "end", FALSE) /\ UNCHANGED file
         ELSE /\ file' \in tmp
              /\ loc' = [loc EXCEPT ![t].pc = "read", ![t].ret = "persisted"]
    /\ tmp' = {}
    /\ UNCHANGED <<clock, saves, cfg, entry, acked>>

Acknowledge(t) ==
    /\ At(t, "persisted")
    /\ acked' = IF Job[t] = "claim" THEN acked \cup {t} ELSE acked
    /\ Return(t, "end", FALSE)
    /\ UNCHANGED <<disk, cfg, entry>>

-----------------------------------------------------------------------------
(* The world around. *)

\* A person saves other settings; the editor keeps the rest of the file.
Save(s) ==
    /\ saves < MaxSaves
    /\ s # file.data.set
    /\ saves' = saves + 1
    /\ clock' = clock + 1
    /\ file' = [data |-> [file.data EXCEPT !.set = s], mtime |-> clock']
    /\ UNCHANGED <<tmp, cfg, entry, loc, acked>>

\* BACKEND_PREFLIGHT_TTL passes.
Expire(p) ==
    /\ entry[p] # {}
    /\ entry' = [entry EXCEPT ![p] = {}]
    /\ UNCHANGED <<disk, cfg, loc, acked>>

Reload(t) == Stat(t) \/ Compare(t) \/ ReadFile(t) \/ Stamp(t) \/ Install(t)
Preflight(t) ==
    \/ StartPreflight(t) \/ ReadGeneration(t) \/ ReadKeyEndpoint(t) \/ ReadKeyBackend(t)
    \/ ReadKeyGeneration(t) \/ LookupRuntime(t) \/ ReuseRuntime(t) \/ ClearRuntime(t) \/ Probe(t) \/ Tokenize(t)
    \/ PublishRuntime(t) \/ Recheck(t) \/ StoreEntry(t) \/ Report(t)
Invocation(t) ==
    Turn(t) \/ Again(t) \/ Snapshot(t) \/ Bind(t) \/ Prepare(t) \/ Translate(t)
Mutation(t) ==
    StartMutation(t) \/ Clone(t) \/ WriteTemp(t) \/ Rename(t) \/ Acknowledge(t)

Next ==
    \/ \E t \in Threads : Reload(t) \/ Preflight(t) \/ Invocation(t) \/ Mutation(t)
    \/ \E s \in Settings : Save(s)
    \/ \E p \in Processes : Expire(p)

Spec == Init /\ [][Next]_vars
-----------------------------------------------------------------------------
(* What must hold. *)

Pcs == {"turn", "start", "stat", "compare", "read", "stamp", "install", "generation",
        "endpoint", "backend", "key", "lookup", "reuse", "clear", "probe", "tokenize", "publish",
        "recheck", "store", "report", "again", "snapshot", "bind", "prepare", "plan",
        "clone", "write", "rename", "persisted", "end"}
Rets == {"turn", "generation", "again", "snapshot", "clone", "persisted"}

Local == [pc : Pcs, defers : BOOLEAN, ret : Rets, reloaded : BOOLEAN, mtime : Nat, data : Data,
          generation : Nat, key : Key, fact : Fact, warned : SUBSET Kinds, snap : ConfigState, bound : SUBSET Entry]

\* Every variable keeps its shape, and at most one fact or entry is held.
TypeOK ==
    /\ file \in File
    /\ tmp \in SUBSET File /\ \A f, g \in tmp : f = g
    /\ clock \in Nat
    /\ saves \in 0 .. MaxSaves
    /\ cfg \in [Processes -> ConfigState]
    /\ \A p \in Processes : \A f, g \in cfg[p].runtime : f = g
    /\ entry \in [Processes -> SUBSET Entry]
    /\ \A p \in Processes : \A e, f \in entry[p] : e = f
    /\ loc \in [Threads -> Local]
    /\ acked \in SUBSET Threads

\* Runtime facts belong to the configuration that was probed: whatever reloads
\* run while a probe is in flight, the facts beside a configuration were told by
\* the endpoint it names, and a reusable entry by the endpoint it is filed under.
FactsOwned ==
    \A p \in Processes :
        /\ \A f \in cfg[p].runtime : f.of = {cfg[p].data.set.endpoint}
        /\ \A e \in entry[p] : e.fact.of = {e.key.endpoint}

\* A reload forces strict callers to preflight again: an invocation that plans
\* under a strict configuration has facts from the endpoint of that configuration,
\* which that endpoint told itself, not through the inference cache, and which name
\* a model and deny neither the configured model nor the configured contexts.
StrictIsVerified ==
    \A t \in Threads :
        LET s == loc[t].snap
            set == s.data.set
        IN  At(t, "plan") /\ set.strict =>
              \E f \in s.runtime :
                /\ f.of = {set.endpoint}
                /\ \E reply \in Says[set.endpoint, Backend(set.toml)] :
                     /\ Live(reply)
                     /\ f.told \in Outcomes(Heard(Backend(set.toml), reply))
                /\ f.told.model # {} /\ (Model(set.toml) # {} => f.told.model = Model(set.toml))
                /\ f.told.total \subseteq {TotalContext(set.toml)}
                /\ f.told.slot \subseteq {PerRequestContext(set.toml)}

\* What a plan takes from a configuration and its facts stays within the share of the
\* context that the configured slots leave to each other, and when there are facts also
\* within what the endpoint said of its slots and generation limit, or within the
\* cautious defaults when nothing it said could be used.
Fits(c) ==
    LET toml == c.data.set.toml
        told == {f.told : f \in c.runtime}
        context == ResolvedPerRequestContext(toml, told)
        output == ResolvedMaxOutputTokens(toml, told)
    IN  /\ context * ParallelSlots(toml) <= TotalContext(toml)
        /\ c.runtime # {} =>
             \E info \in Learned(c.data.set.endpoint, Backend(toml)) :
               IF info.status = "unverified"
                 THEN context <= 4096 /\ output <= 1024
                 ELSE /\ \A n \in info.slot : context <= n
                      /\ \A n \in info.limit : output <= n

\* Whatever was reloaded while a probe was under way, and whether or not the
\* configuration is strict, a plan fits the configuration it is made under.
PlanFits == \A t \in Threads : At(t, "plan") => Fits(loc[t].snap)

\* What an invocation may have planned under: any settings, with facts or without.
BasesOf(s) ==
    {[Loaded(s) EXCEPT !.runtime = r] :
        r \in {{}} \cup {{[of |-> {s.endpoint}, told |-> info]} :
                           info \in Learned(s.endpoint, Backend(s.toml))}}
Bases == UNION {BasesOf(s) : s \in {x \in Setting : Opens(x.toml)}}

\* What it asked for, and what the backend made of it.
Asked(c, q) == <<Request(c, q), Sampling(c)>>
Known(sampling) == \A field \in GenerationSettingField : sampling[field] # {}

Rows == {[key |-> SegmentKey(b, p), asked |-> Asked(b, p)] :
            b \in {x \in Bases : CacheVerified(x)}, p \in Orders}
Proofs == UNION {{[proof |-> proof, asked |-> Asked(b, p)] : proof \in PopulationProof(b, p)} :
                    b \in Bases, p \in Orders}

RowsFit(c, q) ==
    LET key == SegmentKey(c, q)
    IN  CacheVerified(c) =>
          \A row \in Rows : row.key = key => row.asked = Asked(c, q) /\ Known(Sampling(c))
ReplaysFit(c, q) ==
    LET configured == ConfiguredDigest(c, q)
    IN  \A row \in Proofs : row.proof.configured = configured /\ FindReplay(c, q, row.proof) =>
          row.asked = Asked(Isolated(c, {row.proof.runtime}), q) /\ Known(row.asked[2])
OutageFits(c, q) ==
    \A proof \in PopulationProof(c, q) : \A facts \in {b.runtime : b \in Bases} :
        FindReplay([c EXCEPT !.runtime = facts], q, proof)

\* A translation that was kept answers the same question again, and no other: a row
\* that an invocation may use was asked for by the very request it would send, under
\* the same sampling, none of it guessed; an output is replayed only for the request
\* that it answered; and what an invocation may prove now is found again whatever
\* becomes of the facts.
StoredForTheSame ==
    \A t \in Threads : At(t, "plan") =>
        \A q \in Orders :
            RowsFit(loc[t].snap, q) /\ ReplaysFit(loc[t].snap, q) /\ OutageFits(loc[t].snap, q)

\* A process that is not loading and does not hold the file's content can tell
\* so by the modification time, which is all maybe_reload looks at.
EditIsNoticed ==
    \A p \in Processes :
        \/ \E t \in Threads : Home[t] = p /\ loc[t].pc \in {"stamp", "install"}
        \/ cfg[p].data = file.data
        \/ cfg[p].mtime # file.mtime

\* A claim reported as persisted is in the file.
ClaimSurvives == acked \subseteq file.data.owners

-----------------------------------------------------------------------------
(* Why the facts are owned. *)

\* A preflight began at a generation that is not in the future; while it is still
\* the live one, what the thread has read and asked came from the live endpoint.
InFlight(t) ==
    LET live == loc[t].generation = Mine(t).generation
        asked == {"tokenize", "publish", "recheck"}
        keyed == {"backend", "key", "lookup", "reuse", "clear", "probe"} \cup asked
    IN  /\ loc[t].pc \in keyed \cup {"endpoint"} => loc[t].generation <= Mine(t).generation
        /\ loc[t].pc \in keyed /\ live => loc[t].key.endpoint = Endpoint(t)
        /\ loc[t].pc \in asked /\ live => loc[t].fact.of = {Endpoint(t)}
        /\ loc[t].pc \in {"reuse", "store"} => loc[t].fact.of = {loc[t].key.endpoint}

IInv == TypeOK /\ FactsOwned /\ \A t \in Threads : InFlight(t)
=============================================================================
