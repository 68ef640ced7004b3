-------------------------- MODULE InferenceIdentity --------------------------
(***************************************************************************)
(* What is asked of a backend under a configuration, and the names under   *)
(* which an answer is kept: inference_fingerprint of hymt-core/config.rs,  *)
(* the payloads of hymt-client, the keys of segment rows in translate.rs   *)
(* and the proofs of offline_replay.rs.                                    *)
(*                                                                         *)
(* A digest is the record that is hashed.  An order is one text with its   *)
(* target language, template and prompt options; an option is a set of at  *)
(* most one value, "" being an empty one.  A configuration is the state    *)
(* that HotConfig keeps: its settings, profile and facts of the backend.   *)
(* A text is one segment, and its output is left out.                      *)
(***************************************************************************)
EXTENDS BackendFacts

CONSTANT Orders  \* what callers may ask to translate

TomlOf(c) == c.data.set.toml

\* Facts of another adapter are passed over here too.
Runtime(c) == Relevant(TomlOf(c), {f.told : f \in c.runtime})

OutputLimit(c) == ResolvedMaxOutputTokens(TomlOf(c), {f.told : f \in c.runtime})

-----------------------------------------------------------------------------
(* The prompt. *)

\* The option each template goes by.
Uses == [terminology |-> "terms", style |-> "style", personalization |-> "instructions",
         structured |-> "format_type", context |-> "context"]
Said(q) == IF q.template \in DOMAIN Uses THEN q.opts[Uses[q.template]] \ {""} ELSE {}

\* build_prompt: an option a template cannot do without is asked for.
Prompt(q) ==
    LET said == IF q.template = "structured" THEN {OrElse(Said(q), "structured")} ELSE Said(q)
    IN  IF q.template \in {"style", "context"} /\ said = {} THEN {}
        ELSE {[source |-> q.source, target |-> q.target, template |-> q.template, said |-> said]}

EffectivePolicy(c, q) == OrElse(q.policy, DocumentTranslationPolicy(TomlOf(c)))

\* template_options_hash: only a policy that differs from the usual one is hashed.
OptionsHash(c, q) ==
    [opts |-> q.opts, policy |-> {EffectivePolicy(c, q)} \cap {"TranslateAll"}]

-----------------------------------------------------------------------------
(* The request. *)

WireName(backend, field) ==
    IF field = "repetition_penalty" /\ backend = "llama_cpp" THEN "repeat_penalty" ELSE field

\* How a sampler is switched off on the wire.
OffValue(backend, field) ==
    CASE field \in {"top_p", "repetition_penalty"} -> 100
      [] field = "top_k" /\ backend = "vllm" -> -1
      [] OTHER -> 0

\* normalized_for_backend
Normalized(toml) ==
    [field \in GenerationSettingField |->
        IF field \in Capabilities(Backend(toml)) THEN GenerationSettings(toml)[field] ELSE Server]

\* Fields the request carries, with what it says in them.
Sent(toml) == {field \in GenerationSettingField : Explicit(Normalized(toml), field)}
SentValue(toml, field) ==
    IF Normalized(toml)[field] = Disabled THEN OffValue(Backend(toml), field)
                                          ELSE Normalized(toml)[field].of

\* build_payload, and where it goes.
Request(c, q) ==
    LET toml == TomlOf(c)
    IN  [endpoint |-> c.data.set.endpoint, backend |-> Backend(toml), model |-> Model(toml),
         messages |-> Prompt(q),
         max_tokens |-> OutputLimit(c),
         samplers |-> {<<WireName(Backend(toml), field), SentValue(toml, field)>> : field \in Sent(toml)},
         logit_bias |-> UNION {info.bias : info \in Runtime(c)}]

\* The value every sampler has while the backend answers, where it is known.
Sampling(c) ==
    LET sent == Sent(TomlOf(c))
    IN  [field \in GenerationSettingField |->
            IF field \in sent THEN {SentValue(TomlOf(c), field)}
                              ELSE UNION {info.defaults[field] : info \in Runtime(c)}]

-----------------------------------------------------------------------------
(* inference_fingerprint. *)

Hashed(c, template, options, limit) ==
    LET toml == TomlOf(c)
        settings == Normalized(toml)
    IN  [backend |-> Backend(toml), max_retries |-> CompletenessMaxRetries(toml),
         endpoint_url |-> c.data.set.endpoint,
         generation |-> [field \in Sent(toml) |-> settings[field]],
         configured_alias |-> Model(toml), profile_id |-> c.profile,
         options_hash |-> options, template_type |-> template,
         max_output_tokens |-> limit, runtime |-> Runtime(c)]

\* Mutant of Fingerprint: the limit of the request is forgotten.
LimitlessFingerprint(c, template, options) == Hashed(c, template, options, {})

\* The profile stands for its model and tokenizer sources.
Fingerprint(c, template, options) ==
    Hashed(c, template, options, {OutputLimit(c)})

\* Whether an answer may be kept, or one that was kept be used.
CacheVerified(c) ==
    LET toml == TomlOf(c)
        runtime == Runtime(c)
    IN  /\ \A info \in runtime : Model(toml) = {} \/ info.model \subseteq Model(toml)
        /\ \A info \in runtime : info.status = "verified" /\ info.model # {}
        /\ \/ Sent(toml) = GenerationSettingField
           \/ \E info \in runtime : \A field \in GenerationSettingField : info.defaults[field] # {}
        /\ ~(c.profile = "generic" /\ Model(toml) = {} /\ \A info \in runtime : info.model = {})

-----------------------------------------------------------------------------
(* Segment rows. *)

SegmentKey(c, q) ==
    [content |-> q.source, target |-> q.target, template |-> q.template,
     options |-> OptionsHash(c, q), profile |-> c.profile,
     inference |-> Fingerprint(c, q.template, OptionsHash(c, q))]

-----------------------------------------------------------------------------
(* Whole outputs that are replayed while the backend is away. *)

Isolated(c, runtime) == [c EXCEPT !.runtime = {[of |-> {}, told |-> info] : info \in runtime}]

\* configured_digest clears the facts: the question is the same in an outage.
ConfiguredDigest(c, q) ==
    LET toml == TomlOf(c)
    IN  [source |-> q.source, target |-> q.target,
         inference |-> Fingerprint(Isolated(c, {}), q.template, OptionsHash(c, q)),
         limits |-> <<TotalContext(toml), ParallelSlots(toml), PerRequestContext(toml)>>,
         strict_preflight |-> c.data.set.strict]

\* request_plan_digest: the budget the text was cut by, and the request itself.
RequestPlan(c, q) ==
    [budget |-> ResolvedPerRequestContext(TomlOf(c), {f.told : f \in c.runtime}),
     requests |-> Request(c, q)]

ValidRuntime(info) ==
    info.status = "verified" /\ info.model # {} /\ (info.eos # {} <=> info.bias # {})

PopulationProof(c, q) ==
    {[configured |-> ConfiguredDigest(c, q), runtime |-> info,
      inference |-> Fingerprint(c, q.template, OptionsHash(c, q)), requests |-> RequestPlan(c, q)]
        : info \in {f.told : f \in {x \in c.runtime : ValidRuntime(x.told) /\ CacheVerified(c)}}}

\* find_replay: the retained facts are put to the proof in a copy of the configuration.
FindReplay(c, q, proof) ==
    LET isolated == Isolated(c, {proof.runtime})
    IN  /\ proof.configured = ConfiguredDigest(c, q)
        /\ ValidRuntime(proof.runtime) /\ proof.runtime.backend = Backend(TomlOf(c))
        /\ CacheVerified(isolated)
        /\ proof.inference = Fingerprint(isolated, q.template, OptionsHash(isolated, q))
        /\ proof.requests = RequestPlan(isolated, q)
=============================================================================
