----------------------------- MODULE BackendFacts -----------------------------
(***************************************************************************)
(* What a preflight learns about a backend and what it makes of it:        *)
(* BackendRuntimeInfo of hymt-core/src/runtime.rs, fetch_backend_runtime   *)
(* and preflight_warnings of hymt-client/src/lib.rs, and the limits the    *)
(* planner resolves from the result in config.rs.                          *)
(*                                                                         *)
(* A JSON object is a function from names to values, as a TOML table is.   *)
(* A reply is what came back of GET /props or /models: whether it is an    *)
(* answer at all, its body, and the two headers by which the inference     *)
(* cache says that it answers for a backend that is away.                  *)
(***************************************************************************)
EXTENDS FileSettings

CONSTANTS
    Now,          \* the time of every probe; older answers are told from the past
    Aliases,      \* the model names each profile recognises, in any case of letters
    Punctuation,  \* tokens of one ASCII punctuation character
    Marked        \* chat templates with a control marker such as <|end|>

Statuses == {"verified", "historical", "unverified"}

-----------------------------------------------------------------------------
(* Reading JSON leniently: absent is fine, a present value of the wrong sort *)
(* is not.                                                                   *)

\* The value of the first of these names that is present.
FirstOf(object, names) ==
    LET here == {i \in DOMAIN names : names[i] \in DOMAIN object}
    IN  {object[names[i]] : i \in {j \in here : \A k \in here : j <= k}}

\* Flags pass over nulls.
FirstFlag(object, names) ==
    FirstOf([name \in {n \in DOMAIN object : object[n].sort # "null"} |-> object[name]], names)

IsU32(v) == v.sort = "integer" /\ v.of \in 0 .. MaxU32
IsText(v) == v.sort \in {"string", "null"}
U32(values) == {v.of : v \in {w \in values : IsU32(w)}}
Text(values) == Sorted(values, "string") \ {""}

\* A nested object, or one without names where it is absent or null.
Part(object, name) == OrElse(Sorted(Entries(object, name), "object"), <<>>)
IsPart(object, name) == \A v \in Entries(object, name) : v.sort \in {"object", "null"}

Contexts == {<<"n_ctx", "total_context">>, <<"n_ctx_per_seq", "n_ctx_slot">>}
Counts == Contexts \cup {<<"n_parallel", "n_slots">>}
Names == {<<"version">>, <<"build", "build_info">>, <<"model_alias", "model">>, <<"model_path">>,
          <<"chat_template">>, <<"eos_token">>}
Flags == {<<"supports_streaming", "streaming">>, <<"supports_tokenization", "tokenization">>,
          <<"supports_structured_output", "structured_output", "grammar">>}

\* slots: every is_processing that is there must be a flag.
SlotsRead(props) ==
    \A v \in Entries(props, "slots") :
        /\ v.sort = "array"
        /\ \A i \in DOMAIN v.of : \A busy \in Entries(v.of[i].of, "is_processing") :
             busy.sort = "bool"

\* A default is looked up in params, then in the settings themselves.
Preferred(settings, names) ==
    LET inner == FirstOf(Part(settings, "params"), names)
    IN  IF inner # {} THEN inner ELSE FirstOf(settings, names)

PenaltyKeys == <<"repeat_penalty", "repetition_penalty">>
LimitKeys == <<"n_predict", "max_tokens", "max_new_tokens">>

IsNumber(v) == v.sort \in {"integer", "float"}
IsI32(v) == v.sort = "integer" /\ v.of \in -MaxI32 - 1 .. MaxI32

\* parse_sampler_defaults
SamplersRead(settings) ==
    /\ IsPart(settings, "params")
    /\ \A name \in {"temperature", "top_p", "min_p"} :
         \A v \in Preferred(settings, <<name>>) : IsNumber(v)
    /\ \A v \in Preferred(settings, PenaltyKeys) : IsNumber(v)
    /\ \A v \in Preferred(settings, <<"top_k">>) : IsI32(v)
    /\ \A v \in Preferred(settings, <<"repeat_last_n">>) : v.sort = "integer"

\* A negative limit means that there is none.
LimitRead(settings) ==
    \A v \in Preferred(settings, LimitKeys) : IsU32(v) \/ (v.sort = "integer" /\ v.of < 0)

\* What the service says it does with a sampler that a request leaves to it.
DefaultKeys(field) == IF field = "repetition_penalty" THEN PenaltyKeys ELSE <<field>>
Defaults(settings) ==
    [field \in GenerationSettingField |->
        {IF field \in Fractions /\ v.sort = "integer" THEN 100 * v.of ELSE v.of
            : v \in Preferred(settings, DefaultKeys(field))}]
Unsaid == [field \in GenerationSettingField |-> {}]

\* The name under which the service itself spells the repetition penalty.
WireKey(settings) ==
    LET params == Part(settings, "params")
        has(object) == {i \in DOMAIN PenaltyKeys : PenaltyKeys[i] \in DOMAIN object}
        from == IF has(params) # {} THEN has(params) ELSE has(settings)
    IN  {PenaltyKeys[i] : i \in {j \in from : \A k \in from : j <= k}}

-----------------------------------------------------------------------------
(* BackendRuntimeInfo: eos is a false end token, and bias the same token once *)
(* its id is known.                                                          *)

Unverified(backend) ==
    [backend |-> backend, status |-> "unverified", model |-> {}, total |-> {}, slot |-> {},
     limit |-> {}, defaults |-> Unsaid, wire |-> {}, eos |-> {}, bias |-> {}]

\* from_llama_cpp_props: omission is not an error.
PropsRead(props) ==
    /\ \A names \in Names : \A v \in FirstOf(props, names) : IsText(v)
    /\ \A names \in Counts : \A v \in FirstOf(props, names) : IsU32(v)
    /\ \A names \in Flags : \A v \in FirstFlag(props, names) : v.sort = "bool"
    /\ SlotsRead(props)
    /\ IsPart(props, "default_generation_settings")
    /\ SamplersRead(Part(props, "default_generation_settings"))
    /\ LimitRead(Part(props, "default_generation_settings"))

\* An end token that contradicts a template with control markers is not one.
FalseEos(props) ==
    {token \in Text(Entries(props, "eos_token")) :
        token \in Punctuation /\ Sorted(Entries(props, "chat_template"), "string") \cap Marked # {}}

FromProps(props, status) ==
    LET settings == Part(props, "default_generation_settings")
    IN  [backend |-> "llama_cpp", status |-> status,
         model |-> Text(FirstOf(props, <<"model_alias", "model">>)),
         total |-> U32(FirstOf(props, <<"n_ctx", "total_context">>)),
         slot |-> U32(FirstOf(props, <<"n_ctx_per_seq", "n_ctx_slot">>)),
         limit |-> U32(Preferred(settings, LimitKeys)), defaults |-> Defaults(settings),
         wire |-> WireKey(settings), eos |-> FalseEos(props), bias |-> {}]

\* The id of the first entry that has one; it must not be empty.
ServedModel(models) ==
    LET data == OrElse(Sorted(Entries(models, "data"), "array"), <<>>)
        named == {i \in DOMAIN data : Sorted(Entries(data[i].of, "id"), "string") # {}}
    IN  UNION {Text(Entries(data[i].of, "id")) : i \in {j \in named : \A k \in named : j <= k}}

FromModels(backend, models, status) ==
    [backend |-> backend, status |-> status, model |-> ServedModel(models), total |-> {},
     slot |-> {}, limit |-> {}, defaults |-> Unsaid, wire |-> {}, eos |-> {}, bias |-> {}]

\* historical_observation: no header at all, or exactly one of each, of the past.
Live(reply) == reply.markers = <<>> /\ reply.observed = <<>>
Historical(reply) ==
    /\ reply.markers = <<"historical">>
    /\ Len(reply.observed) = 1
    /\ \A v \in {reply.observed[1]} : v.sort = "integer" /\ 0 < v.of /\ v.of <= Now

\* fetch_backend_runtime up to the tokenizer: every failure is an honest unknown.
Heard(backend, reply) ==
    LET status == IF Live(reply) THEN "verified" ELSE "historical"
        usable == /\ reply.way = "answer" /\ reply.body.sort = "object"
                  /\ Live(reply) \/ Historical(reply)
    IN  CASE usable /\ backend = "llama_cpp" /\ PropsRead(reply.body.of) ->
               FromProps(reply.body.of, status)
          [] usable /\ backend # "llama_cpp" /\ ServedModel(reply.body.of) # {} ->
               FromModels(backend, reply.body.of, status)
          [] OTHER -> Unverified(backend)

\* llama_cpp_false_eos_token_id found the one token to suppress, or did not: history
\* without it is no evidence.
Resolved(info, found) ==
    CASE found -> [info EXCEPT !.bias = info.eos]
      [] ~found /\ info.status = "historical" -> Unverified(info.backend)
      [] OTHER -> info

\* What comes of an answer in the end.
Outcomes(info) ==
    IF info.eos = {} THEN {info} ELSE {Resolved(info, found) : found \in BOOLEAN}

-----------------------------------------------------------------------------
(* preflight_warnings and backend_preflight_report. *)

Expected(backend) ==
    CASE backend = "llama_cpp" -> {"repeat_penalty"}
      [] backend = "vllm" -> {"repetition_penalty"}
      [] OTHER -> {}

Warnings(toml, profile, info) ==
    IF info.status = "unverified" THEN {"unverified"}
    ELSE (IF info.status = "historical" THEN {"historical"} ELSE {})
         \cup (IF info.total \subseteq {TotalContext(toml)} THEN {} ELSE {"total context"})
         \cup (IF info.slot \subseteq {PerRequestContext(toml)} THEN {} ELSE {"slot context"})
         \cup (IF Model(toml) = {} \/ info.model \subseteq Model(toml) THEN {} ELSE {"model"})
         \cup (IF Model(toml) # {} \/ profile = "generic" \/ info.model \subseteq Aliases[profile]
                 THEN {} ELSE {"profile"})
         \cup (IF Expected(Backend(toml)) = {} \/ info.wire \subseteq Expected(Backend(toml))
                 THEN {} ELSE {"wire key"})

Kinds == {"unverified", "historical", "total context", "slot context", "model", "profile", "wire key"}

\* What a strict preflight refuses.
Doubtful(info, warnings) == info.status # "verified" \/ info.model = {} \/ warnings # {}

-----------------------------------------------------------------------------
(* The limits the planner goes by: facts of another adapter are passed over. *)

Relevant(toml, facts) == {info \in facts : info.backend = Backend(toml)}

\* Mutant of Capped: only what was told live is a limit.
LiveCapped(info, told, cautious) ==
    CASE info.status = "unverified" -> {cautious}
      [] info.status = "historical" -> {}
      [] OTHER -> told

Capped(info, told, cautious) == IF info.status = "unverified" THEN {cautious} ELSE told

ResolvedPerRequestContext(toml, facts) ==
    Least(PerRequestContext(toml),
          UNION {Capped(info, info.slot, 4096) : info \in Relevant(toml, facts)})

ResolvedMaxOutputTokens(toml, facts) ==
    Least(MaxOutputTokens(toml),
          UNION {Capped(info, info.limit, 1024) : info \in Relevant(toml, facts)})
=============================================================================
