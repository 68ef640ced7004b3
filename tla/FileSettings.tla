----------------------------- MODULE FileSettings -----------------------------
(***************************************************************************)
(* What hymt-core/src/config.rs reads out of config.toml for the backend:  *)
(* when a text loads, which adapter, profile and context it configures,    *)
(* and which generation overrides.                                         *)
(*                                                                         *)
(* A TOML table is a function from dotted names to values, each with the   *)
(* sort it was written in; a name without a dot stands for a scalar where  *)
(* a section belongs.  An optional result is a set of at most one element. *)
(* Numbers that may have a fraction are counted in hundredths.             *)
(***************************************************************************)
EXTENDS Integers, Sequences

CONSTANTS
    MaxU32,    \* u32::MAX
    MaxI32,    \* i32::MAX
    Profiles   \* names of model profiles, "generic" among them

ASSUME WidthAssumption == MaxU32 \in Nat /\ MaxI32 \in Nat
ASSUME ProfilesAssumption == "generic" \in Profiles

Adapters == {"llama_cpp", "vllm", "openai_compatible"}

Scalar(sort, of) == [sort |-> sort, of |-> of]
Integer(n) == Scalar("integer", n)
Words(w) == Scalar("string", w)

Entries(table, key) == IF key \in DOMAIN table THEN {table[key]} ELSE {}
Sorted(values, sort) == {v.of : v \in {w \in values : w.sort = sort}}
OrElse(option, default) == IF option = {} THEN default ELSE CHOOSE x \in option : TRUE
Least(n, option) == LET m == OrElse(option, n) IN IF m < n THEN m ELSE n

-----------------------------------------------------------------------------
(* Getters: a value of another sort counts as absent. *)

PositiveU32(toml, key, default) ==
    OrElse({n \in Sorted(Entries(toml, key), "integer") : n \in 1 .. MaxU32}, default)

ContextWindow(toml) == PositiveU32(toml, "translation.context_window", 16384)
TotalContext(toml) == PositiveU32(toml, "backend.total_context", ContextWindow(toml))
ParallelSlots(toml) == PositiveU32(toml, "backend.parallel_slots", 1)
MaxOutputTokens(toml) == PositiveU32(toml, "translation.max_output_tokens", 4096)

CompletenessMaxRetries(toml) ==
    OrElse({n \in Sorted(Entries(toml, "completeness.max_retries"), "integer") : n \in 0 .. MaxU32}, 2)

Flag(toml, key, default) == OrElse(Sorted(Entries(toml, key), "bool"), default)
DocumentTranslationPolicy(toml) ==
    IF Flag(toml, "translation.force_translate_all", FALSE)
       \/ ~Flag(toml, "translation.language_detection", TRUE)
      THEN "TranslateAll" ELSE "SkipTarget"

\* An explicit value wins; as u32 it is cut to its width.
PerRequestContext(toml) ==
    LET explicit == {n \in Sorted(Entries(toml, "backend.per_request_context"), "integer") : n > 0}
    IN  OrElse({n % (MaxU32 + 1) : n \in explicit}, TotalContext(toml) \div ParallelSlots(toml))

Model(toml) == Sorted(Entries(toml, "endpoint.model"), "string") \ {""}

Backend(toml) ==
    OrElse(Sorted(Entries(toml, "endpoint.backend"), "string") \cap Adapters, "openai_compatible")
Profile(toml) ==
    OrElse(Sorted(Entries(toml, "endpoint.profile"), "string") \cap Profiles, "generic")

-----------------------------------------------------------------------------
(* Generation overrides: left to the server, disabled, or given a value. *)

Fractions == {"temperature", "top_p", "repetition_penalty", "min_p"}
Wholes == {"top_k", "repeat_last_n"}
GenerationSettingField == Fractions \cup Wholes

Server == Scalar("server", 0)
Disabled == Scalar("disabled", 0)
Given(n) == Scalar("value", n)

\* inference_value: the override wins over the legacy scalar.
InferenceValue(toml, key) ==
    LET override == Entries(toml, "inference.override." \o key)
    IN  IF override # {} THEN override ELSE Entries(toml, "inference." \o key)

\* parse_f64_setting, parse_i32_setting and parse_i64_setting; {} is the error, and a
\* number that is not finite counts as one, since it never validates.
Parsed(field, v) ==
    CASE v.sort = "string" /\ v.of = "disabled" -> {Disabled}
      [] v.sort = "integer" /\ field \in Fractions -> {Given(100 * v.of)}
      [] v.sort = "integer" /\ field \in Wholes ->
           IF field = "top_k" /\ v.of \notin -MaxI32 - 1 .. MaxI32 THEN {} ELSE {Given(v.of)}
      [] v.sort = "float" /\ field \in Fractions -> {Given(v.of)}
      [] OTHER -> {}

Override(toml, field) ==
    LET said == InferenceValue(toml, field)
    IN  IF said = {} THEN {Server} ELSE UNION {Parsed(field, v) : v \in said}

GenerationSettings(toml) == [field \in GenerationSettingField |-> OrElse(Override(toml, field), Server)]

Explicit(settings, field) == settings[field] # Server
Valued(settings, field) == settings[field].sort = "value"

InRange(settings, field, low, high) ==
    Valued(settings, field) => low <= settings[field].of /\ settings[field].of <= high

ValidSettings(settings) ==
    /\ InRange(settings, "temperature", 0, 200)
    /\ InRange(settings, "top_p", 0, 100)
    /\ InRange(settings, "min_p", 0, 100)
    /\ Valued(settings, "repetition_penalty") => settings["repetition_penalty"].of > 0
    /\ \A field \in Wholes : Valued(settings, field) => settings[field].of >= -1
    /\ settings["temperature"] = Disabled =>
         \A field \in {"top_p", "top_k", "min_p"} : ~Valued(settings, field)
    /\ settings["repetition_penalty"] = Disabled => ~Valued(settings, "repeat_last_n")

Capabilities(backend) ==
    CASE backend = "llama_cpp" -> GenerationSettingField
      [] backend = "vllm" -> GenerationSettingField \ {"repeat_last_n"}
      [] OTHER -> {"temperature", "top_p"}

-----------------------------------------------------------------------------
(* What makes load_from_disk reject a text. *)

Tables(toml) ==
    {"completeness", "backend", "inference", "inference.override", "endpoint"} \cap DOMAIN toml = {}

ContextKeys == {"backend.total_context", "backend.parallel_slots", "backend.per_request_context"}

\* validate_backend_context
ValidContext(toml) ==
    /\ \A key \in ContextKeys : \A v \in Entries(toml, key) :
         v.sort = "integer" /\ v.of \in 1 .. MaxU32
    /\ ParallelSlots(toml) <= TotalContext(toml)
    /\ \A n \in Sorted(Entries(toml, "backend.per_request_context"), "integer") :
         n <= TotalContext(toml) \div ParallelSlots(toml)

ValidBackend(toml) ==
    /\ "inference.backend" \notin DOMAIN toml
    /\ \A v \in Entries(toml, "endpoint.backend") : v.sort = "string" /\ v.of \in Adapters

Loads(toml) ==
    LET settings == GenerationSettings(toml)
    IN  /\ Tables(toml)
        /\ \A v \in Entries(toml, "completeness.warn_only") : v.sort = "bool"
        /\ ValidContext(toml)
        /\ \A field \in GenerationSettingField : Override(toml, field) # {}
        /\ ValidSettings(settings)
        /\ ValidBackend(toml)
        /\ \A field \in GenerationSettingField :
             Explicit(settings, field) => field \in Capabilities(Backend(toml))

\* The first load also fixes the profile; later ones do not look at it again.
Opens(toml) ==
    /\ Loads(toml)
    /\ \A v \in Entries(toml, "endpoint.profile") : v.sort = "string" /\ v.of \in Profiles
=============================================================================
