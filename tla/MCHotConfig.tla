---------------------------- MODULE MCHotConfig ----------------------------
(* Small instances of HotConfig for TLC. *)
EXTENDS HotConfig, TLC

CONSTANTS bot, cli, run, look, own, pass, near, far

\* One process that translates while another thread records a claim.
OneProcess == {bot}
TranslatorAndClaim == {run, own}
TranslatorHome == [t \in TranslatorAndClaim |-> bot]
TranslatorJob == (run :> "translate") @@ (own :> "claim")

\* One process that only looks for changes of the file.
OnlyWatch == {look}
WatchHome == look :> bot
WatchJob == look :> "watch"

\* The bot records a claim while the command line replaces the password.
BotAndCli == {bot, cli}
ClaimAndRegenerate == {own, pass}
ClaimHome == (own :> bot) @@ (pass :> cli)
ClaimJob == (own :> "claim") @@ (pass :> "regenerate")

TwoEndpoints == {near, far}
TwoProfiles == {"generic", "hy_mt2_7b"}
KnownNames == ("generic" :> {}) @@ ("hy_mt2_7b" :> {"hy-mt2-7b", "hy-mt2-7b-gguf"})
OneMark == {"."}
OneTemplate == {"<|user|>"}

-----------------------------------------------------------------------------
(* Texts of the file. *)

Float(n) == Scalar("float", n)

\* llama.cpp with two slots: each request is given half of the context.
Slotted == ("endpoint.backend" :> Words("llama_cpp")) @@ ("endpoint.profile" :> Words("hy_mt2_7b"))
           @@ ("backend.total_context" :> Integer(16384)) @@ ("backend.parallel_slots" :> Integer(2))
           @@ ("inference.override.top_k" :> Integer(20))
\* vLLM with a named model and the context in its legacy place.
Named == ("endpoint.backend" :> Words("vllm")) @@ ("endpoint.model" :> Words("hy-mt2-7b"))
         @@ ("translation.context_window" :> Integer(16384)) @@ ("inference.top_p" :> Float(60))
\* A request is given more than its slot: this does not load.
Greedy == ("endpoint.backend" :> Words("llama_cpp")) @@ ("backend.total_context" :> Integer(16384))
          @@ ("backend.parallel_slots" :> Integer(2)) @@ ("backend.per_request_context" :> Integer(9000))

\* Slotted with a limit of its own, and with every sampler named.
Brief == ("translation.max_output_tokens" :> Integer(512)) @@ Slotted
Exact == [field \in {"inference.override." \o f : f \in GenerationSettingField} |-> Words("disabled")]
         @@ Slotted

SomeTomls == {Slotted, Brief, Exact, Greedy}
SomeSettings == {[endpoint |-> near, strict |-> FALSE, toml |-> Slotted],
                 [endpoint |-> far, strict |-> TRUE, toml |-> Slotted],
                 [endpoint |-> far, strict |-> FALSE, toml |-> Greedy]}

-----------------------------------------------------------------------------
(* Replies. *)

Json(object) == Scalar("object", object)
Reply(body) == [way |-> "answer", body |-> body, markers |-> <<>>, observed |-> <<>>]
FromCache(body, time) == [Reply(body) EXCEPT !.markers = <<"historical">>, !.observed = <<Integer(time)>>]
Down == [Reply(Json(<<>>)) EXCEPT !.way = "error"]

Inner == ("temperature" :> Float(70)) @@ ("top_p" :> Integer(1)) @@ ("top_k" :> Integer(40))
         @@ ("min_p" :> Float(5)) @@ ("repeat_last_n" :> Integer(64))
Settled == ("n_predict" :> Integer(2048)) @@ ("repeat_penalty" :> Float(105)) @@ ("params" :> Json(Inner))
\* A server that does what Slotted expects, but has a false end token.
Matching == ("model_alias" :> Words("hy-mt2-7b")) @@ ("n_ctx" :> Integer(16384))
            @@ ("n_ctx_per_seq" :> Integer(8192)) @@ ("eos_token" :> Words("."))
            @@ ("chat_template" :> Words("<|user|>"))
            @@ ("default_generation_settings" :> Json(Settled))
\* One that was started with more slots.
Crowded == [Matching EXCEPT !["n_ctx_per_seq"] = Integer(4000), !["eos_token"] = Words("end")]
\* One whose context is not a whole number.
Garbled == [Crowded EXCEPT !["n_ctx"] = Float(819250)]
Listing == "data" :> Scalar("array", <<Json("id" :> Words("hy-mt2-7b"))>>)

SomeReplies == (<<near, "llama_cpp">> :> {FromCache(Json(Crowded), 5)})
           @@ (<<far, "llama_cpp">> :> {Reply(Json(Matching)), FromCache(Json(Matching), 5)})
           @@ (<<far, "vllm">> :> {Reply(Json(Listing))})
           @@ [e \in TwoEndpoints \X Adapters |-> {Down}]

-----------------------------------------------------------------------------
(* Texts to translate. *)

Order(template, opts, policy) ==
    [source |-> "text", target |-> "zh", template |-> template, policy |-> policy,
     opts |-> [name \in {"terms", "style", "instructions", "format_type", "context"} |->
                  IF name \in DOMAIN opts THEN {opts[name]} ELSE {}]]
SomeOrders == {Order("style", "style" :> "terse", {}), Order("style", "style" :> "ornate", {})}

-----------------------------------------------------------------------------
(* What load_from_disk and the probe reject, case by case. *)

With1(toml, key, value) == (key :> value) @@ toml
ASSUME LoadingAssumption ==
    /\ Opens(Slotted) /\ Opens(Named) /\ ~Loads(Greedy) /\ Opens(<<>>)
    /\ ~Loads(With1(Slotted, "backend.parallel_slots", Integer(0)))
    /\ ~Loads(With1(Slotted, "backend.parallel_slots", Words("2")))
    /\ ~Loads(With1(Slotted, "inference.override.temperature", Float(201)))
    /\ ~Loads(With1(Slotted, "inference.override.temperature", Words("disabled")))
    /\ Loads(With1(Named, "inference.override.top_p", Words("disabled")))
    /\ ~Loads(With1(Named, "inference.override.repeat_last_n", Integer(64)))
    /\ Loads(With1(Slotted, "endpoint.profile", Words("unknown")))
    /\ ~Opens(With1(Slotted, "endpoint.profile", Words("unknown")))

ASSUME ProbingAssumption ==
    /\ Heard("llama_cpp", FromCache(Json(Matching), Now + 1)).status = "unverified"
    /\ Heard("llama_cpp", Reply(Json(Garbled))).status = "unverified"
    /\ Heard("vllm", Reply(Json(Crowded))).status = "unverified"
    /\ Heard("llama_cpp", Reply(Json(Crowded))).slot = {4000}
    /\ Heard("llama_cpp", Reply(Json(Crowded))).wire = {"repeat_penalty"}
=============================================================================
