------------------------- MODULE BufferedTranslation -------------------------
(***************************************************************************)
(* translate_text (crates/hymt-translate/src/translate.rs): the whole      *)
(* translation of one text by a process, over the history database.  First *)
(* a proven earlier run is looked for, then the backend is asked what it   *)
(* is, then the segments are looked up, the missing ones translated,       *)
(* paragraphs with a failed piece put back, and the rest is stored.        *)
(*                                                                         *)
(* A text is the sequence of its segments.  A translated segment is a      *)
(* record that names its source and the process whose request made it; a   *)
(* retained one is the source itself.  How a segment is requested, retried *)
(* and judged is SegmentRequest; how texts are cut and joined is           *)
(* DocumentPlan and DocumentOutput.                                        *)
(***************************************************************************)
EXTENDS HistoryDB

CONSTANTS
    Jobs,       \* the commands the processes run: see JobsAssumption
    Outcomes,   \* what a segment may end with: "first", "revised", "kept", "error"
    Piece       \* segments per paragraph

Kinds == {"text", "batch", "doc", "man", "info", "exec", "precache", "clear", "recall", "estimate"}
CacheUses == {"off", "on", "refresh", "none"}   \* none: --no-cache

\* plan: --plan or --dry-run; lang: --lang; warn: --warn-only-completeness;
\* output: --output; original: man and info without a translation; file: the
\* path given to translate-doc is a file, not a directory.
Options == {"plan", "lang", "warn", "output", "original", "file"}

ASSUME JobsAssumption ==
    \A commands \in Jobs : \A p \in Processes :
        /\ commands[p].kind \in Kinds
        /\ commands[p].cache \in CacheUses
        /\ commands[p].strict \in BOOLEAN
        /\ commands[p].options \subseteq Options
ASSUME OutcomesAssumption == Outcomes \subseteq {"first", "revised", "kept", "error"}
ASSUME PieceAssumption == Piece \in Nat \ {0}

VARIABLES
    job,       \* the command each process runs
    runtime,   \* what its own client knows of the backend: see Knowledge
    tr         \* the translation it has under way

translation == <<job, runtime, tr>>

Knowledge == {"unknown", "verified", "unverified"}

\* known: what the client of this one text, bound to a snapshot, knows of the backend.
NoWork == [at |-> "off", source |-> <<>>, lang |-> NoText, known |-> "unknown", next |-> 0,
           out |-> <<>>, keep |-> {}, proof |-> FALSE]

\* What a translation may read and write of the caches: TranslationCtx.
Writes(p) ==
    job[p].cache # "none" /\ (job[p].cache \in {"on", "refresh"} \/ job[p].kind = "precache")
Reads(p) == Writes(p) /\ job[p].cache # "refresh"

\* The client has put the preflight off until a replay has missed.
Deferred(p) == job[p].cache = "on"

Translated(segment, lang, p) == [of |-> segment, in |-> lang, by |-> p]
IsText(text) == text \in Seq(Range(text))

\* Rows and tasks are filed under a text and the language it is wanted in.
Key(text, lang) == [of |-> text, in |-> lang]
Paragraph(i) == (i - 1) \div Piece
Ends(p, at) == tr' = [tr EXCEPT ![p].at = at]
Asks(p, op, key, text) == call' = [call EXCEPT ![p] = Calling(op, key, text)]

Least(S) == CHOOSE i \in S : \A j \in S : i <= j

TranslationInit ==
    /\ job \in Jobs
    /\ runtime = [p \in Processes |-> "unknown"]
    /\ tr = [p \in Processes |-> NoWork]

-----------------------------------------------------------------------------
\* The step of the caller: replay is tried when the caches may be read.
Translate(p, text, lang) ==
    /\ tr' = [tr EXCEPT ![p] = [NoWork EXCEPT !.source = text, !.lang = lang,
                !.out = [i \in DOMAIN text |-> NoText],
                !.at = IF text = <<>> THEN "done" ELSE IF Reads(p) THEN "replay" ELSE "prepare"]]
    /\ IF text # <<>> /\ Reads(p)
       THEN Asks(p, "replay", Key(text, lang), NoText)
       ELSE UNCHANGED call

\* offline_replay::find_replay, then Replay::finish: the answer is recorded
\* as a task of its own, without a proof.
Replay(p) ==
    /\ tr[p].at = "replay"
    /\ call[p].at = "answered"
    /\ IF call[p].found = NoText
       THEN Ends(p, "prepare") /\ UNCHANGED call
       ELSE /\ tr' = [tr EXCEPT ![p].at = "record", ![p].out = call[p].found]
            /\ Asks(p, "insert", Key(tr[p].source, tr[p].lang), call[p].found)
    /\ UNCHANGED <<job, runtime>>

\* preflight_backend: fail-open unless the configuration is strict.
Told(p) == IF job[p].strict THEN {"verified"} ELSE {"verified", "unverified"}
Preflight(p) == \E known \in Told(p) : runtime' = [runtime EXCEPT ![p] = known]

\* A preflight is owed by a strict client, and by one that has put it off.
Owes(p) == (job[p].strict \/ Deferred(p)) /\ runtime[p] = "unknown"

\* The segments are looked up only under a verified identity.
Looks(p, known) == Reads(p) /\ known = "verified"

\* A forecast is asked for when no segment was found and the identity is known.
Forecast(p, out, known) ==
    IF known = "verified" /\ \A i \in DOMAIN out : out[i] = NoText
    THEN /\ tr' = [tr EXCEPT ![p].known = known, ![p].out = out, ![p].at = "estimate"]
         /\ Asks(p, "estimate", NoText, NoText)
    ELSE /\ tr' = [tr EXCEPT ![p].known = known, ![p].out = out, ![p].at = "generate"]
         /\ UNCHANGED call

Onward(p, known) ==
    IF Looks(p, known)
    THEN /\ tr' = [tr EXCEPT ![p].known = known, ![p].at = "lookup", ![p].next = 1]
         /\ Asks(p, "find", Key(tr[p].source[1], tr[p].lang), NoText)
    ELSE Forecast(p, tr[p].out, known)

\* prepare_invocation, and the plan. A preflight that is still owed is made on
\* the snapshot: the next text of the process owes it again.
Prepare(p) ==
    /\ tr[p].at = "prepare"
    /\ IF Owes(p)
       THEN \/ \E known \in Told(p) : Onward(p, known)
            \/ job[p].strict /\ Ends(p, "failed") /\ UNCHANGED call
       ELSE Onward(p, runtime[p])
    /\ UNCHANGED <<job, runtime>>

\* Phase 1: one look-up per segment. A failed one counts as a miss.
Lookup(p) ==
    /\ tr[p].at = "lookup"
    /\ call[p].at = "answered"
    /\ LET i == tr[p].next
           out == [tr[p].out EXCEPT ![i] = call[p].found]
       IN  IF i = Len(tr[p].source)
           THEN Forecast(p, out, tr[p].known)
           ELSE /\ tr' = [tr EXCEPT ![p].out = out, ![p].next = i + 1]
                /\ Asks(p, "find", Key(tr[p].source[i + 1], tr[p].lang), NoText)
    /\ UNCHANGED <<job, runtime>>

Estimated(p) ==
    /\ tr[p].at = "estimate"
    /\ call[p].at = "answered"
    /\ Ends(p, "generate")
    /\ UNCHANGED <<call, job, runtime>>

-----------------------------------------------------------------------------
\* Mutant: only the pieces that failed themselves are kept out of the cache.
CarelessCandidates(p, ends) == {i \in DOMAIN ends : ends[i] # "kept"}

\* retained_original::finalize: a piece that failed takes its paragraph with it.
Retained(ends) == {Paragraph(i) : i \in {j \in DOMAIN ends : ends[j] = "kept"}}
Candidates(p, ends) == {i \in DOMAIN ends : Paragraph(i) \notin Retained(ends)}

Store(p, out, keep) ==
    LET filed(text) == Key(text, tr[p].lang)
    IN  IF keep = {} THEN Asks(p, IF tr'[p].proof THEN "prove" ELSE "insert", filed(tr[p].source), out)
        ELSE Asks(p, "store", filed(tr[p].source[Least(keep)]), out[Least(keep)])

\* Phase 2 and the reconstruction. The missing segments run as tasks of their
\* own; the first error ends them all, and nothing has been stored.
Generate(p) ==
    /\ tr[p].at = "generate"
    /\ LET missing == {i \in DOMAIN tr[p].out : tr[p].out[i] = NoText}
       IN \E ends \in [missing -> Outcomes] :
            IF \E i \in missing : ends[i] = "error"
            THEN Ends(p, "failed") /\ UNCHANGED call
            ELSE LET lost == Retained(ends)
                     out == [i \in DOMAIN tr[p].out |->
                               IF Paragraph(i) \in lost THEN tr[p].source[i]
                               ELSE IF i \in missing THEN Translated(tr[p].source[i], tr[p].lang, p)
                               ELSE tr[p].out[i]]
                     may == Writes(p) /\ tr[p].known = "verified"
                     keep == IF may THEN Candidates(p, ends) ELSE {}
                 IN /\ tr' = [tr EXCEPT ![p].out = out, ![p].keep = keep,
                                ![p].at = IF keep = {} THEN "record" ELSE "store",
                                ![p].proof = /\ may
                                             /\ missing = DOMAIN out
                                             /\ \A i \in missing : ends[i] = "first"]
                    /\ Store(p, out, keep)
    /\ UNCHANGED <<job, runtime>>

\* Phase 3: one row per accepted segment, then the task. Errors are warnings.
StoreNext(p) ==
    /\ tr[p].at = "store"
    /\ call[p].at = "answered"
    /\ LET left == tr[p].keep \ {Least(tr[p].keep)}
       IN  /\ tr' = [tr EXCEPT ![p].keep = left, ![p].at = IF left = {} THEN "record" ELSE "store"]
           /\ Store(p, tr[p].out, left)
    /\ UNCHANGED <<job, runtime>>

Record(p) ==
    /\ tr[p].at = "record"
    /\ call[p].at = "answered"
    /\ Ends(p, "done")
    /\ call' = [call EXCEPT ![p] = NoCall]
    /\ UNCHANGED <<job, runtime>>

TranslationStep(p) ==
    \/ Replay(p) \/ Prepare(p) \/ Lookup(p) \/ Estimated(p)
    \/ Generate(p) \/ StoreNext(p) \/ Record(p)

=============================================================================
