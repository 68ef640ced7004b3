--------------------------- MODULE StreamPipeline ---------------------------
(***************************************************************************)
(* One streaming translation: crates/hymt-translate/src/translate.rs,      *)
(* translate_text_stream_with_mode and everything it runs.                 *)
(*                                                                         *)
(* A document is a plan of N segments.  Every segment that the cache does  *)
(* not answer is translated by a task of its own; the tasks report through *)
(* one bounded channel to the coordinator, which puts the results back in  *)
(* document order, publishes them to a bounded event channel, and persists *)
(* caches, the task row and its replay proof only after the last event.    *)
(* A consumer reads the events and may drop the channel at any moment.     *)
(*                                                                         *)
(* Text is abstracted to its provenance: a text is the sequence of the     *)
(* attempts that produced its units, Original (0) for the source text.     *)
(* Literal sections and newlines between segments are not represented.     *)
(***************************************************************************)
EXTENDS Naturals, Sequences, FiniteSets, SequencesExt

CONSTANTS
    N,            \* segments of the plan
    Owner,        \* source paragraph that owns each segment
    Modes,        \* output modes under study
    WarnOnly,     \* settings of warn_only under study
    Policies,     \* cache policies under study: "off", "refresh", "on"
    MaxTokens,    \* bound on the tokens of one attempt
    MaxRetries,   \* completeness_max_retries of the config
    MaxRestarts,  \* bound on replays of a broken stream body
    ProgressCap,  \* capacity of the progress channel
    StreamCap,    \* capacity of the event channel
    MaxRuns,      \* bound on invocations over one history database
    NoText        \* absence of a stored text

Seg == 0 .. N - 1

Original == 0
Source == <<Original>>

ASSUME NAssumption == N \in Nat \ {0}
ASSUME OwnerAssumption ==
    /\ Owner \in [Seg -> Nat]
    /\ \A i, j \in Seg : i <= j => Owner[i] <= Owner[j]
ASSUME ModesAssumption == Modes \subseteq {"Validated", "Paragraph", "Optimistic"}
ASSUME WarnOnlyAssumption == WarnOnly \subseteq BOOLEAN
ASSUME PoliciesAssumption == Policies \subseteq {"off", "refresh", "on"}
ASSUME BoundsAssumption ==
    /\ MaxTokens \in Nat /\ MaxRetries \in Nat /\ MaxRestarts \in Nat
    /\ ProgressCap \in Nat \ {0} /\ StreamCap \in Nat \ {0} /\ MaxRuns \in Nat
ASSUME NoTextAssumption == NoText \notin Seq(Nat)

VARIABLES
    job,        \* mode, warnOnly and cache policy of the current invocation
    task,       \* per segment: the spawned task and its current attempt
    progress,   \* the progress channel, oldest first
    mpc,        \* where the coordinator is
    got,        \* segments whose translation is some
    text,       \* translations of the segments in got
    pending,    \* Optimistic: drafted units not yet published
    published,  \* Optimistic: a draft of the segment has been published
    next,       \* cached_prefix_len: the next segment to publish
    remaining,  \* chunks held back behind the priority chunk
    missing,    \* segments the cache did not answer
    para,       \* ParagraphStream: next, end, ready, degraded owners
    degraded,   \* degraded_segments
    candidates, \* cache_candidates still to be stored
    provable,   \* proof_eligible
    outbox,     \* events the coordinator is about to send, in order
    sent,       \* every event sent in this invocation
    backlog,    \* events sent and not yet received
    open,       \* the consumer still holds the receiver
    cache,      \* segment_cache: one row per segment or NoText
    proof,      \* output text of the newest provable task row, or NoText
    runs        \* invocations started

runVars == <<job, task, progress, mpc, got, text, pending, published, next,
             remaining, missing, para, degraded, candidates, provable>>
chanVars == <<outbox, sent, backlog, open>>
store == <<cache, proof>>
vars == <<runVars, chanVars, store, runs>>

Jobs == [mode : Modes, warnOnly : WarnOnly, policy : Policies]
Texts == Seq(Nat)
Event == [kind : {"token", "done", "all"}, segs : SUBSET Seg, text : [Seg -> Texts]]

Idle == [pc |-> "idle", attempt |-> 1, left |-> MaxRetries,
         draft |-> <<>>, verdict |-> "none"]
Blank == [i \in Seg |-> <<>>]
NoParagraph == [next |-> 0, end |-> 0, ready |-> 0, degraded |-> {}]

\* The local state of an invocation, before its first step and after its last.
Forgotten ==
    /\ task' = [i \in Seg |-> Idle]
    /\ progress' = <<>> /\ outbox' = <<>>
    /\ got' = {} /\ missing' = {} /\ remaining' = {} /\ published' = {}
    /\ text' = Blank /\ pending' = Blank
    /\ next' = 0
    /\ para' = NoParagraph
    /\ degraded' = {} /\ candidates' = {}
    /\ provable' = FALSE

Init ==
    /\ job \in Jobs
    /\ task = [i \in Seg |-> Idle]
    /\ progress = <<>>
    /\ mpc = "start"
    /\ got = {} /\ missing = {} /\ remaining = {} /\ published = {}
    /\ text = Blank
    /\ pending = Blank
    /\ next = 0
    /\ para = NoParagraph
    /\ degraded = {} /\ candidates = {}
    /\ provable = FALSE
    /\ outbox = <<>> /\ sent = <<>> /\ backlog = 0 /\ open = TRUE
    /\ cache \in [Seg -> {NoText, <<1>>}]
    /\ proof = NoText
    /\ runs = 1

-----------------------------------------------------------------------------
(* Events. *)

Token(S, t) == [kind |-> "token", segs |-> S,
                text |-> [i \in Seg |-> IF i \in S THEN t[i] ELSE <<>>]]
Done(i) == [kind |-> "done", segs |-> {i}, text |-> Blank]
AllDone(t) == [kind |-> "all", segs |-> Seg, text |-> t]

\* flush_ready_stream_prefix: an empty text sends no token, only its mark.
Piece(i, t) == IF t[i] = <<>> THEN <<Done(i)>> ELSE <<Token({i}, t), Done(i)>>

Optimistic == job.mode = "Optimistic"
Reads == job.policy = "on"
Writes == job.policy # "off"

\* Event sends, awaits of the coordinator and the consumer's own steps happen
\* only while the invocation is alive.
Live == mpc \notin {"done", "failed"}

\* The coordinator runs its own code only when its sends have gone out.
At(pc) == mpc = pc /\ outbox = <<>>

-----------------------------------------------------------------------------
(* The segment tasks: translate_segment_with_completeness_streaming. *)

Put(i, kind, t, v) ==
    /\ Len(progress) < ProgressCap
    /\ progress' = Append(progress, [kind |-> kind, seg |-> i, text |-> t, verdict |-> v])

TaskOnly == UNCHANGED <<job, mpc, got, text, pending, published, next, remaining,
                        missing, para, degraded, candidates, provable, chanVars,
                        store, runs>>

\* A content token of the stream goes to the coordinator as it arrives.
StreamToken(i) ==
    /\ task[i].pc = "stream"
    /\ Len(task[i].draft) < MaxTokens
    /\ Put(i, "token", <<task[i].attempt>>, "none")
    /\ task' = [task EXCEPT ![i].draft = Append(@, task[i].attempt)]
    /\ TaskOnly

\* The client reconnects a broken body; Optimistic only before any content.
StreamRestarted(i) ==
    /\ task[i].pc = "stream"
    /\ task[i].attempt <= MaxRestarts
    /\ Optimistic => task[i].draft = <<>>
    /\ task' = [task EXCEPT ![i].draft = <<>>, ![i].attempt = @ + 1]
    /\ UNCHANGED progress
    /\ TaskOnly

Verdict(i, v, t) ==
    task' = [task EXCEPT ![i] = [Idle EXCEPT !.pc = "report", !.verdict = v, !.draft = t]]

\* Retries exhausted: warn-only documents keep the source, Optimistic never.
Exhausted(i) ==
    IF job.warnOnly /\ ~Optimistic
    THEN Verdict(i, "degraded", Source)
    ELSE Verdict(i, "error", <<>>)

\* Mutant of StreamEnds: an incomplete draft is retried even after content.
EagerStreamEnds(i) ==
    /\ task[i].pc = "stream"
    /\ \/ Verdict(i, "error", <<>>)
       \/ Verdict(i, "first", task[i].draft)
       \/ IF task[i].left = 0
          THEN Exhausted(i)
          ELSE task' = [task EXCEPT ![i].pc = "retry", ![i].draft = <<>>,
                                    ![i].attempt = @ + 1]
    /\ UNCHANGED progress
    /\ TaskOnly

\* The stream ends: transport error, complete, or incomplete.  An incomplete
\* Optimistic draft with content may already be on the terminal: no retry.
StreamEnds(i) ==
    /\ task[i].pc = "stream"
    /\ \/ Verdict(i, "error", <<>>)
       \/ Verdict(i, "first", task[i].draft)
       \/ /\ Optimistic /\ task[i].draft # <<>>
          /\ Verdict(i, "error", <<>>)
       \/ /\ ~Optimistic \/ task[i].draft = <<>>
          /\ IF task[i].left = 0
             THEN Exhausted(i)
             ELSE task' = [task EXCEPT ![i].pc = "retry", ![i].draft = <<>>,
                                       ![i].attempt = @ + 1]
    /\ UNCHANGED progress
    /\ TaskOnly

\* One buffered completeness retry, sent with the inference cache bypassed.
RetryEnds(i) ==
    /\ task[i].pc = "retry"
    /\ \/ Verdict(i, "error", <<>>)
       \/ Verdict(i, "retried", <<>>)
       \/ task' = [task EXCEPT ![i].pc = "answer", ![i].draft = <<task[i].attempt>>]
       \/ IF task[i].left = 1
          THEN Exhausted(i)
          ELSE task' = [task EXCEPT ![i].left = @ - 1, ![i].attempt = @ + 1]
    /\ UNCHANGED progress
    /\ TaskOnly

\* A complete retry sends its whole text as one token before it reports.
RetryAnswers(i) ==
    /\ task[i].pc = "answer"
    /\ Put(i, "token", task[i].draft, "none")
    /\ Verdict(i, "retried", task[i].draft)
    /\ TaskOnly

\* spawn_streaming_segment: the outcome is the task's last message.
TaskReports(i) ==
    /\ task[i].pc = "report"
    /\ Put(i, "completed", task[i].draft, task[i].verdict)
    /\ task' = [task EXCEPT ![i].pc = "gone", ![i].draft = <<>>]
    /\ TaskOnly

TaskStep(i) ==
    \/ StreamToken(i) \/ StreamRestarted(i) \/ StreamEnds(i)
    \/ RetryEnds(i) \/ RetryAnswers(i) \/ TaskReports(i)

Spawned(S) == [i \in Seg |-> IF i \in S THEN [Idle EXCEPT !.pc = "stream"] ELSE task[i]]

-----------------------------------------------------------------------------
(* The event channel and its consumer. *)

\* Mutant of Send: the event channel has no capacity.
UnboundedSend ==
    /\ Live /\ outbox # <<>>
    /\ open
    /\ sent' = Append(sent, Head(outbox))
    /\ outbox' = Tail(outbox)
    /\ backlog' = backlog + 1
    /\ UNCHANGED <<runVars, open, store, runs>>

Send ==
    /\ Live /\ outbox # <<>>
    /\ open /\ backlog < StreamCap
    /\ sent' = Append(sent, Head(outbox))
    /\ outbox' = Tail(outbox)
    /\ backlog' = backlog + 1
    /\ UNCHANGED <<runVars, open, store, runs>>

Receive ==
    /\ open /\ backlog > 0
    /\ backlog' = backlog - 1
    /\ UNCHANGED <<runVars, outbox, sent, open, store, runs>>

CloseReceiver ==
    /\ open /\ Live
    /\ open' = FALSE
    /\ UNCHANGED <<runVars, outbox, sent, backlog, store, runs>>

-----------------------------------------------------------------------------
(* The coordinator: translate_text_stream_inner. *)

\* An error return, or the drop of the future: JoinSet aborts every task, and
\* the tables and both channels go with it.  Nothing persistent is touched.
Abort ==
    /\ mpc' = "failed"
    /\ Forgotten
    /\ UNCHANGED <<job, sent, backlog, open, store, runs>>

\* select!: once the receiver is gone every await of the coordinator fails.
\* From admission to the terminal event it awaits nothing.
ReceiverDropped ==
    /\ ~open
    /\ Live /\ mpc \notin {"store", "record", "terminal"}
    /\ Abort

\* maybe_reload, the preflight or the plan fails.
PrepareFails == At("start") /\ Abort

\* find_replay admits the newest proven output of this very request.
StartReplay ==
    /\ At("start")
    /\ Reads /\ proof # NoText
    /\ outbox' = <<Token(Seg, proof)>>
    /\ text' = proof
    /\ mpc' = "replay"
    /\ UNCHANGED <<job, task, progress, got, pending, published, next, remaining,
                   missing, para, degraded, candidates, provable, sent, backlog,
                   open, store, runs>>

AdmitReplay ==
    /\ At("replay")
    /\ open /\ backlog < StreamCap
    /\ mpc' = "terminal"
    /\ UNCHANGED <<job, task, progress, got, text, pending, published, next,
                   remaining, missing, para, degraded, candidates, provable,
                   chanVars, store, runs>>

\* Mutant of Lookup: a run with cache hits stays provable.
TrustingLookup ==
    /\ At("start")
    /\ LET rows == IF Reads THEN {i \in Seg : cache[i] # NoText} ELSE {}
       IN  \E hits \in SUBSET rows :
             /\ got' = hits
             /\ missing' = Seg \ hits
             /\ text' = [i \in Seg |-> IF i \in hits THEN cache[i] ELSE <<>>]
             /\ provable' = Writes
    /\ mpc' = "prefix"
    /\ UNCHANGED <<job, task, progress, pending, published, next, remaining, para,
                   degraded, candidates, chanVars, store, runs>>

\* A lookup error turns a hit into a miss.
Lookup ==
    /\ At("start")
    /\ LET rows == IF Reads THEN {i \in Seg : cache[i] # NoText} ELSE {}
       IN  \E hits \in SUBSET rows :
             /\ got' = hits
             /\ missing' = Seg \ hits
             /\ text' = [i \in Seg |-> IF i \in hits THEN cache[i] ELSE <<>>]
             /\ provable' = (Writes /\ hits = {})
    /\ mpc' = "prefix"
    /\ UNCHANGED <<job, task, progress, pending, published, next, remaining, para,
                   degraded, candidates, chanVars, store, runs>>

MainOnly == UNCHANGED <<job, task, progress, remaining, missing, got, text, degraded,
                        candidates, provable, sent, backlog, open, store, runs>>

\* The event sink of the coordinator drops events unless Optimistic.
Publish(events) == outbox' = IF Optimistic THEN events ELSE <<>>

CachedPrefix ==
    /\ At("prefix") /\ next \in got
    /\ Publish(Piece(next, text))
    /\ next' = next + 1
    /\ UNCHANGED <<mpc, pending, published, para>>
    /\ MainOnly

\* Mutant of AfterPrefix: a document wholly in the cache is not rendered.
HastyAfterPrefix ==
    /\ At("prefix") /\ next \notin got
    /\ mpc' = IF job.mode = "Paragraph" THEN "paragraph"
              ELSE IF missing = {} THEN "reserve" ELSE "dispatch"
    /\ UNCHANGED <<outbox, next, pending, published, para>>
    /\ MainOnly

AfterPrefix ==
    /\ At("prefix") /\ next \notin got
    /\ mpc' = IF job.mode = "Paragraph" THEN "paragraph"
              ELSE IF missing = {} THEN "finish" ELSE "dispatch"
    /\ UNCHANGED <<outbox, next, pending, published, para>>
    /\ MainOnly

\* partition_pipeline with first-chunk priority.
Dispatch ==
    /\ At("dispatch")
    /\ LET first == IF 0 \in missing THEN {0} ELSE missing
       IN  /\ task' = Spawned(first)
           /\ remaining' = missing \ first
    /\ mpc' = "wait"
    /\ UNCHANGED <<job, progress, got, text, pending, published, next, missing, para,
                   degraded, candidates, provable, chanVars, store, runs>>

\* Mutant of Release: an empty completion of chunk 0 releases nothing.
TokenRelease(m) ==
    IF m.seg = 0 /\ m.kind = "token"
    THEN task' = Spawned(remaining) /\ remaining' = {}
    ELSE UNCHANGED <<task, remaining>>

\* The first message of chunk 0 releases the chunks held back behind it.
Release(m) ==
    IF m.seg = 0
    THEN task' = Spawned(remaining) /\ remaining' = {}
    ELSE UNCHANGED <<task, remaining>>

TakeToken ==
    /\ At("wait") /\ progress # <<>>
    /\ LET m == Head(progress)
       IN  /\ m.kind = "token"
           /\ Release(m)
           /\ pending' = IF Optimistic
                         THEN [pending EXCEPT ![m.seg] = @ \o m.text]
                         ELSE pending
    /\ progress' = Tail(progress)
    /\ mpc' = "publish"
    /\ UNCHANGED <<job, got, text, published, next, missing, para, degraded,
                   candidates, provable, chanVars, store, runs>>

\* Mutant of ParagraphCounts: a failed segment does not mark its owner.
CarelessParagraphCounts(i, v) ==
    [para EXCEPT !.ready = IF i \in para.next .. para.end - 1 THEN @ + 1 ELSE @]

\* ParagraphStream::flush, its prologue for a completed segment.
ParagraphCounts(i, v) ==
    [para EXCEPT !.degraded = IF v = "degraded" THEN @ \cup {Owner[i]} ELSE @,
                 !.ready = IF i \in para.next .. para.end - 1 THEN @ + 1 ELSE @]

TakeCompleted ==
    /\ At("wait") /\ progress # <<>>
    /\ LET m == Head(progress)
       IN  /\ m.kind = "completed" /\ m.verdict # "error"
           /\ Release(m)
           /\ degraded' = IF m.verdict = "degraded" THEN degraded \cup {m.seg} ELSE degraded
           /\ provable' = (provable /\ m.verdict = "first")
           /\ candidates' = IF m.verdict = "degraded" THEN candidates
                            ELSE candidates \cup {m.seg}
           /\ got' = got \cup {m.seg}
           /\ text' = [text EXCEPT ![m.seg] = m.text]
           /\ pending' = [pending EXCEPT ![m.seg] = <<>>]
           /\ IF job.mode = "Paragraph"
              THEN para' = ParagraphCounts(m.seg, m.verdict) /\ mpc' = "paragraph"
              ELSE para' = para /\ mpc' = "publish"
    /\ progress' = Tail(progress)
    /\ UNCHANGED <<job, published, next, missing, chanVars, store, runs>>

\* One failed segment fails the document.
TakeError ==
    /\ At("wait") /\ progress # <<>>
    /\ Head(progress).kind = "completed" /\ Head(progress).verdict = "error"
    /\ Abort

\* Mutant of PublishHead: the mark goes out but the cursor stays.
ForgetfulPublishHead ==
    /\ At("publish")
    /\ IF Optimistic /\ next \in published /\ next \in got
       THEN outbox' = <<Done(next)>>
       ELSE outbox' = outbox
    /\ mpc' = "flush"
    /\ UNCHANGED <<next, pending, published, para>>
    /\ MainOnly

\* The head segment was published as a draft: only its mark is left to send.
PublishHead ==
    /\ At("publish")
    /\ IF Optimistic /\ next \in published /\ next \in got
       THEN outbox' = <<Done(next)>> /\ next' = next + 1
       ELSE UNCHANGED <<outbox, next>>
    /\ mpc' = "flush"
    /\ UNCHANGED <<pending, published, para>>
    /\ MainOnly

FlushReady ==
    /\ At("flush") /\ next \in got
    /\ Publish(Piece(next, text))
    /\ next' = next + 1
    /\ UNCHANGED <<mpc, pending, published, para>>
    /\ MainOnly

\* Publish the draft of the head segment and go round the event loop.
PublishDraft ==
    /\ At("flush") /\ next \notin got
    /\ IF Optimistic /\ next \in Seg /\ pending[next] # <<>>
       THEN /\ outbox' = <<Token({next}, pending)>>
            /\ pending' = [pending EXCEPT ![next] = <<>>]
            /\ published' = published \cup {next}
       ELSE UNCHANGED <<outbox, pending, published>>
    /\ mpc' = IF missing \subseteq got THEN "finish" ELSE "wait"
    /\ UNCHANGED <<next, para>>
    /\ MainOnly

-----------------------------------------------------------------------------
(* ParagraphStream::flush: publish whole owners, in order. *)

OwnedFrom(i) == {j \in Seg : i <= j /\ Owner[j] = Owner[i]}

\* A new owner: find its end and count what is ready.
MeasureOwner ==
    /\ At("paragraph") /\ para.next < N /\ para.end = para.next
    /\ LET owned == OwnedFrom(para.next)
       IN  para' = [para EXCEPT !.end = para.next + Cardinality(owned),
                                !.ready = Cardinality(owned \cap got)]
    /\ UNCHANGED <<mpc, outbox, next, pending, published>>
    /\ MainOnly

OwnerReady == para.next < para.end /\ para.ready >= para.end - para.next

\* An owner that holds a failed segment is published as its original source.
PublishOriginal ==
    /\ At("paragraph") /\ OwnerReady
    /\ Owner[para.next] \in para.degraded
    /\ LET S == para.next .. para.end - 1
       IN  outbox' = <<Token(S, [i \in S |-> Source])>>
                     \o [k \in 1 .. para.end - para.next |-> Done(para.next + k - 1)]
    /\ para' = [para EXCEPT !.next = para.end, !.ready = 0]
    /\ UNCHANGED <<mpc, next, pending, published>>
    /\ MainOnly

\* One segment of an owner whose segments are all translated.
PublishTranslated ==
    /\ At("paragraph") /\ OwnerReady
    /\ Owner[para.next] \notin para.degraded
    /\ outbox' = Piece(para.next, text)
    /\ para' = [para EXCEPT !.next = @ + 1,
                            !.ready = IF para.next + 1 = para.end THEN 0 ELSE @]
    /\ UNCHANGED <<mpc, next, pending, published>>
    /\ MainOnly

ParagraphDone ==
    /\ At("paragraph")
    /\ para.next = N \/ (para.next < para.end /\ ~OwnerReady)
    /\ mpc' = IF \E i \in missing : task[i].pc # "idle" THEN "publish"
              ELSE IF missing = {} THEN "finish" ELSE "dispatch"
    /\ UNCHANGED <<outbox, next, pending, published, para>>
    /\ MainOnly

-----------------------------------------------------------------------------
(* Finalization and admission. *)

\* Mutant of Finalize: only the failed pieces leave the cache candidates.
PartialFinalize ==
    /\ At("finish") /\ got = Seg
    /\ LET retained == {Owner[i] : i \in degraded}
           kept == {i \in Seg : Owner[i] \in retained}
       IN  /\ text' = [i \in Seg |-> IF i \in kept THEN Source ELSE text[i]]
           /\ degraded' = kept
           /\ candidates' = candidates \ degraded
           /\ provable' = (provable /\ kept = {})
    /\ mpc' = IF job.mode = "Validated" THEN "render" ELSE "reserve"
    /\ next' = 0
    /\ UNCHANGED <<job, task, progress, got, pending, published, remaining, missing,
                   para, chanVars, store, runs>>

\* retained_original::finalize: every piece of an owner with a failed segment
\* returns to its source, and none of them is cached or proven.
Finalize ==
    /\ At("finish") /\ got = Seg
    /\ LET retained == {Owner[i] : i \in degraded}
           kept == {i \in Seg : Owner[i] \in retained}
       IN  /\ text' = [i \in Seg |-> IF i \in kept THEN Source ELSE text[i]]
           /\ degraded' = kept
           /\ candidates' = candidates \ kept
           /\ provable' = (provable /\ kept = {})
    /\ mpc' = IF job.mode = "Validated" THEN "render" ELSE "reserve"
    /\ next' = 0
    /\ UNCHANGED <<job, task, progress, got, pending, published, remaining, missing,
                   para, chanVars, store, runs>>

\* Validated output with retained paragraphs: one token, then every mark.
RenderWhole ==
    /\ At("render") /\ degraded # {}
    /\ outbox' = <<Token(Seg, text)>> \o [k \in 1 .. N |-> Done(k - 1)]
    /\ mpc' = "reserve"
    /\ UNCHANGED <<next, pending, published, para>>
    /\ MainOnly

\* Mutant of RenderPiece: the last segment is not rendered.
ShortRenderPiece ==
    /\ At("render") /\ degraded = {}
    /\ IF next < N - 1
       THEN outbox' = Piece(next, text) /\ next' = next + 1 /\ mpc' = mpc
       ELSE mpc' = "reserve" /\ UNCHANGED <<outbox, next>>
    /\ UNCHANGED <<pending, published, para>>
    /\ MainOnly

RenderPiece ==
    /\ At("render") /\ degraded = {}
    /\ IF next < N
       THEN outbox' = Piece(next, text) /\ next' = next + 1 /\ mpc' = mpc
       ELSE mpc' = "reserve" /\ UNCHANGED <<outbox, next>>
    /\ UNCHANGED <<pending, published, para>>
    /\ MainOnly

\* reserve().await and the open-receiver check: completion is irreversible.
Admit ==
    /\ At("reserve")
    /\ open /\ backlog < StreamCap
    /\ mpc' = IF Writes THEN "store" ELSE "record"
    /\ UNCHANGED <<outbox, next, pending, published, para>>
    /\ MainOnly

\* Candidates are stored in order, one statement each; an error is a warning.
StoreCandidate ==
    /\ At("store")
    /\ \E i \in candidates :
          /\ \A c \in candidates : i <= c
          /\ \/ cache' = [cache EXCEPT ![i] = text[i]]
             \/ cache' = cache
          /\ candidates' = candidates \ {i}
    /\ UNCHANGED <<job, task, progress, mpc, got, text, pending, published, next,
                   remaining, missing, para, degraded, provable, chanVars, proof, runs>>

StoredAll ==
    /\ At("store") /\ candidates = {}
    /\ mpc' = "record"
    /\ UNCHANGED <<outbox, next, pending, published, para>>
    /\ MainOnly

\* insert_task_with_replay_proof; the proof may be unavailable, the row may fail.
RecordTask ==
    /\ At("record")
    /\ \/ provable /\ proof' = text
       \/ proof' = proof
    /\ mpc' = "terminal"
    /\ UNCHANGED <<job, task, progress, got, text, pending, published, next, remaining,
                   missing, para, degraded, candidates, provable, chanVars, cache, runs>>

\* The reserved slot takes the terminal event whether or not anybody reads it.
SendTerminal ==
    /\ At("terminal")
    /\ sent' = Append(sent, AllDone(text))
    /\ backlog' = backlog + 1
    /\ mpc' = "done"
    /\ UNCHANGED <<job, task, progress, got, text, pending, published, next, remaining,
                   missing, para, degraded, candidates, provable, outbox, open, store,
                   runs>>

Coordinator ==
    \/ ReceiverDropped \/ StartReplay \/ AdmitReplay \/ Lookup
    \/ CachedPrefix \/ AfterPrefix \/ Dispatch
    \/ TakeToken \/ TakeCompleted \/ TakeError
    \/ PublishHead \/ FlushReady \/ PublishDraft
    \/ MeasureOwner \/ PublishOriginal \/ PublishTranslated \/ ParagraphDone
    \/ Finalize \/ RenderWhole \/ RenderPiece
    \/ Admit \/ StoreCandidate \/ StoredAll \/ RecordTask \/ SendTerminal
    \/ Send

-----------------------------------------------------------------------------
(* The environment: a killed process, and the next invocation. *)

Crash == Live /\ Abort

NewRun ==
    /\ ~Live /\ runs < MaxRuns
    /\ job' \in Jobs
    /\ mpc' = "start"
    /\ Forgotten
    /\ sent' = <<>> /\ backlog' = 0 /\ open' = TRUE
    /\ runs' = runs + 1
    /\ UNCHANGED store

Next ==
    \/ \E i \in Seg : TaskStep(i)
    \/ Coordinator
    \/ PrepareFails
    \/ Receive \/ CloseReceiver
    \/ Crash \/ NewRun

Spec == Init /\ [][Next]_vars

\* Tasks end because every HTTP request has a timeout; the coordinator and the
\* tasks are polled by the runtime; a consumer that keeps the receiver reads it.
Fairness ==
    /\ WF_vars(Coordinator)
    /\ \A i \in Seg : WF_vars(TaskStep(i))
    /\ WF_vars(Receive)

FairSpec == Spec /\ Fairness

-----------------------------------------------------------------------------
(* Properties. *)

Attempts == [pc : {"idle", "stream", "retry", "answer", "report", "gone"},
             attempt : Nat, left : Nat, draft : Texts,
             verdict : {"none", "first", "retried", "degraded", "error"}]
\* A task retries only while it has retries left.
TaskState == {s \in Attempts : s.pc = "retry" => s.left > 0}
Message == [kind : {"token", "completed"}, seg : Seg, text : Texts,
            verdict : {"none", "first", "retried", "degraded", "error"}]
Phase == {"start", "replay", "prefix", "paragraph", "dispatch", "wait", "publish",
          "flush", "finish", "render", "reserve", "store", "record", "terminal",
          "done", "failed"}

\* Every variable has its type, for all channels, tasks and tables of the code.
TypeOK ==
    /\ job \in Jobs
    /\ task \in [Seg -> TaskState]
    /\ progress \in Seq(Message) /\ Len(progress) <= ProgressCap
    /\ mpc \in Phase
    /\ got \subseteq Seg /\ missing \subseteq Seg /\ remaining \subseteq Seg
    /\ published \subseteq Seg /\ degraded \subseteq Seg /\ candidates \subseteq Seg
    /\ text \in [Seg -> Texts] /\ pending \in [Seg -> Texts]
    /\ next \in 0 .. N
    /\ para \in [next : 0 .. N, end : 0 .. N, ready : Nat, degraded : SUBSET Nat]
    /\ provable \in BOOLEAN
    /\ outbox \in Seq(Event) /\ sent \in Seq(Event)
    /\ backlog \in 0 .. StreamCap /\ open \in BOOLEAN
    /\ cache \in [Seg -> Texts \cup {NoText}]
    /\ proof \in [Seg -> Texts] \cup {NoText}
    /\ runs \in Nat

\* Where text of segment i was sent, and where segment i was marked done.
TextAt(i) == {p \in DOMAIN sent : sent[p].kind = "token" /\ sent[p].text[i] # <<>>}
MarkAt(i) == {p \in DOMAIN sent : sent[p] = Done(i)}
Marks == {p \in DOMAIN sent : sent[p].kind = "done"}

\* What the consumer has been shown of segment i.
Shown(i) == FlattenSeq([p \in DOMAIN sent |->
    IF sent[p].kind = "token" THEN sent[p].text[i] ELSE <<>>])

\* Events follow the document: the marks are 0, 1, 2, ... without a gap or a
\* repeat, no text of a segment follows its mark or the text of a later segment,
\* whatever order the chunk tasks finish in (flush_ready_stream_prefix,
\* advance_stream_cursor_past_segment, ParagraphStream).
OrderedOutput ==
    /\ \A p \in Marks : sent[p] = Done(Cardinality({q \in Marks : q < p}))
    /\ \A p, q \in DOMAIN sent : p < q =>
          \A i, j \in Seg :
             /\ p \in TextAt(i) /\ q \in TextAt(j) => i <= j
             /\ p \in MarkAt(i) => q \notin TextAt(i)

\* A mark certifies the text before it, and the document that is admitted is
\* exactly the one shown: a draft published before its segment completed is
\* never contradicted by a retry, a restart or a retained original.
ShownIsFinal ==
    /\ \A i \in got : Optimistic /\ Live => IsPrefix(Shown(i), text[i])
    /\ mpc \in {"store", "record", "terminal", "done"} =>
          \A i \in Seg : Shown(i) = text[i]

\* A paragraph is shown translated or original, never half of each.
OwnersWhole ==
    \A i, j \in Seg : Owner[i] = Owner[j] /\ Shown(i) = Source
                      => Shown(j) \in {<<>>, Source}

OneAttempt(t) == \E a \in {t[k] : k \in DOMAIN t} \cup {1} :
                    a # Original /\ \A k \in DOMAIN t : t[k] = a

\* A cached or proven text is the complete answer of one attempt: never the
\* retained source, never units of two attempts spliced together.
StoreSound ==
    /\ \A i \in Seg : cache[i] # NoText => OneAttempt(cache[i])
    /\ proof # NoText => \A i \in Seg : OneAttempt(proof[i])

\* Rows are written only once the whole document has been delivered to a
\* consumer that still held the receiver when it was admitted.
StoredAfterDelivery ==
    [][store' # store => \A i \in Seg : Shown(i) = text[i] /\ MarkAt(i) # {}]_vars

\* A replay proof vouches for a run in which every segment was answered by its
\* initial request: no cache hit, no completeness retry, no retained original.
ProofIsFirstHand ==
    [][proof' # proof => \A i \in Seg : task[i].verdict = "first"]_vars

\* Whatever the tasks, the consumer and both bounded channels do, an invocation
\* ends: no held back chunk is forgotten and nobody waits on a full channel.
EveryRunEnds == Live ~> ~Live

\* An invocation implements the contract of its caller.  A mark certifies one
\* segment; a token of the whole document delivers all of them.
Delivered ==
    IF sent # <<>> /\ sent[1].kind = "token" /\ sent[1].segs = Seg
    THEN N ELSE Cardinality(Marks)

Contract == INSTANCE TranslationContract WITH
    outcome <- IF Live THEN "running" ELSE mpc,
    delivered <- Delivered,
    rows <- store

\* The pipeline, with all its tasks, channels and phases, refines the contract:
\* rows and success only for a wholly delivered document.
ImplementsContract == Contract!Spec

=============================================================================
