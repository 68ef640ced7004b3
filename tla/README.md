# hymt: models, checks and proofs

`hymt` translates documents with an Hy-MT2 model behind an HTTP endpoint. A Rust
workspace (`src/crates`) plans a document, translates its segments, caches and
records what it did; a Python service (`src/scripts/hymt-inference-cache.py`)
may stand between the client and the model and share complete answers. This
directory holds TLA+ models of the parts whose correctness depends on
concurrency, failure and order, the TLC configurations that check them, and
proofs that TLAPS checks.

    tlc -workers 2 -config MCStreamOrder.cfg MCStreamPipeline
    tlapm StreamPipelineProofs.tla
    tlapm InferenceCacheProofs.tla
    tlapm HotConfigProofs.tla
    tlapm SegmentRequestProofs.tla
    tlapm TelegramBotProofs.tla
    tlapm WorkflowsProofs.tla
    tlapm DocumentPlanProofs.tla
    tlapm DocumentOutputProofs.tla

## 1. Inventory

| Component | State | Operations | What is hard, what must hold |
| --- | --- | --- | --- |
| Streaming pipeline (`hymt-translate/src/translate.rs`, `translate/paragraph_stream.rs`, `translate/retained_original.rs`) | translations, drafts, cursor, degraded owners, cache candidates, proof eligibility; a `JoinSet` of tasks, two bounded channels | lookup, dispatch, token, completion, publish, finalize, admit, store, record, terminal event | tasks finish in any order; the consumer may leave; one failure ends the document. Output in document order and never contradicted; rows only after full delivery |
| Segment attempt (`translate_segment_with_completeness_streaming`) | draft, attempt, retries left | stream, restart, verdict, buffered retries, retained original | what was shown must not be retried; a text is one attempt's |
| Backend client (`hymt-client`) | semaphore, retry budget, SSE parser state, runtime cache | connect, read body, restart, finish, preflight | one budget for connect and body; termination decides completeness; permits are returned |
| Configuration (`hymt-core/src/config.rs`) | file, in-memory state with mtime, generation and runtime facts | reload, snapshot, guarded publication of preflight facts, telegram mutations | reloads race preflights and edits |
| History database (`hymt-cache/src/history.rs`) | one SQLite file: tasks, segment rows; a schema that older releases left narrower | upgrade, find, store, insert with proof, clear, estimate | several processes between the transactions of one operation, kills, legacy files; rows survive |
| Command-output caches (`hymt-cache/src/exec_cache.rs`) | a user's and a shared SQLite file of whole outputs | find, store | a degraded output must not be kept |
| Buffered translation (`translate_text`) | the locals of one invocation | replay, preflight, look-ups, generate, put back, store, record | the order of the phases and what each may still write |
| Replay proofs (`translate/offline_replay.rs`) | proofs beside task rows | populate, find, finish | only first-hand answers of the very same request |
| Inference cache (`scripts/hymt-inference-cache.py`) | guard file, epoch, entries, planning row; revocation, generation and observation counters; flights | GET metadata, POST completion, observe, revoke, commit, read, admit, write, clear | threads, an operator process, backend replacement, crashes |
| Telegram bot (`hymt-cli/src/telegram`) | offset, one message under edit, owners | poll, handle, claim, translate, edit, shut down | at-least-once delivery, rate limits, failed edits |
| Output files (`write_translation_output`) | temporary file, destination | create, write, rename, clean up | cancellation and crashes leave the old file whole |
| Planning and reconstruction (`hymt-segment`, `markdown_ownership.rs`, `language.rs`) | none | split, group, reconstruct | boundaries and newlines |
| Batch, docs, man, exec, precache | files, page caches | loops over the pipeline | partial failure, exit status, outputs as later sources |
| Units (`src/services/hymt-telegram*`) | what systemd starts again | restart on failure, path unit, try-restart | a process that ends well is not started again |
| Prompts and profiles (`hymt-core/src/templates.rs`) | none | options of a template, names of a profile | what an answer depends on must be in its key |
| CLI, shell plugin, bench, developer hooks | none that the system relies on | wiring and I/O | not modelled, except the order of preflight and command |

How they interact: the CLI and the bot open a `HotConfig`, a `HistoryDB` and a
`TranslationClient` and hand them to the pipeline as `TranslationCtx`. The
pipeline takes a detached snapshot of the configuration, spawns one task per
segment, and every task streams from the client, which talks to the model
directly or through the inference cache. Events go to a consumer (stdout, a
file writer, or the bot's message editor) over a bounded `mpsc` channel. Rows go
to SQLite after the last event has a slot in that channel.

## 2. Modules

| Module | Models |
| --- | --- |
| `StreamPipeline` | one streaming translation and its successors over the same database: coordinator, segment tasks, both channels, consumer, cache, proof |
| `TranslationContract` | what an invocation promises its caller; `StreamPipeline` implements it |
| `StreamPipelineProofs` | the theorems about `StreamPipeline` |
| `InferenceCache` | the cache service: request threads, observations, authority, guard, rows, flights, operator, backend, crash and restart |
| `FileSettings` | what `config.toml` says of the backend: which texts load, context, adapter, profile, generation overrides |
| `BackendFacts` | what a preflight learns of a backend from its replies, the warnings, and the limits the planner resolves |
| `InferenceIdentity` | what a request depends on and the digests under which its answer is kept: fingerprint, payload, segment keys, replay proofs |
| `InferenceCacheProofs` | the theorems about `InferenceCache` |
| `HotConfig` | the configuration file, each process's copy of it, preflight and runtime facts, the binding of an invocation to one snapshot, the telegram mutations |
| `HotConfigProofs` | the theorems about `HotConfig`, each with the invariant it adds to the one before |
| `SegmentRequest` | segment tasks over one client: requests, retry budget, permits, reader tasks, channels, both callers |
| `SegmentAttempt` | what a segment task may rely on; `SegmentRequest` implements it |
| `SegmentRequestProofs` | the theorems about `SegmentRequest` |
| `TelegramBot` | the bot: server, poll loop, handlers, one streamed message, process life cycle and systemd units |
| `TelegramBotProofs` | the theorems about `TelegramBot` |
| `DocumentPlan` | how a document becomes sections, groups and segments: pure operators |
| `DocumentOutput` | how translated segments become the document again, buffered and in three streaming modes |
| `DocumentPlanProofs` | what the operators of `DocumentPlan` do with any document: lemmas, up to what any plan is |
| `DocumentOutputProofs` | the theorems about `DocumentOutput` |
| `HistoryDB` | the history file under several processes: upgrade, look-ups, stores, clear |
| `BufferedTranslation` | `translate_text` over `HistoryDB` |
| `CommandOutput` | what exec, man, info and precache capture and translate, both tiers of the exec cache, discovery of recent commands |
| `Workflows` | the commands text, batch, translate-doc, exec, man, info, precache, estimate, recall and history --clear from plan to status, with output files |
| `WorkflowsProofs` | the theorems about `Workflows` |
| `MC...` | values of the constants for TLC |

`Workflows` extends `CommandOutput`, which extends `BufferedTranslation`, which
extends `HistoryDB`: a process is at one place of each, and the steps of the lower ones are disjuncts
of `Workflows!Next`. `DocumentOutput` extends `DocumentPlan`; `HotConfig` extends
`InferenceIdentity`, which extends `BackendFacts`, which extends `FileSettings`. `TelegramBot` takes
the order of the units of a stream from `StreamPipeline` (`OrderedOutput`), and
`StreamPipeline` takes what it may rely on in a segment task from
`SegmentAttempt`, which `SegmentRequest` implements.

### StreamPipeline

The coordinator is `translate_text_stream_inner`, cut at its awaits. `mpc` names
the place it has reached; `outbox` holds the events of the piece of code that
runs next to the channel, and `At(pc)` lets the coordinator go on only when they
have been sent. So every `send(...).await` is a point where tasks, consumer,
kill and dropped receiver interleave, and code between two awaits is one step.

| State | Code |
| --- | --- |
| `task[i]` | the future spawned for segment i: `stream` (SSE), `retry` (buffered completeness retries), `answer`, `report`, `gone` |
| `progress` | `mpsc::channel(64)` of `ChunkProgress`, capacity `ProgressCap` |
| `got`, `text` | `translations` |
| `pending`, `published` | the vectors of the same names (Optimistic) |
| `next` | `cached_prefix_len`; after `Finalize` the cursor of the final rendering |
| `remaining`, `missing` | the vectors of the same names |
| `para` | `ParagraphStream`: `next_segment`, `pending_end`, `pending_ready`, `degraded_owners` |
| `degraded`, `candidates`, `provable` | `degraded_segments`, `cache_candidates`, `proof_eligible` |
| `sent`, `backlog`, `open` | the event channel: everything sent, what is unread, the receiver |
| `cache`, `proof` | `segment_cache` rows and the newest provable task row |

A text is the sequence of attempts that produced its units, and `Original` is the
source. That is all the properties need: whether units of two attempts were
joined, whether a source paragraph was kept, and which text was shown. Token
boundaries, literal sections, newlines and the notice are left out; an event of
a literal section carries no segment's text. The early return for an empty
document and documents without segments are left out too (`N >= 1`).

An initial database may hold old rows (attempt 1 of an earlier run). `NewRun`
starts another invocation with another mode or cache policy over the same rows;
policies are `off` (`--no-cache`), `refresh` (`--refresh-app-cache`) and `on`.

`Abort` stands for every `?` of the coordinator and for the drop of its future:
tables, tasks and channels go, rows stay. `ReceiverDropped` is the `select!` of
`translate_text_stream_with_mode` and every failed send; from admission to the
terminal event the code awaits nothing, so it cannot happen there.

### InferenceCache

A request is a thread; `req[r].pc` is where it is, and every lock release,
network call and database transaction ends a step. `LockFree` is
`planning_lock`: it is held across steps only from `AdmitWrite` to `Write`,
because the operator's `clear` is another process and may commit between the
two. An identity is a pair of backend numbers, one told by `/props` and one by
`/v1/models`, since the backend may be replaced between the two requests. A row's
body remembers which backend generated it and whether the answer was whole
(`_complete`).

| State | Code |
| --- | --- |
| `guard` | the `.guard` file |
| `epoch`, `entries`, `planning` | the three tables |
| `revoked`, `generation`, `sequence`, `observed` | `planning_revoked`, `planning_generation`, `observation_sequence`, `planning_observation` |
| `req[r].obs`, `.prior`, `.denied`, `.seen`, `.fault` | locals of `_observe`: its number, `retained`, `unknown_prior`, `values`, `unavailable` or an exception |
| `req[r].record`, `.key`, `.leader`, `.reply`, `.admitted` | locals of `do_POST` and the `_Flight` it leads or follows |
| `owed` | history variable: an observation was interrupted or a revocation outlived the process, and no complete observation has been committed since |

Backends are numbered in order and none returns: a backend that is replaced and
put back between two probes cannot be told from one that stayed, as the comment
in `identity` says. A payload is what `_canonical` makes of a completion request, and an
answer remembers which backend gave it, to which payload, and whether it is whole; `Key`
holds the payload, the identity and the epoch, as the digest does. A bypass request touches no state. Failing guard writes,
unreadable planning rows, the client and upstream semaphores, size limits and
`POST /tokenize` are not modelled.

### FileSettings and BackendFacts

A TOML table is a function from dotted names to values that carry the sort they
were written in, a JSON object likewise, so that a key of the wrong sort can be
told from one that is absent: the getters of `config.rs` pass over it, the
validation rejects it, and `runtime.rs` rejects the reply. `Loads` is what
`load_from_disk` demands of every text and `Opens` what it demands of the first
one, which also fixes the profile. `Heard` is what `fetch_backend_runtime` makes
of a reply, the two provenance headers of the inference cache included; an
optional value is a set of at most one element. Numbers with a fraction count in
hundredths; names and templates are values, so `Punctuation`, `Marked` and
`Aliases` say which of them an end token, a control marker or an alias is.
`MCHotConfig` states, as assumptions that TLC evaluates, which of a dozen
texts load and what some replies come to.

### HotConfig

Threads of a process hold clones of one `HotConfig` (an `Arc<RwLock<..>>`) and of
one `TranslationClient`; `Home` says which process a thread belongs to. Every
read or write under the lock, every call to the file system and every request is
a step of its own, since the lock is never held across two of them. `loc[t].pc`
is the place in the code, `loc[t].ret` where `maybe_reload` or `load_from_disk`
returns to.

| State | Code |
| --- | --- |
| `file`, `tmp` | `config.toml` and `config.toml.tmp`: settings, owners, who wrote the claim password, and a modification time |
| `cfg[p]` | `ConfigState`: `data`, `mtime`, `generation`, `backend_runtime_info` as a set of at most one fact |
| `entry[p]` | `runtime_cache` of the client: a set of at most one entry |
| `loc[t].mtime`, `.data` | locals of `maybe_reload`, `load_from_disk` and `mutate_telegram` |
| `loc[t].generation`, `.key`, `.fact`, `.warned` | locals of `preflight_backend_inner`; the profile is fixed by the first load, so the key need not hold it |
| `loc[t].reloaded`, `.snap`, `.bound` | locals of `prepare_invocation`: whether it reloaded, the detached configuration, the entry copied by `with_config` |
| `acked` | history variable: claims whose mutation returned to the bot |

A setting is an endpoint, strictness and a table of `FileSettings`. A fact is the
set of endpoints that contributed to it and what `BackendFacts` made of their
replies, so a fact mixed from two backends is visible as such. An entry also
keeps the warnings it was stored with. A preflight of a detached
snapshot shares no state with anyone and is one step (`Prepare`). A process has
one translator (`OneTranslator`): the command line translates one text after
another and ends on a refused preflight. A thread that has nothing more to do is
at `end`. Editors replace the file in one step, and every write gets a later
modification time: the races found below do not rest on coarse clocks.

### SegmentRequest

A worker is a segment task: `translate_segment_with_completeness_streaming`, or
the buffered `translate_segment_with_completeness`, which differs only in using
recovery from the first request on (`Recovers`). Up to the first response the
worker itself runs `completion_stream`; from then on a spawned reader task does,
and the two run side by side, joined by a channel. Every await of either (permit,
response, backoff, send, receive) ends a step. The end of the reader, which drops
its sender and its permit, is one step.

| State | Code |
| --- | --- |
| `seg[w].pc`, `.attempt` | where the segment task is, and its completeness attempt |
| `seg[w].text`, `.term`, `.cold` | `translated` (or `completion.text`), `termination`, `cold_generation` |
| `seg[w].result` | the outcome: `first` and `retried` are complete texts, `exhausted` keeps the source |
| `req[w].used`, `.spawned`, `.broken` | `RetryBudget::used`; the reader exists; the backoff follows a broken body |
| `req[w].reply`, `.pos`, `.choice`, `.terminal`, `.content` | the body and how far it is read; `saw_choice`, `saw_terminal`, `saw_content` |
| `req[w].posts` | history variable: how often this request was posted |
| `outbox[w]`, `chan[w]`, `open[w]` | events about to be sent, `mpsc::channel(64)`, the receiver |
| `held` | requests with a permit of `semaphore` |

A response is a script (`Reply`): whether it is an event stream, what its events
say in order, whether the connection breaks at its end, and whether its marker
says that it was generated anew. A unit of text is the number of the post that
brought it, so an accepted text shows whether bodies were joined, and together
with `reply` whether something is missing. Lines, chunks and UTF-8, payload and
headers are left out. A worker that is dropped (`Abort`) leaves its reader to
notice; one that is dropped while it connects takes the request along.

`SegmentAttempt` is the view that `StreamPipeline` has of a task's streaming: units
of one response, taken back only when they were kept, a second request never
after a shown draft, and the source never instead of one.

### TelegramBot

Updates are numbered; the server keeps `unconfirmed` ones and hands all of them
out. `pc` walks through `run_telegram_bot`: `loop`, `poll`, `batch`, `handle`
(with `claimed` and `stream` inside a handler), `return`, `confirm`, `down`.

| State | Code |
| --- | --- |
| `offset`, `batch`, `tries` | `offset`, the answer of `get_updates` still to be looked at, the confirmation requests left |
| `stop` | the shutdown flag, a replaced executable, `enabled = false`, an empty token |
| `owners`, `option` | the telegram section of the configuration; owners are persisted by every claim |
| `stream` | `TelegramStreamBatcher`, `sent_message` and `EditRateLimiter` of `deliver_stream_events` |
| `shown`, `told` | what the chats see; every call may fail before or after it took effect |
| `again`, `trigger`, `ends` | what systemd does next |
| `begun`, `handled`, `excused` | history: handlers entered and returned, updates a lost process may have begun |

The offset counts from 1, where the code has 0 for "everything". The rate limit
is a choice: an edit at cadence may be skipped once one has been made. A chat is
told things of eight kinds; wording, file names and typing indicators are left
out. What the text of a reply is comes from `StreamPipeline`.

### DocumentPlan and DocumentOutput

A text is a sequence of atoms, one token each, of the classes the algorithms tell
apart: words, spaces, newlines, sentence and clause enders, Markdown syntax,
reference links, table bars, fences, front matter and JSON. The tokenizer counts
atoms; with `Factor` the approximate counting of a request. The CommonMark parser
and the language detector are replaced by rules on those classes (`Opaque`,
`InTarget`). `Plan` follows `plan_translation_with_policy`: sections, decisions,
coherent paragraphs, explicit references, source-owned ranges, groups, segments,
and the loop that cuts what the request budget cannot hold (`Fit`; an empty piece
stands for its error, and such a document is `refused`).

`DocumentOutput` runs one invocation: segments complete in any order, each with a
text from `Replies` or its source, or are retained. `stream.out` is what has been
published, `stream.seg` and `.sec` the cursor, `.end` and `.ready` the paragraph
that `ParagraphStream` waits for. `Finalize` is the buffered result with notice
and regions; the streaming modes must end with the same text.

The loops of the code over lines, sections, segments and passes are `Loop`, a
recursive function of the number of passes, so that proofs can reason about them.

The segmenter's own Markdown blocks (lists, quotes, fences inside a segment) are
left out: ownership has cut their markers away before a text reaches it.

### HistoryDB

Every operation opens the file (`Open`), upgrades it inside one immediate
transaction (`CopyRows`, `SwapTables`, `Commit`), and runs its own statement
outside of it; `call[p].at` names the place and any process may step in between.
`lock` is SQLite's write lock, `draft[p]` what the open transaction would commit;
`GiveUp` is the busy timeout or any error, `Hangup` a kill. `layout` is the age of
the schema. The scope columns of a row are one value, `current` or `legacy`.

### BufferedTranslation

`tr[p].at` is the phase of `translate_text`: `replay`, `prepare`, `lookup`,
`estimate`, `generate`, `store`, `record`, then `done` or `failed`. Each database
access is a call of `HistoryDB`, so other processes run between any two phases.
`Generate` is the whole `JoinSet`: it chooses for each missing segment whether its
first request answered, a later one did, the original is kept, or an error ends
everything. Nothing is shared while it runs, so one step loses no interleaving.
`runtime[p]` is what the live configuration of the process knows of the backend, and
`tr[p].known` what the snapshot knows to which `prepare_invocation` binds one text: a
preflight that is owed is made on the snapshot, so the next text owes it again and may
be refused where this one was not. `Reads`, `Writes` and `Deferred` are the flags that
`main.rs` derives from configuration and options.

### CommandOutput

An invocation is a program and its argument, and what it prints on a stream is a
record of a sort, a language and segments. The sorts are those that
`exec_wrapper.rs` tells apart (binary, blank, structured, progress, text, and text
whose first 4096 bytes end within a character), so the tests themselves are not
spelled out. `ManPage`, `HelpOf` and `PrecachePages` follow the fallbacks between
`--help`, `-h` and man pages; `Discovered` follows the shell histories, newest first,
through prefixes, assignments, options and the block list to the recent commands.
`SameKey` and `Filed` are the lookup of the exec cache in the user's and then the
shared tier.

### Workflows

Two processes run two commands over one directory, one history file and one page
cache. A file is a base name and the suffixes it has gathered; `made` is history: for
every file that hymt has written, the text that it translates. `work[p].at` is the command's place; `plan`, `todo`,
`done` and `failed` are what it has before and behind it. A command is a kind with
its options (`plan` only prints the estimate, `original` the untranslated page,
`output`, `warn`, `lang`; `file` names a file to `translate-doc` where it otherwise
names a directory) and the two cache switches. A temporary file is
named after process id and counter; a kill leaves it behind, and the next process
may get the same id, so `Create` may find its name taken. `Fault`, at most `MaxFaults`
times, is an error that the operating system may answer anywhere: a batch passes
over a file it cannot read (`PlanFile`) and ends when a plan fails (`Measure`), a
document or text that cannot be read is not translated (`NextText`), and a write is
refused before or after it has taken its number (`Refused`) or breaks off
(`WriteFails`). Reading a file is
atomic: every writer renames. Modes of files, links and the inode test of the
clean-up are left out, as are questions to the user and printing. A document whose
target language cannot be told because it cannot be read just then gets the requested
one (`resolve_file_target_lang`); the model has the language of a file that is read.

## 3. Runs

All runs but `config_edit` set `CHECK_DEADLOCK FALSE`: invocations, requests,
segments, commands and mutations come to an end, and a bot waits for its server.

| Run | Instance | Properties |
| --- | --- | --- |
| `stream_order` | Paragraph and Optimistic; 3 segments, 2 in one paragraph; 1 body restart; `warn_only` both ways; both channels of capacity 1 | `OrderedOutput`, `OwnersWhole` |
| `stream_reruns` | all modes, 2 segments of one paragraph, 2 invocations, 1 retry, policies `refresh` and `on`, fairness | `ShownIsFinal`, `StoreSound`, `StoredAfterDelivery`, `ProofIsFirstHand`, `EveryRunEnds`, `ImplementsContract` |
| `cache_rows` | 2 equal completions, 1 replacement or 1 clear, fairness (2,207,359 distinct states) | `RowsHonest`, `RowsCurrent`, `HitsHonest`, `AuthorityInOrder`, `ClearIsFinal`, `EveryRequestEnds` |
| `cache_crash` | a completion and a planning request, 1 replacement, 1 clear, 1 crash (3,329,154 distinct states) | `InterruptedBlocksReplay` |
| `config_preflight` | a translator and a claim in one process, 2 endpoints that answer live, from the past, as another adapter or not at all, a lenient, a strict and an unloadable setting, 2 saves, 2 texts to translate (1,844,328 distinct states) | `FactsOwned`, `StrictIsVerified`, `PlanFits`, `StoredForTheSame` |
| `config_edit` | 1 reloading thread, 2 saves | `EditIsNoticed`, violated |
| `config_claim` | a claim in the bot, a new password on the command line, no saves | `ClaimSurvives`, violated |
| `segment_request` | a drafting and a keeping worker, 1 permit, 2 network retries, 1 completeness retry, channel of capacity 1, 11 responses, fairness | `AnswerIsOneBody`, `ColdIsFirst`, `PostsBounded`, `LoadBounded`, `EverySegmentEnds`, `PermitsReturn`, `ImplementsAttempt` |
| `bot` | 6 inboxes of up to 3 updates, a private chat and a group, 2 settings, 4 reasons to end, 1 end or crash, streams of 2 segments, fairness | `NoneSkipped`, `RepeatedOnlyAfterLoss`, `FinalShown`, `RepliesHonest`, `EveryUpdateHandled` |
| `documents` | every text of up to 6 words, newlines and syntax atoms, 10 longer documents, 3 modes, answers that are empty, newlines, words or the source, up to 2 cached segments | `PlanWhole`, `StreamsTheDocument`, `RegionsExact`, `PublishedWhenSettled`, `EchoKeepsDocument` |
| `workflows` | 13 pairs of commands over 3 notes, one of them empty, and 4 programs, a history file that is missing or of an older release, 1 crash or failure | `OutputsWhole`, `StatusHonest`, `RetainedNotCached`, `RowsSurvive` |
| `docs_again` | translate-doc twice over 1 note, automatic target | `OutputsAreNotSources`, violated |

What the three violations show.

- `config_edit`: `load_from_disk` reads the text (`config.rs:1511`) before it takes
  the modification time (`config.rs:1536`). A save between the two leaves the old
  settings under the new time. `maybe_reload` only compares times, so the edit is
  not seen until another save, against README.md:111 ("Long-running workflows pick
  up other edits without restarting the process"). Taking the time first would
  turn the race into one reload too many.
- `config_claim`: `mutate_telegram` writes the copy it cloned earlier
  (`config.rs:1681`, `config.rs:1719`) and nothing excludes another process. A
  claim that the bot has acknowledged disappears when
  `hymt telegram --regenerate-claim-password` writes a copy taken before it,
  against config.rs:1498 ("Add `chat_id` to `owners` if absent and persist the
  config").

- `docs_again`: `build_doc_translation_targets` passes over a file when its name ends
  with the suffix of the file's own target (`doc_translate.rs:143`). When the target
  is automatic, the Chinese output `notes.zh-cn.md` has the target `en`, so the next
  run translates it to `notes.zh-cn.en.md`, and that one in the run after, against
  doc_translate.rs:98 ("skipped to avoid translating already-translated output").
  With `--to` the comment holds.

Two more things the models show without a run of their own. With the caches on,
`make_client_with_concurrency` marks the client as owing a preflight and nothing
ever takes the mark away, so `translate_cached` never looks into the caches it
fills (`MayConsult`; only precache with the application cache off reads them),
against skills/man/SKILL.md:23. And when a replaced executable is noticed by the bot
before the path unit acts, the bot ends well, `Restart=on-failure` does not apply
and `try-restart` finds nothing to restart: the bot stays down until somebody
starts it, which is why `EveryUpdateHandled` needs `WF(Operator)`.

Why these bounds are enough to be interesting. Three segments with a paragraph
of two give a held back chunk, an owner that is complete, incomplete or half
failed, and a successor that finishes first. A token and a restart give a draft
that is published before its segment completes, or taken back. Capacity 1 makes both channels full after one message, so
every task and the coordinator block somewhere. One retry is exhausted in the
next step; one restart is enough to join two bodies if the code did. The second
invocation reads what the first one stored or left half stored. In the cache,
two threads are a leader and a follower or two overlapping observations, one
replacement separates any two network calls, and one clear or one crash falls
between any two steps. The follower finds that its leader replied, replied without
being admitted, or failed before it had a reply. `MaxChanges` bounds replacements,
clears and crashes together: with fairness, `cache_rows` takes one of them at a time,
and `cache_crash` all three. That an answer goes only to its own payload needs two
payloads, which neither run has beside a follower or a crash; it is proved.
In `config_preflight` two saves change the endpoint and
change it back while a probe is in flight, one endpoint gives each request half of
what is configured and a false end token, and the table has two slots; the claim reloads the live
configuration under the translator's hands, and the translator may start again
any number of times. In `segment_request` two retries let a connect fail and a
body break in the same request, the completeness retry starts a second request
with a new budget, one permit makes each worker wait for the other's reader, and
the responses cover every way a body can end: declared, by `[DONE]` alone, by
length, silently, broken before and after text, unreadable, and not SSE at all.
In `bot` one end of the process is enough for redelivery, and it may come at any
step and for any reason; three updates put a claim between two texts. In
`documents` the limits (segments of 4, requests of 7 with a framing of 1, text
counted twice) make short texts split at every level and refuse some; two cached
segments stand before, between and behind the missing ones. In `workflows` the two
notes share a segment, one has a paragraph of two pieces, each pair of commands
meets in one resource (history, output file, page cache) or takes a path of its own
(a refused combination, a plan, an original page, a question to the history, an empty
file, a file that is missing), one page
is in the shared tier, and a single fault falls on any step of either.

Fairness. `StreamPipeline`: the coordinator and each task are polled by tokio; a
task ends because every HTTP request carries the client timeout
(`hymt-client/src/lib.rs:421`) and retries are bounded; `Receive` is fair as long
as the consumer keeps its receiver: nothing is assumed of one that closes it, and
no fairness is put on `CloseReceiver`, kills or new invocations.
`InferenceCache`: each thread that has taken a request is fair, upstream calls end within the request's
`_Budget`; nothing is assumed of clients, operator, backend or crashes. A follower's
deadline (`Expire`) is not counted on: it has to be woken by its leader.
`SegmentRequest`: every worker and every reader is polled by tokio, a post ends in
an answer or in the client timeout, backoffs end; no fairness is put on dropping a
task, and dropped tasks do not help others along.
`TelegramBot`: the process runs; a call to the server that is made again and again
succeeds at last (strong fairness of `Poll` alone, since a failed call is a step
of its own); systemd does what the units say; and somebody starts a bot that stays
down. Nothing is assumed of people, edits, signals or crashes.
`HotConfig`, `DocumentOutput` and `Workflows` have safety properties only and no
fairness.

Every property of a passing run has a mutant: a definition with a plausible
mistake, placed before the one it would replace and called a mutant or a bug in
its comment, under which TLC finds the property violated.

## 4. Proofs

`StreamPipelineProofs` proves eight theorems for every document (`N`, `Owner`),
every set of modes and policies, and every bound:

- `TypeCorrect`: `Spec => []TypeOK`. `TypeOK` alone is not inductive:
  `SendTerminal` writes to the event channel without looking at its capacity,
  because `reserve()` took the slot before. `TypeInv` adds `SlotReserved`: from
  admission to the terminal event nothing else is sent, and the channel has room.
- `StoredTextSound`: `Spec => []StoreSound`. A row's text comes from `text`, a
  text from a `completed` message, a message from a task's draft, so
  `StoreInv` carries purity back along that way: `TasksPure` (a draft holds units
  of its task's current attempt), `ChannelPure` (so do messages in the channel),
  `TablesPure` (a candidate's text is an answer; what is not an answer is
  degraded), and `AnsweredOnce` (a segment has at most one completion in the
  channel, and none once it is in `got`), without which a late second completion
  could make a stored candidate impure.
- `ProofsFirstHand`: `Spec => ProofIsFirstHand`, an action property, from the
  same invariant: as long as `provable` holds, every answered segment's task
  reported the verdict of its initial request.
- `OutputOrdered`, `OutputFinal`, `OwnersShownWhole`, `RowsAfterDelivery` and
  `PipelineImplementsContract` state `OrderedOutput`, `ShownIsFinal`, `OwnersWhole`,
  `StoredAfterDelivery` and the refinement of `TranslationContract`. They share
  one inductive invariant, since what is shown, in what order, and what is stored
  when cannot be told apart: an event is sent long before the text it belongs to
  is final.

`StreamInv` has these parts besides `TypeInv` and `StoreInv`:

- `FlowInv` says which messages can still come: nothing of an earlier invocation
  is left (`CleanStart`), each phase belongs to a mode (`PhaseInv`), and the tokens of a segment
  come before its outcome (`MessagesInv`).
- `TextsInv`: Optimistic output retains no source (`NoDegraded`), and what is not
  retained is an answer, a whole owner at a time once finalized (`AnswersInv`).
- `ParagraphInv`: the cursor of Paragraph output rests at the beginning of an owner,
  and what is ready of that owner is counted rightly (`Counted`), which is what keeps
  a held back chunk from being forgotten or shown twice.
- `EventsInv` describes the events that were sent (`SentInv`) and how the outbox
  goes on where they stop (`QueueInv`). `Cursor` and `Due(i)` stand for the marks
  and the text of segment i once the outbox is empty, so that the other parts need
  not know how far sending has come, and a send changes neither.
- `OptimisticInv`, `ParagraphEvents`, `ValidatedEvents` and `EndEvents` say for each mode
  and phase what is due.
- `DraftsInv` is the heart of Optimistic output: all that was told of a segment that
  has no answer yet, shown, pending or in the channel, comes from one attempt, and the
  task has drafted exactly as many units. Counting (`Told`) replaces saying which
  unit is where. A restart is possible only while nothing was told, and the answer
  extends whatever was shown.

Most lemmas about `Shown` rest on three facts about `FlattenSeq`, which is defined by
recursion. They are proved without induction from its defining equation: two
functions that satisfy it agree, as the least index where they differ would be one
where they agree, and one exists, as the least length without one would have one.
`OwnersWhole` is not a consequence of one state of the tables, because an invocation
that ends by an error leaves what it has shown: `OwnersLive` covers the others, and
`OwnersDue` the outbox. For the refinement, every step of the pipeline is shown
to keep `Delivered` or to raise it to at most `N`, to change `store` only with all
`N` marks sent, and to end a run only in the ways the contract has.

`InferenceCacheProofs` proves seven theorems for any threads, payloads, backends, clears
and crashes: `TypeCorrect`, `RowsAreHonest`, `RowsAreCurrent`, `HitsAreHonest`,
`ClearsAreFinal`, `InterruptionBlocks` and `AuthorityIsOrdered`. One invariant, `Inductive`, serves
all of them:

- `PlanningHeld`: there is at most one authority, of the epoch in force, and
  it names backends installed so far.
- `GuardHeld`: whoever may leave the authority in doubt has the guard file denying
  first, and a crash in that condition is remembered by the file or by the revocation;
  this is what `InterruptedBlocksReplay` follows from. `DownIsQuiet`: no thread
  survives a crash.
- `Sound(r)`, for every thread: `Saw` (what it observed is what the backends were when
  it asked, and its number is not from the future), `Recorded` (its record and key belong together,
  the key has its own payload, and the authority has not moved back since), `Confirming`
  (its answer was given to its payload,
  after the record was taken and before what the confirming observation has seen), `Vouched`
  (where an answer is stored, shared or served it is the answer of the model, and to the payload, it is filed
  under). Backends only grow, so the two sides of `Confirming` meet in one
  backend when the confirmation agrees with the record.
- `Follows`: a follower has its leader's key.

`RowsCurrent` needs no lock across the insert and another process's clear, because the
clear raises the epoch in the transaction that empties the table, and the insert compares it.

`HotConfigProofs` proves five theorems for any processes, threads, jobs, settings,
tables, replies and number of saves:

- `ConfigTypeCorrect`: `Spec => []TypeOK`, which includes that a configuration
  and a client hold at most one fact, and that a fact is one that a reply can tell,
  also after the tokenizer was asked.
- `FactsStayOwned`: `Spec => []FactsOwned`. What a probe finds is published several
  requests after the configuration was read, so `FactsOwned` alone is not
  inductive. `IInv` adds `InFlight(t)`: the generation at which a preflight began
  is never in the future, and as long as it is still the live one, the key and the
  fact gathered so far name the live endpoint. `Install` is the only step that
  changes the endpoint and it also increments the generation, which makes every
  preflight in flight vacuous; `Publish` tests the generation in the step that
  writes. The theorem does not need `OneTranslator`.
- `PlansFit`: `Spec => []PlanFits`. That a fact names the right endpoint does not say
  that it was read by the adapter in force, and the numbers in it depend on the adapter.
  `PlanInv` therefore adds to `IInv` that the key's adapter is the live one as long as the
  generation is (`Grounded`), that a complete answer is one the endpoint of the fact can give
  to that adapter (`Honest`), also when the tokenizer has to be asked for its end token
  (`HalfAsked`), and that configurations, entries and snapshots hold only such facts
  and a text that loads (`SoundConfig`, `Filed`). The rest is arithmetic of the getters:
  `ShareFits` for the slots' share, `LeastBounds` for what a fact may cut.
- `StoredAnswersTheSame`: `Spec => []StoredForTheSame`. Two digests that are equal were made
  from equal parts, so the theorem is about what is among the parts. `RowsFitAll` and
  `ReplaysFitAll` show for any two configurations that equal digests under a verified identity
  mean the same request and the same samplers, those left to the service included;
  `OutageFitsSound` shows that what a plan can prove is found again by a copy of
  the configuration to which the retained facts are put. Facts matter to all of this only by
  what they tell, not by which endpoint told it (`ToldIsAll`), and `PlanInv`
  says that a plan has at most one.
- `StrictPlansVerified`: `Spec => []StrictIsVerified`. `Publish` writes a fact before
  `Report` refuses it, so a strict configuration may for some steps hold a fact that
  nobody vouches for. `StrictInv` says when: only while the translator is between the two
  (`Unreported`), and then the warnings it carries are those of the live
  configuration (`Accounted`). Everywhere else configurations and snapshots are `Vetted`.
  The facts that an invocation binds from the client's entries are covered by `EntriesApt`:
  the warnings filed with an entry are those of the configuration of its generation,
  and generations are never in the future. This proof needs `OneTranslator`: a second
  translator of the same process could take its snapshot inside the window.

`SegmentRequestProofs` proves six theorems for any segment tasks, responses,
permits and retry limits:

- `RequestTypeCorrect`: `Spec => []TypeOK`, with the capacity of every channel.
- `PostsStayBounded`: `Spec => []PostsBounded`. `Metered(w)` says why: a request
  that waits or is about to be posted has paid for every post so far, one that has
  been posted for all but one, and `used` never exceeds the limit.
- `LoadStaysBounded`: `Spec => []LoadBounded`. The same `Metered(w)` says that whoever
  posts or reads has a permit; permits are given out one at a time while there are
  some, so the set of open requests is a subset of a set of at most `Permits`.

- `AnswersAreOneBody`: `Spec => []AnswerIsOneBody`, and `ColdStaysFirst`:
  `Spec => []ColdIsFirst`, from `AnswerInv`. Reader and worker run side by side, so what the worker
  holds says nothing of the body until it has heard what is pending in channel and
  outbox. `Heard(w)` says that this much leads it to a reading `h`, and
  `Reached(w, h)` what `h` is: nothing before a post is answered, the units of the body up
  to the reader's position while it reads, all of a body that was not cut when it
  has left. `Leads` states that as the existence of a run, one reading per event, so that no
  recursion is needed; a step that says more extends the run (`Carries`), and one that hears
  drops its first element. A worker that keeps drafts is never sent a restart once
  there is text (`final`).
- `RequestsImplementAttempt`: `Spec => ImplementsAttempt`. `Seen(w)` lists the steps of
  `SegmentAttempt` as far as one worker is concerned; every step of a request is one of them
  or a stutter, and `SeenIsStep` lifts it to the functions over all workers.

`TelegramBotProofs` proves four theorems for any inboxes, chats, settings and bounds,
two from one invariant of the poll loop and one each from its own:

- `NothingSkipped`: `Spec => []NoneSkipped`, and `NothingRepeated`:
  `Spec => []RepeatedOnlyAfterLoss`, from `LoopInv`. What the server gives up depends
  on the offset, the offset on the batch, and the batch on what the server kept when it
  answered: `Passed` (everything below the offset is handled or under way), `Listed` (an
  answer holds all that was not handled), `Ahead` (what is left of it is still kept)
  and `Clean` (what the server keeps above the offset was not begun, or is excused).
- `AnswersHonest`: `Spec => []RepliesHonest`, from `ReplyInv`: what a handler has
  checked stays true while it runs, because nothing takes an owner away.
- `FinalTextShown`: `Spec => []FinalShown`, from `Drawn`: the text that the batcher
  remembers as sent, if it is the latest, is the last that the chat shows.

`WorkflowsProofs` proves five theorems for any processes, commands, files, programs, earlier
histories and number of faults:

- `Commanded`: `Spec => []CommandInv`, the inductive invariant that the others need.
- `PublishedWhole`: `Spec => []OutputsWhole`. A file that hymt has written is the translation
  of one whole text, however many processes wrote, failed or were killed.
- `OriginalsNotCached`: `Spec => []RetainedNotCached`. No page that retains an original
  reaches a page cache.
- `HistorySurvives`: `Spec => RowsSurvive`. A row of the history vanishes only under a newer
  translation of the same key or by a clear, a task only by a clear; no upgrade loses either.
- `StatusesHonest`: `Spec => []StatusHonest`. A command that reports success has published
  or shown every target it planned; one that reports failure has not, or keeps a piece in the
  original; `translate-doc` and `exec` have tried them all.

`CommandInv` follows a text from the row to the file:

- `HistoryInv`: what a call carries and what the database answers is a translation of its key;
  while the write lock is held, the draft of its holder has the rows and tasks that the file
  has (`Drafted`), which is what makes `Commit` lose nothing; only a clear comes back for a
  second statement.
- `TranslationInv`: what an invocation holds of its segments, in each phase of
  `translate_text`, are translations of the segments its job asks for.
- `WorkInv`: what a command holds when it writes is a translation of what it had read
  (a text that could not be read is never written), and
  a page it is about to keep retains no original.
- `TempsInv`: a temporary name in use belongs to one writer, since `Create` refuses one that
  exists, and its content is a beginning of what that writer wants to publish. Without it the
  rename could publish what another process had begun.
- `DiskInv` and `PagesInv` say the same of the files and of both tiers of the page cache.

`StatusesHonest` also needs `AccountInv`, which counts. From the plan on, every target is on
the list or in hand, done, or failed, and the numbers add up (`Balanced`); only `doc`, `exec`
and `precache` count failures, the others end at the first. The sum holds because no list
names a target twice: `Scanning` says so of a batch whose files are still being gone through,
`PlanDocuments` takes each source once, and `FlattenTwice` joins the pages of `precache`, which
differ in command or argument. At the end nothing is left, so no failure means that
what is done is the plan.

The assumptions are that the directory listing is finite, that the files a command names are
in it, that `file` goes with one of them, that the input of `text` exists, that an earlier release left only translations in the
history, that programs print texts, and that no program on PATH is called `--help` (its manual
and the help of `man` would be one page).

`DocumentPlanProofs` and `DocumentOutputProofs` prove all five properties of the run
`documents` for any documents, limits, counting factor, replies, modes and cached segments, and
for any order in which segments complete or fail:

- `PlanWholeHolds`: `Spec => []PlanWhole`, what a plan keeps, groups and bounds.
- `RegionsExactHolds`: `Spec => []RegionsExact`, where an outcome is untranslated.
- `EchoKeepsDocumentHolds`: `Spec => []EchoKeepsDocument`. A model that repeats its
  source gives the document back.
- `PublishedWhenSettledHolds`: `Spec => []PublishedWhenSettled`, when a paragraph is published.
- `StreamsTheDocumentHolds`: `Spec => []StreamsTheDocument`. A stream ends with exactly
  the text that the buffered path returns.

The first module is about the operators. Every loop of the code is `Loop`, a recursive function
on the passes; `LoopExists` gives its values pass by pass, `LoopUnique` says there are no others,
and `Onward` carries a fact from each pass to the next by a least counterexample, since the
induction theorems of the library, which take an operator, cannot be used. Lists
are kept opaque (`Lists`), with a few lemmas on cutting and joining. On these rest the lemmas
on lines, reading Markdown, paragraphs, references written out, groups, packing and
the refit to the request budget, up to `Planned`: sections hold the document, groups
partition what is to be translated, segments join to their group, and source
ranges lie in the document, in order. `Layout` is what the rest needs of that: groups
are stretches of sections of one paragraph, in the order of the segments.

A state of an invocation keeps its plan (`Prepared`) and a text for each segment that has
one, with `final` the buffered outcome once done (`Filled`). What a body is, section by section,
is `Bodies`; what a group has been given up to a segment, newlines restored, is
`Collected`. `PublishedSame` is the core of both streams: the scan backwards in
`NewlineAfter`, which looks at texts and earlier segments only, publishes just the
newlines that make up for what the buffered path has collected forwards. `Regioned` follows the
regions through the body, and the echo argument joins the groups back into sections.

Three more parts of the invariant are about streams:

- `Settling`: a paragraph stream stands between paragraphs (`Boundary`), has counted right what
  it waits for (`Waiting`), and lacks a text of the next paragraph (`Waits`).
- `Foretold`: whatever texts are still to come and whatever segments are still to fail, what a
  paragraph stream has published is the body it will make, up to the section that is next.
  A statement about the texts that are there would not be inductive, because no body
  exists before all of them do; so `Tells` quantifies over all that could come and agree with
  what is published.
- `Following`: the same of optimistic output, which may have shown a text before it was
  complete (`Shown`); the other modes have published nothing, and replay all at the end.

At `Finish` the texts that could come are those that are there, no section to be translated is
left, and what is delivered closes the gap (`DeliverIs`). The assumptions are
`PlanAssumption` (positive limits, a capacity above the framing) and `OutputAssumption`
(documents and replies are texts).

Each is laid out as Init, one lemma or step per action, and a temporal QED. All
properties were first checked by TLC, and all inductive invariants but those of the documents, some of
which speak of every text that could still come. Assumptions are those of the modules
(`NAssumption`, `OwnerAssumption`, `BoundsAssumption`, `NoTextAssumption` and the
three on modes, settings and policies in `StreamPipeline`; `KindAssumption`,
`PayloadAssumption` and `CountAssumption` in `InferenceCache`; `HomeAssumption`,
`JobAssumption`, `SettingsAssumption` and `SavesAssumption` in `HotConfig`;
`WorkersAssumption`, `RepliesAssumption` and `LimitsAssumption` in `SegmentRequest`;
`WidthAssumption` and `ProfilesAssumption` in `FileSettings`; `InboxesAssumption`,
`OptionsAssumption`, `ReasonsAssumption`, `BotBoundsAssumption` and
`NothingAssumption` in `TelegramBot`; `DiskAssumption`, `PathsAssumption`,
`InputsAssumption`, `BeginningsAssumption`, `MaxFaultsAssumption`, and those of
`HistoryDB`, `BufferedTranslation` and `CommandOutput` in `Workflows`), evaluated by TLC in every run. Both
`TypeCorrect`, `RequestTypeCorrect` and `ConfigTypeCorrect` state type invariants that no run lists: the runs spend their
properties on what could go wrong, and the theorems cover the types.

Only model-checked: all liveness (`EveryRunEnds`, `EveryRequestEnds`,
`EverySegmentEnds`, `PermitsReturn`, `EveryUpdateHandled`), which is out of the prover's
reach. Every invariant and every other action property or refinement of a passing run has a theorem. The
three properties of the runs that expect a violation do not hold and have none.

## 5. Plan

Done: the streaming pipeline with its contract; the inference cache; the
configuration, its file, the backend's facts and the inference fingerprint; the client's requests;
the bot; the document plan and output; the history file; the buffered translation; the commands
with their output files and page caches. Forty theorems about seven of them, in eight modules.

Left:

- A clock in `HotConfig`, to state how old a published fact may be when a batch or a
  bot session plans with it (the hazard at `translate.rs:1658`).
- The segmenter's own Markdown blocks and the byte offsets of the CommonMark parser, which
  `DocumentPlan` replaces by rules on classes of tokens.

## Not modelled

- Prompts and chat templates, Unicode, the tokenizer, the CommonMark parser and the
  language detector: pure text processing, abstracted to classes of tokens.
- Argument parsing, printing, colours, the pager, questions to the user, the shell
  plugin: input and output without state of their own.
- The benchmark runner and developer hooks: tools around the system, on which it does
  not rely.
- File modes, symbolic links and the inode test when a temporary file is removed.
- Statistics and listings of the history, and the arithmetic of estimates: they only
  read.
- `POST /tokenize`, size limits, semaphores and unreadable rows of the inference
  cache.
- Configuration keys other than endpoint, strictness, telegram section, contexts,
  adapter, profile, model, retries, policy and generation overrides. `HistoryDB` takes the
  inference fingerprint for one of two scopes.
