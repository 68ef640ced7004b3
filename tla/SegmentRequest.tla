--------------------------- MODULE SegmentRequest ---------------------------
(***************************************************************************)
(* The requests behind one segment: crates/hymt-client (completion_stream, *)
(* RetryBudget, the SSE reader) and the two callers that read them in      *)
(* translate.rs (translate_segment_with_completeness and its streaming     *)
(* form).                                                                  *)
(*                                                                         *)
(* A worker is a segment task.  It asks for a stream, reads it to its end, *)
(* judges what it has, and may ask again.  Behind every stream a reader    *)
(* task posts the request, parses the response, and posts it again when    *)
(* the response breaks, all from one retry budget.  A permit of a shared   *)
(* semaphore covers everything from the first post to the end of the       *)
(* reader.                                                                 *)
(*                                                                         *)
(* A response is a script: what its body says, in order, and whether the   *)
(* connection breaks at its end.  A unit of text is the number of the post *)
(* that brought it.  Line and UTF-8 framing inside a body is left out, and *)
(* so is translate_stream, which no other crate calls.                     *)
(***************************************************************************)
EXTENDS Naturals, Sequences, FiniteSets

CONSTANTS
    Workers,     \* segment tasks that share one client
    Drafting,    \* workers in Optimistic mode: their first stream is a draft
    Replies,     \* responses a server may give
    Permits,     \* [translation].concurrency
    MaxRetries,  \* network_max_retries
    MaxRepeats,  \* completeness_max_retries
    Cap          \* capacity of the channel between reader and worker

\* An event of an SSE body; a body that is not SSE is one event.
Item ==
    [kind : {"choice"}, text : BOOLEAN, finish : {"none", "Stop", "Length", "Unknown"}]
        \cup [kind : {"blank", "done", "bad"}, text : {FALSE}, finish : {"none"}]
Reply == [items : Seq(Item), sse : BOOLEAN, cut : BOOLEAN, cold : BOOLEAN]

ASSUME WorkersAssumption == IsFiniteSet(Workers) /\ Drafting \subseteq Workers
ASSUME RepliesAssumption ==
    /\ Replies \subseteq Reply
    /\ \A r \in Replies :
         ~r.sse => Len(r.items) = 1 /\ r.items[1].kind \in {"choice", "bad"}
ASSUME LimitsAssumption ==
    /\ Permits \in Nat \ {0} /\ Cap \in Nat \ {0}
    /\ MaxRetries \in Nat /\ MaxRepeats \in Nat

VARIABLES
    seg,    \* local state of each worker
    req,    \* the request of each worker and its reader task
    outbox, \* events the reader is about to send
    chan,   \* the channel to the worker
    open,   \* the worker holds the receiver
    held    \* requests that hold a permit

vars == <<seg, req, outbox, chan, open, held>>

\* TranslationStreamEvent, ColdGeneration as two kinds, or an error.
Terminations == {"Stop", "Length", "Unknown", "MissingTerminal"}
Event == [kind : {"cold", "warm", "restarted", "unit", "finished", "error"},
          body : Nat, termination : Terminations]
Plain(kind) == [kind |-> kind, body |-> 0, termination |-> "Unknown"]
UnitOf(body) == [Plain("unit") EXCEPT !.body = body]
Finished(termination) == [Plain("finished") EXCEPT !.termination = termination]

NoReply == [items |-> <<>>, sse |-> TRUE, cut |-> FALSE, cold |-> FALSE]
NoRequest == [pc |-> "none", spawned |-> FALSE, broken |-> FALSE, used |-> 0, posts |-> 0,
              reply |-> NoReply, pos |-> 0, terminal |-> FALSE, choice |-> FALSE,
              content |-> FALSE]
NewSegment == [pc |-> "call", attempt |-> 0, text |-> <<>>, term |-> "Unknown",
               cold |-> FALSE, result |-> "none"]

Init ==
    /\ seg = [w \in Workers |-> NewSegment]
    /\ req = [w \in Workers |-> NoRequest]
    /\ outbox = [w \in Workers |-> <<>>]
    /\ chan = [w \in Workers |-> <<>>]
    /\ open = [w \in Workers |-> FALSE]
    /\ held = {}

\* A first request of a drafting worker must not repeat what it has sent.
Recovers(w) == w \notin Drafting \/ seg[w].attempt > 0

\* A reader runs its own code only when its events have gone out.
At(w, pc) == req[w].pc = pc /\ outbox[w] = <<>>
Go(w, pc) == req' = [req EXCEPT ![w].pc = pc]
Say(w, events) == outbox' = [outbox EXCEPT ![w] = events]

\* The task returns an answer, whose provenance counts only for the first stream,
\* or none: then its locals mean nothing any more.
Answer(w, result) ==
    seg' = [seg EXCEPT ![w].pc = "ended", ![w].result = result,
                       ![w].cold = @ /\ result = "first"]
GiveUp(w, result) ==
    seg' = [seg EXCEPT ![w] = [NewSegment EXCEPT !.pc = "ended", !.result = result]]
Dropped(w) == req' = [req EXCEPT ![w] = [NoRequest EXCEPT !.pc = "gone"]]

-----------------------------------------------------------------------------
(* Before the stream exists: the worker itself runs completion_stream.      *)

Call(w) ==
    /\ seg[w].pc = "call"
    /\ seg' = [seg EXCEPT ![w].pc = "asking"]
    /\ req' = [req EXCEPT ![w] = [NoRequest EXCEPT !.pc = "queued"]]
    /\ open' = [open EXCEPT ![w] = TRUE]
    /\ UNCHANGED <<outbox, chan, held>>

Acquire(w) ==
    /\ req[w].pc = "queued"
    /\ Cardinality(held) < Permits
    /\ held' = held \cup {w}
    /\ Go(w, "connect")
    /\ UNCHANGED <<seg, outbox, chan, open>>

-----------------------------------------------------------------------------
(* connect and json share one budget per request. *)

Post(w) ==
    /\ At(w, "connect")
    /\ req' = [req EXCEPT ![w].pc = "posted", ![w].posts = @ + 1]
    /\ UNCHANGED <<seg, outbox, chan, open, held>>

\* An error reaches the worker as a return value or through the channel.
Fail(w) ==
    IF req[w].spawned
      THEN /\ Say(w, <<Plain("error")>>)
           /\ Go(w, "leave")
           /\ UNCHANGED <<seg, open, held>>
      ELSE /\ Dropped(w)
           /\ held' = held \ {w}
           /\ open' = [open EXCEPT ![w] = FALSE]
           /\ GiveUp(w, "error")
           /\ UNCHANGED outbox

\* RetryBudget::wait, after a failed connect or a broken body.
Wait(w, broken) ==
    IF req[w].used = MaxRetries
      THEN Fail(w)
      ELSE /\ req' = [req EXCEPT ![w].pc = "backoff", ![w].used = @ + 1, ![w].broken = broken]
           /\ UNCHANGED <<seg, outbox, open, held>>

\* A status or transport error that may heal, and one that does not.
PostFails(w) ==
    /\ At(w, "posted")
    /\ Wait(w, FALSE) \/ Fail(w)
    /\ UNCHANGED chan

Responded(w, r) ==
    [req[w] EXCEPT !.pc = "read", !.spawned = TRUE, !.broken = FALSE, !.reply = r, !.pos = 0,
                   !.terminal = FALSE, !.choice = FALSE, !.content = FALSE]

\* Mutant of Respond: the permit is dropped when the reader is spawned.
LooseRespond(w, r) ==
    /\ At(w, "posted")
    /\ req' = [req EXCEPT ![w] = Responded(w, r)]
    /\ Say(w, <<Plain(IF r.cold /\ req[w].used = 0 THEN "cold" ELSE "warm")>>)
    /\ seg' = IF req[w].spawned THEN seg ELSE [seg EXCEPT ![w].pc = "reading"]
    /\ held' = held \ {w}
    /\ UNCHANGED <<chan, open>>

\* Mutant of Respond: any answer may vouch for a cold generation.
TrustingRespond(w, r) ==
    /\ At(w, "posted")
    /\ req' = [req EXCEPT ![w] = Responded(w, r)]
    /\ Say(w, <<Plain(IF r.cold THEN "cold" ELSE "warm")>>)
    /\ seg' = IF req[w].spawned THEN seg ELSE [seg EXCEPT ![w].pc = "reading"]
    /\ UNCHANGED <<chan, open, held>>

\* A head arrives.  The first one spawns the reader, which takes the permit
\* along, and gives the worker its stream.  Only an answer to the first post can
\* vouch for a cold generation.
Respond(w, r) ==
    /\ At(w, "posted")
    /\ req' = [req EXCEPT ![w] = Responded(w, r)]
    /\ Say(w, <<Plain(IF r.cold /\ req[w].used = 0 THEN "cold" ELSE "warm")>>)
    /\ seg' = IF req[w].spawned THEN seg ELSE [seg EXCEPT ![w].pc = "reading"]
    /\ UNCHANGED <<chan, open, held>>

\* Mutant of Backoff: a broken body starts a budget of its own.
RenewingBackoff(w) ==
    /\ At(w, "backoff")
    /\ Say(w, IF req[w].broken THEN <<Plain("restarted")>> ELSE <<>>)
    /\ req' = [req EXCEPT ![w].pc = "connect", ![w].broken = FALSE,
                         ![w].used = IF req[w].broken THEN 0 ELSE @]
    /\ UNCHANGED <<seg, chan, open, held>>

\* The backoff is over; a broken body is announced before the next post.
Backoff(w) ==
    /\ At(w, "backoff")
    /\ Say(w, IF req[w].broken THEN <<Plain("restarted")>> ELSE <<>>)
    /\ req' = [req EXCEPT ![w].pc = "connect", ![w].broken = FALSE]
    /\ UNCHANGED <<seg, chan, open, held>>

-----------------------------------------------------------------------------
(* The reader: read_completion_stream and parse_sse_with_completion. *)

Unit(w, i) == IF i.text THEN <<UnitOf(req[w].posts)>> ELSE <<>>
Finish(i) == IF i.finish = "none" THEN <<>> ELSE <<Finished(i.finish)>>

NextItem(w) == req[w].reply.items[req[w].pos + 1]

\* flush_completion_sse_data.
ReadItem(w) ==
    /\ At(w, "read")
    /\ req[w].reply.sse /\ req[w].pos < Len(req[w].reply.items)
    /\ LET i == NextItem(w)
           read == [req[w] EXCEPT !.pos = @ + 1]
       IN  \/ /\ i.kind = "choice"
              /\ req' = [req EXCEPT ![w] = [read EXCEPT
                           !.choice = TRUE, !.content = @ \/ i.text,
                           !.terminal = @ \/ i.finish # "none"]]
              /\ Say(w, Unit(w, i) \o Finish(i))
           \/ /\ i.kind = "blank"
              /\ req' = [req EXCEPT ![w] = read]
              /\ UNCHANGED outbox
           \/ /\ i.kind = "done" /\ req[w].choice
              /\ req' = [req EXCEPT ![w] = [read EXCEPT !.terminal = TRUE]]
              /\ Say(w, IF req[w].terminal THEN <<>> ELSE <<Finished("Stop")>>)
           \/ /\ i.kind = "bad" \/ (i.kind = "done" /\ ~req[w].choice)
              /\ req' = [req EXCEPT ![w] = [read EXCEPT !.pc = "leave"]]
              /\ Say(w, <<Plain("error")>>)
    /\ UNCHANGED <<seg, chan, open, held>>

\* Mutant of EndOfBody: an end without a terminal is not the end.
PatientEndOfBody(w) ==
    /\ At(w, "read")
    /\ req[w].reply.sse /\ req[w].pos = Len(req[w].reply.items) /\ ~req[w].reply.cut
    /\ req[w].terminal
    /\ Say(w, IF req[w].terminal THEN <<>> ELSE <<Finished("MissingTerminal")>>)
    /\ Go(w, "leave")
    /\ UNCHANGED <<seg, chan, open, held>>

\* The connection ends in order: a body without a terminal says so.
EndOfBody(w) ==
    /\ At(w, "read")
    /\ req[w].reply.sse /\ req[w].pos = Len(req[w].reply.items) /\ ~req[w].reply.cut
    /\ Say(w, IF req[w].terminal THEN <<>> ELSE <<Finished("MissingTerminal")>>)
    /\ Go(w, "leave")
    /\ UNCHANGED <<seg, chan, open, held>>

\* Mutant of BodyBreaks: a broken body is asked for again, whatever has been sent.
EagerBodyBreaks(w) ==
    /\ At(w, "read")
    /\ req[w].reply.cut
    /\ req[w].reply.sse => req[w].pos = Len(req[w].reply.items)
    /\ Wait(w, TRUE)
    /\ UNCHANGED chan

\* The connection breaks; what the worker cannot take back is not asked again.
BodyBreaks(w) ==
    /\ At(w, "read")
    /\ req[w].reply.cut
    /\ req[w].reply.sse => req[w].pos = Len(req[w].reply.items)
    /\ IF Recovers(w) \/ ~req[w].content THEN Wait(w, TRUE) ELSE Fail(w)
    /\ UNCHANGED chan

\* A response that is not an event stream is read whole.
ReadWhole(w) ==
    /\ At(w, "read")
    /\ ~req[w].reply.sse /\ ~req[w].reply.cut
    /\ LET i == req[w].reply.items[1]
       IN  IF i.kind = "bad"
             THEN Fail(w)
             ELSE /\ Say(w, Unit(w, i) \o <<Finished(
                              IF i.finish = "none" THEN "Unknown" ELSE i.finish)>>)
                  /\ Go(w, "leave")
                  /\ UNCHANGED <<seg, open, held>>
    /\ UNCHANGED chan

\* Mutant of Emit: the channel to the worker has no capacity.
UnboundedEmit(w) ==
    /\ outbox[w] # <<>>
    /\ open[w]
    /\ chan' = [chan EXCEPT ![w] = Append(@, Head(outbox[w]))]
    /\ outbox' = [outbox EXCEPT ![w] = Tail(@)]
    /\ UNCHANGED <<seg, req, open, held>>

Emit(w) ==
    /\ outbox[w] # <<>>
    /\ open[w] /\ Len(chan[w]) < Cap
    /\ chan' = [chan EXCEPT ![w] = Append(@, Head(outbox[w]))]
    /\ outbox' = [outbox EXCEPT ![w] = Tail(@)]
    /\ UNCHANGED <<seg, req, open, held>>

\* The task ends: sender and permit are dropped.
Leave(w) ==
    /\ At(w, "leave")
    /\ Go(w, "gone")
    /\ held' = held \ {w}
    /\ UNCHANGED <<seg, outbox, chan, open>>

\* Mutant of Cancelled: a cancelled reader does not return its permit.
LeakyCancelled(w) ==
    /\ req[w].spawned /\ req[w].pc # "gone" /\ ~open[w]
    /\ Dropped(w)
    /\ Say(w, <<>>)
    /\ UNCHANGED <<seg, chan, open, held>>

\* closed() wins the select as soon as the receiver has been dropped.
Cancelled(w) ==
    /\ req[w].spawned /\ req[w].pc # "gone" /\ ~open[w]
    /\ Dropped(w)
    /\ Say(w, <<>>)
    /\ held' = held \ {w}
    /\ UNCHANGED <<seg, chan, open>>

-----------------------------------------------------------------------------
(* The worker reads its stream to the end. *)

\* Mutant of Take: units of the broken body stay in the text.
KeepingTake(w) ==
    /\ seg[w].pc = "reading" /\ chan[w] # <<>>
    /\ LET e == Head(chan[w])
       IN  CASE e.kind \in {"cold", "warm"} -> seg' = [seg EXCEPT ![w].cold = e.kind = "cold"]
             [] e.kind = "restarted" ->
                  seg' = [seg EXCEPT ![w].term = "Unknown", ![w].cold = FALSE]
             [] e.kind = "unit" -> seg' = [seg EXCEPT ![w].text = Append(@, e.body)]
             [] e.kind = "finished" -> seg' = [seg EXCEPT ![w].term = e.termination]
             [] e.kind = "error" -> GiveUp(w, "error")
    /\ chan' = [chan EXCEPT ![w] = Tail(@)]
    /\ open' = [open EXCEPT ![w] = Head(chan[w]).kind # "error"]
    /\ UNCHANGED <<req, outbox, held>>

Take(w) ==
    /\ seg[w].pc = "reading" /\ chan[w] # <<>>
    /\ LET e == Head(chan[w])
       IN  CASE e.kind \in {"cold", "warm"} -> seg' = [seg EXCEPT ![w].cold = e.kind = "cold"]
             [] e.kind = "restarted" ->
                  seg' = [seg EXCEPT ![w].text = <<>>, ![w].term = "Unknown", ![w].cold = FALSE]
             [] e.kind = "unit" -> seg' = [seg EXCEPT ![w].text = Append(@, e.body)]
             [] e.kind = "finished" -> seg' = [seg EXCEPT ![w].term = e.termination]
             [] e.kind = "error" -> GiveUp(w, "error")
    /\ chan' = [chan EXCEPT ![w] = Tail(@)]
    /\ open' = [open EXCEPT ![w] = Head(chan[w]).kind # "error"]
    /\ UNCHANGED <<req, outbox, held>>

\* validate_completion_termination.
Complete(w) == seg[w].term \in {"Stop", "Unknown"}

\* The stream has ended: accept, ask again, or give up.  Then a caller that only
\* warns keeps the source, unless a draft may have been shown.
Judge(w) ==
    /\ seg[w].pc = "reading" /\ chan[w] = <<>> /\ req[w].pc = "gone"
    /\ open' = [open EXCEPT ![w] = FALSE]
    /\ \/ Complete(w) /\ Answer(w, IF seg[w].attempt = 0 THEN "first" ELSE "retried")
       \/ /\ ~Complete(w) /\ ~Recovers(w) /\ seg[w].text # <<>>
          /\ GiveUp(w, "error")
       \/ /\ ~Complete(w) /\ (Recovers(w) \/ seg[w].text = <<>>)
          /\ IF seg[w].attempt < MaxRepeats
               THEN seg' = [seg EXCEPT ![w] = [NewSegment EXCEPT !.attempt = seg[w].attempt + 1]]
               ELSE \/ GiveUp(w, "error")
                    \/ w \notin Drafting /\ GiveUp(w, "exhausted")
    /\ UNCHANGED <<req, outbox, chan, held>>

\* The coordinator drops the task, or a prompt or payload cannot be built.  Before
\* the stream exists the request lives in the task and goes with it.
Abort(w) ==
    /\ seg[w].pc # "ended"
    /\ GiveUp(w, "error")
    /\ open' = [open EXCEPT ![w] = FALSE]
    /\ chan' = [chan EXCEPT ![w] = <<>>]
    /\ IF seg[w].pc = "asking"
         THEN Dropped(w) /\ held' = held \ {w}
         ELSE UNCHANGED <<req, held>>
    /\ UNCHANGED outbox

Reader(w) ==
    \/ Acquire(w) \/ Post(w) \/ PostFails(w) \/ (\E r \in Replies : Respond(w, r))
    \/ Backoff(w) \/ ReadItem(w) \/ EndOfBody(w) \/ BodyBreaks(w) \/ ReadWhole(w)
    \/ Emit(w) \/ Leave(w) \/ Cancelled(w)
Worker(w) == Call(w) \/ Take(w) \/ Judge(w)

Next == \E w \in Workers : Reader(w) \/ Worker(w) \/ Abort(w)

Spec == Init /\ [][Next]_vars

\* Every post ends, in an answer or in the client's timeout; backoffs end; the
\* runtime polls both tasks.  Nobody has to drop a task.
Fairness == \A w \in Workers : WF_vars(Reader(w)) /\ WF_vars(Worker(w))
FairSpec == Spec /\ Fairness

-----------------------------------------------------------------------------
(* What must hold. *)

Segment == [pc : {"call", "asking", "reading", "ended"}, attempt : 0 .. MaxRepeats,
            text : Seq(Nat), term : Terminations,
            cold : BOOLEAN,
            result : {"none", "first", "retried", "exhausted", "error"}]
Request == [pc : {"none", "queued", "connect", "posted", "backoff", "read", "leave", "gone"},
            spawned : BOOLEAN, broken : BOOLEAN, used : 0 .. MaxRetries, posts : Nat,
            reply : Replies \cup {NoReply}, pos : Nat, terminal : BOOLEAN,
            choice : BOOLEAN, content : BOOLEAN]

\* Every variable keeps its type, and the channel its capacity.
TypeOK ==
    /\ seg \in [Workers -> Segment]
    /\ req \in [Workers -> Request]
    /\ outbox \in [Workers -> Seq(Event)]
    /\ chan \in [Workers -> Seq(Event)]
    /\ \A w \in Workers : Len(chan[w]) <= Cap
    /\ open \in [Workers -> BOOLEAN]
    /\ held \subseteq Workers

\* What a whole body says, read at once instead of event by event.
Units(r) == Cardinality({k \in DOMAIN r.items : r.items[k].text})
Ending(r) ==
    LET finishes == {k \in DOMAIN r.items : r.items[k].finish # "none"}
        last == CHOOSE k \in finishes : \A j \in finishes : j <= k
    IN  CASE finishes # {} -> r.items[last].finish
          [] finishes = {} /\ ~r.sse -> "Unknown"
          [] finishes = {} /\ r.sse ->
               IF \E k \in DOMAIN r.items : r.items[k].kind = "done"
                 THEN "Stop" ELSE "MissingTerminal"

Answered(w) == seg[w].result \in {"first", "retried"}

\* An accepted text is what one unbroken response said, all of it, under the
\* ending that response declared: restarts leave no unit, terminal or flag of an
\* earlier body behind, and a stream that ends in silence, which would pass for
\* complete, never happens.
AnswerIsOneBody ==
    \A w \in Workers : Answered(w) =>
        /\ ~req[w].reply.cut
        /\ seg[w].text = [k \in 1 .. Units(req[w].reply) |-> req[w].posts]
        /\ seg[w].term = Ending(req[w].reply)

\* Only an answer to the very first post for its segment counts as generated for
\* it: an answer to a repeated post may come from the first one's work.
ColdIsFirst ==
    \A w \in Workers : Answered(w) /\ seg[w].cold =>
        seg[w].result = "first" /\ req[w].posts = 1 /\ req[w].reply.cold

\* Connects and bodies draw on one budget: a request is posted at most once more
\* often than the configuration allows retries.
PostsBounded == \A w \in Workers : req[w].posts <= MaxRetries + 1

\* The server never has more of this client's requests open than the configured
\* concurrency, also while readers outlive the tasks that dropped them.
LoadBounded ==
    Cardinality({w \in Workers : req[w].pc \in {"posted", "read"}}) <= Permits

\* Every segment comes to an end, though permits and channel slots are scarce.
EverySegmentEnds == \A w \in Workers : <>(seg[w].pc = "ended")

\* No permit is lost, whoever fails, is dropped or stops reading.
PermitsReturn == <>[](held = {})

\* What a segment task sees of all this.
Attempt == INSTANCE SegmentAttempt WITH
    MaxBodies <- MaxRetries + 1,
    phase <- [w \in Workers |->
        IF seg[w].pc = "ended" THEN "ended"
        ELSE IF seg[w].attempt = 0 THEN "stream" ELSE "repeat"],
    text <- [w \in Workers |->
        IF Answered(w) \/ (seg[w].attempt = 0 /\ seg[w].pc # "ended") THEN seg[w].text ELSE <<>>],
    outcome <- [w \in Workers |-> seg[w].result]

\* Retries, restarts and readers implement the attempt the pipeline is built on:
\* in particular a draft is never taken back.
ImplementsAttempt == Attempt!Spec

-----------------------------------------------------------------------------
(* Why posts and load are bounded. *)

\* Every post but the first has been paid for, and whoever posts has a permit.
Metered(w) ==
    /\ req[w].pc \in {"queued", "connect", "backoff"} => req[w].posts <= req[w].used
    /\ req[w].posts <= req[w].used + 1
    /\ req[w].pc \in {"connect", "posted", "backoff", "read", "leave"} => w \in held

IInv == TypeOK /\ (\A w \in Workers : Metered(w)) /\ Cardinality(held) <= Permits
=============================================================================
