------------------------ MODULE SegmentRequestProofs ------------------------
(***************************************************************************)
(* Theorems about SegmentRequest, for any workers, responses and limits.   *)
(***************************************************************************)
EXTENDS SegmentRequest, FiniteSetTheorems, TLAPS

-----------------------------------------------------------------------------
(* Types. *)

LEMMA FreshTypes ==
  /\ NewSegment \in Segment
  /\ NoRequest \in Request
  BY LimitsAssumption DEF NewSegment, Segment, Terminations, NoRequest, Request

LEMMA EventTypes ==
  /\ \A k \in {"cold", "warm", "restarted", "unit", "finished", "error"} : Plain(k) \in Event
  /\ \A b \in Nat : UnitOf(b) \in Event
  /\ \A t \in Terminations : Finished(t) \in Event
  BY DEF Plain, UnitOf, Finished, Event, Terminations

LEMMA ItemType ==
  ASSUME TypeOK, NEW w \in Workers, req[w].reply \in Replies,
         NEW k \in DOMAIN req[w].reply.items
  PROVE  req[w].reply.items[k] \in Item
  BY RepliesAssumption DEF Reply

LEMMA UnitTypes ==
  ASSUME TypeOK, NEW w \in Workers, NEW i \in Item
  PROVE  /\ Unit(w, i) \in Seq(Event)
         /\ Finish(i) \in Seq(Event)
         /\ Unit(w, i) \o Finish(i) \in Seq(Event)
         /\ i.text \in BOOLEAN
<1>1. req[w].posts \in Nat
  BY DEF TypeOK, Request
<1>2. Unit(w, i) \in Seq(Event)
  BY <1>1, EventTypes DEF Unit
<1>3. i.finish # "none" => i.finish \in Terminations
  BY DEF Item, Terminations
<1>4. Finish(i) \in Seq(Event)
  BY <1>3, EventTypes DEF Finish
<1>5. i.text \in BOOLEAN
  BY DEF Item
<1> QED
  BY <1>2, <1>4, <1>5

LEMMA SayType ==
  ASSUME TypeOK, NEW w \in Workers, NEW es \in Seq(Event), Say(w, es)
  PROVE  outbox' \in [Workers -> Seq(Event)]
  BY DEF TypeOK, Say

LEMMA LocalTypes ==
  ASSUME TypeOK, NEW w \in Workers
  PROVE  req[w] \in Request /\ seg[w] \in Segment
  BY DEF TypeOK

LEMMA RequestSet ==
  ASSUME TypeOK, NEW w \in Workers, NEW q \in Request, req' = [req EXCEPT ![w] = q]
  PROVE  req' \in [Workers -> Request]
  BY DEF TypeOK

LEMMA SegmentSet ==
  ASSUME TypeOK, NEW w \in Workers, NEW s \in Segment, seg' = [seg EXCEPT ![w] = s]
  PROVE  seg' \in [Workers -> Segment]
  BY DEF TypeOK

LEMMA DroppedType ==
  ASSUME TypeOK, NEW w \in Workers, Dropped(w)
  PROVE  req' \in [Workers -> Request]
<1>1. [NoRequest EXCEPT !.pc = "gone"] \in Request
  BY FreshTypes DEF Request
<1> QED
  BY <1>1, RequestSet DEF Dropped

LEMMA GoType ==
  ASSUME TypeOK, NEW w \in Workers,
         NEW pc \in {"none", "queued", "connect", "posted", "backoff", "read", "leave", "gone"},
         Go(w, pc)
  PROVE  req' \in [Workers -> Request]
<1>1. [req[w] EXCEPT !.pc = pc] \in Request
  BY LocalTypes DEF Request
<1>2. req' = [req EXCEPT ![w] = [req[w] EXCEPT !.pc = pc]]
  BY DEF Go
<1> QED
  BY <1>1, <1>2, RequestSet

LEMMA GiveUpType ==
  ASSUME TypeOK, NEW w \in Workers, NEW r \in {"exhausted", "error"}, GiveUp(w, r)
  PROVE  seg' \in [Workers -> Segment]
<1>1. [NewSegment EXCEPT !.pc = "ended", !.result = r] \in Segment
  BY FreshTypes DEF Segment
<1> QED
  BY <1>1, SegmentSet DEF GiveUp

LEMMA FailType ==
  ASSUME TypeOK, NEW w \in Workers, Fail(w), UNCHANGED chan
  PROVE  TypeOK'
<1>1. CASE req[w].spawned
  <2>1. req' \in [Workers -> Request]
    BY <1>1, GoType DEF Fail
  <2>2. outbox' \in [Workers -> Seq(Event)]
    <3>1. <<Plain("error")>> \in Seq(Event)
      BY EventTypes
    <3> QED
      BY <1>1, <3>1, SayType DEF Fail
  <2> QED
    BY <1>1, <2>1, <2>2 DEF Fail, TypeOK
<1>2. CASE ~req[w].spawned
  <2>1. req' \in [Workers -> Request]
    BY <1>2, DroppedType DEF Fail
  <2>2. seg' \in [Workers -> Segment]
    BY <1>2, GiveUpType DEF Fail
  <2> QED
    BY <1>2, <2>1, <2>2 DEF Fail, TypeOK
<1> QED
  BY <1>1, <1>2

LEMMA WaitType ==
  ASSUME TypeOK, NEW w \in Workers, NEW b \in BOOLEAN, Wait(w, b), UNCHANGED chan
  PROVE  TypeOK'
<1>1. CASE req[w].used = MaxRetries
  BY <1>1, FailType DEF Wait
<1>2. CASE req[w].used # MaxRetries
  <2>1. req' \in [Workers -> Request]
    <3>1. req[w].used + 1 \in 0 .. MaxRetries
      BY <1>2, LocalTypes, LimitsAssumption DEF Request
    <3>2. [req[w] EXCEPT !.pc = "backoff", !.used = @ + 1, !.broken = b] \in Request
      BY <3>1, LocalTypes DEF Request
    <3>3. req' = [req EXCEPT ![w] =
                    [req[w] EXCEPT !.pc = "backoff", !.used = @ + 1, !.broken = b]]
      BY <1>2 DEF Wait
    <3> QED
      BY <3>2, <3>3, RequestSet
  <2> QED
    BY <1>2, <2>1 DEF Wait, TypeOK
<1> QED
  BY <1>1, <1>2

LEMMA ReadItemType ==
  ASSUME TypeOK, NEW w \in Workers, ReadItem(w)
  PROVE  TypeOK'
<1> DEFINE i == NextItem(w)
           read == [req[w] EXCEPT !.pos = @ + 1]
<1>1. req[w] \in Request
  BY DEF TypeOK
<1>2. req[w].reply \in Replies
  BY <1>1 DEF ReadItem, Request, NoReply
<1>3. i \in Item
  <2>1. req[w].pos + 1 \in DOMAIN req[w].reply.items
    BY <1>1, <1>2, RepliesAssumption DEF ReadItem, Request, Reply
  <2> QED
    BY <1>2, <2>1, ItemType DEF NextItem
<1>4. read \in Request
  BY <1>1 DEF Request
<1>5. req' \in [Workers -> Request] /\ outbox' \in [Workers -> Seq(Event)]
  <2>1. CASE i.kind = "choice"
    <3>1. req' = [req EXCEPT ![w] = [read EXCEPT !.choice = TRUE, !.content = @ \/ i.text,
                                                 !.terminal = @ \/ i.finish # "none"]]
          /\ Say(w, Unit(w, i) \o Finish(i))
      BY <2>1 DEF ReadItem
    <3>2. outbox' \in [Workers -> Seq(Event)]
      BY <1>3, <3>1, UnitTypes, SayType
    <3>3. [read EXCEPT !.choice = TRUE, !.content = @ \/ i.text,
                       !.terminal = @ \/ i.finish # "none"] \in Request
      BY <1>3, <1>4, UnitTypes DEF Request
    <3> QED
      BY <3>1, <3>2, <3>3, RequestSet
  <2>2. CASE i.kind = "blank"
    BY <1>4, <2>2 DEF ReadItem, TypeOK
  <2>3. CASE i.kind = "done" /\ req[w].choice
    <3>1. req' = [req EXCEPT ![w] = [read EXCEPT !.terminal = TRUE]]
          /\ Say(w, IF req[w].terminal THEN <<>> ELSE <<Finished("Stop")>>)
      BY <2>3 DEF ReadItem
    <3>2. (IF req[w].terminal THEN <<>> ELSE <<Finished("Stop")>>) \in Seq(Event)
      BY EventTypes DEF Terminations
    <3>3. outbox' \in [Workers -> Seq(Event)]
      BY <3>1, <3>2, SayType
    <3>4. [read EXCEPT !.terminal = TRUE] \in Request
      BY <1>4 DEF Request
    <3> QED
      BY <3>1, <3>3, <3>4, RequestSet
  <2>4. CASE i.kind = "bad" \/ (i.kind = "done" /\ ~req[w].choice)
    <3>1. req' = [req EXCEPT ![w] = [read EXCEPT !.pc = "leave"]]
          /\ Say(w, <<Plain("error")>>)
      BY <2>4 DEF ReadItem
    <3>2. <<Plain("error")>> \in Seq(Event)
      BY EventTypes
    <3>3. outbox' \in [Workers -> Seq(Event)]
      BY <3>1, <3>2, SayType
    <3>4. [read EXCEPT !.pc = "leave"] \in Request
      BY <1>4 DEF Request
    <3> QED
      BY <3>1, <3>3, <3>4, RequestSet
  <2> QED
    BY <1>3, <2>1, <2>2, <2>3, <2>4 DEF Item
<1> QED
  BY <1>5 DEF ReadItem, TypeOK

LEMMA ReaderTyped ==
  ASSUME TypeOK, NEW w \in Workers, Reader(w)
  PROVE  TypeOK'
<1>1. CASE Acquire(w)
  BY <1>1, GoType DEF Acquire, TypeOK
<1>2. CASE Post(w)
  <2>1. req' \in [Workers -> Request]
    <3> DEFINE n == req[w].posts + 1
    <3>0. n \in Nat
      BY LocalTypes DEF Request
    <3> HIDE DEF n
    <3>1. [req[w] EXCEPT !.pc = "posted", !.posts = n] \in Request
      BY <3>0, LocalTypes DEF Request
    <3>2. req' = [req EXCEPT ![w] = [req[w] EXCEPT !.pc = "posted", !.posts = n]]
      BY <1>2 DEF Post, n
    <3> QED
      BY <3>1, <3>2, RequestSet
  <2> QED
    BY <1>2, <2>1 DEF Post, TypeOK
<1>3. CASE PostFails(w)
  BY <1>3, WaitType, FailType DEF PostFails
<1>4. ASSUME NEW r \in Replies, Respond(w, r) PROVE TypeOK'
  <2>1. Responded(w, r) \in Request
    BY LocalTypes DEF Responded, Request
  <2>2. req' \in [Workers -> Request]
    BY <1>4, <2>1, RequestSet DEF Respond
  <2>3. outbox' \in [Workers -> Seq(Event)]
    <3>1. <<Plain(IF r.cold /\ req[w].used = 0 THEN "cold" ELSE "warm")>> \in Seq(Event)
      BY EventTypes
    <3> QED
      BY <1>4, <3>1, SayType DEF Respond
  <2>4. seg' \in [Workers -> Segment]
    <3>1. [seg[w] EXCEPT !.pc = "reading"] \in Segment
      BY LocalTypes DEF Segment
    <3>2. seg' = seg \/ seg' = [seg EXCEPT ![w] = [seg[w] EXCEPT !.pc = "reading"]]
      BY <1>4 DEF Respond
    <3> QED
      BY <3>1, <3>2, SegmentSet DEF TypeOK
  <2> QED
    BY <1>4, <2>2, <2>3, <2>4 DEF Respond, TypeOK
<1>5. CASE Backoff(w)
  <2>1. req' \in [Workers -> Request]
    <3>1. [req[w] EXCEPT !.pc = "connect", !.broken = FALSE] \in Request
      BY LocalTypes DEF Request
    <3>2. req' = [req EXCEPT ![w] = [req[w] EXCEPT !.pc = "connect", !.broken = FALSE]]
      BY <1>5 DEF Backoff
    <3> QED
      BY <3>1, <3>2, RequestSet
  <2>2. outbox' \in [Workers -> Seq(Event)]
    <3>1. (IF req[w].broken THEN <<Plain("restarted")>> ELSE <<>>) \in Seq(Event)
      BY EventTypes
    <3> QED
      BY <1>5, <3>1, SayType DEF Backoff
  <2> QED
    BY <1>5, <2>1, <2>2 DEF Backoff, TypeOK
<1>6. CASE ReadItem(w)
  BY <1>6, ReadItemType
<1>7. CASE EndOfBody(w)
  <2>1. outbox' \in [Workers -> Seq(Event)]
    <3>1. (IF req[w].terminal THEN <<>> ELSE <<Finished("MissingTerminal")>>) \in Seq(Event)
      BY EventTypes DEF Terminations
    <3> QED
      BY <1>7, <3>1, SayType DEF EndOfBody
  <2> QED
    BY <1>7, <2>1, GoType DEF EndOfBody, TypeOK
<1>8. CASE BodyBreaks(w)
  BY <1>8, WaitType, FailType DEF BodyBreaks
<1>9. CASE ReadWhole(w)
  <2> DEFINE i == req[w].reply.items[1]
  <2>1. CASE i.kind = "bad"
    BY <1>9, <2>1, FailType DEF ReadWhole
  <2>2. CASE i.kind # "bad"
    <3>1. req[w].reply \in Replies /\ 1 \in DOMAIN req[w].reply.items
      BY <1>9, RepliesAssumption DEF ReadWhole, TypeOK, Request, NoReply, Reply
    <3>2. i \in Item
      BY <3>1, ItemType
    <3>3. (IF i.finish = "none" THEN "Unknown" ELSE i.finish) \in Terminations
      BY <3>2 DEF Item, Terminations
    <3>4. Unit(w, i) \o <<Finished(IF i.finish = "none" THEN "Unknown" ELSE i.finish)>>
            \in Seq(Event)
      BY <3>2, <3>3, UnitTypes, EventTypes
    <3>5. outbox' \in [Workers -> Seq(Event)]
      BY <1>9, <2>2, <3>4, SayType DEF ReadWhole
    <3> QED
      BY <1>9, <2>2, <3>5, GoType DEF ReadWhole, TypeOK
  <2> QED
    BY <2>1, <2>2
<1>10. CASE Emit(w)
  <2>1. outbox[w] \in Seq(Event) /\ chan[w] \in Seq(Event) /\ Len(chan[w]) < Cap /\ outbox[w] # <<>>
    BY <1>10 DEF Emit, TypeOK
  <2>2. Append(chan[w], Head(outbox[w])) \in Seq(Event)
        /\ Len(Append(chan[w], Head(outbox[w]))) <= Cap /\ Tail(outbox[w]) \in Seq(Event)
    BY <2>1, LimitsAssumption
  <2> QED
    BY <1>10, <2>2 DEF Emit, TypeOK
<1>11. CASE Leave(w)
  BY <1>11, GoType DEF Leave, TypeOK
<1>12. CASE Cancelled(w)
  <2>1. outbox' \in [Workers -> Seq(Event)]
    <3>1. <<>> \in Seq(Event)
      OBVIOUS
    <3> QED
      BY <1>12, <3>1, SayType DEF Cancelled
  <2> QED
    BY <1>12, <2>1, DroppedType DEF Cancelled, TypeOK
<1> QED
  BY <1>1, <1>2, <1>3, <1>4, <1>5, <1>6, <1>7, <1>8, <1>9, <1>10, <1>11, <1>12 DEF Reader

LEMMA WorkerTyped ==
  ASSUME TypeOK, NEW w \in Workers, Worker(w) \/ Abort(w)
  PROVE  TypeOK'
<1>1. CASE Call(w)
  <2>1. req' \in [Workers -> Request]
    <3>1. [NoRequest EXCEPT !.pc = "queued"] \in Request
      BY FreshTypes DEF Request
    <3> QED
      BY <1>1, <3>1, RequestSet DEF Call
  <2>2. seg' \in [Workers -> Segment]
    <3>1. [seg[w] EXCEPT !.pc = "asking"] \in Segment
      BY LocalTypes DEF Segment
    <3>2. seg' = [seg EXCEPT ![w] = [seg[w] EXCEPT !.pc = "asking"]]
      BY <1>1 DEF Call
    <3> QED
      BY <3>1, <3>2, SegmentSet
  <2> QED
    BY <1>1, <2>1, <2>2 DEF Call, TypeOK
<1>2. CASE Take(w)
  <2> DEFINE e == Head(chan[w])
  <2>1. chan[w] \in Seq(Event) /\ chan[w] # <<>>
    BY <1>2 DEF Take, TypeOK
  <2>2. e \in Event /\ Tail(chan[w]) \in Seq(Event) /\ Len(Tail(chan[w])) <= Len(chan[w])
    BY <2>1
  <2>3. chan' \in [Workers -> Seq(Event)] /\ \A v \in Workers : Len(chan'[v]) <= Cap
    BY <1>2, <2>1, <2>2, LimitsAssumption DEF Take, TypeOK
  <2>4. seg' \in [Workers -> Segment]
    <3>1. seg[w].text \in Seq(Nat) /\ Append(seg[w].text, e.body) \in Seq(Nat)
      BY <2>2 DEF TypeOK, Segment, Event
    <3>2. CASE e.kind \in {"cold", "warm"}
      <4>1. [seg[w] EXCEPT !.cold = (e.kind = "cold")] \in Segment
        BY LocalTypes DEF Segment
      <4>2. seg' = [seg EXCEPT ![w] = [seg[w] EXCEPT !.cold = (e.kind = "cold")]]
        BY <1>2, <3>2 DEF Take
      <4> QED
        BY <4>1, <4>2, SegmentSet
    <3>3. CASE e.kind = "restarted"
      <4>1. [seg[w] EXCEPT !.text = <<>>, !.term = "Unknown", !.cold = FALSE] \in Segment
        <5>1. <<>> \in Seq(Nat) /\ "Unknown" \in Terminations
          BY DEF Terminations
        <5> QED
          BY <5>1, LocalTypes DEF Segment
      <4>2. seg' = [seg EXCEPT ![w] =
                      [seg[w] EXCEPT !.text = <<>>, !.term = "Unknown", !.cold = FALSE]]
        BY <1>2, <3>3 DEF Take
      <4> QED
        BY <4>1, <4>2, SegmentSet
    <3>4. CASE e.kind = "unit"
      <4>1. [seg[w] EXCEPT !.text = Append(@, e.body)] \in Segment
        BY <3>1, LocalTypes DEF Segment
      <4>2. seg' = [seg EXCEPT ![w] = [seg[w] EXCEPT !.text = Append(@, e.body)]]
        BY <1>2, <3>4 DEF Take
      <4> QED
        BY <4>1, <4>2, SegmentSet
    <3>5. CASE e.kind = "finished"
      <4>1. [seg[w] EXCEPT !.term = e.termination] \in Segment
        BY <2>2, LocalTypes DEF Segment, Event
      <4>2. seg' = [seg EXCEPT ![w] = [seg[w] EXCEPT !.term = e.termination]]
        BY <1>2, <3>5 DEF Take
      <4> QED
        BY <4>1, <4>2, SegmentSet
    <3>6. CASE e.kind = "error"
      BY <1>2, <3>6, GiveUpType DEF Take
    <3> QED
      BY <2>2, <3>2, <3>3, <3>4, <3>5, <3>6 DEF Event
  <2> QED
    BY <1>2, <2>3, <2>4 DEF Take, TypeOK
<1>3. CASE Judge(w)
  <2>1. CASE Complete(w)
    <3> DEFINE r == IF seg[w].attempt = 0 THEN "first" ELSE "retried"
    <3> DEFINE c == seg[w].cold /\ r = "first"
    <3>1. [seg[w] EXCEPT !.pc = "ended", !.result = r, !.cold = c] \in Segment
      BY LocalTypes DEF Segment
    <3>2. seg' = [seg EXCEPT ![w] = [seg[w] EXCEPT !.pc = "ended", !.result = r, !.cold = c]]
      BY <1>3, <2>1 DEF Judge, Answer
    <3> QED
      BY <1>3, <3>1, <3>2, SegmentSet DEF Judge, TypeOK
  <2>2. CASE ~Complete(w) /\ ~Recovers(w) /\ seg[w].text # <<>>
    BY <1>3, <2>2, GiveUpType DEF Judge, TypeOK
  <2>3. CASE ~Complete(w) /\ (Recovers(w) \/ seg[w].text = <<>>)
    <3>1. CASE seg[w].attempt < MaxRepeats
      <4>1. seg[w].attempt + 1 \in 0 .. MaxRepeats
        BY <3>1, LimitsAssumption DEF TypeOK, Segment
      <4>2. [NewSegment EXCEPT !.attempt = seg[w].attempt + 1] \in Segment
        BY <4>1, FreshTypes DEF Segment
      <4> QED
        BY <1>3, <2>3, <3>1, <4>2 DEF Judge, TypeOK
    <3>2. CASE ~(seg[w].attempt < MaxRepeats)
      BY <1>3, <2>3, <3>2, GiveUpType DEF Judge, TypeOK
    <3> QED
      BY <3>1, <3>2
  <2> QED
    BY <2>1, <2>2, <2>3
<1>4. CASE Abort(w)
  <2>1. seg' \in [Workers -> Segment]
    BY <1>4, GiveUpType DEF Abort
  <2>2. req' \in [Workers -> Request] /\ held' \subseteq Workers
    BY <1>4, DroppedType DEF Abort, TypeOK
  <2>3. chan' \in [Workers -> Seq(Event)] /\ \A v \in Workers : Len(chan'[v]) <= Cap
    BY <1>4, LimitsAssumption DEF Abort, TypeOK
  <2> QED
    BY <1>4, <2>1, <2>2, <2>3 DEF Abort, TypeOK
<1> QED
  BY <1>1, <1>2, <1>3, <1>4 DEF Worker

LEMMA InitTyped == Init => TypeOK
  BY FreshTypes, LimitsAssumption DEF Init, TypeOK

LEMMA StepTyped == TypeOK /\ [Next]_vars => TypeOK'
<1> SUFFICES ASSUME TypeOK, [Next]_vars PROVE TypeOK'
  OBVIOUS
<1>1. ASSUME NEW w \in Workers, Reader(w) \/ Worker(w) \/ Abort(w) PROVE TypeOK'
  BY <1>1, ReaderTyped, WorkerTyped
<1>2. CASE UNCHANGED vars
  BY <1>2 DEF vars, TypeOK
<1> QED
  BY <1>1, <1>2 DEF Next

\* Every variable keeps its type and the channel of a request its capacity, for
\* any number of segment tasks and any responses.
THEOREM RequestTypeCorrect == Spec => []TypeOK
  BY InitTyped, StepTyped, PTL DEF Spec

-----------------------------------------------------------------------------
(* Posts and load. *)

Holding == {"connect", "posted", "backoff", "read", "leave"}

LEMMA FailMetered ==
  ASSUME TypeOK, NEW w \in Workers, Metered(w), req[w].pc \in Holding, Fail(w)
  PROVE  Metered(w)'
<1>1. CASE req[w].spawned
  <2>1. /\ req'[w].pc = "leave" /\ req'[w].posts = req[w].posts
        /\ req'[w].used = req[w].used /\ held' = held
    BY <1>1, LocalTypes DEF Fail, Go, TypeOK, Request
  <2> QED
    BY <2>1 DEF Metered, Holding
<1>2. CASE ~req[w].spawned
  <2>1. req'[w] = [NoRequest EXCEPT !.pc = "gone"]
    BY <1>2 DEF Fail, Dropped, TypeOK
  <2> QED
    BY <2>1 DEF Metered, NoRequest
<1> QED
  BY <1>1, <1>2

LEMMA WaitMetered ==
  ASSUME TypeOK, NEW w \in Workers, NEW b \in BOOLEAN, Metered(w),
         req[w].pc \in {"posted", "read"}, Wait(w, b)
  PROVE  Metered(w)'
<1>1. CASE req[w].used = MaxRetries
  BY <1>1, FailMetered DEF Wait, Holding
<1>2. CASE req[w].used # MaxRetries
  <2>1. /\ req'[w].pc = "backoff" /\ req'[w].posts = req[w].posts
        /\ req'[w].used = req[w].used + 1 /\ held' = held
    BY <1>2, LocalTypes DEF Wait, TypeOK, Request
  <2>2. req[w].posts \in Nat /\ req[w].used \in Nat
    BY LocalTypes, LimitsAssumption DEF Request
  <2> QED
    BY <2>1, <2>2 DEF Metered
<1> QED
  BY <1>1, <1>2

\* A step of one worker's tasks leaves the requests and permits of the others alone.
LEMMA OthersUntouched ==
  ASSUME TypeOK, NEW w \in Workers, Reader(w) \/ Worker(w) \/ Abort(w),
         NEW v \in Workers \ {w}
  PROVE  req'[v] = req[v] /\ (v \in held => v \in held')
<1>1. CASE Acquire(w) \/ Post(w) \/ Backoff(w) \/ EndOfBody(w) \/ Emit(w) \/ Leave(w)
  <2>1. req' = req \/ \E q : req' = [req EXCEPT ![w] = q]
    BY <1>1 DEF Acquire, Post, Backoff, EndOfBody, Emit, Leave, Go
  <2>2. v \in held => v \in held'
    BY <1>1 DEF Acquire, Post, Backoff, EndOfBody, Emit, Leave
  <2> QED
    BY <2>1, <2>2 DEF TypeOK
<1>2. CASE PostFails(w) \/ BodyBreaks(w)
  BY <1>2 DEF PostFails, BodyBreaks, Wait, Fail, Go, Dropped, TypeOK
<1>3. CASE \E r \in Replies : Respond(w, r)
  BY <1>3 DEF Respond, TypeOK
<1>4. CASE ReadItem(w)
  BY <1>4 DEF ReadItem, TypeOK
<1>5. CASE ReadWhole(w)
  BY <1>5 DEF ReadWhole, Fail, Go, Dropped, TypeOK
<1>6. CASE Cancelled(w) \/ Abort(w)
  BY <1>6 DEF Cancelled, Abort, Dropped, TypeOK
<1>7. CASE Worker(w)
  BY <1>7 DEF Worker, Call, Take, Judge, TypeOK
<1> QED
  BY <1>1, <1>2, <1>3, <1>4, <1>5, <1>6, <1>7 DEF Reader

LEMMA OwnMetered ==
  ASSUME TypeOK, NEW w \in Workers, Metered(w), Reader(w) \/ Worker(w) \/ Abort(w)
  PROVE  Metered(w)'
<1>0. req[w].posts \in Nat /\ req[w].used \in Nat
  BY LocalTypes, LimitsAssumption DEF Request
<1>1. CASE Acquire(w)
  <2>1. /\ req'[w].pc = "connect" /\ req'[w].posts = req[w].posts
        /\ req'[w].used = req[w].used /\ w \in held'
    BY <1>1, LocalTypes DEF Acquire, Go, TypeOK, Request
  <2> QED
    BY <1>0, <1>1, <2>1 DEF Metered, Acquire
<1>2. CASE Post(w)
  <2>1. /\ req'[w].pc = "posted" /\ req'[w].posts = req[w].posts + 1
        /\ req'[w].used = req[w].used /\ held' = held
    BY <1>2, LocalTypes DEF Post, TypeOK, Request
  <2> QED
    BY <1>0, <1>2, <2>1 DEF Metered, Post, At
<1>3. CASE PostFails(w)
  BY <1>3, WaitMetered, FailMetered DEF PostFails, At, Holding
<1>4. ASSUME NEW r \in Replies, Respond(w, r) PROVE Metered(w)'
  <2>1. /\ req'[w].pc = "read" /\ req'[w].posts = req[w].posts
        /\ req'[w].used = req[w].used /\ held' = held
    BY <1>4, LocalTypes DEF Respond, Responded, TypeOK, Request
  <2> QED
    BY <1>0, <1>4, <2>1 DEF Metered, Respond, At
<1>5. CASE Backoff(w)
  <2>1. /\ req'[w].pc = "connect" /\ req'[w].posts = req[w].posts
        /\ req'[w].used = req[w].used /\ held' = held
    BY <1>5, LocalTypes DEF Backoff, TypeOK, Request
  <2> QED
    BY <1>0, <1>5, <2>1 DEF Metered, Backoff, At
<1>6. CASE ReadItem(w)
  <2>1. /\ req'[w].pc \in {"read", "leave"} /\ req'[w].posts = req[w].posts
        /\ req'[w].used = req[w].used /\ held' = held
    <3> DEFINE read == [req[w] EXCEPT !.pos = @ + 1]
    <3>1. /\ read.pc = "read" /\ read.posts = req[w].posts /\ read.used = req[w].used
          /\ read \in Request
      <4>1. req[w].pos + 1 \in Nat
        BY LocalTypes DEF Request
      <4> QED
        BY <1>6, <4>1, LocalTypes DEF ReadItem, At, Request
    <3> HIDE DEF read
    <3> DEFINE i == NextItem(w)
               one == [read EXCEPT !.choice = TRUE, !.content = @ \/ i.text,
                                   !.terminal = @ \/ i.finish # "none"]
               last == [read EXCEPT !.terminal = TRUE]
               left == [read EXCEPT !.pc = "leave"]
    <3>2. \/ req' = [req EXCEPT ![w] = one] \/ req' = [req EXCEPT ![w] = read]
          \/ req' = [req EXCEPT ![w] = last] \/ req' = [req EXCEPT ![w] = left]
      BY <1>6 DEF ReadItem, read
    <3>3. req'[w] \in {one, read, last, left}
      BY <3>2 DEF TypeOK
    <3>4. \A q \in {one, read, last, left} :
             q.pc \in {"read", "leave"} /\ q.posts = read.posts /\ q.used = read.used
      BY <3>1 DEF Request
    <3> HIDE DEF one, last, left
    <3>5. held' = held
      BY <1>6 DEF ReadItem
    <3> QED
      BY <3>1, <3>3, <3>4, <3>5
  <2> QED
    BY <1>0, <1>6, <2>1 DEF Metered, ReadItem, At
<1>7. CASE BodyBreaks(w)
  BY <1>7, WaitMetered, FailMetered DEF BodyBreaks, At, Holding
<1>8. CASE ReadWhole(w)
  <2>1. CASE req[w].reply.items[1].kind = "bad"
    BY <1>8, <2>1, FailMetered DEF ReadWhole, At, Holding
  <2>2. CASE req[w].reply.items[1].kind # "bad"
    <3>1. /\ req'[w].pc = "leave" /\ req'[w].posts = req[w].posts
          /\ req'[w].used = req[w].used /\ held' = held
      BY <1>8, <2>2, LocalTypes DEF ReadWhole, Go, TypeOK, Request
    <3> QED
      BY <1>0, <1>8, <3>1 DEF Metered, ReadWhole, At
  <2> QED
    BY <2>1, <2>2
<1>9. CASE EndOfBody(w)
  <2>1. /\ req'[w].pc = "leave" /\ req'[w].posts = req[w].posts
        /\ req'[w].used = req[w].used /\ held' = held
    BY <1>9, LocalTypes DEF EndOfBody, Go, TypeOK, Request
  <2> QED
    BY <1>0, <1>9, <2>1 DEF Metered, EndOfBody, At
<1>10. CASE Leave(w)
  <2>1. req'[w].pc = "gone" /\ req'[w].posts = req[w].posts /\ req'[w].used = req[w].used
    BY <1>10, LocalTypes DEF Leave, Go, TypeOK, Request
  <2> QED
    BY <2>1 DEF Metered
<1>11. CASE Cancelled(w) \/ (Abort(w) /\ seg[w].pc = "asking")
  <2>1. req'[w] = [NoRequest EXCEPT !.pc = "gone"]
    BY <1>11 DEF Cancelled, Abort, Dropped, TypeOK
  <2> QED
    BY <2>1 DEF Metered, NoRequest
<1>12. CASE Call(w)
  <2>1. req'[w] = [NoRequest EXCEPT !.pc = "queued"]
    BY <1>12 DEF Call, TypeOK
  <2> QED
    BY <2>1 DEF Metered, NoRequest
<1>13. CASE Emit(w) \/ Take(w) \/ Judge(w) \/ (Abort(w) /\ seg[w].pc # "asking")
  BY <1>13 DEF Emit, Take, Judge, Abort, Metered
<1> QED
  BY <1>1, <1>2, <1>3, <1>4, <1>5, <1>6, <1>7, <1>8, <1>9, <1>10, <1>11, <1>12, <1>13
  DEF Reader, Worker

\* Permits are given out one at a time, while there are some.
LEMMA PermitsCounted ==
  ASSUME TypeOK, NEW w \in Workers, Reader(w) \/ Worker(w) \/ Abort(w),
         Cardinality(held) <= Permits
  PROVE  Cardinality(held') <= Permits
<1>0. IsFiniteSet(held)
  BY WorkersAssumption, FS_Subset DEF TypeOK
<1>1. IsFiniteSet(held) /\ Cardinality(held) \in Nat
  BY <1>0, FS_CardinalityType
<1>2. CASE Acquire(w)
  <2>1. Cardinality(held \cup {w}) =
           IF w \in held THEN Cardinality(held) ELSE Cardinality(held) + 1
    BY <1>0, FS_AddElement
  <2>2. Cardinality(held \cup {w}) \in Nat
    BY <1>1, FS_AddElement, FS_CardinalityType
  <2> QED
    BY <1>1, <1>2, <2>1, <2>2, LimitsAssumption DEF Acquire
<1>3. CASE ~Acquire(w)
  <2>1. held' = held \/ held' = held \ {w}
    BY <1>3 DEF Reader, Worker, Post, PostFails, Respond, Backoff, ReadItem, EndOfBody,
                BodyBreaks, ReadWhole, Emit, Leave, Cancelled, Call, Take, Judge, Abort,
                Wait, Fail
  <2>2. held' \subseteq held
    BY <2>1
  <2>3. IsFiniteSet(held') /\ Cardinality(held') <= Cardinality(held)
    BY <1>1, <2>2, FS_Subset
  <2>4. Cardinality(held') \in Nat
    BY <2>3, FS_CardinalityType
  <2> QED
    BY <1>1, <2>3, <2>4, LimitsAssumption
<1> QED
  BY <1>2, <1>3

LEMMA InitMetered == Init => IInv
<1> SUFFICES ASSUME Init PROVE IInv
  OBVIOUS
<1>1. \A w \in Workers : Metered(w)
  BY DEF Init, Metered, NoRequest
<1>2. Cardinality(held) = 0
  BY FS_EmptySet DEF Init
<1> QED
  BY <1>1, <1>2, InitTyped, LimitsAssumption DEF IInv

LEMMA StepMetered == IInv /\ [Next]_vars => IInv'
<1> SUFFICES ASSUME IInv, [Next]_vars PROVE IInv'
  OBVIOUS
<1>1. TypeOK'
  BY StepTyped DEF IInv
<1>2. ASSUME NEW w \in Workers, Reader(w) \/ Worker(w) \/ Abort(w) PROVE IInv'
  <2>1. ASSUME NEW v \in Workers PROVE Metered(v)'
    <3>1. CASE v = w
      BY <1>2, <3>1, OwnMetered DEF IInv
    <3>2. CASE v # w
      <4>1. req'[v] = req[v] /\ (v \in held => v \in held')
        BY <1>2, <3>2, OthersUntouched DEF IInv
      <4> QED
        BY <4>1 DEF IInv, Metered
    <3> QED
      BY <3>1, <3>2
  <2> QED
    BY <1>1, <1>2, <2>1, PermitsCounted DEF IInv
<1>3. CASE UNCHANGED vars
  BY <1>1, <1>3 DEF IInv, Metered, vars
<1> QED
  BY <1>2, <1>3 DEF Next

LEMMA Inductive == Spec => []IInv
  BY InitMetered, StepMetered, PTL DEF Spec

\* However connects and bodies fail, a request is posted at most once more often
\* than retries are configured.
THEOREM PostsStayBounded == Spec => []PostsBounded
<1>1. IInv => PostsBounded
  <2> SUFFICES ASSUME IInv, NEW w \in Workers PROVE req[w].posts <= MaxRetries + 1
    BY DEF PostsBounded
  <2>1. req[w].posts \in Nat /\ req[w].used \in 0 .. MaxRetries
    BY LocalTypes DEF IInv, Request
  <2> QED
    BY <2>1, LimitsAssumption DEF IInv, Metered
<1> QED
  BY <1>1, Inductive, PTL

\* The server never sees more open requests of one client than its concurrency,
\* dropped tasks and outliving readers included.
THEOREM LoadStaysBounded == Spec => []LoadBounded
<1>1. IInv => LoadBounded
  <2> SUFFICES ASSUME IInv PROVE LoadBounded
    OBVIOUS
  <2> DEFINE busy == {w \in Workers : req[w].pc \in {"posted", "read"}}
  <2>1. busy \subseteq held
    BY DEF IInv, Metered
  <2>2. IsFiniteSet(held)
    BY WorkersAssumption, FS_Subset DEF IInv, TypeOK
  <2>3. IsFiniteSet(busy) /\ Cardinality(busy) <= Cardinality(held)
    BY <2>1, <2>2, FS_Subset
  <2>4. Cardinality(busy) \in Nat /\ Cardinality(held) \in Nat
    BY <2>2, <2>3, FS_CardinalityType
  <2>5. Cardinality(busy) <= Permits
    BY <2>3, <2>4, LimitsAssumption DEF IInv
  <2> QED
    BY <2>5 DEF LoadBounded
<1> QED
  BY <1>1, Inductive, PTL

-----------------------------------------------------------------------------
(* What a worker will have heard. *)

OneBody(t) == \A k \in DOMAIN t : t[k] = t[1]

\* What a worker holds of its stream, and how an event changes that.
Reading == [text : Seq(Nat), term : Terminations, cold : BOOLEAN]
Fresh == [text |-> <<>>, term |-> "Unknown", cold |-> FALSE]

Hears(g, e) ==
    CASE e.kind \in {"cold", "warm"} -> [g EXCEPT !.cold = (e.kind = "cold")]
      [] e.kind = "restarted" -> Fresh
      [] e.kind = "unit" -> [g EXCEPT !.text = Append(@, e.body)]
      [] e.kind = "finished" -> [g EXCEPT !.term = e.termination]
      [] e.kind = "error" -> g

\* The events q lead from g to h by way of run: never is a text of two bodies held,
\* and a text that is final is never taken back.
Runs(run, g, q, final, h) ==
    /\ run[0] = g /\ run[Len(q)] = h
    /\ \A j \in 0 .. Len(q) : OneBody(run[j].text)
    /\ \A j \in 1 .. Len(q) :
         /\ run[j] = Hears(run[j - 1], q[j])
         /\ q[j].kind = "unit" => q[j].body \in 1 .. MaxRetries + 1
         /\ final /\ q[j].kind = "restarted" => run[j - 1].text = <<>>

Leads(g, q, final, h) == \E run \in [0 .. Len(q) -> Reading] : Runs(run, g, q, final, h)

LEMMA HearsType ==
  ASSUME NEW g \in Reading, NEW e \in Event
  PROVE  Hears(g, e) \in Reading
<1>1. e.kind \in {"cold", "warm", "restarted", "unit", "finished", "error"}
      /\ e.body \in Nat /\ e.termination \in Terminations
  BY DEF Event
<1>2. CASE e.kind \in {"cold", "warm"}
  BY <1>2 DEF Hears, Reading
<1>3. CASE e.kind = "restarted"
  BY <1>3 DEF Hears, Reading, Fresh, Terminations
<1>4. CASE e.kind = "unit"
  <2>1. g.text \in Seq(Nat) /\ Append(g.text, e.body) \in Seq(Nat)
    BY <1>1 DEF Reading
  <2>2. Hears(g, e) = [g EXCEPT !.text = Append(g.text, e.body)]
    BY <1>4 DEF Hears
  <2> QED BY <2>1, <2>2 DEF Reading
<1>5. CASE e.kind = "finished"
  BY <1>1, <1>5 DEF Hears, Reading
<1>6. CASE e.kind = "error"
  BY <1>6 DEF Hears
<1> QED
  BY <1>1, <1>2, <1>3, <1>4, <1>5, <1>6

LEMMA LeadsNowhere ==
  ASSUME NEW g \in Reading, OneBody(g.text), NEW final
  PROVE  Leads(g, <<>>, final, g)
<1> DEFINE run == [j \in 0 .. 0 |-> g]
<1>1. Len(<<>>) = 0
  OBVIOUS
<1>2. run \in [0 .. Len(<<>>) -> Reading] /\ Runs(run, g, <<>>, final, g)
  BY <1>1 DEF Runs
<1> QED
  BY <1>2 DEF Leads

LEMMA LeadsEnd ==
  ASSUME NEW g, NEW q \in Seq(Event), NEW final, NEW h, Leads(g, q, final, h)
  PROVE  /\ g \in Reading /\ h \in Reading /\ OneBody(g.text) /\ OneBody(h.text)
         /\ q = <<>> => h = g
<1>1. Len(q) \in Nat /\ 0 \in 0 .. Len(q) /\ Len(q) \in 0 .. Len(q)
  OBVIOUS
<1>2. PICK run \in [0 .. Len(q) -> Reading] : Runs(run, g, q, final, h)
  BY DEF Leads
<1>3. run[0] = g /\ run[Len(q)] = h /\ \A j \in 0 .. Len(q) : OneBody(run[j].text)
  BY <1>2 DEF Runs
<1>4. q = <<>> => Len(q) = 0
  OBVIOUS
<1> QED
  BY <1>1, <1>2, <1>3, <1>4

\* One event more.
LEMMA LeadsOn ==
  ASSUME NEW g, NEW q \in Seq(Event), NEW final, NEW h, Leads(g, q, final, h), NEW e \in Event,
         OneBody(Hears(h, e).text), e.kind = "unit" => e.body \in 1 .. MaxRetries + 1,
         final /\ e.kind = "restarted" => h.text = <<>>
  PROVE  Leads(g, Append(q, e), final, Hears(h, e))
<1>1. PICK run \in [0 .. Len(q) -> Reading] : Runs(run, g, q, final, h)
  BY DEF Leads
<1> DEFINE n == Len(q)
           more == Append(q, e)
           last == Hears(h, e)
           new == [j \in 0 .. n + 1 |-> IF j <= n THEN run[j] ELSE last]
<1>2. n \in Nat
  OBVIOUS
<1>3. Len(more) = n + 1 /\ more[n + 1] = e /\ \A j \in 1 .. n : more[j] = q[j]
  OBVIOUS
<1>4. last \in Reading
  BY LeadsEnd, HearsType
<1>5. /\ run[0] = g /\ run[n] = h /\ \A j \in 0 .. n : OneBody(run[j].text)
      /\ \A j \in 1 .. n : /\ run[j] = Hears(run[j - 1], q[j])
                           /\ q[j].kind = "unit" => q[j].body \in 1 .. MaxRetries + 1
                           /\ final /\ q[j].kind = "restarted" => run[j - 1].text = <<>>
  BY <1>1 DEF Runs
<1>6. last = Hears(h, e) /\ OneBody(last.text)
  OBVIOUS
<1> HIDE DEF n, more, last
<1>7. new \in [0 .. n + 1 -> Reading]
  <2>1. run \in [0 .. n -> Reading]
    BY DEF n
  <2> QED BY <1>2, <1>4, <2>1
<1>8. new[0] = g /\ new[n + 1] = last /\ \A j \in 0 .. n : new[j] = run[j]
  BY <1>2, <1>5
<1> HIDE DEF new
<1>9. \A j \in 0 .. n + 1 : OneBody(new[j].text)
  <2> SUFFICES ASSUME NEW j \in 0 .. n + 1 PROVE OneBody(new[j].text)
    OBVIOUS
  <2>1. j \in 0 .. n \/ j = n + 1
    BY <1>2
  <2> QED BY <1>5, <1>6, <1>8, <2>1
<1>10. ASSUME NEW j \in 1 .. n + 1
       PROVE  /\ new[j] = Hears(new[j - 1], more[j])
              /\ more[j].kind = "unit" => more[j].body \in 1 .. MaxRetries + 1
              /\ final /\ more[j].kind = "restarted" => new[j - 1].text = <<>>
  <2>1. CASE j \in 1 .. n
    <3>1. j - 1 \in 0 .. n /\ j \in 0 .. n
      BY <1>2, <2>1
    <3> QED BY <1>3, <1>5, <1>8, <2>1, <3>1
  <2>2. CASE j = n + 1
    <3>1. j - 1 = n /\ n \in 0 .. n
      BY <1>2, <2>2
    <3>2. new[j - 1] = h /\ more[j] = e /\ new[j] = last
      BY <1>3, <1>5, <1>8, <2>2, <3>1
    <3> QED BY <1>6, <3>2
  <2> QED BY <1>2, <2>1, <2>2
<1>11. Runs(new, g, more, final, last)
  BY <1>3, <1>8, <1>9, <1>10 DEF Runs
<1> QED
  BY <1>3, <1>7, <1>11 DEF Leads, more, last

\* The first event has been heard.
LEMMA LeadsAfter ==
  ASSUME NEW g, NEW q \in Seq(Event), q # <<>>, NEW final, NEW h, Leads(g, q, final, h)
  PROVE  /\ Leads(Hears(g, Head(q)), Tail(q), final, h)
         /\ final /\ Head(q).kind = "restarted" => g.text = <<>>
         /\ Head(q).kind = "unit" => Head(q).body \in 1 .. MaxRetries + 1
         /\ OneBody(Hears(g, Head(q)).text)
<1>1. PICK run \in [0 .. Len(q) -> Reading] : Runs(run, g, q, final, h)
  BY DEF Leads
<1> DEFINE n == Len(q) - 1
           rest == Tail(q)
           new == [j \in 0 .. n |-> run[j + 1]]
<1>2. n \in Nat /\ Len(q) = n + 1
  OBVIOUS
<1>3. Len(rest) = n /\ Head(q) = q[1] /\ \A j \in 1 .. n : rest[j] = q[j + 1]
  OBVIOUS
<1>4. /\ run[0] = g /\ run[n + 1] = h /\ \A j \in 0 .. n + 1 : OneBody(run[j].text)
      /\ \A j \in 1 .. n + 1 : /\ run[j] = Hears(run[j - 1], q[j])
                               /\ q[j].kind = "unit" => q[j].body \in 1 .. MaxRetries + 1
                               /\ final /\ q[j].kind = "restarted" => run[j - 1].text = <<>>
  BY <1>1, <1>2 DEF Runs
<1>5. run \in [0 .. n + 1 -> Reading]
  BY <1>2
<1> HIDE DEF n, rest
<1>6. new \in [0 .. n -> Reading]
  BY <1>2, <1>5
<1>7. \A j \in 0 .. n : new[j] = run[j + 1] /\ j + 1 \in 0 .. n + 1
  BY <1>2
<1> HIDE DEF new
<1>8. run[1] = Hears(g, Head(q)) /\ (final /\ Head(q).kind = "restarted" => g.text = <<>>)
      /\ (Head(q).kind = "unit" => Head(q).body \in 1 .. MaxRetries + 1)
      /\ OneBody(run[1].text)
  <2>1. 1 \in 1 .. n + 1 /\ 1 \in 0 .. n + 1 /\ 1 - 1 = 0
    BY <1>2
  <2> QED BY <1>3, <1>4, <2>1
<1>9. new[0] = run[1] /\ new[n] = h
  <2>1. 0 \in 0 .. n /\ n \in 0 .. n /\ 0 + 1 = 1
    BY <1>2
  <2> QED BY <1>4, <1>7, <2>1
<1>10. ASSUME NEW j \in 1 .. n
       PROVE  /\ new[j] = Hears(new[j - 1], rest[j])
              /\ rest[j].kind = "unit" => rest[j].body \in 1 .. MaxRetries + 1
              /\ final /\ rest[j].kind = "restarted" => new[j - 1].text = <<>>
  <2>1. j + 1 \in 1 .. n + 1 /\ (j + 1) - 1 = j /\ j - 1 \in 0 .. n /\ j \in 0 .. n /\ (j - 1) + 1 = j
    BY <1>2
  <2> QED BY <1>3, <1>4, <1>7, <2>1
<1>11. Runs(new, Hears(g, Head(q)), rest, final, h)
  BY <1>3, <1>4, <1>7, <1>8, <1>9, <1>10 DEF Runs
<1> QED
  BY <1>3, <1>6, <1>8, <1>11 DEF Leads, rest
-----------------------------------------------------------------------------
(* What a body says up to a position. *)

UnitsTo(r, p) == Cardinality({k \in 1 .. p : r.items[k].text})
Finishes(r, p) == {k \in 1 .. p : r.items[k].finish # "none"}
Ended(r, p) == \E k \in 1 .. p : r.items[k].finish # "none" \/ r.items[k].kind = "done"

\* The ending declared so far is t.
Declares(r, p, t) ==
    IF Finishes(r, p) # {}
      THEN \E k \in Finishes(r, p) : (\A j \in Finishes(r, p) : j <= k) /\ t = r.items[k].finish
      ELSE t = IF Ended(r, p) THEN "Stop" ELSE "Unknown"

Copies(n, b) == [k \in 1 .. n |-> b]

LEMMA CopiesOneBody ==
  ASSUME NEW n \in Nat, NEW b \in Nat
  PROVE  /\ Copies(n, b) \in Seq(Nat) /\ OneBody(Copies(n, b))
         /\ Append(Copies(n, b), b) = Copies(n + 1, b)
         /\ Copies(0, b) = <<>> /\ (n > 0 => Copies(n, b) # <<>>)
<1>1. Copies(n, b) \in Seq(Nat) /\ Len(Copies(n, b)) = n
  BY DEF Copies
<1>2. OneBody(Copies(n, b))
  BY DEF OneBody, Copies
<1>3. Append(Copies(n, b), b) = Copies(n + 1, b)
  BY <1>1 DEF Copies
<1>4. Copies(0, b) = <<>>
  BY DEF Copies
<1> QED
  BY <1>1, <1>2, <1>3, <1>4

LEMMA UnitsType ==
  ASSUME NEW r, NEW p \in Nat
  PROVE  UnitsTo(r, p) \in Nat /\ UnitsTo(r, 0) = 0
<1>1. IsFiniteSet(1 .. p)
  BY FS_Interval
<1>2. IsFiniteSet({k \in 1 .. p : r.items[k].text})
  BY <1>1, FS_Subset
<1>3. {k \in 1 .. 0 : r.items[k].text} = {}
  OBVIOUS
<1> QED
  BY <1>2, <1>3, FS_CardinalityType, FS_EmptySet DEF UnitsTo

LEMMA UnitsGrow ==
  ASSUME NEW r, NEW p \in Nat
  PROVE  UnitsTo(r, p + 1) = IF r.items[p + 1].text THEN UnitsTo(r, p) + 1 ELSE UnitsTo(r, p)
<1> DEFINE S == {k \in 1 .. p : r.items[k].text}
<1>1. IsFiniteSet(S)
  <2>1. IsFiniteSet(1 .. p)
    BY FS_Interval
  <2> QED BY <2>1, FS_Subset
<1>2. {k \in 1 .. p + 1 : r.items[k].text} = IF r.items[p + 1].text THEN S \cup {p + 1} ELSE S
  OBVIOUS
<1>3. p + 1 \notin S
  OBVIOUS
<1>4. Cardinality(S \cup {p + 1}) = Cardinality(S) + 1
  BY <1>1, <1>3, FS_AddElement
<1> QED
  BY <1>2, <1>4 DEF UnitsTo

LEMMA DeclaresMore ==
  ASSUME NEW r, NEW p \in Nat, NEW t, Declares(r, p, t)
  PROVE  LET i == r.items[p + 1]
         IN  /\ i.finish # "none" => Declares(r, p + 1, i.finish)
             /\ i.finish = "none" /\ (i.kind # "done" \/ Ended(r, p)) => Declares(r, p + 1, t)
             /\ i.finish = "none" /\ i.kind = "done" /\ ~Ended(r, p) => Declares(r, p + 1, "Stop")
             /\ Ended(r, p + 1) <=> Ended(r, p) \/ i.finish # "none" \/ i.kind = "done"
<1> DEFINE i == r.items[p + 1]
<1>1. 1 .. p + 1 = (1 .. p) \cup {p + 1}
  OBVIOUS
<1>2. Finishes(r, p + 1) = IF i.finish # "none" THEN Finishes(r, p) \cup {p + 1} ELSE Finishes(r, p)
  BY <1>1 DEF Finishes
<1>3. Ended(r, p + 1) <=> Ended(r, p) \/ i.finish # "none" \/ i.kind = "done"
  BY <1>1 DEF Ended
<1>4. Finishes(r, p) # {} => Ended(r, p)
  BY DEF Finishes, Ended
<1>5. Finishes(r, p) \subseteq 1 .. p
  BY DEF Finishes
<1>6. CASE i.finish # "none"
  <2>1. p + 1 \in Finishes(r, p + 1) /\ \A j \in Finishes(r, p + 1) : j <= p + 1
    BY <1>2, <1>5, <1>6
  <2>2. Declares(r, p + 1, i.finish)
    BY <2>1 DEF Declares
  <2> QED BY <1>3, <1>6, <2>2
<1>7. CASE i.finish = "none"
  <2>1. Finishes(r, p + 1) = Finishes(r, p)
    BY <1>2, <1>7
  <2>2. Finishes(r, p) # {} => (Declares(r, p + 1, t) <=> Declares(r, p, t))
    BY <2>1 DEF Declares
  <2>3. Finishes(r, p) = {} => (t = IF Ended(r, p) THEN "Stop" ELSE "Unknown")
    BY DEF Declares
  <2>4. Finishes(r, p) = {} =>
          \A s : Declares(r, p + 1, s) <=> (s = IF Ended(r, p + 1) THEN "Stop" ELSE "Unknown")
    BY <2>1 DEF Declares
  <2> QED BY <1>3, <1>4, <1>7, <2>2, <2>3, <2>4
<1> QED
  BY <1>6, <1>7

LEMMA DeclaresEnding ==
  ASSUME NEW r \in Replies, NEW t, Declares(r, Len(r.items), t)
  PROVE  /\ UnitsTo(r, Len(r.items)) = Units(r)
         /\ r.sse => (Ending(r) = IF Ended(r, Len(r.items)) THEN t ELSE "MissingTerminal")
<1>1. DOMAIN r.items = 1 .. Len(r.items)
  BY RepliesAssumption DEF Reply
<1>2. UnitsTo(r, Len(r.items)) = Units(r)
  BY <1>1 DEF UnitsTo, Units
<1> DEFINE finishes == {k \in DOMAIN r.items : r.items[k].finish # "none"}
<1>3. Finishes(r, Len(r.items)) = finishes
  BY <1>1 DEF Finishes
<1>4. finishes \subseteq Int
  BY <1>1
<1>5. CASE finishes # {}
  <2>1. PICK k \in finishes : (\A j \in finishes : j <= k) /\ t = r.items[k].finish
    BY <1>3, <1>5 DEF Declares
  <2>2. \A m \in finishes : (\A j \in finishes : j <= m) => m = k
    BY <1>4, <2>1
  <2>3. (CHOOSE m \in finishes : \A j \in finishes : j <= m) = k
    BY <2>1, <2>2
  <2>4. Ending(r) = r.items[k].finish
    BY <1>5, <2>3 DEF Ending
  <2>5. Ended(r, Len(r.items))
    BY <1>1, <1>5 DEF Ended
  <2> QED BY <1>2, <2>1, <2>4, <2>5
<1>6. CASE finishes = {}
  <2>1. t = IF Ended(r, Len(r.items)) THEN "Stop" ELSE "Unknown"
    BY <1>3, <1>6 DEF Declares
  <2>2. Ended(r, Len(r.items)) <=> \E k \in DOMAIN r.items : r.items[k].kind = "done"
    BY <1>1, <1>6 DEF Ended
  <2>3. r.sse => (Ending(r) = IF \E k \in DOMAIN r.items : r.items[k].kind = "done"
                                THEN "Stop" ELSE "MissingTerminal")
    BY <1>6 DEF Ending
  <2> QED BY <1>2, <2>1, <2>2, <2>3
<1> QED
  BY <1>5, <1>6
-----------------------------------------------------------------------------
(* More events. *)

\* Who has got as far as h gets to k by hearing es too.
Carries(es, final, h, k) ==
    \A g : \A q \in Seq(Event) : Leads(g, q, final, h) => Leads(g, q \o es, final, k)

LEMMA CarriesNone ==
  ASSUME NEW final, NEW h PROVE Carries(<<>>, final, h, h)
<1>1. \A q \in Seq(Event) : q \o <<>> = q
  OBVIOUS
<1> QED
  BY <1>1 DEF Carries

LEMMA CarriesOne ==
  ASSUME NEW final, NEW h, NEW e \in Event, OneBody(Hears(h, e).text),
         e.kind = "unit" => e.body \in 1 .. MaxRetries + 1,
         final /\ e.kind = "restarted" => h.text = <<>>
  PROVE  Carries(<<e>>, final, h, Hears(h, e))
<1>1. \A q \in Seq(Event) : q \o <<e>> = Append(q, e)
  OBVIOUS
<1> QED
  BY <1>1, LeadsOn DEF Carries

LEMMA CarriesTwo ==
  ASSUME NEW final, NEW h, NEW k, NEW m, NEW d \in Seq(Event), NEW e \in Seq(Event),
         Carries(d, final, h, k), Carries(e, final, k, m)
  PROVE  Carries(d \o e, final, h, m)
<1>1. \A q \in Seq(Event) : q \o (d \o e) = (q \o d) \o e /\ q \o d \in Seq(Event)
  OBVIOUS
<1> QED
  BY <1>1 DEF Carries
-----------------------------------------------------------------------------
(* The inductive invariant. *)

Listening == {"asking", "reading"}

Pending(w) == chan[w] \o outbox[w]
NoError(q) == \A k \in DOMAIN q : q[k].kind # "error"

Got(w) == [text |-> seg[w].text, term |-> seg[w].term, cold |-> seg[w].cold]
Vouched(w) == req[w].reply.cold /\ req[w].used = 0

\* Where worker and reader can be together.
Placed(w) ==
    /\ seg[w].pc \in {"call", "asking"} => chan[w] = <<>> /\ outbox[w] = <<>> /\ Got(w) = Fresh
    /\ seg[w].pc = "call" => req[w].pc \in {"none", "gone"}
    /\ seg[w].pc = "asking" =>
         /\ req[w].pc \in {"queued", "connect", "posted", "backoff"}
         /\ ~req[w].spawned /\ ~req[w].broken
    /\ seg[w].pc = "reading" =>
         req[w].spawned /\ req[w].pc \in {"connect", "posted", "backoff", "read", "leave", "gone"}
    /\ open[w] <=> seg[w].pc \in Listening
    /\ req[w].pc \in {"none", "queued", "gone"} => outbox[w] = <<>>
    /\ req[w].pc \in {"queued", "connect", "posted", "backoff"} /\ ~req[w].spawned =>
         seg[w].pc = "asking"
    /\ req[w].pc \in {"read", "leave"} => req[w].spawned
    /\ req[w].spawned \/ req[w].pc = "posted" => req[w].posts > 0
    /\ seg[w].pc # "ended" => seg[w].result = "none"
    /\ Answered(w) => req[w].pc = "gone"
    /\ seg[w].pc \in Listening /\ ~NoError(Pending(w)) => req[w].pc \in {"leave", "gone"}

\* What the reader knows of the body it is reading.
InBody(w) ==
    LET r == req[w].reply
        p == req[w].pos
    IN  req[w].pc = "read" =>
          /\ r \in Replies /\ p \in 0 .. Len(r.items) /\ (~r.sse => p = 0)
          /\ req[w].content <=> UnitsTo(r, p) > 0
          /\ req[w].terminal <=> Ended(r, p)

\* What the worker will hold when it has heard all that was said.
Reached(w, h) ==
    LET r == req[w].reply
    IN  /\ req[w].pc \in {"queued", "connect", "posted"} => h = Fresh
        /\ req[w].pc = "backoff" =>
             (~req[w].broken => h = Fresh) /\ (~Recovers(w) => h.text = <<>>)
        /\ req[w].pc = "read" =>
             /\ h.text = Copies(UnitsTo(r, req[w].pos), req[w].posts)
             /\ Declares(r, req[w].pos, h.term) /\ h.cold = Vouched(w)
        /\ req[w].pc \in {"leave", "gone"} /\ NoError(Pending(w)) =>
             /\ ~r.cut /\ h.text = Copies(Units(r), req[w].posts)
             /\ h.term = Ending(r) /\ h.cold = Vouched(w)

Heard(w) ==
    seg[w].pc \in Listening =>
        \E h \in Reading : Leads(Got(w), Pending(w), ~Recovers(w), h) /\ Reached(w, h)

Vouches(w) ==
    Answered(w) =>
        /\ ~req[w].reply.cut /\ seg[w].text = Copies(Units(req[w].reply), req[w].posts)
        /\ seg[w].term = Ending(req[w].reply)
        /\ seg[w].cold => seg[w].result = "first" /\ req[w].posts = 1 /\ req[w].reply.cold

Told(w) == Placed(w) /\ InBody(w) /\ Heard(w) /\ Vouches(w)
AnswerInv == IInv /\ \A w \in Workers : Told(w)
-----------------------------------------------------------------------------
(* What a step of a reader does to it. *)

\* A step that says es and keeps the worker listening to the same stream.
LEMMA Spoken ==
  ASSUME TypeOK, TypeOK', NEW w \in Workers, Heard(w), outbox[w] = <<>>, chan' = chan,
         NEW es \in Seq(Event), outbox'[w] = es, Got(w)' = Got(w), seg'[w].attempt = seg[w].attempt,
         seg'[w].pc \in Listening => seg[w].pc \in Listening,
         \A h \in Reading : OneBody(h.text) /\ Reached(w, h) =>
            \E k \in Reading : Carries(es, ~Recovers(w), h, k) /\ Reached(w, k)'
  PROVE  Heard(w)'
<1> SUFFICES ASSUME seg'[w].pc \in Listening
             PROVE  \E k \in Reading : Leads(Got(w)', Pending(w)', ~Recovers(w)', k) /\ Reached(w, k)'
  BY DEF Heard
<1>1. chan[w] \in Seq(Event)
  BY DEF TypeOK
<1>2. Pending(w) = chan[w] /\ Pending(w)' = chan[w] \o es
  BY <1>1 DEF Pending
<1>3. PICK h \in Reading : Leads(Got(w), chan[w], ~Recovers(w), h) /\ Reached(w, h)
  BY <1>2 DEF Heard
<1>4. OneBody(h.text)
  BY <1>1, <1>3, LeadsEnd
<1>5. PICK k \in Reading : Carries(es, ~Recovers(w), h, k) /\ Reached(w, k)'
  BY <1>3, <1>4
<1>6. Leads(Got(w), chan[w] \o es, ~Recovers(w), k)
  BY <1>1, <1>3, <1>5 DEF Carries
<1>7. Recovers(w)' = Recovers(w)
  BY DEF Recovers
<1> QED
  BY <1>2, <1>5, <1>6, <1>7

\* A reader that has something left to do has no answer to change.
LEMMA StillOpen ==
  ASSUME NEW w \in Workers, Placed(w), req[w].pc # "gone" \/ outbox[w] # <<>>
  PROVE  ~Answered(w)
  BY DEF Placed

LEMMA Unanswered ==
  ASSUME NEW w \in Workers, ~Answered(w), seg'[w] = seg[w] \/ ~Answered(w)'
  PROVE  Vouches(w)' /\ ~Answered(w)'
  BY DEF Vouches, Answered

\* The last word of a reader is that it failed.
LEMMA ErrorTold ==
  ASSUME TypeOK, TypeOK', NEW w \in Workers, Told(w), req[w].pc \in {"posted", "read"},
         req[w].spawned, outbox[w] = <<>>, chan' = chan, seg' = seg, open' = open,
         outbox'[w] = <<Plain("error")>>, req'[w].pc = "leave", req'[w].posts = req[w].posts,
         req'[w].spawned
  PROVE  Told(w)'
<1> DEFINE e == Plain("error")
<1>1. e \in Event /\ e.kind = "error"
  BY EventTypes DEF Plain
<1>2. chan[w] \in Seq(Event)
  BY DEF TypeOK
<1> HIDE DEF e
<1>3. ~NoError(Pending(w))'
  <2>1. Pending(w)' = Append(chan[w], e)
    BY <1>2 DEF Pending, e
  <2>2. Len(chan[w]) + 1 \in DOMAIN Append(chan[w], e) /\ Append(chan[w], e)[Len(chan[w]) + 1] = e
    BY <1>2
  <2> QED BY <1>1, <2>1, <2>2 DEF NoError
<1>4. ASSUME NEW h \in Reading, OneBody(h.text)
      PROVE  \E k \in Reading : Carries(<<e>>, ~Recovers(w), h, k) /\ Reached(w, k)'
  <2>1. Hears(h, e) = h
    BY <1>1 DEF Hears
  <2>2. Carries(<<e>>, ~Recovers(w), h, h)
    BY <1>1, <1>4, <2>1, CarriesOne
  <2>3. Reached(w, h)'
    BY <1>3 DEF Reached
  <2> QED BY <2>2, <2>3
<1>5. Heard(w)'
  <2>1. <<e>> \in Seq(Event) /\ outbox'[w] = <<e>>
    BY <1>1 DEF e
  <2> QED BY <1>4, <2>1, Spoken DEF Told, Got
<1>6. ~Answered(w) /\ Vouches(w)' /\ ~Answered(w)'
  BY StillOpen, Unanswered DEF Told
<1>7. Placed(w)'
  BY <1>6 DEF Told, Placed, Got, Listening
<1> QED BY <1>5, <1>6, <1>7 DEF Told, InBody

LEMMA FailTold ==
  ASSUME TypeOK, TypeOK', NEW w \in Workers, Told(w), req[w].pc \in {"posted", "read"},
         outbox[w] = <<>>, Fail(w), UNCHANGED chan
  PROVE  Told(w)'
<1>1. CASE req[w].spawned
  <2>1. seg' = seg /\ open' = open /\ outbox'[w] = <<Plain("error")>>
    BY <1>1 DEF Fail, Say, TypeOK
  <2>2. req'[w].pc = "leave" /\ req'[w].posts = req[w].posts /\ req'[w].spawned
    BY <1>1, LocalTypes DEF Fail, Go, TypeOK, Request
  <2> QED BY <1>1, <2>1, <2>2, ErrorTold
<1>2. CASE ~req[w].spawned
  <2>1. req'[w] = [NoRequest EXCEPT !.pc = "gone"] /\ open'[w] = FALSE /\ outbox' = outbox
        /\ seg'[w] = [NewSegment EXCEPT !.pc = "ended", !.result = "error"]
    BY <1>2 DEF Fail, Dropped, GiveUp, TypeOK
  <2>2. /\ req'[w].pc = "gone" /\ ~req'[w].spawned
        /\ seg'[w].pc = "ended" /\ seg'[w].result = "error"
    BY <2>1 DEF NoRequest, NewSegment
  <2> QED BY <2>1, <2>2 DEF Told, Placed, InBody, Heard, Vouches, Answered, Listening
<1> QED
  BY <1>1, <1>2

LEMMA WaitTold ==
  ASSUME TypeOK, TypeOK', NEW w \in Workers, Told(w), NEW b \in BOOLEAN,
         \/ req[w].pc = "posted" /\ ~b
         \/ req[w].pc = "read" /\ b /\ (Recovers(w) \/ ~req[w].content),
         outbox[w] = <<>>, Wait(w, b), UNCHANGED chan
  PROVE  Told(w)'
<1>1. CASE req[w].used = MaxRetries
  BY <1>1, FailTold DEF Wait
<1>2. CASE req[w].used # MaxRetries
  <2>1. seg' = seg /\ open' = open /\ outbox' = outbox
    BY <1>2 DEF Wait
  <2>2. /\ req'[w].pc = "backoff" /\ req'[w].broken = b /\ req'[w].posts = req[w].posts
        /\ req'[w].spawned = req[w].spawned
    BY <1>2, LocalTypes DEF Wait, TypeOK, Request
  <2>3. ASSUME NEW h \in Reading, Reached(w, h) PROVE Reached(w, h)'
    <3>1. CASE req[w].pc = "posted" /\ ~b
      <4>1. h = Fresh /\ h.text = <<>>
        BY <2>3, <3>1 DEF Reached, Fresh
      <4> QED BY <2>2, <4>1 DEF Reached
    <3>2. CASE req[w].pc = "read" /\ b /\ (Recovers(w) \/ ~req[w].content)
      <4> DEFINE n == UnitsTo(req[w].reply, req[w].pos)
      <4>1. h.text = Copies(n, req[w].posts) /\ (req[w].content <=> n > 0)
        BY <2>3, <3>2 DEF Reached, Told, InBody
      <4>2. n \in Nat /\ req[w].posts \in Nat
        BY LocalTypes, UnitsType DEF Request
      <4> HIDE DEF n
      <4>3. ~Recovers(w) => h.text = <<>>
        <5>1. ~Recovers(w) => n = 0
          BY <3>2, <4>1, <4>2
        <5>2. Copies(0, req[w].posts) = <<>>
          BY <4>2, CopiesOneBody
        <5> QED BY <4>1, <5>1, <5>2
      <4>4. Recovers(w)' = Recovers(w)
        BY <2>1 DEF Recovers
      <4> QED BY <2>2, <3>2, <4>3, <4>4 DEF Reached
    <3> QED BY <3>1, <3>2
  <2>4. Heard(w)'
    <3>1. ASSUME NEW h \in Reading, Reached(w, h)
          PROVE  \E k \in Reading : Carries(<<>>, ~Recovers(w), h, k) /\ Reached(w, k)'
      BY <2>3, <3>1, CarriesNone
    <3>2. <<>> \in Seq(Event)
      OBVIOUS
    <3> QED BY <2>1, <3>1, <3>2, Spoken DEF Told, Got
  <2>5. ~Answered(w) /\ Vouches(w)' /\ ~Answered(w)'
    BY <2>1, StillOpen, Unanswered DEF Told
  <2>6. Pending(w)' = Pending(w)
    BY <2>1 DEF Pending
  <2>7. Placed(w)'
    BY <2>1, <2>2, <2>5, <2>6 DEF Told, Placed, Got, Listening
  <2> QED BY <2>2, <2>4, <2>5, <2>7 DEF Told, InBody
<1> QED
  BY <1>1, <1>2
\* A step that says nothing.
LEMMA Silent ==
  ASSUME TypeOK, TypeOK', NEW w \in Workers, Heard(w), outbox[w] = <<>>, chan' = chan,
         outbox'[w] = <<>>, seg' = seg,
         \A h \in Reading : Reached(w, h) => Reached(w, h)'
  PROVE  Heard(w)'
<1>1. ASSUME NEW h \in Reading, Reached(w, h)
      PROVE  \E k \in Reading : Carries(<<>>, ~Recovers(w), h, k) /\ Reached(w, k)'
  BY <1>1, CarriesNone
<1>2. <<>> \in Seq(Event)
  OBVIOUS
<1> QED BY <1>1, <1>2, Spoken DEF Got

LEMMA NoErrorJoin ==
  ASSUME NEW p \in Seq(Event), NEW q \in Seq(Event), NoError(q)
  PROVE  NoError(p \o q) <=> NoError(p)
<1>1. \A k \in DOMAIN p : k \in DOMAIN (p \o q) /\ (p \o q)[k] = p[k]
  OBVIOUS
<1>2. \A k \in DOMAIN (p \o q) :
         \/ k \in DOMAIN p /\ (p \o q)[k] = p[k]
         \/ k - Len(p) \in DOMAIN q /\ (p \o q)[k] = q[k - Len(p)]
  OBVIOUS
<1> QED
  BY <1>1, <1>2 DEF NoError

LEMMA NoErrorTail ==
  ASSUME NEW q \in Seq(Event), q # <<>>, Head(q).kind # "error"
  PROVE  NoError(Tail(q)) <=> NoError(q)
<1>1. \A k \in DOMAIN Tail(q) : k + 1 \in DOMAIN q /\ Tail(q)[k] = q[k + 1]
  OBVIOUS
<1>2. \A k \in DOMAIN q :
         q[k] = Head(q) \/ (k - 1 \in DOMAIN Tail(q) /\ q[k] = Tail(q)[k - 1])
  OBVIOUS
<1> QED BY <1>1, <1>2 DEF NoError

LEMMA FreshReading == Fresh \in Reading /\ OneBody(Fresh.text) /\ Fresh.text = <<>>
  BY DEF Fresh, Reading, OneBody, Terminations

LEMMA CallTold ==
  ASSUME TypeOK, TypeOK', NEW w \in Workers, Told(w), Call(w)
  PROVE  Told(w)'
<1>1. /\ seg'[w].pc = "asking" /\ seg'[w].result = seg[w].result /\ Got(w)' = Got(w)
      /\ open'[w] /\ chan' = chan /\ outbox' = outbox
  BY LocalTypes DEF Call, TypeOK, Segment, Got
<1>2. req'[w].pc = "queued" /\ ~req'[w].spawned /\ ~req'[w].broken
  BY DEF Call, TypeOK, NoRequest
<1>3. chan[w] = <<>> /\ outbox[w] = <<>> /\ Got(w) = Fresh /\ seg[w].result = "none"
  BY DEF Call, Told, Placed
<1>4. ~Answered(w)'
  BY <1>1, <1>3 DEF Answered
<1>5. Pending(w)' = <<>>
  BY <1>1, <1>3 DEF Pending
<1>6. Heard(w)'
  <2>1. Leads(Got(w)', Pending(w)', ~Recovers(w)', Fresh)
    BY <1>1, <1>3, <1>5, FreshReading, LeadsNowhere
  <2>2. Reached(w, Fresh)'
    BY <1>2 DEF Reached
  <2> QED BY <2>1, <2>2, FreshReading DEF Heard
<1>7. NoError(Pending(w))'
  BY <1>5 DEF NoError
<1>8. Placed(w)'
  BY <1>1, <1>2, <1>3, <1>4, <1>7 DEF Placed, Listening
<1> QED
  BY <1>2, <1>4, <1>6, <1>8 DEF Told, InBody, Vouches

LEMMA AskTold ==
  ASSUME TypeOK, TypeOK', NEW w \in Workers, Told(w), Acquire(w) \/ Post(w)
  PROVE  Told(w)'
<1>1. /\ req[w].pc \in {"queued", "connect"} /\ req'[w].pc \in {"connect", "posted"}
      /\ req'[w].pc = "connect" => req[w].pc = "queued"
      /\ req'[w].spawned = req[w].spawned /\ req'[w].broken = req[w].broken
      /\ req'[w].posts \in Nat /\ req[w].posts \in Nat /\ req'[w].posts >= req[w].posts
      /\ req'[w].pc = "posted" => req'[w].posts > 0
  <2>1. req[w].posts \in Nat
    BY LocalTypes DEF Request
  <2>2. CASE Acquire(w)
    <3>1. /\ req[w].pc = "queued" /\ req'[w].pc = "connect" /\ req'[w].posts = req[w].posts
          /\ req'[w].spawned = req[w].spawned /\ req'[w].broken = req[w].broken
      BY <2>2, LocalTypes DEF Acquire, Go, TypeOK, Request
    <3> QED BY <2>1, <3>1
  <2>3. CASE Post(w)
    <3>1. /\ req[w].pc = "connect" /\ req'[w].pc = "posted" /\ req'[w].posts = req[w].posts + 1
          /\ req'[w].spawned = req[w].spawned /\ req'[w].broken = req[w].broken
      BY <2>3, LocalTypes DEF Post, At, TypeOK, Request
    <3> QED BY <2>1, <3>1
  <2> QED BY <2>2, <2>3
<1>2. outbox[w] = <<>> /\ seg' = seg /\ chan' = chan /\ open' = open /\ outbox' = outbox
  BY DEF Acquire, Post, At, Told, Placed
<1>3. ASSUME NEW h \in Reading, Reached(w, h) PROVE Reached(w, h)'
  BY <1>1, <1>3 DEF Reached
<1>4. Heard(w)'
  BY <1>2, <1>3, Silent DEF Told
<1>5. ~Answered(w) /\ Vouches(w)' /\ ~Answered(w)'
  BY <1>1, <1>2, StillOpen, Unanswered DEF Told
<1>6. Pending(w)' = Pending(w) /\ Got(w)' = Got(w)
  BY <1>2 DEF Pending, Got
<1>7. Placed(w)'
  BY <1>1, <1>2, <1>5, <1>6 DEF Told, Placed, Listening
<1> QED
  BY <1>1, <1>4, <1>5, <1>7 DEF Told, InBody

LEMMA RespondTold ==
  ASSUME TypeOK, TypeOK', NEW w \in Workers, Told(w), NEW r \in Replies, Respond(w, r)
  PROVE  Told(w)'
<1> DEFINE kind == IF r.cold /\ req[w].used = 0 THEN "cold" ELSE "warm"
           e == Plain(kind)
<1>1. /\ req[w].pc = "posted" /\ outbox[w] = <<>> /\ chan' = chan /\ open' = open
      /\ outbox'[w] = <<e>> /\ req'[w] = Responded(w, r)
      /\ seg'[w] = IF req[w].spawned THEN seg[w] ELSE [seg[w] EXCEPT !.pc = "reading"]
  BY DEF Respond, At, Say, TypeOK
<1>2. /\ req'[w].pc = "read" /\ req'[w].spawned /\ req'[w].reply = r /\ req'[w].pos = 0
      /\ ~req'[w].terminal /\ ~req'[w].content /\ req'[w].posts = req[w].posts
      /\ req'[w].used = req[w].used
  BY <1>1, LocalTypes DEF Responded, Request
<1>3. /\ seg'[w].attempt = seg[w].attempt /\ Got(w)' = Got(w) /\ seg'[w].result = seg[w].result
      /\ seg'[w].pc = (IF req[w].spawned THEN seg[w].pc ELSE "reading")
  BY <1>1, LocalTypes DEF Got, Segment
<1>4. /\ e \in Event /\ e.kind = kind /\ kind \in {"cold", "warm"}
      /\ (kind = "cold") <=> (r.cold /\ req[w].used = 0)
  BY EventTypes DEF Plain
<1>5. req[w].spawned => seg[w].pc \in {"reading", "ended"}
  BY <1>1, LocalTypes DEF Told, Placed, Segment
<1>6. ~req[w].spawned => seg[w].pc = "asking"
  BY <1>1 DEF Told, Placed
<1>7. r.cold \in BOOLEAN /\ req[w].posts \in Nat /\ req'[w].posts > 0 /\ r.items \in Seq(Item)
  BY <1>1, <1>2, LocalTypes, RepliesAssumption DEF Told, Placed, Request, Reply
<1> HIDE DEF kind, e
<1>8. UnitsTo(r, 0) = 0 /\ ~Ended(r, 0) /\ Declares(r, 0, "Unknown")
  BY UnitsType DEF Ended, Declares, Finishes
<1>9. ASSUME NEW h \in Reading, OneBody(h.text), Reached(w, h)
      PROVE  \E k \in Reading : Carries(<<e>>, ~Recovers(w), h, k) /\ Reached(w, k)'
  <2>1. h = Fresh
    BY <1>1, <1>9 DEF Reached
  <2>4. PICK k \in Reading : k = Hears(h, e)
    BY <1>4, HearsType
  <2>2. k = [Fresh EXCEPT !.cold = (kind = "cold")]
    BY <1>4, <2>1, <2>4 DEF Hears
  <2>3. k.text = <<>> /\ k.term = "Unknown" /\ k.cold = (r.cold /\ req[w].used = 0)
    BY <1>4, <2>2 DEF Fresh
  <2>5. OneBody(k.text)
    BY <2>3 DEF OneBody
  <2>6. Carries(<<e>>, ~Recovers(w), h, k)
    BY <1>4, <2>4, <2>5, CarriesOne
  <2>7. k.text = Copies(0, req[w].posts)
    BY <1>7, <2>3, CopiesOneBody
  <2>8. Vouched(w)' <=> r.cold /\ req[w].used = 0
    BY <1>2 DEF Vouched
  <2>9. k.cold = Vouched(w)'
    <3> DEFINE a == r.cold /\ req[w].used = 0
               b == Vouched(w)'
    <3>1. a \in BOOLEAN /\ b \in BOOLEAN /\ (a <=> b) /\ k.cold = a
      BY <2>3, <2>8 DEF Vouched
    <3> QED BY <3>1
  <2>10. Reached(w, k)'
    <3>1. UnitsTo(r, 0) = 0 /\ Declares(r, 0, k.term)
      BY <1>8, <2>3
    <3> QED BY <1>2, <2>7, <2>9, <3>1 DEF Reached
  <2> QED BY <2>6, <2>10
<1>10. Heard(w)'
  <2>1. <<e>> \in Seq(Event)
    BY <1>4
  <2>2. seg'[w].pc \in Listening => seg[w].pc \in Listening
    BY <1>3, <1>6 DEF Listening
  <2> QED BY <1>1, <1>3, <1>9, <2>1, <2>2, Spoken DEF Told
<1>11. ~Answered(w) /\ Vouches(w)' /\ ~Answered(w)'
  <2>1. ~Answered(w)
    BY <1>1, StillOpen DEF Told
  <2> QED BY <1>3, <2>1 DEF Answered, Vouches
<1>12. NoError(Pending(w))' <=> NoError(Pending(w))
  <2>1. NoError(<<e>>) /\ <<e>> \in Seq(Event)
    BY <1>4 DEF NoError
  <2>2. chan[w] \in Seq(Event) /\ Pending(w)' = chan[w] \o <<e>> /\ Pending(w) = chan[w]
    BY <1>1 DEF Pending, TypeOK
  <2> QED BY <2>1, <2>2, NoErrorJoin
<1>13. Placed(w)'
  BY <1>1, <1>2, <1>3, <1>5, <1>6, <1>7, <1>11, <1>12 DEF Told, Placed, Listening
<1>14. InBody(w)'
  BY <1>2, <1>7, <1>8 DEF InBody
<1> QED
  BY <1>10, <1>11, <1>13, <1>14 DEF Told

LEMMA BackoffTold ==
  ASSUME TypeOK, TypeOK', NEW w \in Workers, Told(w), Backoff(w)
  PROVE  Told(w)'
<1> DEFINE e == Plain("restarted")
           es == IF req[w].broken THEN <<e>> ELSE <<>>
<1>1. /\ req[w].pc = "backoff" /\ outbox[w] = <<>> /\ chan' = chan /\ open' = open /\ seg' = seg
      /\ outbox'[w] = es
  BY DEF Backoff, At, Say, TypeOK
<1>2. /\ req'[w].pc = "connect" /\ req'[w].spawned = req[w].spawned /\ ~req'[w].broken
      /\ req'[w].posts = req[w].posts
  BY LocalTypes DEF Backoff, TypeOK, Request
<1>3. e \in Event /\ e.kind = "restarted" /\ es \in Seq(Event)
  BY EventTypes DEF Plain
<1>4. NoError(es)
  BY <1>3 DEF NoError
<1> HIDE DEF e
<1>5. ASSUME NEW h \in Reading, OneBody(h.text), Reached(w, h)
      PROVE  \E k \in Reading : Carries(es, ~Recovers(w), h, k) /\ Reached(w, k)'
  <2>1. Reached(w, Fresh)'
    BY <1>2 DEF Reached
  <2>2. CASE req[w].broken
    <3>1. Hears(h, e) = Fresh
      BY <1>3 DEF Hears
    <3>2. ~Recovers(w) => h.text = <<>>
      BY <1>1, <1>5 DEF Reached
    <3>3. Carries(<<e>>, ~Recovers(w), h, Fresh)
      BY <1>3, <3>1, <3>2, FreshReading, CarriesOne
    <3> QED BY <2>1, <2>2, <3>3, FreshReading
  <2>3. CASE ~req[w].broken
    <3>1. h = Fresh
      BY <1>1, <1>5, <2>3 DEF Reached
    <3> QED BY <2>1, <2>3, <3>1, CarriesNone
  <2> QED BY <2>2, <2>3
<1> HIDE DEF es
<1>6. Heard(w)'
  BY <1>1, <1>3, <1>5, Spoken DEF Told, Got
<1>7. ~Answered(w) /\ Vouches(w)' /\ ~Answered(w)'
  BY <1>1, StillOpen, Unanswered DEF Told
<1>8. NoError(Pending(w))' <=> NoError(Pending(w))
  <2>1. chan[w] \in Seq(Event) /\ Pending(w)' = chan[w] \o es /\ Pending(w) = chan[w]
    BY <1>1 DEF Pending, TypeOK
  <2> QED BY <1>3, <1>4, <2>1, NoErrorJoin
<1>9. Got(w)' = Got(w) /\ seg[w].pc # "call"
  BY <1>1 DEF Got, Told, Placed
<1>10. seg[w].pc = "asking" => es = <<>>
  BY <1>1 DEF Told, Placed, es
<1>11. Placed(w)'
  BY <1>1, <1>2, <1>7, <1>8, <1>9, <1>10 DEF Told, Placed, Listening
<1> QED
  BY <1>2, <1>6, <1>7, <1>11 DEF Told, InBody
\* A body goes on, or ends in order.
LEMMA ReadTold ==
  ASSUME TypeOK, TypeOK', NEW w \in Workers, Told(w), req[w].pc = "read",
         outbox[w] = <<>>, chan' = chan, seg' = seg, open' = open,
         NEW es \in Seq(Event), NoError(es), outbox'[w] = es,
         req'[w].pc \in {"read", "leave"}, req'[w].posts = req[w].posts,
         req'[w].spawned = req[w].spawned, InBody(w)',
         \A h \in Reading : OneBody(h.text) /\ Reached(w, h) =>
            \E k \in Reading : Carries(es, ~Recovers(w), h, k) /\ Reached(w, k)'
  PROVE  Told(w)'
<1>1. Heard(w)'
  BY Spoken DEF Told, Got
<1>2. ~Answered(w) /\ Vouches(w)' /\ ~Answered(w)'
  BY StillOpen, Unanswered DEF Told
<1>3. NoError(Pending(w))' <=> NoError(Pending(w))
  <2>1. chan[w] \in Seq(Event) /\ Pending(w)' = chan[w] \o es /\ Pending(w) = chan[w]
    BY DEF Pending, TypeOK
  <2> QED BY <2>1, NoErrorJoin
<1>4. seg[w].pc \notin {"call", "asking"} /\ Got(w)' = Got(w) /\ req[w].spawned
  BY DEF Told, Placed, Got
<1>5. Placed(w)'
  BY <1>2, <1>3, <1>4 DEF Told, Placed, Listening
<1> QED BY <1>1, <1>2, <1>5 DEF Told

LEMMA BodyNumber ==
  ASSUME TypeOK, NEW w \in Workers, Told(w), Metered(w), req[w].spawned
  PROVE  req[w].posts \in 1 .. MaxRetries + 1
<1>1. req[w].posts \in Nat /\ req[w].used \in 0 .. MaxRetries /\ req[w].posts > 0
  BY LocalTypes DEF Request, Told, Placed
<1> QED BY <1>1, LimitsAssumption DEF Metered

LEMMA UnitHeard ==
  ASSUME NEW w \in Workers, NEW b \in 1 .. MaxRetries + 1, req[w].posts = b, NEW i \in Item,
         NEW n \in Nat, NEW h \in Reading, h.text = Copies(n, b)
  PROVE  \E k \in Reading :
            /\ Carries(Unit(w, i), ~Recovers(w), h, k) /\ k.term = h.term /\ k.cold = h.cold
            /\ k.text = Copies(IF i.text THEN n + 1 ELSE n, b)
<1>1. CASE i.text
  <2>1. PICK e \in Event : e = UnitOf(b)
    BY EventTypes, LimitsAssumption
  <2>2. e.kind = "unit" /\ e.body = b
    BY <2>1 DEF UnitOf, Plain
  <2>3. PICK k \in Reading : k = Hears(h, e)
    BY HearsType
  <2>4. k = [h EXCEPT !.text = Append(h.text, b)]
    BY <2>2, <2>3 DEF Hears
  <2>5. Append(h.text, b) = Copies(n + 1, b) /\ OneBody(Copies(n + 1, b))
    <3>1. b \in Nat /\ n + 1 \in Nat
      BY LimitsAssumption
    <3> QED BY <3>1, CopiesOneBody
  <2>6. k.text = Copies(n + 1, b) /\ k.term = h.term /\ k.cold = h.cold
    BY <2>4, <2>5 DEF Reading
  <2>7. Carries(<<e>>, ~Recovers(w), h, k)
    BY <2>2, <2>3, <2>5, <2>6, CarriesOne
  <2>8. Unit(w, i) = <<e>>
    BY <1>1, <2>1 DEF Unit
  <2> QED BY <1>1, <2>6, <2>7, <2>8
<1>2. CASE ~i.text
  <2>1. Unit(w, i) = <<>>
    BY <1>2 DEF Unit
  <2> QED BY <1>2, <2>1, CarriesNone
<1> QED BY <1>1, <1>2

LEMMA FinishHeard ==
  ASSUME NEW w \in Workers, NEW t \in Terminations, NEW h \in Reading, OneBody(h.text)
  PROVE  /\ <<Finished(t)>> \in Seq(Event) /\ NoError(<<Finished(t)>>)
         /\ \E k \in Reading : /\ Carries(<<Finished(t)>>, ~Recovers(w), h, k)
                              /\ k.text = h.text /\ k.term = t /\ k.cold = h.cold
<1>1. PICK e \in Event : e = Finished(t)
  BY EventTypes
<1>2. e.kind = "finished" /\ e.termination = t
  BY <1>1 DEF Finished, Plain
<1>3. PICK k \in Reading : k = Hears(h, e)
  BY HearsType
<1>4. k = [h EXCEPT !.term = t]
  BY <1>2, <1>3 DEF Hears
<1>5. k.text = h.text /\ k.term = t /\ k.cold = h.cold
  BY <1>4 DEF Reading
<1>6. Carries(<<e>>, ~Recovers(w), h, k)
  BY <1>2, <1>3, <1>5, CarriesOne
<1>7. <<e>> \in Seq(Event) /\ NoError(<<e>>)
  BY <1>2 DEF NoError
<1> QED BY <1>1, <1>5, <1>6, <1>7

LEMMA EndOfBodyTold ==
  ASSUME TypeOK, TypeOK', NEW w \in Workers, Told(w), EndOfBody(w)
  PROVE  Told(w)'
<1>1. PICK r \in Replies, b \in Nat : r = req[w].reply /\ b = req[w].posts
  BY LocalTypes DEF EndOfBody, At, Told, InBody, Request
<1> DEFINE es == IF req[w].terminal THEN <<>> ELSE <<Finished("MissingTerminal")>>
<1>2. /\ req[w].pc = "read" /\ outbox[w] = <<>> /\ chan' = chan /\ seg' = seg /\ open' = open
      /\ outbox'[w] = es /\ r.sse /\ req[w].pos = Len(r.items) /\ ~r.cut
  BY <1>1 DEF EndOfBody, At, Say, TypeOK
<1>3. /\ req'[w].pc = "leave" /\ req'[w].posts = b /\ req'[w].reply = r
      /\ req'[w].spawned = req[w].spawned /\ req'[w].used = req[w].used
  BY <1>1, LocalTypes DEF EndOfBody, Go, TypeOK, Request
<1>4. req[w].terminal <=> Ended(r, Len(r.items))
  BY <1>1, <1>2 DEF Told, InBody
<1>5. "MissingTerminal" \in Terminations
  BY DEF Terminations
<1>6. es \in Seq(Event) /\ NoError(es)
  BY <1>5, FreshReading, FinishHeard DEF NoError
<1>7. ASSUME NEW h \in Reading, OneBody(h.text), Reached(w, h)
      PROVE  \E k \in Reading : Carries(es, ~Recovers(w), h, k) /\ Reached(w, k)'
  <2>1. /\ h.text = Copies(UnitsTo(r, Len(r.items)), b) /\ Declares(r, Len(r.items), h.term)
        /\ h.cold = Vouched(w)
    BY <1>1, <1>2, <1>7 DEF Reached
  <2>2. /\ UnitsTo(r, Len(r.items)) = Units(r)
        /\ Ending(r) = IF Ended(r, Len(r.items)) THEN h.term ELSE "MissingTerminal"
    BY <1>2, <2>1, DeclaresEnding
  <2>3. PICK k \in Reading : /\ Carries(es, ~Recovers(w), h, k) /\ k.text = h.text /\ k.cold = h.cold
                             /\ k.term = IF req[w].terminal THEN h.term ELSE "MissingTerminal"
    <3>1. CASE req[w].terminal
      BY <3>1, CarriesNone
    <3>2. CASE ~req[w].terminal
      BY <1>5, <1>7, <3>2, FinishHeard
    <3> QED BY <3>1, <3>2
  <2>4. k.text = Copies(Units(r), b) /\ k.term = Ending(r)
    BY <1>4, <2>1, <2>2, <2>3
  <2>5. Vouched(w)' = Vouched(w)
    BY <1>1, <1>3 DEF Vouched
  <2>6. Reached(w, k)'
    BY <1>2, <1>3, <2>1, <2>3, <2>4, <2>5 DEF Reached
  <2> QED BY <2>3, <2>6
<1> HIDE DEF es
<1>8. InBody(w)'
  BY <1>3 DEF InBody
<1> QED BY <1>1, <1>2, <1>3, <1>6, <1>7, <1>8, ReadTold

LEMMA ReadWholeTold ==
  ASSUME TypeOK, TypeOK', NEW w \in Workers, Told(w), Metered(w), ReadWhole(w)
  PROVE  Told(w)'
<1>1. CASE req[w].reply.items[1].kind = "bad"
  BY <1>1, FailTold DEF ReadWhole, At
<1>2. CASE req[w].reply.items[1].kind # "bad"
  <2>1. req[w].spawned
    BY DEF ReadWhole, At, Told, Placed
  <2>2. PICK r \in Replies, b \in 1 .. MaxRetries + 1 : r = req[w].reply /\ b = req[w].posts
    BY <2>1, BodyNumber DEF ReadWhole, At, Told, InBody
  <2>3. ~r.sse /\ ~r.cut /\ Len(r.items) = 1 /\ req[w].pc = "read" /\ req[w].pos = 0
    BY <2>2, RepliesAssumption DEF ReadWhole, At, Told, InBody
  <2>4. PICK i \in Item : i = r.items[1]
    BY <2>2, <2>3, RepliesAssumption DEF Reply
  <2>5. PICK t \in Terminations : t = IF i.finish = "none" THEN "Unknown" ELSE i.finish
    BY DEF Item, Terminations
  <2> DEFINE es == Unit(w, i) \o <<Finished(t)>>
  <2>6. /\ outbox[w] = <<>> /\ chan' = chan /\ seg' = seg /\ open' = open /\ outbox'[w] = es
    BY <1>2, <2>2, <2>4, <2>5 DEF ReadWhole, At, Say, TypeOK
  <2>7. /\ req'[w].pc = "leave" /\ req'[w].posts = b /\ req'[w].reply = r
        /\ req'[w].spawned = req[w].spawned /\ req'[w].used = req[w].used
    BY <1>2, <2>2, LocalTypes DEF ReadWhole, Go, TypeOK, Request
  <2>8. /\ Unit(w, i) \in Seq(Event) /\ <<Finished(t)>> \in Seq(Event)
        /\ es \in Seq(Event) /\ NoError(es)
    <3>1. Unit(w, i) \in Seq(Event) /\ NoError(Unit(w, i))
      BY UnitTypes DEF Unit, UnitOf, Plain, NoError
    <3>2. <<Finished(t)>> \in Seq(Event) /\ NoError(<<Finished(t)>>)
      BY FreshReading, FinishHeard
    <3>3. es \in Seq(Event)
      BY <3>1, <3>2
    <3>4. NoError(es) <=> NoError(Unit(w, i))
      BY <3>1, <3>2, NoErrorJoin
    <3> QED BY <3>1, <3>2, <3>3, <3>4
  <2>9. UnitsTo(r, 0) = 0 /\ UnitsTo(r, 1) = (IF i.text THEN 1 ELSE 0) /\ UnitsTo(r, 1) = Units(r)
    <3>1. UnitsTo(r, 0) = 0
      BY UnitsType
    <3>2. UnitsTo(r, 0 + 1) = IF r.items[0 + 1].text THEN UnitsTo(r, 0) + 1 ELSE UnitsTo(r, 0)
      BY UnitsGrow
    <3>3. DOMAIN r.items = 1 .. 1
      BY <2>3, RepliesAssumption DEF Reply
    <3> QED BY <2>4, <3>1, <3>2, <3>3 DEF UnitsTo, Units
  <2>10. Ending(r) = t
    <3> DEFINE finishes == {k \in DOMAIN r.items : r.items[k].finish # "none"}
    <3>1. DOMAIN r.items = 1 .. 1
      BY <2>3, RepliesAssumption DEF Reply
    <3>2. finishes = IF i.finish # "none" THEN {1} ELSE {}
      BY <2>4, <3>1
    <3>3. (CHOOSE k \in {1} : \A j \in {1} : j <= k) = 1
      OBVIOUS
    <3>4. CASE i.finish # "none"
      <4>1. finishes = {1}
        BY <3>2, <3>4
      <4>2. Ending(r) = r.items[1].finish
        BY <3>3, <4>1 DEF Ending
      <4> QED BY <2>4, <2>5, <3>4, <4>2
    <3>5. CASE i.finish = "none"
      <4>1. finishes = {}
        BY <3>2, <3>5
      <4> QED BY <2>3, <2>5, <3>5, <4>1 DEF Ending
    <3> QED BY <3>4, <3>5
  <2>11. ASSUME NEW h \in Reading, OneBody(h.text), Reached(w, h)
         PROVE  \E k \in Reading : Carries(es, ~Recovers(w), h, k) /\ Reached(w, k)'
    <3>1. h.text = Copies(0, b) /\ h.cold = Vouched(w)
      BY <2>2, <2>3, <2>9, <2>11 DEF Reached
    <3>2. PICK g \in Reading :
            /\ Carries(Unit(w, i), ~Recovers(w), h, g) /\ g.term = h.term /\ g.cold = h.cold
            /\ g.text = Copies(IF i.text THEN 0 + 1 ELSE 0, b)
      BY <2>2, <3>1, UnitHeard
    <3>3. g.text = Copies(Units(r), b) /\ OneBody(g.text)
      <4>1. b \in Nat
        BY LimitsAssumption
      <4>2. PICK n \in Nat : n = IF i.text THEN 0 + 1 ELSE 0
        OBVIOUS
      <4>3. g.text = Copies(n, b) /\ Units(r) = n
        BY <2>9, <3>2, <4>2
      <4> QED BY <4>1, <4>3, CopiesOneBody
    <3>4. PICK k \in Reading : /\ Carries(<<Finished(t)>>, ~Recovers(w), g, k)
                               /\ k.text = g.text /\ k.term = t /\ k.cold = g.cold
      BY <3>3, FinishHeard
    <3>5. Carries(es, ~Recovers(w), h, k)
      BY <2>8, <3>2, <3>4, CarriesTwo
    <3>6. Vouched(w)' = Vouched(w)
      BY <2>2, <2>7 DEF Vouched
    <3>7. Reached(w, k)'
      BY <2>3, <2>7, <2>10, <3>1, <3>2, <3>3, <3>4, <3>6 DEF Reached
    <3> QED BY <3>5, <3>7
  <2>12. InBody(w)'
    BY <2>7 DEF InBody
  <2>13. PICK fs \in Seq(Event) : fs = es
    BY <2>8
  <2> HIDE DEF es
  <2> QED BY <2>2, <2>3, <2>6, <2>7, <2>8, <2>11, <2>12, <2>13, ReadTold
<1> QED BY <1>1, <1>2
LEMMA ReadItemTold ==
  ASSUME TypeOK, TypeOK', NEW w \in Workers, Told(w), Metered(w), ReadItem(w)
  PROVE  Told(w)'
<1>1. req[w].spawned
  BY DEF ReadItem, At, Told, Placed
<1>2. PICK r \in Replies, b \in 1 .. MaxRetries + 1, p \in Nat :
         r = req[w].reply /\ b = req[w].posts /\ p = req[w].pos
  BY <1>1, BodyNumber, LocalTypes DEF ReadItem, At, Told, InBody, Request
<1>3. /\ req[w].pc = "read" /\ outbox[w] = <<>> /\ chan' = chan /\ seg' = seg /\ open' = open
      /\ r.sse /\ p < Len(r.items) /\ Len(r.items) \in Nat
  BY <1>2, RepliesAssumption DEF ReadItem, At, Reply
<1>4. PICK i \in Item : i = r.items[p + 1] /\ i = NextItem(w)
  <2>1. p + 1 \in DOMAIN r.items
    BY <1>3, RepliesAssumption DEF Reply
  <2>2. r.items[p + 1] \in Item
    BY <2>1, RepliesAssumption DEF Reply
  <2> QED BY <1>2, <2>2 DEF NextItem
<1>5. /\ UnitsTo(r, p) \in Nat
      /\ UnitsTo(r, p + 1) = IF i.text THEN UnitsTo(r, p) + 1 ELSE UnitsTo(r, p)
  BY <1>4, UnitsType, UnitsGrow
<1>6. (req[w].content <=> UnitsTo(r, p) > 0) /\ (req[w].terminal <=> Ended(r, p))
  BY <1>2, <1>3 DEF Told, InBody
<1>7. PICK read \in Request : read = [req[w] EXCEPT !.pos = p + 1]
  <2>1. p + 1 \in Nat
    OBVIOUS
  <2>2. [req[w] EXCEPT !.pos = p + 1] \in Request
    BY <2>1, LocalTypes DEF Request
  <2> QED BY <2>2
<1>8. /\ read.pc = "read" /\ read.pos = p + 1 /\ read.reply = r /\ read.posts = b
      /\ read.spawned = req[w].spawned /\ read.used = req[w].used
      /\ read.terminal = req[w].terminal /\ read.content = req[w].content
  BY <1>2, <1>3, <1>7, LocalTypes DEF Request
<1>9. p + 1 \in 0 .. Len(r.items) /\ p + 1 \in Nat /\ b \in Nat
  BY <1>3, LimitsAssumption
<1>10. ASSUME NEW h \in Reading, Reached(w, h)
       PROVE  h.text = Copies(UnitsTo(r, p), b) /\ Declares(r, p, h.term) /\ h.cold = Vouched(w)
  BY <1>2, <1>3, <1>10 DEF Reached
<1>11. ASSUME req'[w].pc = "read", req'[w].reply = r, req'[w].pos = p + 1, req'[w].posts = b,
              req'[w].used = req[w].used, NEW k \in Reading,
              k.text = Copies(UnitsTo(r, p + 1), b), Declares(r, p + 1, k.term),
              k.cold = Vouched(w)
       PROVE  Reached(w, k)'
  <2>1. Vouched(w)' = Vouched(w)
    BY <1>2, <1>11 DEF Vouched
  <2> QED BY <1>11, <2>1 DEF Reached
<1>12. Ended(r, p + 1) <=> Ended(r, p) \/ i.finish # "none" \/ i.kind = "done"
  <2>1. 1 .. p + 1 = (1 .. p) \cup {p + 1}
    OBVIOUS
  <2> QED BY <1>4, <2>1 DEF Ended
<1>13. CASE i.kind = "choice"
  <2> DEFINE content == read.content \/ i.text
             terminal == read.terminal \/ i.finish # "none"
             now == [read EXCEPT !.choice = TRUE, !.content = content, !.terminal = terminal]
             es == Unit(w, i) \o Finish(i)
  <2>1. req' = [req EXCEPT ![w] = now] /\ Say(w, es)
    BY <1>2, <1>4, <1>7, <1>13 DEF ReadItem
  <2>2. outbox'[w] = es /\ req'[w] = now
    BY <2>1 DEF Say, TypeOK
  <2>3. content <=> UnitsTo(r, p + 1) > 0
    BY <1>5, <1>6, <1>8
  <2>4. terminal <=> Ended(r, p + 1)
    BY <1>6, <1>8, <1>13, <1>12
  <2> HIDE DEF content, terminal
  <2>5. /\ now.pc = "read" /\ now.pos = p + 1 /\ now.reply = r /\ now.posts = b
        /\ now.spawned = req[w].spawned /\ now.used = req[w].used
        /\ now.content = content /\ now.terminal = terminal
    BY <1>8 DEF Request
  <2> HIDE DEF now
  <2>6. InBody(w)'
    BY <1>3, <1>9, <2>2, <2>3, <2>4, <2>5 DEF InBody
  <2>7. /\ Unit(w, i) \in Seq(Event) /\ Finish(i) \in Seq(Event)
        /\ NoError(Unit(w, i)) /\ NoError(Finish(i))
    <3>1. NoError(Unit(w, i)) /\ NoError(Finish(i))
      BY DEF Unit, UnitOf, Finish, Finished, Plain, NoError
    <3> QED BY <3>1, UnitTypes
  <2>8. es \in Seq(Event) /\ NoError(es)
    BY <2>7, NoErrorJoin
  <2>9. ASSUME NEW h \in Reading, OneBody(h.text), Reached(w, h)
        PROVE  \E k \in Reading : Carries(es, ~Recovers(w), h, k) /\ Reached(w, k)'
    <3>1. h.text = Copies(UnitsTo(r, p), b) /\ Declares(r, p, h.term) /\ h.cold = Vouched(w)
      BY <1>10, <2>9
    <3>2. PICK g \in Reading :
            /\ Carries(Unit(w, i), ~Recovers(w), h, g) /\ g.term = h.term /\ g.cold = h.cold
            /\ g.text = Copies(IF i.text THEN UnitsTo(r, p) + 1 ELSE UnitsTo(r, p), b)
      BY <1>2, <1>5, <3>1, UnitHeard
    <3>3. g.text = Copies(UnitsTo(r, p + 1), b) /\ OneBody(g.text)
      <4>1. UnitsTo(r, p + 1) \in Nat
        BY <1>9, UnitsType
      <4> QED BY <1>5, <1>9, <3>2, <4>1, CopiesOneBody, ZenonT(60)
    <3>4. PICK k \in Reading : /\ Carries(Finish(i), ~Recovers(w), g, k)
                               /\ k.text = g.text /\ k.cold = g.cold
                               /\ k.term = IF i.finish = "none" THEN g.term ELSE i.finish
      <4>1. CASE i.finish = "none"
        <5>1. Finish(i) = <<>>
          BY <4>1 DEF Finish
        <5> QED BY <4>1, <5>1, CarriesNone
      <4>2. CASE i.finish # "none"
        <5>1. Finish(i) = <<Finished(i.finish)>> /\ i.finish \in Terminations
          BY <4>2 DEF Finish, Item, Terminations
        <5> QED BY <3>3, <4>2, <5>1, FinishHeard
      <4> QED BY <4>1, <4>2
    <3>5. Carries(es, ~Recovers(w), h, k)
      BY <2>7, <3>2, <3>4, CarriesTwo
    <3>6. Declares(r, p + 1, k.term)
      <4>1. i.kind # "done"
        BY <1>13
      <4> QED BY <1>4, <3>1, <3>2, <3>4, <4>1, DeclaresMore
    <3>7. Reached(w, k)'
      BY <1>11, <2>2, <2>5, <3>1, <3>2, <3>3, <3>4, <3>6
    <3> QED BY <3>5, <3>7
  <2>10. PICK fs \in Seq(Event) : fs = es
    BY <2>8
  <2> HIDE DEF es
  <2> QED BY <1>2, <1>3, <2>2, <2>5, <2>6, <2>8, <2>9, <2>10, ReadTold
<1>14. CASE i.kind = "blank"
  <2>1. req'[w] = read /\ outbox'[w] = <<>>
    BY <1>2, <1>3, <1>4, <1>7, <1>14 DEF ReadItem, TypeOK
  <2>2. ~i.text /\ i.finish = "none"
    BY <1>14 DEF Item
  <2>3. Ended(r, p + 1) <=> Ended(r, p)
    BY <1>14, <1>12, <2>2
  <2>4. InBody(w)'
    BY <1>3, <1>5, <1>6, <1>8, <1>9, <2>1, <2>2, <2>3 DEF InBody
  <2>5. ASSUME NEW h \in Reading, OneBody(h.text), Reached(w, h)
        PROVE  \E k \in Reading : Carries(<<>>, ~Recovers(w), h, k) /\ Reached(w, k)'
    <3>1. h.text = Copies(UnitsTo(r, p), b) /\ Declares(r, p, h.term) /\ h.cold = Vouched(w)
      BY <1>10, <2>5
    <3>2. Declares(r, p + 1, h.term) /\ h.text = Copies(UnitsTo(r, p + 1), b)
      BY <1>4, <1>5, <1>14, <2>2, <3>1, DeclaresMore
    <3>3. Reached(w, h)'
      BY <1>8, <1>11, <2>1, <3>1, <3>2
    <3> QED BY <3>3, CarriesNone
  <2>6. <<>> \in Seq(Event) /\ NoError(<<>>)
    BY DEF NoError
  <2> QED BY <1>2, <1>3, <1>8, <2>1, <2>4, <2>5, <2>6, ReadTold
<1>15. CASE i.kind = "done" /\ req[w].choice
  <2> DEFINE es == IF req[w].terminal THEN <<>> ELSE <<Finished("Stop")>>
             now == [read EXCEPT !.terminal = TRUE]
  <2>1. req'[w] = now /\ outbox'[w] = es
    BY <1>2, <1>4, <1>7, <1>15 DEF ReadItem, Say, TypeOK
  <2>2. /\ now.pc = "read" /\ now.pos = p + 1 /\ now.reply = r /\ now.posts = b
        /\ now.spawned = req[w].spawned /\ now.used = req[w].used
        /\ now.content = req[w].content /\ now.terminal
    BY <1>8 DEF Request
  <2> HIDE DEF now
  <2>3. ~i.text /\ i.finish = "none"
    BY <1>15 DEF Item
  <2>4. Ended(r, p + 1)
    BY <1>15, <1>12
  <2>5. InBody(w)'
    BY <1>3, <1>5, <1>6, <1>9, <2>1, <2>2, <2>3, <2>4 DEF InBody
  <2>6. "Stop" \in Terminations
    BY DEF Terminations
  <2>7. es \in Seq(Event) /\ NoError(es)
    BY <2>6, FreshReading, FinishHeard DEF NoError
  <2>8. ASSUME NEW h \in Reading, OneBody(h.text), Reached(w, h)
        PROVE  \E k \in Reading : Carries(es, ~Recovers(w), h, k) /\ Reached(w, k)'
    <3>1. h.text = Copies(UnitsTo(r, p), b) /\ Declares(r, p, h.term) /\ h.cold = Vouched(w)
      BY <1>10, <2>8
    <3>2. PICK k \in Reading : /\ Carries(es, ~Recovers(w), h, k) /\ k.text = h.text /\ k.cold = h.cold
                               /\ k.term = IF req[w].terminal THEN h.term ELSE "Stop"
      <4>1. CASE req[w].terminal
        BY <4>1, CarriesNone
      <4>2. CASE ~req[w].terminal
        BY <2>6, <2>8, <4>2, FinishHeard
      <4> QED BY <4>1, <4>2
    <3>3. Declares(r, p + 1, k.term)
      BY <1>4, <1>6, <1>15, <2>3, <3>1, <3>2, DeclaresMore
    <3>4. k.text = Copies(UnitsTo(r, p + 1), b)
      BY <1>5, <2>3, <3>1, <3>2
    <3>5. Reached(w, k)'
      BY <1>11, <2>1, <2>2, <3>1, <3>2, <3>3, <3>4
    <3> QED BY <3>2, <3>5
  <2> HIDE DEF es
  <2> QED BY <1>2, <1>3, <2>1, <2>2, <2>5, <2>7, <2>8, ReadTold
<1>16. CASE i.kind = "bad" \/ (i.kind = "done" /\ ~req[w].choice)
  <2>1. req'[w] = [read EXCEPT !.pc = "leave"] /\ outbox'[w] = <<Plain("error")>>
    BY <1>2, <1>4, <1>7, <1>16 DEF ReadItem, Say, TypeOK
  <2>2. req'[w].pc = "leave" /\ req'[w].posts = b /\ req'[w].spawned
    BY <1>1, <1>8, <2>1 DEF Request
  <2> QED BY <1>1, <1>2, <1>3, <2>1, <2>2, ErrorTold
<1> QED
  BY <1>13, <1>14, <1>15, <1>16 DEF Item
LEMMA SetbackTold ==
  ASSUME TypeOK, TypeOK', NEW w \in Workers, Told(w), PostFails(w) \/ BodyBreaks(w)
  PROVE  Told(w)'
<1>1. CASE PostFails(w)
  BY <1>1, WaitTold, FailTold DEF PostFails, At
<1>2. CASE BodyBreaks(w)
  BY <1>2, WaitTold, FailTold DEF BodyBreaks, At
<1> QED BY <1>1, <1>2

LEMMA EmitTold ==
  ASSUME TypeOK, TypeOK', NEW w \in Workers, Told(w), Emit(w)
  PROVE  Told(w)'
<1>1. /\ seg' = seg /\ req' = req /\ open' = open /\ outbox[w] # <<>> /\ open[w]
      /\ chan'[w] = Append(chan[w], Head(outbox[w])) /\ outbox'[w] = Tail(outbox[w])
      /\ chan[w] \in Seq(Event) /\ outbox[w] \in Seq(Event)
  BY DEF Emit, TypeOK
<1>2. Pending(w)' = Pending(w)
  <2>1. \A p, q \in Seq(Event) : q # <<>> => Append(p, Head(q)) \o Tail(q) = p \o q
    OBVIOUS
  <2> QED BY <1>1, <2>1 DEF Pending
<1>3. Got(w)' = Got(w) /\ Recovers(w)' = Recovers(w) /\ Vouched(w)' = Vouched(w)
  BY <1>1 DEF Got, Recovers, Vouched
<1>4. \A h : Reached(w, h)' <=> Reached(w, h)
  BY <1>1, <1>2, <1>3 DEF Reached
<1>5. Heard(w)'
  BY <1>1, <1>2, <1>3, <1>4 DEF Told, Heard
<1>6. ~Answered(w) /\ Vouches(w)' /\ ~Answered(w)'
  BY <1>1, StillOpen, Unanswered DEF Told
<1>7. Placed(w)'
  BY <1>1, <1>2, <1>3, <1>6 DEF Told, Placed, Listening
<1> QED BY <1>1, <1>5, <1>6, <1>7 DEF Told, InBody

LEMMA LeaveTold ==
  ASSUME TypeOK, TypeOK', NEW w \in Workers, Told(w), Leave(w)
  PROVE  Told(w)'
<1>1. /\ seg' = seg /\ open' = open /\ outbox' = outbox /\ chan' = chan
      /\ req[w].pc = "leave" /\ outbox[w] = <<>>
  BY DEF Leave, At
<1>2. /\ req'[w].pc = "gone" /\ req'[w].spawned = req[w].spawned /\ req'[w].reply = req[w].reply
      /\ req'[w].posts = req[w].posts /\ req'[w].used = req[w].used
  BY LocalTypes DEF Leave, Go, TypeOK, Request
<1>3. Pending(w)' = Pending(w) /\ Got(w)' = Got(w) /\ Vouched(w)' = Vouched(w)
  BY <1>1, <1>2 DEF Pending, Got, Vouched
<1>4. ASSUME NEW h \in Reading, Reached(w, h) PROVE Reached(w, h)'
  BY <1>1, <1>2, <1>3, <1>4 DEF Reached
<1>5. Heard(w)'
  BY <1>1, <1>4, Silent DEF Told
<1>6. ~Answered(w) /\ Vouches(w)' /\ ~Answered(w)'
  BY <1>1, StillOpen, Unanswered DEF Told
<1>7. Placed(w)'
  BY <1>1, <1>2, <1>3, <1>6 DEF Told, Placed, Listening
<1> QED BY <1>2, <1>5, <1>6, <1>7 DEF Told, InBody

LEMMA CancelledTold ==
  ASSUME TypeOK, TypeOK', NEW w \in Workers, Told(w), Cancelled(w)
  PROVE  Told(w)'
<1>1. /\ seg' = seg /\ open' = open /\ outbox'[w] = <<>> /\ chan' = chan
      /\ req[w].pc # "gone" /\ req[w].spawned /\ ~open[w]
  BY DEF Cancelled, Say, TypeOK
<1>2. req'[w].pc = "gone" /\ ~req'[w].spawned
  BY DEF Cancelled, Dropped, TypeOK, NoRequest
<1>3. seg[w].pc \notin Listening
  BY <1>1 DEF Told, Placed
<1>4. Heard(w)'
  BY <1>1, <1>3 DEF Heard
<1>5. ~Answered(w) /\ Vouches(w)' /\ ~Answered(w)'
  BY <1>1, StillOpen, Unanswered DEF Told
<1>6. Placed(w)'
  BY <1>1, <1>2, <1>3, <1>5 DEF Told, Placed, Got, Listening
<1> QED BY <1>2, <1>4, <1>5, <1>6 DEF Told, InBody

\* A worker that has given up is owed nothing.
LEMMA GivenUp ==
  ASSUME TypeOK, NEW w \in Workers, NEW how \in {"error", "exhausted"}, GiveUp(w, how)
  PROVE  /\ seg'[w].pc = "ended" /\ seg'[w].result = how /\ ~Answered(w)'
         /\ Heard(w)' /\ Vouches(w)'
<1>1. seg'[w].pc = "ended" /\ seg'[w].result = how
  BY DEF GiveUp, TypeOK, NewSegment
<1> QED BY <1>1 DEF Answered, Heard, Vouches, Listening

\* A worker that has an open channel has heard the next event.
LEMMA TakeHeard ==
  ASSUME TypeOK, NEW w \in Workers, Told(w), Take(w), Head(chan[w]).kind # "error"
  PROVE  /\ seg'[w].pc = "reading" /\ seg'[w].attempt = seg[w].attempt
         /\ seg'[w].result = seg[w].result /\ Got(w) \in Reading
         /\ Got(w)' = Hears(Got(w), Head(chan[w]))
<1> DEFINE e == Head(chan[w])
<1>1. e \in Event /\ seg[w] \in Segment /\ seg[w].pc = "reading"
  BY LocalTypes DEF Take, TypeOK
<1>2. e.kind \in {"cold", "warm", "restarted", "unit", "finished"}
  BY <1>1 DEF Event
<1>3. Got(w) = [text |-> seg[w].text, term |-> seg[w].term, cold |-> seg[w].cold]
  BY DEF Got
<1>4. Got(w) \in Reading
  BY <1>1 DEF Got, Segment, Reading
<1> HIDE DEF e
<1>5. CASE e.kind \in {"cold", "warm"}
  <2> DEFINE c == (e.kind = "cold")
  <2>1. seg'[w] = [seg[w] EXCEPT !.cold = c]
    BY <1>5 DEF Take, TypeOK, e
  <2>2. Hears(Got(w), e) = [Got(w) EXCEPT !.cold = c]
    BY <1>5 DEF Hears
  <2> HIDE DEF c
  <2> QED BY <1>1, <1>3, <1>4, <2>1, <2>2 DEF Got, Segment, e
<1>6. CASE e.kind = "restarted"
  <2>1. seg'[w] = [seg[w] EXCEPT !.text = <<>>, !.term = "Unknown", !.cold = FALSE]
    BY <1>6 DEF Take, TypeOK, e
  <2>2. Hears(Got(w), e) = Fresh
    BY <1>6 DEF Hears
  <2> QED BY <1>1, <1>4, <2>1, <2>2 DEF Got, Segment, Fresh, e
<1>7. CASE e.kind = "unit"
  <2> DEFINE t == Append(seg[w].text, e.body)
  <2>1. seg'[w] = [seg[w] EXCEPT !.text = t]
    BY <1>7 DEF Take, TypeOK, e
  <2>2. Hears(Got(w), e) = [Got(w) EXCEPT !.text = t]
    BY <1>3, <1>7 DEF Hears
  <2> HIDE DEF t
  <2> QED BY <1>1, <1>3, <1>4, <2>1, <2>2 DEF Got, Segment, e
<1>8. CASE e.kind = "finished"
  <2>1. seg'[w] = [seg[w] EXCEPT !.term = e.termination]
    BY <1>8 DEF Take, TypeOK, e
  <2>2. Hears(Got(w), e) = [Got(w) EXCEPT !.term = e.termination]
    BY <1>8 DEF Hears
  <2> QED BY <1>1, <1>3, <1>4, <2>1, <2>2 DEF Got, Segment, e
<1> QED BY <1>2, <1>5, <1>6, <1>7, <1>8

LEMMA TakeTold ==
  ASSUME TypeOK, TypeOK', NEW w \in Workers, Told(w), Take(w)
  PROVE  Told(w)'
<1>1. /\ req' = req /\ outbox' = outbox /\ chan'[w] = Tail(chan[w]) /\ chan[w] # <<>>
      /\ seg[w].pc = "reading" /\ open'[w] = (Head(chan[w]).kind # "error")
      /\ chan[w] \in Seq(Event) /\ outbox[w] \in Seq(Event)
  BY DEF Take, TypeOK
<1>2. /\ Pending(w) \in Seq(Event) /\ Pending(w) # <<>> /\ Head(Pending(w)) = Head(chan[w])
      /\ Pending(w)' = Tail(Pending(w))
  <2>1. \A p, q \in Seq(Event) : p # <<>> =>
           p \o q \in Seq(Event) /\ p \o q # <<>> /\ Head(p \o q) = Head(p) /\ Tail(p) \o q = Tail(p \o q)
    OBVIOUS
  <2> QED BY <1>1, <2>1 DEF Pending
<1>3. CASE Head(chan[w]).kind = "error"
  <2>1. GiveUp(w, "error")
    BY <1>3 DEF Take
  <2>2. /\ seg'[w].pc = "ended" /\ seg'[w].result = "error" /\ ~Answered(w)'
        /\ Heard(w)' /\ Vouches(w)'
    BY <2>1, GivenUp
  <2>3. Placed(w)'
    BY <1>1, <1>3, <2>2 DEF Told, Placed, Listening
  <2> QED BY <1>1, <2>2, <2>3 DEF Told, InBody
<1>4. CASE Head(chan[w]).kind # "error"
  <2>1. /\ seg'[w].pc = "reading" /\ seg'[w].attempt = seg[w].attempt
        /\ seg'[w].result = seg[w].result /\ Got(w) \in Reading
        /\ Got(w)' = Hears(Got(w), Head(chan[w]))
    BY <1>4, TakeHeard
  <2>2. PICK h \in Reading : Leads(Got(w), Pending(w), ~Recovers(w), h) /\ Reached(w, h)
    BY <1>1 DEF Told, Heard, Listening
  <2>3. Leads(Got(w)', Pending(w)', ~Recovers(w), h)
    BY <1>2, <2>1, <2>2, LeadsAfter
  <2>4. NoError(Pending(w))' <=> NoError(Pending(w))
    BY <1>2, <1>4, NoErrorTail
  <2>5. Recovers(w)' = Recovers(w) /\ Vouched(w)' = Vouched(w)
    BY <1>1, <2>1 DEF Recovers, Vouched
  <2>6. Reached(w, h)'
    BY <1>1, <2>2, <2>4, <2>5 DEF Reached
  <2>7. Heard(w)'
    BY <2>3, <2>5, <2>6 DEF Heard
  <2>8. ~Answered(w)'
    BY <1>1, <2>1 DEF Told, Placed, Answered
  <2>9. Placed(w)'
    BY <1>1, <1>4, <2>1, <2>4, <2>8 DEF Told, Placed, Listening
  <2> QED BY <1>1, <2>7, <2>8, <2>9 DEF Told, InBody, Vouches
<1> QED BY <1>3, <1>4
LEMMA JudgeTold ==
  ASSUME TypeOK, TypeOK', NEW w \in Workers, Told(w), Metered(w), Judge(w)
  PROVE  Told(w)'
<1>1. /\ req' = req /\ outbox' = outbox /\ chan' = chan /\ seg[w].pc = "reading"
      /\ chan[w] = <<>> /\ req[w].pc = "gone" /\ outbox[w] = <<>> /\ ~open'[w] /\ req[w].spawned
  BY DEF Judge, Told, Placed, TypeOK
<1>2. Pending(w) = <<>> /\ Pending(w)' = <<>> /\ NoError(<<>>)
  BY <1>1 DEF Pending, NoError
<1>3. InBody(w)'
  BY <1>1 DEF InBody
<1>4. CASE Complete(w)
  <2> DEFINE result == IF seg[w].attempt = 0 THEN "first" ELSE "retried"
             cold == seg[w].cold /\ result = "first"
  <2>1. seg'[w] = [seg[w] EXCEPT !.pc = "ended", !.result = result, !.cold = cold]
    BY <1>4 DEF Judge, Answer, TypeOK
  <2>2. cold => seg[w].cold /\ result = "first"
    OBVIOUS
  <2>3. result \in {"first", "retried"}
    OBVIOUS
  <2> HIDE DEF cold, result
  <2>4. /\ seg'[w].pc = "ended" /\ seg'[w].result = result /\ seg'[w].cold = cold
        /\ seg'[w].text = seg[w].text /\ seg'[w].term = seg[w].term
    BY <2>1, LocalTypes DEF Segment
  <2>5. PICK h \in Reading : Leads(Got(w), <<>>, ~Recovers(w), h) /\ Reached(w, h)
    BY <1>1, <1>2 DEF Told, Heard, Listening
  <2>6. h = Got(w)
    <3>1. <<>> \in Seq(Event)
      OBVIOUS
    <3> QED BY <2>5, <3>1, LeadsEnd
  <2>7. /\ ~req[w].reply.cut /\ seg[w].text = Copies(Units(req[w].reply), req[w].posts)
        /\ seg[w].term = Ending(req[w].reply) /\ seg[w].cold = Vouched(w)
    BY <1>1, <1>2, <2>5, <2>6 DEF Reached, Got
  <2>8. seg[w].cold => req[w].reply.cold /\ req[w].posts = 1
    <3>1. req[w].posts \in Nat /\ req[w].used \in Nat /\ req[w].posts > 0 /\ req[w].posts <= req[w].used + 1
      BY <1>1, LocalTypes, LimitsAssumption DEF Request, Told, Placed, Metered
    <3>2. seg[w].cold => req[w].reply.cold /\ req[w].used = 0
      BY <2>7 DEF Vouched
    <3> QED BY <3>1, <3>2
  <2>9. Vouches(w)'
    BY <1>1, <2>2, <2>4, <2>7, <2>8 DEF Vouches
  <2>10. Placed(w)'
    BY <1>1, <2>3, <2>4 DEF Told, Placed, Listening
  <2>11. Heard(w)'
    BY <2>4 DEF Heard, Listening
  <2> QED BY <1>3, <2>9, <2>10, <2>11 DEF Told
<1>5. ASSUME NEW how \in {"error", "exhausted"}, GiveUp(w, how) PROVE Told(w)'
  <2>1. /\ seg'[w].pc = "ended" /\ seg'[w].result = how /\ ~Answered(w)'
        /\ Heard(w)' /\ Vouches(w)'
    BY <1>5, GivenUp
  <2>2. Placed(w)'
    BY <1>1, <2>1 DEF Told, Placed, Listening
  <2> QED BY <1>3, <2>1, <2>2 DEF Told
<1>6. CASE ~Complete(w) /\ (Recovers(w) \/ seg[w].text = <<>>) /\ seg[w].attempt < MaxRepeats
  <2>1. seg'[w] = [NewSegment EXCEPT !.attempt = seg[w].attempt + 1]
    BY <1>6 DEF Judge, TypeOK
  <2>2. seg'[w].pc = "call" /\ Got(w)' = Fresh /\ seg'[w].result = "none"
    BY <2>1 DEF NewSegment, Got, Fresh
  <2>3. ~Answered(w)'
    BY <2>2 DEF Answered
  <2>4. Placed(w)'
    BY <1>1, <1>2, <2>2, <2>3 DEF Told, Placed, Listening
  <2> QED BY <1>3, <2>2, <2>3, <2>4 DEF Told, Heard, Vouches, Listening
<1> QED BY <1>4, <1>5, <1>6 DEF Judge

LEMMA AbortTold ==
  ASSUME TypeOK, TypeOK', NEW w \in Workers, Told(w), Abort(w)
  PROVE  Told(w)'
<1>1. /\ seg'[w].pc = "ended" /\ seg'[w].result = "error" /\ ~Answered(w)'
      /\ Heard(w)' /\ Vouches(w)'
  BY GivenUp DEF Abort
<1>2. outbox' = outbox /\ chan'[w] = <<>> /\ ~open'[w]
  BY DEF Abort, TypeOK
<1>3. CASE seg[w].pc = "asking"
  <2>1. req'[w].pc = "gone" /\ ~req'[w].spawned
    <3>1. req'[w] = [NoRequest EXCEPT !.pc = "gone"]
      BY <1>3 DEF Abort, Dropped, TypeOK
    <3> QED BY <3>1 DEF NoRequest
  <2>2. outbox[w] = <<>>
    BY <1>3 DEF Told, Placed
  <2> QED BY <1>1, <1>2, <2>1, <2>2 DEF Told, Placed, InBody, Listening
<1>4. CASE seg[w].pc # "asking"
  <2>1. req' = req
    BY <1>4 DEF Abort
  <2> QED BY <1>1, <1>2, <1>4, <2>1 DEF Told, Placed, InBody, Listening
<1> QED BY <1>3, <1>4

LEMMA OwnTold ==
  ASSUME TypeOK, TypeOK', NEW w \in Workers, Told(w), Metered(w),
         Reader(w) \/ Worker(w) \/ Abort(w)
  PROVE  Told(w)'
  BY CallTold, AskTold, SetbackTold, RespondTold, BackoffTold, ReadItemTold, EndOfBodyTold,
     ReadWholeTold, EmitTold, LeaveTold, CancelledTold, TakeTold, JudgeTold, AbortTold
  DEF Reader, Worker

\* A step of one worker's tasks is nothing to the others.
LEMMA OthersAlone ==
  ASSUME TypeOK, NEW w \in Workers, Reader(w) \/ Worker(w) \/ Abort(w),
         NEW v \in Workers \ {w}
  PROVE  /\ seg'[v] = seg[v] /\ req'[v] = req[v] /\ outbox'[v] = outbox[v]
         /\ chan'[v] = chan[v] /\ open'[v] = open[v]
<1>1. req'[v] = req[v]
  BY OthersUntouched
<1>2. CASE Acquire(w) \/ Post(w) \/ Backoff(w) \/ EndOfBody(w) \/ Emit(w) \/ Leave(w)
  BY <1>1, <1>2 DEF Acquire, Post, Backoff, EndOfBody, Emit, Leave, Say, TypeOK
<1>3. CASE PostFails(w) \/ BodyBreaks(w)
  BY <1>1, <1>3 DEF PostFails, BodyBreaks, Wait, Fail, Say, GiveUp, TypeOK
<1>4. CASE \E r \in Replies : Respond(w, r)
  BY <1>1, <1>4 DEF Respond, Say, TypeOK
<1>5. CASE ReadItem(w)
  BY <1>1, <1>5 DEF ReadItem, Say, TypeOK
<1>6. CASE ReadWhole(w)
  BY <1>1, <1>6 DEF ReadWhole, Fail, Say, GiveUp, TypeOK
<1>7. CASE Cancelled(w) \/ Abort(w)
  BY <1>1, <1>7 DEF Cancelled, Abort, Say, GiveUp, TypeOK
<1>8. CASE Call(w) \/ Judge(w)
  BY <1>1, <1>8 DEF Call, Judge, Answer, GiveUp, TypeOK
<1>9. CASE Take(w)
  <2>1. seg'[v] = seg[v]
    <3>1. chan[w] \in Seq(Event) /\ chan[w] # <<>>
      BY <1>9 DEF Take, TypeOK
    <3>2. PICK e \in Event : e = Head(chan[w])
      BY <3>1
    <3>3. e.kind \in {"cold", "warm", "restarted", "unit", "finished", "error"}
      BY DEF Event
    <3>4. \E x : seg' = [seg EXCEPT ![w] = x]
      BY <1>9, <3>2, <3>3 DEF Take, GiveUp
    <3> QED BY <3>4 DEF TypeOK
  <2> QED BY <1>1, <1>9, <2>1 DEF Take, TypeOK
<1> QED
  BY <1>2, <1>3, <1>4, <1>5, <1>6, <1>7, <1>8, <1>9 DEF Reader, Worker

LEMMA AloneTold ==
  ASSUME NEW v \in Workers, Told(v), seg'[v] = seg[v], req'[v] = req[v], outbox'[v] = outbox[v],
         chan'[v] = chan[v], open'[v] = open[v]
  PROVE  Told(v)'
<1>1. /\ Pending(v)' = Pending(v) /\ Got(v)' = Got(v) /\ Vouched(v)' = Vouched(v)
      /\ (Recovers(v)' <=> Recovers(v)) /\ (Answered(v)' <=> Answered(v))
  BY DEF Pending, Got, Vouched, Recovers, Answered
<1>2. \A h : Reached(v, h)' <=> Reached(v, h)
  BY <1>1 DEF Reached
<1>3. Recovers(v)' = Recovers(v)
  BY DEF Recovers
<1>4. Heard(v)'
  BY <1>1, <1>2, <1>3 DEF Told, Heard
<1>5. Placed(v)'
  BY <1>1 DEF Told, Placed
<1> QED BY <1>1, <1>4, <1>5 DEF Told, InBody, Vouches

LEMMA InitTold == Init => AnswerInv
<1> SUFFICES ASSUME Init, NEW w \in Workers PROVE Told(w)
  BY InitMetered DEF AnswerInv
<1>1. /\ seg[w] = NewSegment /\ req[w] = NoRequest /\ outbox[w] = <<>> /\ chan[w] = <<>> /\ ~open[w]
  BY DEF Init
<1>2. seg[w].pc = "call" /\ seg[w].result = "none" /\ Got(w) = Fresh
  BY <1>1 DEF NewSegment, Got, Fresh
<1>3. req[w].pc = "none" /\ ~req[w].spawned
  BY <1>1 DEF NoRequest
<1> QED
  BY <1>1, <1>2, <1>3 DEF Told, Placed, InBody, Heard, Vouches, Answered, Listening

LEMMA StepTold == AnswerInv /\ [Next]_vars => AnswerInv'
<1> SUFFICES ASSUME AnswerInv, [Next]_vars PROVE AnswerInv'
  OBVIOUS
<1>1. TypeOK /\ IInv /\ IInv' /\ TypeOK' /\ (\A w \in Workers : Told(w) /\ Metered(w))
  BY StepMetered DEF AnswerInv, IInv
<1>2. ASSUME NEW w \in Workers, Reader(w) \/ Worker(w) \/ Abort(w), NEW v \in Workers
      PROVE  Told(v)'
  <2>1. CASE v = w
    BY <1>1, <1>2, <2>1, OwnTold
  <2>2. CASE v # w
    BY <1>1, <1>2, <2>2, OthersAlone, AloneTold
  <2> QED BY <2>1, <2>2
<1>3. ASSUME UNCHANGED vars, NEW v \in Workers PROVE Told(v)'
  BY <1>1, <1>3, AloneTold DEF vars
<1> QED
  BY <1>1, <1>2, <1>3 DEF Next, AnswerInv

LEMMA AnswersInductive == Spec => []AnswerInv
  BY InitTold, StepTold, PTL DEF Spec

\* However often a request was posted again, broken off and restarted, an accepted
\* text is what one unbroken response said, all of it, with the ending it declared.
THEOREM AnswersAreOneBody == Spec => []AnswerIsOneBody
<1>1. AnswerInv => AnswerIsOneBody
  BY DEF AnswerInv, Told, Vouches, Copies, AnswerIsOneBody
<1> QED BY <1>1, AnswersInductive, PTL

\* What is vouched for as generated for a segment came in answer to its very first
\* post, whatever later posts may have found in the server's cache.
THEOREM ColdStaysFirst == Spec => []ColdIsFirst
<1>1. AnswerInv => ColdIsFirst
  BY DEF AnswerInv, Told, Vouches, ColdIsFirst
<1> QED BY <1>1, AnswersInductive, PTL
-----------------------------------------------------------------------------
(* Requests implement attempts. *)

\* What the pipeline sees of a worker.
Phase(w) ==
    IF seg[w].pc = "ended" THEN "ended" ELSE IF seg[w].attempt = 0 THEN "stream" ELSE "repeat"
Text(w) ==
    IF Answered(w) \/ (seg[w].attempt = 0 /\ seg[w].pc # "ended") THEN seg[w].text ELSE <<>>
Outcome(w) == seg[w].result

Ends(w, how) == Phase(w)' = "ended" /\ Outcome(w)' = how
Stays(w) == Phase(w)' = Phase(w) /\ Outcome(w)' = Outcome(w)

\* The steps of an attempt, as far as one worker is concerned.
Seen(w) ==
    \/ Stays(w) /\ Text(w)' = Text(w)
    \/ /\ Phase(w) = "stream" /\ Stays(w)
       /\ \E b \in 1 .. MaxRetries + 1 :
            (Text(w) # <<>> => b = Text(w)[1]) /\ Text(w)' = Append(Text(w), b)
    \/ Phase(w) = "stream" /\ w \notin Drafting /\ Stays(w) /\ Text(w)' = <<>>
    \/ Phase(w) = "stream" /\ Ends(w, "first") /\ Text(w)' = Text(w)
    \/ /\ Phase(w) = "stream" /\ (w \in Drafting => Text(w) = <<>>)
       /\ Phase(w)' = "repeat" /\ Outcome(w)' = Outcome(w) /\ Text(w)' = <<>>
    \/ Phase(w) = "repeat" /\ Ends(w, "retried") /\ OneBody(Text(w)')
    \/ Phase(w) # "ended" /\ w \notin Drafting /\ Ends(w, "exhausted") /\ Text(w)' = <<>>
    \/ Phase(w) # "ended" /\ Ends(w, "error") /\ Text(w)' = <<>>

LEMMA SeenIsStep ==
  ASSUME NEW w \in Workers, Seen(w),
         \A v \in Workers \ {w} : Stays(v) /\ Text(v)' = Text(v)
  PROVE  [Attempt!Next]_(Attempt!vars)
<1> DEFINE phase == [v \in Workers |-> Phase(v)]
           text == [v \in Workers |-> Text(v)]
           outcome == [v \in Workers |-> Outcome(v)]
<1>1. /\ phase' = [phase EXCEPT ![w] = Phase(w)'] /\ text' = [text EXCEPT ![w] = Text(w)']
      /\ outcome' = [outcome EXCEPT ![w] = Outcome(w)']
  BY DEF Stays
<1>2. /\ phase[w] = Phase(w) /\ text[w] = Text(w) /\ outcome[w] = Outcome(w)
      /\ Phase(w)' = Phase(w) => phase' = phase
      /\ Outcome(w)' = Outcome(w) => outcome' = outcome
      /\ Text(w)' = Text(w) => text' = text
      /\ text'[w] = Text(w)' /\ \A v \in Workers \ {w} : text'[v] = text[v]
  BY DEF Stays
<1>3. Attempt!vars = <<text, phase, outcome>> /\ (Attempt!vars)' = <<text', phase', outcome'>>
  BY DEF Attempt!vars, Phase, Text, Outcome
<1>4. Attempt!Unit(w) <=>
        /\ phase[w] = "stream"
        /\ \E b \in 1 .. MaxRetries + 1 :
             /\ text[w] # <<>> => b = text[w][1]
             /\ text' = [text EXCEPT ![w] = Append(@, b)]
        /\ phase' = phase /\ outcome' = outcome
  BY DEF Attempt!Unit, Phase, Text, Outcome
<1>5. Attempt!Restart(w) <=>
        /\ phase[w] = "stream" /\ w \notin Drafting
        /\ text' = [text EXCEPT ![w] = <<>>] /\ phase' = phase /\ outcome' = outcome
  BY DEF Attempt!Restart, Phase, Text, Outcome
<1>6. \A how : Attempt!End(w, how) <=>
        phase' = [phase EXCEPT ![w] = "ended"] /\ outcome' = [outcome EXCEPT ![w] = how]
  BY DEF Attempt!End, Phase, Text, Outcome
<1>7. Attempt!First(w) <=> phase[w] = "stream" /\ Attempt!End(w, "first") /\ text' = text
  BY DEF Attempt!First, Phase, Text, Outcome
<1>8. Attempt!Repeat(w) <=>
        /\ phase[w] = "stream" /\ (w \in Drafting => text[w] = <<>>)
        /\ phase' = [phase EXCEPT ![w] = "repeat"] /\ text' = [text EXCEPT ![w] = <<>>]
        /\ outcome' = outcome
  BY DEF Attempt!Repeat, Phase, Text, Outcome
<1>9. Attempt!Retried(w) <=>
        /\ phase[w] = "repeat" /\ Attempt!End(w, "retried") /\ OneBody(text'[w])
        /\ \A v \in Workers \ {w} : text'[v] = text[v]
  BY DEF Attempt!Retried, Attempt!OneBody, OneBody, Phase, Text, Outcome
<1>10. Attempt!Exhausted(w) <=>
        /\ phase[w] # "ended" /\ w \notin Drafting /\ Attempt!End(w, "exhausted")
        /\ text' = [text EXCEPT ![w] = <<>>]
  BY DEF Attempt!Exhausted, Phase, Text, Outcome
<1>11. Attempt!Fail(w) <=>
        phase[w] # "ended" /\ Attempt!End(w, "error") /\ text' = [text EXCEPT ![w] = <<>>]
  BY DEF Attempt!Fail, Phase, Text, Outcome
<1> HIDE DEF phase, text, outcome
<1>12. CASE Stays(w) /\ Text(w)' = Text(w)
  BY <1>2, <1>3, <1>12 DEF Stays
<1>13. CASE /\ Phase(w) = "stream" /\ Stays(w)
            /\ \E b \in 1 .. MaxRetries + 1 :
                 (Text(w) # <<>> => b = Text(w)[1]) /\ Text(w)' = Append(Text(w), b)
  <2>1. PICK b \in 1 .. MaxRetries + 1 :
           (Text(w) # <<>> => b = Text(w)[1]) /\ Text(w)' = Append(Text(w), b)
    BY <1>13
  <2>2. text' = [text EXCEPT ![w] = Append(@, b)]
    BY <1>1, <1>2, <2>1
  <2>3. Attempt!Unit(w)
    BY <1>2, <1>4, <1>13, <2>1, <2>2 DEF Stays
  <2> QED BY <2>3 DEF Attempt!Next
<1>14. CASE Phase(w) = "stream" /\ w \notin Drafting /\ Stays(w) /\ Text(w)' = <<>>
  <2>1. Attempt!Restart(w)
    BY <1>1, <1>2, <1>5, <1>14 DEF Stays
  <2> QED BY <2>1 DEF Attempt!Next
<1>15. CASE Phase(w) = "stream" /\ Ends(w, "first") /\ Text(w)' = Text(w)
  <2>1. Attempt!First(w)
    BY <1>1, <1>2, <1>6, <1>7, <1>15 DEF Ends
  <2> QED BY <2>1 DEF Attempt!Next
<1>16. CASE /\ Phase(w) = "stream" /\ (w \in Drafting => Text(w) = <<>>)
            /\ Phase(w)' = "repeat" /\ Outcome(w)' = Outcome(w) /\ Text(w)' = <<>>
  <2>1. Attempt!Repeat(w)
    BY <1>1, <1>2, <1>8, <1>16
  <2> QED BY <2>1 DEF Attempt!Next
<1>17. CASE Phase(w) = "repeat" /\ Ends(w, "retried") /\ OneBody(Text(w)')
  <2>1. Attempt!Retried(w)
    BY <1>1, <1>2, <1>6, <1>9, <1>17 DEF Ends
  <2> QED BY <2>1 DEF Attempt!Next
<1>18. CASE Phase(w) # "ended" /\ w \notin Drafting /\ Ends(w, "exhausted") /\ Text(w)' = <<>>
  <2>1. Attempt!Exhausted(w)
    BY <1>1, <1>2, <1>6, <1>10, <1>18 DEF Ends
  <2> QED BY <2>1 DEF Attempt!Next
<1>19. CASE Phase(w) # "ended" /\ Ends(w, "error") /\ Text(w)' = <<>>
  <2>1. Attempt!Fail(w)
    BY <1>1, <1>2, <1>6, <1>11, <1>19 DEF Ends
  <2> QED BY <2>1 DEF Attempt!Next
<1> QED
  BY <1>12, <1>13, <1>14, <1>15, <1>16, <1>17, <1>18, <1>19 DEF Seen
\* A step that leaves the worker's own state alone is not seen.
LEMMA UnseenStep ==
  ASSUME NEW w \in Workers, seg'[w] = seg[w]
  PROVE  Seen(w)
  BY DEF Seen, Stays, Phase, Outcome, Text, Answered

LEMMA GivenUpSeen ==
  ASSUME TypeOK, NEW w \in Workers, seg[w].pc # "ended",
         GiveUp(w, "error") \/ (w \notin Drafting /\ GiveUp(w, "exhausted"))
  PROVE  Seen(w)
<1>1. /\ seg'[w].pc = "ended"
      /\ seg'[w].result = "error" \/ (w \notin Drafting /\ seg'[w].result = "exhausted")
  BY DEF GiveUp, TypeOK, NewSegment
<1>2. Phase(w) # "ended" /\ Phase(w)' = "ended"
  BY <1>1 DEF Phase
<1>3. Text(w)' = <<>>
  BY <1>1 DEF Text, Answered
<1> QED BY <1>1, <1>2, <1>3 DEF Seen, Ends, Outcome

LEMMA TakeSeen ==
  ASSUME TypeOK, NEW w \in Workers, Told(w), Take(w)
  PROVE  Seen(w)
<1>1. /\ chan[w] # <<>> /\ seg[w].pc = "reading" /\ chan[w] \in Seq(Event) /\ outbox[w] \in Seq(Event)
  BY DEF Take, TypeOK
<1>2. PICK e \in Event : e = Head(chan[w])
  BY <1>1
<1>3. CASE e.kind = "error"
  BY <1>1, <1>2, <1>3, GivenUpSeen DEF Take
<1>4. CASE e.kind # "error"
  <2>1. /\ seg'[w].pc = "reading" /\ seg'[w].attempt = seg[w].attempt
        /\ seg'[w].result = seg[w].result /\ Got(w) \in Reading /\ Got(w)' = Hears(Got(w), e)
    BY <1>2, <1>4, TakeHeard
  <2>2. Stays(w)
    BY <1>1, <2>1 DEF Stays, Phase, Outcome
  <2>3. seg[w].result = "none"
    BY <1>1 DEF Told, Placed
  <2>4. CASE seg[w].attempt # 0
    BY <2>1, <2>2, <2>3, <2>4 DEF Seen, Text, Answered
  <2>5. CASE seg[w].attempt = 0
    <3>1. Phase(w) = "stream" /\ Text(w) = Got(w).text /\ Text(w)' = Hears(Got(w), e).text
      BY <1>1, <2>1, <2>5 DEF Phase, Text, Got
    <3>2. PICK h \in Reading : Leads(Got(w), Pending(w), ~Recovers(w), h)
      BY <1>1 DEF Told, Heard, Listening
    <3>3. Pending(w) \in Seq(Event) /\ Pending(w) # <<>> /\ Head(Pending(w)) = e
      <4>1. \A p, q \in Seq(Event) : p # <<>> =>
               p \o q \in Seq(Event) /\ p \o q # <<>> /\ Head(p \o q) = Head(p)
        OBVIOUS
      <4> QED BY <1>1, <1>2, <4>1 DEF Pending
    <3>4. /\ ~Recovers(w) /\ e.kind = "restarted" => Got(w).text = <<>>
          /\ e.kind = "unit" => e.body \in 1 .. MaxRetries + 1
          /\ OneBody(Hears(Got(w), e).text)
      BY <3>2, <3>3, LeadsAfter
    <3>5. CASE e.kind = "unit"
      <4>1. Text(w)' = Append(Text(w), e.body) /\ Text(w) \in Seq(Nat)
        BY <2>1, <3>1, <3>5 DEF Hears, Reading
      <4>2. OneBody(Append(Text(w), e.body))
        BY <3>1, <3>4, <4>1
      <4>3. Text(w) # <<>> => e.body = Text(w)[1]
        <5>1. \A q \in Seq(Nat), b \in Nat : q # <<>> =>
                 /\ Len(q) + 1 \in DOMAIN Append(q, b) /\ Append(q, b)[Len(q) + 1] = b
                 /\ Append(q, b)[1] = q[1]
          OBVIOUS
        <5> QED BY <4>1, <4>2, <5>1 DEF OneBody, Event
      <4> QED BY <2>2, <3>1, <3>4, <3>5, <4>1, <4>3 DEF Seen
    <3>6. CASE e.kind = "restarted"
      <4>1. Text(w)' = <<>>
        BY <3>1, <3>6 DEF Hears, Fresh
      <4>2. w \in Drafting => Text(w) = <<>>
        BY <2>5, <3>1, <3>4, <3>6 DEF Recovers
      <4> QED BY <2>2, <3>1, <4>1, <4>2 DEF Seen
    <3>7. CASE e.kind \in {"cold", "warm", "finished"}
      <4>1. Hears(Got(w), e).text = Got(w).text
        BY <2>1, <3>7 DEF Hears, Reading
      <4> QED BY <2>2, <3>1, <4>1 DEF Seen
    <3> QED BY <1>4, <3>5, <3>6, <3>7 DEF Event
  <2> QED BY <2>4, <2>5
<1> QED BY <1>3, <1>4

LEMMA JudgeSeen ==
  ASSUME TypeOK, NEW w \in Workers, Told(w), Judge(w)
  PROVE  Seen(w)
<1>1. seg[w].pc = "reading" /\ seg[w].attempt \in Nat
  BY LocalTypes, LimitsAssumption DEF Judge, Segment
<1>2. CASE Complete(w)
  <2> DEFINE result == IF seg[w].attempt = 0 THEN "first" ELSE "retried"
             cold == seg[w].cold /\ result = "first"
  <2>1. seg'[w] = [seg[w] EXCEPT !.pc = "ended", !.result = result, !.cold = cold]
    BY <1>2 DEF Judge, Answer, TypeOK
  <2> HIDE DEF cold
  <2>2. /\ seg'[w].pc = "ended" /\ seg'[w].result = result /\ seg'[w].text = seg[w].text
    BY <2>1, LocalTypes DEF Segment
  <2>3. Text(w)' = seg[w].text /\ Answered(w)'
    BY <2>2 DEF Text, Answered
  <2>4. Ends(w, result)
    BY <2>2 DEF Ends, Phase, Outcome
  <2>5. CASE seg[w].attempt = 0
    <3>1. Text(w) = seg[w].text /\ Phase(w) = "stream"
      BY <1>1, <2>5 DEF Text, Phase
    <3> QED BY <2>3, <2>4, <2>5, <3>1 DEF Seen
  <2>6. CASE seg[w].attempt # 0
    <3>1. Phase(w) = "repeat"
      BY <1>1, <2>6 DEF Phase
    <3>2. OneBody(Text(w)')
      <4>1. PICK h \in Reading : Leads(Got(w), Pending(w), ~Recovers(w), h)
        BY <1>1 DEF Told, Heard, Listening
      <4>2. Pending(w) \in Seq(Event)
        BY DEF Pending, TypeOK
      <4>3. OneBody(Got(w).text)
        BY <4>1, <4>2, LeadsEnd
      <4> QED BY <2>3, <4>3 DEF Got
    <3> QED BY <2>4, <2>6, <3>1, <3>2 DEF Seen
  <2> QED BY <2>5, <2>6
<1>3. CASE ~Complete(w) /\ (Recovers(w) \/ seg[w].text = <<>>) /\ seg[w].attempt < MaxRepeats
  <2>1. seg'[w] = [NewSegment EXCEPT !.attempt = seg[w].attempt + 1]
    BY <1>3 DEF Judge, TypeOK
  <2>2. /\ seg'[w].pc = "call" /\ seg'[w].text = <<>> /\ seg'[w].result = "none"
        /\ seg'[w].attempt = seg[w].attempt + 1
    BY <2>1 DEF NewSegment
  <2>3. seg[w].result = "none"
    BY <1>1 DEF Told, Placed
  <2>4. Phase(w)' = "repeat" /\ Text(w)' = <<>>
    BY <1>1, <2>2 DEF Phase, Text
  <2> QED
    <3>1. seg[w].attempt = 0 => /\ Phase(w) = "stream" /\ Text(w) = seg[w].text
                                /\ (w \in Drafting => Text(w) = <<>>)
      BY <1>1, <1>3 DEF Phase, Text, Recovers
    <3>2. seg[w].attempt # 0 => Phase(w) = "repeat" /\ Text(w) = <<>>
      BY <1>1, <2>3 DEF Phase, Text, Answered
    <3> QED BY <2>2, <2>3, <2>4, <3>1, <3>2 DEF Seen, Stays, Outcome
<1> QED BY <1>1, <1>2, <1>3, GivenUpSeen DEF Judge

LEMMA OwnSeen ==
  ASSUME TypeOK, NEW w \in Workers, Told(w), Reader(w) \/ Worker(w) \/ Abort(w)
  PROVE  Seen(w)
<1>1. CASE \/ Acquire(w) \/ Post(w) \/ Backoff(w) \/ ReadItem(w) \/ EndOfBody(w) \/ Emit(w)
           \/ Leave(w) \/ Cancelled(w)
  <2>1. seg' = seg
    BY <1>1 DEF Acquire, Post, Backoff, ReadItem, EndOfBody, Emit, Leave, Cancelled
  <2> QED BY <2>1, UnseenStep
<1>2. CASE PostFails(w) \/ BodyBreaks(w) \/ ReadWhole(w)
  <2>1. req[w].pc \in {"posted", "read"} /\ (seg' = seg \/ (~req[w].spawned /\ GiveUp(w, "error")))
    BY <1>2 DEF PostFails, BodyBreaks, ReadWhole, Wait, Fail, At
  <2>2. ~req[w].spawned => seg[w].pc # "ended"
    BY <2>1 DEF Told, Placed
  <2> QED BY <2>1, <2>2, UnseenStep, GivenUpSeen
<1>3. ASSUME NEW r \in Replies, Respond(w, r) PROVE Seen(w)
  <2>1. CASE req[w].spawned
    BY <1>3, <2>1, UnseenStep DEF Respond
  <2>2. CASE ~req[w].spawned
    <3>1. seg[w].pc = "asking"
      BY <1>3, <2>2 DEF Respond, At, Told, Placed
    <3>2. seg'[w] = [seg[w] EXCEPT !.pc = "reading"]
      BY <1>3, <2>2 DEF Respond, TypeOK
    <3>3. /\ seg'[w].pc = "reading" /\ seg'[w].attempt = seg[w].attempt
          /\ seg'[w].text = seg[w].text /\ seg'[w].result = seg[w].result
      BY <3>2, LocalTypes DEF Segment
    <3> QED BY <3>1, <3>3 DEF Seen, Stays, Phase, Outcome, Text, Answered
  <2> QED BY <2>1, <2>2
<1>4. CASE Call(w)
  <2>1. seg[w].pc = "call" /\ seg'[w] = [seg[w] EXCEPT !.pc = "asking"]
    BY <1>4 DEF Call, TypeOK
  <2>2. /\ seg'[w].pc = "asking" /\ seg'[w].attempt = seg[w].attempt
        /\ seg'[w].text = seg[w].text /\ seg'[w].result = seg[w].result
    BY <2>1, LocalTypes DEF Segment
  <2> QED BY <2>1, <2>2 DEF Seen, Stays, Phase, Outcome, Text, Answered
<1>5. CASE Abort(w)
  BY <1>5, GivenUpSeen DEF Abort
<1> QED
  BY <1>1, <1>2, <1>3, <1>4, <1>5, TakeSeen, JudgeSeen DEF Reader, Worker

\* Whatever reader, channel and retries do, a segment task sees an attempt: units of
\* one response at a time, a draft that is never taken back, and one outcome.
THEOREM RequestsImplementAttempt == Spec => ImplementsAttempt
<1>1. Init => Attempt!Init
  <2> SUFFICES ASSUME Init PROVE Attempt!Init
    OBVIOUS
  <2>1. \A w \in Workers : Phase(w) = "stream" /\ Text(w) = <<>> /\ Outcome(w) = "none"
    BY DEF Init, NewSegment, Phase, Text, Outcome, Answered
  <2> QED BY <2>1 DEF Attempt!Init, Phase, Text, Outcome
<1>2. AnswerInv /\ [Next]_vars => [Attempt!Next]_(Attempt!vars)
  <2> SUFFICES ASSUME AnswerInv, [Next]_vars PROVE [Attempt!Next]_(Attempt!vars)
    OBVIOUS
  <2>1. TypeOK /\ \A w \in Workers : Told(w)
    BY DEF AnswerInv, IInv
  <2>2. \A v \in Workers : seg'[v] = seg[v] => Stays(v) /\ Text(v)' = Text(v)
    BY DEF Stays, Phase, Outcome, Text, Answered
  <2>3. ASSUME NEW w \in Workers, Reader(w) \/ Worker(w) \/ Abort(w)
        PROVE  [Attempt!Next]_(Attempt!vars)
    <3>1. Seen(w)
      BY <2>1, <2>3, OwnSeen
    <3>2. \A v \in Workers \ {w} : Stays(v) /\ Text(v)' = Text(v)
      BY <2>1, <2>2, <2>3, OthersAlone
    <3> QED BY <3>1, <3>2, SeenIsStep
  <2>4. CASE UNCHANGED vars
    <3>1. seg' = seg
      BY <2>4 DEF vars
    <3> QED BY <3>1 DEF Attempt!vars, Answered
  <2> QED BY <2>3, <2>4 DEF Next
<1> QED
  BY <1>1, <1>2, AnswersInductive, PTL DEF Spec, ImplementsAttempt, Attempt!Spec
=============================================================================
