------------------------ MODULE StreamPipelineProofs ------------------------
(***************************************************************************)
(* Theorems about StreamPipeline, for every document, every bound and      *)
(* every channel capacity.                                                 *)
(***************************************************************************)
EXTENDS StreamPipeline, FiniteSetTheorems, FunctionTheorems,
        WellFoundedInduction, TLAPS

-----------------------------------------------------------------------------
(* The operators the events are built from. *)

LEMMA SegType == Seg \subseteq Nat /\ Seg \subseteq 0 .. N /\ 0 \in Seg
  BY NAssumption DEF Seg

LEMMA BlankType == Blank \in [Seg -> Texts] /\ Source \in Texts
  BY DEF Blank, Texts, Source, Original

\* A token of texts is an event.
LEMMA TokenType ==
  ASSUME NEW S \in SUBSET Seg, NEW t, \A i \in S : t[i] \in Texts
  PROVE  Token(S, t) \in Event
  BY DEF Token, Event, Texts

LEMMA DoneType ==
  ASSUME NEW i \in Seg
  PROVE  Done(i) \in Event
  BY BlankType DEF Done, Event

\* The events of one segment are a sequence of events.
LEMMA PieceType ==
  ASSUME NEW i \in Seg, NEW t \in [Seg -> Texts]
  PROVE  Piece(i, t) \in Seq(Event)
<1>1. Done(i) \in Event
  BY DoneType
<1>2. Token({i}, t) \in Event
  BY TokenType
<1> QED
  BY <1>1, <1>2 DEF Piece

\* One token and the marks of the segments from a up to b - 1.
LEMMA MarksType ==
  ASSUME NEW e \in Event, NEW a \in 0 .. N, NEW b \in 0 .. N
  PROVE  <<e>> \o [k \in 1 .. b - a |-> Done(a + k - 1)] \in Seq(Event)
<1>1. ASSUME NEW k \in 1 .. b - a PROVE Done(a + k - 1) \in Event
  <2>1. a + k - 1 \in Seg
    BY NAssumption DEF Seg
  <2> QED BY <2>1, DoneType
<1>2. CASE a <= b
  <2>1. b - a \in Nat
    BY <1>2, NAssumption
  <2>2. [k \in 1 .. b - a |-> Done(a + k - 1)] \in Seq(Event)
    BY <1>1, <2>1
  <2> QED BY <2>2
<1>3. CASE b < a
  <2>1. 1 .. b - a = 1 .. 0
    BY <1>3, NAssumption
  <2>2. [k \in 1 .. b - a |-> Done(a + k - 1)] = [k \in 1 .. 0 |-> Done(a + k - 1)]
    BY <2>1
  <2>3. [k \in 1 .. 0 |-> Done(a + k - 1)] \in Seq(Event)
    OBVIOUS
  <2> QED BY <2>2, <2>3
<1> QED BY <1>2, <1>3, NAssumption
-----------------------------------------------------------------------------
(* Type correctness.  TypeOK alone is not inductive: SendTerminal fills the *)
(* slot that admission reserved, and needs it to be free still.             *)

SlotReserved ==
    mpc \in {"store", "record", "terminal"} => outbox = <<>> /\ backlog < StreamCap

TypeInv == TypeOK /\ SlotReserved

\* Every segment's task state is well typed when it has not been spawned.
LEMMA IdleType ==
  Idle \in TaskState /\ [i \in Seg |-> Idle] \in [Seg -> TaskState]
  BY BoundsAssumption DEF Idle, TaskState, Attempts, Texts

\* The local state that an ended invocation leaves behind is well typed.
LEMMA ForgottenType ==
  ASSUME Forgotten
  PROVE  /\ task' \in [Seg -> TaskState]
         /\ progress' \in Seq(Message) /\ Len(progress') <= ProgressCap
         /\ got' \subseteq Seg /\ missing' \subseteq Seg /\ remaining' \subseteq Seg
         /\ published' \subseteq Seg /\ degraded' \subseteq Seg /\ candidates' \subseteq Seg
         /\ text' \in [Seg -> Texts] /\ pending' \in [Seg -> Texts]
         /\ next' \in 0 .. N
         /\ para' \in [next : 0 .. N, end : 0 .. N, ready : Nat, degraded : SUBSET Nat]
         /\ provable' \in BOOLEAN
         /\ outbox' \in Seq(Event)
<1>1. task' \in [Seg -> TaskState]
  BY IdleType DEF Forgotten
<1>2. progress' = <<>> /\ progress' \in Seq(Message) /\ Len(progress') <= ProgressCap
  BY BoundsAssumption DEF Forgotten
<1>3. text' \in [Seg -> Texts] /\ pending' \in [Seg -> Texts]
  BY BlankType DEF Forgotten
<1>4. 0 \in 0 .. N
  BY NAssumption
<1>5. para' \in [next : 0 .. N, end : 0 .. N, ready : Nat, degraded : SUBSET Nat]
  BY <1>4 DEF Forgotten, NoParagraph
<1>6. outbox' \in Seq(Event)
  BY DEF Forgotten
<1> QED
  BY <1>1, <1>2, <1>3, <1>4, <1>5, <1>6 DEF Forgotten

LEMMA TypeAbort ==
  ASSUME TypeInv, Abort
  PROVE  TypeInv'
<1> QED
  BY ForgottenType DEF TypeInv, TypeOK, SlotReserved, Abort, Phase, store

LEMMA TypeNewRun ==
  ASSUME TypeInv, NewRun
  PROVE  TypeInv'
<1>1. 0 \in 0 .. StreamCap /\ <<>> \in Seq(Event)
  BY BoundsAssumption
<1> QED
  BY <1>1, ForgottenType DEF TypeInv, TypeOK, SlotReserved, NewRun, Phase, store

LEMMA TypeInit == Init => TypeInv
<1> SUFFICES ASSUME Init PROVE TypeInv
  OBVIOUS
<1>1. task \in [Seg -> TaskState] /\ text \in [Seg -> Texts] /\ pending \in [Seg -> Texts]
  BY IdleType, BlankType DEF Init
<1>2. 0 \in 0 .. N /\ 0 \in 0 .. StreamCap /\ 0 <= ProgressCap
  BY NAssumption, BoundsAssumption
<1>3. /\ progress = <<>> /\ progress \in Seq(Message) /\ Len(progress) <= ProgressCap
      /\ outbox \in Seq(Event) /\ sent \in Seq(Event)
  BY <1>2 DEF Init
<1>4. cache \in [Seg -> Texts \cup {NoText}]
  <2>1. <<1>> \in Texts
    BY DEF Texts
  <2> QED BY <2>1 DEF Init
<1>5. para \in [next : 0 .. N, end : 0 .. N, ready : Nat, degraded : SUBSET Nat]
  BY <1>2 DEF Init, NoParagraph
<1> QED
  BY <1>1, <1>2, <1>3, <1>4, <1>5 DEF Init, TypeInv, TypeOK, SlotReserved, Phase

-----------------------------------------------------------------------------
(* Types: the segment tasks. *)

LEMMA PutType ==
  ASSUME TypeOK, NEW i \in Seg, NEW kind \in {"token", "completed"}, NEW t \in Texts,
         NEW v \in {"none", "first", "retried", "degraded", "error"}, Put(i, kind, t, v)
  PROVE  progress' \in Seq(Message) /\ Len(progress') <= ProgressCap
<1> DEFINE m == [kind |-> kind, seg |-> i, text |-> t, verdict |-> v]
<1>1. m \in Message
  BY DEF Message
<1>2. progress \in Seq(Message) /\ progress' = Append(progress, m) /\ Len(progress) < ProgressCap
  BY DEF TypeOK, Put
<1> HIDE DEF m
<1> QED
  BY <1>1, <1>2, BoundsAssumption

LEMMA VerdictType ==
  ASSUME TypeOK, NEW i \in Seg, NEW v \in {"none", "first", "retried", "degraded", "error"},
         NEW t \in Texts, Verdict(i, v, t)
  PROVE  task' \in [Seg -> TaskState]
<1> DEFINE s == [Idle EXCEPT !.pc = "report", !.verdict = v, !.draft = t]
<1>1. s \in TaskState
  BY BoundsAssumption DEF Idle, TaskState, Attempts
<1>2. task' = [task EXCEPT ![i] = s] /\ task \in [Seg -> TaskState]
  BY DEF Verdict, TypeOK
<1> HIDE DEF s
<1> QED
  BY <1>1, <1>2

LEMMA ExhaustedType ==
  ASSUME TypeOK, NEW i \in Seg, Exhausted(i)
  PROVE  task' \in [Seg -> TaskState]
<1>1. <<>> \in Texts /\ Source \in Texts
  BY BlankType DEF Texts
<1>2. CASE job.warnOnly /\ ~Optimistic
  BY <1>1, <1>2, VerdictType DEF Exhausted
<1>3. CASE ~(job.warnOnly /\ ~Optimistic)
  BY <1>1, <1>3, VerdictType DEF Exhausted
<1> QED BY <1>2, <1>3

\* A task step leaves every variable but its own and the channel alone.
LEMMA TaskFrame ==
  ASSUME TypeInv, TaskOnly, task' \in [Seg -> TaskState],
         progress' \in Seq(Message), Len(progress') <= ProgressCap
  PROVE  TypeInv'
  BY DEF TypeInv, TypeOK, SlotReserved, TaskOnly, chanVars, store

LEMMA TypeTaskStep ==
  ASSUME TypeInv, NEW i \in Seg, TaskStep(i)
  PROVE  TypeInv'
<1>1. /\ task \in [Seg -> TaskState]
      /\ task[i].attempt \in Nat /\ task[i].attempt + 1 \in Nat
      /\ task[i].draft \in Texts /\ task[i].left \in Nat
      /\ task[i].verdict \in {"none", "first", "retried", "degraded", "error"}
  BY DEF TypeInv, TypeOK, TaskState, Attempts
<1>2. /\ <<>> \in Texts /\ <<task[i].attempt>> \in Texts
      /\ Append(task[i].draft, task[i].attempt) \in Texts
  BY <1>1 DEF Texts
<1>3. TypeOK /\ progress \in Seq(Message) /\ Len(progress) <= ProgressCap
  BY DEF TypeInv, TypeOK
<1>4. CASE StreamToken(i)
  <2>1. task' \in [Seg -> TaskState]
    BY <1>1, <1>2, <1>4 DEF StreamToken, TaskState, Attempts
  <2>2. progress' \in Seq(Message) /\ Len(progress') <= ProgressCap
    BY <1>2, <1>3, <1>4, PutType DEF StreamToken
  <2> QED BY <1>4, <2>1, <2>2, TaskFrame DEF StreamToken
<1>5. CASE StreamRestarted(i)
  <2>1. task' \in [Seg -> TaskState]
    BY <1>1, <1>2, <1>5 DEF StreamRestarted, TaskState, Attempts
  <2> QED BY <1>3, <1>5, <2>1, TaskFrame DEF StreamRestarted
<1>6. CASE StreamEnds(i)
  <2>1. CASE Verdict(i, "error", <<>>)
    BY <1>2, <1>3, <1>6, <2>1, VerdictType, TaskFrame DEF StreamEnds
  <2>2. CASE Verdict(i, "first", task[i].draft)
    BY <1>1, <1>3, <1>6, <2>2, VerdictType, TaskFrame DEF StreamEnds
  <2>3. CASE Exhausted(i)
    BY <1>3, <1>6, <2>3, ExhaustedType, TaskFrame DEF StreamEnds
  <2>4. CASE /\ task[i].left # 0
             /\ task' = [task EXCEPT ![i].pc = "retry", ![i].draft = <<>>,
                                     ![i].attempt = @ + 1]
    <3>1. task' \in [Seg -> TaskState]
      BY <1>1, <1>2, <2>4, SMTT(30) DEF TaskState, Attempts
    <3> QED BY <1>3, <1>6, <3>1, TaskFrame DEF StreamEnds
  <2> QED BY <1>6, <2>1, <2>2, <2>3, <2>4 DEF StreamEnds
<1>7. CASE RetryEnds(i)
  <2>1. CASE Verdict(i, "error", <<>>) \/ Verdict(i, "retried", <<>>)
    BY <1>2, <1>3, <1>7, <2>1, VerdictType, TaskFrame DEF RetryEnds
  <2>2. CASE Exhausted(i)
    BY <1>3, <1>7, <2>2, ExhaustedType, TaskFrame DEF RetryEnds
  <2>3. CASE task' = [task EXCEPT ![i].pc = "answer", ![i].draft = <<task[i].attempt>>]
    <3>1. task' \in [Seg -> TaskState]
      BY <1>1, <1>2, <2>3, ZenonT(60) DEF TaskState, Attempts
    <3> QED BY <1>3, <1>7, <3>1, TaskFrame DEF RetryEnds
  <2>4. CASE task[i].left # 1
             /\ task' = [task EXCEPT ![i].left = @ - 1, ![i].attempt = @ + 1]
    <3>1. task[i].pc = "retry" /\ task[i].left - 1 \in Nat /\ task[i].left - 1 > 0
      BY <1>1, <1>7, <2>4 DEF RetryEnds, TaskState, TypeInv, TypeOK
    <3>2. task' \in [Seg -> TaskState]
      BY <1>1, <2>4, <3>1 DEF TaskState, Attempts
    <3> QED BY <1>3, <1>7, <3>2, TaskFrame DEF RetryEnds
  <2> QED BY <1>7, <2>1, <2>2, <2>3, <2>4 DEF RetryEnds
<1>8. CASE RetryAnswers(i)
  <2>1. progress' \in Seq(Message) /\ Len(progress') <= ProgressCap
    BY <1>1, <1>3, <1>8, PutType DEF RetryAnswers
  <2>2. task' \in [Seg -> TaskState]
    BY <1>1, <1>3, <1>8, VerdictType DEF RetryAnswers
  <2> QED BY <1>8, <2>1, <2>2, TaskFrame DEF RetryAnswers
<1>9. CASE TaskReports(i)
  <2>1. progress' \in Seq(Message) /\ Len(progress') <= ProgressCap
    BY <1>1, <1>3, <1>9, PutType DEF TaskReports
  <2>2. task' \in [Seg -> TaskState]
    BY <1>1, <1>2, <1>9 DEF TaskReports, TaskState, Attempts
  <2> QED BY <1>9, <2>1, <2>2, TaskFrame DEF TaskReports
<1> QED
  BY <1>4, <1>5, <1>6, <1>7, <1>8, <1>9 DEF TaskStep

-----------------------------------------------------------------------------
(* Types: the event channel. *)

LEMMA TypeSend ==
  ASSUME TypeInv, Send
  PROVE  TypeInv'
<1>1. /\ outbox \in Seq(Event) /\ outbox # <<>> /\ sent \in Seq(Event)
      /\ backlog \in 0 .. StreamCap /\ backlog < StreamCap
      /\ mpc \notin {"store", "record", "terminal"}
  BY DEF TypeInv, TypeOK, SlotReserved, Send
<1>2. outbox' \in Seq(Event) /\ sent' \in Seq(Event)
  BY <1>1 DEF Send
<1>3. backlog' \in 0 .. StreamCap
  BY <1>1, BoundsAssumption DEF Send
<1> QED
  BY <1>1, <1>2, <1>3 DEF TypeInv, TypeOK, SlotReserved, Send, runVars, store

LEMMA TypeConsumer ==
  ASSUME TypeInv, Receive \/ CloseReceiver
  PROVE  TypeInv'
<1>0. backlog \in Nat /\ backlog <= StreamCap /\ open \in BOOLEAN /\ StreamCap \in Nat
  BY BoundsAssumption DEF TypeInv, TypeOK
<1>1. backlog' \in 0 .. StreamCap /\ backlog' <= backlog /\ open' \in BOOLEAN
  <2>1. CASE Receive
    BY <1>0, <2>1 DEF Receive
  <2>2. CASE CloseReceiver
    <3>1. open' \in BOOLEAN
      BY <2>2 DEF CloseReceiver
    <3>2. backlog' = backlog
      BY <2>2 DEF CloseReceiver
    <3> QED BY <1>0, <3>1, <3>2
  <2> QED BY <2>1, <2>2
<1>2. UNCHANGED <<runVars, outbox, sent, store, runs>>
  BY DEF Receive, CloseReceiver
<1>3. backlog < StreamCap => backlog' < StreamCap
  BY <1>1, BoundsAssumption DEF TypeInv, TypeOK
<1> QED
  BY <1>1, <1>2, <1>3 DEF TypeInv, TypeOK, SlotReserved, runVars, store

LEMMA TypeSendTerminal ==
  ASSUME TypeInv, SendTerminal
  PROVE  TypeInv'
<1>1. /\ text \in [Seg -> Texts] /\ sent \in Seq(Event)
      /\ backlog \in 0 .. StreamCap /\ backlog < StreamCap
  BY DEF TypeInv, TypeOK, SlotReserved, SendTerminal, At
<1>2. AllDone(text) \in Event
  BY <1>1 DEF AllDone, Event
<1>3. sent' \in Seq(Event)
  BY <1>1, <1>2 DEF SendTerminal
<1>4. backlog' \in 0 .. StreamCap
  BY <1>1, BoundsAssumption DEF SendTerminal
<1> QED
  BY <1>3, <1>4 DEF TypeInv, TypeOK, SlotReserved, SendTerminal, Phase, At, store

-----------------------------------------------------------------------------
(* Types: preparation, the chunk loop and the paragraph stream. *)

LEMMA TypeStartReplay ==
  ASSUME TypeInv, StartReplay
  PROVE  TypeInv'
<1>1. proof \in [Seg -> Texts]
  BY DEF TypeInv, TypeOK, StartReplay
<1>2. Token(Seg, proof) \in Event
  BY <1>1, TokenType
<1>3. outbox' \in Seq(Event) /\ text' \in [Seg -> Texts]
  BY <1>1, <1>2 DEF StartReplay
<1> QED
  BY <1>3 DEF TypeInv, TypeOK, SlotReserved, StartReplay, Phase, store

LEMMA TypeLookup ==
  ASSUME TypeInv, Lookup
  PROVE  TypeInv'
<1>1. PICK hits \in SUBSET (IF Reads THEN {i \in Seg : cache[i] # NoText} ELSE {}) :
        /\ got' = hits /\ missing' = Seg \ hits
        /\ text' = [i \in Seg |-> IF i \in hits THEN cache[i] ELSE <<>>]
        /\ provable' = (Writes /\ hits = {})
  BY DEF Lookup
<1>2. hits \subseteq Seg /\ \A i \in hits : cache[i] # NoText
  BY DEF Reads
<1>3. \A i \in hits : cache[i] \in Texts
  BY <1>2 DEF TypeInv, TypeOK
<1>4. text' \in [Seg -> Texts]
  BY <1>1, <1>3 DEF Texts
<1>5. got' \subseteq Seg /\ missing' \subseteq Seg /\ provable' \in BOOLEAN
  BY <1>1, <1>2 DEF Writes
<1> QED
  BY <1>4, <1>5 DEF TypeInv, TypeOK, SlotReserved, Lookup, Phase, chanVars, store

\* The events of one ready segment, and the cursor moved past it.
LEMMA TypeFlush ==
  ASSUME TypeInv, CachedPrefix \/ FlushReady
  PROVE  TypeInv'
<1>1. next \in Seg /\ text \in [Seg -> Texts]
  BY DEF TypeInv, TypeOK, CachedPrefix, FlushReady
<1>2. outbox' \in Seq(Event)
  <2>1. Piece(next, text) \in Seq(Event) /\ <<>> \in Seq(Event)
    BY <1>1, PieceType
  <2> QED BY <2>1 DEF CachedPrefix, FlushReady, Publish
<1>3. next' \in 0 .. N
  BY <1>1, NAssumption DEF CachedPrefix, FlushReady, Seg
<1>4. mpc \in {"prefix", "flush"} /\ UNCHANGED <<mpc, pending, published, para>> /\ MainOnly
  BY DEF CachedPrefix, FlushReady, At
<1> QED
  BY <1>2, <1>3, <1>4 DEF TypeInv, TypeOK, SlotReserved, MainOnly, store

LEMMA SpawnedType ==
  ASSUME TypeOK, NEW S
  PROVE  Spawned(S) \in [Seg -> TaskState]
<1>1. [Idle EXCEPT !.pc = "stream"] \in TaskState
  BY BoundsAssumption, IdleType DEF Idle, TaskState, Attempts
<1> QED
  BY <1>1 DEF TypeOK, Spawned

LEMMA TypeDispatch ==
  ASSUME TypeInv, Dispatch
  PROVE  TypeInv'
<1>1. task' \in [Seg -> TaskState]
  BY SpawnedType DEF Dispatch, TypeInv
<1>2. remaining' \subseteq Seg
  BY DEF Dispatch, TypeInv, TypeOK
<1> QED
  BY <1>1, <1>2 DEF TypeInv, TypeOK, SlotReserved, Dispatch, Phase, chanVars, store

LEMMA ReleaseType ==
  ASSUME TypeOK, NEW m, Release(m)
  PROVE  task' \in [Seg -> TaskState] /\ remaining' \subseteq Seg
  BY SpawnedType DEF Release, TypeOK

\* The oldest message of the channel is a message, and the rest still fit.
LEMMA HeadType ==
  ASSUME TypeOK, progress # <<>>
  PROVE  /\ Head(progress) \in Message
         /\ Tail(progress) \in Seq(Message) /\ Len(Tail(progress)) <= ProgressCap
  BY BoundsAssumption DEF TypeOK

LEMMA TypeTakeToken ==
  ASSUME TypeInv, TakeToken
  PROVE  TypeInv'
<1> DEFINE m == Head(progress)
<1>1. m \in Message /\ progress' \in Seq(Message) /\ Len(progress') <= ProgressCap
  BY HeadType DEF TakeToken, TypeInv
<1>2. m.seg \in Seg /\ m.text \in Texts
  BY <1>1 DEF Message
<1>3. task' \in [Seg -> TaskState] /\ remaining' \subseteq Seg
  BY ReleaseType DEF TakeToken, TypeInv
<1>4. pending' \in [Seg -> Texts]
  <2>1. pending \in [Seg -> Texts] /\ pending[m.seg] \o m.text \in Texts
    BY <1>2 DEF TypeInv, TypeOK, Texts
  <2>2. pending' = pending \/ pending' = [pending EXCEPT ![m.seg] = @ \o m.text]
    BY DEF TakeToken
  <2> QED BY <2>1, <2>2
<1> QED
  BY <1>1, <1>3, <1>4 DEF TypeInv, TypeOK, SlotReserved, TakeToken, Phase, chanVars, store

LEMMA OwnerType == \A i \in Seg : Owner[i] \in Nat
  BY OwnerAssumption

LEMMA TypeTakeCompleted ==
  ASSUME TypeInv, TakeCompleted
  PROVE  TypeInv'
<1> DEFINE m == Head(progress)
<1>1. m \in Message /\ progress' \in Seq(Message) /\ Len(progress') <= ProgressCap
  BY HeadType DEF TakeCompleted, TypeInv
<1>2. m.seg \in Seg /\ m.text \in Texts /\ <<>> \in Texts
  BY <1>1 DEF Message, Texts
<1>3. task' \in [Seg -> TaskState] /\ remaining' \subseteq Seg
  BY ReleaseType DEF TakeCompleted, TypeInv
<1>4. text' \in [Seg -> Texts] /\ pending' \in [Seg -> Texts]
  BY <1>2 DEF TypeInv, TypeOK, TakeCompleted
<1>5. /\ degraded' \subseteq Seg /\ candidates' \subseteq Seg /\ got' \subseteq Seg
      /\ provable' \in BOOLEAN
  BY <1>2 DEF TypeInv, TypeOK, TakeCompleted
<1>6. /\ para' \in [next : 0 .. N, end : 0 .. N, ready : Nat, degraded : SUBSET Nat]
      /\ mpc' \in {"paragraph", "publish"}
  <2>1. /\ para \in [next : 0 .. N, end : 0 .. N, ready : Nat, degraded : SUBSET Nat]
        /\ Owner[m.seg] \in Nat
    BY <1>2, OwnerType DEF TypeInv, TypeOK
  <2> DEFINE d == IF m.verdict = "degraded" THEN para.degraded \cup {Owner[m.seg]}
                  ELSE para.degraded
             r == IF m.seg \in para.next .. para.end - 1 THEN para.ready + 1 ELSE para.ready
  <2>2. d \in SUBSET Nat /\ r \in Nat
    BY <2>1
  <2>3. \/ para' = [para EXCEPT !.degraded = d, !.ready = r] /\ mpc' = "paragraph"
        \/ para' = para /\ mpc' = "publish"
    BY DEF TakeCompleted, ParagraphCounts
  <2> HIDE DEF d, r
  <2> QED BY <2>1, <2>2, <2>3
<1> QED
  BY <1>1, <1>3, <1>4, <1>5, <1>6
  DEF TypeInv, TypeOK, SlotReserved, TakeCompleted, Phase, chanVars, store

LEMMA TypePublishHead ==
  ASSUME TypeInv, PublishHead
  PROVE  TypeInv'
<1>1. CASE Optimistic /\ next \in published /\ next \in got
  <2>1. next \in Seg
    BY <1>1 DEF TypeInv, TypeOK
  <2>2. outbox' \in Seq(Event)
    <3>1. <<Done(next)>> \in Seq(Event)
      BY <2>1, DoneType
    <3> QED BY <1>1, <3>1 DEF PublishHead
  <2>3. next' \in 0 .. N
    BY <1>1, <2>1, NAssumption DEF PublishHead, Seg
  <2> QED
    BY <2>2, <2>3 DEF TypeInv, TypeOK, SlotReserved, PublishHead, MainOnly, Phase, store
<1>2. CASE ~(Optimistic /\ next \in published /\ next \in got)
  BY <1>2 DEF TypeInv, TypeOK, SlotReserved, PublishHead, MainOnly, Phase, store
<1> QED BY <1>1, <1>2

LEMMA TypePublishDraft ==
  ASSUME TypeInv, PublishDraft
  PROVE  TypeInv'
<1>1. mpc' \in {"finish", "wait"}
  BY DEF PublishDraft
<1>2. CASE Optimistic /\ next \in Seg /\ pending[next] # <<>>
  <2>1. pending \in [Seg -> Texts] /\ <<>> \in Texts
    BY DEF TypeInv, TypeOK, Texts
  <2>2. Token({next}, pending) \in Event
    BY <1>2, <2>1, TokenType
  <2>3. outbox' \in Seq(Event)
    <3>1. <<Token({next}, pending)>> \in Seq(Event)
      BY <2>2
    <3> QED BY <1>2, <3>1 DEF PublishDraft
  <2>4. pending' \in [Seg -> Texts] /\ published' \subseteq Seg
    BY <1>2, <2>1 DEF PublishDraft, TypeInv, TypeOK
  <2> QED
    BY <1>1, <2>3, <2>4
    DEF TypeInv, TypeOK, SlotReserved, PublishDraft, MainOnly, Phase, store
<1>3. CASE ~(Optimistic /\ next \in Seg /\ pending[next] # <<>>)
  BY <1>1, <1>3 DEF TypeInv, TypeOK, SlotReserved, PublishDraft, MainOnly, Phase, store
<1> QED BY <1>2, <1>3

\* The segments that one paragraph still owns fit in the document.
LEMMA OwnedBound ==
  ASSUME NEW i \in Seg
  PROVE  /\ IsFiniteSet(OwnedFrom(i)) /\ Cardinality(OwnedFrom(i)) \in Nat
         /\ Cardinality(OwnedFrom(i)) <= N - i
<1>1. i \in Nat /\ N \in Nat /\ i <= N - 1
  BY NAssumption DEF Seg
<1>2. IsFiniteSet(i .. N - 1) /\ Cardinality(i .. N - 1) = N - i
  BY <1>1, FS_Interval
<1>3. OwnedFrom(i) \subseteq i .. N - 1
  BY <1>1 DEF OwnedFrom, Seg
<1> QED
  BY <1>2, <1>3, FS_Subset, FS_CardinalityType

LEMMA TypeMeasureOwner ==
  ASSUME TypeInv, MeasureOwner
  PROVE  TypeInv'
<1>1. /\ para \in [next : 0 .. N, end : 0 .. N, ready : Nat, degraded : SUBSET Nat]
      /\ para.next \in Seg
  BY NAssumption DEF TypeInv, TypeOK, MeasureOwner, Seg
<1> DEFINE owned == OwnedFrom(para.next)
<1>2. Cardinality(owned) \in Nat /\ Cardinality(owned) <= N - para.next
  BY <1>1, OwnedBound
<1>3. Cardinality(owned \cap got) \in Nat /\ Cardinality(owned \cap got) <= Cardinality(owned)
  BY <1>1, OwnedBound, FS_Subset, FS_CardinalityType
<1>4. /\ para.next + Cardinality(owned) \in 0 .. N
      /\ Cardinality(owned \cap got) \in Nat
  BY <1>1, <1>2, <1>3, NAssumption DEF Seg
<1> HIDE DEF owned
<1>5. para' = [para EXCEPT !.end = para.next + Cardinality(owned),
                           !.ready = Cardinality(owned \cap got)]
  BY DEF MeasureOwner, owned
<1>6. para' \in [next : 0 .. N, end : 0 .. N, ready : Nat, degraded : SUBSET Nat]
  BY <1>1, <1>4, <1>5
<1> QED
  BY <1>6 DEF TypeInv, TypeOK, SlotReserved, MeasureOwner, MainOnly, store

LEMMA TypePublishOriginal ==
  ASSUME TypeInv, PublishOriginal
  PROVE  TypeInv'
<1> DEFINE S == para.next .. para.end - 1
           e == Token(S, [i \in S |-> Source])
<1>1. para \in [next : 0 .. N, end : 0 .. N, ready : Nat, degraded : SUBSET Nat]
  BY DEF TypeInv, TypeOK
<1>2. S \in SUBSET Seg
  BY <1>1, NAssumption DEF Seg
<1>3. e \in Event
  BY <1>2, BlankType, TokenType
<1> HIDE DEF e
<1>4. <<e>> \o [k \in 1 .. para.end - para.next |-> Done(para.next + k - 1)] \in Seq(Event)
  BY <1>1, <1>3, MarksType
<1>5. outbox' \in Seq(Event)
  BY <1>4 DEF PublishOriginal, e
<1>6. para' \in [next : 0 .. N, end : 0 .. N, ready : Nat, degraded : SUBSET Nat]
  <2>1. 0 \in 0 .. N
    BY NAssumption
  <2> QED BY <1>1, <2>1 DEF PublishOriginal
<1> QED
  BY <1>5, <1>6 DEF TypeInv, TypeOK, SlotReserved, PublishOriginal, MainOnly, At, store

LEMMA TypePublishTranslated ==
  ASSUME TypeInv, PublishTranslated
  PROVE  TypeInv'
<1>1. /\ para \in [next : 0 .. N, end : 0 .. N, ready : Nat, degraded : SUBSET Nat]
      /\ text \in [Seg -> Texts] /\ para.next \in Seg /\ para.next + 1 \in 0 .. N
  BY NAssumption DEF TypeInv, TypeOK, PublishTranslated, OwnerReady, Seg
<1>2. outbox' \in Seq(Event)
  BY <1>1, PieceType DEF PublishTranslated
<1>3. para' \in [next : 0 .. N, end : 0 .. N, ready : Nat, degraded : SUBSET Nat]
  <2>1. 0 \in 0 .. N /\ para.ready \in Nat
    BY <1>1, NAssumption
  <2> DEFINE r == IF para.next + 1 = para.end THEN 0 ELSE para.ready
  <2>3. r \in Nat
    BY <2>1
  <2>4. para' = [para EXCEPT !.next = para.next + 1, !.ready = r]
    BY DEF PublishTranslated
  <2> HIDE DEF r
  <2> QED BY <1>1, <2>3, <2>4
<1> QED
  BY <1>2, <1>3 DEF TypeInv, TypeOK, SlotReserved, PublishTranslated, MainOnly, At, store

-----------------------------------------------------------------------------
(* Types: finalization, admission and the stores. *)

LEMMA TypeFinalize ==
  ASSUME TypeInv, Finalize
  PROVE  TypeInv'
<1>1. text' \in [Seg -> Texts]
  BY BlankType DEF Finalize, TypeInv, TypeOK
<1>2. degraded' \subseteq Seg /\ candidates' \subseteq Seg /\ provable' \in BOOLEAN
  BY DEF Finalize, TypeInv, TypeOK
<1>3. next' \in 0 .. N
  BY NAssumption DEF Finalize
<1>4. mpc' \in {"render", "reserve"}
  BY DEF Finalize
<1> QED
  BY <1>1, <1>2, <1>3, <1>4
  DEF TypeInv, TypeOK, SlotReserved, Finalize, Phase, chanVars, store

LEMMA TypeRenderWhole ==
  ASSUME TypeInv, RenderWhole
  PROVE  TypeInv'
<1>1. text \in [Seg -> Texts] /\ N \in Nat /\ N = N - 0
  BY NAssumption DEF TypeInv, TypeOK
<1> DEFINE e == Token(Seg, text)
<1>2. e \in Event
  BY <1>1, TokenType
<1> HIDE DEF e
<1>3. <<e>> \o [k \in 1 .. N - 0 |-> Done(0 + k - 1)] \in Seq(Event)
  BY <1>1, <1>2, MarksType
<1>4. [k \in 1 .. N - 0 |-> Done(0 + k - 1)] = [k \in 1 .. N |-> Done(k - 1)]
  BY <1>1
<1>5. outbox' \in Seq(Event)
  BY <1>3, <1>4 DEF RenderWhole, e
<1> QED
  BY <1>5 DEF TypeInv, TypeOK, SlotReserved, RenderWhole, MainOnly, Phase, store

LEMMA TypeRenderPiece ==
  ASSUME TypeInv, RenderPiece
  PROVE  TypeInv'
<1>1. CASE next < N
  <2>1. next \in Seg /\ text \in [Seg -> Texts] /\ next + 1 \in 0 .. N
    BY <1>1, NAssumption DEF TypeInv, TypeOK, Seg
  <2>2. outbox' \in Seq(Event)
    BY <1>1, <2>1, PieceType DEF RenderPiece
  <2> QED
    BY <1>1, <2>1, <2>2 DEF TypeInv, TypeOK, SlotReserved, RenderPiece, MainOnly, At, store
<1>2. CASE ~(next < N)
  BY <1>2 DEF TypeInv, TypeOK, SlotReserved, RenderPiece, MainOnly, Phase, store
<1> QED BY <1>1, <1>2

LEMMA TypeStoreCandidate ==
  ASSUME TypeInv, StoreCandidate
  PROVE  TypeInv'
<1>1. cache' \in [Seg -> Texts \cup {NoText}]
  BY DEF TypeInv, TypeOK, StoreCandidate
<1>2. candidates' \subseteq Seg
  BY DEF TypeInv, TypeOK, StoreCandidate
<1> QED
  BY <1>1, <1>2 DEF TypeInv, TypeOK, SlotReserved, StoreCandidate, At, chanVars

LEMMA TypeRecordTask ==
  ASSUME TypeInv, RecordTask
  PROVE  TypeInv'
<1>1. proof' \in [Seg -> Texts] \cup {NoText}
  BY DEF TypeInv, TypeOK, RecordTask
<1> QED
  BY <1>1 DEF TypeInv, TypeOK, SlotReserved, RecordTask, At, Phase, chanVars

\* The actions that move the coordinator and change no data.
LEMMA TypeMove ==
  ASSUME TypeInv, AdmitReplay \/ AfterPrefix \/ ParagraphDone \/ Admit \/ StoredAll
  PROVE  TypeInv'
<1>1. /\ mpc' \in Phase
      /\ UNCHANGED <<job, task, progress, got, text, pending, published, next, remaining,
                     missing, para, degraded, candidates, provable, outbox, sent, backlog,
                     open, store, runs>>
      /\ outbox = <<>>
  BY DEF AdmitReplay, AfterPrefix, ParagraphDone, Admit, StoredAll, At, MainOnly,
         Phase, chanVars
<1>2. mpc' \in {"store", "record", "terminal"} => backlog < StreamCap
  BY DEF AdmitReplay, AfterPrefix, ParagraphDone, Admit, StoredAll, At,
         TypeInv, SlotReserved
<1> QED
  BY <1>1, <1>2 DEF TypeInv, TypeOK, SlotReserved, store

-----------------------------------------------------------------------------
\* Every step of the pipeline keeps the types and the reserved slot.
LEMMA TypeStep ==
  ASSUME TypeInv, [Next]_vars
  PROVE  TypeInv'
<1>1. CASE \E i \in Seg : TaskStep(i)
  BY <1>1, TypeTaskStep
<1>2. CASE ReceiverDropped \/ PrepareFails \/ TakeError \/ Crash
  BY <1>2, TypeAbort DEF ReceiverDropped, PrepareFails, TakeError, Crash
<1>3. CASE StartReplay \/ Lookup \/ Dispatch
  BY <1>3, TypeStartReplay, TypeLookup, TypeDispatch
<1>4. CASE CachedPrefix \/ FlushReady \/ PublishHead \/ PublishDraft
  BY <1>4, TypeFlush, TypePublishHead, TypePublishDraft
<1>5. CASE TakeToken \/ TakeCompleted
  BY <1>5, TypeTakeToken, TypeTakeCompleted
<1>6. CASE MeasureOwner \/ PublishOriginal \/ PublishTranslated
  BY <1>6, TypeMeasureOwner, TypePublishOriginal, TypePublishTranslated
<1>7. CASE Finalize \/ RenderWhole \/ RenderPiece
  BY <1>7, TypeFinalize, TypeRenderWhole, TypeRenderPiece
<1>8. CASE StoreCandidate \/ RecordTask \/ SendTerminal \/ Send
  BY <1>8, TypeStoreCandidate, TypeRecordTask, TypeSendTerminal, TypeSend
<1>9. CASE AdmitReplay \/ AfterPrefix \/ ParagraphDone \/ Admit \/ StoredAll
  BY <1>9, TypeMove
<1>10. CASE Receive \/ CloseReceiver
  BY <1>10, TypeConsumer
<1>11. CASE NewRun
  BY <1>11, TypeNewRun
<1>12. CASE UNCHANGED vars
  BY <1>12 DEF vars, runVars, chanVars, store, TypeInv, TypeOK, SlotReserved
<1> QED
  BY <1>1, <1>2, <1>3, <1>4, <1>5, <1>6, <1>7, <1>8, <1>9, <1>10, <1>11, <1>12
  DEF Next, Coordinator

\* Types hold in every reachable state, whatever the document, the mode, the
\* number of retries and the capacities of the channels.
THEOREM TypeCorrect == Spec => []TypeOK
<1>1. Init => TypeInv
  BY TypeInit
<1>2. TypeInv /\ [Next]_vars => TypeInv'
  BY TypeStep
<1>3. TypeInv => TypeOK
  BY DEF TypeInv
<1> QED
  BY <1>1, <1>2, <1>3, PTL DEF Spec

-----------------------------------------------------------------------------
(* What is stored: StoreSound, by following a text from the attempt that    *)
(* produced it, through the channel and the tables, to the rows.            *)

\* The draft of a live stream holds the units of its current attempt only.
DraftPure(s) ==
    /\ s.attempt > 0
    /\ s.pc \in {"stream", "answer"} => \A k \in DOMAIN s.draft : s.draft[k] = s.attempt

\* An outcome that is neither an error nor a retained source is one answer.
OutcomePure(t, v) == v \notin {"degraded", "error"} => OneAttempt(t)

TasksPure ==
    \A i \in Seg :
       /\ DraftPure(task[i])
       /\ task[i].pc = "report" => OutcomePure(task[i].draft, task[i].verdict)

ChannelPure ==
    \A k \in DOMAIN progress :
       progress[k].kind = "completed" => OutcomePure(progress[k].text, progress[k].verdict)

\* What the coordinator means to store is one answer, and it stores nothing
\* before every segment is there.
TablesPure ==
    /\ mpc = "start" => got = {} /\ candidates = {}
    /\ mpc \in {"render", "reserve", "store", "record"} => got = Seg
    /\ \A i \in candidates : OneAttempt(text[i])
    /\ provable => \A i \in got : OneAttempt(text[i])

\* A segment is answered once: its task stays gone after it has reported, so
\* its outcome cannot be overwritten by a second one.
AnsweredOnce ==
    /\ \A k \in DOMAIN progress :
          progress[k].kind = "completed" =>
             /\ task[progress[k].seg].pc = "gone"
             /\ task[progress[k].seg].verdict = progress[k].verdict
             /\ progress[k].seg \notin candidates
    /\ \A j, k \in DOMAIN progress :
          /\ progress[j].kind = "completed" /\ progress[k].kind = "completed"
          /\ progress[j].seg = progress[k].seg
          => j = k
    /\ \A i \in candidates : task[i].pc = "gone"
    /\ \A i \in remaining : task[i].pc = "idle"
    /\ mpc \in {"start", "prefix"} => \A i \in Seg : task[i].pc = "idle"
    /\ mpc = "dispatch" => \A i \in missing : task[i].pc = "idle"
    /\ provable => \A i \in got : task[i].pc = "gone" /\ task[i].verdict = "first"

StoreInv == TasksPure /\ ChannelPure /\ AnsweredOnce /\ TablesPure /\ StoreSound

\* Units that all come from the same real attempt are one answer.
LEMMA OneAttemptIntro ==
  ASSUME NEW t \in Texts, NEW a \in Nat, a > 0, \A k \in DOMAIN t : t[k] = a
  PROVE  OneAttempt(t)
<1>1. CASE t = <<>>
  BY <1>1 DEF OneAttempt, Original
<1>2. CASE t # <<>>
  <2>1. 1 \in DOMAIN t
    BY <1>2 DEF Texts
  <2> QED BY <2>1 DEF OneAttempt, Original
<1> QED BY <1>1, <1>2

LEMMA EmptyIsOneAttempt == OneAttempt(<<>>)
<1>1. <<>> \in Texts /\ \A k \in DOMAIN <<>> : <<>>[k] = 1
  BY DEF Texts
<1> QED BY <1>1, OneAttemptIntro

\* Most steps leave the tasks and their channel alone.
LEMMA QuietSteps ==
  ASSUME [Next]_vars
  PROVE  \/ \E i \in Seg : TaskStep(i)
         \/ ReceiverDropped \/ PrepareFails \/ TakeError \/ Crash \/ NewRun
         \/ Dispatch \/ TakeToken \/ TakeCompleted
         \/ UNCHANGED <<task, progress>>
<1>1. CASE \/ StartReplay \/ AdmitReplay \/ Lookup \/ CachedPrefix \/ AfterPrefix
           \/ PublishHead \/ FlushReady \/ PublishDraft
  BY <1>1 DEF StartReplay, AdmitReplay, Lookup, CachedPrefix, AfterPrefix, PublishHead,
              FlushReady, PublishDraft, MainOnly
<1>2. CASE MeasureOwner \/ PublishOriginal \/ PublishTranslated \/ ParagraphDone
  BY <1>2 DEF MeasureOwner, PublishOriginal, PublishTranslated, ParagraphDone, MainOnly
<1>3. CASE \/ Finalize \/ RenderWhole \/ RenderPiece \/ Admit \/ StoreCandidate
           \/ StoredAll \/ RecordTask \/ SendTerminal
  BY <1>3 DEF Finalize, RenderWhole, RenderPiece, Admit, StoreCandidate, StoredAll,
              RecordTask, SendTerminal, MainOnly
<1>4. CASE Send \/ Receive \/ CloseReceiver \/ UNCHANGED vars
  BY <1>4 DEF Send, Receive, CloseReceiver, vars, runVars
<1> QED
  BY <1>1, <1>2, <1>3, <1>4 DEF Next, Coordinator

\* Who changes the tasks and the channel.
LEMMA TaskChange ==
  ASSUME TypeInv, [Next]_vars
  PROVE  \/ \E i \in Seg : TaskStep(i)
         \/ UNCHANGED task
         \/ \E S \in SUBSET Seg : task' = Spawned(S)
         \/ task' = [i \in Seg |-> Idle]
<1>1. CASE ReceiverDropped \/ PrepareFails \/ TakeError \/ Crash \/ NewRun
  BY <1>1 DEF ReceiverDropped, PrepareFails, TakeError, Crash, NewRun, Abort, Forgotten
<1>2. CASE Dispatch \/ TakeToken \/ TakeCompleted
  <2>1. /\ (IF 0 \in missing THEN {0} ELSE missing) \subseteq Seg
        /\ remaining \subseteq Seg
    BY SegType DEF TypeInv, TypeOK
  <2>2. CASE Dispatch
    BY <2>1, <2>2 DEF Dispatch
  <2>3. CASE TakeToken \/ TakeCompleted
    BY <2>1, <2>3 DEF TakeToken, TakeCompleted, Release
  <2> QED BY <1>2, <2>2, <2>3
<1>3. CASE UNCHANGED <<task, progress>>
  BY <1>3
<1> QED
  BY <1>1, <1>2, <1>3, QuietSteps

LEMMA ChannelChange ==
  ASSUME [Next]_vars
  PROVE  \/ \E i \in Seg : TaskStep(i)
         \/ UNCHANGED progress
         \/ progress # <<>> /\ progress' = Tail(progress)
         \/ progress' = <<>>
<1>1. CASE ReceiverDropped \/ PrepareFails \/ TakeError \/ Crash \/ NewRun
  BY <1>1 DEF ReceiverDropped, PrepareFails, TakeError, Crash, NewRun, Abort, Forgotten
<1>2. CASE Dispatch \/ TakeToken \/ TakeCompleted
  BY <1>2 DEF Dispatch, TakeToken, TakeCompleted
<1> QED
  BY <1>1, <1>2, QuietSteps

\* A verdict settles a task with an outcome of its own.
LEMMA VerdictPure ==
  ASSUME TypeOK, TasksPure, NEW i \in Seg, NEW v, NEW t, Verdict(i, v, t), OutcomePure(t, v)
  PROVE  TasksPure'
<1>1. task' = [task EXCEPT ![i] = [Idle EXCEPT !.pc = "report", !.verdict = v, !.draft = t]]
  BY DEF Verdict
<1>2. ASSUME NEW j \in Seg
      PROVE  /\ DraftPure(task'[j])
             /\ task'[j].pc = "report" => OutcomePure(task'[j].draft, task'[j].verdict)
  <2>1. CASE j = i
    BY <1>1, <2>1 DEF TypeOK, Idle, DraftPure
  <2>2. CASE j # i
    <3>1. task'[j] = task[j]
      BY <1>1, <2>2 DEF TypeOK
    <3> QED BY <3>1 DEF TasksPure
  <2> QED BY <2>1, <2>2
<1> QED BY <1>2 DEF TasksPure

\* An update of one task that has not settled keeps the drafts pure.
LEMMA UpdatePure ==
  ASSUME TypeOK, TasksPure, NEW i \in Seg, NEW s, task' = [task EXCEPT ![i] = s],
         DraftPure(s), s.pc # "report"
  PROVE  TasksPure'
<1>1. ASSUME NEW j \in Seg
      PROVE  /\ DraftPure(task'[j])
             /\ task'[j].pc = "report" => OutcomePure(task'[j].draft, task'[j].verdict)
  BY DEF TypeOK, TasksPure
<1> QED BY <1>1 DEF TasksPure

LEMMA ExhaustedPure ==
  ASSUME TypeOK, TasksPure, NEW i \in Seg, Exhausted(i)
  PROVE  TasksPure'
<1>1. OutcomePure(Source, "degraded") /\ OutcomePure(<<>>, "error")
  BY DEF OutcomePure
<1>2. Verdict(i, "degraded", Source) \/ Verdict(i, "error", <<>>)
  BY DEF Exhausted
<1> QED BY <1>1, <1>2, VerdictPure

LEMMA TaskStepPure ==
  ASSUME TypeInv, TasksPure, NEW i \in Seg, TaskStep(i)
  PROVE  TasksPure'
<1>1. /\ TypeOK /\ task \in [Seg -> TaskState] /\ task[i] \in Attempts
      /\ task[i].attempt \in Nat /\ task[i].attempt > 0 /\ task[i].draft \in Seq(Nat)
      /\ DraftPure(task[i])
  BY DEF TypeInv, TypeOK, TasksPure, DraftPure, TaskState, Attempts, Texts
<1>2. OutcomePure(<<>>, "error") /\ OutcomePure(<<>>, "retried")
  BY EmptyIsOneAttempt DEF OutcomePure
<1>3. task[i].pc \in {"stream", "answer"} => OneAttempt(task[i].draft)
  BY <1>1, OneAttemptIntro DEF DraftPure, Texts
<1>4. CASE StreamToken(i)
  <2> DEFINE d == Append(task[i].draft, task[i].attempt)
  <2>1. \A k \in DOMAIN d : d[k] = task[i].attempt
    BY <1>1, <1>4 DEF DraftPure, StreamToken
  <2>2. task' = [task EXCEPT ![i] = [task[i] EXCEPT !.draft = d]]
    BY <1>1, <1>4 DEF StreamToken
  <2>3. DraftPure([task[i] EXCEPT !.draft = d])
    BY <1>1, <1>4, <2>1 DEF DraftPure, StreamToken, Attempts
  <2>4. [task[i] EXCEPT !.draft = d].pc # "report"
    BY <1>1, <1>4 DEF StreamToken, Attempts
  <2> QED BY <1>1, <2>2, <2>3, <2>4, UpdatePure
<1>5. CASE task' = [task EXCEPT ![i].draft = <<>>, ![i].attempt = @ + 1]
           /\ task[i].pc = "stream"
  <2> DEFINE s == [task[i] EXCEPT !.draft = <<>>, !.attempt = @ + 1]
  <2>1. task' = [task EXCEPT ![i] = s]
    BY <1>1, <1>5
  <2>2. DraftPure(s) /\ s.pc # "report"
    BY <1>1, <1>5 DEF DraftPure, Attempts
  <2> QED BY <1>1, <2>1, <2>2, UpdatePure
<1>6. CASE task' = [task EXCEPT ![i].pc = "retry", ![i].draft = <<>>, ![i].attempt = @ + 1]
  <2> DEFINE s == [task[i] EXCEPT !.pc = "retry", !.draft = <<>>, !.attempt = @ + 1]
  <2>1. task' = [task EXCEPT ![i] = s]
    BY <1>1, <1>6
  <2>2. DraftPure(s) /\ s.pc # "report"
    BY <1>1 DEF DraftPure, Attempts
  <2> QED BY <1>1, <2>1, <2>2, UpdatePure
<1>7. CASE task' = [task EXCEPT ![i].pc = "answer", ![i].draft = <<task[i].attempt>>]
  <2> DEFINE s == [task[i] EXCEPT !.pc = "answer", !.draft = <<task[i].attempt>>]
  <2>1. task' = [task EXCEPT ![i] = s]
    BY <1>1, <1>7
  <2>2. DraftPure(s) /\ s.pc # "report"
    BY <1>1 DEF DraftPure, Attempts
  <2> QED BY <1>1, <2>1, <2>2, UpdatePure
<1>8. CASE task' = [task EXCEPT ![i].left = @ - 1, ![i].attempt = @ + 1]
           /\ task[i].pc = "retry"
  <2> DEFINE s == [task[i] EXCEPT !.left = @ - 1, !.attempt = @ + 1]
  <2>1. task' = [task EXCEPT ![i] = s]
    BY <1>1, <1>8
  <2>2. DraftPure(s) /\ s.pc # "report"
    BY <1>1, <1>8 DEF DraftPure, Attempts
  <2> QED BY <1>1, <2>1, <2>2, UpdatePure
<1>9. CASE task' = [task EXCEPT ![i].pc = "gone", ![i].draft = <<>>]
  <2> DEFINE s == [task[i] EXCEPT !.pc = "gone", !.draft = <<>>]
  <2>1. task' = [task EXCEPT ![i] = s]
    BY <1>1, <1>9
  <2>2. DraftPure(s) /\ s.pc # "report"
    BY <1>1 DEF DraftPure, Attempts
  <2> QED BY <1>1, <2>1, <2>2, UpdatePure
<1>10. CASE StreamEnds(i)
  <2>1. CASE Verdict(i, "error", <<>>)
    BY <1>1, <1>2, <2>1, VerdictPure
  <2>2. CASE Verdict(i, "first", task[i].draft)
    BY <1>1, <1>3, <1>10, <2>2, VerdictPure DEF StreamEnds, OutcomePure
  <2>3. CASE Exhausted(i)
    BY <1>1, <2>3, ExhaustedPure
  <2> QED BY <1>6, <1>10, <2>1, <2>2, <2>3 DEF StreamEnds
<1>11. CASE RetryEnds(i)
  <2>1. CASE Verdict(i, "error", <<>>) \/ Verdict(i, "retried", <<>>)
    BY <1>1, <1>2, <2>1, VerdictPure
  <2>2. CASE Exhausted(i)
    BY <1>1, <2>2, ExhaustedPure
  <2> QED BY <1>7, <1>8, <1>11, <2>1, <2>2 DEF RetryEnds
<1>12. CASE RetryAnswers(i)
  BY <1>1, <1>3, <1>12, VerdictPure DEF RetryAnswers, OutcomePure
<1> QED
  BY <1>4, <1>5, <1>9, <1>10, <1>11, <1>12 DEF TaskStep, StreamRestarted, TaskReports

LEMMA TasksStep ==
  ASSUME TypeInv, TasksPure, [Next]_vars
  PROVE  TasksPure'
<1>1. CASE \E i \in Seg : TaskStep(i)
  BY <1>1, TaskStepPure
<1>2. CASE UNCHANGED task
  BY <1>2 DEF TasksPure
<1>3. ASSUME NEW S \in SUBSET Seg, task' = Spawned(S)
      PROVE  TasksPure'
  BY <1>3 DEF TasksPure, Spawned, Idle, DraftPure
<1>4. CASE task' = [i \in Seg |-> Idle]
  BY <1>4 DEF TasksPure, Idle, DraftPure
<1> QED BY <1>1, <1>2, <1>3, <1>4, TaskChange

\* What is put into the channel is pure when its sender is.
LEMMA PutPure ==
  ASSUME TypeOK, ChannelPure, NEW i, NEW kind, NEW t, NEW v, Put(i, kind, t, v),
         kind = "completed" => OutcomePure(t, v)
  PROVE  ChannelPure'
<1> DEFINE m == [kind |-> kind, seg |-> i, text |-> t, verdict |-> v]
<1>1. m.kind = kind /\ m.text = t /\ m.verdict = v
  OBVIOUS
<1> HIDE DEF m
<1>2. progress \in Seq(Message) /\ progress' = Append(progress, m)
  BY DEF TypeOK, Put, m
<1>3. ASSUME NEW k \in DOMAIN progress', progress'[k].kind = "completed"
      PROVE  OutcomePure(progress'[k].text, progress'[k].verdict)
  <2>1. k \in 1 .. Len(progress) + 1
    BY <1>2
  <2>2. CASE k \in 1 .. Len(progress)
    <3>1. progress'[k] = progress[k] /\ k \in DOMAIN progress
      BY <1>2, <2>2
    <3> QED BY <1>3, <3>1 DEF ChannelPure
  <2>3. CASE k = Len(progress) + 1
    <3>1. progress'[k] = m
      BY <1>2, <2>3
    <3> QED BY <1>1, <1>3, <3>1
  <2> QED BY <1>2, <2>1, <2>2, <2>3
<1> QED BY <1>3 DEF ChannelPure

LEMMA ChannelStep ==
  ASSUME TypeInv, TasksPure, ChannelPure, [Next]_vars
  PROVE  ChannelPure'
<1>1. ASSUME NEW i \in Seg, TaskStep(i)
      PROVE  ChannelPure'
  <2>1. CASE StreamToken(i)
    BY <2>1, PutPure DEF StreamToken, TypeInv
  <2>2. CASE RetryAnswers(i)
    BY <2>2, PutPure DEF RetryAnswers, TypeInv
  <2>3. CASE TaskReports(i)
    BY <2>3, PutPure DEF TaskReports, TypeInv, TasksPure
  <2>4. CASE UNCHANGED progress
    BY <2>4 DEF ChannelPure
  <2> QED
    BY <1>1, <2>1, <2>2, <2>3, <2>4 DEF TaskStep, StreamRestarted, StreamEnds, RetryEnds
<1>2. CASE UNCHANGED progress
  BY <1>2 DEF ChannelPure
<1>3. CASE progress # <<>> /\ progress' = Tail(progress)
  <2>1. progress \in Seq(Message)
    BY DEF TypeInv, TypeOK
  <2>2. ASSUME NEW k \in DOMAIN progress'
        PROVE  k + 1 \in DOMAIN progress /\ progress'[k] = progress[k + 1]
    BY <1>3, <2>1
  <2> QED BY <2>2 DEF ChannelPure
<1>4. CASE progress' = <<>>
  BY <1>4 DEF ChannelPure
<1> QED BY <1>1, <1>2, <1>3, <1>4, ChannelChange

\* The actions that fill the tables or empty them.
LEMMA TablesStep ==
  ASSUME TypeInv, ChannelPure, AnsweredOnce, TablesPure, [Next]_vars
  PROVE  TablesPure'
<1>1. CASE TakeCompleted
  <2> DEFINE m == Head(progress)
  <2>1. progress \in Seq(Message) /\ progress # <<>> /\ 1 \in DOMAIN progress /\ m = progress[1]
    BY <1>1 DEF TypeInv, TypeOK, TakeCompleted
  <2>2. /\ m.kind = "completed" /\ m.verdict # "error" /\ OutcomePure(m.text, m.verdict)
        /\ m.seg \notin candidates
    BY <1>1, <2>1 DEF TakeCompleted, ChannelPure, AnsweredOnce
  <2>3. m.verdict # "degraded" => OneAttempt(m.text)
    BY <2>2 DEF OutcomePure
  <2>4. m.seg \in Seg /\ text \in [Seg -> Texts] /\ got \subseteq Seg /\ candidates \subseteq Seg
    <3>1. m \in Message
      BY <2>1
    <3> QED BY <3>1 DEF Message, TypeInv, TypeOK
  <2>5. /\ text' = [text EXCEPT ![m.seg] = m.text] /\ got' = got \cup {m.seg}
        /\ provable' = (provable /\ m.verdict = "first")
        /\ candidates' = IF m.verdict = "degraded" THEN candidates ELSE candidates \cup {m.seg}
        /\ mpc' \in {"paragraph", "publish"}
    BY <1>1 DEF TakeCompleted
  <2> HIDE DEF m
  <2>6. ASSUME NEW i \in candidates' PROVE OneAttempt(text'[i])
    BY <2>2, <2>3, <2>4, <2>5, <2>6 DEF TablesPure
  <2>7. ASSUME provable', NEW i \in got' PROVE OneAttempt(text'[i])
    BY <2>3, <2>4, <2>5, <2>7 DEF TablesPure
  <2> QED BY <2>5, <2>6, <2>7 DEF TablesPure
<1>2. CASE Finalize
  <2> DEFINE kept == {i \in Seg : Owner[i] \in {Owner[j] : j \in degraded}}
  <2>1. /\ text' = [i \in Seg |-> IF i \in kept THEN Source ELSE text[i]]
        /\ candidates' = candidates \ kept
        /\ provable' = (provable /\ kept = {})
        /\ got = Seg /\ got' = got
        /\ mpc' \in {"render", "reserve"}
    BY <1>2 DEF Finalize
  <2>2. candidates \subseteq Seg
    BY DEF TypeInv, TypeOK
  <2> HIDE DEF kept
  <2> QED BY <2>1, <2>2 DEF TablesPure
<1>3. CASE Lookup
  BY <1>3 DEF Lookup, At, TablesPure
<1>4. CASE StartReplay
  BY <1>4 DEF StartReplay, At, TablesPure
<1>5. CASE StoreCandidate
  BY <1>5 DEF StoreCandidate, At, TablesPure
<1>6. CASE mpc' \in {"failed", "start"} /\ Forgotten
  BY <1>6 DEF Forgotten, TablesPure
<1>7. CASE /\ UNCHANGED <<got, candidates, text, provable>>
           /\ mpc' = "start" => mpc = "start"
           /\ mpc' \in {"render", "reserve", "store", "record"}
                 => mpc \in {"render", "reserve", "store", "record"}
  BY <1>7 DEF TablesPure
<1>8. CASE \E i \in Seg : TaskStep(i)
  BY <1>7, <1>8 DEF TaskStep, StreamToken, StreamRestarted, StreamEnds, RetryEnds,
                    RetryAnswers, TaskReports, TaskOnly
<1>9. CASE ReceiverDropped \/ PrepareFails \/ TakeError \/ Crash \/ NewRun
  BY <1>6, <1>9 DEF ReceiverDropped, PrepareFails, TakeError, Crash, NewRun, Abort
<1>10. CASE \/ AdmitReplay \/ CachedPrefix \/ AfterPrefix \/ Dispatch \/ TakeToken
            \/ PublishHead \/ FlushReady \/ PublishDraft
  BY <1>7, <1>10 DEF AdmitReplay, CachedPrefix, AfterPrefix, Dispatch, TakeToken,
                     PublishHead, FlushReady, PublishDraft, MainOnly
<1>11. CASE MeasureOwner \/ PublishOriginal \/ PublishTranslated \/ ParagraphDone
  BY <1>7, <1>11 DEF MeasureOwner, PublishOriginal, PublishTranslated, ParagraphDone, MainOnly
<1>12. CASE \/ RenderWhole \/ RenderPiece \/ Admit \/ StoredAll \/ RecordTask \/ SendTerminal
  BY <1>7, <1>12 DEF RenderWhole, RenderPiece, Admit, StoredAll, RecordTask, SendTerminal,
                     MainOnly, At
<1>13. CASE Send \/ Receive \/ CloseReceiver \/ UNCHANGED vars
  BY <1>7, <1>13 DEF Send, Receive, CloseReceiver, vars, runVars
<1> QED
  BY <1>1, <1>2, <1>3, <1>4, <1>5, <1>8, <1>9, <1>10, <1>11, <1>12, <1>13
  DEF Next, Coordinator

-----------------------------------------------------------------------------
(* A segment is answered once. *)

\* Every message of the channel is a message about a segment.
LEMMA MessageType ==
  ASSUME TypeOK
  PROVE  /\ progress \in Seq(Message)
         /\ \A k \in DOMAIN progress : progress[k] \in Message /\ progress[k].seg \in Seg
<1>1. progress \in Seq(Message)
  BY DEF TypeOK
<1>2. ASSUME NEW k \in DOMAIN progress PROVE progress[k] \in Message
  BY <1>1
<1> QED BY <1>1, <1>2 DEF Message

\* What a step of the task of segment i does to the channel.
LEMMA TaskEffect ==
  ASSUME TypeInv, NEW i \in Seg, TaskStep(i)
  PROVE  /\ task[i].pc \in {"stream", "retry", "answer", "report"}
         /\ \A j \in Seg : j # i => task'[j] = task[j]
         /\ \/ UNCHANGED progress
            \/ \E m \in Message :
                 /\ progress' = Append(progress, m) /\ m.seg = i
                 /\ m.kind = "completed" =>
                      task'[i].pc = "gone" /\ task'[i].verdict = m.verdict
<1>1. task \in [Seg -> TaskState] /\ task[i] \in Attempts
  BY DEF TypeInv, TypeOK, TaskState
<1>2. task[i].pc \in {"stream", "retry", "answer", "report"}
  BY DEF TaskStep, StreamToken, StreamRestarted, StreamEnds, RetryEnds, RetryAnswers,
         TaskReports
<1>3. \A j \in Seg : j # i => task'[j] = task[j]
  BY <1>1 DEF TaskStep, StreamToken, StreamRestarted, StreamEnds, RetryEnds, RetryAnswers,
              TaskReports, Verdict, Exhausted
<1>4. CASE StreamRestarted(i) \/ StreamEnds(i) \/ RetryEnds(i)
  BY <1>2, <1>3, <1>4 DEF StreamRestarted, StreamEnds, RetryEnds
<1>5. CASE StreamToken(i) \/ RetryAnswers(i)
  <2>1. PICK t \in Texts : Put(i, "token", t, "none")
    <3>1. <<task[i].attempt>> \in Texts /\ task[i].draft \in Texts
      BY <1>1 DEF Attempts, Texts
    <3> QED BY <1>5, <3>1 DEF StreamToken, RetryAnswers
  <2> DEFINE m == [kind |-> "token", seg |-> i, text |-> t, verdict |-> "none"]
  <2>2. m \in Message /\ m.seg = i /\ m.kind = "token"
    BY DEF Message
  <2>3. progress' = Append(progress, m)
    BY <2>1 DEF Put
  <2> HIDE DEF m
  <2> QED BY <1>2, <1>3, <2>2, <2>3
<1>6. CASE TaskReports(i)
  <2> DEFINE m == [kind |-> "completed", seg |-> i, text |-> task[i].draft,
                   verdict |-> task[i].verdict]
  <2>1. m \in Message /\ m.seg = i /\ m.verdict = task[i].verdict
    BY <1>1 DEF Message, Attempts
  <2>2. progress' = Append(progress, m)
    BY <1>6 DEF TaskReports, Put
  <2> HIDE DEF m
  <2>3. task'[i].pc = "gone" /\ task'[i].verdict = m.verdict
    BY <1>1, <1>6, <2>1 DEF TaskReports, Attempts
  <2> QED BY <1>2, <1>3, <2>1, <2>2, <2>3
<1> QED
  BY <1>4, <1>5, <1>6 DEF TaskStep

LEMMA OnceTaskStep ==
  ASSUME TypeInv, AnsweredOnce, NEW i \in Seg, TaskStep(i)
  PROVE  AnsweredOnce'
<1>1. UNCHANGED <<mpc, got, missing, remaining, candidates, provable>>
  BY DEF TaskStep, StreamToken, StreamRestarted, StreamEnds, RetryEnds, RetryAnswers,
         TaskReports, TaskOnly
<1>2. /\ task[i].pc \notin {"idle", "gone"}
      /\ \A j \in Seg : j # i => task'[j] = task[j]
  BY TaskEffect
<1>3. /\ progress \in Seq(Message)
      /\ got \subseteq Seg /\ missing \subseteq Seg /\ remaining \subseteq Seg
      /\ candidates \subseteq Seg
      /\ \A k \in DOMAIN progress : progress[k].seg \in Seg
  BY MessageType DEF TypeInv, TypeOK
<1>4. /\ i \notin candidates /\ i \notin remaining
      /\ mpc \notin {"start", "prefix"}
      /\ mpc = "dispatch" => i \notin missing
      /\ provable => i \notin got
      /\ \A k \in DOMAIN progress : progress[k].kind = "completed" => progress[k].seg # i
  BY <1>2 DEF AnsweredOnce
<1>5. CASE UNCHANGED progress
  BY <1>1, <1>2, <1>3, <1>4, <1>5 DEF AnsweredOnce
<1>6. ASSUME NEW m \in Message, progress' = Append(progress, m), m.seg = i,
             m.kind = "completed" =>
               task'[i].pc = "gone" /\ task'[i].verdict = m.verdict
      PROVE  AnsweredOnce'
  <2>1. /\ DOMAIN progress' = DOMAIN progress \cup {Len(progress) + 1}
        /\ Len(progress) + 1 \notin DOMAIN progress
        /\ progress'[Len(progress) + 1] = m
        /\ \A k \in DOMAIN progress : progress'[k] = progress[k]
    BY <1>3, <1>6
  <2>2. \A k \in DOMAIN progress' : progress'[k].kind = "completed" =>
             /\ task'[progress'[k].seg].pc = "gone"
             /\ task'[progress'[k].seg].verdict = progress'[k].verdict
             /\ progress'[k].seg \notin candidates'
    BY <1>1, <1>2, <1>3, <1>4, <1>6, <2>1 DEF AnsweredOnce
  <2>3. \A j, k \in DOMAIN progress' :
          /\ progress'[j].kind = "completed" /\ progress'[k].kind = "completed"
          /\ progress'[j].seg = progress'[k].seg
          => j = k
    BY <1>4, <1>6, <2>1 DEF AnsweredOnce
  <2> QED BY <1>1, <1>2, <1>3, <1>4, <2>2, <2>3 DEF AnsweredOnce
<1> QED BY <1>5, <1>6, TaskEffect

\* A message is taken: only tasks that were never started can be spawned.
LEMMA OnceTake ==
  ASSUME TypeInv, AnsweredOnce, TakeToken \/ TakeCompleted
  PROVE  AnsweredOnce'
<1> DEFINE m == Head(progress)
<1>1. /\ progress \in Seq(Message) /\ progress # <<>> /\ 1 \in DOMAIN progress
      /\ m = progress[1] /\ progress' = Tail(progress)
  <2>1. progress \in Seq(Message)
    BY DEF TypeInv, TypeOK
  <2>2. progress # <<>> /\ progress' = Tail(progress)
    BY DEF TakeToken, TakeCompleted
  <2> QED BY <2>1, <2>2
<1>2. m \in Message /\ m.seg \in Seg
  BY <1>1, MessageType DEF TypeInv
<1>3. \A k \in DOMAIN progress' :
        /\ k + 1 \in DOMAIN progress /\ k + 1 # 1 /\ k \in Nat
        /\ progress'[k] = progress[k + 1]
  BY <1>1
<1>4. /\ got \subseteq Seg /\ missing \subseteq Seg /\ remaining \subseteq Seg
      /\ candidates \subseteq Seg
      /\ \A k \in DOMAIN progress : progress[k].seg \in Seg
  BY MessageType DEF TypeInv, TypeOK
<1>5. \/ UNCHANGED <<task, remaining>>
      \/ task' = Spawned(remaining) /\ remaining' = {}
  BY DEF TakeToken, TakeCompleted, Release
<1>6. /\ \A j \in Seg : task[j].pc = "gone" => task'[j] = task[j]
      /\ \A j \in remaining' : task'[j] = task[j]
      /\ remaining' \subseteq remaining
  BY <1>4, <1>5 DEF AnsweredOnce, Spawned
<1>7. /\ mpc' \notin {"start", "prefix", "dispatch"}
      /\ \/ got' = got /\ candidates' = candidates /\ provable' = provable
         \/ /\ m.kind = "completed"
            /\ got' = got \cup {m.seg} /\ candidates' \subseteq candidates \cup {m.seg}
            /\ provable' => provable /\ m.verdict = "first"
  BY DEF TakeToken, TakeCompleted
<1> HIDE DEF m
<1>8. m.kind = "completed" =>
        /\ task[m.seg].pc = "gone" /\ task[m.seg].verdict = m.verdict
        /\ \A k \in DOMAIN progress' : progress'[k].kind = "completed" => progress'[k].seg # m.seg
  BY <1>1, <1>3 DEF AnsweredOnce
<1>9. \A k \in DOMAIN progress' : progress'[k].kind = "completed" =>
           /\ task'[progress'[k].seg].pc = "gone"
           /\ task'[progress'[k].seg].verdict = progress'[k].verdict
           /\ progress'[k].seg \notin candidates'
  BY <1>2, <1>3, <1>4, <1>6, <1>7, <1>8 DEF AnsweredOnce
<1>10. \A j, k \in DOMAIN progress' :
          /\ progress'[j].kind = "completed" /\ progress'[k].kind = "completed"
          /\ progress'[j].seg = progress'[k].seg
          => j = k
  <2> SUFFICES ASSUME NEW j \in DOMAIN progress', NEW k \in DOMAIN progress',
                      progress'[j].kind = "completed", progress'[k].kind = "completed",
                      progress'[j].seg = progress'[k].seg
               PROVE  j = k
    OBVIOUS
  <2>1. j + 1 = k + 1 /\ j \in Nat /\ k \in Nat
    BY <1>3 DEF AnsweredOnce
  <2> QED BY <2>1
<1>11. /\ \A j \in candidates' : task'[j].pc = "gone"
       /\ \A j \in remaining' : task'[j].pc = "idle"
       /\ provable' => \A j \in got' : task'[j].pc = "gone" /\ task'[j].verdict = "first"
  BY <1>2, <1>4, <1>6, <1>7, <1>8 DEF AnsweredOnce
<1> QED
  BY <1>7, <1>9, <1>10, <1>11 DEF AnsweredOnce

LEMMA OnceStep ==
  ASSUME TypeInv, AnsweredOnce, TablesPure, [Next]_vars
  PROVE  AnsweredOnce'
<1>1. CASE mpc' \in {"failed", "start"} /\ Forgotten
  BY <1>1 DEF Forgotten, AnsweredOnce, Idle
<1>2. CASE Dispatch
  <2> DEFINE first == IF 0 \in missing THEN {0} ELSE missing
  <2>1. /\ task' = Spawned(first) /\ remaining' = missing \ first /\ mpc' = "wait"
        /\ UNCHANGED <<progress, got, candidates, provable>>
    BY <1>2 DEF Dispatch
  <2>2. /\ missing \subseteq Seg /\ first \subseteq missing /\ got \subseteq Seg
        /\ candidates \subseteq Seg /\ \A k \in DOMAIN progress : progress[k].seg \in Seg
    BY MessageType DEF TypeInv, TypeOK
  <2>3. \A i \in missing : task[i].pc = "idle"
    BY <1>2 DEF Dispatch, At, AnsweredOnce
  <2> HIDE DEF first
  <2>4. \A i \in Seg : i \notin first => task'[i] = task[i]
    BY <2>1 DEF Spawned
  <2>5. \A i \in Seg : task[i].pc = "gone" => task'[i] = task[i]
    BY <2>2, <2>3, <2>4
  <2>6. \A i \in remaining' : task'[i].pc = "idle"
    BY <2>1, <2>2, <2>3, <2>4
  <2> QED BY <2>1, <2>2, <2>5, <2>6 DEF AnsweredOnce
<1>3. CASE Lookup
  <2>1. /\ mpc = "start" /\ mpc' = "prefix"
        /\ UNCHANGED <<task, progress, remaining, candidates>>
        /\ provable' => got' = {}
    BY <1>3 DEF Lookup, At
  <2> QED BY <2>1 DEF AnsweredOnce
<1>4. CASE AfterPrefix \/ ParagraphDone
  BY <1>4 DEF AfterPrefix, ParagraphDone, At, MainOnly, AnsweredOnce, TypeInv, TypeOK
<1>5. CASE /\ UNCHANGED <<task, progress, remaining, missing, got>>
           /\ candidates' \subseteq candidates
           /\ provable' => provable
           /\ mpc' \in {"start", "prefix", "dispatch"} => mpc' = mpc
  BY <1>5 DEF AnsweredOnce
<1>6. CASE \E i \in Seg : TaskStep(i)
  BY <1>6, OnceTaskStep
<1>7. CASE ReceiverDropped \/ PrepareFails \/ TakeError \/ Crash \/ NewRun
  BY <1>1, <1>7 DEF ReceiverDropped, PrepareFails, TakeError, Crash, NewRun, Abort
<1>8. CASE TakeToken \/ TakeCompleted
  BY <1>8, OnceTake
<1>9. CASE StartReplay \/ AdmitReplay \/ CachedPrefix \/ PublishHead \/ FlushReady \/ PublishDraft
  BY <1>5, <1>9 DEF StartReplay, AdmitReplay, CachedPrefix, PublishHead, FlushReady,
                    PublishDraft, MainOnly
<1>10. CASE MeasureOwner \/ PublishOriginal \/ PublishTranslated
  BY <1>5, <1>10 DEF MeasureOwner, PublishOriginal, PublishTranslated, MainOnly
<1>11. CASE Finalize \/ StoreCandidate
  BY <1>5, <1>11 DEF Finalize, StoreCandidate
<1>12. CASE \/ RenderWhole \/ RenderPiece \/ Admit \/ StoredAll \/ RecordTask \/ SendTerminal
  BY <1>5, <1>12 DEF RenderWhole, RenderPiece, Admit, StoredAll, RecordTask, SendTerminal,
                     MainOnly
<1>13. CASE Send \/ Receive \/ CloseReceiver \/ UNCHANGED vars
  BY <1>5, <1>13 DEF Send, Receive, CloseReceiver, vars, runVars
<1> QED
  BY <1>2, <1>3, <1>4, <1>6, <1>7, <1>8, <1>9, <1>10, <1>11, <1>12, <1>13
  DEF Next, Coordinator

-----------------------------------------------------------------------------
(* The rows. *)

\* Only two actions write rows, and both write what the tables hold.
LEMMA StoreChange ==
  ASSUME [Next]_vars
  PROVE  UNCHANGED store \/ StoreCandidate \/ RecordTask
<1>1. CASE \E i \in Seg : TaskStep(i)
  BY <1>1 DEF TaskStep, StreamToken, StreamRestarted, StreamEnds, RetryEnds,
              RetryAnswers, TaskReports, TaskOnly
<1>2. CASE ReceiverDropped \/ PrepareFails \/ TakeError \/ Crash \/ NewRun
  BY <1>2 DEF ReceiverDropped, PrepareFails, TakeError, Crash, NewRun, Abort
<1>3. CASE StartReplay \/ AdmitReplay \/ Lookup \/ CachedPrefix \/ AfterPrefix \/ Dispatch
  BY <1>3 DEF StartReplay, AdmitReplay, Lookup, CachedPrefix, AfterPrefix, Dispatch, MainOnly
<1>4. CASE TakeToken \/ TakeCompleted \/ PublishHead \/ FlushReady \/ PublishDraft
  BY <1>4 DEF TakeToken, TakeCompleted, PublishHead, FlushReady, PublishDraft, MainOnly
<1>5. CASE MeasureOwner \/ PublishOriginal \/ PublishTranslated \/ ParagraphDone
  BY <1>5 DEF MeasureOwner, PublishOriginal, PublishTranslated, ParagraphDone, MainOnly
<1>6. CASE Finalize \/ RenderWhole \/ RenderPiece \/ Admit \/ StoredAll \/ SendTerminal
  BY <1>6 DEF Finalize, RenderWhole, RenderPiece, Admit, StoredAll, SendTerminal, MainOnly
<1>7. CASE Send \/ Receive \/ CloseReceiver \/ UNCHANGED vars
  BY <1>7 DEF Send, Receive, CloseReceiver, vars
<1> QED
  BY <1>1, <1>2, <1>3, <1>4, <1>5, <1>6, <1>7 DEF Next, Coordinator

LEMMA RowsStep ==
  ASSUME TypeInv, TablesPure, StoreSound, [Next]_vars
  PROVE  StoreSound'
<1>1. CASE UNCHANGED store
  BY <1>1 DEF store, StoreSound
<1>2. CASE StoreCandidate
  <2>1. PICK i \in candidates : cache' = [cache EXCEPT ![i] = text[i]] \/ cache' = cache
    BY <1>2 DEF StoreCandidate
  <2>2. OneAttempt(text[i]) /\ i \in Seg /\ proof' = proof
    BY <1>2 DEF StoreCandidate, TablesPure, TypeInv, TypeOK
  <2> QED BY <2>1, <2>2 DEF StoreSound, TypeInv, TypeOK
<1>3. CASE RecordTask
  <2>1. cache' = cache /\ (proof' = proof \/ (provable /\ proof' = text))
    BY <1>3 DEF RecordTask
  <2>2. provable => \A i \in Seg : OneAttempt(text[i])
    BY <1>3 DEF RecordTask, At, TablesPure
  <2> QED BY <2>1, <2>2 DEF StoreSound
<1> QED BY <1>1, <1>2, <1>3, StoreChange

LEMMA StoreInit == Init => StoreInv
<1> SUFFICES ASSUME Init PROVE StoreInv
  OBVIOUS
<1>1. TasksPure /\ ChannelPure /\ AnsweredOnce
  BY DEF Init, TasksPure, DraftPure, Idle, ChannelPure, AnsweredOnce
<1>2. TablesPure
  BY DEF Init, TablesPure
<1>3. StoreSound
  <2>1. OneAttempt(<<1>>)
    <3>1. <<1>> \in Texts /\ \A k \in DOMAIN <<1>> : <<1>>[k] = 1
      BY DEF Texts
    <3> QED BY <3>1, OneAttemptIntro
  <2> QED BY <2>1 DEF Init, StoreSound
<1> QED BY <1>1, <1>2, <1>3 DEF StoreInv

\* The rows never hold the retained source or the units of two attempts,
\* whatever fails, restarts or is dropped, in any mode and any number of runs.
THEOREM StoredTextSound == Spec => []StoreSound
<1>1. Init => TypeInv /\ StoreInv
  BY TypeInit, StoreInit
<1>2. TypeInv /\ StoreInv /\ [Next]_vars => (TypeInv /\ StoreInv)'
  BY TypeStep, TasksStep, ChannelStep, OnceStep, TablesStep, RowsStep DEF StoreInv
<1>3. StoreInv => StoreSound
  BY DEF StoreInv
<1> QED
  BY <1>1, <1>2, <1>3, PTL DEF Spec

\* A replay proof is only ever written by a run in which the initial request of
\* every segment was its answer: no cache hit, no retry, no retained source.
THEOREM ProofsFirstHand == Spec => ProofIsFirstHand
<1>1. Init => TypeInv /\ StoreInv
  BY TypeInit, StoreInit
<1>2. TypeInv /\ StoreInv /\ [Next]_vars => (TypeInv /\ StoreInv)'
  BY TypeStep, TasksStep, ChannelStep, OnceStep, TablesStep, RowsStep DEF StoreInv
<1>3. TypeInv /\ StoreInv /\ [Next]_vars
        => [proof' # proof => \A i \in Seg : task[i].verdict = "first"]_vars
  <2> SUFFICES ASSUME StoreInv, [Next]_vars, proof' # proof
               PROVE  \A i \in Seg : task[i].verdict = "first"
    OBVIOUS
  <2>1. RecordTask
    BY StoreChange DEF store, StoreCandidate
  <2> QED BY <2>1 DEF RecordTask, At, StoreInv, TablesPure, AnsweredOnce
<1> QED
  BY <1>1, <1>2, <1>3, PTL DEF Spec, ProofIsFirstHand

-----------------------------------------------------------------------------
(* The text of a sequence of events, which FlattenSeq computes recursively.  *)

\* Every set of numbers has a least one.
LEMMA LeastNumber ==
  ASSUME NEW T \in SUBSET Nat, T # {}
  PROVE  \E x \in T : \A y \in T : x <= y
<1>1. IsWellFoundedOn(OpToRel(<, Nat), Nat)
  BY NatLessThanWellFounded
<1>2. PICK x \in T : \A y \in T : ~(<<y, x>> \in OpToRel(<, Nat))
  BY <1>1, WFMin
<1>3. ASSUME NEW y \in T PROVE x <= y
  <2>1. ~(y < x) /\ x \in Nat /\ y \in Nat
    BY <1>2 DEF OpToRel
  <2> QED BY <2>1
<1> QED BY <1>3

\* The first n steps of flattening s.
Flattens(s, n, f) == f = [k \in 1 .. n |-> IF k = 1 THEN s[k] ELSE f[k-1] \o s[k]]

LEMMA FlattensAt ==
  ASSUME NEW s, NEW n \in Nat, NEW f, Flattens(s, n, f), NEW k \in 1 .. n
  PROVE  f[k] = IF k = 1 THEN s[k] ELSE f[k-1] \o s[k]
  BY DEF Flattens

LEMMA FlattensUnique ==
  ASSUME NEW s, NEW n \in Nat, NEW m \in Nat, NEW f, NEW g,
         Flattens(s, n, f), Flattens(s, m, g)
  PROVE  \A k \in 1 .. n : k \in 1 .. m => f[k] = g[k]
<1> DEFINE T == {k \in 1 .. n : k \in 1 .. m /\ f[k] # g[k]}
<1> SUFFICES ASSUME T # {} PROVE FALSE
  OBVIOUS
<1>1. PICK x \in T : \A y \in T : x <= y
  <2>1. T \in SUBSET Nat
    OBVIOUS
  <2> HIDE DEF T
  <2> QED BY <2>1, LeastNumber
<1>2. x \in 1 .. n /\ x \in 1 .. m /\ f[x] # g[x]
  OBVIOUS
<1>3. /\ f[x] = IF x = 1 THEN s[x] ELSE f[x-1] \o s[x]
      /\ g[x] = IF x = 1 THEN s[x] ELSE g[x-1] \o s[x]
  BY <1>2 DEF Flattens
<1>4. x # 1 => x - 1 \in 1 .. n /\ x - 1 \in 1 .. m /\ x - 1 \notin T
  BY <1>1, <1>2
<1> QED BY <1>2, <1>3, <1>4

LEMMA FlattensExists ==
  ASSUME NEW s
  PROVE  \A n \in Nat : \E f : Flattens(s, n, f)
<1> DEFINE T == {n \in Nat : ~ \E f : Flattens(s, n, f)}
<1> SUFFICES ASSUME T # {} PROVE FALSE
  OBVIOUS
<1>1. PICK n \in T : \A y \in T : n <= y
  <2>1. T \in SUBSET Nat
    OBVIOUS
  <2> HIDE DEF T
  <2> QED BY <2>1, LeastNumber
<1>2. n \in Nat /\ ~ \E f : Flattens(s, n, f)
  OBVIOUS
<1>3. n # 0
  <2> DEFINE e == [k \in 1 .. 0 |-> s[k]]
  <2>1. e = [k \in 1 .. 0 |-> IF k = 1 THEN s[k] ELSE e[k-1] \o s[k]]
    OBVIOUS
  <2>2. Flattens(s, 0, e)
    BY <2>1 DEF Flattens
  <2> QED BY <1>2, <2>2
<1>4. PICK f : Flattens(s, n - 1, f)
  <2>1. n - 1 \in Nat /\ n - 1 \notin T
    BY <1>1, <1>2, <1>3
  <2> QED BY <2>1
<1> DEFINE last == IF n = 1 THEN s[n] ELSE f[n-1] \o s[n]
           g == [k \in 1 .. n |-> IF k = n THEN last ELSE f[k]]
<1>5. ASSUME NEW k \in 1 .. n
      PROVE  g[k] = IF k = 1 THEN s[k] ELSE g[k-1] \o s[k]
  <2>1. CASE k = n
    <3>1. k # 1 => k - 1 \in 1 .. n /\ k - 1 # n
      BY <1>2, <2>1
    <3> QED BY <2>1, <3>1
  <2>2. CASE k # n
    <3>1. k \in 1 .. n - 1 /\ (k # 1 => k - 1 \in 1 .. n /\ k - 1 # n)
      BY <1>2, <2>2
    <3>2. f[k] = IF k = 1 THEN s[k] ELSE f[k-1] \o s[k]
      BY <1>4, <3>1 DEF Flattens
    <3> QED BY <2>2, <3>1, <3>2
  <2> QED BY <2>1, <2>2
<1>6. g = [k \in 1 .. n |-> g[k]]
  OBVIOUS
<1> HIDE DEF g
<1>7. Flattens(s, n, g)
  BY <1>5, <1>6 DEF Flattens
<1> QED BY <1>2, <1>7

\* FlattenSeq is the last of those steps.
LEMMA FlattensToLast ==
  ASSUME NEW S, NEW s \in Seq(S), s # <<>>, NEW m \in Nat, m >= Len(s), NEW f,
         Flattens(s, m, f)
  PROVE  FlattenSeq(s) = f[Len(s)]
<1> DEFINE g == CHOOSE h : Flattens(s, Len(s), h)
<1>1. Len(s) \in Nat \ {0}
  OBVIOUS
<1>2. FlattenSeq(s) = g[Len(s)]
  BY <1>1 DEF FlattenSeq, Flattens
<1>3. Flattens(s, Len(s), g)
  <2>1. \E h : Flattens(s, Len(s), h)
    BY <1>1, FlattensExists
  <2> QED BY <2>1
<1> HIDE DEF g
<1>4. Len(s) \in 1 .. Len(s) /\ Len(s) \in 1 .. m
  BY <1>1
<1> QED BY <1>1, <1>2, <1>3, <1>4, FlattensUnique

LEMMA FlattenEmpty == FlattenSeq(<<>>) = <<>>
  BY DEF FlattenSeq

LEMMA FlattenOne ==
  ASSUME NEW S, NEW t \in S
  PROVE  FlattenSeq(<<t>>) = t
<1>1. <<t>> \in Seq(S) /\ <<t>> # <<>> /\ Len(<<t>>) = 1
  OBVIOUS
<1>2. PICK f : Flattens(<<t>>, 1, f)
  BY FlattensExists
<1>3. 1 \in Nat /\ 1 >= Len(<<t>>) /\ 1 \in 1 .. 1 /\ <<t>>[1] = t
  OBVIOUS
<1> DEFINE u == <<t>>
<1>4. u \in Seq(S) /\ u # <<>> /\ Len(u) = 1 /\ 1 >= Len(u) /\ u[1] = t
  BY <1>1, <1>3
<1>5. Flattens(u, 1, f)
  BY <1>2
<1> HIDE DEF u
<1>6. FlattenSeq(u) = f[1]
  BY <1>3, <1>4, <1>5, FlattensToLast
<1>7. f[1] = u[1]
  BY <1>3, <1>5, FlattensAt
<1> QED BY <1>4, <1>6, <1>7 DEF u

\* One more text is flattened after the others.
LEMMA FlattenAppend ==
  ASSUME NEW S, NEW s \in Seq(S), s # <<>>, NEW t \in S
  PROVE  FlattenSeq(Append(s, t)) = FlattenSeq(s) \o t
<1> DEFINE u == Append(s, t)
           n == Len(s)
<1>1. /\ n \in Nat \ {0} /\ u \in Seq(S) /\ u # <<>> /\ Len(u) = n + 1
      /\ u[n + 1] = t /\ \A k \in 1 .. n : u[k] = s[k]
  OBVIOUS
<1> HIDE DEF u, n
<1>2. PICK f : Flattens(u, n + 1, f)
  BY <1>1, FlattensExists
<1>3. FlattenSeq(u) = f[n + 1]
  BY <1>1, <1>2, FlattensToLast
<1>4. f[n + 1] = f[n] \o t
  <2>1. n + 1 \in Nat /\ n + 1 \in 1 .. n + 1 /\ n + 1 # 1 /\ (n + 1) - 1 = n
    BY <1>1
  <2> DEFINE m == n + 1
  <2>2. m \in Nat /\ m \in 1 .. m /\ Flattens(u, m, f)
    BY <1>2, <2>1
  <2> HIDE DEF m
  <2>3. f[m] = IF m = 1 THEN u[m] ELSE f[m - 1] \o u[m]
    BY <2>2, FlattensAt
  <2> QED BY <1>1, <2>1, <2>3 DEF m
<1>5. PICK g : Flattens(s, n, g)
  BY <1>1, FlattensExists
<1>6. FlattenSeq(s) = g[n]
  BY <1>1, <1>5, FlattensToLast DEF n
<1>7. g[n] = f[n]
  <2> DEFINE h == [k \in 1 .. n |-> f[k]]
  <2>1. ASSUME NEW k \in 1 .. n
        PROVE  h[k] = IF k = 1 THEN s[k] ELSE h[k-1] \o s[k]
    <3>1. f[k] = IF k = 1 THEN u[k] ELSE f[k-1] \o u[k]
      <4>1. n + 1 \in Nat /\ k \in 1 .. n + 1
        BY <1>1
      <4> QED BY <1>2, <4>1, FlattensAt
    <3>2. k # 1 => k - 1 \in 1 .. n
      BY <1>1
    <3> QED BY <1>1, <3>1, <3>2
  <2>2. h = [k \in 1 .. n |-> h[k]]
    OBVIOUS
  <2> HIDE DEF h
  <2>3. Flattens(s, n, h)
    BY <2>1, <2>2 DEF Flattens
  <2>4. n \in 1 .. n
    BY <1>1
  <2>5. g[n] = h[n]
    BY <1>1, <1>5, <2>3, <2>4, FlattensUnique
  <2> QED BY <2>4, <2>5 DEF h
<1> QED BY <1>3, <1>4, <1>6, <1>7 DEF u

-----------------------------------------------------------------------------
(* What a send does to the events sent. *)

TextOf(e, i) == IF e.kind = "token" THEN e.text[i] ELSE <<>>

LEMMA ShownEmpty ==
  ASSUME NEW i, sent = <<>>
  PROVE  Shown(i) = <<>>
<1>1. [p \in DOMAIN sent |-> IF sent[p].kind = "token" THEN sent[p].text[i] ELSE <<>>] = <<>>
  OBVIOUS
<1> QED BY <1>1, FlattenEmpty DEF Shown

LEMMA TextOfType ==
  ASSUME NEW e \in Event, NEW i \in Seg
  PROVE  TextOf(e, i) \in Texts
  BY DEF TextOf, Event, Texts

LEMMA ShownSend ==
  ASSUME NEW i \in Seg, sent \in Seq(Event), NEW e \in Event, sent' = Append(sent, e),
         Shown(i) \in Texts
  PROVE  Shown(i)' = Shown(i) \o TextOf(e, i) /\ Shown(i)' \in Texts
<1> DEFINE s == [p \in DOMAIN sent |-> TextOf(sent[p], i)]
           u == [p \in DOMAIN sent' |-> TextOf(sent'[p], i)]
           t == TextOf(e, i)
<1>1. Shown(i) = FlattenSeq(s) /\ Shown(i)' = FlattenSeq(u)
  BY DEF Shown, TextOf
<1>2. \A p \in DOMAIN sent : TextOf(sent[p], i) \in Texts
  BY TextOfType
<1>3. s \in Seq(Texts) /\ t \in Texts /\ Len(s) = Len(sent)
  BY <1>2, TextOfType
<1>4. u = Append(s, t)
  <2>1. DOMAIN sent' = 1 .. Len(sent) + 1 /\ DOMAIN sent = 1 .. Len(sent) /\ Len(sent) \in Nat
    OBVIOUS
  <2>2. \A p \in 1 .. Len(sent) + 1 : sent'[p] = IF p = Len(sent) + 1 THEN e ELSE sent[p]
    OBVIOUS
  <2>3. Append(s, t) \in Seq(Texts) /\ Len(Append(s, t)) = Len(sent) + 1
    BY <1>3
  <2>4. \A p \in 1 .. Len(sent) + 1 : Append(s, t)[p] = IF p = Len(sent) + 1 THEN t ELSE s[p]
    BY <1>3
  <2>5. \A p \in 1 .. Len(sent) + 1 : u[p] = Append(s, t)[p]
    BY <2>1, <2>2, <2>4
  <2>6. DOMAIN Append(s, t) = 1 .. Len(sent) + 1 /\ DOMAIN u = 1 .. Len(sent) + 1
    BY <2>1, <2>3
  <2> QED BY <2>3, <2>5, <2>6
<1>5. CASE s = <<>>
  <2>1. Append(s, t) = <<t>>
    BY <1>3, <1>5
  <2>2. FlattenSeq(s) = <<>> /\ FlattenSeq(<<t>>) = t
    BY <1>3, <1>5, FlattenEmpty, FlattenOne
  <2>3. <<>> \o t = t
    BY <1>3 DEF Texts
  <2> QED BY <1>1, <1>3, <1>4, <2>1, <2>2, <2>3
<1>6. CASE s # <<>>
  <2> HIDE DEF s, t, u
  <2>1. FlattenSeq(Append(s, t)) = FlattenSeq(s) \o t
    BY <1>3, <1>6, FlattenAppend
  <2>2. FlattenSeq(s) \o t \in Texts
    BY <1>1, <1>3 DEF Texts
  <2>3. t = TextOf(e, i)
    BY DEF t
  <2> QED BY <1>1, <1>4, <2>1, <2>2, <2>3
<1> QED BY <1>5, <1>6

-----------------------------------------------------------------------------
(* The events sent so far, and those the coordinator is about to send.       *)

\* A token goes before the marks of its segments.
TokenFirst == outbox # <<>> /\ outbox[1].kind = "token"
Lead == IF TokenFirst THEN 1 ELSE 0

\* Marks that were sent, and marks that were sent or are due.
Marked == Cardinality(Marks)
Cursor == Marked + Len(outbox) - Lead

\* What will have been shown of segment i when the outbox is empty.
Due(i) == IF TokenFirst THEN Shown(i) \o outbox[1].text[i] ELSE Shown(i)

\* The marks that were sent are those of the first segments, and a segment of
\* which text was sent is not blank.
SentInv ==
    /\ OrderedOutput
    /\ \A i \in Seg : MarkAt(i) # {} <=> i < Marked
    /\ \A i \in Seg : TextAt(i) # {} => Shown(i) # <<>>
    /\ \A i \in Seg : Shown(i) \in Texts

\* The outbox goes on where the events sent stop.
QueueInv ==
    /\ \A p \in DOMAIN outbox : p > Lead => outbox[p] = Done(Marked + p - 1 - Lead)
    /\ TokenFirst => \A j \in Seg : outbox[1].text[j] # <<>> =>
          Marked <= j /\ \A i \in Seg : TextAt(i) # {} => i <= j
    /\ Cursor <= N

LEMMA MarksFinite ==
  ASSUME sent \in Seq(Event)
  PROVE  IsFiniteSet(Marks) /\ Marked \in Nat /\ Marks \subseteq 1 .. Len(sent)
<1>1. Len(sent) \in Nat /\ Marks \subseteq 1 .. Len(sent)
  BY DEF Marks
<1>2. IsFiniteSet(1 .. Len(sent))
  BY <1>1, FS_Interval
<1>3. IsFiniteSet(Marks)
  BY <1>1, <1>2, FS_Subset
<1> QED BY <1>1, <1>3, FS_CardinalityType DEF Marked

\* Marks of different segments are different events.
LEMMA DoneInjective ==
  ASSUME NEW i, NEW j, Done(i) = Done(j)
  PROVE  i = j
<1>1. Done(i).segs = {i} /\ Done(j).segs = {j}
  BY DEF Done
<1> QED BY <1>1

LEMMA DoneKind == \A i : Done(i).kind = "done"
  BY DEF Done

\* An event that is not a mark leaves the marks as they were.
LEMMA SendOther ==
  ASSUME sent \in Seq(Event), NEW e \in Event, e.kind # "done", sent' = Append(sent, e)
  PROVE  /\ Marks' = Marks /\ Marked' = Marked
         /\ \A i \in Seg : MarkAt(i)' = MarkAt(i)
<1>1. /\ DOMAIN sent' = DOMAIN sent \cup {Len(sent) + 1}
      /\ sent'[Len(sent) + 1] = e
      /\ \A p \in DOMAIN sent : sent'[p] = sent[p]
  OBVIOUS
<1>2. Marks' = Marks
  BY <1>1 DEF Marks
<1>3. \A i \in Seg : e # Done(i)
  BY DoneKind
<1>4. ASSUME NEW i \in Seg PROVE MarkAt(i)' = MarkAt(i)
  BY <1>1, <1>3 DEF MarkAt
<1> QED BY <1>2, <1>4 DEF Marked

LEMMA SendMark ==
  ASSUME sent \in Seq(Event), NEW c \in Seg, sent' = Append(sent, Done(c))
  PROVE  /\ Marks' = Marks \cup {Len(sent) + 1} /\ Marked' = Marked + 1
         /\ MarkAt(c)' = MarkAt(c) \cup {Len(sent) + 1}
         /\ \A i \in Seg : i # c => MarkAt(i)' = MarkAt(i)
<1>1. /\ DOMAIN sent' = DOMAIN sent \cup {Len(sent) + 1}
      /\ sent'[Len(sent) + 1] = Done(c)
      /\ \A p \in DOMAIN sent : sent'[p] = sent[p]
      /\ Len(sent) + 1 \notin DOMAIN sent
  BY DoneType
<1>2. Marks' = Marks \cup {Len(sent) + 1}
  BY <1>1, DoneKind DEF Marks
<1>3. Marked' = Marked + 1
  <2>1. Len(sent) + 1 \notin Marks
    BY <1>1 DEF Marks
  <2> QED BY <1>2, <2>1, MarksFinite, FS_AddElement DEF Marked
<1>4. MarkAt(c)' = MarkAt(c) \cup {Len(sent) + 1}
  BY <1>1 DEF MarkAt
<1>5. ASSUME NEW i \in Seg, i # c PROVE MarkAt(i)' = MarkAt(i)
  <2>1. Done(c) # Done(i)
    BY <1>5, DoneInjective
  <2> QED BY <1>1, <2>1 DEF MarkAt
<1> QED BY <1>2, <1>3, <1>4, <1>5

\* The text that was sent of a segment, after one more event.
LEMMA SendText ==
  ASSUME sent \in Seq(Event), NEW e \in Event, sent' = Append(sent, e), NEW i \in Seg
  PROVE  TextAt(i)' = IF TextOf(e, i) = <<>> THEN TextAt(i)
                      ELSE TextAt(i) \cup {Len(sent) + 1}
<1>1. /\ DOMAIN sent' = DOMAIN sent \cup {Len(sent) + 1}
      /\ sent'[Len(sent) + 1] = e
      /\ \A p \in DOMAIN sent : sent'[p] = sent[p]
  OBVIOUS
<1> QED BY <1>1 DEF TextAt, TextOf

\* Marks keep their order when one more event is sent.
LEMMA MarksOrdered ==
  ASSUME sent \in Seq(Event), NEW e \in Event, sent' = Append(sent, e),
         \A p \in Marks : sent[p] = Done(Cardinality({q \in Marks : q < p})),
         e.kind = "done" => e = Done(Marked) /\ Marked \in Seg
  PROVE  (\A p \in Marks : sent[p] = Done(Cardinality({q \in Marks : q < p})))'
<1>1. /\ Len(sent) \in Nat
      /\ sent'[Len(sent) + 1] = e
      /\ \A p \in DOMAIN sent : sent'[p] = sent[p] /\ p \in Nat /\ p < Len(sent) + 1
      /\ Marks \subseteq DOMAIN sent
  BY DEF Marks
<1>2. CASE e.kind # "done"
  <2>1. Marks' = Marks
    BY <1>2, SendOther
  <2> QED BY <1>1, <2>1
<1>3. CASE e.kind = "done"
  <2>1. Marks' = Marks \cup {Len(sent) + 1}
    BY <1>3, SendMark
  <2>2. {q \in Marks' : q < Len(sent) + 1} = Marks
    BY <1>1, <2>1
  <2>3. \A p \in Marks : {q \in Marks' : q < p} = {q \in Marks : q < p}
    BY <1>1, <2>1
  <2> QED BY <1>1, <1>3, <2>1, <2>2, <2>3 DEF Marked
<1> QED BY <1>2, <1>3

\* An event that goes on where the events sent stop keeps their order.
LEMMA SentInvSend ==
  ASSUME sent \in Seq(Event), SentInv, NEW e \in Event, sent' = Append(sent, e),
         e.kind = "done" => e = Done(Marked) /\ Marked \in Seg,
         \A j \in Seg : TextOf(e, j) # <<>> =>
            Marked <= j /\ \A i \in Seg : TextAt(i) # {} => i <= j
  PROVE  SentInv'
<1> DEFINE n == Len(sent) + 1
<1>1. /\ \A i \in Seg : TextAt(i)' = IF TextOf(e, i) = <<>> THEN TextAt(i)
                                     ELSE TextAt(i) \cup {n}
      /\ DOMAIN sent' = DOMAIN sent \cup {n}
      /\ \A p \in DOMAIN sent : p \in Nat /\ p < n /\ n \in Nat
  BY SendText
<1>2. Marked \in Nat
  BY MarksFinite
<1>3. \A i \in Seg : MarkAt(i)' \subseteq MarkAt(i) \cup {n}
  BY SendOther, SendMark
<1>4. e.kind = "done" => \A j \in Seg : TextOf(e, j) = <<>>
  BY DEF TextOf
<1>5. \A i \in Seg : MarkAt(i)' # {} <=> i < Marked'
  <2>1. CASE e.kind # "done"
    BY <2>1, SendOther DEF SentInv
  <2>2. CASE e.kind = "done"
    <3>1. PICK c \in Seg : c = Marked
      BY <2>2
    <3>2. /\ Marked' = c + 1 /\ MarkAt(c)' # {}
          /\ \A i \in Seg : i # c => MarkAt(i)' = MarkAt(i)
      BY <2>2, <3>1, SendMark
    <3>3. \A i \in Seg : i \in Nat /\ c \in Nat
      BY SegType
    <3>4. \A i \in Seg : i # c => (MarkAt(i)' # {} <=> i < c)
      BY <3>1, <3>2 DEF SentInv
    <3> QED BY <3>2, <3>3, <3>4
  <2> QED BY <2>1, <2>2
<1>6. \A i \in Seg : Shown(i)' \in Texts /\ (TextAt(i)' # {} => Shown(i)' # <<>>)
  <2> SUFFICES ASSUME NEW i \in Seg
               PROVE  Shown(i)' \in Texts /\ (TextAt(i)' # {} => Shown(i)' # <<>>)
    OBVIOUS
  <2>1. Shown(i)' = Shown(i) \o TextOf(e, i) /\ Shown(i)' \in Texts
    BY ShownSend DEF SentInv
  <2>2. Shown(i) \in Seq(Nat) /\ TextOf(e, i) \in Seq(Nat)
    BY TextOfType DEF SentInv, Texts
  <2>3. Shown(i) # <<>> \/ TextOf(e, i) # <<>> => Shown(i) \o TextOf(e, i) # <<>>
    BY <2>2
  <2> QED BY <1>1, <2>1, <2>3 DEF SentInv
<1>7. (\A p \in Marks : sent[p] = Done(Cardinality({q \in Marks : q < p})))'
  BY MarksOrdered DEF SentInv, OrderedOutput
<1>8. ASSUME NEW p \in DOMAIN sent', NEW q \in DOMAIN sent', p < q,
             NEW i \in Seg, NEW j \in Seg
      PROVE  /\ p \in TextAt(i)' /\ q \in TextAt(j)' => i <= j
             /\ p \in MarkAt(i)' => q \notin TextAt(i)'
  <2>1. p \in DOMAIN sent /\ p # n
    BY <1>1, <1>8
  <2>2. /\ p \in TextAt(i)' => p \in TextAt(i)
        /\ p \in MarkAt(i)' => p \in MarkAt(i)
    BY <1>1, <1>3, <2>1
  <2>3. CASE q \in DOMAIN sent
    <3>1. q # n
      BY <1>1, <2>3
    <3>2. \A k \in Seg : q \in TextAt(k)' => q \in TextAt(k)
      BY <1>1, <3>1
    <3> QED BY <1>8, <2>1, <2>2, <2>3, <3>2 DEF SentInv, OrderedOutput
  <2>4. CASE q = n
    <3>1. \A k \in Seg : n \notin TextAt(k)
      BY <1>1 DEF TextAt
    <3>2. \A k \in Seg : q \in TextAt(k)' => TextOf(e, k) # <<>>
      BY <1>1, <2>4, <3>1
    <3>3. p \in TextAt(i) /\ q \in TextAt(j)' => i <= j
      BY <3>2
    <3>4. p \in MarkAt(i) => i < Marked
      BY DEF SentInv
    <3>5. q \in TextAt(i)' => Marked <= i
      BY <3>2
    <3>6. i \in Nat
      BY SegType
    <3> QED BY <1>2, <2>2, <3>3, <3>4, <3>5, <3>6
  <2> QED BY <1>1, <2>3, <2>4
<1>9. OrderedOutput'
  BY <1>7, <1>8 DEF OrderedOutput
<1> QED BY <1>5, <1>6, <1>9 DEF SentInv

LEMMA SentInvSame ==
  ASSUME SentInv, sent' = sent
  PROVE  SentInv' /\ Marked' = Marked /\ Marks' = Marks
         /\ \A i \in Seg : Shown(i)' = Shown(i) /\ TextAt(i)' = TextAt(i) /\ MarkAt(i)' = MarkAt(i)
<1>1. /\ Marks' = Marks
      /\ \A i \in Seg : Shown(i)' = Shown(i) /\ TextAt(i)' = TextAt(i) /\ MarkAt(i)' = MarkAt(i)
  BY DEF Marks, Shown, TextAt, MarkAt
<1> QED BY <1>1 DEF SentInv, OrderedOutput, Marked

-----------------------------------------------------------------------------
EventsInv == SentInv /\ QueueInv

LEMMA LeadType == Lead \in {0, 1} /\ (Lead = 1 <=> TokenFirst)
  BY DEF Lead

LEMMA CursorType ==
  ASSUME TypeOK, QueueInv
  PROVE  /\ Marked \in Nat /\ Cursor \in Nat /\ Marked <= Cursor /\ Cursor <= N
         /\ outbox = <<>> => Cursor = Marked /\ ~TokenFirst
<1>1. Marked \in Nat /\ Len(outbox) \in Nat
  BY MarksFinite DEF TypeOK
<1>2. Lead <= Len(outbox)
  <2>1. outbox # <<>> => Len(outbox) > 0
    BY DEF TypeOK
  <2> QED BY <1>1, <2>1 DEF Lead, TokenFirst
<1>3. outbox = <<>> => Len(outbox) = 0 /\ Lead = 0 /\ ~TokenFirst
  BY DEF Lead, TokenFirst
<1> QED BY <1>1, <1>2, <1>3, LeadType DEF Cursor, QueueInv

LEMMA DueType ==
  ASSUME TypeOK, SentInv, NEW i \in Seg
  PROVE  /\ Due(i) \in Texts
         /\ ~TokenFirst => Due(i) = Shown(i)
         /\ outbox = <<>> => Due(i) = Shown(i)
<1>1. TokenFirst => outbox[1] \in Event /\ outbox[1].text[i] \in Texts
  <2>1. outbox # <<>> => outbox[1] \in Event
    BY DEF TypeOK
  <2> QED BY <2>1 DEF TokenFirst, Event
<1>2. Shown(i) \in Texts
  BY DEF SentInv
<1> QED BY <1>1, <1>2 DEF Due, Texts, TokenFirst

LEMMA KeepEvents ==
  ASSUME EventsInv, sent' = sent, outbox' = outbox
  PROVE  /\ EventsInv' /\ Cursor' = Cursor /\ Marked' = Marked
         /\ \A i \in Seg : Due(i)' = Due(i)
<1>1. SentInv' /\ Marked' = Marked
      /\ \A i \in Seg : Shown(i)' = Shown(i) /\ TextAt(i)' = TextAt(i) /\ MarkAt(i)' = MarkAt(i)
  BY SentInvSame DEF EventsInv
<1>2. Lead' = Lead /\ TokenFirst' = TokenFirst
  BY DEF Lead, TokenFirst
<1>3. Cursor' = Cursor
  BY <1>1, <1>2 DEF Cursor
<1>4. QueueInv'
  BY <1>1, <1>2, <1>3 DEF QueueInv, EventsInv
<1>5. \A i \in Seg : Due(i)' = Due(i)
  BY <1>1, <1>2 DEF Due
<1> QED BY <1>1, <1>3, <1>4, <1>5 DEF EventsInv

\* An aborted invocation sends nothing more.
LEMMA DropEvents ==
  ASSUME TypeOK, EventsInv, sent' = sent, outbox' = <<>>
  PROVE  /\ EventsInv' /\ Marked' = Marked
         /\ \A i \in Seg : Due(i)' = Shown(i)
<1>1. SentInv' /\ Marked' = Marked /\ \A i \in Seg : Shown(i)' = Shown(i)
  BY SentInvSame DEF EventsInv
<1>2. ~TokenFirst' /\ Lead' = 0 /\ Len(outbox') = 0
  BY DEF TokenFirst, Lead
<1>3. Cursor' = Marked /\ Cursor' <= N
  BY <1>1, <1>2, CursorType, NAssumption DEF Cursor, EventsInv
<1>4. QueueInv'
  BY <1>2, <1>3 DEF QueueInv
<1>5. \A i \in Seg : Due(i)' = Shown(i)
  BY <1>1, <1>2 DEF Due
<1> QED BY <1>1, <1>4, <1>5 DEF EventsInv

\* A new invocation starts with nothing sent.
LEMMA NoEvents ==
  ASSUME sent = <<>>, outbox = <<>>
  PROVE  /\ EventsInv /\ Cursor = 0 /\ Marked = 0
         /\ \A i \in Seg : Due(i) = <<>> /\ Shown(i) = <<>>
<1>1. Marks = {} /\ \A i \in Seg : TextAt(i) = {} /\ MarkAt(i) = {}
  BY DEF Marks, TextAt, MarkAt
<1>2. Marked = 0
  BY <1>1, FS_EmptySet DEF Marked
<1>3. \A i \in Seg : Shown(i) = <<>> /\ <<>> \in Texts
  BY ShownEmpty DEF Texts
<1>4. SentInv
  <2>1. \A i \in Seg : ~(i < 0)
    BY SegType
  <2> QED BY <1>1, <1>2, <1>3, <2>1 DEF SentInv, OrderedOutput
<1>5. ~TokenFirst /\ Lead = 0 /\ Cursor = 0
  BY <1>2 DEF TokenFirst, Lead, Cursor
<1>6. QueueInv
  BY <1>5, NAssumption DEF QueueInv
<1>7. \A i \in Seg : Due(i) = <<>>
  BY <1>3, <1>5 DEF Due
<1> QED BY <1>2, <1>3, <1>4, <1>5, <1>6, <1>7 DEF EventsInv

\* The outbox is loaded with a token, or none, and the marks that come next.
LEMMA LoadEvents ==
  ASSUME TypeOK, EventsInv, outbox = <<>>, sent' = sent, outbox' \in Seq(Event),
         NEW b \in {0, 1}, NEW m \in Nat, Len(outbox') = b + m,
         b = 1 => outbox'[1].kind = "token",
         \A p \in b + 1 .. b + m : outbox'[p] = Done(Cursor + p - 1 - b),
         Cursor + m <= N,
         b = 1 => \A j \in Seg : outbox'[1].text[j] # <<>> =>
                    Cursor <= j /\ \A i \in Seg : TextAt(i) # {} => i <= j
  PROVE  /\ EventsInv' /\ Cursor' = Cursor + m /\ Marked' = Marked
         /\ \A i \in Seg : Due(i)' = IF b = 1 THEN Due(i) \o outbox'[1].text[i] ELSE Due(i)
<1>1. SentInv' /\ Marked' = Marked
      /\ \A i \in Seg : Shown(i)' = Shown(i) /\ TextAt(i)' = TextAt(i)
  BY SentInvSame DEF EventsInv
<1>2. Marked \in Nat /\ Cursor = Marked /\ ~TokenFirst
  BY CursorType DEF EventsInv
<1>3. TokenFirst' <=> b = 1
  <2>1. CASE b = 1
    <3>1. outbox' # <<>>
      BY <2>1
    <3> QED BY <2>1, <3>1 DEF TokenFirst
  <2>2. CASE b = 0
    <3>1. CASE m = 0
      <4>1. outbox' = <<>>
        BY <2>2, <3>1
      <4> QED BY <2>2, <4>1 DEF TokenFirst
    <3>2. CASE m # 0
      <4>1. 1 \in b + 1 .. b + m
        BY <2>2, <3>2
      <4>2. outbox'[1].kind = "done"
        BY <4>1, DoneKind
      <4> QED BY <2>2, <4>2 DEF TokenFirst
    <3> QED BY <3>1, <3>2
  <2> QED BY <2>1, <2>2
<1>4. Lead' = b
  BY <1>3 DEF Lead
<1>5. Cursor' = Cursor + m
  BY <1>1, <1>2, <1>4 DEF Cursor
<1>6. QueueInv'
  <2>1. ASSUME NEW p \in DOMAIN outbox', p > Lead'
        PROVE  outbox'[p] = Done(Marked' + p - 1 - Lead')
    <3>1. p \in b + 1 .. b + m
      BY <1>4, <2>1
    <3> QED BY <1>1, <1>2, <1>4, <3>1
  <2>2. TokenFirst' => \A j \in Seg : outbox'[1].text[j] # <<>> =>
          Marked' <= j /\ \A i \in Seg : TextAt(i)' # {} => i <= j
    BY <1>1, <1>2, <1>3
  <2>3. Cursor' <= N
    BY <1>5
  <2> QED BY <2>1, <2>2, <2>3 DEF QueueInv
<1>7. \A i \in Seg : Due(i)' = IF b = 1 THEN Due(i) \o outbox'[1].text[i] ELSE Due(i)
  BY <1>1, <1>2, <1>3 DEF Due
<1> QED BY <1>1, <1>5, <1>6, <1>7 DEF EventsInv

LEMMA NextMark == \A a, b \in Nat : a + (b + 1) - 1 - 0 = (a + 1) + b - 1 - 0
  OBVIOUS

\* What is due does not change when it is sent.
LEMMA SendEvents ==
  ASSUME TypeOK, EventsInv, outbox # <<>>, sent' = Append(sent, Head(outbox)),
         outbox' = Tail(outbox)
  PROVE  /\ EventsInv' /\ Cursor' = Cursor
         /\ \A i \in Seg : Due(i)' = Due(i)
         /\ Marked' = IF TokenFirst THEN Marked ELSE Marked + 1
<1> DEFINE e == Head(outbox)
<1>1. /\ sent \in Seq(Event) /\ outbox \in Seq(Event) /\ e \in Event /\ e = outbox[1]
      /\ Len(outbox) \in Nat /\ Len(outbox) > 0 /\ 1 \in DOMAIN outbox
      /\ Len(outbox') = Len(outbox) - 1 /\ outbox' \in Seq(Event)
      /\ \A p \in DOMAIN outbox' : outbox'[p] = outbox[p + 1] /\ p + 1 \in DOMAIN outbox
                                   /\ p \in Nat /\ p >= 1
  BY DEF TypeOK
<1>2. Marked \in Nat /\ Cursor \in Nat /\ Cursor <= N
  BY CursorType DEF EventsInv
<1> HIDE DEF e
<1>3. ~TokenFirst'
  <2>1. SUFFICES ASSUME outbox' # <<>> PROVE outbox'[1].kind # "token"
    BY DEF TokenFirst
  <2>2. 1 \in DOMAIN outbox' /\ 2 \in DOMAIN outbox /\ outbox'[1] = outbox[2]
    BY <1>1, <2>1
  <2>3. 2 > Lead
    BY LeadType
  <2>4. outbox[2].kind = "done"
    BY <2>2, <2>3, DoneKind DEF EventsInv, QueueInv
  <2> QED BY <2>2, <2>4
<1>4. CASE TokenFirst
  <2>1. e.kind = "token" /\ Lead = 1
    BY <1>1, <1>4 DEF TokenFirst, Lead
  <2>2. \A j \in Seg : TextOf(e, j) = outbox[1].text[j]
    BY <1>1, <2>1 DEF TextOf
  <2>3. SentInv'
    BY <1>1, <1>4, <2>1, <2>2, SentInvSend DEF EventsInv, QueueInv, e
  <2>4. Marked' = Marked
    BY <1>1, <2>1, SendOther DEF e
  <2>5. \A i \in Seg : Due(i)' = Due(i)
    <3>1. ASSUME NEW i \in Seg PROVE Shown(i)' = Shown(i) \o TextOf(e, i)
      BY <1>1, ShownSend DEF EventsInv, SentInv, e
    <3> QED BY <1>3, <1>4, <2>2, <3>1 DEF Due
  <2>6. Lead' = 0 /\ Cursor' = Cursor
    <3>1. Lead' = 0
      BY <1>3 DEF Lead
    <3> QED BY <1>1, <1>2, <2>1, <2>4, <3>1 DEF Cursor
  <2>7. QueueInv'
    <3>1. ASSUME NEW p \in DOMAIN outbox'
          PROVE  outbox'[p] = Done(Marked' + p - 1 - Lead')
      <4>1. outbox[p + 1] = Done(Marked + (p + 1) - 1 - Lead)
        BY <1>1, <2>1 DEF EventsInv, QueueInv
      <4>2. p \in Nat
        BY <1>1
      <4>3. Marked + (p + 1) - 1 - Lead = Marked' + p - 1 - Lead'
        BY <4>2, <1>2, <2>1, <2>4, <2>6
      <4> QED BY <1>1, <4>1, <4>3
    <3> QED BY <1>2, <1>3, <2>6, <3>1 DEF QueueInv
  <2> QED BY <1>4, <2>3, <2>4, <2>5, <2>6, <2>7 DEF EventsInv
<1>5. CASE ~TokenFirst
  <2>1. Lead = 0
    BY <1>5 DEF Lead
  <2>2. e = Done(Marked)
    <3>1. outbox[1] = Done(Marked + 1 - 1 - 0)
      BY <1>1, <2>1 DEF EventsInv, QueueInv
    <3>2. Marked + 1 - 1 - 0 = Marked
      BY <1>2
    <3> QED BY <1>1, <3>1, <3>2
  <2>3. Marked \in Seg
    BY <1>1, <1>2, <2>1, NAssumption DEF Cursor, Seg
  <2>4. e.kind = "done" /\ \A j \in Seg : TextOf(e, j) = <<>>
    BY <2>2, DoneKind DEF TextOf
  <2>5. sent' = Append(sent, e)
    BY DEF e
  <2>6. SentInv'
    BY <1>1, <2>2, <2>3, <2>4, <2>5, SentInvSend DEF EventsInv
  <2>7. Marked' = Marked + 1
    <3>1. PICK c \in Seg : c = Marked
      BY <2>3
    <3> QED BY <1>1, <2>2, <2>5, <3>1, SendMark
  <2>8. \A i \in Seg : Due(i)' = Due(i)
    <3>1. ASSUME NEW i \in Seg PROVE Shown(i)' = Shown(i)
      <4>1. Shown(i)' = Shown(i) \o <<>> /\ Shown(i) \in Seq(Nat)
        BY <1>1, <2>4, <2>5, ShownSend DEF EventsInv, SentInv, Texts
      <4> QED BY <4>1
    <3> QED BY <1>3, <1>5, <3>1 DEF Due
  <2>9. Lead' = 0 /\ Cursor' = Cursor
    <3>1. Lead' = 0
      BY <1>3 DEF Lead
    <3> QED BY <1>1, <1>2, <2>1, <2>7, <3>1 DEF Cursor
  <2>10. QueueInv'
    <3>1. ASSUME NEW p \in DOMAIN outbox'
          PROVE  outbox'[p] = Done(Marked' + p - 1 - Lead')
      <4>1. outbox[p + 1] = Done(Marked + (p + 1) - 1 - Lead)
        BY <1>1, <2>1 DEF EventsInv, QueueInv
      <4>2. p \in Nat
        BY <1>1
      <4>4. Marked \in Nat
        BY <1>2
      <4>5. Marked + (p + 1) - 1 - 0 = (Marked + 1) + p - 1 - 0
        BY <4>2, <4>4, NextMark
      <4>3. Marked + (p + 1) - 1 - Lead = Marked' + p - 1 - Lead'
        BY <4>5, <2>1, <2>7, <2>9
      <4> QED BY <1>1, <4>1, <4>3
    <3> QED BY <1>2, <1>3, <2>9, <3>1 DEF QueueInv
  <2> QED BY <1>5, <2>6, <2>7, <2>8, <2>9, <2>10 DEF EventsInv
<1> QED BY <1>4, <1>5

\* The terminal event shows no text and marks no segment.
LEMMA TerminalEvents ==
  ASSUME TypeOK, EventsInv, outbox = <<>>, outbox' = outbox,
         sent' = Append(sent, AllDone(text))
  PROVE  /\ EventsInv' /\ Cursor' = Cursor /\ Marked' = Marked
         /\ \A i \in Seg : Due(i)' = Due(i)
<1> DEFINE e == AllDone(text)
<1>1. e \in Event /\ e.kind = "all" /\ \A j \in Seg : TextOf(e, j) = <<>>
  BY DEF TypeOK, AllDone, Event, TextOf
<1>2. sent \in Seq(Event) /\ sent' = Append(sent, e)
  BY DEF TypeOK
<1> HIDE DEF e
<1>3. SentInv'
  BY <1>1, <1>2, SentInvSend DEF EventsInv
<1>4. Marked' = Marked
  BY <1>1, <1>2, SendOther
<1>5. ~TokenFirst' /\ Lead' = 0 /\ ~TokenFirst /\ Lead = 0
  BY DEF TokenFirst, Lead
<1>6. Cursor' = Cursor
  BY <1>4, <1>5 DEF Cursor
<1>7. \A i \in Seg : Due(i)' = Due(i)
  <2>1. ASSUME NEW i \in Seg PROVE Shown(i)' = Shown(i)
    <3>1. Shown(i)' = Shown(i) \o <<>> /\ Shown(i) \in Seq(Nat)
      BY <1>1, <1>2, ShownSend DEF EventsInv, SentInv, Texts
    <3> QED BY <3>1
  <2> QED BY <1>5, <2>1 DEF Due
<1>8. QueueInv'
  BY <1>5, <1>6 DEF QueueInv, EventsInv
<1> QED BY <1>3, <1>4, <1>6, <1>7, <1>8 DEF EventsInv

-----------------------------------------------------------------------------
(* Which messages can still come.                                            *)

Working == {"prefix", "paragraph", "dispatch", "wait", "publish", "flush", "finish"}

\* The state an invocation starts from.
CleanStart ==
    mpc = "start" =>
       /\ progress = <<>> /\ got = {} /\ missing = {} /\ published = {} /\ degraded = {}
       /\ pending = Blank /\ next = 0 /\ para = NoParagraph
       /\ sent = <<>> /\ outbox = <<>>

\* What each phase tells about the mode and the tables.
PhaseInv ==
    /\ mpc = "paragraph" => job.mode = "Paragraph"
    /\ mpc = "render" => job.mode = "Validated"
    /\ mpc = "finish" /\ Optimistic => next \notin got
    /\ mpc \in Working => got \cup missing = Seg

\* A segment that was answered has no message left to come, and its tokens came
\* before its outcome.
MessagesInv ==
    /\ \A i \in got : task[i].pc = "gone" \/ (task[i].pc = "idle" /\ i \notin missing)
    /\ remaining \subseteq missing
    /\ \A k \in DOMAIN progress : progress[k].kind = "completed" => progress[k].seg \notin got
    /\ \A j, k \in DOMAIN progress :
          /\ progress[j].kind = "completed" /\ progress[k].kind = "token"
          /\ progress[j].seg = progress[k].seg
          => k < j

FlowInv == CleanStart /\ PhaseInv /\ MessagesInv

LEMMA FlowTaskStep ==
  ASSUME TypeInv, AnsweredOnce, FlowInv, NEW i \in Seg, TaskStep(i)
  PROVE  FlowInv'
<1>1. UNCHANGED <<job, mpc, got, missing, remaining, published, degraded, pending, next,
                  para, sent, outbox, text>>
  BY DEF TaskStep, StreamToken, StreamRestarted, StreamEnds, RetryEnds, RetryAnswers,
         TaskReports, TaskOnly, chanVars
<1>2. /\ task[i].pc \in {"stream", "retry", "answer", "report"}
      /\ \A j \in Seg : j # i => task'[j] = task[j]
      /\ \/ UNCHANGED progress
         \/ \E m \in Message :
                 /\ progress' = Append(progress, m) /\ m.seg = i
                 /\ m.kind = "completed" => task'[i].pc = "gone"
  BY TaskEffect
<1>3. mpc # "start" /\ i \notin got
  BY <1>2 DEF AnsweredOnce, FlowInv, MessagesInv
<1>4. CleanStart' /\ PhaseInv'
  BY <1>1, <1>3 DEF FlowInv, CleanStart, PhaseInv, Optimistic
<1>5. /\ progress \in Seq(Message) /\ got \subseteq Seg
      /\ \A k \in DOMAIN progress : progress[k] \in Message
  BY MessageType DEF TypeInv, TypeOK
<1>6. \A j \in got : task'[j] = task[j]
  BY <1>2, <1>3, <1>5
<1>7. CASE UNCHANGED progress
  BY <1>1, <1>4, <1>6, <1>7 DEF FlowInv, MessagesInv
<1>8. ASSUME NEW m \in Message, progress' = Append(progress, m), m.seg = i,
             m.kind = "completed" => task'[i].pc = "gone"
      PROVE  FlowInv'
  <2>1. /\ DOMAIN progress' = DOMAIN progress \cup {Len(progress) + 1}
        /\ Len(progress) \in Nat
        /\ progress'[Len(progress) + 1] = m
        /\ \A k \in DOMAIN progress : progress'[k] = progress[k] /\ k \in Nat /\ k < Len(progress) + 1
    BY <1>5, <1>8
  <2>2. \A k \in DOMAIN progress : progress[k].kind = "completed" => progress[k].seg # i
    BY <1>2 DEF AnsweredOnce
  <2>3. \A k \in DOMAIN progress' : progress'[k].kind = "completed" => progress'[k].seg \notin got'
    BY <1>1, <1>3, <1>8, <2>1 DEF FlowInv, MessagesInv
  <2>4. ASSUME NEW j \in DOMAIN progress', NEW k \in DOMAIN progress',
               progress'[j].kind = "completed", progress'[k].kind = "token",
               progress'[j].seg = progress'[k].seg
        PROVE  k < j
    <3>1. CASE j \in DOMAIN progress /\ k \in DOMAIN progress
      BY <2>1, <2>4, <3>1 DEF FlowInv, MessagesInv
    <3>2. CASE j \in DOMAIN progress /\ k = Len(progress) + 1
      BY <1>8, <2>1, <2>2, <2>4, <3>2
    <3>3. CASE j = Len(progress) + 1 /\ k \in DOMAIN progress
      BY <2>1, <3>3
    <3>4. CASE j = Len(progress) + 1 /\ k = Len(progress) + 1
      BY <2>1, <2>4, <3>4
    <3> QED BY <2>1, <3>1, <3>2, <3>3, <3>4
  <2> QED BY <1>1, <1>4, <1>6, <2>3, <2>4 DEF FlowInv, MessagesInv
<1> QED
  BY <1>2, <1>7, <1>8

LEMMA FlowTake ==
  ASSUME TypeInv, AnsweredOnce, FlowInv, TakeToken \/ TakeCompleted
  PROVE  FlowInv'
<1> DEFINE m == Head(progress)
<1>1. /\ progress \in Seq(Message) /\ progress # <<>> /\ 1 \in DOMAIN progress
      /\ m = progress[1] /\ progress' = Tail(progress) /\ m \in Message /\ m.seg \in Seg
  <2>1. progress \in Seq(Message)
    BY DEF TypeInv, TypeOK
  <2>2. progress # <<>> /\ progress' = Tail(progress)
    BY DEF TakeToken, TakeCompleted
  <2> QED BY <2>1, <2>2, MessageType DEF TypeInv
<1>2. \A k \in DOMAIN progress' :
        /\ k + 1 \in DOMAIN progress /\ k + 1 # 1 /\ k \in Nat
        /\ progress'[k] = progress[k + 1]
  BY <1>1
<1>3. /\ UNCHANGED <<job, missing, next, sent, outbox>>
      /\ \/ UNCHANGED <<task, remaining>>
         \/ task' = Spawned(remaining) /\ remaining' = {}
      /\ got' = got \/ (m.kind = "completed" /\ got' = got \cup {m.seg})
      /\ mpc' \in {"publish", "paragraph"} /\ mpc = "wait"
      /\ mpc' = "paragraph" => job.mode = "Paragraph"
  BY DEF TakeToken, TakeCompleted, Release, At, chanVars
<1> HIDE DEF m
<1>4. /\ got \subseteq Seg /\ remaining \subseteq Seg /\ missing \subseteq Seg
  BY DEF TypeInv, TypeOK
<1>5. got \cap remaining = {}
  BY DEF AnsweredOnce, FlowInv, MessagesInv
<1>6. m.kind = "completed" =>
        /\ task[m.seg].pc = "gone" /\ m.seg \notin remaining
        /\ \A k \in DOMAIN progress' : progress'[k].kind = "completed" => progress'[k].seg # m.seg
  BY <1>1, <1>2 DEF AnsweredOnce
<1>7. \A j \in Seg \ remaining : task'[j] = task[j]
  BY <1>3 DEF Spawned
<1>8. \A j \in got' : task'[j].pc = "gone" \/ (task'[j].pc = "idle" /\ j \notin missing')
  BY <1>3, <1>4, <1>5, <1>6, <1>7, <1>1 DEF FlowInv, MessagesInv
<1>9. \A k \in DOMAIN progress' : progress'[k].kind = "completed" => progress'[k].seg \notin got'
  BY <1>2, <1>3, <1>6 DEF FlowInv, MessagesInv
<1>10. ASSUME NEW j \in DOMAIN progress', NEW k \in DOMAIN progress',
              progress'[j].kind = "completed", progress'[k].kind = "token",
              progress'[j].seg = progress'[k].seg
       PROVE  k < j
  <2>1. k + 1 < j + 1
    BY <1>2, <1>10 DEF FlowInv, MessagesInv
  <2> QED BY <1>2, <2>1
<1>11. remaining' \subseteq missing'
  BY <1>3 DEF FlowInv, MessagesInv
<1>12. MessagesInv'
  BY <1>8, <1>9, <1>10, <1>11 DEF MessagesInv
<1>13. CleanStart'
  BY <1>3 DEF CleanStart
<1>14. PhaseInv'
  BY <1>1, <1>3, <1>4 DEF PhaseInv, FlowInv, Working
<1> QED BY <1>12, <1>13, <1>14 DEF FlowInv

\* Nothing is left of an aborted invocation, nor in front of a new one.
LEMMA FlowForgotten ==
  ASSUME Forgotten, mpc' \in {"failed", "start"}, mpc' = "start" => sent' = <<>>
  PROVE  FlowInv'
<1>1. MessagesInv'
  BY DEF Forgotten, MessagesInv
<1>2. CleanStart' /\ PhaseInv'
  BY DEF Forgotten, CleanStart, PhaseInv, Working
<1> QED BY <1>1, <1>2 DEF FlowInv

LEMMA FlowStep ==
  ASSUME TypeInv, AnsweredOnce, FlowInv, [Next]_vars
  PROVE  FlowInv'
<1>1. CASE \E i \in Seg : TaskStep(i)
  BY <1>1, FlowTaskStep
<1>2. CASE TakeToken \/ TakeCompleted
  BY <1>2, FlowTake
<1>3. CASE ReceiverDropped \/ PrepareFails \/ TakeError \/ Crash \/ NewRun
  BY <1>3, FlowForgotten DEF ReceiverDropped, PrepareFails, TakeError, Crash, NewRun, Abort
<1>4. CASE Dispatch
  <2>1. /\ task' = Spawned(IF 0 \in missing THEN {0} ELSE missing)
        /\ remaining' = missing \ (IF 0 \in missing THEN {0} ELSE missing)
        /\ mpc = "dispatch" /\ mpc' = "wait"
        /\ UNCHANGED <<job, progress, got, missing, next>>
    BY <1>4 DEF Dispatch, At
  <2>2. \A j \in Seg : j \notin missing => task'[j] = task[j]
    BY <2>1 DEF Spawned
  <2>3. \A j \in got : j \notin missing
    BY <2>1 DEF FlowInv, MessagesInv, AnsweredOnce
  <2>4. MessagesInv'
    BY <2>1, <2>2, <2>3 DEF FlowInv, MessagesInv, TypeInv, TypeOK
  <2>5. CleanStart' /\ PhaseInv'
    BY <2>1 DEF FlowInv, CleanStart, PhaseInv, Working
  <2> QED BY <2>4, <2>5 DEF FlowInv
<1>5. CASE Lookup
  <2>1. /\ mpc = "start" /\ mpc' = "prefix" /\ got' \subseteq Seg /\ missing' = Seg \ got'
        /\ UNCHANGED <<job, task, progress, remaining>>
    BY <1>5 DEF Lookup, At
  <2>2. progress = <<>> /\ remaining = {}
    BY <2>1 DEF FlowInv, CleanStart, MessagesInv
  <2>3. \A j \in got' : task'[j].pc = "idle"
    BY <2>1 DEF AnsweredOnce
  <2>4. MessagesInv'
    BY <2>1, <2>2, <2>3 DEF MessagesInv
  <2>5. CleanStart' /\ PhaseInv'
    BY <2>1 DEF CleanStart, PhaseInv, Working
  <2> QED BY <2>4, <2>5 DEF FlowInv
<1>6. CASE /\ UNCHANGED <<job, task, progress, got, missing, remaining>>
           /\ mpc' # "start"
           /\ mpc' = "paragraph" => job.mode = "Paragraph"
           /\ mpc' = "render" => job.mode = "Validated"
           /\ mpc' = "finish" /\ Optimistic => next' \notin got
           /\ mpc' \in Working => mpc \in Working
  <2>1. MessagesInv'
    BY <1>6 DEF FlowInv, MessagesInv
  <2>2. CleanStart' /\ PhaseInv'
    BY <1>6 DEF CleanStart, PhaseInv, FlowInv, Optimistic
  <2> QED BY <2>1, <2>2 DEF FlowInv
<1>7. CASE StartReplay \/ AdmitReplay \/ CachedPrefix \/ AfterPrefix
  BY <1>6, <1>7 DEF StartReplay, AdmitReplay, CachedPrefix, AfterPrefix, MainOnly, At,
                    Working, FlowInv, PhaseInv, Optimistic
<1>8. CASE PublishHead \/ FlushReady \/ PublishDraft
  BY <1>6, <1>8 DEF PublishHead, FlushReady, PublishDraft, MainOnly, At, Working
<1>9. CASE MeasureOwner \/ PublishOriginal \/ PublishTranslated \/ ParagraphDone
  BY <1>6, <1>9 DEF MeasureOwner, PublishOriginal, PublishTranslated, ParagraphDone, MainOnly,
                    At, Working, FlowInv, PhaseInv, Optimistic
<1>10. CASE Finalize \/ RenderWhole \/ RenderPiece \/ Admit
  BY <1>6, <1>10 DEF Finalize, RenderWhole, RenderPiece, Admit, MainOnly, At, Working,
                     FlowInv, PhaseInv
<1>11. CASE StoreCandidate \/ StoredAll \/ RecordTask \/ SendTerminal
  BY <1>6, <1>11 DEF StoreCandidate, StoredAll, RecordTask, SendTerminal, MainOnly, At, Working
<1>12. CASE Send \/ Receive \/ CloseReceiver \/ UNCHANGED vars
  <2>1. UNCHANGED <<runVars>>
    BY <1>12 DEF Send, Receive, CloseReceiver, vars
  <2>2. MessagesInv' /\ PhaseInv'
    BY <2>1 DEF runVars, FlowInv, MessagesInv, PhaseInv, Optimistic
  <2>3. mpc = "start" => UNCHANGED <<sent, outbox>>
    BY <1>12 DEF Send, Receive, CloseReceiver, vars, chanVars, FlowInv, CleanStart
  <2>4. CleanStart'
    BY <2>1, <2>3 DEF runVars, FlowInv, CleanStart
  <2> QED BY <2>2, <2>4 DEF FlowInv
<1> QED
  BY <1>1, <1>2, <1>3, <1>4, <1>5, <1>7, <1>8, <1>9, <1>10, <1>11, <1>12
  DEF Next, Coordinator

-----------------------------------------------------------------------------
(* Which texts are answers, and which are the retained source.               *)

Final == {"reserve", "store", "record", "terminal", "done"}

\* Optimistic output never retains a source paragraph.
NoDegraded ==
    Optimistic =>
       /\ \A i \in Seg : task[i].verdict # "degraded"
       /\ \A k \in DOMAIN progress : progress[k].verdict # "degraded"
       /\ degraded = {}

\* A segment that is not retained has an answer; once finalized, a retained one
\* has its source, and so has every other segment of its owner.
AnswersInv ==
    /\ mpc \in Working => degraded \subseteq got /\ \A i \in got \ degraded : OneAttempt(text[i])
    /\ mpc \in Final \cup {"render", "replay"} =>
         /\ \A i \in degraded : text[i] = Source
         /\ \A i \in Seg \ degraded : OneAttempt(text[i])
         /\ \A i \in degraded, j \in Seg : Owner[i] = Owner[j] => j \in degraded

TextsInv == NoDegraded /\ AnswersInv

\* The retained source is not an answer.
LEMMA SourceIsNoAnswer == ~OneAttempt(Source)
<1>1. 1 \in DOMAIN Source /\ Source[1] = Original
  BY DEF Source
<1> QED BY <1>1 DEF OneAttempt

\* An Optimistic task fails rather than keep the source.
LEMMA OptimisticVerdict ==
  ASSUME TypeInv, Optimistic, NEW i \in Seg, TaskStep(i), task[i].verdict # "degraded"
  PROVE  /\ task'[i].verdict # "degraded"
         /\ \/ UNCHANGED progress
            \/ \E m \in Message :
                 progress' = Append(progress, m) /\ m.verdict # "degraded"
<1>1. task \in [Seg -> TaskState] /\ task[i] \in Attempts
  BY DEF TypeInv, TypeOK, TaskState
<1>2. CASE StreamRestarted(i) \/ StreamEnds(i) \/ RetryEnds(i)
  <2>1. UNCHANGED progress
    BY <1>2 DEF StreamRestarted, StreamEnds, RetryEnds
  <2>2. ASSUME NEW v, NEW t, Verdict(i, v, t), v # "degraded"
        PROVE  task'[i].verdict # "degraded"
    BY <1>1, <2>2 DEF Verdict, Idle
  <2>3. ASSUME Exhausted(i) PROVE task'[i].verdict # "degraded"
    BY <2>2, <2>3 DEF Exhausted
  <2>4. CASE StreamRestarted(i)
    BY <1>1, <2>1, <2>4 DEF StreamRestarted, Attempts
  <2>5. CASE StreamEnds(i)
    BY <1>1, <2>1, <2>2, <2>3, <2>5 DEF StreamEnds, Attempts
  <2>6. CASE RetryEnds(i)
    BY <1>1, <2>1, <2>2, <2>3, <2>6 DEF RetryEnds, Attempts
  <2> QED BY <1>2, <2>4, <2>5, <2>6
<1>3. CASE StreamToken(i) \/ RetryAnswers(i)
  <2>1. PICK t \in Texts : Put(i, "token", t, "none")
    <3>1. <<task[i].attempt>> \in Texts /\ task[i].draft \in Texts
      BY <1>1 DEF Attempts, Texts
    <3> QED BY <1>3, <3>1 DEF StreamToken, RetryAnswers
  <2> DEFINE m == [kind |-> "token", seg |-> i, text |-> t, verdict |-> "none"]
  <2>2. m \in Message /\ m.verdict # "degraded"
    BY DEF Message
  <2>3. progress' = Append(progress, m)
    BY <2>1 DEF Put
  <2>4. task'[i].verdict # "degraded"
    BY <1>1, <1>3 DEF StreamToken, RetryAnswers, Verdict, Idle, Attempts
  <2> HIDE DEF m
  <2> QED BY <2>2, <2>3, <2>4
<1>4. CASE TaskReports(i)
  <2> DEFINE m == [kind |-> "completed", seg |-> i, text |-> task[i].draft,
                   verdict |-> task[i].verdict]
  <2>1. m \in Message /\ m.verdict # "degraded"
    BY <1>1 DEF Message, Attempts
  <2>2. progress' = Append(progress, m)
    BY <1>4 DEF TaskReports, Put
  <2>3. task'[i].verdict # "degraded"
    BY <1>1, <1>4 DEF TaskReports, Attempts
  <2> HIDE DEF m
  <2> QED BY <2>1, <2>2, <2>3
<1> QED BY <1>2, <1>3, <1>4 DEF TaskStep

LEMMA NoDegradedStep ==
  ASSUME TypeInv, FlowInv, NoDegraded, [Next]_vars
  PROVE  NoDegraded'
<1>1. ASSUME NEW i \in Seg, TaskStep(i)
      PROVE  NoDegraded'
  <2>1. UNCHANGED <<job, degraded>>
    BY <1>1 DEF TaskStep, StreamToken, StreamRestarted, StreamEnds, RetryEnds, RetryAnswers,
                TaskReports, TaskOnly
  <2>2. SUFFICES ASSUME Optimistic PROVE NoDegraded'
    BY <2>1 DEF NoDegraded, Optimistic
  <2>3. /\ task'[i].verdict # "degraded"
        /\ \/ UNCHANGED progress
           \/ \E m \in Message :
                progress' = Append(progress, m) /\ m.verdict # "degraded"
    BY <1>1, <2>2, OptimisticVerdict DEF NoDegraded
  <2>4. \A j \in Seg : task'[j].verdict # "degraded"
    BY <1>1, <2>2, <2>3, TaskEffect DEF NoDegraded
  <2>5. progress \in Seq(Message)
    BY DEF TypeInv, TypeOK
  <2>6. \A k \in DOMAIN progress' : progress'[k].verdict # "degraded"
    BY <2>2, <2>3, <2>5 DEF NoDegraded
  <2> QED BY <2>1, <2>2, <2>4, <2>6 DEF NoDegraded
<1>2. CASE Forgotten
  BY <1>2 DEF Forgotten, NoDegraded, Idle
<1>3. CASE ReceiverDropped \/ PrepareFails \/ TakeError \/ Crash \/ NewRun
  BY <1>2, <1>3 DEF ReceiverDropped, PrepareFails, TakeError, Crash, NewRun, Abort
<1>4. CASE TakeToken \/ TakeCompleted
  <2> DEFINE m == Head(progress)
  <2>1. /\ progress \in Seq(Message) /\ progress # <<>> /\ progress' = Tail(progress)
        /\ UNCHANGED job
    BY <1>4 DEF TakeToken, TakeCompleted, TypeInv, TypeOK
  <2>2. SUFFICES ASSUME Optimistic PROVE NoDegraded'
    BY <2>1 DEF NoDegraded, Optimistic
  <2>3. m.verdict # "degraded"
    BY <2>1, <2>2 DEF NoDegraded
  <2>4. \A k \in DOMAIN progress' : progress'[k].verdict # "degraded"
    <3>1. \A k \in DOMAIN progress' : k + 1 \in DOMAIN progress /\ progress'[k] = progress[k + 1]
      BY <2>1
    <3> QED BY <2>2, <3>1 DEF NoDegraded
  <2>5. degraded' = {}
    BY <1>4, <2>2, <2>3 DEF TakeToken, TakeCompleted, NoDegraded
  <2>6. \A j \in Seg : task'[j].verdict # "degraded"
    BY <1>4, <2>2 DEF TakeToken, TakeCompleted, Release, Spawned, Idle, NoDegraded
  <2> QED BY <2>4, <2>5, <2>6 DEF NoDegraded
<1>5. CASE Dispatch
  BY <1>5 DEF Dispatch, Spawned, Idle, NoDegraded, Optimistic
<1>6. CASE Finalize
  BY <1>6 DEF Finalize, NoDegraded, Optimistic
<1>7. CASE UNCHANGED <<job, task, progress, degraded>>
  BY <1>7 DEF NoDegraded, Optimistic
<1>8. CASE StartReplay \/ AdmitReplay \/ Lookup \/ CachedPrefix \/ AfterPrefix
  BY <1>7, <1>8 DEF StartReplay, AdmitReplay, Lookup, CachedPrefix, AfterPrefix, MainOnly
<1>9. CASE PublishHead \/ FlushReady \/ PublishDraft
  BY <1>7, <1>9 DEF PublishHead, FlushReady, PublishDraft, MainOnly
<1>10. CASE MeasureOwner \/ PublishOriginal \/ PublishTranslated \/ ParagraphDone
  BY <1>7, <1>10 DEF MeasureOwner, PublishOriginal, PublishTranslated, ParagraphDone, MainOnly
<1>11. CASE \/ RenderWhole \/ RenderPiece \/ Admit \/ StoreCandidate \/ StoredAll
            \/ RecordTask \/ SendTerminal
  BY <1>7, <1>11 DEF RenderWhole, RenderPiece, Admit, StoreCandidate, StoredAll, RecordTask,
                     SendTerminal, MainOnly
<1>12. CASE Send \/ Receive \/ CloseReceiver \/ UNCHANGED vars
  BY <1>7, <1>12 DEF Send, Receive, CloseReceiver, vars, runVars
<1> QED
  BY <1>1, <1>3, <1>4, <1>5, <1>6, <1>8, <1>9, <1>10, <1>11, <1>12 DEF Next, Coordinator

LEMMA AnswersStep ==
  ASSUME TypeInv, StoreInv, FlowInv, TextsInv, [Next]_vars
  PROVE  AnswersInv'
<1>1. CASE TakeCompleted
  <2> DEFINE m == Head(progress)
  <2>1. progress \in Seq(Message) /\ progress # <<>> /\ 1 \in DOMAIN progress /\ m = progress[1]
    BY <1>1 DEF TypeInv, TypeOK, TakeCompleted
  <2>2. /\ m.kind = "completed" /\ m.verdict # "error" /\ OutcomePure(m.text, m.verdict)
        /\ m.seg \notin got /\ m.seg \in Seg
    <3>1. m \in Message
      BY <2>1
    <3> QED BY <1>1, <2>1, <3>1 DEF TakeCompleted, StoreInv, ChannelPure, FlowInv, MessagesInv, Message
  <2>3. /\ text' = [text EXCEPT ![m.seg] = m.text] /\ got' = got \cup {m.seg}
        /\ degraded' = IF m.verdict = "degraded" THEN degraded \cup {m.seg} ELSE degraded
        /\ mpc' \in {"paragraph", "publish"} /\ mpc = "wait"
    BY <1>1 DEF TakeCompleted, At
  <2> HIDE DEF m
  <2>4. /\ text \in [Seg -> Texts] /\ degraded \subseteq got /\ got \subseteq Seg
        /\ \A i \in got \ degraded : OneAttempt(text[i])
    BY <2>3 DEF TypeInv, TypeOK, TextsInv, AnswersInv, Working
  <2>5. \A i \in got' \ degraded' : OneAttempt(text'[i])
    BY <2>2, <2>3, <2>4 DEF OutcomePure
  <2> QED BY <2>3, <2>4, <2>5 DEF AnswersInv, Working, Final
<1>2. CASE Finalize
  <2> DEFINE kept == {i \in Seg : Owner[i] \in {Owner[j] : j \in degraded}}
  <2>1. /\ text' = [i \in Seg |-> IF i \in kept THEN Source ELSE text[i]]
        /\ degraded' = kept /\ got = Seg /\ mpc = "finish"
        /\ mpc' \in {"render", "reserve"}
    BY <1>2 DEF Finalize, At
  <2>2. degraded \subseteq kept /\ \A i \in got \ degraded : OneAttempt(text[i])
    BY <2>1 DEF TypeInv, TypeOK, TextsInv, AnswersInv, Working
  <2>3. \A i \in kept, j \in Seg : Owner[i] = Owner[j] => j \in kept
    OBVIOUS
  <2>4. kept \subseteq Seg
    OBVIOUS
  <2> HIDE DEF kept
  <2> QED BY <2>1, <2>2, <2>3, <2>4 DEF AnswersInv, Working, Final
<1>3. CASE Lookup
  <2>1. /\ mpc = "start" /\ mpc' = "prefix" /\ degraded' = degraded
        /\ \E hits \in SUBSET {i \in Seg : cache[i] # NoText} :
              /\ got' = hits
              /\ text' = [i \in Seg |-> IF i \in hits THEN cache[i] ELSE <<>>]
    BY <1>3 DEF Lookup, At
  <2>2. degraded = {}
    BY <2>1 DEF FlowInv, CleanStart
  <2>3. \A i \in got' : OneAttempt(text'[i])
    BY <2>1 DEF StoreInv, StoreSound
  <2> QED BY <2>1, <2>2, <2>3 DEF AnswersInv, Working, Final
<1>4. CASE StartReplay
  <2>1. mpc = "start" /\ mpc' = "replay" /\ text' = proof /\ proof # NoText /\ degraded' = degraded
    BY <1>4 DEF StartReplay, At
  <2>2. degraded = {}
    BY <2>1 DEF FlowInv, CleanStart
  <2> QED BY <2>1, <2>2 DEF AnswersInv, Working, Final, StoreInv, StoreSound
<1>5. CASE mpc' \in {"failed", "start"}
  BY <1>5 DEF AnswersInv, Working, Final
<1>6. CASE ReceiverDropped \/ PrepareFails \/ TakeError \/ Crash \/ NewRun
  BY <1>5, <1>6 DEF ReceiverDropped, PrepareFails, TakeError, Crash, NewRun, Abort
<1>7. CASE /\ UNCHANGED <<got, text, degraded>>
           /\ mpc' \in Working => mpc \in Working
           /\ mpc' \in Final \cup {"render", "replay"} => mpc \in Final \cup {"render", "replay"}
  BY <1>7 DEF TextsInv, AnswersInv
<1>8. CASE \E i \in Seg : TaskStep(i)
  BY <1>7, <1>8 DEF TaskStep, StreamToken, StreamRestarted, StreamEnds, RetryEnds, RetryAnswers,
                    TaskReports, TaskOnly
<1>9. CASE AdmitReplay \/ CachedPrefix \/ AfterPrefix \/ Dispatch \/ TakeToken
  BY <1>7, <1>9 DEF AdmitReplay, CachedPrefix, AfterPrefix, Dispatch, TakeToken, MainOnly, At,
                    Working, Final
<1>10. CASE PublishHead \/ FlushReady \/ PublishDraft
  BY <1>7, <1>10 DEF PublishHead, FlushReady, PublishDraft, MainOnly, At, Working, Final
<1>11. CASE MeasureOwner \/ PublishOriginal \/ PublishTranslated \/ ParagraphDone
  BY <1>7, <1>11 DEF MeasureOwner, PublishOriginal, PublishTranslated, ParagraphDone, MainOnly,
                     At, Working, Final
<1>12. CASE RenderWhole \/ RenderPiece \/ Admit \/ StoreCandidate \/ StoredAll
            \/ RecordTask \/ SendTerminal
  BY <1>7, <1>12 DEF RenderWhole, RenderPiece, Admit, StoreCandidate, StoredAll, RecordTask,
                     SendTerminal, MainOnly, At, Working, Final
<1>13. CASE Send \/ Receive \/ CloseReceiver \/ UNCHANGED vars
  BY <1>7, <1>13 DEF Send, Receive, CloseReceiver, vars, runVars
<1> QED
  BY <1>1, <1>2, <1>3, <1>4, <1>6, <1>8, <1>9, <1>10, <1>11, <1>12, <1>13 DEF Next, Coordinator

-----------------------------------------------------------------------------
(* Paragraph output: the cursor moves over whole owners.                     *)

Span == para.next .. para.end - 1

\* The owner at the cursor is measured, and what is ready of it is counted.
Counted ==
    para.next < para.end =>
       \/ para.ready = Cardinality(Span \cap got)
       \/ Span \subseteq got /\ para.ready >= para.end - para.next

Resting == para.next = N \/ (para.next < para.end /\ para.ready < para.end - para.next)

ParagraphInv ==
    mpc \in Working /\ job.mode = "Paragraph" =>
       /\ para.next <= para.end
       /\ para.degraded = {Owner[j] : j \in degraded}
       /\ \A i, j \in Seg : i < para.end /\ para.end <= j => Owner[i] # Owner[j]
       /\ \A i, j \in Span : Owner[i] = Owner[j]
       /\ Counted
       /\ mpc \notin {"prefix", "paragraph"} => Resting
       /\ \A i, j \in Seg : i < para.next /\ Owner[i] = Owner[j] => j \in got

LEMMA IntervalSize ==
  ASSUME NEW a \in Nat, NEW b \in Nat
  PROVE  /\ IsFiniteSet(a .. b - 1)
         /\ a < b => Cardinality(a .. b - 1) = b - a
<1> DEFINE c == b - 1
<1>1. c \in Int /\ a \in Int
  OBVIOUS
<1>2. a < b => ~(a > c) /\ c - a + 1 = b - a
  OBVIOUS
<1> HIDE DEF c
<1>3. IsFiniteSet(a .. c) /\ Cardinality(a .. c) = IF a > c THEN 0 ELSE c - a + 1
  BY <1>1, FS_Interval
<1>4. IsFiniteSet(a .. c) /\ (a < b => Cardinality(a .. c) = b - a)
  BY <1>2, <1>3
<1> QED BY <1>4 DEF c

LEMMA ParaType ==
  ASSUME TypeOK
  PROVE  /\ para.next \in 0 .. N /\ para.end \in 0 .. N /\ para.ready \in Nat
         /\ para.next \in Nat /\ para.end \in Nat /\ N \in Nat
         /\ Span \subseteq Seg /\ got \subseteq Seg /\ IsFiniteSet(Span) /\ IsFiniteSet(Span \cap got)
<1>1. /\ para.next \in 0 .. N /\ para.end \in 0 .. N /\ para.ready \in Nat
      /\ para.next \in Nat /\ para.end \in Nat /\ N \in Nat
  BY NAssumption DEF TypeOK
<1>2. Span \subseteq Seg
  BY <1>1 DEF Span, Seg
<1>3. IsFiniteSet(Span)
  BY <1>1, IntervalSize DEF Span
<1> QED BY <1>1, <1>2, <1>3, FS_Intersection DEF TypeOK

\* The pieces of the owner of segment a from a on are consecutive.
LEMMA OwnedInterval ==
  ASSUME NEW a \in Seg
  PROVE  /\ Cardinality(OwnedFrom(a)) \in Nat \ {0} /\ IsFiniteSet(OwnedFrom(a))
         /\ OwnedFrom(a) = a .. a + Cardinality(OwnedFrom(a)) - 1
<1> DEFINE T == {k \in Nat : k > a /\ k \notin OwnedFrom(a)}
<1>1. N \in Nat /\ a \in Nat /\ a < N /\ OwnedFrom(a) \subseteq Seg /\ Seg \subseteq Nat
      /\ a \in OwnedFrom(a)
  BY NAssumption DEF Seg, OwnedFrom
<1>2. N \in T
  BY <1>1 DEF OwnedFrom, Seg
<1>3. PICK e \in T : \A y \in T : e <= y
  <2>1. T \in SUBSET Nat /\ T # {}
    BY <1>2
  <2> HIDE DEF T
  <2> QED BY <2>1, LeastNumber
<1>4. e \in Nat /\ e > a /\ e <= N /\ e \notin OwnedFrom(a)
  BY <1>2, <1>3
<1>5. OwnedFrom(a) = a .. e - 1
  <2>1. ASSUME NEW k \in a .. e - 1 PROVE k \in OwnedFrom(a)
    <3>1. k \in Nat /\ k < e
      BY <1>1, <1>4
    <3>2. CASE k = a
      BY <1>1, <3>2
    <3>3. CASE k # a
      <4>1. k \notin T
        BY <1>3, <1>4, <3>1
      <4> QED BY <1>1, <3>1, <3>3, <4>1
    <3> QED BY <3>2, <3>3
  <2>2. ASSUME NEW k \in OwnedFrom(a) PROVE k \in a .. e - 1
    <3>1. k \in Seg /\ k \in Nat /\ a <= k /\ Owner[k] = Owner[a]
      BY <1>1 DEF OwnedFrom
    <3>2. CASE k < e
      BY <1>1, <1>4, <3>1, <3>2
    <3>3. CASE k >= e
      <4>1. e \in Seg /\ a <= e /\ e <= k
        BY <1>1, <1>4, <3>1, <3>3 DEF Seg
      <4>2. Owner[a] <= Owner[e] /\ Owner[e] <= Owner[k]
        BY <3>1, <4>1, OwnerAssumption
      <4>3. Owner[e] = Owner[a]
        BY <3>1, <4>1, <4>2, OwnerType
      <4> QED BY <1>4, <4>1, <4>3 DEF OwnedFrom
    <3> QED BY <1>4, <3>1, <3>2, <3>3
  <2> QED BY <2>1, <2>2
<1>6. Cardinality(OwnedFrom(a)) = e - a /\ IsFiniteSet(OwnedFrom(a))
  <2>1. Cardinality(a .. e - 1) = e - a /\ IsFiniteSet(a .. e - 1)
    BY <1>1, <1>4, IntervalSize
  <2> QED BY <1>1, <1>4, <1>5, <2>1
<1>7. a + Cardinality(OwnedFrom(a)) - 1 = e - 1
  BY <1>1, <1>4, <1>6
<1> QED BY <1>1, <1>4, <1>5, <1>6, <1>7

LEMMA MeasureParagraph ==
  ASSUME TypeInv, FlowInv, ParagraphInv, MeasureOwner
  PROVE  ParagraphInv'
<1>0. PICK a, owned, c : a = para.next /\ owned = OwnedFrom(a) /\ c = Cardinality(owned)
  OBVIOUS
<1>1. /\ mpc = "paragraph" /\ mpc' = mpc /\ para.next < N /\ para.end = para.next
      /\ para' = [para EXCEPT !.end = a + c, !.ready = Cardinality(owned \cap got)]
      /\ UNCHANGED <<job, got, degraded>>
  BY <1>0 DEF MeasureOwner, At, MainOnly
<1>2. job.mode = "Paragraph"
  BY <1>1 DEF FlowInv, PhaseInv
<1>3. a \in Seg /\ a \in Nat
  BY <1>0, <1>1, ParaType, NAssumption DEF TypeInv, Seg
<1>4. c \in Nat \ {0} /\ owned = a .. a + c - 1 /\ IsFiniteSet(owned)
  BY <1>0, <1>3, OwnedInterval
<1>5. \A k \in owned : k \in Seg /\ Owner[k] = Owner[a]
  BY <1>0 DEF OwnedFrom
<1>6. \A k \in Seg : a <= k /\ k \notin owned => Owner[k] # Owner[a]
  BY <1>0 DEF OwnedFrom
<1>7. /\ para.degraded = {Owner[j] : j \in degraded}
      /\ \A i, j \in Seg : i < a /\ a <= j => Owner[i] # Owner[j]
      /\ \A i, j \in Seg : i < a /\ Owner[i] = Owner[j] => j \in got
  BY <1>0, <1>1, <1>2 DEF ParagraphInv, Working
<1>8. /\ para'.next = a /\ para'.end = a + c /\ para'.ready = Cardinality(owned \cap got)
      /\ para'.degraded = para.degraded
  BY <1>0, <1>1 DEF TypeInv, TypeOK
<1>9. Span' = owned
  BY <1>3, <1>4, <1>8 DEF Span
<1>10. Counted'
  BY <1>1, <1>8, <1>9 DEF Counted
<1>11. ASSUME NEW i \in Seg, NEW j \in Seg, i < a + c, a + c <= j
       PROVE  Owner[i] # Owner[j]
  <2>1. i \in Nat /\ j \in Nat
    BY SegType
  <2>2. a <= j /\ j \notin owned
    BY <1>3, <1>4, <1>11, <2>1
  <2>3. CASE i < a
    BY <1>7, <2>2, <2>3
  <2>4. CASE a <= i
    <3>1. i \in owned
      BY <1>3, <1>4, <1>11, <2>1, <2>4
    <3> QED BY <1>5, <1>6, <2>2, <3>1
  <2> QED BY <1>3, <2>1, <2>3, <2>4
<1>12. para'.next <= para'.end
  BY <1>3, <1>4, <1>8
<1> QED
  BY <1>1, <1>5, <1>7, <1>8, <1>9, <1>10, <1>11, <1>12 DEF ParagraphInv

\* The owner that is ready is published in one go, or piece by piece.
LEMMA ReadyOwner ==
  ASSUME TypeInv, FlowInv, ParagraphInv, mpc = "paragraph", OwnerReady
  PROVE  /\ Span \subseteq got /\ para.next \in Span
         /\ \A i, j \in Seg : i < para.end /\ Owner[i] = Owner[j] => j \in got
<1>1. job.mode = "Paragraph"
  BY DEF FlowInv, PhaseInv
<1>2. /\ para.next \in Nat /\ para.end \in Nat /\ para.ready \in Nat
      /\ para.next < para.end /\ para.ready >= para.end - para.next
      /\ Span \subseteq Seg /\ IsFiniteSet(Span)
  BY ParaType DEF TypeInv, OwnerReady
<1>3. Span \subseteq got
  <2>1. CASE para.ready = Cardinality(Span \cap got)
    <3>1. Cardinality(Span) = para.end - para.next
      BY <1>2, IntervalSize DEF Span
    <3>2. /\ Cardinality(Span \cap got) <= Cardinality(Span)
          /\ Cardinality(Span) = Cardinality(Span \cap got) => Span = Span \cap got
      BY <1>2, FS_Subset
    <3> QED BY <1>2, <2>1, <3>1, <3>2
  <2> QED BY <1>1, <1>2, <2>1 DEF ParagraphInv, Counted, Working
<1>4. para.next \in Span
  BY <1>2 DEF Span
<1>5. ASSUME NEW i \in Seg, NEW j \in Seg, i < para.end, Owner[i] = Owner[j]
      PROVE  j \in got
  <2>1. j < para.end
    <3>1. ~(para.end <= j)
      BY <1>1, <1>5 DEF ParagraphInv, Working
    <3> QED BY <1>2, <3>1, SegType
  <2>2. CASE j < para.next
    BY <1>1, <2>2 DEF ParagraphInv, Working
  <2>3. CASE para.next <= j
    <3>1. j \in Span
      BY <1>2, <2>1, <2>3, SegType DEF Span
    <3> QED BY <1>3, <3>1
  <2> QED BY <1>2, <2>2, <2>3, SegType
<1> QED BY <1>3, <1>4, <1>5

LEMMA PublishParagraph ==
  ASSUME TypeInv, FlowInv, ParagraphInv, PublishOriginal \/ PublishTranslated
  PROVE  ParagraphInv'
<1>1. mpc = "paragraph" /\ OwnerReady /\ UNCHANGED <<mpc, job, got, degraded>>
  BY DEF PublishOriginal, PublishTranslated, At, MainOnly
<1>2. /\ job.mode = "Paragraph" /\ mpc \in Working
  BY <1>1 DEF FlowInv, PhaseInv, Working
<1>3. /\ para.next \in Nat /\ para.end \in Nat /\ para.ready \in Nat
      /\ para.next < para.end /\ para.ready >= para.end - para.next
  BY <1>1, ParaType DEF TypeInv, OwnerReady
<1>4. PICK n \in Nat : /\ para.next < n /\ n <= para.end /\ para'.next = n
                       /\ para'.end = para.end /\ para'.degraded = para.degraded
                       /\ n < para.end => para'.ready = para.ready
  <2>1. CASE PublishOriginal
    <3>1. para' = [para EXCEPT !.next = para.end, !.ready = 0]
      BY <2>1 DEF PublishOriginal
    <3>2. para'.next = para.end /\ para'.end = para.end /\ para'.degraded = para.degraded
      BY <3>1 DEF TypeInv, TypeOK
    <3> QED BY <1>3, <3>2
  <2>2. CASE PublishTranslated
    <3> DEFINE r == IF para.next + 1 = para.end THEN 0 ELSE para.ready
    <3>1. para' = [para EXCEPT !.next = para.next + 1, !.ready = r]
      BY <2>2 DEF PublishTranslated, TypeInv, TypeOK
    <3>2. /\ para'.next = para.next + 1 /\ para'.end = para.end
          /\ para'.ready = r /\ para'.degraded = para.degraded
      BY <3>1 DEF TypeInv, TypeOK
    <3> QED BY <1>3, <3>2
  <2> QED BY <2>1, <2>2
<1>5. Span' \subseteq Span
  BY <1>3, <1>4 DEF Span
<1>6. /\ Span \subseteq got
      /\ \A i, j \in Seg : i < para.end /\ Owner[i] = Owner[j] => j \in got
  BY <1>1, ReadyOwner
<1>7. Counted'
  BY <1>1, <1>3, <1>4, <1>5, <1>6 DEF Counted
<1>8. \A i, j \in Seg : i < n /\ Owner[i] = Owner[j] => j \in got
  BY <1>3, <1>4, <1>6, SegType
<1>9. /\ para.degraded = {Owner[j] : j \in degraded}
      /\ \A i, j \in Seg : i < para.end /\ para.end <= j => Owner[i] # Owner[j]
      /\ \A i, j \in Span : Owner[i] = Owner[j]
  BY <1>2 DEF ParagraphInv
<1> QED
  BY <1>1, <1>4, <1>5, <1>7, <1>8, <1>9 DEF ParagraphInv

LEMMA CompleteParagraph ==
  ASSUME TypeInv, FlowInv, ParagraphInv, TakeCompleted
  PROVE  ParagraphInv'
<1> DEFINE m == Head(progress)
           s == m.seg
<1>1. /\ progress \in Seq(Message) /\ progress # <<>> /\ 1 \in DOMAIN progress
      /\ m = progress[1] /\ m \in Message /\ s \in Seg
  <2>1. progress \in Seq(Message) /\ progress # <<>>
    BY DEF TypeInv, TypeOK, TakeCompleted
  <2> QED BY <2>1, MessageType DEF TypeInv
<1>2. /\ mpc = "wait" /\ job' = job /\ got' = got \cup {s}
      /\ degraded' = IF m.verdict = "degraded" THEN degraded \cup {s} ELSE degraded
      /\ job.mode = "Paragraph" => para' = ParagraphCounts(s, m.verdict) /\ mpc' = "paragraph"
      /\ m.kind = "completed"
  BY DEF TakeCompleted, At
<1>3. s \notin got
  BY <1>1, <1>2 DEF FlowInv, MessagesInv
<1> HIDE DEF m, s
<1>4. SUFFICES ASSUME job.mode = "Paragraph" PROVE ParagraphInv'
  BY <1>2 DEF ParagraphInv
<1>5. /\ para.next <= para.end
      /\ para.degraded = {Owner[j] : j \in degraded}
      /\ \A i, j \in Seg : i < para.end /\ para.end <= j => Owner[i] # Owner[j]
      /\ \A i, j \in Span : Owner[i] = Owner[j]
      /\ Counted
      /\ Resting
      /\ \A i, j \in Seg : i < para.next /\ Owner[i] = Owner[j] => j \in got
  BY <1>2, <1>4 DEF ParagraphInv, Working
<1>6. /\ para'.next = para.next /\ para'.end = para.end
      /\ para'.degraded = IF m.verdict = "degraded" THEN para.degraded \cup {Owner[s]}
                          ELSE para.degraded
      /\ para'.ready = IF s \in Span THEN para.ready + 1 ELSE para.ready
  BY <1>2, <1>4 DEF ParagraphCounts, TypeInv, TypeOK, Span
<1>7. Span' = Span
  BY <1>6 DEF Span
<1>8. ASSUME para.next < para.end
      PROVE  para'.ready = Cardinality(Span \cap got')
  <2>1. /\ para.next \in Nat /\ para.end \in Nat /\ para.ready \in Nat /\ para.end <= N
        /\ IsFiniteSet(Span \cap got) /\ N \in Nat
    BY ParaType DEF TypeInv
  <2>2. para.ready = Cardinality(Span \cap got)
    BY <1>5, <1>8, <2>1 DEF Counted, Resting
  <2>3. CASE s \in Span
    <3>1. Span \cap got' = (Span \cap got) \cup {s} /\ s \notin Span \cap got
      BY <1>2, <1>3, <2>3
    <3>2. Cardinality((Span \cap got) \cup {s}) = Cardinality(Span \cap got) + 1
      BY <2>1, <3>1, FS_AddElement
    <3> QED BY <1>6, <2>2, <2>3, <3>1, <3>2
  <2>4. CASE s \notin Span
    <3>1. Span \cap got' = Span \cap got
      BY <1>2, <2>4
    <3> QED BY <1>6, <2>2, <2>4, <3>1
  <2> QED BY <2>3, <2>4
<1>9. Counted'
  BY <1>6, <1>7, <1>8 DEF Counted
<1>10. para'.degraded = {Owner[j] : j \in degraded'}
  BY <1>2, <1>5, <1>6
<1> QED
  BY <1>2, <1>4, <1>5, <1>6, <1>7, <1>9, <1>10 DEF ParagraphInv

LEMMA ParagraphStep ==
  ASSUME TypeInv, FlowInv, ParagraphInv, [Next]_vars
  PROVE  ParagraphInv'
<1>1. CASE MeasureOwner
  BY <1>1, MeasureParagraph
<1>2. CASE PublishOriginal \/ PublishTranslated
  BY <1>2, PublishParagraph
<1>3. CASE TakeCompleted
  BY <1>3, CompleteParagraph
<1>4. CASE Lookup
  <2>1. mpc = "start" /\ UNCHANGED <<job, para, degraded>> /\ mpc' = "prefix"
    BY <1>4 DEF Lookup, At
  <2>2. para = NoParagraph /\ degraded = {}
    BY <2>1 DEF FlowInv, CleanStart
  <2>3. /\ para'.next = 0 /\ para'.end = 0 /\ para'.degraded = {}
    BY <2>1, <2>2 DEF NoParagraph
  <2>4. Span' = {} /\ Counted' /\ (\A i \in Seg : ~(i < 0))
    BY <2>3, SegType DEF Span, Counted
  <2> QED BY <2>1, <2>2, <2>3, <2>4 DEF ParagraphInv
<1>5. CASE ParagraphDone
  <2>1. /\ mpc = "paragraph"
        /\ para.next = N \/ (para.next < para.end /\ ~OwnerReady)
        /\ UNCHANGED <<job, para, got, degraded>>
    BY <1>5 DEF ParagraphDone, At, MainOnly
  <2>2. Resting
    BY <2>1, ParaType DEF Resting, OwnerReady, TypeInv
  <2>3. Span' = Span
    BY <2>1 DEF Span
  <2>4. Resting'
    BY <2>1, <2>2 DEF Resting
  <2>5. CASE job.mode = "Paragraph"
    <3>1. Counted'
      BY <2>1, <2>3, <2>5 DEF Counted, ParagraphInv, Working
    <3> QED BY <2>1, <2>3, <2>4, <2>5, <3>1 DEF ParagraphInv, Working
  <2> QED BY <2>1, <2>5 DEF ParagraphInv
<1>6. CASE mpc' \notin Working
  BY <1>6 DEF ParagraphInv
<1>7. CASE ReceiverDropped \/ PrepareFails \/ TakeError \/ Crash \/ NewRun
  BY <1>6, <1>7 DEF ReceiverDropped, PrepareFails, TakeError, Crash, NewRun, Abort, Working
<1>8. CASE /\ UNCHANGED <<job, para, got, degraded>>
           /\ mpc' \in Working /\ job.mode = "Paragraph" =>
                /\ mpc \in Working
                /\ mpc \in {"prefix", "paragraph"} => mpc' \in {"prefix", "paragraph"}
  <2>1. Span' = Span /\ (Counted' <=> Counted) /\ (Resting' <=> Resting)
    BY <1>8 DEF Span, Counted, Resting
  <2> QED BY <1>8, <2>1 DEF ParagraphInv
<1>9. CASE \E i \in Seg : TaskStep(i)
  BY <1>8, <1>9 DEF TaskStep, StreamToken, StreamRestarted, StreamEnds, RetryEnds, RetryAnswers,
                    TaskReports, TaskOnly
<1>10. CASE CachedPrefix \/ AfterPrefix \/ Dispatch \/ TakeToken
  BY <1>8, <1>10 DEF CachedPrefix, AfterPrefix, Dispatch, TakeToken, MainOnly, At, Working
<1>11. CASE PublishHead \/ FlushReady \/ PublishDraft
  BY <1>8, <1>11 DEF PublishHead, FlushReady, PublishDraft, MainOnly, At, Working
<1>12. CASE StartReplay \/ AdmitReplay \/ Finalize
  BY <1>6, <1>12 DEF StartReplay, AdmitReplay, Finalize, Working
<1>13. CASE RenderWhole \/ RenderPiece \/ Admit \/ StoreCandidate \/ StoredAll
            \/ RecordTask \/ SendTerminal
  BY <1>6, <1>13 DEF RenderWhole, RenderPiece, Admit, StoreCandidate, StoredAll, RecordTask,
                     SendTerminal, MainOnly, At, Working
<1>14. CASE Send \/ Receive \/ CloseReceiver \/ UNCHANGED vars
  BY <1>8, <1>14 DEF Send, Receive, CloseReceiver, vars, runVars
<1> QED
  BY <1>1, <1>2, <1>3, <1>4, <1>5, <1>7, <1>9, <1>10, <1>11, <1>12, <1>13, <1>14
  DEF Next, Coordinator

\* When every segment is there the cursor is at the end.
LEMMA ParagraphEnd ==
  ASSUME TypeInv, ParagraphInv, mpc = "finish", job.mode = "Paragraph", got = Seg
  PROVE  para.next = N
<1>1. Counted /\ Resting
  BY DEF ParagraphInv, Working
<1>2. /\ para.next \in Nat /\ para.end \in Nat /\ para.ready \in Nat
      /\ Span \subseteq Seg
  BY ParaType DEF TypeInv
<1>3. SUFFICES ASSUME para.next < para.end, para.ready < para.end - para.next PROVE FALSE
  BY <1>1 DEF Resting
<1>4. Span \cap got = Span
  BY <1>2
<1>5. Cardinality(Span) = para.end - para.next
  BY <1>2, <1>3, IntervalSize DEF Span
<1>6. \/ para.ready = Cardinality(Span \cap got)
      \/ para.ready >= para.end - para.next
  BY <1>1, <1>3 DEF Counted
<1>7. para.ready >= para.end - para.next
  <2>1. PICK d \in Int : d = para.end - para.next
    BY <1>2
  <2>2. Cardinality(Span \cap got) = d
    BY <1>4, <1>5, <2>1
  <2>3. para.ready = d \/ para.ready >= d
    BY <1>6, <2>1, <2>2
  <2> QED BY <1>2, <2>1, <2>3
<1> QED BY <1>2, <1>3, <1>7

-----------------------------------------------------------------------------
(* Optimistic output: a draft that was shown is the beginning of the answer. *)

\* Tokens of segment i that the coordinator has not taken yet.
TokensOf(i) == {k \in DOMAIN progress : progress[k].kind = "token" /\ progress[k].seg = i}

\* How many units of segment i its task has told.
Told(i) == Len(Due(i)) + Len(pending[i]) + Cardinality(TokensOf(i))

Units(t, a) == \A k \in DOMAIN t : t[k] = a

\* All that was told of segment i comes from attempt a, and the task has drafted
\* exactly as much.
DraftOf(i, a) ==
    /\ Units(Due(i), a) /\ Units(pending[i], a)
    /\ \A k \in TokensOf(i) : progress[k].text = <<a>>
    /\ task[i].pc \in {"idle", "retry", "answer"} => Told(i) = 0
    /\ task[i].pc = "answer" => task[i].draft = <<task[i].attempt>>
    /\ task[i].pc = "stream" =>
          Len(task[i].draft) = Told(i) /\ (Told(i) # 0 => a = task[i].attempt)
    /\ task[i].pc = "report" /\ task[i].verdict # "error" =>
          Len(task[i].draft) = Told(i) /\ Units(task[i].draft, a)
    /\ \A k \in DOMAIN progress :
          /\ progress[k].kind = "completed" /\ progress[k].seg = i
          /\ progress[k].verdict # "error"
          => Len(progress[k].text) = Told(i) /\ Units(progress[k].text, a)

DraftsInv ==
    Optimistic /\ mpc \in Working => \A i \in Seg \ got : \E a \in Nat \ {0} : DraftOf(i, a)

LEMMA TokensFinite ==
  ASSUME progress \in Seq(Message), NEW i
  PROVE  /\ IsFiniteSet(TokensOf(i)) /\ Cardinality(TokensOf(i)) \in Nat
         /\ Cardinality(TokensOf(i)) = 0 <=> TokensOf(i) = {}
<1>1. Len(progress) \in Nat /\ TokensOf(i) \subseteq 1 .. Len(progress)
  BY DEF TokensOf
<1>2. IsFiniteSet(1 .. Len(progress))
  BY <1>1, FS_Interval
<1>3. IsFiniteSet(TokensOf(i))
  BY <1>1, <1>2, FS_Subset
<1> QED BY <1>3, FS_CardinalityType, FS_EmptySet

LEMMA TokensAppend ==
  ASSUME progress \in Seq(Message), NEW m \in Message, progress' = Append(progress, m), NEW i
  PROVE  /\ Cardinality(TokensOf(i))' = IF m.kind = "token" /\ m.seg = i
                                        THEN Cardinality(TokensOf(i)) + 1
                                        ELSE Cardinality(TokensOf(i))
         /\ TokensOf(i)' = IF m.kind = "token" /\ m.seg = i
                           THEN TokensOf(i) \cup {Len(progress) + 1} ELSE TokensOf(i)
<1> DEFINE n == Len(progress) + 1
<1>1. /\ DOMAIN progress' = DOMAIN progress \cup {n} /\ n \notin DOMAIN progress
      /\ progress'[n] = m /\ \A k \in DOMAIN progress : progress'[k] = progress[k]
  OBVIOUS
<1> HIDE DEF n
<1>2. TokensOf(i)' = IF m.kind = "token" /\ m.seg = i THEN TokensOf(i) \cup {n} ELSE TokensOf(i)
  BY <1>1 DEF TokensOf
<1>3. n \notin TokensOf(i)
  BY <1>1 DEF TokensOf
<1>4. Cardinality(TokensOf(i) \cup {n}) = Cardinality(TokensOf(i)) + 1
  BY <1>3, TokensFinite, FS_AddElement
<1> QED BY <1>2, <1>4 DEF n

LEMMA TokensTail ==
  ASSUME progress \in Seq(Message), progress # <<>>, progress' = Tail(progress), NEW i
  PROVE  /\ Cardinality(TokensOf(i)) =
              IF Head(progress).kind = "token" /\ Head(progress).seg = i
              THEN Cardinality(TokensOf(i))' + 1 ELSE Cardinality(TokensOf(i))'
         /\ Cardinality(TokensOf(i))' \in Nat
         /\ \A k \in TokensOf(i)' : k + 1 \in TokensOf(i) /\ progress'[k] = progress[k + 1]
<1> DEFINE rest == TokensOf(i) \ {1}
           new == TokensOf(i)'
           f == [k \in new |-> k + 1]
<1>1. /\ 1 \in DOMAIN progress /\ progress[1] = Head(progress)
      /\ \A k \in Nat : k >= 1 => (k \in DOMAIN progress' <=> k + 1 \in DOMAIN progress)
      /\ \A k \in DOMAIN progress' : progress'[k] = progress[k + 1] /\ k \in Nat /\ k >= 1
      /\ \A k \in DOMAIN progress : k \in Nat /\ k >= 1
  OBVIOUS
<1>2. \A k \in new : k \in Nat /\ k >= 1 /\ k + 1 \in TokensOf(i) /\ progress'[k] = progress[k + 1]
  BY <1>1 DEF TokensOf
<1>3. \A k \in rest : k \in Nat /\ k - 1 \in new /\ (k - 1) + 1 = k
  <2> SUFFICES ASSUME NEW k \in rest PROVE k \in Nat /\ k - 1 \in new /\ (k - 1) + 1 = k
    OBVIOUS
  <2>1. k \in DOMAIN progress /\ k \in Nat /\ k >= 1 /\ k # 1
    BY <1>1 DEF TokensOf
  <2>2. k - 1 \in Nat /\ k - 1 >= 1 /\ (k - 1) + 1 = k
    BY <2>1
  <2>3. k - 1 \in DOMAIN progress' /\ progress'[k - 1] = progress[k]
    BY <1>1, <2>1, <2>2
  <2> QED BY <2>1, <2>2, <2>3 DEF TokensOf
<1>4. IsFiniteSet(TokensOf(i)) /\ IsFiniteSet(rest) /\ Cardinality(TokensOf(i)) \in Nat
      /\ Cardinality(rest) = IF 1 \in TokensOf(i) THEN Cardinality(TokensOf(i)) - 1
                             ELSE Cardinality(TokensOf(i))
  BY TokensFinite, FS_RemoveElement
<1>5. progress' \in Seq(Message)
  OBVIOUS
<1>6. IsFiniteSet(new) /\ Cardinality(new) \in Nat
  <2>1. new \subseteq DOMAIN progress' /\ DOMAIN progress' = 1 .. Len(progress') /\ Len(progress') \in Nat
    BY <1>5 DEF TokensOf
  <2>2. IsFiniteSet(1 .. Len(progress'))
    BY <2>1, FS_Interval
  <2>3. IsFiniteSet(new)
    BY <2>1, <2>2, FS_Subset
  <2> QED BY <2>3, FS_CardinalityType
<1> HIDE DEF new, rest
<1>7. f \in [new -> rest]
  BY <1>2 DEF rest
<1>8. \A a, b \in new : f[a] = f[b] => a = b
  BY <1>2
<1>9. \A t \in rest : \E s \in new : f[s] = t
  BY <1>3
<1> HIDE DEF f
<1>10. f \in Bijection(new, rest)
  BY <1>7, <1>8, <1>9, Fun_IsBij
<1>11. Cardinality(rest) = Cardinality(new)
  BY <1>6, <1>10, FS_Bijection DEF ExistsBijection
<1>12. 1 \in TokensOf(i) <=> Head(progress).kind = "token" /\ Head(progress).seg = i
  BY <1>1 DEF TokensOf
<1>13. new = TokensOf(i)' /\ Cardinality(new) = Cardinality(TokensOf(i))'
  BY DEF new
<1>14. CASE 1 \in TokensOf(i)
  <2>1. Cardinality(TokensOf(i)) = Cardinality(new) + 1
    BY <1>4, <1>6, <1>11, <1>14
  <2> QED BY <1>2, <1>6, <1>12, <1>13, <1>14, <2>1
<1>15. CASE 1 \notin TokensOf(i)
  <2>1. Cardinality(TokensOf(i)) = Cardinality(new)
    BY <1>4, <1>6, <1>11, <1>15
  <2> QED BY <1>2, <1>6, <1>12, <1>13, <1>15, <2>1
<1> QED BY <1>14, <1>15

-----------------------------------------------------------------------------
(* Optimistic output: what is due, segment by segment.                       *)

OptimisticInv ==
    mpc \in Working /\ Optimistic =>
       /\ Cursor = next
       /\ \A i \in Seg : i < next => i \in got
       /\ published \subseteq 0 .. next
       /\ mpc = "wait" => next \notin got /\ (next \in Seg => pending[next] = <<>>)
       /\ mpc = "dispatch" => next \notin got
       /\ mpc = "flush" => next \notin got \/ next \notin published
       /\ mpc \in {"prefix", "dispatch"} => published = {} /\ pending = Blank
       /\ \A i \in got : Due(i) = IF i < next \/ i \in published THEN text[i] ELSE <<>>
       /\ \A i \in Seg \ got : Due(i) # <<>> => i \in published

\* Sending the outbox, or doing something else, changes nothing that is due.
LEMMA HandOver ==
  ASSUME TypeOK, EventsInv, Send \/ UNCHANGED <<sent, outbox>>
  PROVE  /\ EventsInv' /\ Cursor' = Cursor
         /\ \A i \in Seg : Due(i)' = Due(i)
<1>1. CASE Send
  BY <1>1, SendEvents DEF Send
<1>2. CASE UNCHANGED <<sent, outbox>>
  BY <1>2, KeepEvents
<1> QED BY <1>1, <1>2

LEMMA ConcatEmpty ==
  ASSUME NEW t \in Texts
  PROVE  t \o <<>> = t
  BY DEF Texts

\* The piece of the segment at the cursor: its text, if any, and its mark.
LEMMA LoadPiece ==
  ASSUME TypeOK, EventsInv, outbox = <<>>, sent' = sent,
         NEW t \in [Seg -> Texts], NEW c \in Seg, Cursor = c, outbox' = Piece(c, t),
         \A i \in Seg : Due(i) # <<>> => i <= c
  PROVE  /\ EventsInv' /\ Cursor' = c + 1
         /\ \A i \in Seg : Due(i)' = IF i = c THEN Due(i) \o t[c] ELSE Due(i)
<1>1. \A i \in Seg : TextAt(i) # {} => i <= c
  BY DueType DEF EventsInv, SentInv
<1>2. outbox' \in Seq(Event)
  BY PieceType
<1>3. c \in Nat /\ c + 1 <= N /\ N \in Nat /\ 0 \in Nat /\ 1 \in Nat
  BY NAssumption DEF Seg
<1>4. \A i \in Seg : Due(i) \in Texts
  BY DueType DEF EventsInv
<1>5. CASE t[c] = <<>>
  <2>1. outbox' = <<Done(c)>>
    BY <1>5 DEF Piece
  <2>2. Len(outbox') = 0 + 1 /\ \A p \in 0 + 1 .. 0 + 1 : outbox'[p] = Done(Cursor + p - 1 - 0)
    BY <1>3, <2>1
  <2>3. /\ EventsInv' /\ Cursor' = Cursor + 1
        /\ \A i \in Seg : Due(i)' = Due(i)
    BY <1>2, <1>3, <2>2, LoadEvents
  <2> QED BY <1>4, <1>5, <2>3 DEF Texts
<1>6. CASE t[c] # <<>>
  <2> DEFINE e == Token({c}, t)
  <2>1. outbox' = <<e, Done(c)>>
    BY <1>6 DEF Piece
  <2>2. e.kind = "token" /\ \A i \in Seg : e.text[i] = IF i = c THEN t[c] ELSE <<>>
    BY DEF Token
  <2> HIDE DEF e
  <2>3. Len(outbox') = 1 + 1 /\ outbox'[1] = e
        /\ \A p \in 1 + 1 .. 1 + 1 : outbox'[p] = Done(Cursor + p - 1 - 1)
    BY <1>3, <2>1
  <2>4. \A j \in Seg : outbox'[1].text[j] # <<>> =>
           Cursor <= j /\ \A i \in Seg : TextAt(i) # {} => i <= j
    BY <1>1, <1>3, <2>2, <2>3
  <2>5. /\ EventsInv' /\ Cursor' = Cursor + 1
        /\ \A i \in Seg : Due(i)' = Due(i) \o outbox'[1].text[i]
    BY <1>2, <1>3, <2>2, <2>3, <2>4, LoadEvents
  <2>6. \A i \in Seg : Due(i)' = IF i = c THEN Due(i) \o t[c] ELSE Due(i)
    BY <1>4, <2>2, <2>3, <2>5, ConcatEmpty
  <2> QED BY <2>5, <2>6
<1> QED BY <1>5, <1>6

\* Only the mark of the segment at the cursor.
LEMMA LoadMark ==
  ASSUME TypeOK, EventsInv, outbox = <<>>, sent' = sent, NEW c \in Seg, Cursor = c,
         outbox' = <<Done(c)>>
  PROVE  /\ EventsInv' /\ Cursor' = c + 1
         /\ \A i \in Seg : Due(i)' = Due(i)
<1>2. outbox' \in Seq(Event)
  BY DoneType
<1>3. c \in Nat /\ c + 1 <= N /\ N \in Nat /\ 0 \in Nat /\ 1 \in Nat
  BY NAssumption DEF Seg
<1>4. Len(outbox') = 0 + 1 /\ \A p \in 0 + 1 .. 0 + 1 : outbox'[p] = Done(Cursor + p - 1 - 0)
  BY <1>3
<1>5. /\ EventsInv' /\ Cursor' = Cursor + 1
      /\ \A i \in Seg : Due(i)' = Due(i)
  BY <1>2, <1>3, <1>4, LoadEvents
<1> QED BY <1>5

\* Only text of the segment at the cursor.
LEMMA LoadDraft ==
  ASSUME TypeOK, EventsInv, outbox = <<>>, sent' = sent,
         NEW t \in [Seg -> Texts], NEW c \in Seg, Cursor = c, outbox' = <<Token({c}, t)>>,
         \A i \in Seg : Due(i) # <<>> => i <= c
  PROVE  /\ EventsInv' /\ Cursor' = c
         /\ \A i \in Seg : Due(i)' = IF i = c THEN Due(i) \o t[c] ELSE Due(i)
<1>1. \A i \in Seg : TextAt(i) # {} => i <= c
  BY DueType DEF EventsInv, SentInv
<1>3. c \in Nat /\ c + 0 <= N /\ N \in Nat /\ 0 \in Nat /\ 1 \in Nat
  BY NAssumption DEF Seg
<1>4. \A i \in Seg : Due(i) \in Texts
  BY DueType DEF EventsInv
<1> DEFINE e == Token({c}, t)
<1>5. e.kind = "token" /\ (\A i \in Seg : e.text[i] = IF i = c THEN t[c] ELSE <<>>) /\ e \in Event
  <2>1. {c} \subseteq Seg
    OBVIOUS
  <2> QED BY <2>1, TokenType DEF Token
<1>6. outbox' = <<e>>
  OBVIOUS
<1> HIDE DEF e
<1>7. outbox' \in Seq(Event) /\ Len(outbox') = 1 + 0 /\ outbox'[1] = e
      /\ \A p \in 1 + 1 .. 1 + 0 : outbox'[p] = Done(Cursor + p - 1 - 1)
  BY <1>5, <1>6
<1>8. ASSUME NEW j \in Seg, outbox'[1].text[j] # <<>>
      PROVE  Cursor <= j /\ \A i \in Seg : TextAt(i) # {} => i <= j
  <2>1. j = c
    BY <1>5, <1>7, <1>8
  <2> QED BY <1>1, <1>3, <2>1
<1>9. /\ EventsInv' /\ Cursor' = Cursor + 0
      /\ \A i \in Seg : Due(i)' = Due(i) \o outbox'[1].text[i]
  BY <1>3, <1>5, <1>7, <1>8, LoadEvents
<1>10. Cursor' = c
  BY <1>3, <1>9
<1>11. ASSUME NEW i \in Seg
       PROVE  Due(i)' = IF i = c THEN Due(i) \o t[c] ELSE Due(i)
  <2>1. Due(i)' = Due(i) \o e.text[i]
    BY <1>7, <1>9
  <2> QED BY <1>4, <1>5, <2>1, ConcatEmpty
<1> QED BY <1>9, <1>10, <1>11

-----------------------------------------------------------------------------
\* As many units of the same attempt are the same text.
LEMMA SameUnits ==
  ASSUME NEW s \in Texts, NEW t \in Texts, NEW a, Units(s, a), Units(t, a), Len(s) = Len(t)
  PROVE  s = t
  BY DEF Texts, Units

\* What was shown of a segment that completes is its answer.
LEMMA DraftIsAnswer ==
  ASSUME TypeInv, FlowInv, EventsInv, OptimisticInv, DraftsInv, TakeCompleted, Optimistic
  PROVE  /\ Head(progress).seg \in Seg \ got /\ ~(Head(progress).seg < next)
         /\ Due(Head(progress).seg) = IF Head(progress).seg \in published
                                      THEN Head(progress).text ELSE <<>>
<1> DEFINE m == Head(progress)
           s == m.seg
<1>1. /\ progress \in Seq(Message) /\ progress # <<>> /\ 1 \in DOMAIN progress
      /\ m = progress[1] /\ m \in Message /\ s \in Seg
  <2>1. progress \in Seq(Message) /\ progress # <<>>
    BY DEF TypeInv, TypeOK, TakeCompleted
  <2> QED BY <2>1, MessageType DEF TypeInv
<1>2. mpc = "wait" /\ m.kind = "completed" /\ m.verdict # "error"
  BY DEF TakeCompleted, At
<1> HIDE DEF m
<1>3. s \in Seg \ got
  BY <1>1, <1>2 DEF FlowInv, MessagesInv
<1>4. ~(s < next)
  BY <1>1, <1>2, <1>3 DEF OptimisticInv, Working
<1>5. s \notin published => Due(s) = <<>>
  BY <1>2, <1>3 DEF OptimisticInv, Working
<1>6. ASSUME s \in published PROVE Due(s) = m.text
  <2>1. s = next /\ pending[s] = <<>>
    <3>1. next \in Nat /\ published \subseteq 0 .. next /\ (next \in Seg => pending[next] = <<>>)
      BY <1>2 DEF OptimisticInv, Working, TypeInv, TypeOK
    <3>2. s \in 0 .. next
      BY <1>6, <3>1
    <3>3. s = next
      BY <1>4, <3>1, <3>2
    <3> QED BY <1>1, <3>1, <3>3
  <2>2. TokensOf(s) = {}
    <3>1. \A k \in TokensOf(s) : k < 1 /\ k \in Nat /\ k >= 1
      BY <1>1, <1>2 DEF FlowInv, MessagesInv, TokensOf
    <3> QED BY <3>1
  <2>3. Cardinality(TokensOf(s)) = 0
    BY <1>1, <2>2, TokensFinite
  <2>4. Due(s) \in Texts
    BY <1>1, DueType DEF EventsInv, TypeInv
  <2>5. Told(s) = Len(Due(s))
    BY <2>1, <2>3, <2>4 DEF Told, Texts
  <2>6. PICK a \in Nat \ {0} : DraftOf(s, a)
    BY <1>2, <1>3 DEF DraftsInv, Working
  <2>7. Len(m.text) = Told(s) /\ Units(m.text, a) /\ Units(Due(s), a)
    BY <1>1, <1>2, <2>6 DEF DraftOf
  <2>8. m.text \in Texts
    BY <1>1 DEF Message
  <2> QED BY <2>4, <2>5, <2>7, <2>8, SameUnits
<1> QED BY <1>3, <1>4, <1>5, <1>6 DEF m

LEMMA OptimisticTake ==
  ASSUME TypeInv, FlowInv, EventsInv, OptimisticInv, DraftsInv, Optimistic,
         TakeCompleted \/ TakeToken
  PROVE  OptimisticInv'
<1>1. /\ UNCHANGED <<job, next, published, sent, outbox>> /\ mpc = "wait" /\ mpc' = "publish"
  BY DEF TakeToken, TakeCompleted, At, chanVars, Optimistic
<1>2. Cursor' = Cursor /\ \A i \in Seg : Due(i)' = Due(i)
  BY <1>1, HandOver DEF TypeInv
<1>3. /\ Cursor = next
      /\ \A i \in Seg : i < next => i \in got
      /\ published \subseteq 0 .. next
      /\ \A i \in got : Due(i) = IF i < next \/ i \in published THEN text[i] ELSE <<>>
      /\ \A i \in Seg \ got : Due(i) # <<>> => i \in published
      /\ got \subseteq Seg
  BY <1>1 DEF OptimisticInv, Working, TypeInv, TypeOK
<1>4. CASE TakeToken
  <2>1. UNCHANGED <<got, text>>
    BY <1>4 DEF TakeToken
  <2> QED BY <1>1, <1>2, <1>3, <2>1 DEF OptimisticInv
<1>5. CASE TakeCompleted
  <2> DEFINE m == Head(progress)
             s == m.seg
  <2>1. got' = got \cup {s} /\ text' = [text EXCEPT ![s] = m.text]
    BY <1>5 DEF TakeCompleted
  <2>2. s \in Seg \ got /\ ~(s < next) /\ Due(s) = IF s \in published THEN m.text ELSE <<>>
    BY <1>5, DraftIsAnswer
  <2>3. text \in [Seg -> Texts]
    BY DEF TypeInv, TypeOK
  <2> HIDE DEF m
  <2>4. ASSUME NEW i \in got'
        PROVE  Due(i)' = IF i < next' \/ i \in published' THEN text'[i] ELSE <<>>
    <3>1. CASE i = s
      BY <1>1, <1>2, <2>1, <2>2, <2>3, <3>1
    <3>2. CASE i # s
      <4>1. i \in got /\ text'[i] = text[i]
        BY <1>3, <2>1, <2>3, <3>2
      <4> QED BY <1>1, <1>2, <1>3, <4>1
    <3> QED BY <3>1, <3>2
  <2> QED BY <1>1, <1>2, <1>3, <2>1, <2>4 DEF OptimisticInv
<1> QED BY <1>4, <1>5

\* Which texts may already be due: none behind the head.
LEMMA NothingAhead ==
  ASSUME TypeInv, OptimisticInv, mpc \in Working, Optimistic
  PROVE  \A i \in Seg : Due(i) # <<>> => i <= next
<1>1. /\ next \in Nat /\ published \subseteq 0 .. next
      /\ \A i \in got : Due(i) = IF i < next \/ i \in published THEN text[i] ELSE <<>>
      /\ \A i \in Seg \ got : Due(i) # <<>> => i \in published
  BY DEF OptimisticInv, TypeInv, TypeOK
<1> QED BY <1>1, SegType

\* What is shown of a segment that is not complete comes from its draft.
DraftMoves(i) ==
    \/ Due(i)' = Due(i) /\ pending'[i] = pending[i]
    \/ Due(i)' = Due(i) \o pending[i] /\ pending'[i] = <<>>

LEMMA OptimisticPublish ==
  ASSUME TypeInv, FlowInv, EventsInv, OptimisticInv, Optimistic,
         CachedPrefix \/ PublishHead \/ FlushReady \/ PublishDraft
  PROVE  /\ EventsInv' /\ OptimisticInv'
         /\ \A i \in Seg \ got : DraftMoves(i)
<1>0. TypeOK
  BY DEF TypeInv
<1>1. /\ mpc \in {"prefix", "publish", "flush"} /\ outbox = <<>> /\ sent' = sent
      /\ UNCHANGED <<job, got, text>>
      /\ mpc' \in {"prefix", "flush", "finish", "wait"}
  BY DEF CachedPrefix, PublishHead, FlushReady, PublishDraft, At, MainOnly
<1>2. /\ Cursor = next /\ next \in Nat
      /\ \A i \in Seg : i < next => i \in got
      /\ published \subseteq 0 .. next
      /\ mpc = "flush" => next \notin got \/ next \notin published
      /\ mpc = "prefix" => published = {} /\ pending = Blank
      /\ \A i \in got : Due(i) = IF i < next \/ i \in published THEN text[i] ELSE <<>>
      /\ \A i \in Seg \ got : Due(i) # <<>> => i \in published
      /\ got \subseteq Seg /\ text \in [Seg -> Texts] /\ pending \in [Seg -> Texts]
  BY <1>0, <1>1 DEF OptimisticInv, Working, TypeOK
<1>3. \A i \in Seg : Due(i) # <<>> => i <= next
  BY <1>1, NothingAhead DEF Working
<1>4. CASE CachedPrefix \/ FlushReady
  <2>1. /\ next \in got /\ outbox' = Piece(next, text) /\ next' = next + 1
        /\ UNCHANGED <<mpc, pending, published>>
        /\ mpc \in {"prefix", "flush"}
    BY <1>4 DEF CachedPrefix, FlushReady, Publish, At
  <2>2. /\ EventsInv' /\ Cursor' = next + 1
        /\ \A i \in Seg : Due(i)' = IF i = next THEN Due(i) \o text[next] ELSE Due(i)
    BY <1>0, <1>1, <1>2, <1>3, <2>1, LoadPiece
  <2>3. next \notin published /\ Due(next) = <<>>
    BY <1>2, <2>1
  <2>4. text[next] \in Texts /\ <<>> \o text[next] = text[next]
    BY <1>2, <2>1 DEF Texts
  <2>5. \A i \in Seg : Due(i)' = IF i = next THEN text[next] ELSE Due(i)
    BY <2>2, <2>3, <2>4
  <2>6. \A i \in Seg : i < next' => i \in got'
    BY <1>1, <1>2, <2>1, SegType
  <2>7. published' \subseteq 0 .. next'
    BY <1>2, <2>1
  <2>8. next' \notin published'
    BY <1>2, <2>1
  <2>9. \A i \in got' : Due(i)' = IF i < next' \/ i \in published' THEN text'[i] ELSE <<>>
    BY <1>1, <1>2, <2>1, <2>5, SegType
  <2>10. \A i \in Seg \ got' : Due(i)' # <<>> => i \in published'
    BY <1>1, <1>2, <2>1, <2>5
  <2>11. \A i \in Seg \ got : DraftMoves(i)
    BY <2>1, <2>5 DEF DraftMoves
  <2> QED BY <1>2, <2>1, <2>2, <2>6, <2>7, <2>8, <2>9, <2>10, <2>11 DEF OptimisticInv
<1>5. CASE PublishHead
  <2>1. mpc' = "flush" /\ UNCHANGED <<pending, published>>
    BY <1>5 DEF PublishHead
  <2>2. CASE next \in published /\ next \in got
    <3>1. outbox' = <<Done(next)>> /\ next' = next + 1
      BY <1>5, <2>2 DEF PublishHead
    <3>2. EventsInv' /\ Cursor' = next + 1 /\ \A i \in Seg : Due(i)' = Due(i)
      BY <1>0, <1>1, <1>2, <2>2, <3>1, LoadMark
    <3>3. \A i \in Seg : i < next' => i \in got'
      BY <1>1, <1>2, <2>2, <3>1, SegType
    <3>4. published' \subseteq 0 .. next' /\ next' \notin published'
      BY <1>2, <2>1, <3>1
    <3>5. \A i \in got' : Due(i)' = IF i < next' \/ i \in published' THEN text'[i] ELSE <<>>
      BY <1>1, <1>2, <2>1, <2>2, <3>1, <3>2, SegType
    <3> QED BY <1>1, <1>2, <2>1, <3>1, <3>2, <3>3, <3>4, <3>5 DEF OptimisticInv, DraftMoves
  <2>3. CASE ~(next \in published /\ next \in got)
    <3>1. UNCHANGED <<outbox, next>>
      BY <1>5, <2>3 DEF PublishHead
    <3>2. EventsInv' /\ Cursor' = Cursor /\ \A i \in Seg : Due(i)' = Due(i)
      BY <1>0, <1>1, <3>1, HandOver
    <3> QED BY <1>1, <1>2, <2>1, <2>3, <3>1, <3>2 DEF OptimisticInv, DraftMoves
  <2> QED BY <2>2, <2>3
<1>6. CASE PublishDraft
  <2>1. next' = next /\ next \notin got /\ mpc' \in {"finish", "wait"} /\ mpc = "flush"
    BY <1>6 DEF PublishDraft, At
  <2>2. CASE next \in Seg /\ pending[next] # <<>>
    <3>1. /\ outbox' = <<Token({next}, pending)>>
          /\ pending' = [pending EXCEPT ![next] = <<>>]
          /\ published' = published \cup {next}
      BY <1>6, <2>2 DEF PublishDraft
    <3>2. /\ EventsInv' /\ Cursor' = next
          /\ \A i \in Seg : Due(i)' = IF i = next THEN Due(i) \o pending[next] ELSE Due(i)
      BY <1>0, <1>1, <1>2, <1>3, <2>2, <3>1, LoadDraft
    <3>3. published' \subseteq 0 .. next' /\ pending'[next] = <<>>
      BY <1>2, <2>1, <2>2, <3>1
    <3>4. \A i \in got' : Due(i)' = IF i < next' \/ i \in published' THEN text'[i] ELSE <<>>
      BY <1>1, <1>2, <2>1, <3>1, <3>2
    <3>5. \A i \in Seg \ got' : Due(i)' # <<>> => i \in published'
      BY <1>1, <1>2, <3>1, <3>2
    <3>6. \A i \in Seg \ got : DraftMoves(i)
      BY <1>2, <2>2, <3>1, <3>2 DEF DraftMoves
    <3> QED BY <1>1, <1>2, <2>1, <2>2, <3>2, <3>3, <3>4, <3>5, <3>6 DEF OptimisticInv
  <2>3. CASE ~(next \in Seg /\ pending[next] # <<>>)
    <3>1. UNCHANGED <<outbox, pending, published>>
      BY <1>6, <2>3 DEF PublishDraft
    <3>2. EventsInv' /\ Cursor' = Cursor /\ \A i \in Seg : Due(i)' = Due(i)
      BY <1>0, <1>1, <3>1, HandOver
    <3> QED BY <1>1, <1>2, <2>1, <2>3, <3>1, <3>2 DEF OptimisticInv, DraftMoves
  <2> QED BY <2>2, <2>3
<1> QED BY <1>4, <1>5, <1>6

-----------------------------------------------------------------------------
\* A step that leaves a segment alone leaves its draft as it was.
LEMMA DraftFrame ==
  ASSUME NEW i \in Seg, NEW a \in Nat \ {0}, DraftOf(i, a), UNCHANGED progress,
         Due(i)' = Due(i), pending'[i] = pending[i],
         \/ task'[i] = task[i]
         \/ task[i].pc = "idle" /\ task'[i] = [Idle EXCEPT !.pc = "stream"]
  PROVE  DraftOf(i, a)'
<1>1. TokensOf(i)' = TokensOf(i) /\ Told(i)' = Told(i)
  BY DEF TokensOf, Told
<1>2. CASE task'[i] = task[i]
  BY <1>1, <1>2 DEF DraftOf
<1>3. CASE task[i].pc = "idle" /\ task'[i] = [Idle EXCEPT !.pc = "stream"]
  <2>1. Told(i) = 0
    BY <1>3 DEF DraftOf
  <2>2. task'[i].pc = "stream" /\ task'[i].draft = <<>> /\ Len(<<>>) = 0
    BY <1>3 DEF Idle
  <2> QED BY <1>1, <2>1, <2>2 DEF DraftOf
<1> QED BY <1>2, <1>3

LEMMA UnitsConcat ==
  ASSUME NEW s \in Texts, NEW t \in Texts, NEW a, Units(s, a), Units(t, a)
  PROVE  Units(s \o t, a) /\ Len(s \o t) = Len(s) + Len(t)
  BY DEF Texts, Units

LEMMA MoveOne == \A a, b, c \in Nat : a + (b + 1) + c = a + b + (c + 1)
  OBVIOUS

\* The three parts of what was told are counted by numbers.
LEMMA ToldType ==
  ASSUME TypeInv, EventsInv, NEW i \in Seg
  PROVE  /\ Due(i) \in Texts /\ pending[i] \in Texts
         /\ Len(Due(i)) \in Nat /\ Len(pending[i]) \in Nat /\ Cardinality(TokensOf(i)) \in Nat
         /\ Told(i) \in Nat
         /\ Told(i) = 0 => Due(i) = <<>> /\ pending[i] = <<>> /\ TokensOf(i) = {}
<1>1. Due(i) \in Texts /\ pending[i] \in Texts /\ progress \in Seq(Message)
  BY DueType DEF EventsInv, TypeInv, TypeOK
<1>2. /\ Cardinality(TokensOf(i)) \in Nat
      /\ Cardinality(TokensOf(i)) = 0 <=> TokensOf(i) = {}
  BY <1>1, TokensFinite
<1>3. Len(Due(i)) \in Nat /\ Len(pending[i]) \in Nat
      /\ (Len(Due(i)) = 0 => Due(i) = <<>>) /\ (Len(pending[i]) = 0 => pending[i] = <<>>)
  BY <1>1 DEF Texts
<1> QED BY <1>1, <1>2, <1>3 DEF Told

\* A draft that is published is still the same draft.
LEMMA DraftPublished ==
  ASSUME TypeInv, EventsInv, NEW i \in Seg, NEW a \in Nat \ {0}, DraftOf(i, a), UNCHANGED <<progress, task>>,
         DraftMoves(i)
  PROVE  DraftOf(i, a)'
<1>1. CASE Due(i)' = Due(i) /\ pending'[i] = pending[i]
  BY <1>1, DraftFrame
<1>2. CASE Due(i)' = Due(i) \o pending[i] /\ pending'[i] = <<>>
  <2>1. TokensOf(i)' = TokensOf(i)
    BY DEF TokensOf
  <2>2. Due(i) \in Texts /\ pending[i] \in Texts /\ Units(Due(i), a) /\ Units(pending[i], a)
    BY ToldType DEF DraftOf
  <2>3. Len(Due(i)') + Len(pending'[i]) = Len(Due(i)) + Len(pending[i])
    BY <1>2, <2>2 DEF Texts
  <2>4. Units(Due(i)', a) /\ Units(pending'[i], a)
    BY <1>2, <2>2 DEF Texts, Units
  <2>5. Told(i)' = Told(i)
    BY <2>1, <2>3 DEF Told
  <2> QED BY <2>1, <2>4, <2>5 DEF DraftOf
<1> QED BY <1>1, <1>2 DEF DraftMoves

\* The coordinator takes a message: a token moves to the drafts.
LEMMA DraftTaken ==
  ASSUME TypeInv, EventsInv, NEW i \in Seg, NEW a \in Nat \ {0}, DraftOf(i, a),
         progress # <<>>, progress' = Tail(progress), Due(i)' = Due(i),
         \/ task'[i] = task[i]
         \/ task[i].pc = "idle" /\ task'[i] = [Idle EXCEPT !.pc = "stream"],
         pending'[i] = IF Head(progress).kind = "token" /\ Head(progress).seg = i
                       THEN pending[i] \o Head(progress).text ELSE pending[i]
  PROVE  DraftOf(i, a)'
<1> DEFINE m == Head(progress)
<1>1. progress \in Seq(Message) /\ 1 \in DOMAIN progress /\ m = progress[1]
  BY DEF TypeInv, TypeOK
<1>2. /\ Cardinality(TokensOf(i)) = IF m.kind = "token" /\ m.seg = i
                                    THEN Cardinality(TokensOf(i))' + 1 ELSE Cardinality(TokensOf(i))'
      /\ Cardinality(TokensOf(i))' \in Nat
      /\ \A k \in TokensOf(i)' : k + 1 \in TokensOf(i) /\ progress'[k] = progress[k + 1]
  BY <1>1, TokensTail
<1>3. /\ Due(i) \in Texts /\ pending[i] \in Texts /\ Units(Due(i), a) /\ Units(pending[i], a)
      /\ Len(Due(i)) \in Nat /\ Len(pending[i]) \in Nat /\ Cardinality(TokensOf(i)) \in Nat
  BY ToldType DEF DraftOf
<1>4. m.kind = "token" /\ m.seg = i => m.text = <<a>>
  BY <1>1 DEF DraftOf, TokensOf
<1> HIDE DEF m
<1>5. Units(pending'[i], a) /\ Len(pending'[i]) = IF m.kind = "token" /\ m.seg = i
                                                  THEN Len(pending[i]) + 1 ELSE Len(pending[i])
  <2>1. CASE m.kind = "token" /\ m.seg = i
    <3>1. pending'[i] = pending[i] \o <<a>>
      BY <1>4, <2>1 DEF m
    <3>2. <<a>> \in Texts /\ Units(<<a>>, a) /\ Len(<<a>>) = 1
      BY DEF Texts, Units
    <3> HIDE DEF m
    <3>3. Units(pending[i] \o <<a>>, a) /\ Len(pending[i] \o <<a>>) = Len(pending[i]) + 1
      BY <1>3, <3>2, UnitsConcat
    <3> QED BY <2>1, <3>1, <3>3
  <2>2. CASE ~(m.kind = "token" /\ m.seg = i)
    BY <1>3, <2>2 DEF m
  <2> QED BY <2>1, <2>2
<1>6. Told(i)' = Told(i)
  <2>0. Told(i)' = Len(Due(i)) + Len(pending'[i]) + Cardinality(TokensOf(i))'
    BY DEF Told
  <2>1. CASE m.kind = "token" /\ m.seg = i
    <3>1. Told(i) = Len(Due(i)) + Len(pending[i]) + (Cardinality(TokensOf(i))' + 1)
      BY <1>2, <2>1 DEF Told
    <3>2. Told(i)' = Len(Due(i)) + (Len(pending[i]) + 1) + Cardinality(TokensOf(i))'
      BY <1>5, <2>0, <2>1
    <3> QED BY <1>2, <1>3, <3>1, <3>2, MoveOne, ZenonT(60)
  <2>2. CASE ~(m.kind = "token" /\ m.seg = i)
    BY <1>2, <1>5, <2>0, <2>2 DEF Told
  <2> QED BY <2>1, <2>2
<1>7. \A k \in DOMAIN progress' : k + 1 \in DOMAIN progress /\ progress'[k] = progress[k + 1]
  BY <1>1
<1>8. \A k \in TokensOf(i)' : progress'[k].text = <<a>>
  BY <1>2 DEF DraftOf
<1>9. \A k \in DOMAIN progress' :
          /\ progress'[k].kind = "completed" /\ progress'[k].seg = i
          /\ progress'[k].verdict # "error"
          => Len(progress'[k].text) = Told(i) /\ Units(progress'[k].text, a)
  BY <1>7 DEF DraftOf
<1>10. CASE task'[i] = task[i]
  BY <1>3, <1>5, <1>6, <1>8, <1>9, <1>10 DEF DraftOf
<1>11. CASE task[i].pc = "idle" /\ task'[i] = [Idle EXCEPT !.pc = "stream"]
  <2>1. Told(i) = 0
    BY <1>11 DEF DraftOf
  <2>2. task'[i].pc = "stream" /\ task'[i].draft = <<>> /\ Len(<<>>) = 0
    BY <1>11 DEF Idle
  <2> QED BY <1>3, <1>5, <1>6, <1>8, <1>9, <2>1, <2>2 DEF DraftOf
<1> QED BY <1>10, <1>11

-----------------------------------------------------------------------------
LEMMA TaskEvents ==
  ASSUME NEW i \in Seg, TaskStep(i)
  PROVE  UNCHANGED <<job, mpc, got, text, pending, published, next, remaining, missing, para,
                     degraded, candidates, provable, outbox, sent, backlog, open, cache, proof,
                     runs>>
  BY DEF TaskStep, StreamToken, StreamRestarted, StreamEnds, RetryEnds, RetryAnswers,
         TaskReports, TaskOnly, chanVars, store

\* A task's message is added to the channel.
LEMMA DraftMessage ==
  ASSUME TypeInv, NEW i \in Seg, NEW m \in Message, progress' = Append(progress, m),
         Due(i)' = Due(i), pending'[i] = pending[i]
  PROVE  /\ TokensOf(i)' = IF m.kind = "token" /\ m.seg = i
                           THEN TokensOf(i) \cup {Len(progress) + 1} ELSE TokensOf(i)
         /\ Told(i)' = IF m.kind = "token" /\ m.seg = i
                       THEN Len(Due(i)) + Len(pending[i]) + (Cardinality(TokensOf(i)) + 1)
                       ELSE Told(i)
         /\ DOMAIN progress' = DOMAIN progress \cup {Len(progress) + 1}
         /\ progress'[Len(progress) + 1] = m
         /\ \A k \in DOMAIN progress : progress'[k] = progress[k]
<1>1. progress \in Seq(Message)
  BY DEF TypeInv, TypeOK
<1>2. Told(i)' = Len(Due(i)) + Len(pending[i]) + Cardinality(TokensOf(i))'
  BY DEF Told
<1>3. /\ DOMAIN progress' = DOMAIN progress \cup {Len(progress) + 1}
      /\ progress'[Len(progress) + 1] = m
      /\ \A k \in DOMAIN progress : progress'[k] = progress[k]
  BY <1>1
<1> QED BY <1>1, <1>2, <1>3, TokensAppend DEF Told

\* The task of another segment.
LEMMA DraftOther ==
  ASSUME TypeInv, NEW i \in Seg, NEW j \in Seg, i # j, TaskStep(j), NEW a \in Nat \ {0}, DraftOf(i, a),
         Due(i)' = Due(i)
  PROVE  DraftOf(i, a)'
<1>1. pending' = pending /\ task'[i] = task[i]
  BY TaskEvents, TaskEffect
<1>2. CASE UNCHANGED progress
  BY <1>1, <1>2, DraftFrame
<1>3. ASSUME NEW m \in Message, progress' = Append(progress, m), m.seg = j
      PROVE  DraftOf(i, a)'
  <2>1. /\ TokensOf(i)' = TokensOf(i) /\ Told(i)' = Told(i)
        /\ DOMAIN progress' = DOMAIN progress \cup {Len(progress) + 1}
        /\ progress'[Len(progress) + 1] = m
        /\ \A k \in DOMAIN progress : progress'[k] = progress[k]
    BY <1>1, <1>3, DraftMessage
  <2>2. \A k \in TokensOf(i) : k \in DOMAIN progress
    BY DEF TokensOf
  <2> QED BY <1>1, <1>3, <2>1, <2>2 DEF DraftOf
<1> QED BY <1>2, <1>3, TaskEffect

\* A task whose channel was not heard yet: no outcome of it is there.
LEMMA NoOutcomeYet ==
  ASSUME AnsweredOnce, NEW i \in Seg, task[i].pc # "gone"
  PROVE  \A k \in DOMAIN progress : progress[k].kind = "completed" => progress[k].seg # i
  BY DEF AnsweredOnce

\* A settled task drafted what it told.
LEMMA DraftSettled ==
  ASSUME TypeInv, AnsweredOnce, NEW i \in Seg, NEW a \in Nat \ {0}, DraftOf(i, a),
         UNCHANGED progress, Due(i)' = Due(i), pending'[i] = pending[i],
         task[i].pc # "gone", NEW v, NEW d, Verdict(i, v, d),
         v # "error" => Len(d) = Told(i) /\ Units(d, a)
  PROVE  DraftOf(i, a)'
<1>1. task'[i].pc = "report" /\ task'[i].verdict = v /\ task'[i].draft = d
  BY DEF Verdict, Idle, TypeInv, TypeOK
<1>2. TokensOf(i)' = TokensOf(i) /\ Told(i)' = Told(i)
  BY DEF TokensOf, Told
<1> QED BY <1>1, <1>2 DEF DraftOf

LEMMA DraftStream ==
  ASSUME TypeInv, StoreInv, EventsInv, NEW i \in Seg, NEW a \in Nat \ {0}, DraftOf(i, a), Optimistic,
         Due(i)' = Due(i), StreamToken(i) \/ StreamRestarted(i) \/ StreamEnds(i)
  PROVE  \E b \in Nat \ {0} : DraftOf(i, b)'
<1>1. /\ task \in [Seg -> TaskState] /\ task[i] \in Attempts /\ task[i].pc = "stream"
      /\ pending' = pending
  BY TaskEvents DEF StreamToken, StreamRestarted, StreamEnds, TypeInv, TypeOK, TaskState, TaskStep
<1>2. Len(task[i].draft) = Told(i) /\ (Told(i) # 0 => a = task[i].attempt)
      /\ Units(Due(i), a) /\ Units(pending[i], a) /\ (\A k \in TokensOf(i) : progress[k].text = <<a>>)
  BY <1>1 DEF DraftOf
<1>3. task[i].attempt \in Nat \ {0} /\ task[i].draft \in Texts
  BY <1>1 DEF Attempts, StoreInv, TasksPure, DraftPure
<1>4. \A k \in DOMAIN progress : progress[k].kind = "completed" => progress[k].seg # i
  BY <1>1, NoOutcomeYet DEF StoreInv
<1>5. CASE StreamToken(i)
  <2> DEFINE c == task[i].attempt
             m == [kind |-> "token", seg |-> i, text |-> <<c>>, verdict |-> "none"]
  <2>1. m \in Message /\ m.kind = "token" /\ m.seg = i /\ m.text = <<c>>
    BY <1>3 DEF Message, Texts
  <2>2. progress' = Append(progress, m)
    BY <1>5 DEF StreamToken, Put
  <2>3. /\ task'[i].pc = "stream" /\ task'[i].attempt = c
        /\ task'[i].draft = Append(task[i].draft, c)
    BY <1>1, <1>5 DEF StreamToken, Attempts
  <2> HIDE DEF m
  <2>4. /\ TokensOf(i)' = TokensOf(i) \cup {Len(progress) + 1}
        /\ Told(i)' = Len(Due(i)) + Len(pending[i]) + (Cardinality(TokensOf(i)) + 1)
        /\ DOMAIN progress' = DOMAIN progress \cup {Len(progress) + 1}
        /\ progress'[Len(progress) + 1] = m
        /\ \A k \in DOMAIN progress : progress'[k] = progress[k]
    BY <1>1, <2>1, <2>2, DraftMessage
  <2>5. Told(i)' = Told(i) + 1 /\ Told(i) \in Nat
    BY <2>4, ToldType DEF Told
  <2>6. Len(task'[i].draft) = Told(i)'
    BY <1>2, <1>3, <2>3, <2>5 DEF Texts
  <2>7. PICK b \in Nat \ {0} : b = c
    BY <1>3
  <2>8. Units(Due(i), b) /\ Units(pending[i], b) /\ \A k \in TokensOf(i) : progress[k].text = <<b>>
    <3>1. CASE Told(i) # 0
      BY <1>2, <2>7, <3>1
    <3>2. CASE Told(i) = 0
      <4>1. Due(i) = <<>> /\ pending[i] = <<>> /\ TokensOf(i) = {}
        BY <3>2, ToldType
      <4> QED BY <4>1 DEF Units
    <3> QED BY <3>1, <3>2
  <2>9. \A k \in TokensOf(i)' : progress'[k].text = <<b>>
    <3>1. \A k \in TokensOf(i) : k \in DOMAIN progress
      BY DEF TokensOf
    <3> QED BY <2>1, <2>4, <2>7, <2>8, <3>1
  <2>10. \A k \in DOMAIN progress' : progress'[k].kind = "completed" => progress'[k].seg # i
    BY <1>4, <2>1, <2>4
  <2>11. DraftOf(i, b)'
    BY <1>1, <2>3, <2>6, <2>7, <2>8, <2>9, <2>10 DEF DraftOf
  <2> QED BY <2>11
<1>6. CASE StreamRestarted(i)
  <2>1. /\ task[i].draft = <<>> /\ progress' = progress
        /\ task'[i].pc = "stream" /\ task'[i].draft = <<>>
    BY <1>1, <1>6 DEF StreamRestarted, Attempts
  <2>2. Told(i) = 0 /\ Told(i)' = Told(i) /\ TokensOf(i)' = TokensOf(i)
    BY <1>1, <1>2, <2>1 DEF Told, TokensOf
  <2>3. DraftOf(i, a)'
    BY <1>1, <1>2, <1>4, <2>1, <2>2 DEF DraftOf
  <2> QED BY <2>3
<1>7. CASE StreamEnds(i)
  <2>0. progress' = progress
    BY <1>7 DEF StreamEnds
  <2>1. CASE Verdict(i, "error", <<>>)
    BY <1>1, <2>0, <2>1, DraftSettled DEF StoreInv
  <2>2. CASE Verdict(i, "first", task[i].draft)
    <3>1. Units(task[i].draft, task[i].attempt)
      BY <1>1 DEF StoreInv, TasksPure, DraftPure, Units
    <3>2. Units(task[i].draft, a)
      BY <1>2, <1>3, <3>1 DEF Units, Texts
    <3> QED BY <1>1, <1>2, <2>0, <2>2, <3>2, DraftSettled DEF StoreInv
  <2>3. CASE Exhausted(i)
    <3>1. Verdict(i, "error", <<>>)
      BY <2>3 DEF Exhausted
    <3> QED BY <2>1, <3>1
  <2>4. CASE task[i].draft = <<>> /\ task' = [task EXCEPT ![i].pc = "retry", ![i].draft = <<>>,
                                                       ![i].attempt = @ + 1]
    <3>1. task'[i].pc = "retry"
      BY <1>1, <2>4 DEF Attempts
    <3>2. Told(i) = 0 /\ Told(i)' = Told(i) /\ TokensOf(i)' = TokensOf(i)
      BY <1>1, <1>2, <2>0, <2>4 DEF Told, TokensOf
    <3>3. DraftOf(i, a)'
      BY <1>1, <1>2, <1>4, <2>0, <3>1, <3>2 DEF DraftOf
    <3> QED BY <3>3
  <2> QED BY <1>7, <2>1, <2>2, <2>3, <2>4 DEF StreamEnds
<1> QED BY <1>5, <1>6, <1>7

LEMMA DraftRetry ==
  ASSUME TypeInv, StoreInv, EventsInv, NEW i \in Seg, NEW a \in Nat \ {0}, DraftOf(i, a), Optimistic,
         Due(i)' = Due(i), RetryEnds(i) \/ RetryAnswers(i)
  PROVE  \E b \in Nat \ {0} : DraftOf(i, b)'
<1>1. /\ task \in [Seg -> TaskState] /\ task[i] \in Attempts /\ task[i].pc \in {"retry", "answer"}
      /\ pending' = pending
  BY TaskEvents DEF RetryEnds, RetryAnswers, TypeInv, TypeOK, TaskState, TaskStep
<1>2. Told(i) = 0 /\ Due(i) = <<>> /\ pending[i] = <<>> /\ TokensOf(i) = {}
  BY <1>1, ToldType DEF DraftOf
<1>3. task[i].attempt \in Nat \ {0} /\ task[i].draft \in Texts
  BY <1>1 DEF Attempts, StoreInv, TasksPure, DraftPure
<1>4. \A k \in DOMAIN progress : progress[k].kind = "completed" => progress[k].seg # i
  BY <1>1, NoOutcomeYet DEF StoreInv
<1>5. CASE RetryEnds(i)
  <2>0. progress' = progress
    BY <1>5 DEF RetryEnds
  <2>1. CASE Verdict(i, "error", <<>>)
    BY <1>1, <2>0, <2>1, DraftSettled DEF StoreInv
  <2>2. CASE Verdict(i, "retried", <<>>)
    <3>1. Len(<<>>) = Told(i) /\ Units(<<>>, a)
      BY <1>2 DEF Units
    <3> QED BY <1>1, <2>0, <2>2, <3>1, DraftSettled DEF StoreInv
  <2>3. CASE Exhausted(i)
    <3>1. Verdict(i, "error", <<>>)
      BY <2>3 DEF Exhausted
    <3> QED BY <2>1, <3>1
  <2>4. CASE \/ task' = [task EXCEPT ![i].pc = "answer", ![i].draft = <<task[i].attempt>>]
             \/ task' = [task EXCEPT ![i].left = @ - 1, ![i].attempt = @ + 1]
    <3>1. /\ task'[i].pc \in {"retry", "answer"}
          /\ task'[i].pc = "answer" => task'[i].draft = <<task'[i].attempt>>
      BY <1>1, <1>5, <2>4 DEF Attempts, RetryEnds
    <3>2. Told(i)' = Told(i) /\ TokensOf(i)' = TokensOf(i)
      BY <1>1, <2>0 DEF Told, TokensOf
    <3>3. DraftOf(i, a)'
      BY <1>1, <1>2, <1>4, <2>0, <3>1, <3>2 DEF DraftOf, Units
    <3> QED BY <3>3
  <2> QED BY <1>5, <2>1, <2>2, <2>3, <2>4 DEF RetryEnds
<1>6. CASE RetryAnswers(i)
  <2> DEFINE c == task[i].attempt
             m == [kind |-> "token", seg |-> i, text |-> <<c>>, verdict |-> "none"]
  <2>1. m \in Message /\ m.kind = "token" /\ m.seg = i /\ m.text = <<c>>
    BY <1>3 DEF Message, Texts
  <2>2. task[i].pc = "answer" /\ task[i].draft = <<c>>
    BY <1>6 DEF RetryAnswers, DraftOf
  <2>3. progress' = Append(progress, m)
    BY <1>6, <2>2 DEF RetryAnswers, Put
  <2>4. task'[i].pc = "report" /\ task'[i].draft = <<c>>
    BY <1>1, <1>6, <2>2 DEF RetryAnswers, Verdict, Idle
  <2> HIDE DEF m
  <2>5. /\ TokensOf(i)' = TokensOf(i) \cup {Len(progress) + 1}
        /\ Told(i)' = Len(Due(i)) + Len(pending[i]) + (Cardinality(TokensOf(i)) + 1)
        /\ DOMAIN progress' = DOMAIN progress \cup {Len(progress) + 1}
        /\ progress'[Len(progress) + 1] = m
        /\ \A k \in DOMAIN progress : progress'[k] = progress[k]
    BY <1>1, <2>1, <2>3, DraftMessage
  <2>6. Told(i)' = 1
    BY <1>2, <2>5, FS_EmptySet
  <2>7. PICK b \in Nat \ {0} : b = c
    BY <1>3
  <2>8. \A k \in TokensOf(i)' : progress'[k].text = <<b>>
    BY <1>2, <2>1, <2>5, <2>7
  <2>9. \A k \in DOMAIN progress' : progress'[k].kind = "completed" => progress'[k].seg # i
    BY <1>4, <2>1, <2>5
  <2>10. Units(Due(i)', b) /\ Units(pending'[i], b)
    BY <1>1, <1>2 DEF Units
  <2>11. Len(task'[i].draft) = 1 /\ Units(task'[i].draft, b)
    BY <2>4, <2>7 DEF Units
  <2>12. DraftOf(i, b)'
    BY <2>4, <2>6, <2>8, <2>9, <2>10, <2>11 DEF DraftOf
  <2> QED BY <2>12
<1> QED BY <1>5, <1>6

LEMMA DraftReport ==
  ASSUME TypeInv, StoreInv, EventsInv, NEW i \in Seg, NEW a \in Nat \ {0}, DraftOf(i, a),
         Due(i)' = Due(i), TaskReports(i)
  PROVE  DraftOf(i, a)'
<1>1. /\ task \in [Seg -> TaskState] /\ task[i] \in Attempts /\ task[i].pc = "report"
      /\ pending' = pending
  BY TaskEvents DEF TaskReports, TypeInv, TypeOK, TaskState, TaskStep
<1> DEFINE m == [kind |-> "completed", seg |-> i, text |-> task[i].draft,
                 verdict |-> task[i].verdict]
<1>2. /\ m \in Message /\ m.kind = "completed" /\ m.seg = i /\ m.text = task[i].draft
      /\ m.verdict = task[i].verdict
  BY <1>1 DEF Message, Attempts
<1>3. progress' = Append(progress, m)
  BY DEF TaskReports, Put
<1>4. task'[i].pc = "gone"
  BY <1>1 DEF TaskReports, Attempts
<1> HIDE DEF m
<1>5. /\ TokensOf(i)' = TokensOf(i) /\ Told(i)' = Told(i)
      /\ DOMAIN progress' = DOMAIN progress \cup {Len(progress) + 1}
      /\ progress'[Len(progress) + 1] = m
      /\ \A k \in DOMAIN progress : progress'[k] = progress[k]
  BY <1>1, <1>2, <1>3, DraftMessage
<1>6. m.verdict # "error" => Len(m.text) = Told(i) /\ Units(m.text, a)
  BY <1>1, <1>2 DEF DraftOf
<1>7. \A k \in TokensOf(i) : k \in DOMAIN progress
  BY DEF TokensOf
<1> QED BY <1>1, <1>2, <1>4, <1>5, <1>6, <1>7 DEF DraftOf

LEMMA DraftTask ==
  ASSUME TypeInv, StoreInv, EventsInv, NEW i \in Seg, NEW j \in Seg, NEW a \in Nat \ {0}, DraftOf(i, a),
         Optimistic, Due(i)' = Due(i), TaskStep(j)
  PROVE  \E b \in Nat \ {0} : DraftOf(i, b)'
<1>1. CASE i # j
  BY <1>1, DraftOther
<1>2. CASE i = j
  BY <1>2, DraftStream, DraftRetry, DraftReport DEF TaskStep
<1> QED BY <1>1, <1>2

-----------------------------------------------------------------------------
\* What happens while segments are being answered.
LEMMA WorkingStep ==
  ASSUME mpc \in Working, mpc' \in Working, [Next]_vars
  PROVE  \/ \E i \in Seg : TaskStep(i)
         \/ CachedPrefix \/ PublishHead \/ FlushReady \/ PublishDraft
         \/ TakeToken \/ TakeCompleted \/ Dispatch
         \/ MeasureOwner \/ PublishOriginal \/ PublishTranslated \/ ParagraphDone
         \/ AfterPrefix \/ Send \/ Receive \/ CloseReceiver \/ UNCHANGED vars
<1>1. CASE ReceiverDropped \/ PrepareFails \/ TakeError \/ Crash \/ NewRun
  BY <1>1 DEF ReceiverDropped, PrepareFails, TakeError, Crash, NewRun, Abort, Working
<1>2. CASE StartReplay \/ AdmitReplay \/ Lookup
  BY <1>2 DEF StartReplay, AdmitReplay, Lookup, At, Working
<1>3. CASE Finalize \/ RenderWhole \/ RenderPiece \/ Admit
  BY <1>3 DEF Finalize, RenderWhole, RenderPiece, Admit, At, Working
<1>4. CASE StoreCandidate \/ StoredAll \/ RecordTask \/ SendTerminal
  BY <1>4 DEF StoreCandidate, StoredAll, RecordTask, SendTerminal, At, Working
<1> QED BY <1>1, <1>2, <1>3, <1>4 DEF Next, Coordinator

LEMMA DraftsFrom ==
  ASSUME Optimistic, mpc \in Working, DraftsInv, got \subseteq got',
         \A i \in Seg \ got', a \in Nat \ {0} : DraftOf(i, a) => \E b \in Nat \ {0} : DraftOf(i, b)'
  PROVE  DraftsInv'
  BY DEF DraftsInv

LEMMA OptimisticWorks ==
  ASSUME TypeInv, StoreInv, FlowInv, EventsInv, OptimisticInv, DraftsInv,
         mpc \in Working, mpc' \in Working, Optimistic, [Next]_vars
  PROVE  EventsInv' /\ OptimisticInv' /\ DraftsInv'
<1>0. TypeOK /\ pending \in [Seg -> Texts] /\ mpc # "paragraph"
  BY DEF TypeInv, TypeOK, FlowInv, PhaseInv, Optimistic
<1>1. ASSUME NEW j \in Seg, TaskStep(j)
      PROVE  EventsInv' /\ OptimisticInv' /\ DraftsInv'
  <2>1. UNCHANGED <<job, mpc, got, text, pending, published, next, sent, outbox>>
    BY <1>1, TaskEvents
  <2>2. EventsInv' /\ Cursor' = Cursor /\ \A i \in Seg : Due(i)' = Due(i)
    BY <1>0, <2>1, HandOver
  <2>3. OptimisticInv'
    BY <2>1, <2>2 DEF OptimisticInv, Optimistic, TypeInv, TypeOK
  <2>4. ASSUME NEW i \in Seg, NEW a \in Nat \ {0}, DraftOf(i, a)
        PROVE  \E b \in Nat \ {0} : DraftOf(i, b)'
    BY <1>1, <2>2, <2>4, DraftTask
  <2> QED BY <2>1, <2>2, <2>3, <2>4, DraftsFrom
<1>2. CASE CachedPrefix \/ PublishHead \/ FlushReady \/ PublishDraft
  <2>1. EventsInv' /\ OptimisticInv' /\ \A i \in Seg \ got : DraftMoves(i)
    BY <1>2, OptimisticPublish
  <2>2. UNCHANGED <<task, progress, got>>
    BY <1>2 DEF CachedPrefix, PublishHead, FlushReady, PublishDraft, MainOnly
  <2>3. ASSUME NEW i \in Seg \ got, NEW a \in Nat \ {0}, DraftOf(i, a)
        PROVE  \E b \in Nat \ {0} : DraftOf(i, b)'
    BY <2>1, <2>2, <2>3, DraftPublished
  <2> QED BY <2>1, <2>2, <2>3, DraftsFrom
<1>3. CASE TakeToken \/ TakeCompleted
  <2>0. OptimisticInv'
    BY <1>3, OptimisticTake
  <2>1. /\ UNCHANGED <<job, sent, outbox>> /\ progress # <<>> /\ progress' = Tail(progress)
        /\ got \subseteq got'
        /\ UNCHANGED task \/ task' = Spawned(remaining)
    BY <1>3 DEF TakeToken, TakeCompleted, Release, chanVars
  <2>2. EventsInv' /\ \A i \in Seg : Due(i)' = Due(i)
    BY <1>0, <2>1, HandOver
  <2>3. ASSUME NEW i \in Seg \ got', NEW a \in Nat \ {0}, DraftOf(i, a)
        PROVE  \E b \in Nat \ {0} : DraftOf(i, b)'
    <3>1. \/ task'[i] = task[i]
          \/ task[i].pc = "idle" /\ task'[i] = [Idle EXCEPT !.pc = "stream"]
      BY <2>1 DEF Spawned, StoreInv, AnsweredOnce
    <3>2. pending'[i] = IF Head(progress).kind = "token" /\ Head(progress).seg = i
                        THEN pending[i] \o Head(progress).text ELSE pending[i]
      <4>1. CASE TakeToken
        BY <1>0, <4>1 DEF TakeToken
      <4>2. CASE TakeCompleted
        BY <1>0, <2>3, <4>2 DEF TakeCompleted
      <4> QED BY <1>3, <4>1, <4>2
    <3> QED BY <2>1, <2>2, <2>3, <3>1, <3>2, DraftTaken
  <2> QED BY <2>0, <2>1, <2>2, <2>3, DraftsFrom
<1>4. CASE Dispatch
  <2>1. UNCHANGED <<job, progress, got, text, pending, published, next, sent, outbox>>
        /\ mpc = "dispatch" /\ mpc' = "wait"
    BY <1>4 DEF Dispatch, At, chanVars
  <2>2. EventsInv' /\ Cursor' = Cursor /\ \A i \in Seg : Due(i)' = Due(i)
    BY <1>0, <2>1, HandOver
  <2>3. OptimisticInv'
    BY <2>1, <2>2 DEF OptimisticInv, Optimistic, Working, Blank, TypeInv, TypeOK
  <2>4. ASSUME NEW i \in Seg, NEW a \in Nat \ {0}, DraftOf(i, a)
        PROVE  \E b \in Nat \ {0} : DraftOf(i, b)'
    <3>1. \/ task'[i] = task[i]
          \/ task[i].pc = "idle" /\ task'[i] = [Idle EXCEPT !.pc = "stream"]
      BY <1>4 DEF Dispatch, At, Spawned, StoreInv, AnsweredOnce
    <3> QED BY <2>1, <2>2, <2>4, <3>1, DraftFrame
  <2> QED BY <2>1, <2>2, <2>3, <2>4, DraftsFrom
<1>5. CASE AfterPrefix \/ Send \/ Receive \/ CloseReceiver \/ UNCHANGED vars
  <2>1. /\ UNCHANGED <<job, task, progress, got, text, pending, published, next>>
        /\ Send \/ UNCHANGED <<sent, outbox>>
        /\ \/ mpc' = mpc
           \/ mpc = "prefix" /\ mpc' \in {"dispatch", "finish"} /\ next \notin got
    BY <1>5 DEF AfterPrefix, MainOnly, At, Receive, CloseReceiver, Send, vars, runVars, chanVars,
                Optimistic
  <2>2. EventsInv' /\ Cursor' = Cursor /\ \A i \in Seg : Due(i)' = Due(i)
    BY <1>0, <2>1, HandOver
  <2>3. OptimisticInv'
    <3>1. CASE mpc' = mpc
      BY <2>1, <2>2, <3>1 DEF OptimisticInv, Optimistic, TypeInv, TypeOK
    <3>2. CASE mpc = "prefix" /\ mpc' \in {"dispatch", "finish"} /\ next \notin got
      BY <2>1, <2>2, <3>2 DEF OptimisticInv, Optimistic, TypeInv, TypeOK, Blank
    <3> QED BY <2>1, <3>1, <3>2
  <2>4. ASSUME NEW i \in Seg, NEW a \in Nat \ {0}, DraftOf(i, a)
        PROVE  \E b \in Nat \ {0} : DraftOf(i, b)'
    BY <2>1, <2>2, <2>4, DraftFrame
  <2> QED BY <2>1, <2>2, <2>3, <2>4, DraftsFrom
<1>6. CASE MeasureOwner \/ PublishOriginal \/ PublishTranslated \/ ParagraphDone
  BY <1>0, <1>6 DEF MeasureOwner, PublishOriginal, PublishTranslated, ParagraphDone, At
<1> QED BY <1>1, <1>2, <1>3, <1>4, <1>5, <1>6, WorkingStep

LEMMA OptimisticStart ==
  ASSUME TypeInv, StoreInv, FlowInv, Lookup
  PROVE  EventsInv' /\ OptimisticInv' /\ DraftsInv'
<1>1. /\ mpc = "start" /\ mpc' = "prefix" /\ got' \subseteq Seg
      /\ UNCHANGED <<job, task, progress, pending, published, next, sent, outbox>>
  BY DEF Lookup, At, chanVars
<1>2. /\ progress' = <<>> /\ published' = {} /\ pending' = Blank /\ next' = 0
      /\ sent' = <<>> /\ outbox' = <<>>
  BY <1>1 DEF FlowInv, CleanStart
<1>3. /\ EventsInv' /\ Cursor' = 0
      /\ \A i \in Seg : Due(i)' = <<>>
  <2>1. EventsInv /\ Cursor = 0 /\ \A i \in Seg : Due(i) = <<>>
    BY <1>1, <1>2, NoEvents
  <2> QED BY <1>1, <2>1, HandOver DEF TypeInv
<1>4. OptimisticInv'
  BY <1>1, <1>2, <1>3, SegType DEF OptimisticInv
<1>5. ASSUME NEW i \in Seg \ got'
      PROVE  DraftOf(i, 1)'
  <2>1. TokensOf(i)' = {} /\ DOMAIN progress' = {} /\ pending'[i] = <<>>
    BY <1>2 DEF TokensOf, Blank
  <2>2. Told(i)' = 0
    BY <1>3, <2>1, FS_EmptySet DEF Told
  <2>3. task'[i].pc = "idle"
    BY <1>1 DEF StoreInv, AnsweredOnce
  <2> QED BY <1>3, <2>1, <2>2, <2>3 DEF DraftOf, Units
<1> QED BY <1>3, <1>4, <1>5 DEF DraftsInv

-----------------------------------------------------------------------------
(* Paragraph and Validated output: what is due.                              *)

ParagraphText(i) == IF Owner[i] \in para.degraded THEN Source ELSE text[i]

ParagraphEvents ==
    mpc \in Working /\ job.mode = "Paragraph" =>
       /\ Cursor = para.next
       /\ \A i \in Seg : Due(i) = IF i < para.next THEN ParagraphText(i) ELSE <<>>

\* Validated output shows nothing before everything is answered.
ValidatedEvents ==
    mpc \in Working /\ job.mode = "Validated" =>
       sent = <<>> /\ outbox = <<>> /\ Cursor = 0 /\ \A i \in Seg : Due(i) = <<>>

LEMMA ParagraphTranslated ==
  ASSUME TypeInv, EventsInv, ParagraphEvents, mpc \in Working, job.mode = "Paragraph",
         PublishTranslated
  PROVE  EventsInv' /\ ParagraphEvents'
<1> DEFINE c == para.next
<1>1. /\ outbox = <<>> /\ UNCHANGED <<job, got, text, sent>> /\ mpc' = mpc
      /\ outbox' = Piece(c, text) /\ Owner[c] \notin para.degraded
      /\ para'.next = c + 1 /\ para'.degraded = para.degraded
      /\ c \in Seg /\ c \in Nat /\ text \in [Seg -> Texts] /\ TypeOK
  <2>1. c \in 0 .. N /\ c < para.end /\ para.end \in 0 .. N /\ N \in Nat /\ OwnerReady
    BY ParaType DEF TypeInv, PublishTranslated, OwnerReady
  <2>2. c \in Seg
    BY <2>1 DEF Seg
  <2>3. para'.next = c + 1 /\ para'.degraded = para.degraded
    BY DEF PublishTranslated, TypeInv, TypeOK
  <2> QED BY <2>1, <2>2, <2>3 DEF PublishTranslated, At, MainOnly, TypeInv, TypeOK
<1>2. Cursor = c /\ \A i \in Seg : Due(i) = IF i < c THEN ParagraphText(i) ELSE <<>>
  BY DEF ParagraphEvents
<1>3. \A i \in Seg : Due(i) # <<>> => i <= c
  BY <1>1, <1>2, SegType
<1> HIDE DEF c
<1>4. /\ EventsInv' /\ Cursor' = c + 1
      /\ \A i \in Seg : Due(i)' = IF i = c THEN Due(i) \o text[c] ELSE Due(i)
  BY <1>1, <1>2, <1>3, LoadPiece
<1>5. \A i \in Seg : i = c => Due(i) = <<>> /\ <<>> \o text[i] = text[i]
  BY <1>1, <1>2 DEF Texts
<1>6. \A i \in Seg : ParagraphText(i)' = ParagraphText(i)
  BY <1>1 DEF ParagraphText
<1>7. \A i \in Seg : i = c => ParagraphText(i) = text[i]
  BY <1>1 DEF ParagraphText
<1>8. ASSUME NEW i \in Seg
      PROVE  Due(i)' = IF i < para'.next THEN ParagraphText(i)' ELSE <<>>
  <2>1. CASE i = c
    <3>0. Due(i)' = Due(i) \o text[i]
      BY <1>4, <2>1
    <3>3. Due(i) = <<>> /\ <<>> \o text[i] = text[i]
      BY <1>5, <2>1
    <3>4. i < c + 1
      BY <1>1, <2>1
    <3>1. Due(i)' = text[i] /\ i < c + 1
      BY <3>0, <3>3, <3>4
    <3>2. ParagraphText(i)' = text[i]
      BY <1>6, <1>7, <2>1
    <3> QED BY <1>1, <3>1, <3>2
  <2>2. CASE i # c
    <3>1. i < c <=> i < c + 1
      BY <1>1, <2>2, SegType
    <3> QED BY <1>1, <1>2, <1>4, <1>6, <2>2, <3>1
  <2> QED BY <2>1, <2>2
<1> QED BY <1>1, <1>4, <1>8 DEF ParagraphEvents

LEMMA ParagraphOriginal ==
  ASSUME TypeInv, FlowInv, EventsInv, ParagraphInv, ParagraphEvents, mpc \in Working,
         job.mode = "Paragraph", PublishOriginal
  PROVE  EventsInv' /\ ParagraphEvents'
<1> DEFINE a == para.next
           b == para.end
           m == b - a
           t == [i \in a .. b - 1 |-> Source]
           e == Token(a .. b - 1, t)
           marks == [k \in 1 .. m |-> Done(a + k - 1)]
<1>1. /\ outbox = <<>> /\ UNCHANGED <<job, got, text, sent>> /\ mpc' = mpc /\ mpc = "paragraph"
      /\ outbox' = <<e>> \o marks /\ Owner[a] \in para.degraded
      /\ para'.next = b /\ para'.degraded = para.degraded
      /\ a \in Nat /\ b \in Nat /\ a < b /\ b <= N /\ N \in Nat
      /\ a .. b - 1 \subseteq Seg /\ TypeOK /\ OwnerReady
  <2>1. a \in 0 .. N /\ a < b /\ b \in 0 .. N /\ N \in Nat /\ OwnerReady
    BY ParaType DEF TypeInv, PublishOriginal, OwnerReady
  <2>2. a .. b - 1 \subseteq Seg
    BY <2>1 DEF Seg
  <2>3. para'.next = b /\ para'.degraded = para.degraded
    BY DEF PublishOriginal, TypeInv, TypeOK
  <2> QED BY <2>1, <2>2, <2>3, SMTT(30) DEF PublishOriginal, At, MainOnly, TypeInv, TypeOK
<1>2. Cursor = a /\ \A i \in Seg : Due(i) = IF i < a THEN ParagraphText(i) ELSE <<>>
  BY DEF ParagraphEvents
<1>3. /\ e.kind = "token"
      /\ \A i \in Seg : e.text[i] = IF i \in a .. b - 1 THEN Source ELSE <<>>
      /\ e \in Event
  <2>1. \A i \in a .. b - 1 : t[i] = Source
    OBVIOUS
  <2> HIDE DEF t
  <2>2. e.kind = "token" /\ \A i \in Seg : e.text[i] = IF i \in a .. b - 1 THEN Source ELSE <<>>
    BY <2>1 DEF Token
  <2>3. e \in Event
    BY <1>1, <2>1, BlankType, TokenType
  <2> QED BY <2>2, <2>3
<1>4. marks \in Seq(Event) /\ Len(marks) = m /\ m \in Nat
      /\ \A k \in 1 .. m : marks[k] = Done(a + k - 1)
  <2>1. m \in Nat
    BY <1>1
  <2>2. \A k \in 1 .. m : a + k - 1 \in Seg
    BY <1>1 DEF Seg
  <2>3. \A k \in 1 .. m : Done(a + k - 1) \in Event
    BY <2>2, DoneType
  <2> QED BY <2>1, <2>3
<1> HIDE DEF e, marks
<1>5. /\ outbox' \in Seq(Event) /\ Len(outbox') = 1 + m /\ outbox'[1] = e
      /\ \A p \in 2 .. m + 1 : outbox'[p] = marks[p - 1] /\ p - 1 \in 1 .. m
  BY <1>1, <1>3, <1>4
<1>6. ASSUME NEW p \in 1 + 1 .. 1 + m
      PROVE  outbox'[p] = Done(Cursor + p - 1 - 1)
  <2>1. p \in 2 .. m + 1 /\ p \in Nat
    BY <1>4
  <2>2. outbox'[p] = marks[p - 1] /\ p - 1 \in 1 .. m
    BY <1>5, <2>1
  <2>3. marks[p - 1] = Done(a + (p - 1) - 1)
    BY <1>4, <2>2
  <2>4. a + (p - 1) - 1 = a + p - 1 - 1
    BY <1>1, <2>1
  <2> QED BY <1>2, <2>2, <2>3, <2>4
<1>7. \A i \in Seg : TextAt(i) # {} => i < a
  BY <1>1, <1>2, DueType DEF EventsInv, SentInv
<1>8. ASSUME NEW j \in Seg, outbox'[1].text[j] # <<>>
      PROVE  Cursor <= j /\ \A i \in Seg : TextAt(i) # {} => i <= j
  <2>1. j \in a .. b - 1
    BY <1>3, <1>5, <1>8
  <2> QED BY <1>1, <1>2, <1>7, <2>1, SegType
<1>9. Cursor + m <= N /\ a + m = b
  BY <1>1, <1>2
<1> HIDE DEF m
<1>10. /\ EventsInv' /\ Cursor' = Cursor + m
       /\ \A i \in Seg : Due(i)' = Due(i) \o outbox'[1].text[i]
  BY <1>1, <1>3, <1>4, <1>5, <1>6, <1>8, <1>9, LoadEvents
<1>11. Cursor' = para'.next
  BY <1>1, <1>2, <1>9, <1>10
<1>12. \A i \in Seg : ParagraphText(i)' = ParagraphText(i)
  BY <1>1 DEF ParagraphText
<1>13. \A i \in Seg : i \in a .. b - 1 => ParagraphText(i) = Source
  <2>1. \A i \in Span : Owner[i] = Owner[a]
    BY <1>1, ReadyOwner DEF ParagraphInv
  <2> QED BY <1>1, <2>1 DEF ParagraphText, Span
<1>14. ASSUME NEW i \in Seg
       PROVE  Due(i)' = IF i < para'.next THEN ParagraphText(i)' ELSE <<>>
  <2>1. Due(i)' = Due(i) \o e.text[i] /\ Due(i) \in Texts /\ i \in Nat
    BY <1>1, <1>5, <1>10, DueType, SegType DEF EventsInv
  <2>2. CASE i \in a .. b - 1
    <3>1. Due(i) = <<>> /\ i < b
      BY <1>1, <1>2, <2>1, <2>2
    <3>2. <<>> \o Source = Source
      BY DEF Source
    <3> QED BY <1>1, <1>3, <1>12, <1>13, <2>1, <2>2, <3>1, <3>2
  <2>3. CASE i \notin a .. b - 1
    <3>1. Due(i)' = Due(i)
      BY <1>3, <2>1, <2>3, ConcatEmpty
    <3>2. i < a <=> i < b
      BY <1>1, <2>1, <2>3
    <3> QED BY <1>1, <1>2, <1>12, <3>1, <3>2
  <2> QED BY <2>2, <2>3
<1> QED BY <1>1, <1>10, <1>11, <1>14 DEF ParagraphEvents

LEMMA ParagraphTaken ==
  ASSUME TypeInv, FlowInv, EventsInv, ParagraphInv, ParagraphEvents, mpc \in Working,
         job.mode = "Paragraph", TakeCompleted
  PROVE  EventsInv' /\ ParagraphEvents'
<1> DEFINE m == Head(progress)
           s == m.seg
<1>1. /\ progress \in Seq(Message) /\ progress # <<>> /\ 1 \in DOMAIN progress
      /\ m = progress[1] /\ m \in Message /\ s \in Seg
  <2>1. progress \in Seq(Message) /\ progress # <<>>
    BY DEF TypeInv, TypeOK, TakeCompleted
  <2> QED BY <2>1, MessageType DEF TypeInv
<1>2. /\ got' = got \cup {s} /\ text' = [text EXCEPT ![s] = m.text] /\ m.kind = "completed"
      /\ UNCHANGED <<job, sent, outbox>> /\ para' = ParagraphCounts(s, m.verdict)
      /\ text \in [Seg -> Texts]
  BY DEF TakeCompleted, chanVars, TypeInv, TypeOK
<1> HIDE DEF m
<1>3. s \notin got
  BY <1>1, <1>2 DEF FlowInv, MessagesInv
<1>4. para'.next = para.next /\ para'.degraded \subseteq para.degraded \cup {Owner[s]}
      /\ para.degraded \subseteq para'.degraded
  BY <1>2 DEF ParagraphCounts, TypeInv, TypeOK
<1>5. /\ EventsInv' /\ Cursor' = Cursor
      /\ \A i \in Seg : Due(i)' = Due(i)
  BY <1>2, HandOver DEF TypeInv
<1>6. ASSUME NEW i \in Seg, i < para.next
      PROVE  ParagraphText(i)' = ParagraphText(i)
  <2>1. \A j \in Seg : Owner[i] = Owner[j] => j \in got
    BY <1>6 DEF ParagraphInv
  <2>2. i # s /\ Owner[i] # Owner[s]
    BY <1>1, <1>3, <2>1
  <2> QED BY <1>2, <1>4, <2>2 DEF ParagraphText
<1> QED BY <1>2, <1>4, <1>5, <1>6 DEF ParagraphEvents

LEMMA ParagraphWorks ==
  ASSUME TypeInv, FlowInv, EventsInv, ParagraphInv, ParagraphEvents,
         mpc \in Working, mpc' \in Working, job.mode = "Paragraph", [Next]_vars
  PROVE  EventsInv' /\ ParagraphEvents'
<1>1. CASE PublishTranslated \/ PublishOriginal \/ TakeCompleted
  BY <1>1, ParagraphTranslated, ParagraphOriginal, ParagraphTaken
<1>2. CASE /\ UNCHANGED <<job, text>>
           /\ Send \/ UNCHANGED <<sent, outbox>>
           /\ para'.next = para.next /\ para'.degraded = para.degraded
  <2>1. /\ EventsInv' /\ Cursor' = Cursor
        /\ \A i \in Seg : Due(i)' = Due(i)
    BY <1>2, HandOver DEF TypeInv
  <2>2. \A i \in Seg : ParagraphText(i)' = ParagraphText(i)
    BY <1>2 DEF ParagraphText
  <2> QED BY <1>2, <2>1, <2>2 DEF ParagraphEvents
<1>3. CASE \E i \in Seg : TaskStep(i)
  BY <1>2, <1>3, TaskEvents
<1>4. CASE CachedPrefix \/ PublishHead \/ FlushReady \/ PublishDraft
  BY <1>2, <1>4 DEF CachedPrefix, PublishHead, FlushReady, PublishDraft, Publish, Optimistic,
                    MainOnly, At
<1>5. CASE TakeToken \/ Dispatch \/ ParagraphDone \/ AfterPrefix
  BY <1>2, <1>5 DEF TakeToken, Dispatch, ParagraphDone, AfterPrefix, MainOnly, chanVars
<1>6. CASE MeasureOwner
  <2>1. para'.next = para.next /\ para'.degraded = para.degraded
    BY <1>6 DEF MeasureOwner, TypeInv, TypeOK
  <2> QED BY <1>2, <1>6, <2>1 DEF MeasureOwner, MainOnly
<1>7. CASE Send \/ Receive \/ CloseReceiver \/ UNCHANGED vars
  BY <1>2, <1>7 DEF Send, Receive, CloseReceiver, vars, runVars, chanVars
<1> QED BY <1>1, <1>3, <1>4, <1>5, <1>6, <1>7, WorkingStep

LEMMA ValidatedWorks ==
  ASSUME TypeInv, FlowInv, EventsInv, ValidatedEvents,
         mpc \in Working, mpc' \in Working, job.mode = "Validated", [Next]_vars
  PROVE  EventsInv' /\ ValidatedEvents'
<1>0. mpc # "paragraph" /\ outbox = <<>>
  BY DEF FlowInv, PhaseInv, ValidatedEvents
<1>1. CASE UNCHANGED <<job, sent, outbox>>
  <2>1. /\ EventsInv' /\ Cursor' = Cursor
        /\ \A i \in Seg : Due(i)' = Due(i)
    BY <1>1, HandOver DEF TypeInv
  <2> QED BY <1>1, <2>1 DEF ValidatedEvents
<1>3. CASE \E i \in Seg : TaskStep(i)
  BY <1>1, <1>3, TaskEvents
<1>4. CASE CachedPrefix \/ PublishHead \/ FlushReady \/ PublishDraft
  BY <1>1, <1>4 DEF CachedPrefix, PublishHead, FlushReady, PublishDraft, Publish, Optimistic,
                    MainOnly, At
<1>5. CASE TakeToken \/ TakeCompleted \/ Dispatch \/ AfterPrefix
  BY <1>1, <1>5 DEF TakeToken, TakeCompleted, Dispatch, AfterPrefix, MainOnly, chanVars
<1>6. CASE MeasureOwner \/ PublishOriginal \/ PublishTranslated \/ ParagraphDone
  BY <1>0, <1>6 DEF MeasureOwner, PublishOriginal, PublishTranslated, ParagraphDone, At
<1>7. CASE Send \/ Receive \/ CloseReceiver \/ UNCHANGED vars
  BY <1>0, <1>1, <1>7 DEF Send, Receive, CloseReceiver, vars, runVars, chanVars
<1> QED BY <1>3, <1>4, <1>5, <1>6, <1>7, WorkingStep

-----------------------------------------------------------------------------
(* The finished document: everything is due, then everything was sent.       *)

\* A replayed document is one token.
Whole == sent # <<>> /\ sent[1].kind = "token" /\ sent[1].segs = Seg

RenderEvents ==
    mpc = "render" =>
       /\ Cursor = next
       /\ degraded # {} => next = 0
       /\ \A i \in Seg : Due(i) = IF i < next THEN text[i] ELSE <<>>

FinalEvents ==
    /\ mpc \in Final \cup {"replay"} => \A i \in Seg : Due(i) = text[i]
    /\ mpc \in {"reserve", "store", "record"} => Cursor = N
    /\ mpc = "replay" => Whole \/ (sent = <<>> /\ TokenFirst /\ outbox[1].segs = Seg)
    /\ mpc \in {"terminal", "done"} => Cursor = N \/ Whole
    /\ mpc \in {"store", "record", "terminal", "done", "failed"} => outbox = <<>>

EndEvents == RenderEvents /\ FinalEvents

\* Everything is answered: what the mode has published is the document, as far as
\* it was published.
LEMMA FinalizeEvents ==
  ASSUME TypeInv, FlowInv, TextsInv, ParagraphInv, EventsInv, OptimisticInv, ParagraphEvents,
         ValidatedEvents, Finalize
  PROVE  EventsInv' /\ EndEvents'
<1> DEFINE kept == {i \in Seg : Owner[i] \in {Owner[j] : j \in degraded}}
<1>1. /\ mpc = "finish" /\ got = Seg /\ outbox = <<>> /\ UNCHANGED <<job, outbox, sent>>
      /\ text' = [i \in Seg |-> IF i \in kept THEN Source ELSE text[i]]
      /\ degraded' = kept /\ next' = 0
      /\ mpc' = IF job.mode = "Validated" THEN "render" ELSE "reserve"
  BY DEF Finalize, At, chanVars
<1>2. /\ EventsInv' /\ Cursor' = Cursor
      /\ \A i \in Seg : Due(i)' = Due(i)
  BY <1>1, HandOver DEF TypeInv
<1>3. mpc \in Working
  BY <1>1 DEF Working
<1> HIDE DEF kept
<1>4. CASE job.mode = "Validated"
  <2>1. Cursor = 0 /\ \A i \in Seg : Due(i) = <<>>
    BY <1>3, <1>4 DEF ValidatedEvents
  <2> QED BY <1>1, <1>2, <1>4, <2>1, SegType DEF EndEvents, RenderEvents, FinalEvents, Final
<1>5. CASE job.mode = "Paragraph"
  <2>1. para.next = N
    BY <1>1, <1>5, ParagraphEnd
  <2>2. Cursor = N /\ \A i \in Seg : Due(i) = ParagraphText(i)
    BY <1>3, <1>5, <2>1, NAssumption DEF ParagraphEvents, Seg
  <2>3. \A i \in Seg : ParagraphText(i) = text'[i]
    BY <1>1, <1>3, <1>5 DEF ParagraphText, ParagraphInv, kept
  <2> QED BY <1>1, <1>2, <1>5, <2>2, <2>3 DEF EndEvents, RenderEvents, FinalEvents, Final
<1>6. CASE Optimistic
  <2>1. next \notin Seg /\ next \in 0 .. N
    BY <1>1, <1>6 DEF FlowInv, PhaseInv, TypeInv, TypeOK
  <2>2. next = N
    BY <2>1, NAssumption DEF Seg
  <2>3. Cursor = N /\ \A i \in Seg : Due(i) = text[i]
    BY <1>1, <1>3, <1>6, <2>2, NAssumption DEF OptimisticInv, Seg
  <2>4. \A i \in Seg : text'[i] = text[i]
    BY <1>1, <1>6 DEF TextsInv, NoDegraded, kept
  <2> QED BY <1>1, <1>2, <1>6, <2>3, <2>4 DEF EndEvents, RenderEvents, FinalEvents, Final,
                                              Optimistic
<1> QED BY <1>4, <1>5, <1>6, ModesAssumption DEF TypeInv, TypeOK, Jobs, Optimistic

LEMMA ReplayEvents ==
  ASSUME TypeInv, FlowInv, StartReplay
  PROVE  EventsInv' /\ EndEvents'
<1> DEFINE e == Token(Seg, proof)
<1>1. /\ mpc = "start" /\ mpc' = "replay" /\ outbox = <<>> /\ sent = <<>> /\ sent' = sent
      /\ outbox' = <<e>> /\ text' = proof /\ proof \in [Seg -> Texts]
  BY DEF StartReplay, At, FlowInv, CleanStart, TypeInv, TypeOK
<1>2. /\ EventsInv /\ Cursor = 0
      /\ \A i \in Seg : Due(i) = <<>> /\ Shown(i) = <<>>
  BY <1>1, NoEvents
<1>3. e \in Event /\ e.kind = "token" /\ e.segs = Seg /\ \A i \in Seg : e.text[i] = proof[i]
  <2>1. e \in Event
    BY <1>1, TokenType
  <2> QED BY <2>1 DEF Token
<1> HIDE DEF e
<1>4. outbox' \in Seq(Event) /\ Len(outbox') = 1 + 0 /\ outbox'[1] = e
      /\ \A p \in 1 + 1 .. 1 + 0 : outbox'[p] = Done(Cursor + p - 1 - 1)
  BY <1>1, <1>3
<1>5. \A i \in Seg : TextAt(i) = {}
  BY <1>1 DEF TextAt
<1>6. \A j \in Seg : outbox'[1].text[j] # <<>> =>
         Cursor <= j /\ \A i \in Seg : TextAt(i) # {} => i <= j
  BY <1>2, <1>5, SegType
<1>7. Cursor + 0 <= N
  BY <1>2, NAssumption
<1>8. /\ EventsInv' /\ \A i \in Seg : Due(i)' = Due(i) \o outbox'[1].text[i]
  BY <1>1, <1>2, <1>3, <1>4, <1>6, <1>7, LoadEvents DEF TypeInv
<1>9. ASSUME NEW i \in Seg
      PROVE  Due(i)' = text'[i]
  <2>1. proof[i] \in Texts /\ <<>> \o proof[i] = proof[i]
    BY <1>1 DEF Texts
  <2>2. Due(i)' = <<>> \o proof[i]
    BY <1>2, <1>3, <1>4, <1>8
  <2> QED BY <1>1, <2>1, <2>2
<1>10. TokenFirst' /\ outbox'[1].segs = Seg
  BY <1>1, <1>3, <1>4 DEF TokenFirst
<1> QED BY <1>1, <1>8, <1>9, <1>10 DEF EndEvents, RenderEvents, FinalEvents, Final

LEMMA RenderWholeEvents ==
  ASSUME TypeInv, EventsInv, EndEvents, RenderWhole
  PROVE  EventsInv' /\ EndEvents'
<1> DEFINE e == Token(Seg, text)
           marks == [k \in 1 .. N |-> Done(k - 1)]
<1>1. /\ mpc = "render" /\ mpc' = "reserve" /\ outbox = <<>> /\ sent' = sent /\ text' = text
      /\ degraded # {} /\ outbox' = <<e>> \o marks /\ text \in [Seg -> Texts] /\ TypeOK
      /\ N \in Nat
  BY NAssumption DEF RenderWhole, At, MainOnly, TypeInv, TypeOK
<1>2. Cursor = 0 /\ \A i \in Seg : Due(i) = <<>>
  BY <1>1, SegType DEF EndEvents, RenderEvents
<1>3. e \in Event /\ e.kind = "token" /\ \A i \in Seg : e.text[i] = text[i]
  <2>1. e \in Event
    BY <1>1, TokenType
  <2> QED BY <2>1 DEF Token
<1>4. marks \in Seq(Event) /\ Len(marks) = N /\ \A k \in 1 .. N : marks[k] = Done(k - 1)
  <2>1. \A k \in 1 .. N : k - 1 \in Seg
    BY <1>1 DEF Seg
  <2>2. \A k \in 1 .. N : Done(k - 1) \in Event
    BY <2>1, DoneType
  <2> QED BY <1>1, <2>2
<1> HIDE DEF e, marks
<1>5. /\ outbox' \in Seq(Event) /\ Len(outbox') = 1 + N /\ outbox'[1] = e
      /\ \A p \in 1 + 1 .. 1 + N : outbox'[p] = marks[p - 1] /\ p - 1 \in 1 .. N
  BY <1>1, <1>3, <1>4
<1>6. ASSUME NEW p \in 1 + 1 .. 1 + N
      PROVE  outbox'[p] = Done(Cursor + p - 1 - 1)
  <2>1. outbox'[p] = Done((p - 1) - 1)
    BY <1>4, <1>5
  <2>2. (p - 1) - 1 = 0 + p - 1 - 1
    BY <1>1
  <2> QED BY <1>2, <2>1, <2>2
<1>7. \A i \in Seg : TextAt(i) = {}
  BY <1>1, <1>2, DueType DEF EventsInv, SentInv
<1>8. \A j \in Seg : outbox'[1].text[j] # <<>> =>
         Cursor <= j /\ \A i \in Seg : TextAt(i) # {} => i <= j
  BY <1>2, <1>7, SegType
<1>9. Cursor + N <= N /\ Cursor + N = N
  BY <1>1, <1>2
<1>10. /\ EventsInv' /\ Cursor' = N
       /\ \A i \in Seg : Due(i)' = Due(i) \o outbox'[1].text[i]
  BY <1>1, <1>3, <1>5, <1>6, <1>8, <1>9, LoadEvents
<1>11. ASSUME NEW i \in Seg
       PROVE  Due(i)' = text'[i]
  <2>1. text[i] \in Texts /\ <<>> \o text[i] = text[i]
    BY <1>1 DEF Texts
  <2>2. Due(i)' = <<>> \o text[i]
    BY <1>2, <1>3, <1>5, <1>10
  <2> QED BY <1>1, <2>1, <2>2
<1> QED BY <1>1, <1>10, <1>11 DEF EndEvents, RenderEvents, FinalEvents, Final

LEMMA RenderPieceEvents ==
  ASSUME TypeInv, EventsInv, EndEvents, RenderPiece
  PROVE  EventsInv' /\ EndEvents'
<1>1. /\ mpc = "render" /\ outbox = <<>> /\ sent' = sent /\ text' = text /\ degraded' = degraded
      /\ degraded = {} /\ text \in [Seg -> Texts] /\ TypeOK /\ N \in Nat /\ next \in 0 .. N
      /\ next \in Nat
  BY NAssumption DEF RenderPiece, At, MainOnly, TypeInv, TypeOK
<1>2. Cursor = next /\ \A i \in Seg : Due(i) = IF i < next THEN text[i] ELSE <<>>
  BY <1>1 DEF EndEvents, RenderEvents
<1>3. CASE next < N
  <2>1. outbox' = Piece(next, text) /\ next' = next + 1 /\ mpc' = mpc
    BY <1>3 DEF RenderPiece
  <2>2. next \in Seg
    BY <1>1, <1>3 DEF Seg
  <2>3. \A i \in Seg : Due(i) # <<>> => i <= next
    BY <1>1, <1>2, SegType
  <2>4. PICK c \in Seg : c = next
    BY <2>2
  <2>5. /\ EventsInv' /\ Cursor' = c + 1
        /\ \A i \in Seg : Due(i)' = IF i = c THEN Due(i) \o text[c] ELSE Due(i)
    BY <1>1, <1>2, <2>1, <2>3, <2>4, LoadPiece
  <2>6. ASSUME NEW i \in Seg
        PROVE  Due(i)' = IF i < next' THEN text'[i] ELSE <<>>
    <3>1. CASE i = c
      <4>1. Due(i)' = Due(i) \o text[i]
        BY <2>5, <3>1
      <4>2. Due(i) = <<>> /\ text[i] \in Texts
        BY <1>1, <1>2, <2>4, <3>1
      <4>3. <<>> \o text[i] = text[i]
        BY <4>2 DEF Texts
      <4>4. Due(i)' = text[i]
        BY <4>1, <4>2, <4>3
      <4>5. i < next'
        BY <1>1, <2>1, <2>4, <3>1
      <4> QED BY <1>1, <4>4, <4>5
    <3>2. CASE i # c
      <4>1. i < next <=> i < next'
        BY <1>1, <2>1, <2>4, <3>2, SegType
      <4> QED BY <1>1, <1>2, <2>5, <3>2, <4>1
    <3> QED BY <3>1, <3>2
  <2> QED BY <1>1, <2>1, <2>4, <2>5, <2>6 DEF EndEvents, RenderEvents, FinalEvents, Final
<1>4. CASE ~(next < N)
  <2>1. next = N /\ mpc' = "reserve" /\ outbox' = outbox
    BY <1>1, <1>4 DEF RenderPiece
  <2>2. /\ EventsInv' /\ Cursor' = Cursor
        /\ \A i \in Seg : Due(i)' = Due(i)
    BY <1>1, <2>1, HandOver
  <2>3. \A i \in Seg : i < next
    BY <1>1, <2>1 DEF Seg
  <2> QED BY <1>1, <1>2, <2>1, <2>2, <2>3 DEF EndEvents, RenderEvents, FinalEvents, Final
<1> QED BY <1>3, <1>4

LEMMA TerminalStep ==
  ASSUME TypeInv, EventsInv, EndEvents, SendTerminal
  PROVE  EventsInv' /\ EndEvents'
<1>1. /\ mpc = "terminal" /\ mpc' = "done" /\ outbox = <<>> /\ outbox' = outbox /\ text' = text
      /\ sent' = Append(sent, AllDone(text)) /\ sent \in Seq(Event)
  BY DEF SendTerminal, At, TypeInv, TypeOK
<1>2. /\ EventsInv' /\ Cursor' = Cursor
      /\ \A i \in Seg : Due(i)' = Due(i)
  BY <1>1, TerminalEvents DEF TypeInv
<1>3. Whole => Whole'
  BY <1>1 DEF Whole
<1> QED BY <1>1, <1>2, <1>3 DEF EndEvents, RenderEvents, FinalEvents, Final

\* Sends and steps that change nothing of the document.
LEMMA EndFrame ==
  ASSUME TypeInv, EventsInv, EndEvents, UNCHANGED <<next, text, degraded>>,
         Send \/ UNCHANGED <<sent, outbox>>, mpc \in Final \cup {"replay", "render", "failed"},
         \/ mpc' = mpc
         \/ /\ outbox = <<>>
            /\ \/ mpc = "replay" /\ mpc' = "terminal"
               \/ mpc = "reserve" /\ mpc' \in {"store", "record"}
               \/ mpc = "store" /\ mpc' = "record"
               \/ mpc = "record" /\ mpc' = "terminal"
  PROVE  EventsInv' /\ EndEvents'
<1>1. /\ EventsInv' /\ Cursor' = Cursor
      /\ \A i \in Seg : Due(i)' = Due(i)
  BY HandOver DEF TypeInv
<1>2. /\ Whole => Whole'
      /\ mpc = "replay" /\ mpc' = "replay" =>
            Whole' \/ (sent' = <<>> /\ TokenFirst' /\ outbox'[1].segs = Seg)
  <2>1. CASE UNCHANGED <<sent, outbox>>
    BY <2>1 DEF Whole, TokenFirst, EndEvents, FinalEvents
  <2>2. CASE Send
    <3>1. sent' = Append(sent, outbox[1]) /\ outbox # <<>> /\ sent \in Seq(Event)
      BY <2>2 DEF Send, TypeInv, TypeOK
    <3>2. Whole => Whole'
      BY <3>1 DEF Whole
    <3>3. sent = <<>> => sent'[1] = outbox[1] /\ sent' # <<>>
      BY <3>1
    <3> QED BY <3>2, <3>3 DEF Whole, TokenFirst, EndEvents, FinalEvents
  <2> QED BY <2>1, <2>2
<1>3. outbox = <<>> => outbox' = <<>>
  BY DEF Send
<1>4. RenderEvents'
  BY <1>1 DEF EndEvents, RenderEvents
<1>5. mpc' \in Final \cup {"replay"} => \A i \in Seg : Due(i)' = text'[i]
  BY <1>1 DEF EndEvents, FinalEvents, Final
<1>6. mpc' \in {"reserve", "store", "record"} => Cursor' = N
  BY <1>1 DEF EndEvents, FinalEvents
<1>7. mpc' \in {"terminal", "done"} => Cursor' = N \/ Whole'
  <2>1. mpc = "replay" /\ outbox = <<>> => Whole
    BY DEF EndEvents, FinalEvents, TokenFirst
  <2> QED BY <1>1, <1>2, <2>1 DEF EndEvents, FinalEvents
<1>8. mpc' \in {"store", "record", "terminal", "done", "failed"} => outbox' = <<>>
  BY <1>3 DEF EndEvents, FinalEvents
<1>9. mpc' = "replay" => mpc = "replay"
  OBVIOUS
<1> QED BY <1>1, <1>2, <1>4, <1>5, <1>6, <1>7, <1>8, <1>9 DEF EndEvents, FinalEvents

-----------------------------------------------------------------------------
\* Everything that is known of the events, in every mode and phase.
DocumentInv ==
    /\ EventsInv /\ EndEvents
    /\ OptimisticInv /\ DraftsInv
    /\ ParagraphEvents /\ ValidatedEvents

\* Outside Working only the end of the document is told.
LEMMA DocumentIntro ==
  ASSUME EventsInv', EndEvents', mpc' \notin Working
  PROVE  DocumentInv'
  BY DEF DocumentInv, OptimisticInv, DraftsInv, ParagraphEvents, ValidatedEvents

LEMMA FreshEvents ==
  ASSUME sent' = <<>>, outbox' = <<>>
  PROVE  EventsInv'
<1>1. Marks' = {} /\ \A i \in Seg : TextAt(i)' = {} /\ MarkAt(i)' = {}
  BY DEF Marks, TextAt, MarkAt
<1>2. Marked' = 0
  BY <1>1, FS_EmptySet DEF Marked
<1>3. \A i \in Seg : Shown(i)' = <<>> /\ <<>> \in Texts
  BY FlattenEmpty DEF Shown, Texts
<1>4. SentInv'
  <2>1. \A i \in Seg : ~(i < 0)
    BY SegType
  <2> QED BY <1>1, <1>2, <1>3, <2>1 DEF SentInv, OrderedOutput
<1>5. ~TokenFirst' /\ Lead' = 0 /\ Cursor' = 0
  BY <1>2 DEF TokenFirst, Lead, Cursor
<1>6. QueueInv'
  BY <1>5, NAssumption DEF QueueInv
<1> QED BY <1>4, <1>6 DEF EventsInv

LEMMA DocumentAbort ==
  ASSUME TypeInv, DocumentInv, Abort
  PROVE  DocumentInv'
<1>1. mpc' = "failed" /\ sent' = sent /\ outbox' = <<>>
  BY DEF Abort, Forgotten
<1>2. EventsInv'
  BY <1>1, DropEvents DEF TypeInv, DocumentInv
<1> QED BY <1>1, <1>2, DocumentIntro DEF EndEvents, RenderEvents, FinalEvents, Final, Working

\* While segments are answered, and while the document is finished.
LEMMA DocumentWorks ==
  ASSUME TypeInv, StoreInv, FlowInv, ParagraphInv, DocumentInv,
         mpc \in Working, mpc' \in Working, [Next]_vars
  PROVE  DocumentInv'
<1>1. UNCHANGED job
  <2>1. CASE \E i \in Seg : TaskStep(i)
    BY <2>1, TaskEvents
  <2>2. CASE CachedPrefix \/ PublishHead \/ FlushReady \/ PublishDraft \/ TakeToken
             \/ TakeCompleted \/ Dispatch \/ MeasureOwner \/ PublishOriginal
             \/ PublishTranslated \/ ParagraphDone \/ AfterPrefix
    BY <2>2 DEF CachedPrefix, PublishHead, FlushReady, PublishDraft, TakeToken, TakeCompleted,
                Dispatch, MeasureOwner, PublishOriginal, PublishTranslated, ParagraphDone,
                AfterPrefix, MainOnly
  <2>3. CASE Send \/ Receive \/ CloseReceiver \/ UNCHANGED vars
    BY <2>3 DEF Send, Receive, CloseReceiver, vars, runVars
  <2> QED BY <2>1, <2>2, <2>3, WorkingStep
<1>2. EndEvents'
  BY DEF EndEvents, RenderEvents, FinalEvents, Final, Working
<1>3. CASE Optimistic
  <2>1. EventsInv' /\ OptimisticInv' /\ DraftsInv'
    BY <1>3, OptimisticWorks DEF DocumentInv
  <2>2. job'.mode = "Optimistic"
    BY <1>1, <1>3 DEF Optimistic
  <2> QED BY <1>2, <2>1, <2>2 DEF DocumentInv, ParagraphEvents, ValidatedEvents
<1>4. CASE job.mode = "Paragraph"
  <2>1. EventsInv' /\ ParagraphEvents'
    BY <1>4, ParagraphWorks DEF DocumentInv
  <2> QED BY <1>1, <1>2, <1>4, <2>1
          DEF DocumentInv, OptimisticInv, DraftsInv, ValidatedEvents, Optimistic
<1>5. CASE job.mode = "Validated"
  <2>1. EventsInv' /\ ValidatedEvents'
    BY <1>5, ValidatedWorks DEF DocumentInv
  <2> QED BY <1>1, <1>2, <1>5, <2>1
          DEF DocumentInv, OptimisticInv, DraftsInv, ParagraphEvents, Optimistic
<1> QED BY <1>3, <1>4, <1>5, ModesAssumption DEF TypeInv, TypeOK, Jobs, Optimistic

LEMMA DocumentLookup ==
  ASSUME TypeInv, StoreInv, FlowInv, DocumentInv, Lookup
  PROVE  DocumentInv'
<1>1. EventsInv' /\ OptimisticInv' /\ DraftsInv'
  BY OptimisticStart
<1>2. /\ mpc = "start" /\ mpc' = "prefix" /\ sent = <<>> /\ outbox = <<>>
      /\ UNCHANGED <<sent, outbox, para>> /\ para.next = 0
  BY DEF Lookup, At, chanVars, FlowInv, CleanStart, NoParagraph
<1>3. Cursor' = 0 /\ \A i \in Seg : Due(i)' = <<>>
  <2>1. EventsInv /\ Cursor = 0 /\ \A i \in Seg : Due(i) = <<>>
    BY <1>2, NoEvents
  <2> QED BY <1>2, <2>1, HandOver DEF TypeInv
<1>4. ParagraphEvents' /\ ValidatedEvents'
  BY <1>2, <1>3, SegType DEF ParagraphEvents, ValidatedEvents
<1>5. EndEvents'
  BY <1>2 DEF EndEvents, RenderEvents, FinalEvents, Final
<1> QED BY <1>1, <1>4, <1>5 DEF DocumentInv

LEMMA DocumentStep ==
  ASSUME TypeInv, StoreInv, FlowInv, TextsInv, ParagraphInv, DocumentInv, [Next]_vars
  PROVE  DocumentInv'
<1>1. CASE mpc \in Working /\ mpc' \in Working
  BY <1>1, DocumentWorks
<1>2. CASE Lookup
  BY <1>2, DocumentLookup
<1>3. CASE ReceiverDropped \/ PrepareFails \/ TakeError \/ Crash
  BY <1>3, DocumentAbort DEF ReceiverDropped, PrepareFails, TakeError, Crash
<1>4. CASE NewRun
  <2>1. mpc' = "start" /\ sent' = <<>> /\ outbox' = <<>>
    BY <1>4 DEF NewRun, Forgotten
  <2>2. EventsInv'
    BY <2>1, FreshEvents
  <2> QED BY <2>1, <2>2, DocumentIntro DEF EndEvents, RenderEvents, FinalEvents, Final, Working
<1>5. CASE Finalize \/ StartReplay \/ RenderWhole \/ RenderPiece \/ SendTerminal
  <2>1. EventsInv' /\ EndEvents'
    BY <1>5, FinalizeEvents, ReplayEvents, RenderWholeEvents, RenderPieceEvents, TerminalStep
    DEF DocumentInv
  <2>2. mpc' \notin Working
    BY <1>5 DEF Finalize, StartReplay, RenderWhole, RenderPiece, SendTerminal, At, Working
  <2> QED BY <2>1, <2>2, DocumentIntro
<1>6. CASE AdmitReplay \/ Admit \/ StoreCandidate \/ StoredAll \/ RecordTask
  <2>1. /\ UNCHANGED <<next, text, degraded, sent, outbox>> /\ outbox = <<>>
        /\ \/ mpc = "replay" /\ mpc' = "terminal"
           \/ mpc = "reserve" /\ mpc' \in {"store", "record"}
           \/ mpc = "store" /\ mpc' \in {"store", "record"}
           \/ mpc = "record" /\ mpc' = "terminal"
    BY <1>6 DEF AdmitReplay, Admit, StoreCandidate, StoredAll, RecordTask, At, MainOnly, chanVars
  <2>2. EventsInv' /\ EndEvents'
    BY <2>1, EndFrame DEF DocumentInv, Final
  <2> QED BY <2>1, <2>2, DocumentIntro DEF Working
<1>7. CASE /\ mpc' = mpc /\ mpc \notin Working
           /\ (\E i \in Seg : TaskStep(i)) \/ Send \/ Receive \/ CloseReceiver \/ UNCHANGED vars
  <2>1. CASE mpc = "start"
    <3>1. ~Send
      BY <2>1 DEF Send, FlowInv, CleanStart
    <3>2. UNCHANGED <<sent, outbox>>
      BY <1>7, <3>1, TaskEvents DEF Receive, CloseReceiver, vars, chanVars
    <3>3. EventsInv'
      BY <3>2, HandOver DEF TypeInv, DocumentInv
    <3> QED BY <1>7, <2>1, <3>3, DocumentIntro DEF EndEvents, RenderEvents, FinalEvents, Final
  <2>2. CASE mpc # "start"
    <3>1. UNCHANGED <<next, text, degraded>>
      BY <1>7, TaskEvents DEF Send, Receive, CloseReceiver, vars, runVars
    <3>2. Send \/ UNCHANGED <<sent, outbox>>
      BY <1>7, TaskEvents DEF Receive, CloseReceiver, vars, chanVars
    <3>3. mpc \in Final \cup {"replay", "render", "failed"}
      BY <1>7, <2>2 DEF TypeInv, TypeOK, Phase, Working, Final
    <3>4. EventsInv' /\ EndEvents'
      BY <1>7, <3>1, <3>2, <3>3, EndFrame DEF DocumentInv
    <3> QED BY <1>7, <3>4, DocumentIntro
  <2> QED BY <2>1, <2>2
<1>8. CASE (\E i \in Seg : TaskStep(i)) \/ Send \/ Receive \/ CloseReceiver \/ UNCHANGED vars
  <2>1. mpc' = mpc
    BY <1>8, TaskEvents DEF Send, Receive, CloseReceiver, vars, runVars
  <2> QED BY <1>1, <1>7, <1>8, <2>1
<1>9. CASE CachedPrefix \/ AfterPrefix \/ Dispatch \/ TakeToken \/ TakeCompleted
           \/ PublishHead \/ FlushReady \/ PublishDraft
           \/ MeasureOwner \/ PublishOriginal \/ PublishTranslated \/ ParagraphDone
  <2>1. mpc \in Working /\ mpc' \in Working
    BY <1>9 DEF CachedPrefix, AfterPrefix, Dispatch, TakeToken, TakeCompleted, PublishHead,
                FlushReady, PublishDraft, MeasureOwner, PublishOriginal, PublishTranslated,
                ParagraphDone, At, Working
  <2> QED BY <1>1, <2>1
<1> QED BY <1>2, <1>3, <1>4, <1>5, <1>6, <1>8, <1>9 DEF Next, Coordinator

-----------------------------------------------------------------------------
(* What follows for the consumer.                                            *)

StreamInv ==
    /\ TypeInv /\ StoreInv
    /\ FlowInv /\ TextsInv /\ ParagraphInv /\ DocumentInv

LEMMA StreamInit == Init => StreamInv
<1> SUFFICES ASSUME Init PROVE StreamInv
  OBVIOUS
<1>1. TypeInv /\ StoreInv
  BY TypeInit, StoreInit
<1>2. FlowInv
  BY DEF Init, FlowInv, CleanStart, PhaseInv, MessagesInv, Working
<1>3. TextsInv
  BY DEF Init, TextsInv, NoDegraded, AnswersInv, Working, Final, Idle
<1>4. ParagraphInv
  BY DEF Init, ParagraphInv, Working
<1>5. EventsInv
  BY NoEvents DEF Init
<1>6. DocumentInv
  BY <1>5 DEF Init, DocumentInv, OptimisticInv, DraftsInv, ParagraphEvents, ValidatedEvents,
              EndEvents, RenderEvents, FinalEvents, Final, Working
<1> QED BY <1>1, <1>2, <1>3, <1>4, <1>6 DEF StreamInv

LEMMA StreamStep == StreamInv /\ [Next]_vars => StreamInv'
<1> SUFFICES ASSUME StreamInv, [Next]_vars PROVE StreamInv'
  OBVIOUS
<1>1. TypeInv' /\ StoreInv'
  BY TypeStep, TasksStep, ChannelStep, OnceStep, TablesStep, RowsStep DEF StreamInv, StoreInv
<1>2. FlowInv'
  BY FlowStep DEF StreamInv, StoreInv
<1>3. TextsInv'
  BY NoDegradedStep, AnswersStep DEF StreamInv, TextsInv
<1>4. ParagraphInv'
  BY ParagraphStep DEF StreamInv
<1>5. DocumentInv'
  BY DocumentStep DEF StreamInv
<1> QED BY <1>1, <1>2, <1>3, <1>4, <1>5 DEF StreamInv

\* Events follow the document, whatever order the chunk tasks finish in.
THEOREM OutputOrdered == Spec => []OrderedOutput
<1>1. StreamInv => OrderedOutput
  BY DEF StreamInv, DocumentInv, EventsInv, SentInv
<1> QED BY <1>1, StreamInit, StreamStep, PTL DEF Spec

\* What was shown is the beginning of what is due.
LEMMA ShownBeforeDue ==
  ASSUME TypeInv, EventsInv, NEW i \in Seg
  PROVE  /\ Shown(i) \in Texts /\ Due(i) \in Texts
         /\ \E t \in Texts : Due(i) = Shown(i) \o t
         /\ outbox = <<>> => Due(i) = Shown(i)
<1>1. Shown(i) \in Texts /\ Due(i) \in Texts /\ (~TokenFirst => Due(i) = Shown(i))
      /\ (outbox = <<>> => Due(i) = Shown(i))
  BY DueType DEF EventsInv, SentInv, TypeInv
<1>2. CASE ~TokenFirst
  <2>1. <<>> \in Texts /\ Due(i) = Shown(i) \o <<>>
    BY <1>1, <1>2, ConcatEmpty DEF Texts
  <2> QED BY <1>1, <2>1
<1>3. CASE TokenFirst
  <2>1. outbox[1] \in Event
    BY <1>3 DEF TokenFirst, TypeInv, TypeOK
  <2>2. outbox[1].text[i] \in Texts
    BY <2>1 DEF Event
  <2>3. Due(i) = Shown(i) \o outbox[1].text[i]
    BY <1>3 DEF Due
  <2> QED BY <1>1, <2>2, <2>3
<1> QED BY <1>2, <1>3

LEMMA PrefixOfConcat ==
  ASSUME NEW s \in Texts, NEW t \in Texts
  PROVE  IsPrefix(s, s \o t)
<1>1. Len(s) \in Nat /\ Len(s \o t) = Len(s) + Len(t) /\ Len(t) \in Nat
  BY DEF Texts
<1>2. SubSeq(s, 1, Len(s)) = SubSeq(s \o t, 1, Len(s))
  BY DEF Texts
<1> QED BY <1>1, <1>2 DEF IsPrefix

LEMMA NothingConcat ==
  ASSUME NEW s \in Texts, NEW t \in Texts, s \o t = <<>>
  PROVE  s = <<>>
<1>1. Len(s) \in Nat /\ Len(t) \in Nat /\ Len(s \o t) = Len(s) + Len(t) /\ Len(<<>>) = 0
  BY DEF Texts
<1>2. Len(s) = 0
  BY <1>1
<1> QED BY <1>2 DEF Texts

LEMMA FinalText ==
  ASSUME StreamInv
  PROVE  ShownIsFinal
<1>1. TypeInv /\ EventsInv /\ got \subseteq Seg
  BY DEF StreamInv, DocumentInv, TypeInv, TypeOK
<1>2. ASSUME NEW i \in got, Optimistic, Live
      PROVE  IsPrefix(Shown(i), text[i])
  <2>1. i \in Seg /\ text[i] \in Texts /\ Shown(i) \in Texts
    BY <1>1, <1>2, ShownBeforeDue DEF TypeInv, TypeOK
  <2>2. Due(i) = text[i] \/ Due(i) = <<>>
    <3>1. CASE mpc \in Working
      BY <1>2, <3>1 DEF StreamInv, DocumentInv, OptimisticInv
    <3>2. CASE mpc \in Final \cup {"replay"}
      BY <2>1, <3>2 DEF StreamInv, DocumentInv, EndEvents, FinalEvents
    <3>3. CASE mpc = "start"
      BY <1>2, <3>3 DEF StreamInv, FlowInv, CleanStart
    <3>4. mpc # "render"
      BY <1>2 DEF StreamInv, FlowInv, PhaseInv, Optimistic
    <3>5. mpc \in Phase /\ mpc # "failed"
      BY <1>1, <1>2 DEF TypeInv, TypeOK, Live
    <3> QED BY <3>1, <3>2, <3>3, <3>4, <3>5 DEF Phase, Working, Final
  <2>3. CASE Due(i) = text[i]
    BY <1>1, <2>1, <2>3, ShownBeforeDue, PrefixOfConcat
  <2>4. CASE Due(i) = <<>>
    <3>1. PICK t \in Texts : <<>> = Shown(i) \o t
      BY <1>1, <2>1, <2>4, ShownBeforeDue
    <3>2. Shown(i) = <<>>
      BY <2>1, <3>1, NothingConcat
    <3>3. <<>> \in Texts /\ <<>> \o text[i] = text[i]
      BY <2>1 DEF Texts
    <3> QED BY <2>1, <3>2, <3>3, PrefixOfConcat
  <2> QED BY <2>2, <2>3, <2>4
<1>3. ASSUME mpc \in {"store", "record", "terminal", "done"}, NEW i \in Seg
      PROVE  Shown(i) = text[i]
  BY <1>1, <1>3, ShownBeforeDue DEF StreamInv, DocumentInv, EndEvents, FinalEvents, Final
<1> QED BY <1>2, <1>3 DEF ShownIsFinal

\* Nothing that was shown is ever contradicted: in Optimistic output a draft is
\* the beginning of its answer, and the document admitted is the one shown.
THEOREM OutputFinal == Spec => []ShownIsFinal
<1>1. StreamInv => ShownIsFinal
  BY FinalText
<1> QED BY <1>1, StreamInit, StreamStep, PTL DEF Spec

\* Rows are written when every segment was marked and its text was shown.
LEMMA StoredWhole ==
  ASSUME StreamInv, [Next]_vars, store' # store
  PROVE  \A i \in Seg : Shown(i) = text[i] /\ MarkAt(i) # {}
<1>1. mpc \in {"store", "record"} /\ outbox = <<>>
  BY StoreChange DEF StoreCandidate, RecordTask, At
<1>2. ShownIsFinal
  BY FinalText
<1>3. Cursor = N /\ TypeOK /\ QueueInv /\ SentInv
  BY <1>1 DEF StreamInv, DocumentInv, EndEvents, FinalEvents, EventsInv, TypeInv
<1>4. Marked = N
  BY <1>1, <1>3, CursorType
<1>5. \A i \in Seg : MarkAt(i) # {}
  BY <1>3, <1>4, NAssumption DEF SentInv, Seg
<1> QED BY <1>1, <1>2, <1>5 DEF ShownIsFinal

\* No row of the history database changes before the whole document, text and
\* marks, has been sent to a consumer that still listens.
THEOREM RowsAfterDelivery == Spec => StoredAfterDelivery
<1>1. StreamInv /\ [Next]_vars
        => [store' # store => \A i \in Seg : Shown(i) = text[i] /\ MarkAt(i) # {}]_vars
  BY StoredWhole
<1> QED BY <1>1, StreamInit, StreamStep, PTL DEF Spec, StoredAfterDelivery

-----------------------------------------------------------------------------
(* Whole owners: what is due is retained or answered, owner by owner.        *)

LEMMA OwnersDue ==
  ASSUME StreamInv, mpc # "failed"
  PROVE  \E R : \A i \in Seg :
            \/ Due(i) = <<>>
            \/ Owner[i] \in R /\ Due(i) = Source
            \/ Owner[i] \notin R /\ OneAttempt(Due(i))
<1>1. TypeInv /\ TypeOK /\ EventsInv /\ got \subseteq Seg /\ degraded \subseteq Seg
  BY DEF StreamInv, DocumentInv, TypeInv, TypeOK
<1>2. CASE mpc = "start"
  <2>1. \A i \in Seg : Due(i) = <<>>
    BY <1>2, NoEvents DEF StreamInv, FlowInv, CleanStart
  <2> QED BY <2>1
<1>3. CASE mpc \in Working /\ Optimistic
  <2>1. degraded = {} /\ \A i \in got : OneAttempt(text[i])
    BY <1>3 DEF StreamInv, TextsInv, NoDegraded, AnswersInv
  <2>2. ASSUME NEW i \in Seg
        PROVE  Due(i) = <<>> \/ OneAttempt(Due(i))
    <3>1. CASE i \in got
      BY <1>3, <2>1, <3>1 DEF StreamInv, DocumentInv, OptimisticInv
    <3>2. CASE i \notin got
      <4>1. PICK a \in Nat \ {0} : DraftOf(i, a)
        BY <1>3, <3>2 DEF StreamInv, DocumentInv, DraftsInv
      <4>2. Due(i) \in Texts /\ \A k \in DOMAIN Due(i) : Due(i)[k] = a
        BY <1>1, <4>1, DueType DEF DraftOf, Units, EventsInv
      <4> QED BY <4>2, OneAttemptIntro
    <3> QED BY <3>1, <3>2
  <2>3. \A i \in Seg : Owner[i] \notin degraded
    BY <2>1
  <2> WITNESS degraded
  <2> QED BY <2>2, <2>3
<1>4. CASE mpc \in Working /\ job.mode = "Paragraph"
  <2>1. \A i \in Seg : Due(i) = IF i < para.next THEN ParagraphText(i) ELSE <<>>
    BY <1>4 DEF StreamInv, DocumentInv, ParagraphEvents
  <2>2. /\ \A i \in Seg : i < para.next => i \in got
        /\ para.degraded = {Owner[j] : j \in degraded}
    BY <1>4 DEF StreamInv, ParagraphInv
  <2>3. \A i \in got \ degraded : OneAttempt(text[i])
    BY <1>4 DEF StreamInv, TextsInv, AnswersInv
  <2> WITNESS para.degraded
  <2>4. ASSUME NEW i \in Seg, i < para.next, Owner[i] \notin para.degraded
        PROVE  OneAttempt(Due(i))
    BY <2>1, <2>2, <2>3, <2>4 DEF ParagraphText
  <2> QED BY <2>1, <2>4 DEF ParagraphText
<1>5. CASE mpc \in Working /\ job.mode = "Validated"
  BY <1>5 DEF StreamInv, DocumentInv, ValidatedEvents
<1>6. CASE mpc \in Final \cup {"render", "replay"}
  <2>1. /\ \A i \in degraded : text[i] = Source
        /\ \A i \in Seg \ degraded : OneAttempt(text[i])
        /\ \A i \in degraded, j \in Seg : Owner[i] = Owner[j] => j \in degraded
    BY <1>6 DEF StreamInv, TextsInv, AnswersInv
  <2>2. \A i \in Seg : Due(i) \in {<<>>, text[i]}
    BY <1>6 DEF StreamInv, DocumentInv, EndEvents, RenderEvents, FinalEvents
  <2>3. \A i \in Seg : Owner[i] \in {Owner[j] : j \in degraded} <=> i \in degraded
    BY <1>1, <2>1
  <2> WITNESS {Owner[j] : j \in degraded}
  <2> QED BY <2>1, <2>2, <2>3
<1>7. mpc \in Phase /\ job.mode \in {"Validated", "Paragraph", "Optimistic"}
  BY <1>1, ModesAssumption DEF TypeOK, Jobs
<1> QED BY <1>2, <1>3, <1>4, <1>5, <1>6, <1>7 DEF Phase, Working, Final, Optimistic

\* A text that starts with an untranslated unit is no answer.
LEMMA SourceFirst ==
  ASSUME NEW s \in Texts, NEW t \in Texts, s = Source \o t
  PROVE  s # <<>> /\ ~OneAttempt(s)
<1>1. 1 \in DOMAIN s /\ s[1] = Original
  BY DEF Source, Texts
<1> QED BY <1>1 DEF OneAttempt

LEMMA BeginningOfSource ==
  ASSUME NEW s \in Texts, NEW t \in Texts, s \o t \in {<<>>, Source}
  PROVE  s \in {<<>>, Source}
<1> DEFINE u == s \o t
<1>1. Len(s) \in Nat /\ Len(t) \in Nat /\ Len(u) = Len(s) + Len(t)
      /\ \A k \in 1 .. Len(s) : u[k] = s[k]
  BY DEF Texts
<1>2. u = <<>> \/ u = Source
  OBVIOUS
<1> HIDE DEF u
<1>3. CASE Len(s) = 0
  BY <1>3 DEF Texts
<1>4. CASE Len(s) # 0
  <2>1. u = <<Original>> /\ Len(s) = 1
    <3>1. Len(<<>>) = 0 /\ Len(<<Original>>) = 1
      OBVIOUS
    <3>2. u = <<Original>>
      BY <1>1, <1>2, <1>4, <3>1 DEF Source
    <3> QED BY <1>1, <1>4, <3>1, <3>2
  <2>2. s[1] = Original
    BY <1>1, <2>1
  <2>3. s = <<Original>>
    BY <2>1, <2>2 DEF Texts
  <2> QED BY <2>3 DEF Source
<1> QED BY <1>3, <1>4

\* An invocation that is not aborted shows whole owners.
OwnersLive == mpc # "failed" => OwnersWhole

LEMMA OwnersShown ==
  ASSUME StreamInv
  PROVE  OwnersLive
<1> SUFFICES ASSUME mpc # "failed", NEW i \in Seg, NEW j \in Seg, Owner[i] = Owner[j],
                    Shown(i) = Source
             PROVE  Shown(j) \in {<<>>, Source}
  BY DEF OwnersLive, OwnersWhole
<1>1. PICK R : \A h \in Seg :
            \/ Due(h) = <<>>
            \/ Owner[h] \in R /\ Due(h) = Source
            \/ Owner[h] \notin R /\ OneAttempt(Due(h))
  BY OwnersDue
<1>2. TypeInv /\ EventsInv
  BY DEF StreamInv, DocumentInv
<1>3. PICK t \in Texts : Due(i) = Source \o t /\ Due(i) \in Texts
  BY <1>2, ShownBeforeDue
<1>4. Owner[i] \in R
  BY <1>1, <1>3, SourceFirst
<1>5. Due(j) \in {<<>>, Source}
  BY <1>1, <1>4
<1>6. PICK u \in Texts : Due(j) = Shown(j) \o u /\ Shown(j) \in Texts
  BY <1>2, ShownBeforeDue
<1> QED BY <1>5, <1>6, BeginningOfSource

\* Which steps send an event or change the outcome of the invocation.
Outcome == IF Live THEN "running" ELSE mpc

Failing == ReceiverDropped \/ PrepareFails \/ TakeError \/ Crash

LEMMA OutcomeSteps ==
  ASSUME [Next]_vars
  PROVE  \/ Send \/ SendTerminal \/ NewRun \/ Failing
         \/ StoreCandidate \/ RecordTask
         \/ UNCHANGED <<sent, store>> /\ Outcome' = Outcome
<1>1. CASE UNCHANGED <<sent, store>> /\ (mpc' = mpc \/ (Live /\ Live'))
  BY <1>1 DEF Outcome, Live
<1>2. CASE \E i \in Seg : TaskStep(i)
  BY <1>1, <1>2, TaskEvents DEF store
<1>3. CASE StartReplay \/ AdmitReplay \/ Lookup \/ CachedPrefix \/ AfterPrefix \/ Dispatch
  BY <1>1, <1>3 DEF StartReplay, AdmitReplay, Lookup, CachedPrefix, AfterPrefix, Dispatch,
                    MainOnly, At, Live, store, chanVars
<1>4. CASE TakeToken \/ TakeCompleted \/ PublishHead \/ FlushReady \/ PublishDraft
  BY <1>1, <1>4 DEF TakeToken, TakeCompleted, PublishHead, FlushReady, PublishDraft, MainOnly,
                    At, Live, store, chanVars
<1>5. CASE MeasureOwner \/ PublishOriginal \/ PublishTranslated \/ ParagraphDone
  BY <1>1, <1>5 DEF MeasureOwner, PublishOriginal, PublishTranslated, ParagraphDone, MainOnly,
                    At, Live, store
<1>6. CASE Finalize \/ RenderWhole \/ RenderPiece \/ Admit \/ StoredAll
  BY <1>1, <1>6 DEF Finalize, RenderWhole, RenderPiece, Admit, StoredAll, MainOnly, At, Live,
                    store, chanVars
<1>7. CASE Receive \/ CloseReceiver \/ UNCHANGED vars
  BY <1>1, <1>7 DEF Receive, CloseReceiver, vars, runVars, chanVars
<1> QED
  BY <1>2, <1>3, <1>4, <1>5, <1>6, <1>7 DEF Next, Coordinator, Failing

LEMMA FailingStep ==
  ASSUME Failing
  PROVE  Live /\ mpc' = "failed" /\ UNCHANGED <<sent, store>>
  BY DEF Failing, ReceiverDropped, PrepareFails, TakeError, Crash, Abort, At, Live

\* A failed invocation has shown what it showed before it failed.
LEMMA OwnersStep ==
  ASSUME OwnersWhole, StreamInv, [Next]_vars, OwnersLive'
  PROVE  OwnersWhole'
<1> SUFFICES ASSUME mpc' = "failed" PROVE OwnersWhole'
  BY DEF OwnersLive
<1>1. sent' = sent
  <2>1. ~Send
    BY DEF Send, Live, runVars
  <2>2. ~(SendTerminal \/ NewRun)
    BY DEF SendTerminal, NewRun
  <2> QED BY <2>1, <2>2, OutcomeSteps, FailingStep DEF StoreCandidate, RecordTask, chanVars
<1>2. \A i \in Seg : Shown(i)' = Shown(i)
  BY <1>1 DEF Shown
<1> QED BY <1>2 DEF OwnersWhole

\* A paragraph is shown translated or original, never half of each, however and
\* whenever the invocation ends.
THEOREM OwnersShownWhole == Spec => []OwnersWhole
<1>1. Init => OwnersWhole
  <2>1. Init => \A i \in Seg : Shown(i) = <<>>
    BY NoEvents DEF Init
  <2> QED BY <2>1 DEF OwnersWhole
<1>2. StreamInv => OwnersLive
  BY OwnersShown
<1>3. OwnersWhole /\ StreamInv /\ [Next]_vars /\ OwnersLive' => OwnersWhole'
  BY OwnersStep
<1> QED BY <1>1, <1>2, <1>3, StreamInit, StreamStep, PTL DEF Spec

-----------------------------------------------------------------------------
(* The contract of the caller: see TranslationContract.                      *)

\* What is delivered when everything was sent.
LEMMA DeliveredAll ==
  ASSUME StreamInv, mpc \in {"store", "record", "terminal"}
  PROVE  Delivered = N
<1>1. outbox = <<>> /\ (Cursor = N \/ Whole) /\ TypeOK /\ QueueInv
  BY DEF StreamInv, DocumentInv, EndEvents, FinalEvents, EventsInv, TypeInv
<1>2. CASE Whole
  BY <1>2 DEF Whole, Delivered
<1>3. CASE Cursor = N
  <2>1. Marked = N
    BY <1>1, <1>3, CursorType
  <2> QED BY <2>1 DEF Delivered, Marked
<1> QED BY <1>1, <1>2, <1>3

LEMMA DeliveredStable ==
  ASSUME UNCHANGED sent
  PROVE  Delivered' = Delivered
  BY DEF Delivered, Marks

\* Sending an event delivers more, or marks what a token had delivered.
LEMMA DeliveredSend ==
  ASSUME StreamInv, Send
  PROVE  Delivered' = Delivered \/ Delivered' \in Delivered + 1 .. N
<1>1. /\ TypeOK /\ EventsInv /\ outbox # <<>> /\ sent' = Append(sent, Head(outbox))
      /\ outbox' = Tail(outbox) /\ sent \in Seq(Event) /\ N \in Nat \ {0}
  BY NAssumption DEF Send, StreamInv, TypeInv, TypeOK, DocumentInv
<1>2. /\ EventsInv' /\ Cursor' = Cursor
      /\ Marked' = IF TokenFirst THEN Marked ELSE Marked + 1
  BY <1>1, SendEvents
<1>3. Marked \in Nat /\ Cursor \in Nat /\ Marked <= Cursor /\ Cursor <= N
  BY <1>1, CursorType DEF EventsInv
<1>4. Marked + 1 <= N \/ TokenFirst
  <2>1. Len(outbox) \in Nat /\ Len(outbox) >= 1
    BY <1>1 DEF TypeOK
  <2>2. TokenFirst \/ Cursor = Marked + Len(outbox)
    BY <1>3, <2>1 DEF Cursor, Lead
  <2> QED BY <1>1, <1>3, <2>1, <2>2
<1>5. Delivered = IF Whole THEN N ELSE Marked
  BY DEF Delivered, Whole, Marked
<1>6. Delivered' = IF Whole' THEN N ELSE Marked'
  BY DEF Delivered, Whole, Marked
<1>7. Whole => Whole'
  BY <1>1 DEF Whole
<1>8. CASE Whole
  BY <1>5, <1>6, <1>7, <1>8
<1>9. CASE ~Whole /\ ~Whole'
  BY <1>2, <1>3, <1>4, <1>5, <1>6, <1>9
<1>10. CASE ~Whole /\ Whole'
  <2>1. sent = <<>>
    BY <1>1, <1>10 DEF Whole
  <2>2. Marked = 0
    BY <2>1, FS_EmptySet DEF Marked, Marks
  <2> QED BY <1>1, <1>5, <1>6, <1>10, <2>2
<1> QED BY <1>8, <1>9, <1>10

LEMMA DeliveredTerminal ==
  ASSUME StreamInv, SendTerminal
  PROVE  Delivered' = Delivered
<1>1. /\ sent' = Append(sent, AllDone(text)) /\ sent \in Seq(Event) /\ outbox' = outbox
      /\ outbox = <<>> /\ TypeOK /\ EventsInv
  BY DEF SendTerminal, At, StreamInv, TypeInv, TypeOK, DocumentInv
<1>2. Marked' = Marked
  BY <1>1, TerminalEvents
<1>3. Whole' <=> Whole
  <2>1. CASE sent = <<>>
    BY <1>1, <2>1 DEF Whole, AllDone
  <2>2. CASE sent # <<>>
    BY <1>1, <2>2 DEF Whole
  <2> QED BY <2>1, <2>2
<1>4. Delivered = IF Whole THEN N ELSE Marked
  BY DEF Delivered, Whole, Marked
<1>5. Delivered' = IF Whole' THEN N ELSE Marked'
  BY DEF Delivered, Whole, Marked
<1> QED BY <1>2, <1>3, <1>4, <1>5

LEMMA DeliveredNothing ==
  ASSUME sent = <<>>
  PROVE  Delivered = 0
  BY FS_EmptySet DEF Delivered, Marks

LEMMA ContractStep ==
  ASSUME StreamInv, [Next]_vars
  PROVE  [Contract!Next]_(Contract!vars)
<1>0. /\ Contract!vars = <<Outcome, Delivered, store>>
      /\ (Contract!vars)' = <<Outcome', Delivered', store'>>
  BY DEF Contract!vars, Outcome
<1>1. CASE Send
  <2>1. Outcome = "running" /\ Outcome' = "running" /\ store' = store
    BY <1>1 DEF Send, Outcome, Live, runVars
  <2>2. CASE Delivered' = Delivered
    BY <1>0, <2>1, <2>2
  <2>3. CASE Delivered' \in Delivered + 1 .. N
    <3>1. Contract!Deliver
      BY <2>1, <2>3 DEF Contract!Deliver, Outcome
    <3> QED BY <3>1 DEF Contract!Next
  <2> QED BY <1>1, <2>2, <2>3, DeliveredSend
<1>2. CASE SendTerminal
  <2>1. Outcome = "running" /\ Outcome' = "done" /\ store' = store /\ mpc = "terminal"
    BY <1>2 DEF SendTerminal, At, Outcome, Live, store
  <2>2. Delivered = N /\ Delivered' = Delivered
    BY <1>2, <2>1, DeliveredAll, DeliveredTerminal
  <2>3. Contract!Finish
    BY <2>1, <2>2 DEF Contract!Finish, Outcome
  <2> QED BY <2>3 DEF Contract!Next
<1>3. CASE NewRun
  <2>1. Outcome # "running" /\ Outcome' = "running" /\ store' = store /\ sent' = <<>>
    <3>1. mpc \in {"done", "failed"} /\ mpc' = "start" /\ store' = store /\ sent' = <<>>
      BY <1>3 DEF NewRun, Live
    <3> QED BY <3>1 DEF Outcome, Live
  <2>2. Delivered' = 0
    BY <2>1, FS_EmptySet DEF Delivered, Marks
  <2>3. Contract!Begin
    BY <2>1, <2>2 DEF Contract!Begin, Outcome
  <2> QED BY <2>3 DEF Contract!Next
<1>4. CASE Failing
  <2>1. Outcome = "running" /\ Outcome' = "failed" /\ UNCHANGED <<sent, store>>
    BY <1>4, FailingStep DEF Outcome, Live
  <2>2. Delivered' = Delivered
    BY <2>1, DeliveredStable
  <2>3. Contract!Fail
    BY <2>1, <2>2 DEF Contract!Fail, Outcome
  <2> QED BY <2>3 DEF Contract!Next
<1>5. CASE StoreCandidate \/ RecordTask
  <2>1. /\ Outcome = "running" /\ Outcome' = "running" /\ sent' = sent
        /\ mpc \in {"store", "record"}
    BY <1>5 DEF StoreCandidate, RecordTask, At, Outcome, Live, chanVars
  <2>2. Delivered = N /\ Delivered' = Delivered
    BY <2>1, DeliveredAll, DeliveredStable
  <2>3. CASE store' = store
    BY <1>0, <2>1, <2>2, <2>3
  <2>4. CASE store' # store
    <3>1. Contract!Persist
      BY <2>1, <2>2, <2>4 DEF Contract!Persist, Outcome
    <3> QED BY <3>1 DEF Contract!Next
  <2> QED BY <2>3, <2>4
<1>6. CASE UNCHANGED <<sent, store>> /\ Outcome' = Outcome
  BY <1>0, <1>6, DeliveredStable
<1> QED BY <1>1, <1>2, <1>3, <1>4, <1>5, <1>6, OutcomeSteps

LEMMA ContractInit == Init => Contract!Init
<1> SUFFICES ASSUME Init PROVE Contract!Init
  OBVIOUS
<1>1. Live /\ sent = <<>>
  BY DEF Init, Live
<1> QED BY <1>1, DeliveredNothing DEF Contract!Init

\* The pipeline, with all its tasks, channels and phases, implements the contract
\* of its caller: rows and success only for a wholly delivered document.
THEOREM PipelineImplementsContract == Spec => ImplementsContract
<1>1. StreamInv /\ [Next]_vars => [Contract!Next]_(Contract!vars)
  BY ContractStep
<1> QED
  BY <1>1, ContractInit, StreamInit, StreamStep, PTL DEF Spec, ImplementsContract, Contract!Spec

=============================================================================
