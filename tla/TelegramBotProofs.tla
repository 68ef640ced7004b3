------------------------- MODULE TelegramBotProofs -------------------------
(***************************************************************************)
(* Theorems about TelegramBot, for any inboxes, groups and settings, and   *)
(* any number of updates, units and ends of the process.                   *)
(***************************************************************************)
EXTENDS TelegramBot, TLAPS

-----------------------------------------------------------------------------
(* The inductive invariant. *)

\* A handler is under way.
Handling == pc \in {"handle", "claimed", "stream", "return"}

\* The loop is at an answer of the server.
Answering == pc = "batch" \/ Handling

\* The part of TypeOK the arguments need.
Facts ==
    /\ inbox \in Inboxes /\ arrived \in 0 .. Len(inbox)
    /\ unconfirmed \subseteq Id /\ batch \subseteq Id /\ handled \subseteq Id
    /\ offset \in 1 .. arrived + 1
    /\ begun \in [DOMAIN inbox -> Nat]
    /\ Handling => offset > 1

\* What the offset has passed is handled, or under way.
Passed ==
    pc # "down" => \A i \in Id : i < offset => i \in handled \/ (Handling /\ i = Cur)

\* An answer holds everything that was not handled when it was given.
Listed ==
    Answering => \A i \in Id \ handled : i \in batch \/ \A j \in batch : j < i

\* What the server keeps and the offset has not reached was begun in vain if at all.
Clean ==
    \A i \in unconfirmed : pc = "down" \/ i >= offset => begun[i] = 0 \/ i \in excused

\* The rest of an answer is kept by the server, and not yet asked beyond.
Ahead ==
    Answering => \A i \in batch : i \in unconfirmed /\ (i >= offset \/ (Handling /\ i = Cur))

\* An update that has not come was not handled.
Fresh == \A i \in DOMAIN inbox : i > arrived => begun[i] = 0

LoopInv ==
    /\ Facts /\ Passed /\ Listed /\ Clean /\ Ahead /\ Fresh
    /\ NoneSkipped /\ RepeatedOnlyAfterLoss

\* What a handler has checked stays true while it runs.
ReplyInv ==
    /\ owners \subseteq Chat /\ told \in [Chat -> SUBSET Reply]
    /\ pc = "claimed" => Mail.chat \in owners
    /\ pc = "stream" => Authorized(Mail)
    /\ RepliesHonest

\* What deliver_stream_events keeps of a message.
Message == [units : Nat, next : Nat, sent : Nat \union {Nothing},
            edited : BOOLEAN, failed : BOOLEAN, final : BOOLEAN]

\* The message under edit: what is known to be shown was the latest text once.
Drawn ==
    /\ stream \in Message /\ shown \in Seq(Nat)
    /\ stream.sent # Nothing =>
        /\ 0 < stream.sent /\ stream.sent <= Rendered(stream.units)
        /\ shown # <<>>
        /\ stream.sent = Rendered(stream.units) => shown[Len(shown)] = stream.sent
    /\ stream.final /\ ~stream.failed /\ stream.units > 0 => stream.sent = Rendered(stream.units)

-----------------------------------------------------------------------------
(* What kinds of step there are. *)

\* A step of a handler: the loop stands still.
HandlerStep ==
    /\ Handling /\ pc' \in {"handle", "claimed", "stream", "return"}
    /\ UNCHANGED <<serverVars, stop, offset, batch, tries, begun, handled, excused, unitVars>>

LEMMA HandlersStep == Handle \/ StreamEnds => HandlerStep
<1> SUFFICES ASSUME Handle \/ StreamEnds PROVE HandlerStep
  OBVIOUS
<1> USE DEF HandlerStep, Handling, Handler, Ends, Silent, Say, EventOnly, loopVars, logVars,
            serverVars, mailVars, unitVars
<1>1. CASE HandleText
  BY <1>1 DEF HandleText
<1>2. CASE Claim
  BY <1>2 DEF Claim
<1>3. CASE TellClaim
  BY <1>3 DEF TellClaim
<1>4. CASE Translate
  BY <1>4 DEF Translate
<1>5. CASE HandleDocument
  BY <1>5 DEF HandleDocument
<1>6. CASE TranslateDocument
  BY <1>6 DEF TranslateDocument, SendDocument
<1>7. CASE StartStream
  BY <1>7 DEF StartStream
<1>8. CASE Token
  BY <1>8 DEF Token
<1>9. CASE SegmentDone
  BY <1>9 DEF SegmentDone
<1>10. CASE AllDone
  BY <1>10 DEF AllDone
<1>11. CASE StreamEnds
  BY <1>11 DEF StreamEnds
<1> QED
  BY <1>1, <1>2, <1>3, <1>4, <1>5, <1>6, <1>7, <1>8, <1>9, <1>10, <1>11 DEF Handle

\* A step that only tells the process, or the units, that it is to end.
SignalStep ==
    UNCHANGED <<owners, serverVars, pc, offset, batch, tries, editVars, told, logVars>>

LEMMA SignalsStep == Stop \/ Replace \/ TryRestart => SignalStep
  BY DEF Stop, Replace, TryRestart, SignalStep

\* A step that loses the process and excuses what it had begun.
LossStep ==
    /\ pc' = "down" /\ batch' = {} /\ excused' = excused \union Kept
    /\ stream' = NoStream /\ shown' = <<>>
    /\ UNCHANGED <<owners, serverVars, offset, told, begun, handled>>

LEMMA LossesStep == Crash \/ BailOut \/ LeaveUnconfirmed => LossStep
  BY DEF Crash, BailOut, LeaveUnconfirmed, Gone, Forget, LossStep

\* A step of the loop away from handlers: the server may be told the offset.
LoopStep ==
    /\ pc \notin {"down", "handle", "claimed", "stream", "return"}
    /\ pc' \in {"loop", "poll", "confirm"}
    /\ batch' \in {batch, {}}
    /\ MayAcknowledge
    /\ UNCHANGED <<mailVars, owners, offset, editVars, told, logVars>>

LEMMA LoopsStep == Turn \/ PollFails \/ Leave \/ ConfirmFails => LoopStep
<1> USE DEF LoopStep, MayAcknowledge, serverVars
<1>1. Turn => LoopStep
  BY DEF Turn
<1>2. PollFails => LoopStep
  BY DEF PollFails
<1>3. Leave => LoopStep
  BY DEF Leave
<1>4. ConfirmFails => LoopStep
  BY DEF ConfirmFails
<1> QED
  BY <1>1, <1>2, <1>3, <1>4

LEMMA StepKinds ==
  [Next]_vars =>
    \/ HandlerStep \/ SignalStep \/ LossStep \/ LoopStep
    \/ Arrive \/ Started \/ Poll \/ (\E i \in batch : Take(i)) \/ Confirm \/ Return
<1>1. UNCHANGED vars => SignalStep
  BY DEF vars, SignalStep, loopVars
<1> QED
  BY <1>1, HandlersStep, SignalsStep, LossesStep, LoopsStep DEF Next, Restart, Operator

-----------------------------------------------------------------------------
(* The loop: LoopInv. *)

LEMMA LoopInit == Init => LoopInv
  BY InboxesAssumption
     DEF Init, LoopInv, Facts, Passed, Listed, Clean, Ahead, Fresh, NoneSkipped,
         RepeatedOnlyAfterLoss, Handling, Answering, Id, Mails

\* Within a handler nothing the invariant speaks of changes.
LEMMA LoopHandler == LoopInv /\ HandlerStep => LoopInv'
  BY DEF LoopInv, Facts, Passed, Listed, Clean, Ahead, Fresh, NoneSkipped, Cur,
         RepeatedOnlyAfterLoss, Handling, Answering, Id, HandlerStep, serverVars, mailVars

LEMMA LoopSignal == LoopInv /\ SignalStep => LoopInv'
  BY DEF LoopInv, Facts, Passed, Listed, Clean, Ahead, Fresh, NoneSkipped, Cur,
         RepeatedOnlyAfterLoss, Handling, Answering, Id, SignalStep, serverVars, mailVars, logVars

\* What the server keeps and was begun is excused now.
LEMMA LoopLoss == LoopInv /\ LossStep => LoopInv'
<1> SUFFICES ASSUME LoopInv, LossStep PROVE LoopInv'
  OBVIOUS
<1> USE DEF LoopInv, LossStep, serverVars, mailVars, Id
<1>1. Facts'
  BY DEF Facts, Handling
<1>2. Passed' /\ Listed' /\ Ahead'
  BY DEF Passed, Listed, Ahead, Answering, Handling
<1>3. Clean'
  BY DEF Clean, Kept, Facts
<1>4. Fresh' /\ NoneSkipped' /\ RepeatedOnlyAfterLoss'
  BY DEF Fresh, NoneSkipped, RepeatedOnlyAfterLoss
<1> QED
  BY <1>1, <1>2, <1>3, <1>4

\* The server drops nothing but what was handled, unless a handler is under way.
LEMMA Acknowledged ==
  ASSUME LoopInv, ~Handling, pc # "down", MayAcknowledge, UNCHANGED <<mailVars, handled>>
  PROVE  NoneSkipped' /\ unconfirmed' \subseteq unconfirmed
  BY DEF LoopInv, Facts, Passed, NoneSkipped, MayAcknowledge, Acknowledge, Id, mailVars

LEMMA LoopLoop == LoopInv /\ LoopStep => LoopInv'
<1> SUFFICES ASSUME LoopInv, LoopStep PROVE LoopInv'
  OBVIOUS
<1> USE DEF LoopInv, LoopStep, mailVars, logVars, Id
<1>0. ~Handling /\ ~Handling' /\ ~Answering'
  BY DEF Handling, Answering
<1>1. NoneSkipped' /\ unconfirmed' \subseteq unconfirmed
  BY <1>0, Acknowledged
<1>2. Facts'
  BY <1>0, <1>1 DEF Facts
<1>3. Passed' /\ Listed' /\ Ahead'
  BY <1>0 DEF Passed, Listed, Ahead
<1>4. Clean' /\ Fresh' /\ RepeatedOnlyAfterLoss'
  BY <1>1 DEF Clean, Fresh, RepeatedOnlyAfterLoss
<1> QED
  BY <1>1, <1>2, <1>3, <1>4

\* A new update is above everything, and nothing has begun for it.
LEMMA LoopArrive == LoopInv /\ Arrive => LoopInv'
<1> SUFFICES ASSUME LoopInv, Arrive PROVE LoopInv'
  OBVIOUS
<1> USE DEF LoopInv, Arrive, loopVars, logVars, Id
<1>0. arrived \in Nat /\ arrived' = arrived + 1 /\ unconfirmed' = unconfirmed \union {arrived + 1}
      /\ Len(inbox) \in Nat /\ arrived + 1 \in DOMAIN inbox
  BY InboxesAssumption DEF Facts
<1>1. Facts'
  BY <1>0 DEF Facts, Handling
<1>2. Passed'
  BY <1>0 DEF Facts, Passed, Handling, Cur
<1>3. Listed'
  BY <1>0 DEF Facts, Listed, Answering, Handling
<1>4. Ahead'
  BY <1>0 DEF Facts, Ahead, Answering, Handling, Cur
<1>5. Clean' /\ Fresh' /\ RepeatedOnlyAfterLoss'
  BY <1>0 DEF Facts, Clean, Fresh, RepeatedOnlyAfterLoss
<1>6. NoneSkipped'
  BY <1>0 DEF Facts, NoneSkipped
<1> QED
  BY <1>1, <1>2, <1>3, <1>4, <1>5, <1>6

\* A new process asks for everything; nothing it was given is unexcused.
LEMMA LoopStarted == LoopInv /\ Started => LoopInv'
<1> SUFFICES ASSUME LoopInv, Started PROVE LoopInv'
  OBVIOUS
<1> USE DEF LoopInv, Started, Runs, serverVars, mailVars, logVars, Id
<1>1. Facts'
  BY DEF Facts, Handling
<1>2. Passed' /\ Listed' /\ Ahead'
  BY DEF Passed, Listed, Ahead, Answering, Handling
<1>3. Clean' /\ Fresh' /\ NoneSkipped' /\ RepeatedOnlyAfterLoss'
  BY DEF Clean, Fresh, NoneSkipped, RepeatedOnlyAfterLoss
<1> QED
  BY <1>1, <1>2, <1>3

\* The answer is all the server keeps, and it keeps all that was not handled.
LEMMA LoopPoll == LoopInv /\ Poll => LoopInv'
<1> SUFFICES ASSUME LoopInv, Poll PROVE LoopInv'
  OBVIOUS
<1> USE DEF LoopInv, Poll, mailVars, logVars, Id
<1>0. ~Handling /\ ~Handling' /\ pc # "down"
  BY DEF Handling
<1>1. NoneSkipped' /\ unconfirmed' \subseteq unconfirmed
  BY <1>0, Acknowledged DEF MayAcknowledge
<1>2. Facts'
  BY <1>0, <1>1 DEF Facts
<1>3. Passed' /\ Ahead'
  BY <1>0 DEF Passed, Ahead, Acknowledge
<1>4. Listed'
  BY <1>1 DEF Listed, NoneSkipped
<1>5. Clean' /\ Fresh' /\ RepeatedOnlyAfterLoss'
  BY <1>1 DEF Clean, Fresh, RepeatedOnlyAfterLoss
<1> QED
  BY <1>1, <1>2, <1>3, <1>4, <1>5

LEMMA InboxDomain ==
  ASSUME inbox \in Seq(Mails)
  PROVE  Len(inbox) \in Nat /\ DOMAIN inbox = 1 .. Len(inbox)
  OBVIOUS

\* Below the first update of an answer everything is handled.
LEMMA LoopTake == ASSUME LoopInv, NEW i \in batch, Take(i) PROVE LoopInv'
<1> USE DEF LoopInv, Take, First, serverVars, mailVars, Id
<1>a. ~Handling /\ Handling' /\ Answering
  BY DEF Answering, Handling
<1>b. inbox \in Seq(Mails)
  BY InboxesAssumption DEF Facts
<1>c. /\ i \in 1 .. arrived /\ arrived \in Nat /\ offset \in Nat
      /\ i \in DOMAIN inbox
  <2>1. Len(inbox) \in Nat /\ DOMAIN inbox = 1 .. Len(inbox)
    BY <1>b, InboxDomain
  <2>2. arrived \in 0 .. Len(inbox) /\ offset \in 1 .. arrived + 1 /\ i \in 1 .. arrived
    BY DEF Facts
  <2> HIDE DEF Take, LoopInv
  <2>3. arrived \in Nat /\ offset \in Nat /\ i \in 1 .. Len(inbox)
    BY <2>1, <2>2
  <2> QED
    BY <2>1, <2>2, <2>3
<1>d. Cur' = i
  BY <1>c DEF Cur
<1>0. /\ i \in 1 .. arrived /\ arrived \in Nat /\ offset \in Nat
      /\ i \in DOMAIN inbox /\ i \in unconfirmed /\ i >= offset
      /\ ~Handling /\ Handling' /\ Answering /\ Cur' = i
  BY <1>a, <1>c, <1>d DEF Ahead
<1>1. Facts'
  BY <1>0 DEF Facts
<1>2. Passed'
  BY <1>0 DEF Facts, Passed, Listed
<1>3. Listed'
  BY <1>0 DEF Facts, Listed
<1>4. Ahead'
  BY <1>0 DEF Facts, Ahead
<1>5. Clean'
  BY <1>0 DEF Facts, Clean
<1>6. Fresh' /\ NoneSkipped'
  BY <1>0 DEF Facts, Fresh, NoneSkipped
<1>7. RepeatedOnlyAfterLoss'
  BY <1>0 DEF Facts, Clean, RepeatedOnlyAfterLoss
<1> QED
  BY <1>1, <1>2, <1>3, <1>4, <1>5, <1>6, <1>7

LEMMA LoopReturn == LoopInv /\ Return => LoopInv'
<1> SUFFICES ASSUME LoopInv, Return PROVE LoopInv'
  OBVIOUS
<1> USE DEF LoopInv, Return, Handler, serverVars, mailVars, Id
<1>0. /\ Handling /\ ~Handling' /\ Answering /\ Cur \in 1 .. arrived
      /\ arrived \in Nat /\ offset \in Nat /\ offset = Cur + 1
  BY DEF Facts, Answering, Handling, Cur
<1>1. Facts'
  BY <1>0 DEF Facts
<1>2. Passed'
  BY <1>0 DEF Facts, Passed
<1>3. Listed'
  BY <1>0 DEF Facts, Listed
<1>4. Ahead'
  BY <1>0 DEF Facts, Ahead
<1>5. Clean' /\ Fresh' /\ NoneSkipped' /\ RepeatedOnlyAfterLoss'
  BY DEF Clean, Fresh, NoneSkipped, RepeatedOnlyAfterLoss
<1> QED
  BY <1>1, <1>2, <1>3, <1>4, <1>5

\* What the confirmation leaves with the server was never begun, or is excused.
LEMMA LoopConfirm == LoopInv /\ Confirm => LoopInv'
<1> SUFFICES ASSUME LoopInv, Confirm PROVE LoopInv'
  OBVIOUS
<1> USE DEF LoopInv, Confirm, Gone, mailVars, Id
<1>0. ~Handling /\ ~Handling' /\ pc # "down"
  BY DEF Handling
<1>1. NoneSkipped' /\ unconfirmed' \subseteq unconfirmed
  BY <1>0, Acknowledged DEF MayAcknowledge
<1>2. Facts'
  BY <1>0, <1>1 DEF Facts
<1>3. Passed' /\ Listed' /\ Ahead'
  BY <1>0 DEF Passed, Listed, Ahead, Answering
<1>4. Clean'
  BY DEF Clean, Acknowledge
<1>5. Fresh' /\ RepeatedOnlyAfterLoss'
  BY DEF Fresh, RepeatedOnlyAfterLoss
<1> QED
  BY <1>1, <1>2, <1>3, <1>4, <1>5

LEMMA LoopNext == LoopInv /\ [Next]_vars => LoopInv'
  BY StepKinds, LoopHandler, LoopSignal, LoopLoss, LoopLoop, LoopArrive, LoopStarted,
     LoopPoll, LoopTake, LoopReturn, LoopConfirm

\* However a process ends, the server gives up an update only after its handler
\* has returned (run_telegram_bot, poll.rs 430-456).
THEOREM NothingSkipped == Spec => []NoneSkipped
<1>1. LoopInv => NoneSkipped
  BY DEF LoopInv
<1> QED
  BY LoopInit, LoopNext, <1>1, PTL DEF Spec

\* A handler runs twice for one update only if a process that had taken it ended
\* while the server still kept it (poll.rs 430-456, confirm_offset_on_shutdown).
THEOREM NothingRepeated == Spec => []RepeatedOnlyAfterLoss
<1>1. LoopInv => RepeatedOnlyAfterLoss
  BY DEF LoopInv
<1> QED
  BY LoopInit, LoopNext, <1>1, PTL DEF Spec

-----------------------------------------------------------------------------
(* The answers: ReplyInv, next to LoopInv. *)

LEMMA MailTyped == LoopInv /\ Handling => Mail \in Mails
<1> SUFFICES ASSUME LoopInv, Handling PROVE Mail \in Mails
  OBVIOUS
<1>1. inbox \in Seq(Mails) /\ arrived \in 0 .. Len(inbox) /\ offset \in 2 .. arrived + 1
  BY InboxesAssumption DEF LoopInv, Facts
<1>2. offset - 1 \in 1 .. Len(inbox)
  BY <1>1
<1> QED
  BY <1>1, <1>2 DEF Mail, Cur

LEMMA ReplyInit == Init => ReplyInv
  BY DEF Init, ReplyInv, RepliesHonest

\* Steps that neither touch owners and answers nor enter a guarded state.
LEMMA ReplyElsewhere ==
  ASSUME ReplyInv, UNCHANGED <<owners, told>>, pc' \notin {"claimed", "stream"}
  PROVE  ReplyInv'
  BY DEF ReplyInv, RepliesHonest

LEMMA ReplySame ==
  ASSUME ReplyInv, UNCHANGED <<owners, told, pc, inbox, offset, option>>
  PROVE  ReplyInv'
  BY DEF ReplyInv, RepliesHonest, Mail, Cur, Authorized

\* Only what the chat has a right to is said to it.
LEMMA ReplySay ==
  ASSUME LoopInv, ReplyInv, Handling, NEW r \in Reply, Say(r),
         r = "claimed" => Mail.chat \in owners,
         r = "answer" => Authorized(Mail)
  PROVE  ReplyInv'
<1>1. Mail \in Mails
  BY MailTyped
<1>2. Mail.chat \in Chat
  BY <1>1 DEF Mails
<1>3. owners' = owners /\ pc' = "return"
  BY DEF Say, Ends
<1>4. told' \in [Chat -> SUBSET Reply]
  BY <1>2 DEF Say, ReplyInv
<1>5. RepliesHonest'
  BY <1>2, <1>3 DEF Say, ReplyInv, RepliesHonest, Authorized
<1> QED
  BY <1>3, <1>4, <1>5 DEF ReplyInv

\* A partial or final text is an answer to the chat under way.
LEMMA ReplyPublish ==
  ASSUME LoopInv, ReplyInv, pc = "stream", EventOnly, NEW s, NEW forced, Publish(s, forced)
  PROVE  ReplyInv'
<1>1. Mail \in Mails
  BY MailTyped DEF Handling
<1>2. Mail.chat \in Chat
  BY <1>1 DEF Mails
<1>3. owners' = owners /\ pc' = pc /\ Mail' = Mail /\ option' = option
  BY DEF EventOnly, loopVars, serverVars, mailVars, Mail, Cur
<1>4. Authorized(Mail)
  BY DEF ReplyInv
<1>5. told' \in {told, [told EXCEPT ![Mail.chat] = @ \union {"answer"}]}
  BY DEF Publish, SendFirst, Edit
<1>6. told' \in [Chat -> SUBSET Reply]
  BY <1>2, <1>5 DEF ReplyInv, Reply
<1>7. RepliesHonest'
  BY <1>2, <1>3, <1>4, <1>5 DEF ReplyInv, RepliesHonest, Authorized
<1> QED
  BY <1>3, <1>4, <1>6, <1>7 DEF ReplyInv, Authorized

LEMMA ReplyHandle == LoopInv /\ ReplyInv /\ Handle => ReplyInv'
<1> SUFFICES ASSUME LoopInv, ReplyInv, Handle PROVE ReplyInv'
  OBVIOUS
<1>0. ASSUME pc = "handle" PROVE Handling
  BY <1>0 DEF Handling
<1>1. CASE HandleText
  <2>1. ASSUME Silent PROVE ReplyInv'
    BY <2>1, ReplyElsewhere DEF Silent, Ends
  <2>2. ASSUME NEW r \in {"help", "already", "denied"}, Say(r) PROVE ReplyInv'
    BY <1>0, <1>1, <2>2, ReplySay DEF HandleText, Reply
  <2> QED
    BY <1>1, <2>1, <2>2 DEF HandleText
<1>2. CASE Claim
  <2>1. Mail.chat \in Chat
    BY <1>0, <1>2, MailTyped DEF Claim, Mails
  <2>2. ASSUME UNCHANGED owners, Ends PROVE ReplyInv'
    BY <1>2, <2>2, ReplyElsewhere DEF Claim, Ends
  <2>3. ASSUME owners' = owners \union {Mail.chat}, pc' = "claimed", Handler PROVE ReplyInv'
    <3>1. Mail' = Mail
      BY <2>3 DEF Handler, serverVars, mailVars, Mail, Cur
    <3>2. told' = told
      BY <1>2 DEF Claim
    <3> QED
      BY <2>1, <2>3, <3>1, <3>2 DEF ReplyInv, RepliesHonest
  <2> QED
    BY <1>2, <2>2, <2>3 DEF Claim
<1>3. CASE TellClaim
  BY <1>3, ReplySay DEF TellClaim, ReplyInv, Handling, Reply
<1>4. CASE Translate
  BY <1>0, <1>4, ReplySay DEF Translate, Reply
<1>5. CASE HandleDocument
  <2>1. ASSUME Silent PROVE ReplyInv'
    BY <2>1, ReplyElsewhere DEF Silent, Ends
  <2>2. Refusal(Mail.body) \subseteq {"toolarge", "unsupported"}
    BY DEF Refusal
  <2>3. ASSUME NEW r \in {"denied", "toolarge", "unsupported"}, Say(r) PROVE ReplyInv'
    BY <1>0, <1>5, <2>3, ReplySay DEF HandleDocument, Reply
  <2> QED
    BY <1>5, <2>1, <2>2, <2>3 DEF HandleDocument
<1>6. CASE TranslateDocument
  BY <1>0, <1>6, ReplySay DEF TranslateDocument, SendDocument, Downloaded, Reply
<1>7. CASE StartStream
  <2>1. Mail' = Mail /\ option' = option /\ owners' = owners /\ told' = told /\ pc' = "stream"
    BY <1>7 DEF StartStream, Handler, serverVars, mailVars, Mail, Cur
  <2>2. Authorized(Mail)'
    BY <1>7, <2>1 DEF StartStream, Authorized
  <2> QED
    BY <2>1, <2>2 DEF ReplyInv, RepliesHonest
<1>8. CASE Token
  BY <1>8, ReplyPublish DEF Token
<1>9. CASE SegmentDone
  BY <1>9, ReplyPublish DEF SegmentDone
<1>10. CASE AllDone
  BY <1>10, ReplyPublish DEF AllDone
<1> QED
  BY <1>1, <1>2, <1>3, <1>4, <1>5, <1>6, <1>7, <1>8, <1>9, <1>10 DEF Handle

LEMMA ReplyNext == LoopInv /\ ReplyInv /\ [Next]_vars => ReplyInv'
<1> SUFFICES ASSUME LoopInv, ReplyInv, [Next]_vars PROVE ReplyInv'
  OBVIOUS
<1>1. CASE Handle
  BY <1>1, ReplyHandle
<1>2. CASE StreamEnds \/ Return
  BY <1>2, ReplyElsewhere DEF StreamEnds, Ends, Return
<1>3. CASE SignalStep
  BY <1>3, ReplySame DEF SignalStep, serverVars, mailVars
<1>4. CASE LossStep \/ LoopStep \/ Started \/ Poll \/ Confirm
  BY <1>4, ReplyElsewhere DEF LossStep, LoopStep, Started, Poll, Confirm, Gone
<1>5. CASE Arrive
  BY <1>5, ReplySame DEF Arrive, loopVars
<1>6. CASE \E i \in batch : Take(i)
  BY <1>6, ReplyElsewhere DEF Take
<1>7. CASE UNCHANGED vars
  BY <1>7, ReplySame DEF vars, serverVars, mailVars, loopVars
<1> QED
  BY <1>1, <1>2, <1>3, <1>4, <1>5, <1>6, <1>7, SignalsStep, LossesStep, LoopsStep
     DEF Next, Restart, Operator

\* A chat that was told it owns the bot is an owner for good, and only owners and
\* configured groups get translations (evaluate_text_message, authorize_chat).
THEOREM AnswersHonest == Spec => []RepliesHonest
<1>1. Init => LoopInv /\ ReplyInv
  BY LoopInit, ReplyInit
<1>2. LoopInv /\ ReplyInv /\ [Next]_vars => LoopInv' /\ ReplyInv'
  BY LoopNext, ReplyNext
<1>3. ReplyInv => RepliesHonest
  BY DEF ReplyInv
<1> QED
  BY <1>1, <1>2, <1>3, PTL DEF Spec

-----------------------------------------------------------------------------
(* The message under edit: Drawn. *)

LEMMA RenderedType ==
  ASSUME NEW n \in Nat
  PROVE  /\ Rendered(n) \in Nat /\ (Rendered(n) = 0 <=> n = 0)
         /\ Rendered(n) <= Rendered(n + 1)
  BY BotBoundsAssumption DEF Rendered

LEMMA DrawnForget == Forget => Drawn'
  BY NothingAssumption DEF Forget, NoStream, Drawn, Message

LEMMA DrawnSame == Drawn /\ UNCHANGED editVars => Drawn'
  BY DEF Drawn, editVars

\* An event shows the grown text, or leaves what is known to be shown; once it
\* is forced there is no third way.
LEMMA DrawnPublish ==
  ASSUME Drawn, ~stream.final, NEW s \in Message, NEW forced \in BOOLEAN, Publish(s, forced),
         s.units \in {stream.units, stream.units + 1},
         s.sent = stream.sent,
         s.final => forced
  PROVE  Drawn'
<1> DEFINE r == Rendered(s.units)
<1>1. /\ Rendered(stream.units) \in Nat /\ r \in Nat /\ Rendered(stream.units) <= r
      /\ r = 0 <=> s.units = 0
  <2>1. stream.units \in Nat /\ (s.units = stream.units \/ s.units = stream.units + 1)
    BY DEF Drawn, Message
  <2>2. Rendered(stream.units) \in Nat /\ Rendered(stream.units) <= Rendered(stream.units + 1)
    BY <2>1, RenderedType
  <2>3. s.units \in Nat /\ r \in Nat /\ (r = 0 <=> s.units = 0)
    BY <2>1, RenderedType
  <2> QED
    BY <2>1, <2>2, <2>3
<1>2. shown \in Seq(Nat)
  BY DEF Drawn
<1>3. s.sent # Nothing =>
        /\ s.sent \in Nat /\ 0 < s.sent /\ s.sent <= Rendered(stream.units)
        /\ shown # <<>>
        /\ s.sent = Rendered(stream.units) => shown[Len(shown)] = s.sent
  BY DEF Drawn, Message
<1>4. Nothing \notin Nat
  BY NothingAssumption
<1>5. s.sent = r => Rendered(stream.units) = r
  BY <1>1, <1>3, <1>4
<1> HIDE DEF r
<1>6. CASE /\ r = 0 \/ s.sent = r
           /\ stream' = [s EXCEPT !.failed = FALSE] /\ UNCHANGED <<shown, told>>
  <2>1. stream' \in Message /\ stream'.sent = s.sent /\ stream'.units = s.units /\ stream'.final = s.final
    BY <1>6 DEF Message
  <2>2. Rendered(stream'.units) = r
    BY <2>1 DEF r
  <2> QED
    BY <1>1, <1>2, <1>3, <1>4, <1>5, <1>6, <2>1, <2>2 DEF Drawn
<1>7. CASE r # 0 /\ s.sent = Nothing /\ SendFirst(s, r)
  <2>1. shown' \in Seq(Nat) /\ (shown' = shown \/ shown' = Append(shown, r))
    <3>1. shown' = shown \/ shown' = Append(shown, r)
      BY <1>7 DEF SendFirst
    <3>2. shown \in Seq(Nat) /\ r \in Nat
      BY <1>1, <1>2
    <3>3. Append(shown, r) \in Seq(Nat)
      BY <3>2
    <3> QED
      BY <3>1, <3>2, <3>3
  <2>2. stream' \in Message /\ stream'.units = s.units /\ stream'.final = s.final
    BY <1>1, <1>7 DEF SendFirst, Message
  <2>3. Rendered(stream'.units) = r
    BY <2>2 DEF r
  <2>4. CASE stream'.sent = r /\ shown' = Append(shown, r)
    <3>1. shown' # <<>> /\ shown'[Len(shown')] = r
      BY <1>1, <1>2, <2>4
    <3> QED
      BY <1>1, <1>7, <2>1, <2>2, <2>3, <2>4, <3>1 DEF Drawn
  <2>5. CASE stream'.sent = Nothing /\ stream'.failed
    BY <2>1, <2>2, <2>5 DEF Drawn
  <2>6. \/ stream'.sent = r /\ shown' = Append(shown, r)
        \/ stream'.sent = Nothing /\ stream'.failed
    BY <1>7 DEF SendFirst, Message
  <2> QED
    BY <2>4, <2>5, <2>6
<1>8. CASE r # 0 /\ s.sent \notin {Nothing, r} /\ ~forced /\ s.edited
           /\ stream' = s /\ UNCHANGED <<shown, told>>
  <2>1. Rendered(stream'.units) = r /\ stream'.sent # r
    BY <1>8 DEF r
  <2> QED
    BY <1>1, <1>2, <1>3, <1>8, <2>1 DEF Drawn
<1>9. CASE r # 0 /\ s.sent \notin {Nothing, r} /\ Edit(s, r)
  <2>1. Len(shown) \in 1 .. Len(shown) /\ Len(shown) \in Nat
    BY <1>2, <1>3, <1>9
  <2> DEFINE edited == [shown EXCEPT ![Len(shown)] = r]
  <2>2. edited \in Seq(Nat) /\ Len(edited) = Len(shown) /\ edited # <<>> /\ edited[Len(edited)] = r
    BY <1>1, <1>2, <2>1
  <2>3. stream' \in Message /\ stream'.units = s.units /\ stream'.final = s.final
    BY <1>1, <1>9 DEF Edit, Message
  <2>4. Rendered(stream'.units) = r
    BY <2>3 DEF r
  <2>5. \/ stream'.sent = r /\ shown' = edited
        \/ stream'.sent = s.sent /\ stream'.failed /\ shown' \in {shown, edited}
    BY <1>9 DEF Edit, Message
  <2> HIDE DEF edited
  <2>6. CASE stream'.sent = r /\ shown' = edited
    BY <1>1, <1>9, <2>2, <2>3, <2>4, <2>6 DEF Drawn
  <2>7. CASE stream'.sent = s.sent /\ stream'.failed /\ shown' \in {shown, edited}
    BY <1>1, <1>2, <1>3, <1>9, <2>2, <2>3, <2>4, <2>7 DEF Drawn
  <2> QED
    BY <2>5, <2>6, <2>7
<1> QED
  BY <1>6, <1>7, <1>8, <1>9 DEF Publish, r

LEMMA DrawnNext == Drawn /\ [Next]_vars => Drawn'
<1> SUFFICES ASSUME Drawn, [Next]_vars PROVE Drawn'
  OBVIOUS
<1>0. stream \in Message
  BY DEF Drawn
<1>1. CASE Token
  <2> DEFINE s == [stream EXCEPT !.units = @ + 1]
  <2>1. s \in Message /\ s.units = stream.units + 1 /\ s.sent = stream.sent /\ s.final = stream.final
    BY <1>0 DEF Message
  <2>2. ~stream.final /\ Publish(s, FALSE)
    BY <1>1 DEF Token
  <2> QED
    BY <2>1, <2>2, DrawnPublish
<1>2. CASE SegmentDone
  <2> DEFINE s == [stream EXCEPT !.next = @ + 1]
  <2>1. s \in Message /\ s.units = stream.units /\ s.sent = stream.sent
    BY <1>0 DEF Message
  <2>2. ~stream.final /\ Publish(s, TRUE)
    BY <1>2 DEF SegmentDone
  <2> QED
    BY <2>1, <2>2, DrawnPublish
<1>3. CASE AllDone
  <2>1. PICK n \in {stream.units, stream.units + 1} :
          Publish([stream EXCEPT !.units = n, !.final = TRUE], TRUE)
    BY <1>3 DEF AllDone
  <2> DEFINE s == [stream EXCEPT !.units = n, !.final = TRUE]
  <2>2. s \in Message /\ s.units = n /\ s.sent = stream.sent
    <3>1. n \in Nat
      BY <1>0 DEF Message
    <3> QED
      BY <1>0, <3>1 DEF Message
  <2>3. ~stream.final
    BY <1>3 DEF AllDone
  <2> QED
    BY <2>1, <2>2, <2>3, DrawnPublish
<1>4. CASE LossStep \/ Confirm \/ StreamEnds
  BY <1>4, DrawnForget DEF LossStep, Confirm, Gone, StreamEnds, Forget
<1>5. CASE HandleText \/ Claim \/ TellClaim \/ Translate \/ HandleDocument
           \/ TranslateDocument \/ StartStream \/ Return
  BY <1>5, DrawnSame DEF HandleText, Claim, TellClaim, Translate, HandleDocument,
     TranslateDocument, SendDocument, StartStream, Return, Silent, Say
<1>6. CASE SignalStep \/ LoopStep \/ Arrive \/ Started \/ Poll \/ (\E i \in batch : Take(i))
  BY <1>6, DrawnSame DEF SignalStep, LoopStep, Arrive, Started, Poll, Take
<1>7. CASE UNCHANGED vars
  BY <1>7, DrawnSame DEF vars
<1> QED
  BY <1>1, <1>2, <1>3, <1>4, <1>5, <1>6, <1>7, SignalsStep, LossesStep, LoopsStep
     DEF Next, Handle, Restart, Operator

\* After the final event the message shows the final text, unless the very call
\* that was to show it failed (publish_stream_batch).
THEOREM FinalTextShown == Spec => []FinalShown
<1>1. Init => Drawn
  BY NothingAssumption DEF Init, NoStream, Drawn, Message
<1>2. Drawn => FinalShown
  <2> SUFFICES ASSUME Drawn, stream.final, ~stream.failed, stream.units > 0
               PROVE  shown # <<>> /\ shown[Len(shown)] = Rendered(stream.units)
    BY DEF FinalShown
  <2>1. Rendered(stream.units) \in Nat
    BY RenderedType DEF Drawn, Message
  <2> QED
    BY <2>1, NothingAssumption DEF Drawn
<1> QED
  BY <1>1, <1>2, DrawnNext, PTL DEF Spec
=============================================================================
