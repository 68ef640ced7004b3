----------------------------- MODULE TelegramBot -----------------------------
(***************************************************************************)
(* The long-poll bot: crates/hymt-cli/src/telegram/poll.rs and logic.rs.   *)
(*                                                                         *)
(* The server keeps an update until getUpdates is called with an offset    *)
(* above it, and hands out whatever it still keeps.  The bot's offset      *)
(* lives in memory only: a new process asks from 0, so everything that was *)
(* handled and not confirmed comes again.  The answer to a text may be     *)
(* streamed into one message that is sent once and edited as the           *)
(* translation grows.  Any call to the Bot API may fail, also after it     *)
(* took effect.                                                            *)
(*                                                                         *)
(* A text under translation is the number of its units, which only grows   *)
(* (StreamPipeline!OrderedOutput); segments finish in document order.      *)
(* Wording, languages, file names and the typing indicator are left out.   *)
(***************************************************************************)
EXTENDS Naturals, Sequences, FiniteSets

CONSTANTS
    Inboxes,    \* sequences of updates under study: [chat, kind, body]
    Groups,     \* telegram.groups
    Options,    \* settings under study: [mode, stream, documents]
    Reasons,    \* why a process may end by itself
    Segments,   \* segments of a translated text
    MaxUnits,   \* units of a translated text
    Limit,      \* TELEGRAM_INLINE_LIMIT, in units
    MaxEnds,    \* bound on ends and crashes of the process
    Nothing     \* no message has been sent

Chat == UNION {{box[i].chat : i \in DOMAIN box} : box \in Inboxes}
Bodies == {"none", "empty", "help", "claim", "text", "file", "odd", "large"}
Mails == [chat : Chat, kind : {"private", "group", "other"}, body : Bodies]
Reply == {"help", "denied", "already", "claimed", "answer", "unsupported", "toolarge", "invalid"}

ASSUME InboxesAssumption == \A box \in Inboxes : box \in Seq(Mails)
ASSUME OptionsAssumption ==
    Options \subseteq [mode : {"owners", "groups"}, stream : BOOLEAN, documents : BOOLEAN]
ASSUME ReasonsAssumption == Reasons \subseteq {"signal", "replaced", "disabled", "tokenless"}
ASSUME BotBoundsAssumption ==
    Segments \in Nat /\ MaxUnits \in Nat /\ Limit \in Nat \ {0} /\ MaxEnds \in Nat
ASSUME NothingAssumption == Nothing \notin Nat

VARIABLES
    option,      \* the telegram section of the configuration
    inbox,       \* the updates people send, in order
    arrived,     \* how many of them the server has received
    owners,      \* telegram.owners, persisted by every claim
    unconfirmed, \* updates the server still keeps
    pc,          \* where the process is
    stop,        \* why it is to end, or "no"
    offset,      \* the next update id to ask for
    batch,       \* updates of the last answer still to be looked at, by id
    tries,       \* confirmation requests left
    stream,      \* the message under edit: deliver_stream_events
    shown,       \* texts of the messages sent for it, the last one edited
    told,        \* history: replies each chat has received
    begun,       \* history: how often a handler was entered for an update
    handled,     \* history: updates whose handler has returned
    excused,     \* history: begun, and kept by the server when a process was lost
    ends,        \* processes that have ended
    again,       \* the service manager starts an ended process again
    trigger      \* the path unit has seen a new executable

mailVars == <<option, inbox, arrived>>
serverVars == <<mailVars, unconfirmed>>
loopVars == <<pc, stop, offset, batch, tries>>
editVars == <<stream, shown>>
logVars == <<begun, handled, excused>>
unitVars == <<ends, again, trigger>>
vars == <<owners, serverVars, loopVars, editVars, told, logVars, unitVars>>

\* Updates the server has received, by their ids.
Id == 1 .. arrived

NoStream == [units |-> 0, next |-> 0, sent |-> Nothing, edited |-> FALSE, failed |-> FALSE, final |-> FALSE]

Init ==
    /\ option \in Options /\ owners = {}
    /\ inbox \in Inboxes /\ arrived = 0 /\ unconfirmed = {}
    /\ pc = "loop" /\ stop = "no" /\ offset = 1 /\ batch = {} /\ tries = 2
    /\ stream = NoStream /\ shown = <<>>
    /\ told = [c \in Chat |-> {}]
    /\ begun = [i \in DOMAIN inbox |-> 0] /\ handled = {} /\ excused = {}
    /\ ends = 0 /\ again = FALSE /\ trigger = FALSE

-----------------------------------------------------------------------------
(* The process and its units: services/hymt-telegram*.                      *)

\* Somebody sends the bot an update.
Arrive ==
    /\ arrived < Len(inbox)
    /\ arrived' = arrived + 1 /\ unconfirmed' = unconfirmed \union {arrived'}
    /\ UNCHANGED <<option, inbox, owners, loopVars, editVars, told, logVars, unitVars>>

Runs == pc # "down"

Forget == stream' = NoStream /\ shown' = <<>>

\* The process is gone; lost are updates it may have begun in vain.  Only a
\* failed process, or one that is being restarted, is started again.
Gone(lost, restarts) ==
    /\ pc' = "down" /\ batch' = {}
    /\ ends' = ends + 1 /\ again' = restarts
    /\ excused' = excused \union lost
    /\ Forget

Kept == {i \in unconfirmed : begun[i] > 0}

\* systemctl restart, or an edit of the configuration that ends the loop.
Stop ==
    /\ Runs /\ stop = "no" /\ ends < MaxEnds
    /\ stop' \in Reasons \ {"replaced"}
    /\ UNCHANGED <<owners, serverVars, pc, offset, batch, tries, editVars, told, logVars, unitVars>>

\* A new executable: the process and the path unit notice, each in its time.
Replace ==
    /\ "replaced" \in Reasons /\ Runs /\ stop = "no" /\ ends < MaxEnds
    /\ stop' = "replaced" /\ trigger' = TRUE
    /\ UNCHANGED <<owners, serverVars, pc, offset, batch, tries, editVars, told, logVars, ends, again>>

\* systemctl try-restart does nothing for a unit that is not running.
TryRestart ==
    /\ trigger /\ trigger' = FALSE
    /\ stop' = IF Runs THEN "signal" ELSE stop
    /\ UNCHANGED <<owners, serverVars, pc, offset, batch, tries, editVars, told, logVars, ends, again>>

\* A crash, a kill or a panic at any step; the claims it wrote stay.
Crash ==
    /\ Runs /\ ends < MaxEnds
    /\ Gone(Kept, TRUE)
    /\ UNCHANGED <<owners, serverVars, stop, offset, tries, told, begun, handled, trigger>>

Started ==
    /\ ~Runs
    /\ pc' = "loop" /\ stop' = "no" /\ offset' = 1 /\ tries' = 2 /\ again' = FALSE
    /\ UNCHANGED <<owners, serverVars, batch, editVars, told, logVars, ends, trigger>>

Restart == again /\ Started

Operator == ~again /\ Started

-----------------------------------------------------------------------------
(* The poll loop: run_telegram_bot.  Offset 1 stands for offset 0: no id is *)
(* below it.                                                                *)

\* The server drops what lies below the offset it is asked for.
Acknowledge == unconfirmed' = {i \in unconfirmed : i >= offset}

MayAcknowledge == Acknowledge \/ UNCHANGED unconfirmed

\* The head of the loop.
Turn ==
    /\ pc = "loop" /\ stop # "tokenless"
    /\ pc' = IF stop = "no" THEN "poll" ELSE "confirm"
    /\ UNCHANGED <<owners, serverVars, stop, offset, batch, tries, editVars, told, logVars, unitVars>>

\* An empty token is an error that returns at once, without confirming.
BailOut ==
    /\ pc = "loop" /\ stop = "tokenless"
    /\ Gone(Kept, TRUE)
    /\ UNCHANGED <<owners, serverVars, stop, offset, tries, told, begun, handled, trigger>>

\* get_updates.  A failed call may have reached the server.
PollFails ==
    /\ pc = "poll" /\ pc' = "loop"
    /\ MayAcknowledge
    /\ UNCHANGED <<mailVars, owners, stop, offset, batch, tries, editVars, told, logVars, unitVars>>

\* A bug: the offset of the whole answer is taken at once.
GreedyPoll ==
    /\ pc = "poll" /\ pc' = "batch"
    /\ Acknowledge
    /\ batch' = unconfirmed'
    /\ offset' = arrived + 1
    /\ UNCHANGED <<mailVars, owners, stop, tries, editVars, told, logVars, unitVars>>

Poll ==
    /\ pc = "poll" /\ pc' = "batch"
    /\ Acknowledge
    /\ batch' = unconfirmed'
    /\ UNCHANGED <<mailVars, owners, stop, offset, tries, editVars, told, logVars, unitVars>>

\* Only a signal is looked at between two updates of one answer.
Leave ==
    /\ pc = "batch" /\ (batch = {} \/ stop = "signal")
    /\ pc' = "loop" /\ batch' = {}
    /\ UNCHANGED <<owners, serverVars, stop, offset, tries, editVars, told, logVars, unitVars>>

\* The first update of the answer that is left.
First(i) == i \in batch /\ \A j \in batch : i <= j

\* A bug: an update without a message is passed over before the offset moves.
SkippingTake(i) ==
    /\ pc = "batch" /\ First(i) /\ stop # "signal"
    /\ IF inbox[i].body = "none"
       THEN batch' = batch \ {i} /\ UNCHANGED <<pc, offset, begun>>
       ELSE /\ pc' = "handle" /\ batch' = batch
            /\ offset' = i + 1
            /\ begun' = [begun EXCEPT ![i] = @ + 1]
    /\ UNCHANGED <<owners, serverVars, stop, tries, editVars, told, handled, excused, unitVars>>

Take(i) ==
    /\ pc = "batch" /\ First(i) /\ stop # "signal"
    /\ pc' = "handle"
    /\ offset' = i + 1
    /\ begun' = [begun EXCEPT ![i] = @ + 1]
    /\ UNCHANGED <<owners, serverVars, stop, batch, tries, editVars, told, handled, excused, unitVars>>

\* Two requests are made before leaving; an error may hide success.
ConfirmFails ==
    /\ pc = "confirm" /\ offset > 1 /\ tries > 0
    /\ tries' = tries - 1
    /\ MayAcknowledge
    /\ UNCHANGED <<mailVars, owners, pc, stop, offset, batch, editVars, told, logVars, unitVars>>

\* A bug: a signal ends the process without confirming.
HastyConfirm ==
    /\ pc = "confirm" /\ offset > 1 /\ tries > 0
    /\ Gone({}, stop = "signal")
    /\ UNCHANGED <<serverVars, owners, stop, offset, tries, told, begun, handled, trigger>>

Confirm ==
    /\ pc = "confirm" /\ offset > 1 /\ tries > 0
    /\ Acknowledge
    /\ Gone({}, stop = "signal")
    /\ UNCHANGED <<mailVars, owners, stop, offset, tries, told, begun, handled, trigger>>

\* Nothing to confirm, or no way to.
LeaveUnconfirmed ==
    /\ pc = "confirm" /\ (offset = 1 \/ tries = 0)
    /\ Gone(Kept, stop = "signal")
    /\ UNCHANGED <<owners, serverVars, stop, offset, tries, told, begun, handled, trigger>>

-----------------------------------------------------------------------------
(* One update: handle_update, evaluate_text_message, handle_document_update *)

\* The update under way is the one the offset stands behind.
Cur == offset - 1
Mail == inbox[Cur]

\* authorize_chat
Authorized(m) ==
    \/ m.kind = "private" /\ m.chat \in owners
    \/ option.mode = "groups" /\ m.kind = "group" /\ m.chat \in Groups

\* What every step of a handler leaves alone.
Handler == UNCHANGED <<serverVars, stop, offset, tries, begun, excused, unitVars>>

Ends == pc' = "return" /\ UNCHANGED <<batch, handled>> /\ Handler

\* Whatever a handler returned, the loop goes on with the next update.
Return ==
    /\ pc = "return" /\ pc' = "batch" /\ batch' = batch \ {Cur}
    /\ handled' = handled \union {Cur}
    /\ Handler /\ UNCHANGED <<owners, editVars, told>>

\* sendMessage or sendDocument: it arrives, or it does not; the handler ends.
Say(r) ==
    /\ told' \in {told, [told EXCEPT ![Mail.chat] = @ \union {r}]}
    /\ Ends /\ UNCHANGED <<owners, editVars>>

Silent == Ends /\ UNCHANGED <<owners, editVars, told>>

Claims == Mail.body = "claim" /\ Mail.kind = "private"
Asks == Mail.body \in {"claim", "text"} /\ ~Claims

\* What evaluate_text_message says short of a translation or a new claim.
HandleText ==
    /\ pc = "handle"
    /\ \/ Mail.body \in {"none", "empty"} /\ Silent
       \/ Mail.body = "help" /\ Say("help")
       \/ Claims /\ Mail.chat \in owners /\ Say("already")
       \/ Asks /\ ~Authorized(Mail) /\ Say("denied")

\* A bug: the chat is congratulated even when the configuration could not be written.
GenerousClaim ==
    /\ pc = "handle" /\ Claims /\ Mail.chat \notin owners
    /\ owners' \in {owners, owners \union {Mail.chat}} /\ pc' = "claimed"
    /\ Handler /\ UNCHANGED <<batch, handled, editVars, told>>

\* add_telegram_owner writes the file before the chat is told, or fails.
Claim ==
    /\ pc = "handle" /\ Claims /\ Mail.chat \notin owners
    /\ \/ /\ owners' = owners \union {Mail.chat} /\ pc' = "claimed"
          /\ Handler /\ UNCHANGED <<batch, handled>>
       \/ UNCHANGED owners /\ Ends
    /\ UNCHANGED <<editVars, told>>

TellClaim == pc = "claimed" /\ Say("claimed")

\* Without streaming the whole translation is one message, or an error.
Translate ==
    /\ pc = "handle" /\ Asks /\ Authorized(Mail)
    /\ ~option.stream \/ Segments = 0
    /\ Say("answer")

\* classify_document, by the declared size and the kind of the file.
Refusal(body) ==
    CASE body = "large" -> {"toolarge"} [] body = "odd" -> {"unsupported"} [] OTHER -> {}

\* What a downloaded file turns out to be: longer than declared, or not text.
Downloaded == {"toolarge", "invalid", "good"}

\* A document without leave to be read.
HandleDocument ==
    /\ pc = "handle" /\ Mail.body \in {"file", "odd", "large"}
    /\ \/ ~option.documents /\ Silent
       \/ option.documents /\ ~Authorized(Mail) /\ Say("denied")
       \/ /\ option.documents /\ Authorized(Mail)
          /\ \E r \in Refusal(Mail.body) : Say(r)

\* The answer is a message, or a document when it is longer than one.
SendDocument == Say("answer")

TranslateDocument ==
    /\ pc = "handle" /\ Mail.body \in {"file", "odd", "large"}
    /\ option.documents /\ Authorized(Mail) /\ Refusal(Mail.body) = {}
    /\ \/ \E r \in Downloaded \ {"good"} : Say(r)
       \/ SendDocument

-----------------------------------------------------------------------------
(* A streamed reply: deliver_stream_events and publish_stream_batch.        *)

StartStream ==
    /\ pc = "handle" /\ Asks /\ Authorized(Mail)
    /\ option.stream /\ Segments > 0
    /\ pc' = "stream"
    /\ Handler /\ UNCHANGED <<owners, batch, handled, editVars, told>>

\* telegram_message_text: one more unit stands for the ellipsis.
Rendered(n) == IF n > Limit THEN Limit + 1 ELSE n

\* sendMessage: a first send that fails is tried again with the next event.
SendFirst(s, r) ==
    /\ \/ stream' = [s EXCEPT !.sent = r, !.failed = FALSE] /\ shown' = Append(shown, r)
       \/ stream' = [s EXCEPT !.failed = TRUE] /\ shown' \in {shown, Append(shown, r)}
    /\ told' = IF shown' = shown THEN told ELSE [told EXCEPT ![Mail.chat] = @ \union {"answer"}]

\* editMessageText: one more attempt when the server asks to wait. A failure
\* leaves the previous text as the last one known to be shown.
Edit(s, r) ==
    LET edited == [shown EXCEPT ![Len(shown)] = r]
    IN  /\ \/ /\ stream' = [s EXCEPT !.sent = r, !.failed = FALSE, !.edited = TRUE]
              /\ shown' = edited
           \/ stream' = [s EXCEPT !.failed = TRUE] /\ shown' \in {shown, edited}
        /\ UNCHANGED told

Publish(s, forced) ==
    LET r == Rendered(s.units)
    IN  \/ /\ r = 0 \/ s.sent = r
           /\ stream' = [s EXCEPT !.failed = FALSE] /\ UNCHANGED <<shown, told>>
        \/ r # 0 /\ s.sent = Nothing /\ SendFirst(s, r)
        \/ /\ r # 0 /\ s.sent \notin {Nothing, r} /\ ~forced /\ s.edited
           /\ stream' = s /\ UNCHANGED <<shown, told>>
        \/ r # 0 /\ s.sent \notin {Nothing, r} /\ Edit(s, r)

EventOnly == UNCHANGED <<owners, serverVars, loopVars, logVars, unitVars>>

Token ==
    /\ pc = "stream" /\ ~stream.final /\ stream.units < MaxUnits
    /\ Publish([stream EXCEPT !.units = @ + 1], FALSE)
    /\ EventOnly

SegmentDone ==
    /\ pc = "stream" /\ ~stream.final /\ stream.next < Segments
    /\ Publish([stream EXCEPT !.next = @ + 1], TRUE)
    /\ EventOnly

\* A bug: the final text is subject to the edit cadence.
LeisurelyAllDone ==
    /\ pc = "stream" /\ ~stream.final /\ stream.next = Segments
    /\ \E n \in {stream.units, stream.units + 1} :
         Publish([stream EXCEPT !.units = n, !.final = TRUE], FALSE)
    /\ EventOnly

\* The final text may add a notice to what was drafted.
AllDone ==
    /\ pc = "stream" /\ ~stream.final /\ stream.next = Segments
    /\ \E n \in {stream.units, stream.units + 1} :
         Publish([stream EXCEPT !.units = n, !.final = TRUE], TRUE)
    /\ EventOnly

\* try_join!: both sides ended, or the translation failed and delivery is dropped.
StreamEnds ==
    /\ pc = "stream"
    /\ Forget /\ Ends /\ UNCHANGED <<owners, told>>

Handle ==
    \/ HandleText \/ Claim \/ TellClaim \/ Translate \/ HandleDocument \/ TranslateDocument
    \/ StartStream \/ Token \/ SegmentDone \/ AllDone

Next ==
    \/ Arrive \/ Stop \/ Replace \/ TryRestart \/ Crash \/ Restart \/ Operator
    \/ Turn \/ BailOut \/ PollFails \/ Poll \/ Leave \/ \E i \in batch : Take(i)
    \/ ConfirmFails \/ Confirm \/ LeaveUnconfirmed
    \/ Handle \/ StreamEnds \/ Return

Spec == Init /\ [][Next]_vars

\* The process runs, the network answers sooner or later, the service manager
\* does what its units say, and somebody starts a bot that stays down.
FairSpec ==
    /\ Spec
    /\ WF_vars(TryRestart) /\ WF_vars(Restart) /\ WF_vars(Operator)
    /\ WF_vars(Turn \/ BailOut \/ Leave \/ (\E i \in batch : Take(i)) \/ Return \/ Confirm \/ LeaveUnconfirmed)
    /\ WF_vars(Handle) /\ WF_vars(StreamEnds) /\ SF_vars(Poll)

-----------------------------------------------------------------------------
(* Properties. *)

\* Types; a failed first send may leave messages behind.
TypeOK ==
    /\ option \in Options /\ inbox \in Inboxes /\ arrived \in 0 .. Len(inbox)
    /\ owners \subseteq Chat /\ unconfirmed \subseteq Id
    /\ pc \in {"loop", "poll", "batch", "handle", "claimed", "stream", "return", "confirm", "down"}
    /\ stop \in Reasons \union {"no"}
    /\ offset \in 1 .. arrived + 1 /\ batch \subseteq Id /\ tries \in 0 .. 2
    /\ stream \in [units : 0 .. MaxUnits + 1, next : 0 .. Segments, sent : 1 .. Limit + 1 \union {Nothing},
                   edited : BOOLEAN, failed : BOOLEAN, final : BOOLEAN]
    /\ shown \in Seq(1 .. Limit + 1)
    /\ told \in [Chat -> SUBSET Reply]
    /\ begun \in [DOMAIN inbox -> 0 .. 2 * MaxEnds + 1]
    /\ handled \subseteq Id /\ excused \subseteq Id
    /\ ends \in 0 .. 2 * MaxEnds /\ again \in BOOLEAN /\ trigger \in BOOLEAN

\* However a process ends, the server gives up an update only after its handler
\* has returned: no message is dropped unseen (poll.rs 430-456).
NoneSkipped == \A i \in Id \ unconfirmed : i \in handled

\* A handler runs twice for one update only if a process that had taken the
\* update ended while the server still kept it.
RepeatedOnlyAfterLoss == \A i \in Id : begun[i] > 1 => i \in excused

\* After the final event the message shows the final text, unless the very call
\* that was to show it failed (publish_stream_batch, Force).
FinalShown ==
    stream.final /\ ~stream.failed /\ stream.units > 0 =>
        shown # <<>> /\ shown[Len(shown)] = Rendered(stream.units)

\* A chat that was told it owns the bot is an owner for good, across crashes and
\* redelivered claims, and only owners and configured groups get translations.
RepliesHonest ==
    \A c \in Chat :
        /\ "claimed" \in told[c] => c \in owners
        /\ "answer" \in told[c] => c \in owners \union Groups

\* Every update that reached the server is handled, however often calls fail and
\* in spite of a bounded number of ends and crashes.
EveryUpdateHandled == []<>(handled = Id)

=============================================================================
