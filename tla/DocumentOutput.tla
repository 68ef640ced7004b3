--------------------------- MODULE DocumentOutput ---------------------------
(***************************************************************************)
(* How translated segments become the document again: the buffered         *)
(* reconstruction, the paragraphs kept in the original, and the pieces the *)
(* streaming modes publish while segments complete in any order.           *)
(* Indexes count from 1: stream.seg, stream.sec and stream.end are the     *)
(* next segment and section to publish and the segment after the paragraph *)
(* being waited for.                                                       *)
(***************************************************************************)
EXTENDS DocumentPlan

CONSTANTS
    Sources,    \* documents
    Modes,      \* how the caller wants the output published
    Replies,    \* texts the model may answer with
    MaxHits,    \* segments found in the cache, at most
    NoText

ASSUME OutputAssumption == Sources \subseteq Text /\ Replies \subseteq Text /\ NoText \notin Text

VARIABLES
    source,     \* the document
    mode,
    plan,       \* Plan(source)
    got,        \* the translation of each segment, or NoText
    kept,       \* segments that exhausted their retries
    stream,     \* what has been published and how far
    final,      \* the outcome: its text and its retained regions
    status      \* "running", "refused" or "done"

vars == <<source, mode, plan, got, kept, stream, final, status>>

Notice == <<"N", "n", "n">>     \* one paragraph of the notice
Newlines(k) == [i \in 1..k |-> "n"]
Trailing(t) == LET i == SelectLastInSeq(t, LAMBDA a : a # "n") IN Len(t) - i
\* Mutant: newlines are restored whether or not they were lost.
GenerousDeficit(t, original) == Trailing(original)
Deficit(t, original) == Monus(Trailing(original), Trailing(t))
Restored(t, original) == t \o Newlines(Deficit(t, original))
SectionsOf(p, from, to) == Source(SubSeq(p.sections, from, to))
Owner(p, i) == p.sections[Head(p.segments[i].group)].para

-----------------------------------------------------------------------------
\* Buffered reconstruction.

\* What each section contributes; a group is written at its first section.
Parts(p, texts) ==
    LET Group(k) == {i \in DOMAIN p.segments : k \in ToSet(p.segments[i].group)}
        Write(k, out, i) ==
            IF i \notin Group(k) THEN out
            ELSE IF i + 1 \in Group(k) THEN Restored(out \o texts[i], p.segments[i].text)
            ELSE Restored(out \o texts[i], GroupText(p.sections, p.segments[i].group))
        Part(k) ==
            IF Group(k) = {} THEN p.sections[k].text
            ELSE IF \A i \in Group(k) : Head(p.segments[i].group) = k
                 THEN Loop(LAMBDA out, i : Write(k, out, i), <<>>, Len(p.segments))
                 ELSE <<>>
    IN [k \in DOMAIN p.sections |-> Part(k)]

\* The body with the paragraphs of retained owners in the original, once each,
\* and where they lie in the document and in the body.
Body(src, p, texts, retained) ==
    LET parts == Parts(p, texts)
        Add(acc, k) ==
            LET q == p.sections[k].para
                range == p.originals[q]
                text == SubSeq(src, range[1], range[2])
            IN CASE q \notin retained -> [acc EXCEPT !.text = @ \o parts[k]]
                 [] q \in retained /\ q \in acc.emitted -> acc
                 [] OTHER -> [text |-> acc.text \o text, emitted |-> acc.emitted \cup {q},
                              regions |-> acc.regions \cup
                                {[source |-> range,
                                  output |-> <<Len(acc.text) + 1, Len(acc.text) + Len(text)>>]}]
    IN Loop(Add, [text |-> <<>>, emitted |-> {}, regions |-> {}], Len(p.sections))

\* Mutant: regions stay where they were before the notice went in.
StillShift(regions, by) == regions
Shift(regions, by) ==
    {[r EXCEPT !.output = <<@[1] + by, @[2] + by>>] : r \in regions}

\* The notice follows the body of a paragraph stream, or stands before the body
\* but after front matter.
Finalize(src, p, texts, failed, append) ==
    LET body == Body(src, p, texts, {Owner(p, i) : i \in failed})
        notice == Notice \o Join([i \in 1..Cardinality(body.regions) |-> Notice])
        front == IF p.sections[1].kind = "code" /\ FrontMarker(Lines(p.sections[1].text)[1])
                 THEN Len(p.sections[1].text) ELSE 0
        gap == IF front > 0 /\ Trailing(SubSeq(body.text, 1, front)) < 2 THEN <<"n">> ELSE <<>>
        ending == IF Trailing(body.text) < 2 THEN <<"n", "n">> ELSE <<>>
    IN CASE body.regions = {} -> [text |-> body.text, regions |-> {}]
         [] body.regions # {} /\ append ->
                [text |-> body.text \o ending \o notice, regions |-> body.regions]
         [] OTHER ->
                [text |-> SubSeq(body.text, 1, front) \o gap \o notice
                            \o SubSeq(body.text, front + 1, Len(body.text)),
                 regions |-> Shift(body.regions, Len(gap \o notice))]

-----------------------------------------------------------------------------
\* Publishing.

\* The untranslated sections before segment i, and the section after its group.
Before(p, i, sec) ==
    LET group == p.segments[i].group
    IN IF Head(group) < sec THEN [text |-> <<>>, sec |-> sec]
       ELSE [text |-> SectionsOf(p, sec, Head(group) - 1), sec |-> Last(group) + 1]

\* The newlines to publish after segment i: a scan backwards over its group that
\* counts what earlier texts and earlier restored newlines already provide. The
\* k-th pass looks at segment i + 1 - k.
Missing(p, texts, i, required) ==
    LET Look(acc, k) ==
            LET j == i + 1 - k
                known == IF j < i THEN Max({acc.restored,
                                            acc.trailing + Trailing(p.segments[j].text)})
                         ELSE acc.restored
                trailing == acc.trailing + Trailing(texts[j])
            IN IF acc.over \/ p.segments[j].group # p.segments[i].group THEN acc
               ELSE IF known >= required THEN [acc EXCEPT !.restored = known, !.over = TRUE]
               ELSE [trailing |-> trailing, restored |-> known,
                     over |-> trailing >= required \/ Trailing(texts[j]) < Len(texts[j])]
        seen == Loop(Look, [trailing |-> 0, restored |-> 0, over |-> FALSE], i)
    IN Monus(required, Max({seen.trailing, seen.restored}))

\* Mutant: only the text of the segment itself is looked at.
HastyNewlineAfter(p, texts, i) ==
    Newlines(Deficit(texts[i], p.segments[i].text))
NewlineAfter(p, texts, i) ==
    LET group == p.segments[i].group
        inside == i < Len(p.segments) /\ p.segments[i + 1].group = group
        whole == IF inside THEN p.segments[i].text ELSE GroupText(p.sections, group)
        required == Trailing(whole)
    IN IF required = 0 THEN <<>>
       ELSE Newlines(Missing(p, texts, i, required))

\* Publish every ready segment up to last, in order.
Emit(p, texts, st, last) ==
    LET before == Before(p, st.seg, st.sec)
    IN IF st.seg > last \/ texts[st.seg] = NoText THEN st
       ELSE [st EXCEPT !.out = @ \o before.text \o texts[st.seg] \o NewlineAfter(p, texts, st.seg),
                       !.sec = before.sec, !.seg = @ + 1]
FlushPrefix(p, texts, st, last) ==
    Loop(LAMBDA s, k : Emit(p, texts, s, last), st, Len(texts))

\* A segment whose text was shown as it came only lacks its newlines.
Advance(p, texts, st) ==
    IF st.shown = NoText \/ texts[st.seg] = NoText THEN st
    ELSE [st EXCEPT !.out = @ \o NewlineAfter(p, texts, st.seg),
                    !.sec = Before(p, st.seg, @).sec, !.seg = @ + 1, !.shown = NoText]

\* Mutant: segments that came early, or from the cache, are not counted.
StaleAwaiting(p, texts, st) ==
    IF st.end # st.seg THEN st
    ELSE [st EXCEPT !.ready = 0, !.end = Min({k \in (st.seg + 1)..(Len(texts) + 1) :
                        k > Len(texts) \/ Owner(p, k) # Owner(p, st.seg)})]
Awaiting(p, texts, st) ==
    LET end == Min({k \in (st.seg + 1)..(Len(texts) + 1) :
                        k > Len(texts) \/ Owner(p, k) # Owner(p, st.seg)})
    IN IF st.end # st.seg THEN st
       ELSE [st EXCEPT !.end = end,
                       !.ready = Quantify(st.seg..(end - 1), LAMBDA k : texts[k] # NoText)]

Originally(src, p, st, start, after) ==
    LET range == p.originals[Owner(p, st.seg)]
    IN [st EXCEPT !.out = @ \o SectionsOf(p, st.sec, start - 1) \o SubSeq(src, range[1], range[2]),
                  !.sec = after, !.seg = st.end, !.ready = 0]

Translated(p, texts, st, after) ==
    LET flushed == FlushPrefix(p, texts, st, st.end - 1)
    IN [flushed EXCEPT !.out = @ \o SectionsOf(p, flushed.sec, after - 1),
                       !.sec = after, !.ready = 0]

\* Publish the next paragraph if all of its segments are there.
Settle(src, p, texts, failed, st0) ==
    LET st == Awaiting(p, texts, st0)
        owner == Owner(p, st0.seg)
        start == Min({k \in st.sec..Len(p.sections) : p.sections[k].para = owner})
        after == Min({k \in start..(Len(p.sections) + 1) :
                        k > Len(p.sections) \/ p.sections[k].para # owner})
    IN IF st0.seg > Len(texts) THEN st0
       ELSE IF st.ready < st.end - st.seg THEN st
       ELSE IF owner \in {Owner(p, i) : i \in failed} THEN Originally(src, p, st, start, after)
       ELSE Translated(p, texts, st, after)
FlushParagraphs(src, p, texts, failed, st0) ==
    Loop(LAMBDA st, k : Settle(src, p, texts, failed, st), st0, Len(texts))

Unpublished == [out |-> <<>>, seg |-> 1, sec |-> 1, end |-> 1, ready |-> 0, shown |-> NoText]

\* What each mode publishes once the texts are as given.
Flush(p, texts, failed, st) ==
    CASE mode = "Paragraph" -> FlushParagraphs(source, p, texts, failed, st)
      [] mode = "Optimistic" -> FlushPrefix(p, texts, Advance(p, texts, st), Len(texts))
      [] OTHER -> st

-----------------------------------------------------------------------------
\* One invocation. The segments of the cache are there from the start.

Plans == [d \in Sources |-> Plan(d)]

Texts(p, i) == Replies \cup {p.segments[i].text}

Init ==
    /\ source \in Sources
    /\ mode \in (IF IsJson(source) THEN {"Validated"} ELSE Modes)
    /\ plan = Plans[source]
    /\ status = IF Plannable(plan) THEN "running" ELSE "refused"
    /\ \E hits \in SUBSET DOMAIN plan.segments :
        /\ Cardinality(hits) <= MaxHits
        /\ got \in {f \in [DOMAIN plan.segments -> {NoText} \cup UNION {Texts(plan, i) : i \in hits}] :
                    \A i \in DOMAIN f : f[i] \in (IF i \in hits THEN Texts(plan, i) ELSE {NoText})}
    /\ kept = {}
    /\ stream = IF status = "running" THEN Flush(plan, got, {}, Unpublished) ELSE Unpublished
    /\ final = [text |-> <<>>, regions |-> {}]

\* Optimistic output: the text of the next segment is shown as it comes.
Show ==
    /\ status = "running" /\ mode = "Optimistic"
    /\ stream.seg <= Len(got) /\ stream.shown = NoText
    /\ \E t \in Texts(plan, stream.seg) \ {<<>>} :
        LET before == Before(plan, stream.seg, stream.sec)
        IN stream' = [stream EXCEPT !.out = @ \o before.text \o t, !.sec = before.sec, !.shown = t]
    /\ UNCHANGED <<source, mode, plan, got, kept, final, status>>

\* stream once segment i has its text; the counter counts only the paragraph
\* being waited for.
Counted(i) ==
    IF mode = "Paragraph" /\ i \in stream.seg..(stream.end - 1)
    THEN [stream EXCEPT !.ready = @ + 1] ELSE stream

Complete(i) ==
    /\ status = "running" /\ got[i] = NoText
    /\ \E t \in Texts(plan, i) :
        /\ i = stream.seg /\ stream.shown # NoText => t = stream.shown
        /\ got' = [got EXCEPT ![i] = t]
        /\ stream' = Flush(plan, got', kept, Counted(i))
    /\ UNCHANGED <<source, mode, plan, kept, final, status>>

\* Retries are exhausted: the source of the paragraph stands for its translation.
Retain(i) ==
    /\ status = "running" /\ got[i] = NoText
    /\ mode # "Optimistic" /\ ~IsJson(plan.segments[i].text)
    /\ got' = [got EXCEPT ![i] = plan.segments[i].text]
    /\ kept' = kept \cup {i}
    /\ stream' = Flush(plan, got', kept', Counted(i))
    /\ UNCHANGED <<source, mode, plan, final, status>>

Deliver(outcome) ==
    LET replayed == FlushPrefix(plan, got, Unpublished, Len(got))
        rest == SectionsOf(plan, stream.sec, Len(plan.sections))
    IN CASE mode = "Paragraph" ->
                stream.out \o SubSeq(outcome.text, Len(stream.out) + 1, Len(outcome.text))
         [] mode = "Optimistic" -> stream.out \o rest
         [] OTHER -> IF kept # {} THEN outcome.text
                     ELSE replayed.out \o SectionsOf(plan, replayed.sec, Len(plan.sections))

Finish ==
    /\ status = "running"
    /\ \A i \in DOMAIN got : got[i] # NoText
    /\ final' = Finalize(source, plan, got, kept, mode = "Paragraph")
    /\ stream' = [stream EXCEPT !.out = Deliver(final')]
    /\ status' = "done"
    /\ UNCHANGED <<source, mode, plan, got, kept>>

Next == Show \/ Finish \/ \E i \in DOMAIN got : Complete(i) \/ Retain(i)

Spec == Init /\ [][Next]_vars

-----------------------------------------------------------------------------
\* Properties.

\* A plan loses nothing: the sections hold the whole document, with its short
\* references written out, the segments of a group hold the whole group, every
\* section to translate is in one group, and no segment is longer than its budget
\* or makes its request longer than the server accepts.
PlanWhole ==
    LET Of(g) == [i \in DOMAIN plan.segments |->
                    IF plan.segments[i].group = g THEN plan.segments[i].text ELSE <<>>]
        groups == {plan.segments[i].group : i \in DOMAIN plan.segments}
    IN status # "refused" =>
        /\ Source(plan.sections) = plan.explicit
        /\ \A g \in groups : Join(Of(g)) = GroupText(plan.sections, g)
        /\ \A k \in DOMAIN plan.sections :
            Quantify(groups, LAMBDA g : k \in ToSet(g)) = IF plan.sections[k].go THEN 1 ELSE 0
        /\ \A i \in DOMAIN plan.segments :
            /\ Len(plan.segments[i].text) <= Available
            /\ Request(plan.segments[i].text) <= Capacity

\* Whatever the model answered, empty texts and stray newlines included, and in
\* whatever order segments completed, a stream ends having published exactly the
\* text the buffered path returns.
StreamsTheDocument == status = "done" => stream.out = final.text

\* The regions an outcome reports are the untranslated paragraphs: one for each
\* owner of a failed segment, the same bytes in the document and in the output.
RegionsExact == status = "done" =>
    /\ \A r \in final.regions :
        SubSeq(final.text, r.output[1], r.output[2]) = SubSeq(source, r.source[1], r.source[2])
    /\ {r.source : r \in final.regions} = {plan.originals[Owner(plan, i)] : i \in kept}

\* A paragraph stream publishes a paragraph no earlier than its last segment, for
\* until then it may be replaced by the original, and no later.
PublishedWhenSettled == status = "running" /\ mode = "Paragraph" =>
    /\ \A i \in 1..(stream.seg - 1), k \in DOMAIN got :
        Owner(plan, k) = Owner(plan, i) => got[k] # NoText
    /\ stream.seg <= Len(got) => \E k \in DOMAIN got :
        Owner(plan, k) = Owner(plan, stream.seg) /\ got[k] = NoText

\* A model that repeats its source gives the document back, byte for byte but for
\* the references written out: cutting and joining add and lose nothing.
EchoKeepsDocument ==
    /\ status = "done" /\ kept = {}
    /\ \A i \in DOMAIN got : got[i] = plan.segments[i].text
    => final.text = plan.explicit

=============================================================================
