---------------------------- MODULE DocumentPlan ----------------------------
(***************************************************************************)
(* How a document becomes segments: sections, the Markdown the source      *)
(* keeps, segmentation under a token limit and fitting to the request.     *)
(* A text is a sequence of atoms, each one token long:                     *)
(*   "w" a word or character to translate, "z" one of the target language, *)
(*   "s" inline white space, "n" a newline, "e" a sentence ender, "c" a    *)
(*   clause ender, "x" Markdown syntax or an identity (a URL, code, the    *)
(*   delimiters of an emphasis), "r" the end of a short reference link,    *)
(*   "|" a table delimiter, "f" a fence marker, "-" the marker of front    *)
(*   matter, "{" the start of a JSON value and "N" a line of the notice.   *)
(***************************************************************************)
EXTENDS Integers, SequencesExt

CONSTANTS
    Limit,      \* source tokens of one segment, from the output and the cap
    Capacity,   \* input tokens of one request
    Framing,    \* tokens of a request with an empty text
    Factor,     \* what approximate counting multiplies a text by
    Skip        \* leave paragraphs in the target language alone

ASSUME PlanAssumption ==
    /\ Limit \in Nat \ {0} /\ Factor \in Nat \ {0} /\ Framing \in Nat
    /\ Capacity \in Nat /\ Capacity > Framing /\ Skip \in BOOLEAN

Atom == {"w", "z", "s", "n", "e", "c", "x", "r", "|", "f", "-", "{", "N"}
Text == Seq(Atom)
Space == {"s", "n"}
Join(ts) == FlattenSeq(ts)
Blank(t) == ToSet(t) \subseteq Space
Least(a, b) == IF a < b THEN a ELSE b
Monus(a, b) == IF a > b THEN a - b ELSE 0

\* What a loop that starts from x holds after n passes.
Loop(Pass(_, _), x, n) ==
    LET at[k \in 0..n] == IF k = 0 THEN x ELSE Pass(at[k - 1], k) IN at[n]

\* The pieces of t that end at the positions in ends, and what is left.
CutAfter(t, ends) ==
    LET Add(pieces, i) ==
            IF pieces = <<>> \/ i - 1 \in ends THEN Append(pieces, <<t[i]>>)
            ELSE Append(Front(pieces), Append(Last(pieces), t[i]))
    IN Loop(Add, <<>>, Len(t))

Lines(t) == CutAfter(t, {i \in 1..Len(t) : t[i] = "n"})

-----------------------------------------------------------------------------
\* Sections.

Section(t, kind, para) ==
    [text |-> t, kind |-> kind, para |-> para, go |-> FALSE]

First(line) == LET i == SelectInSeq(line, LAMBDA a : a # "s")
               IN IF i = 0 THEN "n" ELSE line[i]
OpensFence(line) == First(line) = "f"
ClosesFence(line) == OpensFence(line) /\ Quantify(DOMAIN line, LAMBDA i : line[i] \notin Space) = 1
FrontMarker(line) == line # <<>> /\ Head(line) = "-" /\ Blank(Tail(line))

\* The lines of the YAML front matter, 0 when there is none.
FrontLines(ls) ==
    IF ls # <<>> /\ FrontMarker(ls[1]) /\ Last(ls[1]) = "n"
    THEN LET i == SelectInSeq(Tail(ls), FrontMarker) IN IF i = 0 THEN 0 ELSE i + 1
    ELSE 0

EndParagraph(acc) ==
    IF acc.lines = <<>> THEN acc
    ELSE [acc EXCEPT !.out = Append(@, Section(acc.lines, "paragraph", acc.n + 1)),
                     !.lines = <<>>, !.n = @ + 1]
EndCode(acc) == [acc EXCEPT !.out = Append(@, Section(acc.code, "code", 0)), !.code = <<>>]

AddLine(acc, line) ==
    LET before == EndParagraph(acc)
        coded == [acc EXCEPT !.code = @ \o line]
    IN CASE acc.code # <<>> -> IF ClosesFence(line) THEN EndCode(coded) ELSE coded
         [] acc.code = <<>> /\ OpensFence(line) -> [before EXCEPT !.code = line]
         [] acc.code = <<>> /\ Blank(line) ->
                [before EXCEPT !.out = Append(@, Section(line, "separator", 0))]
         [] OTHER -> [acc EXCEPT !.lines = @ \o line]

EndText(acc) == EndParagraph(IF acc.code = <<>> THEN acc ELSE EndCode(acc)).out

\* The sections of the lines ls, of which the first f are front matter.
LineSections(ls, f) ==
    LET front == IF f = 0 THEN <<>> ELSE <<Section(Join(SubSeq(ls, 1, f)), "code", 0)>>
    IN EndText(Loop(LAMBDA acc, k : AddLine(acc, ls[f + k]),
                    [out |-> front, lines |-> <<>>, code |-> <<>>, n |-> 0], Len(ls) - f))

SplitSections(t) == LineSections(Lines(t), FrontLines(Lines(t)))

InTarget(t) ==
    LET said == SelectSeq(t, LAMBDA a : a \notin Space)
    IN 2 * Len(SelectSeq(said, LAMBDA a : a = "z")) > Len(said)

Decided(s) ==
    [s EXCEPT !.go = s.kind = "paragraph" /\ ~(Skip /\ InTarget(s.text))]
Each(Op(_), seq) == [i \in DOMAIN seq |-> Op(seq[i])]
PlanSections(t) == Each(Decided, SplitSections(t))

Source(sections) == Join([i \in DOMAIN sections |-> sections[i].text])
IsJson(t) == SelectInSeq(t, LAMBDA a : a \notin Space) \in {i \in DOMAIN t : t[i] = "{"}

-----------------------------------------------------------------------------
\* Requests.

\* The retry instruction repeats every identity of the segment.
Request(t) == Framing + Factor * (Len(t) + Quantify(DOMAIN t, LAMBDA i : t[i] = "x"))
Available == LET base == Monus(Capacity, Request(<<>>)) IN Least(base, Limit)

\* Inline Markdown travels as one paragraph when it fits one request.
IsCoherent(s) ==
    /\ s.go /\ s.kind = "paragraph"
    /\ Len(s.text) <= Available
    /\ "x" \in ToSet(s.text) /\ ToSet(s.text) \cap {"|", "r", "{"} = {}
    /\ Request(s.text) <= Capacity

-----------------------------------------------------------------------------
\* Source-owned.

\* Positions of tables, a row, a separator row and rows, longer than Available.
TablesIn(ls) ==
    LET End(i) == Len(Join(SubSeq(ls, 1, i)))
        Row(i) == First(ls[i]) = "|"
        Bare(i) == Row(i) /\ ToSet(ls[i]) \subseteq Space \cup {"|"}
        Starts(i, j) == Bare(i + 1) /\ \A k \in i..j : Row(k)
        Table(i, j) ==
            /\ i + 2 <= j /\ Starts(i, j)
            /\ j = Len(ls) \/ ~Row(j + 1)
            /\ \A k \in 1..(i - 1) : ~Starts(k, j)
    IN UNION {{p \in (End(i - 1) + 1)..End(j) : Table(i, j) /\ End(j) - End(i - 1) > Available} :
              i \in DOMAIN ls, j \in DOMAIN ls}
Oversized(t) == TablesIn(Lines(t))

\* A short reference gets its target written out, or its label would carry it.
WrittenOut(t, copied) == Join([i \in DOMAIN t |->
    IF t[i] = "r" /\ i \notin copied THEN <<"r", "x">> ELSE <<t[i]>>])
ExplicitReferences(s) ==
    IF s.go THEN [s EXCEPT !.text = WrittenOut(@, Oversized(@))] ELSE s

Opaque(s) == {i \in DOMAIN s.text :
    \/ s.kind = "code"
    \/ s.text[i] \in {"x", "r", "|"}
    \/ s.text[i] = "n" /\ "|" \in ToSet(s.text)}

\* Where each section starts in the document.
Offset(sections, k) == Len(Source(SubSeq(sections, 1, k - 1)))

\* The positions of section k that the source owns: syntax and identities of the
\* whole document, with the white space on both sides of them.
OpaqueIn(sections) ==
    UNION {{Offset(sections, j) + i : i \in Opaque(sections[j])} : j \in DOMAIN sections}
Touched(text, p, opaque) ==
    \E q \in opaque : \A m \in (p..q) \cup (q..p) : m = q \/ text[m] \in Space
OwnedIn(sections, k) ==
    {i \in DOMAIN sections[k].text :
        Touched(Source(sections), Offset(sections, k) + i, OpaqueIn(sections))}
    \cup Oversized(sections[k].text)

\* The runs of a section that the source owns and those to translate.
Runs(s, owned) ==
    LET From(parts) == [j \in DOMAIN parts |-> [s EXCEPT !.text = parts[j],
                            !.go = Len(Join(SubSeq(parts, 1, j))) \notin owned]]
    IN From(CutAfter(s.text, {i \in DOMAIN s.text : i \in owned <=> i + 1 \notin owned}))

SplitOwned(sections, coherent) ==
    LET Pieces(k) ==
            IF ~sections[k].go \/ sections[k].para \in coherent THEN <<sections[k]>>
            ELSE Runs(sections[k], OwnedIn(sections, k))
    IN Join([k \in DOMAIN sections |-> Pieces(k)])

-----------------------------------------------------------------------------
\* Segmentation.

\* Mutant: what follows the last sentence is left out.
ForgetfulSentences(t) == LET i == SelectLastInSeq(t, LAMBDA a : a = "e")
    IN CutAfter(SubSeq(t, 1, i), {k \in 1..i : t[k] = "e" /\ (k = i \/ t[k + 1] # "e")})
Sentences(t) == CutAfter(t, {i \in DOMAIN t :
    t[i] = "e" /\ (i = Len(t) \/ t[i + 1] # "e")})
Clauses(t) == CutAfter(t, {i \in DOMAIN t : t[i] = "c"})
Words(t) == CutAfter(t, {i \in 1..(Len(t) - 1) : t[i] \in Space <=> t[i + 1] \notin Space})

Pack(units, max) ==
    LET Add(packed, unit) ==
            IF packed # <<>> /\ Len(Last(packed)) + Len(unit) <= max
            THEN Append(Front(packed), Last(packed) \o unit)
            ELSE Append(packed, unit)
    IN Loop(LAMBDA packed, i : Add(packed, units[i]), <<>>, Len(units))
Chars(t, max) == Pack(CutAfter(t, DOMAIN t), max)

\* The units of a text, with finer pieces for those that are too long.
Refine(units, max, finer) ==
    Join([i \in DOMAIN units |-> IF Len(units[i]) <= max THEN <<units[i]>> ELSE finer[i]])

WordsOrChars(t, max) ==
    Pack(Refine(Words(t), max, Each(LAMBDA u : Chars(u, max), Words(t))), max)
ClauseUnits(t, max) ==
    Refine(Clauses(t), max, Each(LAMBDA u : WordsOrChars(u, max), Clauses(t)))

Segment(t, max) ==
    IF Len(t) <= max THEN <<t>>
    ELSE Pack(Refine(Sentences(t), max, Each(LAMBDA u : ClauseUnits(u, max), Sentences(t))), max)

\* Split what the rendered request makes too long. An empty piece stands for the
\* error that a segment cannot be split further.
SplitLimit(t) == Least(Monus(Len(t), Monus(Request(t), Capacity)), Len(t) - 1)
Shorter(t) == IF SplitLimit(t) = 0 \/ IsJson(t) THEN <<>> ELSE Segment(t, SplitLimit(t))

\* A pass splits every piece that is still too long; each one makes them shorter.
Split(t) == IF Len(Shorter(t)) <= 1 THEN <<(<<>>)>> ELSE Shorter(t)
Refit(pieces) == Join([i \in DOMAIN pieces |->
    IF Request(pieces[i]) <= Capacity THEN <<pieces[i]>> ELSE Split(pieces[i])])
Fit(t) == Loop(LAMBDA pieces, k : Refit(pieces), <<t>>, Len(t))

\* Consecutive sections to translate of one paragraph, by their indexes.
Groups(sections) ==
    LET Add(gs, i) ==
            IF ~sections[i].go THEN gs
            ELSE IF gs # <<>> /\ Last(Last(gs)) = i - 1 /\ sections[i - 1].para = sections[i].para
                 THEN Append(Front(gs), Append(Last(gs), i))
                 ELSE Append(gs, <<i>>)
    IN Loop(Add, <<>>, Len(sections))

GroupText(sections, group) == Join([i \in DOMAIN group |-> sections[group[i]].text])

\* The segments of the given sections, each with its group.
Grouped(ts, g) == [i \in DOMAIN ts |-> [text |-> ts[i], group |-> g]]
Segments(sections) ==
    Join(Each(LAMBDA g : Grouped(Join(Each(Fit, Segment(GroupText(sections, g), Available))), g),
              Groups(sections)))

\* A JSON document is one section and one segment, or an error.
JsonPlan(t, sections) ==
    LET s == [Head(sections) EXCEPT !.text = t, !.go = \E i \in DOMAIN sections : sections[i].go]
    IN [sections |-> <<s>>,
        segments |-> IF ~s.go THEN <<>>
                     ELSE Grouped(IF Len(t) > Available THEN <<(<<>>)>> ELSE Fit(t), <<1>>)]

\* Where each paragraph stands in the document.
Originals(sections) ==
    [q \in {sections[i].para : i \in DOMAIN sections} \ {0} |->
        LET i == CHOOSE j \in DOMAIN sections : sections[j].para = q
        IN <<Offset(sections, i) + 1, Offset(sections, i + 1)>>]

Coherent(sections) == {s.para : s \in {q \in ToSet(sections) : IsCoherent(q)}}
WithSegments(sections) == [sections |-> sections, segments |-> Segments(sections)]
PlanFrom(t, first, explicit) ==
    LET plan == IF IsJson(t) THEN JsonPlan(t, first)
                ELSE WithSegments(SplitOwned(explicit, Coherent(first)))
    IN [sections |-> plan.sections, segments |-> plan.segments,
        explicit |-> IF IsJson(t) THEN t ELSE Source(explicit), originals |-> Originals(first)]

\* The plan of a document; explicit is its text with short references written out.
Plan(t) == PlanFrom(t, PlanSections(t), Each(ExplicitReferences, PlanSections(t)))

Plannable(plan) == \A i \in DOMAIN plan.segments : plan.segments[i].text # <<>>

=============================================================================
