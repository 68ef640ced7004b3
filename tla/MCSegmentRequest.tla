-------------------------- MODULE MCSegmentRequest --------------------------
(* Two segments over one permit for TLC, and the responses of a server. *)
EXTENDS SegmentRequest

CONSTANTS draft, kept

Both == {draft, kept}
OnlyDraft == {draft}

Choice(text, finish) == [kind |-> "choice", text |-> text, finish |-> finish]
Other(kind) == [kind |-> kind, text |-> FALSE, finish |-> "none"]
Sse(items, cut) == [items |-> items, sse |-> TRUE, cut |-> cut, cold |-> TRUE]
Whole(item, cut) == [items |-> <<item>>, sse |-> FALSE, cut |-> cut, cold |-> FALSE]

Some == Choice(TRUE, "none")
SomeReplies ==
    {\* a unit, the ending and a usage event, as llama.cpp sends them
     Sse(<<Some, Choice(FALSE, "Stop"), Other("blank"), Other("done")>>, FALSE),
     \* [DONE] alone ends the text
     Sse(<<Some, Other("done")>>, FALSE),
     \* out of tokens
     Sse(<<Choice(FALSE, "Length"), Other("done")>>, FALSE),
     \* the body just stops
     Sse(<<Some>>, FALSE),
     \* no choice, or something that does not parse
     Sse(<<Other("done")>>, FALSE),
     Sse(<<Some, Other("bad")>>, FALSE),
     \* broken before any text, and behind text and ending
     Sse(<<>>, TRUE),
     Sse(<<Choice(TRUE, "Stop")>>, TRUE),
     \* whole responses
     Whole(Some, FALSE), Whole(Other("bad"), FALSE), Whole(Some, TRUE)}
=============================================================================
