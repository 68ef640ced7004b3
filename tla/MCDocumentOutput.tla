-------------------------- MODULE MCDocumentOutput --------------------------
(* Small instances of DocumentOutput for TLC. *)
EXTENDS DocumentOutput

AllModes == {"Validated", "Paragraph", "Optimistic"}

\* Every text of at most six of these atoms.
Short == UNION {[1..k -> {"w", "n", "x"}] : k \in 1..6}

\* Longer documents, each for a case of its own.
Long == {
    <<"w", "n", "w", "n", "w", "n">>,                       \* lines of one paragraph
    <<"e", "e", "w", "c", "w", "w", "w">>,                  \* sentences, clauses, words
    <<"w", "x", "w", "n", "n", "w", "r", "s", "w">>,        \* owners in two pieces
    <<"-", "n", "-", "n", "w", "x", "w", "n">>,             \* front matter
    <<"f", "n", "w", "n", "f", "n", "w", "n", "f", "w">>,   \* a fence, one left open
    <<"w", "n", "|", "w", "n", "|", "n", "|", "w", "n">>,   \* a table in a paragraph
    <<"w", "|", "w", "n", "w", "n">>,                       \* rows that are no table
    <<"z", "n", "n", "w", "s", "z", "n", "n", "s", "w">>,   \* the target language
    <<"n", "{", "w">>, <<"{", "w", "w", "w", "w">> }        \* JSON, and one too long

Documents == Short \cup Long
SomeReplies == {<<>>, <<"w">>, <<"n">>, <<"w", "n">>}

=============================================================================
