--------------------------- MODULE SegmentAttempt ---------------------------
(***************************************************************************)
(* What a segment task of the pipeline may rely on while its segment is    *)
(* being translated.  The first request is a stream of units that the task *)
(* passes on as they come; units are numbered by the response that brought *)
(* them.  A stream that is passed on for good is never taken back; one     *)
(* that is kept may be restarted.  Later requests are seen only by their   *)
(* outcome.  These are the steps the tasks of StreamPipeline take.         *)
(***************************************************************************)
EXTENDS Naturals, Sequences

CONSTANTS Workers,   \* segment tasks
          Drafting,  \* those whose units may already be on the terminal
          MaxBodies  \* responses one request can have

VARIABLES text,      \* units the task holds
          phase,     \* "stream", "repeat" or "ended"
          outcome    \* how it ended

vars == <<text, phase, outcome>>

OneBody(t) == \A k \in DOMAIN t : t[k] = t[1]

Init ==
    /\ text = [w \in Workers |-> <<>>]
    /\ phase = [w \in Workers |-> "stream"]
    /\ outcome = [w \in Workers |-> "none"]

Unit(w) ==
    /\ phase[w] = "stream"
    /\ \E b \in 1 .. MaxBodies :
         /\ text[w] # <<>> => b = text[w][1]
         /\ text' = [text EXCEPT ![w] = Append(@, b)]
    /\ UNCHANGED <<phase, outcome>>

Restart(w) ==
    /\ phase[w] = "stream" /\ w \notin Drafting
    /\ text' = [text EXCEPT ![w] = <<>>]
    /\ UNCHANGED <<phase, outcome>>

End(w, how) ==
    /\ phase' = [phase EXCEPT ![w] = "ended"]
    /\ outcome' = [outcome EXCEPT ![w] = how]

\* The stream was complete.
First(w) ==
    /\ phase[w] = "stream"
    /\ End(w, "first")
    /\ UNCHANGED text

\* It was not, and another request is made; a draft that was shown rules it out.
Repeat(w) ==
    /\ phase[w] = "stream"
    /\ w \in Drafting => text[w] = <<>>
    /\ phase' = [phase EXCEPT ![w] = "repeat"]
    /\ text' = [text EXCEPT ![w] = <<>>]
    /\ UNCHANGED outcome

\* A repeated request answers with the units of one response.
Retried(w) ==
    /\ phase[w] = "repeat"
    /\ End(w, "retried")
    /\ OneBody(text'[w])
    /\ \A v \in Workers \ {w} : text'[v] = text[v]

\* Nothing complete came: the caller may keep the source, never after a draft.
Exhausted(w) ==
    /\ phase[w] # "ended" /\ w \notin Drafting
    /\ End(w, "exhausted")
    /\ text' = [text EXCEPT ![w] = <<>>]

Fail(w) ==
    /\ phase[w] # "ended"
    /\ End(w, "error")
    /\ text' = [text EXCEPT ![w] = <<>>]

Next ==
    \E w \in Workers :
        \/ Unit(w) \/ Restart(w) \/ First(w) \/ Repeat(w)
        \/ Retried(w) \/ Exhausted(w) \/ Fail(w)

Spec == Init /\ [][Next]_vars

=============================================================================
