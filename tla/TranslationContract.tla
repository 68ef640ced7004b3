------------------------- MODULE TranslationContract -------------------------
(***************************************************************************)
(* What a streaming translation promises whoever called it: segments are   *)
(* delivered, and only a wholly delivered document changes the rows of the *)
(* history database or finishes.  An invocation may fail at any moment; a  *)
(* failed one leaves the rows as the last whole document left them.        *)
(***************************************************************************)
EXTENDS Naturals

CONSTANT N           \* segments of the document

VARIABLES outcome,   \* "running", "done" or "failed"
          delivered, \* segments the consumer has been sent
          rows       \* what the history database holds

vars == <<outcome, delivered, rows>>

Init == outcome = "running" /\ delivered = 0

Deliver ==
    /\ outcome = "running"
    /\ delivered' \in delivered + 1 .. N
    /\ UNCHANGED <<outcome, rows>>

Persist ==
    /\ outcome = "running" /\ delivered = N
    /\ rows' # rows
    /\ UNCHANGED <<outcome, delivered>>

Finish ==
    /\ outcome = "running" /\ delivered = N
    /\ outcome' = "done"
    /\ UNCHANGED <<delivered, rows>>

Fail ==
    /\ outcome = "running"
    /\ outcome' = "failed"
    /\ UNCHANGED <<delivered, rows>>

Begin ==
    /\ outcome # "running"
    /\ outcome' = "running" /\ delivered' = 0
    /\ UNCHANGED rows

Next == Deliver \/ Persist \/ Finish \/ Fail \/ Begin

Spec == Init /\ [][Next]_vars

=============================================================================
