-------------------------- MODULE MCInferenceCache --------------------------
(* Small instances of InferenceCache for TLC. *)
EXTENDS InferenceCache

CONSTANTS r1, r2, r3

AllPosts == [r \in Requests |-> "post"]
OneGet == [r \in Requests |-> IF r = r3 THEN "get" ELSE "post"]
SamePayload == [r \in Requests |-> "p"]

=============================================================================
