-------------------------- MODULE MCStreamPipeline --------------------------
(* Small instances of StreamPipeline for TLC. *)
EXTENDS StreamPipeline

AllModes == {"Validated", "Paragraph", "Optimistic"}
PublishingModes == {"Paragraph", "Optimistic"}
OptimisticOnly == {"Optimistic"}
OnOnly == {"on"}
ParagraphAndValidated == {"Validated", "Paragraph"}
CachingPolicies == {"refresh", "on"}

\* Segments 0 and 1 are pieces of one paragraph.
PairThenOne == [i \in Seg |-> IF i < 2 THEN 0 ELSE i - 1]

=============================================================================
