------------------------ MODULE MCEvaluationPipeline ------------------------
(* Instance of EvaluationPipeline for TLC. *)
EXTENDS EvaluationPipeline, TLC

CONSTANT MaxCopies  \* copies of an event in the topic

\* Duplicates of the events, and one message of somebody else.
MCCopies == [m \in Message |-> IF m = Poison THEN 1 ELSE MaxCopies]

=============================================================================
