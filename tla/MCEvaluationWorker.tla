------------------------- MODULE MCEvaluationWorker -------------------------
(* Instances of EvaluationWorker for TLC. *)
EXTENDS EvaluationWorker, TLC

CONSTANT Repeated   \* the jobs whose event is in the topic twice

\* One poison message, and every event once or twice.
MCCopies == [m \in Message |-> IF m \in Repeated THEN 2 ELSE 1]

=============================================================================
