-------------------------- MODULE MCOutboxPublisher --------------------------
(* Instances of OutboxPublisher for TLC. *)
EXTENDS OutboxPublisher, TLC

\* Publisher and event names are interchangeable.
Symmetric == Permutations(Publishers) \cup Permutations(Jobs)

\* Whether an event is in the topic is all that the publishers' properties
\* tell apart, and nobody else writes to it.
MCCopies == [m \in Message |-> IF m = Poison THEN 0 ELSE 1]

=============================================================================
