---------------------------- MODULE ChannelScope ----------------------------
(***************************************************************************)
(* One request around its event channel: ChatService._consume_scope_events *)
(* and _cancel_and_drain_scope (core/chat_service.py) over the run scope's *)
(* drain_and_close, force_abort and close (core/runtime/runtime_factory.py)*)
(*                                                                         *)
(* The producer task runs the coordinator and closes the channel in its    *)
(* finally block; the request coroutine is the transport, and when the     *)
(* client goes away it cancels the run, drains the channel for a grace     *)
(* period and aborts it if that is not enough, unless it is cancelled once *)
(* more.  A server shutdown may abort the run at any time.                 *)
(***************************************************************************)
EXTENDS EventChannel

VARIABLES
    phase,     \* where the request coroutine stands
    produced   \* the producer task has reached its finally block

scopeVars == <<vars, phase, produced>>

Phases == {"start", "stream", "finish", "leave", "cleanup", "drain", "await",
           "abort", "done", "abandoned"}

ScopeInit == Init /\ phase = "start" /\ produced = FALSE

\* __aiter__ runs before the producer task gets its first turn.
Attach(c) ==
    /\ phase = "start"
    /\ ClaimTransport(c)
    /\ phase' = "stream"
    /\ UNCHANGED produced

-----------------------------------------------------------------------------
(***************************************************************************)
(* The producer task, and the worker threads it may leave behind, which    *)
(* publish whether or not the channel is being closed.                     *)
(***************************************************************************)
Produce(p) ==
    /\ phase # "start"
    /\ \E kind \in Kinds : Publish(p, kind)
    /\ UNCHANGED <<phase, produced>>

ProducerEnds ==
    /\ phase # "start"
    /\ ~produced
    /\ produced' = TRUE
    /\ IF state \in Stable THEN UNCHANGED vars ELSE Close
    /\ UNCHANGED phase

Publishing(p) == PublisherStep(p) /\ UNCHANGED <<phase, produced>>
Closing       == CloserStep /\ UNCHANGED <<phase, produced>>

Disturbance ==
    /\ \E p \in Publishers : PublicationFails(p)
    /\ UNCHANGED <<phase, produced>>

-----------------------------------------------------------------------------
(***************************************************************************)
(* The request coroutine.                                                  *)
(***************************************************************************)

\* MUTANT: the end of the stream is not noticed.
DeliverPastEnd(c) ==
    /\ phase = "stream"
    /\ Receive(c)
    /\ UNCHANGED <<phase, produced>>

\* The client is given an event, or the stream ends.
Deliver(c) ==
    /\ phase = "stream"
    /\ Receive(c)
    /\ phase' = IF AtEnd THEN "finish" ELSE phase
    /\ UNCHANGED produced

\* GeneratorExit or CancelledError: the run is cancelled, unless its state is
\* already terminal, and the transport's lease is given back.
Disconnect ==
    /\ phase = "stream"
    /\ phase' = "leave"
    /\ Cancel \/ UNCHANGED vars
    /\ UNCHANGED produced

Detach(c) ==
    /\ phase = "leave"
    /\ ReleaseTransport(c)
    /\ phase' = "cleanup"
    /\ UNCHANGED produced

\* drain_to_discard returns at once on an aborted channel.
StartDrain(c) ==
    /\ phase = "cleanup"
    /\ IF state = "ABORTED"
         THEN phase' = "await" /\ UNCHANGED vars
         ELSE phase' = "drain" /\ ReserveDrain(c)
    /\ UNCHANGED produced

\* STREAM_ENCODING_FAILED skips the drain.
EncodingFailed ==
    /\ phase = "cleanup"
    /\ phase' = "abort"
    /\ UNCHANGED <<vars, produced>>

Drain(c) ==
    /\ phase = "drain"
    /\ HandOff(c) \/ DrainReceive(c)
    /\ phase' = IF consumer'[c] = "idle" THEN "await" ELSE phase
    /\ UNCHANGED produced

\* The grace period is over, in the drain or while waiting for the producer.
GraceExpires(c) ==
    /\ \/ phase = "drain" /\ (DrainGivesUp(c) \/ HandOffFails(c))
       \/ /\ phase = "await" /\ ~(produced /\ closer = "idle")
          /\ UNCHANGED vars
    /\ phase' = "abort"
    /\ UNCHANGED produced

\* The request task is cancelled again, out of the wait for its shielded
\* cleanup.  That is no TimeoutError: the finally block cancels the cleanup
\* wherever it stands, and nobody calls force_abort.
CleanupCancelled(c) ==
    /\ \/ phase = "drain" /\ (DrainGivesUp(c) \/ HandOffFails(c))
       \/ phase \in {"cleanup", "await"} /\ UNCHANGED vars
    /\ phase' = "abandoned"
    /\ UNCHANGED produced

ForceAbort ==
    /\ phase = "abort"
    /\ phase' = "done"
    /\ IF state \in Stable THEN UNCHANGED vars ELSE Abort
    /\ UNCHANGED produced

\* The producer task is done, and close finds nothing left to do.
CloseScope ==
    /\ phase \in {"finish", "await"}
    /\ produced /\ closer = "idle"
    /\ phase' = "done"
    /\ UNCHANGED <<vars, produced>>

\* Another request, or the shutdown controller's force_abort.
CancelRun   == Cancel /\ phase # "start" /\ UNCHANGED <<phase, produced>>
ShutdownRun == Abort /\ phase # "start" /\ UNCHANGED <<phase, produced>>

-----------------------------------------------------------------------------
RequestStep ==
    \/ CloseScope \/ ForceAbort
    \/ \E c \in Consumers : Attach(c) \/ Detach(c) \/ StartDrain(c) \/ Drain(c)

\* A client for which something is waiting takes it or goes away.
Transport ==
    \/ Disconnect /\ queue # <<>>
    \/ \E c \in Consumers : Deliver(c)

ScopeNext ==
    \/ \E p \in Publishers : Produce(p) \/ Publishing(p)
    \/ ProducerEnds \/ Closing \/ Disturbance
    \/ Disconnect \/ \E c \in Consumers : Deliver(c)
    \/ RequestStep \/ EncodingFailed
    \/ \E c \in Consumers : GraceExpires(c) \/ CleanupCancelled(c)
    \/ CancelRun \/ ShutdownRun

(***************************************************************************)
(* Fairness.  Tasks that can run are run by the event loop and the journal *)
(* answers; the coordinator's execution ends; a client for which an item   *)
(* waits reads it or goes away.  Nothing is assumed of new publications,   *)
(* of cancellation, of timeouts, of faults or of a shutdown.               *)
(***************************************************************************)
ScopeFairness ==
    /\ \A p \in Publishers : WF_scopeVars(Publishing(p))
    /\ WF_scopeVars(Closing)
    /\ WF_scopeVars(ProducerEnds)
    /\ WF_scopeVars(Transport)
    /\ WF_scopeVars(RequestStep)

ScopeSpec == ScopeInit /\ [][ScopeNext]_scopeVars /\ ScopeFairness

-----------------------------------------------------------------------------
\* The request coroutine is in one of its phases, and it holds the transport's
\* lease exactly while it streams or is about to give it back.
ScopeTypeOK ==
    /\ phase \in Phases /\ produced \in BOOLEAN
    /\ (\E c \in Consumers : consumer[c] = "transport")
         <=> phase \in {"stream", "leave"}

\* A stream that ended normally, with no cancellation and no failed
\* publication, gave the client every event the run added to its journal, in
\* order: an event whose publication raced the producer's close is not cut off
\* by the end.
StreamIsComplete ==
    transportCompleted /\ ~cancelled /\ faults = 0 =>
      delivered = SubSeq(journal, Recovered + 1, Len(journal))

Quiescent ==
    state \in Stable /\ closer = "idle" /\ \A p \in Publishers : pub[p].pc = "idle"

\* Every request ends, nobody consumes its channel any more, and the channel is
\* in a stable state with no task left inside it: a publisher waiting for
\* space, a close waiting for the lock or for space, and a consumer waiting for
\* an item are all woken.  Only a request whose cleanup was cancelled
\* (_cancel_and_drain_scope) may leave tasks behind, and only in front of a full
\* queue.
RequestEnds ==
    <>[](/\ phase \in {"done", "abandoned"}
         /\ \A c \in Consumers : consumer[c] = "idle"
         /\ Quiescent \/ (phase = "abandoned" /\ Len(queue) = Capacity))
=============================================================================
