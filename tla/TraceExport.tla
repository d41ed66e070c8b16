---------------------------- MODULE TraceExport -----------------------------
(***************************************************************************)
(* TraceExportDispatcher (core/runtime/trace_export_dispatcher.py): a      *)
(* bounded queue of completed spans, one worker thread that owns the       *)
(* exporter, and flush and close from any thread.                          *)
(*                                                                         *)
(* A step is one critical section of _condition, a queue operation, or an  *)
(* exporter call.  Any wait may end by its deadline.  Envelopes are        *)
(* counted, not told apart: the queue is first in first out.               *)
(***************************************************************************)
EXTENDS Naturals, Sequences

CONSTANTS
    Closers,       \* threads that call close, again and again
    Flushers,      \* threads that call flush
    Capacity,      \* queue_capacity
    MaxAccepted    \* bound: envelopes

ASSUME ExportAssumption == Capacity \in Nat \ {0} /\ MaxAccepted \in Nat

VARIABLES
    queue,        \* _queue: envelopes and the sentinel
    exporting,    \* _state
    accepted,     \* _accepted_total
    completed,    \* _completed_attempt_count
    worker,       \* where the worker thread is
    closes,       \* calls of exporter.close
    closer,       \* where each closer is, or what its last close returned
    flusher,      \* the same for flush, with its barrier
    closeTarget,  \* _close_target, or nothing before the first close
    sentinelPut,  \* _sentinel_enqueued
    closeResult   \* _close_result; "none" before _close_finalized

exportVars == <<queue, exporting, accepted, completed, worker, closes, closer, flusher,
                closeTarget, sentinelPut, closeResult>>

NotBegun == MaxAccepted + 1

ExportInit ==
    /\ queue = <<>> /\ exporting = "RUNNING" /\ accepted = 0 /\ completed = 0
    /\ worker = "getting" /\ closes = 0
    /\ closer = [d \in Closers |-> "idle"]
    /\ flusher = [f \in Flushers |-> [pc |-> "idle", target |-> 0]]
    /\ closeTarget = NotBegun /\ sentinelPut = FALSE /\ closeResult = "none"

Finalized == closeResult # "none"
MoveCloser(d, p) == closer' = [closer EXCEPT ![d] = p]

\* MUTANT: submission does not look at the state.
AcceptsUntilFull == Len(queue) < Capacity

\* The state check and put_nowait of observe_completed_span, in one section.
Accepts == exporting = "RUNNING" /\ Len(queue) < Capacity

ObserveSpan ==
    /\ Accepts /\ accepted < MaxAccepted
    /\ queue' = Append(queue, "envelope") /\ accepted' = accepted + 1
    /\ UNCHANGED <<exporting, completed, worker, closes, closer, flusher, closeTarget,
                   sentinelPut, closeResult>>

-----------------------------------------------------------------------------
(* _worker_main *)

WorkerGets ==
    /\ worker = "getting" /\ queue # <<>>
    /\ queue' = Tail(queue)
    /\ worker' = IF Head(queue) = "envelope" THEN "sending" ELSE "closing"
    /\ UNCHANGED <<exporting, accepted, completed, closes, closer, flusher, closeTarget,
                   sentinelPut, closeResult>>

\* _handle_envelope: sent, failed, or an error that ends the thread; the attempt
\* counts in every case.
SendEnds ==
    /\ worker = "sending" /\ completed' = completed + 1
    /\ worker' \in {"getting", "dying"}
    /\ UNCHANGED <<queue, exporting, accepted, closes, closer, flusher, closeTarget,
                   sentinelPut, closeResult>>

\* _perform_adapter_close: the exporter's answer, or an error that escapes.
AdapterCloses ==
    /\ worker = "closing" /\ closes' = closes + 1
    /\ \/ /\ closeResult' \in {"true", "false"}
          /\ exporting' = "CLOSED" /\ worker' = "dead"
       \/ worker' = "dying" /\ UNCHANGED <<exporting, closeResult>>
    /\ UNCHANGED <<queue, accepted, completed, closer, flusher, closeTarget, sentinelPut>>

\* _mark_worker_failed; the thread is alive a little longer.
WorkerFails ==
    /\ worker = "dying" /\ worker' = "ending"
    /\ exporting' = IF exporting = "CLOSED" THEN exporting ELSE "FAILED"
    /\ UNCHANGED <<queue, accepted, completed, closes, closer, flusher, closeTarget,
                   sentinelPut, closeResult>>

WorkerEnds ==
    /\ worker = "ending" /\ worker' = "dead"
    /\ UNCHANGED <<queue, exporting, accepted, completed, closes, closer, flusher,
                   closeTarget, sentinelPut, closeResult>>

-----------------------------------------------------------------------------
(* flush *)

FlushBegins(f) ==
    /\ flusher[f].pc # "waiting"
    /\ flusher' = [flusher EXCEPT ![f] =
         [pc |-> IF exporting = "CLOSED" THEN "true" ELSE "waiting", target |-> accepted]]
    /\ UNCHANGED <<queue, exporting, accepted, completed, worker, closes, closer, closeTarget,
                   sentinelPut, closeResult>>

FlushEnds(f) ==
    /\ flusher[f].pc = "waiting"
    /\ flusher' = [flusher EXCEPT ![f].pc =
         IF completed >= flusher[f].target THEN "true" ELSE "false"]
    /\ UNCHANGED <<queue, exporting, accepted, completed, worker, closes, closer, closeTarget,
                   sentinelPut, closeResult>>

-----------------------------------------------------------------------------
(* close *)

Closing(d) == closer[d] \in {"barrier", "enqueue", "putting", "finalizing"}

\* _finalize_close_dead_worker_locked
FinalizeDeadWorker(d) == closeResult' = "false" /\ MoveCloser(d, "false")

ExporterCloses(d) ==
    /\ ~Closing(d)
    /\ \/ Finalized /\ MoveCloser(d, closeResult) /\ UNCHANGED <<exporting, closeTarget, closeResult>>
       \/ /\ ~Finalized /\ closeTarget # NotBegun
          /\ MoveCloser(d, "barrier") /\ UNCHANGED <<exporting, closeTarget, closeResult>>
       \/ /\ ~Finalized /\ closeTarget = NotBegun
          /\ closeTarget' = accepted
          /\ IF exporting = "FAILED" /\ worker = "dead"
               THEN FinalizeDeadWorker(d) /\ UNCHANGED exporting
               ELSE /\ exporting' = "CLOSING" /\ MoveCloser(d, "barrier")
                    /\ UNCHANGED closeResult
    /\ UNCHANGED <<queue, accepted, completed, worker, closes, flusher, sentinelPut>>

\* Phase A: the barrier, the death of the worker, or the deadline.
CloseBarrier(d) ==
    /\ closer[d] = "barrier"
    /\ \/ Finalized /\ MoveCloser(d, closeResult) /\ UNCHANGED closeResult
       \/ ~Finalized /\ worker = "dead" /\ FinalizeDeadWorker(d)
       \/ /\ ~Finalized /\ worker # "dead"
          /\ MoveCloser(d, IF completed >= closeTarget THEN "enqueue" ELSE "false")
          /\ UNCHANGED closeResult
    /\ UNCHANGED <<queue, exporting, accepted, completed, worker, closes, flusher, closeTarget,
                   sentinelPut>>

\* Phase B: one closer takes on the sentinel, the others go on.
CloseEnqueues(d) ==
    /\ closer[d] = "enqueue"
    /\ \/ sentinelPut /\ MoveCloser(d, "finalizing") /\ UNCHANGED sentinelPut
       \/ /\ ~sentinelPut
          /\ \/ MoveCloser(d, "false") /\ UNCHANGED sentinelPut
             \/ MoveCloser(d, "putting") /\ sentinelPut' = TRUE
    /\ UNCHANGED <<queue, exporting, accepted, completed, worker, closes, flusher, closeTarget,
                   closeResult>>

ClosePuts(d) ==
    /\ closer[d] = "putting"
    /\ \/ /\ Len(queue) < Capacity /\ queue' = Append(queue, "sentinel")
          /\ MoveCloser(d, "finalizing") /\ UNCHANGED sentinelPut
       \/ /\ Len(queue) = Capacity /\ sentinelPut' = FALSE
          /\ MoveCloser(d, "false") /\ UNCHANGED queue
    /\ UNCHANGED <<exporting, accepted, completed, worker, closes, flusher, closeTarget, closeResult>>

\* Phase C: the worker's result, or the deadline.
CloseReturns(d) ==
    /\ closer[d] = "finalizing"
    /\ MoveCloser(d, IF Finalized THEN closeResult ELSE "false")
    /\ UNCHANGED <<queue, exporting, accepted, completed, worker, closes, flusher, closeTarget,
                   sentinelPut, closeResult>>

ExportNext ==
    \/ ObserveSpan \/ WorkerGets \/ SendEnds \/ AdapterCloses \/ WorkerFails \/ WorkerEnds
    \/ \E f \in Flushers : FlushBegins(f) \/ FlushEnds(f)
    \/ \E d \in Closers : \/ ExporterCloses(d) \/ CloseBarrier(d) \/ CloseEnqueues(d)
                          \/ ClosePuts(d) \/ CloseReturns(d)

ExportSpec == ExportInit /\ [][ExportNext]_exportVars

-----------------------------------------------------------------------------
\* What flush and close report is true: a flush that returned True left no
\* envelope from before it unattempted, a close that returned True left none at
\* all, and the exporter was closed once, by the worker, however many closers
\* time out, come again or race the death of the worker (flush, close).
ExportIsTruthful ==
    /\ closes <= 1
    /\ \A f \in Flushers : flusher[f].pc = "true" => completed >= flusher[f].target
    /\ \A d \in Closers : closer[d] = "true" =>
         completed = accepted /\ queue = <<>> /\ closes = 1 /\ worker = "dead"

=============================================================================
