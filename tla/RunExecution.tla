---------------------------- MODULE RunExecution ----------------------------
(***************************************************************************)
(* One run scope: RunCoordinator.execute, the SerialScheduler, the         *)
(* ParallelExecutor's workers, the AgentStateMachine, the completion       *)
(* pipeline (StepResultCommitter) and the OutputGate, for a typed plan of  *)
(* several steps with one final step.                                      *)
(*                                                                         *)
(* The workers of a batch are tasks of one event loop: a worker runs from  *)
(* one await to the next without interruption, and a task group that fails *)
(* cancels its other workers at whatever await they are in.                *)
(***************************************************************************)
EXTENDS Naturals, FiniteSets

CONSTANTS
    Steps,         \* steps of the frozen plan
    DependsOn,     \* depends_on of every step
    FinalStep,     \* the one step whose output the user sees
    MaxParallel    \* policy.max_concurrency

ASSUME PlanAssumption ==
    /\ DependsOn \in [Steps -> SUBSET Steps] /\ FinalStep \in Steps
    /\ MaxParallel \in Nat \ {0}

VARIABLES
    phase,      \* where execute is
    failFast,   \* policy.failure_mode
    status,     \* AgentState.steps
    work,       \* await at which the worker of a step is; "none" without worker
    durable,    \* status in runtime_step_executions
    result,     \* entry of the StepResultStore
    gate,       \* OutputGate._state
    shown,      \* final outputs in the journal
    stopped,    \* the run's token is cancelled or its deadline has passed
    batch,      \* what the running batch has met
    verdict     \* RunFinalizationDecision.status, then the run's status

execVars == <<phase, failFast, status, work, durable, result, gate, shown,
              stopped, batch, verdict>>

NoTrouble == [cancelling |-> FALSE, error |-> FALSE, unsettled |-> FALSE]

ExecInit ==
    /\ phase = "evaluate" /\ failFast \in BOOLEAN
    /\ status = [s \in Steps |-> "PENDING"]
    /\ work = [s \in Steps |-> "none"]
    /\ durable = [s \in Steps |-> "PENDING"]
    /\ result = [s \in Steps |-> "none"]
    /\ gate = "NOT_STARTED" /\ shown = 0
    /\ stopped = FALSE /\ batch = NoTrouble /\ verdict = "none"

Terminal == {"SUCCEEDED", "FAILED", "CANCELLED", "BLOCKED"}
Active == {s \in Steps : status[s] \in {"RUNNING", "WAITING"}}
Working == {s \in Steps : work[s] # "none"}

Decide(v) == phase' = "stopping" /\ verdict' = v

-----------------------------------------------------------------------------
(* SerialScheduler *)

\* _propagate_blocked, to its fixpoint: what depends on a step that did not
\* succeed, directly or through others; the smallest set that this closes.
Blocked ==
    LET Direct(B) == {s \in Steps : /\ status[s] = "PENDING"
                                    /\ \E d \in DependsOn[s] :
                                         d \in B \/ status[d] \in Terminal \ {"SUCCEEDED"}}
    IN  {s \in Steps : \A B \in SUBSET Steps : Direct(B) \subseteq B => s \in B}

Ready == {s \in Steps : status[s] = "PENDING" /\
                        \A d \in DependsOn[s] : status[d] = "SUCCEEDED"}

\* A turn of _execute_batches up to the claim: _decision_from_snapshot.
Evaluate ==
    /\ phase = "evaluate"
    /\ status' = [s \in Steps |-> IF s \in Blocked THEN "BLOCKED" ELSE status[s]]
    /\ CASE stopped -> Decide("CANCELLED")
         [] ~stopped /\ \A s \in Steps : status[s] = "SUCCEEDED" -> Decide("SUCCEEDED")
         [] ~stopped /\ Ready # {} -> phase' = "claim" /\ UNCHANGED verdict
         [] OTHER -> Decide("FAILED")
    /\ UNCHANGED <<failFast, work, durable, result, gate, shown, stopped, batch>>

\* claim_ready in the executor's task; a run that stopped meanwhile gives its
\* claims up, a budget that does not allow the steps ends the run.
ClaimReady ==
    /\ phase = "claim"
    /\ \/ /\ ~stopped
          /\ \E C \in SUBSET Ready :
               /\ Cardinality(C) = IF Cardinality(Ready) < MaxParallel
                                     THEN Cardinality(Ready) ELSE MaxParallel
               /\ status' = [s \in Steps |-> IF s \in C THEN "RUNNING" ELSE status[s]]
               /\ work' = [s \in Steps |-> IF s \in C THEN "starting" ELSE "none"]
          /\ phase' = "batch" /\ UNCHANGED verdict
       \/ /\ stopped
          /\ \E s \in Ready : status' = [status EXCEPT ![s] = "CANCELLED"]
          /\ Decide("CANCELLED") /\ UNCHANGED work
       \/ Decide("FAILED") /\ UNCHANGED <<status, work>>
    /\ batch' = NoTrouble
    /\ UNCHANGED <<failFast, durable, result, gate, shown, stopped>>

-----------------------------------------------------------------------------
(* ParallelExecutor: the worker of a claim *)

\* The worker returns; when it failed and failures are fast, the group cancels.
Return(s, failed) ==
    /\ work' = [work EXCEPT ![s] = "none"]
    /\ batch' = [batch EXCEPT !.cancelling = @ \/ (failed /\ failFast)]

\* _emit_step_completed writes the durable row together with the event.  When
\* it cannot, the exception cancels the group and ends the batch.
Settle(s, st) ==
    /\ work' = [work EXCEPT ![s] = "none"]
    /\ \/ /\ durable' = [durable EXCEPT ![s] = IF @ = "RUNNING" THEN st ELSE @]
          /\ batch' = [batch EXCEPT !.cancelling = @ \/ (failFast /\ st = "FAILED")]
       \/ /\ durable[s] = "RUNNING"
          /\ batch' = [batch EXCEPT !.cancelling = TRUE, !.error = TRUE]
          /\ UNCHANGED durable

\* _emit_step_started: the row and the event, or neither and the step failed.
StartStep(s) ==
    /\ work[s] = "starting"
    /\ \/ /\ durable' = [durable EXCEPT ![s] = "RUNNING"]
          /\ work' = [work EXCEPT ![s] = "driving"]
          /\ UNCHANGED <<status, batch>>
       \/ /\ status' = [status EXCEPT ![s] = "FAILED"]
          /\ Return(s, TRUE)
          /\ UNCHANGED durable
    /\ UNCHANGED <<phase, failFast, result, gate, shown, stopped, verdict>>

\* The driver gives up because the run has stopped, or fails.
DriverFails(s) ==
    /\ work[s] = "driving" /\ status[s] = "RUNNING"
    /\ LET st == IF stopped THEN "CANCELLED" ELSE "FAILED"
       IN  status' = [status EXCEPT ![s] = st] /\ Settle(s, st)
    /\ UNCHANGED <<phase, failFast, result, gate, shown, stopped, verdict>>

\* The budget or the deadline: the exception leaves the group unsettled.
DriverExhausted(s) ==
    /\ work[s] = "driving"
    /\ work' = [work EXCEPT ![s] = "none"]
    /\ batch' = [batch EXCEPT !.cancelling = TRUE, !.error = TRUE]
    /\ UNCHANGED <<phase, failFast, status, durable, result, gate, shown, stopped, verdict>>

RequestToolApproval(s) ==
    /\ work[s] = "driving" /\ status[s] = "RUNNING"
    /\ status' = [status EXCEPT ![s] = "WAITING"]
    /\ UNCHANGED <<phase, failFast, work, durable, result, gate, shown, stopped, batch, verdict>>

ApprovalDecided(s) ==
    /\ work[s] = "driving" /\ status[s] = "WAITING"
    /\ \/ status' = [status EXCEPT ![s] = "RUNNING"] /\ UNCHANGED <<work, durable, batch>>
       \/ status' = [status EXCEPT ![s] = "FAILED"] /\ Settle(s, "FAILED")
    /\ UNCHANGED <<phase, failFast, result, gate, shown, stopped, verdict>>

\* The group cancels a worker.  What the state machine has already accepted
\* stays; a publication that is cut off counts as unknown and goes on.
CancelWorker(s) ==
    /\ batch.cancelling
    /\ \/ /\ work[s] \in {"starting", "driving", "remembering", "reporting"}
          /\ status' = [status EXCEPT ![s] = IF s \in Active THEN "CANCELLED" ELSE @]
          /\ Settle(s, "CANCELLED")
          /\ UNCHANGED <<gate, shown>>
       \/ /\ work[s] = "publishing"
          /\ gate' = "OUTCOME_UNKNOWN" /\ shown' \in {shown, shown + 1}
          /\ work' = [work EXCEPT ![s] = "reporting"]
          /\ UNCHANGED <<status, durable, batch>>
    /\ UNCHANGED <<phase, failFast, result, stopped, verdict>>

-----------------------------------------------------------------------------
(* StepResultCommitter.commit and OutputGate.attempt_publish *)

\* Prepared, SUCCEEDED and readable without an await between them.  A result
\* that cannot be prepared fails the step, one that cannot be made readable
\* leaves it SUCCEEDED; neither reaches the durable row.
CommitResult(s) ==
    /\ work[s] = "driving" /\ status[s] = "RUNNING"
    /\ \/ /\ status' = [status EXCEPT ![s] = "SUCCEEDED"]
          /\ result' = [result EXCEPT ![s] = "READABLE"]
          /\ IF s # FinalStep \/ stopped
               THEN /\ work' = [work EXCEPT ![s] = "reporting"] /\ UNCHANGED gate
               ELSE /\ work' = [work EXCEPT ![s] = "publishing"]
                    /\ gate' = "PUBLISHING"
          /\ UNCHANGED batch
       \/ /\ status' = [status EXCEPT ![s] = "FAILED"]
          /\ Return(s, TRUE) /\ UNCHANGED <<result, gate>>
       \/ /\ status' = [status EXCEPT ![s] = "SUCCEEDED"]
          /\ result' = [result EXCEPT ![s] = "PREPARED"]
          /\ work' = [work EXCEPT ![s] = "none"]
          /\ batch' = [batch EXCEPT !.unsettled = TRUE, !.cancelling = @ \/ failFast]
          /\ UNCHANGED gate
    /\ UNCHANGED <<phase, failFast, durable, shown, stopped, verdict>>

\* The journal takes the final output, refuses it, or nobody knows.
Publish(s) ==
    /\ work[s] = "publishing"
    /\ \/ /\ gate' = "PUBLISHED" /\ shown' = shown + 1
          /\ work' = [work EXCEPT ![s] = "remembering"]
       \/ /\ gate' = "FAILED" /\ UNCHANGED shown
          /\ work' = [work EXCEPT ![s] = "reporting"]
       \/ /\ gate' = "OUTCOME_UNKNOWN" /\ shown' \in {shown, shown + 1}
          /\ work' = [work EXCEPT ![s] = "reporting"]
    /\ UNCHANGED <<phase, failFast, status, durable, result, stopped, batch, verdict>>

\* write_delivered and the formation: only a failed exchange counts.
Remember(s) ==
    /\ work[s] = "remembering"
    /\ work' = [work EXCEPT ![s] = "reporting"]
    /\ \E failed \in BOOLEAN : batch' = [batch EXCEPT !.unsettled = @ \/ failed]
    /\ UNCHANGED <<phase, failFast, status, durable, result, gate, shown, stopped, verdict>>

\* STEP_COMPLETED with the durable row; the pipeline reports what went wrong.
Report(s) ==
    /\ work[s] = "reporting"
    /\ \E written \in BOOLEAN :
         LET bad == ~written \/ batch.unsettled \/ (s = FinalStep /\ gate # "PUBLISHED") IN
         /\ durable' = [durable EXCEPT ![s] = IF written THEN "SUCCEEDED" ELSE @]
         /\ work' = [work EXCEPT ![s] = "none"]
         /\ batch' = [batch EXCEPT !.unsettled = @ \/ bad,
                                   !.cancelling = @ \/ (bad /\ failFast)]
    /\ UNCHANGED <<phase, failFast, status, result, gate, shown, stopped, verdict>>

-----------------------------------------------------------------------------
\* MUTANT: the completions of the batch are not looked at.
BatchOutcomeIgnoresCompletions == IF batch.error THEN "FAILED" ELSE "none"

\* _decision_from_batch_report, or the exception of the batch.
BatchOutcome == IF batch.error \/ batch.unsettled THEN "FAILED" ELSE "none"

\* The task group has ended: _cancel_unfinished, then the report.
BatchEnds ==
    /\ phase = "batch" /\ Working = {}
    /\ status' = [s \in Steps |-> IF s \in Active THEN "CANCELLED" ELSE status[s]]
    /\ durable' = [s \in Steps |->
                     IF s \in Active /\ durable[s] = "RUNNING" THEN "CANCELLED" ELSE durable[s]]
    /\ IF BatchOutcome = "none" THEN phase' = "evaluate" /\ UNCHANGED verdict
                                ELSE Decide(BatchOutcome)
    /\ UNCHANGED <<failFast, work, result, gate, shown, stopped, batch>>

\* Cancellation, deadline or shutdown; the coordinator's own task is cancelled.
TokenCancelled ==
    /\ ~stopped /\ phase # "ended" /\ stopped' = TRUE
    /\ UNCHANGED <<phase, failFast, status, work, durable, result, gate, shown, batch, verdict>>

TaskCancelled ==
    /\ phase \in {"evaluate", "claim", "batch"} /\ ~batch.error
    /\ batch' = [batch EXCEPT !.cancelling = TRUE, !.error = TRUE]
    /\ IF phase = "batch" THEN UNCHANGED <<phase, verdict>>
                          ELSE Decide(IF stopped THEN "CANCELLED" ELSE "FAILED")
    /\ UNCHANGED <<failFast, status, work, durable, result, gate, shown, stopped>>

\* _settle_active_steps, _finalize_once and the terminal events.
Finish ==
    /\ phase = "stopping" /\ phase' = "ended"
    /\ status' = [s \in Steps |-> IF s \in Active THEN "CANCELLED" ELSE status[s]]
    /\ durable' = [s \in Steps |->
                     IF s \in Active /\ durable[s] = "RUNNING" THEN "CANCELLED" ELSE durable[s]]
    /\ UNCHANGED <<failFast, work, result, gate, shown, stopped, batch, verdict>>

WorkerStep(s) ==
    \/ StartStep(s) \/ DriverFails(s) \/ DriverExhausted(s) \/ RequestToolApproval(s)
    \/ ApprovalDecided(s) \/ CancelWorker(s) \/ CommitResult(s) \/ Publish(s)
    \/ Remember(s) \/ Report(s)

ExecNext ==
    \/ Evaluate \/ ClaimReady \/ BatchEnds \/ TokenCancelled \/ TaskCancelled \/ Finish
    \/ \E s \in Steps : WorkerStep(s)

ExecSpec == ExecInit /\ [][ExecNext]_execVars

-----------------------------------------------------------------------------
\* A run that reports success has really done it: every step, every durable
\* row, every result, and the output shown exactly once (the order of
\* _decision_from_batch_report and _decision_from_snapshot).
SuccessIsComplete ==
    (phase = "ended" /\ verdict = "SUCCEEDED") =>
        /\ \A s \in Steps : /\ status[s] = "SUCCEEDED" /\ durable[s] = "SUCCEEDED"
                            /\ result[s] = "READABLE"
        /\ gate = "PUBLISHED" /\ shown = 1

=============================================================================
