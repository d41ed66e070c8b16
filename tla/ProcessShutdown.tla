-------------------------- MODULE ProcessShutdown ---------------------------
(***************************************************************************)
(* The end of a server process: the admission gate, the run registry, the  *)
(* blocking executor that runs steps, the tool concurrency controller and  *)
(* the GracefulShutdownCoordinator (core/runtime/admission.py,             *)
(* run_registry.py, blocking_executor.py, tool_concurrency.py,             *)
(* shutdown.py, application_services.py).                                  *)
(*                                                                         *)
(* A run has at most one step thread, which blocks while its tool is       *)
(* called; the tool's own thread outlives a timeout of the call.  All      *)
(* tools ask for the same resource.  Every wait of the shutdown is bounded *)
(* and may end at any time.                                                *)
(***************************************************************************)
EXTENDS Naturals, FiniteSets

CONSTANTS
    Runs,          \* requests
    MaxThreads     \* max_workers + max_pending_tasks of the executor

ASSUME ShutdownAssumption == IsFiniteSet(Runs) /\ MaxThreads \in Nat \ {0}

VARIABLES
    admission,     \* RuntimeAdmissionGate._state
    runs,          \* where each request is
    registry,      \* runs with a handle in the RunRegistry
    stepOf,        \* step thread of a run: a record of the executor
    toolOf,        \* what the tool call of a run is doing
    opened,        \* _accepting of the executor and of the controller
    stage,         \* where GracefulShutdownCoordinator.shutdown is
    remaining,     \* handles that are still to be aborted
    failures,      \* operations with an error code
    idle,          \* what the drain of the workers found
    report         \* ShutdownReport.fully_closed

shutdownVars == <<admission, runs, registry, stepOf, toolOf, opened, stage, remaining,
                  failures, idle, report>>
runVars == <<runs, registry, stepOf, toolOf>>
coordinatorVars == <<stage, remaining, failures, idle, report>>

ShutdownInit ==
    /\ admission = "ACCEPTING"
    /\ runs = [r \in Runs |-> "none"]
    /\ registry = {}
    /\ stepOf = [r \in Runs |-> "none"] /\ toolOf = [r \in Runs |-> "none"]
    /\ opened = [steps |-> TRUE, tools |-> TRUE]
    /\ stage = "up" /\ remaining = {} /\ failures = {} /\ idle = TRUE /\ report = "none"

StepThreads == {r \in Runs : stepOf[r] # "none"}
ToolThreads == {r \in Runs : toolOf[r] \in {"working", "detached"}}

\* MUTANT: a call that timed out has given its lease back.
ResourceHeldInCalls == \E r \in Runs : toolOf[r] \in {"leased", "working"}

ResourceHeld == \E r \in Runs : toolOf[r] \in {"leased", "working", "detached"}

-----------------------------------------------------------------------------
(* Runs: _create_run_scope under an admission lease, execute, the end *)

AdmitRun(r) ==
    /\ runs[r] = "none" /\ admission = "ACCEPTING"
    /\ runs' = [runs EXCEPT ![r] = "building"]
    /\ UNCHANGED <<admission, registry, stepOf, toolOf, opened, coordinatorVars>>

\* Registered, or failed; the admission lease ends in the same finally.
ScopeBuilt(r) ==
    /\ runs[r] = "building"
    /\ \/ runs' = [runs EXCEPT ![r] = "ready"] /\ registry' = registry \cup {r}
       \/ runs' = [runs EXCEPT ![r] = "ended"] /\ UNCHANGED registry
    /\ UNCHANGED <<admission, stepOf, toolOf, opened, coordinatorVars>>

\* execute registers the handle again when it is missing.
ExecuteRun(r) ==
    /\ runs[r] = "ready"
    /\ runs' = [runs EXCEPT ![r] = "executing"] /\ registry' = registry \cup {r}
    /\ UNCHANGED <<admission, stepOf, toolOf, opened, coordinatorVars>>

\* The coordinator is through: its step has returned or was detached.
RunEnds(r) ==
    /\ runs[r] = "executing" /\ stepOf[r] \in {"none", "detached"}
    /\ runs' = [runs EXCEPT ![r] = "ended"] /\ registry' = registry \ {r}
    /\ UNCHANGED <<admission, stepOf, toolOf, opened, coordinatorVars>>

\* submit and _submit_admitted, which looks at _accepting again under the lock.
SubmitStep(r) ==
    /\ runs[r] = "executing" /\ stepOf[r] = "none" /\ opened.steps
    /\ Cardinality(StepThreads) < MaxThreads
    /\ stepOf' = [stepOf EXCEPT ![r] = "running"]
    /\ UNCHANGED <<admission, runs, registry, toolOf, opened, coordinatorVars>>

\* cancel_or_detach: the waiter leaves, the thread goes on.
DetachStep(r) ==
    /\ stepOf[r] = "running"
    /\ stepOf' = [stepOf EXCEPT ![r] = "detached"]
    /\ UNCHANGED <<admission, runs, registry, toolOf, opened, coordinatorVars>>

\* _complete: a step thread is blocked while its tool is called.
StepReturns(r) ==
    /\ stepOf[r] # "none" /\ toolOf[r] \in {"none", "detached"}
    /\ stepOf' = [stepOf EXCEPT ![r] = "none"]
    /\ UNCHANGED <<admission, runs, registry, toolOf, opened, coordinatorVars>>

-----------------------------------------------------------------------------
(* Tools: acquire looks at _accepting once, then waits for its permits *)

AskForTool(r) ==
    /\ stepOf[r] # "none" /\ toolOf[r] = "none" /\ opened.tools
    /\ toolOf' = [toolOf EXCEPT ![r] = "asking"]
    /\ UNCHANGED <<admission, runs, registry, stepOf, opened, coordinatorVars>>

LeaseTool(r) ==
    /\ toolOf[r] = "asking" /\ ~ResourceHeld
    /\ toolOf' = [toolOf EXCEPT ![r] = "leased"]
    /\ UNCHANGED <<admission, runs, registry, stepOf, opened, coordinatorVars>>

\* The wait is cancelled or out of time, or what comes before the call fails.
ToolNotCalled(r) ==
    /\ toolOf[r] \in {"asking", "leased"}
    /\ toolOf' = [toolOf EXCEPT ![r] = "none"]
    /\ UNCHANGED <<admission, runs, registry, stepOf, opened, coordinatorVars>>

\* submit to the tools' pool and register_worker, without an await between.
ToolThreadStarts(r) ==
    /\ toolOf[r] = "leased"
    /\ toolOf' = [toolOf EXCEPT ![r] = "working"]
    /\ UNCHANGED <<admission, runs, registry, stepOf, opened, coordinatorVars>>

\* _defer_lease_release: permits, resource and worker record stay until cleanup.
ToolTimesOut(r) ==
    /\ toolOf[r] = "working"
    /\ toolOf' = [toolOf EXCEPT ![r] = "detached"]
    /\ UNCHANGED <<admission, runs, registry, stepOf, opened, coordinatorVars>>

\* The thread ends: release and complete_worker, in the attempt or in cleanup.
ToolThreadEnds(r) ==
    /\ toolOf[r] \in {"working", "detached"}
    /\ toolOf' = [toolOf EXCEPT ![r] = "none"]
    /\ UNCHANGED <<admission, runs, registry, stepOf, opened, coordinatorVars>>

-----------------------------------------------------------------------------
(* GracefulShutdownCoordinator.shutdown *)

Failed(ok, operation) == failures' = IF ok THEN failures ELSE failures \cup {operation}

BeginShutdown ==
    /\ stage = "up" /\ stage' = "settling" /\ admission' = "DRAINING"
    /\ UNCHANGED <<runVars, opened, remaining, failures, idle, report>>

\* wait_until_settled, then the handles of that moment are cancelled.
SettleAndCancel ==
    /\ stage = "settling" /\ stage' = "draining"
    /\ \E ok \in BOOLEAN :
         /\ ok => \A r \in Runs : runs[r] # "building"
         /\ Failed(ok, "ADMISSION")
    /\ UNCHANGED <<admission, runVars, opened, remaining, idle, report>>

\* wait_until_empty; its timeout is no failure of its own.
DrainRuns ==
    /\ stage = "draining" /\ stage' = "forcing"
    /\ remaining' = registry
    /\ UNCHANGED <<admission, runVars, opened, failures, idle, report>>

\* force_abort ends the scope and its coordinator, or times out; the handle
\* goes either way.  A step thread is not ended by it.
ForceAbort(r) ==
    /\ stage = "forcing" /\ r \in remaining
    /\ remaining' = remaining \ {r} /\ registry' = registry \ {r}
    /\ \/ /\ runs' = [runs EXCEPT ![r] = "ended"]
          /\ stepOf' = [stepOf EXCEPT ![r] = IF @ = "running" THEN "detached" ELSE @]
          /\ UNCHANGED failures
       \/ failures' = failures \cup {"FORCE_ABORT"} /\ UNCHANGED <<runs, stepOf>>
    /\ UNCHANGED <<admission, toolOf, opened, stage, idle, report>>

\* close_worker_admission: the executors, then the trackers.
CloseWorkerAdmission ==
    /\ stage = "forcing" /\ remaining = {} /\ stage' = "waiting trackers"
    /\ \E ok \in BOOLEAN :
         /\ opened' = IF ok THEN [steps |-> FALSE, tools |-> FALSE] ELSE opened
         /\ Failed(ok, "WORKER_ADMISSION")
    /\ UNCHANGED <<admission, runVars, remaining, idle, report>>

\* wait_workers: one target after the other.
WaitTrackers ==
    /\ stage = "waiting trackers" /\ stage' = "waiting executors"
    /\ \E ok \in BOOLEAN : /\ ok => ToolThreads = {}
                           /\ idle' = ok /\ Failed(ok, "WORKER_DRAIN")
    /\ UNCHANGED <<admission, runVars, opened, remaining, report>>

WaitExecutors ==
    /\ stage = "waiting executors" /\ stage' = "closing"
    /\ \E ok \in BOOLEAN : /\ ok => StepThreads = {}
                           /\ idle' = (idle /\ ok) /\ Failed(ok, "WORKER_DRAIN")
    /\ UNCHANGED <<admission, runVars, opened, remaining, report>>

\* _worker_counts
Counted == Cardinality(ToolThreads) + Cardinality(StepThreads)

\* Flush and close; the models are kept open (DEFERRED) under a worker.
CloseServices ==
    /\ stage = "closing" /\ stage' = "reporting"
    /\ \E ok \in BOOLEAN : Failed(ok /\ idle /\ Counted = 0, "CLOSE")
    /\ UNCHANGED <<admission, runVars, opened, remaining, idle, report>>

\* MUTANT: an admission that did not settle is not a required failure.
FullyClosedWithoutAdmission ==
    failures \subseteq {"ADMISSION"} /\ registry = {} /\ idle /\ Counted = 0

\* ShutdownReport.fully_closed
FullyClosed == failures = {} /\ registry = {} /\ idle /\ Counted = 0

ReportShutdown ==
    /\ stage = "reporting" /\ stage' = "done" /\ admission' = "CLOSED"
    /\ report' = IF FullyClosed THEN "fully closed" ELSE "partial"
    /\ UNCHANGED <<runVars, opened, remaining, failures, idle>>

ShutdownNext ==
    \/ \E r \in Runs :
         \/ AdmitRun(r) \/ ScopeBuilt(r) \/ ExecuteRun(r) \/ RunEnds(r)
         \/ SubmitStep(r) \/ DetachStep(r) \/ StepReturns(r)
         \/ AskForTool(r) \/ LeaseTool(r) \/ ToolNotCalled(r) \/ ToolThreadStarts(r)
         \/ ToolTimesOut(r) \/ ToolThreadEnds(r) \/ ForceAbort(r)
    \/ BeginShutdown \/ SettleAndCancel \/ DrainRuns \/ CloseWorkerAdmission
    \/ WaitTrackers \/ WaitExecutors \/ CloseServices \/ ReportShutdown

ShutdownSpec == ShutdownInit /\ [][ShutdownNext]_shutdownVars

-----------------------------------------------------------------------------
\* A report that says fully closed is true and stays true: no run is under
\* construction or executing, no thread of a step or a tool is left, although
\* runs register late, waiters pass a closed admission and threads outlive
\* their calls (shutdown.py fully_closed).
FullyClosedIsTrue ==
    report = "fully closed" =>
        /\ \A r \in Runs : runs[r] \in {"none", "ended"}
        /\ StepThreads = {} /\ ToolThreads = {}

\* Two tool threads never work on one resource, also when the call of the
\* first one timed out and its run went on (_defer_lease_release).
ToolThreadsExclude == Cardinality(ToolThreads) <= 1

=============================================================================
