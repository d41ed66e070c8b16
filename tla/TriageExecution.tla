--------------------------- MODULE TriageExecution ---------------------------
(***************************************************************************)
(* TriageExecutionService, TriageWorker and TriageModelAdapter             *)
(* (core/stage13/triage_execution.py, triage_runtime.py): one analysis job *)
(* is executed under a job lease by runs of the agent runtime, which have  *)
(* leases of their own; an initial run whose output is not valid is        *)
(* repaired by one further run.                                            *)
(*                                                                         *)
(* The runtime is abstract here: a durable root, one step whose completion *)
(* and the end of the run are fenced by the run's lease, and one model     *)
(* call.  The call's record and the receipt are written without a fence.   *)
(***************************************************************************)
EXTENDS Naturals

CONSTANTS
    Triagers,       \* tasks of TriageWorker.run_job, each in a process of its own
    MaxJobEpoch,    \* bound: claims of the job
    NoTriager

ASSUME TriageAssumption == MaxJobEpoch \in Nat \ {0} /\ NoTriager \notin Triagers

Roles == {"INITIAL", "SCHEMA_REPAIR"}

VARIABLES
    job,        \* AnalysisJobRow and JobExecutionRow
    triager,    \* the claim of a task, the run it executes and where it is
    run,        \* TriageRunRow and the durable root of a run
    overdue     \* deadline_at has passed

triageVars == <<job, triager, run, overdue>>

NoRun == [reserved |-> FALSE, root |-> "none", answer |-> "none", holder |-> NoTriager,
          leased |-> FALSE, call |-> "none", dispatches |-> 0, receipt |-> {}]

\* What execute_analysis and finish read of a run that has its receipt; the
\* receipt is known by the state of the model call it reports.
Verdict(rr) == [answer |-> rr.answer, status |-> rr.root, call |-> rr.call, receipt |-> rr.receipt]
NoVerdict == Verdict(NoRun)
Resting == [pc |-> "resting", epoch |-> 0, role |-> "INITIAL", final |-> NoVerdict]

TriageInit ==
    /\ job = [status |-> "READY", epoch |-> 0, live |-> FALSE, repair |-> FALSE,
              selected |-> "none", receipt |-> {}]
    /\ triager = [w \in Triagers |-> Resting]
    /\ run = [r \in Roles |-> NoRun]
    /\ overdue = FALSE

RootEnded(r) == run[r].root \in {"SUCCEEDED", "FAILED"}

-----------------------------------------------------------------------------
(* The claim of a job *)

ClaimJob(w) ==
    /\ triager[w].pc = "resting" /\ job.epoch < MaxJobEpoch
    /\ job.status \in {"READY", "RUNNING"} /\ ~job.live
    /\ job' = [job EXCEPT !.status = "RUNNING", !.epoch = @ + 1, !.live = TRUE]
    /\ triager' = [triager EXCEPT ![w] =
         [Resting EXCEPT !.pc = "reserving", !.epoch = job.epoch + 1]]
    /\ UNCHANGED <<run, overdue>>

\* _fence
HoldsJob(w) == job.live /\ job.epoch = triager[w].epoch

\* The heartbeat renews a lease that is current; it runs out when the task, its
\* process or the database does not keep up.
JobLeaseExpires ==
    /\ job.live /\ job' = [job EXCEPT !.live = FALSE]
    /\ UNCHANGED <<triager, run, overdue>>

\* An exception ends run_job, or the process dies: the job stays RUNNING.
TriagerStops(w) ==
    /\ triager[w].pc # "resting" /\ triager' = [triager EXCEPT ![w] = Resting]
    /\ UNCHANGED <<job, run, overdue>>

-----------------------------------------------------------------------------
(* reserve_run and execute_run *)

\* The row of the run is inserted unless it is there; a repair is bound to the
\* job under the fence.
ReserveRun(w) ==
    LET r == triager[w].role IN
    /\ triager[w].pc = "reserving"
    /\ run' = [run EXCEPT ![r].reserved = TRUE]
    /\ triager' = [triager EXCEPT ![w].pc = IF r = "INITIAL" THEN "executing" ELSE "binding"]
    /\ UNCHANGED <<job, overdue>>

BindRepair(w) ==
    /\ triager[w].pc = "binding"
    /\ IF HoldsJob(w)
         THEN /\ job' = [job EXCEPT !.repair = TRUE]
              /\ triager' = [triager EXCEPT ![w].pc = "executing"]
         ELSE triager' = [triager EXCEPT ![w] = Resting] /\ UNCHANGED job
    /\ UNCHANGED <<run, overdue>>

ReadReceipt(w) ==
    LET r == triager[w].role IN
    /\ triager[w].pc = "executing" /\ run[r].receipt # {}
    /\ triager' = [triager EXCEPT ![w].pc = "judging", ![w].final = Verdict(run[r])]
    /\ UNCHANGED <<job, run, overdue>>

\* No durable root yet: the runtime creates it, unless the deadline has passed.
ExecuteRunFirst(w) ==
    LET r == triager[w].role IN
    /\ triager[w].pc = "executing" /\ run[r].receipt = {} /\ run[r].root = "none"
    /\ ~overdue
    /\ run' = [run EXCEPT ![r].root = "RUNNING", ![r].holder = w, ![r].leased = TRUE]
    /\ triager' = [triager EXCEPT ![w].pc = "running"]
    /\ UNCHANGED <<job, overdue>>

DeadlineExceeded(w) ==
    LET r == triager[w].role IN
    /\ triager[w].pc = "executing" /\ run[r].receipt = {} /\ run[r].root = "none"
    /\ overdue
    /\ triager' = [triager EXCEPT ![w].pc = "finishing", ![w].final = NoVerdict]
    /\ UNCHANGED <<job, run, overdue>>

\* The root of a run that has not ended: the run's lease is taken over, if it can
\* be, and the run is rehydrated.
RecoverRun(w) ==
    LET r == triager[w].role IN
    /\ triager[w].pc = "executing" /\ run[r].receipt = {} /\ run[r].root = "RUNNING"
    /\ \/ run[r].holder = w \/ ~run[r].leased
    /\ run' = [run EXCEPT ![r].holder = w, ![r].leased = TRUE]
    /\ triager' = [triager EXCEPT ![w].pc = "running"]
    /\ UNCHANGED <<job, overdue>>

ReadTerminal(w) ==
    /\ triager[w].pc = "executing" /\ run[triager[w].role].receipt = {}
    /\ RootEnded(triager[w].role)
    /\ triager' = [triager EXCEPT ![w].pc = "terminal"]
    /\ UNCHANGED <<job, run, overdue>>

RunLeaseExpires(r) ==
    /\ run[r].leased /\ run' = [run EXCEPT ![r].leased = FALSE]
    /\ UNCHANGED <<job, triager, overdue>>

-----------------------------------------------------------------------------
(* Inside the run *)

HoldsRun(w) == run[triager[w].role].leased /\ run[triager[w].role].holder = w

\* MUTANT: only a call that is known to have been answered is not made again.
DispatchableUnlessAnswered(r) == run[r].call # "COMPLETED"

\* TriageModelAdapter.ainvoke: the record of a call is the licence to make it.
Dispatchable(r) == run[r].call = "none"

Dispatch(w) ==
    LET r == triager[w].role IN
    /\ triager[w].pc = "running" /\ run[r].answer = "none" /\ Dispatchable(r)
    /\ run' = [run EXCEPT ![r].call = "STARTED", ![r].dispatches = @ + 1]
    /\ triager' = [triager EXCEPT ![w].pc = "asked"]
    /\ UNCHANGED <<job, overdue>>

\* The provider answers or the call fails; the record says which, whoever holds
\* the run by now.
ModelAnswers(w) ==
    LET r == triager[w].role IN
    /\ triager[w].pc = "asked"
    /\ \/ /\ run' = [run EXCEPT ![r].call = "COMPLETED"]
          /\ triager' = [triager EXCEPT ![w].pc = "answered"]
       \/ /\ run' = [run EXCEPT ![r].call = "UNKNOWN"]
          /\ triager' = [triager EXCEPT ![w].pc = "failing"]
    /\ UNCHANGED <<job, overdue>>

\* The adapter refuses a second call; the timeout, a cancellation or anything
\* else may also end the run, before the model's answer is on record, before the
\* step has it or even when the step is complete.
RunFails(w) ==
    /\ triager[w].pc \in {"running", "asked", "answered"}
    /\ triager' = [triager EXCEPT ![w].pc = "failing"]
    /\ UNCHANGED <<job, run, overdue>>

\* complete_step, fenced; the answer turns out to be valid output or not.
StepCompletes(w) ==
    LET r == triager[w].role IN
    /\ triager[w].pc = "answered" /\ HoldsRun(w)
    /\ \E a \in {"VALID", "INVALID"} : run' = [run EXCEPT ![r].answer = a]
    /\ triager' = [triager EXCEPT ![w].pc = "running"]
    /\ UNCHANGED <<job, overdue>>

\* finalize_terminal, fenced: without the lease the coordinator raises.  A run
\* that failed keeps the answer its step has stored.
RootEnds(w) ==
    LET r == triager[w].role
        succeeded == triager[w].pc = "running" /\ run[r].answer # "none"
    IN  /\ succeeded \/ triager[w].pc = "failing"
        /\ HoldsRun(w)
        /\ run' = [run EXCEPT ![r].root = IF succeeded THEN "SUCCEEDED" ELSE "FAILED",
                              ![r].leased = FALSE]
        /\ triager' = [triager EXCEPT ![w].pc = "terminal"]
        /\ UNCHANGED <<job, overdue>>

RunIsLost(w) ==
    /\ triager[w].pc \in {"running", "answered", "failing"} /\ ~HoldsRun(w)
    /\ triager' = [triager EXCEPT ![w] = Resting]
    /\ UNCHANGED <<job, run, overdue>>

\* The receipt, the validation and the status of the root, without a fence.
WriteReceipt(w) ==
    LET r == triager[w].role
        written == [run[r] EXCEPT !.receipt = {run[r].call}]
    IN  /\ triager[w].pc = "terminal"
        /\ run' = [run EXCEPT ![r] = written]
        /\ triager' = [triager EXCEPT ![w].pc = "judging", ![w].final = Verdict(written)]
        /\ UNCHANGED <<job, overdue>>

-----------------------------------------------------------------------------
(* execute_analysis and finish *)

\* One repair, of an initial run that succeeded with an output that is not valid.
NeedsRepair(w) ==
    /\ triager[w].role = "INITIAL"
    /\ triager[w].final.status = "SUCCEEDED" /\ triager[w].final.answer # "VALID"

Judge(w) ==
    /\ triager[w].pc = "judging"
    /\ triager' = [triager EXCEPT ![w] = IF NeedsRepair(w)
         THEN [@ EXCEPT !.pc = "reserving", !.role = "SCHEMA_REPAIR", !.final = NoVerdict]
         ELSE [@ EXCEPT !.pc = "finishing"]]
    /\ UNCHANGED <<job, run, overdue>>

TriageOutcome(final) ==
    IF final = NoVerdict \/ final.call \in {"STARTED", "UNKNOWN"} THEN "UNRESOLVED"
    ELSE IF final.status = "SUCCEEDED" /\ final.answer = "VALID" THEN "COMPLETED" ELSE "FAILED"

FinishJob(w) ==
    LET final == triager[w].final IN
    /\ triager[w].pc = "finishing"
    /\ job' = IF ~HoldsJob(w) THEN job
              ELSE [job EXCEPT !.status = TriageOutcome(final), !.live = FALSE,
                      !.selected = IF final = NoVerdict THEN "none" ELSE triager[w].role,
                      !.receipt = final.receipt]
    /\ triager' = [triager EXCEPT ![w] = Resting]
    /\ UNCHANGED <<run, overdue>>

AnalysisIsOverdue ==
    /\ ~overdue /\ overdue' = TRUE
    /\ UNCHANGED <<job, triager, run>>

-----------------------------------------------------------------------------
TriageNext ==
    \/ \E w \in Triagers :
         \/ ClaimJob(w) \/ TriagerStops(w) \/ ReserveRun(w) \/ BindRepair(w)
         \/ ReadReceipt(w) \/ ExecuteRunFirst(w) \/ DeadlineExceeded(w)
         \/ RecoverRun(w) \/ ReadTerminal(w)
         \/ Dispatch(w) \/ RunFails(w) \/ ModelAnswers(w)
         \/ StepCompletes(w) \/ RootEnds(w) \/ RunIsLost(w) \/ WriteReceipt(w)
         \/ Judge(w) \/ FinishJob(w)
    \/ \E r \in Roles : RunLeaseExpires(r)
    \/ JobLeaseExpires \/ AnalysisIsOverdue

TriageSpec == TriageInit /\ [][TriageNext]_triageVars

-----------------------------------------------------------------------------
\* However often job and run change hands, no run asks the model twice
\* (ainvoke), and the job's status is the truth about the run it selects: it is
\* COMPLETED with the valid answer of a run that succeeded, of the repair exactly
\* when the initial run succeeded with an output that was not valid (a run that
\* failed after it had answered is not repaired, valid or not), and while the
\* outcome of its model call is open the job is UNRESOLVED, unless the call was
\* made by an executor that had lost the run, after the receipt
\* (execute_analysis, finish).
TriageIsTruthful ==
    /\ \A r \in Roles : run[r].dispatches <= 1
    /\ job.status \in {"COMPLETED", "FAILED"} =>
         /\ run[job.selected].call \in {"STARTED", "UNKNOWN"} => job.receipt = {"none"}
         /\ job.status = "COMPLETED" <=>
              run[job.selected].root = "SUCCEEDED" /\ run[job.selected].answer = "VALID"
         /\ job.selected = "SCHEMA_REPAIR" <=>
              run["INITIAL"].root = "SUCCEEDED" /\ run["INITIAL"].answer = "INVALID"
    /\ run["SCHEMA_REPAIR"].root # "none" => run["INITIAL"].root = "SUCCEEDED" /\ job.repair

=============================================================================
