-------------------------- MODULE ModelInvocation ---------------------------
(***************************************************************************)
(* ModelInvocationRouter.invoke (core/runtime/model_invocation.py): the    *)
(* chain of candidates of one invocation, with the breaker's permit, the   *)
(* budget's reservation, the durable attempt, the provider call and the    *)
(* decision to retry or to fall back.                                      *)
(*                                                                         *)
(* The callers are invocations of one run, made by its parallel steps and  *)
(* by its planning; they share the run's budget, its lease and the         *)
(* breakers.  The lease may be lost at any time; then every durable write  *)
(* of the run raises.                                                      *)
(***************************************************************************)
EXTENDS CircuitBreaker, BudgetLedger, Sequences

CONSTANTS
    Chain,          \* the breaker keys of the candidates, in order
    Durable,        \* callers with a step and an execution repository
    MaxAttempts,    \* RetryPolicy.max_attempts
    Usages          \* usages an answer may report

ASSUME InvocationAssumption ==
    /\ Chain \in Seq(Keys) /\ Spenders = Callers /\ Durable \subseteq Callers
    /\ MaxAttempts \in Nat \ {0} /\ Usages \subseteq Nat

VARIABLES
    call,      \* the caller's position, candidate, retries, attempt and last failure
    row,       \* state of the caller's last durable attempt
    showing,   \* attempts of the invocation whose output the client has seen
    active,    \* the run is neither cancelled nor out of time
    leased     \* the run still has its lease

invocationVars == <<call, row, showing, active, leased>>
modelVars == <<circuit, permit, lost, committed, reserved, allocated, envelope, overdrawn,
               call, row, showing, active, leased>>

ModelInit ==
    /\ BreakerInit /\ BudgetInit
    /\ call = [c \in Callers |-> [pc |-> "idle", at |-> 1, retry |-> 0, attempt |-> 0,
                                  failure |-> "none"]]
    /\ row = [c \in Callers |-> "none"]
    /\ showing = [c \in Callers |-> {}]
    /\ active = TRUE /\ leased = TRUE

GoTo(c, p) == call' = [call EXCEPT ![c].pc = p]
Leave(c) == GoTo(c, "ended")

\* An exception passes the handlers: the permit is not completed.
LeaveWithPermit(c) == LosePermit(c) /\ Leave(c)

OutputStarted(c) == showing[c] # {}
HasNext(c) == call[c].at < Len(Chain)

InvokeModel(c) ==
    /\ call[c].pc = "idle" /\ GoTo(c, "choosing")
    /\ UNCHANGED <<breakerVars, budgetVars, row, showing, active, leased>>

\* The head of the loop: an inactive run stops, an open breaker is skipped.
ChooseCandidate(c) ==
    /\ call[c].pc = "choosing"
    /\ LET k == Chain[call[c].at] IN
         \/ /\ ~active
            /\ Leave(c) /\ UNCHANGED breakerVars
         \/ /\ active
            /\ AcquirePermit(c, k) /\ GoTo(c, "permitted")
         \/ /\ active
            /\ RefusePermit(c, k)
            /\ IF HasNext(c) THEN call' = [call EXCEPT ![c].at = @ + 1, ![c].retry = 0]
                             ELSE Leave(c)
    /\ UNCHANGED <<budgetVars, row, showing, active, leased>>

\* The checks of an agent loop's request and the reservation.  A request that
\* no longer fits gives the permit back; an error of the repository, or a
\* delegation that is not in the ledger, leaves with it.
ReserveForAttempt(c) ==
    /\ call[c].pc = "permitted"
    /\ \/ ReserveBudget(c) /\ GoTo(c, "reserved") /\ UNCHANGED breakerVars
       \/ CompletePermit(c, "abandon") /\ Leave(c) /\ UNCHANGED budgetVars
       \/ /\ c \in Durable \/ (c \in Delegated /\ ~allocated)
          /\ LeaveWithPermit(c) /\ UNCHANGED budgetVars
    /\ UNCHANGED <<row, showing, active, leased>>

\* _start_durable_model_attempt: nothing reaches the provider without a fenced
\* STARTED row.  Whatever fails before gives everything back.
StartAttempt(c) ==
    /\ call[c].pc = "reserved"
    /\ \/ /\ active
          /\ c \in Durable => leased
          /\ row' = [row EXCEPT ![c] = IF c \in Durable THEN "STARTED" ELSE "none"]
          /\ call' = [call EXCEPT ![c].pc = "calling", ![c].attempt = @ + 1]
          /\ UNCHANGED <<breakerVars, budgetVars>>
       \/ /\ ~active \/ c \in Durable
          /\ ReleaseBudget(c) /\ CompletePermit(c, "abandon") /\ Leave(c)
          /\ UNCHANGED row
    /\ UNCHANGED <<showing, active, leased>>

\* finish_model_attempt refuses a run without lease.
CanFinish(c) == c \notin Durable \/ leased

FinishRow(c, s) == row' = [row EXCEPT ![c] = IF c \in Durable THEN s ELSE @]

\* The event or the memory guard refuses after STARTED: the row becomes
\* unknown and the estimate is charged.
StartRefused(c) ==
    /\ call[c].pc = "calling" /\ call[c].attempt \notin showing[c]
    /\ \/ /\ ~CanFinish(c)
          /\ LeaveWithPermit(c) /\ UNCHANGED <<row, budgetVars>>
       \/ /\ CanFinish(c) /\ FinishRow(c, "UNKNOWN")
          /\ \/ c \in Durable /\ CommitBudget(c, reserved[c]) /\ CompletePermit(c, "abandon") /\ Leave(c)
             \/ c \in Durable /\ ~CanCommit(c, reserved[c]) /\ LeaveWithPermit(c) /\ UNCHANGED budgetVars
             \/ c \notin Durable /\ ReleaseBudget(c) /\ CompletePermit(c, "abandon") /\ Leave(c)
    /\ UNCHANGED <<showing, active, leased>>

\* The worker thread is interrupted: everything is given back, the row stays STARTED.
CallAborted(c) ==
    /\ call[c].pc = "calling"
    /\ ReleaseBudget(c) /\ CompletePermit(c, "abandon") /\ Leave(c)
    /\ UNCHANGED <<row, showing, active, leased>>

-----------------------------------------------------------------------------
\* accept_delta: the client sees output of this attempt.
Delta(c) ==
    /\ call[c].pc = "calling" /\ active
    /\ showing' = [showing EXCEPT ![c] = @ \cup {call[c].attempt}]
    /\ UNCHANGED <<breakerVars, budgetVars, call, row, active, leased>>

ProviderAnswers(c) ==
    /\ call[c].pc = "calling" /\ GoTo(c, "answered")
    /\ UNCHANGED <<breakerVars, budgetVars, row, showing, active, leased>>

\* A failure with what _circuit_health_outcome makes of it; "abandon" is a
\* call that did not start.
Outcomes(c) ==
    IF ~active THEN {"indeterminate"}
    ELSE {"failure", "success", "indeterminate"}
           \cup (IF call[c].attempt \in showing[c] THEN {} ELSE {"abandon"})

ProviderFails(c) ==
    /\ call[c].pc = "calling"
    /\ \E f \in Outcomes(c) : call' = [call EXCEPT ![c].pc = "failed", ![c].failure = f]
    /\ UNCHANGED <<breakerVars, budgetVars, row, showing, active, leased>>

-----------------------------------------------------------------------------
\* MUTANT: the attempt may be made again although output was shown.
RetryAfterOutput(c) == call[c].failure # "indeterminate" /\ call[c].retry + 1 < MaxAttempts

\* RetryExecutor.decide: what must hold for the same candidate to be tried again.
MayRetry(c) ==
    /\ call[c].failure # "indeterminate" /\ ~OutputStarted(c)
    /\ call[c].retry + 1 < MaxAttempts

\* can_fallback
MayFallBack(c) ==
    call[c].failure # "indeterminate" /\ ~OutputStarted(c) /\ HasNext(c)

\* After the books are closed: the same candidate again, the next one, or the
\* end, which the time left and the failure's category may also impose.
NextCandidate(c) ==
    \/ MayRetry(c) /\ call' = [call EXCEPT ![c].pc = "choosing", ![c].retry = @ + 1]
    \/ MayFallBack(c) /\ call' = [call EXCEPT ![c].pc = "choosing", ![c].at = @ + 1, ![c].retry = 0]
    \/ Leave(c)

\* Ending the admission of a planning call is fenced too, and comes first.
AdmissionRaises(c) == c \notin Durable /\ ~leased

\* The handler of a failed attempt, in the code's order: budget, durable row,
\* permit, retry.  An error of the first two leaves with the permit.
HandleFailure(c) ==
    /\ call[c].pc = "failed"
    /\ LET charged == call[c].failure # "abandon" \/ c \in Durable
           settles == IF charged THEN CommitBudget(c, reserved[c]) ELSE ReleaseBudget(c)
       IN  \/ /\ AdmissionRaises(c) \/ (charged /\ ~CanCommit(c, reserved[c]))
              /\ LeaveWithPermit(c) /\ UNCHANGED <<row, budgetVars>>
           \/ /\ settles /\ ~CanFinish(c)
              /\ LeaveWithPermit(c) /\ UNCHANGED row
           \/ /\ settles /\ CanFinish(c) /\ FinishRow(c, "UNKNOWN")
              /\ CompletePermit(c, call[c].failure)
              /\ NextCandidate(c)
    /\ UNCHANGED <<showing, active, leased>>

\* The handler of an answer: the durable result, then the usage, then the
\* permit.  A usage the run cannot pay is settled at the estimate.
HandleAnswer(c) ==
    /\ call[c].pc = "answered"
    /\ \/ /\ AdmissionRaises(c)
          /\ LeaveWithPermit(c) /\ UNCHANGED <<row, budgetVars>>
       \/ /\ ~CanFinish(c) /\ CommitBudget(c, reserved[c])
          /\ CompletePermit(c, "indeterminate") /\ Leave(c)
          /\ UNCHANGED row
       \/ /\ ~CanFinish(c) /\ ~CanCommit(c, reserved[c])
          /\ LeaveWithPermit(c) /\ UNCHANGED <<row, budgetVars>>
       \/ /\ CanFinish(c) /\ FinishRow(c, "COMPLETED")
          /\ \E used \in Usages :
               \/ /\ ~Overdraws(c, used) /\ CommitBudget(c, used)
                  /\ CompletePermit(c, "success") /\ Leave(c)
               \/ /\ Overdraws(c, used) /\ CommitBudget(c, used)
                  /\ LeaveWithPermit(c)
               \/ /\ ~CanCommit(c, used) /\ CommitBudget(c, reserved[c])
                  /\ CompletePermit(c, "success") /\ Leave(c)
               \/ /\ ~CanCommit(c, used) /\ ~CanCommit(c, reserved[c])
                  /\ LeaveWithPermit(c) /\ UNCHANGED budgetVars
    /\ UNCHANGED <<showing, active, leased>>

-----------------------------------------------------------------------------
\* The run is cancelled or out of time; another process takes the run over.
RunStops ==
    /\ active /\ active' = FALSE
    /\ UNCHANGED <<breakerVars, budgetVars, call, row, showing, leased>>

LeaseLost ==
    /\ leased /\ leased' = FALSE
    /\ UNCHANGED <<breakerVars, budgetVars, call, row, showing, active>>

CallerStep(c) ==
    \/ InvokeModel(c) \/ ChooseCandidate(c) \/ ReserveForAttempt(c) \/ StartAttempt(c) \/ StartRefused(c)
    \/ Delta(c) \/ ProviderAnswers(c) \/ ProviderFails(c)
    \/ CallAborted(c)
    \/ HandleFailure(c) \/ HandleAnswer(c)

ModelNext ==
    \/ \E c \in Callers : CallerStep(c)
    \/ RunStops \/ LeaseLost
    \/ \E k \in Keys : CoolDown(k) /\ UNCHANGED <<budgetVars, invocationVars>>
    \/ (AllocateDelegation \/ ReleaseDelegation) /\ UNCHANGED <<breakerVars, invocationVars>>

ModelSpec == ModelInit /\ [][ModelNext]_modelVars

-----------------------------------------------------------------------------
\* The client sees output of one attempt at most: after the first delta there
\* is neither a retry nor a fallback (decide, can_fallback, accept_delta).
OneAnswerShown == \A c \in Callers : Cardinality(showing[c]) <= 1

\* A probe of a half-open breaker comes back when its caller is gone, or no
\* call of that model is admitted again.
ProbeIsReturned == \A k \in Keys : lost[k] = 0

=============================================================================
