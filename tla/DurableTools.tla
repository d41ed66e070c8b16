---------------------------- MODULE DurableTools ----------------------------
(***************************************************************************)
(* The durable side of tool execution in one run: the ledger of tool       *)
(* invocations (core/runtime/tool_idempotency.py), approvals and execution *)
(* claims (core/runtime/durable_approval.py), the attempt that crosses the *)
(* provider boundary (core/runtime/tool_execution.py), the reconciliation  *)
(* lane and the operator's resolution (server.py).                         *)
(*                                                                         *)
(* Every service method is one transaction behind lock_run_scope.  Between *)
(* two of them a lane may be slow, lose its lease, or die; the provider    *)
(* acts when it likes, even for a caller that is gone.                     *)
(***************************************************************************)
EXTENDS RunControl, FiniteSets

CONSTANTS
    Invs,          \* tool invocations of the run
    Gated,         \* those that need an approval
    Kinds,         \* "supported": its adapter can look an operation up;
                   \* "unsupported": it cannot; "unregistered": there is none
    Executors,     \* lanes that execute the run
    Reconcilers,   \* lanes of reconcile_tool_candidate
    Operators,     \* lanes of _handle_manual_tool_resolution
    Punctual,      \* lanes that finish before their lease runs out
    MaxReconcile,  \* max_attempts of a supported lookup
    Mortals,       \* bound: processes that may die
    NoInv

ASSUME ToolsAssumption ==
    /\ Gated \subseteq Invs
    /\ Kinds \subseteq {"supported", "unsupported", "unregistered"}
    /\ Lanes = Executors \cup Reconcilers \cup Operators
    /\ Executors \cap Reconcilers = {} /\ Executors \cap Operators = {}
    /\ Reconcilers \cap Operators = {}
    /\ Punctual \subseteq Lanes
    /\ MaxReconcile \in Nat \ {0} /\ Mortals \subseteq Owners
    /\ NoInv \notin Invs

VARIABLES
    kind,       \* what the lookup can do for each invocation; never changes
    alive,      \* processes (owner ids); an instance id is never used again
    inv,        \* rows of runtime_tool_invocations
    approval,   \* state of the approval of each invocation
    claims,     \* execution claims made for each invocation
    pc,         \* where each lane stands
    work,       \* the invocation a lane is about
    reply,      \* what a lane has heard from the provider
    flying,     \* calls nobody waits for that may still take effect
    effects     \* side effects that happened

toolVars == <<kind, alive, inv, approval, claims, pc, work, reply, flying, effects>>
vars == <<control, held, kind, alive, inv, approval, claims, pc, work, reply, flying, effects>>

States == {"none", "PREPARED", "STARTED", "COMMITTED", "UNKNOWN", "NOT_COMMITTED"}
Settled == {"COMMITTED", "NOT_COMMITTED"}
ApprovalStates == {"none", "PENDING", "APPROVED", "REJECTED", "INVALIDATED"}

Init ==
    /\ ControlInit
    /\ kind \in [Invs -> Kinds]
    /\ alive = Owners
    /\ inv = [i \in Invs |-> [state |-> "none", owner |-> NoOwner, token |-> 0,
                              attempts |-> 0, manual |-> FALSE, due |-> TRUE,
                              claim |-> "none", by |-> "none"]]
    /\ approval = [i \in Invs |-> "none"]
    /\ claims = [i \in Invs |-> 0]
    /\ pc = [l \in Lanes |-> "idle"]
    /\ work = [l \in Lanes |-> NoInv]
    /\ reply = [l \in Lanes |-> "none"]
    /\ flying = [i \in Invs |-> 0]
    /\ effects = [i \in Invs |-> 0]

Supported == {i \in Invs : kind[i] = "supported"}
Registered == {i \in Invs : kind[i] # "unregistered"}

Alive(l) == OwnerOf[l] \in alive
At(l, p) == Alive(l) /\ pc[l] = p
Goto(l, p) == pc' = [pc EXCEPT ![l] = p]

\* _assert_owner
Owns(l, i) == inv[i].owner = OwnerOf[l] /\ inv[i].token = held[l]

Owned(l, row) == [row EXCEPT !.owner = OwnerOf[l], !.token = held[l]]

-----------------------------------------------------------------------------
(* Executor: the claim of the run, and the end of the run.                 *)

ExecutorClaims(l) ==
    /\ At(l, "idle") /\ Claim(l)
    /\ Goto(l, "leased")
    /\ UNCHANGED <<kind, alive, inv, approval, claims, work, reply, flying, effects>>

ExecutorRenews(l) ==
    /\ Alive(l) /\ pc[l] \notin {"idle", "done"}
    /\ Renew(l)
    /\ UNCHANGED toolVars

\* Every way out of execute: settle, invalidate what is pending, finalise, close.
\* invalidate_run takes the run scope but not the lease.
InvalidateRun(l) ==
    /\ At(l, "leased")
    /\ approval' = [i \in Invs |-> IF approval[i] = "PENDING" THEN "INVALIDATED" ELSE approval[i]]
    /\ Goto(l, "closing")
    /\ UNCHANGED <<controlVars, kind, alive, inv, claims, work, reply, flying, effects>>

\* finalize_terminal needs the current lease; when it or the journal fails,
\* the scope still releases its lease.  A scope is not used again.
FinalizeTerminal(l) ==
    /\ At(l, "closing")
    /\ \/ Current(l) /\ CloseTerminal /\ held' = [held EXCEPT ![l] = 0]
       \/ Release(l)
    /\ Goto(l, "done")
    /\ UNCHANGED <<kind, alive, inv, approval, claims, work, reply, flying, effects>>

\* A Stage 8 call, or the continuation of a ticket, gives the run back open: the
\* approvals stay as they are, and another lane may claim the run later.
LeaveOpen(l) ==
    /\ At(l, "leaving") \/ At(l, "leased")
    /\ Release(l)
    /\ Goto(l, "done")
    /\ UNCHANGED <<kind, alive, inv, approval, claims, work, reply, flying, effects>>

\* The renewal or a fenced write failed: the scope is cancelled with
\* OWNERSHIP_LOST and ends on the same path, where nothing fenced succeeds.
OwnershipLost(l) ==
    /\ Alive(l) /\ ~Current(l)
    /\ pc[l] \in {"waiting", "claimed", "prepared", "started"}
    /\ Goto(l, "leased")
    /\ work' = [work EXCEPT ![l] = NoInv]
    /\ UNCHANGED <<controlVars, kind, alive, inv, approval, claims, reply, flying, effects>>

-----------------------------------------------------------------------------
(* Approval.                                                               *)

\* create returns the existing approval of the invocation.
RequestApproval(l, i) ==
    /\ At(l, "leased") /\ i \in Gated
    /\ approval' = [approval EXCEPT ![i] = IF @ = "none" THEN "PENDING" ELSE @]
    /\ work' = [work EXCEPT ![l] = i]
    /\ Goto(l, "waiting")
    /\ UNCHANGED <<controlVars, kind, alive, inv, claims, reply, flying, effects>>

\* MUTANT: the tool call goes on with the row it prepared ahead.
PrepareAheadGoesOn(l) ==
    /\ At(l, "waiting")
    /\ inv' = IF Current(l) /\ inv[work[l]].state \in {"none", "PREPARED"} /\ inv[work[l]].claim = "none"
                THEN [inv EXCEPT ![work[l]] = Owned(l, [@ EXCEPT !.state = "PREPARED"])]
                ELSE inv
    /\ Goto(l, "prepared")
    /\ UNCHANGED <<controlVars, kind, alive, approval, claims, work, reply, flying, effects>>

\* Stage 8 does not wait for the decision: it prepares the invocation for the
\* continuation, takes over a PREPARED row that no claim is bound to, and gives
\* up on any other (_assert_identity).  Nothing is executed.
PrepareAhead(l) ==
    /\ At(l, "waiting")
    /\ inv' = IF Current(l) /\ inv[work[l]].state \in {"none", "PREPARED"} /\ inv[work[l]].claim = "none"
                THEN [inv EXCEPT ![work[l]] = Owned(l, [@ EXCEPT !.state = "PREPARED"])]
                ELSE inv
    /\ Goto(l, "leaving")
    /\ work' = [work EXCEPT ![l] = NoInv]
    /\ UNCHANGED <<controlVars, kind, alive, approval, claims, reply, flying, effects>>

Decide(i, d) ==
    /\ approval[i] = "PENDING"
    /\ approval' = [approval EXCEPT ![i] =
         IF control.state # "ACTIVE" \/ control.cancel THEN "INVALIDATED" ELSE d]
    /\ UNCHANGED <<controlVars, kind, alive, inv, claims, pc, work, reply, flying, effects>>

\* Rejected, invalidated, or the run's cancellation or deadline ends the wait.
WaitEndsWithoutApproval(l) ==
    /\ At(l, "waiting")
    /\ Goto(l, "leased")
    /\ work' = [work EXCEPT ![l] = NoInv]
    /\ UNCHANGED <<controlVars, kind, alive, inv, approval, claims, reply, flying, effects>>

\* claim_execution: one claim for an approval, ever.
ClaimExecution(l) ==
    /\ At(l, "waiting") /\ approval[work[l]] = "APPROVED" /\ Current(l)
    /\ claims[work[l]] = 0
    /\ claims' = [claims EXCEPT ![work[l]] = 1]
    /\ Goto(l, "claimed")
    /\ UNCHANGED <<controlVars, kind, alive, inv, approval, work, reply, flying, effects>>

\* The router gives up on an existing claim; the ticket workflow resumes it
\* when it has read the invocation as PREPARED.
ExistingClaim(l) ==
    /\ At(l, "waiting") /\ approval[work[l]] = "APPROVED" /\ Current(l)
    /\ claims[work[l]] # 0
    /\ \/ Goto(l, "leased") /\ work' = [work EXCEPT ![l] = NoInv]
       \/ /\ inv[work[l]].state = "PREPARED"
          /\ Goto(l, "claimed") /\ UNCHANGED work
    /\ UNCHANGED <<controlVars, kind, alive, inv, approval, claims, reply, flying, effects>>

-----------------------------------------------------------------------------
(* The attempt: prepare, start, provider call, commit or unknown.          *)

\* prepare of a new or of a PREPARED row, which the caller takes over and binds
\* to its execution claim.
Prepare(l, i) ==
    /\ IF i \in Gated THEN At(l, "claimed") /\ work[l] = i ELSE At(l, "leased")
    /\ Current(l)
    /\ inv[i].state \in {"none", "PREPARED"}
    /\ inv' = [inv EXCEPT ![i] = Owned(l, [@ EXCEPT !.state = "PREPARED",
                                   !.claim = IF i \in Gated THEN "bound" ELSE inv[i].claim])]
    /\ work' = [work EXCEPT ![l] = i]
    /\ Goto(l, "prepared")
    /\ UNCHANGED <<controlVars, kind, alive, approval, claims, reply, flying, effects>>

\* A row past PREPARED is answered from the ledger: the stored result, or an
\* error that forbids another attempt.
AnswerFromLedger(l, i) ==
    /\ IF i \in Gated THEN At(l, "claimed") /\ work[l] = i ELSE At(l, "leased")
    /\ Current(l)
    /\ inv[i].state \in {"STARTED", "COMMITTED", "UNKNOWN", "NOT_COMMITTED"}
    /\ Goto(l, "leased")
    /\ work' = [work EXCEPT ![l] = NoInv]
    /\ UNCHANGED <<controlVars, kind, alive, inv, approval, claims, reply, flying, effects>>

\* start: only the current lease, only its own row, only from PREPARED.
Start(l) ==
    /\ At(l, "prepared")
    /\ IF Current(l) /\ Owns(l, work[l]) /\ inv[work[l]].state = "PREPARED"
         THEN /\ inv' = [inv EXCEPT ![work[l]].state = "STARTED"]
              /\ Goto(l, "started") /\ UNCHANGED work
         ELSE /\ Goto(l, "leased") /\ work' = [work EXCEPT ![l] = NoInv]
              /\ UNCHANGED inv
    /\ UNCHANGED <<controlVars, kind, alive, approval, claims, reply, flying, effects>>

CallProvider(l) ==
    /\ At(l, "started")
    /\ Goto(l, "calling")
    /\ reply' = [reply EXCEPT ![l] = "none"]
    /\ UNCHANGED <<controlVars, kind, alive, inv, approval, claims, work, flying, effects>>

\* The provider performs the operation, or refuses it.
ProviderActs(l) ==
    /\ pc[l] = "calling" /\ reply[l] = "none"
    /\ effects' = [effects EXCEPT ![work[l]] = @ + 1]
    /\ reply' = [reply EXCEPT ![l] = "acted"]
    /\ UNCHANGED <<controlVars, kind, alive, inv, approval, claims, pc, work, flying>>

ProviderRefuses(l) ==
    /\ pc[l] = "calling" /\ reply[l] = "none"
    /\ reply' = [reply EXCEPT ![l] = "refused"]
    /\ UNCHANGED <<controlVars, kind, alive, inv, approval, claims, pc, work, flying, effects>>

\* A call whose caller is gone takes effect, or is lost.
LateCall(i) ==
    /\ flying[i] > 0
    /\ flying' = [flying EXCEPT ![i] = @ - 1]
    /\ \/ effects' = [effects EXCEPT ![i] = @ + 1]
       \/ UNCHANGED effects
    /\ UNCHANGED <<controlVars, kind, alive, inv, approval, claims, pc, work, reply>>

\* MUTANT: any return of the provider counts as its commit.
CommitOnReturn(l) ==
    /\ At(l, "calling") /\ reply[l] # "none"
    /\ Goto(l, "leased")
    /\ work' = [work EXCEPT ![l] = NoInv]
    /\ inv' = IF Current(l) /\ Owns(l, work[l]) /\ inv[work[l]].state = "STARTED"
                THEN [inv EXCEPT ![work[l]].state = "COMMITTED", ![work[l]].by = "executor"]
                ELSE inv
    /\ UNCHANGED <<controlVars, kind, alive, approval, claims, reply, flying, effects>>

\* committed, after an answer that proves the side effect.
Commit(l) ==
    /\ At(l, "calling") /\ reply[l] = "acted"
    /\ Goto(l, "leased")
    /\ work' = [work EXCEPT ![l] = NoInv]
    /\ inv' = IF Current(l) /\ Owns(l, work[l]) /\ inv[work[l]].state = "STARTED"
                THEN [inv EXCEPT ![work[l]].state = "COMMITTED", ![work[l]].by = "executor"]
                ELSE inv
    /\ UNCHANGED <<controlVars, kind, alive, approval, claims, reply, flying, effects>>

\* MUTANT: the failed attempt goes back to PREPARED so that it can be retried.
MarkUnknownRetries(l) ==
    /\ Alive(l) /\ pc[l] \in {"started", "calling"}
    /\ flying' = IF pc[l] = "calling" /\ reply[l] = "none"
                   THEN [flying EXCEPT ![work[l]] = @ + 1] ELSE flying
    /\ inv' = IF Current(l) /\ Owns(l, work[l]) /\ inv[work[l]].state = "STARTED"
                THEN [inv EXCEPT ![work[l]].state = "PREPARED"] ELSE inv
    /\ Goto(l, "leased")
    /\ work' = [work EXCEPT ![l] = NoInv]
    /\ UNCHANGED <<controlVars, kind, alive, approval, claims, reply, effects>>

\* Every other end of a started attempt (refusal, timeout, cancellation,
\* deadline, bad output, lost journal, refused memory context): unknown.  A
\* timeout may leave the call behind.
MarkUnknown(l) ==
    /\ Alive(l) /\ pc[l] \in {"started", "calling"}
    /\ flying' = IF pc[l] = "calling" /\ reply[l] = "none"
                   THEN [flying EXCEPT ![work[l]] = @ + 1] ELSE flying
    /\ inv' = IF Current(l) /\ Owns(l, work[l]) /\ inv[work[l]].state = "STARTED"
                THEN [inv EXCEPT ![work[l]].state = "UNKNOWN"] ELSE inv
    /\ Goto(l, "leased")
    /\ work' = [work EXCEPT ![l] = NoInv]
    /\ UNCHANGED <<controlVars, kind, alive, approval, claims, reply, effects>>

-----------------------------------------------------------------------------
(* Reconciliation lane.                                                    *)

\* reconciliation_candidates: open, due, nobody's, in a run nobody holds.
Candidate(i) ==
    /\ inv[i].state \in {"STARTED", "UNKNOWN"}
    /\ ~inv[i].manual /\ inv[i].due
    /\ control.state = "ACTIVE" /\ ~Live

SelectCandidate(l, i) ==
    /\ At(l, "idle") /\ Candidate(i)
    /\ work' = [work EXCEPT ![l] = i]
    /\ Goto(l, "selected")
    /\ UNCHANGED <<controlVars, kind, alive, inv, approval, claims, reply, flying, effects>>

\* The claim may meet an executor of this process that renewed in between.
ReconcilerClaims(l) ==
    /\ At(l, "selected")
    /\ \/ Claim(l) /\ Goto(l, "reconciling") /\ UNCHANGED work
       \/ /\ ClaimRefused(l)
          /\ Goto(l, "idle") /\ work' = [work EXCEPT ![l] = NoInv]
          /\ UNCHANGED controlVars
    /\ UNCHANGED <<kind, alive, inv, approval, claims, reply, flying, effects>>

\* The lane ends; it never gives its lease back.
LaneEnds(l) ==
    /\ Goto(l, "idle")
    /\ work' = [work EXCEPT ![l] = NoInv]
    /\ held' = [held EXCEPT ![l] = 0]
    /\ UNCHANGED control

\* record_reconciliation_unknown as a function of the row.
StillUnknown(row, max) ==
    [row EXCEPT !.state = "UNKNOWN", !.attempts = @ + 1,
                !.manual = row.attempts + 1 >= max,
                !.due = FALSE]

\* No adapter for the tool: the row is written without being taken over.
UnregisteredTool(l) ==
    /\ At(l, "reconciling") /\ work[l] \notin Registered
    /\ inv' = IF Current(l) /\ Owns(l, work[l]) /\ inv[work[l]].state \in {"STARTED", "UNKNOWN"}
                THEN [inv EXCEPT ![work[l]] = StillUnknown(@, 1)] ELSE inv
    /\ LaneEnds(l)
    /\ UNCHANGED <<kind, alive, approval, claims, reply, flying, effects>>

\* MUTANT: the row keeps its old owner.
TakeOverKeepsOwner(l) ==
    /\ At(l, "reconciling") /\ work[l] \in Registered
    /\ \/ /\ Current(l) /\ inv[work[l]].state \notin Settled
          /\ inv' = [inv EXCEPT ![work[l]].state = "UNKNOWN"]
          /\ Goto(l, IF work[l] \in Supported THEN "lookup" ELSE "unsupported")
          /\ UNCHANGED <<controlVars, work>>
       \/ /\ ~Current(l) \/ inv[work[l]].state \in Settled
          /\ LaneEnds(l) /\ UNCHANGED inv
    /\ UNCHANGED <<kind, alive, approval, claims, reply, flying, effects>>

\* _takeover_for_reconciliation_record
TakeOverRecord(l) ==
    /\ At(l, "reconciling") /\ work[l] \in Registered
    /\ \/ /\ Current(l) /\ inv[work[l]].state \notin Settled
          /\ inv' = [inv EXCEPT ![work[l]] = Owned(l, [@ EXCEPT !.state = "UNKNOWN"])]
          /\ Goto(l, IF work[l] \in Supported THEN "lookup" ELSE "unsupported")
          /\ UNCHANGED <<controlVars, work>>
       \/ /\ ~Current(l) \/ inv[work[l]].state \in Settled
          /\ LaneEnds(l) /\ UNCHANGED inv
    /\ UNCHANGED <<kind, alive, approval, claims, reply, flying, effects>>

\* reconcile_durable of the adapter: it answers from what the provider has
\* done so far, or not at all.
Lookup(l) ==
    /\ At(l, "lookup")
    /\ \E r \in {"COMMITTED", "NOT_COMMITTED", "unclear"} :
         /\ r = "COMMITTED" => effects[work[l]] > 0
         /\ r = "NOT_COMMITTED" => effects[work[l]] = 0
         /\ reply' = [reply EXCEPT ![l] = r]
    /\ Goto(l, "answered")
    /\ UNCHANGED <<controlVars, kind, alive, inv, approval, claims, work, flying, effects>>

RecordUnknown(l) ==
    /\ \/ At(l, "unsupported")
       \/ At(l, "answered") /\ reply[l] = "unclear"
    /\ inv' = IF Current(l) /\ Owns(l, work[l]) /\ inv[work[l]].state \in {"STARTED", "UNKNOWN"}
                THEN [inv EXCEPT ![work[l]] =
                        StillUnknown(@, IF pc[l] = "unsupported" THEN 1 ELSE MaxReconcile)]
                ELSE inv
    /\ LaneEnds(l)
    /\ UNCHANGED <<kind, alive, approval, claims, reply, flying, effects>>

\* MUTANT: the answer is written without asking whose row it is by now.
ConvergeBlindly(l) ==
    /\ At(l, "answered") /\ reply[l] \in Settled
    /\ inv' = [inv EXCEPT ![work[l]].state = reply[l], ![work[l]].by = "provider"]
    /\ LaneEnds(l)
    /\ UNCHANGED <<kind, alive, approval, claims, reply, flying, effects>>

\* The second transaction of reconcile_durable_record.
Converge(l) ==
    /\ At(l, "answered") /\ reply[l] \in Settled
    /\ inv' = IF Current(l) /\ Owns(l, work[l]) /\ inv[work[l]].state = "UNKNOWN"
                THEN [inv EXCEPT ![work[l]].state = reply[l], ![work[l]].by = "provider",
                                 ![work[l]].manual = FALSE]
                ELSE inv
    /\ LaneEnds(l)
    /\ UNCHANGED <<kind, alive, approval, claims, reply, flying, effects>>

\* next_reconcile_at passes.
BackoffElapses(i) ==
    /\ ~inv[i].due /\ ~inv[i].manual
    /\ inv' = [inv EXCEPT ![i].due = TRUE]
    /\ UNCHANGED <<controlVars, kind, alive, approval, claims, pc, work, reply, flying, effects>>

-----------------------------------------------------------------------------
(* Operator.                                                               *)

\* The state is read before the run is claimed.
OperatorReads(l, i) ==
    /\ At(l, "idle") /\ inv[i].state = "UNKNOWN"
    /\ work' = [work EXCEPT ![l] = i]
    /\ Goto(l, "selected")
    /\ UNCHANGED <<controlVars, kind, alive, inv, approval, claims, reply, flying, effects>>

OperatorClaims(l) ==
    /\ At(l, "selected")
    /\ \/ Claim(l) /\ Goto(l, "resolving") /\ UNCHANGED work
       \/ /\ ClaimRefused(l)
          /\ Goto(l, "idle") /\ work' = [work EXCEPT ![l] = NoInv]
          /\ UNCHANGED controlVars
    /\ UNCHANGED <<kind, alive, inv, approval, claims, reply, flying, effects>>

\* MUTANT: the operator's word replaces any state.
ResolveAnything(l, s) ==
    /\ At(l, "resolving")
    /\ inv' = IF Current(l)
                THEN [inv EXCEPT ![work[l]] =
                        Owned(l, [@ EXCEPT !.state = s, !.by = "operator", !.manual = FALSE])]
                ELSE inv
    /\ LaneEnds(l)
    /\ UNCHANGED <<kind, alive, approval, claims, reply, flying, effects>>

\* _resolve_unknown
Resolve(l, s) ==
    /\ At(l, "resolving")
    /\ inv' = IF Current(l) /\ inv[work[l]].state = "UNKNOWN"
                THEN [inv EXCEPT ![work[l]] =
                        Owned(l, [@ EXCEPT !.state = s, !.by = "operator", !.manual = FALSE])]
                ELSE inv
    /\ LaneEnds(l)
    /\ UNCHANGED <<kind, alive, approval, claims, reply, flying, effects>>

-----------------------------------------------------------------------------
(* Environment: a process dies, the user cancels, time passes.             *)

Dies(o) ==
    /\ o \in alive \cap Mortals
    /\ alive' = alive \ {o}
    /\ flying' = [i \in Invs |-> flying[i] +
         Cardinality({l \in Executors : /\ OwnerOf[l] = o /\ pc[l] = "calling"
                                        /\ reply[l] = "none" /\ work[l] = i})]
    /\ pc' = [l \in Lanes |-> IF OwnerOf[l] = o THEN "idle" ELSE pc[l]]
    /\ work' = [l \in Lanes |-> IF OwnerOf[l] = o THEN NoInv ELSE work[l]]
    /\ held' = [l \in Lanes |-> IF OwnerOf[l] = o THEN 0 ELSE held[l]]
    /\ UNCHANGED <<control, kind, inv, approval, claims, reply, effects>>

UserCancels == RequestCancel /\ UNCHANGED toolVars

Tick ==
    /\ \A l \in Punctual : pc[l] = "idle" \/ ~Current(l)
    /\ LeaseRunsDown
    /\ UNCHANGED toolVars

-----------------------------------------------------------------------------
ExecutorStep(l) ==
    \/ ExecutorClaims(l) \/ InvalidateRun(l) \/ FinalizeTerminal(l) \/ OwnershipLost(l)
    \/ LeaveOpen(l) \/ PrepareAhead(l)
    \/ \E i \in Invs : RequestApproval(l, i) \/ Prepare(l, i) \/ AnswerFromLedger(l, i)
    \/ WaitEndsWithoutApproval(l) \/ ClaimExecution(l) \/ ExistingClaim(l)
    \/ Start(l) \/ CallProvider(l) \/ Commit(l) \/ MarkUnknown(l)

ReconcilerStep(l) ==
    \/ \E i \in Invs : SelectCandidate(l, i)
    \/ ReconcilerClaims(l) \/ UnregisteredTool(l) \/ TakeOverRecord(l)
    \/ Lookup(l) \/ RecordUnknown(l) \/ Converge(l)

OperatorStep(l) ==
    \/ \E i \in Invs : OperatorReads(l, i)
    \/ OperatorClaims(l)
    \/ \E s \in Settled : Resolve(l, s)

ProviderStep(l) == ProviderActs(l) \/ ProviderRefuses(l)

Next ==
    \/ \E l \in Executors : ExecutorStep(l) \/ ExecutorRenews(l) \/ ProviderStep(l)
    \/ \E l \in Reconcilers : ReconcilerStep(l)
    \/ \E l \in Operators : OperatorStep(l)
    \/ \E i \in Invs : LateCall(i) \/ BackoffElapses(i)
                       \/ \E d \in {"APPROVED", "REJECTED"} : Decide(i, d)
    \/ \E o \in Owners : Dies(o)
    \/ UserCancels \/ Tick

Spec == Init /\ [][Next]_vars

\* Lanes of live processes take their steps, an execution ends (its deadline is
\* absolute) and closes the run or gives it back, the provider does not matter, leases and backoffs elapse.
Fairness ==
    /\ \A l \in Executors : WF_vars(ExecutorStep(l)) /\ SF_vars(InvalidateRun(l) \/ LeaveOpen(l))
    /\ \A l \in Reconcilers : WF_vars(ReconcilerStep(l))
    /\ \A i \in Invs : WF_vars(BackoffElapses(i))
    /\ WF_vars(Tick)

-----------------------------------------------------------------------------
InvRow ==
    [state : States, owner : Owners \cup {NoOwner}, token : 0..MaxToken,
     attempts : Nat, manual : BOOLEAN, due : BOOLEAN, claim : {"none", "bound"},
     by : {"none", "executor", "provider", "operator"}]

PcValues ==
    {"idle", "leased", "waiting", "claimed", "prepared", "started", "calling",
     "closing", "leaving", "done", "selected", "reconciling", "lookup", "answered",
     "unsupported", "resolving"}

\* Types of the ledger, and of every lane's position.
ToolsTypeOK ==
    /\ ControlTypeOK
    /\ kind \in [Invs -> Kinds] /\ alive \subseteq Owners
    /\ inv \in [Invs -> InvRow]
    /\ approval \in [Invs -> ApprovalStates]
    /\ claims \in [Invs -> 0..1]
    /\ pc \in [Lanes -> PcValues]
    /\ work \in [Lanes -> Invs \cup {NoInv}]
    /\ reply \in [Lanes -> {"none", "acted", "refused", "unclear"} \cup Settled]
    /\ flying \in [Invs -> Nat] /\ effects \in [Invs -> Nat]

\* Calls that wait for the provider.
Waiting(i) == {l \in Executors : pc[l] = "calling" /\ reply[l] = "none" /\ work[l] = i}

\* The side effect of an invocation happens at most once and is asked for at
\* most once, whoever takes the run over and whatever the attempt ended in
\* (tool_idempotency.py start, tool_execution.py mark_durable_unknown).
EffectAtMostOnce ==
    \A i \in Invs : effects[i] + flying[i] + Cardinality(Waiting(i)) <= 1

\* COMMITTED, unless an operator said so, is the truth about the provider.
CommittedHappened ==
    \A i \in Invs : inv[i].state = "COMMITTED" /\ inv[i].by # "operator" => effects[i] > 0

\* A gated invocation is in the ledger only once its approval was asked for, and
\* leaves PREPARED, so that its tool may run, only approved, claimed once and
\* bound to that claim: what Stage 8 prepared ahead of a decision and was then
\* rejected or invalidated never runs.
ApprovedAndClaimedOnce ==
    \A i \in Gated :
      /\ claims[i] <= 1
      /\ inv[i].state # "none" => approval[i] # "none"
      /\ inv[i].state \notin {"none", "PREPARED"}
           => approval[i] = "APPROVED" /\ claims[i] = 1 /\ inv[i].claim = "bound"

\* Every change of a ledger row is made under the run's present token while
\* its lease lives, and leaves the row with that token: what an executor,
\* a reconciler or an operator that lost the run still writes is refused.
LedgerIsFenced ==
    [][\A i \in Invs : [inv'[i] EXCEPT !.due = inv[i].due] # inv[i]
          => /\ control.state = "ACTIVE" /\ Live
             /\ inv'[i].token = control.token /\ inv'[i].owner = control.owner]_vars

\* Once settled, an outcome is never replaced by another one: not by a late
\* executor, a slow lookup or an operator who read UNKNOWN before.
SettledIsFinal ==
    [][\A i \in Invs : inv[i].state \in Settled => inv'[i].state = inv[i].state]_vars

\* A started invocation of a registered tool is settled, or handed to an
\* operator, or its run is over.
OpenIsSettled ==
    \A i \in Invs : inv[i].state \in {"STARTED", "UNKNOWN"} /\ i \in Registered
                    ~> \/ inv[i].state \in Settled \/ inv[i].manual
                       \/ control.state = "CLOSED"

=============================================================================
