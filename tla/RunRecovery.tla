---------------------------- MODULE RunRecovery -----------------------------
(***************************************************************************)
(* Recovery of one run with a fixed plan: the scan and the takeover        *)
(* (core/runtime/recovery_coordinator.py), the classification of abandoned *)
(* work and the fenced step rows (core/persistence/repositories/           *)
(* execution.py), the rehydrated scope (core/runtime/runtime_factory.py)   *)
(* and the steps it drives again.                                          *)
(*                                                                         *)
(* A step calls at most one tool in a drive, always with the same          *)
(* arguments.  The n-th drive makes invocation n of the step, unless the   *)
(* scope was rehydrated with an existing invocation attached.              *)
(***************************************************************************)
EXTENDS RunControl, FiniteSets

CONSTANTS
    Creators,        \* lanes of _create_run_scope for a new request
    Scanners,        \* lanes of the RecoveryCoordinators
    PlanSteps,       \* steps of the plan
    ApprovalSteps,   \* those whose tool needs an approval
    MaxRecoveries,   \* config.max_attempts
    MaxDrives,       \* bound: attempts of a step
    MaxUnknown,      \* bound: unknown model attempts of a step
    NoIdent

\* A process has one RecoveryCoordinator, and its scans follow each other.
ASSUME RecoveryAssumption ==
    /\ Lanes = Creators \cup Scanners /\ Creators \cap Scanners = {}
    /\ \A a, b \in Scanners : OwnerOf[a] = OwnerOf[b] => a = b
    /\ NoIdent \notin PlanSteps \X (1..MaxDrives)
    /\ ApprovalSteps \subseteq PlanSteps
    /\ MaxRecoveries \in Nat \ {0} /\ MaxDrives \in Nat \ {0} /\ MaxUnknown \in Nat

Drives == 1..MaxDrives
Idents == PlanSteps \X Drives

VARIABLES
    root,        \* the row of runtime_run_executions
    rows,        \* runtime_step_executions
    models,      \* model attempts of a step: one open, and how many unknown
    tools,       \* state of every tool invocation, by identity
    asked,       \* state of its approval
    acted,       \* identities whose side effect happened
    lane,        \* where each lane stands
    todo,        \* steps a lane's scope holds as PENDING
    drive,       \* what a lane does with a step
    attached,    \* RunContext.durable_tool_invocation
    abandoned    \* model attempts of a step found open at a takeover

storeVars == <<root, rows, models, tools, asked>>
recoveryVars == <<control, held, root, rows, models, tools, asked, acted, lane, todo,
                  drive, attached, abandoned>>

NoDrive == [pc |-> "none", attempt |-> 0, ident |-> NoIdent]

RecoveryInit ==
    /\ ControlInit
    /\ root = [status |-> "none", failures |-> 0, manual |-> FALSE, due |-> TRUE]
    /\ rows = [s \in PlanSteps |-> [status |-> "PENDING", attempt |-> 0]]
    /\ models = [s \in PlanSteps |-> [open |-> FALSE, unknown |-> 0]]
    /\ tools = [i \in Idents |-> "none"]
    /\ asked = [i \in Idents |-> "none"]
    /\ acted = {}
    /\ lane = [l \in Lanes |-> "idle"]
    /\ todo = [l \in Lanes |-> {}]
    /\ drive = [l \in Lanes |-> [s \in PlanSteps |-> NoDrive]]
    /\ attached = [l \in Lanes |-> NoIdent]
    /\ abandoned = [s \in PlanSteps |-> 0]

Unresolved(i) == tools[i] \in {"STARTED", "UNKNOWN"}
IdentsOf(s) == {s} \X Drives
MoveLane(l, p) == lane' = [lane EXCEPT ![l] = p]
MoveDrive(l, s, p) == drive' = [drive EXCEPT ![l][s].pc = p]

-----------------------------------------------------------------------------
(* Creation, scan and takeover *)

\* claim, then initialize under the lease.
CreateRun(l) ==
    /\ l \in Creators /\ lane[l] = "idle" /\ root.status = "none"
    /\ ClaimTakesOver(l)
    /\ root' = [root EXCEPT !.status = "ACTIVE"]
    /\ todo' = [todo EXCEPT ![l] = PlanSteps]
    /\ MoveLane(l, "running")
    /\ UNCHANGED <<rows, models, tools, asked, acted, drive, attached, abandoned>>

\* stale_run_ids
SelectStale(l) ==
    /\ l \in Scanners /\ lane[l] = "idle"
    /\ root.status = "ACTIVE" /\ ~root.manual /\ root.due
    /\ control.state = "ACTIVE" /\ ~Live
    /\ MoveLane(l, "selected")
    /\ UNCHANGED <<controlVars, storeVars, acted, todo, drive, attached, abandoned>>

ClaimStale(l) ==
    /\ lane[l] = "selected"
    /\ \/ Claim(l) /\ MoveLane(l, "claimed")
       \/ ClaimRefused(l) /\ MoveLane(l, "idle") /\ UNCHANGED controlVars
    /\ UNCHANGED <<storeVars, acted, todo, drive, attached, abandoned>>

\* MUTANT: the tools of the step are not looked at.
ClassifiedWithoutTools(s) ==
    IF rows[s].status # "RUNNING" THEN rows[s].status
    ELSE IF models[s].unknown + (IF models[s].open THEN 1 ELSE 0) >= 2 THEN "BLOCKED" ELSE "PENDING"

\* What becomes of a RUNNING step: blocked when a tool outcome is unresolved or
\* two model attempts are, kept when it waits for an approval, else pending.
Classified(s) ==
    LET unknown == models[s].unknown + IF models[s].open THEN 1 ELSE 0 IN
    CASE rows[s].status # "RUNNING" -> rows[s].status
      [] rows[s].status = "RUNNING" /\ ((\E i \in IdentsOf(s) : Unresolved(i)) \/ unknown >= 2) -> "BLOCKED"
      [] rows[s].status = "RUNNING" /\ (\A i \in IdentsOf(s) : ~Unresolved(i)) /\ unknown < 2
           /\ (\E i \in IdentsOf(s) : asked[i] = "PENDING") -> "RUNNING"
      [] OTHER -> "PENDING"

\* What create_rehydrated_run_scope may attach: a ledger row of a RUNNING step,
\* in the order of its uuid, or else an approval of one.
Attachable(st) ==
    LET mine == {i \in Idents : st[i[1]] = "RUNNING"}
        ledger == {i \in mine : tools[i] # "none"}
        approvals == {i \in mine : asked[i] # "none"}
    IN  IF ledger # {} THEN ledger ELSE IF approvals # {} THEN approvals ELSE {NoIdent}

\* prepare_recovery, one fenced transaction, and the image it returns.
PrepareRecovery(l) ==
    /\ lane[l] = "claimed" /\ Current(l)
    /\ LET st == [s \in PlanSteps |-> Classified(s)] IN
         /\ rows' = [s \in PlanSteps |-> [rows[s] EXCEPT !.status = st[s]]]
         /\ todo' = [todo EXCEPT ![l] = {s \in PlanSteps : st[s] \in {"PENDING", "RUNNING"}}]
         /\ \E i \in Attachable(st) : attached' = [attached EXCEPT ![l] = i]
    /\ models' = [s \in PlanSteps |-> [open |-> FALSE,
                    unknown |-> models[s].unknown + IF models[s].open THEN 1 ELSE 0]]
    /\ abandoned' = [s \in PlanSteps |-> abandoned[s] + IF models[s].open THEN 1 ELSE 0]
    /\ MoveLane(l, "hydrating")
    /\ UNCHANGED <<controlVars, root, tools, asked, acted, drive>>

\* The scope is built; what changed since the run was created may forbid it.
Rehydrate(l) ==
    /\ lane[l] = "hydrating" /\ MoveLane(l, "running")
    /\ UNCHANGED <<controlVars, storeVars, acted, todo, drive, attached, abandoned>>

\* record_recovery_failure, which no fence protects; the lease is not given back.
RecoveryFails(l) ==
    /\ lane[l] \in {"claimed", "hydrating"}
    /\ root' = [root EXCEPT !.failures = IF @ < MaxRecoveries THEN @ + 1 ELSE @,
                            !.manual = root.failures + 1 >= MaxRecoveries, !.due = FALSE]
    /\ MoveLane(l, "idle")
    /\ held' = [held EXCEPT ![l] = 0]
    /\ todo' = [todo EXCEPT ![l] = {}] /\ attached' = [attached EXCEPT ![l] = NoIdent]
    /\ UNCHANGED <<control, rows, models, tools, asked, acted, drive, abandoned>>

\* next_recovery_at passes.
RecoveryBackoff ==
    /\ ~root.due /\ ~root.manual /\ root' = [root EXCEPT !.due = TRUE]
    /\ UNCHANGED <<controlVars, rows, models, tools, asked, acted, lane, todo, drive,
                   attached, abandoned>>

-----------------------------------------------------------------------------
(* A scope drives its steps *)

Driving(l, s, p) == lane[l] = "running" /\ drive[l][s].pc = p

\* start_step: a pending row gets a new attempt, a running one is replayed.
\* Anything else fails the step, in memory only.
StartRow(l, s) ==
    /\ lane[l] = "running" /\ s \in todo[l]
    /\ todo' = [todo EXCEPT ![l] = @ \ {s}]
    /\ \/ /\ Current(l) /\ rows[s].status \in {"PENDING", "RUNNING"}
          /\ LET n == rows[s].attempt + IF rows[s].status = "PENDING" THEN 1 ELSE 0 IN
               /\ n <= MaxDrives
               /\ rows' = [rows EXCEPT ![s] = [status |-> "RUNNING", attempt |-> n]]
               /\ drive' = [drive EXCEPT ![l][s] =
                    [pc |-> "driving", attempt |-> n,
                     ident |-> IF attached[l] = NoIdent THEN <<s, n>> ELSE attached[l]]]
       \/ /\ ~Current(l) \/ rows[s].status \notin {"PENDING", "RUNNING"}
          /\ UNCHANGED <<rows, drive>>
    /\ UNCHANGED <<controlVars, root, models, tools, asked, acted, lane, attached, abandoned>>

\* start_model_attempt
StartModel(l, s) ==
    /\ Driving(l, s, "driving") /\ Current(l)
    /\ ~models[s].open /\ models[s].unknown < MaxUnknown
    /\ models' = [models EXCEPT ![s].open = TRUE]
    /\ MoveDrive(l, s, "thinking")
    /\ UNCHANGED <<controlVars, root, rows, tools, asked, acted, lane, todo, attached, abandoned>>

\* finish_model_attempt: COMPLETED, or UNKNOWN and another attempt.
FinishModel(l, s) ==
    /\ Driving(l, s, "thinking")
    /\ \/ /\ Current(l)
          /\ \/ models' = [models EXCEPT ![s].open = FALSE] /\ MoveDrive(l, s, "decided")
             \/ /\ models' = [models EXCEPT ![s] = [open |-> FALSE, unknown |-> @.unknown + 1]]
                /\ \E p \in {"driving", "failing"} : MoveDrive(l, s, p)
       \/ ~Current(l) /\ MoveDrive(l, s, "failing") /\ UNCHANGED models
    /\ UNCHANGED <<controlVars, root, rows, tools, asked, acted, lane, todo, attached, abandoned>>

\* An attached invocation of another step refuses the call.
Bound(l, s) == drive[l][s].ident[1] = s

\* create returns the approval the invocation already has.
AskApproval(l, s) ==
    /\ Driving(l, s, "decided") /\ s \in ApprovalSteps
    /\ MoveDrive(l, s, IF Bound(l, s) THEN "waiting" ELSE "failing")
    /\ asked' = IF Bound(l, s) /\ asked[drive[l][s].ident] = "none"
                  THEN [asked EXCEPT ![drive[l][s].ident] = "PENDING"] ELSE asked
    /\ UNCHANGED <<controlVars, root, rows, models, tools, acted, lane, todo, attached, abandoned>>

DecideApproval(i, d) ==
    /\ asked[i] = "PENDING" /\ control.state = "ACTIVE"
    /\ asked' = [asked EXCEPT ![i] = d]
    /\ UNCHANGED <<controlVars, root, rows, models, tools, acted, lane, todo, drive,
                   attached, abandoned>>

\* An approved invocation is claimed once; a rejection or the deadline ends the wait.
WaitEnds(l, s) ==
    /\ Driving(l, s, "waiting")
    /\ LET i == drive[l][s].ident IN
         \/ asked[i] = "APPROVED" /\ Current(l) /\ tools[i] = "none" /\ MoveDrive(l, s, "cleared")
         \/ MoveDrive(l, s, "failing")
    /\ UNCHANGED <<controlVars, storeVars, acted, lane, todo, attached, abandoned>>

\* prepare and start; a committed row answers from the ledger, any other row
\* and a foreign one refuse.
StartTool(l, s) ==
    /\ Driving(l, s, IF s \in ApprovalSteps THEN "cleared" ELSE "decided")
    /\ LET i == drive[l][s].ident IN
         \/ /\ Bound(l, s) /\ Current(l) /\ tools[i] = "none"
            /\ tools' = [tools EXCEPT ![i] = "STARTED"] /\ MoveDrive(l, s, "calling")
         \/ /\ ~Bound(l, s) \/ ~Current(l) \/ tools[i] # "none"
            /\ MoveDrive(l, s, IF Bound(l, s) /\ Current(l) /\ tools[i] = "COMMITTED"
                                THEN "answered" ELSE "failing")
            /\ UNCHANGED tools
    /\ UNCHANGED <<controlVars, root, rows, models, asked, acted, lane, todo, attached, abandoned>>

\* The provider acts, also for a lane that has lost the run.
ToolActs(i) ==
    /\ tools[i] \in {"STARTED", "UNKNOWN"} /\ i \notin acted
    /\ acted' = acted \cup {i}
    /\ UNCHANGED <<controlVars, storeVars, lane, todo, drive, attached, abandoned>>

\* committed after the answer, else mark_unknown; both are fenced.
FinishTool(l, s) ==
    /\ Driving(l, s, "calling")
    /\ LET i == drive[l][s].ident
           ok == i \in acted
       IN  /\ MoveDrive(l, s, IF ok /\ Current(l) THEN "answered" ELSE "failing")
           /\ tools' = IF Current(l) /\ tools[i] = "STARTED"
                         THEN [tools EXCEPT ![i] = IF ok THEN "COMMITTED" ELSE "UNKNOWN"]
                         ELSE tools
    /\ UNCHANGED <<controlVars, root, rows, models, asked, acted, lane, todo, attached, abandoned>>

\* MUTANT: the attempt number is trusted to fence the row.
CompleteStepByAttempt(l, s) ==
    /\ lane[l] = "running" /\ drive[l][s].pc \in {"decided", "answered", "failing"}
    /\ rows' = IF rows[s].status = "RUNNING" /\ rows[s].attempt = drive[l][s].attempt
                 THEN [rows EXCEPT ![s].status =
                         IF drive[l][s].pc = "failing" THEN "FAILED" ELSE "SUCCEEDED"]
                 ELSE rows
    /\ MoveDrive(l, s, "none")
    /\ UNCHANGED <<controlVars, root, models, tools, asked, acted, lane, todo, attached, abandoned>>

\* complete_step: the row of this very attempt, under the lease.
CompleteStep(l, s) ==
    /\ lane[l] = "running" /\ drive[l][s].pc \in {"decided", "answered", "failing"}
    /\ rows' = IF Current(l) /\ rows[s].status = "RUNNING" /\ rows[s].attempt = drive[l][s].attempt
                 THEN [rows EXCEPT ![s].status =
                         IF drive[l][s].pc = "failing" THEN "FAILED" ELSE "SUCCEEDED"]
                 ELSE rows
    /\ MoveDrive(l, s, "none")
    /\ UNCHANGED <<controlVars, root, models, tools, asked, acted, lane, todo, attached, abandoned>>

\* finalize_terminal, or the release of a scope that could not write it.
EndRun(l) ==
    /\ lane[l] = "running" /\ \A s \in PlanSteps : drive[l][s].pc = "none"
    /\ \/ /\ Current(l) /\ root.status = "ACTIVE"
          /\ CloseTerminal /\ held' = [held EXCEPT ![l] = 0]
          /\ root' = [root EXCEPT !.status = "ended"]
          /\ UNCHANGED <<rows, models, tools, asked>>
       \/ ~Current(l) /\ Release(l) /\ UNCHANGED storeVars
    /\ MoveLane(l, IF l \in Creators THEN "gone" ELSE "idle")
    /\ todo' = [todo EXCEPT ![l] = {}] /\ attached' = [attached EXCEPT ![l] = NoIdent]
    /\ UNCHANGED <<acted, drive, abandoned>>

-----------------------------------------------------------------------------
(* Environment *)

RenewRun(l) ==
    /\ lane[l] = "running" /\ Renew(l)
    /\ UNCHANGED <<storeVars, acted, lane, todo, drive, attached, abandoned>>

\* A process dies; a new one has a new owner id, hence another lane.
LaneDies(l) ==
    /\ lane[l] \notin {"idle", "gone"}
    /\ lane' = [lane EXCEPT ![l] = "gone"]
    /\ held' = [held EXCEPT ![l] = 0]
    /\ todo' = [todo EXCEPT ![l] = {}]
    /\ drive' = [drive EXCEPT ![l] = [s \in PlanSteps |-> NoDrive]]
    /\ attached' = [attached EXCEPT ![l] = NoIdent]
    /\ UNCHANGED <<control, storeVars, acted, abandoned>>

\* The reconciliation lane of another process settles an open invocation of a
\* run nobody holds (DurableTools has its steps); its lease is left to expire.
ToolReconciled(i) ==
    /\ Unresolved(i) /\ control.state = "ACTIVE" /\ ~Live /\ control.token < MaxToken
    /\ control' = [control EXCEPT !.token = @ + 1]
    /\ tools' = [tools EXCEPT ![i] = IF i \in acted THEN "COMMITTED" ELSE "NOT_COMMITTED"]
    /\ UNCHANGED <<held, root, rows, models, asked, acted, lane, todo, drive, attached, abandoned>>

LeaseTick ==
    /\ LeaseRunsDown
    /\ UNCHANGED <<storeVars, acted, lane, todo, drive, attached, abandoned>>

ScopeStep(l) ==
    \/ CreateRun(l) \/ SelectStale(l) \/ ClaimStale(l) \/ PrepareRecovery(l) \/ Rehydrate(l)
    \/ EndRun(l)
    \/ \E s \in PlanSteps : \/ StartRow(l, s) \/ StartModel(l, s) \/ FinishModel(l, s)
                            \/ AskApproval(l, s) \/ WaitEnds(l, s) \/ StartTool(l, s)
                            \/ FinishTool(l, s) \/ CompleteStep(l, s)

RecoveryNext ==
    \/ \E l \in Lanes : ScopeStep(l) \/ RecoveryFails(l) \/ RenewRun(l) \/ LaneDies(l)
    \/ \E i \in Idents : \/ ToolActs(i) \/ ToolReconciled(i)
                         \/ \E d \in {"APPROVED", "REJECTED"} : DecideApproval(i, d)
    \/ RecoveryBackoff \/ LeaseTick

RecoverySpec == RecoveryInit /\ [][RecoveryNext]_recoveryVars

-----------------------------------------------------------------------------
\* Recovery fails closed: while the outcome of a step's tool is open no other
\* invocation of that step exists, so nothing is done twice on a guess, and no
\* step is driven again after its model died under it twice (prepare_recovery).
RecoveryFailsClosed ==
    \A s \in PlanSteps :
        /\ abandoned[s] <= 2
        /\ \A i, j \in IdentsOf(s) : Unresolved(i) /\ j # i => tools[j] # "STARTED"

\* The step is one of this lane: it moves, or its scope or one of its drives does.
LaneSteps(l) == lane'[l] # lane[l] \/ todo'[l] # todo[l] \/ drive'[l] # drive[l]

\* A step row is changed only by a lane, only while that very lane is the run's
\* present owner, and a row that has ended stays: a scope that lost the run
\* neither completes nor reopens a step, whether nobody holds the run by then
\* or its successor drives the same attempt (start_step, complete_step,
\* prepare_recovery).
RowsAreFenced ==
    [][\A s \in PlanSteps : rows'[s] # rows[s] =>
          /\ rows[s].status \in {"PENDING", "RUNNING"}
          /\ \E l \in Lanes : LaneSteps(l)
          /\ \A l \in Lanes : LaneSteps(l) => Current(l)]_recoveryVars

\* A tool that is COMMITTED is not done again by the replay of its step.
CommittedIsNotRedone ==
    \A s \in PlanSteps : Cardinality(acted \cap IdentsOf(s)) <= 1

=============================================================================
