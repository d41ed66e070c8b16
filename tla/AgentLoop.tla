----------------------------- MODULE AgentLoop ------------------------------
(***************************************************************************)
(* The durable agent loop (durable-agent-loop.v2) of one run: the driver   *)
(* inside the run's single step (core/runtime/agent_loop), the frames,     *)
(* iterations, batches of actions and the delegation it commits            *)
(* (core/persistence/repositories/agent_loop.py, agent_delegation.py and   *)
(* execution.py), and the ways out of the coordinator.                     *)
(*                                                                         *)
(* Every repository call is one transaction and one step here; it raises   *)
(* when the caller's lease is gone.  Left out: row_version (the holder of  *)
(* the lease is the only writer and reloads the frame before each          *)
(* compare-and-set), context compaction, the budget, bounded polling, the  *)
(* deadline of the root, adaptive stopping, the back-off of a recovery and *)
(* a second delegation (max_delegations is 1).                             *)
(***************************************************************************)
EXTENDS RunControl, Sequences, FiniteSetsExt

CONSTANTS
    Starters,      \* lanes that create a run
    Resumers,      \* lanes of the RecoveryCoordinators
    Pins,          \* bound: what runs are created with, see pinned
    MaxBatch,      \* max_batch_size (4)
    MaxFailures    \* recovery_max_attempts

Frames == {"root", "child"}
Ordinals == 1..MaxBatch

ASSUME LoopAssumption ==
    /\ MaxBatch \in Nat \ {0}
    /\ Starters \subseteq Lanes /\ Resumers \subseteq Lanes /\ Starters \cap Resumers = {}
    /\ \A p \in Pins : /\ p.mode \in {"FAIL_FAST", "BEST_EFFORT"}
                       /\ p.max \in [Frames -> Nat \ {0}]
                       /\ \A f \in Frames : \A b \in p.batches[f] :
                            /\ \E k \in Ordinals : DOMAIN b = 1..k
                            /\ \A o, q \in DOMAIN b : b[o].key # "read" /\ b[q].key # "read" => o = q
    /\ \A a, b \in Resumers : OwnerOf[a] = OwnerOf[b] => a = b
    /\ MaxFailures \in Nat \ {0}

VARIABLES
    pinned,      \* the policy (failure_mode, max_iterations of a frame), the batches the
                 \* model of a frame may decide on (sequences of recipes), the gated writes,
                 \* whether there are delegation_targets, the frames whose model may time out
    loopRoot,    \* the row of runtime_run_executions
    frames,      \* runtime_loop_frames: the root's and its one child's
    iters,       \* runtime_loop_iterations of a frame, with their model attempts
    acts,        \* runtime_loop_actions of an iteration, with their tool rows
    delegation,  \* the row of runtime_agent_delegations
    delivered,   \* output events of the final answer
    driver       \* where each lane stands

loopRows == <<loopRoot, frames, iters, acts, delegation>>
loopVars == <<control, held, pinned, loopRoot, frames, iters, acts, delegation, delivered, driver>>

NoFrame == [phase |-> "none", gen |-> 0]
Parked == [pc |-> "idle", frame |-> "root", gen |-> 0, no |-> 0, queue |-> {}, failed |-> FALSE,
           wave |-> <<>>]

LoopInit ==
    /\ ControlInit
    /\ pinned \in Pins
    /\ loopRoot = [status |-> "none", failures |-> 0, manual |-> FALSE, receipt |-> FALSE]
    /\ frames = [f \in Frames |-> NoFrame]
    /\ iters = [f \in Frames |-> <<>>]
    /\ acts = [f \in Frames |-> <<>>]
    /\ delegation = "none"
    /\ delivered = 0
    /\ driver = [l \in Lanes |-> Parked]

Goes(l, p) == driver' = [driver EXCEPT ![l].pc = p]
Leaves(l, p) == driver' = [driver EXCEPT ![l] = [Parked EXCEPT !.pc = p, !.gen = driver[l].gen]]
Stands(l, p) == driver[l].pc = p

\* The frame to advance: advance_handoff runs the child until its result is in.
Frame == IF frames["root"].phase = "WAIT_CHILD" /\ delegation = "accepted" THEN "child" ELSE "root"

Last(f) == Len(iters[f])
Opened(f) == Last(f) > 0 /\ iters[f][Last(f)].state = "OPEN"

NewIteration == [state |-> "OPEN", model |-> "none", answer |-> "none", unknown |-> FALSE, recovered |-> FALSE]
NewAction(r) == [key |-> r.key, tool |-> "none", ok |-> FALSE, approval |-> "none",
                 acted |-> FALSE, result |-> "none", skipped |-> FALSE]

Reading(a) == a.key = "read"
OpenTool(a) == a.tool \in {"STARTED", "UNKNOWN"}
Failed(a) == a.result = "FAILED" \/ (a.tool = "COMMITTED" /\ ~a.ok)
ActsOf(f) == UNION {{acts[f][n][o] : o \in DOMAIN acts[f][n]} : n \in DOMAIN acts[f]}
AllActs == UNION {ActsOf(f) : f \in Frames}

Iterations == UNION {{<<f, n>> : n \in DOMAIN iters[f]} : f \in Frames}

\* Every action row, as <<frame, iteration, ordinal>>.
ActionIds == UNION {{<<i[1], i[2], o>> : o \in DOMAIN acts[i[1]][i[2]]} : i \in Iterations}
Act(i) == acts[i[1]][i[2]][i[3]]

\* _lock_loop with allow_control_stop: the current lease, an active root, and
\* the generation the caller has loaded.
Locks(l, f) ==
    /\ Current(l) /\ loopRoot.status = "ACTIVE"
    /\ frames[f].gen = driver[l].gen

\* _lock_loop: and no cancellation is asked for.
LocksToAct(l, f) == Locks(l, f) /\ ~control.cancel

-----------------------------------------------------------------------------
(* Creation, scan and takeover *)

\* initialize: the root, its step and the root frame, under a new lease.
CreateLoop(l) ==
    /\ l \in Starters /\ Stands(l, "idle") /\ loopRoot.status = "none"
    /\ ClaimTakesOver(l)
    /\ loopRoot' = [loopRoot EXCEPT !.status = "ACTIVE"]
    /\ frames' = [frames EXCEPT !["root"].phase = "NEED_DECISION"]
    /\ Goes(l, "drive")
    /\ UNCHANGED <<pinned, iters, acts, delegation, delivered>>

\* stale_run_ids for a v2 run: nothing to wait for, or a cancellation.
SelectLoop(l) ==
    /\ l \in Resumers /\ Stands(l, "idle") /\ loopRoot.status = "ACTIVE"
    /\ control.state = "ACTIVE" /\ ~Live
    /\ \/ control.cancel
       \/ ~loopRoot.manual /\ \A a \in AllActs : a.approval # "PENDING" /\ ~OpenTool(a)
    /\ Goes(l, "selected")
    /\ UNCHANGED <<control, held, pinned, loopRows, delivered>>

ClaimLoop(l) ==
    /\ Stands(l, "selected")
    /\ \/ Claim(l) /\ Goes(l, "claimed")
       \/ ClaimRefused(l) /\ Goes(l, "idle") /\ UNCHANGED controlVars
    /\ UNCHANGED <<pinned, loopRows, delivered>>

\* An iteration whose attempt was STARTED when its executor was lost.
Abandoned(it) == it.model = "STARTED"
Recovered(it) == IF Abandoned(it)
                   THEN [it EXCEPT !.model = "UNKNOWN", !.unknown = TRUE, !.recovered = TRUE]
                   ELSE it

\* recover_v2: a new generation for every frame, and the attempts nobody waits
\* for become UNKNOWN; the second loss of one iteration stops its frame.
RecoverLoop(l) ==
    /\ Stands(l, "claimed") /\ Current(l)
    /\ LET gen == frames["root"].gen + 1
           exhausted(f) == \E n \in DOMAIN iters[f] : /\ Abandoned(iters[f][n])
                                                      /\ iters[f][n].state = "OPEN"
                                                      /\ iters[f][n].recovered
       IN  /\ frames' = [f \in Frames |->
                IF frames[f].phase = "none" THEN frames[f]
                ELSE IF exhausted(f) THEN [phase |-> "STOPPED", gen |-> gen]
                ELSE [frames[f] EXCEPT !.gen = gen]]
           /\ driver' = [driver EXCEPT ![l] = [Parked EXCEPT !.pc = "drive", !.gen = gen]]
    /\ iters' = [f \in Frames |-> [n \in DOMAIN iters[f] |-> Recovered(iters[f][n])]]
    /\ UNCHANGED <<control, held, pinned, loopRoot, acts, delegation, delivered>>

-----------------------------------------------------------------------------
(* The decision of an iteration *)

\* Two observed batches of reads with the same calls and the same results.
NoProgress(f) ==
    /\ Last(f) >= 2
    /\ \A n \in {Last(f) - 1, Last(f)} : /\ iters[f][n].state = "OBSERVED" /\ n \in DOMAIN acts[f]
                                         /\ \A o \in DOMAIN acts[f][n] : Reading(acts[f][n][o])
    /\ iters[f][Last(f)].answer = iters[f][Last(f) - 1].answer
    /\ \A o \in DOMAIN acts[f][Last(f)] :
         acts[f][Last(f)][o].result = acts[f][Last(f) - 1][o].result

\* LOOP_ITERATION_LIMIT, LOOP_NO_PROGRESS and a frame that a recovery stopped:
\* the run stops; a child that stops itself has failed.
StopsItself(l) ==
    LET f == Frame IN
    /\ Stands(l, "drive") /\ Locks(l, f)
    /\ \/ /\ frames[f].phase = "NEED_DECISION" /\ ~Opened(f)
          /\ Last(f) >= pinned.max[f] \/ NoProgress(f)
          /\ Goes(l, IF f = "root" THEN "stopping" ELSE "childFailed")
       \/ frames[f].phase = "STOPPED" /\ Goes(l, "stopping")
    /\ UNCHANGED <<control, held, pinned, loopRows, delivered>>

\* accept_context_and_open_iteration
OpenIteration(l) ==
    LET f == Frame IN
    /\ Stands(l, "drive") /\ frames[f].phase = "NEED_DECISION" /\ ~Opened(f)
    /\ Last(f) < pinned.max[f] /\ ~NoProgress(f)
    /\ LocksToAct(l, f)
    /\ iters' = [iters EXCEPT ![f] = Append(@, NewIteration)]
    /\ acts' = [acts EXCEPT ![f] = Append(@, <<>>)]
    /\ UNCHANGED <<control, held, pinned, loopRoot, frames, delegation, delivered, driver>>

\* start_model_attempt, unless an executor before left an answer.
AskModel(l) ==
    LET f == Frame IN
    /\ Stands(l, "drive") /\ frames[f].phase = "NEED_DECISION" /\ Opened(f)
    /\ iters[f][Last(f)].model # "COMPLETED" /\ LocksToAct(l, f)
    /\ iters' = [iters EXCEPT ![f][Last(f)].model = "STARTED"]
    /\ Goes(l, "asking")
    /\ UNCHANGED <<control, held, pinned, loopRoot, frames, acts, delegation, delivered>>

Final == <<[key |-> "FINAL"]>>
Handoff == <<[key |-> "HANDOFF"]>>

\* What a model may decide: a final answer, a batch, or for the root a handoff.
Decisions(f) == pinned.batches[f] \cup {Final} \cup (IF f = "root" /\ pinned.delegates THEN {Handoff} ELSE {})

\* finish_model_attempt: COMPLETED, or UNKNOWN and then another attempt or the
\* end of the chain, which no frame turns into a local failure.
ModelDecides(l) ==
    LET f == Frame IN
    /\ Stands(l, "asking") /\ LocksToAct(l, f)
    /\ \/ /\ \E d \in Decisions(f) :
               iters' = [iters EXCEPT ![f][Last(f)].model = "COMPLETED", ![f][Last(f)].answer = d]
          /\ Goes(l, "drive")
       \/ /\ f \in pinned.flaky
          /\ iters' = [iters EXCEPT ![f][Last(f)].model = "UNKNOWN", ![f][Last(f)].unknown = TRUE]
          /\ \E p \in {"drive", "failing"} : Goes(l, p)
    /\ UNCHANGED <<control, held, pinned, loopRoot, frames, acts, delegation, delivered>>

\* MUTANT: only the frame's own actions are compared.
RepeatsInFrame(f, b) ==
    \E o \in DOMAIN b : b[o].key # "read" /\ \E a \in ActsOf(f) : a.key = b[o].key

\* LOOP_REPEATED_ACTION: a write of this run, in whatever frame and whatever came of it.
Repeats(f, b) ==
    \E o \in DOMAIN b : b[o].key # "read" /\ \E a \in AllActs : a.key = b[o].key

\* accept_loop_batch: the decision and what it opens, or a refusal that fails the run.
AcceptDecision(l) ==
    LET f == Frame
        n == Last(f)
        d == iters[f][n].answer
    IN
    /\ Stands(l, "drive") /\ frames[f].phase = "NEED_DECISION" /\ Opened(f)
    /\ iters[f][n].model = "COMPLETED" /\ LocksToAct(l, f)
    /\ \/ /\ d = Final
          /\ iters' = [iters EXCEPT ![f][n].state = "CLOSED"]
          /\ frames' = [frames EXCEPT ![f].phase = "RESULT_READY"]
          /\ Goes(l, "drive") /\ UNCHANGED <<acts, delegation>>
       \/ /\ d = Handoff /\ delegation = "none"
          /\ iters' = [iters EXCEPT ![f][n].state = "ACCEPTED"]
          /\ frames' = [frames EXCEPT !["root"].phase = "WAIT_CHILD",
                                      !["child"] = [phase |-> "NEED_DECISION", gen |-> frames["root"].gen]]
          /\ delegation' = "accepted"
          /\ Goes(l, "drive") /\ UNCHANGED acts
       \/ /\ d \in pinned.batches[f] /\ ~Repeats(f, d)
          /\ iters' = [iters EXCEPT ![f][n].state = "ACCEPTED"]
          /\ frames' = [frames EXCEPT ![f].phase = "WAIT_ACTIONS"]
          /\ acts' = [acts EXCEPT ![f][n] = [o \in DOMAIN d |-> NewAction(d[o])]]
          /\ Goes(l, "drive") /\ UNCHANGED delegation
       \/ /\ \/ d = Handoff /\ delegation # "none"
             \/ d \in pinned.batches[f] /\ Repeats(f, d)
          /\ Goes(l, "failing") /\ UNCHANGED <<iters, frames, acts, delegation>>
    /\ UNCHANGED <<control, held, pinned, loopRoot, delivered>>

-----------------------------------------------------------------------------
(* The batch *)

BatchFrame(l) == driver[l].frame
BatchOf(l) == acts[BatchFrame(l)][driver[l].no]
Row(l, o) == BatchOf(l)[o]
Siblings(l, o) == {Row(l, p) : p \in DOMAIN BatchOf(l) \ {o}}
SetRow(l, o, row) == acts' = [acts EXCEPT ![BatchFrame(l)][driver[l].no][o] = row]
Thread(l, o, p) == driver' = [driver EXCEPT ![l].wave[o] = p]
InThread(l, o, p) == Stands(l, "batch") /\ o \in DOMAIN driver[l].wave /\ driver[l].wave[o] = p

\* MUTANT: in the order of the decision.
InOrder(queue, reads) == Min(queue)

\* The action whose turn it is: the reads, then the write.
ReadsFirst(queue, reads) == IF queue \cap reads # {} THEN Min(queue \cap reads) ELSE Min(queue)

\* advance_batch: an outcome nobody knows suspends; else the queue is laid out.
LoadBatch(l) ==
    LET f == Frame
        batch == acts[f][Last(f)]
        pending == {o \in DOMAIN batch : batch[o].result = "none" /\ ~batch[o].skipped}
    IN
    /\ Stands(l, "drive") /\ frames[f].phase = "WAIT_ACTIONS" /\ Locks(l, f)
    /\ IF \E o \in DOMAIN batch : OpenTool(batch[o])
         THEN Goes(l, "suspending")
         ELSE driver' = [driver EXCEPT ![l] = [@ EXCEPT !.pc = "batch", !.frame = f, !.no = Last(f),
                           !.queue = pending,
                           !.failed = \E o \in DOMAIN batch : batch[o].result = "FAILED"]]
    /\ UNCHANGED <<control, held, pinned, loopRows, delivered>>

Free(l) == Stands(l, "batch") /\ DOMAIN driver[l].wave = {}
Reads(l) == {o \in DOMAIN BatchOf(l) : Reading(Row(l, o))}
Turn(l) == ReadsFirst(driver[l].queue, Reads(l))
MustSkip(l, o) == driver[l].failed /\ (pinned.mode = "FAIL_FAST" \/ ~Reading(Row(l, o)))

\* record_loop_action with not_executed.
SkipAction(l) ==
    /\ Free(l) /\ driver[l].queue # {} /\ LocksToAct(l, BatchFrame(l))
    /\ LET o == Turn(l) IN
         /\ MustSkip(l, o)
         /\ Row(l, o).tool \in {"none", "PREPARED"}
         /\ SetRow(l, o, [Row(l, o) EXCEPT !.skipped = TRUE])
         /\ driver' = [driver EXCEPT ![l].queue = @ \ {o}]
    /\ UNCHANGED <<control, held, pinned, loopRoot, frames, iters, delegation, delivered>>

\* The action whose turn it is, and with a read the read behind it when both
\* are concurrent_safe and have not the same resource_key.
Together(l) ==
    LET behind == (driver[l].queue \cap Reads(l)) \ {Turn(l)}
    IN  {{Turn(l)}} \cup (IF behind = {} THEN {} ELSE {{Turn(l), Min(behind)}})

StartWave(l) ==
    /\ Free(l) /\ driver[l].queue # {} /\ ~MustSkip(l, Turn(l))
    /\ \E calls \in Together(l) :
         driver' = [driver EXCEPT ![l].queue = @ \ calls,
                        ![l].wave = [o \in calls |->
                                       IF Row(l, o).key \in pinned.gated THEN "approve" ELSE "prepare"]]
    /\ UNCHANGED <<control, held, pinned, loopRows, delivered>>

\* _await_tool_approval: nobody waits for a decision, the loop is suspended.
AwaitApproval(l, o) ==
    LET a == Row(l, o).approval IN
    /\ InThread(l, o, "approve")
    /\ \/ a = "none" /\ SetRow(l, o, [Row(l, o) EXCEPT !.approval = "PENDING"]) /\ Thread(l, o, "suspended")
       \/ /\ a # "none" /\ UNCHANGED acts
          /\ Thread(l, o, IF a = "PENDING" THEN "suspended" ELSE IF a = "APPROVED" THEN "prepare"
                          ELSE IF a = "REJECTED" THEN "errored" ELSE "cancelled")
    /\ UNCHANGED <<control, held, pinned, loopRoot, frames, iters, delegation, delivered>>

\* prepare with its binding to the action; a committed row answers from the ledger.
PrepareTool(l, o) ==
    LET t == Row(l, o).tool IN
    /\ InThread(l, o, "prepare") /\ LocksToAct(l, BatchFrame(l))
    /\ \/ /\ t \in {"none", "PREPARED"}
          /\ SetRow(l, o, [Row(l, o) EXCEPT !.tool = "PREPARED"]) /\ Thread(l, o, "start")
       \/ /\ t \notin {"none", "PREPARED"} /\ UNCHANGED acts
          /\ Thread(l, o, IF t = "COMMITTED" THEN "record" ELSE "errored")
    /\ UNCHANGED <<control, held, pinned, loopRoot, frames, iters, delegation, delivered>>

\* start behind admit_action.  Outside its transaction the budget, or the time
\* a child was given, may be over.
StartTool(l, o) ==
    /\ InThread(l, o, "start") /\ LocksToAct(l, BatchFrame(l))
    /\ LET pending == \E s \in Siblings(l, o) : s.approval = "PENDING" \/ s.tool = "UNKNOWN"
           failed == pinned.mode = "FAIL_FAST" /\ \E s \in Siblings(l, o) : Failed(s)
       IN  \/ /\ pending /\ Thread(l, o, "suspended") /\ UNCHANGED acts
           \/ /\ ~pending /\ failed /\ Thread(l, o, "skip") /\ UNCHANGED acts
           \/ /\ ~pending /\ ~failed
              /\ SetRow(l, o, [Row(l, o) EXCEPT !.tool = "STARTED"]) /\ Thread(l, o, "calling")
           \/ Thread(l, o, "limited") /\ UNCHANGED acts
    /\ UNCHANGED <<control, held, pinned, loopRoot, frames, iters, delegation, delivered>>

\* The provider acts on a write, also for a lane that is gone.
WriteActs(i) ==
    /\ OpenTool(Act(i)) /\ ~Reading(Act(i)) /\ ~Act(i).acted
    /\ acts' = [acts EXCEPT ![i[1]][i[2]][i[3]].acted = TRUE]
    /\ UNCHANGED <<control, held, pinned, loopRoot, frames, iters, delegation, delivered, driver>>

\* committed with a result, or unknown; both are fenced, and a row that stays
\* STARTED suspends as UNKNOWN does.
ToolReturns(l, o) ==
    /\ InThread(l, o, "calling")
    /\ \/ /\ Current(l)
          /\ \/ \E ok \in BOOLEAN :
                  /\ Reading(Row(l, o)) \/ Row(l, o).acted = ok
                  /\ SetRow(l, o, [Row(l, o) EXCEPT !.tool = "COMMITTED", !.ok = ok])
                  /\ Thread(l, o, "record")
             \/ /\ SetRow(l, o, [Row(l, o) EXCEPT !.tool = "UNKNOWN"]) /\ Thread(l, o, "suspended")
       \/ ~Current(l) /\ Thread(l, o, "suspended") /\ UNCHANGED acts
    /\ UNCHANGED <<control, held, pinned, loopRoot, frames, iters, delegation, delivered>>

\* record_loop_action with the committed result, or with what prevented the call.
RecordAction(l, o) ==
    /\ LocksToAct(l, BatchFrame(l))
    /\ \/ /\ InThread(l, o, "record") /\ Row(l, o).tool = "COMMITTED" /\ ~Row(l, o).skipped
          /\ SetRow(l, o, [Row(l, o) EXCEPT !.result = IF Row(l, o).ok THEN "SUCCEEDED" ELSE "FAILED"])
       \/ /\ InThread(l, o, "skip") /\ Row(l, o).tool = "PREPARED"
          /\ SetRow(l, o, [Row(l, o) EXCEPT !.skipped = TRUE])
    /\ Thread(l, o, IF InThread(l, o, "record") /\ Row(l, o).ok THEN "done" ELSE "doneFailed")
    /\ UNCHANGED <<control, held, pinned, loopRoot, frames, iters, delegation, delivered>>

\* Where the error of a call leads the driver.
AfterError(l, e) ==
    IF e = "suspended" THEN "suspending"
    ELSE IF e = "errored" THEN "failing"
    ELSE IF e = "cancelled" \/ BatchFrame(l) = "root" THEN "stopping"
    ELSE "childFailed"

\* The calls of a wave are over: a suspension goes first, then the error of the
\* first call that has one.
WaveEnds(l) ==
    LET wave == driver[l].wave
        ends == {wave[o] : o \in DOMAIN wave}
        bad == {o \in DOMAIN wave : wave[o] \notin {"done", "doneFailed"}}
        first == {o \in bad : \A p \in bad : IF wave[p] = "suspended" THEN wave[o] = "suspended" /\ o <= p
                                              ELSE wave[o] = "suspended" \/ o <= p}
    IN
    /\ Stands(l, "batch") /\ ends # {}
    /\ ends \subseteq {"done", "doneFailed", "suspended", "errored", "cancelled", "limited"}
    /\ \/ /\ bad = {}
          /\ driver' = [driver EXCEPT ![l].wave = <<>>, ![l].failed = @ \/ "doneFailed" \in ends]
       \/ \E o \in first : Leaves(l, AfterError(l, wave[o]))
    /\ UNCHANGED <<control, held, pinned, loopRows, delivered>>

\* commit_loop_batch: every action has a result or is proved not executed.
CommitBatch(l) ==
    LET f == BatchFrame(l) IN
    /\ Free(l) /\ driver[l].queue = {} /\ LocksToAct(l, f)
    /\ \A o \in DOMAIN BatchOf(l) :
         LET a == Row(l, o) IN
           \/ a.skipped /\ a.tool \in {"none", "PREPARED"}
           \/ ~a.skipped /\ a.tool = "COMMITTED" /\ a.result # "none"
    /\ iters' = [iters EXCEPT ![f][driver[l].no].state = "OBSERVED"]
    /\ frames' = [frames EXCEPT ![f].phase = "NEED_DECISION"]
    /\ Leaves(l, "drive")
    /\ UNCHANGED <<control, held, pinned, loopRoot, acts, delegation, delivered>>

-----------------------------------------------------------------------------
(* The child *)

\* What a failed child leaves open is closed with the proof of its stop.
ClosedRow(a) ==
    IF a.result # "none" \/ a.skipped THEN a
    ELSE IF a.tool = "COMMITTED" THEN [a EXCEPT !.result = IF a.ok THEN "SUCCEEDED" ELSE "FAILED"]
    ELSE [a EXCEPT !.skipped = TRUE]

\* A model attempt or a tool of the child whose outcome nobody knows.
ChildPending ==
    \/ \E n \in DOMAIN iters["child"] : iters["child"][n].model = "STARTED" \/ iters["child"][n].unknown
    \/ \E a \in ActsOf("child") : OpenTool(a)

\* commit_child_result
CommitChild(l) ==
    /\ Frame = "child" /\ LocksToAct(l, "child")
    /\ \/ Stands(l, "drive") /\ frames["child"].phase = "RESULT_READY"
       \/ Stands(l, "childFailed")
    /\ \/ ChildPending /\ Goes(l, "suspending") /\ UNCHANGED <<acts, frames, delegation>>
       \/ /\ ~ChildPending /\ Stands(l, "childFailed")
          /\ \E a \in ActsOf("child") : a.tool = "NOT_COMMITTED" /\ a.result = "none"
          /\ Goes(l, "failing") /\ UNCHANGED <<acts, frames, delegation>>
       \/ /\ ~ChildPending
          /\ Stands(l, "childFailed") => \A a \in ActsOf("child") : a.tool # "NOT_COMMITTED"
          /\ acts' = IF Stands(l, "drive") THEN acts
                     ELSE [acts EXCEPT !["child"] = [n \in DOMAIN @ |->
                             [o \in DOMAIN @[n] |-> ClosedRow(@[n][o])]]]
          /\ frames' = IF Stands(l, "drive") THEN frames
                       ELSE [frames EXCEPT !["child"].phase = "STOPPED"]
          /\ delegation' = "result"
          /\ Goes(l, "drive")
    /\ UNCHANGED <<control, held, pinned, loopRoot, iters, delivered>>

\* accept_child_observation
AcceptChild(l) ==
    /\ Stands(l, "drive") /\ LocksToAct(l, "root")
    /\ frames["root"].phase = "WAIT_CHILD" /\ delegation = "result"
    /\ iters' = [iters EXCEPT !["root"][Last("root")].state = "OBSERVED"]
    /\ frames' = [frames EXCEPT !["root"].phase = "NEED_DECISION"]
    /\ delegation' = "observed"
    /\ UNCHANGED <<control, held, pinned, loopRoot, acts, delivered, driver>>

-----------------------------------------------------------------------------
(* The ways out *)

\* record_recovery_failure, which no fence protects.
RecordFailure(l) ==
    loopRoot' = IF l \in Starters THEN loopRoot
                ELSE [loopRoot EXCEPT !.failures = IF @ < MaxFailures THEN @ + 1 ELSE @,
                                      !.manual = @ \/ loopRoot.failures + 1 >= MaxFailures]

\* A RecoveryCoordinator goes on scanning, after a restart too.
GoesOff(l) == driver' = [driver EXCEPT ![l] =
                        IF l \in Resumers THEN Parked ELSE [Parked EXCEPT !.pc = "ended"]]

\* The coordinator's handler of LoopSuspended.  suspend_loop knows the phases
\* of v1 only: in WAIT_ACTIONS and WAIT_CHILD it raises, nothing is saved, the
\* lease runs out by itself, and a recovery counts as failed.
Suspend(l) ==
    /\ Stands(l, "suspending")
    /\ held' = [held EXCEPT ![l] = 0] /\ UNCHANGED control
    /\ RecordFailure(l) /\ GoesOff(l)
    /\ UNCHANGED <<pinned, frames, iters, acts, delegation, delivered>>

\* raise_if_inactive and the RunCancelledError of _lock_loop.
SeesCancel(l) ==
    /\ control.cancel /\ ~loopRoot.receipt
    /\ \/ driver[l].pc \in {"drive", "asking", "childFailed"}
       \/ Free(l)
    /\ Leaves(l, "stopping")
    /\ UNCHANGED <<control, held, pinned, loopRows, delivered>>

\* A call of a wave meets the cancellation.
CallCancelled(l, o) ==
    /\ control.cancel /\ \E p \in {"prepare", "start", "record", "skip"} : InThread(l, o, p)
    /\ Thread(l, o, "cancelled")
    /\ UNCHANGED <<control, held, pinned, loopRows, delivered>>

\* invalidate_run, which no fence protects: approvals nobody decided on.
Invalidated ==
    [f \in Frames |-> [n \in DOMAIN acts[f] |-> [o \in DOMAIN acts[f][n] |->
        IF acts[f][n][o].approval = "PENDING"
          THEN [acts[f][n][o] EXCEPT !.approval = "INVALIDATED"] ELSE acts[f][n][o]]]]

\* The lease is gone: the next transaction raises, and the coordinator cleans
\* up behind it.  Calls to a provider go on.
Ousted(l) ==
    /\ ~Current(l) /\ driver[l].pc \notin {"idle", "selected", "ended", "suspending"}
    /\ \A o \in DOMAIN driver[l].wave : driver[l].wave[o] # "calling"
    /\ held' = [held EXCEPT ![l] = 0] /\ UNCHANGED control
    /\ acts' = IF Stands(l, "claimed") THEN acts ELSE Invalidated
    /\ RecordFailure(l) /\ GoesOff(l)
    /\ UNCHANGED <<pinned, frames, iters, delegation, delivered>>

\* _record_loop_stop
StopLoop(l) ==
    /\ Stands(l, "stopping") /\ Locks(l, "root")
    /\ frames' = IF loopRoot.receipt THEN frames ELSE [frames EXCEPT !["root"].phase = "STOPPED"]
    /\ Goes(l, "failing")
    /\ UNCHANGED <<control, held, pinned, loopRoot, iters, acts, delegation, delivered>>

\* MUTANT: the receipt of an earlier delivery is not looked at.
AlwaysPublishes == TRUE

\* A receipt answers for an answer that was delivered before.
MustPublish == ~loopRoot.receipt

\* The driver returned the final answer.  publish_loop_final: the output event and its receipt in one transaction.
PublishFinal(l) ==
    /\ Stands(l, "drive") /\ frames["root"].phase = "RESULT_READY" /\ Locks(l, "root")
    /\ IF MustPublish
         THEN /\ ~control.cancel
              /\ delivered' = delivered + 1
              /\ loopRoot' = [loopRoot EXCEPT !.receipt = TRUE]
         ELSE UNCHANGED <<delivered, loopRoot>>
    /\ Goes(l, "closing")
    /\ UNCHANGED <<control, held, pinned, frames, iters, acts, delegation>>

\* finalize_terminal, after invalidate_run for the approvals nobody decided.
Finalize(l) ==
    /\ driver[l].pc \in {"failing", "closing"} /\ Current(l) /\ loopRoot.status = "ACTIVE"
    /\ loopRoot' = [loopRoot EXCEPT !.status =
                      IF Stands(l, "closing") THEN "SUCCEEDED" ELSE "FAILED"]
    /\ acts' = Invalidated
    /\ CloseTerminal /\ held' = [held EXCEPT ![l] = 0]
    /\ GoesOff(l)
    /\ UNCHANGED <<pinned, frames, iters, delegation, delivered>>

-----------------------------------------------------------------------------
(* The surroundings *)

\* decide: an operator.
DecideAction(i) ==
    /\ Act(i).approval = "PENDING" /\ control.state = "ACTIVE" /\ ~control.cancel
    /\ \E d \in {"APPROVED", "REJECTED"} : acts' = [acts EXCEPT ![i[1]][i[2]][i[3]].approval = d]
    /\ UNCHANGED <<control, held, pinned, loopRoot, frames, iters, delegation, delivered, driver>>

\* The reconciliation lane, which claims the run when nobody holds it.
ReconcileAction(i) ==
    /\ OpenTool(Act(i)) /\ control.state = "ACTIVE" /\ ~Live
    /\ \E t \in {"COMMITTED", "NOT_COMMITTED"} :
         /\ ~Reading(Act(i)) => Act(i).acted = (t = "COMMITTED")
         /\ acts' = [acts EXCEPT ![i[1]][i[2]][i[3]].tool = t, ![i[1]][i[2]][i[3]].ok = (t = "COMMITTED")]
    /\ UNCHANGED <<control, held, pinned, loopRoot, frames, iters, delegation, delivered, driver>>

CancelLoop ==
    /\ loopRoot.status = "ACTIVE" /\ RequestCancel
    /\ UNCHANGED <<pinned, loopRows, delivered, driver>>

\* The lease runs out: its holder stalled, or its loop was suspended, or it
\* died, which is to stall for ever.
LoopTick ==
    /\ LeaseRunsDown
    /\ UNCHANGED <<pinned, loopRows, delivered, driver>>

LoopNext ==
    \/ \E l \in Lanes :
         \/ CreateLoop(l) \/ SelectLoop(l) \/ ClaimLoop(l) \/ RecoverLoop(l)
         \/ StopsItself(l) \/ OpenIteration(l) \/ AskModel(l) \/ ModelDecides(l) \/ AcceptDecision(l)
         \/ LoadBatch(l) \/ SkipAction(l) \/ StartWave(l) \/ WaveEnds(l) \/ CommitBatch(l)
         \/ CommitChild(l) \/ AcceptChild(l)
         \/ Suspend(l) \/ SeesCancel(l) \/ Ousted(l) \/ StopLoop(l) \/ PublishFinal(l) \/ Finalize(l)
    \/ \E l \in Lanes, o \in Ordinals :
         \/ AwaitApproval(l, o) \/ PrepareTool(l, o) \/ StartTool(l, o) \/ ToolReturns(l, o)
         \/ RecordAction(l, o) \/ CallCancelled(l, o)
    \/ \E i \in ActionIds : WriteActs(i) \/ DecideAction(i) \/ ReconcileAction(i)
    \/ CancelLoop \/ LoopTick

LoopSpec == LoopInit /\ [][LoopNext]_loopVars

-----------------------------------------------------------------------------
(* Properties *)

\* No write of a run happens twice, whichever frame and iteration decides on
\* it, through crashes, takeovers, retried models and reconciliation.
LoopWritesOnce ==
    \A i, j \in ActionIds : Act(i).acted /\ Act(j).acted /\ Act(i).key = Act(j).key => i = j

\* A write is started only when every read of its batch has succeeded, also
\* when the batch is taken up again by another executor.
WriteFollowsReads ==
    \A i \in ActionIds :
        (~Reading(Act(i)) /\ Act(i).tool \notin {"none", "PREPARED"}) =>
            \A o \in DOMAIN acts[i[1]][i[2]] \ {i[3]} :
                acts[i[1]][i[2]][o].tool = "COMMITTED" /\ acts[i[1]][i[2]][o].ok

\* What the model is told is what happened: an observed batch has for every
\* action the committed result or a call that never began; no frame decides
\* again, and no parent goes on, while an outcome is unknown; the final answer
\* is delivered once, and before the run succeeds.
ObservationIsWhole ==
    /\ \A f \in Frames : \A n \in DOMAIN iters[f] : iters[f][n].state = "OBSERVED" =>
         \A o \in DOMAIN acts[f][n] :
            LET a == acts[f][n][o] IN
              IF a.skipped THEN a.tool \in {"none", "PREPARED"}
              ELSE a.tool = "COMMITTED" /\ a.result = (IF a.ok THEN "SUCCEEDED" ELSE "FAILED")
    /\ \A f \in Frames : frames[f].phase \in {"NEED_DECISION", "RESULT_READY"} =>
         \A a \in ActsOf(f) : ~OpenTool(a)
    /\ delegation \in {"result", "observed"} => \A a \in ActsOf("child") : ~OpenTool(a)
    /\ delivered <= 1 /\ (loopRoot.status = "SUCCEEDED" => delivered = 1)

=============================================================================
