# Formal model of the LocalAgent runtime and its services

LocalAgent is a Python agent server. A FastAPI process accepts chats, evaluation
jobs and operator commands, runs each chat as a coordinated run, and streams the
run's events to the client while a PostgreSQL journal keeps them. What a run has
done is durable, so that another process can take it over. Two more processes,
the outbox publisher and the evaluation worker, carry evaluation jobs through
Kafka, and a set of services (stage 13) tests released versions on a schedule
and analyses their failures. This directory holds TLA+ models of the parts in
which processes, tasks, threads and failures interleave, the TLC configurations
that check them, and TLAPS proofs. `PROJECT.json` maps every definition to the
lines it models.

## 1. Inventory

| Part | State | Operations | Hard part | What makes it correct |
|---|---|---|---|---|
| Evaluation jobs (`core/evaluation_jobs.py`, `repositories/evaluation_jobs.py`) | rows of jobs, results, processed events, outbox | submit, cancel, claim, finalise, record failure or no-op | READ COMMITTED transactions of several processes on one row | tables agree, outcomes are final |
| Evaluation worker (`core/evaluation_worker.py`) | Kafka position, claim, message in hand | poll, validate, claim, evaluate, finalise, commit, DLQ | crash between database and offset, rebalance, expired lease | no offset past unsettled work, zombies are fenced, every job ends |
| Outbox publisher (`core/outbox_publisher.py`, `kafka_event_sink.py`) | claimed batch | claim, publish, mark, back off | acknowledgement lost, batch outlives its lease | nothing marked that is not in the topic, everything published |
| Event channel and journal (`runtime/event_channel.py`, `event_journal*.py`) | bounded queue, sequence, lock, consumer lease; rows per run | publish, close, abort, iterate, drain, capture watermark; append | awaits inside critical sections, cancellation from other threads | journal first, gapless, one terminal event, sentinel last, one consumer |
| Request scope (`chat_service.py`, `runtime_factory.py`) | producer task, transport, closed flag | stream, disconnect, drain, force abort, close | disconnect, grace timeout and shutdown racing the producer | complete streams, every request ends |
| Run control (`runtime/run_control.py`) | lease and fencing token per run | claim, renew, takeover, release, cancel, finalise | executor outliving its lease, lanes of one process sharing an owner id | only the current token writes |
| Tool invocations (`runtime/tool_idempotency.py`, `tool_execution.py`) | PREPARED ... COMMITTED / UNKNOWN / NOT_COMMITTED | prepare, start, commit, reconcile, resolve | crash around an external side effect, a call that times out and goes on | never run twice, never believed when unknown, settled in the end; a row that Stage 8 prepares ahead of its approval starts nothing |
| Approvals (`runtime/approval.py`, `durable_approval.py`) | decision, execution claim | create, decide, invalidate, claim, resume | decision against cancellation, takeover | at most one execution claim, none after invalidation |
| Agent loop (`runtime/agent_loop/`, `repositories/agent_loop.py`, `agent_delegation.py`, `execution.py`) | frames, iterations, actions, a delegation, the final receipt | open, ask, accept, run a batch, hand off, stop, suspend, recover, publish | executor lost inside a batch, root and child on one write, unknown outcomes | a write once, after its reads; the model is told what happened; one final answer |
| Recovery (`runtime/recovery_coordinator.py`, `execution.py`, `runtime_factory.py`) | root, step, model and tool rows | scan, claim, classify, rehydrate, drive again | racing lanes, a second crash, open outcomes | fails closed, rows are fenced |
| Run execution (`run_coordinator.py`, `scheduler.py`, `parallel_execution.py`, `step_completion.py`, `output_gate.py`) | step and run status, batch, gate | claim, execute, complete, publish final, finalise | fail-fast against completion, cancellation at any await | success means everything was done and shown once |
| Model invocation (`model_invocation.py`, `retry.py`, `circuit_breaker.py`, `budget.py`) | chain position, permit, reservation, durable attempt | acquire, reserve, start, stream, finish, retry, fall back | overlapping calls, lost lease, streaming before a failure | one answer shown, budget holds, probes come back |
| Admission, registry, executors, shutdown (`admission.py`, `run_registry.py`, `blocking_executor.py`, `tool_concurrency.py`, `shutdown.py`) | gate, runs, threads, leases of resources | admit, register, submit, detach, cancel, drain, abort | a run registering during shutdown, threads outliving calls | a report of "fully closed" is true, resources exclude |
| Guardian (`stage13/guardian.py`, `guardian_worker.py`) | cycles, versions, occupancy, due work | discover, claim, submit, look up, poll, hold, resolve | remote call outliving its claim, lost answers | no second remote execution beside one that was not given up, every open cycle is driven |
| Incidents (`stage13/incident.py`, `incident_worker.py`) | collections, members, incidents, revisions, jobs | discover, fetch, ingest, refresh, seal, admit | late collectors, refresh after seal | sealed means collected, analysis within budget |
| Triage (`stage13/triage_execution.py`, `triage_runtime.py`) | job, runs, model call, receipt | claim, run, dispatch, receipt, finish | job and run leases lost separately | model paid once, status is the truth |
| MCP sessions (`mcp/lifecycle.py`) | sessions, clients, tasks | start, discover, reconnect, break, close | four kinds of tasks on one loop | no process forgotten, nothing broken kept |
| Trace export (`runtime/trace_export_dispatcher.py`) | queue, counters, worker | observe, flush, close | closers, flushers and a dying worker | what flush and close report is true |
| Scoped memory (`repositories/memory_lifecycle.py`, `memory_service.py`) | exchanges, records, project records, operations, bindings, scopes | load, bind, guard, append, form, correct, promote, mutate, delete, revoke | rows read before the locks, commands against a formation or a takeover | what was forgotten is gone everywhere |
| Everything else | | | | listed as components with the reason they are left out |

The parts interact through the tables and the database clock (jobs, outbox,
worker; run control, ledger, loop, recovery), through the Kafka topic, through the
channel and its lock (producer task, request coroutine, worker threads), and
through the cancellation token (requests, shutdown, deadline). `hazards` in
`PROJECT.json` lists what is hard to test, line by line, with the property that
watches it.

## 2. Modules

| Module | Models | Notes |
|---|---|---|
| `EvaluationStore` | the tables, the API's transactions, the topic, the clock | a deadline is the number of ticks left to it; one outbox event per job, hence the same name |
| `EvaluationWorker` | the consumer group and `_process_message` | `TxnBegin` reads, an `Apply` action writes: other transactions commit in between |
| `JobLifecycle` | what the owner of a job is promised | abstract specification, refined by `EvaluationWorker` |
| `OutboxPublisher` | `run_once` of several publishers, the sink, the backoff | `inflight` holds messages the producer still sends after a timeout |
| `EvaluationPipeline` | all three processes together | the publishers, not the environment, fill the topic |
| `EventChannel` | `RuntimeEventChannel` and the journal | a step is the code between two awaits |
| `ChannelScope` | one request around a channel | extends `EventChannel`; each step is a channel step or leaves the channel alone |
| `RunControl` | the run control row and lease objects | the base of the three modules below |
| `DurableTools` | ledger, approvals, execution claims, the Stage 8 caller, reconciliation lane, operator, provider | lanes of one process share an owner id, hence possibly a token |
| `AgentLoop` | the v2 loop of a run, its repositories and the coordinator's handlers | one transaction is one step; `wave` holds the concurrent calls of a batch |
| `RunRecovery` | scan, takeover, classification and the second drive of a plan | identities of tool invocations are the point |
| `RunExecution` | one run scope: coordinator, scheduler, workers, completion, gate | a step is the code between two awaits |
| `CircuitBreaker`, `BudgetLedger` | the two shared objects under their locks | |
| `ModelInvocation` | the candidate chain of an invocation | extends the two above |
| `ProcessShutdown` | admission, registry, executor, tool leases, shutdown | any wait of the shutdown may end by its bound |
| `GuardianSchedule`, `IncidentCollection`, `TriageExecution` | the stage 13 services and their workers | a service method is one transaction |
| `McpSession`, `TraceExport` | the MCP component, the export dispatcher | a step is the code between two awaits, or a critical section |
| `MemoryLifecycle` | the scoped memory of one user and a project | a transaction is one step, but an operation row may be the one its session read before the locks |
| `*_proofs` | | theorems |
| `MCDurableRun`, `MCRuntime`, `MCServices` | suites of components that share no state | `focus` names the one a behaviour exercises; the others stay as after `Init` |
| other `MC*` | | instances for TLC |

A suite is one run of several components: its state space is the sum of theirs,
not the product, and each property speaks of one component. It is used where
components do not interact in the code, or interact only through what one of
them already models (the control row).

State and code correspond one to one where the code has the state. Tables are
functions or records with the columns that some query reads: `job`, `result`,
`processed`, `outbox`; `control`, `inv`, `approval`; `loopRoot`, `frames`,
`iters`, `acts`, `delegation`; `root`, `rows`, `models`, `tools`; `cycles`,
`versions`, `occupancy`, `works`. Program counters (`pc`, `driver`, `lane`,
`task`, `work`, `stage`, `pub`, `closer`, `consumer`) say at which await,
transaction or wait a task stands, and the fields beside them what it has read.
`claimant`, `delivered`, `effects`, `acted`, `dispatches`, `showing`, `shown`
and `overdrawn` are history; `faults`, `outages`, `drafts`, `captures`,
`expiries` are budgets.

Abstractions worth knowing:

- A claim token is a uuid4; the model takes any token not in use. A token set
  with a spare value for every claim that can be remembered loses nothing.
- Kafka is one partition: a job's messages share a key and partitions share no
  row. Evaluation is a choice between success, permanent failure and
  exception.
- Copies of one message beyond `Copies` are not represented; two are enough for
  a duplicate and the retry of a duplicate.
- `attempt_count` saturates at `AttemptCap`, where the backoff is constant
  (`PublisherAssumption` says so).
- Journal events carry id, kind and sequence. The four kinds are the four ways
  in which `publish` treats cancellation and the journal treats the run's end.
- An `asyncio` step between two awaits is atomic. The cancellation token is set
  by other threads at any time; `execute_if_active` makes the check and the put
  one step. `capture_journal_watermark` is one step because it keeps the
  publish lock over both reads.
- The client feed is written in the journal's transaction and the
  observability dispatcher is fail-open; neither has state here. A failing feed
  write is one of the failed publications.
- A lease is a number of ticks; it runs down at any time, so a holder that is
  slow, suspended or dead is the same holder. In `AgentLoop` a process that dies
  is one that never steps again. `LockRunScope` serialises the methods of run
  control, ledger and approvals: each is one step.
- A provider is asked once per call and may act, refuse, or act after nobody
  listens any more. What it does is history (`effects`, `acted`), so that a
  property can compare it with what the ledger says.
- The budget has one dimension (the code repeats the check for each), a tool's
  arguments are its identity, and a read of the loop is any action with
  `read_only`.

## 3. Runs

| Run | Question | Instance |
|---|---|---|
| `worker` | can a crash, a rebalance, an expired lease, a duplicate, a poison message or an unfenced service call make the group skip work, the tables disagree or a zombie's result count; is every step a step of `JobLifecycle`; does every job end and the group catch up? | 1 job delivered twice, 1 poison message, 2 workers, 1 direct caller |
| `outbox` | can a slow, failed or dead publisher lose an event or spoil another's claim; is every event published? | 2 publishers, 2 events in one batch |
| `pipeline` | does anything fall between outbox and topic, and is every job processed? | 1 publisher, 2 workers, 1 job, 1 outage, 1 adverse event |
| `channel_safety` | do journal, queue and consumer lease survive every interleaving of publish, close, abort, drain and cancellation? | 2 publishers, 2 consumers, capacity 2, a resumed run, 1 failed publication |
| `channel_scope` | is a stream that ends normally complete, and does every request end? | 2 publishers, capacity 1, one recovered event, disconnect, grace timeout, a second cancellation, shutdown; 319,000 states |
| `tools_safety` | can a crash, a takeover, a lookup, an operator, a time-out, a delegation or a second frame make a side effect happen twice, a write run before its reads, a settled outcome change, or the loop observe what did not happen? | `MCDurableRun`: tools (2 executors in 2 processes, a reconciler, an operator, 1 gated invocation, three kinds of adapters, 3 tokens) and loop (a creator and a recovery lane, 3 tokens, four policies with batches of one, two and three); 1.6 million states |
| `tools_liveness` | is an invocation whose executor died settled or handed to an operator? | 1 mortal executor, 1 reconciler that is punctual |
| `runtime` | does the user see one answer, does the budget hold, is success complete, does recovery fail closed and is it fenced, is the shutdown's report true, do resources exclude? | `MCRuntime`: 2 callers over 2 candidates, one of them delegated; 2 steps and the final one, 2 parallel; 1 creator and 2 scanners on one step with an approval; 2 runs with threads |
| `services` | is every second remote execution beside one that was given up, is every cycle driven, is analysis earned, is triage truthful, are sessions managed, is export truthful, and is forgotten memory gone? | `MCServices`: 2 workers and, without expired claims, 2 days with 2 and 1 versions, or, with one, 2 days of 1 version; 2 collectors, 2 versions of one group; 2 triagers; 2 servers, 3 and 1 clients; 2 closers, 1 flusher, capacity 1; 2 chats on one topic, the second a correction, 2 executions of the formation, 1 command, configuration or expiry |
| `channel_sequence_reuse`, `recovery_replay`, `probe_lost` | violated, see section 6 | |

Why these bounds. Each hazard of the evaluation pipeline needs two workers (a
holder and a successor), one message twice, and at most two adverse events (the
holder is cut off, the successor too); a lease of one tick gives both orders of
expiry and receipt. Two events in one batch are the smallest batch in which a
lease expires between two publications. In the channel, two publishers contend
for the lock, two consumers for the lease; capacity 2 lets the sentinel and an
event be queued together, capacity 1 makes everyone wait; one recovered event
tells a loaded watermark from an unloaded one.

A durable run needs a first holder, a successor and one more takeover, which is
three tokens: the second successor finds what the first one left. In the loop's
instance a policy is a choice of batches: a write and a read in root and child
(with a child whose model may time out), a write between two reads that may go
out together, a gated write, and a root that reads without progress. There is one
recovery lane, so a claim is never refused in it; `runtime` has two. One
delegation; batches of one, two and three actions, because a wave is of two calls
at most and three are enough for a wave with something behind it (the proofs are
for every `max_batch_size`). The recovery instance has one step, since
steps are classified one by one, and two drives. A budget of five with
estimates of two and usages of one and three lets an answer fall short of and
exceed its reservation while another is out. The guardian has two days because
the next day's cycle may meet an execution in doubt, once with a second version
behind the first and once with a claim that another worker takes over, the incident instance two
versions because they move between groups, the memory instance two chats because
the second uses, corrects and may outlive what the first left, and one event of
the user or the clock (promotions are free) because each is compared with the
formations under way; two events were also tried, without an error. MCP three clients of one server so
that a replacement breaks as well.

Where a component may end with nothing to do (a channel that is never closed, a
run that is over, a bound that is reached), deadlock checking is off; the
liveness properties take its place where there are any. Symmetry is used in
safety runs only, over identities that no definition orders.

## 4. Fairness

- Workers and publishers: weak fairness of their steps. They are loops that are
  never disabled for good; `docker-compose` restarts a process that ends.
- Time: weak fairness of the tick, while a deadline is pending.
- Group coordinator: weak fairness of removing a member that is gone.
- Publisher as seen by the worker: every event gets into the topic once; in the
  pipeline this is not assumed but follows.
- Adverse events are finite (budgets) and never forced; submitting, cancelling
  and duplicates are never forced.
- A request: tasks that can run are run, the journal answers, the coordinator's
  execution ends, a client for which an item waits reads it or goes away. No
  fairness of publications, cancellation (the second one, of the cleanup,
  included), timeouts, faults or shutdown.
- Tools: executors and reconcilers of live processes take their steps, leases
  and backoffs elapse (weak fairness). An execution ends, as its deadline is
  absolute: strong fairness of leaving, either with the approvals invalidated or,
  as a Stage 8 call does, with the run given back open, because a lease that
  comes and goes disables it again and again. The reconciler of the
  instance finishes a lookup within its lease (`Punctual`); one that never does
  never settles anything. Nothing is assumed of the provider, the operator or
  the user.

## 5. Theorems

All proofs are for arbitrary sets and bounds, from the named assumptions of the
modules: identities are distinct from sentinels, leases and capacities are
positive, budgets are numbers. The less obvious ones, and why the code
justifies them:

- `PublisherAssumption`: the model has room for one copy of each event in the
  topic at least, and the backoff is constant from `AttemptCap` on.
- `StoreAssumption`: the value for "nobody" is neither a process nor a job.
- `ShutdownAssumption`, `BudgetAssumption`, `IncidentAssumption`: runs, callers
  of a ledger and failed versions of a day are finite sets. `MaxJobs` is at most
  two, as `incident.py` has it: a third job could have the first one's
  material, which `admit` compares with the latest revision only.
- `RecoveryAssumption`: one scanner for each process; `server.py` builds one
  `RecoveryCoordinator`, with the instance id of its process.
- `LoopAssumption`: a batch has one write at most (`accept_batch` refuses it with
  LOOP_BATCH_MULTIPLE_WRITES), and one recovery lane for each process. A batch
  has up to `MaxBatch` actions (`max_batch_size`, four by default), any positive
  number here.
- `McpAssumption`: a server is configured once.

### Durable runs

`RunControl_proofs` has what the proofs about a lease share: the control row
keeps its type whatever the lease service does, and, where lanes claim only what
nobody holds, no token is in two hands (`TokensAreApart`), so that two current
lanes are one.

`DurableTools_proofs`. `EffectAtMostOnce` counts effects, calls still on their
way and calls waited for, and is not inductive: it depends on who may still ask.
Its `IInv` adds that one lane at most is about to ask or waiting for an answer
(`Asks`), and only while nothing has happened; that nobody is while the row is
none or PREPARED (`AskedOnce`); that lanes that repair the ledger are about rows
that were started (`LanesArePlaced`), so that no row goes back; that an answer
"acted" or COMMITTED is true (`AnswersAreTrue`); and that a lane about to
prepare or start a gated row has its approval and its claim, and the row it
prepared stays bound to that claim (`ClaimIsEarned`): the row that a Stage 8 call
prepares ahead of the decision has none, and nobody starts it. It needs no
uniqueness of tokens: that a row leaves PREPARED once is enough, whoever shares
the owner's id. It yields `ToolsTypes`, `EffectsHappenOnce`, `CommittedIsTrue`,
`GatedIsApproved` and the action properties `LedgerFencing` and `SettledStays`.

`AgentLoop_proofs`. None of the three invariants is inductive: what a step does
to a row depends on where its executor stands, and an executor may have stopped
anywhere before another one takes its batch up. `LoopInv` says three kinds of
things. Of the rows alone: a result is its tool's, only what was not started is
skipped (`RowsAreSound`); a write's key is in one row of the whole run
(`KeysAreApart`) and a batch has one write (`OneWrite`); beside a write that is
under way every read has succeeded and is recorded (`WritesFollow`), and an action
is skipped only because another one of its batch failed or when the child is
closed (`SkipsHaveCause`). Of rows and
frames: an open tool is in the last iteration of a frame that waits or is stopped
(`FramesAreSound`), an observed iteration has all its outcomes
(`ObservedIsWhole`), a delegation with a result leaves nothing open
(`ChildIsClosed`). Of the executor that has the run, and of no other: its queue,
its calls and what is behind it partition the batch and agree with the rows
(`QueueFits`), and the write is called only with all its reads good: until a
failure is known, or one is still to be met among what is not over, all that is
over has succeeded (`WriteWaits`). An executor that lost the run says nothing, because each of its
transactions checks the token (`Locks`) and `TokensAreApart` makes the holder
unique; `LoadBatch` establishes the third part again from the first two. It
yields `WritesHappenOnce`, `WritesComeLast` and `ObservationStaysWhole`, for the
root and its one child, for any number of iterations and any length of a batch
up to `MaxBatch`.

### Evaluation

`EvaluationWorker_proofs`. `CommittedIsSettled` is not inductive: what a worker
is about to commit was decided several steps earlier. `IInv` adds, per job, that
the three tables agree, that claim columns are set only while the job is
RUNNING, and that the last claimant is known as long as it may write; per
worker, that what its open transaction has read is still true where it matters
(a terminal status and a dedup row never go away, a matching token still names
this worker), and that a worker at "commit" has its message settled; for the
group, that a member that believes in its assignment and is assigned stands at
the committed offset. From it follow `TypeCorrect`, `OffsetSafety`,
`OutcomesAgree`, `Fencing`, `CancellationSafety` and, as an action property,
`OutcomesFinal`. `Refinement` shows that the workers implement `JobLifecycle`
under the mapping of `EvaluationWorker!Lifecycle`; it uses the same invariant,
because an offset commit maps to an acknowledgement that the lifecycle allows
only for a settled job.

`OutboxPublisher_proofs`. `PInv` adds that what a publisher holds, or has left
with its producer, was submitted, and that one about to mark an event has it in
the topic. From it follow `PublisherTypes` (with the bounds of lease and
backoff), `PublishedReachedTheTopic` and the action property
`LeasesAreExclusive`.

### Requests

`ChannelScope_proofs`, on the channel: `IInv` adds that the holders of the publish lock are the
calls past it (`LockInv`); that ids are fresh until written (`FreshInv`); that
the channel's counter never exceeds the journal's length and an event past its
append is the journal's last (`SeqInv`); that such an event is newer than all
queued and delivered ones (`NewestInv`); that with the sentinel queued nobody
holds the lock unless aborted (`EndInv`); and how the consumer lease and the
tasks using it correspond (`LeaseInv`). From it follow `ChannelTypeCorrect`,
`JournalSound`, `DeliveryIsJournalFirst`, `ConsumerIsExclusive`, `EndsCleanly`,
and the action properties `StableStates` and `CancellationHides`. Note that the
journal is proved sound although the counter may lag behind it: the reuse of a
sequence number in section 6 costs availability, not integrity. `TypeOK`,
`EndIsLast`, `OutcomeIsFinal` and `CancelledNeverClaimed` are stated only by
theorems.

On the request: `ScopeUsesChannel` shows that a request is a behaviour of
the channel, and `ScopeSafety` transfers the channel's theorems.
`StreamCompletes` needs `StreamInv`: as long as nothing was cancelled and no
publication failed, what the consumer has, then the queue, then an event that is
appended and not yet queued, is what the run added to its journal, in order
(`FlowInv`); the sentinel is queued only by a close (`SealInv`); and a stream that
has ended holds nothing back (`DoneInv`). It is stated for a journal that already
has a recovered prefix.

### Inside a run

`Runtime_proofs` has one part for each module.

- `OneAnswer`: output belongs to the present attempt, and an invocation that has
  shown some is past the point from which another attempt can be made.
- `BudgetIsKept`: inductive with its typing; the lemmas say what becomes of the
  sum when one of finitely many reservations is made or ended.
- `SuccessIsReal`: what a worker's place says of its step, the gate and the
  result (`WorkersArePlaced`, `GateFollows`); and that a step that succeeded in
  memory and has no worker left is settled, or the batch has reported trouble, or
  a step has failed (`SuccessIsAccounted`). `Blocked` is the least set closed
  under failed dependencies, so that no recursion is needed.
- `RecoveryIsClosed` and the action property `RowFencing`: the row of a step that
  a current lane drives is RUNNING; an open model attempt is the one its owner
  waits for; a step has one open invocation at most, and none where the lane that
  owns the run may start one, in its list or before its tool (`OneIsOpen`).
  `RowsAreFenced` names the writer: every lane that moves in a step that changes a
  row is the current one in that step, so a scope that lost the run writes nothing,
  also when its successor drives the very attempt it was driving.
- `ClosedIsClosed`, `ToolsExclude`: as long as no operation of the shutdown
  failed, each stage has achieved what the next one relies on (`CleanSoFar`): no
  run under construction, every one that is ready or executing registered, the
  registry and the executors empty; the tool's resource has one holder, threads
  left behind included.

### Services

`Services_proofs` has one part for each module.

- `AnalysisStaysEarned`: nothing is collected of a version that is not complete;
  the members of a sealed incident are collected; the budget's counter is the
  number of admitted jobs; and while there is budget, an incident with jobs has
  one admitted for its latest revision, which is why a new material is new.
- `TriageReportsTheTruth`: a run counts its dispatch in its call; a task that has
  asked is the only one for its run; what a task has read of a run that ended is
  still so when it judges, but for a call that was made known since. A run may
  fail with its step complete (timeout, cancellation): its answer is kept and read,
  and a repair is made only of a root that SUCCEEDED.
- `SessionsStayManaged`: what start, a candidate, a session and a reconnect task
  of a server exclude of each other (`HasCandidate`, `HasTask`, `HasSession`);
  clients are spawned in order, and generations grow along that order.
- `ExportReportsTheTruth`: every accepted envelope is attempted, being sent or
  queued; the sentinel is in one place, and behind the last envelope.
- `ForgottenStaysGone`: whatever a run was given rests on an exchange it was also
  given (`RunsAreGrounded`); a chat that is forgotten or unshared is suppressed,
  and its formation skipped; a record that was erased has no body.
- `OneExecution`, `CyclesGoOn`: the invariant is about the store as a value
  (`StoreInv`), because a handler is a chain of store updates. The open cycle is
  the one that occupies the environment, unless a hold is on it (`CyclesMatch`);
  it has one row of work, whose version has only complete ones before it and
  untouched ones behind it, and which asks for what that version needs next
  (`OneRow`); and the number of a completed piece of work will not come again
  (`Spent`), so that `_due` never drops the row that would carry the cycle on.
  Requests are kept apart by the dispatch row that sent them. `RemotesFit` says
  that only that version, or the one held as unresolved, or one that was given up
  (`GivenUp`) runs on the provider or may still come to (`MayRun`); `CopiesFit`,
  that every request and execution comes from a submit that was counted, which is
  why a rejected first submit leaves nothing behind (`RejectedIsOver`) and a
  rejected second one may; `AnswersAreReal`, that what an answer says for good is
  still so when it is applied.

### Only model-checked

Everything temporal under fairness (`SubmittedTerminates`, `TopicDrains`,
`EventuallyPublished`, `SubmittedIsProcessed`, `RequestEnds`, `OpenIsSettled`),
which this prover does not do. Every invariant and action property of a passing
run is stated by a theorem.

## 6. Where the code and its comments disagree

- `channel_sequence_reuse`: the docstring of `publish` says that a sequence is
  consumed as soon as the journal succeeds and never reused. A cancellation that
  arrives during the append of an `OUTPUT_DELTA` cancels the append task and
  drops its outcome. If the row was committed, the counter stays behind, and the
  next event (the cancellation or the run's completion) gets the same number and
  is refused. The journal refuses the colliding number, so nothing is
  overwritten; the publication fails.
- `recovery_replay`: `prepare_recovery` makes a RUNNING step with a COMMITTED
  tool PENDING again, and the rehydrated scope attaches durable invocations to
  RUNNING steps only. The replay prepares a second invocation and the side
  effect happens again, although the recovery path promises to keep the identity.
- `probe_lost`: the failure handler of a model call writes the durable attempt
  before it completes the circuit permit. When the lease is lost the write
  raises, a half-open probe is never given back, and the breaker refuses every
  later call of that model until the process restarts.

Met while modelling, each visible in a model but not stated as a run:

- `agent_loop`: `suspend_loop` (execution.py:1056) accepts the phases of a v1
  frame only. A v2 loop that waits for a tool, an approval or its child is in
  WAIT_ACTIONS or WAIT_CHILD: suspending it raises LOOP_NOT_SUSPENDABLE, neither
  the wait nor the next scan is saved, the lease is not released, and a recovery
  lane counts a failed recovery, after `recovery_max_attempts` of which the run
  needs an operator. `docs/runtime/runtime_error_code_catalog.md:367` calls the
  state a non-terminal wait.
- A child frame with one UNKNOWN model attempt never commits its result
  (`commit_child_result`), although the iteration was decided by a later attempt.
- `invalidate_run` (durable_approval.py:126) is not fenced: an executor that lost
  the run invalidates the approvals its successor waits for. In a loop the
  successor then ends the run as cancelled.
- event_channel.py:283: the watermark counts as loaded before the read returns.
- The reconciliation of an unregistered tool (server.py:1571) writes nothing, so
  the row is selected again for ever.
- A cancellation during the write of a delivered step leaves SUCCEEDED in memory
  and CANCELLED in the row; the typed failure paths leave a RUNNING row under a
  root that has ended.
- An MCP cleanup that is cancelled inside `client.close` leaves its process
  unreaped. A trace export sentinel put for a dead worker is counted as a
  dropped envelope.
- Incidents: a stale claim raised inside the handler ends the worker's loop; a
  refresh followed by a failed fetch downgrades evidence that was available;
  `ingest` never reopens a sealed incident.
- Triage: an executor that lost the run may still dispatch the model, as the
  adapter's record is not fenced; with three tasks a late receipt may overwrite
  the one a finished job is bound to; a manifest mismatch of the oldest job blocks
  the ones behind it.
- Guardian: a definite error on a second submission (a refusal, a denial, a local
  error: `guardian_worker.py:136-143`), while the first is on its way, ends the
  version as DISPATCH_FAILED and frees the environment, and `resolve_hold` takes the
  state of any version of the cycle as proof, not of the one that is unresolved.
  In both cases a second execution may start beside the one that was given up.
  `SecondRemoteIsGivenUp` says that these are the only cases.
- A request cancelled once more while it waits for its shielded cleanup
  (`chat_service.py:589-599`) leaves through the `finally` block, which cancels the
  cleanup: `force_abort`, called on a TimeoutError only, does not happen. With the
  queue full, a publisher or the producer's close then waits for space until a
  shutdown aborts the channel. `RequestEnds` says that this is the only way in
  which a request leaves anybody waiting.
- Stage 8 prepares a gated invocation in the ledger before its approval is decided
  (`stage8/execution.py:245-253`), so being in the ledger says nothing of approval;
  leaving PREPARED does.
- Memory: `commit_candidates` reads its operation before the scope locks and
  again under them without `populate_existing`. If the session then returns the
  row it holds, a second execution of the formation still sees CANDIDATE and,
  since its own record now holds the topic, writes CONFLICT over COMMITTED,
  where `docs/runtime/scoped_memory_lifecycle_v1.md` has a replay return the
  original result. And a project record whose source was superseded is not
  visible but stays ACTIVE, so that `promote` of the correction is refused until
  it is revoked.
- model_invocation.py:1250 says an unknown outcome is not retried; a time-out
  before the first delta is.

## 7. Not modelled

Of the modelled parts: envelope and record encoding, digests, hash chain,
metrics and spans; the in-memory journal; the cancellation of a `close` call
that is itself under way (force abort cancels the producer and aborts the
channel in one step, so the interrupted close finds it aborted); risk
classification and presentation of approvals; sandbox backends; the loop's
budget, context compaction, adaptive stop, bounded polling, a second delegation
and the v1 driver; planning and memory formation of the coordinator; retry
delays; the guardian's `recover` and rate limits; evidence reads of triage; the continuation
row of Stage 8; of memory,
pre-plan admissions, the evidence record, disabled users and what the
extraction proposes.
Of the system: the parts marked `not_modelled` in `PROJECT.json`, each with its
reason. Most of what remains by line count has no state of its own to check:
contracts and their validation, settings, codecs, evaluation and capacity
scripts, prompt construction, the desktop client.

## 8. Plan

1. An abstract specification of a tool invocation whose effect happens at most
   once, refined by `DurableTools`.
2. Snapshots with the journal tail, pre-plan admissions of memory, retrieval with its
   cache, stage 13 delivery.
