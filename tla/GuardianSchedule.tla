-------------------------- MODULE GuardianSchedule --------------------------
(***************************************************************************)
(* GuardianScheduleService and GuardianWorker (core/stage13/guardian.py,   *)
(* guardian_worker.py) of one guardian and one environment: a daily cycle  *)
(* tests its versions one after the other on a remote provider             *)
(* (core/stage13/store.py).                                                *)
(*                                                                         *)
(* Every method of the service is one transaction that locks the rows it   *)
(* changes; the provider is called between two of them.  A worker's claim  *)
(* is fenced by a fresh token, here by the owner: a worker has one claim   *)
(* of a row at a time.  The delays of the schedule are arbitrary.          *)
(*                                                                         *)
(* A dispatch row sends at most one request, so a request on its way is    *)
(* known by the row's key; several requests of one version may be on their *)
(* way at once.                                                            *)
(***************************************************************************)
EXTENDS Naturals, FiniteSets

CONSTANTS
    Workers,      \* GuardianWorkers
    LastDay,      \* bound: business days
    PerCycle,     \* versions of each day's cycle (3)
    MaxSubmits,   \* submit_attempts (3)
    MaxLookups,   \* reconciliation_requests (60)
    MaxResults,   \* result_retries (3)
    MaxExpiries,  \* bound: claims that expire
    NoWorker

ASSUME GuardianAssumption ==
    /\ LastDay \in Nat \ {0} /\ PerCycle \in [1..LastDay -> Nat \ {0}]
    /\ MaxSubmits \in Nat \ {0} /\ MaxLookups \in Nat \ {0} /\ MaxResults \in Nat \ {0}
    /\ MaxExpiries \in Nat /\ NoWorker \notin Workers

Days == 1..LastDay
Versions == UNION {{d} \X (1..PerCycle[d]) : d \in Days}

VARIABLES
    day,         \* the business day; 0 before the first one
    late,        \* the deadline of this day's cycle has passed
    cycles,      \* CycleRow.status
    versions,    \* VersionRow
    occupancy,   \* OccupancyRow: cycle_id (0 is none), safety_hold, the day of the
                 \* last resolution and the versions that resolutions were about
    works,       \* open rows of DueRow
    used,        \* work keys that are completed; polls never repeat one
    expiries,    \* claims that have expired
    task,        \* claim, operation and answer of every worker
    remote,      \* the provider's row of a version's business key
    flying       \* dispatch rows with a submit request on its way, lost ones included

guardianVars == <<day, late, cycles, versions, occupancy, works, used, expiries, task,
                  remote, flying>>
providerVars == <<remote, flying>>

NoTask == [pc |-> "idle", key |-> <<>>, op |-> "none", answer |-> "none"]

\* A version before its dispatch, or after its end, when only its status and its
\* submits are read.
InStatus(st) == [status |-> st, known |-> TRUE, bound |-> FALSE, seen |-> "none",
                 submits |-> 0, lookups |-> 0, results |-> 0]

EndedAs(st, submits) == [InStatus(st) EXCEPT !.submits = submits]

GuardianInit ==
    /\ day = 0 /\ late = FALSE
    /\ cycles = [d \in Days |-> "none"]
    /\ versions = [v \in Versions |-> InStatus("none")]
    /\ occupancy = [cycle |-> 0, hold |-> FALSE, resume |-> 0, resolved |-> {}]
    /\ works = {} /\ used = {}
    /\ expiries = 0
    /\ task = [w \in Workers |-> NoTask]
    /\ remote = [v \in Versions |-> "none"]
    /\ flying = {}

CycleTerminal == {"SUCCEEDED", "FAILED", "UNRESOLVED", "CANCELLED", "SKIPPED_OVERLAP"}
VersionTerminal == {"COMPLETED", "INFRA_FAILED", "DISPATCH_FAILED", "UNRESOLVED", "CANCELLED", "SKIPPED"}
RemoteTerminal == {"COMPLETED", "CANCELLED"}   \* CANCELLED stands for INFRA_FAILED too

Late(d) == d < day \/ late

-----------------------------------------------------------------------------
(* Building blocks of a transaction: the rows it changes as one record *)

Store == [cycles |-> cycles, versions |-> versions, occupancy |-> occupancy,
          works |-> works, used |-> used]

\* Keys of an ended version are not asked for again.
Save(x) ==
    /\ cycles' = x.cycles /\ versions' = x.versions /\ occupancy' = x.occupancy
    /\ works' = x.works
    /\ used' = {k \in x.used : x.versions[k[1]].status \notin VersionTerminal}

\* MUTANT: the key of a piece of work leaves its number out.
DueOnce(x, v, op, seq) ==
    IF \E k \in x.used \cup {r.key : r \in x.works} : k[1] = v /\ k[2] = op THEN x
    ELSE [x EXCEPT !.works = @ \cup {[key |-> <<v, op, seq>>, owner |-> NoWorker,
                                      live |-> FALSE, started |-> FALSE]}]

\* _due: on a conflict with an existing key nothing is inserted.
Due(x, v, op, seq) ==
    LET key == <<v, op, seq>> IN
    IF key \in x.used \/ \E r \in x.works : r.key = key THEN x
    ELSE [x EXCEPT !.works = @ \cup {[key |-> key, owner |-> NoWorker, live |-> FALSE,
                                      started |-> FALSE]}]

\* The row is COMPLETED; a poll's key is never asked for again.
Done(x, key) ==
    [x EXCEPT !.works = {r \in @ : r.key # key},
              !.used = IF key[2] = "POLL_REMOTE" THEN @ ELSE @ \cup {key}]

\* MUTANT: an unresolved version gives the environment free.
StopWithoutHold(x, v, status, hold) ==
    [x EXCEPT !.versions = [u \in Versions |->
                  IF u = v THEN EndedAs(status, x.versions[v].submits)
                  ELSE IF u[1] = v[1] /\ @[u].status = "PLANNED"
                         THEN InStatus("SKIPPED") ELSE @[u]],
              !.cycles[v[1]] = IF status \in {"UNRESOLVED", "CANCELLED"} THEN status ELSE "FAILED",
              !.occupancy = IF @.cycle = v[1] THEN [@ EXCEPT !.cycle = 0] ELSE @]

\* _stop: the version, its cycle and what is still planned end.
Stop(x, v, status, hold) ==
    [x EXCEPT !.versions = [u \in Versions |->
                  IF u = v THEN EndedAs(status, x.versions[v].submits)
                  ELSE IF u[1] = v[1] /\ @[u].status = "PLANNED"
                         THEN InStatus("SKIPPED") ELSE @[u]],
              !.cycles[v[1]] = IF status \in {"UNRESOLVED", "CANCELLED"} THEN status ELSE "FAILED",
              !.occupancy = IF hold THEN [@ EXCEPT !.hold = TRUE]
                            ELSE IF @.cycle = v[1] THEN [@ EXCEPT !.cycle = 0] ELSE @]

\* _unknown_expired; the half hour since the first doubt may be over.
Expired(x, v, overdue) == x.versions[v].lookups >= MaxLookups \/ Late(v[1]) \/ overdue

\* _reconcile_due
ReconcileDue(x, v, overdue) ==
    IF Expired(x, v, overdue) THEN Stop(x, v, "UNRESOLVED", TRUE)
    ELSE Due(x, v, "RECONCILE_REMOTE", x.versions[v].lookups)

\* _poll_due, with the next number of the poll sequence
PollDue(x, v) == Due(x, v, "POLL_REMOTE", 0)

\* _result_retry
ResultRetry(x, v) ==
    IF x.versions[v].results >= MaxResults \/ Late(v[1])
      THEN Stop(x, v, "INFRA_FAILED", FALSE)
      ELSE LET n == x.versions[v].results + 1 IN
           Due([x EXCEPT !.versions[v].results = n], v, "FETCH_TERMINAL_RESULT", n)

\* _bind
Bind(x, v) ==
    LET y == [x EXCEPT !.versions[v].bound = TRUE, !.versions[v].status = "ACTIVE",
                       !.versions[v].known = TRUE]
    IN  IF x.versions[v].seen = "COMPLETED"
          THEN Due(y, v, "FETCH_TERMINAL_RESULT", x.versions[v].results)
          ELSE PollDue(y, v)

\* _progress and _release
Progress(x, v) ==
    LET next == <<v[1], v[2] + 1>> IN
    IF next \in Versions
      THEN IF x.versions[next].status = "PLANNED" THEN Due(x, next, "DISPATCH_VERSION", 0) ELSE x
      ELSE [x EXCEPT !.cycles[v[1]] = "SUCCEEDED",
                     !.occupancy = IF @.cycle = v[1] /\ ~@.hold THEN [@ EXCEPT !.cycle = 0] ELSE @]

\* _observe: a terminal summary may come before its result is complete.
Observe(x, v, state, valid) ==
    LET y == [x EXCEPT !.versions[v].seen = state, !.versions[v].known = TRUE] IN
    IF state = "COMPLETED" /\ valid
      THEN Progress([y EXCEPT !.versions[v] = EndedAs("COMPLETED", y.versions[v].submits)], v)
    ELSE IF state = "COMPLETED" THEN ResultRetry(y, v)
    ELSE IF state = "CANCELLED" THEN Stop(y, v, state, FALSE)
    ELSE PollDue(y, v)

-----------------------------------------------------------------------------
(* Days *)

\* The next business day; the last one's deadline, ten hours in, is over.
NewDay ==
    /\ day + 1 \in Days /\ day' = day + 1 /\ late' = FALSE
    /\ UNCHANGED <<cycles, versions, occupancy, works, used, expiries, task, providerVars>>

DeadlinePasses ==
    /\ day > 0 /\ ~late /\ late' = TRUE
    /\ UNCHANGED <<day, expiries, cycles, versions, occupancy, works, used, task, providerVars>>

EnvironmentTaken == occupancy.cycle # 0 \/ occupancy.hold \/ day <= occupancy.resume

\* discover: an occupied environment skips the whole cycle.
Discover ==
    /\ day > 0 /\ cycles[day] = "none"
    /\ IF EnvironmentTaken
         THEN Save([Store EXCEPT
                !.cycles[day] = "SKIPPED_OVERLAP",
                !.versions = [v \in Versions |-> IF v[1] = day THEN InStatus("SKIPPED") ELSE @[v]]])
         ELSE Save(Due([Store EXCEPT
                !.cycles[day] = "READY", !.occupancy.cycle = day,
                !.versions = [v \in Versions |-> IF v[1] = day THEN InStatus("PLANNED") ELSE @[v]]],
                <<day, 1>>, "DISPATCH_VERSION", 0))
    /\ UNCHANGED <<day, late, expiries, task, providerVars>>

-----------------------------------------------------------------------------
(* Workers *)

\* claim_due: a ready row, or one whose lease is over.
ClaimDue(w) ==
    /\ task[w].pc = "idle"
    /\ \E r \in works :
         /\ ~r.live
         /\ works' = (works \ {r}) \cup {[r EXCEPT !.owner = w, !.live = TRUE]}
         /\ task' = [task EXCEPT ![w] = [NoTask EXCEPT !.pc = "claimed", !.key = r.key]]
    /\ UNCHANGED <<day, late, expiries, cycles, versions, occupancy, used, providerVars>>

\* _locked: the row is still claimed by this worker and its lease is alive.
Mine(w) == {r \in works : r.key = task[w].key /\ r.owner = w /\ r.live}

\* StaleClaim.  A worker that died, or whose transaction failed, ends here too:
\* it does nothing more and its claim expires.
ClaimIsStale(w) ==
    /\ task[w].pc # "idle" /\ Mine(w) = {}
    /\ task' = [task EXCEPT ![w] = NoTask]
    /\ UNCHANGED <<day, late, expiries, cycles, versions, occupancy, works, used, providerVars>>

\* A transaction that ends the worker's task.
Ends(w, x) == Save(x) /\ task' = [task EXCEPT ![w] = NoTask] /\ UNCHANGED flying

\* prepare: what the row asks for, unless a submit was already started or the
\* version is in doubt; then it can only be looked up.
Restarted(r) == r.key[2] = "DISPATCH_VERSION" /\ r.started

Operation(r) ==
    IF Restarted(r) \/ ~versions[r.key[1]].known THEN "RECONCILE_REMOTE" ELSE r.key[2]

\* A dispatch that was started before is in doubt.
Prepared(r) ==
    IF Restarted(r) THEN [Store EXCEPT !.versions[r.key[1]].known = FALSE] ELSE Store

Begun(row, op) ==
    IF op = "DISPATCH_VERSION" THEN [row EXCEPT !.submits = @ + 1, !.status = "DISPATCHING"]
    ELSE IF op = "RECONCILE_REMOTE" THEN [row EXCEPT !.lookups = @ + 1]
    ELSE row

\* The operation is recorded and the tool is called.
BeginCall(w, r) ==
    LET v == r.key[1]
        submit == Operation(r) = "DISPATCH_VERSION"
    IN  /\ Save([Prepared(r) EXCEPT
                  !.versions[v] = Begun(@, Operation(r)),
                  !.cycles[v[1]] = IF submit THEN "RUNNING" ELSE @,
                  !.works = (@ \ {r}) \cup {[r EXCEPT !.started = TRUE]}])
        /\ task' = [task EXCEPT ![w].pc = "calling", ![w].op = Operation(r)]
        /\ flying' = IF submit THEN flying \cup {r.key} ELSE flying

Prepare(w) ==
    /\ task[w].pc = "claimed"
    /\ \E r \in Mine(w), overdue \in BOOLEAN :
         LET v == r.key[1]
             op == Operation(r)
             x == Prepared(r)
             seenEnd == versions[v].seen \in RemoteTerminal
             over == cycles[v[1]] \in CycleTerminal \/ versions[v].status \in VersionTerminal
             submit == op = "DISPATCH_VERSION"
         IN
         IF over THEN Ends(w, Done(Store, r.key))
         ELSE IF seenEnd /\ op = "FETCH_TERMINAL_RESULT" /\ Late(v[1])
           THEN Ends(w, Stop(Done(x, r.key), v, "INFRA_FAILED", FALSE))
         ELSE IF ~seenEnd /\ (Late(v[1]) \/ (op = "RECONCILE_REMOTE" /\ Expired(x, v, overdue)))
           THEN Ends(w, Stop(Done(x, r.key), v, "UNRESOLVED", TRUE))
         ELSE \* the lane is full and the row is given back, the submits are used
              \* up, or the operation may begin
              \/ Ends(w, [x EXCEPT !.works = (@ \ {r}) \cup
                             {[r EXCEPT !.owner = NoWorker, !.live = FALSE]}])
              \/ /\ submit /\ versions[v].submits >= MaxSubmits
                 /\ Ends(w, Stop(Done(x, r.key), v, "DISPATCH_FAILED", FALSE))
              \/ (submit => versions[v].submits < MaxSubmits) /\ BeginCall(w, r)
    /\ UNCHANGED <<day, late, expiries, remote>>

\* What the tool may answer, read from the provider now.  A request is rejected
\* while it is on its way: it did not leave the process (a denial, a lost lease, a
\* local error) or the provider refuses it; a receipt follows its arrival.
Answers(w) ==
    LET v == task[w].key[1] IN
    IF task[w].op = "DISPATCH_VERSION"
      THEN {"uncertain"} \cup (IF task[w].key \in flying THEN {"rejected"}
                              ELSE IF remote[v] \in {"none", "sealed"} THEN {} ELSE {"receipt"})
    ELSE IF task[w].op = "RECONCILE_REMOTE"
      THEN {"error", IF remote[v] = "none" THEN "NOT_CREATED"
                     ELSE IF remote[v] = "sealed" THEN "NOT_CREATED_FINAL" ELSE "FOUND"}
    ELSE {"error", remote[v]}

\* A rejection says nothing of the version's earlier requests.
Answered(w) ==
    /\ task[w].pc = "calling"
    /\ \E a \in Answers(w) :
         /\ task' = [task EXCEPT ![w].pc = "answered", ![w].answer = a]
         /\ flying' = IF a = "rejected" THEN flying \ {task[w].key} ELSE flying
    /\ UNCHANGED <<day, late, expiries, cycles, versions, occupancy, works, used, remote>>

\* What finish makes of an answer; long and valid are the clock and the
\* completeness of a summary.  The order within the transaction does not matter
\* here: a completed row still keeps its key from being inserted again.
Outcome(x, v, op, answer, long, valid) ==
    LET doubt == [x EXCEPT !.versions[v].known = FALSE] IN
    IF op = "DISPATCH_VERSION" THEN
        IF answer = "receipt" THEN Bind(x, v)
        ELSE IF answer = "uncertain" THEN ReconcileDue(doubt, v, long)
        ELSE Stop(x, v, "DISPATCH_FAILED", FALSE)
    ELSE IF op = "RECONCILE_REMOTE" THEN
        IF answer = "error" THEN ReconcileDue(doubt, v, long)
        ELSE IF answer = "FOUND" THEN Bind(x, v)
        ELSE IF answer = "NOT_CREATED_FINAL" THEN Stop(x, v, "DISPATCH_FAILED", FALSE)
        ELSE IF x.versions[v].bound THEN ReconcileDue(x, v, long)
        ELSE IF x.versions[v].submits < MaxSubmits
          THEN Due([x EXCEPT !.versions[v].known = TRUE], v, "DISPATCH_VERSION",
                   x.versions[v].submits)
        ELSE Stop(x, v, "UNRESOLVED", TRUE)
    ELSE IF answer # "error" THEN Observe(x, v, answer, valid)
    ELSE IF op = "FETCH_TERMINAL_RESULT" THEN ResultRetry(x, v)
    ELSE IF long THEN ReconcileDue(doubt, v, FALSE)
    ELSE PollDue(x, v)

\* finish; a cycle that has ended meanwhile makes the claim stale.
FinishWork(w) ==
    /\ task[w].pc = "answered"
    /\ \E r \in Mine(w), long, valid \in BOOLEAN :
         LET v == r.key[1]
             ended == cycles[v[1]] \in CycleTerminal \/ versions[v].status \in VersionTerminal
         IN  Ends(w, IF ended THEN Store
                     ELSE Outcome(Done(Store, r.key), v, task[w].op, task[w].answer, long, valid))
    /\ UNCHANGED <<day, late, expiries, remote>>

ClaimExpires ==
    /\ expiries < MaxExpiries /\ expiries' = expiries + 1
    /\ \E r \in works : r.live /\ works' = (works \ {r}) \cup {[r EXCEPT !.live = FALSE]}
    /\ UNCHANGED <<day, late, cycles, versions, occupancy, used, task, providerVars>>

-----------------------------------------------------------------------------
(* Provider and operator *)

\* ProviderStore.submit: one execution per business key, none after a seal.
ProviderAccepts(k) ==
    /\ k \in flying /\ remote[k[1]] # "sealed" /\ flying' = flying \ {k}
    /\ remote' = [remote EXCEPT ![k[1]] = IF @ = "none" THEN "RUNNING" ELSE @]
    /\ UNCHANGED <<day, late, expiries, cycles, versions, occupancy, works, used, task>>

\* advance_execution
RemoteEnds(v) ==
    /\ remote[v] = "RUNNING"
    /\ \E s \in RemoteTerminal : remote' = [remote EXCEPT ![v] = s]
    /\ UNCHANGED <<day, late, expiries, cycles, versions, occupancy, works, used, task, flying>>

\* ProviderStore.seal, by an operator
Seal(v) ==
    /\ versions[v].status # "none"
    /\ remote[v] = "none" /\ remote' = [remote EXCEPT ![v] = "sealed"]
    /\ UNCHANGED <<day, late, expiries, cycles, versions, occupancy, works, used, task, flying>>

\* resolve_hold with the seal or the terminal state of a version of the cycle as
\* proof; it need not be the version that is unresolved.
ResolveHold(v) ==
    /\ cycles[v[1]] = "UNRESOLVED" /\ occupancy.hold /\ occupancy.cycle = v[1]
    /\ remote[v] \in RemoteTerminal \cup {"sealed"}
    /\ occupancy' = [cycle |-> 0, hold |-> FALSE, resume |-> day,
                     resolved |-> occupancy.resolved \cup {v}]
    /\ UNCHANGED <<day, late, expiries, cycles, versions, works, used, task, providerVars>>

GuardianNext ==
    \/ NewDay \/ DeadlinePasses \/ Discover \/ ClaimExpires
    \/ \E w \in Workers : \/ ClaimDue(w) \/ ClaimIsStale(w) \/ Prepare(w)
                          \/ Answered(w) \/ FinishWork(w)
    \/ \E k \in flying : ProviderAccepts(k)
    \/ \E v \in Versions : RemoteEnds(v) \/ Seal(v) \/ ResolveHold(v)

GuardianSpec == GuardianInit /\ [][GuardianNext]_guardianVars

-----------------------------------------------------------------------------
\* The guardian has let the environment go although the version may still be
\* executed: a later one of its submits met a definite error while an earlier one
\* was on its way (finish), or the hold was resolved by what became of another
\* version of its cycle (resolve_hold).
GivenUp(v) ==
    \/ versions[v].status = "DISPATCH_FAILED" /\ versions[v].submits > 1
    \/ /\ versions[v].status = "UNRESOLVED"
       /\ \E u \in occupancy.resolved : u # v /\ u[1] = v[1]

\* The environment is tested by one remote execution at a time, whatever
\* answers are lost, claims expire or submits arrive late, and not even the next
\* day's cycle starts beside an execution in doubt (_stop with hold, discover,
\* _progress, resolve_hold), except beside a version that was given up by hand or
\* by a definite error on a submit that was not its first.
SecondRemoteIsGivenUp ==
    \A u, v \in Versions :
        u # v /\ remote[u] = "RUNNING" /\ remote[v] = "RUNNING" => GivenUp(u) \/ GivenUp(v)

\* A cycle that has not ended has exactly one open piece of work, so it goes on
\* under every crash and takeover and no version is driven twice at once (_due
\* drops a row whose key exists, every finish schedules the next one).
CycleIsDriven ==
    \A d \in Days : cycles[d] \in {"READY", "RUNNING"} =>
        Cardinality({r \in works : r.key[1][1] = d
                                   /\ versions[r.key[1]].status \notin VersionTerminal}) = 1

=============================================================================
