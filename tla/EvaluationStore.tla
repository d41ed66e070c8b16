--------------------------- MODULE EvaluationStore ---------------------------
(***************************************************************************)
(* The PostgreSQL tables behind the durable evaluation jobs and the        *)
(* transactions that the API process runs on them                          *)
(* (core/evaluation_jobs.py over                                           *)
(* core/persistence/repositories/evaluation_jobs.py), together with the    *)
(* Kafka topic partition that carries the queued events.                   *)
(*                                                                         *)
(* One job has exactly one outbox event, written by the transaction that   *)
(* inserts the job, so both are named by the job.  A deadline column is    *)
(* represented by the number of clock ticks left until it: 0 means         *)
(* "deadline <= now()" or NULL, which every query treats alike.  Row       *)
(* counters that no query reads (version, attempt, timestamps) and the     *)
(* payload columns are left out.                                           *)
(***************************************************************************)
EXTENDS Naturals, Sequences, FiniteSets

CONSTANTS
    Jobs,        \* job identifiers; the outbox event of a job has its name
    Workers,     \* evaluation worker processes
    Publishers,  \* outbox publisher processes
    Tokens,      \* claim tokens (uuid4): any set with a value not in use
    Direct,      \* in-process callers of start/complete_* ({} in production)
    Copies,      \* bound: copies of each message the partition represents
    NoOne,       \* SQL NULL of the claim columns
    Poison       \* a message that is not an event of the outbox

ASSUME StoreAssumption ==
    /\ Copies \in [Jobs \cup {Poison} -> Nat]
    /\ NoOne \notin Workers \cup Publishers \cup Direct \cup Tokens \cup Jobs
    /\ Workers \cap Direct = {}
    /\ Poison \notin Jobs

VARIABLES
    job,        \* evaluation_jobs: status and the worker claim columns
    result,     \* evaluation_results: who produced the row, NoOne if absent
    processed,  \* consumer_processed_events: outcome, "none" if absent
    outbox,     \* outbox_events: status, claim columns, available_at, attempts
    log         \* the Kafka partition: a sequence of jobs and Poison

storeVars == <<job, result, processed, outbox, log>>

Terminal == {"SUCCEEDED", "FAILED", "CANCELLED"}
JobStatus == {"none", "QUEUED", "RUNNING"} \cup Terminal
Outcome == {"SUCCEEDED", "FAILED", "CANCELLED_NOOP", "TERMINAL_NOOP"}

JobRow == [status : JobStatus, owner : Workers \cup {NoOne},
           token : Tokens \cup {NoOne}, lease : Nat]
OutboxRow == [status : {"none", "PENDING", "PUBLISHED"},
              owner : Publishers \cup {NoOne}, token : Tokens \cup {NoOne},
              lease : Nat, delay : Nat, attempts : Nat]
Message == Jobs \cup {Poison}

StoreTypeOK ==
    /\ job \in [Jobs -> JobRow]
    /\ result \in [Jobs -> Workers \cup Direct \cup {NoOne}]
    /\ processed \in [Jobs -> Outcome \cup {"none"}]
    /\ outbox \in [Jobs -> OutboxRow]
    /\ log \in Seq(Message)

StoreInit ==
    /\ job = [j \in Jobs |-> [status |-> "none", owner |-> NoOne,
                              token |-> NoOne, lease |-> 0]]
    /\ result = [j \in Jobs |-> NoOne]
    /\ processed = [j \in Jobs |-> "none"]
    /\ outbox = [j \in Jobs |-> [status |-> "none", owner |-> NoOne,
                                 token |-> NoOne, lease |-> 0,
                                 delay |-> 0, attempts |-> 0]]
    /\ log = <<>>

----------------------------------------------------------------------------
(* Row updates of the repository *)

\* A job row moved to `status` with its claim columns cleared.
Unclaimed(status) ==
    [status |-> status, owner |-> NoOne, token |-> NoOne, lease |-> 0]

\* Mutant: a RUNNING job is never taken over.
QueuedOnly(j) == job[j].status = "QUEUED"

\* Mutant: an outcome without a live claim is up for another attempt.
ClaimableAgain(j) == job[j].status # "none" /\ job[j].lease = 0

\* The row predicate of claim_job.
Claimable(j) ==
    \/ job[j].status = "QUEUED"
    \/ job[j].status = "RUNNING" /\ job[j].lease = 0

\* Mutant: the update asks only for the status.
FencedByStatus(j, w, token, live) == job[j].status = "RUNNING"

\* The row predicate of succeed_running_job and fail_running_job for a worker:
\* `live` is "worker_claim_deadline > now()", and now() is the start time of
\* the transaction.
Fenced(j, w, token, live) ==
    /\ job[j].status = "RUNNING"
    /\ job[j].owner = w
    /\ job[j].token = token
    /\ live

----------------------------------------------------------------------------
(* Transactions of EvaluationJobService called by the API process *)

\* submit: the job and its outbox event appear in one transaction.
Submit(j) ==
    /\ job[j].status = "none"
    /\ job' = [job EXCEPT ![j] = Unclaimed("QUEUED")]
    /\ outbox' = [outbox EXCEPT ![j].status = "PENDING"]
    /\ UNCHANGED <<result, processed, log>>

\* Mutant: a running job can be cancelled too.
CancelRunning(j) ==
    /\ job[j].status \in {"QUEUED", "RUNNING"}
    /\ job' = [job EXCEPT ![j] = Unclaimed("CANCELLED")]
    /\ UNCHANGED <<result, processed, outbox, log>>

\* cancel: only a queued job can be cancelled; otherwise an error is raised
\* and nothing changes.
Cancel(j) ==
    /\ job[j].status = "QUEUED"
    /\ job' = [job EXCEPT ![j] = Unclaimed("CANCELLED")]
    /\ UNCHANGED <<result, processed, outbox, log>>

\* start, complete_success and complete_failure carry no claim: they are the
\* unfenced entry points of the service, called by nothing in production.
DirectStart(d, j) ==
    /\ d \in Direct
    /\ job[j].status = "QUEUED"
    /\ job' = [job EXCEPT ![j] = Unclaimed("RUNNING")]
    /\ UNCHANGED <<result, processed, outbox, log>>

DirectSuccess(d, j) ==
    /\ d \in Direct
    /\ job[j].status = "RUNNING"
    /\ job' = [job EXCEPT ![j] = Unclaimed("SUCCEEDED")]
    /\ result' = [result EXCEPT ![j] = d]
    /\ UNCHANGED <<processed, outbox, log>>

DirectFailure(d, j) ==
    /\ d \in Direct
    /\ job[j].status = "RUNNING"
    /\ job' = [job EXCEPT ![j] = Unclaimed("FAILED")]
    /\ UNCHANGED <<result, processed, outbox, log>>

ServiceStep ==
    \E j \in Jobs :
        \/ Submit(j)
        \/ Cancel(j)
        \/ \E d \in Direct :
              DirectStart(d, j) \/ DirectSuccess(d, j) \/ DirectFailure(d, j)

\* One unit of database time passes for every deadline column.
Elapse(n) == IF n > 0 THEN n - 1 ELSE 0

TickRows ==
    /\ job' = [j \in Jobs |-> [job[j] EXCEPT !.lease = Elapse(@)]]
    /\ outbox' = [j \in Jobs |-> [outbox[j] EXCEPT !.lease = Elapse(@),
                                                   !.delay = Elapse(@)]]
    /\ UNCHANGED <<result, processed, log>>

TimePending ==
    \E j \in Jobs : job[j].lease > 0 \/ outbox[j].lease > 0 \/ outbox[j].delay > 0

\* The broker appends a message to the partition; copies beyond the bound are
\* not represented.
CopiesOf(m) == Cardinality({i \in 1..Len(log) : log[i] = m})

AppendLog(m) == log' = IF CopiesOf(m) < Copies[m] THEN Append(log, m) ELSE log

InTopic(m) == \E i \in 1..Len(log) : log[i] = m

=============================================================================
