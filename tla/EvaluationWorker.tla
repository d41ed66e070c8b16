-------------------------- MODULE EvaluationWorker --------------------------
(***************************************************************************)
(* The Kafka evaluation workers (core/evaluation_worker.py): a consumer    *)
(* group on one topic partition, the database transactions with which a    *)
(* worker claims a job and records its outcome, and the offset commit that *)
(* follows them.  The event key is the job id, so every message of a job   *)
(* is in one partition, and partitions share no row: one partition         *)
(* represents them all.                                                    *)
(*                                                                         *)
(* A transaction that reads before it writes is two steps, TxnBegin and    *)
(* one of the Apply actions: under READ COMMITTED another transaction may  *)
(* commit in between.  The UPDATE holds the row lock until COMMIT, so the  *)
(* writes of one transaction are one step.                                 *)
(*                                                                         *)
(* Every adverse event of the environment (a process killed, a partition   *)
(* taken from a live consumer, a DLQ or evaluator failure, a shutdown, a   *)
(* lease that expires under a working holder) is paid from one budget,     *)
(* MaxFaults.  What the code itself does in response is free.              *)
(***************************************************************************)
EXTENDS EvaluationStore

CONSTANTS
    Lease,      \* job_lease_seconds in ticks
    MaxFaults   \* bound: adverse events of the environment

ASSUME WorkerAssumption == Lease \in Nat \ {0} /\ MaxFaults \in Nat

VARIABLES
    assignee,   \* broker: the group member the partition is assigned to
    committed,  \* broker: committed offset of the group
    dlq,        \* broker: offsets whose message was copied to the DLQ topic
    pc,         \* worker: where process_message is
    joined,     \* worker: assigned, and not _partition_lost
    pos,        \* worker: offset of the message being polled or processed
    token,      \* worker: claim_token of its WorkerClaim
    verdict,    \* worker: which transaction records the outcome
    txn,        \* worker: what the open transaction has read
    claimant,   \* history: the worker that claimed the job last
    faults      \* adverse events so far

brokerVars == <<assignee, committed, dlq>>
localVars == <<pc, joined, pos, token, verdict, txn>>
workerVars == <<brokerVars, localVars, claimant, faults>>

Snapshot == [done : BOOLEAN, status : JobStatus, live : BOOLEAN]
NoTxn == [done |-> FALSE, status |-> "none", live |-> FALSE]
PcValues == {"down", "poll", "handle", "exec", "settle", "apply", "commit"}

WorkerTypeOK ==
    /\ assignee \in Workers \cup {NoOne}
    /\ committed \in Nat
    /\ dlq \in SUBSET Nat
    /\ pc \in [Workers -> PcValues]
    /\ joined \in [Workers -> BOOLEAN]
    /\ pos \in [Workers -> Nat]
    /\ token \in [Workers -> Tokens \cup {NoOne}]
    /\ verdict \in [Workers -> {"none", "success", "failure", "noop"}]
    /\ txn \in [Workers -> Snapshot]
    /\ claimant \in [Jobs -> Workers \cup {NoOne}]
    /\ faults \in Nat

WorkerInit ==
    /\ assignee = NoOne
    /\ committed = 0
    /\ dlq = {}
    /\ pc = [w \in Workers |-> "poll"]
    /\ joined = [w \in Workers |-> FALSE]
    /\ pos = [w \in Workers |-> 0]
    /\ token = [w \in Workers |-> NoOne]
    /\ verdict = [w \in Workers |-> "none"]
    /\ txn = [w \in Workers |-> NoTxn]
    /\ claimant = [j \in Jobs |-> NoOne]
    /\ faults = 0

\* The message worker w is processing.
Msg(w) == log[pos[w] + 1]

Fault == faults < MaxFaults /\ faults' = faults + 1

----------------------------------------------------------------------------
(* Consumer group membership *)

\* on_assign: a polling worker without an assignment gets the partition and
\* starts at the committed offset.
Join(w) ==
    /\ pc[w] = "poll" /\ ~joined[w] /\ assignee = NoOne
    /\ assignee' = w
    /\ joined' = [joined EXCEPT ![w] = TRUE]
    /\ pos' = [pos EXCEPT ![w] = committed]
    /\ UNCHANGED <<storeVars, committed, dlq, pc, token, verdict, txn,
                   claimant, faults>>

\* The group coordinator removes a member: free of charge when that process
\* is no longer there, otherwise a rebalance or an expired session.
Evict ==
    /\ assignee # NoOne
    /\ assignee' = NoOne
    /\ IF joined[assignee] THEN Fault ELSE UNCHANGED faults
    /\ UNCHANGED <<storeVars, committed, dlq, localVars, claimant>>

\* on_revoke / on_lost: the client learns that the partition is gone.
Lose(w) ==
    /\ joined[w] /\ assignee # w
    /\ joined' = [joined EXCEPT ![w] = FALSE]
    /\ UNCHANGED <<storeVars, brokerVars, pc, pos, token, verdict, txn,
                   claimant, faults>>

\* The process ends: an exception leaves run(), whose finally clause closes
\* the consumer and so leaves the group.
StopWorker(w) ==
    /\ pc' = [pc EXCEPT ![w] = "down"]
    /\ joined' = [joined EXCEPT ![w] = FALSE]
    /\ assignee' = IF assignee = w THEN NoOne ELSE assignee
    /\ UNCHANGED <<committed, dlq, pos, token, verdict, txn, claimant>>

\* The process is killed: the group keeps the member until its session ends.
Kill(w) ==
    /\ pc[w] # "down"
    /\ Fault
    /\ pc' = [pc EXCEPT ![w] = "down"]
    /\ joined' = [joined EXCEPT ![w] = FALSE]
    /\ UNCHANGED <<storeVars, brokerVars, pos, token, verdict, txn, claimant>>

Restart(w) ==
    /\ pc[w] = "down"
    /\ pc' = [pc EXCEPT ![w] = "poll"]
    /\ token' = [token EXCEPT ![w] = NoOne]
    /\ verdict' = [verdict EXCEPT ![w] = "none"]
    /\ txn' = [txn EXCEPT ![w] = NoTxn]
    /\ UNCHANGED <<storeVars, brokerVars, joined, pos, claimant, faults>>

----------------------------------------------------------------------------
(* process_message *)

\* run: poll returns the next message of the assignment, which may come from
\* the client's buffer after the partition was taken away.
Poll(w) ==
    /\ pc[w] = "poll" /\ joined[w] /\ pos[w] < Len(log)
    /\ pc' = [pc EXCEPT ![w] = "handle"]
    /\ UNCHANGED <<storeVars, brokerVars, joined, pos, token, verdict, txn,
                   claimant, faults>>

\* A message that does not decode, or that the outbox does not know, is copied
\* to the DLQ; only the broker's acknowledgement leads to the offset commit.
Reject(w) ==
    /\ pc[w] = "handle" /\ Msg(w) = Poison
    /\ dlq' = dlq \cup {pos[w]}
    /\ pc' = [pc EXCEPT ![w] = "commit"]
    /\ UNCHANGED <<storeVars, assignee, committed, joined, pos, token,
                   verdict, txn, claimant, faults>>

\* claim_for_worker succeeds: a fresh token and a new lease.  The freshness of
\* uuid4 is: no row and no worker still holds the value.
HeldTokens == {job[j].token : j \in Jobs} \cup {token[w] : w \in Workers}

Claim(w) ==
    /\ pc[w] = "handle" /\ Msg(w) \in Jobs
    /\ Claimable(Msg(w))
    /\ Tokens \ HeldTokens # {}
    /\ LET t == CHOOSE t \in Tokens \ HeldTokens : TRUE
       IN  /\ job' = [job EXCEPT ![Msg(w)] =
                        [status |-> "RUNNING", owner |-> w, token |-> t,
                         lease |-> Lease]]
           /\ token' = [token EXCEPT ![w] = t]
    /\ claimant' = [claimant EXCEPT ![Msg(w)] = w]
    /\ pc' = [pc EXCEPT ![w] = "exec"]
    /\ UNCHANGED <<result, processed, outbox, log, brokerVars, joined, pos,
                   verdict, txn, faults>>

\* claim_for_worker returns None: the job is terminal or its lease is live.
ClaimMiss(w) ==
    /\ pc[w] = "handle" /\ Msg(w) \in Jobs
    /\ ~Claimable(Msg(w))
    /\ verdict' = [verdict EXCEPT ![w] = "noop"]
    /\ pc' = [pc EXCEPT ![w] = "settle"]
    /\ UNCHANGED <<storeVars, brokerVars, joined, pos, token, txn, claimant,
                   faults>>

\* The evaluator returns a result, or raises PermanentEvaluationError.
Execute(w) ==
    /\ pc[w] = "exec"
    /\ \E v \in {"success", "failure"} : verdict' = [verdict EXCEPT ![w] = v]
    /\ pc' = [pc EXCEPT ![w] = "settle"]
    /\ UNCHANGED <<storeVars, brokerVars, joined, pos, token, txn, claimant,
                   faults>>

\* The recording transaction starts and reads the dedup row and the job.
TxnBegin(w) ==
    /\ pc[w] = "settle"
    /\ txn' = [txn EXCEPT ![w] =
                 [done   |-> processed[Msg(w)] # "none",
                  status |-> job[Msg(w)].status,
                  live   |-> job[Msg(w)].lease > 0]]
    /\ pc' = [pc EXCEPT ![w] = "apply"]
    /\ UNCHANGED <<storeVars, brokerVars, joined, pos, token, verdict,
                   claimant, faults>>

\* Mutant: the noop is recorded whatever the status of the job.
RecordsAnyNoop(w) ==
    ~txn[w].done /\ (txn[w].status \in Terminal \/ verdict[w] = "noop")

\* The transaction only records that there was nothing left to do, which
\* finalize_worker_success and record_processed_event_noop do when they read a
\* terminal job; record_worker_failure never does.
RecordsNoop(w) ==
    ~txn[w].done /\ txn[w].status \in Terminal /\ verdict[w] # "failure"

\* The transaction updates the job under the fence.
RecordsVerdict(w) ==
    /\ ~txn[w].done
    /\ \/ verdict[w] = "success" /\ txn[w].status \notin Terminal
       \/ verdict[w] = "failure"

\* Mutant: a duplicate ends the worker like a conflict.
DuplicateStops(w) ==
    /\ pc[w] = "apply" /\ txn[w].done
    /\ StopWorker(w)
    /\ UNCHANGED <<storeVars, faults>>

\* A dedup hit: the transaction returns without writing.
ApplyDuplicate(w) ==
    /\ pc[w] = "apply" /\ txn[w].done
    /\ pc' = [pc EXCEPT ![w] = "commit"]
    /\ UNCHANGED <<storeVars, brokerVars, joined, pos, token, verdict, txn,
                   claimant, faults>>

\* Mutants: the outcome is the status itself, or always the same.
StatusAsOutcome(status) == status
AlwaysTerminal(status) == "TERMINAL_NOOP"

NoopOutcome(status) ==
    IF status = "CANCELLED" THEN "CANCELLED_NOOP" ELSE "TERMINAL_NOOP"

ApplyNoop(w) ==
    /\ pc[w] = "apply" /\ RecordsNoop(w)
    /\ processed[Msg(w)] = "none"
    /\ processed' = [processed EXCEPT ![Msg(w)] = NoopOutcome(txn[w].status)]
    /\ pc' = [pc EXCEPT ![w] = "commit"]
    /\ UNCHANGED <<job, result, outbox, log, brokerVars, joined, pos, token,
                   verdict, txn, claimant, faults>>

\* The job reaches its outcome, with its result row and the dedup row.
ApplyVerdict(w) ==
    LET j == Msg(w)
        outcome == IF verdict[w] = "success" THEN "SUCCEEDED" ELSE "FAILED"
    IN  /\ pc[w] = "apply" /\ RecordsVerdict(w)
        /\ Fenced(j, w, token[w], txn[w].live)
        /\ processed[j] = "none"
        /\ job' = [job EXCEPT ![j] = Unclaimed(outcome)]
        /\ result' = [result EXCEPT ![j] = IF verdict[w] = "success" THEN w ELSE @]
        /\ processed' = [processed EXCEPT ![j] = outcome]
        /\ pc' = [pc EXCEPT ![w] = "commit"]
        /\ UNCHANGED <<outbox, log, brokerVars, joined, pos, token, verdict,
                       txn, claimant, faults>>

\* JOB_STATE_CONFLICT or a violated primary key: the transaction rolls back
\* and the worker stops without committing the offset.
ApplyConflict(w) ==
    /\ pc[w] = "apply" /\ ~txn[w].done
    /\ \/ processed[Msg(w)] # "none"
       \/ verdict[w] = "noop" /\ txn[w].status \notin Terminal
       \/ RecordsVerdict(w) /\ ~Fenced(Msg(w), w, token[w], txn[w].live)
    /\ StopWorker(w)
    /\ UNCHANGED <<storeVars, faults>>

\* _commit: the synchronous offset commit, refused by the worker's own flag or
\* by the broker when the partition has gone to somebody else.
CommitOffset(w) ==
    /\ pc[w] = "commit" /\ joined[w] /\ assignee = w
    /\ committed' = pos[w] + 1
    /\ pos' = [pos EXCEPT ![w] = @ + 1]
    /\ pc' = [pc EXCEPT ![w] = "poll"]
    /\ token' = [token EXCEPT ![w] = NoOne]
    /\ verdict' = [verdict EXCEPT ![w] = "none"]
    /\ txn' = [txn EXCEPT ![w] = NoTxn]
    /\ UNCHANGED <<storeVars, assignee, dlq, joined, claimant, faults>>

CommitRefused(w) ==
    /\ pc[w] = "commit" /\ ~(joined[w] /\ assignee = w)
    /\ StopWorker(w)
    /\ UNCHANGED <<storeVars, faults>>

\* The exceptions that leave process_message as they are (the DLQ without an
\* acknowledgement, an evaluation timeout, a lost database or broker
\* connection), and a shutdown signal between two messages.
Fail(w) ==
    /\ pc[w] # "down"
    /\ Fault
    /\ StopWorker(w)
    /\ UNCHANGED storeVars

WorkerStep(w) ==
    \/ Join(w) \/ Lose(w) \/ Restart(w)
    \/ Poll(w) \/ Reject(w) \/ Claim(w) \/ ClaimMiss(w) \/ Execute(w)
    \/ TxnBegin(w)
    \/ ApplyDuplicate(w) \/ ApplyNoop(w) \/ ApplyVerdict(w) \/ ApplyConflict(w)
    \/ CommitOffset(w) \/ CommitRefused(w)

----------------------------------------------------------------------------
(* Time and the topic *)

\* Worker w is still at work under the claim that the row of job j shows.
WorkingHolder(w, j) ==
    /\ pc[w] \in {"exec", "settle", "apply"}
    /\ job[j].owner = w /\ job[j].token = token[w]

\* Time passes; outliving the lease while at work is an adverse event, because
\* KafkaWorkerConfig makes the lease exceed the evaluation timeout.
Tick ==
    /\ TimePending
    /\ TickRows
    /\ IF \E w \in Workers, j \in Jobs : WorkingHolder(w, j) /\ job[j].lease = 1
         THEN Fault ELSE UNCHANGED faults
    /\ UNCHANGED <<brokerVars, localVars, claimant>>

\* The publisher as the worker sees it: any outbox event may be in the topic,
\* any number of times, whether or not the outbox shows it as PUBLISHED.
Deliver(j) ==
    /\ outbox[j].status # "none"
    /\ AppendLog(j)
    /\ UNCHANGED <<job, result, processed, outbox, workerVars>>

\* Somebody else writes to the topic.
Intrude ==
    /\ AppendLog(Poison)
    /\ UNCHANGED <<job, result, processed, outbox, workerVars>>

vars == <<storeVars, workerVars>>

Init == StoreInit /\ WorkerInit

Next ==
    \/ ServiceStep /\ UNCHANGED workerVars
    \/ \E w \in Workers : WorkerStep(w) \/ Kill(w) \/ Fail(w)
    \/ Evict
    \/ Tick
    \/ \E j \in Jobs : Deliver(j)
    \/ Intrude

Spec == Init /\ [][Next]_vars

----------------------------------------------------------------------------
(* Fairness.  A worker that can take a step takes it, and docker-compose   *)
(* restarts one that ended; database time passes; the coordinator removes  *)
(* a member whose session has ended; the publisher delivers every event at *)
(* least once.  Users, faults and duplicates are never forced.             *)

EvictDead == assignee # NoOne /\ ~joined[assignee] /\ Evict

DeliverFirst(j) == ~InTopic(j) /\ Deliver(j)

FairSpec ==
    /\ Spec
    /\ \A w \in Workers : WF_vars(WorkerStep(w))
    /\ WF_vars(Tick)
    /\ WF_vars(EvictDead)
    /\ \A j \in Jobs : WF_vars(DeliverFirst(j))

----------------------------------------------------------------------------
(* Properties *)

\* Tables, broker and workers keep their types: in particular every status and
\* outcome written to a row is one the schema's CHECK constraints allow.
TypeOK == StoreTypeOK /\ WorkerTypeOK

\* A message is settled: a poison message is in the DLQ, an event has a
\* terminal job and its dedup row.
Settled(i) ==
    IF log[i] = Poison THEN i - 1 \in dlq
    ELSE job[log[i]].status \in Terminal /\ processed[log[i]] # "none"

\* The consumer group never moves past work that is not done: every message
\* below the committed offset is settled, whatever worker was killed, fenced
\* or rebalanced between the database commit and the offset commit.
CommittedIsSettled == \A i \in 1..committed : i <= Len(log) /\ Settled(i)

\* The three tables tell one story: a result row exists exactly for a succeeded
\* job, and the dedup row names the outcome the job really has.
OutcomeAgreement ==
    \A j \in Jobs :
        /\ result[j] # NoOne <=> job[j].status = "SUCCEEDED"
        /\ processed[j] = "SUCCEEDED" => job[j].status = "SUCCEEDED"
        /\ processed[j] = "FAILED" => job[j].status = "FAILED"
        /\ processed[j] = "CANCELLED_NOOP" => job[j].status = "CANCELLED"
        /\ processed[j] = "TERMINAL_NOOP" => job[j].status \in {"SUCCEEDED", "FAILED"}

\* Fencing: a result written by a worker is that of the last worker to claim
\* the job, never of a zombie whose lease was taken over while it evaluated.
ResultOfLastClaimant ==
    \A j \in Jobs : result[j] \in Workers => result[j] = claimant[j]

\* Cancellation wins only before the first claim: no worker ever evaluated a
\* job that ends up cancelled.
CancelledNeverClaimed ==
    \A j \in Jobs : job[j].status = "CANCELLED" => claimant[j] = NoOne

\* An outcome is final: once a job is terminal, has a result or has a dedup row,
\* no redelivery, reclaim, late worker or service call rewrites any of them.
OutcomeIsFinal ==
    [][\A j \in Jobs :
         /\ job[j].status \in Terminal => job'[j].status = job[j].status
         /\ result[j] # NoOne => result'[j] = result[j]
         /\ processed[j] # "none" => processed'[j] = processed[j]]_vars

Lifecycle == INSTANCE JobLifecycle WITH
    status <- [j \in Jobs |-> job[j].status],
    result <- {j \in Jobs : result[j] # NoOne},
    evidence <- {j \in Jobs : processed[j] # "none"},
    acked <- {j \in Jobs : \E i \in 1..committed : log[i] = j}

\* The workers, the broker and the tables together keep the promise made to the
\* owner of a job (JobLifecycle): each committed step of any process is one
\* legal step of the job, or none.
ImplementsLifecycle == Lifecycle!Spec

\* Every submitted job reaches a terminal status, although workers die,
\* partitions move and leases of dead workers must first run out.
SubmittedTerminates ==
    \A j \in Jobs : job[j].status = "QUEUED" ~> job[j].status \in Terminal

\* The group works through the topic: it catches up with the end of the log
\* again and again, duplicates and poison included.
TopicDrains == []<>(committed = Len(log))

=============================================================================
