--------------------------- MODULE OutboxPublisher ---------------------------
(***************************************************************************)
(* The outbox publishers (core/outbox_publisher.py) and their Kafka sink   *)
(* (core/kafka_event_sink.py).  A publisher claims a batch of due events   *)
(* under a lease, publishes them one by one and records for each either    *)
(* the publication or a failure with a backoff, both fenced by the claim.  *)
(* The lease is checked only by these receipts, never before a publish, so *)
(* an event may be in the topic several times.                             *)
(*                                                                         *)
(* The batch is a set: UPDATE ... RETURNING gives no order.  attempt_count *)
(* saturates at AttemptCap, from where the backoff is constant.            *)
(***************************************************************************)
EXTENDS EvaluationStore

CONSTANTS
    BatchSize,    \* batch_size
    OutboxLease,  \* lease_seconds in ticks
    RetryBase,    \* retry_base_seconds in ticks
    RetryMax,     \* retry_max_seconds in ticks
    AttemptCap,   \* attempt_count is counted up to here
    MaxOutages    \* bound: failed, interrupted or slow publications

ASSUME PublisherAssumption ==
    /\ BatchSize \in Nat \ {0} /\ OutboxLease \in Nat \ {0}
    /\ RetryBase \in Nat \ {0} /\ RetryMax \in Nat \ {0}
    /\ AttemptCap \in Nat /\ RetryBase * 2^AttemptCap >= RetryMax
    /\ MaxOutages \in Nat
    /\ \A j \in Jobs : Copies[j] > 0

VARIABLES
    batch,     \* claims of run_once still to be published
    ptoken,    \* claim_token of the batch, per event
    current,   \* the claim in hand, NoOne between two claims
    stage,     \* "publish", "mark" or "fail": what is next for `current`
    inflight,  \* events the producer still tries to send after a timeout
    outages    \* failed, interrupted or slow publications so far

publisherVars == <<batch, ptoken, current, stage, inflight, outages>>

PublisherTypeOK ==
    /\ batch \in [Publishers -> SUBSET Jobs]
    /\ ptoken \in [Publishers -> [Jobs -> Tokens \cup {NoOne}]]
    /\ current \in [Publishers -> Jobs \cup {NoOne}]
    /\ stage \in [Publishers -> {"publish", "mark", "fail"}]
    /\ inflight \in SUBSET Jobs
    /\ outages \in Nat
    /\ \A j \in Jobs : /\ outbox[j].delay \in 0..RetryMax
                       /\ outbox[j].lease \in 0..OutboxLease

PublisherInit ==
    /\ batch = [p \in Publishers |-> {}]
    /\ ptoken = [p \in Publishers |-> [j \in Jobs |-> NoOne]]
    /\ current = [p \in Publishers |-> NoOne]
    /\ stage = [p \in Publishers |-> "publish"]
    /\ inflight = {}
    /\ outages = 0

Outage == outages < MaxOutages /\ outages' = outages + 1

SmallerOf(a, b) == IF a < b THEN a ELSE b

\* _backoff_seconds before jitter, and the delays that some jitter ratio gives.
Backoff(attempts) == SmallerOf(RetryMax, RetryBase * 2^attempts)

\* Mutant: the jitter is applied to the capped delay without capping it again.
UncappedDelays(attempts) == 1..(2 * Backoff(attempts))

JitteredDelays(attempts) == 1..SmallerOf(RetryMax, 2 * Backoff(attempts))

\* Mutants: an expired claim is not taken over; a published event is claimed.
DueUnclaimed == {j \in Jobs : /\ outbox[j].status = "PENDING"
                              /\ outbox[j].delay = 0
                              /\ outbox[j].owner = NoOne}
DueAgain == {j \in Jobs : /\ outbox[j].status # "none"
                          /\ outbox[j].delay = 0
                          /\ outbox[j].lease = 0}

\* The candidates of _CLAIM_SQL.
Due == {j \in Jobs : /\ outbox[j].status = "PENDING"
                     /\ outbox[j].delay = 0
                     /\ outbox[j].lease = 0}

OutboxTokens ==
    {outbox[j].token : j \in Jobs} \cup {ptoken[p][j] : p \in Publishers, j \in Jobs}

\* Mutant: any publisher's receipt counts.
ReceivablePending(p, j) == outbox[j].status = "PENDING" /\ outbox[j].lease > 0

\* The row predicate of mark_outbox_published and record_outbox_failure.
Receivable(p, j) ==
    /\ outbox[j].status = "PENDING"
    /\ outbox[j].owner = p
    /\ outbox[j].token = ptoken[p][j]
    /\ outbox[j].lease > 0

Idle(p) == batch[p] = {} /\ current[p] = NoOne

----------------------------------------------------------------------------
\* claim: one statement claims the first BatchSize due events for a new token;
\* a poll that finds nothing due changes nothing.
ClaimBatch(p) ==
    /\ Idle(p)
    /\ Tokens \ OutboxTokens # {}
    /\ \E S \in SUBSET Due :
         /\ Cardinality(S) = SmallerOf(BatchSize, Cardinality(Due))
         /\ LET t == CHOOSE t \in Tokens \ OutboxTokens : TRUE
            IN  /\ outbox' = [j \in Jobs |-> IF j \in S
                    THEN [outbox[j] EXCEPT !.owner = p, !.token = t,
                                           !.lease = OutboxLease]
                    ELSE outbox[j]]
                /\ ptoken' = [ptoken EXCEPT ![p] =
                                [j \in Jobs |-> IF j \in S THEN t ELSE NoOne]]
         /\ batch' = [batch EXCEPT ![p] = S]
    /\ UNCHANGED <<job, result, processed, log, current, stage, inflight, outages>>

\* run_once takes the next claim and calls sink.publish.
TakeClaim(p) ==
    /\ current[p] = NoOne
    /\ \E j \in batch[p] :
         /\ current' = [current EXCEPT ![p] = j]
         /\ batch' = [batch EXCEPT ![p] = @ \ {j}]
    /\ UNCHANGED <<storeVars, ptoken, stage, inflight, outages>>

\* The broker acknowledges the message.
PublishAcked(p) ==
    /\ current[p] # NoOne /\ stage[p] = "publish"
    /\ AppendLog(current[p])
    /\ stage' = [stage EXCEPT ![p] = "mark"]
    /\ UNCHANGED <<job, result, processed, outbox, batch, ptoken, current,
                   inflight, outages>>

\* Mutant: the acknowledgement is not awaited.
FailureIgnored(p) ==
    /\ current[p] # NoOne /\ stage[p] = "publish"
    /\ Outage
    /\ stage' = [stage EXCEPT ![p] = "mark"]
    /\ inflight' \in {inflight, inflight \cup {current[p]}}
    /\ UNCHANGED <<storeVars, batch, ptoken, current>>

\* The broker refuses the message, or flush times out: the message may be in
\* the topic without the publisher knowing it, or be sent later.
PublishFailed(p) ==
    /\ current[p] # NoOne /\ stage[p] = "publish"
    /\ Outage
    /\ stage' = [stage EXCEPT ![p] = "fail"]
    /\ inflight' \in {inflight, inflight \cup {current[p]}}
    /\ UNCHANGED <<storeVars, batch, ptoken, current>>

\* run_once is done with the claim in hand.
DropClaim(p) ==
    /\ current' = [current EXCEPT ![p] = NoOne]
    /\ ptoken' = [ptoken EXCEPT ![p][current[p]] = NoOne]
    /\ stage' = [stage EXCEPT ![p] = "publish"]

\* mark_published: the receipt, or OUTBOX_STALE_CLAIM and on to the next claim.
MarkPublished(p) ==
    /\ current[p] # NoOne /\ stage[p] = "mark"
    /\ outbox' = IF Receivable(p, current[p])
                   THEN [outbox EXCEPT ![current[p]] =
                           [@ EXCEPT !.status = "PUBLISHED", !.owner = NoOne,
                                     !.token = NoOne, !.lease = 0]]
                   ELSE outbox
    /\ DropClaim(p)
    /\ UNCHANGED <<job, result, processed, log, batch, inflight, outages>>

\* _record_failure: the event becomes due again after the backoff.
RecordFailure(p) ==
    /\ current[p] # NoOne /\ stage[p] = "fail"
    /\ IF Receivable(p, current[p])
         THEN LET row == outbox[current[p]] IN
              \E d \in JitteredDelays(row.attempts) :
                outbox' = [outbox EXCEPT ![current[p]] =
                             [row EXCEPT !.attempts = SmallerOf(row.attempts + 1, AttemptCap),
                                         !.delay = d, !.owner = NoOne,
                                         !.token = NoOne, !.lease = 0]]
         ELSE UNCHANGED outbox
    /\ DropClaim(p)
    /\ UNCHANGED <<job, result, processed, log, batch, inflight, outages>>

\* The publisher dies, or a database error ends run_once; its claims are
\* forgotten, and a message handed to the producer may still be sent.
Interrupt(p) ==
    /\ ~Idle(p)
    /\ Outage
    /\ batch' = [batch EXCEPT ![p] = {}]
    /\ current' = [current EXCEPT ![p] = NoOne]
    /\ ptoken' = [ptoken EXCEPT ![p] = [j \in Jobs |-> NoOne]]
    /\ stage' = [stage EXCEPT ![p] = "publish"]
    /\ inflight' \in {inflight,
                      IF current[p] # NoOne /\ stage[p] = "publish"
                        THEN inflight \cup {current[p]} ELSE inflight}
    /\ UNCHANGED storeVars

\* The broker writes a message whose publisher no longer waits for it.
LateDelivery(j) ==
    /\ j \in inflight
    /\ AppendLog(j)
    /\ inflight' = inflight \ {j}
    /\ UNCHANGED <<job, result, processed, outbox, batch, ptoken, current,
                   stage, outages>>

PublisherStep(p) ==
    \/ ClaimBatch(p) \/ TakeClaim(p) \/ PublishAcked(p)
    \/ MarkPublished(p) \/ RecordFailure(p)

PublisherNext ==
    \/ \E p \in Publishers : PublisherStep(p) \/ PublishFailed(p) \/ Interrupt(p)
    \/ \E j \in Jobs : LateDelivery(j)

----------------------------------------------------------------------------
(* The publishers on their own: jobs are submitted and time passes. *)

\* A lease about to run out under the publisher that still works on the batch.
SlowBatch ==
    \E p \in Publishers, j \in Jobs :
        /\ j \in batch[p] \cup {current[p]}
        /\ outbox[j].owner = p /\ outbox[j].token = ptoken[p][j]
        /\ outbox[j].lease = 1

\* Time passes; nothing but the speed of the broker keeps a batch within its
\* lease, so outliving it is one of the outages.
PublisherTick ==
    /\ TimePending
    /\ TickRows
    /\ IF SlowBatch THEN Outage ELSE UNCHANGED outages
    /\ UNCHANGED <<batch, ptoken, current, stage, inflight>>

pvars == <<storeVars, publisherVars>>

PInit == StoreInit /\ PublisherInit

PNext ==
    \/ ServiceStep /\ UNCHANGED publisherVars
    \/ PublisherNext
    \/ PublisherTick

PSpec == PInit /\ [][PNext]_pvars

(* A publisher that can take a step takes it, and database time passes; an *)
(* acknowledged publish happens in the end because outages are finite.     *)
PFairSpec ==
    /\ PSpec
    /\ \A p \in Publishers : WF_pvars(PublisherStep(p))
    /\ WF_pvars(PublisherTick)

----------------------------------------------------------------------------
(* Properties *)

\* Every variable has its type; a backoff never exceeds retry_max_seconds, nor
\* a lease lease_seconds.
PTypeOK == StoreTypeOK /\ PublisherTypeOK

\* The outbox never forgets an event: PUBLISHED is recorded only for an event
\* the broker has, and only an event of the outbox gets into the topic.
PublishedIsInTopic ==
    \A j \in Jobs : /\ outbox[j].status = "PUBLISHED" => InTopic(j)
                    /\ InTopic(j) => outbox[j].status # "none"

\* A live lease is exclusive: while it runs, only its holder takes the claim
\* columns away, by the receipt for that very claim; a publisher that still
\* works on an older claim of the event cannot.
LeaseIsExclusive ==
    [][\A j \in Jobs :
         outbox[j].lease > 0 /\ outbox'[j].owner # outbox[j].owner =>
           /\ outbox[j].owner \in Publishers
           /\ current[outbox[j].owner] = j /\ current'[outbox[j].owner] = NoOne
           /\ ptoken[outbox[j].owner][j] = outbox[j].token]_pvars

\* A publication is final: the event is never claimed or retried again.
PublishedIsFinal ==
    [][\A j \in Jobs :
         outbox[j].status = "PUBLISHED" =>
           /\ outbox'[j].status = "PUBLISHED"
           /\ outbox'[j].owner = NoOne /\ outbox'[j].delay <= outbox[j].delay]_pvars

\* At-least-once delivery and convergence: every submitted event is published
\* and the outbox knows it, although publishers die, the broker fails and
\* leases expire in the hands of a slow publisher.
EventuallyPublished ==
    \A j \in Jobs : outbox[j].status = "PENDING" ~> outbox[j].status = "PUBLISHED"

=============================================================================
