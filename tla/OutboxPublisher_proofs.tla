----------------------- MODULE OutboxPublisher_proofs -----------------------
(***************************************************************************)
(* Proofs about the outbox publishers, for any number of events,           *)
(* publishers, outages and retries: what the outbox calls PUBLISHED is in  *)
(* the topic, a backoff never exceeds its cap, and a live lease is lost to *)
(* nobody but its holder.                                                  *)
(***************************************************************************)
EXTENDS OutboxPublisher, FiniteSetTheorems, TLAPS

USE DEF storeVars, publisherVars

\* What the proofs use of the assumptions on the constants.
LEMMA Constants ==
  /\ OutboxLease \in Nat \ {0} /\ RetryBase \in Nat /\ RetryMax \in Nat /\ AttemptCap \in Nat
  /\ MaxOutages \in Nat
  /\ \A j \in Jobs : Copies[j] \in Nat /\ Copies[j] > 0
  /\ NoOne \notin Publishers /\ NoOne \notin Tokens /\ NoOne \notin Jobs
  BY StoreAssumption, PublisherAssumption DEF StoreAssumption, PublisherAssumption

-----------------------------------------------------------------------------
(* The inductive invariant.                                                *)

\* What a publisher holds, or has left with its producer, was submitted.
ClaimsAreSubmitted ==
    /\ \A p \in Publishers : \A j \in Jobs :
         j \in batch[p] \/ j = current[p] => outbox[j].status # "none"
    /\ \A j \in inflight : outbox[j].status # "none"

\* A publisher that is about to record the publication has it acknowledged.
AckedIsInTopic ==
    \A p \in Publishers : /\ stage[p] = "mark" => InTopic(current[p])
                          /\ current[p] = NoOne => stage[p] = "publish"

PInv == PTypeOK /\ ClaimsAreSubmitted /\ AckedIsInTopic /\ PublishedIsInTopic

-----------------------------------------------------------------------------
(* Rows of the outbox.                                                     *)

\* q is an outbox row with these columns.
RowIs(q, s, o, t, n, d) ==
    /\ q \in OutboxRow
    /\ q.status = s /\ q.owner = o /\ q.token = t /\ q.lease = n /\ q.delay = d

LEMMA FieldUpdate ==
  ASSUME NEW r \in OutboxRow
  PROVE  /\ \A s \in {"none", "PENDING", "PUBLISHED"} :
              RowIs([r EXCEPT !.status = s], s, r.owner, r.token, r.lease, r.delay)
         /\ \A o \in Publishers \cup {NoOne} :
              RowIs([r EXCEPT !.owner = o], r.status, o, r.token, r.lease, r.delay)
         /\ \A t \in Tokens \cup {NoOne} :
              RowIs([r EXCEPT !.token = t], r.status, r.owner, t, r.lease, r.delay)
         /\ \A n \in Nat :
              /\ RowIs([r EXCEPT !.lease = n], r.status, r.owner, r.token, n, r.delay)
              /\ RowIs([r EXCEPT !.delay = n], r.status, r.owner, r.token, r.lease, n)
              /\ RowIs([r EXCEPT !.attempts = n], r.status, r.owner, r.token, r.lease, r.delay)
  BY DEF OutboxRow, RowIs

LEMMA ClaimUpdate ==
  ASSUME NEW r \in OutboxRow, NEW o \in Publishers \cup {NoOne},
         NEW t \in Tokens \cup {NoOne}, NEW n \in Nat
  PROVE  RowIs([r EXCEPT !.owner = o, !.token = t, !.lease = n], r.status, o, t, n, r.delay)
<1> DEFINE r1 == [r EXCEPT !.owner = o]
           r2 == [r1 EXCEPT !.token = t]
           r3 == [r2 EXCEPT !.lease = n]
<1>1. RowIs(r1, r.status, o, r.token, r.lease, r.delay)
  BY FieldUpdate
<1>2. RowIs(r2, r.status, o, t, r.lease, r.delay)
  <2> HIDE DEF r1
  <2> QED BY <1>1, FieldUpdate DEF RowIs
<1>3. RowIs(r3, r.status, o, t, n, r.delay)
  <2> HIDE DEF r2
  <2>1. r2 \in OutboxRow
    BY <1>2 DEF RowIs
  <2>2. RowIs(r3, r2.status, r2.owner, r2.token, n, r2.delay)
    BY <2>1, FieldUpdate
  <2> QED BY <1>2, <2>2 DEF RowIs
<1>4. [r EXCEPT !.owner = o, !.token = t, !.lease = n] = r3
  OBVIOUS
<1> QED BY <1>3, <1>4

LEMMA ReceiptUpdate ==
  ASSUME NEW r \in OutboxRow
  PROVE  RowIs([r EXCEPT !.status = "PUBLISHED", !.owner = NoOne, !.token = NoOne, !.lease = 0],
               "PUBLISHED", NoOne, NoOne, 0, r.delay)
<1> DEFINE r1 == [r EXCEPT !.status = "PUBLISHED"]
           r2 == [r1 EXCEPT !.owner = NoOne, !.token = NoOne, !.lease = 0]
<1>1. RowIs(r1, "PUBLISHED", r.owner, r.token, r.lease, r.delay)
  BY FieldUpdate
<1>2. RowIs(r2, "PUBLISHED", NoOne, NoOne, 0, r.delay)
  <2> HIDE DEF r1
  <2>1. r1 \in OutboxRow
    BY <1>1 DEF RowIs
  <2>2. RowIs(r2, r1.status, NoOne, NoOne, 0, r1.delay)
    BY <2>1, ClaimUpdate
  <2> QED BY <1>1, <2>2 DEF RowIs
<1>3. [r EXCEPT !.status = "PUBLISHED", !.owner = NoOne, !.token = NoOne, !.lease = 0] = r2
  OBVIOUS
<1> QED BY <1>2, <1>3

LEMMA FailureUpdate ==
  ASSUME NEW r \in OutboxRow, NEW a \in Nat, NEW d \in Nat
  PROVE  RowIs([r EXCEPT !.attempts = a, !.delay = d, !.owner = NoOne, !.token = NoOne,
                         !.lease = 0], r.status, NoOne, NoOne, 0, d)
<1> DEFINE r1 == [r EXCEPT !.attempts = a]
           r2 == [r1 EXCEPT !.delay = d]
           r3 == [r2 EXCEPT !.owner = NoOne, !.token = NoOne, !.lease = 0]
<1>1. RowIs(r1, r.status, r.owner, r.token, r.lease, r.delay)
  BY FieldUpdate
<1>2. RowIs(r2, r.status, r.owner, r.token, r.lease, d)
  <2> HIDE DEF r1
  <2> QED BY <1>1, FieldUpdate DEF RowIs
<1>3. RowIs(r3, r.status, NoOne, NoOne, 0, d)
  <2> HIDE DEF r2
  <2>1. r2 \in OutboxRow
    BY <1>2 DEF RowIs
  <2>2. RowIs(r3, r2.status, NoOne, NoOne, 0, r2.delay)
    BY <2>1, ClaimUpdate
  <2> QED BY <1>2, <2>2 DEF RowIs
<1>4. [r EXCEPT !.attempts = a, !.delay = d, !.owner = NoOne, !.token = NoOne, !.lease = 0] = r3
  OBVIOUS
<1> QED BY <1>3, <1>4

LEMMA TickUpdate ==
  ASSUME NEW r \in OutboxRow, NEW n \in Nat, NEW d \in Nat
  PROVE  RowIs([r EXCEPT !.lease = n, !.delay = d], r.status, r.owner, r.token, n, d)
<1> DEFINE r1 == [r EXCEPT !.lease = n]
           r2 == [r1 EXCEPT !.delay = d]
<1>1. RowIs(r1, r.status, r.owner, r.token, n, r.delay)
  BY FieldUpdate
<1>2. RowIs(r2, r.status, r.owner, r.token, n, d)
  <2> HIDE DEF r1
  <2>1. r1 \in OutboxRow
    BY <1>1 DEF RowIs
  <2>2. RowIs(r2, r1.status, r1.owner, r1.token, r1.lease, d)
    BY <2>1, FieldUpdate
  <2> QED BY <1>1, <2>2 DEF RowIs
<1>3. [r EXCEPT !.lease = n, !.delay = d] = r2
  OBVIOUS
<1> QED BY <1>2, <1>3

\* A jittered backoff stays within the cap: two minima bound it.
LEMMA DelayIsCapped ==
  ASSUME NEW a \in Nat, NEW d \in JitteredDelays(a)
  PROVE  d \in 0..RetryMax
<1>1. 2^a \in Int
  BY SMT
<1>2. Backoff(a) \in Int
  BY <1>1, Constants DEF Backoff, SmallerOf
<1> QED BY <1>2, Constants DEF JitteredDelays, SmallerOf

-----------------------------------------------------------------------------
(* The topic.                                                              *)

LEMMA AppendPuts ==
  ASSUME log \in Seq(Message), NEW j \in Jobs, AppendLog(j)
  PROVE  /\ log' \in Seq(Message)
         /\ \A m : InTopic(m)' <=> InTopic(m) \/ m = j
<1>0. j \in Message /\ Copies[j] \in Nat
  BY Constants DEF Message
<1>1. CASE log' = Append(log, j)
  BY <1>0, <1>1 DEF InTopic
<1>2. CASE CopiesOf(j) >= Copies[j] /\ log' = log
  <2>1. {i \in 1..Len(log) : log[i] = j} # {}
    <3>1. CopiesOf(j) # 0
      BY <1>0, <1>2, Constants
    <3> QED BY <3>1, FS_EmptySet DEF CopiesOf
  <2>2. InTopic(j)
    BY <2>1 DEF InTopic
  <2> QED BY <1>2, <2>2 DEF InTopic
<1>3. CASE ~(CopiesOf(j) < Copies[j]) /\ log' = log /\ ~(CopiesOf(j) >= Copies[j])
  <2>1. CopiesOf(j) \in Nat
    <3>1. IsFiniteSet(1..Len(log))
      BY FS_Interval
    <3>2. IsFiniteSet({i \in 1..Len(log) : log[i] = j})
      BY <3>1, FS_Subset
    <3> QED BY <3>2, FS_CardinalityType DEF CopiesOf
  <2> QED BY <1>0, <1>3, <2>1
<1> QED BY <1>1, <1>2, <1>3 DEF AppendLog

-----------------------------------------------------------------------------
(* The outbox, action by action.                                           *)

RowsAreBounded ==
    /\ outbox \in [Jobs -> OutboxRow]
    /\ \A j \in Jobs : outbox[j].delay \in 0..RetryMax /\ outbox[j].lease \in 0..OutboxLease

LEMMA WriteRow ==
  ASSUME RowsAreBounded, NEW j \in Jobs, NEW r, NEW s, NEW o, NEW t,
         NEW n \in 0..OutboxLease, NEW d \in 0..RetryMax,
         RowIs(r, s, o, t, n, d), outbox' = [outbox EXCEPT ![j] = r]
  PROVE  /\ RowsAreBounded'
         /\ outbox'[j].status = s /\ outbox'[j].owner = o
         /\ \A k \in Jobs \ {j} : outbox'[k] = outbox[k]
  BY DEF RowIs, RowsAreBounded

LEMMA SubmitRows ==
  ASSUME RowsAreBounded, NEW j \in Jobs, Submit(j)
  PROVE  /\ RowsAreBounded'
         /\ outbox'[j].status = "PENDING" /\ outbox'[j].owner = outbox[j].owner
         /\ \A k \in Jobs \ {j} : outbox'[k] = outbox[k]
<1>1. outbox' = [outbox EXCEPT ![j] = [outbox[j] EXCEPT !.status = "PENDING"]]
  BY DEF Submit
<1>2. outbox[j] \in OutboxRow /\ outbox[j].lease \in 0..OutboxLease
      /\ outbox[j].delay \in 0..RetryMax
  BY DEF RowsAreBounded
<1>3. RowIs([outbox[j] EXCEPT !.status = "PENDING"], "PENDING", outbox[j].owner,
            outbox[j].token, outbox[j].lease, outbox[j].delay)
  BY <1>2, FieldUpdate
<1> QED BY <1>1, <1>2, <1>3, WriteRow

\* A claim takes only rows whose lease is over.
LEMMA ClaimRows ==
  ASSUME RowsAreBounded, NEW p \in Publishers, ClaimBatch(p)
  PROVE  /\ RowsAreBounded'
         /\ batch'[p] \subseteq {j \in Jobs : outbox[j].status # "none" /\ outbox[j].lease = 0}
            \/ p \notin DOMAIN batch
         /\ \A j \in Jobs : /\ outbox'[j].status = outbox[j].status
                            /\ outbox[j].lease > 0 => outbox'[j] = outbox[j]
         /\ \E t \in Tokens : \E S \in SUBSET Jobs :
              ptoken' = [ptoken EXCEPT ![p] = [j \in Jobs |-> IF j \in S THEN t ELSE NoOne]]
<1> DEFINE t == CHOOSE t \in Tokens \ OutboxTokens : TRUE
<1>1. t \in Tokens
  BY DEF ClaimBatch
<1>2. PICK S \in SUBSET Due :
        /\ outbox' = [j \in Jobs |-> IF j \in S
              THEN [outbox[j] EXCEPT !.owner = p, !.token = t, !.lease = OutboxLease]
              ELSE outbox[j]]
        /\ ptoken' = [ptoken EXCEPT ![p] = [j \in Jobs |-> IF j \in S THEN t ELSE NoOne]]
        /\ batch' = [batch EXCEPT ![p] = S]
  BY DEF ClaimBatch
<1> HIDE DEF t
<1>3. ASSUME NEW j \in Jobs, j \in S
      PROVE  RowIs(outbox'[j], outbox[j].status, p, t, OutboxLease, outbox[j].delay)
  <2>1. outbox'[j] = [outbox[j] EXCEPT !.owner = p, !.token = t, !.lease = OutboxLease]
    BY <1>2, <1>3
  <2>2. outbox[j] \in OutboxRow
    BY DEF RowsAreBounded
  <2>3. OutboxLease \in Nat /\ p \in Publishers \cup {NoOne} /\ t \in Tokens \cup {NoOne}
    BY <1>1, Constants
  <2>4. RowIs([outbox[j] EXCEPT !.owner = p, !.token = t, !.lease = OutboxLease],
              outbox[j].status, p, t, OutboxLease, outbox[j].delay)
    BY <2>2, <2>3, ClaimUpdate
  <2> QED BY <2>1, <2>4
<1>4. ASSUME NEW j \in Jobs, j \notin S
      PROVE  outbox'[j] = outbox[j]
  BY <1>2, <1>4
<1>5. S \subseteq {j \in Jobs : outbox[j].status # "none" /\ outbox[j].lease = 0}
  BY DEF Due
<1>6. RowsAreBounded'
  <2>1. \A j \in Jobs : outbox'[j] \in OutboxRow
    BY <1>3, <1>4 DEF RowsAreBounded, RowIs
  <2>2. outbox' \in [Jobs -> OutboxRow]
    BY <1>2, <2>1
  <2>3. \A j \in Jobs : outbox'[j].delay \in 0..RetryMax /\ outbox'[j].lease \in 0..OutboxLease
    BY <1>3, <1>4, Constants DEF RowsAreBounded, RowIs
  <2> QED BY <2>2, <2>3 DEF RowsAreBounded
<1>7. \A j \in Jobs : outbox'[j].status = outbox[j].status
                      /\ (outbox[j].lease > 0 => outbox'[j] = outbox[j])
  <2> TAKE j \in Jobs
  <2>1. CASE j \in S
    <3>1. outbox[j].lease = 0
      BY <1>5, <2>1
    <3> QED BY <1>3, <2>1, <3>1 DEF RowIs
  <2>2. CASE j \notin S
    BY <1>4, <2>2
  <2> QED BY <2>1, <2>2
<1>8. S \in SUBSET Jobs
  BY <1>5
<1> QED BY <1>1, <1>2, <1>5, <1>6, <1>7, <1>8

\* A receipt changes a row only for the holder of its live claim.
LEMMA ReceiptRows ==
  ASSUME RowsAreBounded, NEW p \in Publishers, current[p] \in Jobs \cup {NoOne},
         MarkPublished(p) \/ RecordFailure(p)
  PROVE  /\ RowsAreBounded'
         /\ \A j \in Jobs :
              \/ outbox'[j] = outbox[j]
              \/ /\ j = current[p] /\ Receivable(p, j)
                 /\ \/ outbox'[j].status = outbox[j].status
                    \/ outbox'[j].status = "PUBLISHED" /\ stage[p] = "mark"
<1> DEFINE j == current[p]
<1>1. CASE UNCHANGED outbox
  BY <1>1 DEF RowsAreBounded
<1>2. CASE ~UNCHANGED outbox
  <2>1. j \in Jobs /\ Receivable(p, j)
    BY <1>2 DEF MarkPublished, RecordFailure
  <2>2. outbox[j] \in OutboxRow /\ outbox[j].attempts \in Nat /\ outbox[j].delay \in 0..RetryMax
        /\ 0 \in 0..OutboxLease
    BY <2>1, Constants DEF RowsAreBounded, OutboxRow
  <2>3. CASE MarkPublished(p)
    <3>1. /\ outbox' = [outbox EXCEPT ![j] = [outbox[j] EXCEPT !.status = "PUBLISHED",
                          !.owner = NoOne, !.token = NoOne, !.lease = 0]]
          /\ stage[p] = "mark"
      BY <2>1, <2>3 DEF MarkPublished
    <3>2. RowIs([outbox[j] EXCEPT !.status = "PUBLISHED", !.owner = NoOne, !.token = NoOne,
                                  !.lease = 0], "PUBLISHED", NoOne, NoOne, 0, outbox[j].delay)
      BY <2>2, ReceiptUpdate
    <3> QED BY <2>1, <2>2, <3>1, <3>2, WriteRow
  <2>4. CASE RecordFailure(p)
    <3>1. PICK d \in JitteredDelays(outbox[j].attempts) :
            outbox' = [outbox EXCEPT ![j] = [outbox[j] EXCEPT
                         !.attempts = SmallerOf(outbox[j].attempts + 1, AttemptCap),
                         !.delay = d, !.owner = NoOne, !.token = NoOne, !.lease = 0]]
      BY <2>1, <2>4 DEF RecordFailure
    <3>2. SmallerOf(outbox[j].attempts + 1, AttemptCap) \in Nat
      BY <2>2, Constants DEF SmallerOf
    <3>3. d \in 0..RetryMax /\ d \in Nat
      BY <2>2, DelayIsCapped, Constants
    <3>4. RowIs([outbox[j] EXCEPT !.attempts = SmallerOf(outbox[j].attempts + 1, AttemptCap),
                   !.delay = d, !.owner = NoOne, !.token = NoOne, !.lease = 0],
                outbox[j].status, NoOne, NoOne, 0, d)
      BY <2>2, <3>2, <3>3, FailureUpdate
    <3> DEFINE r == [outbox[j] EXCEPT
                       !.attempts = SmallerOf(outbox[j].attempts + 1, AttemptCap),
                       !.delay = d, !.owner = NoOne, !.token = NoOne, !.lease = 0]
    <3>5. outbox' = [outbox EXCEPT ![j] = r]
      BY <3>1
    <3>6. RowIs(r, outbox[j].status, NoOne, NoOne, 0, d)
      BY <3>4
    <3> HIDE DEF r
    <3>7. /\ RowsAreBounded'
          /\ outbox'[j].status = outbox[j].status
          /\ \A k \in Jobs \ {j} : outbox'[k] = outbox[k]
      <4> HIDE DEF j
      <4> QED BY <2>1, <2>2, <3>3, <3>5, <3>6, WriteRow
    <3> QED BY <2>1, <3>7
  <2> QED BY <2>3, <2>4
<1> QED BY <1>1, <1>2

LEMMA TickRowsBounded ==
  ASSUME RowsAreBounded, TickRows
  PROVE  /\ RowsAreBounded'
         /\ \A j \in Jobs : /\ outbox'[j].status = outbox[j].status
                            /\ outbox'[j].owner = outbox[j].owner
<1>1. ASSUME NEW j \in Jobs
      PROVE  \E n \in 0..OutboxLease, d \in 0..RetryMax :
               RowIs(outbox'[j], outbox[j].status, outbox[j].owner, outbox[j].token, n, d)
  <2>1. /\ outbox[j] \in OutboxRow /\ Elapse(outbox[j].lease) \in 0..OutboxLease
        /\ Elapse(outbox[j].delay) \in 0..RetryMax
    BY Constants DEF RowsAreBounded, Elapse
  <2>2. outbox'[j] = [outbox[j] EXCEPT !.lease = Elapse(outbox[j].lease),
                                       !.delay = Elapse(outbox[j].delay)]
    BY DEF TickRows
  <2>3. Elapse(outbox[j].lease) \in Nat /\ Elapse(outbox[j].delay) \in Nat
    BY <2>1, Constants
  <2>4. RowIs([outbox[j] EXCEPT !.lease = Elapse(outbox[j].lease),
                                !.delay = Elapse(outbox[j].delay)],
              outbox[j].status, outbox[j].owner, outbox[j].token,
              Elapse(outbox[j].lease), Elapse(outbox[j].delay))
    BY <2>1, <2>3, TickUpdate
  <2> QED BY <2>1, <2>2, <2>4
<1>2. outbox' \in [Jobs -> OutboxRow]
  BY <1>1 DEF TickRows, RowIs
<1> QED BY <1>1, <1>2 DEF RowsAreBounded, RowIs

-----------------------------------------------------------------------------
(* Types.                                                                  *)

LEMMA TypeIsBounded ==
  PTypeOK <=> /\ RowsAreBounded
              /\ job \in [Jobs -> JobRow]
              /\ result \in [Jobs -> Workers \cup Direct \cup {NoOne}]
              /\ processed \in [Jobs -> Outcome \cup {"none"}]
              /\ log \in Seq(Message)
              /\ batch \in [Publishers -> SUBSET Jobs]
              /\ ptoken \in [Publishers -> [Jobs -> Tokens \cup {NoOne}]]
              /\ current \in [Publishers -> Jobs \cup {NoOne}]
              /\ stage \in [Publishers -> {"publish", "mark", "fail"}]
              /\ inflight \in SUBSET Jobs
              /\ outages \in Nat
  BY DEF PTypeOK, StoreTypeOK, PublisherTypeOK, RowsAreBounded

LEMMA PInitType == PInit => PTypeOK
  BY Constants DEF PInit, StoreInit, PublisherInit, PTypeOK, StoreTypeOK, PublisherTypeOK,
     JobRow, JobStatus, OutboxRow

LEMMA ServiceType ==
  ASSUME PTypeOK, ServiceStep, UNCHANGED publisherVars
  PROVE  PTypeOK'
<1>0. /\ job \in [Jobs -> JobRow] /\ RowsAreBounded
      /\ result \in [Jobs -> Workers \cup Direct \cup {NoOne}]
  BY TypeIsBounded
<1>1. PICK j \in Jobs :
        \/ Submit(j) \/ Cancel(j)
        \/ \E d \in Direct :
              DirectStart(d, j) \/ DirectSuccess(d, j) \/ DirectFailure(d, j)
  BY DEF ServiceStep
<1>2. \A s \in JobStatus : Unclaimed(s) \in JobRow
  BY DEF Unclaimed, JobRow
<1>3. job' \in [Jobs -> JobRow]
  BY <1>0, <1>1, <1>2 DEF Submit, Cancel, DirectStart, DirectSuccess, DirectFailure, JobStatus,
     Terminal
<1>4. result' \in [Jobs -> Workers \cup Direct \cup {NoOne}]
  BY <1>0, <1>1 DEF Submit, Cancel, DirectStart, DirectSuccess, DirectFailure
<1>5. RowsAreBounded'
  <2>1. CASE Submit(j)
    BY <1>0, <2>1, SubmitRows
  <2>2. CASE ~Submit(j)
    BY <1>0, <1>1, <2>2 DEF Cancel, DirectStart, DirectSuccess, DirectFailure, RowsAreBounded
  <2> QED BY <2>1, <2>2
<1>6. UNCHANGED <<processed, log>>
  BY <1>1 DEF Submit, Cancel, DirectStart, DirectSuccess, DirectFailure
<1> QED BY <1>3, <1>4, <1>5, <1>6 DEF PTypeOK, StoreTypeOK, PublisherTypeOK, RowsAreBounded

LEMMA PublisherType ==
  ASSUME PTypeOK, NEW p \in Publishers, PublisherStep(p) \/ PublishFailed(p) \/ Interrupt(p)
  PROVE  PTypeOK'
<1>0. /\ RowsAreBounded /\ log \in Seq(Message)
      /\ batch \in [Publishers -> SUBSET Jobs]
      /\ ptoken \in [Publishers -> [Jobs -> Tokens \cup {NoOne}]]
      /\ current \in [Publishers -> Jobs \cup {NoOne}]
      /\ stage \in [Publishers -> {"publish", "mark", "fail"}]
      /\ inflight \in SUBSET Jobs /\ outages \in Nat
  BY TypeIsBounded
<1>1. CASE ClaimBatch(p)
  <2>1. ptoken' \in [Publishers -> [Jobs -> Tokens \cup {NoOne}]]
    BY <1>0, <1>1, ClaimRows
  <2>2. batch' \in [Publishers -> SUBSET Jobs]
    BY <1>0, <1>1 DEF ClaimBatch, Due
  <2>3. RowsAreBounded'
    BY <1>0, <1>1, ClaimRows
  <2> QED BY <1>1, <2>1, <2>2, <2>3
      DEF ClaimBatch, PTypeOK, StoreTypeOK, PublisherTypeOK, RowsAreBounded
<1>2. CASE TakeClaim(p)
  <2>1. current' \in [Publishers -> Jobs \cup {NoOne}] /\ batch' \in [Publishers -> SUBSET Jobs]
    BY <1>0, <1>2 DEF TakeClaim
  <2>2. RowsAreBounded'
    BY <1>0, <1>2 DEF TakeClaim, RowsAreBounded
  <2> QED BY <1>2, <2>1, <2>2
      DEF TakeClaim, PTypeOK, StoreTypeOK, PublisherTypeOK, RowsAreBounded
<1>3. CASE PublishAcked(p)
  <2>1. current[p] \in Jobs
    BY <1>0, <1>3 DEF PublishAcked
  <2>2. log' \in Seq(Message)
    BY <1>0, <1>3, <2>1, AppendPuts DEF PublishAcked
  <2>3. stage' \in [Publishers -> {"publish", "mark", "fail"}] /\ RowsAreBounded'
    BY <1>0, <1>3 DEF PublishAcked, RowsAreBounded
  <2> QED BY <1>3, <2>2, <2>3
      DEF PublishAcked, PTypeOK, StoreTypeOK, PublisherTypeOK, RowsAreBounded
<1>4. CASE MarkPublished(p) \/ RecordFailure(p)
  <2>1. RowsAreBounded'
    BY <1>0, <1>4, ReceiptRows
  <2>2. DropClaim(p) /\ UNCHANGED <<job, result, processed, log, batch, inflight, outages>>
    BY <1>4 DEF MarkPublished, RecordFailure
  <2>3. /\ current' \in [Publishers -> Jobs \cup {NoOne}]
        /\ stage' \in [Publishers -> {"publish", "mark", "fail"}]
    BY <1>0, <2>2 DEF DropClaim
  <2>4. ptoken' \in [Publishers -> [Jobs -> Tokens \cup {NoOne}]]
    BY <1>0, <2>2 DEF DropClaim
  <2> QED BY <2>1, <2>2, <2>3, <2>4 DEF PTypeOK, StoreTypeOK, PublisherTypeOK, RowsAreBounded
<1>5. CASE PublishFailed(p)
  <2>1. current[p] \in Jobs
    BY <1>0, <1>5 DEF PublishFailed
  <2>2. /\ stage' \in [Publishers -> {"publish", "mark", "fail"}]
        /\ inflight' \in SUBSET Jobs /\ outages' \in Nat
    BY <1>0, <1>5, <2>1 DEF PublishFailed, Outage
  <2>3. RowsAreBounded'
    BY <1>0, <1>5 DEF PublishFailed, RowsAreBounded
  <2> QED BY <1>5, <2>2, <2>3
      DEF PublishFailed, PTypeOK, StoreTypeOK, PublisherTypeOK, RowsAreBounded
<1>6. CASE Interrupt(p)
  <2>1. /\ stage' \in [Publishers -> {"publish", "mark", "fail"}]
        /\ current' \in [Publishers -> Jobs \cup {NoOne}]
        /\ batch' \in [Publishers -> SUBSET Jobs] /\ outages' \in Nat
    BY <1>0, <1>6 DEF Interrupt, Outage
  <2>2. inflight' \in SUBSET Jobs
    BY <1>0, <1>6 DEF Interrupt
  <2>3. ptoken' \in [Publishers -> [Jobs -> Tokens \cup {NoOne}]]
    BY <1>0, <1>6 DEF Interrupt
  <2>4. RowsAreBounded'
    BY <1>0, <1>6 DEF Interrupt, RowsAreBounded
  <2> QED BY <1>6, <2>1, <2>2, <2>3, <2>4
      DEF Interrupt, PTypeOK, StoreTypeOK, PublisherTypeOK, RowsAreBounded
<1> QED BY <1>1, <1>2, <1>3, <1>4, <1>5, <1>6 DEF PublisherStep

LEMMA WorldType ==
  ASSUME PTypeOK, PublisherTick \/ \E j \in Jobs : LateDelivery(j)
  PROVE  PTypeOK'
<1>0. /\ RowsAreBounded /\ log \in Seq(Message) /\ job \in [Jobs -> JobRow]
      /\ inflight \in SUBSET Jobs /\ outages \in Nat
  BY TypeIsBounded
<1>1. ASSUME NEW j \in Jobs, LateDelivery(j)
      PROVE  PTypeOK'
  <2>1. log' \in Seq(Message)
    BY <1>0, <1>1, AppendPuts DEF LateDelivery
  <2>2. inflight' \in SUBSET Jobs /\ RowsAreBounded'
    BY <1>0, <1>1 DEF LateDelivery, RowsAreBounded
  <2> QED BY <1>1, <2>1, <2>2
      DEF LateDelivery, PTypeOK, StoreTypeOK, PublisherTypeOK, RowsAreBounded
<1>2. CASE PublisherTick
  <2>1. RowsAreBounded'
    BY <1>0, <1>2, TickRowsBounded DEF PublisherTick
  <2>2. ASSUME NEW j \in Jobs
        PROVE  [job[j] EXCEPT !.lease = Elapse(job[j].lease)] \in JobRow
    BY <1>0 DEF JobRow, Elapse
  <2>3. job' \in [Jobs -> JobRow]
    BY <1>2, <2>2 DEF PublisherTick, TickRows
  <2>4. outages' \in Nat
    BY <1>0, <1>2 DEF PublisherTick, Outage
  <2> QED BY <1>2, <2>1, <2>3, <2>4
      DEF PublisherTick, TickRows, PTypeOK, StoreTypeOK, PublisherTypeOK, RowsAreBounded
<1> QED BY <1>1, <1>2

LEMMA PTypeStep == PTypeOK /\ [PNext]_pvars => PTypeOK'
<1> SUFFICES ASSUME PTypeOK, [PNext]_pvars PROVE PTypeOK'
  OBVIOUS
<1>1. CASE UNCHANGED pvars
  BY <1>1 DEF pvars, PTypeOK, StoreTypeOK, PublisherTypeOK, RowsAreBounded
<1> QED BY <1>1, ServiceType, PublisherType, WorldType DEF PNext, PublisherNext

\* Every variable keeps its type, no backoff exceeds retry_max_seconds whatever
\* the attempt and the jitter, and no lease exceeds lease_seconds
\* (outbox_publisher.py _backoff_seconds, _record_failure).
THEOREM PublisherTypes == PSpec => []PTypeOK
  BY PInitType, PTypeStep, PTL DEF PSpec

-----------------------------------------------------------------------------
(* What is published is in the topic.                                      *)

TopicInv == ClaimsAreSubmitted /\ AckedIsInTopic /\ PublishedIsInTopic

\* A step that leaves the topic and the status of events alone.
LEMMA TopicFrame ==
  ASSUME PInv, UNCHANGED log, \A j \in Jobs : outbox'[j].status = outbox[j].status,
         \A p \in Publishers : \A j \in Jobs :
            j \in batch'[p] \/ j = current'[p] => outbox[j].status # "none",
         \A j \in inflight' : j \in Jobs /\ outbox[j].status # "none",
         \A p \in Publishers :
            /\ stage'[p] = "mark" => stage[p] = "mark" /\ current'[p] = current[p]
            /\ current'[p] = NoOne => stage'[p] = "publish"
  PROVE  TopicInv'
  BY DEF TopicInv, PInv, ClaimsAreSubmitted, AckedIsInTopic, PublishedIsInTopic, InTopic

LEMMA ServiceTopic ==
  ASSUME PInv, ServiceStep, UNCHANGED publisherVars
  PROVE  TopicInv'
<1> USE DEF TopicInv, PInv, ClaimsAreSubmitted, AckedIsInTopic, PublishedIsInTopic, InTopic
<1>0. RowsAreBounded /\ inflight \in SUBSET Jobs
  BY TypeIsBounded
<1>1. PICK j \in Jobs : Submit(j) \/ UNCHANGED <<outbox, log>>
  BY DEF ServiceStep, Cancel, DirectStart, DirectSuccess, DirectFailure
<1>2. CASE UNCHANGED <<outbox, log>>
  BY <1>2
<1>3. CASE Submit(j)
  <2>1. /\ outbox'[j].status = "PENDING" /\ UNCHANGED log
        /\ \A k \in Jobs \ {j} : outbox'[k] = outbox[k]
    BY <1>0, <1>3, SubmitRows DEF Submit
  <2> QED BY <1>0, <2>1
<1> QED BY <1>1, <1>2, <1>3

\* A message reaches the topic, on time or late.
LEMMA AppendTopic ==
  ASSUME PInv, NEW j \in Jobs, outbox[j].status # "none", AppendLog(j), UNCHANGED outbox,
         log \in Seq(Message)
  PROVE  /\ PublishedIsInTopic' /\ InTopic(j)'
         /\ \A m : InTopic(m) => InTopic(m)'
<1>1. \A m : InTopic(m)' <=> InTopic(m) \/ m = j
  BY AppendPuts
<1> QED BY <1>1 DEF PInv, PublishedIsInTopic

LEMMA PublisherTopic ==
  ASSUME PInv, NEW p \in Publishers, PublisherStep(p) \/ PublishFailed(p) \/ Interrupt(p)
  PROVE  TopicInv'
<1>0. /\ RowsAreBounded /\ log \in Seq(Message)
      /\ batch \in [Publishers -> SUBSET Jobs]
      /\ current \in [Publishers -> Jobs \cup {NoOne}]
      /\ stage \in [Publishers -> {"publish", "mark", "fail"}]
      /\ inflight \in SUBSET Jobs
  BY TypeIsBounded DEF PInv
<1>01. /\ \A q \in Publishers : \A j \in Jobs :
            j \in batch[q] \/ j = current[q] => outbox[j].status # "none"
       /\ \A j \in inflight : outbox[j].status # "none"
       /\ \A q \in Publishers : current[q] = NoOne => stage[q] = "publish"
  BY DEF PInv, ClaimsAreSubmitted, AckedIsInTopic
<1>1. CASE ClaimBatch(p)
  <2>1. \A j \in Jobs : outbox'[j].status = outbox[j].status
    BY <1>0, <1>1, ClaimRows
  <2>2. UNCHANGED <<log, current, stage, inflight>>
    BY <1>1 DEF ClaimBatch
  <2>3. PICK S : batch' = [batch EXCEPT ![p] = S] /\ S \subseteq Due
    BY <1>1 DEF ClaimBatch
  <2>4. \A q \in Publishers : \A j \in Jobs : j \in batch'[q] => outbox[j].status # "none"
    BY <1>0, <1>01, <2>3 DEF Due
  <2> QED BY <1>0, <1>01, <2>1, <2>2, <2>4, TopicFrame
<1>2. CASE TakeClaim(p)
  <2>1. /\ UNCHANGED <<log, outbox, stage, inflight>> /\ current[p] = NoOne
        /\ \E j \in batch[p] : /\ current' = [current EXCEPT ![p] = j]
                               /\ batch' = [batch EXCEPT ![p] = @ \ {j}]
    BY <1>2 DEF TakeClaim
  <2>2. \A q \in Publishers : \A j \in Jobs :
          j \in batch'[q] \/ j = current'[q] => outbox[j].status # "none"
    BY <1>0, <1>01, <2>1
  <2>3. \A q \in Publishers : /\ stage'[q] = "mark" => stage[q] = "mark" /\ current'[q] = current[q]
                              /\ current'[q] = NoOne => stage'[q] = "publish"
    BY <1>0, <1>01, <2>1
  <2> QED BY <1>0, <1>01, <2>1, <2>2, <2>3, TopicFrame
<1>3. CASE PublishAcked(p)
  <2>1. current[p] \in Jobs /\ current[p] # NoOne /\ outbox[current[p]].status # "none"
    BY <1>0, <1>01, <1>3 DEF PublishAcked
  <2>2. /\ AppendLog(current[p]) /\ stage' = [stage EXCEPT ![p] = "mark"]
        /\ UNCHANGED <<outbox, batch, current, inflight>>
    BY <1>3 DEF PublishAcked
  <2>3. PublishedIsInTopic' /\ InTopic(current[p])' /\ \A m : InTopic(m) => InTopic(m)'
    BY <1>0, <2>1, <2>2, AppendTopic
  <2>4. AckedIsInTopic'
    <3> SUFFICES ASSUME NEW q \in Publishers
                 PROVE  /\ stage'[q] = "mark" => InTopic(current[q])'
                        /\ current'[q] = NoOne => stage'[q] = "publish"
      BY DEF AckedIsInTopic
    <3>1. CASE q = p
      BY <1>0, <2>1, <2>2, <2>3, <3>1
    <3>2. CASE q # p
      <4>1. stage'[q] = stage[q] /\ current'[q] = current[q]
        BY <1>0, <2>2, <3>2
      <4>2. stage[q] = "mark" => InTopic(current[q])
        BY DEF PInv, AckedIsInTopic
      <4>3. stage[q] = "mark" => InTopic(current[q])'
        BY <2>2, <2>3, <4>2 DEF InTopic
      <4> QED BY <1>01, <4>1, <4>3
    <3> QED BY <3>1, <3>2
  <2> QED BY <1>01, <2>2, <2>3, <2>4 DEF TopicInv, ClaimsAreSubmitted
<1>4. CASE MarkPublished(p) \/ RecordFailure(p)
  <2>1. /\ current[p] \in Jobs /\ current' = [current EXCEPT ![p] = NoOne]
        /\ stage' = [stage EXCEPT ![p] = "publish"] /\ UNCHANGED <<log, batch, inflight>>
    BY <1>0, <1>4 DEF MarkPublished, RecordFailure, DropClaim
  <2>2. \A j \in Jobs : \/ outbox'[j].status = outbox[j].status
                        \/ /\ outbox'[j].status = "PUBLISHED" /\ outbox[j].status # "none"
                           /\ InTopic(j)
    <3>1. \A j \in Jobs :
              \/ outbox'[j] = outbox[j]
              \/ /\ j = current[p] /\ Receivable(p, j)
                 /\ \/ outbox'[j].status = outbox[j].status
                    \/ outbox'[j].status = "PUBLISHED" /\ stage[p] = "mark"
      BY <1>0, <1>4, ReceiptRows
    <3>2. stage[p] = "mark" => InTopic(current[p])
      BY DEF PInv, AckedIsInTopic
    <3> QED BY <1>01, <3>1, <3>2
  <2>3. ClaimsAreSubmitted'
    BY <1>0, <1>01, <2>1, <2>2, Constants DEF ClaimsAreSubmitted
  <2>4. AckedIsInTopic'
    BY <1>0, <2>1 DEF PInv, AckedIsInTopic, InTopic
  <2>5. PublishedIsInTopic'
    BY <2>1, <2>2 DEF PInv, PublishedIsInTopic, InTopic
  <2> QED BY <2>3, <2>4, <2>5 DEF TopicInv
<1>5. CASE PublishFailed(p)
  <2>1. /\ UNCHANGED <<log, outbox, batch, current>> /\ current[p] # NoOne
        /\ stage' = [stage EXCEPT ![p] = "fail"]
        /\ inflight' \in {inflight, inflight \cup {current[p]}}
    BY <1>5 DEF PublishFailed
  <2>2. \A j \in inflight' : j \in Jobs /\ outbox[j].status # "none"
    BY <1>0, <1>01, <2>1
  <2>3. \A q \in Publishers : /\ stage'[q] = "mark" => stage[q] = "mark" /\ current'[q] = current[q]
                              /\ current'[q] = NoOne => stage'[q] = "publish"
    BY <1>0, <1>01, <2>1
  <2> QED BY <1>01, <2>1, <2>2, <2>3, TopicFrame
<1>6. CASE Interrupt(p)
  <2>1. /\ UNCHANGED <<log, outbox>>
        /\ batch' = [batch EXCEPT ![p] = {}] /\ current' = [current EXCEPT ![p] = NoOne]
        /\ stage' = [stage EXCEPT ![p] = "publish"]
        /\ inflight' = inflight \/ (inflight' = inflight \cup {current[p]} /\ current[p] # NoOne)
    BY <1>6 DEF Interrupt
  <2>2. \A j \in inflight' : j \in Jobs /\ outbox[j].status # "none"
    BY <1>0, <1>01, <2>1
  <2>3. \A q \in Publishers : /\ stage'[q] = "mark" => stage[q] = "mark" /\ current'[q] = current[q]
                              /\ current'[q] = NoOne => stage'[q] = "publish"
    BY <1>0, <1>01, <2>1
  <2>4. \A q \in Publishers : \A j \in Jobs :
          j \in batch'[q] \/ j = current'[q] => j \in batch[q] \/ j = current[q] \/ j = NoOne
    BY <1>0, <2>1
  <2> QED BY <1>01, <2>1, <2>2, <2>3, <2>4, TopicFrame, Constants
<1> QED BY <1>1, <1>2, <1>3, <1>4, <1>5, <1>6 DEF PublisherStep

LEMMA WorldTopic ==
  ASSUME PInv, PublisherTick \/ \E j \in Jobs : LateDelivery(j)
  PROVE  TopicInv'
<1>0. /\ RowsAreBounded /\ log \in Seq(Message) /\ inflight \in SUBSET Jobs
  BY TypeIsBounded DEF PInv
<1>1. ASSUME NEW j \in Jobs, LateDelivery(j)
      PROVE  TopicInv'
  <2>1. /\ AppendLog(j) /\ j \in inflight /\ inflight' = inflight \ {j}
        /\ UNCHANGED <<outbox, batch, current, stage>>
    BY <1>1 DEF LateDelivery
  <2>2. PublishedIsInTopic' /\ \A m : InTopic(m) => InTopic(m)'
    BY <1>0, <2>1, AppendTopic DEF PInv, ClaimsAreSubmitted
  <2>3. ASSUME NEW q \in Publishers
        PROVE  /\ stage'[q] = "mark" => InTopic(current[q])'
               /\ current'[q] = NoOne => stage'[q] = "publish"
    <3>1. stage[q] = "mark" => InTopic(current[q])
      BY DEF PInv, AckedIsInTopic
    <3>2. stage[q] = "mark" => InTopic(current[q])'
      BY <2>1, <2>2, <3>1 DEF InTopic
    <3> QED BY <2>1, <3>2 DEF PInv, AckedIsInTopic
  <2> QED BY <2>1, <2>2, <2>3 DEF TopicInv, PInv, ClaimsAreSubmitted, AckedIsInTopic
<1>2. CASE PublisherTick
  <2>1. /\ \A j \in Jobs : outbox'[j].status = outbox[j].status
        /\ UNCHANGED <<log, batch, current, stage, inflight>>
    BY <1>0, <1>2, TickRowsBounded DEF PublisherTick, TickRows
  <2> QED BY <1>0, <2>1, TopicFrame DEF PInv, ClaimsAreSubmitted, AckedIsInTopic
<1> QED BY <1>1, <1>2

LEMMA PInvInit == PInit => PInv
<1> SUFFICES ASSUME PInit PROVE PInv
  OBVIOUS
<1>1. PTypeOK
  BY PInitType
<1>2. ~\E m : InTopic(m)
  BY DEF PInit, StoreInit, InTopic
<1>3. \A j \in Jobs : outbox[j].status = "none"
  BY DEF PInit, StoreInit
<1>4. /\ \A p \in Publishers : batch[p] = {} /\ current[p] = NoOne /\ stage[p] = "publish"
      /\ inflight = {}
  BY DEF PInit, PublisherInit
<1> QED BY <1>1, <1>2, <1>3, <1>4, Constants DEF PInv, ClaimsAreSubmitted, AckedIsInTopic,
           PublishedIsInTopic

LEMMA PInvStep == PInv /\ [PNext]_pvars => PInv'
<1> SUFFICES ASSUME PInv, [PNext]_pvars PROVE PInv'
  OBVIOUS
<1>1. PTypeOK'
  BY PTypeStep DEF PInv
<1>2. TopicInv'
  <2>1. CASE UNCHANGED pvars
    BY <2>1 DEF pvars, TopicInv, PInv, ClaimsAreSubmitted, AckedIsInTopic, PublishedIsInTopic,
       InTopic
  <2> QED BY <2>1, ServiceTopic, PublisherTopic, WorldTopic DEF PNext, PublisherNext
<1> QED BY <1>1, <1>2 DEF TopicInv, PInv

\* The outbox forgets no event: mark_outbox_published is called only for what
\* the broker acknowledged, whichever publisher calls it, and nothing gets into
\* the topic that was not submitted (outbox_publisher.py run_once).
THEOREM PublishedReachedTheTopic == PSpec => []PublishedIsInTopic
<1>1. PInv => PublishedIsInTopic
  BY DEF PInv
<1> QED BY <1>1, PInvInit, PInvStep, PTL DEF PSpec

-----------------------------------------------------------------------------
(* What a step may never do to a claim.                                    *)

LEMMA OwnerStep ==
  ASSUME PTypeOK, [PNext]_pvars, NEW j \in Jobs
  PROVE  \/ outbox'[j].owner = outbox[j].owner
         \/ outbox[j].lease = 0
         \/ \E p \in Publishers : /\ current[p] = j /\ current'[p] = NoOne
                                  /\ Receivable(p, j)
<1>0. /\ RowsAreBounded /\ current \in [Publishers -> Jobs \cup {NoOne}]
      /\ outbox[j].lease \in Nat
  BY TypeIsBounded, Constants DEF RowsAreBounded
<1>1. CASE UNCHANGED outbox
  BY <1>1
<1>2. ASSUME NEW k \in Jobs, Submit(k)
      PROVE  outbox'[j].owner = outbox[j].owner
  BY <1>0, <1>2, SubmitRows
<1>3. ASSUME NEW p \in Publishers, ClaimBatch(p)
      PROVE  outbox'[j] = outbox[j] \/ outbox[j].lease = 0
  BY <1>0, <1>3, ClaimRows
<1>4. ASSUME NEW p \in Publishers, MarkPublished(p) \/ RecordFailure(p)
      PROVE  outbox'[j] = outbox[j]
             \/ (current[p] = j /\ current'[p] = NoOne /\ Receivable(p, j))
  <2>1. current'[p] = NoOne
    BY <1>0, <1>4 DEF MarkPublished, RecordFailure, DropClaim
  <2> QED BY <1>0, <1>4, <2>1, ReceiptRows
<1>5. CASE PublisherTick
  BY <1>0, <1>5, TickRowsBounded DEF PublisherTick
<1>6. \/ UNCHANGED outbox \/ PublisherTick \/ \E k \in Jobs : Submit(k)
      \/ \E p \in Publishers : ClaimBatch(p) \/ MarkPublished(p) \/ RecordFailure(p)
  BY DEF PNext, ServiceStep, Cancel, DirectStart, DirectSuccess, DirectFailure, PublisherNext,
     PublisherStep, TakeClaim, PublishAcked, PublishFailed, Interrupt, LateDelivery, pvars
<1> QED BY <1>1, <1>2, <1>3, <1>4, <1>5, <1>6

\* While the lease of a claim runs, only the receipt of its holder takes the
\* event away from it: a slow publisher with an older claim cannot
\* (outbox_publisher.py _CLAIM_SQL, mark_outbox_published, record_outbox_failure).
THEOREM LeasesAreExclusive == PSpec => LeaseIsExclusive
<1>1. PTypeOK /\ [PNext]_pvars => [\A j \in Jobs :
         outbox[j].lease > 0 /\ outbox'[j].owner # outbox[j].owner =>
           /\ outbox[j].owner \in Publishers
           /\ current[outbox[j].owner] = j /\ current'[outbox[j].owner] = NoOne
           /\ ptoken[outbox[j].owner][j] = outbox[j].token]_pvars
  <2> SUFFICES ASSUME PTypeOK, [PNext]_pvars, NEW j \in Jobs, outbox[j].lease > 0,
                      outbox'[j].owner # outbox[j].owner
               PROVE  /\ outbox[j].owner \in Publishers
                      /\ current[outbox[j].owner] = j /\ current'[outbox[j].owner] = NoOne
                      /\ ptoken[outbox[j].owner][j] = outbox[j].token
    OBVIOUS
  <2>1. PICK p \in Publishers : current[p] = j /\ current'[p] = NoOne /\ Receivable(p, j)
    BY OwnerStep
  <2> QED BY <2>1 DEF Receivable
<1> QED BY <1>1, PInitType, PTypeStep, PTL DEF PSpec, LeaseIsExclusive

=============================================================================
