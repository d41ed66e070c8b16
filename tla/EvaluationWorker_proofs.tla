----------------------- MODULE EvaluationWorker_proofs -----------------------
(***************************************************************************)
(* Proofs about the evaluation workers, for any number of jobs, workers,   *)
(* direct callers, faults and copies of a message.                         *)
(***************************************************************************)
EXTENDS EvaluationWorker, TLAPS

USE DEF storeVars, brokerVars, localVars, workerVars

----------------------------------------------------------------------------
(* Type correctness *)

LEMMA InitTypeOK == Init => TypeOK
  BY DEF Init, StoreInit, WorkerInit, TypeOK, StoreTypeOK, WorkerTypeOK,
         JobRow, JobStatus, Terminal, OutboxRow, Snapshot, NoTxn, PcValues

LEMMA AppendLogType ==
  ASSUME TypeOK, NEW m \in Message, AppendLog(m)
  PROVE  log' \in Seq(Message)
  BY DEF TypeOK, StoreTypeOK, AppendLog

LEMMA ServiceType ==
  ASSUME TypeOK, ServiceStep, UNCHANGED workerVars
  PROVE  TypeOK'
<1> USE DEF TypeOK, StoreTypeOK, WorkerTypeOK, JobRow, JobStatus, Terminal,
            OutboxRow, Unclaimed
<1>1. PICK j \in Jobs :
        \/ Submit(j) \/ Cancel(j)
        \/ \E d \in Direct :
              DirectStart(d, j) \/ DirectSuccess(d, j) \/ DirectFailure(d, j)
  BY DEF ServiceStep
<1>2. CASE Submit(j)
  BY <1>2 DEF Submit
<1>3. CASE Cancel(j)
  BY <1>3 DEF Cancel
<1>4. ASSUME NEW d \in Direct, DirectStart(d, j)
      PROVE  TypeOK'
  BY <1>4 DEF DirectStart
<1>5. ASSUME NEW d \in Direct, DirectSuccess(d, j)
      PROVE  TypeOK'
  BY <1>5 DEF DirectSuccess
<1>6. ASSUME NEW d \in Direct, DirectFailure(d, j)
      PROVE  TypeOK'
  BY <1>6 DEF DirectFailure
<1> QED BY <1>1, <1>2, <1>3, <1>4, <1>5, <1>6

LEMMA GroupType ==
  ASSUME TypeOK, NEW w \in Workers,
         Join(w) \/ Lose(w) \/ Kill(w) \/ Restart(w) \/ Evict
  PROVE  TypeOK'
<1> USE DEF TypeOK, StoreTypeOK, WorkerTypeOK, PcValues
<1>1. CASE Join(w)
  BY <1>1 DEF Join
<1>2. CASE Lose(w)
  BY <1>2 DEF Lose
<1>3. CASE Kill(w)
  BY <1>3 DEF Kill, Fault
<1>4. CASE Restart(w)
  BY <1>4 DEF Restart, NoTxn, Snapshot, JobStatus
<1>5. CASE Evict
  BY <1>5 DEF Evict, Fault
<1> QED BY <1>1, <1>2, <1>3, <1>4, <1>5

LEMMA StopType ==
  ASSUME TypeOK, NEW w \in Workers, StopWorker(w), UNCHANGED storeVars,
         faults' \in Nat
  PROVE  TypeOK'
  BY DEF TypeOK, StoreTypeOK, WorkerTypeOK, PcValues, StopWorker

LEMMA HandleType ==
  ASSUME TypeOK, NEW w \in Workers,
         Poll(w) \/ Reject(w) \/ Claim(w) \/ ClaimMiss(w) \/ Execute(w)
  PROVE  TypeOK'
<1> USE DEF TypeOK, StoreTypeOK, WorkerTypeOK, PcValues
<1>1. CASE Poll(w)
  BY <1>1 DEF Poll
<1>2. CASE Reject(w)
  BY <1>2 DEF Reject
<1>3. CASE Claim(w)
  <2> DEFINE t == CHOOSE t \in Tokens \ HeldTokens : TRUE
  <2>1. t \in Tokens
    BY <1>3 DEF Claim
  <2>2. job' = [job EXCEPT ![Msg(w)] = [status |-> "RUNNING", owner |-> w,
                                        token |-> t, lease |-> Lease]]
    BY <1>3 DEF Claim
  <2>3. job' \in [Jobs -> JobRow]
    BY <1>3, <2>1, <2>2, WorkerAssumption DEF Claim, JobRow, JobStatus
  <2> QED BY <1>3, <2>1, <2>3 DEF Claim
<1>4. CASE ClaimMiss(w)
  BY <1>4 DEF ClaimMiss
<1>5. CASE Execute(w)
  BY <1>5 DEF Execute
<1> QED BY <1>1, <1>2, <1>3, <1>4, <1>5

LEMMA SettleType ==
  ASSUME TypeOK, NEW w \in Workers, Msg(w) \in Jobs,
         \/ TxnBegin(w) \/ ApplyDuplicate(w) \/ ApplyNoop(w)
         \/ ApplyVerdict(w) \/ ApplyConflict(w)
  PROVE  TypeOK'
<1> USE DEF TypeOK, StoreTypeOK, WorkerTypeOK, PcValues
<1>1. CASE TxnBegin(w)
  BY <1>1 DEF TxnBegin, Snapshot, JobRow
<1>2. CASE ApplyDuplicate(w)
  BY <1>2 DEF ApplyDuplicate
<1>3. CASE ApplyNoop(w)
  BY <1>3 DEF ApplyNoop, NoopOutcome, Outcome
<1>4. CASE ApplyVerdict(w)
  BY <1>4 DEF ApplyVerdict, Unclaimed, Outcome, JobRow, JobStatus, Terminal
<1>5. CASE ApplyConflict(w)
  BY <1>5, StopType DEF ApplyConflict
<1> QED BY <1>1, <1>2, <1>3, <1>4, <1>5

LEMMA CommitType ==
  ASSUME TypeOK, NEW w \in Workers,
         CommitOffset(w) \/ CommitRefused(w) \/ Fail(w)
  PROVE  TypeOK'
<1>1. CASE CommitOffset(w)
  BY <1>1 DEF CommitOffset, TypeOK, StoreTypeOK, WorkerTypeOK, PcValues, NoTxn,
              Snapshot, JobStatus
<1>2. CASE CommitRefused(w)
  BY <1>2, StopType DEF CommitRefused, TypeOK, WorkerTypeOK
<1>3. CASE Fail(w)
  BY <1>3, StopType DEF Fail, Fault, TypeOK, WorkerTypeOK
<1> QED BY <1>1, <1>2, <1>3

LEMMA TickRowsType ==
  ASSUME TypeOK, TickRows
  PROVE  job' \in [Jobs -> JobRow] /\ outbox' \in [Jobs -> OutboxRow]
<1>1. \A n \in Nat : Elapse(n) \in Nat
  BY DEF Elapse
<1>2. ASSUME NEW j \in Jobs
      PROVE  [job[j] EXCEPT !.lease = Elapse(@)] \in JobRow
  BY <1>1 DEF TypeOK, StoreTypeOK, JobRow
<1>3. ASSUME NEW j \in Jobs
      PROVE  [outbox[j] EXCEPT !.lease = Elapse(@), !.delay = Elapse(@)]
                \in OutboxRow
  BY <1>1 DEF TypeOK, StoreTypeOK, OutboxRow
<1> QED BY <1>2, <1>3 DEF TickRows

LEMMA WorldType ==
  ASSUME TypeOK, Tick \/ Intrude \/ \E j \in Jobs : Deliver(j)
  PROVE  TypeOK'
<1> USE DEF TypeOK
<1>1. CASE Tick
  <2>1. job' \in [Jobs -> JobRow] /\ outbox' \in [Jobs -> OutboxRow]
    BY <1>1, TickRowsType DEF Tick
  <2>2. faults' = faults \/ faults' = faults + 1
    BY <1>1, Zenon DEF Tick, Fault
  <2>3. faults' \in Nat
    BY <2>2 DEF WorkerTypeOK
  <2> QED BY <1>1, <2>1, <2>3 DEF Tick, TickRows, StoreTypeOK, WorkerTypeOK
<1>2. CASE Intrude
  BY <1>2, AppendLogType DEF Intrude, Message, StoreTypeOK, WorkerTypeOK
<1>3. ASSUME NEW j \in Jobs, Deliver(j) PROVE TypeOK'
  BY <1>3, AppendLogType DEF Deliver, Message, StoreTypeOK, WorkerTypeOK
<1> QED BY <1>1, <1>2, <1>3

----------------------------------------------------------------------------
(* The inductive invariant *)

\* What a job's rows say about each other, about the last claimant included.
JobInv(j) ==
    /\ result[j] # NoOne <=> job[j].status = "SUCCEEDED"
    /\ processed[j] # "none" => job[j].status \in Terminal
    /\ processed[j] = "SUCCEEDED" => job[j].status = "SUCCEEDED"
    /\ processed[j] = "FAILED" => job[j].status = "FAILED"
    /\ processed[j] = "CANCELLED_NOOP" => job[j].status = "CANCELLED"
    /\ processed[j] = "TERMINAL_NOOP" => job[j].status \in {"SUCCEEDED", "FAILED"}
    /\ job[j].status \in {"none", "QUEUED", "CANCELLED"} => claimant[j] = NoOne
    /\ job[j].owner # NoOne => claimant[j] = job[j].owner
    /\ result[j] \in Workers => result[j] = claimant[j]

\* What the progress of process_message says about the message in hand.
WorkerInv(w) ==
    /\ pc[w] \notin {"down", "poll"} => pos[w] < Len(log)
    /\ pc[w] \in {"exec", "settle", "apply"} => Msg(w) \in Jobs
    /\ pc[w] = "apply" => /\ txn[w].done => processed[Msg(w)] # "none"
                          /\ txn[w].status \in Terminal =>
                               job[Msg(w)].status = txn[w].status
    /\ pc[w] = "commit" => Settled(pos[w] + 1)

\* What the broker's offset says: the member that may commit is exactly at it.
GroupInv ==
    /\ committed <= Len(log)
    /\ \A i \in 1..committed : Settled(i)
    /\ \A w \in Workers : joined[w] /\ assignee = w => pos[w] = committed

IInv ==
    /\ TypeOK
    /\ \A j \in Jobs : JobInv(j)
    /\ \A w \in Workers : WorkerInv(w)
    /\ GroupInv

----------------------------------------------------------------------------
(* Next, one disjunct per action *)

LEMMA NextCases ==
  ASSUME Next
  PROVE  \/ ServiceStep /\ UNCHANGED workerVars
         \/ Tick \/ Evict \/ Intrude \/ \E j \in Jobs : Deliver(j)
         \/ \E w \in Workers :
              \/ Join(w) \/ Lose(w) \/ Kill(w) \/ Restart(w) \/ Fail(w)
              \/ Poll(w) \/ Reject(w) \/ Claim(w) \/ ClaimMiss(w) \/ Execute(w)
              \/ TxnBegin(w) \/ ApplyDuplicate(w) \/ ApplyNoop(w)
              \/ ApplyVerdict(w) \/ ApplyConflict(w)
              \/ CommitOffset(w) \/ CommitRefused(w)
  BY DEF Next, WorkerStep

LEMMA TypeStep == IInv /\ [Next]_vars => TypeOK'
<1> SUFFICES ASSUME IInv, [Next]_vars PROVE TypeOK'
  OBVIOUS
<1>1. TypeOK
  BY DEF IInv
<1>2. CASE UNCHANGED vars
  BY <1>1, <1>2 DEF vars, TypeOK, StoreTypeOK, WorkerTypeOK
<1>3. CASE Tick \/ Intrude \/ \E j \in Jobs : Deliver(j)
  BY <1>1, <1>3, WorldType
<1>4. CASE ServiceStep /\ UNCHANGED workerVars
  BY <1>1, <1>4, ServiceType
<1>5. CASE Evict
  BY <1>1, <1>5 DEF Evict, Fault, TypeOK, StoreTypeOK, WorkerTypeOK
<1>6. ASSUME NEW w \in Workers,
             Join(w) \/ Lose(w) \/ Kill(w) \/ Restart(w)
      PROVE  TypeOK'
  BY <1>1, <1>6, GroupType
<1>7. ASSUME NEW w \in Workers,
             Poll(w) \/ Reject(w) \/ Claim(w) \/ ClaimMiss(w) \/ Execute(w)
      PROVE  TypeOK'
  BY <1>1, <1>7, HandleType
<1>8. ASSUME NEW w \in Workers,
             \/ TxnBegin(w) \/ ApplyDuplicate(w) \/ ApplyNoop(w)
             \/ ApplyVerdict(w) \/ ApplyConflict(w)
      PROVE  TypeOK'
  <2>1. pc[w] \in {"settle", "apply"}
    BY <1>8 DEF TxnBegin, ApplyDuplicate, ApplyNoop, ApplyVerdict, ApplyConflict
  <2>2. Msg(w) \in Jobs
    BY <2>1 DEF IInv, WorkerInv
  <2> QED BY <1>1, <1>8, <2>2, SettleType
<1>9. ASSUME NEW w \in Workers,
             CommitOffset(w) \/ CommitRefused(w) \/ Fail(w)
      PROVE  TypeOK'
  BY <1>1, <1>9, CommitType
<1> QED BY <1>2, <1>3, <1>4, <1>5, <1>6, <1>7, <1>8, <1>9, NextCases, Zenon

----------------------------------------------------------------------------
(* What no step takes back: the topic, the DLQ, outcomes and dedup rows *)

Grows ==
    /\ Len(log) <= Len(log')
    /\ \A i \in 1..Len(log) : log'[i] = log[i]
    /\ dlq \subseteq dlq'
    /\ \A j \in Jobs :
         /\ job[j].status \in Terminal => job'[j].status = job[j].status
         /\ processed[j] # "none" => processed'[j] = processed[j]
         /\ result[j] # NoOne => result'[j] = result[j]

LEMMA AppendGrows ==
  ASSUME TypeOK, NEW m, m \in Message, AppendLog(m)
  PROVE  Len(log) <= Len(log') /\ \A i \in 1..Len(log) : log'[i] = log[i]
<1>1. log \in Seq(Message)
  BY DEF TypeOK, StoreTypeOK
<1>2. CASE log' = log
  BY <1>1, <1>2
<1>3. CASE log' = Append(log, m)
  BY <1>1, <1>3
<1> QED BY <1>2, <1>3 DEF AppendLog

LEMMA StepGrows == IInv /\ [Next]_vars => Grows
<1> SUFFICES ASSUME IInv, [Next]_vars PROVE Grows
  OBVIOUS
<1> USE DEF Grows
<1>t. TypeOK /\ log \in Seq(Message) /\ job \in [Jobs -> JobRow]
      /\ processed \in [Jobs -> Outcome \cup {"none"}]
      /\ result \in [Jobs -> Workers \cup Direct \cup {NoOne}]
  BY DEF IInv, TypeOK, StoreTypeOK
<1>r. \A j \in Jobs : result[j] # NoOne => job[j].status = "SUCCEEDED"
  BY DEF IInv, JobInv
<1>s. ASSUME job' = job, result' = result, processed' = processed, log' = log,
             dlq' = dlq
      PROVE  Grows
  BY <1>s, <1>t
<1>1. CASE UNCHANGED vars
  BY <1>1, <1>s DEF vars
<1>2. CASE ServiceStep /\ UNCHANGED workerVars
  <2> USE <1>t, <1>2 DEF Terminal, Unclaimed
  <2>1. processed' = processed /\ log' = log /\ dlq' = dlq
    BY DEF ServiceStep, Submit, Cancel, DirectStart, DirectSuccess, DirectFailure
  <2>2. ASSUME NEW i \in Jobs, job[i].status \in Terminal
        PROVE  job'[i].status = job[i].status
    <3>1. PICK j \in Jobs :
            /\ job[j].status \in {"none", "QUEUED", "RUNNING"}
            /\ \E r : job' = [job EXCEPT ![j] = r]
      BY DEF ServiceStep, Submit, Cancel, DirectStart, DirectSuccess, DirectFailure
    <3> QED BY <2>2, <3>1
  <2>3. ASSUME NEW i \in Jobs, result[i] # NoOne PROVE result'[i] = result[i]
    <3>1. PICK j \in Jobs :
            /\ result' = result \/ job[j].status = "RUNNING"
            /\ result' = result \/ \E d \in Direct : result' = [result EXCEPT ![j] = d]
      BY DEF ServiceStep, Submit, Cancel, DirectStart, DirectSuccess, DirectFailure
    <3> QED BY <2>3, <3>1, <1>r
  <2> QED BY <2>1, <2>2, <2>3
<1>3. CASE Tick
  <2>1. \A j \in Jobs : job'[j].status = job[j].status
    BY <1>3, <1>t DEF Tick, TickRows, JobRow
  <2>2. result' = result /\ processed' = processed /\ log' = log /\ dlq' = dlq
    BY <1>3 DEF Tick, TickRows
  <2> QED BY <2>1, <2>2, <1>t
<1>4. CASE Evict
  BY <1>4, <1>s DEF Evict
<1>5. CASE Intrude \/ \E j \in Jobs : Deliver(j)
  <2>1. PICK m \in Message : AppendLog(m)
    BY <1>5 DEF Intrude, Deliver, Message
  <2>2. job' = job /\ result' = result /\ processed' = processed /\ dlq' = dlq
    BY <1>5 DEF Intrude, Deliver
  <2> QED BY <2>1, <2>2, <1>t, AppendGrows
<1>6. ASSUME NEW w \in Workers,
             \/ Join(w) \/ Lose(w) \/ Kill(w) \/ Restart(w) \/ Fail(w)
             \/ Poll(w) \/ ClaimMiss(w) \/ Execute(w) \/ TxnBegin(w)
             \/ ApplyDuplicate(w) \/ ApplyConflict(w)
             \/ CommitOffset(w) \/ CommitRefused(w)
      PROVE  Grows
  BY <1>6, <1>s DEF Join, Lose, Kill, Restart, Fail, Poll, ClaimMiss, Execute,
       TxnBegin, ApplyDuplicate, ApplyConflict, CommitOffset, CommitRefused, StopWorker
<1>7. ASSUME NEW w \in Workers, Reject(w) PROVE Grows
  BY <1>7, <1>t DEF Reject
<1>8. ASSUME NEW w \in Workers, Claim(w) PROVE Grows
  <2>1. job[Msg(w)].status \notin Terminal
    BY <1>8 DEF Claim, Claimable, Terminal
  <2>2. \E r : job' = [job EXCEPT ![Msg(w)] = r]
    BY <1>8 DEF Claim
  <2>3. result' = result /\ processed' = processed /\ log' = log /\ dlq' = dlq
    BY <1>8 DEF Claim
  <2> QED BY <2>1, <2>2, <2>3, <1>t
<1>9. ASSUME NEW w \in Workers, ApplyNoop(w) PROVE Grows
  BY <1>9, <1>t DEF ApplyNoop
<1>10. ASSUME NEW w \in Workers, ApplyVerdict(w) PROVE Grows
  BY <1>10, <1>t, <1>r DEF ApplyVerdict, Fenced, Terminal
<1> QED BY <1>1, <1>2, <1>3, <1>4, <1>5, <1>6, <1>7, <1>8, <1>9, <1>10, NextCases, Zenon

\* A settled message stays settled.
LEMMA SettledStable ==
  ASSUME TypeOK, TypeOK', Grows, NEW i \in 1..Len(log), Settled(i)
  PROVE  Settled(i)'
<1>1. log'[i] = log[i] /\ log[i] \in Message
  BY DEF Grows, TypeOK, StoreTypeOK
<1>2. CASE log[i] = Poison
  BY <1>1, <1>2 DEF Settled, Grows
<1>3. CASE log[i] # Poison
  <2>1. log[i] \in Jobs
    BY <1>1, <1>3 DEF Message
  <2> QED BY <1>1, <1>3, <2>1 DEF Settled, Grows
<1> QED BY <1>2, <1>3

----------------------------------------------------------------------------
(* The rows of a job *)

LEMMA JobStep ==
  ASSUME IInv, [Next]_vars, NEW i \in Jobs
  PROVE  JobInv(i)'
<1> USE StoreAssumption DEF JobInv, Terminal
<1>t. /\ job \in [Jobs -> JobRow] /\ processed \in [Jobs -> Outcome \cup {"none"}]
      /\ result \in [Jobs -> Workers \cup Direct \cup {NoOne}]
      /\ claimant \in [Jobs -> Workers \cup {NoOne}]
      /\ job[i] \in JobRow
  BY DEF IInv, TypeOK, StoreTypeOK, WorkerTypeOK
<1>i. JobInv(i)
  BY DEF IInv
<1>s. ASSUME job'[i].status = job[i].status, job'[i].owner = job[i].owner,
             result' = result, processed' = processed, claimant' = claimant
      PROVE  JobInv(i)'
  BY <1>s, <1>i
<1>1. CASE UNCHANGED vars
  BY <1>1, <1>s DEF vars
<1>2. CASE ServiceStep /\ UNCHANGED workerVars
  <2> USE <1>t, <1>i, <1>2 DEF Unclaimed
  <2>1. PICK j \in Jobs :
          \/ Submit(j) \/ Cancel(j)
          \/ \E d \in Direct :
                DirectStart(d, j) \/ DirectSuccess(d, j) \/ DirectFailure(d, j)
    BY DEF ServiceStep
  <2>2. CASE Submit(j)
    BY <2>2 DEF Submit
  <2>3. CASE Cancel(j)
    BY <2>3 DEF Cancel
  <2>4. ASSUME NEW d \in Direct, DirectStart(d, j) PROVE JobInv(i)'
    BY <2>4 DEF DirectStart
  <2>5. ASSUME NEW d \in Direct, DirectSuccess(d, j) PROVE JobInv(i)'
    BY <2>5 DEF DirectSuccess
  <2>6. ASSUME NEW d \in Direct, DirectFailure(d, j) PROVE JobInv(i)'
    BY <2>6 DEF DirectFailure
  <2> QED BY <2>1, <2>2, <2>3, <2>4, <2>5, <2>6
<1>3. CASE Tick
  BY <1>3, <1>t, <1>s DEF Tick, TickRows, JobRow
<1>4. CASE Evict \/ Intrude \/ \E j \in Jobs : Deliver(j)
  BY <1>4, <1>s DEF Evict, Intrude, Deliver
<1>5. ASSUME NEW w \in Workers,
             \/ Join(w) \/ Lose(w) \/ Kill(w) \/ Restart(w) \/ Fail(w)
             \/ Poll(w) \/ Reject(w) \/ ClaimMiss(w) \/ Execute(w) \/ TxnBegin(w)
             \/ ApplyDuplicate(w) \/ ApplyConflict(w)
             \/ CommitOffset(w) \/ CommitRefused(w)
      PROVE  JobInv(i)'
  BY <1>5, <1>s DEF Join, Lose, Kill, Restart, Fail, Poll, Reject, ClaimMiss, Execute,
       TxnBegin, ApplyDuplicate, ApplyConflict, CommitOffset, CommitRefused, StopWorker
<1>6. ASSUME NEW w \in Workers, Claim(w) PROVE JobInv(i)'
  <2>1. PICK t \in Tokens : job' = [job EXCEPT ![Msg(w)] =
           [status |-> "RUNNING", owner |-> w, token |-> t, lease |-> Lease]]
    BY <1>6 DEF Claim
  <2>2. CASE i = Msg(w)
    BY <1>6, <2>1, <2>2, <1>t, <1>i DEF Claim, Claimable
  <2>3. CASE i # Msg(w)
    BY <1>6, <2>1, <2>3, <1>t, <1>i DEF Claim
  <2> QED BY <2>2, <2>3
<1>7. ASSUME NEW w \in Workers, ApplyNoop(w) PROVE JobInv(i)'
  <2>1. Msg(w) \in Jobs /\ job[Msg(w)].status = txn[w].status
        /\ txn[w].status \in Terminal
    BY <1>7 DEF ApplyNoop, RecordsNoop, IInv, WorkerInv
  <2>2. CASE i = Msg(w)
    BY <1>7, <2>1, <2>2, <1>t, <1>i DEF ApplyNoop, NoopOutcome
  <2>3. CASE i # Msg(w)
    BY <1>7, <2>1, <2>3, <1>t, <1>i DEF ApplyNoop
  <2> QED BY <2>2, <2>3
<1>8. ASSUME NEW w \in Workers, ApplyVerdict(w) PROVE JobInv(i)'
  <2>1. Msg(w) \in Jobs
    BY <1>8 DEF ApplyVerdict, IInv, WorkerInv
  <2>2. CASE i = Msg(w)
    BY <1>8, <2>1, <2>2, <1>t, <1>i DEF ApplyVerdict, Fenced, Unclaimed
  <2>3. CASE i # Msg(w)
    BY <1>8, <2>1, <2>3, <1>t, <1>i DEF ApplyVerdict
  <2> QED BY <2>2, <2>3
<1> QED BY <1>1, <1>2, <1>3, <1>4, <1>5, <1>6, <1>7, <1>8, NextCases, Zenon

----------------------------------------------------------------------------
(* The message in hand *)

\* A step that leaves a worker where it is keeps what is known about it.
LEMMA QuietWorker ==
  ASSUME TypeOK, TypeOK', Grows, NEW w \in Workers, WorkerInv(w),
         pc'[w] = pc[w], pos'[w] = pos[w], txn'[w] = txn[w]
  PROVE  WorkerInv(w)'
<1>1. log \in Seq(Message) /\ log' \in Seq(Message) /\ pos[w] \in Nat
  BY DEF TypeOK, StoreTypeOK, WorkerTypeOK
<1>2. pc[w] \notin {"down", "poll"} => pos[w] + 1 \in 1..Len(log)
  BY <1>1 DEF WorkerInv
<1>3. pc[w] \notin {"down", "poll"} => Msg(w)' = Msg(w) /\ pos'[w] < Len(log')
  BY <1>1, <1>2 DEF Grows, Msg, WorkerInv
<1>4. pc[w] \in {"exec", "settle", "apply"} => Msg(w)' \in Jobs
  BY <1>3 DEF WorkerInv
<1>5. pc[w] = "apply" => (txn[w].done => processed'[Msg(w)] # "none")
  BY <1>4 DEF WorkerInv, Grows
<1>6. pc[w] = "apply" => (txn[w].status \in Terminal =>
                            job'[Msg(w)].status = txn[w].status)
  BY <1>4 DEF WorkerInv, Grows
<1>7. pc[w] = "commit" => Settled(pos[w] + 1)'
  <2> SUFFICES ASSUME pc[w] = "commit" PROVE Settled(pos[w] + 1)'
    OBVIOUS
  <2>1. pos[w] + 1 \in 1..Len(log) /\ Settled(pos[w] + 1)
    BY <1>2 DEF WorkerInv
  <2> DEFINE i == pos[w] + 1
  <2>2. log'[i] = log[i] /\ log[i] \in Message
    BY <2>1, <1>1 DEF Grows
  <2>3. i' = i
    OBVIOUS
  <2> HIDE DEF i
  <2>4. CASE log[i] = Poison
    BY <2>1, <2>2, <2>3, <2>4 DEF Settled, Grows, i
  <2>5. CASE log[i] # Poison
    BY <2>1, <2>2, <2>3, <2>5 DEF Settled, Grows, Message, i
  <2> QED BY <2>3, <2>4, <2>5 DEF i
<1> QED BY <1>3, <1>4, <1>5, <1>6, <1>7 DEF WorkerInv

LEMMA WorkerInvStep ==
  ASSUME IInv, [Next]_vars, TypeOK', Grows, NEW w \in Workers
  PROVE  WorkerInv(w)'
<1>t. /\ TypeOK /\ log \in Seq(Message) /\ pos \in [Workers -> Nat]
      /\ pc \in [Workers -> PcValues] /\ txn \in [Workers -> Snapshot]
      /\ processed \in [Jobs -> Outcome \cup {"none"}] /\ job \in [Jobs -> JobRow]
  BY DEF IInv, TypeOK, StoreTypeOK, WorkerTypeOK
<1>i. WorkerInv(w)
  BY DEF IInv
<1>q. ASSUME pc'[w] = pc[w], pos'[w] = pos[w], txn'[w] = txn[w]
      PROVE  WorkerInv(w)'
  BY <1>q, <1>t, <1>i, QuietWorker
<1>o. ASSUME pc'[w] \in {"down", "poll"}
      PROVE  WorkerInv(w)'
  BY <1>o DEF WorkerInv
<1>1. CASE UNCHANGED vars
  BY <1>1, <1>q DEF vars
<1>2. CASE \/ ServiceStep /\ UNCHANGED workerVars
           \/ Tick \/ Evict \/ Intrude \/ \E j \in Jobs : Deliver(j)
  BY <1>2, <1>q DEF Tick, Evict, Intrude, Deliver
<1>3. ASSUME NEW v \in Workers, Lose(v) PROVE WorkerInv(w)'
  BY <1>3, <1>q DEF Lose
<1>4. ASSUME NEW v \in Workers,
             \/ Join(v) \/ Kill(v) \/ Restart(v) \/ Fail(v) \/ ApplyConflict(v)
             \/ CommitOffset(v) \/ CommitRefused(v)
      PROVE  WorkerInv(w)'
  <2>1. CASE v = w
    BY <1>4, <2>1, <1>t, <1>o DEF Join, Kill, Restart, Fail, ApplyConflict, CommitOffset,
                                  CommitRefused, StopWorker
  <2>2. CASE v # w
    BY <1>4, <2>2, <1>t, <1>q DEF Join, Kill, Restart, Fail, ApplyConflict, CommitOffset,
                                  CommitRefused, StopWorker
  <2> QED BY <2>1, <2>2
<1>5. ASSUME NEW v \in Workers, v # w,
             \/ Poll(v) \/ Reject(v) \/ Claim(v) \/ ClaimMiss(v) \/ Execute(v)
             \/ TxnBegin(v) \/ ApplyDuplicate(v) \/ ApplyNoop(v) \/ ApplyVerdict(v)
      PROVE  WorkerInv(w)'
  BY <1>5, <1>t, <1>q DEF Poll, Reject, Claim, ClaimMiss, Execute, TxnBegin,
                          ApplyDuplicate, ApplyNoop, ApplyVerdict
<1> USE <1>t, <1>i DEF WorkerInv, Msg
<1>6. CASE Poll(w)
  BY <1>6 DEF Poll
<1>7. CASE Reject(w)
  BY <1>7 DEF Reject, Settled
<1>8. CASE Claim(w)
  BY <1>8 DEF Claim
<1>9. CASE ClaimMiss(w)
  BY <1>9 DEF ClaimMiss
<1>10. CASE Execute(w)
  BY <1>10 DEF Execute
<1>11. CASE TxnBegin(w)
  BY <1>11 DEF TxnBegin
<1>n. Msg(w) \in Jobs => Msg(w) # Poison
  BY StoreAssumption
<1>j. \A j \in Jobs : processed[j] # "none" => job[j].status \in Terminal
  BY DEF IInv, JobInv
<1>12. CASE ApplyDuplicate(w)
  BY <1>12, <1>n, <1>j DEF ApplyDuplicate, Settled
<1>13. CASE ApplyNoop(w)
  BY <1>13, <1>n DEF ApplyNoop, RecordsNoop, NoopOutcome, Settled
<1>14. CASE ApplyVerdict(w)
  BY <1>14, <1>n DEF ApplyVerdict, Unclaimed, Terminal, Settled
<1> QED BY <1>1, <1>2, <1>3, <1>4, <1>5, <1>6, <1>7, <1>8, <1>9, <1>10, <1>11, <1>12,
           <1>13, <1>14, NextCases, Zenon

----------------------------------------------------------------------------
(* The committed offset *)

\* Nothing below the old offset is lost, and a step that moves the offset
\* moves it by one, past a settled message.
LEMMA GroupStep ==
  ASSUME IInv, [Next]_vars, TypeOK', Grows
  PROVE  GroupInv'
<1>t. /\ TypeOK /\ log \in Seq(Message) /\ log' \in Seq(Message) /\ committed \in Nat
      /\ pos \in [Workers -> Nat] /\ joined \in [Workers -> BOOLEAN]
      /\ assignee \in Workers \cup {NoOne} /\ NoOne \notin Workers
  BY StoreAssumption DEF IInv, TypeOK, StoreTypeOK, WorkerTypeOK
<1>i. GroupInv
  BY DEF IInv
<1>o. \A i \in 1..committed : Settled(i)'
  BY <1>t, <1>i, SettledStable DEF GroupInv
<1>s. ASSUME committed' = committed,
             \A w \in Workers : joined'[w] /\ assignee' = w => pos'[w] = committed
      PROVE  GroupInv'
  BY <1>s, <1>t, <1>i, <1>o DEF GroupInv, Grows
<1>q. ASSUME committed' = committed, assignee' = assignee, joined' = joined, pos' = pos
      PROVE  GroupInv'
  BY <1>q, <1>i, <1>s DEF GroupInv
<1>1. CASE UNCHANGED vars
  BY <1>1, <1>q DEF vars
<1>2. CASE \/ ServiceStep /\ UNCHANGED workerVars
           \/ Tick \/ Intrude \/ \E j \in Jobs : Deliver(j)
  BY <1>2, <1>q DEF Tick, Intrude, Deliver
<1>3. CASE Evict
  BY <1>3, <1>t, <1>s DEF Evict
<1>4. ASSUME NEW w \in Workers, Join(w) PROVE GroupInv'
  BY <1>4, <1>t, <1>s DEF Join
<1>5. ASSUME NEW w \in Workers, Lose(w) \/ Kill(w) PROVE GroupInv'
  BY <1>5, <1>t, <1>i, <1>s DEF Lose, Kill, GroupInv
<1>6. ASSUME NEW w \in Workers, Fail(w) \/ ApplyConflict(w) \/ CommitRefused(w)
      PROVE  GroupInv'
  BY <1>6, <1>t, <1>i, <1>s DEF Fail, ApplyConflict, CommitRefused, StopWorker, GroupInv
<1>7. ASSUME NEW w \in Workers,
             \/ Restart(w) \/ Poll(w) \/ Reject(w) \/ Claim(w) \/ ClaimMiss(w)
             \/ Execute(w) \/ TxnBegin(w) \/ ApplyDuplicate(w) \/ ApplyNoop(w)
             \/ ApplyVerdict(w)
      PROVE  GroupInv'
  BY <1>7, <1>q DEF Restart, Poll, Reject, Claim, ClaimMiss, Execute, TxnBegin,
                    ApplyDuplicate, ApplyNoop, ApplyVerdict
<1>8. ASSUME NEW w \in Workers, CommitOffset(w) PROVE GroupInv'
  <2>1. pos[w] = committed /\ pos[w] < Len(log) /\ Settled(pos[w] + 1)
    BY <1>8 DEF CommitOffset, IInv, GroupInv, WorkerInv
  <2>2. committed' = committed + 1 /\ pos' = [pos EXCEPT ![w] = committed + 1]
        /\ assignee' = w
    BY <1>8, <2>1 DEF CommitOffset
  <2>3. log' = log /\ job' = job /\ processed' = processed /\ dlq' = dlq
    BY <1>8 DEF CommitOffset
  <2>4. committed' <= Len(log')
    BY <2>1, <2>2, <2>3, <1>t
  <2>5. \A i \in 1..committed + 1 : Settled(i)
    BY <2>1, <1>t, <1>i DEF GroupInv
  <2>6. \A i \in 1..committed' : Settled(i)'
    BY <2>2, <2>3, <2>5 DEF Settled
  <2> QED BY <2>2, <2>4, <2>6, <1>t DEF GroupInv
<1> QED BY <1>1, <1>2, <1>3, <1>4, <1>5, <1>6, <1>7, <1>8, NextCases, Zenon

----------------------------------------------------------------------------
(* The theorems *)

LEMMA InitIInv == Init => IInv
  BY InitTypeOK, StoreAssumption
  DEF Init, StoreInit, WorkerInit, IInv, JobInv, WorkerInv, GroupInv, Terminal

\* The invariant from which everything below follows.
THEOREM Invariant == Spec => []IInv
<1>1. IInv /\ [Next]_vars => IInv'
  <2> SUFFICES ASSUME IInv, [Next]_vars PROVE IInv'
    OBVIOUS
  <2>1. TypeOK' /\ Grows
    BY TypeStep, StepGrows
  <2> QED BY <2>1, JobStep, WorkerInvStep, GroupStep DEF IInv
<1> QED BY <1>1, InitIInv, PTL DEF Spec

\* Every variable keeps its type, whatever the processes do.
THEOREM TypeCorrect == Spec => []TypeOK
<1>1. IInv => TypeOK
  BY DEF IInv
<1> QED BY <1>1, Invariant, PTL

\* The consumer group never moves past a message that is not settled.
THEOREM OffsetSafety == Spec => []CommittedIsSettled
<1>1. IInv => CommittedIsSettled
  BY DEF IInv, GroupInv, CommittedIsSettled, TypeOK, StoreTypeOK, WorkerTypeOK
<1> QED BY <1>1, Invariant, PTL

\* Job row, result row and dedup row agree on the outcome of every job.
THEOREM OutcomesAgree == Spec => []OutcomeAgreement
<1>1. IInv => OutcomeAgreement
  BY DEF IInv, JobInv, OutcomeAgreement
<1> QED BY <1>1, Invariant, PTL

\* No fenced-out worker ever leaves its result behind.
THEOREM Fencing == Spec => []ResultOfLastClaimant
<1>1. IInv => ResultOfLastClaimant
  BY DEF IInv, JobInv, ResultOfLastClaimant
<1> QED BY <1>1, Invariant, PTL

\* A cancelled job was never claimed by a worker.
THEOREM CancellationSafety == Spec => []CancelledNeverClaimed
<1>1. IInv => CancelledNeverClaimed
  BY DEF IInv, JobInv, CancelledNeverClaimed
<1> QED BY <1>1, Invariant, PTL

\* A terminal status, a result and a dedup row are never rewritten.
THEOREM OutcomesFinal == Spec => OutcomeIsFinal
<1>1. IInv /\ [Next]_vars => [Grows]_vars
  BY StepGrows
<1>2. Grows => \A j \in Jobs :
         /\ job[j].status \in Terminal => job'[j].status = job[j].status
         /\ result[j] # NoOne => result'[j] = result[j]
         /\ processed[j] # "none" => processed'[j] = processed[j]
  BY DEF Grows
<1> QED BY <1>1, <1>2, Invariant, PTL DEF Spec, OutcomeIsFinal

-----------------------------------------------------------------------------
(* The workers implement JobLifecycle: every step of any process is one    *)
(* step of the abstract lifecycle of one job, or a stutter.                *)

\* The abstract state, as EvaluationWorker maps it.
Status == [j \in Jobs |-> job[j].status]
HasResult == {j \in Jobs : result[j] # NoOne}
Evidence == {j \in Jobs : processed[j] # "none"}
Acked == {j \in Jobs : \E i \in 1..committed : log[i] = j}

LEMMA AbstractInit == Init => Lifecycle!Init
  BY DEF Init, StoreInit, WorkerInit, Lifecycle!Init

\* The acknowledged jobs depend on the committed prefix of the topic only.
LEMMA AckedSame ==
  ASSUME IInv, Grows, committed' = committed
  PROVE  Acked' = Acked
<1>1. committed \in Nat /\ committed <= Len(log) /\ log \in Seq(Message)
  BY DEF IInv, GroupInv, TypeOK, StoreTypeOK, WorkerTypeOK
<1>2. \A i \in 1..committed : log'[i] = log[i]
  BY <1>1 DEF Grows
<1> QED BY <1>2 DEF Acked

LEMMA AbstractStep ==
  ASSUME IInv, [Next]_vars
  PROVE  [Lifecycle!Next]_(Lifecycle!vars)
<1> USE DEF Terminal
<1>g. Grows
  BY StepGrows
<1>t. /\ TypeOK /\ log \in Seq(Message) /\ job \in [Jobs -> JobRow]
      /\ processed \in [Jobs -> Outcome \cup {"none"}]
      /\ result \in [Jobs -> Workers \cup Direct \cup {NoOne}]
  BY DEF IInv, TypeOK, StoreTypeOK
<1>j. \A j \in Jobs : JobInv(j)
  BY DEF IInv
<1>s. ASSUME Status' = Status, HasResult' = HasResult, Evidence' = Evidence, Acked' = Acked
      PROVE  UNCHANGED Lifecycle!vars
  BY <1>s DEF Status, HasResult, Evidence, Acked, Lifecycle!vars
<1>q. ASSUME job' = job, result' = result, processed' = processed, committed' = committed
      PROVE  UNCHANGED Lifecycle!vars
  BY <1>q, <1>g, <1>s, AckedSame DEF Status, HasResult, Evidence
<1>1. CASE UNCHANGED vars
  BY <1>1, <1>q DEF vars
<1>2. CASE ServiceStep /\ UNCHANGED workerVars
  <2>a. Acked' = Acked
    BY <1>2, <1>g, AckedSame
  <2>e. Evidence' = Evidence
    BY <1>2 DEF Evidence, ServiceStep, Submit, Cancel, DirectStart, DirectSuccess, DirectFailure
  <2>1. PICK j \in Jobs :
          \/ Submit(j) \/ Cancel(j)
          \/ \E d \in Direct :
                DirectStart(d, j) \/ DirectSuccess(d, j) \/ DirectFailure(d, j)
    BY <1>2 DEF ServiceStep
  <2> USE <1>t, <2>a, <2>e DEF Status, HasResult, Evidence, Acked, Unclaimed, Lifecycle!Move
  <2>2. CASE Submit(j)
    BY <2>2 DEF Submit, Lifecycle!Submit, Lifecycle!Next
  <2>3. CASE Cancel(j)
    BY <2>3 DEF Cancel, Lifecycle!Cancel, Lifecycle!Next
  <2>4. ASSUME NEW d \in Direct, DirectStart(d, j) PROVE Lifecycle!Next
    BY <2>4 DEF DirectStart, Lifecycle!Start, Lifecycle!Next
  <2>5. ASSUME NEW d \in Direct, DirectSuccess(d, j) PROVE Lifecycle!Next
    <3>1. Status' = [Status EXCEPT ![j] = "SUCCEEDED"]
      BY <2>5 DEF DirectSuccess
    <3>2. HasResult' = HasResult \cup {j}
      BY <2>5, StoreAssumption DEF DirectSuccess
    <3> QED BY <2>5, <3>1, <3>2 DEF DirectSuccess, Lifecycle!Succeed, Lifecycle!Next
  <2>6. ASSUME NEW d \in Direct, DirectFailure(d, j) PROVE Lifecycle!Next
    BY <2>6 DEF DirectFailure, Lifecycle!Fail, Lifecycle!Next
  <2> QED BY <2>1, <2>2, <2>3, <2>4, <2>5, <2>6
<1>3. CASE Tick
  <2>1. \A j \in Jobs : job'[j].status = job[j].status
    BY <1>3, <1>t DEF Tick, TickRows, JobRow
  <2>2. result' = result /\ processed' = processed /\ committed' = committed
    BY <1>3 DEF Tick, TickRows
  <2> QED BY <2>1, <2>2, <1>g, <1>s, AckedSame DEF Status, HasResult, Evidence
<1>4. CASE Evict \/ Intrude \/ \E j \in Jobs : Deliver(j)
  BY <1>4, <1>q DEF Evict, Intrude, Deliver
<1>5. ASSUME NEW w \in Workers,
             \/ Join(w) \/ Lose(w) \/ Kill(w) \/ Restart(w) \/ Fail(w)
             \/ Poll(w) \/ Reject(w) \/ ClaimMiss(w) \/ Execute(w) \/ TxnBegin(w)
             \/ ApplyDuplicate(w) \/ ApplyConflict(w) \/ CommitRefused(w)
      PROVE  UNCHANGED Lifecycle!vars
  BY <1>5, <1>q DEF Join, Lose, Kill, Restart, Fail, Poll, Reject, ClaimMiss, Execute,
       TxnBegin, ApplyDuplicate, ApplyConflict, CommitRefused, StopWorker
<1>6. ASSUME NEW w \in Workers, Claim(w)
      PROVE  [Lifecycle!Next]_(Lifecycle!vars)
  <2>1. Msg(w) \in Jobs /\ result' = result /\ processed' = processed
        /\ committed' = committed
    BY <1>6 DEF Claim
  <2>2. Status' = [Status EXCEPT ![Msg(w)] = "RUNNING"]
    BY <1>6, <1>t, <2>1 DEF Claim, Status
  <2>3. Acked' = Acked /\ HasResult' = HasResult /\ Evidence' = Evidence
    BY <2>1, <1>g, AckedSame DEF HasResult, Evidence
  <2>4. CASE job[Msg(w)].status = "QUEUED"
    BY <2>1, <2>2, <2>3, <2>4 DEF Status, HasResult, Evidence, Acked, Lifecycle!Move,
                                  Lifecycle!Start, Lifecycle!Next
  <2>5. CASE job[Msg(w)].status = "RUNNING"
    BY <2>1, <2>2, <2>3, <2>5, <1>s DEF Status
  <2> QED BY <1>6, <2>4, <2>5 DEF Claim, Claimable
<1>7. ASSUME NEW w \in Workers, ApplyNoop(w)
      PROVE  Lifecycle!Next
  <2>1. Msg(w) \in Jobs /\ job[Msg(w)].status \in Terminal
    BY <1>7 DEF ApplyNoop, RecordsNoop, IInv, WorkerInv
  <2>2. job' = job /\ result' = result /\ committed' = committed
    BY <1>7 DEF ApplyNoop
  <2>3. Evidence' = Evidence \cup {Msg(w)}
    BY <1>7, <1>t, <2>1 DEF ApplyNoop, NoopOutcome, Evidence
  <2>4. Acked' = Acked
    BY <2>2, <1>g, AckedSame
  <2> QED BY <2>1, <2>2, <2>3, <2>4 DEF Evidence, Acked, Lifecycle!Final,
                                        Lifecycle!Record, Lifecycle!Next
<1>8. ASSUME NEW w \in Workers, ApplyVerdict(w)
      PROVE  Lifecycle!Next
  <2>1. Msg(w) \in Jobs /\ job[Msg(w)].status = "RUNNING"
    BY <1>8 DEF ApplyVerdict, Fenced, IInv, WorkerInv
  <2>2. Evidence' = Evidence \cup {Msg(w)}
    BY <1>8, <1>t, <2>1 DEF ApplyVerdict, Evidence
  <2>3. Acked' = Acked
    BY <1>8, <1>g, AckedSame DEF ApplyVerdict
  <2>4. CASE verdict[w] = "success"
    <3>1. Status' = [Status EXCEPT ![Msg(w)] = "SUCCEEDED"]
      BY <1>8, <1>t, <2>1, <2>4 DEF ApplyVerdict, Unclaimed, Status
    <3>2. HasResult' = HasResult \cup {Msg(w)}
      BY <1>8, <1>t, <2>1, <2>4, StoreAssumption DEF ApplyVerdict, HasResult
    <3> QED BY <2>1, <2>2, <2>3, <3>1, <3>2
            DEF Status, HasResult, Evidence, Acked, Lifecycle!Move, Lifecycle!Succeed,
                Lifecycle!Next
  <2>5. CASE verdict[w] # "success"
    <3>1. Status' = [Status EXCEPT ![Msg(w)] = "FAILED"]
      BY <1>8, <1>t, <2>1, <2>5 DEF ApplyVerdict, Unclaimed, Status
    <3>2. HasResult' = HasResult
      BY <1>8, <1>t, <2>1, <2>5 DEF ApplyVerdict, HasResult
    <3> QED BY <2>1, <2>2, <2>3, <3>1, <3>2
            DEF Status, HasResult, Evidence, Acked, Lifecycle!Move, Lifecycle!Fail,
                Lifecycle!Next
  <2> QED BY <2>4, <2>5
<1>9. ASSUME NEW w \in Workers, CommitOffset(w)
      PROVE  [Lifecycle!Next]_(Lifecycle!vars)
  <2>1. job' = job /\ result' = result /\ processed' = processed /\ log' = log
        /\ committed' = committed + 1 /\ committed \in Nat
    BY <1>9 DEF CommitOffset, IInv, GroupInv, TypeOK, WorkerTypeOK
  <2>2. committed < Len(log) /\ Settled(committed + 1)
    BY <1>9 DEF CommitOffset, IInv, GroupInv, WorkerInv
  <2>3. Acked' = Acked \cup ({log[committed + 1]} \cap Jobs)
    BY <2>1 DEF Acked
  <2>4. CASE log[committed + 1] \in Jobs
    <3>1. processed[log[committed + 1]] # "none"
      BY <2>2, <2>4, StoreAssumption DEF Settled
    <3> QED BY <2>1, <2>3, <2>4, <3>1 DEF Acked, Lifecycle!Acknowledge, Lifecycle!Next
  <2>5. CASE log[committed + 1] \notin Jobs
    BY <2>1, <2>3, <2>5, <1>s DEF Status, HasResult, Evidence
  <2> QED BY <2>4, <2>5
<1> QED BY <1>1, <1>2, <1>3, <1>4, <1>5, <1>6, <1>7, <1>8, <1>9, NextCases, Zenon

\* The detailed specification implements the promise to the owner of a job.
THEOREM Refinement == Spec => ImplementsLifecycle
<1>1. IInv /\ [Next]_vars => [Lifecycle!Next]_(Lifecycle!vars)
  BY AbstractStep
<1> QED BY <1>1, AbstractInit, Invariant, PTL
        DEF Spec, ImplementsLifecycle, Lifecycle!Spec

=============================================================================
