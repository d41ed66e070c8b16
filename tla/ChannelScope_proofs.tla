------------------------- MODULE ChannelScope_proofs -------------------------
(***************************************************************************)
(* Proofs about the event channel, for any number of publishers, consumers *)
(* and events, any capacity and any recovered history; then about the      *)
(* request that is its client.                                             *)
(***************************************************************************)
EXTENDS ChannelScope, TLAPS

USE DEF channelVars, publishVars, consumeVars, budgetVars
USE ChannelAssumption DEF ChannelAssumption

-----------------------------------------------------------------------------
(* Events and the journal *)

LEMMA EventFacts ==
  /\ End \notin Event
  /\ \A e \in Event : e.seq \in Nat /\ e.id \in Nat /\ e.kind \in Kinds
  /\ \A i \in Nat \ {0}, k \in Kinds, n \in Nat :
        [id |-> i, kind |-> k, seq |-> n] \in Event
  /\ \A e \in Event, n \in Nat :
        /\ [e EXCEPT !.seq = n] \in Event
        /\ [e EXCEPT !.seq = n].seq = n
        /\ [e EXCEPT !.seq = n].id = e.id
        /\ [e EXCEPT !.seq = n].kind = e.kind
  BY DEF Event, End

LEMMA LastSequenceType ==
  ASSUME PublishTypeOK PROVE LastSequence \in Nat
<1>1. CASE journal = <<>>
  BY <1>1 DEF LastSequence
<1>2. CASE journal # <<>>
  <2>1. journal[Len(journal)] \in Event
    BY <1>2 DEF PublishTypeOK
  <2> QED BY <1>2, <2>1, EventFacts DEF LastSequence
<1> QED BY <1>1, <1>2

-----------------------------------------------------------------------------
(* Type correctness *)

LEMMA InitType == Init => ChannelTypeOK
<1> SUFFICES ASSUME Init PROVE ChannelTypeOK
  OBVIOUS
<1>1. QueueTypeOK
  BY DEF Init, QueueTypeOK
<1>2. PublishTypeOK
  <2>1. journal \in Seq(Event)
    <3>1. \A i \in 1..Recovered :
            [id |-> i, kind |-> "plain", seq |-> i] \in Event
      BY EventFacts DEF Kinds
    <3> QED BY <3>1 DEF Init
  <2> QED BY <2>1 DEF Init, PublishTypeOK, Idle, PublisherPc
<1>3. LeaseTypeOK
  BY DEF Init, LeaseTypeOK
<1>4. BudgetTypeOK
  <2>1. drafts = Recovered /\ faults = 0 /\ captures = 0
    BY DEF Init
  <2>2. /\ drafts \in Recovered..MaxDrafts
        /\ faults \in 0..MaxFaults /\ captures \in 0..MaxCaptures
    BY <2>1
  <2>3. cancelled \in BOOLEAN
    BY DEF Init
  <2> QED BY <2>2, <2>3 DEF BudgetTypeOK
<1> QED BY <1>1, <1>2, <1>3, <1>4 DEF ChannelTypeOK

\* A publisher that leaves, moves on or is given a sequence number.
LEMMA LeaveType ==
  ASSUME PublishTypeOK, NEW p \in Publishers, Leave(p),
         UNCHANGED <<sequence, watermarkLoaded, journal>>
  PROVE  PublishTypeOK'
  BY DEF PublishTypeOK, Leave, Idle, PublisherPc

LEMMA GotoType ==
  ASSUME PublishTypeOK, NEW p \in Publishers, NEW pc \in PublisherPc,
         pub[p].pc # "idle", Goto(p, pc)
  PROVE  /\ pub' \in [Publishers -> [pc : PublisherPc, event : Event \cup {End}]]
         /\ \A q \in Publishers : pub'[q].pc # "idle" => pub'[q].event \in Event
  BY DEF PublishTypeOK, Goto

LEMMA StartType ==
  ASSUME PublishTypeOK, NEW p \in Publishers, NEW n \in Nat,
         pub[p].pc # "idle", StartAppend(p, n)
  PROVE  /\ pub' \in [Publishers -> [pc : PublisherPc, event : Event \cup {End}]]
         /\ \A q \in Publishers : pub'[q].pc # "idle" => pub'[q].event \in Event
         /\ publishLock' \in Publishers \cup {"none", "closer"}
<1>1. CASE Leave(p)
  BY <1>1 DEF PublishTypeOK, Leave, Idle, PublisherPc
<1>2. CASE /\ pub' = [pub EXCEPT ![p].pc = "append", ![p].event.seq = n + 1]
           /\ publishLock' = p
  <2>1. [pub[p].event EXCEPT !.seq = n + 1] \in Event
    <3>1. pub[p].event \in Event /\ n + 1 \in Nat
      BY DEF PublishTypeOK
    <3> QED BY <3>1 DEF Event
  <2> QED BY <1>2, <2>1 DEF PublishTypeOK, PublisherPc
<1> QED BY <1>1, <1>2 DEF StartAppend

LEMMA PublishType ==
  ASSUME ChannelTypeOK, NEW p \in Publishers, NEW kind \in Kinds,
         Publish(p, kind)
  PROVE  ChannelTypeOK'
<1> USE DEF ChannelTypeOK
<1>1. BudgetTypeOK' /\ QueueTypeOK' /\ LeaseTypeOK'
  BY DEF Publish, BudgetTypeOK, QueueTypeOK, LeaseTypeOK
<1>2. [id |-> drafts + 1, kind |-> kind, seq |-> 0] \in Event
  BY EventFacts DEF BudgetTypeOK
<1>3. PublishTypeOK'
  BY <1>2 DEF Publish, PublishTypeOK, PublisherPc
<1> QED BY <1>1, <1>3

LEMMA PublisherType ==
  ASSUME ChannelTypeOK, NEW p \in Publishers,
         PublisherStep(p) \/ PublicationFails(p)
  PROVE  ChannelTypeOK'
<1> USE DEF ChannelTypeOK
<1>1. CASE AcquirePublish(p)
  <2>1. QueueTypeOK' /\ LeaseTypeOK' /\ BudgetTypeOK'
    BY <1>1 DEF AcquirePublish, QueueTypeOK, LeaseTypeOK, BudgetTypeOK
  <2>2. PublishTypeOK'
    <3>1. CASE state # "OPEN"
      BY <1>1, <3>1, LeaveType DEF AcquirePublish
    <3>2. CASE state = "OPEN" /\ watermarkLoaded
      BY <1>1, <3>2, StartType DEF AcquirePublish, Accepted, PublishTypeOK
    <3>3. CASE state = "OPEN" /\ ~watermarkLoaded
      <4>1. Goto(p, "load") /\ "load" \in PublisherPc
        BY <1>1, <3>3 DEF AcquirePublish, Accepted, PublisherPc
      <4> QED BY <1>1, <3>3, <4>1, GotoType
              DEF AcquirePublish, Accepted, PublishTypeOK
    <3> QED BY <3>1, <3>2, <3>3
  <2> QED BY <2>1, <2>2
<1>2. CASE LoadWatermark(p)
  <2>1. QueueTypeOK' /\ LeaseTypeOK' /\ BudgetTypeOK'
    BY <1>2 DEF LoadWatermark, QueueTypeOK, LeaseTypeOK, BudgetTypeOK
  <2>2. PublishTypeOK'
    BY <1>2, LastSequenceType, StartType DEF LoadWatermark, PublishTypeOK
  <2> QED BY <2>1, <2>2
<1>3. CASE JournalAppend(p)
  <2>1. QueueTypeOK' /\ LeaseTypeOK' /\ BudgetTypeOK'
    BY <1>3 DEF JournalAppend, QueueTypeOK, LeaseTypeOK, BudgetTypeOK
  <2>2. journal' \in Seq(Event)
    <3>1. pub[p].event \in Event /\ journal \in Seq(Event)
      BY <1>3 DEF JournalAppend, PublishTypeOK
    <3>2. journal' = Append(journal, pub[p].event) \/ journal' = journal
      BY <1>3 DEF JournalAppend
    <3> QED BY <3>1, <3>2
  <2>3. CASE Goto(p, "committed") /\ UNCHANGED publishLock
    <3>1. "committed" \in PublisherPc
      BY DEF PublisherPc
    <3> QED BY <1>3, <2>1, <2>2, <2>3, <3>1, GotoType
            DEF JournalAppend, PublishTypeOK
  <2>4. CASE Leave(p)
    BY <1>3, <2>1, <2>2, <2>4
       DEF JournalAppend, PublishTypeOK, Leave, Idle, PublisherPc
  <2> QED BY <1>3, <2>3, <2>4 DEF JournalAppend
<1>4. CASE AppendReturns(p)
  <2>1. QueueTypeOK' /\ LeaseTypeOK' /\ BudgetTypeOK'
    BY <1>4 DEF AppendReturns, QueueTypeOK, LeaseTypeOK, BudgetTypeOK
  <2>2. sequence' \in Nat /\ "put" \in PublisherPc
    BY <1>4, EventFacts DEF AppendReturns, PublishTypeOK, PublisherPc
  <2>3. PublishTypeOK'
    BY <1>4, <2>2, GotoType DEF AppendReturns, PublishTypeOK
  <2> QED BY <2>1, <2>3
<1>5. CASE InterruptAppend(p)
  BY <1>5, LeaveType
     DEF InterruptAppend, QueueTypeOK, LeaseTypeOK, BudgetTypeOK
<1>6. CASE AwaitSpace(p) \/ SpaceFreed(p)
  <2>1. QueueTypeOK' /\ LeaseTypeOK' /\ BudgetTypeOK'
    BY <1>6 DEF AwaitSpace, SpaceFreed, QueueTypeOK, LeaseTypeOK, BudgetTypeOK
  <2>2. "space" \in PublisherPc /\ "put" \in PublisherPc
    BY DEF PublisherPc
  <2>3. PublishTypeOK'
    BY <1>6, <2>2, GotoType DEF AwaitSpace, SpaceFreed, PublishTypeOK
  <2> QED BY <2>1, <2>3
<1>7. CASE PutEvent(p)
  <2>1. LeaseTypeOK' /\ BudgetTypeOK' /\ PublishTypeOK'
    BY <1>7, LeaveType DEF PutEvent, Enqueue, LeaseTypeOK, BudgetTypeOK
  <2>2. pub[p].event \in Event
    BY <1>7 DEF PutEvent, PublishTypeOK
  <2>3. QueueTypeOK'
    BY <1>7, <2>2 DEF PutEvent, Enqueue, QueueTypeOK, Full
  <2> QED BY <2>1, <2>3
<1>8. CASE PutRefused(p)
  BY <1>8, LeaveType DEF PutRefused, QueueTypeOK, LeaseTypeOK, BudgetTypeOK
<1>9. CASE PublicationFails(p)
  BY <1>9, LeaveType
     DEF PublicationFails, QueueTypeOK, LeaseTypeOK, BudgetTypeOK
<1> QED BY <1>1, <1>2, <1>3, <1>4, <1>5, <1>6, <1>7, <1>8, <1>9
        DEF PublisherStep

LEMMA ControlType ==
  ASSUME ChannelTypeOK,
         CaptureWatermark \/ Close \/ CloserStep \/ Abort \/ Cancel
  PROVE  ChannelTypeOK'
<1> USE DEF ChannelTypeOK, QueueTypeOK, PublishTypeOK, LeaseTypeOK, BudgetTypeOK
<1>1. CASE CaptureWatermark
  BY <1>1, LastSequenceType DEF CaptureWatermark
<1>2. CASE Close
  BY <1>2 DEF Close
<1>3. CASE CloseAcquires
  BY <1>3 DEF CloseAcquires
<1>4. CASE CloseEnqueues
  BY <1>4 DEF CloseEnqueues, Full
<1>5. CASE CloseReturns
  BY <1>5 DEF CloseReturns
<1>6. CASE Abort
  BY <1>6 DEF Abort
<1>7. CASE Cancel
  BY <1>7 DEF Cancel
<1> QED BY <1>1, <1>2, <1>3, <1>4, <1>5, <1>6, <1>7 DEF CloserStep

\* What a consumer does to the rest: it leaves the publishers alone and takes
\* at most the first item off the queue.
LEMMA ConsumerFrame ==
  ASSUME NEW c \in Consumers, ConsumerStep(c)
  PROVE  /\ UNCHANGED <<publishVars, closer, state, cancelled, budgetVars>>
         /\ \/ UNCHANGED <<queue, spaceAvailable, delivered>>
            \/ Take /\ UNCHANGED delivered
            \/ Take /\ ~AtEnd /\ delivered' = Append(delivered, Head(queue))
  BY DEF ConsumerStep, ClaimTransport, Receive, ReleaseTransport, ReserveDrain,
         HandOff, HandOffFails, DrainReceive, DrainGivesUp, Take

LEMMA ConsumerType ==
  ASSUME ChannelTypeOK, NEW c \in Consumers, ConsumerStep(c)
  PROVE  ChannelTypeOK'
<1>1. PublishTypeOK' /\ BudgetTypeOK'
  BY ConsumerFrame DEF ChannelTypeOK, PublishTypeOK, BudgetTypeOK
<1>2. QueueTypeOK'
  <2> USE DEF ChannelTypeOK, QueueTypeOK
  <2>1. CASE UNCHANGED <<queue, spaceAvailable, delivered>>
    BY <2>1, ConsumerFrame
  <2>2. CASE Take
    <3>1. queue' \in Seq(Event \cup {End}) /\ Len(queue') <= Capacity
      BY <2>2 DEF Take
    <3>2. ~AtEnd => Head(queue) \in Event
      BY <2>2 DEF Take, AtEnd
    <3>3. delivered' \in Seq(Event)
      BY <2>2, <3>2, ConsumerFrame
    <3> QED BY <2>2, <3>1, <3>3, ConsumerFrame DEF Take
  <2> QED BY <2>1, <2>2, ConsumerFrame
<1>3. LeaseTypeOK'
  <2> USE DEF ChannelTypeOK, LeaseTypeOK, GiveBack
  <2>1. CASE ClaimTransport(c) \/ ReleaseTransport(c)
    BY <2>1 DEF ClaimTransport, ReleaseTransport
  <2>2. CASE Receive(c)
    BY <2>2 DEF Receive
  <2>3. CASE ReserveDrain(c) \/ HandOff(c) \/ HandOffFails(c)
    BY <2>3 DEF ReserveDrain, HandOff, HandOffFails
  <2>4. CASE DrainReceive(c) \/ DrainGivesUp(c)
    BY <2>4 DEF DrainReceive, DrainGivesUp
  <2> QED BY <2>1, <2>2, <2>3, <2>4 DEF ConsumerStep
<1> QED BY <1>1, <1>2, <1>3 DEF ChannelTypeOK

LEMMA NextType == ChannelTypeOK /\ [Next]_vars => ChannelTypeOK'
<1> SUFFICES ASSUME ChannelTypeOK, [Next]_vars PROVE ChannelTypeOK'
  OBVIOUS
<1>1. CASE UNCHANGED vars
  BY <1>1 DEF vars, ChannelTypeOK, QueueTypeOK, PublishTypeOK, LeaseTypeOK,
              BudgetTypeOK
<1> QED BY <1>1, PublishType, PublisherType, ControlType, ConsumerType DEF Next

\* The type invariant of the channel holds in every state: in particular the
\* queue stays within its capacity, the sentinel of close included.
THEOREM ChannelTypeCorrect == Spec => []ChannelTypeOK
  BY InitType, NextType, PTL DEF Spec

-----------------------------------------------------------------------------
(***************************************************************************)
(* The inductive invariant.  publish_lock makes publications sequential,   *)
(* so the event of a publication past its append is the last one of the    *)
(* journal and newer than all that was queued before; the channel's own    *)
(* counter may lag behind the journal but never runs ahead of it.          *)
(***************************************************************************)
Holding == {"load", "append", "committed", "put", "space"}
Unwritten == {"lock", "load", "append"}
Written == {"committed", "put", "space"}

LockInv ==
  /\ \A p \in Publishers : pub[p].pc \in Holding => publishLock = p
  /\ closer \in {"end", "seal"} => publishLock = "closer"

FreshInv ==
  /\ \A i \in DOMAIN journal : journal[i].id <= drafts
  /\ \A p \in Publishers : pub[p].pc # "idle" => pub[p].event.id <= drafts
  /\ \A p, q \in Publishers :
        p # q /\ pub[p].pc # "idle" /\ pub[q].pc # "idle"
          => pub[p].event.id # pub[q].event.id
  /\ \A p \in Publishers : pub[p].pc \in Unwritten =>
        \A i \in DOMAIN journal : journal[i].id # pub[p].event.id

SeqInv ==
  /\ sequence <= Len(journal)
  /\ \A p \in Publishers :
        pub[p].pc = "append" => pub[p].event.seq <= Len(journal) + 1
  /\ \A p \in Publishers : pub[p].pc \in Written =>
        Len(journal) > 0 /\ journal[Len(journal)] = pub[p].event

NewestInv ==
  \A p \in Publishers : pub[p].pc \in Written =>
    /\ \A i \in DOMAIN delivered : delivered[i].seq < Len(journal)
    /\ \A i \in DOMAIN queue : queue[i].seq < Len(journal)

ClosingInv == closer # "idle" => state # "OPEN"

EndInv ==
  (\E i \in DOMAIN queue : queue[i] = End) =>
    /\ state # "OPEN"
    /\ state # "ABORTED" => \A p \in Publishers : pub[p].pc \notin Holding

LeaseInv ==
  /\ \A c, d \in Consumers :
        consumer[c] # "idle" /\ consumer[d] # "idle" => c = d
  /\ \A c \in Consumers :
        consumer[c] \in {"transport", "drain"} => consumerOwner # "RELEASED"
  /\ \A c \in Consumers : consumer[c] = "handoff" => drainHandoffPending
  /\ \A c \in Consumers : consumer[c] # "idle" => ~drainCompleted
  /\ \A c \in Consumers :
        consumer[c] \in {"handoff", "drain"} => ~transportCompleted
  /\ ~(transportCompleted /\ drainCompleted)

IInv ==
  /\ ChannelTypeOK
  /\ LockInv /\ FreshInv /\ SeqInv /\ JournalIsSound
  /\ JournalFirst /\ NewestInv
  /\ ClosingInv /\ EndInv /\ EndIsLast /\ AbortedIsEmpty
  /\ LeaseInv

-----------------------------------------------------------------------------
(***************************************************************************)
(* The steps of a publisher, by what they do.                              *)
(***************************************************************************)
Apart == UNCHANGED <<state, closer, consumeVars, drafts>>

Quit(p) ==
  /\ pub[p].pc # "idle"
  /\ Leave(p)
  /\ sequence' \in {sequence, LastSequence}
  /\ Apart /\ UNCHANGED <<queue, journal>>

Enter(p) ==
  /\ pub[p].pc = "lock" /\ publishLock = "none" /\ state = "OPEN"
  /\ Goto(p, "load") /\ publishLock' = p
  /\ Apart /\ UNCHANGED <<queue, journal, sequence>>

Start(p) ==
  /\ \/ pub[p].pc = "lock" /\ publishLock = "none" /\ state = "OPEN"
     \/ pub[p].pc = "load"
  /\ sequence' \in {sequence, LastSequence}
  /\ pub' = [pub EXCEPT ![p].pc = "append", ![p].event.seq = sequence' + 1]
  /\ publishLock' = p
  /\ Apart /\ UNCHANGED <<queue, journal>>

Write(p) ==
  /\ pub[p].pc = "append"
  /\ Goto(p, "committed")
  /\ \/ /\ AppendDecision(pub[p].event) = "APPENDED"
        /\ journal' = Append(journal, pub[p].event)
     \/ /\ AppendDecision(pub[p].event) = "DUPLICATE"
        /\ journal' = journal
  /\ Apart /\ UNCHANGED <<queue, sequence, publishLock>>

Move(p) ==
  /\ pub[p].pc \in Written
  /\ \E pc \in {"put", "space"} : Goto(p, pc)
  /\ sequence' \in {sequence, pub[p].event.seq}
  /\ Apart /\ UNCHANGED <<queue, journal, publishLock>>

Queue(p) ==
  /\ pub[p].pc = "put" /\ state # "ABORTED"
  /\ queue' = Append(queue, pub[p].event)
  /\ Leave(p)
  /\ Apart /\ UNCHANGED <<journal, sequence>>

LEMMA PublisherCases ==
  ASSUME NEW p \in Publishers, PublisherStep(p) \/ PublicationFails(p)
  PROVE  Quit(p) \/ Enter(p) \/ Start(p) \/ Write(p) \/ Move(p) \/ Queue(p)
<1> USE DEF Apart
<1>1. CASE AcquirePublish(p)
  BY <1>1 DEF AcquirePublish, Accepted, StartAppend, Quit, Enter, Start
<1>2. CASE LoadWatermark(p)
  BY <1>2 DEF LoadWatermark, StartAppend, Quit, Start
<1>3. CASE JournalAppend(p)
  BY <1>3 DEF JournalAppend, Quit, Write
<1>4. CASE AppendReturns(p) \/ AwaitSpace(p) \/ SpaceFreed(p)
  BY <1>4 DEF AppendReturns, AwaitSpace, SpaceFreed, Move, Written
<1>5. CASE InterruptAppend(p) \/ PutRefused(p) \/ PublicationFails(p)
  BY <1>5 DEF InterruptAppend, PutRefused, PublicationFails, Quit
<1>6. CASE PutEvent(p)
  BY <1>6 DEF PutEvent, Enqueue, Queue
<1> QED BY <1>1, <1>2, <1>3, <1>4, <1>5, <1>6 DEF PublisherStep

-----------------------------------------------------------------------------
LEMMA InitInv == Init => IInv
<1> SUFFICES ASSUME Init PROVE IInv
  OBVIOUS
<1>1. ChannelTypeOK
  BY InitType
<1>2. /\ Len(journal) = Recovered /\ DOMAIN journal = 1..Recovered
      /\ \A i \in DOMAIN journal : journal[i].seq = i /\ journal[i].id = i
                                   /\ journal[i].kind = "plain"
  BY DEF Init
<1>3. /\ \A p \in Publishers : pub[p].pc = "idle"
      /\ queue = <<>> /\ delivered = <<>>
      /\ \A c \in Consumers : consumer[c] = "idle"
      /\ closer = "idle" /\ sequence = 0 /\ drafts = Recovered
  BY DEF Init, Idle
<1>4. LockInv /\ FreshInv /\ SeqInv /\ NewestInv
  BY <1>2, <1>3 DEF LockInv, FreshInv, SeqInv, NewestInv, Holding, Unwritten,
                    Written
<1>5. JournalIsSound
  BY <1>2 DEF JournalIsSound
<1>6. JournalFirst /\ ClosingInv /\ EndInv /\ EndIsLast /\ AbortedIsEmpty
  BY <1>3 DEF JournalFirst, ClosingInv, EndInv, EndIsLast, AbortedIsEmpty
<1>7. LeaseInv
  BY <1>3 DEF Init, LeaseInv
<1> QED BY <1>1, <1>4, <1>5, <1>6, <1>7 DEF IInv

LEMMA LastIsLength ==
  ASSUME IInv PROVE LastSequence = Len(journal)
  BY DEF IInv, ChannelTypeOK, PublishTypeOK, JournalIsSound, LastSequence

\* What the remaining steps leave alone.
LEMMA ControlFrame ==
  ASSUME IInv, CaptureWatermark \/ Close \/ CloserStep \/ Abort \/ Cancel
  PROVE  /\ UNCHANGED <<pub, journal, delivered, drafts, consumer,
                        drainHandoffPending, transportCompleted,
                        drainCompleted>>
         /\ sequence' = sequence \/ sequence' = Len(journal)
         /\ \/ queue' = queue
            \/ queue' = <<End>> /\ state' = "ABORTED"
            \/ CloseEnqueues
         /\ consumerOwner' = consumerOwner \/ consumerOwner' = "ABORTED"
  BY LastIsLength
     DEF CaptureWatermark, Close, CloserStep, CloseAcquires, CloseEnqueues,
         CloseReturns, Abort, Cancel

-----------------------------------------------------------------------------
(* The lock *)

LEMMA LockNext ==
  ASSUME IInv, Next PROVE LockInv'
<1> USE DEF IInv, LockInv, Holding, ChannelTypeOK, PublishTypeOK
<1>1. ASSUME NEW p \in Publishers, NEW kind \in Kinds, Publish(p, kind)
      PROVE  LockInv'
  BY <1>1 DEF Publish
<1>2. ASSUME NEW p \in Publishers,
             Quit(p) \/ Enter(p) \/ Start(p) \/ Write(p) \/ Move(p) \/ Queue(p)
      PROVE  LockInv'
  <2>1. CASE Quit(p) \/ Queue(p)
    BY <1>2, <2>1 DEF Quit, Queue, Leave, Idle, Apart
  <2>2. CASE Enter(p)
    BY <2>2 DEF Enter, Goto, Apart
  <2>3. CASE Start(p)
    BY <2>3 DEF Start, Apart
  <2>4. CASE Write(p) \/ Move(p)
    BY <2>4 DEF Write, Move, Goto, Apart, Written
  <2> QED BY <1>2, <2>1, <2>2, <2>3, <2>4
<1>3. CASE CaptureWatermark \/ Close \/ Abort \/ Cancel
  BY <1>3 DEF CaptureWatermark, Close, Abort, Cancel
<1>4. CASE CloserStep
  BY <1>4 DEF CloserStep, CloseAcquires, CloseEnqueues, CloseReturns
<1>5. ASSUME NEW c \in Consumers, ConsumerStep(c)
      PROVE  LockInv'
  BY <1>5, ConsumerFrame
<1> QED BY <1>1, <1>2, <1>3, <1>4, <1>5, PublisherCases DEF Next

-----------------------------------------------------------------------------
(* Event ids *)

\* The numbers the invariants compare are numbers.
LEMMA NumbersAreNumbers ==
  ASSUME ChannelTypeOK
  PROVE  /\ drafts \in Nat /\ sequence \in Nat /\ Len(journal) \in Nat
         /\ \A i \in DOMAIN journal :
               journal[i].id \in Nat /\ journal[i].seq \in Nat
         /\ \A p \in Publishers : pub[p].pc # "idle" =>
               pub[p].event.id \in Nat /\ pub[p].event.seq \in Nat
         /\ DOMAIN journal = 1..Len(journal)
<1> USE DEF ChannelTypeOK, PublishTypeOK, BudgetTypeOK
<1>1. \A i \in DOMAIN journal : journal[i] \in Event
  OBVIOUS
<1>2. \A p \in Publishers : pub[p].pc # "idle" => pub[p].event \in Event
  OBVIOUS
<1>3. drafts \in Nat /\ sequence \in Nat /\ Len(journal) \in Nat
  OBVIOUS
<1> QED BY <1>1, <1>2, <1>3, EventFacts

LEMMA FreshNext ==
  ASSUME IInv, Next PROVE FreshInv'
<1> USE DEF IInv, FreshInv, Unwritten
<1>1. ASSUME NEW p \in Publishers, NEW kind \in Kinds, Publish(p, kind)
      PROVE  FreshInv'
  <2>1. /\ drafts' = drafts + 1 /\ journal' = journal
        /\ pub'[p].pc = "lock" /\ pub'[p].event.id = drafts + 1
        /\ \A q \in Publishers : q # p => pub'[q] = pub[q]
    BY <1>1 DEF Publish, ChannelTypeOK, PublishTypeOK
  <2> QED BY <2>1, NumbersAreNumbers
<1>2. ASSUME NEW p \in Publishers,
             Quit(p) \/ Enter(p) \/ Start(p) \/ Write(p) \/ Move(p) \/ Queue(p)
      PROVE  FreshInv'
  <2>1. CASE Quit(p) \/ Queue(p)
    <3>1. /\ journal' = journal /\ drafts' = drafts
          /\ pub'[p].pc = "idle"
          /\ \A q \in Publishers : q # p => pub'[q] = pub[q]
      BY <2>1 DEF Quit, Queue, Leave, Idle, Apart, ChannelTypeOK, PublishTypeOK
    <3> QED BY <3>1
  <2>2. CASE Enter(p) \/ Start(p) \/ Move(p)
    <3>1. /\ journal' = journal /\ drafts' = drafts
          /\ pub[p].pc # "idle" /\ pub'[p].event.id = pub[p].event.id
          /\ pub'[p].pc \in Unwritten => pub[p].pc \in Unwritten
          /\ \A q \in Publishers : q # p => pub'[q] = pub[q]
      BY <2>2 DEF Enter, Start, Move, Goto, Apart, Written, ChannelTypeOK,
                  PublishTypeOK
    <3> QED BY <3>1
  <2>3. CASE Write(p)
    <3>1. /\ drafts' = drafts
          /\ pub[p].pc = "append" /\ pub'[p].pc = "committed"
          /\ pub'[p].event = pub[p].event
          /\ \A q \in Publishers : q # p => pub'[q] = pub[q]
      BY <2>3 DEF Write, Goto, Apart, ChannelTypeOK, PublishTypeOK
    <3>2. \A i \in DOMAIN journal' :
             \/ i \in DOMAIN journal /\ journal'[i] = journal[i]
             \/ journal'[i] = pub[p].event
      BY <2>3 DEF Write, ChannelTypeOK, PublishTypeOK
    <3> QED BY <3>1, <3>2
  <2> QED BY <1>2, <2>1, <2>2, <2>3
<1>3. CASE CaptureWatermark \/ Close \/ CloserStep \/ Abort \/ Cancel
  BY <1>3, ControlFrame
<1>4. ASSUME NEW c \in Consumers, ConsumerStep(c)
      PROVE  FreshInv'
  BY <1>4, ConsumerFrame
<1> QED BY <1>1, <1>2, <1>3, <1>4, PublisherCases DEF Next

-----------------------------------------------------------------------------
(* The journal *)

\* A publication reaches the journal's end with the next number, once.
LEMMA WriteAppends ==
  ASSUME IInv, NEW p \in Publishers, Write(p)
  PROVE  /\ journal' = Append(journal, pub[p].event)
         /\ pub[p].event.seq = Len(journal) + 1
         /\ \A i \in DOMAIN journal :
               /\ journal[i].kind # "terminal"
               /\ journal[i].id # pub[p].event.id
<1>1. \A i \in DOMAIN journal : journal[i].id # pub[p].event.id
  BY DEF IInv, FreshInv, Unwritten, Write
<1>2. AppendDecision(pub[p].event) # "DUPLICATE"
  BY <1>1 DEF AppendDecision
<1>3. AppendDecision(pub[p].event) = "APPENDED"
      /\ journal' = Append(journal, pub[p].event)
  BY <1>2 DEF Write
<1>4. /\ ~ \E i \in DOMAIN journal : journal[i].kind = "terminal"
      /\ ~(pub[p].event.seq <= LastSequence)
  BY <1>3 DEF AppendDecision
<1>5. pub[p].event.seq <= Len(journal) + 1
  BY DEF IInv, SeqInv, Write
<1> QED BY <1>1, <1>3, <1>4, <1>5, LastIsLength, NumbersAreNumbers
        DEF IInv, Write

LEMMA SeqNext ==
  ASSUME IInv, Next PROVE SeqInv' /\ JournalIsSound'
<1> USE DEF IInv
<1>1. ASSUME UNCHANGED <<journal, sequence>>,
             \A p \in Publishers : pub'[p] = pub[p] \/ pub'[p].pc \in {"idle", "lock", "load"}
      PROVE  SeqInv' /\ JournalIsSound'
  BY <1>1 DEF SeqInv, JournalIsSound, Written
<1>2. ASSUME NEW p \in Publishers, NEW kind \in Kinds, Publish(p, kind)
      PROVE  SeqInv' /\ JournalIsSound'
  BY <1>1, <1>2 DEF Publish, ChannelTypeOK, PublishTypeOK
<1>3. ASSUME NEW p \in Publishers,
             Quit(p) \/ Enter(p) \/ Start(p) \/ Write(p) \/ Move(p) \/ Queue(p)
      PROVE  SeqInv' /\ JournalIsSound'
  <2>1. CASE Quit(p) \/ Queue(p) \/ Enter(p)
    <3>1. /\ journal' = journal
          /\ sequence' = sequence \/ sequence' = Len(journal)
          /\ \A q \in Publishers : \/ pub'[q] = pub[q]
                                   \/ pub'[q].pc \in {"idle", "load"}
      BY <2>1, LastIsLength
         DEF Quit, Queue, Enter, Leave, Goto, Idle, ChannelTypeOK, PublishTypeOK
    <3> QED BY <3>1, NumbersAreNumbers DEF SeqInv, JournalIsSound, Written
  <2>2. CASE Start(p)
    <3>1. /\ journal' = journal
          /\ sequence' = sequence \/ sequence' = Len(journal)
          /\ pub'[p].pc = "append" /\ pub'[p].event.seq = sequence' + 1
          /\ \A q \in Publishers : q # p => pub'[q] = pub[q]
      BY <2>2, LastIsLength DEF Start, ChannelTypeOK, PublishTypeOK
    <3> QED BY <3>1, NumbersAreNumbers DEF SeqInv, JournalIsSound, Written
  <2>3. CASE Write(p)
    <3>1. /\ sequence' = sequence
          /\ pub'[p].pc = "committed" /\ pub'[p].event = pub[p].event
          /\ \A q \in Publishers : q # p => pub'[q] = pub[q]
          /\ \A q \in Publishers : q # p => pub[q].pc \notin Holding
      BY <2>3 DEF Write, Goto, ChannelTypeOK, PublishTypeOK, LockInv, Holding
    <3>2. /\ Len(journal') = Len(journal) + 1
          /\ DOMAIN journal' = 1..(Len(journal) + 1)
          /\ \A i \in DOMAIN journal : journal'[i] = journal[i]
          /\ journal'[Len(journal) + 1] = pub[p].event
      <4>1. pub[p].event \in Event /\ journal \in Seq(Event)
        BY <2>3 DEF Write, ChannelTypeOK, PublishTypeOK
      <4> QED BY <2>3, <4>1, WriteAppends
    <3>3. SeqInv'
      BY <3>1, <3>2, NumbersAreNumbers DEF SeqInv, Written, Holding
    <3>4. JournalIsSound'
      <4>1. \A i \in DOMAIN journal' : journal'[i].seq = i
        BY <2>3, <3>2, WriteAppends, NumbersAreNumbers DEF JournalIsSound
      <4>2. \A i, j \in DOMAIN journal' :
               journal'[i].id = journal'[j].id => i = j
        BY <2>3, <3>2, WriteAppends, NumbersAreNumbers DEF JournalIsSound
      <4>3. \A i \in DOMAIN journal' :
               journal'[i].kind = "terminal" => i = Len(journal')
        BY <2>3, <3>2, WriteAppends, NumbersAreNumbers DEF JournalIsSound
      <4> QED BY <4>1, <4>2, <4>3 DEF JournalIsSound
    <3> QED BY <3>3, <3>4
  <2>4. CASE Move(p)
    <3>1. /\ journal' = journal
          /\ sequence' = sequence \/ sequence' = pub[p].event.seq
          /\ pub[p].pc \in Written /\ pub'[p].pc \in {"put", "space"}
          /\ pub'[p].event = pub[p].event
          /\ \A q \in Publishers : q # p => pub'[q] = pub[q]
      BY <2>4 DEF Move, Goto, ChannelTypeOK, PublishTypeOK
    <3>2. pub[p].event.seq = Len(journal)
      BY <3>1, NumbersAreNumbers DEF SeqInv, JournalIsSound
    <3> QED BY <3>1, <3>2, NumbersAreNumbers DEF SeqInv, JournalIsSound, Written
  <2> QED BY <1>3, <2>1, <2>2, <2>3, <2>4
<1>4. CASE CaptureWatermark \/ Close \/ CloserStep \/ Abort \/ Cancel
  BY <1>4, ControlFrame, NumbersAreNumbers DEF SeqInv, JournalIsSound
<1>5. ASSUME NEW c \in Consumers, ConsumerStep(c)
      PROVE  SeqInv' /\ JournalIsSound'
  BY <1>1, <1>5, ConsumerFrame
<1> QED BY <1>2, <1>3, <1>4, <1>5, PublisherCases DEF Next

-----------------------------------------------------------------------------
(* Journal-first delivery *)

\* The three things that happen to the queue, index by index.
LEMMA QueueGrows ==
  ASSUME QueueTypeOK, NEW e, e \in Event \cup {End}, queue' = Append(queue, e)
  PROVE  /\ Len(queue) \in Nat /\ DOMAIN queue = 1..Len(queue)
         /\ DOMAIN queue' = 1..(Len(queue) + 1)
         /\ \A i \in DOMAIN queue : queue'[i] = queue[i]
         /\ queue'[Len(queue) + 1] = e
  BY DEF QueueTypeOK

LEMMA QueueShrinks ==
  ASSUME QueueTypeOK, Take
  PROVE  /\ Len(queue) \in Nat \ {0} /\ DOMAIN queue = 1..Len(queue)
         /\ DOMAIN queue' = 1..(Len(queue) - 1)
         /\ \A i \in DOMAIN queue' : queue'[i] = queue[i + 1]
         /\ Head(queue) = queue[1]
  BY DEF QueueTypeOK, Take

LEMMA QueuedNumbers ==
  ASSUME QueueTypeOK
  PROVE  /\ \A i \in DOMAIN queue : queue[i].seq \in Nat
         /\ \A i \in DOMAIN delivered :
               delivered[i].seq \in Nat /\ delivered[i] # End
<1>1. \A i \in DOMAIN queue : queue[i] \in Event \cup {End}
  BY DEF QueueTypeOK
<1>2. \A i \in DOMAIN delivered : delivered[i] \in Event
  BY DEF QueueTypeOK
<1>3. End.seq = 0
  BY DEF End
<1> QED BY <1>1, <1>2, <1>3, EventFacts

\* Nothing in sight is newer than the journal.
LEMMA SeenIsOld ==
  ASSUME IInv
  PROVE  /\ \A i \in DOMAIN queue : queue[i].seq <= Len(journal)
         /\ \A i \in DOMAIN delivered : delivered[i].seq <= Len(journal)
<1>1. End.seq = 0
  BY DEF End
<1> QED BY <1>1, NumbersAreNumbers DEF IInv, JournalFirst, InJournal

LEMMA FirstKept ==
  ASSUME IInv, UNCHANGED <<queue, delivered, journal>>,
         \A p \in Publishers : pub'[p].pc \in Written => pub[p].pc \in Written
  PROVE  JournalFirst' /\ NewestInv'
  BY DEF IInv, JournalFirst, InJournal, NewestInv

LEMMA FirstNext ==
  ASSUME IInv, Next PROVE JournalFirst' /\ NewestInv'
<1> USE DEF IInv, ChannelTypeOK
<1>1. ASSUME NEW p \in Publishers, NEW kind \in Kinds, Publish(p, kind)
      PROVE  JournalFirst' /\ NewestInv'
  <2>1. \A q \in Publishers : pub'[q].pc \in Written => pub[q].pc \in Written
    BY <1>1 DEF Publish, PublishTypeOK, Written
  <2> QED BY <1>1, <2>1, FirstKept DEF Publish
<1>2. ASSUME NEW p \in Publishers, Quit(p) \/ Enter(p) \/ Start(p) \/ Move(p)
      PROVE  JournalFirst' /\ NewestInv'
  <2>1. \A q \in Publishers : pub'[q].pc \in Written => pub[q].pc \in Written
    BY <1>2 DEF Quit, Enter, Start, Move, Leave, Goto, Idle, PublishTypeOK,
                Written
  <2>2. UNCHANGED <<queue, delivered, journal>>
    BY <1>2 DEF Quit, Enter, Start, Move, Apart
  <2> QED BY <2>1, <2>2, FirstKept
<1>3. ASSUME NEW p \in Publishers, Write(p)
      PROVE  JournalFirst' /\ NewestInv'
  <2>1. UNCHANGED <<queue, delivered>>
    BY <1>3 DEF Write, Apart
  <2>2. /\ Len(journal') = Len(journal) + 1
        /\ DOMAIN journal' = 1..(Len(journal) + 1)
        /\ \A i \in DOMAIN journal : journal'[i] = journal[i]
    <3>1. pub[p].event \in Event /\ journal \in Seq(Event)
      BY <1>3 DEF Write, PublishTypeOK
    <3> QED BY <1>3, <3>1, WriteAppends
  <2>3. JournalFirst'
    BY <2>1, <2>2, NumbersAreNumbers DEF JournalFirst, InJournal
  <2>4. NewestInv'
    BY <2>1, <2>2, SeenIsOld, NumbersAreNumbers, QueuedNumbers DEF NewestInv
  <2> QED BY <2>3, <2>4
<1>4. ASSUME NEW p \in Publishers, Queue(p)
      PROVE  JournalFirst' /\ NewestInv'
  <2> DEFINE e == pub[p].event
  <2>1. UNCHANGED <<delivered, journal>> /\ queue' = Append(queue, e)
    BY <1>4 DEF Queue, Apart
  <2>2. e \in Event /\ e # End /\ e.seq = Len(journal) /\ InJournal(e)
    <3>1. e \in Event /\ e # End
      BY <1>4, EventFacts DEF Queue, PublishTypeOK
    <3>2. Len(journal) > 0 /\ journal[Len(journal)] = e
      BY <1>4 DEF Queue, SeqInv, Written
    <3> QED BY <3>1, <3>2, NumbersAreNumbers DEF JournalIsSound, InJournal
  <2>3. /\ \A i \in DOMAIN delivered : delivered[i].seq < e.seq
        /\ \A i \in DOMAIN queue : queue[i].seq < e.seq
    BY <1>4, <2>2 DEF Queue, NewestInv, Written
  <2>4. JournalFirst'
    <3> HIDE DEF e
    <3>1. /\ Len(queue) \in Nat /\ DOMAIN queue = 1..Len(queue)
          /\ DOMAIN queue' = 1..(Len(queue) + 1)
          /\ \A i \in DOMAIN queue : queue'[i] = queue[i]
          /\ queue'[Len(queue) + 1] = e
      BY <2>1, <2>2, QueueGrows
    <3>2. \A i \in DOMAIN queue' : queue'[i] # End => InJournal(queue'[i])
      BY <2>2, <3>1 DEF JournalFirst
    <3>3. \A i, j \in DOMAIN queue' : i < j => Precedes(queue'[i], queue'[j])
      BY <2>3, <3>1 DEF JournalFirst, Precedes
    <3>4. \A i \in DOMAIN delivered, j \in DOMAIN queue' :
             Precedes(delivered[i], queue'[j])
      BY <2>3, <3>1 DEF JournalFirst, Precedes
    <3> QED BY <2>1, <3>2, <3>3, <3>4 DEF JournalFirst, InJournal
  <2>5. \A q \in Publishers : pub'[q].pc \notin Written
    BY <1>4 DEF Queue, Leave, Idle, PublishTypeOK, LockInv, Holding, Written
  <2> QED BY <2>4, <2>5 DEF NewestInv
<1>5. CASE CaptureWatermark \/ Close \/ CloserStep \/ Abort \/ Cancel
  <2>1. UNCHANGED <<delivered, journal, pub>>
    BY <1>5, ControlFrame
  <2>2. CASE queue' = queue
    BY <2>1, <2>2, FirstKept
  <2>3. CASE queue' = <<End>>
    <3>1. End.seq = 0
      BY DEF End
    <3>2. JournalFirst'
      BY <2>1, <2>3 DEF JournalFirst, InJournal, Precedes
    <3>3. NewestInv'
      BY <2>1, <2>3, <3>1, NumbersAreNumbers DEF NewestInv, SeqInv
    <3> QED BY <3>2, <3>3
  <2>4. CASE CloseEnqueues
    <3>1. queue' = Append(queue, End)
      BY <2>4 DEF CloseEnqueues
    <3>2. JournalFirst'
      BY <2>1, <3>1, QueueGrows DEF JournalFirst, InJournal, Precedes
    <3>3. \A p \in Publishers : pub[p].pc \notin Written
      BY <2>4 DEF CloseEnqueues, LockInv, Holding, Written
    <3> QED BY <2>1, <3>2, <3>3 DEF NewestInv
  <2> QED BY <1>5, <2>2, <2>3, <2>4, ControlFrame
<1>6. ASSUME NEW c \in Consumers, ConsumerStep(c)
      PROVE  JournalFirst' /\ NewestInv'
  <2>1. UNCHANGED <<journal, pub>>
    BY <1>6, ConsumerFrame
  <2>2. CASE UNCHANGED <<queue, spaceAvailable, delivered>>
    BY <2>1, <2>2, FirstKept
  <2>3. CASE Take /\ UNCHANGED delivered
    <3>1. JournalFirst'
      BY <2>1, <2>3, QueueShrinks DEF JournalFirst, InJournal
    <3>2. NewestInv'
      BY <2>1, <2>3, QueueShrinks DEF NewestInv
    <3> QED BY <3>1, <3>2
  <2>4. CASE Take /\ ~AtEnd /\ delivered' = Append(delivered, Head(queue))
    <3>1. queue[1] # End /\ 1 \in DOMAIN queue /\ Head(queue) = queue[1]
      BY <2>4, QueueShrinks DEF AtEnd
    <3>2. /\ Len(delivered) \in Nat /\ DOMAIN delivered = 1..Len(delivered)
          /\ DOMAIN delivered' = 1..(Len(delivered) + 1)
          /\ \A i \in DOMAIN delivered : delivered'[i] = delivered[i]
          /\ delivered'[Len(delivered) + 1] = queue[1]
      <4>1. queue[1] \in Event /\ delivered \in Seq(Event)
        BY <3>1 DEF QueueTypeOK
      <4> QED BY <2>4, <3>1, <4>1
    <3>3. /\ \A i \in DOMAIN delivered' : InJournal(delivered'[i])
          /\ \A i \in DOMAIN queue' : queue'[i] # End => InJournal(queue'[i])
      BY <2>4, <3>1, <3>2, QueueShrinks DEF JournalFirst
    <3>4. \A i, j \in DOMAIN delivered' :
             i < j => Precedes(delivered'[i], delivered'[j])
      BY <3>1, <3>2 DEF JournalFirst
    <3>5. \A i, j \in DOMAIN queue' : i < j => Precedes(queue'[i], queue'[j])
      BY <2>4, QueueShrinks DEF JournalFirst
    <3>6. \A i \in DOMAIN delivered', j \in DOMAIN queue' :
             Precedes(delivered'[i], queue'[j])
      BY <2>4, <3>2, QueueShrinks DEF JournalFirst
    <3>7. JournalFirst'
      BY <2>1, <3>3, <3>4, <3>5, <3>6 DEF JournalFirst, InJournal
    <3>8. NewestInv'
      BY <2>1, <2>4, <3>1, <3>2, QueueShrinks DEF NewestInv
    <3> QED BY <3>7, <3>8
  <2> QED BY <1>6, <2>2, <2>3, <2>4, ConsumerFrame
<1> QED BY <1>1, <1>2, <1>3, <1>4, <1>5, <1>6, PublisherCases DEF Next

-----------------------------------------------------------------------------
(* The sentinel *)

LEMMA EndNext ==
  ASSUME IInv, Next PROVE EndInv' /\ EndIsLast' /\ AbortedIsEmpty'
<1> USE DEF IInv, ChannelTypeOK
<1>1. ASSUME UNCHANGED <<queue, state>>,
             \A p \in Publishers : pub'[p].pc \in Holding =>
                pub[p].pc \in Holding \/ state = "OPEN"
      PROVE  EndInv' /\ EndIsLast' /\ AbortedIsEmpty'
  BY <1>1 DEF EndInv, EndIsLast, AbortedIsEmpty
<1>2. ASSUME NEW p \in Publishers, NEW kind \in Kinds, Publish(p, kind)
      PROVE  EndInv' /\ EndIsLast' /\ AbortedIsEmpty'
  BY <1>1, <1>2 DEF Publish, PublishTypeOK
<1>3. ASSUME NEW p \in Publishers,
             Quit(p) \/ Enter(p) \/ Start(p) \/ Write(p) \/ Move(p)
      PROVE  EndInv' /\ EndIsLast' /\ AbortedIsEmpty'
  <2>1. UNCHANGED <<queue, state>>
    BY <1>3 DEF Quit, Enter, Start, Write, Move, Apart
  <2>2. \A q \in Publishers : pub'[q].pc \in Holding =>
           pub[q].pc \in Holding \/ state = "OPEN"
    BY <1>3 DEF Quit, Enter, Start, Write, Move, Leave, Goto, Idle,
                PublishTypeOK, Holding, Written
  <2> QED BY <1>1, <2>1, <2>2
<1>4. ASSUME NEW p \in Publishers, Queue(p)
      PROVE  EndInv' /\ EndIsLast' /\ AbortedIsEmpty'
  <2>1. ~ \E i \in DOMAIN queue : queue[i] = End
    BY <1>4 DEF Queue, EndInv, Holding
  <2>2. pub[p].event \in Event /\ pub[p].event # End
    BY <1>4, EventFacts DEF Queue, PublishTypeOK
  <2>3. ~ \E i \in DOMAIN queue' : queue'[i] = End
    BY <1>4, <2>1, <2>2, QueueGrows DEF Queue
  <2> QED BY <1>4, <2>3 DEF EndInv, EndIsLast, AbortedIsEmpty, Queue, Apart
<1>5. CASE CaptureWatermark \/ Close \/ CloserStep \/ Abort \/ Cancel
  <2>1. UNCHANGED pub
    BY <1>5, ControlFrame
  <2>2. CASE queue' = queue /\ state' = "ABORTED"
    <3>1. (\A i \in DOMAIN queue : queue[i] = End) \/ queue' = <<End>>
      BY <1>5, <2>2 DEF AbortedIsEmpty, CaptureWatermark, Close, CloserStep,
                        CloseAcquires, CloseEnqueues, CloseReturns, Abort, Cancel
    <3> QED BY <2>2, <3>1 DEF EndInv, EndIsLast, AbortedIsEmpty
  <2>3. CASE queue' = queue /\ state' # "ABORTED"
    <3>1. state' # "OPEN" \/ state' = state
      BY <1>5 DEF CaptureWatermark, Close, CloserStep, CloseAcquires,
                  CloseEnqueues, CloseReturns, Abort, Cancel
    <3>2. state # "ABORTED"
      BY <1>5, <2>3 DEF CaptureWatermark, Close, CloserStep, CloseAcquires,
                        CloseEnqueues, CloseReturns, Abort, Cancel, Stable
    <3> QED BY <2>1, <2>3, <3>1, <3>2 DEF EndInv, EndIsLast, AbortedIsEmpty
  <2>4. CASE queue' = <<End>> /\ state' = "ABORTED"
    BY <2>4 DEF EndInv, EndIsLast, AbortedIsEmpty
  <2>5. CASE CloseEnqueues
    <3>1. queue' = Append(queue, End) /\ state' = state
      BY <2>5 DEF CloseEnqueues
    <3>2. \A p \in Publishers : pub'[p].pc \notin Holding
      BY <2>1, <2>5 DEF CloseEnqueues, LockInv
    <3>3. state # "OPEN"
      BY <2>5 DEF CloseEnqueues, ClosingInv
    <3> QED BY <3>1, <3>2, <3>3, QueueGrows
            DEF EndInv, EndIsLast, AbortedIsEmpty
  <2> QED BY <1>5, <2>2, <2>3, <2>4, <2>5, ControlFrame
<1>6. ASSUME NEW c \in Consumers, ConsumerStep(c)
      PROVE  EndInv' /\ EndIsLast' /\ AbortedIsEmpty'
  <2>1. UNCHANGED <<state, pub>>
    BY <1>6, ConsumerFrame
  <2>2. CASE UNCHANGED <<queue, spaceAvailable, delivered>>
    BY <1>1, <2>1, <2>2
  <2>3. CASE Take
    BY <2>1, <2>3, QueueShrinks DEF EndInv, EndIsLast, AbortedIsEmpty
  <2> QED BY <1>6, <2>2, <2>3, ConsumerFrame
<1> QED BY <1>2, <1>3, <1>4, <1>5, <1>6, PublisherCases DEF Next

LEMMA ClosingNext ==
  ASSUME IInv, Next PROVE ClosingInv'
<1> USE DEF IInv, ClosingInv
<1>1. ASSUME NEW p \in Publishers, NEW kind \in Kinds, Publish(p, kind)
      PROVE  ClosingInv'
  BY <1>1 DEF Publish
<1>2. ASSUME NEW p \in Publishers,
             Quit(p) \/ Enter(p) \/ Start(p) \/ Write(p) \/ Move(p) \/ Queue(p)
      PROVE  ClosingInv'
  BY <1>2 DEF Quit, Enter, Start, Write, Move, Queue, Apart
<1>3. CASE CaptureWatermark \/ Close \/ CloserStep \/ Abort \/ Cancel
  BY <1>3 DEF CaptureWatermark, Close, CloserStep, CloseAcquires, CloseEnqueues,
              CloseReturns, Abort, Cancel
<1>4. ASSUME NEW c \in Consumers, ConsumerStep(c)
      PROVE  ClosingInv'
  BY <1>4, ConsumerFrame
<1> QED BY <1>1, <1>2, <1>3, <1>4, PublisherCases DEF Next

-----------------------------------------------------------------------------
(* The consumer lease *)

LEMMA LeaseNext ==
  ASSUME IInv, Next PROVE LeaseInv'
<1> USE DEF IInv, LeaseInv, ChannelTypeOK, LeaseTypeOK
<1>1. ASSUME NEW p \in Publishers, NEW kind \in Kinds, Publish(p, kind)
      PROVE  LeaseInv'
  BY <1>1 DEF Publish
<1>2. ASSUME NEW p \in Publishers,
             Quit(p) \/ Enter(p) \/ Start(p) \/ Write(p) \/ Move(p) \/ Queue(p)
      PROVE  LeaseInv'
  BY <1>2 DEF Quit, Enter, Start, Write, Move, Queue, Apart
<1>3. CASE CaptureWatermark \/ Close \/ CloserStep \/ Abort \/ Cancel
  BY <1>3, ControlFrame
<1>4. ASSUME NEW c \in Consumers, ConsumerStep(c)
      PROVE  LeaseInv'
  <2>1. CASE ClaimTransport(c)
    BY <2>1 DEF ClaimTransport
  <2>2. CASE Receive(c)
    BY <2>2 DEF Receive, GiveBack
  <2>3. CASE ReleaseTransport(c)
    BY <2>3 DEF ReleaseTransport, GiveBack
  <2>4. CASE ReserveDrain(c)
    BY <2>4 DEF ReserveDrain
  <2>5. CASE HandOff(c)
    BY <2>5 DEF HandOff
  <2>6. CASE HandOffFails(c)
    BY <2>6 DEF HandOffFails
  <2>7. CASE DrainReceive(c)
    BY <2>7 DEF DrainReceive, GiveBack
  <2>8. CASE DrainGivesUp(c)
    BY <2>8 DEF DrainGivesUp, GiveBack
  <2> QED BY <1>4, <2>1, <2>2, <2>3, <2>4, <2>5, <2>6, <2>7, <2>8
          DEF ConsumerStep
<1> QED BY <1>1, <1>2, <1>3, <1>4, PublisherCases DEF Next

-----------------------------------------------------------------------------
(* The theorems *)

LEMMA Inductive == IInv /\ [Next]_vars => IInv'
<1> SUFFICES ASSUME IInv, [Next]_vars PROVE IInv'
  OBVIOUS
<1>1. CASE UNCHANGED vars
  BY <1>1 DEF vars, IInv, ChannelTypeOK, QueueTypeOK, PublishTypeOK, LeaseTypeOK,
              BudgetTypeOK, LockInv, FreshInv, SeqInv, JournalIsSound,
              JournalFirst, InJournal, NewestInv, ClosingInv, EndInv, EndIsLast,
              AbortedIsEmpty, LeaseInv
<1>2. CASE Next
  BY <1>2, NextType, LockNext, FreshNext, SeqNext, FirstNext, EndNext,
     ClosingNext, LeaseNext DEF IInv
<1> QED BY <1>1, <1>2

\* The inductive invariant holds in every reachable state: the lock has one
\* holder, an event under way is numbered behind the journal or already in it,
\* the queue is part of the journal with the sentinel at most once and last,
\* and the consumer's lease is held by at most one task.
THEOREM ChannelInvariant == Spec => []IInv
  BY InitInv, Inductive, PTL DEF Spec

\* The journal of a run never has a gap, a repeated event or anything behind
\* its terminal event, although the channel's counter may be behind it.
THEOREM JournalSound == Spec => []JournalIsSound
  BY ChannelInvariant, PTL DEF IInv

\* The client only ever sees journalled events, in the journal's order.
THEOREM DeliveryIsJournalFirst == Spec => []JournalFirst
  BY ChannelInvariant, PTL DEF IInv

\* At most one task at a time consumes the channel.
THEOREM ConsumerIsExclusive == Spec => []SingleConsumer
<1>1. IInv => SingleConsumer
  BY DEF IInv, LeaseInv, SingleConsumer
<1> QED BY <1>1, ChannelInvariant, PTL

\* No event is queued behind the sentinel, and none survives an abort.
THEOREM EndsCleanly == Spec => [](EndIsLast /\ AbortedIsEmpty)
  BY ChannelInvariant, PTL DEF IInv

\* CLOSED and ABORTED are stable, whichever of close and abort came first.
THEOREM StableStates == Spec => TerminalStateIsStable
<1>1. [Next]_vars => [(state \in Stable) => (state' = state)]_vars
  <2> SUFFICES ASSUME Next, state \in Stable PROVE state' = state
    BY DEF vars
  <2> USE DEF Stable
  <2>1. ASSUME NEW p \in Publishers, NEW kind \in Kinds, Publish(p, kind)
        PROVE  state' = state
    BY <2>1 DEF Publish
  <2>2. ASSUME NEW p \in Publishers, PublisherStep(p) \/ PublicationFails(p)
        PROVE  state' = state
    BY <2>2, PublisherCases DEF Quit, Enter, Start, Write, Move, Queue, Apart
  <2>3. CASE CaptureWatermark \/ Close \/ CloserStep \/ Abort \/ Cancel
    BY <2>3 DEF CaptureWatermark, Close, CloserStep, CloseAcquires,
                CloseEnqueues, CloseReturns, Abort, Cancel
  <2>4. ASSUME NEW c \in Consumers, ConsumerStep(c)
        PROVE  state' = state
    BY <2>4, ConsumerFrame
  <2> QED BY <2>1, <2>2, <2>3, <2>4 DEF Next
<1> QED BY <1>1, PTL DEF Spec, TerminalStateIsStable

\* Once the run is cancelled nothing that honours cancellation is enqueued.
THEOREM CancellationHides == Spec => CancelledIsInvisible
<1>1. ChannelTypeOK /\ [Next]_vars
        => [cancelled /\ Len(queue') > Len(queue)
              => queue'[Len(queue')].kind \notin Honours]_vars
  <2> SUFFICES ASSUME ChannelTypeOK, Next, cancelled,
                      Len(queue') > Len(queue)
               PROVE  queue'[Len(queue')].kind \notin Honours
    BY DEF vars
  <2> USE DEF ChannelTypeOK
  <2>0. Len(queue) \in Nat /\ queue' # queue
    BY DEF QueueTypeOK
  <2>1. ASSUME NEW p \in Publishers, NEW kind \in Kinds, Publish(p, kind)
        PROVE  FALSE
    BY <2>0, <2>1 DEF Publish
  <2>2. ASSUME NEW p \in Publishers, PublisherStep(p) \/ PublicationFails(p)
        PROVE  queue'[Len(queue')].kind \notin Honours
    <3>1. PutEvent(p)
      BY <2>0, <2>2
         DEF PublisherStep, PublicationFails, AcquirePublish, LoadWatermark,
             JournalAppend, AppendReturns, InterruptAppend, AwaitSpace,
             SpaceFreed, PutRefused
    <3>2. /\ pub[p].event.kind \notin Honours
          /\ queue' = Append(queue, pub[p].event)
          /\ pub[p].event \in Event \cup {End}
      BY <3>1 DEF PutEvent, Enqueue, PublishTypeOK
    <3>3. queue'[Len(queue')] = pub[p].event
      BY <3>2 DEF QueueTypeOK
    <3> QED BY <3>2, <3>3
  <2>3. CASE CaptureWatermark \/ Close \/ CloserStep \/ Abort \/ Cancel
    <3>1. End.kind \notin Honours
      BY DEF End, Honours
    <3>2. queue' = <<End>> \/ queue' = Append(queue, End)
      BY <2>0, <2>3 DEF CaptureWatermark, Close, CloserStep, CloseAcquires,
                        CloseEnqueues, CloseReturns, Abort, Cancel
    <3>3. queue'[Len(queue')] = End
      BY <3>2 DEF QueueTypeOK
    <3> QED BY <3>1, <3>3
  <2>4. ASSUME NEW c \in Consumers, ConsumerStep(c)
        PROVE  FALSE
    <3>1. Take
      BY <2>0, <2>4, ConsumerFrame
    <3> QED BY <3>1, <2>0 DEF Take, QueueTypeOK
  <2> QED BY <2>1, <2>2, <2>3, <2>4 DEF Next
<1> QED BY <1>1, ChannelTypeCorrect, PTL DEF Spec, CancelledIsInvisible

-----------------------------------------------------------------------------
(***************************************************************************)
(* A request is a client of its event channel: whatever the request's      *)
(* coroutine, its producer and a shutdown do, they do it through the       *)
(* channel's own operations, so the channel's theorems hold of requests.   *)
(***************************************************************************)
LEMMA ScopeStep == [ScopeNext]_scopeVars => [Next]_vars
<1> SUFFICES ASSUME ScopeNext, vars' # vars PROVE Next
  BY DEF scopeVars
<1> USE DEF Next
<1>1. ASSUME NEW p \in Publishers, Produce(p) \/ Publishing(p)
      PROVE  Next
  BY <1>1 DEF Produce, Publishing
<1>2. CASE ProducerEnds \/ Closing \/ Disturbance
  BY <1>2 DEF ProducerEnds, Closing, Disturbance
<1>3. CASE Disconnect \/ EncodingFailed \/ CancelRun \/ ShutdownRun
  BY <1>3 DEF Disconnect, EncodingFailed, CancelRun, ShutdownRun
<1>4. CASE CloseScope \/ ForceAbort
  BY <1>4 DEF CloseScope, ForceAbort
<1>5. ASSUME NEW c \in Consumers,
             \/ Attach(c) \/ Detach(c) \/ StartDrain(c) \/ Drain(c)
             \/ Deliver(c) \/ GraceExpires(c) \/ CleanupCancelled(c)
      PROVE  Next
  BY <1>5 DEF Attach, Detach, StartDrain, Drain, Deliver, GraceExpires,
              CleanupCancelled, ConsumerStep
<1> QED BY <1>1, <1>2, <1>3, <1>4, <1>5 DEF ScopeNext, RequestStep

\* The specification of a request implements the specification of the channel.
THEOREM ScopeUsesChannel == ScopeSpec => Spec
<1>1. ScopeInit => Init
  BY DEF ScopeInit
<1> QED BY <1>1, ScopeStep, PTL DEF ScopeSpec, Spec

\* Hence a request's client sees journalled events only, in order, and one
\* task at a time consumes its channel.
THEOREM ScopeSafety == ScopeSpec => [](JournalFirst /\ SingleConsumer)
  BY ScopeUsesChannel, DeliveryIsJournalFirst, ConsumerIsExclusive, PTL

-----------------------------------------------------------------------------
(***************************************************************************)
(* The stream is complete.  While the request streams, with no             *)
(* cancellation, failure or abort, the journal past what the run started   *)
(* with is what was delivered, then what is queued, then at most the one   *)
(* event whose publisher holds the lock; the sentinel stands behind all of *)
(* it.  So when the transport takes the sentinel nothing is outstanding,   *)
(* and since the channel is not OPEN any more nothing is added.            *)
(***************************************************************************)
Quiet == ~cancelled /\ faults = 0
Streaming == phase \in {"start", "stream"} /\ state # "ABORTED"
InFlight == \E p \in Publishers : pub[p].pc \in Written
Ended == \E i \in DOMAIN queue : queue[i] = End
Shown == Recovered + Len(delivered)

DeliveredInv ==
    Shown <= Len(journal) /\ \A i \in DOMAIN delivered : delivered[i] = journal[Recovered + i]

QueuedInv ==
    \A i \in DOMAIN queue :
      /\ queue[i] = End => Len(journal) = Shown + i - 1
      /\ queue[i] # End => Shown + i <= Len(journal) /\ queue[i] = journal[Shown + i]

CountedInv == ~Ended => Len(journal) = Shown + Len(queue) + (IF InFlight THEN 1 ELSE 0)

InOrder == DeliveredInv /\ QueuedInv /\ CountedInv
FlowInv == Quiet /\ Streaming => InOrder

SealInv ==
    /\ state = "CLOSING" => closer # "idle"
    /\ closer # "idle" => state \in {"CLOSING", "ABORTED"}
    /\ Ended /\ state # "ABORTED" => state = "CLOSED" \/ closer = "seal"

DoneInv ==
    transportCompleted =>
      /\ phase \in {"finish", "done"} /\ state # "OPEN"
      /\ \A p \in Publishers : pub[p].pc \notin Holding
      /\ Quiet => DeliveredInv /\ Len(journal) = Shown

StreamInv == FlowInv /\ SealInv /\ DoneInv

LEMMA StreamNumbers ==
  ASSUME ChannelTypeOK
  PROVE  /\ Len(journal) \in Nat /\ Len(queue) \in Nat /\ Len(delivered) \in Nat
         /\ Recovered \in Nat /\ Shown \in Nat
         /\ DOMAIN journal = 1..Len(journal) /\ DOMAIN queue = 1..Len(queue)
         /\ DOMAIN delivered = 1..Len(delivered)
  BY DEF ChannelTypeOK, QueueTypeOK, PublishTypeOK, Shown

LEMMA StreamStarts == ScopeInit => StreamInv
<1> SUFFICES ASSUME ScopeInit PROVE StreamInv
  OBVIOUS
<1>1. /\ Len(journal) = Recovered /\ DOMAIN journal = 1..Recovered
      /\ \A p \in Publishers : pub[p].pc = "idle"
      /\ queue = <<>> /\ delivered = <<>> /\ Len(queue) = 0 /\ Len(delivered) = 0
      /\ state = "OPEN" /\ closer = "idle" /\ ~transportCompleted
  BY DEF ScopeInit, Init, Idle
<1>2. ~InFlight /\ ~Ended
  BY <1>1 DEF InFlight, Ended, Written
<1>3. DeliveredInv /\ QueuedInv /\ CountedInv
  BY <1>1, <1>2 DEF DeliveredInv, QueuedInv, CountedInv, Shown
<1> QED BY <1>1, <1>2, <1>3 DEF StreamInv, FlowInv, InOrder, SealInv, DoneInv

\* The sentinel is put once.
LEMMA SealKept ==
  ASSUME SealInv, UNCHANGED <<state, closer, queue>>
  PROVE  SealInv'
  BY DEF SealInv, Ended

LEMMA SealNext ==
  ASSUME IInv, SealInv, Next PROVE SealInv'
<1> USE DEF IInv, ChannelTypeOK
<1>1. ASSUME NEW p \in Publishers, NEW kind \in Kinds, Publish(p, kind)
      PROVE  SealInv'
  BY <1>1, SealKept DEF Publish
<1>2. ASSUME NEW p \in Publishers, Quit(p) \/ Enter(p) \/ Start(p) \/ Write(p) \/ Move(p)
      PROVE  SealInv'
  BY <1>2, SealKept DEF Quit, Enter, Start, Write, Move, Apart
<1>3. ASSUME NEW p \in Publishers, Queue(p)
      PROVE  SealInv'
  <2>1. ~Ended
    BY <1>3 DEF Queue, Ended, EndInv, Holding
  <2>2. pub[p].event \in Event /\ pub[p].event # End
    BY <1>3, EventFacts DEF Queue, PublishTypeOK
  <2>3. ~Ended'
    BY <1>3, <2>1, <2>2, QueueGrows DEF Queue, Ended
  <2> QED BY <1>3, <2>3 DEF SealInv, Queue, Apart
<1>4. CASE CaptureWatermark \/ Cancel
  BY <1>4, SealKept DEF CaptureWatermark, Cancel
<1>5. CASE Close
  <2>1. closer = "idle" /\ state \notin Stable /\ state' = "CLOSING" /\ closer' = "lock"
        /\ queue' = queue
    BY <1>5 DEF Close
  <2>2. ~Ended
    BY <2>1 DEF SealInv, Stable
  <2> QED BY <2>1, <2>2 DEF SealInv, Ended
<1>6. CASE CloseAcquires
  <2>1. UNCHANGED <<queue, state>> /\ closer = "lock" /\ closer' \in {"idle", "end"}
        /\ (closer' = "idle" => state = "ABORTED")
    BY <1>6 DEF CloseAcquires
  <2> QED BY <2>1 DEF SealInv, Ended
<1>7. CASE CloseEnqueues
  BY <1>7 DEF CloseEnqueues, SealInv
<1>8. CASE CloseReturns
  BY <1>8 DEF CloseReturns, SealInv, Ended
<1>9. CASE Abort
  BY <1>9 DEF Abort, SealInv
<1>10. ASSUME NEW c \in Consumers, ConsumerStep(c)
       PROVE  SealInv'
  <2>1. UNCHANGED <<state, closer>>
    BY <1>10, ConsumerFrame
  <2>2. Ended' => Ended
    <3>1. CASE queue' = queue
      BY <3>1 DEF Ended
    <3>2. CASE Take
      BY <3>2, QueueShrinks DEF Ended
    <3> QED BY <1>10, <3>1, <3>2, ConsumerFrame
  <2> QED BY <2>1, <2>2 DEF SealInv
<1> QED BY <1>1, <1>2, <1>3, <1>4, <1>5, <1>6, <1>7, <1>8, <1>9, <1>10, PublisherCases
        DEF Next, CloserStep

-----------------------------------------------------------------------------
(* What happens to the stream, step by step. *)

LEMMA FlowKept ==
  ASSUME InOrder, UNCHANGED <<queue, delivered, journal>>, InFlight' <=> InFlight
  PROVE  InOrder'
  BY DEF InOrder, DeliveredInv, QueuedInv, CountedInv, Shown, Ended

\* Only the holder of the lock can have written an event that is not queued.
LEMMA WriterIsAlone ==
  ASSUME IInv, NEW p \in Publishers, pub[p].pc \in Holding, NEW q \in Publishers, q # p
  PROVE  pub[q].pc \notin Holding
  BY DEF IInv, LockInv

LEMMA FlowWrites ==
  ASSUME IInv, InOrder, state # "ABORTED", NEW p \in Publishers, Write(p)
  PROVE  InOrder'
<1>0. ChannelTypeOK
  BY DEF IInv
<1>1. /\ UNCHANGED <<queue, delivered>> /\ pub[p].pc = "append"
  BY DEF Write, Apart
<1>2. /\ Len(journal') = Len(journal) + 1
      /\ \A i \in 1..Len(journal) : journal'[i] = journal[i]
  <2>1. pub[p].event \in Event /\ journal \in Seq(Event)
    BY <1>0, <1>1, EventFacts DEF ChannelTypeOK, PublishTypeOK
  <2> QED BY <2>1, WriteAppends
<1>3. ~InFlight
  BY <1>1, WriterIsAlone DEF InFlight, Holding, Written
<1>4. InFlight'
  BY <1>0 DEF InFlight, Write, Goto, Written, ChannelTypeOK, PublishTypeOK
<1>5. ~Ended
  BY <1>1 DEF IInv, EndInv, Ended, Holding
<1>6. Len(journal) = Shown + Len(queue)
  BY <1>0, <1>3, <1>5, StreamNumbers DEF InOrder, CountedInv
<1>7. DeliveredInv'
  BY <1>0, <1>1, <1>2, StreamNumbers DEF InOrder, DeliveredInv, Shown
<1>8. QueuedInv'
  BY <1>0, <1>1, <1>2, <1>5, StreamNumbers DEF InOrder, QueuedInv, Shown, Ended
<1>9. CountedInv'
  BY <1>0, <1>1, <1>2, <1>4, <1>6, StreamNumbers DEF CountedInv, Shown
<1> QED BY <1>7, <1>8, <1>9 DEF InOrder

LEMMA FlowQueues ==
  ASSUME IInv, InOrder, NEW p \in Publishers, Queue(p)
  PROVE  InOrder'
<1>0. ChannelTypeOK /\ QueueTypeOK
  BY DEF IInv, ChannelTypeOK
<1> DEFINE e == pub[p].event
<1>1. /\ UNCHANGED <<journal, delivered>> /\ queue' = Append(queue, e) /\ pub[p].pc = "put"
      /\ state # "ABORTED"
  BY DEF Queue, Apart
<1>2. e \in Event /\ e # End
  BY <1>0, <1>1, EventFacts DEF ChannelTypeOK, PublishTypeOK
<1>3. Len(journal) > 0 /\ journal[Len(journal)] = e
  BY <1>1 DEF IInv, SeqInv, Written
<1> HIDE DEF e
<1>4. /\ Len(queue') = Len(queue) + 1 /\ DOMAIN queue' = 1..(Len(queue) + 1)
      /\ \A i \in 1..Len(queue) : queue'[i] = queue[i]
      /\ queue'[Len(queue) + 1] = e
  BY <1>0, <1>1, <1>2, QueueGrows, StreamNumbers DEF QueueTypeOK
<1>5. InFlight
  BY <1>1 DEF InFlight, Written
<1>6. ~InFlight'
  <2>1. \A q \in Publishers \ {p} : pub'[q] = pub[q] /\ pub[q].pc \notin Written
    BY <1>0, <1>1, WriterIsAlone
       DEF Queue, Leave, Holding, Written, ChannelTypeOK, PublishTypeOK
  <2>2. pub'[p].pc = "idle"
    BY <1>0 DEF Queue, Leave, Idle, ChannelTypeOK, PublishTypeOK
  <2> QED BY <2>1, <2>2 DEF InFlight, Written
<1>7. ~Ended
  BY <1>1 DEF IInv, EndInv, Ended, Holding
<1>8. Len(journal) = Shown + Len(queue) + 1
  BY <1>0, <1>5, <1>7, StreamNumbers DEF InOrder, CountedInv
<1>9. DeliveredInv'
  BY <1>1 DEF InOrder, DeliveredInv, Shown
<1>10. QueuedInv'
  <2>1. Shown' = Shown
    BY <1>1 DEF Shown
  <2>2. ASSUME NEW i \in 1..Len(queue)
        PROVE  queue'[i] # End /\ Shown + i <= Len(journal) /\ queue'[i] = journal[Shown + i]
    BY <1>0, <1>4, <1>7, StreamNumbers DEF InOrder, QueuedInv, Ended
  <2>3. queue'[Len(queue) + 1] # End /\ Shown + (Len(queue) + 1) = Len(journal)
        /\ queue'[Len(queue) + 1] = journal[Len(journal)]
    BY <1>0, <1>2, <1>3, <1>4, <1>8, StreamNumbers
  <2>4. \A i \in 1..(Len(queue) + 1) : i \in 1..Len(queue) \/ i = Len(queue) + 1
    BY <1>0, StreamNumbers
  <2> QED BY <1>0, <1>1, <1>4, <2>1, <2>2, <2>3, <2>4, StreamNumbers DEF QueuedInv
<1>11. CountedInv'
  BY <1>0, <1>1, <1>4, <1>6, <1>8, StreamNumbers DEF CountedInv, Shown
<1> QED BY <1>9, <1>10, <1>11 DEF InOrder

LEMMA FlowEnds ==
  ASSUME IInv, SealInv, InOrder, state # "ABORTED", CloseEnqueues
  PROVE  InOrder'
<1>0. ChannelTypeOK /\ QueueTypeOK
  BY DEF IInv, ChannelTypeOK
<1>1. /\ UNCHANGED <<journal, delivered>> /\ queue' = Append(queue, End) /\ closer = "end"
  BY DEF CloseEnqueues
<1>2. /\ Len(queue') = Len(queue) + 1 /\ DOMAIN queue' = 1..(Len(queue) + 1)
      /\ \A i \in 1..Len(queue) : queue'[i] = queue[i]
      /\ queue'[Len(queue) + 1] = End
  BY <1>0, <1>1, QueueGrows, StreamNumbers DEF QueueTypeOK
<1>3. ~InFlight
  BY <1>1 DEF IInv, LockInv, InFlight, Holding, Written
<1>4. ~Ended
  BY <1>1 DEF SealInv
<1>5. Len(journal) = Shown + Len(queue)
  BY <1>0, <1>3, <1>4, StreamNumbers DEF InOrder, CountedInv
<1>6. DeliveredInv'
  BY <1>1 DEF InOrder, DeliveredInv, Shown
<1>7. QueuedInv'
  <2>1. Shown' = Shown
    BY <1>1 DEF Shown
  <2>2. ASSUME NEW i \in 1..Len(queue)
        PROVE  queue'[i] # End /\ Shown + i <= Len(journal) /\ queue'[i] = journal[Shown + i]
    BY <1>0, <1>2, <1>4, StreamNumbers DEF InOrder, QueuedInv, Ended
  <2>3. Len(journal) = Shown + (Len(queue) + 1) - 1
    BY <1>0, <1>5, StreamNumbers
  <2>4. \A i \in 1..(Len(queue) + 1) : i \in 1..Len(queue) \/ i = Len(queue) + 1
    BY <1>0, StreamNumbers
  <2> QED BY <1>0, <1>1, <1>2, <2>1, <2>2, <2>3, <2>4, StreamNumbers DEF QueuedInv
<1>8. Ended'
  BY <1>0, <1>2, StreamNumbers DEF Ended
<1> QED BY <1>6, <1>7, <1>8 DEF InOrder, CountedInv

LEMMA FlowDelivers ==
  ASSUME IInv, InOrder, Take, ~AtEnd, delivered' = Append(delivered, Head(queue)),
         UNCHANGED <<journal, pub>>
  PROVE  InOrder'
<1>0. ChannelTypeOK /\ QueueTypeOK
  BY DEF IInv, ChannelTypeOK
<1>1. /\ Len(queue) \in Nat \ {0} /\ Len(queue') = Len(queue) - 1
      /\ DOMAIN queue' = 1..(Len(queue) - 1)
      /\ \A i \in 1..(Len(queue) - 1) : queue'[i] = queue[i + 1]
      /\ Head(queue) = queue[1] /\ queue[1] # End
  BY <1>0, QueueShrinks DEF AtEnd, QueueTypeOK, Take
<1>2. 1 \in DOMAIN queue
  BY <1>0, <1>1, StreamNumbers
<1>3. /\ Len(delivered') = Len(delivered) + 1 /\ DOMAIN delivered' = 1..(Len(delivered) + 1)
      /\ \A i \in 1..Len(delivered) : delivered'[i] = delivered[i]
      /\ delivered'[Len(delivered) + 1] = queue[1]
  <2>1. queue[1] \in Event /\ delivered \in Seq(Event)
    BY <1>0, <1>1, <1>2 DEF QueueTypeOK
  <2> QED BY <1>1, <2>1
<1>4. Shown + 1 <= Len(journal) /\ queue[1] = journal[Shown + 1]
  BY <1>1, <1>2 DEF InOrder, QueuedInv
<1>5. Shown' = Shown + 1
  BY <1>0, <1>3, StreamNumbers DEF Shown
<1>6. DeliveredInv'
  <2>1. \A i \in 1..Len(delivered) : delivered'[i] = journal[Recovered + i]
    BY <1>0, <1>3, StreamNumbers DEF InOrder, DeliveredInv
  <2>2. delivered'[Len(delivered) + 1] = journal[Recovered + (Len(delivered) + 1)]
    BY <1>0, <1>3, <1>4, StreamNumbers DEF Shown
  <2>3. \A i \in 1..(Len(delivered) + 1) : i \in 1..Len(delivered) \/ i = Len(delivered) + 1
    BY <1>0, StreamNumbers
  <2> QED BY <1>0, <1>3, <1>4, <1>5, <2>1, <2>2, <2>3, StreamNumbers DEF DeliveredInv
<1>7. QueuedInv'
  <2> SUFFICES ASSUME NEW i \in 1..(Len(queue) - 1)
               PROVE  /\ queue'[i] = End => Len(journal) = Shown + 1 + i - 1
                      /\ queue'[i] # End => /\ Shown + 1 + i <= Len(journal)
                                            /\ queue'[i] = journal[Shown + 1 + i]
    BY <1>1, <1>5 DEF QueuedInv
  <2>1. i + 1 \in DOMAIN queue /\ queue'[i] = queue[i + 1]
    BY <1>0, <1>1, StreamNumbers
  <2>2. /\ queue[i + 1] = End => Len(journal) = Shown + (i + 1) - 1
        /\ queue[i + 1] # End => /\ Shown + (i + 1) <= Len(journal)
                                 /\ queue[i + 1] = journal[Shown + (i + 1)]
    BY <2>1 DEF InOrder, QueuedInv
  <2>3. Shown + (i + 1) = Shown + 1 + i /\ Shown + (i + 1) - 1 = Shown + 1 + i - 1
    BY <1>0, StreamNumbers
  <2> QED BY <2>1, <2>2, <2>3
<1>8. CountedInv'
  <2>1. InFlight' <=> InFlight
    BY DEF InFlight
  <2>2. Ended => Ended'
    <3> SUFFICES ASSUME NEW i \in DOMAIN queue, queue[i] = End PROVE Ended'
      BY DEF Ended
    <3>1. i - 1 \in 1..(Len(queue) - 1) /\ queue'[i - 1] = queue[(i - 1) + 1] /\ (i - 1) + 1 = i
      BY <1>0, <1>1, StreamNumbers
    <3> QED BY <1>1, <3>1 DEF Ended
  <2> QED BY <1>0, <1>1, <1>5, <2>1, <2>2, StreamNumbers DEF InOrder, CountedInv
<1> QED BY <1>6, <1>7, <1>8 DEF InOrder

\* A publisher gives up an event it has written only for a reason.
LEMMA LossHasAReason ==
  ASSUME ChannelTypeOK, NEW p \in Publishers, PublisherStep(p) \/ PublicationFails(p), Quit(p),
         pub[p].pc \in Written
  PROVE  cancelled \/ state = "ABORTED" \/ faults' # 0
<1>0. pub'[p].pc = "idle"
  BY DEF Quit, Leave, Idle, ChannelTypeOK, PublishTypeOK
<1>1. CASE PublicationFails(p)
  BY <1>1 DEF PublicationFails, ChannelTypeOK, BudgetTypeOK
<1>2. CASE InterruptAppend(p) \/ PutRefused(p)
  BY <1>2 DEF InterruptAppend, PutRefused
<1>3. CASE AcquirePublish(p) \/ LoadWatermark(p) \/ JournalAppend(p)
  BY <1>3 DEF AcquirePublish, LoadWatermark, JournalAppend, Written
<1>4. CASE AppendReturns(p) \/ AwaitSpace(p) \/ SpaceFreed(p)
  BY <1>0, <1>4 DEF AppendReturns, AwaitSpace, SpaceFreed, Goto, ChannelTypeOK, PublishTypeOK
<1>5. CASE PutEvent(p)
  <2>1. queue' = Append(queue, pub[p].event) /\ queue' = queue
    BY <1>5 DEF PutEvent, Enqueue, Quit
  <2>2. pub[p].event \in Event \cup {End}
    BY DEF ChannelTypeOK, PublishTypeOK
  <2>3. Len(Append(queue, pub[p].event)) = Len(queue) + 1 /\ Len(queue) \in Nat
    BY <2>2 DEF ChannelTypeOK, QueueTypeOK
  <2> QED BY <2>1, <2>3
<1> QED BY <1>1, <1>2, <1>3, <1>4, <1>5 DEF PublisherStep


\* Cancellation, failures and the end of a channel are for good.
LEMMA ForGood ==
  ASSUME ChannelTypeOK, Next
  PROVE  /\ Quiet' => Quiet
         /\ state' # "ABORTED" => state # "ABORTED"
         /\ state # "OPEN" => state' # "OPEN"
<1> USE DEF ChannelTypeOK, BudgetTypeOK, Quiet
<1>1. ASSUME NEW p \in Publishers, NEW kind \in Kinds, Publish(p, kind)
      PROVE  UNCHANGED <<state, cancelled, faults>>
  BY <1>1 DEF Publish
<1>2. ASSUME NEW p \in Publishers, PublisherStep(p)
      PROVE  UNCHANGED <<state, cancelled, faults>>
  BY <1>2 DEF PublisherStep, AcquirePublish, LoadWatermark, JournalAppend, AppendReturns,
              InterruptAppend, AwaitSpace, SpaceFreed, PutEvent, Enqueue, PutRefused
<1>3. ASSUME NEW p \in Publishers, PublicationFails(p)
      PROVE  UNCHANGED <<state, cancelled>> /\ faults' # 0
  BY <1>3 DEF PublicationFails
<1>4. CASE CaptureWatermark
  BY <1>4 DEF CaptureWatermark
<1>5. CASE Close \/ CloserStep \/ Abort
  BY <1>5 DEF Close, CloserStep, CloseAcquires, CloseEnqueues, CloseReturns, Abort, Stable
<1>6. CASE Cancel
  BY <1>6 DEF Cancel
<1>7. ASSUME NEW c \in Consumers, ConsumerStep(c)
      PROVE  UNCHANGED <<state, cancelled, faults>>
  BY <1>7, ConsumerFrame
<1> QED BY <1>1, <1>2, <1>3, <1>4, <1>5, <1>6, <1>7 DEF Next

\* Once the channel is not OPEN and no publisher holds its lock, the journal
\* is what it will be.
LEMMA JournalIsOver ==
  ASSUME IInv, Next, state # "OPEN", \A p \in Publishers : pub[p].pc \notin Holding
  PROVE  journal' = journal /\ \A p \in Publishers : pub'[p].pc \notin Holding
<1> USE DEF IInv, ChannelTypeOK, PublishTypeOK
<1>1. ASSUME NEW p \in Publishers, NEW kind \in Kinds, Publish(p, kind)
      PROVE  FALSE
  BY <1>1 DEF Publish
<1>2. ASSUME NEW p \in Publishers,
             Quit(p) \/ Enter(p) \/ Start(p) \/ Write(p) \/ Move(p) \/ Queue(p)
      PROVE  Quit(p)
  BY <1>2 DEF Enter, Start, Write, Move, Queue, Holding, Written
<1>3. ASSUME NEW p \in Publishers, Quit(p)
      PROVE  journal' = journal /\ \A q \in Publishers : pub'[q].pc \notin Holding
  BY <1>3 DEF Quit, Leave, Idle, Holding
<1>4. CASE CaptureWatermark \/ Close \/ CloserStep \/ Abort \/ Cancel
  BY <1>4, ControlFrame
<1>5. ASSUME NEW c \in Consumers, ConsumerStep(c)
      PROVE  UNCHANGED <<journal, pub>>
  BY <1>5, ConsumerFrame
<1> QED BY <1>1, <1>2, <1>3, <1>4, <1>5, PublisherCases DEF Next

LEMMA FlowPublishes ==
  ASSUME IInv, InOrder, Quiet, Quiet', state # "ABORTED", NEW p \in Publishers, PublisherStep(p)
  PROVE  InOrder'
<1>0. ChannelTypeOK /\ PublishTypeOK
  BY DEF IInv, ChannelTypeOK
<1>1. CASE Quit(p)
  <2>1. pub[p].pc \notin Written
    BY <1>0, <1>1, LossHasAReason DEF Quiet
  <2>2. InFlight' <=> InFlight
    BY <1>0, <1>1, <2>1 DEF InFlight, Quit, Leave, Idle, Written, PublishTypeOK
  <2> QED BY <1>1, <2>2, FlowKept DEF Quit, Apart
<1>2. CASE Enter(p) \/ Start(p)
  <2>1. pub[p].pc \notin Written /\ pub'[p].pc \notin Written
    BY <1>0, <1>2 DEF Enter, Start, Goto, Written, PublishTypeOK
  <2>2. \A q \in Publishers \ {p} : pub'[q] = pub[q]
    BY <1>0, <1>2 DEF Enter, Start, Goto, PublishTypeOK
  <2>3. InFlight' <=> InFlight
    BY <2>1, <2>2 DEF InFlight
  <2> QED BY <1>2, <2>3, FlowKept DEF Enter, Start, Apart
<1>3. CASE Move(p)
  <2>1. InFlight' <=> InFlight
    BY <1>0, <1>3 DEF InFlight, Move, Goto, Written, PublishTypeOK
  <2> QED BY <1>3, <2>1, FlowKept DEF Move, Apart
<1>4. CASE Write(p)
  BY <1>4, FlowWrites
<1>5. CASE Queue(p)
  BY <1>5, FlowQueues
<1> QED BY <1>1, <1>2, <1>3, <1>4, <1>5, PublisherCases

LEMMA FlowStep ==
  ASSUME IInv, SealInv, FlowInv, ScopeNext, Quiet, state # "ABORTED", Quiet', Streaming'
  PROVE  InOrder'
<1>0. ChannelTypeOK /\ PublishTypeOK /\ BudgetTypeOK
  BY DEF IInv, ChannelTypeOK
<1>1. ASSUME phase \in {"start", "stream"} PROVE InOrder
  BY <1>1 DEF FlowInv, Streaming
<1>2. phase' \in {"start", "stream"} /\ state' # "ABORTED" /\ ~cancelled' /\ faults' = 0
  BY DEF Streaming, Quiet
<1>3. ASSUME NEW p \in Publishers, Produce(p)
      PROVE  InOrder'
  <2>1. PICK kind \in Kinds : Publish(p, kind)
    BY <1>3 DEF Produce
  <2>2. InFlight' <=> InFlight
    BY <1>0, <2>1 DEF InFlight, Publish, Written, PublishTypeOK
  <2>3. UNCHANGED <<queue, delivered, journal>> /\ phase' = phase
    BY <1>3, <2>1 DEF Publish, Produce
  <2> QED BY <1>1, <1>2, <2>2, <2>3, FlowKept
<1>4. ASSUME NEW p \in Publishers, Publishing(p)
      PROVE  InOrder'
  BY <1>1, <1>2, <1>4, FlowPublishes DEF Publishing
<1>5. CASE ProducerEnds
  <2>1. UNCHANGED <<queue, delivered, journal, pub, phase>>
    BY <1>5 DEF ProducerEnds, Close, vars
  <2>2. InFlight' <=> InFlight
    BY <2>1 DEF InFlight
  <2> QED BY <1>1, <1>2, <2>1, <2>2, FlowKept
<1>6. CASE Closing
  <2>1. UNCHANGED <<delivered, journal, pub, phase>>
    BY <1>6 DEF Closing, CloserStep, CloseAcquires, CloseEnqueues, CloseReturns
  <2>2. CASE CloseAcquires \/ CloseReturns
    <3>1. InFlight' <=> InFlight
      BY <2>1 DEF InFlight
    <3>2. queue' = queue
      BY <2>2 DEF CloseAcquires, CloseReturns
    <3> QED BY <1>1, <1>2, <2>1, <3>1, <3>2, FlowKept
  <2>3. CASE CloseEnqueues
    BY <1>1, <1>2, <2>1, <2>3, FlowEnds
  <2> QED BY <1>6, <2>2, <2>3 DEF Closing, CloserStep
<1>7. ASSUME NEW c \in Consumers, Deliver(c)
      PROVE  InOrder'
  <2>1. phase = "stream" /\ Take /\ ~AtEnd /\ UNCHANGED <<journal, pub>>
        /\ delivered' = Append(delivered, Head(queue))
    BY <1>2, <1>7 DEF Deliver, Receive
  <2> QED BY <1>1, <2>1, FlowDelivers
<1>8. ASSUME NEW c \in Consumers, Attach(c)
      PROVE  InOrder'
  <2>1. phase = "start" /\ UNCHANGED <<queue, delivered, journal, pub>>
    BY <1>8 DEF Attach, ClaimTransport
  <2>2. InFlight' <=> InFlight
    BY <2>1 DEF InFlight
  <2> QED BY <1>1, <2>1, <2>2, FlowKept
<1>9. ASSUME NEW c \in Consumers, Detach(c) \/ StartDrain(c) \/ Drain(c) \/ GraceExpires(c) \/ CleanupCancelled(c)
      PROVE  FALSE
  BY <1>2, <1>9 DEF Detach, StartDrain, Drain, GraceExpires, CleanupCancelled
<1>10. ~Disturbance /\ ~CancelRun /\ ~ShutdownRun
  BY <1>0, <1>2 DEF Disturbance, PublicationFails, CancelRun, Cancel, ShutdownRun, Abort,
                    BudgetTypeOK
<1>11. ~Disconnect /\ ~CloseScope /\ ~ForceAbort /\ ~EncodingFailed
  BY <1>2 DEF Disconnect, CloseScope, ForceAbort, EncodingFailed
<1> QED BY <1>3, <1>4, <1>5, <1>6, <1>7, <1>8, <1>9, <1>10, <1>11 DEF ScopeNext, RequestStep

\* Only the request's coroutine takes events for the client, while it streams.
LEMMA OnlyTheStreamDelivers ==
  ASSUME ScopeNext
  PROVE  \/ \E c \in Consumers : Deliver(c)
         \/ /\ UNCHANGED <<delivered, transportCompleted>>
            /\ phase \in {"finish", "done"} => phase' \in {"finish", "done"}
<1>1. ASSUME NEW p \in Publishers, Produce(p) \/ Publishing(p)
      PROVE  UNCHANGED <<delivered, transportCompleted, phase>>
  <2>1. ASSUME NEW kind \in Kinds, Publish(p, kind)
        PROVE  UNCHANGED <<delivered, transportCompleted>>
    BY <2>1 DEF Publish
  <2>2. ASSUME PublisherStep(p) PROVE UNCHANGED <<delivered, transportCompleted>>
    BY <2>2, PublisherCases DEF Quit, Enter, Start, Write, Move, Queue, Apart
  <2> QED BY <1>1, <2>1, <2>2 DEF Produce, Publishing
<1>2. CASE ProducerEnds \/ Closing
  BY <1>2 DEF ProducerEnds, Close, vars, Closing, CloserStep, CloseAcquires, CloseEnqueues,
              CloseReturns
<1>3. CASE Disturbance \/ CancelRun \/ ShutdownRun
  BY <1>3 DEF Disturbance, PublicationFails, CancelRun, Cancel, ShutdownRun, Abort
<1>4. CASE Disconnect \/ CloseScope \/ ForceAbort \/ EncodingFailed
  BY <1>4 DEF Disconnect, Cancel, CloseScope, ForceAbort, Abort, EncodingFailed, vars
<1>5. ASSUME NEW c \in Consumers, Attach(c) \/ Detach(c) \/ StartDrain(c)
      PROVE  UNCHANGED <<delivered, transportCompleted>> /\ phase \notin {"finish", "done"}
  BY <1>5 DEF Attach, ClaimTransport, Detach, ReleaseTransport, StartDrain, ReserveDrain, vars
<1>6. ASSUME NEW c \in Consumers, Drain(c) \/ GraceExpires(c) \/ CleanupCancelled(c)
      PROVE  UNCHANGED <<delivered, transportCompleted>> /\ phase \notin {"finish", "done"}
  BY <1>6 DEF Drain, HandOff, DrainReceive, GraceExpires, CleanupCancelled, DrainGivesUp, HandOffFails, vars
<1> QED BY <1>1, <1>2, <1>3, <1>4, <1>5, <1>6 DEF ScopeNext, RequestStep

LEMMA DoneStep ==
  ASSUME IInv, FlowInv, DoneInv, ScopeNext, [Next]_vars
  PROVE  DoneInv'
<1> SUFFICES ASSUME transportCompleted'
             PROVE  /\ phase' \in {"finish", "done"} /\ state' # "OPEN"
                    /\ \A p \in Publishers : pub'[p].pc \notin Holding
                    /\ Quiet' => DeliveredInv' /\ (Len(journal) = Shown)'
  BY DEF DoneInv
<1>0. ChannelTypeOK
  BY DEF IInv
<1>1. CASE transportCompleted
  <2>1. /\ phase \in {"finish", "done"} /\ state # "OPEN"
        /\ \A p \in Publishers : pub[p].pc \notin Holding
        /\ Quiet => DeliveredInv /\ Len(journal) = Shown
    BY <1>1 DEF DoneInv
  <2>2. phase' \in {"finish", "done"} /\ UNCHANGED delivered
    BY <2>1, OnlyTheStreamDelivers DEF Deliver
  <2>3. CASE Next
    <3>1. journal' = journal /\ \A p \in Publishers : pub'[p].pc \notin Holding
      BY <2>1, <2>3, JournalIsOver
    <3>2. state' # "OPEN" /\ (Quiet' => Quiet)
      BY <1>0, <2>1, <2>3, ForGood
    <3> QED BY <2>1, <2>2, <3>1, <3>2 DEF DeliveredInv, Shown
  <2>4. CASE UNCHANGED vars
    BY <2>1, <2>2, <2>4 DEF vars, DeliveredInv, Shown, Quiet
  <2> QED BY <2>3, <2>4
<1>2. CASE ~transportCompleted
  <2>1. PICK c \in Consumers : Deliver(c)
    BY <1>2, OnlyTheStreamDelivers
  <2>2. /\ phase = "stream" /\ Receive(c) /\ AtEnd /\ state # "ABORTED" /\ phase' = "finish"
        /\ Take /\ UNCHANGED <<delivered, pub, journal, state, cancelled, faults>>
    BY <1>2, <2>1 DEF Deliver, Receive, Take
  <2>3. 1 \in DOMAIN queue /\ queue[1] = End
    BY <1>0, <2>2, QueueShrinks DEF AtEnd, ChannelTypeOK
  <2>4. state # "OPEN" /\ \A p \in Publishers : pub[p].pc \notin Holding
    BY <2>2, <2>3 DEF IInv, EndInv
  <2>5. ASSUME Quiet PROVE DeliveredInv /\ Len(journal) = Shown
    <3>1. InOrder
      BY <2>2, <2>5 DEF FlowInv, Streaming
    <3>2. Len(journal) = Shown + 1 - 1
      BY <2>3, <3>1 DEF InOrder, QueuedInv
    <3> QED BY <1>0, <3>1, <3>2, StreamNumbers DEF InOrder
  <2> QED BY <2>2, <2>4, <2>5 DEF DeliveredInv, Shown, Quiet
<1> QED BY <1>1, <1>2

LEMMA StreamStep == IInv /\ StreamInv /\ [ScopeNext]_scopeVars => StreamInv'
<1> SUFFICES ASSUME IInv, StreamInv, [ScopeNext]_scopeVars PROVE StreamInv'
  OBVIOUS
<1>0. FlowInv /\ SealInv /\ DoneInv /\ ChannelTypeOK /\ [Next]_vars
  BY ScopeStep DEF StreamInv, IInv
<1>1. CASE UNCHANGED scopeVars
  BY <1>1 DEF scopeVars, vars, StreamInv, FlowInv, SealInv, DoneInv, Quiet, Streaming, InOrder,
              DeliveredInv, QueuedInv, CountedInv, InFlight, Ended, Shown
<1>2. CASE ScopeNext
  <2>1. SealInv'
    BY <1>0, SealNext, SealKept DEF vars
  <2>2. DoneInv'
    BY <1>0, <1>2, DoneStep
  <2>3. FlowInv'
    <3> SUFFICES ASSUME Quiet', Streaming' PROVE InOrder'
      BY DEF FlowInv
    <3>1. Quiet /\ state # "ABORTED"
      BY <1>0, ForGood DEF vars, Quiet, Streaming
    <3> QED BY <1>0, <1>2, <3>1, FlowStep
  <2> QED BY <2>1, <2>2, <2>3 DEF StreamInv
<1> QED BY <1>1, <1>2

LEMMA StreamTruth == IInv /\ StreamInv => StreamIsComplete
<1> SUFFICES ASSUME IInv, StreamInv, transportCompleted, Quiet
             PROVE  delivered = SubSeq(journal, Recovered + 1, Len(journal))
  BY DEF StreamIsComplete, Quiet
<1>0. ChannelTypeOK /\ delivered \in Seq(Event) /\ journal \in Seq(Event)
  BY DEF IInv, ChannelTypeOK, QueueTypeOK, PublishTypeOK
<1>1. DeliveredInv /\ Len(journal) = Recovered + Len(delivered)
  BY DEF StreamInv, DoneInv, Shown
<1> DEFINE s == SubSeq(journal, Recovered + 1, Len(journal))
<1>2. s \in Seq(Event) /\ Len(s) = Len(delivered)
      /\ \A i \in 1..Len(s) : s[i] = journal[Recovered + i]
  BY <1>0, <1>1, StreamNumbers
<1> HIDE DEF s
<1>3. \A i \in 1..Len(delivered) : delivered[i] = s[i]
  BY <1>0, <1>1, <1>2, StreamNumbers DEF DeliveredInv
<1>4. /\ delivered = [i \in 1..Len(delivered) |-> delivered[i]]
      /\ s = [i \in 1..Len(s) |-> s[i]]
  BY <1>0, <1>2
<1>5. delivered = s
  BY <1>2, <1>3, <1>4
<1> QED BY <1>5 DEF s

\* A client whose stream ended normally, with no cancellation and no failed
\* publication, was given every event the run added to its journal, in order,
\* for any number of publishers and any capacity of the queue: the end put by
\* the producer's close stands behind every event whose publication it raced.
THEOREM StreamCompletes == ScopeSpec => []StreamIsComplete
<1>1. ScopeInit => StreamInv
  BY StreamStarts
<1>2. ScopeSpec => []IInv
  BY ScopeUsesChannel, ChannelInvariant, PTL
<1> QED BY <1>1, <1>2, StreamStep, StreamTruth, PTL DEF ScopeSpec

=============================================================================
