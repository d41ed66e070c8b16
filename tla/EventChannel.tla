---------------------------- MODULE EventChannel ----------------------------
(***************************************************************************)
(* RuntimeEventChannel (core/runtime/event_channel.py) on top of the run   *)
(* event journal (core/runtime/event_journal_store.py).                    *)
(*                                                                         *)
(* Every run owns one channel.  Publisher tasks serialise on publish_lock, *)
(* append to the durable journal first and only then enqueue for the one   *)
(* consumer; close puts an end sentinel behind the events, abort empties   *)
(* the queue and wakes everybody, and the consumer side is a lease that    *)
(* the transport gives up and a drain may take over.  A step of the model  *)
(* is the code between two awaits: the event loop runs it without          *)
(* interruption, except for the cancellation token, which other threads    *)
(* set and execute_if_active linearises.                                   *)
(***************************************************************************)
EXTENDS Naturals, Sequences, FiniteSets

CONSTANTS
    Publishers,   \* tasks that call publish
    Consumers,    \* tasks that iterate or drain the channel
    Capacity,     \* maxsize of the asyncio queue
    Recovered,    \* events a resumed run already has in the journal
    MaxDrafts,    \* bound: event ids handed out, the recovered ones included
    MaxFaults,    \* bound: publications that fail at an await
    MaxCaptures   \* bound: watermark captures by the checkpoint

ASSUME ChannelAssumption ==
    /\ Capacity \in Nat \ {0}
    /\ Recovered \in Nat /\ MaxDrafts \in Nat /\ MaxFaults \in Nat
    /\ MaxCaptures \in Nat
    /\ Recovered <= MaxDrafts
    /\ Publishers \cap {"none", "closer"} = {}

VARIABLES
    state,                \* EventChannelState
    queue,                \* the bounded asyncio queue
    spaceAvailable,       \* _space_available
    publishLock,          \* who holds _publish_lock
    sequence,             \* _sequence, the channel's idea of the watermark
    watermarkLoaded,      \* _watermark_loaded
    pub,                  \* where each publish call stands, and its event
    closer,               \* where the close call stands
    consumerOwner,        \* EventChannelConsumerOwner
    drainHandoffPending,  \* _drain_handoff_pending
    transportCompleted,   \* _transport_completed
    drainCompleted,       \* _drain_completed
    consumer,             \* what each consumer task is doing
    cancelled,            \* the run's cancellation token
    journal,              \* the run's rows of the event journal
    delivered,            \* history: what the transport was given, in order
    drafts,               \* event ids handed out
    faults,               \* publications that failed at an await
    captures              \* watermark captures so far

channelVars == <<state, queue, spaceAvailable>>
publishVars == <<publishLock, sequence, watermarkLoaded, pub, journal>>
consumeVars == <<consumerOwner, drainHandoffPending, transportCompleted,
                 drainCompleted, consumer, delivered>>
budgetVars  == <<drafts, faults, captures>>
vars == <<channelVars, publishVars, closer, consumeVars, cancelled, budgetVars>>

(***************************************************************************)
(* A "delta" is OUTPUT_DELTA: it honours cancellation during its append    *)
(* and at the queue.  A "plain" event honours it only at the queue.  A     *)
(* "cleanup" event is published with ignore_run_cancellation, and          *)
(* "terminal" is RUN_COMPLETED, which is too.                              *)
(***************************************************************************)
Kinds    == {"delta", "plain", "cleanup", "terminal"}
Honours  == {"delta", "plain"}
Event    == [id : Nat \ {0}, kind : Kinds, seq : Nat]
End      == [id |-> 0, kind |-> "end", seq |-> 0]
Idle     == [pc |-> "idle", event |-> End]
Full     == Len(queue) >= Capacity
Stable   == {"CLOSED", "ABORTED"}

-----------------------------------------------------------------------------
(***************************************************************************)
(* The journal.                                                            *)
(***************************************************************************)
LastSequence == IF journal = <<>> THEN 0 ELSE journal[Len(journal)].seq

\* MUTANT: a finished run still accepts events.
AppendDecisionTerminal(e) ==
    IF \E i \in DOMAIN journal : journal[i] = e              THEN "DUPLICATE"
    ELSE IF \E i \in DOMAIN journal : journal[i].id = e.id   THEN "EVENT_ID_CONFLICT"
    ELSE IF \E i \in DOMAIN journal : journal[i].seq = e.seq THEN "SEQUENCE_CONFLICT"
    ELSE IF e.seq <= LastSequence                            THEN "OUT_OF_ORDER"
    ELSE "APPENDED"

AppendDecision(e) ==
    IF \E i \in DOMAIN journal : journal[i] = e              THEN "DUPLICATE"
    ELSE IF \E i \in DOMAIN journal : journal[i].id = e.id   THEN "EVENT_ID_CONFLICT"
    ELSE IF \E i \in DOMAIN journal : journal[i].seq = e.seq THEN "SEQUENCE_CONFLICT"
    ELSE IF \E i \in DOMAIN journal : journal[i].kind = "terminal"
                                                             THEN "RUN_ALREADY_TERMINAL"
    ELSE IF e.seq <= LastSequence                            THEN "OUT_OF_ORDER"
    ELSE "APPENDED"

-----------------------------------------------------------------------------
Init ==
    /\ state = "OPEN" /\ queue = <<>> /\ spaceAvailable = TRUE
    /\ publishLock = "none" /\ sequence = 0 /\ watermarkLoaded = FALSE
    /\ pub = [p \in Publishers |-> Idle]
    /\ closer = "idle"
    /\ consumerOwner = "RELEASED" /\ drainHandoffPending = FALSE
    /\ transportCompleted = FALSE /\ drainCompleted = FALSE
    /\ consumer = [c \in Consumers |-> "idle"]
    /\ cancelled = FALSE
    /\ journal = [i \in 1..Recovered |-> [id |-> i, kind |-> "plain", seq |-> i]]
    /\ delivered = <<>>
    /\ drafts = Recovered /\ faults = 0 /\ captures = 0

-----------------------------------------------------------------------------
(***************************************************************************)
(* publish.                                                                *)
(***************************************************************************)

\* The call is over, by return or by exception: the lock is given back.
Leave(p) ==
    /\ pub' = [pub EXCEPT ![p] = Idle]
    /\ publishLock' = IF publishLock = p THEN "none" ELSE publishLock

Goto(p, pc) == pub' = [pub EXCEPT ![p].pc = pc]

Publish(p, kind) ==
    /\ pub[p].pc = "idle"
    /\ state = "OPEN"
    /\ drafts < MaxDrafts
    /\ drafts' = drafts + 1
    /\ pub' = [pub EXCEPT ![p] =
                 [pc    |-> "lock",
                  event |-> [id |-> drafts + 1, kind |-> kind, seq |-> 0]]]
    /\ UNCHANGED <<channelVars, publishLock, sequence, watermarkLoaded, journal,
                   closer, consumeVars, cancelled, faults, captures>>

\* Allocate the sequence number and start the append; an OUTPUT_DELTA of a
\* run that is already cancelled is refused before its append starts.
StartAppend(p, watermark) ==
    IF pub[p].event.kind = "delta" /\ cancelled
      THEN Leave(p)
      ELSE /\ pub' = [pub EXCEPT ![p].pc = "append",
                                 ![p].event.seq = watermark + 1]
           /\ publishLock' = p

\* The first caller marks the watermark as loaded before it goes to read it.
Accepted(p) ==
    IF watermarkLoaded
      THEN StartAppend(p, sequence) /\ UNCHANGED watermarkLoaded
      ELSE /\ watermarkLoaded' = TRUE
           /\ publishLock' = p
           /\ Goto(p, "load")

\* MUTANT: the state is not looked at again once the lock is held.
AcquirePublishUnchecked(p) ==
    /\ pub[p].pc = "lock"
    /\ publishLock = "none"
    /\ Accepted(p)
    /\ UNCHANGED <<channelVars, sequence, journal, closer, consumeVars,
                   cancelled, budgetVars>>

\* publish_lock is acquired, and the state is checked again.
AcquirePublish(p) ==
    /\ pub[p].pc = "lock"
    /\ publishLock = "none"
    /\ IF state = "OPEN" THEN Accepted(p)
                         ELSE Leave(p) /\ UNCHANGED watermarkLoaded
    /\ UNCHANGED <<channelVars, sequence, journal, closer, consumeVars,
                   cancelled, budgetVars>>

LoadWatermark(p) ==
    /\ pub[p].pc = "load"
    /\ sequence' = LastSequence
    /\ StartAppend(p, LastSequence)
    /\ UNCHANGED <<channelVars, watermarkLoaded, journal, closer, consumeVars,
                   cancelled, budgetVars>>

\* The append transaction reaches its verdict in the database: it commits,
\* though the answer is still on its way, or the publication is refused.
JournalAppend(p) ==
    /\ pub[p].pc = "append"
    /\ LET decision == AppendDecision(pub[p].event) IN
         /\ IF decision \in {"APPENDED", "DUPLICATE"}
              THEN Goto(p, "committed") /\ UNCHANGED publishLock
              ELSE Leave(p)
         /\ journal' = IF decision = "APPENDED"
                         THEN Append(journal, pub[p].event) ELSE journal
    /\ UNCHANGED <<channelVars, sequence, watermarkLoaded, closer, consumeVars,
                   cancelled, budgetVars>>

\* The answer of the append is seen: only now the sequence is consumed.
AppendReturns(p) ==
    /\ pub[p].pc = "committed"
    /\ sequence' = pub[p].event.seq
    /\ Goto(p, "put")
    /\ UNCHANGED <<channelVars, publishLock, watermarkLoaded, journal, closer,
                   consumeVars, cancelled, budgetVars>>

\* Cancellation wins the race against an OUTPUT_DELTA's append: the append
\* task is cancelled and its outcome swallowed, committed or not.
InterruptAppend(p) ==
    /\ pub[p].pc \in {"append", "committed"}
    /\ pub[p].event.kind = "delta"
    /\ cancelled
    /\ Leave(p)
    /\ UNCHANGED <<channelVars, sequence, watermarkLoaded, journal, closer,
                   consumeVars, cancelled, budgetVars>>

\* The queue is full: clear the flag and wait for space.
AwaitSpace(p) ==
    /\ pub[p].pc = "put"
    /\ Full
    /\ spaceAvailable' = FALSE
    /\ Goto(p, "space")
    /\ UNCHANGED <<state, queue, publishLock, sequence, watermarkLoaded, journal,
                   closer, consumeVars, cancelled, budgetVars>>

SpaceFreed(p) ==
    /\ pub[p].pc = "space"
    /\ spaceAvailable
    /\ state # "ABORTED"
    /\ ~(cancelled /\ pub[p].event.kind \in Honours)
    /\ Goto(p, "put")
    /\ UNCHANGED <<channelVars, publishLock, sequence, watermarkLoaded, journal,
                   closer, consumeVars, cancelled, budgetVars>>

Enqueue(p) ==
    /\ ~Full
    /\ queue' = Append(queue, pub[p].event)
    /\ spaceAvailable' = (spaceAvailable /\ Len(queue') < Capacity)
    /\ Leave(p)
    /\ UNCHANGED <<state, sequence, watermarkLoaded, journal, closer,
                   consumeVars, cancelled, budgetVars>>

\* MUTANT: the abort is not looked at.
PutAfterAbort(p) ==
    /\ pub[p].pc = "put"
    /\ ~(cancelled /\ pub[p].event.kind \in Honours)
    /\ Enqueue(p)

\* MUTANT: put_nowait outside execute_if_active.
PutThoughCancelled(p) == pub[p].pc = "put" /\ state # "ABORTED" /\ Enqueue(p)

\* MUTANT: the event is enqueued while its append is still in flight.
PutBeforeCommit(p) ==
    /\ pub[p].pc \in {"append", "put"}
    /\ state # "ABORTED"
    /\ ~(cancelled /\ pub[p].event.kind \in Honours)
    /\ Enqueue(p)

PutEvent(p) ==
    /\ pub[p].pc = "put"
    /\ state # "ABORTED"
    /\ ~(cancelled /\ pub[p].event.kind \in Honours)
    /\ Enqueue(p)

\* The journalled event is not enqueued: the channel was aborted, or the run
\* was cancelled and the publisher honours that.
PutRefused(p) ==
    /\ pub[p].pc = "space" \/ (pub[p].pc = "put" /\ ~Full)
    /\ state = "ABORTED" \/ (cancelled /\ pub[p].event.kind \in Honours)
    /\ Leave(p)
    /\ UNCHANGED <<channelVars, sequence, watermarkLoaded, journal, closer,
                   consumeVars, cancelled, budgetVars>>

\* An await of publish raises: the database fails (the commit may have gone
\* through), the client feed fails, a fault is injected or the task is
\* cancelled.
PublicationFails(p) ==
    /\ pub[p].pc # "idle"
    /\ faults < MaxFaults
    /\ faults' = faults + 1
    /\ Leave(p)
    /\ UNCHANGED <<channelVars, sequence, watermarkLoaded, journal, closer,
                   consumeVars, cancelled, drafts, captures>>

\* capture_journal_watermark.  It keeps publish_lock throughout, so nothing
\* that reads or writes the sequence runs between its two reads.  The first
\* of them may fail, and then the watermark counts as loaded all the same.
CaptureWatermark ==
    /\ publishLock = "none"
    /\ captures < MaxCaptures
    /\ captures' = captures + 1
    /\ watermarkLoaded' = TRUE
    /\ \/ /\ sequence' = IF watermarkLoaded THEN sequence ELSE LastSequence
          /\ UNCHANGED faults
       \/ /\ faults < MaxFaults
          /\ faults' = faults + 1
          /\ UNCHANGED sequence
    /\ UNCHANGED <<channelVars, publishLock, pub, journal, closer, consumeVars,
                   cancelled, drafts>>

-----------------------------------------------------------------------------
(***************************************************************************)
(* close and abort.                                                        *)
(***************************************************************************)
Close ==
    /\ closer = "idle"
    /\ state \notin Stable
    /\ state' = "CLOSING"
    /\ closer' = "lock"
    /\ UNCHANGED <<queue, spaceAvailable, publishVars, consumeVars, cancelled,
                   budgetVars>>

\* MUTANT: the sentinel does not wait for the publisher that holds the lock.
CloseWithoutLock ==
    /\ closer = "lock"
    /\ closer' = IF state = "ABORTED" THEN "idle" ELSE "end"
    /\ UNCHANGED <<channelVars, publishVars, consumeVars, cancelled, budgetVars>>

CloseAcquires ==
    /\ closer = "lock"
    /\ publishLock = "none"
    /\ IF state = "ABORTED"
         THEN closer' = "idle" /\ UNCHANGED publishLock
         ELSE closer' = "end" /\ publishLock' = "closer"
    /\ UNCHANGED <<channelVars, sequence, watermarkLoaded, pub, journal,
                   consumeVars, cancelled, budgetVars>>

\* MUTANT: the sentinel is put into a full queue.
CloseOverfills ==
    /\ closer = "end"
    /\ queue' = Append(queue, End)
    /\ closer' = "seal"
    /\ UNCHANGED <<state, spaceAvailable, publishVars, consumeVars, cancelled,
                   budgetVars>>

\* The put of the sentinel succeeds; close has not resumed yet.
CloseEnqueues ==
    /\ closer = "end"
    /\ ~Full
    /\ queue' = Append(queue, End)
    /\ closer' = "seal"
    /\ UNCHANGED <<state, spaceAvailable, publishVars, consumeVars, cancelled,
                   budgetVars>>

\* MUTANT: close overwrites an abort that came first.
CloseOverwrites ==
    /\ closer = "seal" \/ (closer = "end" /\ state = "ABORTED")
    /\ state' = "CLOSED"
    /\ closer' = "idle"
    /\ publishLock' = "none"
    /\ UNCHANGED <<queue, spaceAvailable, sequence, watermarkLoaded, pub, journal,
                   consumeVars, cancelled, budgetVars>>

\* close resumes, after its put or because of an abort.
CloseReturns ==
    /\ closer = "seal" \/ (closer = "end" /\ state = "ABORTED")
    /\ state' = IF state = "ABORTED" THEN state ELSE "CLOSED"
    /\ closer' = "idle"
    /\ publishLock' = "none"
    /\ UNCHANGED <<queue, spaceAvailable, sequence, watermarkLoaded, pub, journal,
                   consumeVars, cancelled, budgetVars>>

Abort ==
    /\ state \notin Stable
    /\ state' = "ABORTED"
    /\ queue' = <<End>>
    /\ spaceAvailable' = TRUE
    /\ consumerOwner' = "ABORTED"
    /\ UNCHANGED <<publishVars, closer, drainHandoffPending, transportCompleted,
                   drainCompleted, consumer, delivered, cancelled, budgetVars>>

Cancel ==
    /\ ~cancelled
    /\ cancelled' = TRUE
    /\ UNCHANGED <<channelVars, publishVars, closer, consumeVars, budgetVars>>

-----------------------------------------------------------------------------
(***************************************************************************)
(* The consumer lease.                                                     *)
(***************************************************************************)

\* MUTANT: a transport may attach while a drain is being handed the lease.
ClaimTransportDuringHandoff(c) ==
    /\ consumer[c] = "idle"
    /\ state # "ABORTED"
    /\ consumerOwner = "RELEASED"
    /\ ~transportCompleted /\ ~drainCompleted
    /\ consumerOwner' = "TRANSPORT"
    /\ consumer' = [consumer EXCEPT ![c] = "transport"]
    /\ UNCHANGED <<channelVars, publishVars, closer, drainHandoffPending,
                   transportCompleted, drainCompleted, delivered, cancelled,
                   budgetVars>>

ClaimTransport(c) ==
    /\ consumer[c] = "idle"
    /\ state # "ABORTED"
    /\ ~drainHandoffPending
    /\ consumerOwner = "RELEASED"
    /\ ~transportCompleted /\ ~drainCompleted
    /\ consumerOwner' = "TRANSPORT"
    /\ consumer' = [consumer EXCEPT ![c] = "transport"]
    /\ UNCHANGED <<channelVars, publishVars, closer, drainHandoffPending,
                   transportCompleted, drainCompleted, delivered, cancelled,
                   budgetVars>>

\* The lease goes back unless an abort has taken it, and the task is done.
GiveBack(c, owner) ==
    /\ consumer' = [consumer EXCEPT ![c] = "idle"]
    /\ consumerOwner' = IF consumerOwner = owner THEN "RELEASED"
                                                 ELSE consumerOwner

\* MUTANT: the space is not announced.
TakeQuietly ==
    /\ queue # <<>>
    /\ queue' = Tail(queue)
    /\ UNCHANGED <<state, spaceAvailable>>

\* One item is taken off the queue and the space it leaves is announced.
Take ==
    /\ queue # <<>>
    /\ queue' = Tail(queue)
    /\ spaceAvailable' = TRUE
    /\ UNCHANGED state

AtEnd == Head(queue) = End \/ state = "ABORTED"

\* __anext__: the item is handed to the transport, or ends its lease.
Receive(c) ==
    /\ consumer[c] = "transport"
    /\ Take
    /\ IF AtEnd
         THEN /\ GiveBack(c, "TRANSPORT")
              /\ transportCompleted' = (transportCompleted \/ state # "ABORTED")
              /\ UNCHANGED delivered
         ELSE /\ delivered' = Append(delivered, Head(queue))
              /\ UNCHANGED <<consumer, consumerOwner, transportCompleted>>
    /\ UNCHANGED <<publishVars, closer, drainHandoffPending, drainCompleted,
                   cancelled, budgetVars>>

\* aclose, or an exception while waiting for an item.
ReleaseTransport(c) ==
    /\ consumer[c] = "transport"
    /\ GiveBack(c, "TRANSPORT")
    /\ UNCHANGED <<channelVars, publishVars, closer, drainHandoffPending,
                   transportCompleted, drainCompleted, delivered, cancelled,
                   budgetVars>>

\* drain_to_discard reserves the handoff while the owner still reads RELEASED.
ReserveDrain(c) ==
    /\ consumer[c] = "idle"
    /\ state # "ABORTED"
    /\ ~drainCompleted /\ ~transportCompleted
    /\ consumerOwner = "RELEASED"
    /\ ~drainHandoffPending
    /\ drainHandoffPending' = TRUE
    /\ consumer' = [consumer EXCEPT ![c] = "handoff"]
    /\ UNCHANGED <<channelVars, publishVars, closer, consumerOwner,
                   transportCompleted, drainCompleted, delivered, cancelled,
                   budgetVars>>

\* The handoff completes, or finds an abort, or is interrupted.
HandOff(c) ==
    /\ consumer[c] = "handoff"
    /\ drainHandoffPending' = FALSE
    /\ IF state # "ABORTED" /\ consumerOwner = "RELEASED"
         THEN /\ consumerOwner' = "DRAIN"
              /\ consumer' = [consumer EXCEPT ![c] = "drain"]
         ELSE /\ consumerOwner' = IF state = "ABORTED" THEN "ABORTED"
                                                       ELSE consumerOwner
              /\ consumer' = [consumer EXCEPT ![c] = "idle"]
    /\ UNCHANGED <<channelVars, publishVars, closer, transportCompleted,
                   drainCompleted, delivered, cancelled, budgetVars>>

HandOffFails(c) ==
    /\ consumer[c] = "handoff"
    /\ drainHandoffPending' = FALSE
    /\ consumer' = [consumer EXCEPT ![c] = "idle"]
    /\ UNCHANGED <<channelVars, publishVars, closer, consumerOwner,
                   transportCompleted, drainCompleted, delivered, cancelled,
                   budgetVars>>

DrainReceive(c) ==
    /\ consumer[c] = "drain"
    /\ Take
    /\ IF AtEnd
         THEN GiveBack(c, "DRAIN") /\ drainCompleted' = TRUE
         ELSE UNCHANGED <<consumer, consumerOwner, drainCompleted>>
    /\ UNCHANGED <<publishVars, closer, drainHandoffPending,
                   transportCompleted, delivered, cancelled, budgetVars>>

\* The drain's timeout, or its task's cancellation.
DrainGivesUp(c) ==
    /\ consumer[c] = "drain"
    /\ GiveBack(c, "DRAIN")
    /\ UNCHANGED <<channelVars, publishVars, closer, drainHandoffPending,
                   transportCompleted, drainCompleted, delivered, cancelled,
                   budgetVars>>

-----------------------------------------------------------------------------
PublisherStep(p) ==
    \/ AcquirePublish(p) \/ LoadWatermark(p) \/ JournalAppend(p)
    \/ AppendReturns(p) \/ InterruptAppend(p) \/ AwaitSpace(p)
    \/ SpaceFreed(p) \/ PutEvent(p) \/ PutRefused(p)

CloserStep == CloseAcquires \/ CloseEnqueues \/ CloseReturns

ConsumerStep(c) ==
    \/ ClaimTransport(c) \/ Receive(c) \/ ReleaseTransport(c)
    \/ ReserveDrain(c) \/ HandOff(c) \/ HandOffFails(c)
    \/ DrainReceive(c) \/ DrainGivesUp(c)

Next ==
    \/ \E p \in Publishers : \/ \E kind \in Kinds : Publish(p, kind)
                             \/ PublisherStep(p)
                             \/ PublicationFails(p)
    \/ CaptureWatermark
    \/ Close \/ CloserStep \/ Abort \/ Cancel
    \/ \E c \in Consumers : ConsumerStep(c)

Spec == Init /\ [][Next]_vars

-----------------------------------------------------------------------------
(***************************************************************************)
(* Properties.                                                             *)
(***************************************************************************)
PublisherPc == {"idle", "lock", "load", "append", "committed", "put", "space"}

QueueTypeOK ==
    /\ state \in {"OPEN", "CLOSING", "CLOSED", "ABORTED"}
    /\ queue \in Seq(Event \cup {End}) /\ Len(queue) <= Capacity
    /\ spaceAvailable \in BOOLEAN
    /\ closer \in {"idle", "lock", "end", "seal"}
    /\ delivered \in Seq(Event)

PublishTypeOK ==
    /\ publishLock \in Publishers \cup {"none", "closer"}
    /\ pub \in [Publishers -> [pc : PublisherPc, event : Event \cup {End}]]
    /\ \A p \in Publishers : pub[p].pc # "idle" => pub[p].event \in Event
    /\ sequence \in Nat /\ watermarkLoaded \in BOOLEAN
    /\ journal \in Seq(Event)

LeaseTypeOK ==
    /\ consumerOwner \in {"RELEASED", "TRANSPORT", "DRAIN", "ABORTED"}
    /\ consumer \in [Consumers -> {"idle", "transport", "handoff", "drain"}]
    /\ drainHandoffPending \in BOOLEAN
    /\ transportCompleted \in BOOLEAN /\ drainCompleted \in BOOLEAN

BudgetTypeOK ==
    /\ cancelled \in BOOLEAN
    /\ drafts \in Recovered..MaxDrafts
    /\ faults \in 0..MaxFaults /\ captures \in 0..MaxCaptures

\* Every variable has the shape the class gives it, the queue never exceeds
\* its capacity, and a call of publish under way has an event.
ChannelTypeOK == QueueTypeOK /\ PublishTypeOK /\ LeaseTypeOK /\ BudgetTypeOK

\* The journal of a run has no gap, no event twice and nothing behind its
\* terminal event, whatever publications were refused, failed or lost.
JournalIsSound ==
    /\ \A i \in DOMAIN journal : journal[i].seq = i
    /\ \A i, j \in DOMAIN journal : journal[i].id = journal[j].id => i = j
    /\ \A i \in DOMAIN journal :
          journal[i].kind = "terminal" => i = Len(journal)

InJournal(e) == e.seq \in DOMAIN journal /\ journal[e.seq] = e
Precedes(d, e) == e # End => d.seq < e.seq

\* Journal-first: what the client has seen, and then what waits for it, are
\* events of the journal in the journal's order, none of them twice.
JournalFirst ==
    /\ \A i \in DOMAIN delivered : InJournal(delivered[i])
    /\ \A i \in DOMAIN queue : queue[i] # End => InJournal(queue[i])
    /\ \A i, j \in DOMAIN delivered :
          i < j => Precedes(delivered[i], delivered[j])
    /\ \A i, j \in DOMAIN queue : i < j => Precedes(queue[i], queue[j])
    /\ \A i \in DOMAIN delivered, j \in DOMAIN queue :
          Precedes(delivered[i], queue[j])

\* No two tasks ever take items off the queue at the same time, and a channel
\* that ended normally ended for one of them only.
SingleConsumer ==
    /\ \A c, d \in Consumers :
          consumer[c] \in {"transport", "drain"}
          /\ consumer[d] \in {"transport", "drain"} => c = d
    /\ ~(transportCompleted /\ drainCompleted)

\* Nothing is queued behind the end sentinel: a publisher that raced close for
\* the lock does not slip an event in after it.
EndIsLast ==
    \A i, j \in DOMAIN queue : queue[i] = End /\ i < j => queue[j] = End

\* After abort the queue holds no event: neither a blocked publisher that the
\* abort woke nor a pending close gets one past it.
AbortedIsEmpty == state = "ABORTED" => \A i \in DOMAIN queue : queue[i] = End

\* CLOSED and ABORTED are stable; when close and abort race, the first of the
\* two to finish stays.
TerminalStateIsStable == [][(state \in Stable) => (state' = state)]_vars

\* From the moment the token is cancelled, no output or other event that
\* honours cancellation reaches the queue, even one already in the journal.
CancelledIsInvisible ==
    [][cancelled /\ Len(queue') > Len(queue)
         => queue'[Len(queue')].kind \notin Honours]_vars

(***************************************************************************)
(* What the source says of the sequence numbers, and does not keep.        *)
(***************************************************************************)

\* "Once the journal has accepted an event its sequence is consumed and is
\* never reused": no publication is started on a number the journal holds.
SequenceNotReused ==
    \A p \in Publishers : pub[p].pc = "append" =>
        \A i \in DOMAIN journal : journal[i].seq # pub[p].event.seq
=============================================================================
