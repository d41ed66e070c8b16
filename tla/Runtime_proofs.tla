--------------------------- MODULE Runtime_proofs ---------------------------
(***************************************************************************)
(* Proofs about the agent runtime, for any number of callers, plan steps,  *)
(* processes, requests, takeovers and retries: the model invocation and    *)
(* its budget, the execution of a plan, the recovery of a run and the      *)
(* shutdown of a process.                                                  *)
(***************************************************************************)
EXTENDS ModelInvocation, RunExecution, RunRecovery, ProcessShutdown, RunControl_proofs

USE DEF controlVars, storeVars, runVars, coordinatorVars

-----------------------------------------------------------------------------
(* The model invocation: one answer is shown.                              *)

CallPlaces ==
    {"idle", "choosing", "permitted", "reserved", "calling", "answered", "failed", "ended"}
CallOutcomes == {"none", "failure", "success", "indeterminate", "abandon"}
CallRow == [pc : CallPlaces, at : Nat, retry : Nat, attempt : Nat, failure : CallOutcomes]

CallsTyped == call \in [Callers -> CallRow] /\ showing \in [Callers -> SUBSET Nat]

\* Output belongs to the present attempt, and an invocation that has shown some
\* is past the point from which another attempt can be made.
ShownIsLast ==
    \A c \in Callers :
        /\ showing[c] \subseteq {call[c].attempt}
        /\ showing[c] # {} => call[c].pc \in {"calling", "answered", "failed", "ended"}

MInv == CallsTyped /\ ShownIsLast

CallIs(q, p, a) == q \in CallRow /\ q.pc = p /\ q.attempt = a

LEMMA CallField ==
  ASSUME NEW q \in CallRow
  PROVE  /\ \A p \in CallPlaces : CallIs([q EXCEPT !.pc = p], p, q.attempt)
         /\ \A n \in Nat : /\ CallIs([q EXCEPT !.at = n], q.pc, q.attempt)
                           /\ CallIs([q EXCEPT !.retry = n], q.pc, q.attempt)
                           /\ CallIs([q EXCEPT !.attempt = n], q.pc, n)
         /\ \A f \in CallOutcomes : CallIs([q EXCEPT !.failure = f], q.pc, q.attempt)
  BY DEF CallRow, CallIs

LEMMA CallUpdates ==
  ASSUME NEW q \in CallRow
  PROVE  /\ \A n \in Nat, m \in Nat : CallIs([q EXCEPT !.at = n, !.retry = m], q.pc, q.attempt)
         /\ \A p \in CallPlaces, n \in Nat : CallIs([q EXCEPT !.pc = p, !.attempt = n], p, n)
         /\ \A p \in CallPlaces, f \in CallOutcomes :
              CallIs([q EXCEPT !.pc = p, !.failure = f], p, q.attempt)
         /\ \A p \in CallPlaces, n \in Nat : CallIs([q EXCEPT !.pc = p, !.retry = n], p, q.attempt)
         /\ \A p \in CallPlaces, n \in Nat, m \in Nat :
              CallIs([q EXCEPT !.pc = p, !.at = n, !.retry = m], p, q.attempt)
<1>1. ASSUME NEW n \in Nat, NEW m \in Nat
      PROVE  CallIs([q EXCEPT !.at = n, !.retry = m], q.pc, q.attempt)
  <2> DEFINE q1 == [q EXCEPT !.at = n]
  <2>1. CallIs(q1, q.pc, q.attempt)
    BY CallField
  <2>2. [q EXCEPT !.at = n, !.retry = m] = [q1 EXCEPT !.retry = m]
    OBVIOUS
  <2> HIDE DEF q1
  <2>3. q1 \in CallRow /\ q1.pc = q.pc /\ q1.attempt = q.attempt
    BY <2>1 DEF CallIs
  <2>4. CallIs([q1 EXCEPT !.retry = m], q1.pc, q1.attempt)
    BY <2>3, CallField
  <2> QED BY <2>2, <2>3, <2>4
<1>2. ASSUME NEW p \in CallPlaces
      PROVE  /\ \A n \in Nat : CallIs([q EXCEPT !.pc = p, !.attempt = n], p, n)
             /\ \A f \in CallOutcomes : CallIs([q EXCEPT !.pc = p, !.failure = f], p, q.attempt)
             /\ \A n \in Nat : CallIs([q EXCEPT !.pc = p, !.retry = n], p, q.attempt)
             /\ \A n \in Nat, m \in Nat :
                  CallIs([q EXCEPT !.pc = p, !.at = n, !.retry = m], p, q.attempt)
  <2> DEFINE q1 == [q EXCEPT !.pc = p]
  <2>1. CallIs(q1, p, q.attempt)
    BY CallField
  <2>2. /\ \A n : [q EXCEPT !.pc = p, !.attempt = n] = [q1 EXCEPT !.attempt = n]
        /\ \A f : [q EXCEPT !.pc = p, !.failure = f] = [q1 EXCEPT !.failure = f]
        /\ \A n : [q EXCEPT !.pc = p, !.retry = n] = [q1 EXCEPT !.retry = n]
        /\ \A n, m : [q EXCEPT !.pc = p, !.at = n, !.retry = m] = [q1 EXCEPT !.at = n, !.retry = m]
    OBVIOUS
  <2> HIDE DEF q1
  <2>3. q1 \in CallRow /\ q1.pc = p /\ q1.attempt = q.attempt
    BY <2>1 DEF CallIs
  <2>4. ASSUME NEW n \in Nat, NEW m \in Nat
        PROVE  CallIs([q1 EXCEPT !.at = n, !.retry = m], q1.pc, q1.attempt)
    <3> DEFINE q2 == [q1 EXCEPT !.at = n]
    <3>1. CallIs(q2, q1.pc, q1.attempt)
      BY <2>3, CallField
    <3>2. [q1 EXCEPT !.at = n, !.retry = m] = [q2 EXCEPT !.retry = m]
      OBVIOUS
    <3> HIDE DEF q2
    <3>3. q2 \in CallRow /\ q2.pc = q1.pc /\ q2.attempt = q1.attempt
      BY <3>1 DEF CallIs
    <3>4. CallIs([q2 EXCEPT !.retry = m], q2.pc, q2.attempt)
      BY <3>3, CallField
    <3> QED BY <3>2, <3>3, <3>4
  <2>5. /\ \A n \in Nat : CallIs([q1 EXCEPT !.attempt = n], q1.pc, n)
        /\ \A f \in CallOutcomes : CallIs([q1 EXCEPT !.failure = f], q1.pc, q1.attempt)
        /\ \A n \in Nat : CallIs([q1 EXCEPT !.retry = n], q1.pc, q1.attempt)
    BY <2>3, CallField
  <2> QED BY <2>2, <2>3, <2>4, <2>5
<1> QED BY <1>1, <1>2

\* The caller moves and keeps its attempt; it may not go back once output was shown.
Moves(c, P) ==
    \E q : /\ call' = [call EXCEPT ![c] = q]
           /\ q \in CallRow /\ q.pc \in P /\ q.attempt = call[c].attempt

LEMMA MovesKeep ==
  ASSUME MInv, NEW c \in Callers, NEW P, Moves(c, P), UNCHANGED showing,
         showing[c] # {} => P \subseteq {"calling", "answered", "failed", "ended"}
  PROVE  MInv'
  BY DEF MInv, CallsTyped, ShownIsLast, Moves

LEMMA GoToMoves ==
  ASSUME CallsTyped, NEW c \in Callers, NEW p \in CallPlaces, GoTo(c, p)
  PROVE  Moves(c, {p})
<1>1. call[c] \in CallRow
  BY DEF CallsTyped
<1>2. CallIs([call[c] EXCEPT !.pc = p], p, call[c].attempt)
  BY <1>1, CallField
<1>3. call' = [call EXCEPT ![c] = [call[c] EXCEPT !.pc = p]]
  BY DEF GoTo, CallsTyped
<1> QED BY <1>2, <1>3 DEF Moves, CallIs

LEMMA LeaveMoves ==
  ASSUME CallsTyped, NEW c \in Callers, Leave(c)
  PROVE  Moves(c, {"ended"})
  BY GoToMoves DEF Leave, CallPlaces

LEMMA SkipMoves ==
  ASSUME CallsTyped, NEW c \in Callers,
         call' = [call EXCEPT ![c].at = @ + 1, ![c].retry = 0]
  PROVE  Moves(c, {call[c].pc})
<1>1. call[c] \in CallRow /\ call[c].at + 1 \in Nat /\ 0 \in Nat
  BY DEF CallsTyped, CallRow
<1>2. CallIs([call[c] EXCEPT !.at = call[c].at + 1, !.retry = 0], call[c].pc, call[c].attempt)
  BY <1>1, CallUpdates
<1>3. call' = [call EXCEPT ![c] = [call[c] EXCEPT !.at = call[c].at + 1, !.retry = 0]]
  BY DEF CallsTyped
<1> QED BY <1>2, <1>3 DEF Moves, CallIs

LEMMA NextCandidateMoves ==
  ASSUME CallsTyped, NEW c \in Callers, NextCandidate(c)
  PROVE  \/ Moves(c, {"choosing"}) /\ showing[c] = {}
         \/ Moves(c, {"ended"})
<1>0. /\ call[c] \in CallRow /\ call[c].at + 1 \in Nat /\ call[c].retry + 1 \in Nat /\ 0 \in Nat
      /\ "choosing" \in CallPlaces
  BY DEF CallsTyped, CallRow, CallPlaces
<1>1. CASE MayRetry(c) /\ call' = [call EXCEPT ![c].pc = "choosing", ![c].retry = @ + 1]
  <2>1. call' = [call EXCEPT ![c] = [call[c] EXCEPT !.pc = "choosing", !.retry = call[c].retry + 1]]
    BY <1>1 DEF CallsTyped
  <2>2. CallIs([call[c] EXCEPT !.pc = "choosing", !.retry = call[c].retry + 1], "choosing",
               call[c].attempt)
    BY <1>0, CallUpdates
  <2> QED BY <1>1, <2>1, <2>2 DEF Moves, CallIs, MayRetry, OutputStarted
<1>2. CASE /\ MayFallBack(c)
           /\ call' = [call EXCEPT ![c].pc = "choosing", ![c].at = @ + 1, ![c].retry = 0]
  <2>1. call' = [call EXCEPT ![c] = [call[c] EXCEPT !.pc = "choosing", !.at = call[c].at + 1,
                                                    !.retry = 0]]
    BY <1>2 DEF CallsTyped
  <2>2. CallIs([call[c] EXCEPT !.pc = "choosing", !.at = call[c].at + 1, !.retry = 0], "choosing",
               call[c].attempt)
    BY <1>0, CallUpdates
  <2> QED BY <1>2, <2>1, <2>2 DEF Moves, CallIs, MayFallBack, OutputStarted
<1>3. CASE Leave(c)
  BY <1>3, LeaveMoves
<1> QED BY <1>1, <1>2, <1>3 DEF NextCandidate

LEMMA CallerKeeps ==
  ASSUME MInv, NEW c \in Callers, CallerStep(c)
  PROVE  MInv'
<1>0. CallsTyped /\ call[c] \in CallRow
  BY DEF MInv, CallsTyped
<1>1. CASE InvokeModel(c)
  <2>1. Moves(c, {"choosing"}) /\ showing[c] = {} /\ UNCHANGED showing
    BY <1>0, <1>1, GoToMoves DEF InvokeModel, MInv, ShownIsLast, CallPlaces
  <2> QED BY <2>1, MovesKeep
<1>2. CASE ChooseCandidate(c)
  <2>1. showing[c] = {} /\ UNCHANGED showing
    BY <1>2 DEF ChooseCandidate, MInv, ShownIsLast
  <2>2. \E P : Moves(c, P)
    BY <1>0, <1>2, GoToMoves, LeaveMoves, SkipMoves DEF ChooseCandidate, CallPlaces
  <2> QED BY <2>1, <2>2, MovesKeep
<1>3. CASE ReserveForAttempt(c)
  <2>1. showing[c] = {} /\ UNCHANGED showing
    BY <1>3 DEF ReserveForAttempt, MInv, ShownIsLast
  <2>2. \E P : Moves(c, P)
    BY <1>0, <1>3, GoToMoves, LeaveMoves DEF ReserveForAttempt, LeaveWithPermit, CallPlaces
  <2> QED BY <2>1, <2>2, MovesKeep
<1>4. CASE StartAttempt(c)
  <2>1. showing[c] = {} /\ UNCHANGED showing
    BY <1>4 DEF StartAttempt, MInv, ShownIsLast
  <2>2. CASE call' = [call EXCEPT ![c].pc = "calling", ![c].attempt = @ + 1]
    <3>1. call' = [call EXCEPT ![c] =
                     [call[c] EXCEPT !.pc = "calling", !.attempt = call[c].attempt + 1]]
      BY <2>2 DEF MInv, CallsTyped
    <3>2. "calling" \in CallPlaces /\ call[c].attempt + 1 \in Nat
      BY <1>0 DEF CallRow, CallPlaces
    <3>3. [call[c] EXCEPT !.pc = "calling", !.attempt = call[c].attempt + 1] \in CallRow
      BY <1>0, <3>2, CallUpdates DEF CallIs
    <3> QED BY <2>1, <3>1, <3>3 DEF MInv, CallsTyped, ShownIsLast
  <2>3. CASE Leave(c)
    BY <1>0, <2>1, <2>3, LeaveMoves, MovesKeep
  <2> QED BY <1>4, <2>2, <2>3 DEF StartAttempt
<1>5. CASE StartRefused(c) \/ CallAborted(c) \/ HandleAnswer(c)
  <2>1. Leave(c) /\ UNCHANGED showing
    BY <1>5 DEF StartRefused, CallAborted, HandleAnswer, LeaveWithPermit
  <2> QED BY <1>0, <2>1, LeaveMoves, MovesKeep
<1>6. CASE Delta(c)
  BY <1>0, <1>6 DEF Delta, MInv, CallsTyped, ShownIsLast, CallRow
<1>7. CASE ProviderAnswers(c)
  <2>1. Moves(c, {"answered"}) /\ UNCHANGED showing
    BY <1>0, <1>7, GoToMoves DEF ProviderAnswers, CallPlaces
  <2> QED BY <2>1, MovesKeep
<1>8. CASE ProviderFails(c)
  <2>1. PICK f \in Outcomes(c) : call' = [call EXCEPT ![c].pc = "failed", ![c].failure = f]
    BY <1>8 DEF ProviderFails
  <2>2. f \in CallOutcomes /\ "failed" \in CallPlaces
    BY DEF Outcomes, CallOutcomes, CallPlaces
  <2>3. CallIs([call[c] EXCEPT !.pc = "failed", !.failure = f], "failed", call[c].attempt)
    BY <1>0, <2>2, CallUpdates
  <2>4. call' = [call EXCEPT ![c] = [call[c] EXCEPT !.pc = "failed", !.failure = f]]
    BY <2>1 DEF MInv, CallsTyped
  <2>5. Moves(c, {"failed"}) /\ UNCHANGED showing
    BY <1>8, <2>3, <2>4 DEF ProviderFails, Moves, CallIs
  <2> QED BY <2>5, MovesKeep
<1>9. CASE HandleFailure(c)
  <2>1. (Leave(c) \/ NextCandidate(c)) /\ UNCHANGED showing
    BY <1>9 DEF HandleFailure, LeaveWithPermit
  <2> QED BY <1>0, <2>1, LeaveMoves, NextCandidateMoves, MovesKeep
<1> QED BY <1>1, <1>2, <1>3, <1>4, <1>5, <1>6, <1>7, <1>8, <1>9 DEF CallerStep

LEMMA ModelInitInv == ModelInit => MInv
<1> SUFFICES ASSUME ModelInit PROVE MInv
  OBVIOUS
<1>1. [pc |-> "idle", at |-> 1, retry |-> 0, attempt |-> 0, failure |-> "none"] \in CallRow
  BY DEF CallRow, CallPlaces, CallOutcomes
<1> QED BY <1>1 DEF ModelInit, MInv, CallsTyped, ShownIsLast

LEMMA ModelInductive == MInv /\ [ModelNext]_modelVars => MInv'
<1> SUFFICES ASSUME MInv, [ModelNext]_modelVars PROVE MInv'
  OBVIOUS
<1>1. CASE \E c \in Callers : CallerStep(c)
  BY <1>1, CallerKeeps
<1>2. CASE UNCHANGED <<call, showing>>
  BY <1>2 DEF MInv, CallsTyped, ShownIsLast
<1> QED BY <1>1, <1>2 DEF ModelNext, modelVars, RunStops, LeaseLost, invocationVars

\* The client never sees output of two attempts of an invocation, whatever
\* candidates, retries and parallel callers there are (accept_delta, decide).
THEOREM OneAnswer == ModelSpec => []OneAnswerShown
<1>1. MInv => OneAnswerShown
  <2> SUFFICES ASSUME MInv, NEW c \in Callers PROVE Cardinality(showing[c]) <= 1
    BY DEF OneAnswerShown
  <2>1. \A a, b \in showing[c] : a = b
    BY DEF MInv, ShownIsLast
  <2> QED BY <2>1, SetOfAtMostOne
<1> QED BY <1>1, ModelInitInv, ModelInductive, PTL DEF ModelSpec

-----------------------------------------------------------------------------
(* The budget.                                                             *)

BudgetTyped ==
    /\ committed \in Nat /\ envelope \in Nat /\ overdrawn \in Nat
    /\ reserved \in [Spenders -> {0, Estimate}]

Holders == {s \in Spenders : reserved[s] # 0}

BInv == BudgetTyped /\ BudgetHolds

LEMMA BudgetConstants ==
  /\ Limit \in Nat /\ Envelope \in Nat /\ Estimate \in Nat /\ Estimate > 0
  /\ IsFiniteSet(Spenders) /\ Delegated \subseteq Spenders
  /\ Spenders = Callers /\ \A u \in Usages : u \in Nat
  BY BudgetAssumption, InvocationAssumption DEF BudgetAssumption, InvocationAssumption

LEMMA HoldersAreFinite ==
  ASSUME BudgetTyped
  PROVE  /\ IsFiniteSet(Holders) /\ Cardinality(Holders) \in Nat
         /\ Held = envelope + Estimate * Cardinality(Holders) /\ Held \in Nat
<1>1. IsFiniteSet(Holders)
  BY BudgetConstants, FS_Subset DEF Holders
<1>2. Cardinality(Holders) \in Nat
  BY <1>1, FS_CardinalityType
<1> QED BY <1>1, <1>2, BudgetConstants DEF BudgetTyped, Held, Holders

\* What becomes of the sum when one reservation is made or ended.
LEMMA OneMoreHolder ==
  ASSUME BudgetTyped, NEW s \in Spenders, reserved' = [reserved EXCEPT ![s] = Estimate],
         envelope' \in Nat
  PROVE  /\ reserved' \in [Spenders -> {0, Estimate}]
         /\ Held' = Held + envelope' - envelope + Estimate - reserved[s]
<1>1. reserved[s] \in {0, Estimate} /\ Estimate \in Nat /\ Estimate > 0
  BY BudgetConstants DEF BudgetTyped
<1>2. Holders' = Holders \cup {s} /\ (s \in Holders <=> reserved[s] = Estimate)
  BY <1>1 DEF BudgetTyped, Holders
<1>3. Cardinality(Holders')
        = IF reserved[s] = Estimate THEN Cardinality(Holders) ELSE Cardinality(Holders) + 1
  BY <1>2, HoldersAreFinite, FS_AddElement
<1>4. Held' = envelope' + Estimate * Cardinality(Holders')
  BY DEF Held, Holders
<1>5. Estimate * (Cardinality(Holders) + 1) = Estimate * Cardinality(Holders) + Estimate
  BY <1>1, HoldersAreFinite
<1>6. Held \in Nat /\ Held = envelope + Estimate * Cardinality(Holders) /\ envelope \in Nat
  BY HoldersAreFinite DEF BudgetTyped
<1>7. Estimate * Cardinality(Holders) \in Nat
  BY <1>1, HoldersAreFinite
<1> QED BY <1>1, <1>3, <1>4, <1>5, <1>6, <1>7 DEF BudgetTyped

LEMMA OneHolderLess ==
  ASSUME BudgetTyped, NEW s \in Spenders, reserved' = [reserved EXCEPT ![s] = 0],
         envelope' \in Nat
  PROVE  /\ reserved' \in [Spenders -> {0, Estimate}]
         /\ Held' = Held + envelope' - envelope - reserved[s]
         /\ Held - reserved[s] - envelope >= 0
<1>1. reserved[s] \in {0, Estimate} /\ Estimate \in Nat /\ Estimate > 0
  BY BudgetConstants DEF BudgetTyped
<1>2. Holders' = Holders \ {s} /\ (s \in Holders <=> reserved[s] = Estimate)
  BY <1>1 DEF BudgetTyped, Holders
<1>3. Cardinality(Holders')
        = IF reserved[s] = Estimate THEN Cardinality(Holders) - 1 ELSE Cardinality(Holders)
  BY <1>2, HoldersAreFinite, FS_RemoveElement
<1>4. Held' = envelope' + Estimate * Cardinality(Holders')
  BY DEF Held, Holders
<1>5. Estimate * (Cardinality(Holders) - 1) = Estimate * Cardinality(Holders) - Estimate
  BY <1>1, HoldersAreFinite
<1>6. Held \in Nat /\ Held = envelope + Estimate * Cardinality(Holders) /\ envelope \in Nat
  BY HoldersAreFinite DEF BudgetTyped
<1>7. Estimate * Cardinality(Holders) \in Nat
  BY <1>1, HoldersAreFinite
<1>8. Estimate * Cardinality(Holders) >= reserved[s]
  <2>1. CASE reserved[s] = 0
    BY <1>7, <2>1
  <2>2. CASE s \in Holders
    <3>1. Cardinality(Holders) # 0
      BY <2>2, HoldersAreFinite, FS_EmptySet
    <3>2. Cardinality(Holders) - 1 \in Nat
      BY <3>1, HoldersAreFinite
    <3>3. Estimate * (Cardinality(Holders) - 1) >= 0
      BY <1>1, <3>2
    <3> QED BY <1>1, <1>2, <1>5, <1>7, <2>2, <3>3
  <2> QED BY <1>1, <1>2, <2>1, <2>2
<1> QED BY <1>1, <1>3, <1>4, <1>5, <1>6, <1>7, <1>8 DEF BudgetTyped

LEMMA LedgerInv ==
  ASSUME BInv, NEW s \in Spenders,
         \/ ReserveBudget(s) \/ ReleaseBudget(s)
         \/ \E amount \in Nat : CommitBudget(s, amount)
  PROVE  BInv'
<1>0. /\ committed \in Nat /\ envelope \in Nat /\ overdrawn \in Nat /\ Held \in Nat
      /\ reserved[s] \in {0, Estimate} /\ Estimate \in Nat /\ Limit \in Nat
      /\ BudgetTyped /\ committed + Held <= Limit + overdrawn
  BY BudgetConstants, HoldersAreFinite DEF BInv, BudgetTyped, BudgetHolds
<1>1. CASE ReserveBudget(s)
  <2>1. envelope' \in Nat
    BY <1>0, <1>1 DEF ReserveBudget, CanReserve
  <2>2. /\ reserved' \in [Spenders -> {0, Estimate}]
        /\ Held' = Held + envelope' - envelope + Estimate - reserved[s]
    BY <1>0, <1>1, <2>1, OneMoreHolder DEF ReserveBudget
  <2>3. committed' + Held' <= Limit + overdrawn'
    BY <1>0, <1>1, <2>2 DEF ReserveBudget, CanReserve
  <2> QED BY <1>0, <1>1, <2>1, <2>2, <2>3 DEF ReserveBudget, BInv, BudgetTyped, BudgetHolds
<1>2. CASE ReleaseBudget(s)
  <2>1. envelope' \in Nat
    BY <1>0, <1>2 DEF ReleaseBudget
  <2>2. /\ reserved' \in [Spenders -> {0, Estimate}]
        /\ Held' = Held + envelope' - envelope - reserved[s]
    BY <1>0, <1>2, <2>1, OneHolderLess DEF ReleaseBudget
  <2>3. committed' + Held' <= Limit + overdrawn'
    BY <1>0, <1>2, <2>2 DEF ReleaseBudget
  <2> QED BY <1>0, <1>2, <2>1, <2>2, <2>3 DEF ReleaseBudget, BInv, BudgetTyped, BudgetHolds
<1>3. ASSUME NEW amount \in Nat, CommitBudget(s, amount) PROVE BInv'
  <2>1. envelope' \in Nat /\ committed' \in Nat /\ overdrawn' \in Nat
    BY <1>0, <1>3 DEF CommitBudget, Overdraws
  <2>2. /\ reserved' \in [Spenders -> {0, Estimate}]
        /\ Held' = Held + envelope' - envelope - reserved[s]
    BY <1>0, <1>3, <2>1, OneHolderLess DEF CommitBudget
  <2>3. committed' + Held' <= Limit + overdrawn'
    BY <1>0, <1>3, <2>1, <2>2 DEF CommitBudget, CanCommit, Overdraws
  <2> QED BY <2>1, <2>2, <2>3 DEF BInv, BudgetTyped, BudgetHolds
<1> QED BY <1>1, <1>2, <1>3

LEMMA DelegationInv ==
  ASSUME BInv, AllocateDelegation \/ ReleaseDelegation
  PROVE  BInv'
<1>0. /\ committed \in Nat /\ envelope \in Nat /\ overdrawn \in Nat /\ Held \in Nat
      /\ Limit \in Nat /\ Envelope \in Nat
      /\ BudgetTyped /\ committed + Held <= Limit + overdrawn
  BY BudgetConstants, HoldersAreFinite DEF BInv, BudgetTyped, BudgetHolds
<1>1. BudgetTyped' /\ UNCHANGED <<committed, reserved, overdrawn>>
  BY <1>0 DEF AllocateDelegation, ReleaseDelegation, BudgetTyped
<1>2. Held' = Held + envelope' - envelope
  <2>1. /\ Held = envelope + Estimate * Cardinality(Holders)
        /\ Held' = envelope' + Estimate * Cardinality(Holders)
    BY <1>1 DEF Held, Holders
  <2>2. Estimate * Cardinality(Holders) \in Nat
    BY <1>0, HoldersAreFinite, BudgetConstants
  <2> QED BY <1>0, <1>1, <2>1, <2>2 DEF BudgetTyped
<1>3. committed' + Held' <= Limit + overdrawn'
  BY <1>0, <1>1, <1>2 DEF AllocateDelegation, ReleaseDelegation
<1> QED BY <1>1, <1>3 DEF BInv, BudgetHolds

LEMMA CallerSpends ==
  ASSUME BudgetTyped, NEW c \in Callers, CallerStep(c)
  PROVE  \/ UNCHANGED budgetVars
         \/ ReserveBudget(c) \/ ReleaseBudget(c)
         \/ \E amount \in Nat : CommitBudget(c, amount)
<1>1. reserved[c] \in Nat /\ \A u \in Usages : u \in Nat
  BY BudgetConstants DEF BudgetTyped
<1>2. CASE StartRefused(c) \/ HandleFailure(c)
  BY <1>1, <1>2 DEF StartRefused, HandleFailure
<1>3. CASE HandleAnswer(c)
  BY <1>1, <1>3 DEF HandleAnswer
<1>4. CASE \/ InvokeModel(c) \/ ChooseCandidate(c) \/ ReserveForAttempt(c) \/ StartAttempt(c)
           \/ Delta(c) \/ ProviderAnswers(c) \/ ProviderFails(c) \/ CallAborted(c)
  BY <1>4 DEF InvokeModel, ChooseCandidate, ReserveForAttempt, StartAttempt, Delta, ProviderAnswers,
              ProviderFails, CallAborted
<1> QED BY <1>2, <1>3, <1>4 DEF CallerStep

\* A run never spends or promises more than its budget, except for what a
\* delegated call has already used (BudgetLedger.reserve, commit).
THEOREM BudgetIsKept == ModelSpec => []BudgetHolds
<1>1. ModelInit => BInv
  <2> SUFFICES ASSUME ModelInit PROVE BInv
    OBVIOUS
  <2>1. BudgetTyped
    BY DEF ModelInit, BudgetInit, BudgetTyped
  <2>2. Holders = {}
    BY DEF ModelInit, BudgetInit, Holders
  <2>3. Held = 0
    BY <2>1, <2>2, HoldersAreFinite, FS_EmptySet, BudgetConstants DEF ModelInit, BudgetInit
  <2> QED BY <2>1, <2>3, BudgetConstants DEF ModelInit, BudgetInit, BInv, BudgetHolds
<1>2. BInv /\ [ModelNext]_modelVars => BInv'
  <2> SUFFICES ASSUME BInv, [ModelNext]_modelVars PROVE BInv'
    OBVIOUS
  <2>1. CASE UNCHANGED budgetVars
    BY <2>1 DEF budgetVars, BInv, BudgetTyped, BudgetHolds, Held
  <2>2. CASE \E c \in Callers : CallerStep(c)
    BY <2>1, <2>2, CallerSpends, LedgerInv, BudgetConstants DEF BInv
  <2>3. CASE AllocateDelegation \/ ReleaseDelegation
    BY <2>3, DelegationInv
  <2> QED BY <2>1, <2>2, <2>3 DEF ModelNext, RunStops, LeaseLost, modelVars, budgetVars
<1>3. BInv => BudgetHolds
  BY DEF BInv
<1> QED BY <1>1, <1>2, <1>3, PTL DEF ModelSpec

-----------------------------------------------------------------------------
(* The execution of a plan: success is complete.                           *)

BatchRow == [cancelling : BOOLEAN, error : BOOLEAN, unsettled : BOOLEAN]
Places == {"none", "starting", "driving", "publishing", "remembering", "reporting"}
Statuses == {"PENDING", "RUNNING", "WAITING", "SUCCEEDED", "FAILED", "CANCELLED", "BLOCKED"}

ExecTypeOK ==
    /\ phase \in {"evaluate", "claim", "batch", "stopping", "ended"}
    /\ status \in [Steps -> Statuses]
    /\ work \in [Steps -> Places]
    /\ durable \in [Steps -> Statuses]
    /\ result \in [Steps -> {"none", "READABLE", "PREPARED"}]
    /\ gate \in {"NOT_STARTED", "PUBLISHING", "PUBLISHED", "FAILED", "OUTCOME_UNKNOWN"}
    /\ shown \in Nat
    /\ batch \in BatchRow
    /\ failFast \in BOOLEAN
    /\ verdict \in {"none", "SUCCEEDED", "FAILED", "CANCELLED"}

Trouble == batch.error \/ batch.unsettled
Doomed == \E s \in Steps : status[s] = "FAILED"

Settled(s) ==
    /\ durable[s] = "SUCCEEDED" /\ result[s] = "READABLE"
    /\ s = FinalStep => gate = "PUBLISHED"

WorkersArePlaced ==
    \A s \in Steps :
        /\ work[s] # "none" => phase = "batch"
        /\ work[s] \in {"starting", "driving"} => status[s] \in {"RUNNING", "WAITING"}
        /\ work[s] \in {"publishing", "remembering", "reporting"} =>
             status[s] = "SUCCEEDED" /\ result[s] = "READABLE"
        /\ work[s] = "publishing" => s = FinalStep /\ gate = "PUBLISHING"

GateFollows ==
    /\ status[FinalStep] # "SUCCEEDED" => gate = "NOT_STARTED"
    /\ gate \in {"NOT_STARTED", "PUBLISHING"} => shown = 0
    /\ gate = "PUBLISHED" => shown = 1

SuccessIsAccounted ==
    /\ phase \in {"evaluate", "claim"} => ~Trouble
    /\ batch.cancelling => Trouble \/ Doomed
    /\ \A s \in Steps : status[s] = "SUCCEEDED" /\ work[s] = "none" =>
         Settled(s) \/ Trouble \/ Doomed
    /\ phase \in {"evaluate", "claim", "batch"} => verdict = "none"
    /\ verdict = "SUCCEEDED" => \A s \in Steps : status[s] = "SUCCEEDED" /\ Settled(s)

EInv == ExecTypeOK /\ WorkersArePlaced /\ GateFollows /\ SuccessIsAccounted

\* q is a batch report with these entries.
BatchIs(q, c, e, u) ==
    q \in BatchRow /\ (q.cancelling <=> c) /\ (q.error <=> e) /\ (q.unsettled <=> u)

LEMMA BatchUpdates ==
  ASSUME NEW q \in BatchRow, NEW v \in BOOLEAN, NEW w \in BOOLEAN
  PROVE  /\ BatchIs([q EXCEPT !.cancelling = v], v, q.error, q.unsettled)
         /\ BatchIs([q EXCEPT !.cancelling = v, !.error = w], v, w, q.unsettled)
         /\ BatchIs([q EXCEPT !.unsettled = w, !.cancelling = v], v, q.error, w)
  BY DEF BatchRow, BatchIs

LEMMA SettleFacts ==
  ASSUME ExecTypeOK, NEW s \in Steps, NEW st \in Statuses, Settle(s, st)
  PROVE  /\ work' = [work EXCEPT ![s] = "none"]
         /\ durable' \in [Steps -> Statuses]
         /\ \A t \in Steps \ {s} : durable'[t] = durable[t]
         /\ batch' \in BatchRow
         /\ Trouble => Trouble'
         /\ batch'.cancelling => batch.cancelling \/ Trouble' \/ st = "FAILED"
<1>0. batch \in BatchRow /\ failFast \in BOOLEAN /\ batch.cancelling \in BOOLEAN
  BY DEF ExecTypeOK, BatchRow
<1>1. work' = [work EXCEPT ![s] = "none"]
  BY DEF Settle
<1>2. CASE /\ durable' = [durable EXCEPT ![s] = IF @ = "RUNNING" THEN st ELSE @]
           /\ batch' = [batch EXCEPT !.cancelling = @ \/ (failFast /\ st = "FAILED")]
  <2>1. BatchIs(batch', batch.cancelling \/ (failFast /\ st = "FAILED"),
                batch.error, batch.unsettled)
    BY <1>0, <1>2, BatchUpdates
  <2> QED BY <1>1, <1>2, <2>1 DEF BatchIs, Trouble, ExecTypeOK
<1>3. CASE batch' = [batch EXCEPT !.cancelling = TRUE, !.error = TRUE] /\ UNCHANGED durable
  <2>1. BatchIs(batch', TRUE, TRUE, batch.unsettled)
    BY <1>0, <1>3, BatchUpdates
  <2> QED BY <1>1, <1>3, <2>1 DEF BatchIs, Trouble, ExecTypeOK
<1> QED BY <1>2, <1>3 DEF Settle

LEMMA BlockedWait ==
  ASSUME NEW s \in Blocked
  PROVE  s \in Steps /\ status[s] = "PENDING"
<1> DEFINE W == {t \in Steps : status[t] = "PENDING"}
<1>1. W \in SUBSET Steps
  OBVIOUS
<1>2. s \in W
  BY <1>1 DEF Blocked
<1> QED BY <1>2 DEF Blocked

LEMMA ExecInitInv == ExecInit => EInv
  BY PlanAssumption
     DEF ExecInit, EInv, ExecTypeOK, WorkersArePlaced, GateFollows, SuccessIsAccounted, BatchRow,
         NoTrouble, Statuses, Places, Trouble, PlanAssumption

LEMMA EvaluateInv ==
  ASSUME EInv, Evaluate
  PROVE  EInv'
<1> USE DEF EInv
<1>1. /\ \A s \in Steps : \/ status'[s] = status[s]
                           \/ (status[s] = "PENDING" /\ status'[s] = "BLOCKED")
      /\ status' \in [Steps -> Statuses]
  BY BlockedWait DEF Evaluate, ExecTypeOK, Statuses
<1>2. /\ UNCHANGED <<failFast, work, durable, result, gate, shown, stopped, batch>>
      /\ phase = "evaluate"
  BY DEF Evaluate
<1>3. \/ phase' = "stopping" /\ verdict' \in {"CANCELLED", "FAILED"}
      \/ phase' = "stopping" /\ verdict' = "SUCCEEDED" /\ \A s \in Steps : status[s] = "SUCCEEDED"
      \/ phase' = "claim" /\ verdict' = verdict
  BY DEF Evaluate, Decide
<1>4. ExecTypeOK'
  BY <1>1, <1>2, <1>3 DEF ExecTypeOK
<1>5. WorkersArePlaced'
  BY <1>1, <1>2, <1>3 DEF WorkersArePlaced
<1>6. GateFollows'
  BY <1>1, <1>2, PlanAssumption DEF GateFollows, PlanAssumption
<1>7. SuccessIsAccounted'
  BY <1>1, <1>2, <1>3 DEF SuccessIsAccounted, Trouble, Doomed, Settled, WorkersArePlaced
<1> QED BY <1>4, <1>5, <1>6, <1>7

LEMMA ClaimInv ==
  ASSUME EInv, ClaimReady
  PROVE  EInv'
<1>0. /\ UNCHANGED <<failFast, durable, result, gate, shown, stopped>> /\ phase = "claim"
      /\ BatchIs(batch', FALSE, FALSE, FALSE)
  BY DEF ClaimReady, NoTrouble, BatchIs, BatchRow
<1>1. CASE /\ phase' = "batch" /\ UNCHANGED verdict
           /\ \E C \in SUBSET Ready :
                /\ status' = [s \in Steps |-> IF s \in C THEN "RUNNING" ELSE status[s]]
                /\ work' = [s \in Steps |-> IF s \in C THEN "starting" ELSE "none"]
  <2>1. PICK C \in SUBSET Ready :
              /\ status' = [s \in Steps |-> IF s \in C THEN "RUNNING" ELSE status[s]]
              /\ work' = [s \in Steps |-> IF s \in C THEN "starting" ELSE "none"]
    BY <1>1
  <2>2. \A s \in C : s \in Steps /\ status[s] = "PENDING"
    BY DEF Ready
  <2>3. ExecTypeOK'
    BY <1>0, <1>1, <2>1 DEF EInv, ExecTypeOK, BatchIs, Statuses, Places
  <2>4. WorkersArePlaced' /\ GateFollows'
    BY <1>0, <1>1, <2>1, <2>2, PlanAssumption
       DEF EInv, ExecTypeOK, WorkersArePlaced, GateFollows, PlanAssumption
  <2>5. SuccessIsAccounted'
    BY <1>0, <1>1, <2>1, <2>2
       DEF EInv, ExecTypeOK, WorkersArePlaced, SuccessIsAccounted, BatchIs, Trouble, Doomed, Settled
  <2> QED BY <2>3, <2>4, <2>5 DEF EInv
<1>2. CASE /\ phase' = "stopping" /\ verdict' \in {"CANCELLED", "FAILED"} /\ UNCHANGED work
           /\ \/ UNCHANGED status
              \/ \E s \in Ready : status' = [status EXCEPT ![s] = "CANCELLED"]
  <2>1. /\ status' \in [Steps -> Statuses]
        /\ \A s \in Steps : status'[s] = status[s]
                              \/ (status[s] = "PENDING" /\ status'[s] = "CANCELLED")
    BY <1>2 DEF EInv, ExecTypeOK, Ready, Statuses
  <2>2. ExecTypeOK'
    BY <1>0, <1>2, <2>1 DEF EInv, ExecTypeOK, BatchIs
  <2>3. WorkersArePlaced' /\ GateFollows'
    BY <1>0, <1>2, <2>1, PlanAssumption
       DEF EInv, ExecTypeOK, WorkersArePlaced, GateFollows, PlanAssumption
  <2>4. SuccessIsAccounted'
    BY <1>0, <1>2, <2>1
       DEF EInv, ExecTypeOK, WorkersArePlaced, SuccessIsAccounted, BatchIs, Trouble, Doomed, Settled
  <2> QED BY <2>2, <2>3, <2>4 DEF EInv
<1> QED BY <1>1, <1>2 DEF ClaimReady, Decide

LEMMA StartInv ==
  ASSUME EInv, NEW s \in Steps, StartStep(s)
  PROVE  EInv'
<1> USE PlanAssumption DEF EInv, PlanAssumption, StartStep, Return
<1>1. ExecTypeOK'
  BY DEF ExecTypeOK, Statuses, Places, BatchRow
<1>2. WorkersArePlaced'
  BY DEF ExecTypeOK, Statuses, Places, WorkersArePlaced
<1>3. GateFollows'
  BY DEF ExecTypeOK, Statuses, Places, WorkersArePlaced, GateFollows
<1>4. SuccessIsAccounted'
  BY DEF ExecTypeOK, Statuses, Places, BatchRow, WorkersArePlaced, GateFollows,
         SuccessIsAccounted, Trouble, Doomed, Settled
<1> QED BY <1>1, <1>2, <1>3, <1>4

LEMMA DriverFailsInv ==
  ASSUME EInv, NEW s \in Steps, DriverFails(s)
  PROVE  EInv'
<1> USE PlanAssumption DEF EInv, PlanAssumption
<1>1. PICK st \in {"CANCELLED", "FAILED"} :
            status' = [status EXCEPT ![s] = st] /\ Settle(s, st)
  BY DEF DriverFails
<1>2. /\ work[s] = "driving" /\ status[s] = "RUNNING"
      /\ UNCHANGED <<phase, failFast, result, gate, shown, stopped, verdict>>
  BY DEF DriverFails
<1>3. /\ work' = [work EXCEPT ![s] = "none"] /\ durable' \in [Steps -> Statuses]
      /\ \A t \in Steps \ {s} : durable'[t] = durable[t]
      /\ batch' \in BatchRow /\ (Trouble => Trouble')
      /\ batch'.cancelling => batch.cancelling \/ Trouble' \/ st = "FAILED"
  BY <1>1, SettleFacts DEF Statuses
<1>4. ExecTypeOK'
  BY <1>1, <1>2, <1>3 DEF ExecTypeOK, Statuses, Places
<1>5. WorkersArePlaced' /\ GateFollows'
  BY <1>1, <1>2, <1>3 DEF ExecTypeOK, WorkersArePlaced, GateFollows
<1>6. SuccessIsAccounted'
  <2>1. Doomed => Doomed'
    BY <1>1, <1>2 DEF ExecTypeOK, Doomed
  <2>2. st = "FAILED" => Doomed'
    BY <1>1 DEF ExecTypeOK, Doomed
  <2> QED BY <1>1, <1>2, <1>3, <2>1, <2>2
             DEF ExecTypeOK, WorkersArePlaced, SuccessIsAccounted, Settled
<1> QED BY <1>4, <1>5, <1>6

LEMMA ExhaustedInv ==
  ASSUME EInv, NEW s \in Steps, DriverExhausted(s)
  PROVE  EInv'
<1> USE PlanAssumption DEF EInv, PlanAssumption, DriverExhausted
<1>1. ExecTypeOK'
  BY DEF ExecTypeOK, Statuses, Places, BatchRow
<1>2. WorkersArePlaced'
  BY DEF ExecTypeOK, Statuses, Places, WorkersArePlaced
<1>3. GateFollows'
  BY DEF ExecTypeOK, Statuses, Places, WorkersArePlaced, GateFollows
<1>4. SuccessIsAccounted'
  BY DEF ExecTypeOK, Statuses, Places, BatchRow, WorkersArePlaced, GateFollows,
         SuccessIsAccounted, Trouble, Doomed, Settled
<1> QED BY <1>1, <1>2, <1>3, <1>4

LEMMA RequestInv ==
  ASSUME EInv, NEW s \in Steps, RequestToolApproval(s)
  PROVE  EInv'
<1> USE PlanAssumption DEF EInv, PlanAssumption, RequestToolApproval
<1>1. ExecTypeOK'
  BY DEF ExecTypeOK, Statuses, Places, BatchRow
<1>2. WorkersArePlaced'
  BY DEF ExecTypeOK, Statuses, Places, WorkersArePlaced
<1>3. GateFollows'
  BY DEF ExecTypeOK, Statuses, Places, WorkersArePlaced, GateFollows
<1>4. SuccessIsAccounted'
  BY DEF ExecTypeOK, Statuses, Places, BatchRow, WorkersArePlaced, GateFollows,
         SuccessIsAccounted, Trouble, Doomed, Settled
<1> QED BY <1>1, <1>2, <1>3, <1>4

LEMMA DecidedInv ==
  ASSUME EInv, NEW s \in Steps, ApprovalDecided(s)
  PROVE  EInv'
<1> USE PlanAssumption DEF EInv, PlanAssumption
<1>1. /\ work[s] = "driving" /\ status[s] = "WAITING"
      /\ UNCHANGED <<phase, failFast, result, gate, shown, stopped, verdict>>
  BY DEF ApprovalDecided
<1>2. CASE status' = [status EXCEPT ![s] = "RUNNING"] /\ UNCHANGED <<work, durable, batch>>
  <2>1. ExecTypeOK'
    BY <1>1, <1>2 DEF ExecTypeOK, Statuses
  <2>2. WorkersArePlaced' /\ GateFollows'
    BY <1>1, <1>2 DEF ExecTypeOK, WorkersArePlaced, GateFollows
  <2>3. SuccessIsAccounted'
    BY <1>1, <1>2 DEF ExecTypeOK, WorkersArePlaced, SuccessIsAccounted, Settled, Trouble, Doomed
  <2> QED BY <2>1, <2>2, <2>3
<1>3. CASE status' = [status EXCEPT ![s] = "FAILED"] /\ Settle(s, "FAILED")
  <2>1. /\ work' = [work EXCEPT ![s] = "none"] /\ durable' \in [Steps -> Statuses]
        /\ \A t \in Steps \ {s} : durable'[t] = durable[t]
        /\ batch' \in BatchRow /\ (Trouble => Trouble')
    BY <1>3, SettleFacts DEF Statuses
  <2>2. ExecTypeOK'
    BY <1>1, <1>3, <2>1 DEF ExecTypeOK, Statuses, Places
  <2>3. WorkersArePlaced' /\ GateFollows'
    BY <1>1, <1>3, <2>1 DEF ExecTypeOK, WorkersArePlaced, GateFollows
  <2>4. Doomed'
    BY <1>3 DEF ExecTypeOK, Doomed
  <2>5. SuccessIsAccounted'
    BY <1>1, <1>3, <2>1, <2>4 DEF ExecTypeOK, WorkersArePlaced, SuccessIsAccounted, Settled
  <2> QED BY <2>2, <2>3, <2>5
<1> QED BY <1>2, <1>3 DEF ApprovalDecided

LEMMA CancelInv ==
  ASSUME EInv, NEW s \in Steps, CancelWorker(s)
  PROVE  EInv'
<1> USE PlanAssumption DEF EInv, PlanAssumption
<1>1. batch.cancelling /\ UNCHANGED <<phase, failFast, result, stopped, verdict>>
  BY DEF CancelWorker
<1>2. CASE /\ work[s] \in {"starting", "driving", "remembering", "reporting"}
           /\ status' = [status EXCEPT ![s] = IF s \in Active THEN "CANCELLED" ELSE @]
           /\ Settle(s, "CANCELLED")
           /\ UNCHANGED <<gate, shown>>
  <2>1. /\ work' = [work EXCEPT ![s] = "none"] /\ durable' \in [Steps -> Statuses]
        /\ \A t \in Steps \ {s} : durable'[t] = durable[t]
        /\ batch' \in BatchRow /\ (Trouble => Trouble')
        /\ batch'.cancelling => batch.cancelling \/ Trouble'
    BY <1>2, SettleFacts DEF Statuses
  <2>2. ExecTypeOK'
    BY <1>1, <1>2, <2>1 DEF ExecTypeOK, Statuses, Places
  <2>3. WorkersArePlaced' /\ GateFollows'
    BY <1>1, <1>2, <2>1 DEF ExecTypeOK, WorkersArePlaced, GateFollows, Active
  <2>4. Trouble' \/ Doomed'
    BY <1>1, <1>2, <2>1 DEF ExecTypeOK, SuccessIsAccounted, Doomed, Active
  <2>5. SuccessIsAccounted'
    BY <1>1, <1>2, <2>1, <2>4 DEF ExecTypeOK, WorkersArePlaced, SuccessIsAccounted
  <2> QED BY <2>2, <2>3, <2>5
<1>3. CASE /\ work[s] = "publishing"
           /\ gate' = "OUTCOME_UNKNOWN" /\ shown' \in {shown, shown + 1}
           /\ work' = [work EXCEPT ![s] = "reporting"]
           /\ UNCHANGED <<status, durable, batch>>
  <2>1. ExecTypeOK'
    BY <1>1, <1>3 DEF ExecTypeOK, Places
  <2>2. WorkersArePlaced' /\ GateFollows'
    BY <1>1, <1>3 DEF ExecTypeOK, WorkersArePlaced, GateFollows
  <2>3. SuccessIsAccounted'
    BY <1>1, <1>3 DEF ExecTypeOK, WorkersArePlaced, SuccessIsAccounted, Settled, Trouble, Doomed
  <2> QED BY <2>1, <2>2, <2>3
<1> QED BY <1>2, <1>3 DEF CancelWorker

LEMMA CommitInv ==
  ASSUME EInv, NEW s \in Steps, CommitResult(s)
  PROVE  EInv'
<1> USE PlanAssumption DEF EInv, PlanAssumption
<1>1. /\ work[s] = "driving" /\ status[s] = "RUNNING"
      /\ UNCHANGED <<phase, failFast, durable, shown, stopped, verdict>>
  BY DEF CommitResult
<1>2. CASE /\ status' = [status EXCEPT ![s] = "SUCCEEDED"]
           /\ result' = [result EXCEPT ![s] = "READABLE"]
           /\ IF s # FinalStep \/ stopped
                THEN /\ work' = [work EXCEPT ![s] = "reporting"] /\ UNCHANGED gate
                ELSE /\ work' = [work EXCEPT ![s] = "publishing"]
                     /\ gate' = "PUBLISHING"
           /\ UNCHANGED batch
  <2>1. ExecTypeOK'
    BY <1>1, <1>2 DEF ExecTypeOK, Statuses, Places
  <2>2. WorkersArePlaced' /\ GateFollows'
    BY <1>1, <1>2 DEF ExecTypeOK, WorkersArePlaced, GateFollows
  <2>3. SuccessIsAccounted'
    BY <1>1, <1>2 DEF ExecTypeOK, WorkersArePlaced, SuccessIsAccounted, Settled, Trouble, Doomed
  <2> QED BY <2>1, <2>2, <2>3
<1>3. CASE /\ status' = [status EXCEPT ![s] = "FAILED"]
           /\ Return(s, TRUE) /\ UNCHANGED <<result, gate>>
  <2>1. batch' \in BatchRow /\ (Trouble' <=> Trouble)
    <3>1. BatchIs(batch', batch.cancelling \/ failFast, batch.error, batch.unsettled)
      BY <1>3, BatchUpdates DEF Return, ExecTypeOK, BatchRow
    <3> QED BY <3>1 DEF BatchIs, Trouble
  <2>2. ExecTypeOK'
    BY <1>1, <1>3, <2>1 DEF ExecTypeOK, Statuses, Places, Return
  <2>3. WorkersArePlaced' /\ GateFollows'
    BY <1>1, <1>3 DEF ExecTypeOK, WorkersArePlaced, GateFollows, Return
  <2>4. Doomed'
    BY <1>3 DEF ExecTypeOK, Doomed
  <2>5. SuccessIsAccounted'
    BY <1>1, <1>3, <2>1, <2>4 DEF ExecTypeOK, WorkersArePlaced, SuccessIsAccounted, Settled
  <2> QED BY <2>2, <2>3, <2>5
<1>4. CASE /\ status' = [status EXCEPT ![s] = "SUCCEEDED"]
           /\ result' = [result EXCEPT ![s] = "PREPARED"]
           /\ work' = [work EXCEPT ![s] = "none"]
           /\ batch' = [batch EXCEPT !.unsettled = TRUE, !.cancelling = @ \/ failFast]
           /\ UNCHANGED gate
  <2>1. batch' \in BatchRow /\ Trouble'
    <3>1. BatchIs(batch', batch.cancelling \/ failFast, batch.error, TRUE)
      BY <1>4, BatchUpdates DEF ExecTypeOK, BatchRow
    <3> QED BY <3>1 DEF BatchIs, Trouble
  <2>2. ExecTypeOK'
    BY <1>1, <1>4, <2>1 DEF ExecTypeOK, Statuses, Places
  <2>3. WorkersArePlaced' /\ GateFollows'
    BY <1>1, <1>4 DEF ExecTypeOK, WorkersArePlaced, GateFollows
  <2>4. SuccessIsAccounted'
    BY <1>1, <1>4, <2>1 DEF ExecTypeOK, WorkersArePlaced, SuccessIsAccounted
  <2> QED BY <2>2, <2>3, <2>4
<1> QED BY <1>2, <1>3, <1>4 DEF CommitResult

LEMMA PublishInv ==
  ASSUME EInv, NEW s \in Steps, Publish(s)
  PROVE  EInv'
<1> USE PlanAssumption DEF EInv, PlanAssumption, Publish
<1>1. ExecTypeOK'
  BY DEF ExecTypeOK, Statuses, Places, BatchRow
<1>2. WorkersArePlaced'
  BY DEF ExecTypeOK, Statuses, Places, WorkersArePlaced
<1>3. GateFollows'
  BY DEF ExecTypeOK, Statuses, Places, WorkersArePlaced, GateFollows
<1>4. SuccessIsAccounted'
  BY DEF ExecTypeOK, Statuses, Places, BatchRow, WorkersArePlaced, GateFollows,
         SuccessIsAccounted, Trouble, Doomed, Settled
<1> QED BY <1>1, <1>2, <1>3, <1>4

LEMMA RememberInv ==
  ASSUME EInv, NEW s \in Steps, Remember(s)
  PROVE  EInv'
<1> USE PlanAssumption DEF EInv, PlanAssumption, Remember
<1>1. ExecTypeOK'
  BY DEF ExecTypeOK, Statuses, Places, BatchRow
<1>2. WorkersArePlaced'
  BY DEF ExecTypeOK, Statuses, Places, WorkersArePlaced
<1>3. GateFollows'
  BY DEF ExecTypeOK, Statuses, Places, WorkersArePlaced, GateFollows
<1>4. SuccessIsAccounted'
  BY DEF ExecTypeOK, Statuses, Places, BatchRow, WorkersArePlaced, GateFollows,
         SuccessIsAccounted, Trouble, Doomed, Settled
<1> QED BY <1>1, <1>2, <1>3, <1>4

LEMMA ReportStepInv ==
  ASSUME EInv, NEW s \in Steps, Report(s)
  PROVE  EInv'
<1> USE PlanAssumption DEF EInv, PlanAssumption
<1>1. /\ work[s] = "reporting" /\ work' = [work EXCEPT ![s] = "none"]
      /\ UNCHANGED <<phase, failFast, status, result, gate, shown, stopped, verdict>>
  BY DEF Report
<1> DEFINE bad(w) == ~w \/ batch.unsettled \/ (s = FinalStep /\ gate # "PUBLISHED")
<1>2. PICK written \in BOOLEAN :
            /\ durable' = [durable EXCEPT ![s] = IF written THEN "SUCCEEDED" ELSE @]
            /\ batch' = [batch EXCEPT !.unsettled = @ \/ bad(written),
                                      !.cancelling = @ \/ (bad(written) /\ failFast)]
  BY DEF Report
<1>3. BatchIs(batch', batch.cancelling \/ (bad(written) /\ failFast), batch.error,
              batch.unsettled \/ bad(written))
  BY <1>2, BatchUpdates DEF ExecTypeOK, BatchRow
<1>4. ExecTypeOK'
  BY <1>1, <1>2, <1>3 DEF ExecTypeOK, Statuses, Places, BatchIs
<1>5. WorkersArePlaced' /\ GateFollows'
  BY <1>1, <1>2 DEF ExecTypeOK, WorkersArePlaced, GateFollows
<1>6. SuccessIsAccounted'
  <2>1. bad(written) \/ Trouble => Trouble'
    BY <1>3 DEF BatchIs, Trouble
  <2>2. ~bad(written) => Settled(s)'
    BY <1>1, <1>2 DEF ExecTypeOK, WorkersArePlaced, Settled
  <2>3. \A t \in Steps \ {s} : Settled(t) => Settled(t)'
    BY <1>1, <1>2 DEF ExecTypeOK, Settled
  <2>4. Doomed' <=> Doomed
    BY <1>1 DEF Doomed
  <2>5. batch'.cancelling => batch.cancelling \/ bad(written)
    BY <1>3 DEF BatchIs
  <2> HIDE DEF bad
  <2>6. phase = "batch"
    BY <1>1 DEF WorkersArePlaced
  <2> QED BY <1>1, <2>1, <2>2, <2>3, <2>4, <2>5, <2>6 DEF SuccessIsAccounted, ExecTypeOK
<1> QED BY <1>4, <1>5, <1>6

LEMMA BatchEndsInv ==
  ASSUME EInv, BatchEnds
  PROVE  EInv'
<1> USE PlanAssumption DEF EInv, PlanAssumption, BatchEnds, BatchOutcome, Decide, Active, Working
<1>1. ExecTypeOK'
  BY DEF ExecTypeOK, Statuses, Places, BatchRow
<1>2. WorkersArePlaced'
  BY DEF ExecTypeOK, Statuses, Places, WorkersArePlaced
<1>3. GateFollows'
  BY DEF ExecTypeOK, Statuses, Places, WorkersArePlaced, GateFollows
<1>4. SuccessIsAccounted'
  BY DEF ExecTypeOK, Statuses, Places, BatchRow, WorkersArePlaced, GateFollows,
         SuccessIsAccounted, Trouble, Doomed, Settled
<1> QED BY <1>1, <1>2, <1>3, <1>4

LEMMA TokenInv ==
  ASSUME EInv, TokenCancelled
  PROVE  EInv'
<1> USE PlanAssumption DEF EInv, PlanAssumption, TokenCancelled
<1>1. ExecTypeOK'
  BY DEF ExecTypeOK, Statuses, Places, BatchRow
<1>2. WorkersArePlaced'
  BY DEF ExecTypeOK, Statuses, Places, WorkersArePlaced
<1>3. GateFollows'
  BY DEF ExecTypeOK, Statuses, Places, WorkersArePlaced, GateFollows
<1>4. SuccessIsAccounted'
  BY DEF ExecTypeOK, Statuses, Places, BatchRow, WorkersArePlaced, GateFollows,
         SuccessIsAccounted, Trouble, Doomed, Settled
<1> QED BY <1>1, <1>2, <1>3, <1>4

LEMMA TaskInv ==
  ASSUME EInv, TaskCancelled
  PROVE  EInv'
<1> USE PlanAssumption DEF EInv, PlanAssumption, TaskCancelled, Decide
<1>1. ExecTypeOK'
  BY DEF ExecTypeOK, Statuses, Places, BatchRow
<1>2. WorkersArePlaced'
  BY DEF ExecTypeOK, Statuses, Places, WorkersArePlaced
<1>3. GateFollows'
  BY DEF ExecTypeOK, Statuses, Places, WorkersArePlaced, GateFollows
<1>4. SuccessIsAccounted'
  BY DEF ExecTypeOK, Statuses, Places, BatchRow, WorkersArePlaced, GateFollows,
         SuccessIsAccounted, Trouble, Doomed, Settled
<1> QED BY <1>1, <1>2, <1>3, <1>4

LEMMA FinishInv ==
  ASSUME EInv, Finish
  PROVE  EInv'
<1> USE PlanAssumption DEF EInv, PlanAssumption, Finish, Active
<1>1. ExecTypeOK'
  BY DEF ExecTypeOK, Statuses, Places, BatchRow
<1>2. WorkersArePlaced'
  BY DEF ExecTypeOK, Statuses, Places, WorkersArePlaced
<1>3. GateFollows'
  BY DEF ExecTypeOK, Statuses, Places, WorkersArePlaced, GateFollows
<1>4. SuccessIsAccounted'
  BY DEF ExecTypeOK, Statuses, Places, BatchRow, WorkersArePlaced, GateFollows,
         SuccessIsAccounted, Trouble, Doomed, Settled
<1> QED BY <1>1, <1>2, <1>3, <1>4

LEMMA ExecInductive == EInv /\ [ExecNext]_execVars => EInv'
<1> SUFFICES ASSUME EInv, [ExecNext]_execVars PROVE EInv'
  OBVIOUS
<1>1. ASSUME NEW s \in Steps, WorkerStep(s) PROVE EInv'
  BY <1>1, StartInv, DriverFailsInv, ExhaustedInv, RequestInv, DecidedInv, CancelInv, CommitInv,
     PublishInv, RememberInv, ReportStepInv DEF WorkerStep
<1>2. CASE UNCHANGED execVars
  BY <1>2 DEF execVars, EInv, ExecTypeOK, WorkersArePlaced, GateFollows, SuccessIsAccounted,
              Trouble, Doomed, Settled
<1> QED BY <1>1, <1>2, EvaluateInv, ClaimInv, BatchEndsInv, TokenInv, TaskInv, FinishInv
           DEF ExecNext

\* A run that ends as SUCCEEDED has every step, durable row and result, and
\* its output was shown exactly once, for every plan (RunCoordinator.execute).
THEOREM SuccessIsReal == ExecSpec => []SuccessIsComplete
<1>1. EInv => SuccessIsComplete
  BY PlanAssumption DEF EInv, SuccessIsAccounted, GateFollows, Settled, SuccessIsComplete,
                        PlanAssumption
<1> QED BY <1>1, ExecInitInv, ExecInductive, PTL DEF ExecSpec

-----------------------------------------------------------------------------
(* Recovery fails closed, and its rows are fenced.                         *)

StepRow == [status : {"PENDING", "RUNNING", "SUCCEEDED", "FAILED", "BLOCKED"}, attempt : Nat]
ModelRow == [open : BOOLEAN, unknown : Nat]
DrivePlaces == {"none", "driving", "thinking", "decided", "waiting", "cleared", "calling",
                "answered", "failing"}
DriveRow == [pc : DrivePlaces, attempt : Nat, ident : Idents \cup {NoIdent}]
RootRow == [status : {"none", "ACTIVE", "ended"}, failures : Nat, manual : BOOLEAN, due : BOOLEAN]

RecoveryTypeOK ==
    /\ root \in RootRow
    /\ rows \in [PlanSteps -> StepRow]
    /\ models \in [PlanSteps -> ModelRow]
    /\ tools \in [Idents -> {"none", "STARTED", "UNKNOWN", "COMMITTED", "NOT_COMMITTED"}]
    /\ lane \in [Lanes -> {"idle", "selected", "claimed", "hydrating", "running", "gone"}]
    /\ todo \in [Lanes -> SUBSET PlanSteps]
    /\ drive \in [Lanes -> [PlanSteps -> DriveRow]]
    /\ attached \in [Lanes -> Idents \cup {NoIdent}]
    /\ abandoned \in [PlanSteps -> Nat]

\* A lane that is to claim finds no live lease of its process; only a running
\* lane drives, each step once, with an invocation of the plan.
RunLanesArePlaced ==
    /\ \A l \in Lanes : lane[l] = "selected" =>
         l \in Scanners /\ root.status # "none" /\ ~(Live /\ control.owner = OwnerOf[l])
    /\ \A l \in Lanes : lane[l] # "running" => \A s \in PlanSteps : drive[l][s].pc = "none"
    /\ \A l \in Lanes, s \in PlanSteps : drive[l][s].pc # "none" =>
         s \notin todo[l] /\ drive[l][s].ident # NoIdent

\* Before the run is created there is nothing.
NothingBeforeCreation ==
    root.status = "none" =>
        /\ \A l \in Lanes : lane[l] \in {"idle", "gone"}
        /\ \A i \in Idents : tools[i] = "none"
        /\ \A s \in PlanSteps : ~models[s].open

\* The lane whose scope owns the run and has classified what it found.
Scope(l) == Current(l) /\ lane[l] \in {"hydrating", "running"}

DrivenRowRuns ==
    \A l \in Lanes, s \in PlanSteps :
        Current(l) /\ drive[l][s].pc # "none" => rows[s].status = "RUNNING"

\* A model attempt that is open is the owner's or will be found by the next one.
ModelsAreAccounted ==
    /\ \A l \in Lanes, s \in PlanSteps :
         Scope(l) /\ models[s].open => drive[l][s].pc = "thinking"
    /\ \A s \in PlanSteps :
         /\ models[s].open => rows[s].status = "RUNNING"
         /\ rows[s].status = "RUNNING" => rows[s].attempt > 0
         /\ abandoned[s] <= models[s].unknown
         /\ abandoned[s] <= 2
         /\ abandoned[s] = 2 => rows[s].status \notin {"PENDING", "RUNNING"}

BeforeTool == {"driving", "thinking", "decided", "waiting", "cleared"}
Open(s) == \E i \in IdentsOf(s) : Unresolved(i)

\* A step has one open invocation at most, and none where its owner may start one.
OneIsOpen ==
    /\ \A s \in PlanSteps : \A i, j \in IdentsOf(s) : Unresolved(i) /\ Unresolved(j) => i = j
    /\ \A l \in Lanes, s \in PlanSteps :
         Scope(l) /\ (s \in todo[l] \/ drive[l][s].pc \in BeforeTool) => ~Open(s)
    /\ \A s \in PlanSteps : rows[s].status = "PENDING" => ~Open(s)

RInv ==
    /\ TokensAreApart /\ RecoveryTypeOK /\ RunLanesArePlaced /\ NothingBeforeCreation
    /\ DrivenRowRuns /\ ModelsAreAccounted /\ OneIsOpen

LEMMA RecoveryInitInv == RecoveryInit => RInv
<1> SUFFICES ASSUME RecoveryInit PROVE RInv
  OBVIOUS
<1>0. NoDrive \in DriveRow /\ NoDrive.pc = "none"
  BY DEF NoDrive, DriveRow, DrivePlaces
<1>1. TokensAreApart
  <2>1. control \in ControlRow /\ control.token = 0
    BY ControlAssumption DEF ControlAssumption, RecoveryInit, ControlInit, ControlRow
  <2>2. held = [l \in Lanes |-> 0] /\ 0 \in 0..MaxToken
    BY ControlAssumption DEF ControlAssumption, RecoveryInit, ControlInit
  <2> QED BY <2>1, <2>2 DEF TokensAreApart, ControlTypeOK
<1>2. RecoveryTypeOK
  BY <1>0 DEF RecoveryInit, RecoveryTypeOK, RootRow, StepRow, ModelRow
<1>3. RunLanesArePlaced /\ NothingBeforeCreation /\ DrivenRowRuns
  BY <1>0 DEF RecoveryInit, RunLanesArePlaced, NothingBeforeCreation, DrivenRowRuns
<1>4. ModelsAreAccounted
  BY DEF RecoveryInit, ModelsAreAccounted
<1>5. OneIsOpen
  BY DEF RecoveryInit, OneIsOpen, IdentsOf, Unresolved, Open, Idents
<1> QED BY <1>1, <1>2, <1>3, <1>4, <1>5 DEF RInv

\* Steps that only move the clock, the approvals, the effects or the backoff.
LEMMA StillInv ==
  ASSUME RInv, TokensAreApart', NobodyGains, root' \in RootRow, root'.status = root.status,
         UNCHANGED <<rows, models, tools, lane, todo, drive, attached, abandoned>>
  PROVE  RInv'
<1> USE DEF RInv
<1>1. RecoveryTypeOK' /\ RunLanesArePlaced' /\ NothingBeforeCreation' /\ DrivenRowRuns'
  BY DEF RecoveryTypeOK, RunLanesArePlaced, NothingBeforeCreation, DrivenRowRuns, NobodyGains
<1>2. ModelsAreAccounted'
  BY DEF ModelsAreAccounted, Scope, NobodyGains
<1>3. OneIsOpen'
  BY DEF OneIsOpen, Scope, Open, Unresolved, NobodyGains
<1> QED BY <1>1, <1>2, <1>3

LEMMA MoveDriveFacts ==
  ASSUME RecoveryTypeOK, NEW l \in Lanes, NEW s \in PlanSteps, NEW p \in DrivePlaces,
         MoveDrive(l, s, p)
  PROVE  /\ drive' \in [Lanes -> [PlanSteps -> DriveRow]]
         /\ drive'[l][s].pc = p /\ drive'[l][s].ident = drive[l][s].ident
         /\ \A m \in Lanes, t \in PlanSteps : m # l \/ t # s => drive'[m][t] = drive[m][t]
<1> DEFINE q == [drive[l][s] EXCEPT !.pc = p]
<1>1. drive[l] \in [PlanSteps -> DriveRow] /\ drive[l][s] \in DriveRow
  BY DEF RecoveryTypeOK
<1>2. q \in DriveRow /\ q.pc = p /\ q.ident = drive[l][s].ident
  BY <1>1 DEF DriveRow
<1>3. drive' = [drive EXCEPT ![l] = [drive[l] EXCEPT ![s] = q]]
  BY DEF MoveDrive, RecoveryTypeOK
<1> HIDE DEF q
<1> QED BY <1>1, <1>2, <1>3 DEF RecoveryTypeOK

LEMMA TakeOverInv ==
  ASSUME RInv, NEW l \in Lanes, CreateRun(l) \/ SelectStale(l) \/ ClaimStale(l)
  PROVE  RInv'
<1> USE DEF RInv
<1>1. CASE CreateRun(l)
  <2>0. /\ TokensAreApart' /\ control'.owner = OwnerOf[l] /\ \A m \in Lanes \ {l} : ~Current(m)'
    BY <1>1, TakeOverIsExclusive DEF CreateRun
  <2>1. /\ root' \in RootRow /\ root'.status = "ACTIVE" /\ root.status = "none"
        /\ todo' = [todo EXCEPT ![l] = PlanSteps] /\ lane' = [lane EXCEPT ![l] = "running"]
        /\ UNCHANGED <<rows, models, tools, asked, acted, drive, attached, abandoned>>
        /\ lane[l] = "idle"
    BY <1>1 DEF CreateRun, RecoveryTypeOK, RootRow, MoveLane
  <2>2. RecoveryTypeOK'
    BY <2>1 DEF RecoveryTypeOK
  <2>3. RunLanesArePlaced' /\ NothingBeforeCreation' /\ DrivenRowRuns'
    BY <2>0, <2>1 DEF RecoveryTypeOK, RunLanesArePlaced, NothingBeforeCreation, DrivenRowRuns
  <2>4. ModelsAreAccounted'
    BY <2>0, <2>1 DEF RecoveryTypeOK, ModelsAreAccounted, NothingBeforeCreation
  <2>5. OneIsOpen'
    BY <2>0, <2>1
       DEF RecoveryTypeOK, OneIsOpen, NothingBeforeCreation, Open, Unresolved, IdentsOf, Idents
  <2> QED BY <2>0, <2>2, <2>3, <2>4, <2>5
<1>2. CASE SelectStale(l)
  <2>0. TokensAreApart' /\ NobodyGains
    BY <1>2, ControlKeeps DEF SelectStale
  <2>1. /\ lane' = [lane EXCEPT ![l] = "selected"]
        /\ UNCHANGED <<control, root, rows, models, tools, todo, drive, attached, abandoned>>
        /\ lane[l] = "idle" /\ l \in Scanners /\ root.status = "ACTIVE" /\ ~Live
    BY <1>2 DEF SelectStale, MoveLane
  <2>2. RecoveryTypeOK'
    BY <2>1 DEF RecoveryTypeOK
  <2>3. RunLanesArePlaced' /\ NothingBeforeCreation' /\ DrivenRowRuns'
    BY <2>0, <2>1
       DEF RecoveryTypeOK, RunLanesArePlaced, NothingBeforeCreation, DrivenRowRuns, NobodyGains,
           Live
  <2>4. ModelsAreAccounted'
    BY <2>0, <2>1 DEF RecoveryTypeOK, ModelsAreAccounted, NobodyGains, Scope
  <2>5. OneIsOpen'
    BY <2>0, <2>1 DEF RecoveryTypeOK, OneIsOpen, Open, Unresolved, NobodyGains, Scope
  <2> QED BY <2>0, <2>2, <2>3, <2>4, <2>5
<1>3. CASE ClaimTakesOver(l) /\ ClaimStale(l)
  <2>0. /\ TokensAreApart' /\ control'.owner = OwnerOf[l] /\ \A m \in Lanes \ {l} : ~Current(m)'
    BY <1>3, TakeOverIsExclusive
  <2>1. /\ lane' = [lane EXCEPT ![l] = "claimed"] \/ lane' = [lane EXCEPT ![l] = "idle"]
        /\ UNCHANGED <<root, rows, models, tools, todo, drive, attached, abandoned>>
        /\ lane[l] = "selected"
    BY <1>3 DEF ClaimStale, MoveLane
  <2>2. RecoveryTypeOK'
    BY <2>1 DEF RecoveryTypeOK
  <2>3. RunLanesArePlaced'
    BY <2>0, <2>1, RecoveryAssumption DEF RecoveryAssumption, RecoveryTypeOK, RunLanesArePlaced
  <2>6. NothingBeforeCreation' /\ DrivenRowRuns'
    BY <2>0, <2>1 DEF RecoveryTypeOK, RunLanesArePlaced, NothingBeforeCreation, DrivenRowRuns
  <2>4. ModelsAreAccounted'
    BY <2>0, <2>1 DEF RecoveryTypeOK, ModelsAreAccounted, Scope
  <2>5. OneIsOpen'
    BY <2>0, <2>1 DEF RecoveryTypeOK, OneIsOpen, Open, Unresolved, Scope
  <2> QED BY <2>0, <2>2, <2>3, <2>4, <2>5, <2>6
<1>4. CASE UNCHANGED controlVars /\ ClaimStale(l)
  <2>0. TokensAreApart' /\ NobodyGains
    BY <1>4, ControlKeeps
  <2>1. /\ lane' = [lane EXCEPT ![l] = "claimed"] \/ lane' = [lane EXCEPT ![l] = "idle"]
        /\ UNCHANGED <<root, rows, models, tools, todo, drive, attached, abandoned>>
        /\ lane[l] = "selected"
    BY <1>4 DEF ClaimStale, MoveLane
  <2>2. RecoveryTypeOK'
    BY <2>1 DEF RecoveryTypeOK
  <2>3. RunLanesArePlaced' /\ NothingBeforeCreation' /\ DrivenRowRuns'
    BY <2>0, <2>1
       DEF RecoveryTypeOK, RunLanesArePlaced, NothingBeforeCreation, DrivenRowRuns, NobodyGains
  <2>4. ModelsAreAccounted'
    BY <2>0, <2>1 DEF RecoveryTypeOK, ModelsAreAccounted, NobodyGains, Scope
  <2>5. OneIsOpen'
    BY <2>0, <2>1 DEF RecoveryTypeOK, OneIsOpen, Open, Unresolved, NobodyGains, Scope
  <2> QED BY <2>0, <2>2, <2>3, <2>4, <2>5
<1>5. ~(ClaimStale(l) /\ ClaimRenews(l))
  BY DEF ClaimStale, ClaimRenews, RunLanesArePlaced
<1> QED BY <1>1, <1>2, <1>3, <1>4, <1>5 DEF ClaimStale, Claim

LEMMA ClassifiedFacts ==
  ASSUME RecoveryTypeOK, NEW s \in PlanSteps
  PROVE  /\ rows[s].status # "RUNNING" => Classified(s) = rows[s].status
         /\ rows[s].status = "RUNNING" =>
              \/ Classified(s) = "BLOCKED"
              \/ /\ Classified(s) \in {"PENDING", "RUNNING"} /\ ~Open(s)
                 /\ models[s].unknown + (IF models[s].open THEN 1 ELSE 0) < 2
<1>1. models[s].unknown \in Nat
  BY DEF RecoveryTypeOK, ModelRow
<1> QED BY <1>1 DEF Classified, Open

LEMMA PrepareInv ==
  ASSUME RInv, NEW l \in Lanes, PrepareRecovery(l)
  PROVE  RInv'
<1> USE DEF RInv
<1>0. TokensAreApart' /\ NobodyGains
  BY ControlKeeps DEF PrepareRecovery
<1>1. \A m \in Lanes \ {l} : ~Current(m)'
  BY <1>0, CurrentIsOne DEF PrepareRecovery, NobodyGains
<1>2. /\ lane[l] = "claimed" /\ lane' = [lane EXCEPT ![l] = "hydrating"]
      /\ UNCHANGED <<control, root, tools, drive>>
  BY DEF PrepareRecovery, MoveLane
<1>3. \A s \in PlanSteps : /\ rows[s] \in StepRow
                           /\ Classified(s) \in
                                {"PENDING", "RUNNING", "SUCCEEDED", "FAILED", "BLOCKED"}
  BY ClassifiedFacts DEF RecoveryTypeOK, StepRow
<1>4. /\ rows' \in [PlanSteps -> StepRow]
      /\ \A s \in PlanSteps : rows'[s].status = Classified(s) /\ rows'[s].attempt = rows[s].attempt
  <2>1. rows' = [s \in PlanSteps |-> [rows[s] EXCEPT !.status = Classified(s)]]
    BY DEF PrepareRecovery
  <2>2. \A s \in PlanSteps : LET q == [rows[s] EXCEPT !.status = Classified(s)] IN
             q \in StepRow /\ q.status = Classified(s) /\ q.attempt = rows[s].attempt
    BY <1>3 DEF StepRow
  <2> QED BY <2>1, <2>2
<1>5. /\ todo' \in [Lanes -> SUBSET PlanSteps]
      /\ todo'[l] = {s \in PlanSteps : Classified(s) \in {"PENDING", "RUNNING"}}
      /\ \A m \in Lanes \ {l} : todo'[m] = todo[m]
  BY DEF PrepareRecovery, RecoveryTypeOK
<1>6. attached' \in [Lanes -> Idents \cup {NoIdent}]
  BY DEF PrepareRecovery, Attachable, RecoveryTypeOK
<1>7. /\ models' \in [PlanSteps -> ModelRow] /\ abandoned' \in [PlanSteps -> Nat]
      /\ \A s \in PlanSteps :
           /\ ~models'[s].open
           /\ models'[s].unknown = models[s].unknown + (IF models[s].open THEN 1 ELSE 0)
           /\ abandoned'[s] = abandoned[s] + (IF models[s].open THEN 1 ELSE 0)
           /\ models[s].unknown \in Nat /\ abandoned[s] \in Nat
  BY DEF PrepareRecovery, RecoveryTypeOK, ModelRow
<1>8. RecoveryTypeOK'
  BY <1>2, <1>4, <1>5, <1>6, <1>7 DEF RecoveryTypeOK
<1>9. RunLanesArePlaced' /\ NothingBeforeCreation'
  <2>1. root.status # "none"
    BY <1>2 DEF NothingBeforeCreation
  <2>2. NothingBeforeCreation'
    BY <1>2, <2>1 DEF NothingBeforeCreation
  <2>3. \A m \in Lanes : lane'[m] = "selected" => lane[m] = "selected"
    BY <1>2 DEF RecoveryTypeOK
  <2>4. \A s \in PlanSteps : drive[l][s].pc = "none"
    BY <1>2 DEF RunLanesArePlaced
  <2>5. \A m \in Lanes \ {l} : lane'[m] = lane[m]
    BY <1>2 DEF RecoveryTypeOK
  <2>6. RunLanesArePlaced'
    BY <1>0, <1>2, <1>5, <2>3, <2>4, <2>5 DEF RunLanesArePlaced, NobodyGains
  <2> QED BY <2>2, <2>6
<1>10. DrivenRowRuns'
  BY <1>1, <1>2 DEF DrivenRowRuns, RunLanesArePlaced
<1>11. ModelsAreAccounted'
  BY <1>4, <1>7, ClassifiedFacts DEF ModelsAreAccounted
<1>12. OneIsOpen'
  <2>1. \A s \in PlanSteps : Classified(s) \in {"PENDING", "RUNNING"} => ~Open(s)
    BY ClassifiedFacts DEF OneIsOpen
  <2>2. \A s \in PlanSteps : Open(s)' <=> Open(s)
    BY <1>2 DEF Open, Unresolved
  <2> QED BY <1>1, <1>2, <1>4, <1>5, <2>1, <2>2
             DEF OneIsOpen, Scope, RunLanesArePlaced, BeforeTool, Unresolved
<1> QED BY <1>0, <1>8, <1>9, <1>10, <1>11, <1>12

LEMMA RootUpdate ==
  ASSUME NEW q \in RootRow, NEW n \in Nat, NEW b \in BOOLEAN
  PROVE  LET r == [q EXCEPT !.failures = n, !.manual = b, !.due = FALSE] IN
           r \in RootRow /\ r.status = q.status
  BY DEF RootRow

LEMMA ScopeMovesInv ==
  ASSUME RInv, NEW l \in Lanes, Rehydrate(l) \/ RecoveryFails(l)
  PROVE  RInv'
<1> USE DEF RInv
<1>0. TokensAreApart' /\ NobodyGains
  BY ControlKeeps DEF Rehydrate, RecoveryFails
<1>1. root' \in RootRow /\ root'.status = root.status
  <2>1. CASE Rehydrate(l)
    BY <2>1 DEF Rehydrate, RecoveryTypeOK
  <2>2. CASE RecoveryFails(l)
    <3> DEFINE n == IF root.failures < MaxRecoveries THEN root.failures + 1 ELSE root.failures
               b == root.failures + 1 >= MaxRecoveries
    <3>1. n \in Nat /\ b \in BOOLEAN /\ root \in RootRow
      BY DEF RecoveryTypeOK, RootRow
    <3>2. root' = [root EXCEPT !.failures = n, !.manual = b, !.due = FALSE]
      BY <2>2 DEF RecoveryFails
    <3> HIDE DEF n, b
    <3> QED BY <3>1, <3>2, RootUpdate
  <2> QED BY <2>1, <2>2
<1>2. /\ lane[l] \in {"claimed", "hydrating"}
      /\ \/ /\ lane[l] = "hydrating"
            /\ lane' = [lane EXCEPT ![l] = "running"] /\ UNCHANGED <<todo, attached>>
         \/ /\ lane' = [lane EXCEPT ![l] = "idle"] /\ todo' = [todo EXCEPT ![l] = {}]
            /\ attached' = [attached EXCEPT ![l] = NoIdent]
      /\ UNCHANGED <<rows, models, tools, drive, abandoned>>
  BY DEF Rehydrate, RecoveryFails, MoveLane
<1>3. RecoveryTypeOK'
  BY <1>1, <1>2 DEF RecoveryTypeOK
<1>4. NothingBeforeCreation' /\ DrivenRowRuns'
  BY <1>0, <1>1, <1>2 DEF NothingBeforeCreation, DrivenRowRuns, NobodyGains
<1>7. RunLanesArePlaced'
  <2>1. \A s \in PlanSteps : drive[l][s].pc = "none"
    BY <1>2 DEF RunLanesArePlaced
  <2>2. /\ \A m \in Lanes \ {l} : lane'[m] = lane[m] /\ todo'[m] = todo[m]
        /\ lane'[l] # "selected"
    BY <1>2 DEF RecoveryTypeOK
  <2> QED BY <1>0, <1>1, <1>2, <2>1, <2>2 DEF RunLanesArePlaced, NobodyGains
<1>5. ModelsAreAccounted'
  BY <1>0, <1>2 DEF ModelsAreAccounted, RecoveryTypeOK, NobodyGains, Scope
<1>6. OneIsOpen'
  BY <1>0, <1>2 DEF OneIsOpen, RecoveryTypeOK, NobodyGains, Scope, Open, Unresolved
<1> QED BY <1>0, <1>3, <1>4, <1>5, <1>6, <1>7

LEMMA StartRowInv ==
  ASSUME RInv, NEW l \in Lanes, NEW s \in PlanSteps, StartRow(l, s)
  PROVE  RInv'
<1> USE DEF RInv
<1>0. TokensAreApart' /\ NobodyGains
  BY ControlKeeps DEF StartRow
<1>1. /\ lane[l] = "running" /\ s \in todo[l] /\ todo' = [todo EXCEPT ![l] = @ \ {s}]
      /\ UNCHANGED <<control, root, models, tools, lane, attached, abandoned>>
  BY DEF StartRow
<1>2. CASE UNCHANGED <<rows, drive>>
  <2>1. RecoveryTypeOK'
    BY <1>1, <1>2 DEF RecoveryTypeOK
  <2>2. RunLanesArePlaced' /\ NothingBeforeCreation' /\ DrivenRowRuns'
    BY <1>0, <1>1, <1>2 DEF RunLanesArePlaced, NothingBeforeCreation, DrivenRowRuns, RecoveryTypeOK,
                            NobodyGains
  <2>3. ModelsAreAccounted'
    BY <1>0, <1>1, <1>2 DEF ModelsAreAccounted, RecoveryTypeOK, NobodyGains, Scope
  <2>4. OneIsOpen'
    BY <1>0, <1>1, <1>2 DEF OneIsOpen, RecoveryTypeOK, NobodyGains, Scope, Open, Unresolved
  <2> QED BY <1>0, <2>1, <2>2, <2>3, <2>4
<1>3. CASE Current(l) /\ rows[s].status \in {"PENDING", "RUNNING"} /\ ~UNCHANGED <<rows, drive>>
  <2> DEFINE n == rows[s].attempt + IF rows[s].status = "PENDING" THEN 1 ELSE 0
             d == [pc |-> "driving", attempt |-> n,
                   ident |-> IF attached[l] = NoIdent THEN <<s, n>> ELSE attached[l]]
  <2>0. \A m \in Lanes \ {l} : ~Current(m)'
    BY <1>0, <1>3, CurrentIsOne DEF NobodyGains
  <2>1. /\ n <= MaxDrives /\ rows' = [rows EXCEPT ![s] = [status |-> "RUNNING", attempt |-> n]]
        /\ drive' = [drive EXCEPT ![l][s] = d]
    BY <1>3 DEF StartRow
  <2>2. n \in Drives
    BY <1>3, <2>1, RecoveryAssumption
       DEF RecoveryAssumption, ModelsAreAccounted, RecoveryTypeOK, StepRow, Drives
  <2>3. n \in Nat /\ n > 0
    BY <2>2, RecoveryAssumption DEF RecoveryAssumption, Drives
  <2> HIDE DEF n
  <2>4. d \in DriveRow /\ d.pc = "driving" /\ d.ident # NoIdent
    BY <2>2, <2>3, RecoveryAssumption
       DEF RecoveryAssumption, RecoveryTypeOK, DriveRow, DrivePlaces, Idents, Drives
  <2> HIDE DEF d
  <2>5. /\ drive' \in [Lanes -> [PlanSteps -> DriveRow]] /\ drive'[l][s] = d
        /\ \A m \in Lanes, t \in PlanSteps : m # l \/ t # s => drive'[m][t] = drive[m][t]
    <3>1. /\ drive' = [drive EXCEPT ![l] = [drive[l] EXCEPT ![s] = d]]
          /\ drive[l] \in [PlanSteps -> DriveRow]
      BY <2>1 DEF RecoveryTypeOK
    <3> QED BY <2>4, <3>1 DEF RecoveryTypeOK
  <2>6. /\ rows' \in [PlanSteps -> StepRow] /\ rows'[s].status = "RUNNING" /\ rows'[s].attempt > 0
        /\ \A t \in PlanSteps \ {s} : rows'[t] = rows[t]
    BY <2>1, <2>3 DEF RecoveryTypeOK, StepRow
  <2>7. RecoveryTypeOK'
    BY <1>1, <2>5, <2>6 DEF RecoveryTypeOK
  <2>8. RunLanesArePlaced' /\ NothingBeforeCreation'
    BY <1>0, <1>1, <2>4, <2>5
       DEF RunLanesArePlaced, NothingBeforeCreation, RecoveryTypeOK, NobodyGains
  <2>9. DrivenRowRuns'
    BY <1>0, <2>0, <2>5, <2>6 DEF DrivenRowRuns, NobodyGains
  <2>10. ModelsAreAccounted'
    <3>1. ~models[s].open
      BY <1>1, <1>3 DEF ModelsAreAccounted, Scope, RunLanesArePlaced
    <3> QED BY <1>0, <1>1, <1>3, <2>0, <2>5, <2>6, <3>1 DEF ModelsAreAccounted, NobodyGains, Scope
  <2>11. OneIsOpen'
    <3>1. ~Open(s)
      BY <1>1, <1>3 DEF OneIsOpen, Scope
    <3>2. \A t \in PlanSteps : Open(t)' <=> Open(t)
      BY <1>1 DEF Open, Unresolved
    <3>3. todo' \in [Lanes -> SUBSET PlanSteps] /\ \A m \in Lanes : todo'[m] \subseteq todo[m]
      BY <1>1 DEF RecoveryTypeOK
    <3>4. \A t \in PlanSteps : \A i, j \in IdentsOf(t) : Unresolved(i)' /\ Unresolved(j)' => i = j
      BY <1>1 DEF OneIsOpen, Unresolved
    <3>5. \A m \in Lanes : Scope(m)' => m = l /\ Scope(l)
      BY <1>0, <1>1, <2>0 DEF Scope, NobodyGains
    <3>6. \A t \in PlanSteps : rows'[t].status = "PENDING" => rows[t].status = "PENDING"
      BY <2>6
    <3>7. \A t \in PlanSteps \ {s} : drive'[l][t] = drive[l][t]
      BY <2>5
    <3> QED BY <3>1, <3>2, <3>3, <3>4, <3>5, <3>6, <3>7 DEF OneIsOpen
  <2> QED BY <1>0, <2>7, <2>8, <2>9, <2>10, <2>11
<1> QED BY <1>2, <1>3 DEF StartRow

\* A drive moves on: it never goes back before its tool.  What happens to the
\* tools meanwhile settles some and opens none.
LEMMA DriveInv ==
  ASSUME RInv, TokensAreApart', NobodyGains,
         NEW l \in Lanes, NEW s \in PlanSteps, NEW p \in DrivePlaces \ {"thinking"},
         MoveDrive(l, s, p), lane[l] = "running",
         drive[l][s].pc \notin {"none", "thinking"} \/ (drive[l][s].pc # "none" /\ ~Current(l)),
         p \in BeforeTool => drive[l][s].pc \in BeforeTool,
         tools' \in [Idents -> {"none", "STARTED", "UNKNOWN", "COMMITTED", "NOT_COMMITTED"}],
         \A i \in Idents : Unresolved(i)' => Unresolved(i),
         root.status = "none" => tools' = tools,
         UNCHANGED <<root, rows, models, lane, todo, attached, abandoned>>
  PROVE  RInv'
<1> USE DEF RInv
<1>1. /\ drive' \in [Lanes -> [PlanSteps -> DriveRow]]
      /\ drive'[l][s].pc = p /\ drive'[l][s].ident = drive[l][s].ident
      /\ \A m \in Lanes, t \in PlanSteps : m # l \/ t # s => drive'[m][t] = drive[m][t]
  BY MoveDriveFacts
<1>2. RecoveryTypeOK'
  BY <1>1 DEF RecoveryTypeOK
<1>3. RunLanesArePlaced' /\ NothingBeforeCreation'
  BY <1>1 DEF RunLanesArePlaced, NothingBeforeCreation, NobodyGains
<1>4. DrivenRowRuns'
  BY <1>1 DEF DrivenRowRuns, NobodyGains
<1>5. ModelsAreAccounted'
  BY <1>1 DEF ModelsAreAccounted, NobodyGains, Scope
<1>6. OneIsOpen'
  <2>1. \A t \in PlanSteps : IdentsOf(t) \subseteq Idents
    BY DEF IdentsOf, Idents
  <2>2. \A t \in PlanSteps : Open(t)' => Open(t)
    BY <2>1 DEF Open
  <2>3. \A m \in Lanes : Scope(m)' => Scope(m)
    BY DEF Scope, NobodyGains
  <2>4. \A m \in Lanes, t \in PlanSteps :
             drive'[m][t].pc \in BeforeTool => drive[m][t].pc \in BeforeTool
    BY <1>1
  <2> QED BY <2>1, <2>2, <2>3, <2>4 DEF OneIsOpen
<1> QED BY <1>2, <1>3, <1>4, <1>5, <1>6

LEMMA ModelInv ==
  ASSUME RInv, NEW l \in Lanes, NEW s \in PlanSteps,
         NEW p \in {"driving", "thinking", "decided", "failing"},
         TokensAreApart', NobodyGains, Current(l), lane[l] = "running",
         drive[l][s].pc \in BeforeTool, MoveDrive(l, s, p),
         models' \in [PlanSteps -> ModelRow],
         models'[s].open <=> p = "thinking", models'[s].unknown >= models[s].unknown,
         \A t \in PlanSteps \ {s} : models'[t] = models[t],
         UNCHANGED <<root, rows, tools, lane, todo, attached, abandoned>>
  PROVE  RInv'
<1> USE DEF RInv
<1>0. \A m \in Lanes \ {l} : ~Current(m)'
  BY CurrentIsOne DEF NobodyGains
<1>1. /\ drive' \in [Lanes -> [PlanSteps -> DriveRow]]
      /\ drive'[l][s].pc = p /\ drive'[l][s].ident = drive[l][s].ident
      /\ \A m \in Lanes, t \in PlanSteps : m # l \/ t # s => drive'[m][t] = drive[m][t]
  BY MoveDriveFacts DEF DrivePlaces
<1>2. RecoveryTypeOK'
  BY <1>1 DEF RecoveryTypeOK
<1>3. RunLanesArePlaced'
  BY <1>1 DEF RunLanesArePlaced, NobodyGains, BeforeTool
<1>4. NothingBeforeCreation' /\ DrivenRowRuns'
  BY <1>1 DEF NothingBeforeCreation, DrivenRowRuns, NobodyGains, BeforeTool
<1>5. ModelsAreAccounted'
  <2>1. rows[s].status = "RUNNING"
    BY DEF DrivenRowRuns, BeforeTool
  <2>2. \A t \in PlanSteps :
             abandoned[t] \in Nat /\ models[t].unknown \in Nat /\ models'[t].unknown \in Nat
    BY DEF RecoveryTypeOK, ModelRow
  <2> QED BY <1>0, <1>1, <2>1, <2>2 DEF ModelsAreAccounted, NobodyGains, Scope
<1>6. OneIsOpen'
  <2>1. \A t \in PlanSteps : Open(t)' <=> Open(t)
    BY DEF Open, Unresolved
  <2>2. \A m \in Lanes : Scope(m)' => Scope(m)
    BY DEF Scope, NobodyGains
  <2>3. \A m \in Lanes, t \in PlanSteps :
             drive'[m][t].pc \in BeforeTool => drive[m][t].pc \in BeforeTool
    BY <1>1
  <2> QED BY <2>1, <2>2, <2>3 DEF OneIsOpen, Unresolved
<1> QED BY <1>2, <1>3, <1>4, <1>5, <1>6

LEMMA ThinkInv ==
  ASSUME RInv, NEW l \in Lanes, NEW s \in PlanSteps, StartModel(l, s) \/ FinishModel(l, s)
  PROVE  RInv'
<1> USE DEF RInv, Driving
<1>0. TokensAreApart' /\ NobodyGains
  BY ControlKeeps DEF StartModel, FinishModel
<1>1. models \in [PlanSteps -> ModelRow] /\ models[s] \in ModelRow /\ models[s].unknown \in Nat
  BY DEF RecoveryTypeOK, ModelRow
<1>2. CASE StartModel(l, s)
  <2>1. /\ models' \in [PlanSteps -> ModelRow]
        /\ models'[s].open /\ models'[s].unknown = models[s].unknown
        /\ \A t \in PlanSteps \ {s} : models'[t] = models[t]
    BY <1>1, <1>2 DEF StartModel, ModelRow
  <2>2. /\ MoveDrive(l, s, "thinking") /\ Current(l) /\ lane[l] = "running"
        /\ drive[l][s].pc \in BeforeTool
        /\ UNCHANGED <<root, rows, tools, lane, todo, attached, abandoned>>
    BY <1>2 DEF StartModel, BeforeTool
  <2>3. models'[s].unknown >= models[s].unknown /\ (models'[s].open <=> "thinking" = "thinking")
    BY <1>1, <2>1
  <2> QED BY <1>0, <2>1, <2>2, <2>3, ModelInv
<1>3. CASE FinishModel(l, s) /\ ~Current(l)
  <2>1. /\ MoveDrive(l, s, "failing") /\ lane[l] = "running" /\ drive[l][s].pc = "thinking"
        /\ UNCHANGED <<root, rows, models, tools, lane, todo, attached, abandoned>>
    BY <1>3 DEF FinishModel
  <2>2. \A i \in Idents : Unresolved(i)' => Unresolved(i)
    BY <2>1 DEF Unresolved
  <2> QED BY <1>0, <1>3, <2>1, <2>2, DriveInv DEF DrivePlaces, BeforeTool, RecoveryTypeOK
<1>4. CASE FinishModel(l, s) /\ Current(l)
  <2>1. PICK p \in {"driving", "decided", "failing"} :
              /\ MoveDrive(l, s, p)
              /\ \/ models' = [models EXCEPT ![s].open = FALSE]
                 \/ models' = [models EXCEPT ![s] = [open |-> FALSE, unknown |-> @.unknown + 1]]
    BY <1>4 DEF FinishModel
  <2>2. /\ models' \in [PlanSteps -> ModelRow]
        /\ ~models'[s].open /\ models'[s].unknown >= models[s].unknown
        /\ \A t \in PlanSteps \ {s} : models'[t] = models[t]
    <3>1. CASE models' = [models EXCEPT ![s].open = FALSE]
      <4>1. models' = [models EXCEPT ![s] = [models[s] EXCEPT !.open = FALSE]]
        BY <3>1
      <4>2. LET q == [models[s] EXCEPT !.open = FALSE] IN
              q \in ModelRow /\ ~q.open /\ q.unknown = models[s].unknown
        BY <1>1 DEF ModelRow
      <4> QED BY <1>1, <4>1, <4>2
    <3>2. CASE models' = [models EXCEPT ![s] = [open |-> FALSE, unknown |-> @.unknown + 1]]
      BY <1>1, <3>2 DEF ModelRow
    <3> QED BY <2>1, <3>1, <3>2
  <2>3. p \in {"driving", "thinking", "decided", "failing"} /\ (models'[s].open <=> p = "thinking")
    BY <2>2
  <2> QED BY <1>0, <1>4, <2>1, <2>2, <2>3, ModelInv DEF FinishModel, BeforeTool
<1> QED BY <1>2, <1>3, <1>4

LEMMA ApprovalInv ==
  ASSUME RInv, NEW l \in Lanes, NEW s \in PlanSteps, AskApproval(l, s) \/ WaitEnds(l, s)
  PROVE  RInv'
<1> USE DEF RInv, Driving
<1>0. TokensAreApart' /\ NobodyGains
  BY ControlKeeps DEF AskApproval, WaitEnds
<1>1. PICK p \in {"waiting", "cleared", "failing"} : MoveDrive(l, s, p)
  BY DEF AskApproval, WaitEnds
<1>2. /\ lane[l] = "running" /\ drive[l][s].pc \in {"decided", "waiting"}
      /\ UNCHANGED <<root, rows, models, tools, lane, todo, attached, abandoned>>
  BY DEF AskApproval, WaitEnds
<1>3. \A i \in Idents : Unresolved(i)' => Unresolved(i)
  BY <1>2 DEF Unresolved
<1> QED BY <1>0, <1>1, <1>2, <1>3, DriveInv DEF DrivePlaces, BeforeTool, RecoveryTypeOK

LEMMA ToolInv ==
  ASSUME RInv, NEW l \in Lanes, NEW s \in PlanSteps, StartTool(l, s) \/ FinishTool(l, s)
  PROVE  RInv'
<1> USE DEF RInv, Driving
<1> DEFINE i == drive[l][s].ident
<1>0. TokensAreApart' /\ NobodyGains
  BY ControlKeeps DEF StartTool, FinishTool
<1>1. /\ lane[l] = "running" /\ drive[l][s].pc \in {"decided", "cleared", "calling"}
      /\ UNCHANGED <<root, rows, models, lane, todo, attached, abandoned>>
  BY DEF StartTool, FinishTool
<1>2. i \in Idents
  BY <1>1 DEF RecoveryTypeOK, RunLanesArePlaced, DriveRow
<1>3. root.status # "none"
  BY <1>1 DEF NothingBeforeCreation
<1>4. CASE StartTool(l, s) /\ tools' # tools
  <2>0. \A m \in Lanes \ {l} : ~Current(m)'
    BY <1>0, <1>4, CurrentIsOne DEF NobodyGains, StartTool
  <2>1. /\ Current(l) /\ Bound(l, s) /\ drive[l][s].pc \in {"decided", "cleared"}
        /\ tools' = [tools EXCEPT ![i] = "STARTED"] /\ MoveDrive(l, s, "calling")
    BY <1>4 DEF StartTool
  <2>2. /\ drive' \in [Lanes -> [PlanSteps -> DriveRow]]
        /\ drive'[l][s].pc = "calling" /\ drive'[l][s].ident = drive[l][s].ident
        /\ \A m \in Lanes, t \in PlanSteps : m # l \/ t # s => drive'[m][t] = drive[m][t]
    BY <2>1, MoveDriveFacts DEF DrivePlaces
  <2>3. RecoveryTypeOK'
    BY <1>1, <1>2, <2>1, <2>2 DEF RecoveryTypeOK
  <2>4. RunLanesArePlaced' /\ NothingBeforeCreation' /\ DrivenRowRuns'
    BY <1>0, <1>1, <1>3, <2>2
       DEF RunLanesArePlaced, NothingBeforeCreation, DrivenRowRuns, NobodyGains
  <2>5. ModelsAreAccounted'
    <3>1. ~models[s].open
      BY <1>1, <2>1 DEF ModelsAreAccounted, Scope
    <3> QED BY <1>0, <1>1, <2>0, <2>2, <3>1 DEF ModelsAreAccounted, NobodyGains, Scope
  <2>6. OneIsOpen'
    <3>1. i \in IdentsOf(s) /\ \A t \in PlanSteps \ {s} : i \notin IdentsOf(t)
      BY <1>2, <2>1 DEF Bound, Idents, IdentsOf
    <3>2. \A t \in PlanSteps : IdentsOf(t) \subseteq Idents
      BY DEF IdentsOf, Idents
    <3>3. \A j \in Idents \ {i} : Unresolved(j)' <=> Unresolved(j)
      BY <2>1 DEF Unresolved, RecoveryTypeOK
    <3> HIDE DEF i
    <3>4. ~Open(s)
      BY <1>1, <2>1 DEF OneIsOpen, Scope, BeforeTool
    <3>5. \A t \in PlanSteps \ {s} : Open(t)' <=> Open(t)
      BY <3>1, <3>2, <3>3 DEF Open
    <3>6. \A t \in PlanSteps : \A j, k \in IdentsOf(t) : Unresolved(j)' /\ Unresolved(k)' => j = k
      BY <3>1, <3>2, <3>3, <3>4 DEF OneIsOpen, Open
    <3>7. rows[s].status = "RUNNING"
      BY <2>1 DEF DrivenRowRuns
    <3>8. s \notin todo[l] /\ drive'[l][s].pc \notin BeforeTool
      BY <1>1, <2>2 DEF RunLanesArePlaced, BeforeTool
    <3>9. \A m \in Lanes : Scope(m)' => m = l /\ Scope(l)
      BY <1>0, <1>1, <2>0 DEF Scope, NobodyGains
    <3> QED BY <1>1, <2>2, <3>5, <3>6, <3>7, <3>8, <3>9 DEF OneIsOpen
  <2> QED BY <1>0, <2>3, <2>4, <2>5, <2>6
<1>5. CASE StartTool(l, s) /\ tools' = tools
  <2>1. PICK p \in {"answered", "failing"} : MoveDrive(l, s, p)
    <3>1. ASSUME tools[i] = "none", tools' = [tools EXCEPT ![i] = "STARTED"] PROVE FALSE
      BY <1>2, <1>5, <3>1 DEF RecoveryTypeOK
    <3> QED BY <1>5, <3>1 DEF StartTool
  <2>2. \A j \in Idents : Unresolved(j)' => Unresolved(j)
    BY <1>5 DEF Unresolved
  <2> QED BY <1>0, <1>1, <1>3, <1>5, <2>1, <2>2, DriveInv
             DEF DrivePlaces, BeforeTool, RecoveryTypeOK
<1>6. CASE FinishTool(l, s)
  <2>1. PICK p \in {"answered", "failing"} : MoveDrive(l, s, p)
    BY <1>6 DEF FinishTool
  <2>2. \/ tools' = tools
        \/ /\ tools[i] = "STARTED"
           /\ \E v \in {"COMMITTED", "UNKNOWN"} : tools' = [tools EXCEPT ![i] = v]
    BY <1>6 DEF FinishTool
  <2>3. tools' \in [Idents -> {"none", "STARTED", "UNKNOWN", "COMMITTED", "NOT_COMMITTED"}]
    BY <1>2, <2>2 DEF RecoveryTypeOK
  <2>4. \A j \in Idents : Unresolved(j)' => Unresolved(j)
    BY <1>2, <2>2 DEF Unresolved, RecoveryTypeOK
  <2> QED BY <1>0, <1>1, <1>3, <2>1, <2>3, <2>4, DriveInv DEF DrivePlaces, BeforeTool
<1> QED BY <1>4, <1>5, <1>6

LEMMA CompleteInv ==
  ASSUME RInv, NEW l \in Lanes, NEW s \in PlanSteps, CompleteStep(l, s)
  PROVE  RInv'
<1> USE DEF RInv
<1>0. TokensAreApart' /\ NobodyGains
  BY ControlKeeps DEF CompleteStep
<1>1. /\ lane[l] = "running" /\ drive[l][s].pc \in {"decided", "answered", "failing"}
      /\ MoveDrive(l, s, "none")
      /\ UNCHANGED <<root, models, tools, lane, todo, attached, abandoned>>
  BY DEF CompleteStep
<1>2. CASE rows' = rows
  <2>1. \A j \in Idents : Unresolved(j)' => Unresolved(j)
    BY <1>1 DEF Unresolved
  <2> QED BY <1>0, <1>1, <1>2, <2>1, DriveInv DEF DrivePlaces, BeforeTool, RecoveryTypeOK
<1>3. CASE rows' # rows
  <2>0. Current(l) /\ \A m \in Lanes \ {l} : ~Current(m)'
    BY <1>0, <1>3, CurrentIsOne DEF NobodyGains, CompleteStep
  <2>1. PICK v \in {"FAILED", "SUCCEEDED"} : rows' = [rows EXCEPT ![s].status = v]
    BY <1>3 DEF CompleteStep
  <2>2. /\ rows' \in [PlanSteps -> StepRow] /\ rows'[s].status = v
        /\ \A t \in PlanSteps \ {s} : rows'[t] = rows[t]
    <3>1. rows' = [rows EXCEPT ![s] = [rows[s] EXCEPT !.status = v]] /\ rows[s] \in StepRow
      BY <2>1 DEF RecoveryTypeOK
    <3>2. LET q == [rows[s] EXCEPT !.status = v] IN q \in StepRow /\ q.status = v
      BY <3>1 DEF StepRow
    <3> QED BY <3>1, <3>2 DEF RecoveryTypeOK
  <2>3. /\ drive' \in [Lanes -> [PlanSteps -> DriveRow]]
        /\ drive'[l][s].pc = "none" /\ drive'[l][s].ident = drive[l][s].ident
        /\ \A m \in Lanes, t \in PlanSteps : m # l \/ t # s => drive'[m][t] = drive[m][t]
    BY <1>1, MoveDriveFacts DEF DrivePlaces
  <2>4. RecoveryTypeOK'
    BY <1>1, <2>2, <2>3 DEF RecoveryTypeOK
  <2>5. RunLanesArePlaced' /\ NothingBeforeCreation'
    BY <1>0, <1>1, <2>3 DEF RunLanesArePlaced, NothingBeforeCreation, NobodyGains
  <2>6. DrivenRowRuns'
    BY <1>0, <2>0, <2>2, <2>3 DEF DrivenRowRuns, NobodyGains
  <2>7. ModelsAreAccounted'
    <3>1. ~models[s].open
      BY <1>1, <2>0 DEF ModelsAreAccounted, Scope
    <3> QED BY <1>0, <1>1, <2>0, <2>2, <2>3, <3>1 DEF ModelsAreAccounted, NobodyGains, Scope
  <2>8. OneIsOpen'
    <3>1. \A t \in PlanSteps : Open(t)' <=> Open(t)
      BY <1>1 DEF Open, Unresolved
    <3>2. \A m \in Lanes : Scope(m)' => Scope(m)
      BY <1>0, <1>1 DEF Scope, NobodyGains
    <3>3. \A m \in Lanes, t \in PlanSteps :
             drive'[m][t].pc \in BeforeTool => drive[m][t].pc \in BeforeTool
      BY <2>3 DEF BeforeTool
    <3>4. \A t \in PlanSteps : rows'[t].status = "PENDING" => rows[t].status = "PENDING"
      BY <2>2
    <3> QED BY <1>1, <3>1, <3>2, <3>3, <3>4 DEF OneIsOpen, Unresolved
  <2> QED BY <1>0, <2>4, <2>5, <2>6, <2>7, <2>8
<1> QED BY <1>2, <1>3

\* A lane leaves the run: its scope has ended or its process is gone.
LEMMA LeaveInv ==
  ASSUME RInv, NEW l \in Lanes, EndRun(l) \/ LaneDies(l)
  PROVE  RInv'
<1> USE DEF RInv
<1>0. TokensAreApart' /\ NobodyGains
  BY ControlKeeps DEF EndRun, LaneDies
<1>1. PICK p \in {"gone", "idle"} : lane' = [lane EXCEPT ![l] = p]
  BY DEF EndRun, LaneDies, MoveLane
<1>2. /\ lane[l] \notin {"idle", "gone"} /\ UNCHANGED <<rows, models, tools, abandoned>>
      /\ todo' = [todo EXCEPT ![l] = {}] /\ attached' = [attached EXCEPT ![l] = NoIdent]
  BY DEF EndRun, LaneDies
<1>3. /\ drive' \in [Lanes -> [PlanSteps -> DriveRow]]
      /\ \A m \in Lanes \ {l} : drive'[m] = drive[m]
      /\ \A s \in PlanSteps : drive'[l][s].pc = "none"
  <2>1. NoDrive \in DriveRow /\ NoDrive.pc = "none"
    BY DEF NoDrive, DriveRow, DrivePlaces
  <2>2. CASE LaneDies(l)
    BY <2>1, <2>2 DEF LaneDies, RecoveryTypeOK
  <2>3. CASE EndRun(l)
    BY <2>3 DEF EndRun, RecoveryTypeOK
  <2> QED BY <2>2, <2>3
<1>4. root.status # "none" /\ root' \in RootRow /\ root'.status # "none"
  <2>1. root.status # "none"
    BY <1>2 DEF NothingBeforeCreation
  <2>2. root' = root \/ root' = [root EXCEPT !.status = "ended"]
    BY DEF EndRun, LaneDies
  <2> QED BY <2>1, <2>2 DEF RecoveryTypeOK, RootRow
<1>5. RecoveryTypeOK'
  BY <1>1, <1>2, <1>3, <1>4 DEF RecoveryTypeOK
<1>6. NothingBeforeCreation' /\ DrivenRowRuns'
  BY <1>0, <1>2, <1>3, <1>4 DEF NothingBeforeCreation, DrivenRowRuns, NobodyGains
<1>7. /\ \A m \in Lanes \ {l} : lane'[m] = lane[m] /\ todo'[m] = todo[m]
      /\ lane'[l] \in {"gone", "idle"}
  BY <1>1, <1>2 DEF RecoveryTypeOK
<1>8. RunLanesArePlaced'
  BY <1>0, <1>3, <1>4, <1>7 DEF RunLanesArePlaced, NobodyGains
<1>9. ModelsAreAccounted'
  BY <1>0, <1>2, <1>3, <1>7 DEF ModelsAreAccounted, NobodyGains, Scope
<1>10. OneIsOpen'
  BY <1>0, <1>2, <1>3, <1>7 DEF OneIsOpen, NobodyGains, Scope, Open, Unresolved
<1> QED BY <1>0, <1>5, <1>6, <1>8, <1>9, <1>10

LEMMA ReconciledInv ==
  ASSUME RInv, NEW i \in Idents, ToolReconciled(i)
  PROVE  RInv'
<1> USE DEF RInv
<1>0. TokensAreApart' /\ NobodyGains
  BY TokenMoves DEF ToolReconciled
<1>1. /\ tools' \in [Idents -> {"none", "STARTED", "UNKNOWN", "COMMITTED", "NOT_COMMITTED"}]
      /\ \A j \in Idents : Unresolved(j)' => Unresolved(j)
      /\ tools[i] # "none"
      /\ UNCHANGED <<root, rows, models, lane, todo, drive, attached, abandoned>>
  BY DEF ToolReconciled, RecoveryTypeOK, Unresolved
<1>2. RecoveryTypeOK' /\ NothingBeforeCreation'
  BY <1>1 DEF RecoveryTypeOK, NothingBeforeCreation
<1>3. RunLanesArePlaced' /\ DrivenRowRuns'
  BY <1>0, <1>1 DEF RunLanesArePlaced, DrivenRowRuns, NobodyGains
<1>4. ModelsAreAccounted'
  BY <1>0, <1>1 DEF ModelsAreAccounted, NobodyGains, Scope
<1>5. OneIsOpen'
  <2>1. \A t \in PlanSteps : IdentsOf(t) \subseteq Idents
    BY DEF IdentsOf, Idents
  <2> QED BY <1>0, <1>1, <2>1 DEF OneIsOpen, NobodyGains, Scope, Open
<1> QED BY <1>0, <1>2, <1>3, <1>4, <1>5

LEMMA RecoveryInductive == RInv /\ [RecoveryNext]_recoveryVars => RInv'
<1> SUFFICES ASSUME RInv, [RecoveryNext]_recoveryVars PROVE RInv'
  OBVIOUS
<1>1. ASSUME NEW l \in Lanes, ScopeStep(l) \/ RecoveryFails(l) \/ LaneDies(l) PROVE RInv'
  BY <1>1, TakeOverInv, PrepareInv, ScopeMovesInv, StartRowInv, ThinkInv, ApprovalInv, ToolInv,
     CompleteInv, LeaveInv DEF ScopeStep
<1>2. ASSUME NEW l \in Lanes, RenewRun(l) PROVE RInv'
  BY <1>2, ControlKeeps, StillInv DEF RenewRun, RInv, RecoveryTypeOK
<1>3. ASSUME NEW i \in Idents, ToolReconciled(i) PROVE RInv'
  BY <1>3, ReconciledInv
<1>4. CASE \/ \E i \in Idents : \/ ToolActs(i)
                                \/ \E d \in {"APPROVED", "REJECTED"} : DecideApproval(i, d)
           \/ RecoveryBackoff
           \/ UNCHANGED recoveryVars
  <2>1. UNCHANGED controlVars
    BY <1>4 DEF ToolActs, DecideApproval, RecoveryBackoff, recoveryVars
  <2>2. UNCHANGED <<rows, models, tools, lane, todo, drive, attached, abandoned>>
    BY <1>4 DEF ToolActs, DecideApproval, RecoveryBackoff, recoveryVars
  <2>3. root' = root \/ root' = [root EXCEPT !.due = TRUE]
    BY <1>4 DEF ToolActs, DecideApproval, RecoveryBackoff, recoveryVars
  <2>4. root' \in RootRow /\ root'.status = root.status
    BY <2>3 DEF RInv, RecoveryTypeOK, RootRow
  <2> QED BY <2>1, <2>2, <2>4, ControlStill, StillInv DEF RInv
<1>5. CASE LeaseTick
  BY <1>5, ControlStill, StillInv DEF LeaseTick, RInv, RecoveryTypeOK
<1> QED BY <1>1, <1>2, <1>3, <1>4, <1>5 DEF RecoveryNext

\* Recovery never starts a second invocation of a step whose first one is open,
\* and gives a step up after two abandoned model attempts (prepare_recovery).
THEOREM RecoveryIsClosed == RecoverySpec => []RecoveryFailsClosed
<1>1. RInv => RecoveryFailsClosed
  BY DEF RInv, ModelsAreAccounted, OneIsOpen, RecoveryFailsClosed, Unresolved
<1> QED BY <1>1, RecoveryInitInv, RecoveryInductive, PTL DEF RecoverySpec

LEMMA OneLaneSteps ==
  ASSUME NEW l \in Lanes,
         lane'[l] # lane[l] \/ todo'[l] # todo[l] \/ drive'[l] # drive[l],
         \A k \in Lanes \ {l} : lane'[k] = lane[k] /\ todo'[k] = todo[k] /\ drive'[k] = drive[k]
  PROVE  LaneSteps(l) /\ \A k \in Lanes : LaneSteps(k) => k = l
<1>1. LaneSteps(l)
  BY DEF LaneSteps
<1>2. ASSUME NEW k \in Lanes, LaneSteps(k)
      PROVE  k = l
  BY <1>2 DEF LaneSteps
<1> QED BY <1>1, <1>2

LEMMA RowsChange ==
  ASSUME RInv, RecoveryNext, NEW s \in PlanSteps, rows'[s] # rows[s]
  PROVE  /\ rows[s].status \in {"PENDING", "RUNNING"}
         /\ \E l \in Lanes : LaneSteps(l)
         /\ \A k \in Lanes : LaneSteps(k) => Current(k)
<1>1. PICK l \in Lanes : \/ PrepareRecovery(l)
                         \/ \E t \in PlanSteps : StartRow(l, t) \/ CompleteStep(l, t)
  <2>1. rows' # rows
    OBVIOUS
  <2> QED BY <2>1
             DEF RecoveryNext, ScopeStep, CreateRun, SelectStale, ClaimStale, Rehydrate, EndRun,
                 StartModel, FinishModel, AskApproval, WaitEnds, StartTool, FinishTool, RecoveryFails,
                 RenewRun, LaneDies, ToolActs, ToolReconciled, DecideApproval, RecoveryBackoff, LeaseTick
<1>2. /\ rows \in [PlanSteps -> StepRow] /\ rows[s] \in StepRow
      /\ lane \in [Lanes -> {"idle", "selected", "claimed", "hydrating", "running", "gone"}]
      /\ todo \in [Lanes -> SUBSET PlanSteps] /\ drive \in [Lanes -> [PlanSteps -> DriveRow]]
  BY DEF RInv, RecoveryTypeOK
<1>3. CASE PrepareRecovery(l)
  <2>1. rows'[s] = [rows[s] EXCEPT !.status = Classified(s)] /\ Current(l)
    BY <1>3 DEF PrepareRecovery
  <2>2. rows[s].status # "RUNNING" => [rows[s] EXCEPT !.status = rows[s].status] = rows[s]
    BY <1>2 DEF StepRow
  <2>3. rows[s].status \in {"PENDING", "RUNNING"}
    BY <2>1, <2>2, ClassifiedFacts DEF RInv
  <2>4. lane[l] = "claimed" /\ lane'[l] = "hydrating"
    BY <1>2, <1>3 DEF PrepareRecovery, MoveLane
  <2>5. \A k \in Lanes \ {l} : lane'[k] = lane[k] /\ todo'[k] = todo[k] /\ drive'[k] = drive[k]
    BY <1>2, <1>3 DEF PrepareRecovery, MoveLane
  <2> QED BY <2>1, <2>3, <2>4, <2>5, OneLaneSteps
<1>4. ASSUME NEW t \in PlanSteps, StartRow(l, t)
      PROVE  /\ rows[s].status \in {"PENDING", "RUNNING"}
             /\ \E k \in Lanes : LaneSteps(k)
             /\ \A k \in Lanes : LaneSteps(k) => Current(k)
  <2>1. rows[s].status \in {"PENDING", "RUNNING"} /\ Current(l)
    BY <1>2, <1>4 DEF StartRow
  <2>2. t \in todo[l] /\ t \notin todo'[l]
    BY <1>2, <1>4 DEF StartRow
  <2>3. \A k \in Lanes \ {l} : lane'[k] = lane[k] /\ todo'[k] = todo[k] /\ drive'[k] = drive[k]
    BY <1>2, <1>4 DEF StartRow
  <2> QED BY <2>1, <2>2, <2>3, OneLaneSteps
<1>5. ASSUME NEW t \in PlanSteps, CompleteStep(l, t)
      PROVE  /\ rows[s].status \in {"PENDING", "RUNNING"}
             /\ \E k \in Lanes : LaneSteps(k)
             /\ \A k \in Lanes : LaneSteps(k) => Current(k)
  <2>1. rows[s].status \in {"PENDING", "RUNNING"} /\ Current(l)
    BY <1>2, <1>5 DEF CompleteStep
  <2>2. drive[l][t].pc # "none" /\ drive'[l][t].pc = "none"
    BY <1>2, <1>5 DEF CompleteStep, MoveDrive, DriveRow
  <2>3. \A k \in Lanes \ {l} : lane'[k] = lane[k] /\ todo'[k] = todo[k] /\ drive'[k] = drive[k]
    BY <1>2, <1>5 DEF CompleteStep, MoveDrive
  <2>4. drive'[l] # drive[l]
    BY <2>2
  <2> QED BY <2>1, <2>3, <2>4, OneLaneSteps
<1> QED BY <1>1, <1>3, <1>4, <1>5

\* A step row is changed only by a lane that is the run's present owner at that
\* very step, and only one that has not ended (start_step, complete_step,
\* prepare_recovery).
THEOREM RowFencing == RecoverySpec => RowsAreFenced
<1>1. RInv /\ [RecoveryNext]_recoveryVars =>
        [\A s \in PlanSteps : rows'[s] # rows[s] =>
              /\ rows[s].status \in {"PENDING", "RUNNING"}
              /\ \E l \in Lanes : LaneSteps(l)
              /\ \A l \in Lanes : LaneSteps(l) => Current(l)]_recoveryVars
  BY RowsChange
<1> QED BY <1>1, RecoveryInitInv, RecoveryInductive, PTL DEF RecoverySpec, RowsAreFenced

-----------------------------------------------------------------------------
(* Shutdown: fully closed is true, and tools exclude each other.           *)

RunStates == {"none", "building", "ready", "executing", "ended"}
StepStates == {"none", "running", "detached"}
ToolStates == {"none", "asking", "leased", "working", "detached"}

ShutdownTypeOK ==
    /\ admission \in {"ACCEPTING", "DRAINING", "CLOSED"}
    /\ runs \in [Runs -> RunStates]
    /\ registry \subseteq Runs
    /\ stepOf \in [Runs -> StepStates]
    /\ toolOf \in [Runs -> ToolStates]
    /\ opened \in [steps : BOOLEAN, tools : BOOLEAN]
    /\ stage \in {"up", "settling", "draining", "forcing", "waiting trackers",
                  "waiting executors", "closing", "reporting", "done"}
    /\ remaining \subseteq Runs
    /\ failures \subseteq {"ADMISSION", "FORCE_ABORT", "WORKER_ADMISSION", "WORKER_DRAIN", "CLOSE"}
    /\ report \in {"none", "fully closed", "partial"}

\* A tool's thread that was not left alone has its step's thread waiting.
CallsBlockTheirStep ==
    \A r \in Runs : toolOf[r] \in {"asking", "leased", "working"} => stepOf[r] # "none"

\* The resource has one holder at most.
OneHolds ==
    \A r, s \in Runs :
        /\ toolOf[r] \in {"leased", "working", "detached"}
        /\ toolOf[s] \in {"leased", "working", "detached"}
        => r = s

\* Admission is open until the shutdown begins and never again.
AdmissionFollows == stage = "up" <=> admission = "ACCEPTING"

AfterForcing == {"waiting trackers", "waiting executors", "closing", "reporting", "done"}

\* What the stages have achieved as long as no operation failed.
CleanSoFar ==
    failures = {} =>
        /\ stage \notin {"up", "settling"} => \A r \in Runs : runs[r] # "building"
        /\ \A r \in Runs : runs[r] \in {"ready", "executing"} => r \in registry
        /\ stage = "forcing" => registry \subseteq remaining
        /\ stage \in AfterForcing => registry = {} /\ ~opened.steps /\ ~opened.tools
        /\ stage \in {"closing", "reporting", "done"} => \A r \in Runs : stepOf[r] = "none"

ReportIsEarned ==
    report = "fully closed" =>
       stage = "done" /\ failures = {} /\ \A r \in Runs : toolOf[r] = "none"

SInv ==
    /\ ShutdownTypeOK /\ CallsBlockTheirStep /\ OneHolds
    /\ AdmissionFollows /\ CleanSoFar /\ ReportIsEarned

LEMMA NoThreads ==
  ASSUME ShutdownTypeOK, Counted = 0
  PROVE  ToolThreads = {} /\ StepThreads = {}
<1>1. IsFiniteSet(ToolThreads) /\ IsFiniteSet(StepThreads)
  BY FS_Subset, ShutdownAssumption DEF ToolThreads, StepThreads
<1>2. Cardinality(ToolThreads) = 0 /\ Cardinality(StepThreads) = 0
  BY <1>1, FS_CardinalityType DEF Counted
<1> QED BY <1>1, <1>2, FS_EmptySet

LEMMA ShutdownInitInv == ShutdownInit => SInv
  BY DEF ShutdownInit, SInv, ShutdownTypeOK, CallsBlockTheirStep, OneHolds, AdmissionFollows,
         CleanSoFar, ReportIsEarned, RunStates, StepStates, ToolStates, AfterForcing

LEMMA RunStepsInv ==
  ASSUME SInv, NEW r \in Runs,
         AdmitRun(r) \/ ScopeBuilt(r) \/ ExecuteRun(r) \/ RunEnds(r)
  PROVE  SInv'
<1> USE DEF SInv, ShutdownTypeOK, CallsBlockTheirStep, OneHolds, AdmissionFollows, CleanSoFar,
            ReportIsEarned, AfterForcing
<1>1. CASE AdmitRun(r)
  BY <1>1 DEF AdmitRun, RunStates
<1>2. CASE ScopeBuilt(r)
  BY <1>2 DEF ScopeBuilt, RunStates
<1>3. CASE ExecuteRun(r)
  BY <1>3 DEF ExecuteRun, RunStates
<1>4. CASE RunEnds(r)
  BY <1>4 DEF RunEnds, RunStates
<1> QED BY <1>1, <1>2, <1>3, <1>4

LEMMA StepStepsInv ==
  ASSUME SInv, NEW r \in Runs,
         SubmitStep(r) \/ DetachStep(r) \/ StepReturns(r)
  PROVE  SInv'
<1> USE DEF SInv, ShutdownTypeOK, CallsBlockTheirStep, OneHolds, AdmissionFollows, CleanSoFar,
            ReportIsEarned, AfterForcing
<1>1. CASE SubmitStep(r)
  BY <1>1 DEF SubmitStep, StepStates
<1>2. CASE DetachStep(r)
  BY <1>2 DEF DetachStep, StepStates
<1>3. CASE StepReturns(r)
  BY <1>3 DEF StepReturns, StepStates
<1> QED BY <1>1, <1>2, <1>3

LEMMA ToolStepsInv ==
  ASSUME SInv, NEW r \in Runs,
         \/ AskForTool(r)
         \/ LeaseTool(r)
         \/ ToolNotCalled(r)
         \/ ToolThreadStarts(r)
         \/ ToolTimesOut(r)
         \/ ToolThreadEnds(r)
  PROVE  SInv'
<1> USE DEF SInv, ShutdownTypeOK, CallsBlockTheirStep, OneHolds, AdmissionFollows, CleanSoFar,
         ReportIsEarned, AfterForcing
<1>1. CASE AskForTool(r)
  BY <1>1 DEF AskForTool, ToolStates
<1>2. CASE LeaseTool(r)
  BY <1>2 DEF LeaseTool, ToolStates, ResourceHeld
<1>3. CASE ToolNotCalled(r)
  BY <1>3 DEF ToolNotCalled, ToolStates
<1>4. CASE ToolThreadStarts(r)
  BY <1>4 DEF ToolThreadStarts, ToolStates
<1>5. CASE ToolTimesOut(r)
  BY <1>5 DEF ToolTimesOut, ToolStates
<1>6. CASE ToolThreadEnds(r)
  BY <1>6 DEF ToolThreadEnds, ToolStates
<1> QED BY <1>1, <1>2, <1>3, <1>4, <1>5, <1>6

LEMMA AbortInv ==
  ASSUME SInv, NEW r \in Runs, ForceAbort(r)
  PROVE  SInv'
  BY DEF SInv, ShutdownTypeOK, CallsBlockTheirStep, OneHolds, AdmissionFollows, CleanSoFar,
         ReportIsEarned, RunStates, StepStates, ForceAbort, AfterForcing

LEMMA CoordinatorInv ==
  ASSUME SInv,
         \/ BeginShutdown
         \/ SettleAndCancel
         \/ DrainRuns
         \/ CloseWorkerAdmission
         \/ WaitTrackers
         \/ WaitExecutors
         \/ CloseServices
  PROVE  SInv'
<1> USE DEF SInv, ShutdownTypeOK, CallsBlockTheirStep, OneHolds, AdmissionFollows, CleanSoFar,
         ReportIsEarned, AfterForcing
<1>1. CASE BeginShutdown
  BY <1>1 DEF BeginShutdown
<1>2. CASE SettleAndCancel
  BY <1>2 DEF SettleAndCancel, Failed
<1>3. CASE DrainRuns
  BY <1>3 DEF DrainRuns
<1>4. CASE CloseWorkerAdmission
  <2>1. PICK ok \in BOOLEAN : /\ opened' = IF ok THEN [steps |-> FALSE, tools |-> FALSE] ELSE opened
                              /\ Failed(ok, "WORKER_ADMISSION")
    BY <1>4 DEF CloseWorkerAdmission
  <2>2. CASE ok = TRUE
    BY <1>4, <2>1, <2>2 DEF CloseWorkerAdmission, Failed
  <2>3. CASE ok = FALSE
    BY <1>4, <2>1, <2>3 DEF CloseWorkerAdmission, Failed
  <2> QED BY <2>2, <2>3
<1>5. CASE WaitTrackers
  BY <1>5 DEF WaitTrackers, Failed
<1>6. CASE WaitExecutors
  BY <1>6 DEF WaitExecutors, Failed, StepThreads
<1>7. CASE CloseServices
  BY <1>7 DEF CloseServices, Failed
<1> QED BY <1>1, <1>2, <1>3, <1>4, <1>5, <1>6, <1>7

LEMMA ReportInv ==
  ASSUME SInv, ReportShutdown
  PROVE  SInv'
  BY NoThreads
     DEF SInv, ShutdownTypeOK, CallsBlockTheirStep, OneHolds, AdmissionFollows, CleanSoFar,
         ReportIsEarned, ReportShutdown, FullyClosed, StepThreads, ToolThreads, AfterForcing,
         ToolStates

LEMMA ShutdownInductive == SInv /\ [ShutdownNext]_shutdownVars => SInv'
<1> SUFFICES ASSUME SInv, [ShutdownNext]_shutdownVars PROVE SInv'
  OBVIOUS
<1>1. ASSUME NEW r \in Runs,
             \/ AdmitRun(r) \/ ScopeBuilt(r) \/ ExecuteRun(r) \/ RunEnds(r)
             \/ SubmitStep(r) \/ DetachStep(r) \/ StepReturns(r)
             \/ AskForTool(r) \/ LeaseTool(r) \/ ToolNotCalled(r) \/ ToolThreadStarts(r)
             \/ ToolTimesOut(r) \/ ToolThreadEnds(r) \/ ForceAbort(r)
      PROVE  SInv'
  BY <1>1, RunStepsInv, StepStepsInv, ToolStepsInv, AbortInv
<1>2. CASE \/ BeginShutdown \/ SettleAndCancel \/ DrainRuns \/ CloseWorkerAdmission
           \/ WaitTrackers \/ WaitExecutors \/ CloseServices
  BY <1>2, CoordinatorInv
<1>3. CASE ReportShutdown
  BY <1>3, ReportInv
<1>4. CASE UNCHANGED shutdownVars
  BY <1>4 DEF shutdownVars, SInv, ShutdownTypeOK, CallsBlockTheirStep, OneHolds, AdmissionFollows,
              CleanSoFar, ReportIsEarned
<1> QED BY <1>1, <1>2, <1>3, <1>4 DEF ShutdownNext

\* A shutdown that reports fully closed has left no run and no thread behind,
\* and none appears later (GracefulShutdownCoordinator.shutdown).
THEOREM ClosedIsClosed == ShutdownSpec => []FullyClosedIsTrue
<1>1. SInv => FullyClosedIsTrue
  BY DEF SInv, ShutdownTypeOK, CallsBlockTheirStep, CleanSoFar, ReportIsEarned, AfterForcing,
         FullyClosedIsTrue, StepThreads, ToolThreads, RunStates
<1> QED BY <1>1, ShutdownInitInv, ShutdownInductive, PTL DEF ShutdownSpec

\* Two tool threads never hold the resource at once, detached ones included
\* (_defer_lease_release).
THEOREM ToolsExclude == ShutdownSpec => []ToolThreadsExclude
<1>1. SInv => ToolThreadsExclude
  <2> SUFFICES ASSUME SInv PROVE Cardinality(ToolThreads) <= 1
    BY DEF ToolThreadsExclude
  <2>1. \A a, b \in ToolThreads : a = b
    BY DEF SInv, OneHolds, ToolThreads
  <2> QED BY <2>1, SetOfAtMostOne
<1> QED BY <1>1, ShutdownInitInv, ShutdownInductive, PTL DEF ShutdownSpec

=============================================================================
