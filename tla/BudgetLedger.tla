---------------------------- MODULE BudgetLedger ----------------------------
(***************************************************************************)
(* BudgetLedger (core/runtime/budget.py) of one run, in one dimension: the *)
(* code repeats the same check for each.  Every method holds the ledger's  *)
(* lock, hence one step.  The callers of a delegation spend its envelope,  *)
(* which is taken out of the run's budget when it is allocated.            *)
(***************************************************************************)
EXTENDS Naturals, FiniteSets

CONSTANTS
    Spenders,     \* holders of reservations
    Delegated,    \* those that spend the delegation's envelope
    Limit,        \* the run's budget
    Envelope,     \* allocation of the delegation
    Estimate      \* what a call reserves

ASSUME BudgetAssumption ==
    /\ IsFiniteSet(Spenders) /\ Delegated \subseteq Spenders
    /\ Limit \in Nat /\ Envelope \in Nat /\ Estimate \in Nat \ {0}

VARIABLES
    committed,    \* _committed
    reserved,     \* _reservations
    allocated,    \* the delegation is in _envelopes
    envelope,     \* what is left there
    overdrawn     \* what delegated calls reported beyond their envelope

budgetVars == <<committed, reserved, allocated, envelope, overdrawn>>

BudgetInit ==
    /\ committed = 0
    /\ reserved = [s \in Spenders |-> 0]
    /\ allocated = FALSE /\ envelope = 0
    /\ overdrawn = 0

\* _reserved: the envelope and the sum of the reservations, of one estimate each.
Held == envelope + Estimate * Cardinality({s \in Spenders : reserved[s] # 0})

AllocateDelegation ==
    /\ ~allocated /\ Delegated # {}
    /\ committed + Held + Envelope <= Limit
    /\ allocated' = TRUE /\ envelope' = Envelope
    /\ UNCHANGED <<committed, reserved, overdrawn>>

\* release_delegation refuses while a delegated call is in flight.
ReleaseDelegation ==
    /\ allocated
    /\ \A s \in Delegated : reserved[s] = 0
    /\ allocated' = FALSE /\ envelope' = 0
    /\ UNCHANGED <<committed, reserved, overdrawn>>

CanReserve(s) ==
    IF s \in Delegated THEN allocated /\ Estimate <= envelope
                       ELSE committed + Held + Estimate <= Limit

ReserveBudget(s) ==
    /\ CanReserve(s)
    /\ reserved' = [reserved EXCEPT ![s] = Estimate]
    /\ envelope' = IF s \in Delegated THEN envelope - Estimate ELSE envelope
    /\ UNCHANGED <<committed, allocated, overdrawn>>

\* commit of an amount: a delegated call is charged whatever it used, and
\* raises when that is more than its envelope; any other call is refused when
\* the run cannot pay the difference.
Overdraws(s, amount) == s \in Delegated /\ amount > envelope + reserved[s]

\* MUTANT: the difference to the reservation is not checked.
CanCommitAnything(s, amount) == s \in Spenders

CanCommit(s, amount) ==
    s \in Delegated \/ committed + Held - reserved[s] + amount <= Limit

CommitBudget(s, amount) ==
    /\ CanCommit(s, amount)
    /\ committed' = committed + amount
    /\ reserved' = [reserved EXCEPT ![s] = 0]
    /\ envelope' = CASE s \notin Delegated -> envelope
                     [] Overdraws(s, amount) -> 0
                     [] OTHER -> envelope + reserved[s] - amount
    /\ overdrawn' = IF Overdraws(s, amount)
                      THEN overdrawn + amount - envelope - reserved[s] ELSE overdrawn
    /\ UNCHANGED allocated

ReleaseBudget(s) ==
    /\ reserved' = [reserved EXCEPT ![s] = 0]
    /\ envelope' = IF s \in Delegated THEN envelope + reserved[s] ELSE envelope
    /\ UNCHANGED <<committed, allocated, overdrawn>>

\* The run never spends or promises more than its budget, whatever calls
\* overlap and however far an answer's usage is from its estimate; only a
\* delegated call that has already happened may go beyond (commit).
BudgetHolds == committed + Held <= Limit + overdrawn

=============================================================================
