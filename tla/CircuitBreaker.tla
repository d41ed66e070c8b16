--------------------------- MODULE CircuitBreaker ---------------------------
(***************************************************************************)
(* ModelCircuitBreaker (core/runtime/circuit_breaker.py): one breaker per  *)
(* key, shared by every run of the process.  A permit belongs to the       *)
(* caller that acquired it and is completed at most once; a caller that    *)
(* goes away without completing it leaves it active for ever.              *)
(***************************************************************************)
EXTENDS Naturals, FiniteSets

CONSTANTS
    Callers,      \* invocations that may run at once
    Keys,         \* breaker keys
    Threshold,    \* failure_threshold
    Cooldown,     \* recovery_timeout_seconds, in ticks
    MaxProbes,    \* half_open_max_calls
    NoKey

ASSUME BreakerAssumption ==
    /\ Threshold \in Nat \ {0} /\ Cooldown \in Nat \ {0} /\ MaxProbes \in Nat \ {0}
    /\ NoKey \notin Keys

VARIABLES
    circuit,   \* _state, _consecutive_failures and the rest of the cooldown, per key
    permit,    \* the permit each caller holds
    lost       \* probes whose caller is gone, per key

breakerVars == <<circuit, permit, lost>>

NoPermit == [key |-> NoKey, probe |-> FALSE]

BreakerInit ==
    /\ circuit = [k \in Keys |-> [state |-> "CLOSED", fails |-> 0, cool |-> 0]]
    /\ permit = [c \in Callers |-> NoPermit]
    /\ lost = [k \in Keys |-> 0]

\* _transition_if_recovered_locked
StateNow(k) ==
    IF circuit[k].state = "OPEN" /\ circuit[k].cool = 0 THEN "HALF_OPEN" ELSE circuit[k].state

ActiveProbes(k) ==
    Cardinality({c \in Callers : permit[c] = [key |-> k, probe |-> TRUE]}) + lost[k]

Permits(k) ==
    \/ StateNow(k) = "CLOSED"
    \/ StateNow(k) = "HALF_OPEN" /\ ActiveProbes(k) < MaxProbes

\* acquire_permission; asking turns a cooled OPEN into HALF_OPEN either way.
AcquirePermit(c, k) ==
    /\ Permits(k)
    /\ circuit' = [circuit EXCEPT ![k].state = StateNow(k)]
    /\ permit' = [permit EXCEPT ![c] = [key |-> k, probe |-> StateNow(k) = "HALF_OPEN"]]
    /\ UNCHANGED lost

RefusePermit(c, k) ==
    /\ ~Permits(k)
    /\ circuit' = [circuit EXCEPT ![k].state = StateNow(k)]
    /\ UNCHANGED <<permit, lost>>

\* What an outcome does to the breaker (_complete_permit).
Opened(b) == [b EXCEPT !.state = "OPEN", !.cool = Cooldown]

AfterOutcome(b, probe, outcome) ==
    CASE outcome = "abandon" -> b
      [] outcome = "success" -> [state |-> "CLOSED", fails |-> 0, cool |-> 0]
      [] outcome = "indeterminate" ->
            IF probe \/ b.state = "HALF_OPEN" THEN Opened(b) ELSE b
      [] outcome = "failure" ->
            IF probe \/ b.state = "HALF_OPEN" THEN Opened(b)
            ELSE IF b.fails + 1 >= Threshold
                   THEN [Opened(b) EXCEPT !.fails = Threshold]
                   ELSE [b EXCEPT !.fails = @ + 1]

CompletePermit(c, outcome) ==
    /\ circuit' = [circuit EXCEPT ![permit[c].key] = AfterOutcome(@, permit[c].probe, outcome)]
    /\ permit' = [permit EXCEPT ![c] = NoPermit]
    /\ UNCHANGED lost

\* The caller leaves and never completes its permit.
LosePermit(c) ==
    /\ lost' = [lost EXCEPT ![permit[c].key] = IF permit[c].probe THEN @ + 1 ELSE @]
    /\ permit' = [permit EXCEPT ![c] = NoPermit]
    /\ UNCHANGED circuit

CoolDown(k) ==
    /\ circuit[k].cool > 0
    /\ circuit' = [circuit EXCEPT ![k].cool = @ - 1]
    /\ UNCHANGED <<permit, lost>>

=============================================================================
