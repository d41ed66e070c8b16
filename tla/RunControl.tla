----------------------------- MODULE RunControl -----------------------------
(***************************************************************************)
(* DurableRunControlService (core/runtime/run_control.py): the row that    *)
(* says who executes a run.                                                *)
(*                                                                         *)
(* A lane is a piece of code that holds a RunLease object: the run scope,  *)
(* the recovery lane and the reconciliation lane of every process, and the *)
(* operator's manual lane.  The lanes of one process claim under the same  *)
(* owner id (server.py passes instance_id to all of them), so two lanes of *)
(* one owner may share a token.  Every method is one transaction behind    *)
(* lock_run_scope, hence one step.  A missing row and a row created by     *)
(* request_cancel behave alike (no owner, token 0, no lease).              *)
(***************************************************************************)
EXTENDS Naturals

CONSTANTS
    Lanes,         \* holders of lease objects
    Owners,        \* owner ids
    OwnerOf,       \* the owner id a lane claims under
    LeaseTicks,    \* lease_seconds, in ticks
    MaxToken,      \* bound: takeovers
    NoOwner        \* NULL

ASSUME ControlAssumption ==
    /\ OwnerOf \in [Lanes -> Owners]
    /\ NoOwner \notin Owners
    /\ LeaseTicks \in Nat \ {0}
    /\ MaxToken \in Nat

VARIABLES
    control,   \* the row of runtime_run_control
    held       \* the token of the RunLease each lane holds; 0 is none

controlVars == <<control, held>>

ControlInit ==
    /\ control = [owner |-> NoOwner, token |-> 0, lease |-> 0,
                  state |-> "ACTIVE", cancel |-> FALSE]
    /\ held = [l \in Lanes |-> 0]

Live == control.lease > 0

\* The WHERE clause of renew, assert_current and _lock_current_lease.
Current(l) ==
    /\ held[l] # 0
    /\ control.owner = OwnerOf[l]
    /\ control.token = held[l]
    /\ control.state = "ACTIVE"
    /\ Live

-----------------------------------------------------------------------------
\* claim by the present owner with a live lease: _renew_locked.
ClaimRenews(l) ==
    /\ control.state = "ACTIVE"
    /\ control.owner = OwnerOf[l] /\ Live
    /\ control' = [control EXCEPT !.lease = LeaseTicks]
    /\ held' = [held EXCEPT ![l] = control.token]

\* claim of an unowned, new or expired run: insert or _takeover_locked.
ClaimTakesOver(l) ==
    /\ control.state = "ACTIVE"
    /\ control.owner = NoOwner \/ ~Live
    /\ control.token < MaxToken
    /\ control' = [control EXCEPT !.owner = OwnerOf[l], !.token = @ + 1,
                                  !.lease = LeaseTicks]
    /\ held' = [held EXCEPT ![l] = control.token + 1]

Claim(l) == ClaimRenews(l) \/ ClaimTakesOver(l)

\* RunControlConflict: closed, or somebody else holds a live lease.
ClaimRefused(l) ==
    \/ control.state # "ACTIVE"
    \/ Live /\ control.owner \notin {OwnerOf[l], NoOwner}

\* _maintain_durable_control of a run scope: renew, or learn that it is lost.
Renew(l) ==
    /\ Current(l)
    /\ control' = [control EXCEPT !.lease = LeaseTicks]
    /\ UNCHANGED held

\* release does not look at the lease, only at owner and token.
Release(l) ==
    /\ held[l] # 0
    /\ control' = IF /\ control.state = "ACTIVE"
                     /\ control.owner = OwnerOf[l] /\ control.token = held[l]
                    THEN [control EXCEPT !.owner = NoOwner, !.lease = 0]
                    ELSE control
    /\ held' = [held EXCEPT ![l] = 0]

RequestCancel ==
    /\ control.state = "ACTIVE" /\ ~control.cancel
    /\ control' = [control EXCEPT !.cancel = TRUE]
    /\ UNCHANGED held

\* _close_terminal_locked, in the transaction of the terminal event.
CloseTerminal ==
    control' = [control EXCEPT !.state = "CLOSED", !.owner = NoOwner, !.lease = 0]

\* The database clock.
LeaseRunsDown ==
    /\ control.lease > 0
    /\ control' = [control EXCEPT !.lease = @ - 1]
    /\ UNCHANGED held

-----------------------------------------------------------------------------
ControlRow ==
    [owner : Owners \cup {NoOwner}, token : 0..MaxToken, lease : 0..LeaseTicks,
     state : {"ACTIVE", "CLOSED"}, cancel : BOOLEAN]

ControlTypeOK ==
    /\ control \in ControlRow
    /\ held \in [Lanes -> 0..MaxToken]

=============================================================================
