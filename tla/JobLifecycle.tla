----------------------------- MODULE JobLifecycle -----------------------------
(***************************************************************************)
(* What the durable job pipeline promises to the owner of a job, without   *)
(* workers, leases, topics or retries (the contract in                     *)
(* core/evaluation_jobs.py): a job is submitted once, may be cancelled     *)
(* until it starts, reaches one outcome, has a result exactly when it      *)
(* succeeded, and its event is acknowledged only once there is evidence of *)
(* the outcome.                                                            *)
(***************************************************************************)
CONSTANT Jobs

VARIABLES
    status,     \* where the job is
    result,     \* jobs that have a result
    evidence,   \* jobs whose outcome is recorded for deduplication
    acked       \* jobs whose event was acknowledged to the broker

vars == <<status, result, evidence, acked>>

Final == {"SUCCEEDED", "FAILED", "CANCELLED"}

Init ==
    /\ status = [j \in Jobs |-> "none"]
    /\ result = {} /\ evidence = {} /\ acked = {}

Move(j, from, to) ==
    status[j] = from /\ status' = [status EXCEPT ![j] = to]

Submit(j) == Move(j, "none", "QUEUED") /\ UNCHANGED <<result, evidence, acked>>
Cancel(j) == Move(j, "QUEUED", "CANCELLED") /\ UNCHANGED <<result, evidence, acked>>
Start(j) == Move(j, "QUEUED", "RUNNING") /\ UNCHANGED <<result, evidence, acked>>

Succeed(j) ==
    /\ Move(j, "RUNNING", "SUCCEEDED")
    /\ result' = result \cup {j}
    /\ evidence' \in {evidence, evidence \cup {j}}
    /\ UNCHANGED acked

Fail(j) ==
    /\ Move(j, "RUNNING", "FAILED")
    /\ evidence' \in {evidence, evidence \cup {j}}
    /\ UNCHANGED <<result, acked>>

Record(j) ==
    /\ status[j] \in Final
    /\ evidence' = evidence \cup {j}
    /\ UNCHANGED <<status, result, acked>>

Acknowledge(j) ==
    /\ j \in evidence
    /\ acked' = acked \cup {j}
    /\ UNCHANGED <<status, result, evidence>>

Next ==
    \E j \in Jobs : \/ Submit(j) \/ Cancel(j) \/ Start(j) \/ Succeed(j)
                    \/ Fail(j) \/ Record(j) \/ Acknowledge(j)

Spec == Init /\ [][Next]_vars

=============================================================================
