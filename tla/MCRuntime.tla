----------------------------- MODULE MCRuntime ------------------------------
(***************************************************************************)
(* Instances of the agent runtime: components that share no state. A       *)
(* behaviour exercises the one that focus names, and leaves the others as  *)
(* they are after Init.                                                    *)
(***************************************************************************)
EXTENDS ModelInvocation, RunExecution, RunRecovery, ProcessShutdown, TLC

CONSTANTS
    Focus,   \* components to exercise
    c1, c2, k1, k2, sa, sb, sf, s1, r1, r2, l1, q1, q2

VARIABLE focus

runtimeVars == <<focus, modelVars, execVars, recoveryVars, shutdownVars>>

MCChain == <<k1, k2>>
MCDependsOn == (sa :> {}) @@ (sb :> {}) @@ (sf :> {sa, sb})
MCOwnerOf == (l1 :> l1) @@ (q1 :> q1) @@ (q2 :> q2)

\* The processes of a kind have the same names in every component.
MCSymmetry == Permutations({q1, q2})

RuntimeInit ==
    /\ focus \in Focus /\ (focus = "execution" \/ failFast = TRUE)
    /\ ModelInit /\ ExecInit /\ RecoveryInit /\ ShutdownInit

RuntimeNext ==
    /\ UNCHANGED focus
    /\ \/ /\ focus = "model" /\ ModelNext
          /\ UNCHANGED <<execVars, recoveryVars, shutdownVars>>
       \/ /\ focus = "execution" /\ ExecNext
          /\ UNCHANGED <<modelVars, recoveryVars, shutdownVars>>
       \/ /\ focus = "recovery" /\ RecoveryNext
          /\ UNCHANGED <<modelVars, execVars, shutdownVars>>
       \/ /\ focus = "shutdown" /\ ShutdownNext
          /\ UNCHANGED <<modelVars, execVars, recoveryVars>>

RuntimeSpec == RuntimeInit /\ [][RuntimeNext]_runtimeVars

=============================================================================
