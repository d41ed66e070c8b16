---------------------------- MODULE MCDurableRun ----------------------------
(***************************************************************************)
(* Instances of what executes one durable run: the tool ledger with its    *)
(* lanes (processes pa and pb, the operator's lane om), and the agent loop *)
(* on the same control row. A behaviour exercises the one that focus       *)
(* names, and leaves the other as it is after Init.                        *)
(***************************************************************************)
EXTENDS DurableTools, AgentLoop, TLC

CONSTANTS
    Focus,   \* components to exercise
    pa, pb, om, e1, e2, r, m, i1

VARIABLE focus

loopOnly == <<pinned, loopRoot, frames, iters, acts, delegation, delivered, driver>>
runVars == <<focus, controlVars, toolVars, loopOnly>>

MCOwnerOf == (e1 :> pa) @@ (e2 :> pb) @@ (r :> pb) @@ (m :> om)

\* A write behind a read, a single read, and a write between two reads that may
\* go out together.
MCPay == <<[key |-> "pay"], [key |-> "read"]>>
MCRead == <<[key |-> "read"]>>
MCThree == <<[key |-> "read"], [key |-> "pay"], [key |-> "read"]>>
MCPins ==
    {[mode |-> "FAIL_FAST", max |-> [root |-> 2, child |-> 1], gated |-> {}, delegates |-> TRUE,
      batches |-> [root |-> {MCPay}, child |-> {MCPay}], flaky |-> {"child"}],
     [mode |-> "FAIL_FAST", max |-> [root |-> 1, child |-> 1], gated |-> {}, delegates |-> FALSE,
      batches |-> [root |-> {MCThree}, child |-> {}], flaky |-> {}],
     [mode |-> "BEST_EFFORT", max |-> [root |-> 2, child |-> 1], gated |-> {"pay"}, delegates |-> FALSE,
      batches |-> [root |-> {MCPay}, child |-> {}], flaky |-> {}],
     [mode |-> "BEST_EFFORT", max |-> [root |-> 3, child |-> 1], gated |-> {}, delegates |-> FALSE,
      batches |-> [root |-> {MCRead}, child |-> {}], flaky |-> {}]}

RunInit ==
    /\ focus \in Focus
    /\ Init /\ LoopInit
    /\ focus = "tools" \/ \A i \in Invs : kind[i] = "supported"
    /\ focus = "loop" \/ pinned.gated # {}

RunNext ==
    /\ UNCHANGED focus
    /\ \/ focus = "tools" /\ Next /\ UNCHANGED loopOnly
       \/ focus = "loop" /\ LoopNext /\ UNCHANGED toolVars

RunSpec == RunInit /\ [][RunNext]_runVars

\* For liveness: one executor and the reconciler of another process.
LiveOwnerOf == (e1 :> pa) @@ (r :> pb)
RunLiveSpec == RunSpec /\ Fairness

=============================================================================
