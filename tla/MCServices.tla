----------------------------- MODULE MCServices -----------------------------
(***************************************************************************)
(* Instances of the services around the runtime: components that share no  *)
(* state. A behaviour exercises the one that focus names, and leaves the   *)
(* others as they are after Init.  The guardian is exercised twice: with a *)
(* cycle of two versions whose claims do not expire, and, from the second  *)
(* day on, with cycles of one version and a claim that may expire.         *)
(***************************************************************************)
EXTENDS GuardianSchedule, IncidentCollection, TriageExecution, McpSession, TraceExport,
        MemoryLifecycle, TLC

CONSTANTS
    Focus,   \* components to exercise
    m1, m2, v1, v2, q1, q2

VARIABLE focus

servicesVars == <<focus, guardianVars, incidentVars, triageVars, mcpVars, exportVars,
                  memoryVars>>

MCPerCycle == <<2, 1, 1>>
MCGroupOf == (v1 :> "g") @@ (v2 :> "g")
MCConfigs == <<m1, m2>>
MCSays == (v1 :> {"topic"}) @@ (v2 :> {"topic"})
MCMaxClients == (m1 :> 3) @@ (m2 :> 1)

\* The processes of a kind have the same names in every component.
MCSymmetry == Permutations({q1, q2})

ServicesInit ==
    /\ focus \in Focus
    /\ GuardianInit /\ IncidentInit /\ TriageInit /\ McpInit /\ ExportInit
    /\ MemoryInit

ServicesNext ==
    /\ UNCHANGED focus
    /\ \/ /\ focus = "guardian" /\ GuardianNext /\ day' <= 2 /\ expiries' = 0
          /\ UNCHANGED <<incidentVars, triageVars, mcpVars, exportVars, memoryVars>>
       \/ /\ focus = "takeover" /\ GuardianNext /\ cycles'[1] = "none"
          /\ UNCHANGED <<incidentVars, triageVars, mcpVars, exportVars, memoryVars>>
       \/ /\ focus = "incident" /\ IncidentNext
          /\ UNCHANGED <<guardianVars, triageVars, mcpVars, exportVars, memoryVars>>
       \/ /\ focus = "triage" /\ TriageNext
          /\ UNCHANGED <<guardianVars, incidentVars, mcpVars, exportVars, memoryVars>>
       \/ /\ focus = "mcp" /\ McpNext
          /\ UNCHANGED <<guardianVars, incidentVars, triageVars, exportVars, memoryVars>>
       \/ /\ focus = "export" /\ ExportNext
          /\ UNCHANGED <<guardianVars, incidentVars, triageVars, mcpVars, memoryVars>>
       \/ /\ focus = "memory" /\ MemoryNext
          /\ UNCHANGED <<guardianVars, incidentVars, triageVars, mcpVars, exportVars>>

ServicesSpec == ServicesInit /\ [][ServicesNext]_servicesVars

=============================================================================
