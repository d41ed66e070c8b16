--------------------------- MODULE Services_proofs ---------------------------
(***************************************************************************)
(* Proofs about the services beside a run: the collection and admission of *)
(* incidents, the execution of triage, the MCP sessions, the export of     *)
(* traces, the scoped memory and the guardian's schedule.  Each part       *)
(* states its inductive invariant, that the initial states satisfy it, one *)
(* lemma for each group of actions, and the theorem about the property     *)
(* that TLC also checks.                                                   *)
(***************************************************************************)
EXTENDS GuardianSchedule, IncidentCollection, TriageExecution, McpSession, TraceExport,
        MemoryLifecycle, FiniteSetTheorems, TLAPS

-----------------------------------------------------------------------------
(* Incidents: sealing under recollection, and the admission budget.        *)

Materials == [changes : SUBSET FailedVersions, complete : BOOLEAN]
CollectionRow ==
    [state : {"none", "PENDING", "CLAIMED", "COMPLETE", "MISSING"}, epoch : Nat, attempts : Nat,
     live : BOOLEAN]
CollectorRow ==
    [pc : {"idle", "fetching", "giving up"}, v : FailedVersions \cup {NoGroup}, epoch : Nat]
MemberRow == [group : Groups \cup {NoGroup}, missing : BOOLEAN]
IncidentRow == [state : {"none", "OPEN", "SEALED"}, material : Materials]
AnalysisRow == [revision : Nat, material : Materials, admitted : BOOLEAN]

CollectTypes ==
    /\ ended \in [done : SUBSET FailedVersions, day : BOOLEAN]
    /\ collection \in [FailedVersions -> CollectionRow]
    /\ collector \in [Collectors -> CollectorRow]
    /\ \A w \in Collectors : collector[w].pc # "idle" => collector[w].v \in FailedVersions
    /\ member \in [FailedVersions -> MemberRow]
    /\ incident \in [Groups -> IncidentRow]

\* Nothing is collected of a version that is not complete.
OnlyOfTheDone ==
    \A v \in FailedVersions :
        collection[v].state # "none" \/ member[v].group # NoGroup => v \in ended.done

SealedIsCollected ==
    \A v \in FailedVersions :
        member[v].group # NoGroup /\ incident[member[v].group].state = "SEALED" => Collected(v)

AllAdmitted == UNION {{g} \X Admitted(g) : g \in Groups}

AdmissionTypes ==
    /\ revisions \in [Groups -> Seq(Materials)]
    /\ jobs \in [Groups -> SUBSET AnalysisRow]
    /\ admitted \in Nat /\ admitted <= AnalysisLimit
    /\ \A g \in Groups : IsFiniteSet(Admitted(g))
    /\ IsFiniteSet(AllAdmitted)

AdmissionsCount ==
    /\ admitted = Cardinality(AllAdmitted)
    /\ \A g \in Groups : Cardinality(Admitted(g)) <= MaxJobs

\* A job is about a revision, and while there is budget the latest revision of
\* an incident with jobs is the one its last job was admitted for.
JobsAreOfRevisions ==
    \A g \in Groups :
        /\ \A j \in jobs[g] : /\ j.revision \in 1..Len(revisions[g])
                              /\ j.material = revisions[g][j.revision]
        /\ jobs[g] # {} /\ admitted < AnalysisLimit =>
             \E j \in Admitted(g) : j.revision = Len(revisions[g])

MaterialsDiffer ==
    \A g \in Groups : \A j, k \in Admitted(g) : j # k => j.material # k.material

AdmissionInv == AdmissionTypes /\ AdmissionsCount /\ JobsAreOfRevisions /\ MaterialsDiffer

IncidentInv == CollectTypes /\ OnlyOfTheDone /\ SealedIsCollected /\ AdmissionInv

LEMMA GroupsFinite == IsFiniteSet(Groups)
<1>1. IsFiniteSet(FailedVersions)
  BY IncidentAssumption DEF IncidentAssumption
<1> DEFINE T == {GroupOf[v] : v \in FailedVersions}
           f == [v \in FailedVersions |-> GroupOf[v]]
<1>2. f \in Surjection(FailedVersions, T)
  BY DEF Surjection
<1>3. IsFiniteSet(T)
  BY <1>1, <1>2, FS_Surjection
<1>4. IsFiniteSet(T \cup {Unknown})
  BY <1>3, FS_AddElement
<1> QED BY <1>4 DEF Groups

LEMMA IncidentStarts == IncidentInit => IncidentInv
<1> SUFFICES ASSUME IncidentInit PROVE IncidentInv
  OBVIOUS
<1>1. CollectTypes
  BY DEF IncidentInit, CollectTypes, CollectionRow, CollectorRow, MemberRow, IncidentRow, Materials,
         Material, NoClaim
<1>2. OnlyOfTheDone /\ SealedIsCollected
  BY DEF IncidentInit, OnlyOfTheDone, SealedIsCollected
<1>3. \A g \in Groups : Admitted(g) = {}
  BY DEF IncidentInit, Admitted
<1>4. AllAdmitted = {}
  BY <1>3 DEF AllAdmitted
<1>c. IsFiniteSet({}) /\ Cardinality({}) = 0
  BY FS_EmptySet
<1>d. AnalysisLimit \in Nat /\ 0 <= AnalysisLimit /\ 0 <= MaxJobs
  BY IncidentAssumption DEF IncidentAssumption
<1>5. AdmissionTypes
  <2>1. revisions \in [Groups -> Seq(Materials)] /\ jobs \in [Groups -> SUBSET AnalysisRow]
    BY DEF IncidentInit
  <2>2. admitted = 0
    BY DEF IncidentInit
  <2> QED BY <1>3, <1>4, <1>c, <1>d, <2>1, <2>2 DEF AdmissionTypes
<1>6. AdmissionsCount
  <2>1. admitted = 0
    BY DEF IncidentInit
  <2> QED BY <1>3, <1>4, <1>c, <1>d, <2>1 DEF AdmissionsCount
<1>7. JobsAreOfRevisions /\ MaterialsDiffer
  BY <1>3 DEF IncidentInit, JobsAreOfRevisions, MaterialsDiffer
<1> QED BY <1>1, <1>2, <1>5, <1>6, <1>7 DEF IncidentInv, AdmissionInv

LEMMA IncidentTruth == IncidentInv => AnalysisIsEarned
  BY DEF IncidentInv, AdmissionInv, SealedIsCollected, AdmissionTypes, AdmissionsCount, AllAdmitted,
         MaterialsDiffer, AnalysisIsEarned

LEMMA AdmissionSame ==
  ASSUME AdmissionInv, UNCHANGED <<revisions, jobs, admitted>>
  PROVE  AdmissionInv'
<1>1. \A g \in Groups : Admitted(g)' = Admitted(g)
  BY DEF Admitted
<1>2. AllAdmitted' = AllAdmitted
  BY <1>1 DEF AllAdmitted
<1> QED BY <1>1, <1>2 DEF AdmissionInv, AdmissionTypes, AdmissionsCount, JobsAreOfRevisions,
                          MaterialsDiffer

\* Rows of the day and of collections.
LEMMA DayRow ==
  ASSUME NEW x \in [done : SUBSET FailedVersions, day : BOOLEAN], NEW v \in FailedVersions
  PROVE  /\ [x EXCEPT !.done = x.done \cup {v}] \in [done : SUBSET FailedVersions, day : BOOLEAN]
         /\ [x EXCEPT !.done = x.done \cup {v}].done = x.done \cup {v}
         /\ [x EXCEPT !.day = TRUE] \in [done : SUBSET FailedVersions, day : BOOLEAN]
         /\ [x EXCEPT !.day = TRUE].done = x.done
  OBVIOUS

LEMMA DaySteps ==
  ASSUME IncidentInv,
         \/ \E v \in FailedVersions : VersionCompletes(v)
         \/ DayEnds
  PROVE  CollectTypes' /\ OnlyOfTheDone' /\ SealedIsCollected'
<1>1. /\ UNCHANGED <<collection, collector, member, incident>>
      /\ ended \in [done : SUBSET FailedVersions, day : BOOLEAN]
  BY DEF VersionCompletes, DayEnds, IncidentInv, CollectTypes
<1>2. ended' \in [done : SUBSET FailedVersions, day : BOOLEAN] /\ ended.done \subseteq ended'.done
  BY <1>1 DEF VersionCompletes, DayEnds
<1> QED BY <1>1, <1>2
     DEF IncidentInv, CollectTypes, OnlyOfTheDone, SealedIsCollected, Collected

\* A step that leaves members and incidents alone, and takes no collection away.
LEMMA CollectionMoves ==
  ASSUME IncidentInv, UNCHANGED <<ended, member, incident>>,
         collection' \in [FailedVersions -> CollectionRow], collector' \in [Collectors -> CollectorRow],
         \A w \in Collectors : collector'[w].pc # "idle" => collector'[w].v \in FailedVersions,
         \A v \in FailedVersions : Collected(v) => collection'[v] = collection[v],
         \A v \in FailedVersions : collection'[v].state # "none" => v \in ended.done
  PROVE  CollectTypes' /\ OnlyOfTheDone' /\ SealedIsCollected'
<1>1. CollectTypes /\ OnlyOfTheDone /\ SealedIsCollected
  BY DEF IncidentInv
<1> QED BY <1>1 DEF CollectTypes, OnlyOfTheDone, SealedIsCollected, Collected

LEMMA CollectionRows ==
  ASSUME NEW x \in CollectionRow, NEW p \in {"none", "PENDING", "CLAIMED", "COMPLETE", "MISSING"},
         NEW b \in BOOLEAN
  PROVE  /\ [x EXCEPT !.state = p] \in CollectionRow /\ [x EXCEPT !.state = p].state = p
         /\ [x EXCEPT !.live = b] \in CollectionRow /\ [x EXCEPT !.live = b].state = x.state
         /\ [x EXCEPT !.attempts = 0] \in CollectionRow /\ [x EXCEPT !.attempts = 0].state = x.state
  BY DEF CollectionRow

\* The row of a collection, after any assignment to its state and lease.
LEMMA CollectionSet ==
  ASSUME CollectTypes, NEW v \in FailedVersions, NEW y \in CollectionRow,
         collection' = [collection EXCEPT ![v] = y]
  PROVE  /\ collection' \in [FailedVersions -> CollectionRow] /\ collection'[v] = y
         /\ \A u \in FailedVersions \ {v} : collection'[u] = collection[u]
  BY DEF CollectTypes

LEMMA CollectorFree ==
  ASSUME CollectTypes, NEW w \in Collectors, collector' = [collector EXCEPT ![w] = NoClaim]
  PROVE  /\ collector' \in [Collectors -> CollectorRow]
         /\ \A x \in Collectors : collector'[x].pc # "idle" => collector'[x].v \in FailedVersions
  BY DEF CollectTypes, CollectorRow, NoClaim

LEMMA ClaimSteps ==
  ASSUME IncidentInv, NEW w \in Collectors, NEW v \in FailedVersions, ClaimCollection(w, v)
  PROVE  CollectTypes' /\ OnlyOfTheDone' /\ SealedIsCollected'
<1>0. CollectTypes /\ OnlyOfTheDone
  BY DEF IncidentInv
<1>1. UNCHANGED <<ended, member, incident>> /\ collection[v].state \in {"PENDING", "CLAIMED"}
  BY DEF ClaimCollection
<1> DEFINE exhausted == collection[v].attempts >= MaxCollects
           n == collection[v].epoch + 1
           k == collection[v].attempts + IF exhausted THEN 0 ELSE 1
           y == [state |-> "CLAIMED", epoch |-> n, live |-> TRUE, attempts |-> k]
           z == [pc |-> IF exhausted THEN "giving up" ELSE "fetching", v |-> v, epoch |-> n]
<1>2. n \in Nat /\ k \in Nat
  <2>1. collection[v].epoch \in Nat /\ collection[v].attempts \in Nat
    BY <1>0 DEF CollectTypes, CollectionRow
  <2> QED BY <2>1
<1>3. collection' = [collection EXCEPT ![v] = y] /\ collector' = [collector EXCEPT ![w] = z]
  BY DEF ClaimCollection
<1> HIDE DEF n, k
<1>4. y \in CollectionRow /\ y.state = "CLAIMED" /\ z \in CollectorRow /\ z.v = v
  BY <1>2 DEF CollectionRow, CollectorRow
<1> HIDE DEF y, z
<1>5. /\ collection' \in [FailedVersions -> CollectionRow] /\ collection'[v].state = "CLAIMED"
      /\ \A u \in FailedVersions \ {v} : collection'[u] = collection[u]
  BY <1>0, <1>3, <1>4, CollectionSet
<1>6. /\ collector' \in [Collectors -> CollectorRow]
      /\ \A x \in Collectors : collector'[x].pc # "idle" => collector'[x].v \in FailedVersions
  BY <1>0, <1>3, <1>4 DEF CollectTypes
<1>7. \A u \in FailedVersions : collection'[u].state # "none" => u \in ended.done
  BY <1>0, <1>1, <1>5 DEF OnlyOfTheDone
<1>8. \A u \in FailedVersions : Collected(u) => collection'[u] = collection[u]
  BY <1>1, <1>5 DEF Collected
<1> QED BY <1>1, <1>5, <1>6, <1>7, <1>8, CollectionMoves

\* Discovery, a failed fetch, the end of a lease or of a collector.
LEMMA WaitSteps ==
  ASSUME IncidentInv,
         \/ \E v \in FailedVersions : DiscoverCollection(v) \/ CollectionExpires(v)
         \/ \E w \in Collectors : FetchFails(w) \/ CollectorDies(w)
  PROVE  CollectTypes' /\ OnlyOfTheDone' /\ SealedIsCollected'
<1>0. CollectTypes /\ OnlyOfTheDone /\ collection \in [FailedVersions -> CollectionRow]
  BY DEF IncidentInv, CollectTypes
<1>1. UNCHANGED <<ended, member, incident>>
  BY DEF DiscoverCollection, CollectionExpires, FetchFails, CollectorDies
<1>2. /\ collector' \in [Collectors -> CollectorRow]
      /\ \A x \in Collectors : collector'[x].pc # "idle" => collector'[x].v \in FailedVersions
  <2>1. CASE UNCHANGED collector
    BY <1>0, <2>1 DEF CollectTypes
  <2>2. ASSUME NEW w \in Collectors, collector' = [collector EXCEPT ![w] = NoClaim]
        PROVE  <1>2!1 /\ <1>2!2
    BY <1>0, <2>2, CollectorFree
  <2>3. ASSUME NEW w \in Collectors, collector[w].pc # "idle",
               collector' = [collector EXCEPT ![w].pc = "giving up"]
        PROVE  <1>2!1 /\ <1>2!2
    <3> DEFINE z == [collector[w] EXCEPT !.pc = "giving up"]
    <3>1. collector' = [collector EXCEPT ![w] = z] /\ collector \in [Collectors -> CollectorRow]
      BY <1>0, <2>3 DEF CollectTypes
    <3>a. collector[w] \in CollectorRow /\ collector[w].v \in FailedVersions
      BY <1>0, <2>3, <3>1 DEF CollectTypes
    <3>2. z \in CollectorRow /\ z.v = collector[w].v
      BY <3>a DEF CollectorRow
    <3> HIDE DEF z
    <3> QED BY <1>0, <3>1, <3>a, <3>2 DEF CollectTypes
  <2> QED BY <2>1, <2>2, <2>3 DEF DiscoverCollection, CollectionExpires, FetchFails, CollectorDies
<1>3. \/ UNCHANGED collection
      \/ \E v \in FailedVersions, y \in CollectionRow :
            /\ collection' = [collection EXCEPT ![v] = y] /\ ~Collected(v)
            /\ y.state = collection[v].state \/ v \in ended.done
  <2>1. ASSUME NEW v \in FailedVersions, DiscoverCollection(v) PROVE <1>3!2
    <3>1. collection' = [collection EXCEPT ![v] = [collection[v] EXCEPT !.state = "PENDING"]]
      BY <2>1 DEF DiscoverCollection
    <3>2. [collection[v] EXCEPT !.state = "PENDING"] \in CollectionRow
      BY <1>0, CollectionRows
    <3> QED BY <2>1, <3>1, <3>2 DEF DiscoverCollection, Collected
  <2>2. ASSUME NEW v \in FailedVersions, CollectionExpires(v) PROVE <1>3!2
    <3>1. collection' = [collection EXCEPT ![v] = [collection[v] EXCEPT !.live = FALSE]]
      BY <2>2 DEF CollectionExpires
    <3>2. /\ [collection[v] EXCEPT !.live = FALSE] \in CollectionRow
          /\ [collection[v] EXCEPT !.live = FALSE].state = collection[v].state
      BY <1>0, CollectionRows
    <3> QED BY <2>2, <3>1, <3>2 DEF CollectionExpires, Collected
  <2>3. ASSUME NEW w \in Collectors, FetchFails(w), ~UNCHANGED collection PROVE <1>3!2
    <3> DEFINE v == collector[w].v
               y == [collection[v] EXCEPT !.state = "PENDING"]
               z == [y EXCEPT !.live = FALSE]
    <3>1. v \in FailedVersions /\ collection[v].state = "CLAIMED"
      BY <1>0, <2>3 DEF FetchFails, CollectTypes, Fenced
    <3>2. collection' = [collection EXCEPT ![v] = z]
      BY <2>3 DEF FetchFails
    <3>3. y \in CollectionRow
      BY <1>0, <3>1, CollectionRows
    <3>4. z \in CollectionRow
      BY <3>3, CollectionRows
    <3>5. v \in ended.done
      BY <1>0, <3>1 DEF OnlyOfTheDone
    <3> HIDE DEF z
    <3> QED BY <3>1, <3>2, <3>4, <3>5 DEF Collected
  <2> QED BY <2>1, <2>2, <2>3 DEF CollectorDies
<1>4. /\ collection' \in [FailedVersions -> CollectionRow]
      /\ \A u \in FailedVersions : Collected(u) => collection'[u] = collection[u]
      /\ \A u \in FailedVersions : collection'[u].state # "none" => u \in ended.done
  <2>1. CASE UNCHANGED collection
    BY <1>0, <2>1 DEF OnlyOfTheDone
  <2>2. ASSUME NEW v \in FailedVersions, NEW y \in CollectionRow,
               collection' = [collection EXCEPT ![v] = y], ~Collected(v),
               y.state = collection[v].state \/ v \in ended.done
        PROVE  <1>4!1 /\ <1>4!2 /\ <1>4!3
    BY <1>0, <2>2 DEF OnlyOfTheDone
  <2> QED BY <1>3, <2>1, <2>2
<1> QED BY <1>1, <1>2, <1>4, CollectionMoves

\* _refresh_draft unseals nothing and seals nothing.
LEMMA RefreshedIs ==
  ASSUME CollectTypes, NEW m, NEW touched, NEW changed, NEW v \in FailedVersions
  PROVE  LET new == Refreshed(m, touched, changed, v)
         IN  /\ new \in [Groups -> IncidentRow]
             /\ \A g \in Groups : new[g].state = "SEALED" => incident[g].state = "SEALED"
<1> DEFINE more(g) == IF g = changed THEN {v} ELSE {}
           row(g) ==
             [state |-> IF incident[g].state = "none" THEN "OPEN" ELSE incident[g].state,
              material |-> Material(incident[g].material.changes \cup more(g),
                                    \E u \in Members(g, m) : m[u].missing)]
<1>1. ASSUME NEW g \in Groups
      PROVE  row(g) \in IncidentRow /\ (row(g).state = "SEALED" => incident[g].state = "SEALED")
  <2>1. incident[g].state \in {"none", "OPEN", "SEALED"} /\ incident[g].material.changes \subseteq FailedVersions
    BY DEF CollectTypes, IncidentRow, Materials
  <2>2. Material(incident[g].material.changes \cup more(g), \E u \in Members(g, m) : m[u].missing)
          \in Materials
    BY <2>1 DEF Material, Materials
  <2> QED BY <2>1, <2>2 DEF IncidentRow
<1>2. Refreshed(m, touched, changed, v) =
        [g \in Groups |-> IF g \notin touched THEN incident[g] ELSE row(g)]
  BY DEF Refreshed
<1> HIDE DEF row
<1>3. incident \in [Groups -> IncidentRow]
  BY DEF CollectTypes
<1> QED BY <1>1, <1>2, <1>3

LEMMA IngestHolds ==
  ASSUME IncidentInv, NEW w \in Collectors, NEW missing \in BOOLEAN, Ingest(w, missing),
         collector[w].pc # "idle", collector' = [collector EXCEPT ![w] = NoClaim], UNCHANGED ended
  PROVE  CollectTypes' /\ OnlyOfTheDone' /\ SealedIsCollected'
<1> DEFINE v == collector[w].v
           g == IF missing THEN Unknown ELSE GroupOf[v]
           row == [group |-> g, missing |-> missing]
           p == IF missing THEN "MISSING" ELSE "COMPLETE"
           y == [collection[v] EXCEPT !.state = p]
           z == [y EXCEPT !.live = FALSE]
<1>0. /\ CollectTypes /\ OnlyOfTheDone /\ SealedIsCollected /\ v \in FailedVersions
      /\ collection \in [FailedVersions -> CollectionRow] /\ member \in [FailedVersions -> MemberRow]
  BY DEF IncidentInv, CollectTypes
<1>1. collection[v].state = "CLAIMED" /\ v \in ended.done
  BY <1>0 DEF Ingest, Fenced, OnlyOfTheDone
<1>2. member' = [member EXCEPT ![v] = row] /\ collection' = [collection EXCEPT ![v] = z]
  BY DEF Ingest
<1>3. incident' \in [Groups -> IncidentRow]
        /\ \A h \in Groups : incident'[h].state = "SEALED" => incident[h].state = "SEALED"
  BY <1>0, RefreshedIs DEF Ingest
<1>4. row \in MemberRow
  BY <1>0 DEF MemberRow, Groups
<1>a. p \in {"MISSING", "COMPLETE"}
  OBVIOUS
<1> HIDE DEF p
<1>b. collection[v] \in CollectionRow /\ p \in {"none", "PENDING", "CLAIMED", "COMPLETE", "MISSING"}
  BY <1>0, <1>a
<1>5. y \in CollectionRow /\ y.state = p
  BY <1>b DEF CollectionRow
<1> HIDE DEF y
<1>6. z \in CollectionRow /\ z.state \in {"MISSING", "COMPLETE"}
  BY <1>5, <1>a, CollectionRows
<1> HIDE DEF z, row
<1>7. /\ collection' \in [FailedVersions -> CollectionRow]
      /\ collection'[v].state \in {"MISSING", "COMPLETE"}
      /\ \A u \in FailedVersions \ {v} : collection'[u] = collection[u]
  BY <1>0, <1>2, <1>6
<1>8. /\ member' \in [FailedVersions -> MemberRow]
      /\ \A u \in FailedVersions \ {v} : member'[u] = member[u]
  BY <1>0, <1>2, <1>4
<1>9. CollectTypes'
  <2>1. ended' \in [done : SUBSET FailedVersions, day : BOOLEAN]
    BY <1>0 DEF CollectTypes
  <2>2. /\ collector' \in [Collectors -> CollectorRow]
        /\ \A x \in Collectors : collector'[x].pc # "idle" => collector'[x].v \in FailedVersions
    BY <1>0, CollectorFree
  <2> QED BY <1>3, <1>7, <1>8, <2>1, <2>2 DEF CollectTypes
<1> HIDE DEF v
<1>10. OnlyOfTheDone'
  BY <1>0, <1>1, <1>7, <1>8 DEF OnlyOfTheDone
<1>11. SealedIsCollected'
  <2>1. ASSUME NEW u \in FailedVersions, u # v, member'[u].group # NoGroup,
               incident'[member'[u].group].state = "SEALED"
        PROVE  Collected(u)'
    <3>1. member'[u] = member[u] /\ member[u].group \in Groups /\ collection'[u] = collection[u]
      BY <1>0, <1>7, <1>8, <2>1 DEF MemberRow
    <3> QED BY <1>0, <1>3, <2>1, <3>1 DEF SealedIsCollected, Collected
  <2> QED BY <1>7, <2>1 DEF SealedIsCollected, Collected
<1> QED BY <1>9, <1>10, <1>11

LEMMA FetchSteps ==
  ASSUME IncidentInv, NEW w \in Collectors, Fetched(w) \/ GivesUp(w)
  PROVE  CollectTypes' /\ OnlyOfTheDone' /\ SealedIsCollected'
<1>1. /\ collector[w].pc # "idle" /\ collector' = [collector EXCEPT ![w] = NoClaim]
      /\ UNCHANGED ended
      /\ (\E missing \in BOOLEAN : Ingest(w, missing)) \/ UNCHANGED <<collection, member, incident>>
  BY DEF Fetched, GivesUp
<1>2. CASE \E missing \in BOOLEAN : Ingest(w, missing)
  BY <1>1, <1>2, IngestHolds
<1>3. CASE UNCHANGED <<collection, member, incident>>
  <2>1. CollectTypes /\ OnlyOfTheDone /\ collection \in [FailedVersions -> CollectionRow]
    BY DEF IncidentInv, CollectTypes
  <2>2. /\ collector' \in [Collectors -> CollectorRow]
        /\ \A x \in Collectors : collector'[x].pc # "idle" => collector'[x].v \in FailedVersions
    BY <1>1, <2>1, CollectorFree
  <2>3. \A u \in FailedVersions : collection'[u].state # "none" => u \in ended.done
    BY <1>3, <2>1 DEF OnlyOfTheDone
  <2> QED BY <1>1, <1>3, <2>1, <2>2, <2>3, CollectionMoves
<1> QED BY <1>1, <1>2, <1>3

LEMMA RefreshSteps ==
  ASSUME IncidentInv, NEW v \in FailedVersions, RefreshCollection(v)
  PROVE  CollectTypes' /\ OnlyOfTheDone' /\ SealedIsCollected'
<1> DEFINE y == [collection[v] EXCEPT !.state = "PENDING"]
           z == [y EXCEPT !.attempts = 0]
<1>0. /\ CollectTypes /\ OnlyOfTheDone /\ SealedIsCollected
      /\ collection \in [FailedVersions -> CollectionRow] /\ member \in [FailedVersions -> MemberRow]
      /\ incident \in [Groups -> IncidentRow]
  BY DEF IncidentInv, CollectTypes
<1>1. UNCHANGED <<ended, collector, member>> /\ v \in ended.done
  BY <1>0 DEF RefreshCollection, OnlyOfTheDone
<1>2. collection' = [collection EXCEPT ![v] = z]
  BY DEF RefreshCollection
<1>3. y \in CollectionRow /\ y.state = "PENDING"
  BY <1>0, CollectionRows
<1> HIDE DEF y
<1>4. z \in CollectionRow /\ z.state = "PENDING"
  BY <1>3, CollectionRows
<1> HIDE DEF z
<1>5. /\ collection' \in [FailedVersions -> CollectionRow] /\ collection'[v].state = "PENDING"
      /\ \A u \in FailedVersions \ {v} : collection'[u] = collection[u]
  BY <1>0, <1>2, <1>4
<1>6. /\ incident' \in [Groups -> IncidentRow]
      /\ \A g \in Groups : incident'[g].state = "SEALED" =>
            incident[g].state = "SEALED" /\ member[v].group # g
  <2>1. incident' = [g \in Groups |->
           IF member[v].group = g THEN [incident[g] EXCEPT !.state = "OPEN"] ELSE incident[g]]
    BY DEF RefreshCollection, Reopened
  <2>2. \A g \in Groups : /\ [incident[g] EXCEPT !.state = "OPEN"] \in IncidentRow
                          /\ [incident[g] EXCEPT !.state = "OPEN"].state = "OPEN"
    BY <1>0 DEF IncidentRow
  <2> QED BY <1>0, <2>1, <2>2
<1>7. CollectTypes' /\ OnlyOfTheDone'
  BY <1>0, <1>1, <1>5, <1>6 DEF CollectTypes, OnlyOfTheDone
<1>8. SealedIsCollected'
  <2>1. \A u \in FailedVersions : member[u].group # NoGroup => member[u].group \in Groups
    BY <1>0 DEF MemberRow
  <2> QED BY <1>0, <1>1, <1>5, <1>6, <2>1 DEF SealedIsCollected, Collected
<1> QED BY <1>7, <1>8

LEMMA SealSteps ==
  ASSUME IncidentInv, SealDay
  PROVE  CollectTypes' /\ OnlyOfTheDone' /\ SealedIsCollected'
<1>0. CollectTypes /\ OnlyOfTheDone /\ incident \in [Groups -> IncidentRow]
  BY DEF IncidentInv, CollectTypes
<1>1. /\ UNCHANGED <<ended, collection, collector, member>>
      /\ \A v \in ended.done : Collected(v)
      /\ incident' = [g \in Groups |->
           IF incident[g].state = "OPEN" THEN [incident[g] EXCEPT !.state = "SEALED"] ELSE incident[g]]
  BY DEF SealDay
<1>2. incident' \in [Groups -> IncidentRow]
  <2>1. \A g \in Groups : [incident[g] EXCEPT !.state = "SEALED"] \in IncidentRow
    BY <1>0 DEF IncidentRow
  <2> QED BY <1>0, <1>1, <2>1
<1> QED BY <1>0, <1>1, <1>2 DEF CollectTypes, OnlyOfTheDone, SealedIsCollected, Collected

\* The revision a job is about: its last material is the incident's.
LEMMA RevisedIs ==
  ASSUME NEW g \in Groups, revisions[g] \in Seq(Materials), incident[g].material \in Materials
  PROVE  /\ Revised(g) \in Seq(Materials) /\ Len(Revised(g)) \in Nat \ {0}
         /\ Revised(g)[Len(Revised(g))] = incident[g].material
         /\ \A i \in 1..Len(revisions[g]) : Revised(g)[i] = revisions[g][i]
         /\ Len(revisions[g]) <= Len(Revised(g))
         /\ Revised(g) # revisions[g] =>
              /\ Len(Revised(g)) = Len(revisions[g]) + 1
              /\ Len(revisions[g]) > 0 => revisions[g][Len(revisions[g])] # incident[g].material
<1> DEFINE n == Len(revisions[g])
           m == incident[g].material
<1>1. n \in Nat
  OBVIOUS
<1>2. CASE n > 0 /\ revisions[g][n] = m
  <2>1. Revised(g) = revisions[g]
    BY <1>2 DEF Revised
  <2> QED BY <1>1, <1>2, <2>1
<1>3. CASE ~(n > 0 /\ revisions[g][n] = m)
  <2>1. Revised(g) = Append(revisions[g], m)
    BY <1>3 DEF Revised
  <2>2. /\ Append(revisions[g], m) \in Seq(Materials) /\ Len(Append(revisions[g], m)) = n + 1
        /\ Append(revisions[g], m)[n + 1] = m
        /\ \A i \in 1..n : Append(revisions[g], m)[i] = revisions[g][i]
    OBVIOUS
  <2> QED BY <1>1, <1>3, <2>1, <2>2
<1> QED BY <1>2, <1>3

LEMMA RoomIs ==
  ASSUME NEW a \in Nat, NEW b \in Nat
  PROVE  Min({a, b}) \in {a, b} /\ Min({a, b}) <= a /\ Min({a, b}) <= b
<1>1. \E x \in {a, b} : \A y \in {a, b} : x =< y
  OBVIOUS
<1> QED BY <1>1 DEF Min

LEMMA AdmitHolds ==
  ASSUME IncidentInv, Admit
  PROVE  AdmissionInv'
<1> DEFINE new == {g \in Groups : Analysable(g) /\ \A j \in jobs[g] : j.revision # Len(Revised(g))}
<1>0. /\ CollectTypes /\ AdmissionTypes /\ AdmissionsCount /\ JobsAreOfRevisions /\ MaterialsDiffer
      /\ revisions \in [Groups -> Seq(Materials)] /\ jobs \in [Groups -> SUBSET AnalysisRow]
      /\ admitted \in Nat /\ admitted <= AnalysisLimit /\ UNCHANGED incident
  BY DEF IncidentInv, AdmissionInv, AdmissionTypes, Admit
<1>1. PICK ready \in kSubset(Room(new), new) :
         /\ jobs' = [g \in Groups |-> IF g \notin new THEN jobs[g]
              ELSE jobs[g] \cup {[revision |-> Len(Revised(g)), material |-> incident[g].material,
                                  admitted |-> g \in ready]}]
         /\ admitted' = admitted + Cardinality(ready)
  BY DEF Admit
<1>2. revisions' = [g \in Groups |-> IF Analysable(g) THEN Revised(g) ELSE revisions[g]]
  BY DEF Admit
<1>3. /\ ready \subseteq new /\ new \subseteq Groups /\ IsFiniteSet(new) /\ IsFiniteSet(ready)
      /\ Cardinality(ready) = Room(new) /\ Cardinality(new) \in Nat
  <2>1. ready \subseteq new /\ Cardinality(ready) = Room(new) /\ new \subseteq Groups
    BY DEF kSubset
  <2>2. IsFiniteSet(new)
    BY <2>1, GroupsFinite, FS_Subset
  <2>3. IsFiniteSet(ready)
    BY <2>1, <2>2, FS_Subset
  <2> QED BY <2>1, <2>2, <2>3, FS_CardinalityType
<1>4. /\ Cardinality(ready) \in Nat /\ admitted' \in Nat /\ admitted' <= AnalysisLimit
      /\ admitted' < AnalysisLimit => ready = new
  <2> DEFINE a == Cardinality(new)
             b == AnalysisLimit - admitted
  <2>1. AnalysisLimit \in Nat
    BY IncidentAssumption DEF IncidentAssumption
  <2>2. a \in Nat /\ b \in Nat
    BY <1>0, <1>3, <2>1
  <2>3. Room(new) = Min({a, b})
    BY DEF Room
  <2> HIDE DEF a
  <2>4. /\ Cardinality(ready) \in {a, b} /\ Cardinality(ready) <= a /\ Cardinality(ready) <= b
    BY <1>3, <2>2, <2>3, RoomIs
  <2>5. Cardinality(ready) = a => ready = new
    BY <1>3, FS_Subset DEF a
  <2> QED BY <1>0, <1>1, <2>1, <2>2, <2>4, <2>5
<1> DEFINE made(g) == [revision |-> Len(Revised(g)), material |-> incident[g].material,
                      admitted |-> g \in ready]
<1>5. ASSUME NEW g \in Groups
      PROVE  /\ revisions[g] \in Seq(Materials) /\ incident[g].material \in Materials
             /\ Revised(g) \in Seq(Materials) /\ Len(Revised(g)) \in Nat \ {0}
             /\ Revised(g)[Len(Revised(g))] = incident[g].material
             /\ \A i \in 1..Len(revisions[g]) : Revised(g)[i] = revisions[g][i]
             /\ Len(revisions[g]) <= Len(Revised(g)) /\ Len(revisions[g]) \in Nat
             /\ Revised(g) # revisions[g] =>
                  /\ Len(Revised(g)) = Len(revisions[g]) + 1
                  /\ Len(revisions[g]) > 0 => revisions[g][Len(revisions[g])] # incident[g].material
  <2>1. revisions[g] \in Seq(Materials) /\ incident[g].material \in Materials
    BY <1>0 DEF CollectTypes, IncidentRow
  <2> QED BY <2>1, RevisedIs
<1>6. \A g \in Groups : /\ made(g) \in AnalysisRow /\ made(g).revision = Len(Revised(g))
                        /\ made(g).material = incident[g].material
                        /\ made(g).admitted = (g \in ready)
  BY <1>5 DEF AnalysisRow
<1>7. jobs' = [g \in Groups |-> IF g \notin new THEN jobs[g] ELSE jobs[g] \cup {made(g)}]
  BY <1>1
<1> HIDE DEF made
<1>8. /\ jobs' \in [Groups -> SUBSET AnalysisRow] /\ revisions' \in [Groups -> Seq(Materials)]
      /\ \A g \in Groups :
           /\ g \notin new => jobs'[g] = jobs[g]
           /\ g \in new => jobs'[g] = jobs[g] \cup {made(g)} /\ made(g) \notin jobs[g]
           /\ revisions'[g] = IF Analysable(g) THEN Revised(g) ELSE revisions[g]
  BY <1>0, <1>2, <1>5, <1>6, <1>7
<1>n. \A g \in new : Analysable(g)
  OBVIOUS
<1>o. \A g \in Groups : Analysable(g) /\ g \notin new => revisions'[g] = revisions[g]
  <2> SUFFICES ASSUME NEW g \in Groups, Analysable(g),
                      g \notin new PROVE revisions'[g] = revisions[g]
    OBVIOUS
  <2>1. PICK j \in jobs[g] : j.revision = Len(Revised(g))
    OBVIOUS
  <2>2. j.revision \in 1..Len(revisions[g])
    BY <1>0 DEF JobsAreOfRevisions
  <2> QED BY <1>5, <1>8, <2>1, <2>2
<1> HIDE DEF new
<1>9. \A g \in Groups : /\ g \in ready => Admitted(g)' = Admitted(g) \cup {made(g)} /\ made(g) \notin Admitted(g)
                        /\ g \notin ready => Admitted(g)' = Admitted(g)
  BY <1>3, <1>6, <1>8 DEF Admitted
<1>10. \A g \in Groups : IsFiniteSet(Admitted(g))' /\ Cardinality(Admitted(g))' <= MaxJobs
  <2> SUFFICES ASSUME NEW g \in Groups
               PROVE  IsFiniteSet(Admitted(g)') /\ Cardinality(Admitted(g)') <= MaxJobs
    OBVIOUS
  <2>1. IsFiniteSet(Admitted(g)) /\ Cardinality(Admitted(g)) <= MaxJobs
    BY <1>0 DEF AdmissionTypes, AdmissionsCount
  <2>2. CASE g \notin ready
    BY <1>9, <2>1, <2>2
  <2>3. CASE g \in ready
    <3>1. Cardinality(Admitted(g)) < MaxJobs
      BY <1>3, <1>n, <2>3 DEF Analysable
    <3>2. /\ IsFiniteSet(Admitted(g) \cup {made(g)})
          /\ Cardinality(Admitted(g) \cup {made(g)}) = Cardinality(Admitted(g)) + 1
      BY <1>9, <2>1, <2>3, FS_AddElement
    <3>3. Cardinality(Admitted(g)) \in Nat /\ MaxJobs \in Nat
      BY <2>1, FS_CardinalityType, IncidentAssumption DEF IncidentAssumption
    <3>4. Cardinality(Admitted(g) \cup {made(g)}) <= MaxJobs
      BY <3>1, <3>2, <3>3
    <3> QED BY <1>9, <2>3, <3>2, <3>4
  <2> QED BY <2>2, <2>3
<1>11. IsFiniteSet(AllAdmitted)' /\ admitted' = Cardinality(AllAdmitted)'
  <2> DEFINE f == [g \in ready |-> <<g, made(g)>>]
             T == {<<g, made(g)>> : g \in ready}
  <2>1. f \in Bijection(ready, T)
    <3>1. \A g, h \in ready : f[g] = f[h] => g = h
      OBVIOUS
    <3>2. f \in [ready -> T] /\ \A x \in T : \E g \in ready : f[g] = x
      OBVIOUS
    <3> HIDE DEF f, T
    <3> QED BY <3>1, <3>2 DEF Bijection, Injection, Surjection, IsInjective
  <2>2. IsFiniteSet(T) /\ Cardinality(T) = Cardinality(ready)
    BY <1>3, <2>1, FS_Bijection DEF ExistsBijection
  <2>3. AllAdmitted' = AllAdmitted \cup T
    BY <1>3, <1>9 DEF AllAdmitted
  <2>4. AllAdmitted \cap T = {}
    <3>1. ASSUME NEW x \in AllAdmitted, x \in T PROVE FALSE
      <4>1. PICK g \in ready : x = <<g, made(g)>>
        BY <3>1
      <4>2. PICK h \in Groups : x \in {h} \X Admitted(h)
        BY <3>1 DEF AllAdmitted
      <4>3. h = g /\ made(g) \in Admitted(g)
        BY <4>1, <4>2
      <4> QED BY <1>3, <1>9, <4>3
    <3> QED BY <3>1
  <2>5. IsFiniteSet(AllAdmitted) /\ admitted = Cardinality(AllAdmitted)
    BY <1>0 DEF AdmissionTypes, AdmissionsCount
  <2> HIDE DEF T
  <2>6. /\ IsFiniteSet(AllAdmitted \cup T)
        /\ Cardinality(AllAdmitted \cup T) =
             Cardinality(AllAdmitted) + Cardinality(T) - Cardinality(AllAdmitted \cap T)
    BY <2>2, <2>5, FS_Union
  <2>7. Cardinality({}) = 0
    BY FS_EmptySet
  <2>8. Cardinality(AllAdmitted \cup T) = admitted'
    <3>1. Cardinality(AllAdmitted \cap T) = 0
      BY <2>4, <2>7
    <3>2. Cardinality(T) \in Nat /\ Cardinality(AllAdmitted) \in Nat
      BY <1>0, <1>4, <2>2, <2>5
    <3>3. Cardinality(AllAdmitted \cup T) = Cardinality(AllAdmitted) + Cardinality(T)
      BY <2>6, <3>1, <3>2
    <3> QED BY <1>1, <2>2, <2>5, <3>3
  <2> QED BY <2>3, <2>6, <2>8
<1>12. AdmissionTypes' /\ AdmissionsCount'
  BY <1>4, <1>8, <1>10, <1>11 DEF AdmissionTypes, AdmissionsCount
<1>13. JobsAreOfRevisions'
  <2>1. ASSUME NEW g \in Groups, NEW j \in jobs'[g]
        PROVE  j.revision \in 1..Len(revisions'[g]) /\ j.material = revisions'[g][j.revision]
    <3>1. CASE j \in jobs[g]
      <4>1. j.revision \in 1..Len(revisions[g]) /\ j.material = revisions[g][j.revision]
        BY <1>0, <3>1 DEF JobsAreOfRevisions
      <4>2. revisions'[g] = Revised(g) \/ revisions'[g] = revisions[g]
        BY <1>8
      <4>3. /\ Len(revisions[g]) <= Len(Revised(g)) /\ Len(revisions[g]) \in Nat
            /\ Len(Revised(g)) \in Nat
            /\ \A i \in 1..Len(revisions[g]) : Revised(g)[i] = revisions[g][i]
        BY <1>5
      <4>4. j.revision \in 1..Len(Revised(g)) /\ Revised(g)[j.revision] = revisions[g][j.revision]
        BY <4>1, <4>3
      <4> QED BY <4>1, <4>2, <4>4
    <3>2. CASE j \notin jobs[g]
      <4>1. g \in new /\ j = made(g)
        BY <1>8, <2>1, <3>2
      <4>2. revisions'[g] = Revised(g)
        BY <1>8, <1>n, <4>1
      <4> QED BY <1>5, <1>6, <4>1, <4>2
    <3> QED BY <3>1, <3>2
  <2>2. ASSUME NEW g \in Groups, jobs'[g] # {}, admitted' < AnalysisLimit
        PROVE  \E j \in Admitted(g)' : j.revision = Len(revisions'[g])
    <3>1. ready = new
      BY <1>4, <2>2
    <3>2. CASE g \in new
      <4>1. revisions'[g] = Revised(g) /\ made(g) \in Admitted(g)'
        BY <1>8, <1>9, <1>n, <3>1, <3>2
      <4> QED BY <1>6, <4>1
    <3>3. CASE g \notin new
      <4>1. jobs[g] # {} /\ Admitted(g)' = Admitted(g) /\ revisions'[g] = revisions[g]
        BY <1>8, <1>9, <1>o, <2>2, <3>1, <3>3
      <4>2. admitted < AnalysisLimit
        BY <1>0, <1>1, <1>4, <2>2, IncidentAssumption DEF IncidentAssumption
      <4> QED BY <1>0, <4>1, <4>2 DEF JobsAreOfRevisions
    <3> QED BY <3>2, <3>3
  <2> QED BY <2>1, <2>2 DEF JobsAreOfRevisions
<1>14. MaterialsDiffer'
  <2>1. ASSUME NEW g \in ready, NEW k \in Admitted(g) PROVE k.material # incident[g].material
    <3>1. g \in Groups /\ Analysable(g)
      BY <1>3, <1>n
    <3>2. IsFiniteSet(Admitted(g)) /\ Cardinality(Admitted(g)) \in Nat /\ Cardinality(Admitted(g)) < 2
      <4>1. IsFiniteSet(Admitted(g)) /\ Cardinality(Admitted(g)) < MaxJobs
        BY <1>0, <3>1 DEF AdmissionTypes, Analysable
      <4>2. Cardinality(Admitted(g)) \in Nat
        BY <4>1, FS_CardinalityType
      <4> QED BY <4>1, <4>2, IncidentAssumption DEF IncidentAssumption
    <3>3. Cardinality(Admitted(g)) = 1
      <4>1. Cardinality(Admitted(g)) # 0
        BY <2>1, <3>2, FS_EmptySet
      <4> QED BY <3>2, <4>1
    <3>4. Admitted(g) = {k}
      BY <2>1, <3>2, <3>3, FS_Singleton
    <3>5. admitted < AnalysisLimit
      <4>1. Cardinality(ready) # 0
        BY <1>3, <2>1, FS_EmptySet
      <4> QED BY <1>0, <1>1, <1>4, <4>1, IncidentAssumption DEF IncidentAssumption
    <3>6. k.revision = Len(revisions[g]) /\ k \in jobs[g]
      BY <1>0, <3>1, <3>4, <3>5 DEF JobsAreOfRevisions, Admitted
    <3>7. k.material = revisions[g][Len(revisions[g])] /\ Len(revisions[g]) > 0
      BY <1>0, <1>5, <3>1, <3>6 DEF JobsAreOfRevisions
    <3>8. Revised(g) # revisions[g]
      BY <3>1, <3>4 DEF Analysable
    <3> QED BY <1>5, <3>1, <3>7, <3>8
  <2>2. ASSUME NEW g \in Groups, NEW j \in Admitted(g)', NEW k \in Admitted(g)', j # k
        PROVE  j.material # k.material
    <3>1. CASE g \in ready
      BY <1>0, <1>3, <1>6, <1>9, <2>1, <2>2, <3>1 DEF MaterialsDiffer
    <3>2. CASE g \notin ready
      BY <1>0, <1>9, <2>2, <3>2 DEF MaterialsDiffer
    <3> QED BY <3>1, <3>2
  <2> QED BY <2>2 DEF MaterialsDiffer
<1> QED BY <1>12, <1>13, <1>14 DEF AdmissionInv

LEMMA IncidentStep == IncidentInv /\ [IncidentNext]_incidentVars => IncidentInv'
<1> SUFFICES ASSUME IncidentInv, [IncidentNext]_incidentVars PROVE IncidentInv'
  OBVIOUS
<1>0. AdmissionInv /\ CollectTypes /\ OnlyOfTheDone /\ SealedIsCollected
  BY DEF IncidentInv
<1>1. ASSUME UNCHANGED <<revisions, jobs, admitted>>,
             CollectTypes' /\ OnlyOfTheDone' /\ SealedIsCollected'
      PROVE  IncidentInv'
  BY <1>0, <1>1, AdmissionSame DEF IncidentInv
<1>2. ASSUME UNCHANGED <<ended, collection, collector, member, incident>>
      PROVE  CollectTypes' /\ OnlyOfTheDone' /\ SealedIsCollected'
  BY <1>0, <1>2 DEF CollectTypes, OnlyOfTheDone, SealedIsCollected, Collected
<1>3. ASSUME NEW v \in FailedVersions,
             VersionCompletes(v) \/ DiscoverCollection(v) \/ CollectionExpires(v)
      PROVE  IncidentInv'
  <2>1. UNCHANGED <<revisions, jobs, admitted>>
    BY <1>3 DEF VersionCompletes, DiscoverCollection, CollectionExpires
  <2> QED BY <1>1, <1>3, <2>1, DaySteps, WaitSteps
<1>4. ASSUME NEW v \in FailedVersions, RefreshCollection(v) PROVE IncidentInv'
  BY <1>1, <1>4, RefreshSteps DEF RefreshCollection
<1>5. ASSUME NEW v \in FailedVersions, NEW w \in Collectors, ClaimCollection(w,
             v) PROVE IncidentInv'
  BY <1>1, <1>5, ClaimSteps DEF ClaimCollection
<1>6. ASSUME NEW w \in Collectors, Fetched(w) \/ GivesUp(w) PROVE IncidentInv'
  <2>1. UNCHANGED <<revisions, jobs, admitted>>
    BY <1>6 DEF Fetched, GivesUp
  <2> QED BY <1>1, <1>6, <2>1, FetchSteps
<1>7. ASSUME NEW w \in Collectors, FetchFails(w) \/ CollectorDies(w) PROVE IncidentInv'
  <2>1. UNCHANGED <<revisions, jobs, admitted>>
    BY <1>7 DEF FetchFails, CollectorDies
  <2> QED BY <1>1, <1>7, <2>1, WaitSteps
<1>8. ASSUME NEW g \in Groups, Ripens(g) PROVE IncidentInv'
  BY <1>1, <1>2, <1>8 DEF Ripens
<1>9. CASE DayEnds
  BY <1>1, <1>9, DaySteps DEF DayEnds
<1>10. CASE SealDay
  BY <1>1, <1>10, SealSteps DEF SealDay
<1>11. CASE Admit
  <2>1. UNCHANGED <<ended, collection, collector, member, incident>>
    BY <1>11 DEF Admit
  <2> QED BY <1>2, <1>11, <2>1, AdmitHolds DEF IncidentInv
<1>12. CASE UNCHANGED incidentVars
  BY <1>1, <1>2, <1>12 DEF incidentVars
<1> QED BY <1>3, <1>4, <1>5, <1>6, <1>7, <1>8, <1>9, <1>10, <1>11, <1>12 DEF IncidentNext

\* For any versions, groups and collectors: a sealed incident has nothing
\* outstanding, the day's budget and each incident's limit hold, and no incident
\* is analysed twice on the same material.
THEOREM AnalysisStaysEarned == IncidentSpec => []AnalysisIsEarned
<1>1. IncidentSpec => []IncidentInv
  BY IncidentStarts, IncidentStep, PTL DEF IncidentSpec
<1> QED BY <1>1, IncidentTruth, PTL

-----------------------------------------------------------------------------
(* Triage: one call of the model for a run, and a verdict that stays true. *)

CallStates == {"none", "STARTED", "COMPLETED", "UNKNOWN"}

RunRow == [reserved : BOOLEAN, root : {"none", "RUNNING", "SUCCEEDED", "FAILED"},
           answer : {"none", "VALID", "INVALID"}, holder : Triagers \cup {NoTriager},
           leased : BOOLEAN, call : CallStates, dispatches : Nat, receipt : SUBSET CallStates]

Places == {"resting", "reserving", "binding", "executing", "running", "asked", "answered",
           "failing", "terminal", "judging", "finishing"}

Finals == [answer : {"none", "VALID", "INVALID"},
           status : {"none", "RUNNING", "SUCCEEDED", "FAILED"},
           call : CallStates, receipt : SUBSET CallStates]

TriagerRow == [pc : Places, epoch : Nat, role : Roles, final : Finals]

TriageTypes ==
    /\ run \in [Roles -> RunRow]
    /\ triager \in [Triagers -> TriagerRow]
    /\ job \in [status : {"READY", "RUNNING", "COMPLETED", "FAILED", "UNRESOLVED"},
                epoch : Nat, live : BOOLEAN, repair : BOOLEAN,
                selected : Roles \cup {"none"}, receipt : SUBSET CallStates]

\* A run that ended keeps its root, its answer and, once written, its receipt.
RunIsSound(r) ==
    /\ run[r].dispatches = IF run[r].call = "none" THEN 0 ELSE 1
    /\ RootEnded(r) => ~run[r].leased
    /\ run[r].root = "SUCCEEDED" => run[r].answer # "none"
    /\ run[r].receipt # {} => RootEnded(r) /\ (run[r].call = "none" => run[r].receipt = {"none"})

Asked(w, r) == triager[w].pc = "asked" /\ triager[w].role = r

\* A call on its way is the one the record knows; the second run follows a first
\* one with an output that is not valid, and is bound before it begins.
TriagerIsSound(w) ==
    LET r == triager[w].role IN
    /\ triager[w].pc = "asked" => run[r].call = "STARTED"
    /\ triager[w].pc = "terminal" => RootEnded(r)
    /\ r = "SCHEMA_REPAIR" =>
         /\ run["INITIAL"].root = "SUCCEEDED" /\ run["INITIAL"].answer = "INVALID"
         /\ triager[w].pc \notin {"reserving", "binding"} => job.repair

\* What an executor has read of the run it judges is still so; only the state of
\* a call may have been made known since.
FinalIsTrue(w) ==
    LET r == triager[w].role
        final == triager[w].final
    IN
    /\ triager[w].pc = "judging" => final.receipt # {}
    /\ triager[w].pc \in {"judging", "finishing"} /\ final.receipt # {} =>
         /\ RootEnded(r) /\ final.status = run[r].root /\ final.answer = run[r].answer
         /\ final.call = "COMPLETED" => run[r].call = "COMPLETED"
         /\ final.call = "none" => final.receipt = {"none"}
    /\ triager[w].pc = "finishing" /\ final.receipt = {} => final = NoVerdict
    /\ triager[w].pc = "finishing" /\ final.receipt # {} /\ r = "INITIAL" =>
         ~(run[r].root = "SUCCEEDED" /\ run[r].answer = "INVALID")

JobIsTrue ==
    /\ job.status \notin {"READY", "RUNNING"} => ~job.live
    /\ job.status \in {"COMPLETED", "FAILED"} =>
         /\ job.selected \in Roles /\ RootEnded(job.selected) /\ RootEnded("INITIAL")
         /\ run[job.selected].call = "COMPLETED" \/ job.receipt = {"none"}
         /\ job.status = "COMPLETED" <=>
              run[job.selected].root = "SUCCEEDED" /\ run[job.selected].answer = "VALID"
         /\ job.selected = "SCHEMA_REPAIR" <=>
              run["INITIAL"].root = "SUCCEEDED" /\ run["INITIAL"].answer = "INVALID"
    /\ run["SCHEMA_REPAIR"].root # "none" => run["INITIAL"].root = "SUCCEEDED" /\ job.repair

TInv ==
    /\ TriageTypes
    /\ \A r \in Roles : RunIsSound(r)
    /\ \A r \in Roles, v, w \in Triagers : Asked(v, r) /\ Asked(w, r) => v = w
    /\ \A w \in Triagers : TriagerIsSound(w)
    /\ \A w \in Triagers : FinalIsTrue(w)
    /\ JobIsTrue

LEMMA TriageStarts == TriageInit => TInv
<1> SUFFICES ASSUME TriageInit PROVE TInv
  OBVIOUS
<1> USE TriageAssumption DEF TriageAssumption, TriageInit, NoRun, Resting, Roles
<1>1. TriageTypes
  BY DEF TriageTypes, RunRow, TriagerRow, Places, Finals, CallStates, NoVerdict, Verdict
<1>2. \A r \in Roles : RunIsSound(r)
  BY DEF RunIsSound, RootEnded
<1>3. \A w \in Triagers : TriagerIsSound(w) /\ FinalIsTrue(w)
  BY DEF TriagerIsSound, FinalIsTrue
<1>4. \A r \in Roles, v, w \in Triagers : Asked(v, r) /\ Asked(w, r) => v = w
  BY DEF Asked
<1>5. JobIsTrue
  BY DEF JobIsTrue
<1> QED BY <1>1, <1>2, <1>3, <1>4, <1>5 DEF TInv

LEMMA TriageTruth == TInv => TriageIsTruthful
<1> SUFFICES ASSUME TInv PROVE TriageIsTruthful
  OBVIOUS
<1>1. \A r \in Roles : run[r].dispatches <= 1
  BY DEF TInv, RunIsSound
<1>2. JobIsTrue
  BY DEF TInv
<1> QED BY <1>1, <1>2 DEF JobIsTrue, TriageIsTruthful

-----------------------------------------------------------------------------
(* What a step of one task leaves to the others.                           *)

\* A run that ended stays as it ended, and an answered call is answered.
RunKeeps(r) ==
    /\ RootEnded(r) => run'[r].root = run[r].root /\ run'[r].answer = run[r].answer
    /\ run[r].call = "COMPLETED" => run'[r].call = "COMPLETED"

\* The call of another task stays its own.
Spares(v, r) == Asked(v, r) => run'[r].call = run[r].call

LEMMA OthersKeep ==
  ASSUME TInv, NEW v \in Triagers, triager'[v] = triager[v],
         \A r \in Roles : RunKeeps(r) /\ Spares(v, r), job.repair => job'.repair
  PROVE  TriagerIsSound(v)' /\ FinalIsTrue(v)'
<1>1. triager[v].role \in Roles /\ "INITIAL" \in Roles
  BY DEF TInv, TriageTypes, TriagerRow, Roles
<1>2. TriagerIsSound(v)'
  BY <1>1 DEF TInv, TriagerIsSound, RunKeeps, Spares, Asked, RootEnded
<1>3. FinalIsTrue(v)'
  BY <1>1 DEF TInv, FinalIsTrue, RunKeeps, RootEnded
<1> QED BY <1>2, <1>3

LEMMA JobKeeps ==
  ASSUME TInv, UNCHANGED job, \A r \in Roles : RunKeeps(r),
         run'["SCHEMA_REPAIR"].root # "none" =>
            \/ run["SCHEMA_REPAIR"].root # "none"
            \/ run["INITIAL"].root = "SUCCEEDED" /\ job.repair
  PROVE  JobIsTrue'
<1>1. "INITIAL" \in Roles /\ "SCHEMA_REPAIR" \in Roles
  BY DEF Roles
<1>2. JobIsTrue
  BY DEF TInv
<1> QED BY <1>1, <1>2 DEF JobIsTrue, RunKeeps, RootEnded

\* A step that moves one task and writes the row of its run at most.
LEMMA TaskStep ==
  ASSUME TInv, NEW w \in Triagers, NEW q \in TriagerRow, NEW r \in Roles, NEW row \in RunRow,
         triager' = [triager EXCEPT ![w] = q], run' = [run EXCEPT ![r] = row], UNCHANGED job,
         RunIsSound(r)', RunKeeps(r), \A v \in Triagers \ {w} : Spares(v, r),
         TriagerIsSound(w)', FinalIsTrue(w)',
         q.pc = "asked" => \A v \in Triagers \ {w} : ~Asked(v, q.role),
         r = "SCHEMA_REPAIR" /\ row.root # "none" =>
            \/ run["SCHEMA_REPAIR"].root # "none"
            \/ run["INITIAL"].root = "SUCCEEDED" /\ job.repair
  PROVE  TInv'
<1>1. TriageTypes'
  BY DEF TInv, TriageTypes
<1>0. /\ run \in [Roles -> RunRow] /\ triager \in [Triagers -> TriagerRow]
  BY DEF TInv, TriageTypes
<1>2. \A s \in Roles : RunKeeps(s)
  BY <1>0 DEF RunKeeps, RootEnded
<1>3. \A s \in Roles : RunIsSound(s)'
  BY <1>0 DEF TInv, RunIsSound, RootEnded
<1>4. \A v \in Triagers \ {w} : \A s \in Roles : Spares(v, s)
  BY <1>0 DEF Spares
<1>5. \A v \in Triagers : TriagerIsSound(v)' /\ FinalIsTrue(v)'
  <2>1. ASSUME NEW v \in Triagers \ {w} PROVE TriagerIsSound(v)' /\ FinalIsTrue(v)'
    BY <1>0, <1>2, <1>4, OthersKeep
  <2> QED BY <2>1
<1>6. \A s \in Roles, u, v \in Triagers : Asked(u, s)' /\ Asked(v, s)' => u = v
  BY <1>0 DEF TInv, Asked
<1>7. JobIsTrue'
  <2>1. run'["SCHEMA_REPAIR"].root # "none" =>
            \/ run["SCHEMA_REPAIR"].root # "none"
            \/ run["INITIAL"].root = "SUCCEEDED" /\ job.repair
    BY <1>0 DEF Roles
  <2> QED BY <1>2, <2>1, JobKeeps
<1> QED BY <1>1, <1>3, <1>5, <1>6, <1>7 DEF TInv

LEMMA TaskMoves ==
  ASSUME TInv, NEW w \in Triagers, NEW q \in TriagerRow,
         triager' = [triager EXCEPT ![w] = q], UNCHANGED <<run, job>>,
         TriagerIsSound(w)', FinalIsTrue(w)', q.pc # "asked"
  PROVE  TInv'
<1>1. "INITIAL" \in Roles /\ run \in [Roles -> RunRow]
  BY DEF Roles, TInv, TriageTypes
<1>2. run' = [run EXCEPT !["INITIAL"] = run["INITIAL"]] /\ run["INITIAL"] \in RunRow
  BY <1>1
<1>3. RunIsSound("INITIAL")' /\ RunKeeps("INITIAL")
  BY <1>1 DEF TInv, RunIsSound, RunKeeps, RootEnded
<1>4. \A v \in Triagers \ {w} : Spares(v, "INITIAL")
  BY DEF Spares
<1> QED BY <1>1, <1>2, <1>3, <1>4, TaskStep

\* y is the row x of a task at another place, or with another verdict.
Moved(x, y, p, f) ==
    y \in TriagerRow /\ y.pc = p /\ y.role = x.role /\ y.epoch = x.epoch /\ y.final = f

LEMMA TaskRows ==
  ASSUME NEW x \in TriagerRow, NEW p \in Places, NEW f \in Finals
  PROVE  /\ Moved(x, [x EXCEPT !.pc = p], p, x.final)
         /\ Moved(x, [x EXCEPT !.pc = p, !.final = f], p, f)
<1>1. Moved(x, [x EXCEPT !.pc = p], p, x.final)
  BY DEF Moved, TriagerRow
<1> DEFINE y == [x EXCEPT !.pc = p]
<1>2. Moved(x, [y EXCEPT !.final = f], p, f)
  <2>1. y \in TriagerRow /\ y.pc = p /\ y.role = x.role /\ y.epoch = x.epoch
    BY <1>1 DEF Moved
  <2> HIDE DEF y
  <2> QED BY <2>1 DEF Moved, TriagerRow
<1>3. [x EXCEPT !.pc = p, !.final = f] = [y EXCEPT !.final = f]
  OBVIOUS
<1> QED BY <1>1, <1>2, <1>3

LEMMA RestingRow ==
  /\ Resting \in TriagerRow /\ Resting.pc = "resting" /\ Resting.role = "INITIAL"
  /\ NoVerdict \in Finals /\ NoVerdict.receipt = {}
  BY DEF Resting, TriagerRow, Places, Finals, CallStates, Roles, NoVerdict, Verdict, NoRun

LEMMA VerdictRow ==
  ASSUME NEW rr \in RunRow
  PROVE  /\ Verdict(rr) \in Finals /\ Verdict(rr).receipt = rr.receipt
         /\ Verdict(rr).status = rr.root /\ Verdict(rr).answer = rr.answer
         /\ Verdict(rr).call = rr.call
  BY DEF Verdict, RunRow, Finals

LEMMA TaskTypes ==
  ASSUME TInv, NEW w \in Triagers
  PROVE  /\ triager[w] \in TriagerRow /\ triager[w].role \in Roles /\ triager[w].pc \in Places
         /\ triager[w].final \in Finals /\ run[triager[w].role] \in RunRow
         /\ triager \in [Triagers -> TriagerRow] /\ run \in [Roles -> RunRow]
  BY DEF TInv, TriageTypes, TriagerRow

\* The steps of a task that write nothing.
LEMMA QuietTask ==
  ASSUME TInv, NEW w \in Triagers,
         \/ TriagerStops(w) \/ RunIsLost(w) \/ ReadReceipt(w) \/ DeadlineExceeded(w)
         \/ ReadTerminal(w) \/ RunFails(w) \/ Judge(w)
  PROVE  TInv'
<1> DEFINE r == triager[w].role
           x == triager[w]
<1>0. /\ x \in TriagerRow /\ r \in Roles /\ run[r] \in RunRow /\ x.final \in Finals
      /\ triager \in [Triagers -> TriagerRow]
      /\ TriagerIsSound(w) /\ FinalIsTrue(w) /\ RunIsSound(r)
  BY TaskTypes DEF TInv
<1>1. CASE TriagerStops(w) \/ RunIsLost(w)
  <2>1. triager' = [triager EXCEPT ![w] = Resting] /\ UNCHANGED <<run, job>>
    BY <1>1 DEF TriagerStops, RunIsLost
  <2>2. TriagerIsSound(w)' /\ FinalIsTrue(w)'
    BY <1>0, <2>1, RestingRow DEF TriagerIsSound, FinalIsTrue
  <2> QED BY <2>1, <2>2, RestingRow, TaskMoves
<1>2. CASE ReadReceipt(w)
  <2> DEFINE f == Verdict(run[r])
             y == [x EXCEPT !.pc = "judging", !.final = f]
  <2>1. /\ triager' = [triager EXCEPT ![w] = y] /\ UNCHANGED <<run, job>>
        /\ x.pc = "executing" /\ run[r].receipt # {}
    BY <1>2 DEF ReadReceipt
  <2>2. f \in Finals /\ f.receipt = run[r].receipt /\ f.status = run[r].root
        /\ f.answer = run[r].answer /\ f.call = run[r].call
    BY <1>0, VerdictRow
  <2> HIDE DEF f
  <2>3. Moved(x, y, "judging", f)
    BY <1>0, <2>2, TaskRows DEF Places
  <2> HIDE DEF y
  <2>4. /\ triager'[w] = y /\ y.pc = "judging" /\ y.role = r /\ y.final = f /\ y \in TriagerRow
        /\ run' = run /\ job' = job
    BY <1>0, <2>1, <2>3 DEF Moved
  <2>5. TriagerIsSound(w)'
    BY <1>0, <2>1, <2>4 DEF TriagerIsSound
  <2>6. FinalIsTrue(w)'
    BY <1>0, <2>1, <2>2, <2>4 DEF FinalIsTrue, RunIsSound, RootEnded
  <2> QED BY <2>1, <2>4, <2>5, <2>6, TaskMoves
<1>3. CASE DeadlineExceeded(w)
  <2> DEFINE y == [x EXCEPT !.pc = "finishing", !.final = NoVerdict]
  <2>1. /\ triager' = [triager EXCEPT ![w] = y] /\ UNCHANGED <<run, job>> /\ x.pc = "executing"
    BY <1>3 DEF DeadlineExceeded
  <2>3. Moved(x, y, "finishing", NoVerdict)
    BY <1>0, RestingRow, TaskRows DEF Places
  <2> HIDE DEF y
  <2>4. /\ triager'[w] = y /\ y.pc = "finishing" /\ y.role = r /\ y.final = NoVerdict
        /\ y \in TriagerRow /\ run' = run /\ job' = job
    BY <1>0, <2>1, <2>3 DEF Moved
  <2>5. TriagerIsSound(w)' /\ FinalIsTrue(w)'
    BY <1>0, <2>1, <2>4, RestingRow DEF TriagerIsSound, FinalIsTrue
  <2> QED BY <2>1, <2>4, <2>5, TaskMoves
<1>4. CASE ReadTerminal(w) \/ RunFails(w)
  <2>1. PICK p \in {"terminal", "failing"} :
           /\ triager' = [triager EXCEPT ![w] = [x EXCEPT !.pc = p]] /\ UNCHANGED <<run, job>>
           /\ x.pc \in {"executing", "running", "asked", "answered"}
           /\ p = "terminal" => RootEnded(r)
    BY <1>4 DEF ReadTerminal, RunFails
  <2> DEFINE y == [x EXCEPT !.pc = p]
  <2>3. Moved(x, y, p, x.final)
    BY <1>0, TaskRows DEF Places
  <2> HIDE DEF y
  <2>4. /\ triager'[w] = y /\ y.pc = p /\ y.role = r /\ y \in TriagerRow /\ run' = run /\ job' = job
        /\ triager' = [triager EXCEPT ![w] = y]
    BY <1>0, <2>1, <2>3 DEF Moved, y
  <2>5. TriagerIsSound(w)' /\ FinalIsTrue(w)'
    BY <1>0, <2>1, <2>4 DEF TriagerIsSound, FinalIsTrue, RootEnded
  <2> QED BY <2>1, <2>4, <2>5, TaskMoves
<1>5. CASE Judge(w)
  <2>0. x.pc = "judging" /\ UNCHANGED <<run, job>>
    BY <1>5 DEF Judge
  <2>1. CASE NeedsRepair(w)
    <3> DEFINE y == [x EXCEPT !.pc = "reserving", !.role = "SCHEMA_REPAIR", !.final = NoVerdict]
    <3>1. triager' = [triager EXCEPT ![w] = y]
      BY <1>5, <2>1 DEF Judge
    <3>2. y \in TriagerRow /\ y.pc = "reserving" /\ y.role = "SCHEMA_REPAIR"
      BY <1>0, RestingRow DEF TriagerRow, Places, Roles
    <3> HIDE DEF y
    <3>3. run["INITIAL"].root = "SUCCEEDED" /\ run["INITIAL"].answer = "INVALID"
      <4>1. r = "INITIAL" /\ x.final.status = "SUCCEEDED" /\ x.final.answer # "VALID"
        BY <2>1 DEF NeedsRepair
      <4>2. run[r].root = "SUCCEEDED" /\ run[r].answer # "VALID"
        BY <1>0, <2>0, <4>1 DEF FinalIsTrue
      <4>3. run[r].answer # "none" /\ run[r].answer \in {"none", "VALID", "INVALID"}
        BY <1>0, <4>2 DEF RunIsSound, RunRow
      <4> QED BY <4>1, <4>2, <4>3
    <3>4. TriagerIsSound(w)' /\ FinalIsTrue(w)'
      BY <1>0, <2>0, <3>1, <3>2, <3>3 DEF TriagerIsSound, FinalIsTrue
    <3> QED BY <2>0, <3>1, <3>2, <3>4, TaskMoves
  <2>2. CASE ~NeedsRepair(w)
    <3> DEFINE y == [x EXCEPT !.pc = "finishing"]
    <3>1. triager' = [triager EXCEPT ![w] = y]
      BY <1>5, <2>2 DEF Judge
    <3>2. Moved(x, y, "finishing", x.final)
      BY <1>0, TaskRows DEF Places
    <3> HIDE DEF y
    <3>3. /\ triager'[w] = y /\ y.pc = "finishing" /\ y.role = r /\ y.final = x.final
          /\ y \in TriagerRow /\ run' = run /\ job' = job
      BY <1>0, <2>0, <3>1, <3>2 DEF Moved
    <3>4. r = "INITIAL" => ~(run[r].root = "SUCCEEDED" /\ run[r].answer = "INVALID")
      BY <1>0, <2>0, <2>2 DEF NeedsRepair, FinalIsTrue, RunIsSound, RootEnded
    <3>5. TriagerIsSound(w)' /\ FinalIsTrue(w)'
      BY <1>0, <2>0, <3>3, <3>4 DEF TriagerIsSound, FinalIsTrue, RootEnded
    <3> QED BY <2>0, <3>1, <3>3, <3>5, TaskMoves
  <2> QED BY <2>1, <2>2
<1> QED BY <1>1, <1>2, <1>3, <1>4, <1>5

\* The steps of a task that write the row of its run.
LEMMA WritingTask ==
  ASSUME TInv, NEW w \in Triagers,
         \/ ReserveRun(w) \/ ExecuteRunFirst(w) \/ RecoverRun(w) \/ Dispatch(w)
         \/ StepCompletes(w)
  PROVE  TInv'
<1> DEFINE r == triager[w].role
           x == triager[w]
<1>0. /\ x \in TriagerRow /\ r \in Roles /\ run[r] \in RunRow /\ x.final \in Finals
      /\ triager \in [Triagers -> TriagerRow] /\ run \in [Roles -> RunRow]
      /\ TriagerIsSound(w) /\ FinalIsTrue(w) /\ RunIsSound(r)
  BY TaskTypes DEF TInv
<1>a. \A v \in Triagers : TriagerIsSound(v)
  BY DEF TInv
<1>1. CASE ReserveRun(w) /\ r = "INITIAL"
  <2> DEFINE row == [run[r] EXCEPT !.reserved = TRUE]
             y == [x EXCEPT !.pc = "executing"]
  <2>1. /\ triager' = [triager EXCEPT ![w] = y] /\ run' = [run EXCEPT ![r] = row]
        /\ UNCHANGED job /\ x.pc = "reserving"
    BY <1>1 DEF ReserveRun
  <2>2. /\ row \in RunRow /\ row.root = run[r].root /\ row.answer = run[r].answer
        /\ row.holder = run[r].holder /\ row.leased = run[r].leased
        /\ row.call = run[r].call /\ row.dispatches = run[r].dispatches
        /\ row.receipt = run[r].receipt
    BY <1>0, TriageAssumption DEF RunRow, CallStates
  <2>3. Moved(x, y, "executing", x.final)
    BY <1>0, TaskRows DEF Places
  <2> HIDE DEF row, y
  <2>4. /\ triager'[w] = y /\ y.pc = "executing" /\ y.role = r /\ y \in TriagerRow
        /\ run'[r] = row /\ job' = job /\ \A s \in Roles \ {r} : run'[s] = run[s]
    BY <1>0, <2>1, <2>3 DEF Moved
  <2>5. RunIsSound(r)' /\ RunKeeps(r)
    BY <1>0, <2>1, <2>2, <2>4 DEF RunIsSound, RunKeeps, RootEnded
  <2>6. \A v \in Triagers \ {w} : Spares(v, r)
    BY <1>0, <1>a, <2>1, <2>2, <2>4, TriageAssumption DEF Spares, Asked, TriageAssumption
  <2>7. TriagerIsSound(w)'
    BY <1>0, <1>1, <2>1, <2>2, <2>4 DEF TriagerIsSound, RunIsSound, RootEnded, Roles
  <2>8. FinalIsTrue(w)'
    BY <1>0, <2>4 DEF FinalIsTrue
  <2>9. r = "SCHEMA_REPAIR" /\ row.root # "none" => run["SCHEMA_REPAIR"].root # "none"
    BY <2>2
  <2> QED BY <1>0, <2>1, <2>2, <2>4, <2>5, <2>6, <2>7, <2>8, <2>9, TaskStep
<1>2. CASE ReserveRun(w) /\ r # "INITIAL"
  <2> DEFINE row == [run[r] EXCEPT !.reserved = TRUE]
             y == [x EXCEPT !.pc = "binding"]
  <2>1. /\ triager' = [triager EXCEPT ![w] = y] /\ run' = [run EXCEPT ![r] = row]
        /\ UNCHANGED job /\ x.pc = "reserving"
    BY <1>2 DEF ReserveRun
  <2>2. /\ row \in RunRow /\ row.root = run[r].root /\ row.answer = run[r].answer
        /\ row.holder = run[r].holder /\ row.leased = run[r].leased
        /\ row.call = run[r].call /\ row.dispatches = run[r].dispatches
        /\ row.receipt = run[r].receipt
    BY <1>0, TriageAssumption DEF RunRow, CallStates
  <2>3. Moved(x, y, "binding", x.final)
    BY <1>0, TaskRows DEF Places
  <2> HIDE DEF row, y
  <2>4. /\ triager'[w] = y /\ y.pc = "binding" /\ y.role = r /\ y \in TriagerRow
        /\ run'[r] = row /\ job' = job /\ \A s \in Roles \ {r} : run'[s] = run[s]
    BY <1>0, <2>1, <2>3 DEF Moved
  <2>5. RunIsSound(r)' /\ RunKeeps(r)
    BY <1>0, <2>1, <2>2, <2>4 DEF RunIsSound, RunKeeps, RootEnded
  <2>6. \A v \in Triagers \ {w} : Spares(v, r)
    BY <1>0, <1>a, <2>1, <2>2, <2>4, TriageAssumption DEF Spares, Asked, TriageAssumption
  <2>7. TriagerIsSound(w)'
    BY <1>0, <2>1, <2>2, <2>4 DEF TriagerIsSound, RunIsSound, RootEnded, Roles
  <2>8. FinalIsTrue(w)'
    BY <1>0, <2>4 DEF FinalIsTrue
  <2>9. r = "SCHEMA_REPAIR" /\ row.root # "none" => run["SCHEMA_REPAIR"].root # "none"
    BY <2>2
  <2> QED BY <1>0, <2>1, <2>2, <2>4, <2>5, <2>6, <2>7, <2>8, <2>9, TaskStep
<1>3. CASE ExecuteRunFirst(w)
  <2> DEFINE row == [run[r] EXCEPT !.root = "RUNNING", !.holder = w, !.leased = TRUE]
             y == [x EXCEPT !.pc = "running"]
  <2>1. /\ triager' = [triager EXCEPT ![w] = y] /\ run' = [run EXCEPT ![r] = row]
        /\ UNCHANGED job /\ x.pc = "executing" /\ run[r].root = "none"
    BY <1>3 DEF ExecuteRunFirst
  <2>2. /\ row \in RunRow /\ row.root = "RUNNING" /\ row.holder = w /\ row.leased = TRUE
        /\ row.reserved = run[r].reserved /\ row.answer = run[r].answer
        /\ row.call = run[r].call /\ row.dispatches = run[r].dispatches
        /\ row.receipt = run[r].receipt
    BY <1>0, TriageAssumption DEF RunRow, CallStates
  <2>3. Moved(x, y, "running", x.final)
    BY <1>0, TaskRows DEF Places
  <2> HIDE DEF row, y
  <2>4. /\ triager'[w] = y /\ y.pc = "running" /\ y.role = r /\ y \in TriagerRow
        /\ run'[r] = row /\ job' = job /\ \A s \in Roles \ {r} : run'[s] = run[s]
    BY <1>0, <2>1, <2>3 DEF Moved
  <2>5. RunIsSound(r)' /\ RunKeeps(r)
    BY <1>0, <2>1, <2>2, <2>4 DEF RunIsSound, RunKeeps, RootEnded
  <2>6. \A v \in Triagers \ {w} : Spares(v, r)
    BY <1>0, <1>a, <2>1, <2>2, <2>4, TriageAssumption DEF Spares, Asked, TriageAssumption
  <2>7. TriagerIsSound(w)'
    BY <1>0, <2>1, <2>2, <2>4 DEF TriagerIsSound, RunIsSound, RootEnded, Roles
  <2>8. FinalIsTrue(w)'
    BY <1>0, <2>4 DEF FinalIsTrue
  <2>9. r = "SCHEMA_REPAIR" => run["INITIAL"].root = "SUCCEEDED" /\ job.repair
    BY <1>0, <2>1 DEF TriagerIsSound
  <2> QED BY <1>0, <2>1, <2>2, <2>4, <2>5, <2>6, <2>7, <2>8, <2>9, TaskStep
<1>4. CASE RecoverRun(w)
  <2> DEFINE row == [run[r] EXCEPT !.holder = w, !.leased = TRUE]
             y == [x EXCEPT !.pc = "running"]
  <2>1. /\ triager' = [triager EXCEPT ![w] = y] /\ run' = [run EXCEPT ![r] = row]
        /\ UNCHANGED job /\ x.pc = "executing" /\ run[r].root = "RUNNING"
    BY <1>4 DEF RecoverRun
  <2>2. /\ row \in RunRow /\ row.holder = w /\ row.leased = TRUE /\ row.reserved = run[r].reserved
        /\ row.root = run[r].root /\ row.answer = run[r].answer /\ row.call = run[r].call
        /\ row.dispatches = run[r].dispatches /\ row.receipt = run[r].receipt
    BY <1>0, TriageAssumption DEF RunRow, CallStates
  <2>3. Moved(x, y, "running", x.final)
    BY <1>0, TaskRows DEF Places
  <2> HIDE DEF row, y
  <2>4. /\ triager'[w] = y /\ y.pc = "running" /\ y.role = r /\ y \in TriagerRow
        /\ run'[r] = row /\ job' = job /\ \A s \in Roles \ {r} : run'[s] = run[s]
    BY <1>0, <2>1, <2>3 DEF Moved
  <2>5. RunIsSound(r)' /\ RunKeeps(r)
    BY <1>0, <2>1, <2>2, <2>4 DEF RunIsSound, RunKeeps, RootEnded
  <2>6. \A v \in Triagers \ {w} : Spares(v, r)
    BY <1>0, <1>a, <2>1, <2>2, <2>4, TriageAssumption DEF Spares, Asked, TriageAssumption
  <2>7. TriagerIsSound(w)'
    BY <1>0, <2>1, <2>2, <2>4 DEF TriagerIsSound, RunIsSound, RootEnded, Roles
  <2>8. FinalIsTrue(w)'
    BY <1>0, <2>4 DEF FinalIsTrue
  <2>9. r = "SCHEMA_REPAIR" /\ row.root # "none" => run["SCHEMA_REPAIR"].root # "none"
    BY <2>2
  <2> QED BY <1>0, <2>1, <2>2, <2>4, <2>5, <2>6, <2>7, <2>8, <2>9, TaskStep
<1>5. CASE Dispatch(w)
  <2> DEFINE row == [run[r] EXCEPT !.call = "STARTED", !.dispatches = run[r].dispatches + 1]
             y == [x EXCEPT !.pc = "asked"]
  <2>1. /\ triager' = [triager EXCEPT ![w] = y] /\ run' = [run EXCEPT ![r] = row]
        /\ UNCHANGED job /\ x.pc = "running" /\ run[r].answer = "none"
        /\ run[r].call = "none"
    BY <1>5 DEF Dispatch, Dispatchable
  <2>2. /\ row \in RunRow /\ row.call = "STARTED" /\ row.dispatches = run[r].dispatches + 1
        /\ row.reserved = run[r].reserved /\ row.root = run[r].root
        /\ row.answer = run[r].answer /\ row.holder = run[r].holder
        /\ row.leased = run[r].leased /\ row.receipt = run[r].receipt
    <3> DEFINE z == [run[r] EXCEPT !.call = "STARTED"]
    <3>1. /\ z \in RunRow /\ z.call = "STARTED" /\ z.reserved = run[r].reserved
          /\ z.root = run[r].root /\ z.answer = run[r].answer /\ z.holder = run[r].holder
          /\ z.leased = run[r].leased /\ z.receipt = run[r].receipt
          /\ z.dispatches = run[r].dispatches
      BY <1>0 DEF RunRow, CallStates
    <3>2. row = [z EXCEPT !.dispatches = run[r].dispatches + 1]
      OBVIOUS
    <3>3. run[r].dispatches + 1 \in Nat
      BY <1>0, SMTT(40) DEF RunRow
    <3> HIDE DEF z, row
    <3> QED BY <3>1, <3>2, <3>3 DEF RunRow
  <2>3. Moved(x, y, "asked", x.final)
    BY <1>0, TaskRows DEF Places
  <2> HIDE DEF row, y
  <2>4. /\ triager'[w] = y /\ y.pc = "asked" /\ y.role = r /\ y \in TriagerRow
        /\ run'[r] = row /\ job' = job /\ \A s \in Roles \ {r} : run'[s] = run[s]
    BY <1>0, <2>1, <2>3 DEF Moved
  <2>5. RunIsSound(r)' /\ RunKeeps(r)
    BY <1>0, <2>1, <2>2, <2>4 DEF RunIsSound, RunKeeps, RootEnded
  <2>10. \A v \in Triagers : ~Asked(v, r)
    BY <1>a, <2>1 DEF TriagerIsSound, Asked
  <2>6. \A v \in Triagers \ {w} : Spares(v, r)
    BY <2>2, <2>4, <2>10 DEF Spares
  <2>7. TriagerIsSound(w)'
    BY <1>0, <2>1, <2>2, <2>4 DEF TriagerIsSound, RunIsSound, RootEnded, Roles
  <2>8. FinalIsTrue(w)'
    BY <1>0, <2>4 DEF FinalIsTrue
  <2>9. r = "SCHEMA_REPAIR" /\ row.root # "none" => run["SCHEMA_REPAIR"].root # "none"
    BY <2>2
  <2> QED BY <1>0, <2>1, <2>2, <2>4, <2>5, <2>6, <2>7, <2>8, <2>9, <2>10, TaskStep
<1>6. CASE StepCompletes(w)
  <2>0. PICK a \in {"VALID", "INVALID"} : run' = [run EXCEPT ![r].answer = a]
    BY <1>6 DEF StepCompletes
  <2> DEFINE row == [run[r] EXCEPT !.answer = a]
             y == [x EXCEPT !.pc = "running"]
  <2>1. /\ triager' = [triager EXCEPT ![w] = y] /\ run' = [run EXCEPT ![r] = row]
        /\ UNCHANGED job /\ x.pc = "answered" /\ run[r].leased /\ run[r].holder = w
    BY <1>6, <2>0 DEF StepCompletes, HoldsRun
  <2>2. /\ row \in RunRow /\ row.answer = a /\ row.reserved = run[r].reserved /\ row.root = run[r].root
        /\ row.holder = run[r].holder /\ row.leased = run[r].leased
        /\ row.call = run[r].call /\ row.dispatches = run[r].dispatches
        /\ row.receipt = run[r].receipt
    BY <1>0, TriageAssumption DEF RunRow, CallStates
  <2>3. Moved(x, y, "running", x.final)
    BY <1>0, TaskRows DEF Places
  <2> HIDE DEF row, y
  <2>4. /\ triager'[w] = y /\ y.pc = "running" /\ y.role = r /\ y \in TriagerRow
        /\ run'[r] = row /\ job' = job /\ \A s \in Roles \ {r} : run'[s] = run[s]
    BY <1>0, <2>1, <2>3 DEF Moved
  <2>5. RunIsSound(r)' /\ RunKeeps(r)
    BY <1>0, <2>1, <2>2, <2>4 DEF RunIsSound, RunKeeps, RootEnded
  <2>6. \A v \in Triagers \ {w} : Spares(v, r)
    BY <1>0, <1>a, <2>1, <2>2, <2>4, TriageAssumption DEF Spares, Asked, TriageAssumption
  <2>7. TriagerIsSound(w)'
    BY <1>0, <2>1, <2>2, <2>4 DEF TriagerIsSound, RunIsSound, RootEnded, Roles
  <2>8. FinalIsTrue(w)'
    BY <1>0, <2>4 DEF FinalIsTrue
  <2>9. r = "SCHEMA_REPAIR" /\ row.root # "none" => run["SCHEMA_REPAIR"].root # "none"
    BY <2>2
  <2> QED BY <1>0, <2>1, <2>2, <2>4, <2>5, <2>6, <2>7, <2>8, <2>9, TaskStep
<1> QED BY <1>1, <1>2, <1>3, <1>4, <1>5, <1>6

\* The provider's answer is written whoever has the run.
LEMMA AnswerTask ==
  ASSUME TInv, NEW w \in Triagers, ModelAnswers(w)
  PROVE  TInv'
<1>r. PICK r \in Roles : r = triager[w].role
  BY TaskTypes
<1> DEFINE x == triager[w]
<1>0. /\ x \in TriagerRow /\ r \in Roles /\ run[r] \in RunRow /\ x.final \in Finals
      /\ triager \in [Triagers -> TriagerRow] /\ run \in [Roles -> RunRow]
      /\ TriagerIsSound(w) /\ FinalIsTrue(w) /\ RunIsSound(r)
  BY <1>r, TaskTypes DEF TInv
<1>1. PICK k \in {"COMPLETED", "UNKNOWN"}, p \in {"answered", "failing"} :
         /\ triager' = [triager EXCEPT ![w] = [x EXCEPT !.pc = p]]
         /\ run' = [run EXCEPT ![r] = [run[r] EXCEPT !.call = k]]
         /\ UNCHANGED job /\ x.pc = "asked"
  BY <1>r DEF ModelAnswers
<1> DEFINE row == [run[r] EXCEPT !.call = k]
           y == [x EXCEPT !.pc = p]
<1>2. /\ row \in RunRow /\ row.call = k /\ row.root = run[r].root /\ row.answer = run[r].answer
      /\ row.holder = run[r].holder /\ row.leased = run[r].leased
      /\ row.dispatches = run[r].dispatches /\ row.receipt = run[r].receipt
  BY <1>0 DEF RunRow, CallStates
<1>3. Moved(x, y, p, x.final)
  BY <1>0, TaskRows DEF Places
<1>4. run' = [run EXCEPT ![r] = row] /\ triager' = [triager EXCEPT ![w] = y]
  BY <1>1
<1> HIDE DEF row, y
<1>5. /\ triager'[w] = y /\ y.pc = p /\ y.role = r /\ y \in TriagerRow
      /\ run'[r] = row /\ job' = job /\ \A s \in Roles \ {r} : run'[s] = run[s]
  BY <1>0, <1>1, <1>3, <1>4, <1>r DEF Moved
<1>6. run[r].call = "STARTED" /\ \A v \in Triagers \ {w} : ~Asked(v, r)
  BY <1>0, <1>1, <1>r DEF TriagerIsSound, TInv, Asked
<1>7. RunIsSound(r)' /\ RunKeeps(r)
  BY <1>0, <1>2, <1>5, <1>6 DEF RunIsSound, RunKeeps, RootEnded
<1>8. \A v \in Triagers \ {w} : Spares(v, r)
  BY <1>2, <1>5, <1>6 DEF Spares
<1>9. TriagerIsSound(w)' /\ FinalIsTrue(w)'
  BY <1>r, <1>0, <1>1, <1>2, <1>5 DEF TriagerIsSound, FinalIsTrue, RootEnded, Roles
<1>10. r = "SCHEMA_REPAIR" /\ row.root # "none" => run["SCHEMA_REPAIR"].root # "none"
  BY <1>2
<1>11. y.pc # "asked" /\ UNCHANGED job
  BY <1>5
<1> QED BY <1>0, <1>2, <1>4, <1>5, <1>7, <1>8, <1>9, <1>10, <1>11, TaskStep

\* The root ends under the lease of the run.
LEMMA EndingTask ==
  ASSUME TInv, NEW w \in Triagers, RootEnds(w)
  PROVE  TInv'
<1>r. PICK r \in Roles : r = triager[w].role
  BY TaskTypes
<1> DEFINE x == triager[w]
<1>0. /\ x \in TriagerRow /\ r \in Roles /\ run[r] \in RunRow /\ x.final \in Finals
      /\ triager \in [Triagers -> TriagerRow] /\ run \in [Roles -> RunRow]
      /\ TriagerIsSound(w) /\ FinalIsTrue(w) /\ RunIsSound(r)
  BY <1>r, TaskTypes DEF TInv
<1>1. PICK e \in {"SUCCEEDED", "FAILED"} :
         /\ triager' = [triager EXCEPT ![w] = [x EXCEPT !.pc = "terminal"]]
         /\ run' = [run EXCEPT ![r].root = e, ![r].leased = FALSE]
         /\ UNCHANGED job /\ run[r].leased /\ run[r].holder = w
         /\ x.pc \in {"running", "failing"}
         /\ e = "SUCCEEDED" => run[r].answer # "none"
         /\ e = "FAILED" => x.pc = "failing"
  BY <1>r DEF RootEnds, HoldsRun
<1> DEFINE row == [run[r] EXCEPT !.root = e, !.leased = FALSE]
           y == [x EXCEPT !.pc = "terminal"]
<1>2. /\ row \in RunRow /\ row.call = run[r].call /\ row.root = e /\ row.answer = run[r].answer
      /\ row.holder = run[r].holder /\ row.leased = FALSE
      /\ row.dispatches = run[r].dispatches /\ row.receipt = run[r].receipt
  BY <1>0 DEF RunRow
<1>3. Moved(x, y, "terminal", x.final)
  BY <1>0, TaskRows DEF Places
<1>4. run' = [run EXCEPT ![r] = row] /\ triager' = [triager EXCEPT ![w] = y]
  BY <1>1
<1> HIDE DEF row, y
<1>5. /\ triager'[w] = y /\ y.pc = "terminal" /\ y.role = r /\ y \in TriagerRow
      /\ run'[r] = row /\ job' = job /\ \A s \in Roles \ {r} : run'[s] = run[s]
  BY <1>0, <1>1, <1>3, <1>4, <1>r DEF Moved
<1>6. /\ ~RootEnded(r) /\ run[r].receipt = {}
  BY <1>0, <1>1, <1>r DEF TriagerIsSound, RunIsSound
<1>7. RunIsSound(r)' /\ RunKeeps(r)
  BY <1>0, <1>1, <1>2, <1>5, <1>6 DEF RunIsSound, RunKeeps, RootEnded
<1>8. \A v \in Triagers \ {w} : Spares(v, r)
  BY <1>2, <1>5 DEF Spares
<1>9. TriagerIsSound(w)' /\ FinalIsTrue(w)'
  BY <1>r, <1>0, <1>1, <1>2, <1>5, <1>6 DEF TriagerIsSound, FinalIsTrue, RootEnded, Roles
<1>10. r = "SCHEMA_REPAIR" => run["INITIAL"].root = "SUCCEEDED" /\ job.repair
  BY <1>0, <1>1, <1>r DEF TriagerIsSound
<1>11. y.pc # "asked" /\ UNCHANGED job
  BY <1>5
<1> QED BY <1>0, <1>2, <1>4, <1>5, <1>7, <1>8, <1>9, <1>10, <1>11, TaskStep

\* The receipt is written after the root has ended, by anybody who saw that.
LEMMA ReceiptTask ==
  ASSUME TInv, NEW w \in Triagers, WriteReceipt(w)
  PROVE  TInv'
<1> DEFINE r == triager[w].role
           x == triager[w]
           row == [run[r] EXCEPT !.receipt = {run[r].call}]
           f == Verdict(row)
           y == [x EXCEPT !.pc = "judging", !.final = f]
<1>0. /\ x \in TriagerRow /\ r \in Roles /\ run[r] \in RunRow /\ x.final \in Finals
      /\ triager \in [Triagers -> TriagerRow] /\ run \in [Roles -> RunRow]
      /\ TriagerIsSound(w) /\ FinalIsTrue(w) /\ RunIsSound(r)
  BY TaskTypes DEF TInv
<1>1. /\ run' = [run EXCEPT ![r] = row] /\ triager' = [triager EXCEPT ![w] = y]
      /\ UNCHANGED job /\ x.pc = "terminal"
  BY DEF WriteReceipt
<1>2. /\ row \in RunRow /\ row.call = run[r].call /\ row.root = run[r].root
      /\ row.answer = run[r].answer /\ row.holder = run[r].holder /\ row.leased = run[r].leased
      /\ row.dispatches = run[r].dispatches /\ row.receipt = {run[r].call}
  BY <1>0 DEF RunRow
<1> HIDE DEF row
<1>3. /\ f \in Finals /\ f.receipt = {run[r].call} /\ f.status = run[r].root
      /\ f.answer = run[r].answer /\ f.call = run[r].call
  BY <1>2, VerdictRow
<1> HIDE DEF f
<1>4. Moved(x, y, "judging", f)
  BY <1>0, <1>3, TaskRows DEF Places
<1> HIDE DEF y
<1>5. /\ triager'[w] = y /\ y.pc = "judging" /\ y.role = r /\ y.final = f /\ y \in TriagerRow
      /\ run'[r] = row /\ job' = job /\ \A s \in Roles \ {r} : run'[s] = run[s]
  BY <1>0, <1>1, <1>4 DEF Moved
<1>6. RootEnded(r)
  BY <1>0, <1>1 DEF TriagerIsSound
<1>7. RunIsSound(r)' /\ RunKeeps(r)
  BY <1>0, <1>2, <1>5, <1>6 DEF RunIsSound, RunKeeps, RootEnded
<1>8. \A v \in Triagers \ {w} : Spares(v, r)
  BY <1>2, <1>5 DEF Spares
<1>9. TriagerIsSound(w)'
  BY <1>0, <1>1, <1>2, <1>5 DEF TriagerIsSound, RootEnded, Roles
<1>10. FinalIsTrue(w)'
  BY <1>2, <1>3, <1>5, <1>6 DEF FinalIsTrue, RootEnded
<1>11. r = "SCHEMA_REPAIR" /\ row.root # "none" => run["SCHEMA_REPAIR"].root # "none"
  BY <1>2
<1> QED BY <1>0, <1>1, <1>2, <1>5, <1>7, <1>8, <1>9, <1>10, <1>11, TaskStep

-----------------------------------------------------------------------------
(* The job.                                                                *)

JobRow == [status : {"READY", "RUNNING", "COMPLETED", "FAILED", "UNRESOLVED"},
           epoch : Nat, live : BOOLEAN, repair : BOOLEAN,
           selected : Roles \cup {"none"}, receipt : SUBSET CallStates]

\* A step that moves one task at most and writes the job.
LEMMA JobStep ==
  ASSUME TInv, UNCHANGED run, job' \in JobRow, job.repair => job'.repair, JobIsTrue',
         NEW w \in Triagers, NEW q \in TriagerRow, triager' = [triager EXCEPT ![w] = q],
         q.pc # "asked", TriagerIsSound(w)', FinalIsTrue(w)'
  PROVE  TInv'
<1>0. run \in [Roles -> RunRow] /\ triager \in [Triagers -> TriagerRow]
  BY DEF TInv, TriageTypes
<1>1. TriageTypes'
  BY <1>0 DEF TriageTypes, JobRow
<1>2. \A r \in Roles : RunIsSound(r)'
  BY DEF TInv, RunIsSound, RootEnded
<1>3. \A r \in Roles, u, v \in Triagers : Asked(u, r)' /\ Asked(v, r)' => u = v
  BY <1>0 DEF TInv, Asked
<1>4. \A r \in Roles, v \in Triagers : RunKeeps(r) /\ Spares(v, r)
  BY DEF RunKeeps, Spares, RootEnded
<1>5. ASSUME NEW v \in Triagers \ {w} PROVE TriagerIsSound(v)' /\ FinalIsTrue(v)'
  BY <1>0, <1>4, OthersKeep
<1> QED BY <1>1, <1>2, <1>3, <1>5 DEF TInv

LEMMA JobSteps ==
  ASSUME TInv, NEW w \in Triagers, ClaimJob(w) \/ BindRepair(w) \/ FinishJob(w)
  PROVE  TInv'
<1> DEFINE r == triager[w].role
           x == triager[w]
<1>0. /\ x \in TriagerRow /\ r \in Roles /\ run[r] \in RunRow /\ x.final \in Finals
      /\ triager \in [Triagers -> TriagerRow] /\ run \in [Roles -> RunRow] /\ job \in JobRow
      /\ TriagerIsSound(w) /\ FinalIsTrue(w) /\ RunIsSound(r) /\ RunIsSound("INITIAL")
  BY TaskTypes DEF TInv, TriageTypes, JobRow, Roles
<1>j. JobIsTrue
  BY DEF TInv
<1>1. CASE ClaimJob(w)
  <2> DEFINE j == [job EXCEPT !.status = "RUNNING", !.epoch = job.epoch + 1, !.live = TRUE]
             y == [Resting EXCEPT !.pc = "reserving", !.epoch = job.epoch + 1]
  <2>1. job' = j /\ triager' = [triager EXCEPT ![w] = y] /\ UNCHANGED run
    BY <1>1 DEF ClaimJob
  <2>0. job.epoch + 1 \in Nat
    BY <1>0 DEF JobRow
  <2>2. j \in JobRow /\ j.status = "RUNNING" /\ j.repair = job.repair
    <3> DEFINE n == job.epoch + 1
    <3>1. j = [job EXCEPT !.status = "RUNNING", !.epoch = n, !.live = TRUE] /\ n \in Nat
      BY <2>0
    <3> HIDE DEF n, j
    <3> QED BY <1>0, <3>1 DEF JobRow
  <2>3. y \in TriagerRow /\ y.pc = "reserving" /\ y.role = "INITIAL"
    <3> DEFINE n == job.epoch + 1
    <3>1. y = [Resting EXCEPT !.pc = "reserving", !.epoch = n] /\ n \in Nat
      BY <2>0
    <3> HIDE DEF n, y
    <3> QED BY <3>1, RestingRow DEF TriagerRow, Places
  <2> HIDE DEF j, y
  <2>4. TriagerIsSound(w)' /\ FinalIsTrue(w)'
    BY <1>0, <2>1, <2>3 DEF TriagerIsSound, FinalIsTrue
  <2>5. JobIsTrue'
    BY <1>j, <2>1, <2>2 DEF JobIsTrue, RootEnded
  <2> QED BY <2>1, <2>2, <2>3, <2>4, <2>5, JobStep
<1>2. CASE BindRepair(w) /\ HoldsJob(w)
  <2> DEFINE j == [job EXCEPT !.repair = TRUE]
             y == [x EXCEPT !.pc = "executing"]
  <2>1. /\ job' = j /\ triager' = [triager EXCEPT ![w] = y] /\ UNCHANGED run
        /\ x.pc = "binding" /\ job.live
    BY <1>2 DEF BindRepair, HoldsJob
  <2>2. j \in JobRow /\ j.status = job.status /\ j.repair = TRUE /\ j.live = job.live
    BY <1>0 DEF JobRow
  <2>3. Moved(x, y, "executing", x.final)
    BY <1>0, TaskRows DEF Places
  <2> HIDE DEF j, y
  <2>4. triager'[w] = y /\ y.pc = "executing" /\ y.role = r /\ y \in TriagerRow
    BY <1>0, <2>1, <2>3 DEF Moved
  <2>5. TriagerIsSound(w)' /\ FinalIsTrue(w)'
    BY <1>0, <2>1, <2>2, <2>4 DEF TriagerIsSound, FinalIsTrue
  <2>6. JobIsTrue'
    BY <1>j, <2>1, <2>2 DEF JobIsTrue, RootEnded
  <2> QED BY <2>1, <2>2, <2>4, <2>5, <2>6, JobStep
<1>3. CASE (BindRepair(w) \/ FinishJob(w)) /\ ~HoldsJob(w)
  <2>1. triager' = [triager EXCEPT ![w] = Resting] /\ UNCHANGED <<run, job>>
    BY <1>3 DEF BindRepair, FinishJob
  <2>2. TriagerIsSound(w)' /\ FinalIsTrue(w)'
    BY <1>0, <2>1, RestingRow DEF TriagerIsSound, FinalIsTrue
  <2> QED BY <2>1, <2>2, RestingRow, TaskMoves
<1>4. CASE FinishJob(w) /\ HoldsJob(w)
  <2> DEFINE f == x.final
             sel == IF f = NoVerdict THEN "none" ELSE r
             j == [job EXCEPT !.status = TriageOutcome(f), !.live = FALSE, !.selected = sel,
                              !.receipt = f.receipt]
  <2>1. /\ job' = j /\ triager' = [triager EXCEPT ![w] = Resting] /\ UNCHANGED run
        /\ x.pc = "finishing" /\ job.live
    BY <1>4 DEF FinishJob, HoldsJob
  <2>2. f.receipt \in SUBSET CallStates /\ f.call \in CallStates
    BY <1>0 DEF Finals
  <2>3. TriageOutcome(f) \in {"COMPLETED", "FAILED", "UNRESOLVED"}
    BY DEF TriageOutcome
  <2>4. sel \in Roles \cup {"none"}
    BY <1>0
  <2>5. /\ j \in JobRow /\ j.status = TriageOutcome(f) /\ j.live = FALSE /\ j.selected = sel
        /\ j.receipt = f.receipt /\ j.repair = job.repair
    <3> DEFINE st == TriageOutcome(f)
               rc == f.receipt
    <3>1. j = [job EXCEPT !.status = st, !.live = FALSE, !.selected = sel, !.receipt = rc]
      OBVIOUS
    <3> HIDE DEF st, rc, sel, j
    <3>2. st \in {"COMPLETED", "FAILED", "UNRESOLVED"} /\ rc \in SUBSET CallStates
      BY <2>2, <2>3 DEF st, rc
    <3>3. /\ j \in JobRow /\ j.status = st /\ j.live = FALSE /\ j.selected = sel
          /\ j.receipt = rc /\ j.repair = job.repair
      BY <1>0, <2>4, <3>1, <3>2 DEF JobRow
    <3> QED BY <3>3 DEF st, rc
  <2> HIDE DEF j
  <2>6. JobIsTrue'
    <3>1. CASE f.receipt = {}
      <4>1. f = NoVerdict
        BY <1>0, <2>1, <3>1 DEF FinalIsTrue
      <4>2. j.status = "UNRESOLVED"
        BY <2>5, <4>1 DEF TriageOutcome
      <4> QED BY <1>j, <2>1, <2>5, <4>2 DEF JobIsTrue
    <3>2. CASE f.receipt # {}
      <4>1. f # NoVerdict /\ sel = r
        BY <3>2, RestingRow
      <4>2. /\ RootEnded(r) /\ f.status = run[r].root /\ f.answer = run[r].answer
            /\ f.call = "COMPLETED" => run[r].call = "COMPLETED"
            /\ f.call = "none" => f.receipt = {"none"}
            /\ r = "INITIAL" => ~(run[r].root = "SUCCEEDED" /\ run[r].answer = "INVALID")
        BY <1>0, <2>1, <3>2 DEF FinalIsTrue
      <4>3. RootEnded("INITIAL") /\ (r = "SCHEMA_REPAIR" <=>
              run["INITIAL"].root = "SUCCEEDED" /\ run["INITIAL"].answer = "INVALID")
        BY <1>0, <4>2 DEF TriagerIsSound, Roles, RootEnded
      <4>4. j.status \in {"COMPLETED", "FAILED"} =>
              /\ f.call \in {"none", "COMPLETED"}
              /\ j.status = "COMPLETED" <=> f.status = "SUCCEEDED" /\ f.answer = "VALID"
        BY <2>2, <2>5, <4>1 DEF TriageOutcome, CallStates
      <4> QED BY <1>0, <1>j, <2>1, <2>5, <4>1, <4>2, <4>3, <4>4 DEF JobIsTrue, RootEnded
    <3> QED BY <3>1, <3>2
  <2>7. TriagerIsSound(w)' /\ FinalIsTrue(w)'
    BY <1>0, <2>1, RestingRow DEF TriagerIsSound, FinalIsTrue
  <2> QED BY <2>1, <2>5, <2>6, <2>7, RestingRow, JobStep
<1> QED BY <1>1, <1>2, <1>3, <1>4

LEMMA TriageStep == TInv /\ [TriageNext]_triageVars => TInv'
<1> SUFFICES ASSUME TInv, [TriageNext]_triageVars PROVE TInv'
  OBVIOUS
<1>0. /\ run \in [Roles -> RunRow] /\ triager \in [Triagers -> TriagerRow] /\ job \in JobRow
  BY DEF TInv, TriageTypes, JobRow
<1>1. ASSUME NEW r \in Roles, RunLeaseExpires(r) PROVE TInv'
  <2> DEFINE row == [run[r] EXCEPT !.leased = FALSE]
  <2>1. run' = [run EXCEPT ![r] = row] /\ UNCHANGED <<job, triager>>
    BY <1>1 DEF RunLeaseExpires
  <2>2. /\ row \in RunRow /\ row.call = run[r].call /\ row.root = run[r].root
        /\ row.answer = run[r].answer /\ row.holder = run[r].holder /\ row.leased = FALSE
        /\ row.dispatches = run[r].dispatches /\ row.receipt = run[r].receipt
    BY <1>0 DEF RunRow
  <2> HIDE DEF row
  <2>3. run'[r] = row /\ \A s \in Roles \ {r} : run'[s] = run[s]
    BY <1>0, <2>1
  <2>4. \A s \in Roles : RunKeeps(s) /\ RunIsSound(s)'
    BY <2>2, <2>3 DEF TInv, RunKeeps, RunIsSound, RootEnded
  <2>5. \A s \in Roles, v \in Triagers : Spares(v, s)
    BY <2>2, <2>3 DEF Spares
  <2>6. \A v \in Triagers : TriagerIsSound(v)' /\ FinalIsTrue(v)'
    BY <2>1, <2>4, <2>5, OthersKeep
  <2>7. \A s \in Roles, u, v \in Triagers : Asked(u, s)' /\ Asked(v, s)' => u = v
    BY <2>1 DEF TInv, Asked
  <2>8. JobIsTrue'
    <3>1. run'["SCHEMA_REPAIR"].root = run["SCHEMA_REPAIR"].root
      BY <2>2, <2>3 DEF Roles
    <3> QED BY <2>1, <2>4, <3>1, JobKeeps
  <2>9. TriageTypes'
    BY <1>0, <2>1, <2>2 DEF TInv, TriageTypes
  <2> QED BY <2>4, <2>6, <2>7, <2>8, <2>9 DEF TInv
<1>2. CASE JobLeaseExpires \/ AnalysisIsOverdue \/ UNCHANGED triageVars
  <2>1. /\ UNCHANGED <<run, triager>> /\ job' \in JobRow
        /\ job'.repair = job.repair /\ job'.status = job.status /\ job'.selected = job.selected
        /\ job'.receipt = job.receipt /\ job'.live \in {FALSE, job.live}
    BY <1>0, <1>2 DEF JobLeaseExpires, AnalysisIsOverdue, triageVars, JobRow
  <2>2. TriageTypes'
    BY <1>0, <2>1 DEF TriageTypes, JobRow
  <2>3. \A r \in Roles : RunKeeps(r) /\ RunIsSound(r)'
    BY <2>1 DEF TInv, RunKeeps, RunIsSound, RootEnded
  <2>4. \A r \in Roles, v \in Triagers : Spares(v, r)
    BY <2>1 DEF Spares
  <2>5. \A v \in Triagers : TriagerIsSound(v)' /\ FinalIsTrue(v)'
    BY <2>1, <2>3, <2>4, OthersKeep
  <2>6. \A s \in Roles, u, v \in Triagers : Asked(u, s)' /\ Asked(v, s)' => u = v
    BY <2>1 DEF TInv, Asked
  <2>7. JobIsTrue'
    <3>1. JobIsTrue
      BY DEF TInv
    <3> QED BY <2>1, <3>1 DEF JobIsTrue, RootEnded
  <2> QED BY <2>2, <2>3, <2>5, <2>6, <2>7 DEF TInv
<1> QED BY <1>1, <1>2, QuietTask, WritingTask, AnswerTask, EndingTask, ReceiptTask, JobSteps
        DEF TriageNext

\* However many tasks, takeovers and claims there are, a run asks the model once
\* at most and the job says what is true of the run it selects (ainvoke,
\* execute_analysis, finish).
THEOREM TriageReportsTheTruth == TriageSpec => []TriageIsTruthful
  BY TriageStarts, TriageStep, TriageTruth, PTL DEF TriageSpec

-----------------------------------------------------------------------------
(* MCP sessions: every live process in the hands of one task.              *)

TaskPlaces == {"none", "sleeping", "discovering", "rejecting", "dropping", "cancelled"}
ClientRow == [proc : {"none", "live", "dead"}, broken : BOOLEAN, closed : BOOLEAN, gen : Nat]
SessionRow == [client : Clients \cup {NoClient}, gen : Nat]
ReconnectRow == [pc : TaskPlaces, attempt : Nat, old : Nat]

McpTypes ==
    /\ starting \in Nat \ {0}
    /\ candidate \in [Servers -> Clients \cup {NoClient}]
    /\ session \in [Servers -> SessionRow]
    /\ reconnect \in [Servers -> ReconnectRow]
    /\ client \in [Clients -> ClientRow]
    /\ owned \subseteq Clients /\ cleanup \subseteq Clients /\ toClose \subseteq Clients
    /\ closing \in {"open", "gathering", "closing", "closed"}
    /\ \A s \in Servers : /\ candidate[s] # NoClient => candidate[s][1] = s
                          /\ session[s].client # NoClient => session[s].client[1] = s

\* A client that was not spawned is nowhere, and the next ones were not either.
Unspawned(c) ==
    /\ Healthy(c) /\ client[c].gen = 0
    /\ c \notin owned /\ c # candidate[c[1]]
    /\ \A d \in Clients : d[1] = c[1] /\ c[2] < d[2] => client[d].proc = "none"

\* A candidate is the latest client of its server and belongs to start or to the
\* reconnect task.
HasCandidate(s) ==
    /\ session[s].client = NoClient /\ candidate[s] \notin cleanup
    /\ \A d \in Clients : d[1] = s /\ candidate[s][2] < d[2] => client[d].proc = "none"
    /\ \/ ~Started /\ s = Configs[starting]
       \/ reconnect[s].pc \in {"discovering", "rejecting", "dropping", "cancelled"}

HasTask(s) ==
    /\ session[s].client = NoClient /\ Started
    /\ reconnect[s].pc # "sleeping" => candidate[s] # NoClient
    /\ reconnect[s].pc \in {"rejecting", "dropping", "cancelled"} => client[candidate[s]].closed
    /\ Closed => reconnect[s].pc = "cancelled" /\ closing = "gathering"
    /\ \A c \in Clients : c[1] = s => client[c].gen <= reconnect[s].old

HasSession(s) ==
    LET c == session[s].client IN
    /\ c \in owned /\ c \notin cleanup /\ closing \in {"open", "gathering"}
    /\ ~Closed => ~client[c].closed /\ (Started => ~client[c].broken)
    /\ \A d \in Clients : d[1] = s => client[d].gen <= session[s].gen

\* A server start has not come to yet.
NotStarted(s) ==
    session[s].client = NoClient /\ \A c \in Clients : c[1] = s => client[c].gen = 0

SpawnOrder == \A c \in Clients : client[c].proc = "none" => Unspawned(c)
CandidatesHold == \A s \in Servers : candidate[s] # NoClient => HasCandidate(s)
TasksHold == \A s \in Servers : reconnect[s].pc # "none" => HasTask(s)
SessionsHold == \A s \in Servers : session[s].client # NoClient => HasSession(s)
StartHolds == \A i \in DOMAIN Configs : i >= starting => NotStarted(Configs[i])
CleanupHolds ==
    /\ cleanup \subseteq owned /\ toClose \subseteq owned /\ (Closed => cleanup = {})
    /\ closing = "closing" => \A c \in owned : c \in toClose \/ client[c].closed
    /\ closing # "closing" => toClose = {}

HandsHold == \A c \in Clients : client[c].proc = "live" /\ ~client[c].closed => InHand(c)

GensGrow ==
    \A c, d \in Clients : c[1] = d[1] /\ c[2] < d[2] /\ client[d].gen # 0
                         => client[c].gen < client[d].gen

McpInv ==
    /\ McpTypes /\ SpawnOrder /\ CandidatesHold /\ TasksHold /\ SessionsHold /\ StartHolds
    /\ CleanupHolds /\ HandsHold /\ GensGrow

LEMMA ClientsAre ==
  /\ \A c \in Clients : c[1] \in Servers /\ c[2] \in Nat \ {0} /\ c # NoClient
  /\ \A c, d \in Clients : c[1] = d[1] /\ c[2] = d[2] => c = d
  /\ \A c \in Clients : \A n \in 1..(c[2] - 1) : <<c[1], n>> \in Clients
<1>1. \A c \in Clients : \E s \in Servers : \E n \in 1..MaxClients[s] : c = <<s, n>>
  BY DEF Clients
<1>2. \A s \in Servers : MaxClients[s] \in Nat
  BY McpAssumption DEF McpAssumption
<1>3. \A c \in Clients : c[1] \in Servers /\ c[2] \in 1..MaxClients[c[1]] /\ c = <<c[1], c[2]>>
  BY <1>1
<1>4. \A s \in Servers : \A n \in 1..MaxClients[s] : <<s, n>> \in Clients
  BY DEF Clients
<1>5. \A c \in Clients : \A n \in 1..(c[2] - 1) : <<c[1], n>> \in Clients
  BY <1>2, <1>3, <1>4
<1>6. \A c \in Clients : c # NoClient
  BY McpAssumption DEF McpAssumption
<1> QED BY <1>2, <1>3, <1>5, <1>6

LEMMA ConfigsAre ==
  /\ Len(Configs) \in Nat /\ DOMAIN Configs = 1..Len(Configs)
  /\ \A i \in DOMAIN Configs : Configs[i] \in Servers
  /\ \A i, j \in DOMAIN Configs : Configs[i] = Configs[j] => i = j
  BY McpAssumption DEF McpAssumption, Servers

\* The next client: all before it were spawned.
LEMMA FreshIs ==
  ASSUME NEW s \in Servers, NEW c \in Fresh(s)
  PROVE  /\ c \in Clients /\ c[1] = s /\ client[c].proc = "none"
         /\ \A d \in Clients : d[1] = s /\ d[2] < c[2] => client[d].proc # "none"
<1>1. /\ c \in Clients /\ c[1] = s /\ client[c].proc = "none"
      /\ \A n \in 1..(c[2] - 1) : client[<<s, n>>].proc # "none"
  BY DEF Fresh
<1>2. ASSUME NEW d \in Clients, d[1] = s, d[2] < c[2]
      PROVE  client[d].proc # "none"
  <2>1. d[2] \in 1..(c[2] - 1)
    BY <1>1, <1>2, ClientsAre
  <2>2. <<s, d[2]>> = d
    <3>1. <<c[1], d[2]>> \in Clients
      BY <1>1, <2>1, ClientsAre
    <3>2. <<s, d[2]>>[1] = s /\ <<s, d[2]>>[2] = d[2]
      OBVIOUS
    <3> QED BY <1>1, <1>2, <3>1, <3>2, ClientsAre
  <2> QED BY <1>1, <2>1, <2>2
<1> QED BY <1>1, <1>2

LEMMA McpStarts == McpInit => McpInv
<1> SUFFICES ASSUME McpInit PROVE McpInv
  OBVIOUS
<1>1. McpTypes
  BY DEF McpInit, McpTypes, ClientRow, SessionRow, ReconnectRow, TaskPlaces, NoSession,
     NoSessionTask
<1>2. SpawnOrder /\ CandidatesHold /\ TasksHold /\ SessionsHold /\ StartHolds /\ CleanupHolds
  BY ClientsAre, ConfigsAre
     DEF McpInit, SpawnOrder, CandidatesHold, TasksHold, SessionsHold, StartHolds, CleanupHolds,
         Unspawned, Healthy, NotStarted, NoSession, NoSessionTask, Closed
<1>3. HandsHold /\ GensGrow
  BY DEF McpInit, HandsHold, GensGrow
<1> QED BY <1>1, <1>2, <1>3 DEF McpInv

LEMMA McpTruth == McpInv => SessionsAreManaged
<1> SUFFICES ASSUME McpInv PROVE SessionsAreManaged
  OBVIOUS
<1>1. ASSUME NEW s \in Servers, session[s].client # NoClient
      PROVE  closing \in {"open", "gathering"} /\ (Started /\ ~Closed => Healthy(session[s].client))
  BY <1>1 DEF McpInv, SessionsHold, HasSession, Healthy
<1>2. ASSUME closing = "closed", NEW s \in Servers
      PROVE  reconnect[s].pc = "none"
  BY <1>2 DEF McpInv, TasksHold, HasTask, Closed
<1> QED BY <1>1, <1>2 DEF McpInv, HandsHold, GensGrow, SessionsAreManaged

\* What the assignments to a client's row do.
LEMMA ClosedRow ==
  ASSUME NEW x \in ClientRow
  PROVE  /\ [x EXCEPT !.closed = TRUE] \in ClientRow /\ [x EXCEPT !.closed = TRUE].closed
         /\ [x EXCEPT !.closed = TRUE].proc = x.proc
         /\ [x EXCEPT !.closed = TRUE].broken = x.broken
         /\ [x EXCEPT !.closed = TRUE].gen = x.gen
  BY DEF ClientRow

LEMMA BrokenRow ==
  ASSUME NEW x \in ClientRow
  PROVE  /\ [x EXCEPT !.broken = TRUE] \in ClientRow /\ [x EXCEPT !.broken = TRUE].broken
         /\ [x EXCEPT !.broken = TRUE].closed = x.closed
         /\ [x EXCEPT !.broken = TRUE].proc = x.proc
         /\ [x EXCEPT !.broken = TRUE].gen = x.gen
  BY DEF ClientRow

LEMMA ProcRow ==
  ASSUME NEW x \in ClientRow, NEW p \in {"live", "dead"}
  PROVE  /\ [x EXCEPT !.proc = p] \in ClientRow /\ [x EXCEPT !.proc = p].proc = p
         /\ [x EXCEPT !.proc = p].closed = x.closed
         /\ [x EXCEPT !.proc = p].broken = x.broken
         /\ [x EXCEPT !.proc = p].gen = x.gen
  BY DEF ClientRow

LEMMA GenRow ==
  ASSUME NEW x \in ClientRow, NEW n \in Nat
  PROVE  /\ [x EXCEPT !.gen = n] \in ClientRow /\ [x EXCEPT !.gen = n].gen = n
         /\ [x EXCEPT !.gen = n].closed = x.closed
         /\ [x EXCEPT !.gen = n].proc = x.proc
         /\ [x EXCEPT !.gen = n].broken = x.broken
  BY DEF ClientRow

\* Clients end, and nothing else happens to any of them.
ClientsEnd ==
    /\ client' \in [Clients -> ClientRow]
    /\ \A d \in Clients :
         /\ client[d].proc = "none" => client'[d] = client[d]
         /\ client'[d].gen = client[d].gen /\ client'[d].broken = client[d].broken
         /\ client[d].closed => client'[d].closed
         /\ client'[d].proc = "none" <=> client[d].proc = "none"
         /\ client'[d].proc = "live" => client[d].proc = "live"

LEMMA EndsOne ==
  ASSUME McpTypes, NEW c \in Clients, client[c].proc # "none", Shut(c) \/ client' = Reaped(c)
  PROVE  ClientsEnd /\ client'[c].closed /\ \A d \in Clients \ {c} : client'[d] = client[d]
<1>0. client \in [Clients -> ClientRow] /\ client[c] \in ClientRow
  BY DEF McpTypes
<1> DEFINE y == [client[c] EXCEPT !.closed = TRUE]
           z == [y EXCEPT !.proc = "dead"]
<1>1. /\ y \in ClientRow /\ y.closed /\ y.proc = client[c].proc /\ y.broken = client[c].broken
      /\ y.gen = client[c].gen
  BY <1>0, ClosedRow
<1>2. CASE Shut(c)
  <2>1. client' = [client EXCEPT ![c] = y]
    BY <1>2 DEF Shut
  <2> HIDE DEF y
  <2> QED BY <1>0, <1>1, <2>1 DEF ClientsEnd
<1>3. CASE client' = Reaped(c)
  <2>1. client' = [client EXCEPT ![c] = z]
    BY <1>3 DEF Reaped
  <2> HIDE DEF y
  <2>2. /\ z \in ClientRow /\ z.closed /\ z.proc = "dead" /\ z.broken = client[c].broken
        /\ z.gen = client[c].gen
    BY <1>1, ProcRow
  <2> HIDE DEF z
  <2> QED BY <1>0, <2>1, <2>2 DEF ClientsEnd
<1> QED BY <1>2, <1>3

\* Clients end that no session is bound to, and tasks move on with them.
LEMMA ClientEnds ==
  ASSUME McpInv, ClientsEnd, UNCHANGED <<starting, session, closing>>,
         \A s \in Servers : session[s].client # NoClient =>
             client'[session[s].client] = client[session[s].client],
         owned \subseteq owned', owned' \subseteq Clients,
         \A c \in owned' \ owned : client'[c].closed /\ client'[c].proc # "none",
         cleanup' \subseteq cleanup, toClose' \subseteq toClose,
         \A c \in toClose \ toClose' : client'[c].closed,
         candidate' \in [Servers -> Clients \cup {NoClient}],
         \A s \in Servers : candidate'[s] \in {candidate[s], NoClient},
         reconnect' \in [Servers -> ReconnectRow],
         \A s \in Servers : reconnect'[s].pc # "none" => HasTask(s)',
         \A s \in Servers : candidate'[s] # NoClient /\ reconnect'[s].pc \in {"none", "sleeping"} =>
             reconnect'[s] = reconnect[s],
         \A c \in Clients : client'[c].proc = "live" /\ ~client'[c].closed =>
             /\ c = candidate[c[1]] => c = candidate'[c[1]]
             /\ c \in cleanup => c \in cleanup'
  PROVE  McpInv'
<1>0. McpTypes /\ client \in [Clients -> ClientRow] /\ owned \subseteq Clients
  BY DEF McpInv, McpTypes
<1>2. McpTypes'
  BY <1>0 DEF McpTypes, ClientsEnd
<1>3. SpawnOrder'
  <2>1. SpawnOrder
    BY DEF McpInv
  <2>2. ASSUME NEW c \in Clients, client'[c].proc = "none" PROVE Unspawned(c)'
    <3>1. /\ client[c].proc = "none" /\ client'[c] = client[c]
          /\ \A d \in Clients : client'[d].proc = "none" <=> client[d].proc = "none"
      BY <2>2 DEF ClientsEnd
    <3>2. Unspawned(c)
      BY <2>1, <3>1 DEF SpawnOrder
    <3>3. c \notin owned' /\ c # candidate'[c[1]]
      BY <2>2, <3>2, ClientsAre DEF Unspawned
    <3> QED BY <3>1, <3>2, <3>3 DEF Unspawned, Healthy
  <2> QED BY <2>2 DEF SpawnOrder
<1>4. CandidatesHold'
  <2>1. ASSUME NEW s \in Servers, candidate'[s] # NoClient PROVE HasCandidate(s)'
    <3>1. candidate'[s] = candidate[s] /\ HasCandidate(s)
      BY <2>1 DEF McpInv, CandidatesHold
    <3>2. reconnect'[s].pc \in TaskPlaces
      BY DEF ReconnectRow
    <3> QED BY <2>1, <3>1, <3>2 DEF HasCandidate, Started, ClientsEnd, TaskPlaces
  <2> QED BY <2>1 DEF CandidatesHold
<1>5. TasksHold'
  BY DEF TasksHold
<1>6. SessionsHold'
  <2>1. SessionsHold
    BY DEF McpInv
  <2> QED BY <2>1 DEF SessionsHold, HasSession, Started, Closed, ClientsEnd
<1>7. StartHolds'
  BY DEF McpInv, StartHolds, NotStarted, ClientsEnd
<1>8. CleanupHolds'
  <2>1. CleanupHolds
    BY DEF McpInv
  <2> QED BY <1>0, <2>1 DEF CleanupHolds, Closed, ClientsEnd
<1>9. HandsHold' /\ GensGrow'
  <2>1. HandsHold /\ GensGrow
    BY DEF McpInv
  <2> QED BY <2>1 DEF HandsHold, InHand, GensGrow, ClientsEnd
<1> QED BY <1>2, <1>3, <1>4, <1>5, <1>6, <1>7, <1>8, <1>9 DEF McpInv

\* A candidate is a spawned client of its server that nothing else has.
LEMMA CandidateIs ==
  ASSUME McpInv, NEW s \in Servers, candidate[s] # NoClient
  PROVE  /\ candidate[s] \in Clients /\ candidate[s][1] = s /\ client[candidate[s]].proc # "none"
         /\ session[s].client = NoClient /\ candidate[s] \notin cleanup
         /\ \A u \in Servers : session[u].client # candidate[s] /\ (candidate[u] = candidate[s] => u = s)
<1>1. candidate[s] \in Clients /\ candidate[s][1] = s
  BY DEF McpInv, McpTypes
<1>2. HasCandidate(s)
  BY DEF McpInv, CandidatesHold
<1>3. client[candidate[s]].proc # "none"
  BY <1>1 DEF McpInv, SpawnOrder, Unspawned
<1>4. \A u \in Servers : session[u].client # NoClient => session[u].client[1] = u
  BY DEF McpInv, McpTypes
<1>5. \A u \in Servers : candidate[u] # NoClient => candidate[u][1] = u
  BY DEF McpInv, McpTypes
<1> QED BY <1>1, <1>2, <1>3, <1>4, <1>5 DEF HasCandidate

\* A task without a change of its own is as it was.
LEMMA TaskSame ==
  ASSUME McpInv, NEW s \in Servers, ClientsEnd, UNCHANGED <<starting, session, closing>>,
         reconnect'[s] = reconnect[s], candidate'[s] = candidate[s], reconnect[s].pc # "none"
  PROVE  HasTask(s)'
<1>1. HasTask(s) /\ candidate[s] \in Clients \cup {NoClient}
  BY DEF McpInv, TasksHold, McpTypes
<1> QED BY <1>1 DEF HasTask, Started, Closed, ClientsEnd

LEMMA SessionsSame ==
  ASSUME McpInv, NEW c \in Clients, \A d \in Clients \ {c} : client'[d] = client[d],
         \A s \in Servers : session[s].client # c
  PROVE  \A s \in Servers : session[s].client # NoClient =>
             client'[session[s].client] = client[session[s].client]
<1>1. \A s \in Servers : session[s].client \in Clients \cup {NoClient}
  BY DEF McpInv, McpTypes, SessionRow
<1> QED BY <1>1

LEMMA EndingSteps ==
  ASSUME McpInv, NEW s \in Servers,
         \/ StartFails(s)
         \/ StartDiscovers(s) /\ ~MayPublish(candidate[s])
  PROVE  McpInv'
<1> DEFINE c == candidate[s]
<1>0. McpTypes /\ c # NoClient
  BY DEF McpInv, StartFails, StartDiscovers
<1>1. /\ Shut(c) /\ UNCHANGED <<starting, candidate, session, reconnect, cleanup, closing, toClose>>
      /\ owned' \in {owned, owned \cup {c}}
  BY DEF StartFails, StartDiscovers
<1>2. c \in Clients /\ client[c].proc # "none" /\ \A u \in Servers : session[u].client # c
  BY <1>0, CandidateIs
<1>3. ClientsEnd /\ client'[c].closed /\ \A d \in Clients \ {c} : client'[d] = client[d]
  BY <1>0, <1>1, <1>2, EndsOne
<1> HIDE DEF c
<1>4. \A u \in Servers : session[u].client # NoClient =>
             client'[session[u].client] = client[session[u].client]
  BY <1>2, <1>3, SessionsSame
<1>5. \A u \in Servers : reconnect'[u].pc # "none" => HasTask(u)'
  BY <1>1, <1>3, TaskSame
<1>6. /\ owned \subseteq owned' /\ owned' \subseteq Clients
      /\ \A d \in owned' \ owned : client'[d].closed /\ client'[d].proc # "none"
  BY <1>0, <1>1, <1>2, <1>3 DEF McpTypes, ClientsEnd
<1>7. /\ candidate' \in [Servers -> Clients \cup {NoClient}]
      /\ reconnect' \in [Servers -> ReconnectRow]
  BY <1>0, <1>1 DEF McpTypes
<1> QED BY <1>1, <1>3, <1>4, <1>5, <1>6, <1>7, ClientEnds

LEMMA CleanupSteps ==
  ASSUME McpInv, NEW c \in Clients, CleanupBegins(c) \/ CleanupEnds(c) \/ CloseClient(c)
  PROVE  McpInv'
<1>0. McpTypes /\ CleanupHolds
  BY DEF McpInv
<1>1. /\ UNCHANGED <<starting, candidate, session, reconnect, owned, closing>>
      /\ Shut(c) \/ client' = Reaped(c) \/ (UNCHANGED client /\ client[c].closed)
      /\ \/ c \in cleanup
         \/ c \in toClose /\ UNCHANGED cleanup
      /\ cleanup' \in {cleanup, cleanup \ {c}} /\ toClose' \in {toClose, toClose \ {c}}
  BY DEF CleanupBegins, CleanupEnds, CloseClient
<1>2. c \in owned /\ client[c].proc # "none"
  BY <1>0, <1>1 DEF CleanupHolds, McpInv, SpawnOrder, Unspawned
<1>3. \A u \in Servers : session[u].client # c
  <2>1. ASSUME NEW u \in Servers, session[u].client = c PROVE FALSE
    <3>1. HasSession(u)
      BY <2>1, ClientsAre DEF McpInv, SessionsHold
    <3> QED BY <1>0, <1>1, <2>1, <3>1 DEF HasSession, CleanupHolds
  <2> QED BY <2>1
<1>4. ClientsEnd /\ client'[c].closed /\ \A d \in Clients \ {c} : client'[d] = client[d]
  <2>1. CASE UNCHANGED client /\ client[c].closed
    BY <1>0, <2>1 DEF ClientsEnd, McpTypes
  <2> QED BY <1>0, <1>1, <1>2, <2>1, EndsOne
<1>5. \A u \in Servers : session[u].client # NoClient =>
             client'[session[u].client] = client[session[u].client]
  BY <1>3, <1>4, SessionsSame
<1>6. \A u \in Servers : reconnect'[u].pc # "none" => HasTask(u)'
  BY <1>1, <1>4, TaskSame
<1>7. /\ candidate' \in [Servers -> Clients \cup {NoClient}]
      /\ reconnect' \in [Servers -> ReconnectRow] /\ owned' \subseteq Clients
  BY <1>0, <1>1 DEF McpTypes
<1>8. /\ cleanup' \subseteq cleanup /\ toClose' \subseteq toClose
      /\ \A d \in toClose \ toClose' : client'[d].closed
      /\ \A d \in Clients : ~client'[d].closed /\ d \in cleanup => d \in cleanup'
  BY <1>1, <1>4
<1> QED BY <1>1, <1>4, <1>5, <1>6, <1>7, <1>8, ClientEnds

\* What the task of a server does with its row.
LEMMA ReconnectRows ==
  ASSUME NEW x \in ReconnectRow, NEW p \in TaskPlaces
  PROVE  /\ [x EXCEPT !.pc = p] \in ReconnectRow /\ [x EXCEPT !.pc = p].pc = p
         /\ [x EXCEPT !.pc = p].old = x.old
  BY DEF ReconnectRow

LEMMA NoTaskRow == NoSessionTask \in ReconnectRow /\ NoSessionTask.pc = "none"
  BY DEF ReconnectRow, NoSessionTask, TaskPlaces

LEMMA AttemptRow ==
  ASSUME NEW x \in ReconnectRow
  PROVE  LET y == [x EXCEPT !.pc = "sleeping", !.attempt = x.attempt + 1]
         IN  y \in ReconnectRow /\ y.pc = "sleeping" /\ y.old = x.old
<1> DEFINE n == x.attempt + 1
           y == [x EXCEPT !.pc = "sleeping"]
<1>3. n \in Nat /\ [x EXCEPT !.pc = "sleeping", !.attempt = x.attempt + 1] = [y EXCEPT !.attempt = n]
  BY DEF ReconnectRow
<1> HIDE DEF n, y
<1>4. y \in ReconnectRow /\ y.pc = "sleeping" /\ y.old = x.old
  BY ReconnectRows DEF y, TaskPlaces
<1>5. /\ [y EXCEPT !.attempt = n] \in ReconnectRow /\ [y EXCEPT !.attempt = n].pc = "sleeping"
      /\ [y EXCEPT !.attempt = n].old = x.old
  BY <1>3, <1>4 DEF ReconnectRow
<1> QED BY <1>3, <1>5

LEMMA Attempts ==
  ASSUME McpTypes, NEW s \in Servers, NextAttempt(s)
  PROVE  /\ reconnect' \in [Servers -> ReconnectRow]
         /\ \A u \in Servers \ {s} : reconnect'[u] = reconnect[u]
         /\ \/ reconnect'[s].pc = "none"
            \/ reconnect'[s].pc = "sleeping" /\ reconnect'[s].old = reconnect[s].old
<1>0. reconnect \in [Servers -> ReconnectRow] /\ reconnect[s] \in ReconnectRow
  BY DEF McpTypes
<1> DEFINE x == reconnect[s]
           more == [x EXCEPT !.pc = "sleeping", !.attempt = x.attempt + 1]
<1>1. x \in ReconnectRow
  BY <1>0
<1>2. /\ more \in ReconnectRow /\ more.pc = "sleeping" /\ more.old = x.old
      /\ NoSessionTask \in ReconnectRow /\ NoSessionTask.pc = "none"
  <2>1. more \in ReconnectRow /\ more.pc = "sleeping" /\ more.old = x.old
    BY <1>1, AttemptRow, Zenon
  <2> HIDE DEF more
  <2> QED BY <2>1, NoTaskRow
<1>3. reconnect' = [reconnect EXCEPT ![s] = more] \/ reconnect' = [reconnect EXCEPT ![s] = NoSessionTask]
  BY DEF NextAttempt
<1> HIDE DEF more
<1> QED BY <1>0, <1>2, <1>3

LEMMA ReconnectEnds ==
  ASSUME McpInv, NEW s \in Servers,
         \/ ReconnectFails(s)
         \/ ReconnectDiscovers(s) /\ Shut(candidate[s])
              /\ reconnect' = [reconnect EXCEPT ![s].pc = "rejecting"] /\ UNCHANGED <<session,
                                                                                      candidate>>
  PROVE  McpInv'
<1> DEFINE c == candidate[s]
<1>0. McpTypes /\ reconnect[s].pc = "discovering"
  BY DEF McpInv, ReconnectFails, ReconnectDiscovers
<1>a. HasTask(s) /\ c # NoClient /\ ~Closed
  BY <1>0 DEF McpInv, TasksHold, HasTask
<1>1. /\ Shut(c) /\ UNCHANGED <<starting, candidate, session, cleanup, closing, toClose>>
      /\ owned' \in {owned, owned \cup {c}}
  BY DEF ReconnectFails, ReconnectDiscovers
<1>b. PICK p \in {"rejecting", "dropping"} : reconnect' = [reconnect EXCEPT ![s] = [reconnect[s] EXCEPT !.pc = p]]
  BY DEF ReconnectFails
<1>2. c \in Clients /\ client[c].proc # "none" /\ \A u \in Servers : session[u].client # c
  BY <1>a, CandidateIs
<1>3. ClientsEnd /\ client'[c].closed /\ \A d \in Clients \ {c} : client'[d] = client[d]
  BY <1>0, <1>1, <1>2, EndsOne
<1>c. /\ reconnect' \in [Servers -> ReconnectRow] /\ reconnect'[s].pc = p
      /\ reconnect'[s].old = reconnect[s].old
      /\ \A u \in Servers \ {s} : reconnect'[u] = reconnect[u]
  <2>1. reconnect \in [Servers -> ReconnectRow] /\ p \in TaskPlaces
    BY <1>0 DEF McpTypes, TaskPlaces
  <2> QED BY <1>b, <2>1, ReconnectRows
<1>4. \A u \in Servers : session[u].client # NoClient =>
             client'[session[u].client] = client[session[u].client]
  BY <1>2, <1>3, SessionsSame
<1>5. \A u \in Servers : reconnect'[u].pc # "none" => HasTask(u)'
  <2>1. HasTask(s)'
    BY <1>a, <1>1, <1>3, <1>c DEF HasTask, Started, Closed, ClientsEnd
  <2>2. ASSUME NEW u \in Servers \ {s}, reconnect'[u].pc # "none" PROVE HasTask(u)'
    BY <1>1, <1>3, <1>c, <2>2, TaskSame
  <2> QED BY <2>1, <2>2
<1> HIDE DEF c
<1>6. /\ owned \subseteq owned' /\ owned' \subseteq Clients
      /\ \A d \in owned' \ owned : client'[d].closed /\ client'[d].proc # "none"
  BY <1>0, <1>1, <1>2, <1>3 DEF McpTypes, ClientsEnd
<1>7. /\ candidate' \in [Servers -> Clients \cup {NoClient}]
      /\ \A u \in Servers : reconnect'[u].pc \in {"none", "sleeping"} => reconnect'[u] = reconnect[u]
  BY <1>0, <1>1, <1>c DEF McpTypes
<1> QED BY <1>1, <1>3, <1>4, <1>5, <1>6, <1>7, <1>c, ClientEnds

LEMMA ReconnectMoves ==
  ASSUME McpInv, NEW s \in Servers,
         \/ ReconnectDrops(s)
         \/ reconnect[s].pc = "sleeping" /\ NextAttempt(s)
              /\ UNCHANGED <<client, candidate, starting, session, owned, cleanup, closing,
                             toClose>>
  PROVE  McpInv'
<1> DEFINE c == candidate[s]
<1>0. McpTypes /\ HasTask(s)
  BY DEF McpInv, ReconnectDrops, TasksHold
<1>1. /\ UNCHANGED <<starting, session, owned, cleanup, closing, toClose>>
      /\ \/ client' = Reaped(c) /\ c # NoClient /\ candidate' = [candidate EXCEPT ![s] = NoClient]
         \/ UNCHANGED <<client, candidate>> /\ reconnect[s].pc = "sleeping"
  BY <1>0 DEF ReconnectDrops, HasTask
<1>2. /\ reconnect' \in [Servers -> ReconnectRow]
      /\ \A u \in Servers \ {s} : reconnect'[u] = reconnect[u]
      /\ \/ reconnect'[s].pc = "none"
         \/ /\ reconnect'[s].pc = "sleeping" /\ reconnect'[s].old = reconnect[s].old
            /\ reconnect[s].pc \in {"sleeping", "dropping"}
  <2>1. CASE NextAttempt(s) /\ reconnect[s].pc \in {"sleeping", "dropping"}
    BY <1>0, <2>1, Attempts
  <2>2. CASE reconnect' = [reconnect EXCEPT ![s] = NoSessionTask]
    <3>1. reconnect \in [Servers -> ReconnectRow] /\ reconnect[s] \in ReconnectRow
      BY <1>0 DEF McpTypes
    <3> QED BY <2>2, <3>1, NoTaskRow
  <2> QED BY <2>1, <2>2 DEF ReconnectDrops
<1>3. ClientsEnd
  <2>1. CASE UNCHANGED client
    BY <1>0, <2>1 DEF ClientsEnd, McpTypes
  <2>2. CASE client' = Reaped(c) /\ c # NoClient
    BY <1>0, <2>2, CandidateIs, EndsOne
  <2> QED BY <1>1, <2>1, <2>2
<1>4. \A u \in Servers : session[u].client # NoClient =>
             client'[session[u].client] = client[session[u].client]
  <2>1. CASE UNCHANGED client
    BY <2>1
  <2>2. CASE client' = Reaped(c) /\ c # NoClient
    <3>1. c \in Clients /\ client[c].proc # "none" /\ \A u \in Servers : session[u].client # c
      BY <2>2, CandidateIs
    <3>2. \A d \in Clients \ {c} : client'[d] = client[d]
      BY <1>0, <2>2, <3>1, EndsOne
    <3> QED BY <3>1, <3>2, SessionsSame
  <2> QED BY <1>1, <2>1, <2>2
<1>5. /\ candidate \in [Servers -> Clients \cup {NoClient}]
      /\ candidate' \in [Servers -> Clients \cup {NoClient}]
      /\ \A u \in Servers : candidate'[u] \in {candidate[u], NoClient}
      /\ \A u \in Servers \ {s} : candidate'[u] = candidate[u]
  BY <1>0, <1>1 DEF McpTypes
<1>6. candidate'[s] = NoClient
  <2>1. CASE UNCHANGED candidate /\ reconnect[s].pc = "sleeping"
    <3>1. ASSUME candidate[s] # NoClient PROVE FALSE
      <4>1. HasCandidate(s)
        BY <3>1 DEF McpInv, CandidatesHold
      <4> QED BY <1>0, <2>1, <4>1 DEF HasCandidate, HasTask
    <3> QED BY <2>1, <3>1
  <2> QED BY <1>1, <1>5, <2>1
<1>7. \A u \in Servers : reconnect'[u].pc # "none" => HasTask(u)'
  <2>1. ASSUME reconnect'[s].pc # "none" PROVE HasTask(s)'
    BY <1>0, <1>1, <1>2, <1>3, <2>1 DEF HasTask, Started, Closed, ClientsEnd
  <2>2. ASSUME NEW u \in Servers \ {s}, reconnect'[u].pc # "none" PROVE HasTask(u)'
    BY <1>1, <1>2, <1>3, <1>5, <2>2, TaskSame
  <2> QED BY <2>1, <2>2
<1>8. \A d \in Clients : client'[d].proc = "live" /\ ~client'[d].closed =>
             (d = candidate[d[1]] => d = candidate'[d[1]])
  <2>1. CASE UNCHANGED candidate
    BY <2>1
  <2>2. CASE client' = Reaped(c) /\ c # NoClient
    <3>1. c \in Clients /\ c[1] = s /\ client[c].proc # "none"
      BY <2>2, CandidateIs
    <3>2. client'[c].closed
      BY <1>0, <2>2, <3>1, EndsOne
    <3> QED BY <1>5, <3>1, <3>2, ClientsAre
  <2> QED BY <1>1, <2>1, <2>2
<1>9. owned \subseteq Clients /\ owned' = owned
  BY <1>0, <1>1 DEF McpTypes
<1> QED BY <1>1, <1>2, <1>3, <1>4, <1>5, <1>6, <1>7, <1>8, <1>9, ClientEnds

\* A task that sleeps has no candidate.
LEMMA SleepingHasNone ==
  ASSUME McpInv, NEW s \in Servers, reconnect[s].pc = "sleeping"
  PROVE  candidate[s] = NoClient
<1> SUFFICES ASSUME candidate[s] # NoClient PROVE FALSE
  OBVIOUS
<1>1. HasCandidate(s) /\ HasTask(s)
  BY DEF McpInv, CandidatesHold, TasksHold
<1> QED BY <1>1 DEF HasCandidate, HasTask

\* Until start has returned there is no task, and only the server it is at has
\* a candidate.
LEMMA StartIs ==
  ASSUME McpInv, NEW s \in Servers, AtServer(s)
  PROVE  /\ starting \in DOMAIN Configs /\ s = Configs[starting] /\ starting \in Nat
         /\ NotStarted(s) /\ session[s].client = NoClient
         /\ \A u \in Servers : reconnect[u].pc = "none" /\ (u # s => candidate[u] = NoClient)
<1>1. McpTypes /\ ~Started /\ s = Configs[starting] /\ starting \in Nat \ {0}
  BY DEF AtServer, McpInv, McpTypes
<1>2. starting \in DOMAIN Configs
  BY <1>1, ConfigsAre DEF Started
<1>3. NotStarted(s)
  BY <1>1, <1>2 DEF McpInv, StartHolds
<1>4. \A u \in Servers : reconnect[u].pc = "none"
  BY <1>1 DEF McpInv, TasksHold, HasTask
<1>5. ASSUME NEW u \in Servers, u # s PROVE candidate[u] = NoClient
  BY <1>1, <1>4, <1>5 DEF McpInv, CandidatesHold, HasCandidate
<1> QED BY <1>1, <1>2, <1>3, <1>4, <1>5 DEF NotStarted

LEMMA SpawnSteps ==
  ASSUME McpInv, NEW s \in Servers, Spawn(s),
         UNCHANGED <<starting, session, owned, cleanup, closing, toClose>>,
         \/ AtServer(s) /\ candidate[s] = NoClient /\ UNCHANGED reconnect
         \/ /\ reconnect[s].pc = "sleeping"
            /\ reconnect' = [reconnect EXCEPT ![s].pc = "discovering"]
  PROVE  McpInv'
<1>0. McpTypes /\ client \in [Clients -> ClientRow] /\ SpawnOrder /\ CleanupHolds
  BY DEF McpInv, McpTypes
<1>1. PICK c \in Fresh(s) : /\ client' = [client EXCEPT ![c].proc = "live"]
                            /\ candidate' = [candidate EXCEPT ![s] = c]
  BY DEF Spawn
<1>2. /\ c \in Clients /\ c[1] = s /\ client[c].proc = "none" /\ c # NoClient
      /\ \A d \in Clients : d[1] = s /\ d[2] < c[2] => client[d].proc # "none"
  BY FreshIs, ClientsAre
<1>3. Unspawned(c)
  BY <1>0, <1>2 DEF SpawnOrder
<1>4. /\ candidate[s] = NoClient /\ session[s].client = NoClient
      /\ reconnect[s].pc = "sleeping" => HasTask(s)
      /\ reconnect[s].pc # "sleeping" => ~Started /\ s = Configs[starting]
  BY SleepingHasNone, StartIs DEF McpInv, TasksHold, HasTask, AtServer
<1>5. /\ client' \in [Clients -> ClientRow]
      /\ \A d \in Clients : /\ client'[d].gen = client[d].gen /\ client'[d].closed = client[d].closed
                            /\ client'[d].broken = client[d].broken
                            /\ d # c => client'[d].proc = client[d].proc
      /\ client'[c].proc = "live"
  <2> DEFINE y == [client[c] EXCEPT !.proc = "live"]
  <2>1. client' = [client EXCEPT ![c] = y]
    BY <1>1
  <2>2. /\ y \in ClientRow /\ y.proc = "live" /\ y.closed = client[c].closed
        /\ y.broken = client[c].broken /\ y.gen = client[c].gen
    BY <1>0, <1>2, ProcRow
  <2> HIDE DEF y
  <2> QED BY <1>0, <1>2, <2>1, <2>2
<1>6. /\ candidate' \in [Servers -> Clients \cup {NoClient}] /\ candidate'[s] = c
      /\ \A u \in Servers \ {s} : candidate'[u] = candidate[u]
  BY <1>0, <1>1, <1>2 DEF McpTypes
<1>7. /\ reconnect' \in [Servers -> ReconnectRow] /\ \A u \in Servers \ {s} : reconnect'[u] = reconnect[u]
      /\ \/ reconnect[s].pc # "sleeping" /\ reconnect'[s].pc = "none"
         \/ /\ reconnect[s].pc = "sleeping" /\ reconnect'[s].pc = "discovering"
            /\ reconnect'[s].old = reconnect[s].old
  <2>1. reconnect \in [Servers -> ReconnectRow]
    BY <1>0 DEF McpTypes
  <2>2. CASE AtServer(s) /\ UNCHANGED reconnect
    BY <2>1, <2>2 DEF AtServer
  <2>3. CASE reconnect[s].pc = "sleeping" /\ reconnect' = [reconnect EXCEPT ![s].pc = "discovering"]
    <3>1. reconnect' = [reconnect EXCEPT ![s] = [reconnect[s] EXCEPT !.pc = "discovering"]]
      BY <2>3
    <3>2. "discovering" \in TaskPlaces
      BY DEF TaskPlaces
    <3> QED BY <2>1, <2>3, <3>1, <3>2, ReconnectRows
  <2> QED BY <2>2, <2>3
<1>8. McpTypes'
  BY <1>0, <1>2, <1>5, <1>6, <1>7 DEF McpTypes
<1>9. SpawnOrder'
  <2>1. ASSUME NEW d \in Clients, client'[d].proc = "none" PROVE Unspawned(d)'
    <3>1. d # c /\ client[d].proc = "none" /\ Unspawned(d)
      BY <1>0, <1>5, <2>1 DEF SpawnOrder
    <3>2. d # candidate'[d[1]]
      BY <1>6, <3>1, ClientsAre DEF Unspawned
    <3>3. ASSUME NEW e \in Clients, e[1] = d[1], d[2] < e[2] PROVE client'[e].proc = "none"
      BY <1>2, <1>5, <3>1, <3>3 DEF Unspawned
    <3> QED BY <1>5, <3>1, <3>2, <3>3 DEF Unspawned, Healthy
  <2> QED BY <2>1 DEF SpawnOrder
<1>10. CandidatesHold'
  <2>1. HasCandidate(s)'
    BY <1>0, <1>2, <1>3, <1>4, <1>5, <1>6, <1>7
       DEF HasCandidate, Unspawned, CleanupHolds, Started
  <2>2. ASSUME NEW u \in Servers \ {s}, candidate'[u] # NoClient PROVE HasCandidate(u)'
    <3>1. HasCandidate(u) /\ candidate'[u] = candidate[u]
      BY <1>6, <2>2 DEF McpInv, CandidatesHold
    <3> QED BY <1>2, <1>5, <1>7, <3>1 DEF HasCandidate, Started
  <2> QED BY <2>1, <2>2 DEF CandidatesHold
<1>11. TasksHold'
  <2>1. ASSUME reconnect'[s].pc # "none" PROVE HasTask(s)'
    BY <1>2, <1>4, <1>5, <1>6, <1>7, <2>1 DEF HasTask, Started, Closed
  <2>2. ASSUME NEW u \in Servers \ {s}, reconnect'[u].pc # "none" PROVE HasTask(u)'
    <3>1. HasTask(u) /\ candidate'[u] = candidate[u] /\ reconnect'[u] = reconnect[u]
      BY <1>6, <1>7, <2>2 DEF McpInv, TasksHold
    <3>2. candidate[u] # NoClient => candidate[u] \in Clients
      BY <1>0 DEF McpTypes
    <3> QED BY <1>5, <3>1, <3>2 DEF HasTask, Started, Closed
  <2> QED BY <2>1, <2>2 DEF TasksHold
<1>12. SessionsHold'
  <2>1. SessionsHold /\ \A u \in Servers : session[u].client # NoClient => session[u].client \in Clients
    BY <1>0 DEF McpInv, McpTypes, SessionRow
  <2> QED BY <1>5, <2>1 DEF SessionsHold, HasSession, Started, Closed
<1>13. StartHolds' /\ CleanupHolds' /\ GensGrow'
  <2>1. StartHolds /\ GensGrow
    BY DEF McpInv
  <2>2. CleanupHolds'
    BY <1>0, <1>5 DEF CleanupHolds, Closed, McpTypes
  <2> QED BY <1>5, <2>1, <2>2 DEF StartHolds, NotStarted, GensGrow
<1>14. HandsHold'
  <2>1. HandsHold
    BY DEF McpInv
  <2>2. ASSUME NEW d \in Clients, client'[d].proc = "live", ~client'[d].closed PROVE InHand(d)'
    <3>1. CASE d = c
      BY <1>2, <1>6, <3>1 DEF InHand
    <3>2. CASE d # c
      <4>1. InHand(d)
        BY <1>5, <2>1, <2>2, <3>2 DEF HandsHold
      <4> QED BY <1>2, <1>4, <1>6, <4>1, ClientsAre DEF InHand
    <3> QED BY <3>1, <3>2
  <2> QED BY <2>2 DEF HandsHold
<1> QED BY <1>8, <1>9, <1>10, <1>11, <1>12, <1>13, <1>14 DEF McpInv

\* A session that is bound: nothing else of its server is at work.
LEMMA SessionIs ==
  ASSUME McpInv, NEW s \in Servers, session[s].client # NoClient
  PROVE  /\ HasSession(s) /\ session[s].client \in Clients /\ session[s].client[1] = s
         /\ candidate[s] = NoClient /\ reconnect[s].pc = "none" /\ session[s].gen \in Nat
  BY DEF McpInv, McpTypes, SessionsHold, CandidatesHold, TasksHold, HasCandidate, HasTask,
     SessionRow

\* What Unbind leaves of a server whose session broke.
UnboundRow(gen) == [pc |-> "sleeping", attempt |-> 1, old |-> gen]

LEMMA UnboundRows ==
  ASSUME NEW gen \in Nat
  PROVE  /\ UnboundRow(gen) \in ReconnectRow /\ UnboundRow(gen).pc = "sleeping"
         /\ UnboundRow(gen).old = gen /\ NoSession \in SessionRow /\ NoSession.client = NoClient
  BY DEF UnboundRow, ReconnectRow, TaskPlaces, NoSession, SessionRow

\* A process broke, and none changed otherwise.
BreaksOne(c) ==
    /\ client' \in [Clients -> ClientRow]
    /\ \A d \in Clients : /\ client'[d].gen = client[d].gen /\ client'[d].closed = client[d].closed
                          /\ client'[d].proc = "none" <=> client[d].proc = "none"
                          /\ client'[d].proc = "live" => client[d].proc = "live"
                          /\ d # c => client'[d] = client[d]

LEMMA BreakIs ==
  ASSUME McpTypes, NEW c \in Clients, ClientBreaks(c)
  PROVE  BreaksOne(c)
<1>0. client \in [Clients -> ClientRow] /\ client[c].proc = "live"
  BY DEF McpTypes, ClientBreaks
<1>1. PICK p \in {"live", "dead"} : client' = [client EXCEPT ![c].broken = TRUE, ![c].proc = p]
  BY DEF ClientBreaks
<1> DEFINE y == [client[c] EXCEPT !.broken = TRUE]
           z == [y EXCEPT !.proc = p]
<1>2. client' = [client EXCEPT ![c] = z]
  BY <1>1
<1>3. y \in ClientRow /\ y.closed = client[c].closed /\ y.gen = client[c].gen
  BY <1>0, BrokenRow
<1> HIDE DEF y
<1>4. z \in ClientRow /\ z.closed = client[c].closed /\ z.gen = client[c].gen /\ z.proc = p
  BY <1>3, ProcRow
<1> HIDE DEF z
<1> QED BY <1>0, <1>2, <1>4 DEF BreaksOne

\* A client breaks that is bound to nothing, or before _started is set, or after
\* close has begun: only its own flags change.
LEMMA BreaksAlone ==
  ASSUME McpInv, NEW c \in Clients, BreaksOne(c),
         ~(~Closed /\ Started /\ session[c[1]].client = c),
         UNCHANGED <<starting, candidate, session, reconnect, owned, cleanup, closing, toClose>>,
         client[c].proc # "none"
  PROVE  McpInv'
<1>0. McpTypes /\ client \in [Clients -> ClientRow]
  BY DEF McpInv, McpTypes
<1>1. McpTypes'
  BY <1>0 DEF McpTypes, BreaksOne
<1>2. SpawnOrder'
  <2>1. SpawnOrder
    BY DEF McpInv
  <2>2. ASSUME NEW d \in Clients, client'[d].proc = "none" PROVE Unspawned(d)'
    <3>1. d # c /\ client'[d] = client[d] /\ Unspawned(d)
      BY <2>1, <2>2 DEF BreaksOne, SpawnOrder
    <3> QED BY <3>1 DEF Unspawned, Healthy, BreaksOne
  <2> QED BY <2>2 DEF SpawnOrder
<1>3. CandidatesHold'
  BY DEF McpInv, CandidatesHold, HasCandidate, Started, BreaksOne
<1>4. TasksHold'
  <2>1. TasksHold /\ \A u \in Servers : candidate[u] # NoClient => candidate[u] \in Clients
    BY <1>0 DEF McpInv, McpTypes
  <2> QED BY <2>1 DEF TasksHold, HasTask, Started, Closed, BreaksOne
<1>5. SessionsHold'
  <2>1. ASSUME NEW u \in Servers, session[u].client # NoClient PROVE HasSession(u)'
    <3>1. HasSession(u) /\ session[u].client \in Clients /\ session[u].client[1] = u
      BY <2>1, SessionIs
    <3> QED BY <3>1 DEF HasSession, Started, Closed, BreaksOne
  <2> QED BY <2>1 DEF SessionsHold
<1>6. StartHolds' /\ GensGrow'
  BY DEF McpInv, StartHolds, NotStarted, GensGrow, BreaksOne
<1>7. CleanupHolds'
  BY <1>0 DEF McpInv, McpTypes, CleanupHolds, Closed, BreaksOne
<1>8. HandsHold'
  BY DEF McpInv, HandsHold, InHand, BreaksOne
<1> QED BY <1>1, <1>2, <1>3, <1>4, <1>5, <1>6, <1>7, <1>8 DEF McpInv

\* _on_client_broken takes the session away, and a cleanup and a reconnect task
\* take over.
LEMMA BreaksBound ==
  ASSUME McpInv, NEW c \in Clients, BreaksOne(c), client[c].proc # "none",
         ~Closed, Started, session[c[1]].client = c, Unbind({c[1]}, session),
         UNCHANGED <<starting, candidate, owned, closing, toClose>>
  PROVE  McpInv'
<1> DEFINE s == c[1]
<1>0. McpTypes /\ client \in [Clients -> ClientRow] /\ session \in [Servers -> SessionRow]
        /\ reconnect \in [Servers -> ReconnectRow] /\ s \in Servers /\ c # NoClient
  BY ClientsAre DEF McpInv, McpTypes
<1>1. /\ HasSession(s) /\ candidate[s] = NoClient /\ reconnect[s].pc = "none" /\ session[s].gen \in Nat
  BY <1>0, SessionIs
<1>2. /\ session' \in [Servers -> SessionRow] /\ session'[s].client = NoClient
      /\ \A u \in Servers \ {s} : session'[u] = session[u]
      /\ cleanup' = cleanup \cup {c}
      /\ reconnect' \in [Servers -> ReconnectRow] /\ reconnect'[s].pc = "sleeping"
      /\ reconnect'[s].old = session[s].gen
      /\ \A u \in Servers \ {s} : reconnect'[u] = reconnect[u]
  <2>1. /\ session' = [u \in Servers |-> IF u = s THEN NoSession ELSE session[u]]
        /\ cleanup' = cleanup \cup {c}
        /\ reconnect' = [u \in Servers |->
              IF u = s THEN UnboundRow(session[s].gen) ELSE reconnect[u]]
    BY <1>0 DEF Unbind, UnboundRow
  <2>2. /\ UnboundRow(session[s].gen) \in ReconnectRow /\ NoSession \in SessionRow
        /\ UnboundRow(session[s].gen).pc = "sleeping" /\ NoSession.client = NoClient
        /\ UnboundRow(session[s].gen).old = session[s].gen
    BY <1>1, UnboundRows
  <2> QED BY <1>0, <2>1, <2>2
<1> HIDE DEF s
<1>s. c[1] = s
  BY DEF s
<1>3. McpTypes'
  BY <1>0, <1>2 DEF McpTypes, BreaksOne
<1>4. SpawnOrder'
  <2>1. SpawnOrder
    BY DEF McpInv
  <2>2. ASSUME NEW d \in Clients, client'[d].proc = "none" PROVE Unspawned(d)'
    <3>1. d # c /\ client'[d] = client[d] /\ Unspawned(d)
      BY <2>1, <2>2 DEF BreaksOne, SpawnOrder
    <3> QED BY <3>1 DEF Unspawned, Healthy, BreaksOne
  <2> QED BY <2>2 DEF SpawnOrder
<1>5. CandidatesHold'
  <2>1. ASSUME NEW u \in Servers, candidate[u] # NoClient PROVE HasCandidate(u)'
    <3>1. HasCandidate(u) /\ u # s /\ candidate[u] # c
      BY <1>0, <1>1, <1>s, <2>1, CandidateIs DEF McpInv, CandidatesHold
    <3> QED BY <1>2, <3>1 DEF HasCandidate, Started, BreaksOne
  <2> QED BY <2>1 DEF CandidatesHold
<1>6. TasksHold'
  <2>1. HasTask(s)'
    <3>1. \A d \in Clients : d[1] = s => client'[d].gen <= reconnect'[s].old
      BY <1>1, <1>2 DEF HasSession, BreaksOne
    <3> QED BY <1>1, <1>2, <3>1 DEF HasTask, Started, Closed
  <2>2. ASSUME NEW u \in Servers \ {s}, reconnect'[u].pc # "none" PROVE HasTask(u)'
    <3>1. HasTask(u) /\ reconnect'[u] = reconnect[u] /\ session'[u] = session[u]
             /\ (candidate[u] # NoClient => candidate[u] \in Clients)
      BY <1>0, <1>2, <2>2 DEF McpInv, TasksHold, McpTypes
    <3> QED BY <3>1 DEF HasTask, Started, Closed, BreaksOne
  <2> QED BY <2>1, <2>2 DEF TasksHold
<1>7. SessionsHold'
  <2>1. ASSUME NEW u \in Servers, session'[u].client # NoClient PROVE HasSession(u)'
    <3>1. u # s /\ session'[u] = session[u]
      BY <1>2, <2>1
    <3>2. HasSession(u) /\ session[u].client \in Clients /\ session[u].client[1] = u
      BY <2>1, <3>1, SessionIs
    <3> QED BY <1>2, <1>s, <3>1, <3>2 DEF HasSession, Started, Closed, BreaksOne
  <2> QED BY <2>1 DEF SessionsHold
<1>8. StartHolds'
  <2>1. \A i \in DOMAIN Configs : ~(i >= starting)
    BY <1>0, ConfigsAre DEF Started, McpTypes
  <2> QED BY <2>1 DEF StartHolds
<1>9. CleanupHolds'
  BY <1>0, <1>1, <1>2, <1>s DEF McpInv, McpTypes, CleanupHolds, HasSession, Closed, BreaksOne
<1>10. HandsHold'
  <2>1. ASSUME NEW d \in Clients, client'[d].proc = "live", ~client'[d].closed PROVE InHand(d)'
    <3>1. InHand(d)
      BY <2>1 DEF McpInv, HandsHold, BreaksOne
    <3>2. d = session[d[1]].client => d \in cleanup' \/ d = session'[d[1]].client
      BY <1>2, <1>s, ClientsAre
    <3> QED BY <1>2, <3>1, <3>2 DEF InHand
  <2> QED BY <2>1 DEF HandsHold
<1>11. GensGrow'
  BY DEF McpInv, GensGrow, BreaksOne
<1> QED BY <1>3, <1>4, <1>5, <1>6, <1>7, <1>8, <1>9, <1>10, <1>11 DEF McpInv

LEMMA BreakSteps ==
  ASSUME McpInv, NEW c \in Clients, ClientBreaks(c)
  PROVE  McpInv'
<1>0. McpTypes /\ client[c].proc # "none"
  BY DEF McpInv, ClientBreaks
<1>1. BreaksOne(c)
  BY <1>0, BreakIs
<1>2. CASE ~Closed /\ Started /\ session[c[1]].client = c
  BY <1>0, <1>1, <1>2, BreaksBound DEF ClientBreaks
<1>3. CASE ~(~Closed /\ Started /\ session[c[1]].client = c)
  BY <1>0, <1>1, <1>3, BreaksAlone DEF ClientBreaks
<1> QED BY <1>2, <1>3

-----------------------------------------------------------------------------

LEMMA CloseBeginsHolds ==
  ASSUME McpInv, CloseBegins
  PROVE  McpInv'
<1> DEFINE open == {s \in Servers : reconnect[s].pc = "discovering"}
           others == {s \in Servers : reconnect[s].pc \notin {"none", "discovering"}}
<1>0. McpTypes /\ client \in [Clients -> ClientRow] /\ reconnect \in [Servers -> ReconnectRow]
        /\ candidate \in [Servers -> Clients \cup {NoClient}]
  BY DEF McpInv, McpTypes
<1>1. /\ UNCHANGED <<starting, session, owned, toClose>> /\ cleanup' = {} /\ toClose = {}
      /\ closing = "open" /\ closing' = "gathering"
  BY DEF CloseBegins, McpInv, CleanupHolds
<1>2. /\ reconnect' \in [Servers -> ReconnectRow]
      /\ \A s \in Servers : /\ reconnect'[s].pc = IF s \in open THEN "cancelled" ELSE "none"
                            /\ s \in open => reconnect'[s].old = reconnect[s].old
  <2>1. reconnect' = [s \in Servers |->
           IF s \in open THEN [reconnect[s] EXCEPT !.pc = "cancelled"] ELSE NoSessionTask]
    BY DEF CloseBegins
  <2>2. "cancelled" \in TaskPlaces
    BY DEF TaskPlaces
  <2> HIDE DEF open
  <2> QED BY <1>0, <2>1, <2>2, ReconnectRows, NoTaskRow
<1>3. /\ candidate' \in [Servers -> Clients \cup {NoClient}]
      /\ \A s \in Servers : candidate'[s] = IF s \in others THEN NoClient ELSE candidate[s]
  BY <1>0 DEF CloseBegins
<1>4. /\ ClientsEnd
      /\ \A s \in open : candidate[s] \in Clients /\ client'[candidate[s]].closed
  <2>1. client' = [c \in Clients |->
           IF c[1] \in open /\ c = candidate[c[1]] THEN [client[c] EXCEPT !.closed = TRUE]
           ELSE client[c]]
    BY DEF CloseBegins
  <2>2. \A s \in open : candidate[s] # NoClient
    BY DEF McpInv, TasksHold, HasTask
  <2>3. \A s \in open : candidate[s] \in Clients /\ candidate[s][1] = s
                        /\ client[candidate[s]].proc # "none"
    BY <2>2, CandidateIs
  <2> HIDE DEF open
  <2>4. \A c \in Clients : client[c] \in ClientRow
    BY <1>0
  <2>5. ClientsEnd
    BY <1>0, <2>1, <2>3, <2>4, ClosedRow DEF ClientsEnd
  <2> QED BY <2>1, <2>3, <2>4, <2>5, ClosedRow
<1>5. McpTypes'
  BY <1>0, <1>1, <1>2, <1>3, <1>4 DEF McpTypes, ClientsEnd
<1>6. SpawnOrder'
  <2>1. SpawnOrder
    BY DEF McpInv
  <2>2. ASSUME NEW c \in Clients, client'[c].proc = "none" PROVE Unspawned(c)'
    <3>1. client[c].proc = "none" /\ client'[c] = client[c] /\ Unspawned(c)
      BY <1>4, <2>1, <2>2 DEF ClientsEnd, SpawnOrder
    <3>2. c # candidate'[c[1]]
      BY <1>3, <3>1, ClientsAre DEF Unspawned
    <3> QED BY <1>1, <1>4, <3>1, <3>2 DEF Unspawned, Healthy, ClientsEnd
  <2> QED BY <2>2 DEF SpawnOrder
<1>7. CandidatesHold'
  <2>1. ASSUME NEW s \in Servers, candidate'[s] # NoClient PROVE HasCandidate(s)'
    <3>1. s \notin others /\ candidate'[s] = candidate[s]
      BY <1>3, <2>1
    <3>2. HasCandidate(s)
      BY <2>1, <3>1 DEF McpInv, CandidatesHold
    <3> QED BY <1>1, <1>2, <1>4, <3>1, <3>2 DEF HasCandidate, Started, ClientsEnd
  <2> QED BY <2>1 DEF CandidatesHold
<1>8. TasksHold'
  <2>1. ASSUME NEW s \in Servers, reconnect'[s].pc # "none" PROVE HasTask(s)'
    <3>1. s \in open /\ s \notin others /\ HasTask(s)
      BY <1>2, <2>1 DEF McpInv, TasksHold
    <3>2. candidate'[s] = candidate[s] /\ candidate[s] # NoClient /\ client'[candidate[s]].closed
      BY <1>3, <1>4, <3>1 DEF HasTask
    <3> QED BY <1>1, <1>2, <1>4, <3>1, <3>2 DEF HasTask, Started, Closed, ClientsEnd
  <2> QED BY <2>1 DEF TasksHold
<1>9. SessionsHold'
  BY <1>1, <1>4 DEF McpInv, SessionsHold, HasSession, Closed, ClientsEnd
<1>10. StartHolds' /\ GensGrow'
  BY <1>1, <1>4 DEF McpInv, StartHolds, NotStarted, GensGrow, ClientsEnd
<1>11. CleanupHolds'
  BY <1>1 DEF McpInv, CleanupHolds
<1>12. HandsHold'
  <2>1. ASSUME NEW c \in Clients, client'[c].proc = "live", ~client'[c].closed PROVE InHand(c)'
    <3>1. InHand(c) /\ ~client[c].closed /\ c[1] \in Servers /\ c # NoClient
      BY <1>4, <2>1, ClientsAre DEF McpInv, HandsHold, ClientsEnd
    <3>2. c \in cleanup => c \in owned
      BY DEF McpInv, CleanupHolds
    <3>3. ASSUME c = candidate[c[1]], c[1] \in others PROVE FALSE
      <4>1. HasTask(c[1])
        BY <3>3 DEF McpInv, TasksHold
      <4>2. reconnect[c[1]].pc # "sleeping"
        BY <3>1, <3>3, SleepingHasNone
      <4>3. reconnect[c[1]].pc \in {"rejecting", "dropping", "cancelled"}
        BY <1>0, <3>1, <3>3, <4>2 DEF ReconnectRow, TaskPlaces
      <4> QED BY <3>1, <3>3, <4>1, <4>3 DEF HasTask
    <3>4. c = candidate[c[1]] => c = candidate'[c[1]]
      BY <1>3, <3>1, <3>3
    <3> QED BY <1>1, <3>1, <3>2, <3>4 DEF InHand
  <2> QED BY <2>1 DEF HandsHold
<1> QED BY <1>5, <1>6, <1>7, <1>8, <1>9, <1>10, <1>11, <1>12 DEF McpInv

LEMMA CloseGatheredHolds ==
  ASSUME McpInv, CloseGathered
  PROVE  McpInv'
<1>1. /\ UNCHANGED <<starting, candidate, reconnect, client, owned, cleanup>>
      /\ closing = "gathering" /\ closing' = "closing" /\ toClose' = owned
      /\ \A s \in Servers : reconnect[s].pc = "none" /\ session'[s].client = NoClient
      /\ session' \in [Servers -> SessionRow]
  BY DEF CloseGathered, NoSession, SessionRow
<1>2. McpTypes'
  BY <1>1 DEF McpInv, McpTypes
<1>3. SpawnOrder' /\ GensGrow'
  BY <1>1 DEF McpInv, SpawnOrder, Unspawned, Healthy, GensGrow
<1>4. CandidatesHold'
  BY <1>1 DEF McpInv, CandidatesHold, HasCandidate, Started
<1>5. TasksHold' /\ SessionsHold'
  BY <1>1 DEF TasksHold, SessionsHold
<1>6. StartHolds'
  BY <1>1, ConfigsAre DEF McpInv, StartHolds, NotStarted
<1>7. CleanupHolds'
  BY <1>1 DEF McpInv, CleanupHolds, Closed
<1>8. HandsHold'
  <2>1. ASSUME NEW c \in Clients, client[c].proc = "live", ~client[c].closed PROVE InHand(c)'
    <3>1. InHand(c)
      BY <2>1 DEF McpInv, HandsHold
    <3>2. c = session[c[1]].client => c \in owned
      BY SessionIs, ClientsAre DEF HasSession
    <3> QED BY <1>1, <3>1, <3>2 DEF InHand
  <2> QED BY <1>1, <2>1 DEF HandsHold
<1> QED BY <1>2, <1>3, <1>4, <1>5, <1>6, <1>7, <1>8 DEF McpInv

LEMMA CloseEndsHolds ==
  ASSUME McpInv, CloseEnds
  PROVE  McpInv'
<1>1. /\ UNCHANGED <<starting, candidate, session, reconnect, client, cleanup, toClose>>
      /\ closing = "closing" /\ closing' = "closed" /\ toClose = {} /\ owned' = {} /\ Closed
  BY DEF CloseEnds, Closed
<1>2. McpTypes'
  BY <1>1 DEF McpInv, McpTypes
<1>3. SpawnOrder' /\ GensGrow' /\ StartHolds'
  BY <1>1 DEF McpInv, SpawnOrder, Unspawned, Healthy, GensGrow, StartHolds, NotStarted
<1>4. CandidatesHold'
  BY <1>1 DEF McpInv, CandidatesHold, HasCandidate, Started
<1>5. TasksHold' /\ SessionsHold'
  BY <1>1 DEF McpInv, TasksHold, SessionsHold, HasTask, HasSession
<1>6. CleanupHolds'
  BY <1>1 DEF McpInv, CleanupHolds
<1>7. HandsHold'
  BY <1>1 DEF McpInv, CleanupHolds, HandsHold, InHand
<1> QED BY <1>2, <1>3, <1>4, <1>5, <1>6, <1>7 DEF McpInv

-----------------------------------------------------------------------------
\* What the end of a server's turn does: sess is the table start has built, S the
\* sessions found broken when it returns.
TurnEnds(s, sess, S) ==
    /\ starting' = starting + 1
    /\ session' \in [Servers -> SessionRow] /\ reconnect' \in [Servers -> ReconnectRow]
    /\ \A u \in Servers :
         /\ session'[u].client = IF u \in S THEN NoClient ELSE sess[u].client
         /\ u \notin S => session'[u] = sess[u]
         /\ reconnect'[u].pc = IF u \in S THEN "sleeping" ELSE reconnect[u].pc
         /\ u \in S => reconnect'[u].old = sess[u].gen
    /\ cleanup' = cleanup \cup {sess[u].client : u \in S}
    /\ S \subseteq {u \in Servers : sess[u].client # NoClient /\ client[sess[u].client].broken}
    /\ S # {} => ~Closed /\ Started'
    /\ Started' /\ ~Closed =>
         \A u \in Servers : sess[u].client # NoClient /\ client[sess[u].client].broken => u \in S

LEMMA NextServerIs ==
  ASSUME McpTypes, NEW s \in Servers, AtServer(s),
         NEW sess \in [Servers -> SessionRow], NextServer(sess)
  PROVE  \E S \in SUBSET Servers : TurnEnds(s, sess, S)
<1>0. /\ starting \in Nat /\ Len(Configs) \in Nat /\ starting' = starting + 1
      /\ reconnect \in [Servers -> ReconnectRow] /\ starting <= Len(Configs)
  <2>1. starting \in Nat /\ Len(Configs) \in Nat
    BY ConfigsAre DEF McpTypes
  <2>2. starting <= Len(Configs)
    BY <2>1 DEF AtServer, Started
  <2>3. reconnect \in [Servers -> ReconnectRow] /\ starting' = starting + 1
    BY DEF McpTypes, NextServer
  <2> QED BY <2>1, <2>2, <2>3
<1>1. CASE starting = Len(Configs)
  <2> DEFINE S == IF Closed THEN {} ELSE BrokenAtStart(sess)
  <2>1. /\ session' = [u \in Servers |-> IF u \in S THEN NoSession ELSE sess[u]]
        /\ cleanup' = cleanup \cup {sess[u].client : u \in S}
        /\ reconnect' = [u \in Servers |->
              IF u \in S THEN UnboundRow(sess[u].gen) ELSE reconnect[u]]
    BY <1>1 DEF NextServer, Unbind, UnboundRow
  <2>2. \A u \in Servers : sess[u].gen \in Nat /\ sess[u] \in SessionRow
    BY DEF SessionRow
  <2>3. /\ S \subseteq {u \in Servers : sess[u].client # NoClient /\ client[sess[u].client].broken}
        /\ S # {} => ~Closed
        /\ ~Closed =>
             \A u \in Servers : sess[u].client # NoClient /\ client[sess[u].client].broken => u \in S
    BY DEF BrokenAtStart
  <2>4. Started'
    BY <1>0, <1>1 DEF Started
  <2> HIDE DEF S
  <2>5. /\ session' \in [Servers -> SessionRow] /\ reconnect' \in [Servers -> ReconnectRow]
        /\ \A u \in Servers :
             /\ session'[u].client = IF u \in S THEN NoClient ELSE sess[u].client
             /\ u \notin S => session'[u] = sess[u]
             /\ reconnect'[u].pc = IF u \in S THEN "sleeping" ELSE reconnect[u].pc
             /\ u \in S => reconnect'[u].old = sess[u].gen
    BY <1>0, <2>1, <2>2, UnboundRows
  <2>6. TurnEnds(s, sess, S)
    BY <1>0, <2>1, <2>3, <2>4, <2>5 DEF TurnEnds
  <2> QED BY <2>3, <2>6
<1>2. CASE starting # Len(Configs)
  <2>1. session' = sess /\ UNCHANGED <<cleanup, reconnect>>
    BY <1>2 DEF NextServer
  <2>2. ~Started'
    BY <1>0, <1>2 DEF Started
  <2>3. TurnEnds(s, sess, {})
    BY <1>0, <2>1, <2>2 DEF TurnEnds
  <2> QED BY <2>3
<1> QED BY <1>1, <1>2

\* What happened to the candidate of the turn: nothing was spawned, it was
\* published, or it was reaped.
TurnClient(s, sess) ==
    LET c == candidate[s] IN
    /\ client' \in [Clients -> ClientRow]
    /\ candidate' \in [Servers -> Clients \cup {NoClient}]
    /\ \A u \in Servers : candidate'[u] = NoClient
    /\ \A d \in Clients : d # c => client'[d] = client[d]
    /\ \/ /\ sess = session /\ owned' = owned
          /\ c # NoClient => /\ client'[c].closed /\ client'[c].gen = client[c].gen
                             /\ client'[c].proc # "none"
       \/ /\ c # NoClient /\ ~Closed /\ Healthy(c) /\ owned' = owned \cup {c}
          /\ sess[s].client = c /\ sess[s].gen = 1
          /\ \A u \in Servers \ {s} : sess[u] = session[u]
          /\ client'[c].gen = 1 /\ ~client'[c].broken /\ ~client'[c].closed
          /\ client'[c].proc # "none"

LEMMA TurnHolds ==
  ASSUME McpInv, NEW s \in Servers, AtServer(s), NEW sess \in [Servers -> SessionRow],
         NEW S \in SUBSET Servers, TurnEnds(s, sess, S), TurnClient(s, sess),
         UNCHANGED <<closing, toClose>>
  PROVE  McpInv'
<1> DEFINE c == candidate[s]
<1>0. McpTypes /\ client \in [Clients -> ClientRow] /\ c \in Clients \cup {NoClient}
  BY DEF McpInv, McpTypes
<1>1. /\ starting \in DOMAIN Configs /\ s = Configs[starting] /\ starting \in Nat
      /\ NotStarted(s) /\ session[s].client = NoClient
      /\ \A u \in Servers : reconnect[u].pc = "none" /\ (u # s => candidate[u] = NoClient)
  BY StartIs
<1>2. c # NoClient => /\ c \in Clients /\ c[1] = s /\ client[c].proc # "none" /\ c \notin cleanup
                      /\ \A u \in Servers : session[u].client # c
  BY CandidateIs
<1>3. \A d \in Clients : d[1] = s => client[d].gen = 0
  BY <1>1 DEF NotStarted
<1>4. /\ client' \in [Clients -> ClientRow] /\ \A d \in Clients : d # c => client'[d] = client[d]
      /\ candidate' \in [Servers -> Clients \cup {NoClient}] /\ \A u \in Servers : candidate'[u] = NoClient
  BY DEF TurnClient
<1>5. \/ /\ sess = session /\ owned' = owned
         /\ c # NoClient => client'[c].closed /\ client'[c].gen = 0 /\ client'[c].proc # "none"
      \/ /\ c # NoClient /\ ~Closed /\ Healthy(c) /\ owned' = owned \cup {c}
         /\ sess[s].client = c /\ sess[s].gen = 1
         /\ \A u \in Servers \ {s} : sess[u] = session[u]
         /\ client'[c].gen = 1 /\ ~client'[c].broken /\ ~client'[c].closed
         /\ client'[c].proc # "none"
  BY <1>2, <1>3 DEF TurnClient
<1> HIDE DEF c
<1>6. \A u \in Servers \ {s} : sess[u] = session[u]
  BY <1>5
<1>7. s \notin S
  BY <1>1, <1>5 DEF TurnEnds, Healthy
<1>8. ASSUME NEW u \in Servers, u # s, sess[u].client # NoClient
      PROVE  /\ HasSession(u) /\ session[u].client \in Clients /\ session[u].client[1] = u
             /\ session[u].client # c
             /\ client'[session[u].client] = client[session[u].client]
  <2>1. sess[u] = session[u]
    BY <1>6, <1>8
  <2>2. HasSession(u) /\ session[u].client \in Clients /\ session[u].client[1] = u
    BY <1>8, <2>1, SessionIs
  <2>3. session[u].client # c
    BY <1>2, <2>1, <1>8
  <2> QED BY <1>4, <2>2, <2>3
<1>9. \A u \in S : u # s /\ sess[u].client # NoClient /\ sess[u] = session[u]
  BY <1>6, <1>7 DEF TurnEnds
<1>10. owned' \subseteq Clients /\ owned \subseteq owned'
  BY <1>0, <1>2, <1>5 DEF McpTypes
<1>11. cleanup' \subseteq owned' /\ cleanup' \subseteq Clients
  <2>1. \A u \in S : sess[u].client \in owned
    BY <1>8, <1>9 DEF HasSession
  <2>2. cleanup \subseteq owned
    BY DEF McpInv, CleanupHolds
  <2>3. cleanup' = cleanup \cup {sess[u].client : u \in S}
    BY DEF TurnEnds
  <2> QED BY <1>10, <2>1, <2>2, <2>3
<1>12. McpTypes'
  <2>1. starting' \in Nat \ {0}
    BY <1>1 DEF TurnEnds
  <2>2. /\ session' \in [Servers -> SessionRow] /\ reconnect' \in [Servers -> ReconnectRow]
    BY DEF TurnEnds
  <2>3. \A u \in Servers : session'[u].client # NoClient => session'[u].client[1] = u
    BY <1>1, <1>2, <1>5, <1>7, <1>8, <1>6 DEF TurnEnds
  <2> QED BY <1>0, <1>4, <1>10, <1>11, <2>1, <2>2, <2>3 DEF McpTypes
<1>13. SpawnOrder'
  <2>1. SpawnOrder
    BY DEF McpInv
  <2>2. ASSUME NEW d \in Clients, client'[d].proc = "none" PROVE Unspawned(d)'
    <3>1. d # c /\ client'[d] = client[d] /\ Unspawned(d)
      BY <1>0, <1>4, <1>5, <2>1, <2>2, ClientsAre DEF SpawnOrder
    <3>2. d \notin owned'
      BY <1>5, <3>1 DEF Unspawned
    <3>3. d # candidate'[d[1]]
      BY <1>4, ClientsAre
    <3>4. ASSUME NEW e \in Clients, e[1] = d[1], d[2] < e[2] PROVE client'[e].proc = "none"
      <4>1. client[e].proc = "none"
        BY <3>1, <3>4 DEF Unspawned
      <4> QED BY <1>2, <1>4, <4>1, ClientsAre
    <3> QED BY <3>1, <3>2, <3>3, <3>4 DEF Unspawned, Healthy
  <2> QED BY <2>2 DEF SpawnOrder
<1>14. CandidatesHold'
  BY <1>4 DEF CandidatesHold
<1>15. TasksHold'
  <2>1. ASSUME NEW u \in Servers, reconnect'[u].pc # "none" PROVE HasTask(u)'
    <3>1. u \in S /\ u # s /\ sess[u].client # NoClient /\ sess[u] = session[u]
      BY <1>1, <1>9, <2>1 DEF TurnEnds
    <3>2. /\ session'[u].client = NoClient /\ reconnect'[u].pc = "sleeping"
          /\ reconnect'[u].old = session[u].gen /\ Started' /\ ~Closed
      BY <3>1 DEF TurnEnds
    <3>3. HasSession(u)
      BY <1>8, <3>1
    <3>4. ASSUME NEW d \in Clients, d[1] = u PROVE client'[d].gen <= session[u].gen
      <4>1. d # c
        BY <1>2, <3>1, <3>4, ClientsAre
      <4> QED BY <1>4, <3>3, <3>4, <4>1 DEF HasSession
    <3> QED BY <3>2, <3>4 DEF HasTask, Closed
  <2> QED BY <2>1 DEF TasksHold
<1>16. SessionsHold'
  <2>1. ASSUME NEW u \in Servers, session'[u].client # NoClient PROVE HasSession(u)'
    <3>1. u \notin S /\ session'[u] = sess[u] /\ sess[u].client # NoClient
      BY <2>1 DEF TurnEnds
    <3>2. cleanup' = cleanup \cup {sess[v].client : v \in S}
      BY DEF TurnEnds
    <3>3. CASE u = s
      <4>1. /\ c # NoClient /\ ~Closed /\ owned' = owned \cup {c}
            /\ sess[s].client = c /\ sess[s].gen = 1
            /\ client'[c].gen = 1 /\ ~client'[c].broken /\ ~client'[c].closed
        BY <1>1, <1>5, <3>1, <3>3
      <4>2. c \notin cleanup'
        BY <1>2, <1>9, <3>2, <4>1
      <4>3. \A d \in Clients : d[1] = s => client'[d].gen <= 1
        BY <1>3, <1>4, <4>1
      <4>4. closing \in {"open", "gathering"}
        BY <4>1 DEF Closed
      <4> QED BY <3>1, <3>3, <4>1, <4>2, <4>3, <4>4 DEF HasSession, Closed
    <3>4. CASE u # s
      <4>1. /\ HasSession(u) /\ session[u].client \in Clients /\ session[u].client[1] = u
            /\ client'[session[u].client] = client[session[u].client]
            /\ session'[u] = session[u]
        BY <1>6, <1>8, <3>1, <3>4
      <4>2. session[u].client \notin cleanup'
        <5>1. \A v \in S : sess[v].client[1] = v
          BY <1>8, <1>9
        <5> QED BY <3>1, <3>2, <4>1, <5>1 DEF HasSession
      <4>3. ~Closed /\ Started' => ~client[session[u].client].broken
        BY <1>6, <3>1, <3>4 DEF TurnEnds
      <4>4. ASSUME NEW d \in Clients, d[1] = u PROVE client'[d].gen <= session[u].gen
        <5>1. d # c
          BY <1>2, <3>4, <4>4, ClientsAre
        <5> QED BY <1>4, <4>1, <4>4, <5>1 DEF HasSession
      <4> QED BY <1>10, <4>1, <4>2, <4>3, <4>4 DEF HasSession, Closed
    <3> QED BY <3>3, <3>4
  <2> QED BY <2>1 DEF SessionsHold
<1>17. StartHolds'
  <2>1. ASSUME NEW i \in DOMAIN Configs, i >= starting' PROVE NotStarted(Configs[i])'
    <3> DEFINE u == Configs[i]
    <3>1. i >= starting /\ i # starting
      BY <1>1, <2>1, ConfigsAre DEF TurnEnds
    <3>2. NotStarted(u) /\ u # s /\ u \in Servers
      BY <1>1, <3>1, ConfigsAre DEF McpInv, StartHolds
    <3>3. session'[u].client = NoClient
      BY <1>6, <3>2 DEF TurnEnds, NotStarted
    <3>4. ASSUME NEW d \in Clients, d[1] = u PROVE client'[d].gen = 0
      <4>1. d # c
        BY <1>2, <3>2, <3>4, ClientsAre
      <4> QED BY <1>4, <3>2, <3>4, <4>1 DEF NotStarted
    <3> QED BY <3>3, <3>4 DEF NotStarted
  <2> QED BY <2>1 DEF StartHolds
<1>18. CleanupHolds'
  <2>1. CleanupHolds
    BY DEF McpInv
  <2>2. Closed => cleanup' = {} /\ owned' = owned
    BY <1>5, <2>1 DEF CleanupHolds, TurnEnds
  <2>3. Closed => \A d \in Clients : client[d].closed => client'[d].closed
    <3> SUFFICES ASSUME Closed, NEW d \in Clients, client[d].closed PROVE client'[d].closed
      OBVIOUS
    <3>1. CASE d = c
      BY <1>5, <3>1, ClientsAre
    <3>2. CASE d # c
      BY <1>4, <3>2
    <3> QED BY <3>1, <3>2
  <2>4. toClose \subseteq owned' /\ owned \subseteq Clients
    BY <1>0, <1>10, <2>1 DEF CleanupHolds, McpTypes
  <2> QED BY <1>11, <2>1, <2>2, <2>3, <2>4 DEF CleanupHolds, Closed
<1>19. HandsHold'
  <2>1. ASSUME NEW d \in Clients, client'[d].proc = "live", ~client'[d].closed PROVE InHand(d)'
    <3>1. CASE d = c
      <4>1. sess[s].client = c
        BY <1>5, <2>1, <3>1, ClientsAre
      <4>2. session'[s].client = c
        BY <1>7, <4>1 DEF TurnEnds
      <4> QED BY <1>2, <2>1, <3>1, <4>2, ClientsAre DEF InHand
    <3>2. CASE d # c
      <4>1. InHand(d) /\ d[1] \in Servers /\ d # NoClient
        BY <1>4, <2>1, <3>2, ClientsAre DEF McpInv, HandsHold
      <4>2. d # candidate[d[1]]
        BY <1>1, <3>2, <4>1 DEF c
      <4>3. ASSUME d = session[d[1]].client PROVE d \in cleanup' \/ d = session'[d[1]].client
        <5>1. d[1] # s /\ sess[d[1]] = session[d[1]]
          BY <1>1, <1>6, <4>1, <4>3
        <5> QED BY <4>1, <4>3, <5>1 DEF TurnEnds
      <4>4. cleanup \subseteq cleanup'
        BY DEF TurnEnds
      <4> QED BY <1>10, <4>1, <4>2, <4>3, <4>4 DEF InHand
    <3> QED BY <3>1, <3>2
  <2> QED BY <2>1 DEF HandsHold
<1>20. GensGrow'
  <2>1. ASSUME NEW d \in Clients, NEW e \in Clients, d[1] = e[1], d[2] < e[2], client'[e].gen # 0
        PROVE  client'[d].gen < client'[e].gen
    <3>1. d # e /\ c # NoClient => c[1] = s
      BY <1>2, <2>1, ClientsAre
    <3>2. CASE d[1] = s
      <4>1. e = c /\ client'[c].gen = 1
        BY <1>3, <1>4, <1>5, <2>1, <3>2, ClientsAre
      <4>2. client'[d].gen = 0
        BY <1>3, <1>4, <2>1, <3>2, <4>1, ClientsAre
      <4> QED BY <4>1, <4>2
    <3>3. CASE d[1] # s
      <4>1. d # c /\ e # c
        BY <1>2, <2>1, <3>3, ClientsAre
      <4>2. GensGrow
        BY DEF McpInv
      <4> QED BY <1>4, <2>1, <4>1, <4>2 DEF GensGrow
    <3> QED BY <3>2, <3>3
  <2> QED BY <2>1 DEF GensGrow
<1> QED BY <1>12, <1>13, <1>14, <1>15, <1>16, <1>17, <1>18, <1>19, <1>20 DEF McpInv

\* The bound session and its generation, when a candidate is published.
LEMMA PublishedRow ==
  ASSUME NEW c \in Clients, NEW n \in Nat
  PROVE  /\ [client |-> c, gen |-> n] \in SessionRow
         /\ [client |-> c, gen |-> n].client = c /\ [client |-> c, gen |-> n].gen = n
  BY DEF SessionRow

LEMMA GenIs ==
  ASSUME McpTypes, NEW c \in Clients, NEW n \in Nat, client' = [client EXCEPT ![c].gen = n]
  PROVE  /\ client' \in [Clients -> ClientRow] /\ client'[c].gen = n
         /\ client'[c].broken = client[c].broken /\ client'[c].closed = client[c].closed
         /\ client'[c].proc = client[c].proc
         /\ \A d \in Clients : d # c => client'[d] = client[d]
<1> DEFINE y == [client[c] EXCEPT !.gen = n]
<1>1. client \in [Clients -> ClientRow] /\ client' = [client EXCEPT ![c] = y]
  BY DEF McpTypes
<1>2. /\ y \in ClientRow /\ y.gen = n /\ y.closed = client[c].closed
      /\ y.proc = client[c].proc /\ y.broken = client[c].broken
  BY <1>1, GenRow
<1> HIDE DEF y
<1> QED BY <1>1, <1>2

LEMMA TurnSteps ==
  ASSUME McpInv, NEW s \in Servers,
         \/ StartSpawns(s) /\ NextServer(session) /\ UNCHANGED <<client, candidate>>
         \/ StartDiscovers(s) /\ MayPublish(candidate[s])
         \/ StartDrops(s)
  PROVE  McpInv'
<1> DEFINE c == candidate[s]
<1>0. /\ McpTypes /\ client \in [Clients -> ClientRow] /\ session \in [Servers -> SessionRow]
      /\ candidate \in [Servers -> Clients \cup {NoClient}] /\ AtServer(s)
      /\ UNCHANGED <<closing, toClose>>
  BY DEF McpInv, McpTypes, StartSpawns, StartDiscovers, StartDrops
<1>1. \A u \in Servers : u # s => candidate[u] = NoClient
  BY <1>0, StartIs
<1>2. PICK sess \in [Servers -> SessionRow] : NextServer(sess) /\ TurnClient(s, sess)
  <2>1. CASE StartSpawns(s) /\ NextServer(session) /\ UNCHANGED <<client, candidate>>
    <3>1. c = NoClient /\ owned' = owned
      BY <2>1 DEF StartSpawns
    <3>2. TurnClient(s, session)
      BY <1>0, <1>1, <2>1, <3>1 DEF TurnClient
    <3> QED BY <1>0, <2>1, <3>2
  <2>2. CASE StartDrops(s)
    <3>1. /\ c # NoClient /\ client' = Reaped(c) /\ owned' = owned /\ NextServer(session)
          /\ candidate' = [candidate EXCEPT ![s] = NoClient]
      BY <2>2 DEF StartDrops
    <3>2. c \in Clients /\ client[c].proc # "none"
      BY <3>1, CandidateIs
    <3>3. ClientsEnd /\ client'[c].closed /\ \A d \in Clients \ {c} : client'[d] = client[d]
      BY <1>0, <3>1, <3>2, EndsOne
    <3>4. client'[c].gen = client[c].gen /\ client'[c].proc # "none" /\ client' \in [Clients -> ClientRow]
      BY <3>2, <3>3 DEF ClientsEnd
    <3>5. /\ candidate' \in [Servers -> Clients \cup {NoClient}]
          /\ \A u \in Servers : candidate'[u] = NoClient
      BY <1>0, <1>1, <3>1
    <3>6. TurnClient(s, session)
      BY <3>1, <3>3, <3>4, <3>5 DEF TurnClient
    <3> QED BY <1>0, <3>1, <3>6
  <2>3. CASE StartDiscovers(s) /\ MayPublish(candidate[s])
    <3> DEFINE row == [client |-> c, gen |-> 1]
               sess == [session EXCEPT ![s] = row]
    <3>1. /\ c # NoClient /\ Healthy(c) /\ ~Closed /\ owned' = owned \cup {c}
          /\ client' = [client EXCEPT ![c].gen = 1] /\ NextServer(sess)
          /\ candidate' = [candidate EXCEPT ![s] = NoClient]
      BY <2>3 DEF StartDiscovers, MayPublish
    <3>2. c \in Clients /\ client[c].proc # "none"
      BY <3>1, CandidateIs
    <3>3. /\ client' \in [Clients -> ClientRow] /\ client'[c].gen = 1
          /\ ~client'[c].broken /\ ~client'[c].closed /\ client'[c].proc # "none"
          /\ \A d \in Clients : d # c => client'[d] = client[d]
      <4>1. 1 \in Nat
        OBVIOUS
      <4> QED BY <1>0, <3>1, <3>2, <4>1, GenIs DEF Healthy
    <3>4. row \in SessionRow /\ row.client = c /\ row.gen = 1
      BY <3>2, PublishedRow
    <3> HIDE DEF row
    <3>5. /\ sess \in [Servers -> SessionRow] /\ sess[s].client = c /\ sess[s].gen = 1
          /\ \A u \in Servers \ {s} : sess[u] = session[u]
      BY <1>0, <3>4
    <3>6. /\ candidate' \in [Servers -> Clients \cup {NoClient}]
          /\ \A u \in Servers : candidate'[u] = NoClient
      BY <1>0, <1>1, <3>1
    <3> HIDE DEF sess
    <3>7. TurnClient(s, sess)
      BY <3>1, <3>3, <3>5, <3>6 DEF TurnClient
    <3> QED BY <3>1, <3>5, <3>7
  <2> QED BY <2>1, <2>2, <2>3
<1>3. PICK S \in SUBSET Servers : TurnEnds(s, sess, S)
  BY <1>0, <1>2, NextServerIs
<1> QED BY <1>0, <1>2, <1>3, TurnHolds

\* A reconnect task publishes the next generation.
LEMMA PublishSteps ==
  ASSUME McpInv, NEW s \in Servers, ReconnectDiscovers(s), MayPublish(candidate[s]),
         PublishSession(s, candidate[s], reconnect[s].old + 1),
         reconnect' = [reconnect EXCEPT ![s] = NoSessionTask],
         candidate' = [candidate EXCEPT ![s] = NoClient]
  PROVE  McpInv'
<1> DEFINE c == candidate[s]
           n == reconnect[s].old + 1
           row == [client |-> c, gen |-> n]
<1>0. /\ McpTypes /\ client \in [Clients -> ClientRow] /\ session \in [Servers -> SessionRow]
      /\ reconnect \in [Servers -> ReconnectRow] /\ candidate \in [Servers -> Clients \cup {NoClient}]
      /\ owned \subseteq Clients /\ starting \in Nat
  BY DEF McpInv, McpTypes
<1>1. /\ HasTask(s) /\ c # NoClient /\ Healthy(c) /\ ~Closed /\ owned' = owned \cup {c}
      /\ UNCHANGED <<starting, cleanup, closing, toClose>>
      /\ session' = [session EXCEPT ![s] = row] /\ client' = [client EXCEPT ![c].gen = n]
  BY DEF McpInv, TasksHold, HasTask, ReconnectDiscovers, MayPublish, PublishSession
<1>2. /\ c \in Clients /\ c[1] = s /\ client[c].proc # "none" /\ c \notin cleanup
      /\ \A u \in Servers : session[u].client # c
  BY <1>1, CandidateIs
<1>3. n \in Nat /\ \A d \in Clients : d[1] = s => client[d].gen < n
  <2>1. reconnect[s].old \in Nat /\ \A d \in Clients : client[d].gen \in Nat
    BY <1>0 DEF ReconnectRow, ClientRow
  <2> QED BY <1>1, <2>1 DEF HasTask
<1>4. row \in SessionRow /\ row.client = c /\ row.gen = n
  BY <1>2, <1>3, PublishedRow
<1> HIDE DEF row, n, c
<1>5. /\ client' \in [Clients -> ClientRow] /\ client'[c].gen = n
      /\ ~client'[c].broken /\ ~client'[c].closed /\ client'[c].proc # "none"
      /\ \A d \in Clients : d # c => client'[d] = client[d]
      /\ \A d \in Clients : client'[d].proc = client[d].proc /\ client'[d].closed = client[d].closed
  <2>1. /\ client' \in [Clients -> ClientRow] /\ client'[c].gen = n
        /\ client'[c].broken = client[c].broken /\ client'[c].closed = client[c].closed
        /\ client'[c].proc = client[c].proc
        /\ \A d \in Clients : d # c => client'[d] = client[d]
    BY <1>0, <1>1, <1>2, <1>3, GenIs
  <2> QED BY <1>1, <1>2, <2>1 DEF Healthy
<1>6. /\ session' \in [Servers -> SessionRow] /\ session'[s].client = c /\ session'[s].gen = n
      /\ \A u \in Servers \ {s} : session'[u] = session[u]
      /\ candidate' \in [Servers -> Clients \cup {NoClient}] /\ candidate'[s] = NoClient
      /\ \A u \in Servers \ {s} : candidate'[u] = candidate[u]
      /\ reconnect' \in [Servers -> ReconnectRow] /\ reconnect'[s].pc = "none"
      /\ \A u \in Servers \ {s} : reconnect'[u] = reconnect[u]
  BY <1>0, <1>1, <1>4, NoTaskRow
<1>7. ASSUME NEW d \in Clients, d[1] # s PROVE client'[d] = client[d]
  BY <1>2, <1>5, <1>7
<1>8. McpTypes'
  BY <1>0, <1>1, <1>2, <1>5, <1>6 DEF McpTypes
<1>9. SpawnOrder'
  <2>1. SpawnOrder
    BY DEF McpInv
  <2>2. ASSUME NEW d \in Clients, client'[d].proc = "none" PROVE Unspawned(d)'
    <3>1. d # c /\ client'[d] = client[d] /\ Unspawned(d)
      BY <1>5, <2>1, <2>2 DEF SpawnOrder
    <3>2. d # candidate'[d[1]]
      BY <1>6, <3>1, ClientsAre DEF Unspawned
    <3> QED BY <1>1, <1>5, <3>1, <3>2 DEF Unspawned, Healthy
  <2> QED BY <2>2 DEF SpawnOrder
<1>10. CandidatesHold'
  <2>1. ASSUME NEW u \in Servers, candidate'[u] # NoClient PROVE HasCandidate(u)'
    <3>1. u # s /\ candidate'[u] = candidate[u]
      BY <1>6, <2>1
    <3>2. HasCandidate(u)
      BY <2>1, <3>1 DEF McpInv, CandidatesHold
    <3> QED BY <1>1, <1>5, <1>6, <3>1, <3>2 DEF HasCandidate, Started
  <2> QED BY <2>1 DEF CandidatesHold
<1>11. TasksHold'
  <2>1. ASSUME NEW u \in Servers, reconnect'[u].pc # "none" PROVE HasTask(u)'
    <3>1. /\ u # s /\ candidate'[u] = candidate[u] /\ session'[u] = session[u]
          /\ reconnect'[u] = reconnect[u]
      BY <1>6, <2>1
    <3>2. HasTask(u) /\ (candidate[u] # NoClient => candidate[u] \in Clients)
      BY <1>0, <2>1, <3>1 DEF McpInv, TasksHold
    <3> QED BY <1>1, <1>5, <1>7, <3>1, <3>2 DEF HasTask, Started, Closed
  <2> QED BY <2>1 DEF TasksHold
<1>12. SessionsHold'
  <2>1. HasSession(s)'
    <3>1. \A d \in Clients : d[1] = s => client'[d].gen <= n
      <4>1. \A d \in Clients : client[d].gen \in Nat
        BY <1>0 DEF ClientRow
      <4> QED BY <1>3, <1>5, <4>1
    <3>2. closing \in {"open", "gathering"}
      BY <1>1 DEF Closed
    <3> QED BY <1>1, <1>2, <1>5, <1>6, <3>1, <3>2 DEF HasSession
  <2>2. ASSUME NEW u \in Servers \ {s}, session'[u].client # NoClient PROVE HasSession(u)'
    <3>1. HasSession(u) /\ session[u].client \in Clients /\ session[u].client[1] = u
            /\ session'[u] = session[u]
      BY <1>6, <2>2, SessionIs
    <3>2. session[u].client \in owned' /\ session[u].client \notin cleanup'
      BY <1>1, <3>1 DEF HasSession
    <3>3. \A d \in Clients : d[1] = u => client'[d] = client[d]
      BY <1>7, <2>2
    <3> QED BY <1>1, <3>1, <3>2, <3>3 DEF HasSession, Started, Closed
  <2> QED BY <2>1, <2>2 DEF SessionsHold
<1>13. StartHolds'
  <2>1. \A i \in DOMAIN Configs : ~(i >= starting)
    BY <1>0, <1>1, ConfigsAre DEF HasTask, Started
  <2> QED BY <1>1, <2>1 DEF StartHolds
<1>14. CleanupHolds'
  <2>1. CleanupHolds
    BY DEF McpInv
  <2> QED BY <1>0, <1>1, <1>5, <2>1 DEF CleanupHolds, Closed
<1>15. HandsHold'
  <2>1. ASSUME NEW d \in Clients, client'[d].proc = "live", ~client'[d].closed PROVE InHand(d)'
    <3>1. CASE d = c
      BY <1>2, <1>6, <3>1 DEF InHand
    <3>2. CASE d # c
      <4>1. InHand(d) /\ d[1] \in Servers
        BY <1>5, <2>1, <3>2, ClientsAre DEF McpInv, HandsHold
      <4>2. d # NoClient /\ session[s].client = NoClient /\ candidate[s] = c
        BY <1>1, ClientsAre DEF HasTask, c
      <4> QED BY <1>1, <1>6, <3>2, <4>1, <4>2 DEF InHand
    <3> QED BY <3>1, <3>2
  <2> QED BY <2>1 DEF HandsHold
<1>16. GensGrow'
  <2>1. ASSUME NEW d \in Clients, NEW e \in Clients, d[1] = e[1], d[2] < e[2], client'[e].gen # 0
        PROVE  client'[d].gen < client'[e].gen
    <3>1. GensGrow
      BY DEF McpInv
    <3>2. d # e
      BY <2>1, ClientsAre
    <3>3. CASE e = c
      BY <1>2, <1>3, <1>5, <2>1, <3>2, <3>3
    <3>4. CASE d = c
      <4>1. HasCandidate(s)
        BY <1>1 DEF McpInv, CandidatesHold, c
      <4>2. client[e].proc = "none"
        BY <1>2, <2>1, <3>4, <4>1 DEF HasCandidate, c
      <4>3. client[e].gen = 0
        BY <4>2 DEF McpInv, SpawnOrder, Unspawned
      <4> QED BY <1>5, <2>1, <3>2, <3>4, <4>3
    <3>5. CASE d # c /\ e # c
      BY <1>5, <2>1, <3>1, <3>5 DEF GensGrow
    <3> QED BY <3>3, <3>4, <3>5
  <2> QED BY <2>1 DEF GensGrow
<1> QED BY <1>8, <1>9, <1>10, <1>11, <1>12, <1>13, <1>14, <1>15, <1>16 DEF McpInv

LEMMA McpStep == McpInv /\ [McpNext]_mcpVars => McpInv'
<1> SUFFICES ASSUME McpInv, [McpNext]_mcpVars PROVE McpInv'
  OBVIOUS
<1>1. ASSUME NEW s \in Servers, StartSpawns(s) PROVE McpInv'
  <2>1. CASE Spawn(s) /\ UNCHANGED <<starting, session, cleanup, reconnect>>
    BY <1>1, <2>1, SpawnSteps DEF StartSpawns
  <2>2. CASE NextServer(session) /\ UNCHANGED <<client, candidate>>
    BY <1>1, <2>2, TurnSteps
  <2> QED BY <1>1, <2>1, <2>2 DEF StartSpawns
<1>2. ASSUME NEW s \in Servers, StartDiscovers(s) PROVE McpInv'
  BY <1>2, TurnSteps, EndingSteps
<1>3. ASSUME NEW s \in Servers, StartFails(s) \/ StartDrops(s) PROVE McpInv'
  BY <1>3, TurnSteps, EndingSteps
<1>4. ASSUME NEW s \in Servers, ReconnectWakes(s) PROVE McpInv'
  <2>1. CASE Spawn(s) /\ reconnect' = [reconnect EXCEPT ![s].pc = "discovering"]
    BY <1>4, <2>1, SpawnSteps DEF ReconnectWakes
  <2>2. CASE NextAttempt(s) /\ UNCHANGED <<client, candidate>>
    BY <1>4, <2>2, ReconnectMoves DEF ReconnectWakes
  <2> QED BY <1>4, <2>1, <2>2 DEF ReconnectWakes
<1>5. ASSUME NEW s \in Servers, ReconnectDiscovers(s) PROVE McpInv'
  <2>1. CASE /\ MayPublish(candidate[s])
             /\ PublishSession(s, candidate[s], reconnect[s].old + 1)
             /\ reconnect' = [reconnect EXCEPT ![s] = NoSessionTask]
             /\ candidate' = [candidate EXCEPT ![s] = NoClient]
    BY <1>5, <2>1, PublishSteps
  <2>2. CASE /\ Shut(candidate[s]) /\ reconnect' = [reconnect EXCEPT ![s].pc = "rejecting"]
             /\ UNCHANGED <<session, candidate>>
    BY <1>5, <2>2, ReconnectEnds
  <2> QED BY <1>5, <2>1, <2>2 DEF ReconnectDiscovers
<1>6. ASSUME NEW s \in Servers, ReconnectFails(s) \/ ReconnectDrops(s) PROVE McpInv'
  BY <1>6, ReconnectEnds, ReconnectMoves
<1>7. ASSUME NEW c \in Clients,
             ClientBreaks(c) \/ CleanupBegins(c) \/ CleanupEnds(c) \/ CloseClient(c)
      PROVE  McpInv'
  BY <1>7, BreakSteps, CleanupSteps
<1>8. CASE CloseBegins \/ CloseGathered \/ CloseEnds
  BY <1>8, CloseBeginsHolds, CloseGatheredHolds, CloseEndsHolds
<1>9. CASE UNCHANGED mcpVars
  BY <1>9 DEF mcpVars, McpInv, McpTypes, SpawnOrder, Unspawned, Healthy, CandidatesHold,
     HasCandidate,
     TasksHold, HasTask, SessionsHold, HasSession, StartHolds, NotStarted, CleanupHolds, HandsHold,
     InHand, GensGrow, Started, Closed
<1> QED BY <1>1, <1>2, <1>3, <1>4, <1>5, <1>6, <1>7, <1>8, <1>9 DEF McpNext

\* However start, reconnects, breaks and close interleave, and however many
\* servers and processes there are: no live process is out of every task's hands,
\* no session is bound after close, generations only grow.
THEOREM SessionsStayManaged == McpSpec => []SessionsAreManaged
<1>1. McpSpec => []McpInv
  BY McpStarts, McpStep, PTL DEF McpSpec
<1> QED BY <1>1, McpTruth, PTL

-----------------------------------------------------------------------------
(* Trace export: one sentinel, behind the last envelope.                   *)

ExportTypes ==
    /\ queue \in Seq({"envelope", "sentinel"})
    /\ accepted \in 0..MaxAccepted /\ completed \in Nat /\ closes \in 0..1
    /\ worker \in {"getting", "sending", "closing", "dying", "ending", "dead"}
    /\ exporting \in {"RUNNING", "CLOSING", "CLOSED", "FAILED"}
    /\ closeTarget \in 0..NotBegun /\ sentinelPut \in BOOLEAN
    /\ closeResult \in {"none", "true", "false"}
    /\ closer \in [Closers -> {"idle", "barrier", "enqueue", "putting", "finalizing",
                               "true", "false"}]
    /\ flusher \in [Flushers -> [pc : {"idle", "waiting", "true", "false"},
                                 target : 0..MaxAccepted]]

Busy == IF worker = "sending" THEN 1 ELSE 0

\* Every accepted envelope is attempted, being sent or queued; the sentinel is
\* queued alone, when all have been attempted.
EnvelopesAreCounted ==
    \/ /\ \A i \in 1..Len(queue) : queue[i] = "envelope"
       /\ accepted = completed + Len(queue) + Busy
    \/ queue = <<"sentinel">> /\ accepted = completed /\ worker # "sending"

\* Once a close has begun nothing more is accepted.
CloseIsFrozen ==
    /\ closeTarget # NotBegun => exporting # "RUNNING" /\ closeTarget = accepted
    /\ \A d \in Closers : Closing(d) => closeTarget # NotBegun
    /\ \A d \in Closers : closer[d] \in {"enqueue", "putting", "finalizing"} => completed = accepted
    /\ exporting = "CLOSED" => closeTarget # NotBegun /\ completed = accepted

\* The sentinel is with the closer that puts it, in the queue, or with the
\* worker, and it is in one of these places only.
SentinelIsOne ==
    /\ sentinelPut => closeTarget # NotBegun /\ completed = accepted
    /\ \A d \in Closers : closer[d] = "putting" =>
         /\ sentinelPut /\ queue # <<"sentinel">> /\ worker # "closing" /\ closes = 0
         /\ \A e \in Closers : closer[e] = "putting" => e = d
    /\ queue = <<"sentinel">> => sentinelPut /\ worker # "closing" /\ closes = 0
    /\ worker = "closing" => sentinelPut /\ closes = 0 /\ queue = <<>>
    /\ closes = 1 => sentinelPut /\ queue = <<>> /\ worker \in {"dying", "ending", "dead"}

ResultIsTrue ==
    /\ closeResult = "true" => closes = 1 /\ worker = "dead"
    /\ \A d \in Closers : closer[d] = "true" => closeResult = "true"
    /\ \A f \in Flushers : flusher[f].pc = "true" => completed >= flusher[f].target

XInv == ExportTypes /\ EnvelopesAreCounted /\ CloseIsFrozen /\ SentinelIsOne /\ ResultIsTrue

LEMMA ExportStarts == ExportInit => XInv
<1> SUFFICES ASSUME ExportInit PROVE XInv
  OBVIOUS
<1> USE ExportAssumption DEF ExportAssumption, ExportInit, NotBegun
<1>1. ExportTypes
  <2>1. queue \in Seq({"envelope", "sentinel"})
    OBVIOUS
  <2>2. /\ closer \in [Closers -> {"idle", "barrier", "enqueue", "putting", "finalizing",
                                   "true", "false"}]
        /\ flusher \in [Flushers -> [pc : {"idle", "waiting", "true", "false"},
                                     target : 0..MaxAccepted]]
    OBVIOUS
  <2>3. /\ closeTarget \in 0..NotBegun /\ accepted \in 0..MaxAccepted /\ completed \in Nat
        /\ closes \in 0..1
    OBVIOUS
  <2>4. /\ worker = "getting" /\ exporting = "RUNNING" /\ sentinelPut \in BOOLEAN
        /\ closeResult = "none"
    OBVIOUS
  <2> HIDE DEF ExportInit
  <2> QED BY <2>1, <2>2, <2>3, <2>4 DEF ExportTypes
<1>2. EnvelopesAreCounted
  BY DEF EnvelopesAreCounted, Busy
<1>3. CloseIsFrozen /\ SentinelIsOne /\ ResultIsTrue
  BY DEF CloseIsFrozen, SentinelIsOne, ResultIsTrue, Closing
<1> QED BY <1>1, <1>2, <1>3 DEF XInv

LEMMA ExportTruth == XInv => ExportIsTruthful
  BY DEF XInv, ExportTypes, CloseIsFrozen, SentinelIsOne, ResultIsTrue, ExportIsTruthful

LEMMA ExportStep == XInv /\ [ExportNext]_exportVars => XInv'
<1> SUFFICES ASSUME XInv, [ExportNext]_exportVars PROVE XInv'
  OBVIOUS
<1> USE ExportAssumption DEF ExportAssumption, NotBegun
<1>1. CASE ObserveSpan
  <2>1. /\ exporting = "RUNNING" /\ accepted < MaxAccepted
        /\ queue' = Append(queue, "envelope") /\ accepted' = accepted + 1
        /\ UNCHANGED <<exporting, completed, worker, closes, closer, flusher, closeTarget,
                       sentinelPut, closeResult>>
    BY <1>1 DEF ObserveSpan, Accepts
  <2>2. queue # <<"sentinel">>
    BY <2>1 DEF XInv, SentinelIsOne, CloseIsFrozen
  <2>3. /\ Len(queue') = Len(queue) + 1
        /\ \A i \in 1..Len(queue') : queue'[i] = IF i \in 1..Len(queue) THEN queue[i] ELSE "envelope"
    BY <2>1 DEF XInv, ExportTypes
  <2>4. ExportTypes'
    BY <2>1 DEF XInv, ExportTypes
  <2>5. EnvelopesAreCounted'
    BY <2>1, <2>2, <2>3 DEF XInv, ExportTypes, EnvelopesAreCounted, Busy
  <2>6. CloseIsFrozen' /\ ResultIsTrue'
    BY <2>1 DEF XInv, ExportTypes, CloseIsFrozen, ResultIsTrue, Closing
  <2>7. ~sentinelPut
    BY <2>1 DEF XInv, CloseIsFrozen, SentinelIsOne
  <2>8. queue' # <<"sentinel">>
    <3>1. SUFFICES ASSUME queue' = <<"sentinel">> PROVE FALSE
      OBVIOUS
    <3>2. Len(queue) = 0 /\ queue'[1] = "sentinel"
      BY <2>3, <3>1 DEF XInv, ExportTypes
    <3> QED BY <2>3, <3>1, <3>2
  <2>9. SentinelIsOne'
    BY <2>1, <2>7, <2>8 DEF XInv, ExportTypes, SentinelIsOne
  <2> QED BY <2>4, <2>5, <2>6, <2>9 DEF XInv
<1>2. CASE WorkerGets
  <2>1. /\ worker = "getting" /\ queue # <<>> /\ queue' = Tail(queue)
        /\ worker' = IF Head(queue) = "envelope" THEN "sending" ELSE "closing"
        /\ UNCHANGED <<exporting, accepted, completed, closes, closer, flusher, closeTarget,
                       sentinelPut, closeResult>>
    BY <1>2 DEF WorkerGets
  <2>2. /\ queue \in Seq({"envelope", "sentinel"}) /\ Len(queue) \in Nat \ {0}
        /\ queue' \in Seq({"envelope", "sentinel"}) /\ Len(queue') = Len(queue) - 1
        /\ \A i \in 1..Len(queue') : queue'[i] = queue[i + 1]
        /\ Head(queue) = queue[1]
    BY <2>1 DEF XInv, ExportTypes
  <2>3. ExportTypes'
    BY <2>1, <2>2 DEF XInv, ExportTypes
  <2>4. CASE queue = <<"sentinel">>
    <3>1. queue' = <<>> /\ worker' = "closing" /\ sentinelPut /\ closes = 0
      BY <2>1, <2>2, <2>4 DEF XInv, SentinelIsOne
    <3>2. EnvelopesAreCounted'
      BY <2>1, <2>4, <3>1 DEF XInv, ExportTypes, EnvelopesAreCounted, Busy
    <3>3. SentinelIsOne'
      BY <2>1, <2>4, <3>1 DEF XInv, ExportTypes, SentinelIsOne
    <3>4. CloseIsFrozen' /\ ResultIsTrue'
      BY <2>1, <3>1 DEF XInv, ExportTypes, CloseIsFrozen, ResultIsTrue, Closing
    <3> QED BY <2>3, <3>2, <3>3, <3>4 DEF XInv
  <2>5. CASE queue # <<"sentinel">>
    <3>1. /\ \A i \in 1..Len(queue) : queue[i] = "envelope"
          /\ accepted = completed + Len(queue) + Busy
      BY <2>5 DEF XInv, EnvelopesAreCounted
    <3>2. worker' = "sending"
      BY <2>1, <2>2, <3>1
    <3>3. EnvelopesAreCounted'
      BY <2>1, <2>2, <3>1, <3>2 DEF XInv, ExportTypes, EnvelopesAreCounted, Busy
    <3>4. completed # accepted /\ ~sentinelPut
      BY <2>1, <2>2, <3>1 DEF XInv, ExportTypes, SentinelIsOne, Busy
    <3>5. queue' # <<"sentinel">>
      BY <2>2, <3>1
    <3>6. SentinelIsOne'
      BY <2>1, <3>2, <3>4, <3>5 DEF XInv, ExportTypes, SentinelIsOne
    <3>7. CloseIsFrozen' /\ ResultIsTrue'
      BY <2>1, <3>2, <3>4 DEF XInv, ExportTypes, CloseIsFrozen, ResultIsTrue, Closing, SentinelIsOne
    <3> QED BY <2>3, <3>3, <3>6, <3>7 DEF XInv
  <2> QED BY <2>4, <2>5
<1>3. CASE SendEnds
  <2>1. /\ worker = "sending" /\ completed' = completed + 1 /\ worker' \in {"getting", "dying"}
        /\ UNCHANGED <<queue, exporting, accepted, closes, closer, flusher, closeTarget,
                       sentinelPut, closeResult>>
    BY <1>3 DEF SendEnds
  <2>2. completed # accepted /\ completed' <= accepted
    BY <2>1 DEF XInv, ExportTypes, EnvelopesAreCounted, Busy
  <2>3. ExportTypes'
    BY <2>1 DEF XInv, ExportTypes
  <2>5. EnvelopesAreCounted'
    BY <2>1 DEF XInv, ExportTypes, EnvelopesAreCounted, Busy
  <2>4. CloseIsFrozen' /\ SentinelIsOne' /\ ResultIsTrue'
    BY <2>1, <2>2 DEF XInv, ExportTypes, CloseIsFrozen, SentinelIsOne, ResultIsTrue, Closing
  <2> QED BY <2>3, <2>4, <2>5 DEF XInv
<1>4. CASE AdapterCloses
  <2>1. /\ worker = "closing" /\ closes' = closes + 1
        /\ \/ /\ closeResult' \in {"true", "false"}
              /\ exporting' = "CLOSED" /\ worker' = "dead"
           \/ worker' = "dying" /\ UNCHANGED <<exporting, closeResult>>
        /\ UNCHANGED <<queue, accepted, completed, closer, flusher, closeTarget, sentinelPut>>
    BY <1>4 DEF AdapterCloses
  <2>2. /\ sentinelPut /\ closes = 0 /\ queue = <<>> /\ closeTarget # NotBegun
        /\ completed = accepted /\ closeResult # "true"
    BY <2>1 DEF XInv, SentinelIsOne, ResultIsTrue
  <2>3. ExportTypes' /\ EnvelopesAreCounted'
    BY <2>1, <2>2 DEF XInv, ExportTypes, EnvelopesAreCounted, Busy
  <2>4. CloseIsFrozen' /\ SentinelIsOne' /\ ResultIsTrue'
    BY <2>1, <2>2 DEF XInv, ExportTypes, CloseIsFrozen, SentinelIsOne, ResultIsTrue, Closing
  <2> QED BY <2>3, <2>4 DEF XInv
<1>5. CASE WorkerFails \/ WorkerEnds
  <2>1. /\ worker \in {"dying", "ending"} /\ worker' \in {"ending", "dead"}
        /\ exporting' \in {exporting, "FAILED"} /\ (exporting = "CLOSED" => exporting' = exporting)
        /\ UNCHANGED <<queue, accepted, completed, closes, closer, flusher, closeTarget,
                       sentinelPut, closeResult>>
    BY <1>5 DEF WorkerFails, WorkerEnds
  <2>2. ExportTypes' /\ EnvelopesAreCounted'
    BY <2>1 DEF XInv, ExportTypes, EnvelopesAreCounted, Busy
  <2>3. CloseIsFrozen' /\ SentinelIsOne' /\ ResultIsTrue'
    BY <2>1 DEF XInv, ExportTypes, CloseIsFrozen, SentinelIsOne, ResultIsTrue, Closing
  <2> QED BY <2>2, <2>3 DEF XInv
<1>6. ASSUME NEW f \in Flushers, FlushBegins(f) \/ FlushEnds(f)
      PROVE  XInv'
  <2>1. UNCHANGED <<queue, exporting, accepted, completed, worker, closes, closer, closeTarget,
                    sentinelPut, closeResult>>
    BY <1>6 DEF FlushBegins, FlushEnds
  <2>2. PICK p \in {"true", "false", "waiting"}, n \in 0..MaxAccepted :
           /\ flusher' = [flusher EXCEPT ![f] = [pc |-> p, target |-> n]]
           /\ p = "true" => completed >= n
    <3>1. CASE FlushBegins(f)
      <4>1. accepted \in 0..MaxAccepted /\ (exporting = "CLOSED" => completed >= accepted)
        BY DEF XInv, ExportTypes, CloseIsFrozen
      <4>2. CASE exporting = "CLOSED"
        BY <3>1, <4>1, <4>2 DEF FlushBegins
      <4>3. CASE exporting # "CLOSED"
        BY <3>1, <4>1, <4>3 DEF FlushBegins
      <4> QED BY <4>2, <4>3
    <3>2. CASE FlushEnds(f)
      <4>1. flusher[f] \in [pc : {"idle", "waiting", "true", "false"}, target : 0..MaxAccepted]
        BY DEF XInv, ExportTypes
      <4>2. PICK p \in {"true", "false"} :
               /\ flusher' = [flusher EXCEPT ![f].pc = p]
               /\ p = "true" => completed >= flusher[f].target
        BY <3>2 DEF FlushEnds
      <4>3. [flusher[f] EXCEPT !.pc = p] = [pc |-> p, target |-> flusher[f].target]
        BY <4>1
      <4> QED BY <4>1, <4>2, <4>3
    <3> QED BY <1>6, <3>1, <3>2
  <2>3. ExportTypes' /\ EnvelopesAreCounted'
    BY <2>1, <2>2 DEF XInv, ExportTypes, EnvelopesAreCounted, Busy
  <2>4. CloseIsFrozen' /\ SentinelIsOne'
    BY <2>1 DEF XInv, CloseIsFrozen, SentinelIsOne, Closing
  <2>5. ResultIsTrue'
    BY <2>1, <2>2 DEF XInv, ExportTypes, ResultIsTrue
  <2> QED BY <2>3, <2>4, <2>5 DEF XInv
<1>7. ASSUME NEW d \in Closers, ExporterCloses(d)
      PROVE  XInv'
  <2>1. /\ ~Closing(d)
        /\ UNCHANGED <<queue, accepted, completed, worker, closes, flusher, sentinelPut>>
    BY <1>7 DEF ExporterCloses
  <2>2. \/ /\ closer' = [closer EXCEPT ![d] = closeResult] /\ Finalized
           /\ UNCHANGED <<exporting, closeTarget, closeResult>>
        \/ /\ closer' = [closer EXCEPT ![d] = "barrier"] /\ closeTarget # NotBegun
           /\ UNCHANGED <<exporting, closeTarget, closeResult>>
        \/ /\ closeTarget = NotBegun /\ closeTarget' = accepted /\ ~Finalized
           /\ \/ /\ exporting = "FAILED" /\ exporting' = "FAILED" /\ closeResult' = "false"
                 /\ closer' = [closer EXCEPT ![d] = "false"]
              \/ /\ exporting' = "CLOSING" /\ closer' = [closer EXCEPT ![d] = "barrier"]
                 /\ UNCHANGED closeResult
    BY <1>7 DEF ExporterCloses, MoveCloser, FinalizeDeadWorker
  <2>3. ExportTypes'
    BY <2>1, <2>2 DEF XInv, ExportTypes, Finalized
  <2>4. EnvelopesAreCounted'
    BY <2>1 DEF XInv, EnvelopesAreCounted, Busy
  <2>5. CloseIsFrozen'
    BY <2>1, <2>2 DEF XInv, ExportTypes, CloseIsFrozen, Closing, Finalized
  <2>6. SentinelIsOne'
    BY <2>1, <2>2 DEF XInv, ExportTypes, SentinelIsOne, Closing, Finalized
  <2>7. ResultIsTrue'
    BY <2>1, <2>2 DEF XInv, ExportTypes, ResultIsTrue, Finalized
  <2> QED BY <2>3, <2>4, <2>5, <2>6, <2>7 DEF XInv
<1>8. ASSUME NEW d \in Closers, CloseBarrier(d) \/ CloseReturns(d)
      PROVE  XInv'
  <2>1. /\ closer[d] \in {"barrier", "finalizing"}
        /\ UNCHANGED <<queue, exporting, accepted, completed, worker, closes, flusher, closeTarget,
                       sentinelPut>>
    BY <1>8 DEF CloseBarrier, CloseReturns
  <2>2. \/ /\ closer' = [closer EXCEPT ![d] = closeResult] /\ Finalized /\ UNCHANGED closeResult
        \/ /\ closer' = [closer EXCEPT ![d] = "false"]
           /\ \/ UNCHANGED closeResult
              \/ ~Finalized /\ closeResult' = "false"
        \/ /\ closer' = [closer EXCEPT ![d] = "enqueue"] /\ completed >= closeTarget
           /\ closer[d] = "barrier" /\ UNCHANGED closeResult
    BY <1>8 DEF CloseBarrier, CloseReturns, MoveCloser, FinalizeDeadWorker
  <2>3. ExportTypes'
    BY <2>1, <2>2 DEF XInv, ExportTypes, Finalized
  <2>4. EnvelopesAreCounted'
    BY <2>1 DEF XInv, EnvelopesAreCounted, Busy
  <2>5. completed <= accepted
    BY DEF XInv, ExportTypes, EnvelopesAreCounted, Busy
  <2>6. CloseIsFrozen'
    BY <2>1, <2>2, <2>5 DEF XInv, ExportTypes, CloseIsFrozen, Closing, Finalized
  <2>7. SentinelIsOne'
    BY <2>1, <2>2 DEF XInv, ExportTypes, SentinelIsOne, Finalized
  <2>8. ResultIsTrue'
    BY <2>1, <2>2 DEF XInv, ExportTypes, ResultIsTrue, Finalized
  <2> QED BY <2>3, <2>4, <2>6, <2>7, <2>8 DEF XInv
<1>9. ASSUME NEW d \in Closers, CloseEnqueues(d)
      PROVE  XInv'
  <2>1. /\ closer[d] = "enqueue"
        /\ UNCHANGED <<queue, exporting, accepted, completed, worker, closes, flusher, closeTarget,
                       closeResult>>
    BY <1>9 DEF CloseEnqueues
  <2>2. \/ /\ closer' = [closer EXCEPT ![d] = "finalizing"] /\ UNCHANGED sentinelPut
        \/ /\ closer' = [closer EXCEPT ![d] = "false"] /\ UNCHANGED sentinelPut
        \/ closer' = [closer EXCEPT ![d] = "putting"] /\ ~sentinelPut /\ sentinelPut' = TRUE
    BY <1>9 DEF CloseEnqueues, MoveCloser
  <2>3. ExportTypes'
    BY <2>1, <2>2 DEF XInv, ExportTypes
  <2>4. EnvelopesAreCounted'
    BY <2>1 DEF XInv, EnvelopesAreCounted, Busy
  <2>5. completed = accepted /\ closeTarget # NotBegun
    BY <2>1 DEF XInv, CloseIsFrozen, Closing
  <2>6. CloseIsFrozen' /\ ResultIsTrue'
    BY <2>1, <2>2, <2>5 DEF XInv, ExportTypes, CloseIsFrozen, Closing, ResultIsTrue
  <2>7. SentinelIsOne'
    BY <2>1, <2>2, <2>5 DEF XInv, ExportTypes, SentinelIsOne
  <2> QED BY <2>3, <2>4, <2>6, <2>7 DEF XInv
<1>10. ASSUME NEW d \in Closers, ClosePuts(d)
      PROVE  XInv'
  <2>1. /\ closer[d] = "putting"
        /\ UNCHANGED <<exporting, accepted, completed, worker, closes, flusher, closeTarget,
                       closeResult>>
    BY <1>10 DEF ClosePuts
  <2>2. \/ /\ queue' = Append(queue, "sentinel")
           /\ closer' = [closer EXCEPT ![d] = "finalizing"] /\ UNCHANGED sentinelPut
        \/ /\ Len(queue) = Capacity /\ sentinelPut' = FALSE
           /\ closer' = [closer EXCEPT ![d] = "false"] /\ UNCHANGED queue
    BY <1>10 DEF ClosePuts, MoveCloser
  <2>3. ExportTypes'
    <3>1. queue' \in Seq({"envelope", "sentinel"})
      BY <2>2 DEF XInv, ExportTypes
    <3>3. sentinelPut' \in BOOLEAN
      BY <2>2 DEF XInv, ExportTypes
    <3>2. closer' \in [Closers -> {"idle", "barrier", "enqueue", "putting", "finalizing",
                                   "true", "false"}]
      BY <2>2 DEF XInv, ExportTypes
    <3> QED BY <2>1, <3>1, <3>2, <3>3 DEF XInv, ExportTypes
  <2>4. /\ sentinelPut /\ queue # <<"sentinel">> /\ worker # "closing" /\ closes = 0
        /\ completed = accepted /\ closeTarget # NotBegun
        /\ \A e \in Closers : closer[e] = "putting" => e = d
    BY <2>1 DEF XInv, SentinelIsOne, CloseIsFrozen
  <2>5. Len(queue) = 0 /\ worker # "sending" /\ queue = <<>>
    BY <2>4 DEF XInv, ExportTypes, EnvelopesAreCounted, Busy
  <2>6. /\ queue' = <<"sentinel">> /\ closer' = [closer EXCEPT ![d] = "finalizing"]
        /\ UNCHANGED sentinelPut
    BY <2>2, <2>5
  <2>7. EnvelopesAreCounted'
    BY <2>1, <2>4, <2>5, <2>6 DEF EnvelopesAreCounted
  <2>8. CloseIsFrozen' /\ ResultIsTrue'
    BY <2>1, <2>4, <2>6 DEF XInv, ExportTypes, CloseIsFrozen, Closing, ResultIsTrue
  <2>9. SentinelIsOne'
    BY <2>1, <2>4, <2>6 DEF XInv, ExportTypes, SentinelIsOne
  <2> QED BY <2>3, <2>7, <2>8, <2>9 DEF XInv
<1>11. CASE UNCHANGED exportVars
  BY <1>11 DEF exportVars, XInv, ExportTypes, EnvelopesAreCounted, CloseIsFrozen, SentinelIsOne,
               ResultIsTrue, Busy, Closing
<1> QED
  BY <1>1, <1>2, <1>3, <1>4, <1>5, <1>6, <1>7, <1>8, <1>9, <1>10, <1>11 DEF ExportNext

\* What flush and close of the trace exporter report is true, for any number of
\* threads that call them, any capacity and any number of spans (flush, close,
\* _worker_main).
THEOREM ExportReportsTheTruth == ExportSpec => []ExportIsTruthful
  BY ExportStarts, ExportStep, ExportTruth, PTL DEF ExportSpec

-----------------------------------------------------------------------------
(* Memory: what was withdrawn stays withdrawn.                             *)

RecordRow ==
    [status : {"none", "ACTIVE", "SUPERSEDED", "LAPSED", "DELETED", "REVOKED"}, version : Nat,
     body : BOOLEAN, from : Nat]
OperationRow ==
    [state : {"none", "PREPARED", "UNKNOWN", "CANDIDATE", "COMMITTED", "CONFLICT", "SKIPPED_REVOKED"},
     body : BOOLEAN, expected : [Topics -> Nat]]
Refs ==
    ({"TALK"} \X Chats) \cup ({"MEMORY"} \X Chats \X Topics \X Nat)
    \cup ({"SHARED"} \X Chats \X Topics \X Nat \X Nat) \cup ({"SCOPE"} \X Nat)
BindingRow ==
    [status : {"none", "loaded", "ACTIVE", "refused", "INVALID"}, manifest : SUBSET Refs, epoch : Nat]
TalkRow == [status : {"none", "ACTIVE", "DELETED"}, deps : SUBSET Refs]
ExecutionRow ==
    [pc : {"idle", "extract", "restore", "save", "commit"}, chat : Chats \cup {NoChat},
     seen : OperationRow]

RecordTypes == memory \in [Chats -> [Topics -> RecordRow]] /\ shared \in [Chats -> [Topics -> RecordRow]]
RunTypes ==
    /\ binding \in [Chats -> BindingRow] /\ talk \in [Chats -> TalkRow]
    /\ project \in [epoch : Nat, granted : BOOLEAN]
OperationTypes ==
    /\ formation \in [Chats -> OperationRow] /\ execution \in [Executions -> ExecutionRow]
    /\ \A s \in Executions : execution[s].pc # "idle" => execution[s].chat \in Chats

\* Whatever a run was given rests on an exchange it was also given.
Grounded(refs) == \A ref \in refs : ref[1] # "SCOPE" => TalkRef(ref[2]) \in refs
RunsAreGrounded == \A c \in Chats : Grounded(binding[c].manifest) /\ Grounded(talk[c].deps)

ForgottenIsSuppressed ==
    \A c \in forgotten : /\ c \in Chats /\ <<"SESSION", c>> \in suppressed
                         /\ formation[c].state \in {"none", "SKIPPED_REVOKED"}
UnsharedIsSuppressed == \A c \in unshared : c \in Chats /\ <<"PROJECT", c>> \in suppressed

ErasedIsEmpty ==
    /\ erased \subseteq forgotten \X Topics
    /\ \A p \in erased : ~memory[p[1]][p[2]].body /\ ~shared[p[1]][p[2]].body
    /\ \A c \in Chats, t \in Topics : /\ memory[c][t].status = "none" => ~memory[c][t].body
                                      /\ shared[c][t].status = "none" => ~shared[c][t].body

MemoryInv ==
    /\ RecordTypes /\ RunTypes /\ OperationTypes
    /\ RunsAreGrounded /\ ForgottenIsSuppressed /\ UnsharedIsSuppressed /\ ErasedIsEmpty

LEMMA MemoryStarts == MemoryInit => MemoryInv
<1> SUFFICES ASSUME MemoryInit PROVE MemoryInv
  OBVIOUS
<1>1. RecordTypes
  BY DEF MemoryInit, RecordTypes, RecordRow, NoRow
<1>2. RunTypes
  BY DEF MemoryInit, RunTypes, BindingRow, TalkRow
<1>3. OperationTypes
  BY DEF MemoryInit, OperationTypes, OperationRow, ExecutionRow, Idle, NoOperation
<1>4. RunsAreGrounded
  BY DEF MemoryInit, RunsAreGrounded, Grounded
<1>5. ForgottenIsSuppressed /\ UnsharedIsSuppressed /\ ErasedIsEmpty
  BY DEF MemoryInit, ForgottenIsSuppressed, UnsharedIsSuppressed, ErasedIsEmpty, NoRow
<1> QED BY <1>1, <1>2, <1>3, <1>4, <1>5 DEF MemoryInv

\* An exchange that was forgotten does not stand.
LEMMA ForgottenFalls ==
  ASSUME ForgottenIsSuppressed, NEW c \in forgotten
  PROVE  ~TalkStands(c) /\ ~Valid(TalkRef(c))
<1>1. ~TalkStands(c)
  BY DEF ForgottenIsSuppressed, TalkStands
<1> QED BY <1>1 DEF Valid, TalkRef

LEMMA UnsharedFalls ==
  ASSUME UnsharedIsSuppressed, NEW ref, ref[1] = "SHARED", Valid(ref)
  PROVE  ref[2] \notin unshared
  BY DEF UnsharedIsSuppressed, Valid

LEMMA MemoryTruth == MemoryInv => ForgottenIsGone
<1> SUFFICES ASSUME MemoryInv PROVE ForgottenIsGone
  OBVIOUS
<1>0. /\ RunsAreGrounded /\ ForgottenIsSuppressed /\ UnsharedIsSuppressed /\ ErasedIsEmpty
  BY DEF MemoryInv
<1>1. ASSUME NEW c \in Chats, Admits(c), NEW ref \in binding[c].manifest, ref[1] # "SCOPE"
      PROVE  ref[2] \notin forgotten /\ (ref[1] = "SHARED" => ref[2] \notin unshared)
  <2>1. \A r \in binding[c].manifest : Valid(r)
    BY <1>1 DEF Admits, Eligible, AllValid
  <2>2. TalkRef(ref[2]) \in binding[c].manifest
    BY <1>0, <1>1 DEF RunsAreGrounded, Grounded
  <2> QED BY <1>0, <1>1, <2>1, <2>2, ForgottenFalls, UnsharedFalls
<1>2. \A c \in Chats : GivesNothingForgotten(c)
  BY <1>1 DEF GivesNothingForgotten
<1>3. ASSUME NEW c \in forgotten
      PROVE  /\ ~TalkVisible(c) /\ \A t \in Topics : ~MemoryVisible(c, t) /\ ~SharedVisible(c, t)
             /\ formation[c].state \in {"none", "SKIPPED_REVOKED"}
  <2>1. ~TalkStands(c) /\ ~Valid(TalkRef(c))
    BY <1>0, ForgottenFalls
  <2>2. \A t \in Topics : ~SharedVisible(c, t)
    BY <2>1 DEF SharedVisible, SharedDeps, AllValid
  <2> QED BY <1>0, <2>1, <2>2 DEF TalkVisible, MemoryVisible, ForgottenIsSuppressed
<1>4. ASSUME NEW c \in unshared, NEW t \in Topics PROVE ~SharedVisible(c, t)
  <2>1. SharedRef(c, t)[1] = "SHARED" /\ SharedRef(c, t)[2] = c
    BY DEF SharedRef
  <2>2. ~Valid(SharedRef(c, t))
    BY <1>0, <2>1, UnsharedFalls
  <2> QED BY <2>2 DEF SharedVisible
<1> QED BY <1>0, <1>2, <1>3, <1>4 DEF ForgottenIsGone, ErasedIsEmpty

-----------------------------------------------------------------------------
\* What a run is given.
LEMMA SuppliedIs ==
  ASSUME RecordTypes, RunTypes, RunsAreGrounded
  PROVE  Supplied \subseteq Refs /\ Grounded(Supplied)
<1>t. \A c \in Chats : TalkRef(c) \in Refs
  BY DEF TalkRef, Refs
<1>m. \A c \in Chats, t \in Topics, n \in Nat : <<"MEMORY", c, t, n>> \in Refs
  BY DEF Refs
<1>s. \A c \in Chats, t \in Topics, n \in Nat, e \in Nat : <<"SHARED", c, t, n, e>> \in Refs
  BY DEF Refs
<1>v. \A c \in Chats, t \in Topics :
        memory[c][t].version \in Nat /\ shared[c][t].version \in Nat /\ shared[c][t].from \in Nat
  BY DEF RecordTypes, RecordRow
<1>e. project.epoch \in Nat
  BY DEF RunTypes
<1> DEFINE A(c) == {TalkRef(c)} \cup talk[c].deps
           B(p) == {MemoryRef(p[1], p[2]), TalkRef(p[1])}
           C(p) == {SharedRef(p[1], p[2])} \cup SharedDeps(p[1], p[2])
<1>1. ASSUME NEW c \in Chats PROVE A(c) \subseteq Refs /\ Grounded(A(c))
  <2>1. talk[c].deps \subseteq Refs /\ Grounded(talk[c].deps)
    BY DEF RunTypes, TalkRow, RunsAreGrounded
  <2>2. TalkRef(c)[2] = c
    BY DEF TalkRef
  <2> QED BY <1>t, <2>1, <2>2 DEF Grounded
<1>2. ASSUME NEW p \in Chats \X Topics PROVE B(p) \subseteq Refs /\ Grounded(B(p))
  <2>1. p[1] \in Chats /\ p[2] \in Topics
    OBVIOUS
  <2>2. MemoryRef(p[1], p[2]) \in Refs /\ MemoryRef(p[1], p[2])[2] = p[1] /\ TalkRef(p[1])[2] = p[1]
    BY <1>m, <1>v, <2>1 DEF MemoryRef, TalkRef
  <2> QED BY <1>t, <2>1, <2>2 DEF Grounded
<1>3. ASSUME NEW p \in Chats \X Topics PROVE C(p) \subseteq Refs /\ Grounded(C(p))
  <2>1. p[1] \in Chats /\ p[2] \in Topics
    OBVIOUS
  <2> DEFINE y == <<"MEMORY", p[1], p[2], shared[p[1]][p[2]].from>>
  <2>2. SharedRef(p[1], p[2]) \in Refs /\ SharedRef(p[1], p[2])[2] = p[1] /\ TalkRef(p[1])[2] = p[1]
    BY <1>s, <1>v, <1>e, <2>1 DEF SharedRef, TalkRef
  <2>3. y \in Refs /\ y[2] = p[1] /\ SharedDeps(p[1], p[2]) = {TalkRef(p[1]), y}
    BY <1>m, <1>v, <2>1 DEF SharedDeps
  <2> HIDE DEF y
  <2> QED BY <1>t, <2>1, <2>2, <2>3 DEF Grounded
<1>4. \A ref \in Supplied : \/ \E c \in Chats : ref \in A(c) /\ A(c) \subseteq Supplied
                            \/ \E p \in Chats \X Topics : ref \in B(p) /\ B(p) \subseteq Supplied
                            \/ \E p \in Chats \X Topics : ref \in C(p) /\ C(p) \subseteq Supplied
  <2> DEFINE TC == {d \in Chats : TalkVisible(d)}
             MC == {q \in Chats \X Topics : MemoryVisible(q[1], q[2])}
             SC == {q \in Chats \X Topics : project.granted /\ SharedVisible(q[1], q[2])}
             SA == UNION {A(c) : c \in TC}
             SB == UNION {B(p) : p \in MC}
             SD == UNION {C(p) : p \in SC}
  <2>1. Supplied = SA \cup SB \cup SD
    BY DEF Supplied
  <2>2. TC \subseteq Chats /\ MC \subseteq Chats \X Topics /\ SC \subseteq Chats \X Topics
    OBVIOUS
  <2> HIDE DEF A, B, C, TC, MC, SC
  <2>3. /\ \A ref \in SA : \E c \in TC : ref \in A(c)
        /\ \A c \in TC : A(c) \subseteq SA
    OBVIOUS
  <2>4. /\ \A ref \in SB : \E p \in MC : ref \in B(p)
        /\ \A p \in MC : B(p) \subseteq SB
    OBVIOUS
  <2>5. /\ \A ref \in SD : \E p \in SC : ref \in C(p)
        /\ \A p \in SC : C(p) \subseteq SD
    OBVIOUS
  <2> HIDE DEF SA, SB, SD
  <2>6. ASSUME NEW ref \in SA PROVE \E c \in Chats : ref \in A(c) /\ A(c) \subseteq Supplied
    BY <2>1, <2>2, <2>3
  <2>7. ASSUME NEW ref \in SB
        PROVE  \E p \in Chats \X Topics : ref \in B(p) /\ B(p) \subseteq Supplied
    BY <2>1, <2>2, <2>4
  <2>8. ASSUME NEW ref \in SD
        PROVE  \E p \in Chats \X Topics : ref \in C(p) /\ C(p) \subseteq Supplied
    BY <2>1, <2>2, <2>5
  <2> QED BY <2>1, <2>6, <2>7, <2>8
<1> HIDE DEF A, B, C
<1> QED BY <1>1, <1>2, <1>3, <1>4 DEF Grounded

LEMMA BindingRows ==
  ASSUME NEW x \in BindingRow, NEW p \in {"none", "loaded", "ACTIVE", "refused", "INVALID"}
  PROVE  [x EXCEPT !.status = p] \in BindingRow /\ [x EXCEPT !.status = p].manifest = x.manifest
  BY DEF BindingRow

\* A run takes its context and is admitted to use it, or is not.
LEMMA RunSteps ==
  ASSUME MemoryInv, NEW c \in Chats, LoadContext(c) \/ BindRun(c) \/ Guard(c)
  PROVE  MemoryInv'
<1>0. RecordTypes /\ RunTypes /\ RunsAreGrounded /\ binding \in [Chats -> BindingRow]
        /\ project.epoch \in Nat
  BY DEF MemoryInv, RunTypes
<1>1. UNCHANGED <<talk, formation, memory, shared, suppressed, project, execution, forgotten,
                  unshared, erased>>
  BY DEF LoadContext, BindRun, Guard, rowVars, wishVars
<1>2. PICK y \in BindingRow : binding' = [binding EXCEPT ![c] = y] /\ Grounded(y.manifest)
  <2>1. CASE LoadContext(c)
    <3> DEFINE e == IF project.granted THEN project.epoch ELSE 0
               y == [status |-> "loaded", manifest |-> Supplied, epoch |-> e]
    <3>1. Supplied \subseteq Refs /\ Grounded(Supplied) /\ e \in Nat
      BY <1>0, SuppliedIs
    <3> HIDE DEF e
    <3>2. y \in BindingRow /\ Grounded(y.manifest)
      BY <3>1 DEF BindingRow
    <3>3. binding' = [binding EXCEPT ![c] = y]
      BY <2>1 DEF LoadContext, e
    <3> QED BY <3>2, <3>3
  <2>2. ASSUME NEW p \in {"none", "loaded", "ACTIVE", "refused", "INVALID"},
               binding' = [binding EXCEPT ![c] = [binding[c] EXCEPT !.status = p]]
        PROVE  \E y \in BindingRow : binding' = [binding EXCEPT ![c] = y] /\ Grounded(y.manifest)
    <3>1. Grounded(binding[c].manifest) /\ binding[c] \in BindingRow
      BY <1>0 DEF RunsAreGrounded
    <3> QED BY <2>2, <3>1, BindingRows
  <2>3. CASE BindRun(c)
    <3>1. PICK p \in {"ACTIVE", "refused"} :
             binding' = [binding EXCEPT ![c] = [binding[c] EXCEPT !.status = p]]
      BY <2>3 DEF BindRun
    <3> QED BY <2>2, <3>1
  <2>4. CASE Guard(c)
    <3>1. binding[c].status \in {"ACTIVE", "INVALID"}
      BY <2>4 DEF Guard
    <3>2. PICK p \in {binding[c].status, "INVALID"} :
             binding' = [binding EXCEPT ![c] = [binding[c] EXCEPT !.status = p]]
      BY <2>4 DEF Guard
    <3> QED BY <2>2, <3>1, <3>2
  <2> QED BY <2>1, <2>3, <2>4
<1>3. binding' \in [Chats -> BindingRow] /\ \A d \in Chats : Grounded(binding'[d].manifest)
  BY <1>0, <1>2 DEF RunsAreGrounded
<1>4. RecordTypes' /\ RunTypes' /\ OperationTypes'
  BY <1>1, <1>3 DEF MemoryInv, RecordTypes, RunTypes, OperationTypes
<1>5. RunsAreGrounded'
  <2>1. \A d \in Chats : Grounded(talk'[d].deps)
    BY <1>0, <1>1 DEF RunsAreGrounded
  <2> QED BY <1>3, <2>1 DEF RunsAreGrounded, Grounded, TalkRef
<1>6. ForgottenIsSuppressed' /\ UnsharedIsSuppressed' /\ ErasedIsEmpty'
  BY <1>1 DEF MemoryInv, ForgottenIsSuppressed, UnsharedIsSuppressed, ErasedIsEmpty
<1> QED BY <1>4, <1>5, <1>6 DEF MemoryInv

LEMMA AppendSteps ==
  ASSUME MemoryInv, NEW c \in Chats, AppendExchange(c)
  PROVE  MemoryInv'
<1> DEFINE scope == IF binding[c].epoch = 0 THEN {} ELSE {ScopeRef(binding[c].epoch)}
           deps == binding[c].manifest \cup scope
           row == [status |-> "ACTIVE", deps |-> deps]
<1>0. /\ RunTypes /\ RunsAreGrounded /\ binding \in [Chats -> BindingRow] /\ talk \in [Chats -> TalkRow]
      /\ binding[c] \in BindingRow
  BY DEF MemoryInv, RunTypes
<1>1. UNCHANGED <<formation, memory, shared, project, execution, forgotten, unshared, erased>>
  BY DEF AppendExchange, wishVars
<1>2. PICK p \in {binding[c].status, "INVALID"} :
         binding' = [binding EXCEPT ![c] = [binding[c] EXCEPT !.status = p]]
  BY DEF AppendExchange
<1>3. binding' \in [Chats -> BindingRow] /\ \A d \in Chats : Grounded(binding'[d].manifest)
  <2>1. p \in {"none", "loaded", "ACTIVE", "refused", "INVALID"}
    BY <1>0, <1>2 DEF BindingRow
  <2>2. \A d \in Chats : Grounded(binding[d].manifest)
    BY <1>0 DEF RunsAreGrounded
  <2> QED BY <1>0, <1>2, <2>1, <2>2, BindingRows
<1>4. UNCHANGED talk \/ talk' = [talk EXCEPT ![c] = row]
  BY DEF AppendExchange
<1>5. suppressed \subseteq suppressed'
  BY DEF AppendExchange
<1>6. row \in TalkRow /\ Grounded(row.deps)
  <2>1. binding[c].manifest \subseteq Refs /\ Grounded(binding[c].manifest) /\ binding[c].epoch \in Nat
    BY <1>0 DEF BindingRow, RunsAreGrounded
  <2>2. \A ref \in scope : ref \in Refs /\ ref[1] = "SCOPE"
    BY <2>1 DEF ScopeRef, Refs
  <2> HIDE DEF scope
  <2>3. deps \subseteq Refs /\ Grounded(deps)
    BY <2>1, <2>2 DEF Grounded
  <2> HIDE DEF deps
  <2> QED BY <2>3 DEF TalkRow
<1> HIDE DEF row
<1>7. talk' \in [Chats -> TalkRow] /\ \A d \in Chats : Grounded(talk'[d].deps)
  <2>1. \A d \in Chats : Grounded(talk[d].deps)
    BY <1>0 DEF RunsAreGrounded
  <2> QED BY <1>0, <1>4, <1>6, <2>1
<1>8. RecordTypes' /\ RunTypes' /\ OperationTypes'
  BY <1>1, <1>3, <1>7 DEF MemoryInv, RecordTypes, RunTypes, OperationTypes
<1>9. RunsAreGrounded'
  BY <1>3, <1>7 DEF RunsAreGrounded, Grounded, TalkRef
<1>10. ForgottenIsSuppressed' /\ UnsharedIsSuppressed' /\ ErasedIsEmpty'
  BY <1>1, <1>5 DEF MemoryInv, ForgottenIsSuppressed, UnsharedIsSuppressed, ErasedIsEmpty
<1> QED BY <1>8, <1>9, <1>10 DEF MemoryInv

-----------------------------------------------------------------------------
\* An execution of form moves on: it brings no record back that was withdrawn.
LEMMA FormMoves ==
  ASSUME MemoryInv, UNCHANGED <<binding, talk, shared, suppressed, project, forgotten, unshared,
                                erased>>,
         formation' \in [Chats -> OperationRow], execution' \in [Executions -> ExecutionRow],
         \A s \in Executions : execution'[s].pc # "idle" => execution'[s].chat \in Chats,
         \A c \in forgotten : formation'[c].state \in {"none", "SKIPPED_REVOKED"},
         memory' \in [Chats -> [Topics -> RecordRow]],
         \A c \in Chats, t \in Topics :
            /\ memory'[c][t].body => memory[c][t].body \/ c \notin forgotten
            /\ memory'[c][t].status = "none" => ~memory'[c][t].body
  PROVE  MemoryInv'
<1>1. RecordTypes' /\ RunTypes' /\ OperationTypes'
  BY DEF MemoryInv, RecordTypes, RunTypes, OperationTypes
<1>2. RunsAreGrounded'
  BY DEF MemoryInv, RunsAreGrounded, Grounded, TalkRef
<1>3. ForgottenIsSuppressed' /\ UnsharedIsSuppressed'
  BY DEF MemoryInv, ForgottenIsSuppressed, UnsharedIsSuppressed
<1>4. ErasedIsEmpty'
  <2>1. ErasedIsEmpty /\ forgotten \subseteq Chats
    BY DEF MemoryInv, ForgottenIsSuppressed
  <2>2. \A p \in erased : p[1] \in forgotten /\ p[1] \in Chats /\ p[2] \in Topics
    BY <2>1 DEF ErasedIsEmpty
  <2> QED BY <2>1, <2>2 DEF ErasedIsEmpty
<1> QED BY <1>1, <1>2, <1>3, <1>4 DEF MemoryInv

LEMMA OperationRows ==
  ASSUME NEW x \in OperationRow,
         NEW p \in {"none", "PREPARED", "UNKNOWN", "CANDIDATE", "COMMITTED", "CONFLICT",
                    "SKIPPED_REVOKED"}
  PROVE  [x EXCEPT !.state = p] \in OperationRow /\ [x EXCEPT !.state = p].state = p
  BY DEF OperationRow

LEMMA BodyRow ==
  ASSUME NEW x \in OperationRow, NEW b \in BOOLEAN
  PROVE  [x EXCEPT !.body = b] \in OperationRow /\ [x EXCEPT !.body = b].state = x.state
  BY DEF OperationRow

\* Only the operation of the chat changes, and it keeps its type.
LEMMA WriteIs ==
  ASSUME OperationTypes, NEW c \in Chats, NEW old \in OperationRow, NEW new \in OperationRow,
         Write(c, old, new)
  PROVE  /\ formation' \in [Chats -> OperationRow]
         /\ \A d \in Chats \ {c} : formation'[d] = formation[d]
<1>0. formation \in [Chats -> OperationRow] /\ formation[c] \in OperationRow
  BY DEF OperationTypes
<1> DEFINE p == IF new.state = old.state THEN formation[c].state ELSE new.state
           b == IF new.body = old.body THEN formation[c].body ELSE new.body
           y == [formation[c] EXCEPT !.state = p]
           z == [y EXCEPT !.body = b]
<1>1. p \in {"none", "PREPARED", "UNKNOWN", "CANDIDATE", "COMMITTED", "CONFLICT", "SKIPPED_REVOKED"}
  BY <1>0 DEF OperationRow
<1>2. b \in BOOLEAN
  BY <1>0 DEF OperationRow
<1>3. formation' = [formation EXCEPT ![c] = z]
  BY DEF Write
<1> HIDE DEF p, b
<1>4. y \in OperationRow
  BY <1>0, <1>1, OperationRows
<1> HIDE DEF y
<1>5. z \in OperationRow
  BY <1>2, <1>4, BodyRow
<1> HIDE DEF z
<1> QED BY <1>0, <1>3, <1>5

\* Where an execution goes.
LEMMA GoesIs ==
  ASSUME OperationTypes, NEW s \in Executions, NEW c \in Chats,
         formation' \in [Chats -> OperationRow],
         NEW p \in {"idle", "extract", "restore", "save", "commit"}, Goes(s, c, p)
  PROVE  /\ execution' \in [Executions -> ExecutionRow]
         /\ \A x \in Executions : execution'[x].pc # "idle" => execution'[x].chat \in Chats
<1> DEFINE z == [pc |-> p, chat |-> c, seen |-> formation'[c]]
<1>1. z \in ExecutionRow /\ z.chat = c
  BY DEF ExecutionRow
<1>2. execution' = [execution EXCEPT ![s] = z]
  BY DEF Goes
<1> HIDE DEF z
<1> QED BY <1>1, <1>2 DEF OperationTypes

LEMMA IdleRow == Idle \in ExecutionRow /\ Idle.pc = "idle" /\ NoOperation \in OperationRow
  BY DEF Idle, NoOperation, ExecutionRow, OperationRow

LEMMA LeavesIs ==
  ASSUME OperationTypes, NEW s \in Executions, Leaves(s)
  PROVE  /\ execution' \in [Executions -> ExecutionRow]
         /\ \A x \in Executions : execution'[x].pc # "idle" => execution'[x].chat \in Chats
  BY IdleRow DEF OperationTypes, Leaves

\* Records that stay as they are.
LEMMA RecordsSame ==
  ASSUME MemoryInv, UNCHANGED memory
  PROVE  /\ memory' \in [Chats -> [Topics -> RecordRow]]
         /\ \A c \in Chats, t \in Topics :
              /\ memory'[c][t].body => memory[c][t].body \/ c \notin forgotten
              /\ memory'[c][t].status = "none" => ~memory'[c][t].body
  BY DEF MemoryInv, RecordTypes, ErasedIsEmpty

\* What stands was not forgotten.
LEMMA SourcesRemain ==
  ASSUME MemoryInv, NEW c \in Chats, SourcesHold(c)
  PROVE  c \notin forgotten
  BY ForgottenFalls DEF MemoryInv, SourcesHold, AllValid

LEMMA PrepareSteps ==
  ASSUME MemoryInv, NEW s \in Executions, NEW c \in Chats, PrepareFormation(s,
         c) \/ PrepareAgain(s, c)
  PROVE  MemoryInv'
<1>0. /\ OperationTypes /\ ForgottenIsSuppressed /\ formation \in [Chats -> OperationRow]
      /\ formation[c] \in OperationRow
  BY DEF MemoryInv, OperationTypes
<1>1. UNCHANGED <<binding, talk, memory, shared, suppressed, project, forgotten, unshared, erased>>
  BY DEF PrepareFormation, PrepareAgain, wishVars
<1>2. CASE PrepareAgain(s, c)
  <2>1. PICK p \in {formation[c].state, "UNKNOWN"} :
          /\ formation' = [formation EXCEPT ![c] = [formation[c] EXCEPT !.state = p]]
          /\ p # formation[c].state => formation[c].state = "PREPARED"
    <3>1. CASE formation[c].state = "PREPARED"
      BY <1>2, <3>1 DEF PrepareAgain
    <3>2. CASE formation[c].state # "PREPARED"
      BY <1>2, <3>2 DEF PrepareAgain
    <3> QED BY <3>1, <3>2
  <2>2. p \in {"none", "PREPARED", "UNKNOWN", "CANDIDATE", "COMMITTED", "CONFLICT", "SKIPPED_REVOKED"}
    BY <1>0, <2>1 DEF OperationRow
  <2>3. /\ formation' \in [Chats -> OperationRow] /\ formation'[c].state = p
        /\ \A d \in Chats \ {c} : formation'[d] = formation[d]
    BY <1>0, <2>1, <2>2, OperationRows
  <2>4. \A d \in forgotten : formation'[d].state \in {"none", "SKIPPED_REVOKED"}
    BY <1>0, <2>1, <2>3 DEF ForgottenIsSuppressed
  <2>5. \E q \in {"commit", "restore"} : Goes(s, c, q)
    BY <1>2 DEF PrepareAgain
  <2>6. /\ execution' \in [Executions -> ExecutionRow]
        /\ \A x \in Executions : execution'[x].pc # "idle" => execution'[x].chat \in Chats
    BY <1>0, <2>3, <2>5, GoesIs
  <2> QED BY <1>1, <2>3, <2>4, <2>6, RecordsSame, FormMoves
<1>3. CASE PrepareFormation(s, c)
  <2> DEFINE want == [t \in Topics |-> IF c \in Corrects THEN VersionOf(t) ELSE 0]
             row == [state |-> "PREPARED", body |-> FALSE, expected |-> want]
             z == [Idle EXCEPT !.chat = c, !.pc = "extract"]
  <2>1. /\ formation' = [formation EXCEPT ![c] = row] /\ execution' = [execution EXCEPT ![s] = z]
        /\ c \notin forgotten
    BY <1>3, SourcesRemain DEF PrepareFormation
  <2>2. want \in [Topics -> Nat]
    <3>1. \A t \in Topics : VersionOf(t) \in Nat
      BY DEF VersionOf, Holders, MemoryInv, RecordTypes, RecordRow
    <3> QED BY <3>1
  <2> HIDE DEF want
  <2>3. row \in OperationRow
    BY <2>2 DEF OperationRow
  <2> HIDE DEF row
  <2>4. z \in ExecutionRow /\ z.chat \in Chats
    <3> DEFINE y == [Idle EXCEPT !.chat = c]
    <3>1. y \in ExecutionRow /\ y.chat = c
      BY IdleRow DEF ExecutionRow
    <3>2. z = [y EXCEPT !.pc = "extract"]
      OBVIOUS
    <3> HIDE DEF y, z
    <3> QED BY <3>1, <3>2 DEF ExecutionRow
  <2> HIDE DEF z
  <2>5. formation' \in [Chats -> OperationRow] /\ \A d \in Chats \ {c} : formation'[d] = formation[d]
    BY <1>0, <2>1, <2>3
  <2>6. \A d \in forgotten : formation'[d].state \in {"none", "SKIPPED_REVOKED"}
    BY <1>0, <2>1, <2>5 DEF ForgottenIsSuppressed
  <2>7. /\ execution' \in [Executions -> ExecutionRow]
        /\ \A x \in Executions : execution'[x].pc # "idle" => execution'[x].chat \in Chats
    BY <1>0, <2>1, <2>4 DEF OperationTypes
  <2> QED BY <1>1, <2>5, <2>6, <2>7, RecordsSame, FormMoves
<1> QED BY <1>2, <1>3

LEMMA ExecutionSteps ==
  ASSUME MemoryInv, NEW s \in Executions, Extract(s) \/ ExecutionEnds(s)
  PROVE  MemoryInv'
<1>0. /\ OperationTypes /\ ForgottenIsSuppressed /\ formation \in [Chats -> OperationRow]
  BY DEF MemoryInv, OperationTypes
<1>1. UNCHANGED <<binding, talk, formation, memory, shared, suppressed, project, forgotten,
                  unshared, erased>>
  BY DEF Extract, ExecutionEnds, wishVars, rowVars
<1>2. /\ execution' \in [Executions -> ExecutionRow]
      /\ \A x \in Executions : execution'[x].pc # "idle" => execution'[x].chat \in Chats
  <2>1. CASE Extract(s)
    <3>1. Chat(s) \in Chats /\ Goes(s, Chat(s), "save")
      BY <1>0, <2>1 DEF Extract, At, Chat, OperationTypes
    <3> QED BY <1>0, <1>1, <3>1, GoesIs
  <2>2. CASE ExecutionEnds(s)
    BY <1>0, <2>2, LeavesIs DEF ExecutionEnds
  <2> QED BY <2>1, <2>2
<1>3. \A d \in forgotten : formation'[d].state \in {"none", "SKIPPED_REVOKED"}
  BY <1>0, <1>1 DEF ForgottenIsSuppressed
<1> QED BY <1>0, <1>1, <1>2, <1>3, RecordsSame, FormMoves

\* A record formed is one of the chat's; the ones it replaces get no body back.
LEMMA FormedIs ==
  ASSUME MemoryInv, NEW c \in Chats, memory' = Formed(c)
  PROVE  /\ memory' \in [Chats -> [Topics -> RecordRow]]
         /\ \A d \in Chats, t \in Topics :
              /\ memory'[d][t].body => memory[d][t].body \/ d = c
              /\ memory'[d][t].status = "none" => ~memory'[d][t].body
<1>0. memory \in [Chats -> [Topics -> RecordRow]] /\ ErasedIsEmpty
  BY DEF MemoryInv, RecordTypes
<1> DEFINE fresh(t) == [status |-> "ACTIVE", version |-> VersionOf(t) + 1, body |-> TRUE, from |-> 0]
           p(d, t) == IF MemoryVisible(d, t) THEN "SUPERSEDED" ELSE "LAPSED"
           closed(d, t) == [memory[d][t] EXCEPT !.version = memory[d][t].version + 1, !.status = p(d, t)]
<1>1. ASSUME NEW t \in Topics PROVE fresh(t) \in RecordRow /\ fresh(t).status = "ACTIVE"
  <2> DEFINE n == VersionOf(t) + 1
  <2>1. VersionOf(t) \in Nat
    BY <1>0 DEF VersionOf, Holders, RecordRow
  <2>2. n \in Nat
    BY <2>1
  <2> HIDE DEF n
  <2>3. [status |-> "ACTIVE", version |-> n, body |-> TRUE, from |-> 0] \in RecordRow
    BY <2>2 DEF RecordRow
  <2> QED BY <2>3 DEF n
<1>2. ASSUME NEW d \in Chats, NEW t \in Topics
      PROVE  /\ closed(d, t) \in RecordRow /\ closed(d, t).status # "none"
             /\ closed(d, t).body = memory[d][t].body
  <2> DEFINE row == memory[d][t]
             n == row.version + 1
             q == p(d, t)
             y == [row EXCEPT !.version = n]
             z == [y EXCEPT !.status = q]
  <2>1. row \in RecordRow /\ q \in {"SUPERSEDED", "LAPSED"} /\ closed(d, t) = z
    BY <1>0
  <2>2. n \in Nat
    BY <2>1 DEF RecordRow
  <2> HIDE DEF row, n, q
  <2>3. y \in RecordRow /\ y.body = row.body
    BY <2>1, <2>2 DEF RecordRow
  <2> HIDE DEF y
  <2>4. z \in RecordRow /\ z.body = row.body /\ z.status = q
    BY <2>1, <2>3 DEF RecordRow
  <2> HIDE DEF z, closed
  <2> QED BY <2>1, <2>4 DEF row
<1>3. ASSUME NEW d \in Chats, NEW t \in Topics
      PROVE  memory'[d][t] \in {memory[d][t], closed(d, t)} \/ (d = c /\ memory'[d][t] = fresh(t))
  <2>1. memory'[d][t] = IF t \in Says[c] /\ d = c THEN fresh(t)
                        ELSE IF t \in Says[c] /\ d \in Replaced(c, t) THEN closed(d, t)
                        ELSE memory[d][t]
    BY DEF Formed
  <2> HIDE DEF fresh, closed
  <2> QED BY <2>1
<1>4. memory' = [d \in Chats |-> [t \in Topics |-> memory'[d][t]]]
  BY DEF Formed
<1> HIDE DEF fresh, closed
<1>5. \A d \in Chats, t \in Topics : memory'[d][t] \in RecordRow
  BY <1>0, <1>1, <1>2, <1>3
<1>6. memory' \in [Chats -> [Topics -> RecordRow]]
  BY <1>4, <1>5
<1>7. ASSUME NEW d \in Chats, NEW t \in Topics
      PROVE  /\ memory'[d][t].body => memory[d][t].body \/ d = c
             /\ memory'[d][t].status = "none" => ~memory'[d][t].body
  <2>1. CASE memory'[d][t] = memory[d][t]
    BY <1>0, <2>1 DEF ErasedIsEmpty
  <2>2. CASE memory'[d][t] = closed(d, t)
    BY <1>2, <2>2
  <2>3. CASE d = c /\ memory'[d][t] = fresh(t)
    BY <1>1, <2>3
  <2> QED BY <1>3, <2>1, <2>2, <2>3
<1> QED BY <1>6, <1>7

LEMMA FormSteps ==
  ASSUME MemoryInv, NEW s \in Executions,
         RestoreResponse(s) \/ SaveCandidates(s) \/ CommitCandidates(s)
  PROVE  MemoryInv'
<1> DEFINE c == Chat(s)
<1>0. /\ OperationTypes /\ ForgottenIsSuppressed /\ formation \in [Chats -> OperationRow]
      /\ c \in Chats /\ execution[s].seen \in OperationRow
  BY DEF MemoryInv, OperationTypes, ExecutionRow, RestoreResponse, SaveCandidates,
     CommitCandidates, At, Chat
<1>1. UNCHANGED <<binding, talk, shared, suppressed, project, forgotten, unshared, erased>>
  BY DEF RestoreResponse, SaveCandidates, CommitCandidates, wishVars
<1>2. c \notin forgotten
  BY <1>0, SourcesRemain DEF RestoreResponse, SaveCandidates, CommitCandidates
<1>3. \E row \in Reads(s), p \in {"PREPARED", "CANDIDATE", "CONFLICT", "COMMITTED"} :
         \/ Write(c, row, [row EXCEPT !.state = p])
         \/ Write(c, row, [row EXCEPT !.state = p, !.body = TRUE])
  BY DEF RestoreResponse, SaveCandidates, CommitCandidates
<1>4. /\ formation' \in [Chats -> OperationRow] /\ \A d \in Chats \ {c} : formation'[d] = formation[d]
  <2>1. PICK row \in Reads(s), p \in {"PREPARED", "CANDIDATE", "CONFLICT", "COMMITTED"} :
          \/ Write(c, row, [row EXCEPT !.state = p])
          \/ Write(c, row, [row EXCEPT !.state = p, !.body = TRUE])
    BY <1>3
  <2>2. row \in OperationRow
    BY <1>0 DEF Reads
  <2> DEFINE y == [row EXCEPT !.state = p]
             z == [y EXCEPT !.body = TRUE]
  <2>3. y \in OperationRow
    BY <2>2, OperationRows
  <2>4. z = [row EXCEPT !.state = p, !.body = TRUE]
    OBVIOUS
  <2>5. z \in OperationRow
    <3> HIDE DEF y
    <3> QED BY <2>3, BodyRow
  <2>6. Write(c, row, y) \/ Write(c, row, z)
    BY <2>1, <2>4
  <2> HIDE DEF y, z
  <2> QED BY <1>0, <2>2, <2>3, <2>5, <2>6, WriteIs, SMTT(40)
<1>5. \A d \in forgotten : formation'[d].state \in {"none", "SKIPPED_REVOKED"}
  BY <1>0, <1>2, <1>4 DEF ForgottenIsSuppressed
<1>6. /\ execution' \in [Executions -> ExecutionRow]
      /\ \A x \in Executions : execution'[x].pc # "idle" => execution'[x].chat \in Chats
  <2>1. (\E p \in {"save", "commit"} : Goes(s, c, p)) \/ Leaves(s)
    BY DEF RestoreResponse, SaveCandidates, CommitCandidates
  <2> QED BY <1>0, <1>4, <2>1, GoesIs, LeavesIs
<1>7. /\ memory' \in [Chats -> [Topics -> RecordRow]]
      /\ \A d \in Chats, t \in Topics :
           /\ memory'[d][t].body => memory[d][t].body \/ d \notin forgotten
           /\ memory'[d][t].status = "none" => ~memory'[d][t].body
  <2>1. UNCHANGED memory \/ memory' = Formed(c)
    BY DEF RestoreResponse, SaveCandidates, CommitCandidates
  <2>2. CASE UNCHANGED memory
    BY <2>2, RecordsSame
  <2>3. CASE memory' = Formed(c)
    BY <1>0, <1>2, <2>3, FormedIs
  <2> QED BY <2>1, <2>2, <2>3
<1> HIDE DEF c
<1> QED BY <1>1, <1>4, <1>5, <1>6, <1>7, FormMoves

-----------------------------------------------------------------------------
\* Commands: records end, and what is withdrawn stays suppressed.
Withers(rows, next) ==
    /\ next \in [Chats -> [Topics -> RecordRow]]
    /\ \A c \in Chats, t \in Topics : /\ next[c][t].body => rows[c][t].body
                                      /\ next[c][t].status = "none" => ~next[c][t].body

LEMMA CommandMoves ==
  ASSUME MemoryInv, UNCHANGED <<binding, execution>>,
         talk' \in [Chats -> TalkRow], \A c \in Chats : talk'[c].deps = talk[c].deps,
         project' \in [epoch : Nat, granted : BOOLEAN],
         Withers(memory, memory'), Withers(shared, shared'), suppressed \subseteq suppressed',
         formation' \in [Chats -> OperationRow],
         \A c \in Chats : formation'[c].state \in {formation[c].state, "SKIPPED_REVOKED"},
         forgotten \subseteq forgotten',
         \A c \in forgotten' \ forgotten :
            /\ c \in Chats /\ <<"SESSION", c>> \in suppressed'
            /\ formation'[c].state \in {"none", "SKIPPED_REVOKED"},
         \A c \in unshared' \ unshared : c \in Chats /\ <<"PROJECT", c>> \in suppressed',
         \A p \in erased' \ erased :
            /\ p \in forgotten' \X Topics
            /\ ~memory'[p[1]][p[2]].body /\ ~shared'[p[1]][p[2]].body
  PROVE  MemoryInv'
<1>1. RecordTypes' /\ RunTypes' /\ OperationTypes'
  BY DEF MemoryInv, RecordTypes, RunTypes, OperationTypes, Withers
<1>2. RunsAreGrounded'
  <2>1. \A c \in Chats : Grounded(binding'[c].manifest) /\ Grounded(talk'[c].deps)
    BY DEF MemoryInv, RunsAreGrounded
  <2> QED BY <2>1 DEF RunsAreGrounded, Grounded, TalkRef
<1>3. ForgottenIsSuppressed'
  <2>1. ForgottenIsSuppressed
    BY DEF MemoryInv
  <2>2. ASSUME NEW c \in forgotten
        PROVE  /\ c \in Chats /\ <<"SESSION", c>> \in suppressed'
               /\ formation'[c].state \in {"none", "SKIPPED_REVOKED"}
    BY <2>1 DEF ForgottenIsSuppressed
  <2> QED BY <2>2 DEF ForgottenIsSuppressed
<1>4. UnsharedIsSuppressed'
  BY DEF MemoryInv, UnsharedIsSuppressed
<1>5. ErasedIsEmpty'
  <2>1. /\ erased \subseteq forgotten \X Topics /\ forgotten \subseteq Chats
        /\ \A p \in erased : ~memory[p[1]][p[2]].body /\ ~shared[p[1]][p[2]].body
    BY DEF MemoryInv, ErasedIsEmpty, ForgottenIsSuppressed
  <2>2. \A p \in erased : p[1] \in Chats /\ p[2] \in Topics
    BY <2>1
  <2>3. \A p \in erased' : ~memory'[p[1]][p[2]].body /\ ~shared'[p[1]][p[2]].body
    BY <2>1, <2>2 DEF Withers
  <2>4. erased' \subseteq forgotten' \X Topics
    BY <2>1
  <2> QED BY <2>3, <2>4 DEF ErasedIsEmpty, Withers
<1> QED BY <1>1, <1>2, <1>3, <1>4, <1>5 DEF MemoryInv

LEMMA EndedRow ==
  ASSUME NEW x \in RecordRow, x.status = "none" => ~x.body, NEW action \in {"DELETED", "REVOKED"}
  PROVE  /\ Ended(x, action) \in RecordRow
         /\ Ended(x, action).body => x.body /\ action # "DELETED"
         /\ Ended(x, action).status = "none" => ~Ended(x, action).body
<1>1. CASE ~Exists(x)
  BY <1>1 DEF Ended, Exists
<1>2. CASE Exists(x)
  <2> DEFINE n == x.version + 1
             b == x.body /\ action = "REVOKED"
             u == [x EXCEPT !.status = action]
             y == [u EXCEPT !.version = n]
             z == [y EXCEPT !.body = b]
  <2>1. Ended(x, action) = z
    BY <1>2 DEF Ended, RecordRow
  <2>2. n \in Nat
    BY DEF RecordRow
  <2>3. b \in BOOLEAN /\ (b => x.body /\ action # "DELETED")
    BY DEF RecordRow
  <2> HIDE DEF n, b
  <2>4. u \in RecordRow /\ u.status = action
    BY DEF RecordRow
  <2> HIDE DEF u
  <2>5. y \in RecordRow /\ y.status = action
    BY <2>2, <2>4 DEF RecordRow
  <2> HIDE DEF y
  <2>6. z \in RecordRow /\ z.status = action /\ z.body = b
    BY <2>3, <2>5 DEF RecordRow
  <2> HIDE DEF z
  <2> QED BY <2>1, <2>3, <2>6
<1> QED BY <1>1, <1>2

\* The records that a command does not touch.
LEMMA RecordsWither ==
  ASSUME MemoryInv
  PROVE  /\ Withers(memory, memory) /\ Withers(shared, shared)
         /\ \A c \in Chats, t \in Topics : /\ memory[c][t] \in RecordRow /\ shared[c][t] \in RecordRow
                                           /\ memory[c][t].status = "none" => ~memory[c][t].body
                                           /\ shared[c][t].status = "none" => ~shared[c][t].body
  BY DEF MemoryInv, RecordTypes, ErasedIsEmpty, Withers

\* A topic ends in every chat.
LEMMA TopicEnds ==
  ASSUME NEW rows, Withers(rows, rows), NEW t \in Topics, NEW action \in {"DELETED", "REVOKED"},
         NEW next, next = [c \in Chats |-> [rows[c] EXCEPT ![t] = Ended(rows[c][t], action)]]
  PROVE  /\ Withers(rows, next)
         /\ action = "DELETED" => \A c \in Chats : ~next[c][t].body
<1>1. ASSUME NEW c \in Chats
      PROVE  /\ Ended(rows[c][t], action) \in RecordRow
             /\ Ended(rows[c][t], action).body => rows[c][t].body /\ action # "DELETED"
             /\ Ended(rows[c][t], action).status = "none" => ~Ended(rows[c][t], action).body
  BY EndedRow DEF Withers
<1>2. rows \in [Chats -> [Topics -> RecordRow]]
  BY DEF Withers
<1>3. \A c \in Chats : /\ next[c] \in [Topics -> RecordRow] /\ next[c][t] = Ended(rows[c][t], action)
                       /\ \A u \in Topics \ {t} : next[c][u] = rows[c][u]
  BY <1>1, <1>2
<1>4. next \in [Chats -> [Topics -> RecordRow]]
  BY <1>3
<1>5. ASSUME NEW c \in Chats, NEW u \in Topics
      PROVE  /\ next[c][u].body => rows[c][u].body
             /\ next[c][u].status = "none" => ~next[c][u].body
  <2>1. CASE u = t
    BY <1>1, <1>3, <2>1
  <2>2. CASE u # t
    <3>1. next[c][u] = rows[c][u]
      BY <1>3, <2>2
    <3> QED BY <3>1 DEF Withers
  <2> QED BY <2>1, <2>2
<1> QED BY <1>1, <1>3, <1>4, <1>5 DEF Withers

\* Every record of a chat ends.
LEMMA ChatEnds ==
  ASSUME NEW rows, Withers(rows, rows), NEW x \in Chats,
         NEW next, next = [rows EXCEPT ![x] = [t \in Topics |-> Ended(rows[x][t], "DELETED")]]
  PROVE  Withers(rows, next) /\ \A t \in Topics : ~next[x][t].body
<1>1. ASSUME NEW t \in Topics
      PROVE  /\ Ended(rows[x][t], "DELETED") \in RecordRow /\ ~Ended(rows[x][t], "DELETED").body
  <2>1. rows[x][t] \in RecordRow /\ (rows[x][t].status = "none" => ~rows[x][t].body)
    BY DEF Withers
  <2> QED BY <2>1, EndedRow
<1>2. rows \in [Chats -> [Topics -> RecordRow]]
  BY DEF Withers
<1>3. /\ next \in [Chats -> [Topics -> RecordRow]]
      /\ \A t \in Topics : next[x][t] = Ended(rows[x][t], "DELETED")
      /\ \A c \in Chats \ {x} : next[c] = rows[c]
  BY <1>1, <1>2
<1> QED BY <1>1, <1>3 DEF Withers

LEMMA SkippedIs ==
  ASSUME OperationTypes, NEW C, NEW refs, NEW drops \in BOOLEAN, formation' = Skipped(C, refs,
         drops)
  PROVE  /\ formation' \in [Chats -> OperationRow]
         /\ \A c \in Chats : formation'[c].state \in {formation[c].state, "SKIPPED_REVOKED"}
         /\ \A c \in Chats : c \in C => formation'[c].state \in {"none", "SKIPPED_REVOKED"}
<1>0. formation \in [Chats -> OperationRow]
  BY DEF OperationTypes
<1>1. formation' = [c \in Chats |-> formation'[c]]
  BY DEF Skipped
<1>2. ASSUME NEW c \in Chats
      PROVE  /\ formation'[c] \in OperationRow
             /\ formation'[c].state \in {formation[c].state, "SKIPPED_REVOKED"}
             /\ c \in C => formation'[c].state \in {"none", "SKIPPED_REVOKED"}
  <2> DEFINE b == formation[c].body /\ ~drops
             y == [formation[c] EXCEPT !.state = "SKIPPED_REVOKED"]
             z == [y EXCEPT !.body = b]
  <2>0. formation[c] \in OperationRow
    BY <1>0
  <2>1. b \in BOOLEAN
    BY <2>0 DEF OperationRow
  <2>2. formation'[c] = IF formation[c].state # "none" /\ (c \in C \/ talk[c].deps \cap refs # {})
                          THEN z ELSE formation[c]
    BY <2>0 DEF Skipped, OperationRow
  <2> HIDE DEF b
  <2>3. y \in OperationRow /\ y.state = "SKIPPED_REVOKED"
    BY <2>0, OperationRows
  <2> HIDE DEF y
  <2>4. z \in OperationRow /\ z.state = "SKIPPED_REVOKED"
    BY <2>1, <2>3, BodyRow
  <2> HIDE DEF z
  <2> QED BY <2>0, <2>2, <2>4
<1> QED BY <1>1, <1>2

\* The commands.
LEMMA MutateSteps ==
  ASSUME MemoryInv, NEW x \in Chats, NEW t \in Topics, NEW action \in {"DELETED", "REVOKED"},
         Mutate(x, t, action) \/ MutateShared(x, t, action)
  PROVE  MemoryInv'
<1> DEFINE C == {c \in Chats : Exists(memory[c][t])}
           D == {c \in Chats : Exists(shared[c][t])}
           drops == action = "DELETED"
<1>0. /\ OperationTypes /\ talk \in [Chats -> TalkRow] /\ project \in [epoch : Nat, granted : BOOLEAN]
      /\ Withers(memory, memory) /\ Withers(shared, shared)
  BY RecordsWither DEF MemoryInv, RunTypes
<1>1. UNCHANGED <<binding, execution, talk, project>>
  BY DEF Mutate, MutateShared
<1>2. shared' = [c \in Chats |-> [shared[c] EXCEPT ![t] = Ended(shared[c][t], action)]]
  BY DEF Mutate, MutateShared
<1>3. /\ Withers(shared, shared')
      /\ action = "DELETED" => \A c \in Chats : ~shared'[c][t].body
  BY <1>0, <1>2, TopicEnds
<1>4. CASE Mutate(x, t, action)
  <2> DEFINE E == IF drops THEN {<<x, t>>} ELSE {}
  <2>1. /\ memory' = [c \in Chats |-> [memory[c] EXCEPT ![t] = Ended(memory[c][t], action)]]
        /\ x \in C /\ suppressed' = suppressed \cup ({"USER", "SESSION"} \X C) \cup ({"PROJECT"} \X D)
        /\ formation' = Skipped(C, AnyVersion("MEMORY", t), drops)
        /\ forgotten' = forgotten \cup {x} /\ unshared' = unshared
        /\ erased' = erased \cup E
    BY <1>4 DEF Mutate
  <2>2. /\ Withers(memory, memory')
        /\ action = "DELETED" => \A c \in Chats : ~memory'[c][t].body
    BY <1>0, <2>1, TopicEnds
  <2>3. suppressed \subseteq suppressed' /\ <<"SESSION", x>> \in suppressed'
    BY <2>1
  <2>4. /\ formation' \in [Chats -> OperationRow]
        /\ \A c \in Chats : formation'[c].state \in {formation[c].state, "SKIPPED_REVOKED"}
        /\ formation'[x].state \in {"none", "SKIPPED_REVOKED"}
    <3> HIDE DEF C
    <3>1. drops \in BOOLEAN
      OBVIOUS
    <3> HIDE DEF drops
    <3> QED BY <1>0, <2>1, <3>1, SkippedIs
  <2>5. E \in SUBSET ({x} \X Topics)
    OBVIOUS
  <2>6. \A p \in E : ~memory'[p[1]][p[2]].body /\ ~shared'[p[1]][p[2]].body
    BY <1>3, <2>2
  <2> HIDE DEF C, D, drops, E
  <2>7. /\ forgotten \subseteq forgotten' /\ \A c \in Chats : talk'[c].deps = talk[c].deps
        /\ \A c \in forgotten' \ forgotten :
             /\ c \in Chats /\ <<"SESSION", c>> \in suppressed'
             /\ formation'[c].state \in {"none", "SKIPPED_REVOKED"}
        /\ \A c \in unshared' \ unshared : c \in Chats /\ <<"PROJECT", c>> \in suppressed'
    BY <1>1, <2>1, <2>3, <2>4
  <2>8. \A p \in erased' \ erased :
          /\ p \in forgotten' \X Topics
          /\ ~memory'[p[1]][p[2]].body /\ ~shared'[p[1]][p[2]].body
    BY <2>1, <2>5, <2>6
  <2>9. talk' \in [Chats -> TalkRow] /\ project' \in [epoch : Nat, granted : BOOLEAN]
    BY <1>0, <1>1
  <2> QED BY <1>1, <1>3, <2>2, <2>3, <2>4, <2>7, <2>8, <2>9, CommandMoves
<1>5. CASE MutateShared(x, t, action)
  <2>1. /\ UNCHANGED memory /\ x \in D /\ suppressed' = suppressed \cup ({"PROJECT"} \X D)
        /\ formation' = Skipped({}, AnyVersion("SHARED", t), drops)
        /\ forgotten' = forgotten /\ unshared' = unshared \cup {x} /\ erased' = erased
    BY <1>5 DEF MutateShared
  <2>2. Withers(memory, memory')
    BY <1>0, <2>1
  <2>3. suppressed \subseteq suppressed' /\ <<"PROJECT", x>> \in suppressed'
    BY <2>1
  <2>4. /\ formation' \in [Chats -> OperationRow]
        /\ \A c \in Chats : formation'[c].state \in {formation[c].state, "SKIPPED_REVOKED"}
    <3>1. drops \in BOOLEAN
      OBVIOUS
    <3> HIDE DEF drops
    <3> QED BY <1>0, <2>1, <3>1, SkippedIs
  <2> HIDE DEF C, D, drops
  <2>5. /\ forgotten \subseteq forgotten' /\ \A c \in Chats : talk'[c].deps = talk[c].deps
        /\ forgotten' \ forgotten = {} /\ erased' \ erased = {}
        /\ \A c \in unshared' \ unshared : c \in Chats /\ <<"PROJECT", c>> \in suppressed'
    BY <1>1, <2>1, <2>3
  <2>6. talk' \in [Chats -> TalkRow] /\ project' \in [epoch : Nat, granted : BOOLEAN]
    BY <1>0, <1>1
  <2> QED BY <1>1, <1>3, <2>2, <2>3, <2>4, <2>5, <2>6, CommandMoves
<1> QED BY <1>4, <1>5

LEMMA DeleteSteps ==
  ASSUME MemoryInv, NEW x \in Chats, DeleteExchange(x)
  PROVE  MemoryInv'
<1>0. /\ OperationTypes /\ talk \in [Chats -> TalkRow] /\ project \in [epoch : Nat, granted : BOOLEAN]
      /\ Withers(memory, memory) /\ Withers(shared, shared) /\ TRUE \in BOOLEAN
  BY RecordsWither DEF MemoryInv, RunTypes
<1> DEFINE row == [talk[x] EXCEPT !.status = "DELETED"]
<1>1. /\ UNCHANGED <<binding, execution, project, unshared>>
      /\ talk' = [talk EXCEPT ![x] = row]
      /\ memory' = [memory EXCEPT ![x] = [t \in Topics |-> Ended(memory[x][t], "DELETED")]]
      /\ shared' = [shared EXCEPT ![x] = [t \in Topics |-> Ended(shared[x][t], "DELETED")]]
      /\ suppressed \subseteq suppressed' /\ <<"SESSION", x>> \in suppressed'
      /\ formation' = Skipped({x}, {TalkRef(x)}, TRUE)
      /\ forgotten' = forgotten \cup {x} /\ erased' = erased \cup ({x} \X Topics)
  BY DEF DeleteExchange
<1>2. row \in TalkRow /\ row.deps = talk[x].deps
  BY <1>0 DEF TalkRow
<1> HIDE DEF row
<1>3. talk' \in [Chats -> TalkRow] /\ \A c \in Chats : talk'[c].deps = talk[c].deps
  BY <1>0, <1>1, <1>2
<1>4. Withers(memory, memory') /\ \A t \in Topics : ~memory'[x][t].body
  BY <1>0, <1>1, ChatEnds
<1>5. Withers(shared, shared') /\ \A t \in Topics : ~shared'[x][t].body
  BY <1>0, <1>1, ChatEnds
<1>6. /\ formation' \in [Chats -> OperationRow]
      /\ \A c \in Chats : formation'[c].state \in {formation[c].state, "SKIPPED_REVOKED"}
      /\ formation'[x].state \in {"none", "SKIPPED_REVOKED"}
  BY <1>0, <1>1, SkippedIs
<1>7. /\ forgotten \subseteq forgotten'
      /\ \A c \in forgotten' \ forgotten :
           /\ c \in Chats /\ <<"SESSION", c>> \in suppressed'
           /\ formation'[c].state \in {"none", "SKIPPED_REVOKED"}
      /\ \A c \in unshared' \ unshared : c \in Chats /\ <<"PROJECT", c>> \in suppressed'
  BY <1>1, <1>6
<1>8. \A p \in erased' \ erased : /\ p \in forgotten' \X Topics
                                  /\ ~memory'[p[1]][p[2]].body /\ ~shared'[p[1]][p[2]].body
  BY <1>1, <1>4, <1>5
<1>9. project' \in [epoch : Nat, granted : BOOLEAN]
  BY <1>0, <1>1
<1> QED BY <1>1, <1>3, <1>4, <1>5, <1>6, <1>7, <1>8, <1>9, CommandMoves

LEMMA RevokeSteps ==
  ASSUME MemoryInv, NEW x \in Chats, RevokeSource(x)
  PROVE  MemoryInv'
<1>0. /\ OperationTypes /\ talk \in [Chats -> TalkRow] /\ project \in [epoch : Nat, granted : BOOLEAN]
      /\ Withers(memory, memory) /\ Withers(shared, shared)
      /\ formation \in [Chats -> OperationRow] /\ formation[x] \in OperationRow
  BY RecordsWither DEF MemoryInv, RunTypes, OperationTypes
<1> DEFINE y == [formation[x] EXCEPT !.state = "SKIPPED_REVOKED"]
<1>1. /\ UNCHANGED <<binding, execution, project, talk, memory, shared, unshared, erased>>
      /\ suppressed \subseteq suppressed' /\ <<"SESSION", x>> \in suppressed'
      /\ forgotten' = forgotten \cup {x}
  BY DEF RevokeSource
<1>2. PICK b \in {FALSE, formation[x].body} : formation' = [formation EXCEPT ![x] = [y EXCEPT !.body = b]]
  BY DEF RevokeSource
<1>3. b \in BOOLEAN
  BY <1>0 DEF OperationRow
<1>4. y \in OperationRow /\ y.state = "SKIPPED_REVOKED"
  BY <1>0, OperationRows
<1> HIDE DEF y
<1>5. [y EXCEPT !.body = b] \in OperationRow /\ [y EXCEPT !.body = b].state = "SKIPPED_REVOKED"
  BY <1>3, <1>4, BodyRow
<1>6. /\ formation' \in [Chats -> OperationRow] /\ formation'[x].state = "SKIPPED_REVOKED"
      /\ \A c \in Chats : formation'[c].state \in {formation[c].state, "SKIPPED_REVOKED"}
  BY <1>0, <1>2, <1>5
<1>7. Withers(memory, memory') /\ Withers(shared, shared')
  BY <1>0, <1>1
<1>8. /\ forgotten \subseteq forgotten' /\ \A c \in Chats : talk'[c].deps = talk[c].deps
      /\ \A c \in forgotten' \ forgotten :
           /\ c \in Chats /\ <<"SESSION", c>> \in suppressed'
           /\ formation'[c].state \in {"none", "SKIPPED_REVOKED"}
      /\ unshared' \ unshared = {} /\ erased' \ erased = {}
  BY <1>1, <1>6
<1>9. talk' \in [Chats -> TalkRow] /\ project' \in [epoch : Nat, granted : BOOLEAN]
  BY <1>0, <1>1
<1> QED BY <1>1, <1>6, <1>7, <1>8, <1>9, CommandMoves

\* A record that may be promoted rests on an exchange that stands.
LEMMA PromoteSteps ==
  ASSUME MemoryInv, NEW x \in Chats, NEW t \in Topics, Promote(x, t)
  PROVE  MemoryInv'
<1>0. /\ RecordTypes /\ ForgottenIsSuppressed /\ ErasedIsEmpty
      /\ shared \in [Chats -> [Topics -> RecordRow]] /\ memory[x][t].version \in Nat
  BY DEF MemoryInv, RecordTypes, RecordRow
<1> DEFINE n == memory[x][t].version
           row == [status |-> "ACTIVE", version |-> 1, body |-> TRUE, from |-> n]
           inner == [shared[x] EXCEPT ![t] = row]
<1>1. /\ UNCHANGED <<binding, talk, formation, memory, suppressed, project, execution,
                     forgotten, unshared, erased>>
      /\ shared' = [shared EXCEPT ![x] = inner] /\ TalkStands(x)
  BY DEF Promote, Promotable, wishVars
<1>2. row \in RecordRow /\ row.status = "ACTIVE"
  <2> HIDE DEF n
  <2>1. n \in Nat
    BY <1>0 DEF n
  <2> QED BY <2>1 DEF RecordRow
<1> HIDE DEF row
<1>3. shared' \in [Chats -> [Topics -> RecordRow]]
  BY <1>0, <1>1, <1>2
<1>4. /\ shared'[x][t].status = "ACTIVE"
      /\ \A c \in Chats, u \in Topics : c # x \/ u # t => shared'[c][u] = shared[c][u]
  BY <1>0, <1>1, <1>2
<1>5. x \notin forgotten
  BY <1>0, <1>1, ForgottenFalls
<1>6. RecordTypes' /\ RunTypes' /\ OperationTypes'
  BY <1>1, <1>3 DEF MemoryInv, RecordTypes, RunTypes, OperationTypes
<1>7. RunsAreGrounded' /\ ForgottenIsSuppressed' /\ UnsharedIsSuppressed'
  BY <1>1 DEF MemoryInv, RunsAreGrounded, Grounded, TalkRef, ForgottenIsSuppressed,
              UnsharedIsSuppressed
<1>8. ErasedIsEmpty'
  <2>1. \A p \in erased : p[1] \in Chats /\ p[2] \in Topics /\ p[1] # x
    BY <1>0, <1>5 DEF ErasedIsEmpty, ForgottenIsSuppressed
  <2>2. \A p \in erased : ~memory'[p[1]][p[2]].body /\ ~shared'[p[1]][p[2]].body
    BY <1>0, <1>1, <1>4, <2>1 DEF ErasedIsEmpty
  <2>3. \A c \in Chats, u \in Topics : /\ memory'[c][u].status = "none" => ~memory'[c][u].body
                                       /\ shared'[c][u].status = "none" => ~shared'[c][u].body
    BY <1>0, <1>1, <1>4 DEF ErasedIsEmpty
  <2> QED BY <1>0, <1>1, <2>2, <2>3 DEF ErasedIsEmpty
<1> QED BY <1>6, <1>7, <1>8 DEF MemoryInv

\* The project is configured again, or a row expires.
LEMMA WorldSteps ==
  ASSUME MemoryInv,
         \/ \E granted \in BOOLEAN : ConfigureProject(granted)
         \/ \E row : Lapse(row)
         \/ UNCHANGED memoryVars
  PROVE  MemoryInv'
<1>0. /\ RunTypes /\ project \in [epoch : Nat, granted : BOOLEAN] /\ project.epoch \in Nat
  BY DEF MemoryInv, RunTypes
<1>1. UNCHANGED <<binding, talk, formation, memory, shared, suppressed, execution,
                  forgotten, unshared, erased>>
  BY DEF ConfigureProject, Lapse, rowVars, wishVars, memoryVars
<1>2. project' \in [epoch : Nat, granted : BOOLEAN]
  <2>1. CASE \E granted \in BOOLEAN : ConfigureProject(granted)
    <3> DEFINE n == project.epoch + 1
    <3>1. PICK granted \in BOOLEAN : project' = [epoch |-> n, granted |-> granted]
      BY <2>1 DEF ConfigureProject
    <3>2. n \in Nat
      BY <1>0
    <3> HIDE DEF n
    <3> QED BY <3>1, <3>2
  <2>2. CASE \E row : Lapse(row)
    BY <1>0, <2>2 DEF Lapse
  <2>3. CASE UNCHANGED memoryVars
    BY <1>0, <2>3 DEF memoryVars
  <2> QED BY <2>1, <2>2, <2>3
<1>3. RecordTypes' /\ RunTypes' /\ OperationTypes'
  BY <1>1, <1>2 DEF MemoryInv, RecordTypes, RunTypes, OperationTypes
<1>4. RunsAreGrounded' /\ ForgottenIsSuppressed' /\ UnsharedIsSuppressed' /\ ErasedIsEmpty'
  BY <1>1 DEF MemoryInv, RunsAreGrounded, Grounded, TalkRef, ForgottenIsSuppressed,
              UnsharedIsSuppressed, ErasedIsEmpty
<1> QED BY <1>3, <1>4 DEF MemoryInv

LEMMA MemoryStep == MemoryInv /\ [MemoryNext]_memoryVars => MemoryInv'
<1> SUFFICES ASSUME MemoryInv, [MemoryNext]_memoryVars PROVE MemoryInv'
  OBVIOUS
<1>1. CASE \E c \in Chats : LoadContext(c) \/ BindRun(c) \/ Guard(c) \/ AppendExchange(c)
  BY <1>1, RunSteps, AppendSteps
<1>2. CASE \E s \in Executions :
             \/ \E c \in Chats : PrepareFormation(s, c) \/ PrepareAgain(s, c)
             \/ Extract(s) \/ ExecutionEnds(s)
             \/ RestoreResponse(s) \/ SaveCandidates(s) \/ CommitCandidates(s)
  BY <1>2, PrepareSteps, ExecutionSteps, FormSteps
<1>3. CASE \E c \in Chats : DeleteExchange(c) \/ RevokeSource(c)
  BY <1>3, DeleteSteps, RevokeSteps
<1>4. CASE \E c \in Chats, t \in Topics :
             \/ \E action \in {"DELETED", "REVOKED"} :
                  Mutate(c, t, action) \/ MutateShared(c, t, action)
             \/ Promote(c, t)
  BY <1>4, MutateSteps, PromoteSteps
<1>5. CASE \/ \E granted \in BOOLEAN : ConfigureProject(granted)
           \/ \E row : Lapse(row)
           \/ UNCHANGED memoryVars
  BY <1>5, WorldSteps
<1> QED BY <1>1, <1>2, <1>3, <1>4, <1>5 DEF MemoryNext

\* What the user deleted or revoked stays gone: no scope shows it, nothing is
\* formed or promoted from it again, no run that was given it is admitted to use
\* it, and no body of what was deleted is left, for every number of chats,
\* topics and executions of form (mutate, delete_exchange, revoke_source, _suppress).
THEOREM ForgottenStaysGone == MemorySpec => []ForgottenIsGone
<1>1. MemoryInit => MemoryInv
  BY MemoryStarts
<1>2. MemoryInv /\ [MemoryNext]_memoryVars => MemoryInv'
  BY MemoryStep
<1>3. MemoryInv => ForgottenIsGone
  BY MemoryTruth
<1> QED BY <1>1, <1>2, <1>3, PTL DEF MemorySpec

-----------------------------------------------------------------------------
(* Guardian: the open cycle, its one piece of work and the remote.         *)

OpenCycle == {"READY", "RUNNING"}
GuardianOps == {"DISPATCH_VERSION", "RECONCILE_REMOTE", "POLL_REMOTE", "FETCH_TERMINAL_RESULT"}
WorkKeys == Versions \X GuardianOps \X Nat
WorkRow == [key : WorkKeys, owner : Workers \cup {NoWorker}, live : BOOLEAN, started : BOOLEAN]
RemoteStates == {"none", "RUNNING", "sealed", "COMPLETED", "CANCELLED"}
VersionRow ==
    [status : {"none", "PLANNED", "DISPATCHING", "ACTIVE"} \cup VersionTerminal,
     known : BOOLEAN, bound : BOOLEAN, seen : RemoteStates,
     submits : Nat, lookups : Nat, results : Nat]
OccupancyRow ==
    [cycle : 0..LastDay, hold : BOOLEAN, resume : 0..LastDay, resolved : SUBSET Versions]
StoreRow ==
    [cycles : [Days -> {"none"} \cup OpenCycle \cup CycleTerminal],
     versions : [Versions -> VersionRow], occupancy : OccupancyRow,
     works : SUBSET WorkRow, used : SUBSET WorkKeys]
GuardianAnswers ==
    {"uncertain", "rejected", "receipt", "error", "NOT_CREATED", "NOT_CREATED_FINAL", "FOUND"}
    \cup RemoteStates
TaskRow ==
    [pc : {"idle", "claimed", "calling", "answered"}, key : WorkKeys \cup {<<>>},
     op : GuardianOps \cup {"none"}, answer : GuardianAnswers \cup {"none"}]

\* The cycle is at version v: the ones before it are complete, the others wait.
Driven(x, v) ==
    /\ x.occupancy.cycle = v[1] /\ ~x.occupancy.hold
    /\ x.versions[v].status \in {"PLANNED", "DISPATCHING", "ACTIVE"}
    /\ \A u \in Versions : u[1] = v[1] =>
         /\ u[2] < v[2] => x.versions[u].status = "COMPLETED"
         /\ u[2] > v[2] => x.versions[u] = InStatus("PLANNED")

\* The row asks for what its version needs next: its number fits the version's
\* counters, and a result is asked for exactly after a complete summary.
AsksFor(x, r) ==
    LET a == x.versions[r.key[1]] IN
    /\ r.key[2] = "DISPATCH_VERSION" =>
         /\ r.key[3] < MaxSubmits /\ (r.started => a.submits = r.key[3] + 1)
         /\ ~r.started => a.submits = r.key[3] /\ a.known
    /\ r.key[2] = "RECONCILE_REMOTE" =>
         r.key[3] <= a.lookups /\ (r.started => r.key[3] < a.lookups)
    /\ r.key[2] = "FETCH_TERMINAL_RESULT" => r.key[3] <= a.results /\ a.seen = "COMPLETED"
    /\ r.key[2] # "FETCH_TERMINAL_RESULT" => a.seen \notin RemoteTerminal
    /\ r.key[2] \in {"POLL_REMOTE", "FETCH_TERMINAL_RESULT"} => a.known

\* The number of a completed piece of work will not come again.
Spent(x, k) ==
    /\ k[2] = "DISPATCH_VERSION" => k[3] < x.versions[k[1]].submits
    /\ k[2] = "RECONCILE_REMOTE" => k[3] < x.versions[k[1]].lookups
    /\ k[2] = "FETCH_TERMINAL_RESULT" => k[3] <= x.versions[k[1]].results
    /\ k[2] # "POLL_REMOTE"

OpenKeys(x) == {k \in x.used : x.versions[k[1]].status \notin VersionTerminal}

\* The environment belongs to the open cycle, or to one that is unresolved.
CyclesMatch(x) ==
    /\ \A d \in Days : x.cycles[d] \in OpenCycle <=> (x.occupancy.cycle = d /\ ~x.occupancy.hold)
    /\ x.occupancy.hold =>
         x.occupancy.cycle # 0 /\ x.cycles[x.occupancy.cycle] = "UNRESOLVED"

OneUnresolved(x) ==
    \A u, v \in Versions : u[1] = v[1] /\ x.versions[u].status = "UNRESOLVED"
                           /\ x.versions[v].status = "UNRESOLVED" => u = v

OneRow(x) ==
    IF x.occupancy.cycle # 0 /\ ~x.occupancy.hold
      THEN \E r \in x.works : x.works = {r} /\ Driven(x, r.key[1]) /\ AsksFor(x, r)
      ELSE x.works = {}

StoreInv(x) ==
    /\ x \in StoreRow /\ CyclesMatch(x) /\ OneUnresolved(x) /\ OneRow(x)
    /\ \A k \in OpenKeys(x) : Spent(x, k) /\ Driven(x, k[1])

\* A live claim is the one its worker works on, and what it asked fits the row.
TasksHoldRows ==
    /\ task \in [Workers -> TaskRow]
    /\ \A w \in Workers : task[w].pc # "idle" => task[w].key \in WorkKeys
    /\ \A w \in Workers : task[w].pc \in {"calling", "answered"} => task[w].op \in GuardianOps
    /\ \A r \in works : r.live =>
         /\ r.owner \in Workers /\ task[r.owner].pc # "idle" /\ task[r.owner].key = r.key
         /\ task[r.owner].pc # "claimed" =>
              /\ r.started
              /\ \/ task[r.owner].op = r.key[2]
                 \/ task[r.owner].op = "RECONCILE_REMOTE" /\ r.key[2] = "DISPATCH_VERSION"

\* What an answer says for good is still so when it is applied.
AnswerIsReal(t) ==
    /\ t.op = "DISPATCH_VERSION" => t.answer \in {"uncertain", "rejected", "receipt"}
    /\ t.op = "RECONCILE_REMOTE" =>
         /\ t.answer \in {"error", "NOT_CREATED", "NOT_CREATED_FINAL", "FOUND"}
         /\ t.answer = "NOT_CREATED_FINAL" => remote[t.key[1]] = "sealed"
    /\ t.op \in {"POLL_REMOTE", "FETCH_TERMINAL_RESULT"} =>
         /\ t.answer \in RemoteStates \cup {"error"}
         /\ t.answer \in RemoteTerminal => remote[t.key[1]] = t.answer

AnswersAreReal == \A w \in Workers : task[w].pc = "answered" => AnswerIsReal(task[w])

\* A request of the version has not arrived, and may never.
OnItsWay(v) == \E k \in flying : k[1] = v

\* The version runs on the provider, or may still come to.
MayRun(v) == remote[v] = "RUNNING" \/ (remote[v] = "none" /\ OnItsWay(v))

\* The first submit of a version, rejected to the worker that still holds the
\* row, leaves nothing behind that could run.
RejectedIsOver ==
    \A r \in works :
        r.live /\ task[r.owner].pc = "answered" /\ task[r.owner].op = "DISPATCH_VERSION"
        /\ task[r.owner].answer = "rejected" /\ r.key[3] = 0 => ~MayRun(r.key[1])

SeenIsReal(x) == \A v \in Versions : x.versions[v].seen = "COMPLETED" => remote[v] = "COMPLETED"

\* Every request and every execution comes from a submit that was counted.
CopiesFit(x) ==
    \A v \in Versions :
        /\ \A k \in flying : k[1] = v => k[3] \in Nat /\ k[3] < x.versions[v].submits
        /\ remote[v] \notin {"none", "sealed"} =>
             x.versions[v].submits > 0 /\ (OnItsWay(v) => x.versions[v].submits > 1)
        /\ x.versions[v].submits > 0 => x.cycles[v[1]] # "none"

\* GivenUp, of a store inside a transaction.
Excused(x, v) ==
    \/ x.versions[v].status = "DISPATCH_FAILED" /\ x.versions[v].submits > 1
    \/ /\ x.versions[v].status = "UNRESOLVED"
       /\ \E u \in x.occupancy.resolved : u # v /\ u[1] = v[1]

\* The version the cycle is at, or the one held as unresolved, may run.
Covers(x, v) ==
    /\ x.occupancy.cycle = v[1]
    /\ x.occupancy.hold => x.versions[v].status = "UNRESOLVED"
    /\ ~x.occupancy.hold => \E r \in x.works : r.key[1] = v

RemotesFit(x) ==
    /\ SeenIsReal(x) /\ CopiesFit(x)
    /\ \A v \in Versions : MayRun(v) => Covers(x, v) \/ Excused(x, v)

ProviderTypes ==
    /\ remote \in [Versions -> RemoteStates] /\ flying \subseteq WorkKeys
    /\ \A k \in flying : k[2] = "DISPATCH_VERSION"

GuardianInv ==
    /\ day \in 0..LastDay
    /\ StoreInv(Store) /\ OpenKeys(Store) = used
    /\ TasksHoldRows /\ AnswersAreReal /\ RejectedIsOver
    /\ ProviderTypes /\ RemotesFit(Store)

LEMMA VersionsAre ==
    /\ \A v \in Versions : /\ v = <<v[1], v[2]>> /\ v[1] \in Days /\ v[1] \in Nat \ {0}
                           /\ v[2] \in 1..PerCycle[v[1]] /\ v[2] \in Nat
    /\ \A d \in Days : PerCycle[d] \in Nat \ {0} /\ \A i \in 1..PerCycle[d] : <<d, i>> \in Versions
BY GuardianAssumption DEF Versions, Days

LEMMA GuardianStarts == GuardianInit => GuardianInv
<1> SUFFICES ASSUME GuardianInit PROVE GuardianInv
  OBVIOUS
<1> USE DEF GuardianInit
<1>1. Store \in StoreRow
  <2>1. InStatus("none") \in VersionRow
    BY DEF InStatus, VersionRow, RemoteStates
  <2>2. occupancy \in OccupancyRow
    BY GuardianAssumption DEF OccupancyRow
  <2> QED
    BY <2>1, <2>2 DEF Store, StoreRow
<1>2. StoreInv(Store) /\ OpenKeys(Store) = used
  BY <1>1, VersionsAre, GuardianAssumption
     DEF StoreInv, Store, CyclesMatch, OneUnresolved, OneRow, OpenKeys, OpenCycle, InStatus, Days
<1>3. TasksHoldRows /\ AnswersAreReal /\ RejectedIsOver
  BY DEF TasksHoldRows, AnswersAreReal, RejectedIsOver, TaskRow, NoTask
<1>4. ProviderTypes /\ RemotesFit(Store)
  BY <1>1 DEF ProviderTypes, RemotesFit, SeenIsReal, CopiesFit, MayRun, OnItsWay, RemoteStates,
              Store, InStatus
<1> QED
  BY <1>2, <1>3, <1>4, GuardianAssumption DEF GuardianInv

LEMMA StoreParts ==
    ASSUME NEW x \in StoreRow
    PROVE  /\ x.cycles \in [Days -> {"none"} \cup OpenCycle \cup CycleTerminal]
           /\ x.versions \in [Versions -> VersionRow] /\ x.occupancy \in OccupancyRow
           /\ x.works \subseteq WorkRow /\ x.used \subseteq WorkKeys
BY DEF StoreRow

LEMMA KeyParts ==
    ASSUME NEW k \in WorkKeys
    PROVE  /\ k = <<k[1], k[2], k[3]>> /\ k[1] \in Versions /\ k[2] \in GuardianOps /\ k[3] \in Nat
BY DEF WorkKeys

\* Only one version of the open cycle is driven.
LEMMA DrivenIsOne ==
    ASSUME NEW x, NEW u \in Versions, NEW v \in Versions, Driven(x, u), Driven(x, v)
    PROVE  u = v
<1>1. u[1] = v[1] /\ ~(u[2] < v[2]) /\ ~(v[2] < u[2])
  BY DEF Driven, VersionTerminal
<1> QED
  BY <1>1, VersionsAre

\* The store inside a transaction whose piece of work is done: version v is
\* driven and no row is left.
Bare(x, v) ==
    /\ x \in StoreRow /\ v \in Versions /\ x.works = {} /\ Driven(x, v)
    /\ CyclesMatch(x) /\ OneUnresolved(x)
    /\ \A k \in OpenKeys(x) : k[1] = v

AllSpent(x) == \A k \in OpenKeys(x) : Spent(x, k)

\* What the store says agrees with the provider when only v, and versions that
\* are given up, may run there.
Matches(x, v) ==
    SeenIsReal(x) /\ CopiesFit(x) /\ \A u \in Versions : MayRun(u) => u = v \/ Excused(x, u)

\* What a transaction leaves: a good store, unclaimed work, a covered provider.
SafeStore(y) == StoreInv(y) /\ RemotesFit(y) /\ \A r \in y.works : ~r.live

LEMMA SubmitsAre ==
    ASSUME NEW x \in StoreRow, NEW v \in Versions
    PROVE  x.versions[v] \in VersionRow /\ x.versions[v].submits \in Nat
BY StoreParts DEF VersionRow

\* Submits are only counted up, in a cycle that exists.
LEMMA CopiesStay ==
    ASSUME NEW x \in StoreRow, NEW y \in StoreRow, CopiesFit(x),
           \A u \in Versions : \/ y.versions[u].submits = x.versions[u].submits
                               \/ /\ y.versions[u].submits >= x.versions[u].submits
                                  /\ y.cycles[u[1]] # "none",
           \A d \in Days : x.cycles[d] # "none" => y.cycles[d] # "none"
    PROVE  CopiesFit(y)
<1> SUFFICES ASSUME NEW v \in Versions
             PROVE  /\ \A k \in flying : k[1] = v => k[3] \in Nat /\ k[3] < y.versions[v].submits
                    /\ remote[v] \notin {"none", "sealed"} =>
                         y.versions[v].submits > 0 /\ (OnItsWay(v) => y.versions[v].submits > 1)
                    /\ y.versions[v].submits > 0 => y.cycles[v[1]] # "none"
  BY DEF CopiesFit
<1>1. /\ v[1] \in Days /\ x.versions[v].submits \in Nat /\ y.versions[v].submits \in Nat
      /\ y.versions[v].submits >= x.versions[v].submits
  BY VersionsAre, SubmitsAre
<1> QED
  BY <1>1 DEF CopiesFit

LEMMA ExcusedStays ==
    ASSUME NEW x, NEW y, NEW u, Excused(x, u), y.versions[u] = x.versions[u],
           y.occupancy.resolved = x.occupancy.resolved
    PROVE  Excused(y, u)
BY DEF Excused

LEMMA EndedIs ==
    ASSUME NEW n \in Nat, NEW s \in VersionTerminal
    PROVE  /\ EndedAs(s, n) \in VersionRow /\ EndedAs(s, n).status = s
           /\ EndedAs(s, n).submits = n /\ EndedAs(s, n).seen = "none"
BY DEF EndedAs, InStatus, VersionRow, RemoteStates

LEMMA RowHolds ==
    ASSUME NEW x, NEW v, Bare(x, v), AllSpent(x), Matches(x, v),
           NEW r \in WorkRow, r.key[1] = v, AsksFor(x, r),
           NEW y \in StoreRow, y.works = {r}, y.cycles = x.cycles, y.versions = x.versions,
           y.occupancy = x.occupancy, y.used = x.used
    PROVE  StoreInv(y) /\ RemotesFit(y)
<1>1. Driven(y, v) /\ AsksFor(y, r) /\ CyclesMatch(y) /\ OneUnresolved(y)
  BY DEF Bare, Driven, AsksFor, CyclesMatch, OneUnresolved
<1>2. v \in Versions /\ v[1] # 0
  BY VersionsAre DEF Bare
<1>3. OneRow(y)
  BY <1>1, <1>2 DEF OneRow, Driven
<1>4. OpenKeys(y) = OpenKeys(x)
  BY DEF OpenKeys
<1>5. \A k \in OpenKeys(y) : Spent(y, k) /\ Driven(y, k[1])
  BY <1>1, <1>4 DEF AllSpent, Spent, Bare
<1>6. RemotesFit(y)
  <2>1. SeenIsReal(y) /\ CopiesFit(y)
    BY DEF Matches, SeenIsReal, CopiesFit
  <2>2. Covers(y, v)
    BY <1>1 DEF Covers, Driven
  <2> QED
    BY <2>1, <2>2, ExcusedStays DEF RemotesFit, Matches
<1> QED
  BY <1>1, <1>3, <1>5, <1>6 DEF StoreInv

LEMMA DueIs ==
    ASSUME NEW x \in StoreRow, x.works = {}, NEW v \in Versions, NEW op \in GuardianOps,
           NEW n \in Nat, <<v, op, n>> \notin x.used
    PROVE  LET r == [key |-> <<v, op, n>>, owner |-> NoWorker, live |-> FALSE, started |-> FALSE]
               y == Due(x, v, op, n)
           IN  /\ r \in WorkRow /\ y \in StoreRow /\ y.works = {r} /\ y.cycles = x.cycles
               /\ y.versions = x.versions /\ y.occupancy = x.occupancy /\ y.used = x.used
<1> DEFINE r == [key |-> <<v, op, n>>, owner |-> NoWorker, live |-> FALSE, started |-> FALSE]
<1> DEFINE y == Due(x, v, op, n)
<1>1. r \in WorkRow
  BY DEF WorkRow, WorkKeys
<1>2. y = [x EXCEPT !.works = {r}]
  BY DEF Due
<1> QED
  BY <1>1, <1>2 DEF StoreRow

LEMMA FreshKey ==
    ASSUME NEW x, NEW v, Bare(x, v), AllSpent(x), NEW op, NEW n, ~Spent(x, <<v, op, n>>)
    PROVE  <<v, op, n>> \notin x.used
<1> SUFFICES ASSUME <<v, op, n>> \in x.used PROVE FALSE
  OBVIOUS
<1>1. x.versions[v].status \notin VersionTerminal
  BY DEF Bare, Driven, VersionTerminal
<1>2. <<v, op, n>> \in OpenKeys(x)
  BY <1>1 DEF OpenKeys
<1> QED
  BY <1>2 DEF AllSpent

\* _due after a transaction's row is completed.
LEMMA DueHolds ==
    ASSUME NEW x, NEW v, Bare(x, v), AllSpent(x), Matches(x, v),
           NEW op \in GuardianOps, NEW n \in Nat, <<v, op, n>> \notin x.used,
           AsksFor(x, [key |-> <<v, op, n>>, owner |-> NoWorker, live |-> FALSE, started |-> FALSE])
    PROVE  SafeStore(Due(x, v, op, n))
<1> DEFINE r == [key |-> <<v, op, n>>, owner |-> NoWorker, live |-> FALSE, started |-> FALSE]
<1> DEFINE y == Due(x, v, op, n)
<1>1. x \in StoreRow /\ v \in Versions /\ x.works = {}
  BY DEF Bare
<1>3. /\ r \in WorkRow /\ y \in StoreRow /\ y.works = {r} /\ y.cycles = x.cycles
      /\ y.versions = x.versions /\ y.occupancy = x.occupancy /\ y.used = x.used
  BY <1>1, DueIs
<1>4. r.key[1] = v /\ ~r.live /\ AsksFor(x, r)
  OBVIOUS
<1> HIDE DEF r, y
<1>5. StoreInv(y) /\ RemotesFit(y)
  BY <1>3, <1>4, RowHolds
<1> QED
  BY <1>3, <1>4, <1>5 DEF SafeStore, y

LEMMA StopIs ==
    ASSUME NEW x \in StoreRow, NEW v \in Versions, NEW status \in VersionTerminal, NEW hold \in BOOLEAN
    PROVE  LET y == Stop(x, v, status, hold) IN
           /\ y \in StoreRow /\ y.works = x.works /\ y.used = x.used
           /\ y.versions = [u \in Versions |->
                 IF u = v THEN EndedAs(status, x.versions[v].submits)
                 ELSE IF u[1] = v[1] /\ x.versions[u].status = "PLANNED"
                        THEN InStatus("SKIPPED") ELSE x.versions[u]]
           /\ y.cycles = [x.cycles EXCEPT ![v[1]] =
                 IF status \in {"UNRESOLVED", "CANCELLED"} THEN status ELSE "FAILED"]
           /\ y.occupancy = IF hold THEN [x.occupancy EXCEPT !.hold = TRUE]
                            ELSE IF x.occupancy.cycle = v[1] THEN [x.occupancy EXCEPT !.cycle = 0]
                            ELSE x.occupancy
<1> DEFINE vs == [u \in Versions |->
                 IF u = v THEN EndedAs(status, x.versions[v].submits)
                 ELSE IF u[1] = v[1] /\ x.versions[u].status = "PLANNED"
                        THEN InStatus("SKIPPED") ELSE x.versions[u]]
<1> DEFINE cs == [x.cycles EXCEPT ![v[1]] =
                 IF status \in {"UNRESOLVED", "CANCELLED"} THEN status ELSE "FAILED"]
<1> DEFINE oc == IF hold THEN [x.occupancy EXCEPT !.hold = TRUE]
                 ELSE IF x.occupancy.cycle = v[1] THEN [x.occupancy EXCEPT !.cycle = 0]
                 ELSE x.occupancy
<1> DEFINE y == Stop(x, v, status, hold)
<1>1. y = [x EXCEPT !.versions = vs, !.cycles = cs, !.occupancy = oc]
  BY DEF Stop, StoreRow
<1>2. vs \in [Versions -> VersionRow]
  <2>1. InStatus("SKIPPED") \in VersionRow
    BY DEF InStatus, VersionRow, RemoteStates, VersionTerminal
  <2>2. EndedAs(status, x.versions[v].submits) \in VersionRow
    BY EndedIs, SubmitsAre
  <2> QED
    BY <2>1, <2>2, StoreParts
<1>3. cs \in [Days -> {"none"} \cup OpenCycle \cup CycleTerminal]
  BY StoreParts, VersionsAre DEF CycleTerminal
<1>4. oc \in OccupancyRow
  <2>1. x.occupancy \in OccupancyRow /\ 0 \in 0..LastDay
    BY StoreParts, GuardianAssumption
  <2>2. /\ [x.occupancy EXCEPT !.hold = TRUE] \in OccupancyRow
        /\ [x.occupancy EXCEPT !.cycle = 0] \in OccupancyRow
    BY <2>1 DEF OccupancyRow
  <2> QED
    BY <2>1, <2>2
<1> HIDE DEF vs, cs, oc, y
<1>5. y \in StoreRow /\ y.works = x.works /\ y.used = x.used /\ y.versions = vs /\ y.cycles = cs
      /\ y.occupancy = oc
  BY <1>1, <1>2, <1>3, <1>4 DEF StoreRow
<1> QED
  BY <1>5 DEF vs, cs, oc, y

LEMMA StopHolds ==
    ASSUME NEW x, NEW v, Bare(x, v), Matches(x, v), NEW status \in VersionTerminal,
           NEW hold \in BOOLEAN, hold <=> status = "UNRESOLVED",
           \/ hold \/ ~MayRun(v)
           \/ status = "DISPATCH_FAILED" /\ x.versions[v].submits > 1
    PROVE  SafeStore(Stop(x, v, status, hold))
<1> DEFINE y == Stop(x, v, status, hold)
<1>1. x \in StoreRow /\ v \in Versions
  BY DEF Bare
<1>2. /\ y \in StoreRow /\ y.works = x.works /\ y.used = x.used
      /\ y.versions = [u \in Versions |->
            IF u = v THEN EndedAs(status, x.versions[v].submits)
            ELSE IF u[1] = v[1] /\ x.versions[u].status = "PLANNED"
                   THEN InStatus("SKIPPED") ELSE x.versions[u]]
      /\ y.cycles = [x.cycles EXCEPT ![v[1]] =
            IF status \in {"UNRESOLVED", "CANCELLED"} THEN status ELSE "FAILED"]
      /\ y.occupancy = IF hold THEN [x.occupancy EXCEPT !.hold = TRUE]
                       ELSE IF x.occupancy.cycle = v[1] THEN [x.occupancy EXCEPT !.cycle = 0]
                       ELSE x.occupancy
  BY <1>1, StopIs
<1> HIDE DEF y
<1>3. /\ v[1] \in Days /\ v[1] # 0 /\ x.occupancy.cycle = v[1] /\ ~x.occupancy.hold
      /\ x.occupancy \in OccupancyRow /\ x.cycles \in [Days -> {"none"} \cup OpenCycle \cup CycleTerminal]
  BY <1>1, StoreParts, VersionsAre DEF Bare, Driven
<1>4. /\ y.occupancy.cycle = IF hold THEN v[1] ELSE 0
      /\ y.occupancy.hold = hold /\ y.occupancy.resolved = x.occupancy.resolved
  BY <1>2, <1>3 DEF OccupancyRow
<1>5. /\ \A d \in Days : d # v[1] => y.cycles[d] = x.cycles[d] /\ d # 0
      /\ y.cycles[v[1]] \notin OpenCycle /\ (hold => y.cycles[v[1]] = "UNRESOLVED")
  <2>1. \A d \in Days : d # 0
    BY GuardianAssumption DEF Days
  <2>2. y.cycles[v[1]] = IF status \in {"UNRESOLVED", "CANCELLED"} THEN status ELSE "FAILED"
    BY <1>2, <1>3
  <2>3. \A d \in Days : d # v[1] => y.cycles[d] = x.cycles[d]
    BY <1>2, <1>3
  <2> QED
    BY <2>1, <2>2, <2>3 DEF OpenCycle
<1>6. CyclesMatch(y)
  <2>1. \A d \in Days : y.cycles[d] \notin OpenCycle
    BY <1>3, <1>5 DEF Bare, CyclesMatch
  <2> QED
    BY <2>1, <1>3, <1>4, <1>5 DEF CyclesMatch, Days
<1>7. /\ y.versions[v].status = status /\ y.versions[v].submits = x.versions[v].submits
      /\ \A u \in Versions : u # v /\ u[1] = v[1] =>
            y.versions[u] = x.versions[u] \/ x.versions[u] = InStatus("PLANNED")
      /\ \A u \in Versions : u # v /\ u[1] = v[1] =>
            y.versions[u].status \in VersionTerminal \ {"UNRESOLVED"}
      /\ \A u \in Versions : u[1] # v[1] => y.versions[u] = x.versions[u]
  <2>1. \A u \in Versions : u # v /\ u[1] = v[1] => u[2] < v[2] \/ u[2] > v[2]
    BY <1>1, VersionsAre
  <2>2. \A u \in Versions : u # v /\ u[1] = v[1] =>
            x.versions[u].status = "COMPLETED" \/ x.versions[u] = InStatus("PLANNED")
    BY <2>1 DEF Bare, Driven
  <2>3. y.versions[v].status = status /\ y.versions[v].submits = x.versions[v].submits
    BY <1>1, <1>2, EndedIs, SubmitsAre
  <2>4. /\ \A u \in Versions : u # v /\ u[1] = v[1] =>
               IF x.versions[u].status = "PLANNED" THEN y.versions[u] = InStatus("SKIPPED")
               ELSE y.versions[u] = x.versions[u]
        /\ \A u \in Versions : u[1] # v[1] => y.versions[u] = x.versions[u]
    BY <1>1, <1>2
  <2> QED
    BY <2>2, <2>3, <2>4 DEF InStatus, VersionTerminal
<1>12. \A u \in Versions : y.versions[u].submits = x.versions[u].submits
  BY <1>1, <1>2, <1>7 DEF InStatus
<1>8. OneUnresolved(y)
  BY <1>1, <1>7 DEF OneUnresolved, Bare
<1>9. y.works = {} /\ OneRow(y)
  BY <1>2, <1>4 DEF OneRow, Bare
<1>10. OpenKeys(y) = {}
  <2> SUFFICES ASSUME NEW k \in y.used, y.versions[k[1]].status \notin VersionTerminal PROVE FALSE
    BY DEF OpenKeys
  <2>1. k \in x.used /\ k[1] \in Versions
    BY <1>1, <1>2, StoreParts, KeyParts
  <2>2. k[1] # v
    BY <1>7
  <2>3. k[1][1] # v[1] /\ y.versions[k[1]] = x.versions[k[1]]
    BY <1>7, <2>1, <2>2
  <2>4. k \in OpenKeys(x)
    BY <2>1, <2>3 DEF OpenKeys
  <2> QED
    BY <2>2, <2>4 DEF Bare
<1>11. RemotesFit(y)
  <2>1. SeenIsReal(y)
    <3>1. EndedAs(status, x.versions[v].submits).seen = "none"
      BY <1>1, EndedIs, SubmitsAre
    <3> QED
      BY <1>1, <1>2, <3>1 DEF SeenIsReal, Matches, InStatus
  <2>2. CopiesFit(y)
    <3>1. y.cycles[v[1]] # "none"
      BY <1>2, <1>3 DEF VersionTerminal
    <3> QED
      BY <1>1, <1>2, <1>5, <1>12, <3>1, CopiesStay DEF Matches
  <2>3. ASSUME NEW u \in Versions, MayRun(u), u # v
        PROVE  Excused(y, u)
    <3>1. Excused(x, u)
      BY <2>3 DEF Matches
    <3>2. x.versions[u] # InStatus("PLANNED")
      BY <3>1 DEF Excused, InStatus
    <3> QED
      BY <1>4, <1>7, <2>3, <3>1, <3>2, ExcusedStays
  <2>4. MayRun(v) => Covers(y, v) \/ Excused(y, v)
    BY <1>3, <1>4, <1>7 DEF Covers, Excused
  <2> QED
    BY <2>1, <2>2, <2>3, <2>4 DEF RemotesFit
<1> QED
  BY <1>2, <1>6, <1>8, <1>9, <1>10, <1>11 DEF SafeStore, StoreInv, y

\* Changing counters and flags of the version that is driven.
With(x, v, a) == [x EXCEPT !.versions[v] = a]

LEMMA BareChanges ==
    ASSUME NEW x, NEW v, Bare(x, v), Matches(x, v), NEW a \in VersionRow,
           a.status \in {"PLANNED", "DISPATCHING", "ACTIVE"},
           a.seen = "COMPLETED" => remote[v] = "COMPLETED", a.submits >= x.versions[v].submits
    PROVE  /\ Bare(With(x, v, a), v) /\ Matches(With(x, v, a), v)
           /\ With(x, v, a).versions[v] = a /\ With(x, v, a).used = x.used
           /\ (/\ AllSpent(x)
               /\ a.lookups >= x.versions[v].lookups /\ a.results >= x.versions[v].results)
              => AllSpent(With(x, v, a))
<1> DEFINE y == With(x, v, a)
<1>1. x \in StoreRow /\ v \in Versions /\ x.versions \in [Versions -> VersionRow]
  BY StoreParts DEF Bare
<1>2. /\ y \in StoreRow /\ y.works = x.works /\ y.used = x.used /\ y.cycles = x.cycles
      /\ y.occupancy = x.occupancy /\ y.versions = [x.versions EXCEPT ![v] = a]
  BY <1>1 DEF StoreRow, With
<1> HIDE DEF y
<1>3. y.versions[v] = a /\ \A u \in Versions : u # v => y.versions[u] = x.versions[u]
  BY <1>1, <1>2
<1>4. Driven(y, v) /\ CyclesMatch(y)
  BY <1>2, <1>3, <1>1, VersionsAre DEF Bare, Driven, CyclesMatch
<1>5. OneUnresolved(y)
  BY <1>3, <1>1 DEF Bare, OneUnresolved
<1>6. \A k \in OpenKeys(y) : k[1] = v /\ k \in OpenKeys(x)
  <2> SUFFICES ASSUME NEW k \in y.used, y.versions[k[1]].status \notin VersionTerminal
               PROVE  k[1] = v /\ k \in OpenKeys(x)
    BY DEF OpenKeys
  <2>1. k \in x.used /\ k[1] \in Versions
    BY <1>1, <1>2, StoreParts, KeyParts
  <2>2. x.versions[v].status \notin VersionTerminal
    BY DEF Bare, Driven, VersionTerminal
  <2>3. k \in OpenKeys(x)
    BY <1>3, <2>1, <2>2 DEF OpenKeys
  <2> QED
    BY <2>3 DEF Bare
<1>7. Matches(y, v)
  <2>1. SeenIsReal(y)
    BY <1>1, <1>3 DEF Matches, SeenIsReal
  <2>2. CopiesFit(y)
    <3>1. v[1] \in Days /\ y.cycles[v[1]] # "none"
      BY <1>1, <1>2, VersionsAre DEF Bare, Driven, CyclesMatch, OpenCycle
    <3> QED
      BY <1>1, <1>2, <1>3, <3>1, CopiesStay DEF Matches
  <2>3. \A u \in Versions : MayRun(u) => u = v \/ Excused(y, u)
    BY <1>2, <1>3, ExcusedStays DEF Matches
  <2> QED
    BY <2>1, <2>2, <2>3 DEF Matches
<1>8. ASSUME AllSpent(x),
             a.lookups >= x.versions[v].lookups, a.results >= x.versions[v].results
      PROVE  AllSpent(y)
  <2> SUFFICES ASSUME NEW k \in OpenKeys(y) PROVE Spent(y, k)
    BY DEF AllSpent
  <2>1. k[1] = v /\ Spent(x, k) /\ k[3] \in Nat
    BY <1>6, <1>8, <1>1, StoreParts, KeyParts DEF AllSpent, OpenKeys
  <2>2. x.versions[v] \in VersionRow
    BY <1>1
  <2> QED
    BY <1>3, <1>8, <2>1, <2>2 DEF Spent, VersionRow
<1> QED
  BY <1>1, <1>2, <1>3, <1>4, <1>5, <1>6, <1>7, <1>8 DEF Bare, y

\* _progress after the version has completed.
LEMMA ProgressHolds ==
    ASSUME NEW x, NEW v, Bare(x, v), Matches(x, v), ~MayRun(v)
    PROVE  SafeStore(Progress([x EXCEPT !.versions[v] =
                                   EndedAs("COMPLETED", x.versions[v].submits)], v))
<1> DEFINE done == EndedAs("COMPLETED", x.versions[v].submits)
<1> DEFINE y == [x EXCEPT !.versions[v] = done]
<1> DEFINE next == <<v[1], v[2] + 1>>
<1>1. /\ x \in StoreRow /\ v \in Versions /\ x.versions \in [Versions -> VersionRow]
      /\ v = <<v[1], v[2]>> /\ v[1] \in Days /\ v[1] # 0 /\ v[2] \in Nat
  BY StoreParts, VersionsAre DEF Bare
<1>2. /\ done \in VersionRow /\ done.status = "COMPLETED" /\ done.seen = "none"
      /\ done.submits = x.versions[v].submits
  BY <1>1, EndedIs, SubmitsAre DEF VersionTerminal
<1> HIDE DEF done
<1>3. /\ y \in StoreRow /\ y.works = {} /\ y.used = x.used /\ y.cycles = x.cycles
      /\ y.occupancy = x.occupancy /\ y.versions = [x.versions EXCEPT ![v] = done]
  BY <1>1, <1>2 DEF StoreRow, Bare
<1>4. y.versions[v] = done /\ \A u \in Versions : u # v => y.versions[u] = x.versions[u]
  BY <1>1, <1>3
<1> HIDE DEF y
<1>5. y.occupancy.cycle = v[1] /\ ~y.occupancy.hold /\ y.occupancy \in OccupancyRow
  BY <1>3, StoreParts DEF Bare, Driven
<1>6. OneUnresolved(y)
  BY <1>1, <1>2, <1>4 DEF OneUnresolved, Bare
<1>7. OpenKeys(y) = {}
  <2> SUFFICES ASSUME NEW k \in y.used, y.versions[k[1]].status \notin VersionTerminal PROVE FALSE
    BY DEF OpenKeys
  <2>1. k \in x.used /\ k[1] \in Versions /\ k[1] # v
    BY <1>1, <1>2, <1>3, <1>4, StoreParts, KeyParts DEF VersionTerminal
  <2>2. k \in OpenKeys(x)
    BY <1>4, <2>1 DEF OpenKeys
  <2> QED
    BY <2>1, <2>2 DEF Bare
<1>8. SeenIsReal(y) /\ CopiesFit(y) /\ \A u \in Versions : MayRun(u) => Excused(y, u)
  <2>1. SeenIsReal(y)
    BY <1>2, <1>4 DEF Matches, SeenIsReal
  <2>2. CopiesFit(y)
    BY <1>1, <1>2, <1>3, <1>4, CopiesStay DEF Matches
  <2>3. \A u \in Versions : MayRun(u) => Excused(y, u)
    BY <1>3, <1>4, ExcusedStays DEF Matches
  <2> QED
    BY <2>1, <2>2, <2>3
<1>9. CASE next \in Versions
  <2>1. y.versions[next] = InStatus("PLANNED")
    BY <1>1, <1>4, <1>9 DEF Bare, Driven
  <2>2. Driven(y, next)
    <3> SUFFICES ASSUME NEW u \in Versions, u[1] = v[1]
                 PROVE  /\ u[2] < v[2] + 1 => y.versions[u].status = "COMPLETED"
                        /\ u[2] > v[2] + 1 => y.versions[u] = InStatus("PLANNED")
      BY <1>5, <2>1 DEF Driven, InStatus
    <3>1. u = <<u[1], u[2]>> /\ u[2] \in Nat
      BY VersionsAre
    <3>2. CASE u = v
      BY <3>2, <1>1, <1>2, <1>4
    <3>3. CASE u # v
      <4>1. u[2] # v[2]
        BY <1>1, <3>1, <3>3
      <4> QED
        BY <1>1, <1>4, <3>1, <3>3, <4>1 DEF Bare, Driven
    <3> QED
      BY <3>2, <3>3
  <2>3. CyclesMatch(y)
    BY <1>3 DEF Bare, CyclesMatch
  <2>4. Bare(y, next) /\ AllSpent(y) /\ Matches(y, next)
    BY <1>3, <1>6, <1>7, <1>8, <1>9, <2>2, <2>3 DEF Bare, AllSpent, Matches
  <2>5. <<next, "DISPATCH_VERSION", 0>> \notin y.used
    BY <2>1, <2>4, FreshKey DEF Spent, InStatus
  <2>6. AsksFor(y, [key |-> <<next, "DISPATCH_VERSION", 0>>, owner |-> NoWorker, live |-> FALSE,
                    started |-> FALSE])
    BY <2>1, GuardianAssumption DEF AsksFor, InStatus, RemoteTerminal
  <2>7. SafeStore(Due(y, next, "DISPATCH_VERSION", 0))
    BY <2>4, <2>5, <2>6, DueHolds DEF GuardianOps
  <2>8. Progress(y, v) = Due(y, next, "DISPATCH_VERSION", 0)
    BY <1>9, <2>1 DEF Progress, InStatus
  <2> QED
    BY <2>7, <2>8 DEF y, done
<1>10. CASE next \notin Versions
  <2> DEFINE cs == [y.cycles EXCEPT ![v[1]] = "SUCCEEDED"]
  <2> DEFINE oc == [y.occupancy EXCEPT !.cycle = 0]
  <2> DEFINE z == Progress(y, v)
  <2>1. z = [y EXCEPT !.cycles = cs, !.occupancy = oc]
    BY <1>3, <1>5, <1>10 DEF Progress, StoreRow
  <2>2. cs \in [Days -> {"none"} \cup OpenCycle \cup CycleTerminal]
    BY <1>1, <1>3, StoreParts DEF CycleTerminal
  <2>3. oc \in OccupancyRow /\ oc.cycle = 0 /\ ~oc.hold
    BY <1>5, GuardianAssumption, SMTT(40) DEF OccupancyRow
  <2>4. \A d \in Days : cs[d] \notin OpenCycle /\ d # 0
    <3>1. \A d \in Days : d # 0
      BY GuardianAssumption DEF Days
    <3>2. cs[v[1]] = "SUCCEEDED" /\ \A d \in Days : d # v[1] => cs[d] = x.cycles[d]
      BY <1>1, <1>3, StoreParts
    <3>3. \A d \in Days : d # v[1] => x.cycles[d] \notin OpenCycle
      BY DEF Bare, CyclesMatch, Driven
    <3> QED
      BY <3>1, <3>2, <3>3 DEF OpenCycle
  <2> HIDE DEF cs, oc, z
  <2>5. /\ z \in StoreRow /\ z.works = {} /\ z.used = y.used /\ z.cycles = cs
        /\ z.occupancy = oc /\ z.versions = y.versions
    BY <1>3, <2>1, <2>2, <2>3 DEF StoreRow
  <2>6. CyclesMatch(z) /\ OneUnresolved(z) /\ OneRow(z) /\ OpenKeys(z) = {}
    BY <1>6, <1>7, <2>3, <2>4, <2>5 DEF CyclesMatch, OneUnresolved, OneRow, OpenKeys
  <2>7. RemotesFit(z)
    <3>1. SeenIsReal(z)
      BY <1>8, <2>5 DEF SeenIsReal
    <3>2. cs[v[1]] = "SUCCEEDED" /\ \A d \in Days : d # v[1] => cs[d] = y.cycles[d]
      BY <1>1, <1>3, StoreParts DEF cs
    <3>3. CopiesFit(z)
      BY <1>3, <1>8, <2>5, <3>2, CopiesStay
    <3>4. z.occupancy.resolved = y.occupancy.resolved
      BY <1>5, <2>5 DEF oc, OccupancyRow
    <3> QED
      BY <1>8, <2>5, <3>1, <3>3, <3>4, ExcusedStays DEF RemotesFit
  <2> QED
    BY <2>5, <2>6, <2>7 DEF SafeStore, StoreInv, z, y, done
<1> QED
  BY <1>9, <1>10

LEMMA LateIs == \A d : Late(d) \in BOOLEAN
BY DEF Late

\* _reconcile_due
LEMMA ReconcileHolds ==
    ASSUME NEW x, NEW v, Bare(x, v), AllSpent(x), Matches(x, v),
           x.versions[v].seen \notin RemoteTerminal, NEW passed \in BOOLEAN
    PROVE  SafeStore(ReconcileDue(x, v, passed))
<1>1. x.versions[v] \in VersionRow
  BY StoreParts DEF Bare
<1>2. CASE Expired(x, v, passed)
  BY <1>2, StopHolds DEF ReconcileDue, VersionTerminal
<1>3. CASE ~Expired(x, v, passed)
  <2>1. x.versions[v].lookups \in Nat
    BY <1>1 DEF VersionRow
  <2>2. <<v, "RECONCILE_REMOTE", x.versions[v].lookups>> \notin x.used
    BY <2>1, FreshKey DEF Spent
  <2>3. AsksFor(x, [key |-> <<v, "RECONCILE_REMOTE", x.versions[v].lookups>>, owner |-> NoWorker,
                    live |-> FALSE, started |-> FALSE])
    BY <2>1 DEF AsksFor
  <2>4. SafeStore(Due(x, v, "RECONCILE_REMOTE", x.versions[v].lookups))
    BY <2>1, <2>2, <2>3, DueHolds DEF GuardianOps
  <2> QED
    BY <1>3, <2>4 DEF ReconcileDue
<1> QED
  BY <1>2, <1>3

\* _poll_due
LEMMA PollHolds ==
    ASSUME NEW x, NEW v, Bare(x, v), AllSpent(x), Matches(x, v),
           x.versions[v].seen \notin RemoteTerminal, x.versions[v].known
    PROVE  SafeStore(PollDue(x, v))
<1>1. <<v, "POLL_REMOTE", 0>> \notin x.used
  BY FreshKey DEF Spent
<1>2. AsksFor(x, [key |-> <<v, "POLL_REMOTE", 0>>, owner |-> NoWorker, live |-> FALSE,
                  started |-> FALSE])
  BY DEF AsksFor
<1> QED
  BY <1>1, <1>2, DueHolds DEF PollDue, GuardianOps

\* _result_retry
LEMMA RetryHolds ==
    ASSUME NEW x, NEW v, Bare(x, v), AllSpent(x), Matches(x, v),
           x.versions[v].seen = "COMPLETED", x.versions[v].known
    PROVE  SafeStore(ResultRetry(x, v))
<1>1. /\ x \in StoreRow /\ v \in Versions /\ x.versions[v] \in VersionRow
      /\ x.versions \in [Versions -> VersionRow]
  BY StoreParts DEF Bare
<1>2. remote[v] = "COMPLETED" /\ ~MayRun(v)
  BY <1>1 DEF Matches, SeenIsReal, MayRun
<1>3. CASE x.versions[v].results >= MaxResults \/ Late(v[1])
  BY <1>2, <1>3, StopHolds DEF ResultRetry, VersionTerminal
<1>4. CASE ~(x.versions[v].results >= MaxResults \/ Late(v[1]))
  <2> DEFINE n == x.versions[v].results + 1
  <2> DEFINE a == [x.versions[v] EXCEPT !.results = n]
  <2> DEFINE y == With(x, v, a)
  <2>1. /\ a \in VersionRow /\ a.status = x.versions[v].status /\ a.seen = "COMPLETED" /\ a.known
        /\ n \in Nat /\ a.results = n /\ n >= x.versions[v].results
        /\ a.submits >= x.versions[v].submits /\ a.lookups >= x.versions[v].lookups
    BY <1>1 DEF VersionRow
  <2>2. ResultRetry(x, v) = Due(y, v, "FETCH_TERMINAL_RESULT", n)
    BY <1>4, <1>1 DEF ResultRetry, StoreRow, With
  <2>3. a.status \in {"PLANNED", "DISPATCHING", "ACTIVE"}
    BY <2>1 DEF Bare, Driven
  <2> HIDE DEF a
  <2>4. Bare(y, v) /\ Matches(y, v) /\ y.versions[v] = a /\ AllSpent(y) /\ y.used = x.used
    BY <1>2, <2>1, <2>3, BareChanges
  <2> HIDE DEF n, y
  <2>5. <<v, "FETCH_TERMINAL_RESULT", n>> \notin y.used
    <3>1. ~Spent(x, <<v, "FETCH_TERMINAL_RESULT", n>>)
      BY <1>1 DEF Spent, n, VersionRow
    <3> QED
      BY <2>4, <3>1, FreshKey
  <2>6. AsksFor(y, [key |-> <<v, "FETCH_TERMINAL_RESULT", n>>, owner |-> NoWorker, live |-> FALSE,
                    started |-> FALSE])
    BY <2>1, <2>4 DEF AsksFor
  <2> QED
    BY <2>1, <2>2, <2>4, <2>5, <2>6, DueHolds DEF GuardianOps
<1> QED
  BY <1>3, <1>4

\* _bind of a version whose end nobody has seen
LEMMA BindHolds ==
    ASSUME NEW x, NEW v, Bare(x, v), AllSpent(x), Matches(x, v),
           x.versions[v].seen \notin RemoteTerminal
    PROVE  SafeStore(Bind(x, v))
<1> DEFINE a == [x.versions[v] EXCEPT !.bound = TRUE, !.status = "ACTIVE", !.known = TRUE]
<1> DEFINE y == With(x, v, a)
<1>1. /\ x \in StoreRow /\ v \in Versions /\ x.versions[v] \in VersionRow
      /\ x.versions \in [Versions -> VersionRow]
  BY StoreParts DEF Bare
<1>2. /\ a \in VersionRow /\ a.status = "ACTIVE" /\ a.seen = x.versions[v].seen /\ a.known
      /\ a.results >= x.versions[v].results
      /\ a.submits >= x.versions[v].submits /\ a.lookups >= x.versions[v].lookups
  <2> DEFINE b == [x.versions[v] EXCEPT !.bound = TRUE]
  <2> DEFINE c == [b EXCEPT !.status = "ACTIVE"]
  <2> DEFINE d == [c EXCEPT !.known = TRUE]
  <2>1. /\ b \in VersionRow /\ b.seen = x.versions[v].seen /\ b.results = x.versions[v].results
        /\ b.submits = x.versions[v].submits /\ b.lookups = x.versions[v].lookups
    BY <1>1 DEF VersionRow
  <2>2. a = d
    BY <1>1 DEF VersionRow
  <2> HIDE DEF b
  <2>3. /\ c \in VersionRow /\ c.status = "ACTIVE" /\ c.seen = b.seen /\ c.results = b.results
        /\ c.submits = b.submits /\ c.lookups = b.lookups
    BY <2>1 DEF VersionRow
  <2> HIDE DEF c
  <2>4. /\ d \in VersionRow /\ d.status = "ACTIVE" /\ d.seen = c.seen /\ d.results = c.results
        /\ d.submits = c.submits /\ d.lookups = c.lookups /\ d.known
    BY <2>3 DEF VersionRow
  <2> HIDE DEF d, a
  <2>5. d.results \in Nat /\ d.submits \in Nat /\ d.lookups \in Nat
    BY <2>4 DEF VersionRow
  <2> QED
    BY <2>1, <2>2, <2>3, <2>4, <2>5
<1>3. Bind(x, v) = PollDue(y, v)
  BY <1>1 DEF Bind, StoreRow, With, RemoteTerminal
<1> HIDE DEF a
<1>4. Bare(y, v) /\ Matches(y, v) /\ y.versions[v] = a /\ AllSpent(y)
  BY <1>2, BareChanges DEF RemoteTerminal
<1> HIDE DEF y
<1> QED
  BY <1>2, <1>3, <1>4, PollHolds

\* _observe of what the provider says
LEMMA ObserveHolds ==
    ASSUME NEW x, NEW v, Bare(x, v), AllSpent(x), Matches(x, v), NEW state \in RemoteStates,
           state \in RemoteTerminal => remote[v] = state, NEW valid \in BOOLEAN
    PROVE  SafeStore(Observe(x, v, state, valid))
<1> DEFINE a == [x.versions[v] EXCEPT !.seen = state, !.known = TRUE]
<1> DEFINE y == With(x, v, a)
<1>1. /\ x \in StoreRow /\ v \in Versions /\ x.versions[v] \in VersionRow
      /\ x.versions \in [Versions -> VersionRow]
  BY StoreParts DEF Bare
<1>2. /\ a \in VersionRow /\ a.status = x.versions[v].status /\ a.seen = state /\ a.known
      /\ a.results >= x.versions[v].results
      /\ a.submits >= x.versions[v].submits /\ a.lookups >= x.versions[v].lookups
  <2> DEFINE b == [x.versions[v] EXCEPT !.seen = state]
  <2> DEFINE c == [b EXCEPT !.known = TRUE]
  <2>1. /\ b \in VersionRow /\ b.seen = state /\ b.results = x.versions[v].results
        /\ b.submits = x.versions[v].submits /\ b.lookups = x.versions[v].lookups
        /\ b.status = x.versions[v].status
    BY <1>1 DEF VersionRow
  <2>2. a = c
    BY <1>1 DEF VersionRow
  <2> HIDE DEF b
  <2>3. /\ c \in VersionRow /\ c.status = b.status /\ c.seen = b.seen /\ c.results = b.results
        /\ c.submits = b.submits /\ c.lookups = b.lookups /\ c.known
    BY <2>1 DEF VersionRow
  <2> HIDE DEF c, a
  <2>4. c.results \in Nat /\ c.submits \in Nat /\ c.lookups \in Nat
    BY <2>3 DEF VersionRow
  <2> QED
    BY <2>1, <2>2, <2>3, <2>4
<1>3. a.status \in {"PLANNED", "DISPATCHING", "ACTIVE"}
  BY <1>2 DEF Bare, Driven
<1>4. Observe(x, v, state, valid) =
        IF state = "COMPLETED" /\ valid
          THEN Progress([y EXCEPT !.versions[v] =
                             EndedAs("COMPLETED", y.versions[v].submits)], v)
        ELSE IF state = "COMPLETED" THEN ResultRetry(y, v)
        ELSE IF state = "CANCELLED" THEN Stop(y, v, state, FALSE)
        ELSE PollDue(y, v)
  <2> DEFINE b == [x EXCEPT !.versions[v].seen = state, !.versions[v].known = TRUE]
  <2>1. b = y
    BY <1>1 DEF StoreRow, With
  <2>2. Observe(x, v, state, valid) =
        IF state = "COMPLETED" /\ valid
          THEN Progress([b EXCEPT !.versions[v] =
                             EndedAs("COMPLETED", b.versions[v].submits)], v)
        ELSE IF state = "COMPLETED" THEN ResultRetry(b, v)
        ELSE IF state = "CANCELLED" THEN Stop(b, v, state, FALSE)
        ELSE PollDue(b, v)
    BY DEF Observe
  <2> HIDE DEF b, y
  <2> QED
    BY <2>1, <2>2
<1> HIDE DEF a
<1>5. Bare(y, v) /\ Matches(y, v) /\ y.versions[v] = a /\ AllSpent(y)
  BY <1>2, <1>3, BareChanges DEF RemoteTerminal
<1> HIDE DEF y
<1>6. CASE state = "COMPLETED"
  <2>1. ~MayRun(v)
    BY <1>6 DEF MayRun, RemoteTerminal
  <2>2. CASE valid
    BY <1>4, <1>5, <1>6, <2>1, <2>2, ProgressHolds
  <2>3. CASE ~valid
    BY <1>2, <1>4, <1>5, <1>6, <2>3, RetryHolds
  <2> QED
    BY <2>2, <2>3
<1>7. CASE state = "CANCELLED"
  <2>1. ~MayRun(v) /\ state \in VersionTerminal /\ FALSE \in BOOLEAN
    BY <1>7 DEF MayRun, RemoteTerminal, VersionTerminal
  <2> QED
    BY <1>4, <1>5, <1>7, <2>1, StopHolds
<1>8. CASE state \notin RemoteTerminal
  BY <1>2, <1>4, <1>5, <1>8, PollHolds DEF RemoteTerminal
<1> QED
  BY <1>6, <1>7, <1>8 DEF RemoteTerminal

\* The version is put in doubt, or out of it.
Known(x, v, b) == [x EXCEPT !.versions[v].known = b]

LEMMA DoubtHolds ==
    ASSUME NEW x, NEW v, Bare(x, v), Matches(x, v), NEW b \in BOOLEAN
    PROVE  /\ Bare(Known(x, v, b), v) /\ Matches(Known(x, v, b), v)
           /\ AllSpent(x) => AllSpent(Known(x, v, b))
           /\ Known(x, v, b).used = x.used
           /\ Known(x, v, b).versions[v].seen = x.versions[v].seen
           /\ Known(x, v, b).versions[v].submits = x.versions[v].submits
           /\ Known(x, v, b).versions[v].lookups = x.versions[v].lookups
           /\ Known(x, v, b).versions[v].results = x.versions[v].results
           /\ b => Known(x, v, b).versions[v].known
<1> DEFINE a == [x.versions[v] EXCEPT !.known = b]
<1>1. /\ x \in StoreRow /\ v \in Versions /\ x.versions[v] \in VersionRow
      /\ x.versions \in [Versions -> VersionRow]
  BY StoreParts DEF Bare
<1>2. /\ a \in VersionRow /\ a.status = x.versions[v].status /\ a.seen = x.versions[v].seen
      /\ a.results >= x.versions[v].results
      /\ a.submits >= x.versions[v].submits /\ a.lookups >= x.versions[v].lookups
      /\ a.results = x.versions[v].results /\ a.submits = x.versions[v].submits
      /\ a.lookups = x.versions[v].lookups /\ (a.known <=> b)
  BY <1>1 DEF VersionRow
<1>3. Known(x, v, b) = With(x, v, a)
  BY <1>1 DEF StoreRow, With, Known
<1>4. /\ a.status \in {"PLANNED", "DISPATCHING", "ACTIVE"}
      /\ a.seen = "COMPLETED" => remote[v] = "COMPLETED"
  BY <1>1, <1>2 DEF Bare, Driven, Matches, SeenIsReal
<1> HIDE DEF a
<1>5. /\ Bare(With(x, v, a), v) /\ Matches(With(x, v, a), v) /\ With(x, v, a).versions[v] = a
      /\ With(x, v, a).used = x.used /\ (AllSpent(x) => AllSpent(With(x, v, a)))
  BY <1>2, <1>4, BareChanges
<1> QED
  BY <1>2, <1>3, <1>5

\* finish, for every operation and answer
LEMMA OutcomeHolds ==
    ASSUME NEW x, NEW v, Bare(x, v), AllSpent(x), Matches(x, v), NEW t, t.op \in GuardianOps,
           t.key[1] = v, AnswerIsReal(t), NEW long \in BOOLEAN, NEW valid \in BOOLEAN,
           t.op # "FETCH_TERMINAL_RESULT" => x.versions[v].seen \notin RemoteTerminal,
           t.op = "FETCH_TERMINAL_RESULT" => x.versions[v].seen = "COMPLETED",
           t.op \in {"POLL_REMOTE", "FETCH_TERMINAL_RESULT"} => x.versions[v].known,
           t.op = "DISPATCH_VERSION" /\ t.answer = "rejected" =>
               ~MayRun(v) \/ x.versions[v].submits > 1
    PROVE  SafeStore(Outcome(x, v, t.op, t.answer, long, valid))
<1> DEFINE doubt == Known(x, v, FALSE)
<1> DEFINE sure == Known(x, v, TRUE)
<1> DEFINE n == x.versions[v].submits
<1>1. /\ x \in StoreRow /\ v \in Versions /\ x.versions[v] \in VersionRow /\ n \in Nat
  BY StoreParts DEF Bare, VersionRow
<1>2. /\ Bare(doubt, v) /\ Matches(doubt, v) /\ AllSpent(doubt)
      /\ doubt.versions[v].seen = x.versions[v].seen
  BY ONLY Bare(x, v), AllSpent(x), Matches(x, v), DoubtHolds, Zenon
<1>3. /\ Bare(sure, v) /\ Matches(sure, v) /\ AllSpent(sure)
      /\ sure.versions[v].seen = x.versions[v].seen /\ sure.versions[v].submits = n
      /\ sure.versions[v].known /\ sure.used = x.used
  <2>1. TRUE \in BOOLEAN
    OBVIOUS
  <2>2. Bare(sure, v) /\ Matches(sure, v) /\ AllSpent(sure)
    BY <2>1, DoubtHolds, Zenon
  <2>4. sure.versions[v].seen = x.versions[v].seen
    BY ONLY Bare(x, v), AllSpent(x), Matches(x, v), DoubtHolds, Zenon DEF sure, n
  <2>5. sure.versions[v].submits = n
    BY ONLY Bare(x, v), AllSpent(x), Matches(x, v), DoubtHolds, Zenon DEF sure, n
  <2>6. sure.used = x.used
    BY <2>1, DoubtHolds, Zenon
  <2>3. sure.versions[v].known
    BY <2>1, DoubtHolds
  <2> QED
    BY <2>2, <2>3, <2>4, <2>5, <2>6
<1>4. Outcome(x, v, t.op, t.answer, long, valid) =
        IF t.op = "DISPATCH_VERSION" THEN
            IF t.answer = "receipt" THEN Bind(x, v)
            ELSE IF t.answer = "uncertain" THEN ReconcileDue(doubt, v, long)
            ELSE Stop(x, v, "DISPATCH_FAILED", FALSE)
        ELSE IF t.op = "RECONCILE_REMOTE" THEN
            IF t.answer = "error" THEN ReconcileDue(doubt, v, long)
            ELSE IF t.answer = "FOUND" THEN Bind(x, v)
            ELSE IF t.answer = "NOT_CREATED_FINAL" THEN Stop(x, v, "DISPATCH_FAILED", FALSE)
            ELSE IF x.versions[v].bound THEN ReconcileDue(x, v, long)
            ELSE IF n < MaxSubmits THEN Due(sure, v, "DISPATCH_VERSION", n)
            ELSE Stop(x, v, "UNRESOLVED", TRUE)
        ELSE IF t.answer # "error" THEN Observe(x, v, t.answer, valid)
        ELSE IF t.op = "FETCH_TERMINAL_RESULT" THEN ResultRetry(x, v)
        ELSE IF long THEN ReconcileDue(doubt, v, FALSE)
        ELSE PollDue(x, v)
  BY DEF Outcome, Known
<1> HIDE DEF doubt, sure
<1>5. ~MayRun(v) \/ x.versions[v].submits > 1 => SafeStore(Stop(x, v, "DISPATCH_FAILED", FALSE))
  BY StopHolds DEF VersionTerminal
<1>6. SafeStore(Stop(x, v, "UNRESOLVED", TRUE))
  BY StopHolds DEF VersionTerminal
<1>7. CASE t.op = "DISPATCH_VERSION"
  <2>1. x.versions[v].seen \notin RemoteTerminal
    BY <1>7
  <2>2. SafeStore(Bind(x, v)) /\ SafeStore(ReconcileDue(doubt, v, long))
    BY <1>2, <2>1, BindHolds, ReconcileHolds
  <2>3. /\ t.answer \in {"uncertain", "rejected", "receipt"}
        /\ t.answer = "rejected" => ~MayRun(v) \/ x.versions[v].submits > 1
    BY <1>7 DEF AnswerIsReal
  <2> QED
    BY <1>4, <1>5, <1>7, <2>2, <2>3
<1>8. CASE t.op = "RECONCILE_REMOTE"
  <2>1. x.versions[v].seen \notin RemoteTerminal
    BY <1>8
  <2>2. /\ SafeStore(Bind(x, v)) /\ SafeStore(ReconcileDue(doubt, v, long))
        /\ SafeStore(ReconcileDue(x, v, long))
    BY <1>2, <2>1, BindHolds, ReconcileHolds
  <2>3. t.answer = "NOT_CREATED_FINAL" => ~MayRun(v)
    BY <1>8 DEF AnswerIsReal, MayRun
  <2>4. n < MaxSubmits => SafeStore(Due(sure, v, "DISPATCH_VERSION", n))
    <3> SUFFICES ASSUME n < MaxSubmits PROVE SafeStore(Due(sure, v, "DISPATCH_VERSION", n))
      OBVIOUS
    <3>1. <<v, "DISPATCH_VERSION", n>> \notin sure.used
      BY <1>1, <1>3, FreshKey DEF Spent
    <3>2. AsksFor(sure, [key |-> <<v, "DISPATCH_VERSION", n>>, owner |-> NoWorker, live |-> FALSE,
                         started |-> FALSE])
      BY <1>3, <2>1 DEF AsksFor
    <3> HIDE DEF n
    <3> QED
      BY <1>1, <1>3, <3>1, <3>2, DueHolds DEF GuardianOps
  <2> QED
    BY <1>4, <1>5, <1>6, <1>8, <2>2, <2>3, <2>4
<1>9. CASE t.op \in {"POLL_REMOTE", "FETCH_TERMINAL_RESULT"}
  <2>1. CASE t.answer # "error"
    <3>1. t.answer \in RemoteStates /\ (t.answer \in RemoteTerminal => remote[v] = t.answer)
      BY <1>9, <2>1 DEF AnswerIsReal
    <3>2. SafeStore(Observe(x, v, t.answer, valid))
      BY <3>1, ObserveHolds
    <3> QED
      BY <1>4, <1>9, <2>1, <3>2
  <2>2. CASE t.answer = "error" /\ t.op = "FETCH_TERMINAL_RESULT"
    BY <1>4, <1>9, <2>2, RetryHolds
  <2>3. CASE t.answer = "error" /\ t.op = "POLL_REMOTE"
    <3>1. SafeStore(ReconcileDue(doubt, v, FALSE)) /\ SafeStore(PollDue(x, v))
      BY <1>2, <1>9, <2>3, ReconcileHolds, PollHolds
    <3> QED
      BY <1>4, <2>3, <3>1
  <2> QED
    BY <1>9, <2>1, <2>2, <2>3
<1> QED
  BY <1>7, <1>8, <1>9 DEF GuardianOps

LEMMA StoreSame ==
    ASSUME NEW x, NEW y \in StoreRow, StoreInv(x), y.cycles = x.cycles, y.versions = x.versions,
           y.occupancy = x.occupancy, y.works = x.works, y.used \subseteq x.used
    PROVE  StoreInv(y)
<1>1. CyclesMatch(y) /\ OneUnresolved(y)
  BY DEF StoreInv, CyclesMatch, OneUnresolved
<1>2. \A v \in Versions : Driven(x, v) => Driven(y, v)
  BY DEF Driven
<1>3. \A r \in x.works : r.key[1] \in Versions /\ (AsksFor(x, r) => AsksFor(y, r))
  <2>1. \A r \in x.works : r.key[1] \in Versions
    BY StoreParts, KeyParts DEF StoreInv, WorkRow
  <2> QED
    BY <2>1 DEF AsksFor
<1>4. OneRow(y)
  BY <1>2, <1>3 DEF StoreInv, OneRow
<1>5. \A k \in OpenKeys(y) : Spent(y, k) /\ Driven(y, k[1])
  <2> SUFFICES ASSUME NEW k \in OpenKeys(y) PROVE Spent(y, k) /\ Driven(y, k[1])
    OBVIOUS
  <2>1. k \in OpenKeys(x) /\ k[1] \in Versions
    BY StoreParts, KeyParts DEF OpenKeys
  <2>2. Spent(x, k) /\ Driven(x, k[1])
    BY <2>1 DEF StoreInv
  <2> QED
    BY <1>2, <2>1, <2>2 DEF Spent
<1> QED
  BY <1>1, <1>4, <1>5 DEF StoreInv

\* The store after a transaction is the one it saved, without keys of versions
\* that have ended.
LEMMA SaveKeeps ==
    ASSUME NEW y, StoreInv(y), Save(y)
    PROVE  /\ StoreInv(Store') /\ OpenKeys(Store') = used'
           /\ works' = y.works /\ versions' = y.versions /\ occupancy' = y.occupancy
           /\ cycles' = y.cycles
<1> DEFINE s == Store'
<1>1. /\ y.cycles \in [Days -> {"none"} \cup OpenCycle \cup CycleTerminal]
      /\ y.versions \in [Versions -> VersionRow] /\ y.occupancy \in OccupancyRow
      /\ y.works \subseteq WorkRow /\ y.used \subseteq WorkKeys
  BY StoreParts DEF StoreInv
<1>2. /\ cycles' = y.cycles /\ versions' = y.versions /\ occupancy' = y.occupancy
      /\ works' = y.works /\ used' \subseteq y.used
      /\ \A k \in used' : y.versions[k[1]].status \notin VersionTerminal
  BY DEF Save
<1>3. /\ s \in StoreRow /\ s.cycles = y.cycles /\ s.versions = y.versions
      /\ s.occupancy = y.occupancy /\ s.works = y.works /\ s.used = used'
  BY <1>1, <1>2 DEF Store, StoreRow
<1> HIDE DEF s
<1>4. StoreInv(s)
  BY <1>2, <1>3, StoreSame
<1>5. OpenKeys(s) = used'
  BY <1>2, <1>3 DEF OpenKeys
<1> QED
  BY <1>2, <1>4, <1>5 DEF s

LEMMA FitsAfter ==
    ASSUME NEW y, RemotesFit(y), works' = y.works, versions' = y.versions,
           occupancy' = y.occupancy, cycles' = y.cycles, UNCHANGED providerVars
    PROVE  RemotesFit(Store)'
BY DEF RemotesFit, SeenIsReal, CopiesFit, Covers, Excused, MayRun, OnItsWay, Store, providerVars

LEMMA AnswersStay ==
    ASSUME TasksHoldRows, AnswersAreReal, UNCHANGED providerVars, NEW w \in Workers,
           NEW t \in TaskRow, t.pc # "answered", task' = [task EXCEPT ![w] = t]
    PROVE  AnswersAreReal'
BY DEF TasksHoldRows, AnswersAreReal, AnswerIsReal, providerVars

\* A transaction that ends a worker's task.
LEMMA EndsHolds ==
    ASSUME GuardianInv, NEW w \in Workers, NEW y, SafeStore(y), Ends(w, y),
           UNCHANGED <<day, late, expiries, remote>>
    PROVE  GuardianInv'
<1>1. /\ StoreInv(Store') /\ OpenKeys(Store') = used'
      /\ works' = y.works /\ versions' = y.versions /\ occupancy' = y.occupancy
      /\ cycles' = y.cycles
  BY SaveKeeps DEF SafeStore, Ends
<1>2. UNCHANGED providerVars
  BY DEF Ends, providerVars
<1>3. RemotesFit(Store)' /\ ProviderTypes'
  BY <1>1, <1>2, FitsAfter DEF SafeStore, GuardianInv, ProviderTypes, providerVars
<1>4. NoTask \in TaskRow /\ NoTask.pc = "idle" /\ task' = [task EXCEPT ![w] = NoTask]
  BY DEF NoTask, TaskRow, Ends
<1>5. TasksHoldRows'
  <2>1. task' \in [Workers -> TaskRow]
    BY <1>4 DEF GuardianInv, TasksHoldRows
  <2>2. \A q \in Workers : task'[q] = task[q] \/ task'[q].pc = "idle"
    BY <1>4 DEF GuardianInv, TasksHoldRows
  <2>3. \A r \in works' : ~r.live
    BY <1>1 DEF SafeStore
  <2> QED
    BY <2>1, <2>2, <2>3 DEF GuardianInv, TasksHoldRows
<1>6. AnswersAreReal'
  BY <1>2, <1>4, AnswersStay DEF GuardianInv
<1>7. RejectedIsOver'
  BY <1>1 DEF SafeStore, RejectedIsOver
<1> QED
  BY <1>1, <1>3, <1>5, <1>6, <1>7 DEF GuardianInv

\* An open row: its version is driven, and without it the store is bare.
LEMMA OpenRow ==
    ASSUME GuardianInv, NEW r \in works
    PROVE  /\ works = {r} /\ r \in WorkRow /\ r.key \in WorkKeys /\ r.key[1] \in Versions
           /\ AsksFor(Store, r)
           /\ Bare([Store EXCEPT !.works = {}], r.key[1])
           /\ AllSpent([Store EXCEPT !.works = {}])
           /\ Matches([Store EXCEPT !.works = {}], r.key[1])
<1> DEFINE v == r.key[1]
<1> DEFINE x == [Store EXCEPT !.works = {}]
<1>1. StoreInv(Store) /\ Store \in StoreRow
  BY DEF GuardianInv, StoreInv
<1>2. r \in WorkRow /\ r.key \in WorkKeys /\ v \in Versions
  BY <1>1, StoreParts, KeyParts DEF Store, WorkRow
<1>3. works = {r} /\ Driven(Store, v) /\ AsksFor(Store, r)
  BY <1>1 DEF StoreInv, OneRow, Store
<1>4. /\ x \in StoreRow /\ x.works = {} /\ x.cycles = Store.cycles /\ x.versions = Store.versions
      /\ x.occupancy = Store.occupancy /\ x.used = Store.used
  BY <1>1 DEF StoreRow
<1> HIDE DEF x, v
<1>5. Driven(x, v) /\ CyclesMatch(x) /\ OneUnresolved(x) /\ OpenKeys(x) = OpenKeys(Store)
  BY <1>1, <1>3, <1>4 DEF StoreInv, Driven, CyclesMatch, OneUnresolved, OpenKeys
<1>6. \A k \in OpenKeys(x) : k[1] = v /\ Spent(x, k)
  <2> SUFFICES ASSUME NEW k \in OpenKeys(Store) PROVE k[1] = v /\ Spent(x, k)
    BY <1>5
  <2>1. k[1] \in Versions /\ Driven(Store, k[1]) /\ Spent(Store, k)
    BY <1>1, StoreParts, KeyParts DEF StoreInv, OpenKeys
  <2> QED
    BY <1>2, <1>3, <1>4, <2>1, DrivenIsOne DEF Spent
<1>7. Matches(x, v)
  <2>1. RemotesFit(Store)
    BY DEF GuardianInv
  <2>2. \A u \in Versions : MayRun(u) => u = v \/ Excused(x, u)
    <3>1. \A u \in Versions : Covers(Store, u) => u = v
      BY <1>3 DEF Covers, Driven, Store, v
    <3> QED
      BY <1>4, <2>1, <3>1, ExcusedStays DEF RemotesFit
  <2>3. SeenIsReal(x) /\ CopiesFit(x)
    BY <1>4, <2>1 DEF RemotesFit, SeenIsReal, CopiesFit
  <2> QED
    BY <2>2, <2>3 DEF Matches
<1> QED
  BY <1>2, <1>3, <1>4, <1>5, <1>6, <1>7 DEF Bare, AllSpent, x, v

\* Completing the row leaves the store bare.
LEMMA DoneHolds ==
    ASSUME NEW x \in StoreRow, NEW r, x.works = {r}, r.key \in WorkKeys, NEW b,
           Bare(b, r.key[1]), Matches(b, r.key[1]), b.cycles = x.cycles, b.versions = x.versions,
           b.occupancy = x.occupancy, b.used = x.used
    PROVE  /\ Bare(Done(x, r.key), r.key[1]) /\ Matches(Done(x, r.key), r.key[1])
           /\ Done(x, r.key).versions = x.versions
           /\ AllSpent(b) /\ (r.key[2] # "POLL_REMOTE" => Spent(b, r.key)) => AllSpent(Done(x, r.key))
<1> DEFINE v == r.key[1]
<1> DEFINE y == Done(x, r.key)
<1> DEFINE us == IF r.key[2] = "POLL_REMOTE" THEN x.used ELSE x.used \cup {r.key}
<1>1. y = [x EXCEPT !.works = {}, !.used = us]
  <2>1. {q \in x.works : q.key # r.key} = {}
    OBVIOUS
  <2> QED
    BY <2>1 DEF Done
<1>2. us \subseteq WorkKeys /\ us \subseteq x.used \cup {r.key}
  BY StoreParts
<1>3. /\ y \in StoreRow /\ y.works = {} /\ y.used = us /\ y.cycles = x.cycles
      /\ y.versions = x.versions /\ y.occupancy = x.occupancy
  <2> HIDE DEF us
  <2> QED
    BY <1>1, <1>2 DEF StoreRow
<1>4. v \in Versions
  BY DEF Bare
<1> HIDE DEF y
<1>5. Driven(y, v) /\ CyclesMatch(y) /\ OneUnresolved(y)
  BY <1>3 DEF Bare, Driven, CyclesMatch, OneUnresolved
<1>6. \A k \in OpenKeys(y) : k \in OpenKeys(b) \/ (k = r.key /\ r.key[2] # "POLL_REMOTE")
  BY <1>3 DEF OpenKeys
<1>7. \A k \in OpenKeys(y) : k[1] = v
  BY <1>6 DEF Bare
<1>8. Matches(y, v)
  <2>1. SeenIsReal(y) /\ CopiesFit(y)
    BY <1>3 DEF Matches, SeenIsReal, CopiesFit
  <2> QED
    BY <1>3, <2>1, ExcusedStays DEF Matches
<1>9. ASSUME AllSpent(b), r.key[2] # "POLL_REMOTE" => Spent(b, r.key)
      PROVE  AllSpent(y)
  <2>1. \A k \in OpenKeys(y) : Spent(b, k)
    BY <1>6, <1>9 DEF AllSpent
  <2> QED
    BY <1>3, <2>1 DEF AllSpent, Spent
<1> QED
  BY <1>3, <1>4, <1>5, <1>7, <1>8, <1>9 DEF Bare, y

\* A worker with a live claim works on the one row there is.
LEMMA ClaimedRow ==
    ASSUME GuardianInv, NEW w \in Workers, NEW r \in Mine(w)
    PROVE  /\ r \in works /\ r.live /\ r.owner = w /\ task[w].key = r.key
           /\ cycles[r.key[1][1]] \notin CycleTerminal
           /\ versions[r.key[1]].status \notin VersionTerminal
           /\ task[w].pc \in {"calling", "answered"} =>
                /\ r.started /\ task[w].op \in GuardianOps
                /\ \/ task[w].op = r.key[2]
                   \/ task[w].op = "RECONCILE_REMOTE" /\ r.key[2] = "DISPATCH_VERSION"
<1>1. r \in works /\ r.live /\ r.owner = w /\ r.key = task[w].key
  BY DEF Mine
<1>2. Bare([Store EXCEPT !.works = {}], r.key[1])
  BY <1>1, OpenRow
<1>3. /\ r.key[1] \in Versions /\ r.key[1][1] \in Days
      /\ cycles[r.key[1][1]] \in OpenCycle
      /\ versions[r.key[1]].status \in {"PLANNED", "DISPATCHING", "ACTIVE"}
  BY <1>2, VersionsAre DEF Bare, CyclesMatch, Driven, Store
<1> QED
  BY <1>1, <1>3 DEF GuardianInv, TasksHoldRows, OpenCycle, CycleTerminal, VersionTerminal

LEMMA SpentRow ==
    ASSUME NEW x, NEW r, r.key \in WorkKeys, r.started, AsksFor(x, r), r.key[2] # "POLL_REMOTE",
           x \in StoreRow
    PROVE  Spent(x, r.key)
<1>1. x.versions[r.key[1]] \in VersionRow /\ r.key[3] \in Nat
  BY StoreParts, KeyParts
<1> QED
  BY <1>1 DEF AsksFor, Spent, VersionRow

LEMMA FinishSteps ==
    ASSUME GuardianInv, NEW w \in Workers, FinishWork(w)
    PROVE  GuardianInv'
<1>1. PICK r \in Mine(w), long \in BOOLEAN, valid \in BOOLEAN :
        Ends(w, IF cycles[r.key[1][1]] \in CycleTerminal
                   \/ versions[r.key[1]].status \in VersionTerminal
                THEN Store
                ELSE Outcome(Done(Store, r.key), r.key[1], task[w].op, task[w].answer, long, valid))
  BY DEF FinishWork
<1> DEFINE v == r.key[1]
<1> DEFINE b == [Store EXCEPT !.works = {}]
<1> DEFINE x == Done(Store, r.key)
<1>2. /\ r \in works /\ task[w].key = r.key /\ r.started /\ task[w].op \in GuardianOps
      /\ \/ task[w].op = r.key[2]
         \/ task[w].op = "RECONCILE_REMOTE" /\ r.key[2] = "DISPATCH_VERSION"
      /\ cycles[v[1]] \notin CycleTerminal /\ versions[v].status \notin VersionTerminal
  BY ClaimedRow DEF FinishWork
<1>3. /\ works = {r} /\ r.key \in WorkKeys /\ AsksFor(Store, r)
      /\ Bare(b, v) /\ AllSpent(b) /\ Matches(b, v)
  BY <1>2, OpenRow
<1>4. Store \in StoreRow /\ Store.works = {r} /\ b.cycles = Store.cycles
      /\ b.versions = Store.versions /\ b.occupancy = Store.occupancy /\ b.used = Store.used
  BY <1>3 DEF GuardianInv, StoreInv, Store
<1> HIDE DEF b
<1>5. r.key[2] # "POLL_REMOTE" => Spent(b, r.key)
  BY <1>2, <1>3, <1>4, SpentRow DEF Spent
<1>6. Bare(x, v) /\ Matches(x, v) /\ AllSpent(x) /\ x.versions = Store.versions
  BY <1>3, <1>4, <1>5, DoneHolds
<1> HIDE DEF x
<1>7. /\ task[w].op # "FETCH_TERMINAL_RESULT" => x.versions[v].seen \notin RemoteTerminal
      /\ task[w].op = "FETCH_TERMINAL_RESULT" => x.versions[v].seen = "COMPLETED"
      /\ task[w].op \in {"POLL_REMOTE", "FETCH_TERMINAL_RESULT"} => x.versions[v].known
  BY <1>2, <1>3, <1>6 DEF AsksFor
<1>8. AnswerIsReal(task[w])
  BY DEF GuardianInv, AnswersAreReal, FinishWork
<1>11. task[w].op = "DISPATCH_VERSION" /\ task[w].answer = "rejected" =>
          ~MayRun(v) \/ x.versions[v].submits > 1
  <2> SUFFICES ASSUME task[w].op = "DISPATCH_VERSION", task[w].answer = "rejected", MayRun(v)
               PROVE  x.versions[v].submits > 1
    OBVIOUS
  <2>1. r.live /\ r.owner = w /\ task[w].pc = "answered"
    BY ClaimedRow DEF FinishWork
  <2>2. r.key[3] # 0 /\ r.key[3] \in Nat
    BY <1>2, <1>3, <2>1, KeyParts DEF GuardianInv, RejectedIsOver
  <2>3. versions[v].submits = r.key[3] + 1
    BY <1>2, <1>3 DEF AsksFor, Store
  <2> QED
    BY <1>6, <2>2, <2>3 DEF Store
<1>9. SafeStore(Outcome(x, v, task[w].op, task[w].answer, long, valid))
  BY <1>2, <1>6, <1>7, <1>8, <1>11, OutcomeHolds
<1>10. Ends(w, Outcome(x, v, task[w].op, task[w].answer, long, valid))
  BY <1>1, <1>2 DEF x
<1> QED
  BY <1>9, <1>10, EndsHolds DEF FinishWork

LEMMA BegunIs ==
    ASSUME NEW a \in VersionRow, NEW op \in GuardianOps,
           a.status \in {"PLANNED", "DISPATCHING", "ACTIVE"}
    PROVE  /\ Begun(a, op) \in VersionRow
           /\ Begun(a, op).status \in {"PLANNED", "DISPATCHING", "ACTIVE"}
           /\ Begun(a, op).seen = a.seen /\ (Begun(a, op).known <=> a.known)
           /\ Begun(a, op).results = a.results
           /\ Begun(a, op).submits = a.submits + (IF op = "DISPATCH_VERSION" THEN 1 ELSE 0)
           /\ Begun(a, op).lookups = a.lookups + (IF op = "RECONCILE_REMOTE" THEN 1 ELSE 0)
<1> DEFINE s == [a EXCEPT !.submits = @ + 1]
<1>1. /\ s \in VersionRow /\ s.seen = a.seen /\ (s.known <=> a.known) /\ s.results = a.results
      /\ s.submits = a.submits + 1 /\ s.lookups = a.lookups
  BY DEF VersionRow
<1>2. a.submits \in Nat /\ a.lookups \in Nat
  BY DEF VersionRow
<1>3. CASE op = "DISPATCH_VERSION"
  <2>1. Begun(a, op) = [s EXCEPT !.status = "DISPATCHING"]
    BY <1>3 DEF Begun, VersionRow
  <2> HIDE DEF s
  <2>2. /\ Begun(a, op) \in VersionRow /\ Begun(a, op).status = "DISPATCHING"
        /\ Begun(a, op).seen = s.seen /\ (Begun(a, op).known <=> s.known)
        /\ Begun(a, op).results = s.results /\ Begun(a, op).submits = s.submits
        /\ Begun(a, op).lookups = s.lookups
    BY <1>1, <2>1 DEF VersionRow
  <2> QED
    BY <1>1, <1>2, <1>3, <2>2
<1>4. CASE op = "RECONCILE_REMOTE"
  BY <1>2, <1>4 DEF Begun, VersionRow
<1>5. CASE op \notin {"DISPATCH_VERSION", "RECONCILE_REMOTE"}
  BY <1>2, <1>5 DEF Begun
<1> QED
  BY <1>3, <1>4, <1>5

\* The cycle of the version that is driven is RUNNING.
LEMMA RunningHolds ==
    ASSUME NEW x, NEW v, Bare(x, v), AllSpent(x), Matches(x, v), NEW y,
           y = [x EXCEPT !.cycles[v[1]] = "RUNNING"]
    PROVE  Bare(y, v) /\ AllSpent(y) /\ Matches(y, v)
<1>1. x \in StoreRow /\ v \in Versions /\ v[1] \in Days
  BY VersionsAre DEF Bare
<1>2. /\ y \in StoreRow /\ y.works = x.works /\ y.used = x.used /\ y.versions = x.versions
      /\ y.occupancy = x.occupancy /\ y.cycles = [x.cycles EXCEPT ![v[1]] = "RUNNING"]
  BY <1>1 DEF StoreRow, OpenCycle
<1>3. /\ y.cycles[v[1]] = "RUNNING" /\ \A d \in Days : d # v[1] => y.cycles[d] = x.cycles[d]
  BY <1>1, <1>2, StoreParts
<1>4. CyclesMatch(y)
  BY <1>1, <1>2, <1>3 DEF Bare, CyclesMatch, Driven, OpenCycle
<1>5. Driven(y, v) /\ OneUnresolved(y) /\ OpenKeys(y) = OpenKeys(x)
  BY <1>2 DEF Bare, Driven, OneUnresolved, OpenKeys
<1>6. Matches(y, v)
  <2>1. SeenIsReal(y)
    BY <1>2 DEF Matches, SeenIsReal
  <2>2. /\ \A d \in Days : x.cycles[d] # "none" => y.cycles[d] # "none"
        /\ \A u \in Versions : y.versions[u].submits = x.versions[u].submits
        /\ CopiesFit(x)
    BY <1>2, <1>3 DEF Matches
  <2>3. x \in StoreRow /\ y \in StoreRow
    BY <1>1, <1>2
  <2>4. CopiesFit(y)
    BY ONLY <2>2, <2>3, CopiesStay
  <2> QED
    BY <1>2, <2>1, <2>4, ExcusedStays DEF Matches
<1> QED
  BY <1>1, <1>2, <1>4, <1>5, <1>6 DEF Bare, AllSpent, Spent

\* The operation of a row: what it asks for, or a lookup when it is in doubt.
LEMMA OperationIs ==
    ASSUME GuardianInv, NEW r \in works
    PROVE  /\ Operation(r) \in GuardianOps
           /\ Operation(r) = "DISPATCH_VERSION" => r.key[2] = "DISPATCH_VERSION" /\ ~r.started
           /\ Operation(r) # "DISPATCH_VERSION" /\ r.key[2] = "DISPATCH_VERSION" => r.started
           /\ \/ Operation(r) = r.key[2]
              \/ Operation(r) = "RECONCILE_REMOTE" /\ r.key[2] = "DISPATCH_VERSION"
<1>1. r \in WorkRow /\ r.key \in WorkKeys /\ AsksFor(Store, r)
  BY OpenRow
<1>2. r.key[2] \in GuardianOps
  BY <1>1, KeyParts
<1> QED
  BY <1>1, <1>2 DEF Operation, Restarted, AsksFor, Store, GuardianOps

\* What prepare works on, without the row.
PreparedBare(r) ==
    IF Restarted(r) THEN Known([Store EXCEPT !.works = {}], r.key[1], FALSE)
    ELSE [Store EXCEPT !.works = {}]

LEMMA PreparedIs ==
    ASSUME GuardianInv, NEW r \in works
    PROVE  LET x == Prepared(r)
               b == PreparedBare(r)
               v == r.key[1]
           IN  /\ x \in StoreRow /\ x.works = {r} /\ b.cycles = x.cycles /\ b.versions = x.versions
               /\ b.occupancy = x.occupancy /\ b.used = x.used
               /\ Bare(b, v) /\ AllSpent(b) /\ Matches(b, v) /\ AsksFor(b, r)
               /\ b.versions[v].seen = versions[v].seen
               /\ b.versions[v].submits = versions[v].submits
<1> DEFINE v == r.key[1]
<1> DEFINE b0 == [Store EXCEPT !.works = {}]
<1>1. /\ works = {r} /\ r \in WorkRow /\ r.key \in WorkKeys /\ v \in Versions
      /\ AsksFor(Store, r) /\ Bare(b0, v) /\ AllSpent(b0) /\ Matches(b0, v)
  BY OpenRow
<1>2. Store \in StoreRow /\ Store.works = {r} /\ Store.versions = versions
  BY <1>1 DEF GuardianInv, StoreInv, Store
<1>3. /\ b0.cycles = Store.cycles /\ b0.versions = versions /\ b0.works = {}
      /\ b0.occupancy = Store.occupancy /\ b0.used = Store.used /\ b0 \in StoreRow
  BY <1>2 DEF Store, Bare, StoreRow
<1>4. AsksFor(b0, r)
  BY <1>1, <1>2, <1>3 DEF AsksFor
<1> HIDE DEF b0
<1>5. CASE ~Restarted(r)
  BY <1>1, <1>2, <1>3, <1>4, <1>5 DEF Prepared, PreparedBare, b0
<1>6. CASE Restarted(r)
  <2> DEFINE x == Known(Store, v, FALSE)
  <2> DEFINE b == Known(b0, v, FALSE)
  <2> DEFINE a == [versions[v] EXCEPT !.known = FALSE]
  <2>2. /\ a \in VersionRow /\ a.status = versions[v].status /\ a.seen = versions[v].seen
        /\ a.results = versions[v].results /\ a.submits = versions[v].submits
        /\ a.lookups = versions[v].lookups
        /\ a.results \in Nat /\ a.submits \in Nat /\ a.lookups \in Nat
    <3>1. versions[v] \in VersionRow
      BY <1>1, <1>2, StoreParts
    <3> QED
      BY <3>1 DEF VersionRow
  <2>3. x = [Store EXCEPT !.versions[v] = a] /\ b = With(b0, v, a)
    BY <1>2, <1>3 DEF Known, With
  <2> HIDE DEF a, x, b
  <2>8. /\ a.status \in {"PLANNED", "DISPATCHING", "ACTIVE"}
        /\ a.seen = "COMPLETED" => remote[v] = "COMPLETED"
    BY <1>1, <1>3, <2>2 DEF Bare, Driven, Matches, SeenIsReal
  <2>1. Bare(b, v) /\ Matches(b, v) /\ AllSpent(b) /\ b.used = b0.used /\ b.versions[v] = a
    BY <1>1, <1>3, <2>2, <2>3, <2>8, BareChanges
  <2>4. /\ x \in StoreRow /\ x.works = {r} /\ x.versions = [versions EXCEPT ![v] = a]
        /\ x.cycles = Store.cycles /\ x.occupancy = Store.occupancy /\ x.used = Store.used
    BY <1>1, <1>2, <2>2, <2>3 DEF StoreRow
  <2>5. /\ b.versions = [versions EXCEPT ![v] = a] /\ b.cycles = Store.cycles
        /\ b.occupancy = Store.occupancy
    BY <1>2, <1>3, <2>3 DEF StoreRow, With
  <2>6. AsksFor(b, r)
    <3>1. r.key[2] = "DISPATCH_VERSION" /\ r.started
      BY <1>6 DEF Restarted
    <3> QED
      BY <1>3, <1>4, <2>1, <2>2, <3>1 DEF AsksFor
  <2>7. Prepared(r) = x /\ PreparedBare(r) = b
    BY <1>6 DEF Prepared, PreparedBare, Known, x, b, b0
  <2> QED
    BY <1>3, <2>1, <2>2, <2>4, <2>5, <2>6, <2>7
<1> QED
  BY <1>5, <1>6

LEMMA PrepareCases ==
    ASSUME NEW w \in Workers, Prepare(w)
    PROVE  \E r \in Mine(w), passed \in BOOLEAN :
             LET v == r.key[1]
                 op == Operation(r)
                 x == Prepared(r)
                 over == cycles[v[1]] \in CycleTerminal \/ versions[v].status \in VersionTerminal
             IN  \/ over
                 \/ /\ versions[v].seen \in RemoteTerminal
                    /\ Ends(w, Stop(Done(x, r.key), v, "INFRA_FAILED", FALSE))
                 \/ Ends(w, Stop(Done(x, r.key), v, "UNRESOLVED", TRUE))
                 \/ Ends(w, [x EXCEPT !.works = (@ \ {r}) \cup
                               {[r EXCEPT !.owner = NoWorker, !.live = FALSE]}])
                 \/ op = "DISPATCH_VERSION" /\ versions[v].submits >= MaxSubmits
                 \/ BeginCall(w, r)
BY Zenon DEF Prepare

\* A worker begins its call.
LEMMA BeginHolds ==
    ASSUME GuardianInv, NEW w \in Workers, NEW r \in Mine(w), BeginCall(w, r),
           task[w].pc = "claimed", UNCHANGED <<day, late, expiries, remote>>
    PROVE  GuardianInv'
<1> DEFINE v == r.key[1]
<1> DEFINE op == Operation(r)
<1> DEFINE x == Prepared(r)
<1> DEFINE b == PreparedBare(r)
<1> DEFINE a == Begun(b.versions[v], op)
<1> DEFINE c == With(b, v, a)
<1> DEFINE e == IF op = "DISPATCH_VERSION" THEN [c EXCEPT !.cycles[v[1]] = "RUNNING"] ELSE c
<1> DEFINE r2 == [r EXCEPT !.started = TRUE]
<1> DEFINE y == [x EXCEPT !.versions[v] = Begun(@, op),
                          !.cycles[v[1]] = IF op = "DISPATCH_VERSION" THEN "RUNNING" ELSE @,
                          !.works = (@ \ {r}) \cup {r2}]
<1>1. /\ r \in works /\ r.live /\ r.owner = w /\ task[w].key = r.key
  BY ClaimedRow
<1>2. r \in WorkRow /\ r.key \in WorkKeys /\ v \in Versions /\ v[1] \in Days
  BY <1>1, OpenRow, VersionsAre
<1>3. /\ x \in StoreRow /\ x.works = {r} /\ b.cycles = x.cycles /\ b.versions = x.versions
      /\ b.occupancy = x.occupancy /\ b.used = x.used
      /\ Bare(b, v) /\ AllSpent(b) /\ Matches(b, v) /\ AsksFor(b, r)
  BY <1>1, PreparedIs
<1>4. /\ op \in GuardianOps
      /\ op = "DISPATCH_VERSION" => r.key[2] = "DISPATCH_VERSION" /\ ~r.started
      /\ op # "DISPATCH_VERSION" /\ r.key[2] = "DISPATCH_VERSION" => r.started
      /\ op = r.key[2] \/ (op = "RECONCILE_REMOTE" /\ r.key[2] = "DISPATCH_VERSION")
  BY <1>1, OperationIs
<1>5. /\ Save(y) /\ task' = [task EXCEPT ![w].pc = "calling", ![w].op = op]
      /\ flying' = IF op = "DISPATCH_VERSION" THEN flying \cup {r.key} ELSE flying
  BY DEF BeginCall
<1>6. /\ b \in StoreRow /\ b.versions \in [Versions -> VersionRow] /\ b.versions[v] \in VersionRow
      /\ b.versions[v].status \in {"PLANNED", "DISPATCHING", "ACTIVE"}
      /\ b.cycles \in [Days -> {"none"} \cup OpenCycle \cup CycleTerminal]
      /\ b.versions[v].seen = "COMPLETED" => remote[v] = "COMPLETED"
  BY <1>2, <1>3, StoreParts DEF Bare, Driven, Matches, SeenIsReal
<1> HIDE DEF x, b, op
<1>7. /\ a \in VersionRow /\ a.status \in {"PLANNED", "DISPATCHING", "ACTIVE"}
      /\ a.seen = b.versions[v].seen /\ (a.known <=> b.versions[v].known)
      /\ a.results = b.versions[v].results
      /\ a.submits = b.versions[v].submits + (IF op = "DISPATCH_VERSION" THEN 1 ELSE 0)
      /\ a.lookups = b.versions[v].lookups + (IF op = "RECONCILE_REMOTE" THEN 1 ELSE 0)
  BY <1>4, <1>6, BegunIs
<1>8. b.versions[v].submits \in Nat /\ b.versions[v].lookups \in Nat /\ b.versions[v].results \in Nat
  BY <1>6 DEF VersionRow
<1>21. /\ a.submits >= b.versions[v].submits /\ a.lookups >= b.versions[v].lookups
       /\ a.results >= b.versions[v].results
       /\ a.seen = "COMPLETED" => remote[v] = "COMPLETED"
  BY <1>6, <1>7, <1>8
<1> HIDE DEF a
<1>9. /\ Bare(c, v) /\ Matches(c, v) /\ c.versions[v] = a /\ c.used = b.used /\ AllSpent(c)
  BY <1>3, <1>7, <1>21, BareChanges
<1>10. /\ c.cycles = b.cycles /\ c.occupancy = b.occupancy
       /\ c.versions = [b.versions EXCEPT ![v] = a]
  BY <1>6 DEF With, StoreRow
<1> HIDE DEF c
<1>11. /\ Bare(e, v) /\ AllSpent(e) /\ Matches(e, v)
  BY <1>9, RunningHolds
<1>12. /\ e.cycles = IF op = "DISPATCH_VERSION" THEN [b.cycles EXCEPT ![v[1]] = "RUNNING"] ELSE b.cycles
       /\ e.occupancy = b.occupancy /\ e.versions = [b.versions EXCEPT ![v] = a] /\ e.used = b.used
  BY <1>9, <1>10 DEF Bare, StoreRow
<1> HIDE DEF e
<1>13. /\ r2 \in WorkRow /\ r2.key = r.key /\ r2.started /\ r2.live /\ r2.owner = w
  BY <1>1, <1>2 DEF WorkRow
<1> HIDE DEF r2
<1>14. AsksFor(e, r2)
  <2>1. e.versions[v] = a /\ r.key[3] \in Nat /\ r.key[2] \in GuardianOps
    BY <1>2, <1>6, <1>12, KeyParts
  <2> QED
    BY <1>3, <1>4, <1>7, <1>8, <1>13, <2>1 DEF AsksFor, GuardianOps
<1>15. /\ y \in StoreRow /\ y.works = {r2} /\ y.cycles = e.cycles /\ y.versions = e.versions
       /\ y.occupancy = e.occupancy /\ y.used = e.used
  <2> DEFINE cs == [x.cycles EXCEPT ![v[1]] = IF op = "DISPATCH_VERSION" THEN "RUNNING" ELSE @]
  <2> DEFINE vs == [x.versions EXCEPT ![v] = a]
  <2>1. y = [x EXCEPT !.versions = vs, !.cycles = cs, !.works = {r2}]
    BY <1>3 DEF a, StoreRow
  <2>2. cs = e.cycles /\ cs \in [Days -> {"none"} \cup OpenCycle \cup CycleTerminal]
    BY <1>2, <1>3, <1>6, <1>12 DEF OpenCycle
  <2>3. vs = e.versions /\ vs \in [Versions -> VersionRow]
    BY <1>3, <1>6, <1>7, <1>12
  <2> HIDE DEF cs, vs, y
  <2> QED
    BY <1>3, <1>12, <1>13, <2>1, <2>2, <2>3 DEF StoreRow
<1> HIDE DEF y
<1>16. StoreInv(y) /\ RemotesFit(y)
  BY <1>11, <1>13, <1>14, <1>15, RowHolds
<1>17. /\ StoreInv(Store') /\ OpenKeys(Store') = used'
       /\ works' = {r2} /\ versions' = y.versions /\ occupancy' = y.occupancy
       /\ cycles' = y.cycles
  BY <1>5, <1>15, <1>16, SaveKeeps
<1>18. ProviderTypes'
  BY <1>2, <1>4, <1>5 DEF GuardianInv, ProviderTypes
<1>19. RemotesFit(Store)'
  <2>1. Covers(y, v)
    BY <1>11, <1>13, <1>15 DEF Covers, Bare, Driven
  <2>2. \A u \in Versions : u # v => (OnItsWay(u)' => OnItsWay(u))
    BY <1>5 DEF OnItsWay
  <2>3. \A u \in Versions : MayRun(u)' => Covers(y, u) \/ Excused(y, u)
    BY <1>16, <2>1, <2>2 DEF MayRun, RemotesFit
  <2>4. CASE op # "DISPATCH_VERSION"
    <3>1. UNCHANGED providerVars
      BY <1>5, <2>4 DEF providerVars
    <3> QED
      BY <1>15, <1>16, <1>17, <3>1, FitsAfter
  <2>5. CASE op = "DISPATCH_VERSION"
    <3>1. /\ y.versions[v].submits = b.versions[v].submits + 1
          /\ b.versions[v].submits = r.key[3] /\ r.key[3] \in Nat
      BY <1>2, <1>3, <1>4, <1>6, <1>7, <1>8, <1>12, <1>15, <2>5, KeyParts DEF AsksFor
    <3>2. /\ y.cycles[v[1]] = "RUNNING" /\ flying' = flying \cup {r.key}
      BY <1>2, <1>5, <1>6, <1>12, <1>15, <2>5
    <3>3. CopiesFit(b) /\ CopiesFit(y)
      BY <1>3, <1>16 DEF Matches, RemotesFit
    <3>4. ASSUME NEW u \in Versions
          PROVE  /\ \A k \in flying' : k[1] = u => k[3] \in Nat /\ k[3] < y.versions[u].submits
                 /\ remote[u] \notin {"none", "sealed"} =>
                      y.versions[u].submits > 0 /\ (OnItsWay(u)' => y.versions[u].submits > 1)
                 /\ y.versions[u].submits > 0 => y.cycles[u[1]] # "none"
      <4>1. CASE u # v
        BY <2>2, <3>2, <3>3, <4>1 DEF CopiesFit
      <4>2. CASE u = v
        <5>1. \A k \in flying' : k[1] = v => k[3] \in Nat /\ k[3] < y.versions[v].submits
          BY <1>2, <3>1, <3>2, <3>3 DEF CopiesFit
        <5>2. remote[v] \notin {"none", "sealed"} => b.versions[v].submits > 0
          BY <1>2, <3>3 DEF CopiesFit
        <5> QED
          BY <3>1, <3>2, <4>2, <5>1, <5>2
      <4> QED
        BY <4>1, <4>2
    <3>5. CopiesFit(Store)'
      BY <1>17, <3>4 DEF CopiesFit, Store
    <3>6. SeenIsReal(Store)'
      BY <1>16, <1>17 DEF RemotesFit, SeenIsReal, Store
    <3>7. \A u \in Versions : MayRun(u)' => Covers(Store, u)' \/ Excused(Store, u)'
      BY <1>15, <1>17, <2>3 DEF Covers, Excused, Store
    <3> QED
      BY <3>5, <3>6, <3>7 DEF RemotesFit
  <2> QED
    BY <2>4, <2>5
<1>20. TasksHoldRows' /\ AnswersAreReal' /\ RejectedIsOver'
  <2>1. task \in [Workers -> TaskRow] /\ task[w] \in TaskRow
    BY DEF GuardianInv, TasksHoldRows
  <2> DEFINE t == [task[w] EXCEPT !.pc = "calling", !.op = op]
  <2>2. /\ task' = [task EXCEPT ![w] = t] /\ t.pc = "calling" /\ t.op = op /\ t.key = r.key
        /\ t \in TaskRow
    <3> DEFINE t0 == [task[w] EXCEPT !.pc = "calling"]
    <3>1. t0 \in TaskRow /\ t0.pc = "calling" /\ t0.key = r.key
      BY <1>1, <2>1 DEF TaskRow
    <3>2. t = [t0 EXCEPT !.op = op] /\ task' = [task EXCEPT ![w] = t]
      BY <1>5, <2>1 DEF TaskRow
    <3> HIDE DEF t0, t
    <3> QED
      BY <1>4, <3>1, <3>2 DEF TaskRow
  <2> HIDE DEF t
  <2>3. task' \in [Workers -> TaskRow] /\ task'[w] = t
        /\ \A q \in Workers : q # w => task'[q] = task[q]
    BY <2>1, <2>2
  <2>4. TasksHoldRows'
    BY <1>2, <1>4, <1>13, <1>17, <2>2, <2>3 DEF GuardianInv, TasksHoldRows
  <2>5. AnswersAreReal'
    BY <2>2, <2>3 DEF GuardianInv, AnswersAreReal, AnswerIsReal
  <2>6. RejectedIsOver'
    BY <1>13, <1>17, <2>2, <2>3 DEF RejectedIsOver
  <2> QED
    BY <2>4, <2>5, <2>6
<1> QED
  BY <1>17, <1>18, <1>19, <1>20 DEF GuardianInv

LEMMA PrepareWorkSteps ==
    ASSUME GuardianInv, NEW w \in Workers, Prepare(w)
    PROVE  GuardianInv'
<1>1. PICK r \in Mine(w), passed \in BOOLEAN :
             LET v == r.key[1]
                 op == Operation(r)
                 x == Prepared(r)
                 over == cycles[v[1]] \in CycleTerminal \/ versions[v].status \in VersionTerminal
             IN  \/ over
                 \/ /\ versions[v].seen \in RemoteTerminal
                    /\ Ends(w, Stop(Done(x, r.key), v, "INFRA_FAILED", FALSE))
                 \/ Ends(w, Stop(Done(x, r.key), v, "UNRESOLVED", TRUE))
                 \/ Ends(w, [x EXCEPT !.works = (@ \ {r}) \cup
                               {[r EXCEPT !.owner = NoWorker, !.live = FALSE]}])
                 \/ op = "DISPATCH_VERSION" /\ versions[v].submits >= MaxSubmits
                 \/ BeginCall(w, r)
  BY PrepareCases
<1> DEFINE v == r.key[1]
<1> DEFINE x == Prepared(r)
<1> DEFINE b == PreparedBare(r)
<1> DEFINE d == Done(x, r.key)
<1>2. /\ r \in works /\ cycles[v[1]] \notin CycleTerminal
      /\ versions[v].status \notin VersionTerminal
  BY ClaimedRow
<1>3. r \in WorkRow /\ r.key \in WorkKeys /\ v \in Versions
  BY <1>2, OpenRow
<1>4. /\ x \in StoreRow /\ x.works = {r} /\ b.cycles = x.cycles /\ b.versions = x.versions
      /\ b.occupancy = x.occupancy /\ b.used = x.used
      /\ Bare(b, v) /\ AllSpent(b) /\ Matches(b, v) /\ AsksFor(b, r)
      /\ b.versions[v].seen = versions[v].seen
      /\ b.versions[v].submits = versions[v].submits
  BY <1>2, PreparedIs
<1> HIDE DEF x, b
<1>5. Bare(d, v) /\ Matches(d, v)
  BY <1>3, <1>4, DoneHolds
<1>6. UNCHANGED <<day, late, expiries, remote>> /\ task[w].pc = "claimed"
  BY DEF Prepare
<1> HIDE DEF d
<1>7. CASE versions[v].seen \in RemoteTerminal /\ Ends(w, Stop(d, v, "INFRA_FAILED", FALSE))
  <2>1. ~MayRun(v)
    BY <1>3, <1>4, <1>7 DEF AsksFor, Matches, SeenIsReal, MayRun
  <2>2. SafeStore(Stop(d, v, "INFRA_FAILED", FALSE))
    BY <1>5, <2>1, StopHolds DEF VersionTerminal
  <2> QED
    BY <1>6, <1>7, <2>2, EndsHolds
<1>8. CASE Ends(w, Stop(d, v, "UNRESOLVED", TRUE))
  <2>1. SafeStore(Stop(d, v, "UNRESOLVED", TRUE))
    BY <1>5, StopHolds DEF VersionTerminal
  <2> QED
    BY <1>6, <1>8, <2>1, EndsHolds
<1>9. CASE Ends(w, [x EXCEPT !.works = (@ \ {r}) \cup {[r EXCEPT !.owner = NoWorker, !.live = FALSE]}])
  <2> DEFINE r2 == [r EXCEPT !.owner = NoWorker, !.live = FALSE]
  <2> DEFINE y == [x EXCEPT !.works = (@ \ {r}) \cup {r2}]
  <2>1. r2 \in WorkRow /\ r2.key = r.key /\ r2.started = r.started /\ ~r2.live
    BY <1>3 DEF WorkRow
  <2> HIDE DEF r2
  <2>2. /\ y \in StoreRow /\ y.works = {r2} /\ y.cycles = b.cycles /\ y.versions = b.versions
        /\ y.occupancy = b.occupancy /\ y.used = b.used
    <3>1. y = [x EXCEPT !.works = {r2}]
      BY <1>4
    <3> HIDE DEF y
    <3> QED
      BY <1>4, <2>1, <3>1 DEF StoreRow
  <2>3. AsksFor(b, r2)
    BY <1>4, <2>1 DEF AsksFor
  <2>4. Ends(w, y)
    BY <1>9 DEF r2
  <2> HIDE DEF y
  <2>5. SafeStore(y)
    BY <1>4, <2>1, <2>2, <2>3, RowHolds DEF SafeStore
  <2> QED
    BY <1>6, <2>4, <2>5, EndsHolds
<1>10. CASE Operation(r) = "DISPATCH_VERSION" /\ versions[v].submits >= MaxSubmits
  <2>1. r.key[2] = "DISPATCH_VERSION" /\ ~r.started
    BY <1>2, <1>10, OperationIs
  <2>2. b.versions[v].submits = r.key[3] /\ r.key[3] < MaxSubmits /\ r.key[3] \in Nat
    BY <1>3, <1>4, <2>1, KeyParts DEF AsksFor
  <2> QED
    BY <1>4, <1>10, <2>2, GuardianAssumption
<1>11. CASE BeginCall(w, r)
  BY <1>6, <1>11, BeginHolds
<1> QED
  BY <1>1, <1>2, <1>7, <1>8, <1>9, <1>10, <1>11 DEF d, x

\* A row changes hands: its number and whether it was started stay.
LEMMA RowChanges ==
    ASSUME GuardianInv, NEW r \in works, NEW r2 \in WorkRow, r2.key = r.key,
           r2.started = r.started, works' = (works \ {r}) \cup {r2},
           UNCHANGED <<cycles, versions, occupancy, used, providerVars>>
    PROVE  /\ StoreInv(Store') /\ OpenKeys(Store') = used' /\ works' = {r2}
           /\ ProviderTypes' /\ RemotesFit(Store)'
<1> DEFINE b == [Store EXCEPT !.works = {}]
<1> DEFINE y == Store'
<1>1. /\ works = {r} /\ Bare(b, r.key[1]) /\ AllSpent(b) /\ Matches(b, r.key[1])
      /\ AsksFor(Store, r)
  BY OpenRow
<1>2. works' = {r2}
  BY <1>1
<1>3. /\ b.cycles = cycles /\ b.versions = versions /\ b.occupancy = occupancy /\ b.used = used
      /\ Store \in StoreRow
  BY DEF Store, GuardianInv, StoreInv
<1>4. /\ y \in StoreRow /\ y.works = {r2} /\ y.cycles = b.cycles /\ y.versions = b.versions
      /\ y.occupancy = b.occupancy /\ y.used = b.used
  BY <1>2, <1>3 DEF Store, StoreRow
<1>5. AsksFor(b, r2)
  BY <1>1, <1>3 DEF AsksFor, Store
<1>6. r2.key[1] = r.key[1]
  OBVIOUS
<1> HIDE DEF b, y
<1>7. StoreInv(y) /\ RemotesFit(y)
  BY <1>1, <1>4, <1>5, <1>6, RowHolds
<1>8. OpenKeys(y) = used'
  BY <1>3, <1>4 DEF GuardianInv, OpenKeys, Store
<1>9. ProviderTypes'
  BY DEF GuardianInv, ProviderTypes, providerVars
<1>10. RemotesFit(Store)'
  <2>1. /\ works' = y.works /\ versions' = y.versions /\ occupancy' = y.occupancy
        /\ cycles' = y.cycles
    BY DEF y, Store
  <2> QED
    BY <1>7, <2>1, FitsAfter
<1> QED
  BY <1>2, <1>7, <1>8, <1>9, <1>10 DEF y

LEMMA ClaimDueSteps ==
    ASSUME GuardianInv, NEW w \in Workers, ClaimDue(w)
    PROVE  GuardianInv'
<1>1. PICK r \in works :
         /\ works' = (works \ {r}) \cup {[r EXCEPT !.owner = w, !.live = TRUE]}
         /\ task' = [task EXCEPT ![w] = [NoTask EXCEPT !.pc = "claimed", !.key = r.key]]
  BY DEF ClaimDue
<1> DEFINE r2 == [r EXCEPT !.owner = w, !.live = TRUE]
<1> DEFINE t == [NoTask EXCEPT !.pc = "claimed", !.key = r.key]
<1>2. r \in WorkRow /\ r.key \in WorkKeys
  BY OpenRow
<1>3. r2 \in WorkRow /\ r2.key = r.key /\ r2.started = r.started /\ r2.owner = w
  BY <1>2 DEF WorkRow
<1>4. t \in TaskRow /\ t.pc = "claimed" /\ t.key = r.key
  BY <1>2 DEF NoTask, TaskRow
<1> HIDE DEF r2, t
<1>5. UNCHANGED <<day, cycles, versions, occupancy, used, providerVars>>
  BY DEF ClaimDue
<1>6. /\ StoreInv(Store') /\ OpenKeys(Store') = used' /\ works' = {r2}
      /\ ProviderTypes' /\ RemotesFit(Store)'
  BY <1>1, <1>3, <1>5, RowChanges DEF r2
<1>7. task' = [task EXCEPT ![w] = t]
  BY <1>1 DEF t
<1>8. AnswersAreReal'
  BY <1>4, <1>5, <1>7, AnswersStay DEF GuardianInv
<1>9. TasksHoldRows'
  BY <1>2, <1>3, <1>4, <1>6, <1>7 DEF GuardianInv, TasksHoldRows
<1>10. RejectedIsOver'
  BY <1>3, <1>4, <1>6, <1>7 DEF GuardianInv, TasksHoldRows, RejectedIsOver
<1> QED
  BY <1>5, <1>6, <1>8, <1>9, <1>10 DEF GuardianInv

LEMMA ExpirySteps ==
    ASSUME GuardianInv, ClaimExpires
    PROVE  GuardianInv'
<1>1. PICK r \in works : works' = (works \ {r}) \cup {[r EXCEPT !.live = FALSE]}
  BY DEF ClaimExpires
<1> DEFINE r2 == [r EXCEPT !.live = FALSE]
<1>2. r \in WorkRow
  BY OpenRow
<1>3. r2 \in WorkRow /\ r2.key = r.key /\ r2.started = r.started /\ ~r2.live
  BY <1>2 DEF WorkRow
<1> HIDE DEF r2
<1>5. UNCHANGED <<day, cycles, versions, occupancy, used, task, providerVars>>
  BY DEF ClaimExpires
<1>6. /\ StoreInv(Store') /\ OpenKeys(Store') = used' /\ works' = {r2}
      /\ ProviderTypes' /\ RemotesFit(Store)'
  BY <1>1, <1>3, <1>5, RowChanges DEF r2
<1>8. AnswersAreReal' /\ TasksHoldRows' /\ RejectedIsOver'
  BY <1>3, <1>5, <1>6
     DEF GuardianInv, AnswersAreReal, AnswerIsReal, TasksHoldRows, RejectedIsOver, providerVars
<1> QED
  BY <1>5, <1>6, <1>8 DEF GuardianInv

\* Steps that leave the rows alone.
LEMMA StoreStays ==
    ASSUME GuardianInv, UNCHANGED <<cycles, versions, occupancy, works, used>>
    PROVE  /\ StoreInv(Store') /\ OpenKeys(Store') = used'
           /\ UNCHANGED providerVars => RemotesFit(Store)' /\ ProviderTypes'
<1>1. Store' = Store /\ used' = used
  BY DEF Store
<1>2. ASSUME UNCHANGED providerVars PROVE RemotesFit(Store)' /\ ProviderTypes'
  <2>1. RemotesFit(Store) /\ ProviderTypes
    BY DEF GuardianInv
  <2>2. /\ works' = Store.works /\ versions' = Store.versions
        /\ occupancy' = Store.occupancy /\ cycles' = Store.cycles
    BY DEF Store
  <2>3. RemotesFit(Store)'
    BY <1>2, <2>1, <2>2, FitsAfter
  <2> QED
    BY <1>2, <2>1, <2>3 DEF ProviderTypes, providerVars
<1> QED
  BY <1>1, <1>2 DEF GuardianInv

LEMMA ClockSteps ==
    ASSUME GuardianInv, NewDay \/ DeadlinePasses \/ UNCHANGED guardianVars
    PROVE  GuardianInv'
<1>1. UNCHANGED <<cycles, versions, occupancy, works, used, task, providerVars>>
  BY DEF NewDay, DeadlinePasses, guardianVars, providerVars
<1>2. day' \in 0..LastDay
  BY GuardianAssumption DEF NewDay, DeadlinePasses, guardianVars, GuardianInv, Days
<1>3. StoreInv(Store') /\ OpenKeys(Store') = used'
  BY <1>1, StoreStays
<1>4. RemotesFit(Store)' /\ ProviderTypes'
  BY <1>1, StoreStays
<1>5. TasksHoldRows' /\ AnswersAreReal'
  BY <1>1 DEF GuardianInv, TasksHoldRows, AnswersAreReal, AnswerIsReal, providerVars
<1>6. RejectedIsOver'
  BY <1>1 DEF GuardianInv, RejectedIsOver, MayRun, OnItsWay, providerVars
<1> QED
  BY <1>2, <1>3, <1>4, <1>5, <1>6 DEF GuardianInv

LEMMA StaleSteps ==
    ASSUME GuardianInv, NEW w \in Workers, ClaimIsStale(w)
    PROVE  GuardianInv'
<1>1. /\ UNCHANGED <<day, cycles, versions, occupancy, works, used, providerVars>>
      /\ task' = [task EXCEPT ![w] = NoTask] /\ Mine(w) = {}
  BY DEF ClaimIsStale
<1>2. NoTask \in TaskRow /\ NoTask.pc = "idle"
  BY DEF NoTask, TaskRow
<1>3. StoreInv(Store') /\ OpenKeys(Store') = used'
  BY <1>1, StoreStays
<1>4. RemotesFit(Store)' /\ ProviderTypes'
  BY <1>1, StoreStays
<1>5. AnswersAreReal'
  BY <1>1, <1>2, AnswersStay DEF GuardianInv
<1>6. \A r \in works : r.live => r.owner # w
  BY <1>1 DEF Mine, GuardianInv, TasksHoldRows
<1>7. TasksHoldRows'
  BY <1>1, <1>2, <1>6 DEF GuardianInv, TasksHoldRows
<1>8. RejectedIsOver'
  BY <1>1, <1>2, <1>6 DEF GuardianInv, TasksHoldRows, RejectedIsOver, MayRun, OnItsWay, providerVars
<1> QED
  BY <1>1, <1>3, <1>4, <1>5, <1>7, <1>8 DEF GuardianInv

\* Steps of the provider: what is over stays over and nothing new may run.
LEMMA ProviderMoves ==
    ASSUME GuardianInv, UNCHANGED <<cycles, versions, occupancy, works, used>>,
           ProviderTypes', CopiesFit(Store)',
           \A v \in Versions : MayRun(v)' => MayRun(v),
           \A v \in Versions : remote[v] \in RemoteTerminal \cup {"sealed"} => remote'[v] = remote[v]
    PROVE  /\ StoreInv(Store') /\ OpenKeys(Store') = used' /\ RemotesFit(Store)'
           /\ \A w \in Workers : task[w].pc = "answered" =>
                /\ task[w].op = "DISPATCH_VERSION" =>
                     task[w].answer \in {"uncertain", "rejected", "receipt"}
                /\ task[w].op = "RECONCILE_REMOTE" =>
                     /\ task[w].answer \in {"error", "NOT_CREATED", "NOT_CREATED_FINAL", "FOUND"}
                     /\ task[w].answer = "NOT_CREATED_FINAL" => remote'[task[w].key[1]] = "sealed"
                /\ task[w].op \in {"POLL_REMOTE", "FETCH_TERMINAL_RESULT"} =>
                     /\ task[w].answer \in RemoteStates \cup {"error"}
                     /\ task[w].answer \in RemoteTerminal => remote'[task[w].key[1]] = task[w].answer
<1>1. StoreInv(Store') /\ OpenKeys(Store') = used'
  BY StoreStays
<1>3. RemotesFit(Store)'
  <2>1. SeenIsReal(Store)'
    BY DEF GuardianInv, RemotesFit, SeenIsReal, Store, RemoteTerminal
  <2>2. \A v \in Versions : MayRun(v) => Covers(Store, v) \/ Excused(Store, v)
    BY DEF GuardianInv, RemotesFit
  <2>3. \A v \in Versions : /\ Covers(Store, v) => Covers(Store, v)'
                            /\ Excused(Store, v) => Excused(Store, v)'
    BY DEF Covers, Excused, Store
  <2> QED
    BY <2>1, <2>2, <2>3 DEF RemotesFit
<1>4. ASSUME NEW w \in Workers, task[w].pc = "answered"
      PROVE  AnswerIsReal(task[w]) /\ task[w].key[1] \in Versions
  BY <1>4, KeyParts DEF GuardianInv, AnswersAreReal, TasksHoldRows
<1> QED
  BY <1>1, <1>3, <1>4 DEF AnswerIsReal, RemoteTerminal

\* A request that arrives, an execution that ends, a seal.
LEMMA ProviderSteps ==
    ASSUME GuardianInv, NEW v \in Versions, RemoteEnds(v) \/ Seal(v)
                                            \/ \E k \in flying : k[1] = v /\ ProviderAccepts(k)
    PROVE  GuardianInv'
<1>1. UNCHANGED <<day, cycles, versions, occupancy, works, used, task>>
  BY DEF ProviderAccepts, RemoteEnds, Seal
<1>2. /\ ProviderTypes /\ remote \in [Versions -> RemoteStates] /\ flying \subseteq WorkKeys
      /\ CopiesFit(Store) /\ Store.versions = versions /\ Store.cycles = cycles
      /\ versions[v].submits \in Nat
  BY SubmitsAre DEF GuardianInv, ProviderTypes, RemotesFit, StoreInv, Store
<1>3. /\ remote' \in [Versions -> RemoteStates] /\ flying' \subseteq flying
      /\ \A u \in Versions : u # v => remote'[u] = remote[u]
      /\ \/ remote'[v] = remote[v]
         \/ remote[v] = "none" /\ OnItsWay(v) /\ remote'[v] = "RUNNING"
         \/ remote[v] = "RUNNING" /\ remote'[v] \in RemoteTerminal
         \/ remote[v] = "none" /\ remote'[v] = "sealed"
  BY <1>2 DEF ProviderAccepts, RemoteEnds, Seal, RemoteStates, RemoteTerminal, OnItsWay
<1>4. /\ \A u \in Versions : OnItsWay(u)' => OnItsWay(u)
      /\ \A u \in Versions : MayRun(u)' => MayRun(u)
      /\ \A u \in Versions : remote[u] \in RemoteTerminal \cup {"sealed"} => remote'[u] = remote[u]
  <2>1. \A u \in Versions : OnItsWay(u)' => OnItsWay(u)
    BY <1>3 DEF OnItsWay
  <2> QED
    BY <1>3, <2>1 DEF MayRun, RemoteTerminal
<1>5. ProviderTypes'
  BY <1>2, <1>3 DEF ProviderTypes
<1>6. remote'[v] \notin {"none", "sealed"} =>
         versions[v].submits > 0 /\ (OnItsWay(v)' => versions[v].submits > 1)
  <2>1. CASE remote[v] \notin {"none", "sealed"}
    BY <1>2, <1>4, <2>1 DEF CopiesFit
  <2>2. CASE remote[v] \in {"none", "sealed"} /\ remote'[v] \notin {"none", "sealed"}
    <3>1. PICK k \in flying : k[1] = v /\ ProviderAccepts(k)
      BY <1>3, <2>2 DEF RemoteEnds, Seal
    <3>2. flying' = flying \ {k} /\ k \in WorkKeys /\ k[2] = "DISPATCH_VERSION"
      BY <1>2, <3>1 DEF ProviderAccepts, ProviderTypes
    <3>3. k[3] \in Nat /\ k[3] < versions[v].submits
      BY <1>2, <3>1 DEF CopiesFit
    <3>4. ASSUME OnItsWay(v)' PROVE versions[v].submits > 1
      <4>1. PICK j \in flying : j # k /\ j[1] = v
        BY <3>2, <3>4 DEF OnItsWay
      <4>2. j \in WorkKeys /\ j[2] = "DISPATCH_VERSION"
        BY <1>2, <4>1 DEF ProviderTypes
      <4>3. j[3] \in Nat /\ j[3] < versions[v].submits
        BY <1>2, <4>1 DEF CopiesFit
      <4>4. j = <<v, "DISPATCH_VERSION", j[3]>> /\ k = <<v, "DISPATCH_VERSION", k[3]>>
        BY <3>1, <3>2, <4>1, <4>2, KeyParts
      <4>5. j[3] # k[3]
        BY <4>1, <4>4
      <4> QED
        BY <1>2, <3>3, <4>3, <4>5
    <3> QED
      BY <1>2, <3>3, <3>4
  <2> QED
    BY <2>1, <2>2
<1>7. CopiesFit(Store)'
  <2>1. Store'.versions = versions /\ Store'.cycles = cycles
    BY <1>1 DEF Store
  <2> SUFFICES ASSUME NEW u \in Versions
               PROVE  /\ \A k \in flying' : k[1] = u => k[3] \in Nat /\ k[3] < versions[u].submits
                      /\ remote'[u] \notin {"none", "sealed"} =>
                           versions[u].submits > 0 /\ (OnItsWay(u)' => versions[u].submits > 1)
                      /\ versions[u].submits > 0 => cycles[u[1]] # "none"
    BY <2>1 DEF CopiesFit
  <2> QED
    BY <1>2, <1>3, <1>4, <1>6 DEF CopiesFit
<1>8. StoreInv(Store') /\ OpenKeys(Store') = used' /\ RemotesFit(Store)'
  BY <1>1, <1>4, <1>5, <1>7, ProviderMoves
<1>9. AnswersAreReal'
  <2> SUFFICES ASSUME NEW w \in Workers, task[w].pc = "answered" PROVE AnswerIsReal(task[w])'
    BY <1>1 DEF AnswersAreReal
  <2> QED
    BY <1>1, <1>4, <1>5, <1>7, ProviderMoves DEF AnswerIsReal
<1>10. TasksHoldRows'
  BY <1>1 DEF GuardianInv, TasksHoldRows
<1>11. RejectedIsOver'
  <2>1. \A r \in works : r.key[1] \in Versions
    BY OpenRow
  <2> QED
    BY <1>1, <1>4, <2>1 DEF GuardianInv, RejectedIsOver
<1> QED
  BY <1>1, <1>5, <1>8, <1>9, <1>10, <1>11 DEF GuardianInv

LEMMA AnsweredSteps ==
    ASSUME GuardianInv, NEW w \in Workers, Answered(w)
    PROVE  GuardianInv'
<1> DEFINE v == task[w].key[1]
<1>1. PICK a \in Answers(w) :
         /\ task' = [task EXCEPT ![w].pc = "answered", ![w].answer = a]
         /\ flying' = IF a = "rejected" THEN flying \ {task[w].key} ELSE flying
  BY DEF Answered
<1>2. /\ UNCHANGED <<day, cycles, versions, occupancy, works, used, remote>>
      /\ task[w].pc = "calling"
  BY DEF Answered
<1>3. /\ task \in [Workers -> TaskRow] /\ task[w] \in TaskRow /\ task[w].op \in GuardianOps
      /\ task[w].key \in WorkKeys /\ v \in Versions /\ remote \in [Versions -> RemoteStates]
      /\ remote[v] \in RemoteStates /\ ProviderTypes /\ CopiesFit(Store)
  BY <1>2, KeyParts DEF GuardianInv, TasksHoldRows, ProviderTypes, RemotesFit
<1>4. /\ task[w].op = "DISPATCH_VERSION" =>
           /\ a \in {"uncertain", "rejected", "receipt"}
           /\ a = "rejected" => task[w].key \in flying
      /\ task[w].op = "RECONCILE_REMOTE" =>
           /\ a \in {"error", "NOT_CREATED", "NOT_CREATED_FINAL", "FOUND"}
           /\ a = "NOT_CREATED_FINAL" => remote[v] = "sealed"
      /\ task[w].op \in {"POLL_REMOTE", "FETCH_TERMINAL_RESULT"} => a \in {"error", remote[v]}
  BY DEF Answers
<1>5. a \in GuardianAnswers
  BY <1>3, <1>4 DEF GuardianAnswers, GuardianOps
<1>6. /\ flying' \subseteq flying /\ ProviderTypes'
      /\ \A u \in Versions : OnItsWay(u)' => OnItsWay(u)
      /\ \A u \in Versions : MayRun(u)' => MayRun(u)
  <2>1. flying' \subseteq flying /\ remote' = remote
    BY <1>1, <1>2
  <2>2. \A u \in Versions : OnItsWay(u)' => OnItsWay(u)
    BY <2>1 DEF OnItsWay
  <2>3. \A u \in Versions : MayRun(u)' => MayRun(u)
    BY <2>1, <2>2 DEF MayRun
  <2>4. ProviderTypes'
    BY <1>3, <2>1 DEF ProviderTypes
  <2> QED
    BY <2>1, <2>2, <2>3, <2>4
<1>7. CopiesFit(Store)'
  <2>1. Store'.versions = Store.versions /\ Store'.cycles = Store.cycles
    BY <1>2 DEF Store
  <2> QED
    BY <1>2, <1>3, <1>6, <2>1 DEF CopiesFit
<1>8. /\ StoreInv(Store') /\ OpenKeys(Store') = used' /\ RemotesFit(Store)'
  BY <1>2, <1>6, <1>7, ProviderMoves
<1> DEFINE t == [task[w] EXCEPT !.pc = "answered", !.answer = a]
<1>9. /\ t \in TaskRow /\ t.pc = "answered" /\ t.answer = a /\ t.op = task[w].op
      /\ t.key = task[w].key /\ task' = [task EXCEPT ![w] = t]
  <2> DEFINE t0 == [task[w] EXCEPT !.pc = "answered"]
  <2>1. t0 \in TaskRow /\ t0.pc = "answered" /\ t0.key = task[w].key /\ t0.op = task[w].op
    BY <1>3 DEF TaskRow
  <2>2. t = [t0 EXCEPT !.answer = a] /\ task' = [task EXCEPT ![w] = t]
    BY <1>1, <1>3 DEF TaskRow
  <2> HIDE DEF t0, t
  <2> QED
    BY <1>5, <2>1, <2>2 DEF TaskRow
<1> HIDE DEF t
<1>10. task'[w] = t /\ \A q \in Workers : q # w => task'[q] = task[q]
  BY <1>3, <1>9
<1>11. /\ task'[w].op = task[w].op /\ task'[w].answer = a /\ task'[w].key[1] = v
  BY <1>9, <1>10
<1>12. AnswersAreReal'
  <2> SUFFICES ASSUME NEW q \in Workers, task'[q].pc = "answered" PROVE AnswerIsReal(task[q])'
    BY DEF AnswersAreReal
  <2>1. CASE q = w
    BY <1>2, <1>3, <1>4, <1>11, <2>1 DEF AnswerIsReal, RemoteTerminal, RemoteStates
  <2>2. CASE q # w
    BY <1>2, <1>6, <1>7, <1>10, <2>2, ProviderMoves DEF AnswerIsReal
  <2> QED
    BY <2>1, <2>2
<1>13. TasksHoldRows'
  BY <1>2, <1>3, <1>9, <1>10 DEF GuardianInv, TasksHoldRows
<1>14. RejectedIsOver'
  <2> SUFFICES ASSUME NEW r \in works, r.live, task'[r.owner].pc = "answered",
                      task'[r.owner].op = "DISPATCH_VERSION",
                      task'[r.owner].answer = "rejected", r.key[3] = 0, MayRun(r.key[1])'
               PROVE  FALSE
    BY <1>2 DEF RejectedIsOver
  <2>1. /\ r.key[1] \in Versions /\ r.key \in WorkKeys /\ MayRun(r.key[1]) /\ AsksFor(Store, r)
        /\ r.owner \in Workers
    BY <1>6, OpenRow DEF GuardianInv, TasksHoldRows
  <2>2. CASE r.owner # w
    BY <1>10, <2>1, <2>2 DEF GuardianInv, RejectedIsOver
  <2>3. CASE r.owner = w
    <3>1. /\ task[w].op = "DISPATCH_VERSION" /\ a = "rejected" /\ r.key \in flying
          /\ task[w].key = r.key /\ r.started /\ r.key[2] = "DISPATCH_VERSION"
      BY <1>2, <1>4, <1>11, <2>3 DEF GuardianInv, TasksHoldRows
    <3>2. versions[v].submits = 1 /\ r.key[1] = v
      BY <2>1, <3>1 DEF AsksFor, Store
    <3>3. remote[v] \in {"none", "sealed"}
      BY <1>3, <3>1, <3>2 DEF CopiesFit, OnItsWay, Store
    <3>4. PICK k \in flying' : k[1] = v
      BY <1>2, <3>2, <3>3 DEF MayRun, OnItsWay
    <3>5. k \in flying /\ k # r.key
      BY <1>1, <3>1, <3>4
    <3>6. k[3] \in Nat /\ k[3] < 1
      BY <1>3, <3>2, <3>4, <3>5 DEF CopiesFit, Store
    <3>7. k \in WorkKeys /\ k[2] = "DISPATCH_VERSION" /\ k[3] = 0
      BY <1>3, <3>5, <3>6 DEF ProviderTypes
    <3>8. k = <<v, "DISPATCH_VERSION", 0>> /\ r.key = <<v, "DISPATCH_VERSION", 0>>
      BY <2>1, <3>1, <3>2, <3>4, <3>7, KeyParts
    <3> QED
      BY <3>5, <3>8
  <2> QED
    BY <2>2, <2>3
<1> QED
  BY <1>2, <1>6, <1>8, <1>12, <1>13, <1>14 DEF GuardianInv

LEMMA ResolveSteps ==
    ASSUME GuardianInv, NEW v \in Versions, ResolveHold(v)
    PROVE  GuardianInv'
<1> DEFINE y == Store'
<1>1. /\ UNCHANGED <<day, cycles, versions, works, used, task, providerVars>>
      /\ cycles[v[1]] = "UNRESOLVED" /\ occupancy.hold /\ occupancy.cycle = v[1]
      /\ remote[v] \in RemoteTerminal \cup {"sealed"}
      /\ occupancy' = [cycle |-> 0, hold |-> FALSE, resume |-> day,
                       resolved |-> occupancy.resolved \cup {v}]
  BY DEF ResolveHold
<1>2. Store \in StoreRow /\ CyclesMatch(Store) /\ OneUnresolved(Store) /\ OneRow(Store)
  BY DEF GuardianInv, StoreInv
<1>3. used = {} /\ works = {}
  <2>1. \A k \in used : Driven(Store, k[1])
    BY DEF GuardianInv, StoreInv
  <2> QED
    BY <1>1, <1>2, <2>1 DEF Driven, OneRow, Store
<1>4. occupancy' \in OccupancyRow
  <2>1. occupancy \in OccupancyRow
    BY <1>2, StoreParts DEF Store
  <2> QED
    BY <1>1, <2>1, GuardianAssumption DEF OccupancyRow, GuardianInv
<1>5. y \in StoreRow
  BY <1>1, <1>2, <1>4 DEF Store, StoreRow
<1>6. /\ y.occupancy.cycle = 0 /\ ~y.occupancy.hold /\ y.cycles = Store.cycles
      /\ y.versions = Store.versions /\ y.works = {} /\ y.used = {}
  BY <1>1, <1>3 DEF Store
<1>7. \A d \in Days : d # 0
  BY GuardianAssumption DEF Days
<1>8. CyclesMatch(y)
  BY <1>1, <1>2, <1>6, <1>7 DEF CyclesMatch, Store
<1>9. OneUnresolved(y) /\ OneRow(y) /\ OpenKeys(y) = {}
  BY <1>2, <1>6 DEF OneUnresolved, OneRow, OpenKeys
<1>10. StoreInv(y)
  BY <1>5, <1>8, <1>9 DEF StoreInv
<1>11. ASSUME NEW u \in Versions, MayRun(u) PROVE Excused(y, u)
  <2>1. Covers(Store, u) \/ Excused(Store, u)
    BY <1>11 DEF GuardianInv, RemotesFit
  <2>2. u # v /\ v \in y.occupancy.resolved /\ occupancy.resolved \subseteq y.occupancy.resolved
    BY <1>1, <1>11 DEF MayRun, RemoteTerminal, Store
  <2>3. CASE Covers(Store, u)
    BY <1>1, <1>6, <2>2, <2>3 DEF Covers, Excused, Store
  <2>4. CASE Excused(Store, u)
    BY <1>6, <2>2, <2>4 DEF Excused, Store
  <2> QED
    BY <2>1, <2>3, <2>4
<1>12. RemotesFit(Store)' /\ ProviderTypes'
  <2>1. SeenIsReal(Store)' /\ CopiesFit(Store)' /\ ProviderTypes'
    BY <1>1 DEF GuardianInv, RemotesFit, SeenIsReal, CopiesFit, OnItsWay, Store, ProviderTypes,
                providerVars
  <2>2. \A u \in Versions : MayRun(u)' => MayRun(u)
    BY <1>1 DEF MayRun, OnItsWay, providerVars
  <2>3. \A u \in Versions : MayRun(u)' => Excused(Store, u)'
    <3>1. \A u \in Versions : Excused(y, u) => Excused(Store, u)'
      BY DEF Excused
    <3> QED
      BY <1>11, <2>2, <3>1
  <2> QED
    BY <2>1, <2>3 DEF RemotesFit
<1>13. TasksHoldRows' /\ AnswersAreReal' /\ RejectedIsOver'
  BY <1>1, <1>3 DEF GuardianInv, TasksHoldRows, AnswersAreReal, AnswerIsReal, RejectedIsOver,
                    providerVars
<1> QED
  BY <1>1, <1>3, <1>9, <1>10, <1>12, <1>13 DEF GuardianInv

LEMMA DiscoverSteps ==
    ASSUME GuardianInv, Discover
    PROVE  GuardianInv'
<1>1. /\ day \in Days /\ cycles[day] = "none" /\ day # 0
      /\ UNCHANGED <<day, late, expiries, task, providerVars>>
  BY GuardianAssumption DEF Discover, GuardianInv, Days
<1>2. /\ Store \in StoreRow /\ CyclesMatch(Store) /\ OneUnresolved(Store) /\ OneRow(Store)
      /\ \A k \in used : Spent(Store, k) /\ Driven(Store, k[1])
      /\ RemotesFit(Store)
  BY DEF GuardianInv, StoreInv
<1>3. occupancy.cycle # day
  BY <1>1, <1>2 DEF CyclesMatch, Store, OpenCycle
<1>4. \A v \in Versions : v[1] = day =>
         ~MayRun(v) /\ ~OnItsWay(v) /\ remote[v] \in {"none", "sealed"}
  <2> SUFFICES ASSUME NEW v \in Versions, v[1] = day
               PROVE  ~OnItsWay(v) /\ remote[v] \in {"none", "sealed"}
    BY DEF MayRun
  <2>1. versions[v].submits = 0
    BY <1>1, <1>2, SubmitsAre DEF RemotesFit, CopiesFit, Store
  <2> QED
    BY <1>2, <2>1 DEF RemotesFit, CopiesFit, OnItsWay, Store
<1>8. InStatus("SKIPPED").submits = 0 /\ InStatus("PLANNED").submits = 0
  BY DEF InStatus
<1>5. \A s \in {"PLANNED", "SKIPPED"} : InStatus(s) \in VersionRow
  BY DEF InStatus, VersionRow, RemoteStates, VersionTerminal
<1>6. CASE EnvironmentTaken
  <2> DEFINE vs == [v \in Versions |-> IF v[1] = day THEN InStatus("SKIPPED") ELSE versions[v]]
  <2> DEFINE cs == [cycles EXCEPT ![day] = "SKIPPED_OVERLAP"]
  <2> DEFINE y == [Store EXCEPT !.cycles = cs, !.versions = vs]
  <2>1. Save(y)
    BY <1>6 DEF Discover, Store
  <2>2. /\ vs \in [Versions -> VersionRow]
        /\ cs \in [Days -> {"none"} \cup OpenCycle \cup CycleTerminal]
    BY <1>2, <1>5, StoreParts DEF Store, CycleTerminal
  <2>3. /\ \A v \in Versions : v[1] # day => vs[v] = versions[v]
        /\ \A v \in Versions : v[1] = day => vs[v] = InStatus("SKIPPED")
        /\ cs[day] = "SKIPPED_OVERLAP" /\ \A d \in Days : d # day => cs[d] = cycles[d]
    BY <1>1, <1>2, StoreParts DEF Store
  <2>4. /\ y \in StoreRow /\ y.cycles = cs /\ y.versions = vs /\ y.occupancy = occupancy
        /\ y.works = works /\ y.used = used
    <3> HIDE DEF vs, cs
    <3> QED
      BY <1>2, <2>2 DEF Store, StoreRow
  <2> HIDE DEF vs, cs, y
  <2>5. CyclesMatch(y)
    <3>1. /\ \A d \in Days : cycles[d] \in OpenCycle <=> (occupancy.cycle = d /\ ~occupancy.hold)
          /\ occupancy.hold => occupancy.cycle # 0 /\ cycles[occupancy.cycle] = "UNRESOLVED"
      BY <1>2 DEF CyclesMatch, Store
    <3>2. \A d \in Days : cs[d] \in OpenCycle <=> (occupancy.cycle = d /\ ~occupancy.hold)
      <4>1. cs[day] \notin OpenCycle
        BY <2>3 DEF OpenCycle
      <4> QED
        BY <1>3, <2>3, <3>1, <4>1
    <3>3. occupancy.hold => occupancy.cycle # 0 /\ cs[occupancy.cycle] = "UNRESOLVED"
      <4>1. occupancy.cycle \in 0..LastDay
        BY <1>2, StoreParts DEF Store, OccupancyRow
      <4>2. occupancy.cycle # 0 => occupancy.cycle \in Days
        BY <4>1, GuardianAssumption DEF Days
      <4> QED
        BY <1>3, <2>3, <3>1, <4>2
    <3> QED
      BY <2>4, <3>2, <3>3 DEF CyclesMatch
  <2>6. OneUnresolved(y)
    BY <1>2, <2>3, <2>4 DEF OneUnresolved, Store, InStatus
  <2>7. \A v \in Versions : Driven(Store, v) => Driven(y, v) /\ v[1] # day
    BY <1>3, <2>3, <2>4 DEF Driven, Store
  <2>8. \A r \in works : r.key[1] \in Versions
    BY OpenRow
  <2>9. OneRow(y)
    <3>1. \A r \in works : Driven(Store, r.key[1]) /\ AsksFor(Store, r) => AsksFor(y, r)
      BY <2>3, <2>4, <2>7, <2>8 DEF AsksFor, Store
    <3> QED
      BY <1>2, <2>4, <2>7, <2>8, <3>1 DEF OneRow, Store
  <2>10. \A k \in OpenKeys(y) : Spent(y, k) /\ Driven(y, k[1])
    <3> SUFFICES ASSUME NEW k \in used PROVE Spent(y, k) /\ Driven(y, k[1])
      BY <2>4 DEF OpenKeys
    <3>1. k[1] \in Versions /\ Driven(Store, k[1]) /\ Spent(Store, k)
      BY <1>2, StoreParts, KeyParts DEF Store
    <3> QED
      BY <2>3, <2>4, <2>7, <3>1 DEF Spent, Store
  <2>11. StoreInv(y)
    BY <2>4, <2>5, <2>6, <2>9, <2>10 DEF StoreInv
  <2>12. RemotesFit(y)
    <3>1. SeenIsReal(y)
      BY <1>2, <2>3, <2>4 DEF RemotesFit, SeenIsReal, Store, InStatus
    <3>2. CopiesFit(y)
      <4> SUFFICES ASSUME NEW v \in Versions
                   PROVE  /\ \A k \in flying : k[1] = v => k[3] \in Nat /\ k[3] < vs[v].submits
                          /\ remote[v] \notin {"none", "sealed"} =>
                               vs[v].submits > 0 /\ (OnItsWay(v) => vs[v].submits > 1)
                          /\ vs[v].submits > 0 => cs[v[1]] # "none"
        BY <2>4 DEF CopiesFit
      <4>1. v[1] \in Days
        BY VersionsAre
      <4>2. CASE v[1] = day
        BY <1>4, <2>3, <4>2, <1>8 DEF OnItsWay
      <4>3. CASE v[1] # day
        BY <1>2, <2>3, <4>1, <4>3 DEF RemotesFit, CopiesFit, Store
      <4> QED
        BY <4>2, <4>3
    <3>3. \A v \in Versions : MayRun(v) => Covers(y, v) \/ Excused(y, v)
      BY <1>2, <1>4, <2>3, <2>4 DEF RemotesFit, Covers, Excused, Store
    <3> QED
      BY <3>1, <3>2, <3>3 DEF RemotesFit
  <2>13. /\ StoreInv(Store') /\ OpenKeys(Store') = used'
         /\ works' = works /\ versions' = y.versions /\ occupancy' = y.occupancy
         /\ cycles' = y.cycles
    BY <2>1, <2>4, <2>11, SaveKeeps
  <2>14. RemotesFit(Store)' /\ ProviderTypes'
    BY <1>1, <2>4, <2>12, <2>13, FitsAfter DEF GuardianInv, ProviderTypes, providerVars
  <2>15. TasksHoldRows' /\ AnswersAreReal' /\ RejectedIsOver'
    BY <1>1, <2>13 DEF GuardianInv, TasksHoldRows, AnswersAreReal, AnswerIsReal, RejectedIsOver,
                       MayRun, OnItsWay, providerVars
  <2> QED
    BY <1>1, <2>13, <2>14, <2>15 DEF GuardianInv
<1>7. CASE ~EnvironmentTaken
  <2> DEFINE vs == [v \in Versions |-> IF v[1] = day THEN InStatus("PLANNED") ELSE versions[v]]
  <2> DEFINE cs == [cycles EXCEPT ![day] = "READY"]
  <2> DEFINE oc == [occupancy EXCEPT !.cycle = day]
  <2> DEFINE b == [Store EXCEPT !.cycles = cs, !.versions = vs, !.occupancy = oc]
  <2> DEFINE v1 == <<day, 1>>
  <2>1. occupancy.cycle = 0 /\ ~occupancy.hold
    BY <1>7 DEF EnvironmentTaken
  <2>2. Save(Due(b, v1, "DISPATCH_VERSION", 0))
    <3>1. b = [Store EXCEPT !.cycles[day] = "READY", !.occupancy.cycle = day,
                !.versions = [v \in Versions |-> IF v[1] = day THEN InStatus("PLANNED") ELSE @[v]]]
      BY DEF Store
    <3> HIDE DEF b
    <3> QED
      BY <1>7, <3>1 DEF Discover
  <2>3. works = {} /\ used = {}
    BY <1>2, <2>1, StoreParts, KeyParts, VersionsAre DEF OneRow, Driven, Store
  <2>4. v1 \in Versions /\ v1[1] = day /\ v1[2] = 1
    BY <1>1, VersionsAre
  <2>5. /\ vs \in [Versions -> VersionRow]
        /\ cs \in [Days -> {"none"} \cup OpenCycle \cup CycleTerminal]
        /\ oc \in OccupancyRow /\ oc.cycle = day /\ ~oc.hold
    <3>1. vs \in [Versions -> VersionRow]
      BY <1>2, <1>5, StoreParts DEF Store
    <3>2. cs \in [Days -> {"none"} \cup OpenCycle \cup CycleTerminal]
      BY <1>2, StoreParts DEF Store, OpenCycle
    <3>3. occupancy \in OccupancyRow /\ day \in 0..LastDay
      BY <1>2, StoreParts DEF Store, GuardianInv
    <3>4. oc \in OccupancyRow /\ oc.cycle = day /\ ~oc.hold
      BY <2>1, <3>3 DEF OccupancyRow
    <3> QED
      BY <3>1, <3>2, <3>4
  <2>6. /\ \A v \in Versions : v[1] # day => vs[v] = versions[v]
        /\ \A v \in Versions : v[1] = day => vs[v] = InStatus("PLANNED")
        /\ cs[day] = "READY" /\ \A d \in Days : d # day => cs[d] = cycles[d]
    BY <1>1, <1>2, StoreParts DEF Store
  <2>7. /\ b \in StoreRow /\ b.cycles = cs /\ b.versions = vs /\ b.occupancy = oc
        /\ b.works = {} /\ b.used = {}
    <3> HIDE DEF vs, cs, oc
    <3> QED
      BY <1>2, <2>3, <2>5 DEF Store, StoreRow
  <2> HIDE DEF vs, cs, oc, b
  <2>8. CyclesMatch(b)
    <3>1. \A d \in Days : cycles[d] \notin OpenCycle
      BY <1>2, <2>1, GuardianAssumption DEF CyclesMatch, Store, Days
    <3> QED
      BY <2>5, <2>6, <2>7, <3>1 DEF CyclesMatch, OpenCycle
  <2>9. OneUnresolved(b)
    BY <1>2, <2>6, <2>7 DEF OneUnresolved, Store, InStatus
  <2>10. Driven(b, v1)
    <3>1. \A u \in Versions : u[1] = day => ~(u[2] < 1)
      BY VersionsAre, GuardianAssumption DEF Days
    <3> QED
      BY <2>4, <2>5, <2>6, <2>7, <3>1 DEF Driven, InStatus
  <2>11. OpenKeys(b) = {}
    BY <2>7 DEF OpenKeys
  <2>12. Bare(b, v1) /\ AllSpent(b)
    BY <2>4, <2>7, <2>8, <2>9, <2>10, <2>11 DEF Bare, AllSpent
  <2>13. Matches(b, v1)
    <3>1. SeenIsReal(b)
      BY <1>2, <2>6, <2>7 DEF RemotesFit, SeenIsReal, Store, InStatus
    <3>2. CopiesFit(b)
      <4> SUFFICES ASSUME NEW v \in Versions
                   PROVE  /\ \A k \in flying : k[1] = v => k[3] \in Nat /\ k[3] < vs[v].submits
                          /\ remote[v] \notin {"none", "sealed"} =>
                               vs[v].submits > 0 /\ (OnItsWay(v) => vs[v].submits > 1)
                          /\ vs[v].submits > 0 => cs[v[1]] # "none"
        BY <2>7 DEF CopiesFit
      <4>1. v[1] \in Days
        BY VersionsAre
      <4>2. CASE v[1] = day
        BY <1>4, <2>6, <4>2, <1>8 DEF OnItsWay
      <4>3. CASE v[1] # day
        BY <1>2, <2>6, <4>1, <4>3 DEF RemotesFit, CopiesFit, Store
      <4> QED
        BY <4>2, <4>3
    <3>3. \A u \in Versions : MayRun(u) => Excused(b, u)
      <4> SUFFICES ASSUME NEW u \in Versions, MayRun(u) PROVE Excused(b, u)
        OBVIOUS
      <4>1. u[1] # day /\ u[1] # 0
        BY <1>4, VersionsAre
      <4>2. Excused(Store, u)
        BY <1>2, <2>1, <4>1 DEF RemotesFit, Covers, Store
      <4>3. occupancy \in OccupancyRow
        BY <1>2, StoreParts DEF Store
      <4>4. b.occupancy.resolved = Store.occupancy.resolved
        BY <2>7, <4>3 DEF oc, Store, OccupancyRow
      <4> QED
        BY <2>6, <2>7, <4>1, <4>2, <4>4, ExcusedStays DEF Store
    <3> QED
      BY <3>1, <3>2, <3>3 DEF Matches
  <2>14. AsksFor(b, [key |-> <<v1, "DISPATCH_VERSION", 0>>, owner |-> NoWorker, live |-> FALSE,
                     started |-> FALSE])
    BY <2>4, <2>6, <2>7, GuardianAssumption DEF AsksFor, InStatus, RemoteTerminal
  <2> DEFINE y == Due(b, v1, "DISPATCH_VERSION", 0)
  <2> HIDE DEF v1
  <2>15. SafeStore(y)
    BY <2>7, <2>12, <2>13, <2>14, DueHolds DEF GuardianOps
  <2> HIDE DEF y
  <2>16. /\ StoreInv(Store') /\ OpenKeys(Store') = used'
         /\ works' = y.works /\ versions' = y.versions /\ occupancy' = y.occupancy
         /\ cycles' = y.cycles
    BY <2>2, <2>15, SaveKeeps DEF SafeStore, y
  <2>17. RemotesFit(Store)' /\ ProviderTypes'
    BY <1>1, <2>15, <2>16, FitsAfter DEF SafeStore, GuardianInv, ProviderTypes, providerVars
  <2>18. \A r \in works' : ~r.live
    BY <2>15, <2>16 DEF SafeStore
  <2>19. TasksHoldRows' /\ AnswersAreReal' /\ RejectedIsOver'
    BY <1>1, <2>18 DEF GuardianInv, TasksHoldRows, AnswersAreReal, AnswerIsReal, RejectedIsOver,
                       providerVars
  <2> QED
    BY <1>1, <2>16, <2>17, <2>19 DEF GuardianInv
<1> QED
  BY <1>6, <1>7

LEMMA GuardianStep == GuardianInv /\ [GuardianNext]_guardianVars => GuardianInv'
<1> SUFFICES ASSUME GuardianInv, [GuardianNext]_guardianVars PROVE GuardianInv'
  OBVIOUS
<1>1. CASE NewDay \/ DeadlinePasses \/ UNCHANGED guardianVars
  BY <1>1, ClockSteps
<1>2. CASE Discover
  BY <1>2, DiscoverSteps
<1>3. CASE ClaimExpires
  BY <1>3, ExpirySteps
<1>4. ASSUME NEW w \in Workers,
             ClaimDue(w) \/ ClaimIsStale(w) \/ Prepare(w) \/ Answered(w) \/ FinishWork(w)
      PROVE  GuardianInv'
  BY <1>4, ClaimDueSteps, StaleSteps, PrepareWorkSteps, AnsweredSteps, FinishSteps
<1>5. ASSUME NEW v \in Versions, RemoteEnds(v) \/ Seal(v) \/ ResolveHold(v)
      PROVE  GuardianInv'
  BY <1>5, ProviderSteps, ResolveSteps
<1>6. ASSUME NEW k \in flying, ProviderAccepts(k)
      PROVE  GuardianInv'
  <2>1. k[1] \in Versions
    BY KeyParts DEF GuardianInv, ProviderTypes
  <2> QED
    BY <1>6, <2>1, ProviderSteps
<1> QED
  BY <1>1, <1>2, <1>3, <1>4, <1>5, <1>6 DEF GuardianNext

LEMMA GuardianTruth == GuardianInv => SecondRemoteIsGivenUp /\ CycleIsDriven
<1> SUFFICES ASSUME GuardianInv PROVE SecondRemoteIsGivenUp /\ CycleIsDriven
  OBVIOUS
<1>1. SecondRemoteIsGivenUp
  <2> SUFFICES ASSUME NEW u \in Versions, NEW v \in Versions, u # v,
                      remote[u] = "RUNNING", remote[v] = "RUNNING"
               PROVE  GivenUp(u) \/ GivenUp(v)
    BY DEF SecondRemoteIsGivenUp
  <2>1. \A z \in {u, v} : Covers(Store, z) \/ GivenUp(z)
    BY DEF GuardianInv, RemotesFit, MayRun, Excused, GivenUp, Store
  <2>2. ~(Covers(Store, u) /\ Covers(Store, v))
    <3> SUFFICES ASSUME Covers(Store, u), Covers(Store, v) PROVE FALSE
      OBVIOUS
    <3>1. CASE occupancy.hold
      BY <3>1 DEF GuardianInv, StoreInv, Covers, OneUnresolved, Store
    <3>2. CASE ~occupancy.hold
      <4>1. PICK r \in works : r.key[1] = u
        BY <3>2 DEF Covers, Store
      <4>2. works = {r}
        BY OpenRow
      <4> QED
        BY <3>2, <4>1, <4>2 DEF Covers, Store
    <3> QED
      BY <3>1, <3>2
  <2> QED
    BY <2>1, <2>2
<1>2. CycleIsDriven
  <2> SUFFICES ASSUME NEW d \in Days, cycles[d] \in {"READY", "RUNNING"}
               PROVE  Cardinality({r \in works : r.key[1][1] = d
                                   /\ versions[r.key[1]].status \notin VersionTerminal}) = 1
    BY DEF CycleIsDriven
  <2>1. occupancy.cycle = d /\ ~occupancy.hold /\ d # 0
    BY GuardianAssumption DEF GuardianInv, StoreInv, CyclesMatch, Store, OpenCycle, Days
  <2>2. PICK r \in works : works = {r} /\ Driven(Store, r.key[1])
    BY <2>1 DEF GuardianInv, StoreInv, OneRow, Store
  <2>3. r.key[1][1] = d /\ versions[r.key[1]].status \notin VersionTerminal
    BY <2>1, <2>2 DEF Driven, Store, VersionTerminal
  <2>4. {q \in works : q.key[1][1] = d /\ versions[q.key[1]].status \notin VersionTerminal} = {r}
    BY <2>2, <2>3
  <2> QED
    BY <2>4, FS_Singleton
<1> QED
  BY <1>1, <1>2

\* The guardian tests one version at a time, for any number of workers, days,
\* versions and attempts, the next cycle and an execution in doubt included:
\* where two remote executions run, one of them was given up, by a definite error
\* on a submit that was not its first or by a hold resolved with another version
\* (_stop, discover, _progress, finish, resolve_hold).
THEOREM OneExecution == GuardianSpec => []SecondRemoteIsGivenUp
<1>1. GuardianInv => SecondRemoteIsGivenUp
  BY GuardianTruth
<1> QED
  BY <1>1, GuardianStarts, GuardianStep, PTL DEF GuardianSpec

\* An open cycle always has exactly one open piece of work: no lost answer,
\* expired claim or repeated key leaves it without or with two (_due, finish).
THEOREM CyclesGoOn == GuardianSpec => []CycleIsDriven
<1>1. GuardianInv => CycleIsDriven
  BY GuardianTruth
<1> QED
  BY <1>1, GuardianStarts, GuardianStep, PTL DEF GuardianSpec

=============================================================================
