------------------------- MODULE IncidentCollection -------------------------
(***************************************************************************)
(* IncidentAggregationService and IncidentWorker (core/stage13/incident.py *)
(* and incident_worker.py): the failures of the day's completed versions   *)
(* are fetched under a fenced claim, grouped into incidents, and incidents *)
(* are admitted to analysis within a budget.                               *)
(*                                                                         *)
(* Every method is one transaction; ingest, refresh, seal and admit of a   *)
(* day exclude each other by an advisory lock.  A version has one failed   *)
(* case: with its detail it belongs to the group GroupOf[v] and brings the *)
(* change v, without it to the group Unknown.                              *)
(***************************************************************************)
EXTENDS Naturals, Sequences, FiniteSets, FiniteSetsExt

CONSTANTS
    Collectors,     \* IncidentWorker.execute tasks
    FailedVersions,         \* versions of the day with a failed case
    GroupOf,        \* the group a version's detail puts it in
    Unknown,        \* the group of cases without detail
    MaxCollects,    \* attempts (3)
    MaxJobs,        \* admitted jobs of an incident (2)
    AnalysisLimit,  \* admitted jobs of a day (60)
    MaxEpoch,       \* bound: claims of a collection
    NoGroup

Groups == {GroupOf[v] : v \in FailedVersions} \cup {Unknown}

\* admit compares with the latest revision only, and with its limit of two jobs
\* that is enough to tell a job's material from that of the job before.
ASSUME IncidentAssumption ==
    /\ IsFiniteSet(FailedVersions)
    /\ MaxCollects \in Nat \ {0} /\ MaxJobs \in 1..2 /\ MaxEpoch \in Nat
    /\ AnalysisLimit \in Nat /\ NoGroup \notin Groups

VARIABLES
    ended,       \* versions that are COMPLETED; the day's cycles are terminal
    collection,  \* CollectionRow
    collector,   \* the claim of a collector and where it is
    member,      \* MembershipRow: group and availability of a version's case
    incident,    \* IncidentRow: state, changes, material digest
    revisions,   \* RevisionRow: the frozen materials of an incident
    jobs,        \* AnalysisJobRow: revision and material of an incident's jobs
    admitted,    \* BudgetRow.admitted_total
    ripe         \* incidents past the 600 s or 1800 s they have to wait

incidentVars == <<ended, collection, collector, member, incident, revisions, jobs, admitted, ripe>>

NoClaim == [pc |-> "idle", v |-> NoGroup, epoch |-> 0]
Material(changes, missing) == [changes |-> changes, complete |-> ~missing]

IncidentInit ==
    /\ ended = [done |-> {}, day |-> FALSE]
    /\ collection = [v \in FailedVersions |-> [state |-> "none", epoch |-> 0, attempts |-> 0, live |-> FALSE]]
    /\ collector = [w \in Collectors |-> NoClaim]
    /\ member = [v \in FailedVersions |-> [group |-> NoGroup, missing |-> FALSE]]
    /\ incident = [g \in Groups |-> [state |-> "none", material |-> Material({}, FALSE)]]
    /\ revisions = [g \in Groups |-> <<>>]
    /\ jobs = [g \in Groups |-> {}]
    /\ admitted = 0 /\ ripe = {}

Members(g, m) == {v \in FailedVersions : m[v].group = g}
Collected(v) == collection[v].state \in {"COMPLETE", "MISSING"}

-----------------------------------------------------------------------------
(* Environment: WP02 completes versions and ends the day's cycles *)

VersionCompletes(v) ==
    /\ ~ended.day /\ v \notin ended.done
    /\ ended' = [ended EXCEPT !.done = @ \cup {v}]
    /\ UNCHANGED <<collection, collector, member, incident, revisions, jobs, admitted, ripe>>

DayEnds ==
    /\ ~ended.day /\ ended' = [ended EXCEPT !.day = TRUE]
    /\ UNCHANGED <<collection, collector, member, incident, revisions, jobs, admitted, ripe>>

-----------------------------------------------------------------------------
(* Collection *)

DiscoverCollection(v) ==
    /\ v \in ended.done /\ collection[v].state = "none"
    /\ collection' = [collection EXCEPT ![v].state = "PENDING"]
    /\ UNCHANGED <<ended, collector, member, incident, revisions, jobs, admitted, ripe>>

\* claim: a pending row or one whose lease ran out; behind the last attempt the
\* claim is only good for recording that the detail is missing.
ClaimCollection(w, v) ==
    /\ collector[w].pc = "idle" /\ collection[v].epoch < MaxEpoch
    /\ \/ collection[v].state = "PENDING"
       \/ collection[v].state = "CLAIMED" /\ ~collection[v].live
    /\ LET row == collection[v]
           exhausted == row.attempts >= MaxCollects
       IN  /\ collection' = [collection EXCEPT ![v] =
                [state |-> "CLAIMED", epoch |-> row.epoch + 1, live |-> TRUE,
                 attempts |-> row.attempts + IF exhausted THEN 0 ELSE 1]]
           /\ collector' = [collector EXCEPT ![w] =
                [pc |-> IF exhausted THEN "giving up" ELSE "fetching", v |-> v,
                 epoch |-> row.epoch + 1]]
    /\ UNCHANGED <<ended, member, incident, revisions, jobs, admitted, ripe>>

\* _fence
Fenced(w) ==
    LET row == collection[collector[w].v] IN
    row.state = "CLAIMED" /\ row.epoch = collector[w].epoch /\ row.live

\* _refresh_draft of the incidents an ingest has touched.
Refreshed(m, touched, changed, v) ==
    [g \in Groups |->
       IF g \notin touched THEN incident[g]
       ELSE [state |-> IF incident[g].state = "none" THEN "OPEN" ELSE incident[g].state,
             material |-> Material(incident[g].material.changes \cup (IF g = changed THEN {v} ELSE {}),
                                   \E u \in Members(g, m) : m[u].missing)]]

\* ingest: the case joins its group and leaves the one it was in.
Ingest(w, missing) ==
    LET v == collector[w].v
        g == IF missing THEN Unknown ELSE GroupOf[v]
        m == [member EXCEPT ![v] = [group |-> g, missing |-> missing]]
    IN  /\ Fenced(w)
        /\ member' = m
        /\ incident' = Refreshed(m, {g, member[v].group} \ {NoGroup},
                                 IF missing THEN NoGroup ELSE g, v)
        /\ collection' = [collection EXCEPT ![v].state = IF missing THEN "MISSING" ELSE "COMPLETE",
                                            ![v].live = FALSE]

\* The detail pages come, or the fetch fails: fail puts the row back, and after
\* the last attempt ingests the case as missing.  A stale claim writes nothing.
Fetched(w) ==
    /\ collector[w].pc = "fetching" /\ collector' = [collector EXCEPT ![w] = NoClaim]
    /\ \/ Ingest(w, FALSE)
       \/ ~Fenced(w) /\ UNCHANGED <<collection, member, incident>>
    /\ UNCHANGED <<ended, revisions, jobs, admitted, ripe>>

FetchFails(w) ==
    /\ collector[w].pc = "fetching" /\ Fenced(w)
    /\ LET v == collector[w].v IN
         IF collection[v].attempts < MaxCollects
           THEN /\ collection' = [collection EXCEPT ![v].state = "PENDING", ![v].live = FALSE]
                /\ collector' = [collector EXCEPT ![w] = NoClaim]
           ELSE collector' = [collector EXCEPT ![w].pc = "giving up"] /\ UNCHANGED collection
    /\ UNCHANGED <<ended, member, incident, revisions, jobs, admitted, ripe>>

GivesUp(w) ==
    /\ collector[w].pc = "giving up" /\ collector' = [collector EXCEPT ![w] = NoClaim]
    /\ \/ Ingest(w, TRUE)
       \/ ~Fenced(w) /\ UNCHANGED <<collection, member, incident>>
    /\ UNCHANGED <<ended, revisions, jobs, admitted, ripe>>

CollectorDies(w) ==
    /\ collector[w].pc # "idle" /\ collector' = [collector EXCEPT ![w] = NoClaim]
    /\ UNCHANGED <<ended, collection, member, incident, revisions, jobs, admitted, ripe>>

CollectionExpires(v) ==
    /\ collection[v].state = "CLAIMED" /\ collection[v].live
    /\ collection' = [collection EXCEPT ![v].live = FALSE]
    /\ UNCHANGED <<ended, collector, member, incident, revisions, jobs, admitted, ripe>>

-----------------------------------------------------------------------------
(* Refresh, seal, admission *)

\* MUTANT: the incidents of the version stay sealed.
ReopenNothing(v) == incident

\* The incidents of a version that is collected again are open again.
Reopened(v) ==
    [g \in Groups |-> IF member[v].group = g THEN [incident[g] EXCEPT !.state = "OPEN"] ELSE incident[g]]

RefreshCollection(v) ==
    /\ collection[v].state \notin {"none", "CLAIMED"} /\ collection[v].epoch < MaxEpoch
    /\ incident' = Reopened(v)
    /\ collection' = [collection EXCEPT ![v].state = "PENDING", ![v].attempts = 0]
    /\ UNCHANGED <<ended, collector, member, revisions, jobs, admitted, ripe>>

SealDay ==
    /\ ended.day /\ \A v \in ended.done : Collected(v)
    /\ \E g \in Groups : incident[g].state = "OPEN"
    /\ incident' = [g \in Groups |->
         IF incident[g].state = "OPEN" THEN [incident[g] EXCEPT !.state = "SEALED"] ELSE incident[g]]
    /\ UNCHANGED <<ended, collection, collector, member, revisions, jobs, admitted, ripe>>

Admitted(g) == {j \in jobs[g] : j.admitted}

\* The revision a job would be about: the latest one, or a new one when the
\* material has changed since.
Revised(g) ==
    LET n == Len(revisions[g]) IN
    IF n > 0 /\ revisions[g][n] = incident[g].material THEN revisions[g]
    ELSE Append(revisions[g], incident[g].material)

\* Incidents admit looks at: waited long enough, has members, and either was
\* never admitted or has new material and a job left.
Analysable(g) ==
    /\ g \in ripe /\ Members(g, member) # {}
    /\ Cardinality(Admitted(g)) < MaxJobs
    /\ Admitted(g) # {} => Revised(g) # revisions[g]

\* MUTANT: the budget admits one job too many.
RoomForOneMore(new) == Min({Cardinality(new), AnalysisLimit + 1 - admitted})

\* How many of the new jobs the day's budget admits.
Room(new) == Min({Cardinality(new), AnalysisLimit - admitted})

\* admit: every analysable incident gets a job for its revision unless it has
\* one; the first ones are READY, the rest DEFERRED_BUDGET, for good.
Admit ==
    LET new == {g \in Groups : Analysable(g) /\ \A j \in jobs[g] : j.revision # Len(Revised(g))} IN
    /\ new # {}
    /\ revisions' = [g \in Groups |-> IF Analysable(g) THEN Revised(g) ELSE revisions[g]]
    /\ \E ready \in kSubset(Room(new), new) :
         /\ jobs' = [g \in Groups |-> IF g \notin new THEN jobs[g]
              ELSE jobs[g] \cup {[revision |-> Len(Revised(g)), material |-> incident[g].material,
                                  admitted |-> g \in ready]}]
         /\ admitted' = admitted + Cardinality(ready)
         /\ ripe' = ripe \ ready
    /\ UNCHANGED <<ended, collection, collector, member, incident>>

\* 600 s since the incident was first seen, 1800 s since its last admission.
Ripens(g) ==
    /\ incident[g].state # "none" /\ g \notin ripe
    /\ ripe' = ripe \cup {g}
    /\ UNCHANGED <<ended, collection, collector, member, incident, revisions, jobs, admitted>>

-----------------------------------------------------------------------------
IncidentNext ==
    \/ \E v \in FailedVersions : \/ VersionCompletes(v) \/ DiscoverCollection(v) \/ CollectionExpires(v)
                         \/ RefreshCollection(v)
                         \/ \E w \in Collectors : ClaimCollection(w, v)
    \/ \E w \in Collectors : Fetched(w) \/ FetchFails(w) \/ GivesUp(w) \/ CollectorDies(w)
    \/ \E g \in Groups : Ripens(g)
    \/ DayEnds \/ SealDay \/ Admit

IncidentSpec == IncidentInit /\ [][IncidentNext]_incidentVars

-----------------------------------------------------------------------------
\* A sealed incident has nothing outstanding, however often its versions are
\* collected again and moved between groups by slow or dying collectors; and no
\* day analyses more than its budget, no incident more than MaxJobs times or
\* twice on the same material (ingest, refresh, seal, admit).
AnalysisIsEarned ==
    /\ \A v \in FailedVersions : member[v].group # NoGroup /\ incident[member[v].group].state = "SEALED"
                         => Collected(v)
    /\ admitted = Cardinality(UNION {{g} \X Admitted(g) : g \in Groups})
    /\ admitted <= AnalysisLimit
    /\ \A g \in Groups :
         /\ Cardinality(Admitted(g)) <= MaxJobs
         /\ \A j, k \in Admitted(g) : j # k => j.material # k.material

=============================================================================
