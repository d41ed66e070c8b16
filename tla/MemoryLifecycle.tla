--------------------------- MODULE MemoryLifecycle ---------------------------
(***************************************************************************)
(* The scoped memory of one user: the exchanges of a conversation, the     *)
(* user's long-term records and those promoted to a project, with the      *)
(* operation rows that form, withdraw and suppress them                    *)
(* (persistence/repositories/memory_lifecycle.py), the service that forms  *)
(* memory after a run, and the binding of a run to the memory it was given.*)
(*                                                                         *)
(* A chat is one run with the exchange and the formation it may leave      *)
(* behind, and is the source_identity of what is formed from it.  The      *)
(* scopes' rows are locked in order by every transaction, so each is one   *)
(* step; but an operation row is read once before the locks and again      *)
(* under them, through the same database session, and the second read      *)
(* returns the row as it is, or as the session already holds it.  The      *)
(* first read is taken as early as it can be.  The user's private scopes   *)
(* keep their epoch; the project's changes.                                *)
(***************************************************************************)
EXTENDS Naturals

CONSTANTS
    Chats,        \* runs of the user, each with at most one exchange
    Topics,       \* logical keys
    Past,         \* chats that have ended and left their exchange
    Says,         \* the topics the extraction proposes for a chat
    Corrects,     \* chats whose user message carries a correction cue
    Executions,   \* executions of form
    MaxEvents,    \* commands of the user, configurations of the project, expiries
    NoChat

ASSUME MemoryAssumption ==
    /\ Says \in [Chats -> SUBSET Topics] /\ Corrects \subseteq Chats
    /\ Past \subseteq Chats /\ NoChat \notin Chats
    /\ MaxEvents \in Nat

VARIABLES
    binding,     \* runtime_memory_bindings
    talk,        \* message_exchanges and their messages
    formation,   \* memory_operations of kind FORMATION
    extracted,   \* chats whose FORMATION model invocation is COMPLETED
    memory,      \* long_term_memory of the USER scope
    shared,      \* project_semantic_memory of the PROJECT scope
    suppressed,  \* memory_operations of kind SUPPRESS: scope and source
    project,     \* memory_scopes row of the project
    lapsed,      \* rows whose expires_at has passed
    execution,   \* what each execution is doing
    events,      \* commands, configurations and expiries so far
    forgotten,   \* history: chats the user withdrew from the private scopes
    unshared,    \* history: chats withdrawn from the project
    erased       \* history: records and project records that were deleted

rowVars == <<talk, formation, extracted, memory, shared, suppressed>>
wishVars == <<events, forgotten, unshared, erased>>
memoryVars == <<binding, rowVars, project, lapsed, execution, wishVars>>

\* from: for a project record, the version of the record it was promoted from.
NoRow == [status |-> "none", version |-> 0, body |-> FALSE, from |-> 0]
NoOperation == [state |-> "none", body |-> FALSE, expected |-> [t \in Topics |-> 0]]
Idle == [pc |-> "idle", chat |-> NoChat, seen |-> NoOperation]

MemoryInit ==
    /\ binding = [c \in Chats |-> [status |-> IF c \in Past THEN "ACTIVE" ELSE "none",
                                   manifest |-> {}, epoch |-> 0]]
    /\ talk = [c \in Chats |-> [status |-> IF c \in Past THEN "ACTIVE" ELSE "none", deps |-> {}]]
    /\ formation = [c \in Chats |-> NoOperation]
    /\ extracted = {}
    /\ memory = [c \in Chats |-> [t \in Topics |-> NoRow]]
    /\ shared = [c \in Chats |-> [t \in Topics |-> NoRow]]
    /\ suppressed = {}
    /\ project = [epoch |-> 1, granted |-> TRUE]
    /\ lapsed = {}
    /\ execution = [s \in Executions |-> Idle]
    /\ events = 0 /\ forgotten = {} /\ unshared = {} /\ erased = {}

-----------------------------------------------------------------------------
(* References to sources, and whether they may still be used *)

\* EXCHANGE and USER_MESSAGE: the exchange and its messages change together.
TalkRef(c) == <<"TALK", c>>
MemoryRef(c, t) == <<"MEMORY", c, t, memory[c][t].version>>
SharedRef(c, t) == <<"SHARED", c, t, shared[c][t].version, project.epoch>>
ScopeRef(e) == <<"SCOPE", e>>

Standing(row) == row.status = "ACTIVE" /\ row.body

TalkStands(c) ==
    /\ talk[c].status = "ACTIVE" /\ TalkRef(c) \notin lapsed
    /\ <<"SESSION", c>> \notin suppressed

\* memory_dependencies_valid, one element.
Valid(ref) ==
    CASE ref[1] = "TALK" -> TalkStands(ref[2])
      [] ref[1] = "MEMORY" -> /\ Standing(memory[ref[2]][ref[3]])
                              /\ memory[ref[2]][ref[3]].version = ref[4]
                              /\ <<"USER", ref[2]>> \notin suppressed
      [] ref[1] = "SHARED" -> /\ Standing(shared[ref[2]][ref[3]])
                              /\ shared[ref[2]][ref[3]].version = ref[4]
                              /\ <<"PROJECT", ref[2]>> \notin suppressed
                              /\ <<"SHARED", ref[2], ref[3]>> \notin lapsed
                              /\ project.epoch = ref[5]
      [] ref[1] = "SCOPE" -> project.epoch = ref[2]

AllValid(refs) == \A ref \in refs : Valid(ref)

\* source_dependencies: a record formed from the user's own words depends on
\* that message alone; a promoted one on the record and what that rests on.
SharedDeps(c, t) == {TalkRef(c), <<"MEMORY", c, t, shared[c][t].from>>}

\* visible, for the three kinds of rows.
TalkVisible(c) == TalkStands(c) /\ AllValid(talk[c].deps)
MemoryVisible(c, t) == Valid(MemoryRef(c, t)) /\ TalkStands(c)
SharedVisible(c, t) == Valid(SharedRef(c, t)) /\ AllValid(SharedDeps(c, t))

\* The row of a topic that is ACTIVE, and its version if it may be used.
Holders(t) == {c \in Chats : memory[c][t].status = "ACTIVE"}
VersionOf(t) ==
    IF \E c \in Holders(t) : MemoryVisible(c, t)
      THEN memory[CHOOSE c \in Holders(t) : MemoryVisible(c, t)][t].version ELSE 0

-----------------------------------------------------------------------------
(* A run and the memory it is given *)

\* load_context: everything visible is supplied, with all it rests on.
Supplied ==
    (UNION {{TalkRef(c)} \cup talk[c].deps : c \in {d \in Chats : TalkVisible(d)}})
    \cup (UNION {{MemoryRef(p[1], p[2]), TalkRef(p[1])} :
                   p \in {q \in Chats \X Topics : MemoryVisible(q[1], q[2])}})
    \cup (UNION {{SharedRef(p[1], p[2])} \cup SharedDeps(p[1], p[2]) :
                   p \in {q \in Chats \X Topics : project.granted /\ SharedVisible(q[1], q[2])}})

LoadContext(c) ==
    /\ binding[c].status = "none"
    /\ binding' = [binding EXCEPT ![c] =
         [status |-> "loaded", manifest |-> Supplied,
          epoch |-> IF project.granted THEN project.epoch ELSE 0]]
    /\ UNCHANGED <<rowVars, project, lapsed, execution, wishVars>>

\* _scope for the scopes of the binding: the epoch it saw, and the grant.
ScopesHold(c) == binding[c].epoch \in {0} \cup {IF project.granted THEN project.epoch ELSE 0}
Eligible(c) == ScopesHold(c) /\ AllValid(binding[c].manifest)

\* bind_run: checked again, for the context was read in earlier transactions.
BindRun(c) ==
    /\ binding[c].status = "loaded"
    /\ binding' = [binding EXCEPT ![c].status = IF Eligible(c) THEN "ACTIVE" ELSE "refused"]
    /\ UNCHANGED <<rowVars, project, lapsed, execution, wishVars>>

Admits(c) == binding[c].status = "ACTIVE" /\ Eligible(c)

\* guard: before every use; what it refuses once it refuses for good.
Guard(c) ==
    /\ binding[c].status \in {"ACTIVE", "INVALID"}
    /\ binding' = [binding EXCEPT ![c].status = IF Admits(c) THEN @ ELSE "INVALID"]
    /\ UNCHANGED <<rowVars, project, lapsed, execution, wishVars>>

\* append_exchange, also when it is called again for the same run: a run whose
\* context may not be used leaves a suppressed source instead of an exchange.
AppendExchange(c) ==
    /\ binding[c].status \in {"ACTIVE", "INVALID"}
    /\ binding' = [binding EXCEPT ![c].status = IF ScopesHold(c) THEN @ ELSE "INVALID"]
    /\ LET deps == binding[c].manifest \cup
                     (IF binding[c].epoch = 0 THEN {} ELSE {ScopeRef(binding[c].epoch)})
            valid == /\ binding[c].status = "ACTIVE" /\ Eligible(c)
                     /\ <<"SESSION", c>> \notin suppressed
       IN  \/ talk[c].status # "none" /\ UNCHANGED <<talk, suppressed>>
           \/ /\ talk[c].status = "none" /\ valid
              /\ talk' = [talk EXCEPT ![c] = [status |-> "ACTIVE", deps |-> deps]]
              /\ UNCHANGED suppressed
           \/ /\ talk[c].status = "none" /\ ~valid
              /\ suppressed' = suppressed \cup {<<"SESSION", c>>}
              /\ UNCHANGED talk
    /\ UNCHANGED <<formation, extracted, memory, shared, project, lapsed, execution, wishVars>>

-----------------------------------------------------------------------------
(* form: after the run was delivered, by its executor and by whoever took  *)
(* the run over                                                            *)

At(s, p) == execution[s].pc = p
Chat(s) == execution[s].chat

\* The next transaction first reads the operation, before it has the locks.
Goes(s, c, p) ==
    execution' = [execution EXCEPT ![s] = [pc |-> p, chat |-> c, seen |-> formation'[c]]]
Leaves(s) == execution' = [execution EXCEPT ![s] = Idle]

\* dependencies of the operation: those of the exchange, and the exchange.
SourcesHold(c) == AllValid(talk[c].deps \cup {TalkRef(c)})
Withdrawn(scope, c) == <<scope, c>> \in suppressed

\* prepare_formation of an operation that exists already.
PrepareAgain(s, c) ==
    /\ At(s, "idle") /\ binding[c].status = "ACTIVE" /\ formation[c].state # "none"
    /\ formation' = [formation EXCEPT ![c].state = IF @ = "PREPARED" THEN "UNKNOWN" ELSE @]
    /\ formation[c].state # "COMMITTED"
    /\ Goes(s, c, IF formation[c].state = "CANDIDATE" THEN "commit" ELSE "restore")
    /\ UNCHANGED <<binding, talk, extracted, memory, shared, suppressed, project, lapsed, wishVars>>

PrepareFormation(s, c) ==
    /\ At(s, "idle") /\ binding[c].status = "ACTIVE" /\ formation[c].state = "none"
    /\ talk[c].status # "none" /\ SourcesHold(c)
    /\ ~Withdrawn("SESSION", c) /\ ~Withdrawn("USER", c)
    /\ formation' = [formation EXCEPT ![c] =
         [state |-> "PREPARED", body |-> FALSE,
          expected |-> [t \in Topics |-> IF c \in Corrects THEN VersionOf(t) ELSE 0]]]
    /\ execution' = [execution EXCEPT ![s] = [Idle EXCEPT !.chat = c, !.pc = "extract"]]
    /\ UNCHANGED <<binding, talk, extracted, memory, shared, suppressed, project, lapsed, wishVars>>

\* The extraction is a model invocation with a durable row of its own.
Extract(s) ==
    /\ At(s, "extract")
    /\ extracted' = extracted \cup {Chat(s)}
    /\ UNCHANGED formation /\ Goes(s, Chat(s), "save")
    /\ UNCHANGED <<binding, talk, memory, shared, suppressed, project, lapsed, wishVars>>

\* An error, a cancellation or the death of the process ends the execution.
ExecutionEnds(s) ==
    /\ ~At(s, "idle") /\ Leaves(s)
    /\ UNCHANGED <<binding, rowVars, project, lapsed, wishVars>>

\* The read under the locks, and the columns the transaction then changes.
Reads(s) == {execution[s].seen, formation[Chat(s)]}
Write(c, old, new) ==
    formation' = [formation EXCEPT ![c].state = IF new.state = old.state THEN @ ELSE new.state,
                                   ![c].body = IF new.body = old.body THEN @ ELSE new.body]

\* completed_formation_response: a known answer is used and not asked for again.
RestoreResponse(s) ==
    LET c == Chat(s) IN
    /\ At(s, "restore")
    /\ SourcesHold(c) /\ ~Withdrawn("USER", c) /\ c \in extracted
    /\ \E row \in Reads(s) :
         /\ row.state \in {"UNKNOWN", "PREPARED"}
         /\ Write(c, row, [row EXCEPT !.state = "PREPARED"])
    /\ Goes(s, c, "save")
    /\ UNCHANGED <<binding, talk, extracted, memory, shared, suppressed, project, lapsed, wishVars>>

SaveCandidates(s) ==
    LET c == Chat(s) IN
    /\ At(s, "save")
    /\ SourcesHold(c) /\ ~Withdrawn("USER", c)
    /\ \E row \in Reads(s) :
         /\ row.state \in {"PREPARED", "CANDIDATE"}
         /\ Write(c, row, [row EXCEPT !.state = "CANDIDATE", !.body = TRUE])
    /\ Goes(s, c, "commit")
    /\ UNCHANGED <<binding, talk, extracted, memory, shared, suppressed, project, lapsed, wishVars>>

\* The row of the topic that the new record replaces.
Replaced(c, t) == Holders(t) \ {c}

\* The record of a topic: the holder is superseded, or closed when it may not
\* be used any more (as EXPIRED or REVOKED), and the new record goes on from its version.
Formed(c) ==
    [d \in Chats |-> [t \in Topics |->
        IF t \in Says[c] /\ d = c
          THEN [status |-> "ACTIVE", version |-> VersionOf(t) + 1, body |-> TRUE, from |-> 0]
        ELSE IF t \in Says[c] /\ d \in Replaced(c, t)
          THEN [memory[d][t] EXCEPT
                  !.version = @ + 1,
                  !.status = IF MemoryVisible(d, t) THEN "SUPERSEDED" ELSE "LAPSED"]
        ELSE memory[d][t]]]

\* commit_candidates: all records, or the operation is in CONFLICT.  A record
\* that exists already has the same identity, and the transaction fails.
CommitCandidates(s) ==
    LET c == Chat(s) IN
    /\ At(s, "commit")
    /\ SourcesHold(c) /\ ~Withdrawn("USER", c)
    /\ \E row \in Reads(s) :
         /\ row.state = "CANDIDATE" /\ row.body
         /\ \/ /\ \E t \in Says[c] : row.expected[t] # VersionOf(t)
               /\ Write(c, row, [row EXCEPT !.state = "CONFLICT"])
               /\ UNCHANGED memory
            \/ /\ \A t \in Says[c] : row.expected[t] = VersionOf(t) /\ memory[c][t] = NoRow
               /\ Write(c, row, [row EXCEPT !.state = "COMMITTED"])
               /\ memory' = Formed(c)
    /\ Leaves(s)
    /\ UNCHANGED <<binding, talk, extracted, shared, suppressed, project, lapsed, wishVars>>

-----------------------------------------------------------------------------
(* Commands of the user and of the project's composition *)

Happens == events < MaxEvents /\ events' = events + 1
Exists(row) == row.status # "none"
Ended(row, action) ==
    IF ~Exists(row) THEN row
    ELSE [row EXCEPT !.status = action, !.version = @ + 1, !.body = @ /\ action = "REVOKED"]

\* Operations on sources in C or that rest on a reference in refs.
Skipped(C, refs, drops) ==
    [c \in Chats |->
        IF formation[c].state # "none" /\ (c \in C \/ talk[c].deps \cap refs # {})
          THEN [formation[c] EXCEPT !.state = "SKIPPED_REVOKED", !.body = @ /\ ~drops]
          ELSE formation[c]]

AnyVersion(kind, t) == {ref \in UNION {talk[c].deps : c \in Chats} : ref[1] = kind /\ ref[3] = t}

\* mutate a record of the user: every version of the topic, what was promoted
\* from it, and the exchanges it came from.
Mutate(x, t, action) ==
    LET C == {c \in Chats : Exists(memory[c][t])}
        D == {c \in Chats : Exists(shared[c][t])}
    IN
    /\ Happens /\ x \in C
    /\ memory' = [c \in Chats |-> [memory[c] EXCEPT ![t] = Ended(@, action)]]
    /\ shared' = [c \in Chats |-> [shared[c] EXCEPT ![t] = Ended(@, action)]]
    /\ suppressed' = suppressed \cup ({"USER", "SESSION"} \X C) \cup ({"PROJECT"} \X D)
    /\ formation' = Skipped(C, AnyVersion("MEMORY", t), action = "DELETED")
    /\ forgotten' = forgotten \cup {x}
    /\ erased' = IF action = "DELETED" THEN erased \cup {<<x, t>>} ELSE erased
    /\ UNCHANGED <<binding, talk, extracted, project, lapsed, execution, unshared>>

\* mutate a record of the project: the private sources stay.
MutateShared(x, t, action) ==
    LET D == {c \in Chats : Exists(shared[c][t])} IN
    /\ Happens /\ project.granted /\ x \in D
    /\ shared' = [c \in Chats |-> [shared[c] EXCEPT ![t] = Ended(@, action)]]
    /\ suppressed' = suppressed \cup ({"PROJECT"} \X D)
    /\ formation' = Skipped({}, AnyVersion("SHARED", t), action = "DELETED")
    /\ unshared' = unshared \cup {x}
    /\ UNCHANGED <<binding, talk, extracted, memory, project, lapsed, execution, forgotten, erased>>

\* delete_exchange: the messages, every record formed from them, promoted or
\* not, and every formation that rests on them.
DeleteExchange(x) ==
    LET closed(rows) == [rows EXCEPT ![x] = [t \in Topics |-> Ended(@[t], "DELETED")]]
        has(rows) == \E t \in Topics : Exists(rows[x][t])
    IN
    /\ Happens /\ talk[x].status # "none"
    /\ talk' = [talk EXCEPT ![x].status = "DELETED"]
    /\ memory' = closed(memory) /\ shared' = closed(shared)
    /\ suppressed' = suppressed \cup {<<"SESSION", x>>}
                      \cup (IF has(memory) THEN {<<"USER", x>>} ELSE {})
                      \cup (IF has(shared) THEN {<<"PROJECT", x>>} ELSE {})
    /\ formation' = Skipped({x}, {TalkRef(x)}, TRUE)
    /\ forgotten' = forgotten \cup {x}
    /\ erased' = erased \cup ({x} \X Topics)
    /\ UNCHANGED <<binding, extracted, project, lapsed, execution, unshared>>

\* revoke_source: of a formation that has not committed, or had not when the
\* command read it first; candidates saved since that read stay in the row.
RevokeSource(x) ==
    /\ Happens /\ formation[x].state # "none"
    /\ \E body \in {FALSE, formation[x].body} :
         formation' = [formation EXCEPT ![x].state = "SKIPPED_REVOKED", ![x].body = body]
    /\ suppressed' = suppressed \cup {<<"USER", x>>, <<"SESSION", x>>}
    /\ forgotten' = forgotten \cup {x}
    /\ UNCHANGED <<binding, talk, extracted, memory, shared, project, lapsed, execution,
                   unshared, erased>>

\* MUTANT: what the record rests on is not looked at again.
PromotableAsRead(c, t) == memory[c][t].version > 0

\* The record was read before the locks; only if its version still stands is
\* what was read what is promoted.
Promotable(c, t) == Valid(MemoryRef(c, t)) /\ TalkStands(c)

Promote(c, t) ==
    /\ project.granted
    /\ Exists(memory[c][t]) /\ Promotable(c, t) /\ ~Withdrawn("PROJECT", c)
    /\ \A d \in Chats : shared[d][t].status # "ACTIVE"
    /\ shared' = [shared EXCEPT ![c][t] =
         [status |-> "ACTIVE", version |-> 1, body |-> TRUE, from |-> memory[c][t].version]]
    /\ UNCHANGED <<binding, talk, formation, extracted, memory, suppressed, project, lapsed,
                   execution, wishVars>>

ConfigureProject(granted) ==
    /\ Happens
    /\ project' = [epoch |-> project.epoch + 1, granted |-> granted]
    /\ UNCHANGED <<binding, rowVars, lapsed, execution, forgotten, unshared, erased>>

\* An exchange is kept for a day, a project record as configured; the record
\* between them outlives the exchange it rests on.
Lapse(row) ==
    /\ Happens /\ row \notin lapsed /\ lapsed' = lapsed \cup {row}
    /\ UNCHANGED <<binding, rowVars, project, execution, forgotten, unshared, erased>>

MemoryNext ==
    \/ \E c \in Chats : LoadContext(c) \/ BindRun(c) \/ Guard(c) \/ AppendExchange(c)
    \/ \E s \in Executions :
         \/ \E c \in Chats : PrepareFormation(s, c) \/ PrepareAgain(s, c)
         \/ Extract(s) \/ ExecutionEnds(s)
         \/ RestoreResponse(s) \/ SaveCandidates(s) \/ CommitCandidates(s)
    \/ \E c \in Chats :
         \/ DeleteExchange(c) \/ RevokeSource(c)
         \/ talk[c].status # "none" /\ Lapse(TalkRef(c))
    \/ \E c \in Chats, t \in Topics :
         \/ \E action \in {"DELETED", "REVOKED"} :
              Mutate(c, t, action) \/ MutateShared(c, t, action)
         \/ Promote(c, t)
         \/ Exists(shared[c][t]) /\ Lapse(<<"SHARED", c, t>>)
    \/ \E granted \in BOOLEAN : ConfigureProject(granted)

MemorySpec == MemoryInit /\ [][MemoryNext]_memoryVars

-----------------------------------------------------------------------------
\* No run is given, or admitted to use, what the user deleted or revoked
\* meanwhile (guard_in_transaction, over the manifest bound at its start).
GivesNothingForgotten(c) ==
    Admits(c) =>
      \A ref \in {r \in binding[c].manifest : r[1] # "SCOPE"} :
        ref[2] \notin (IF ref[1] = "SHARED" THEN forgotten \cup unshared ELSE forgotten)

\* What the user deleted or revoked is not seen again in any scope, is not
\* formed again and serves no run that had it, and of what was deleted no body
\* is left, whatever formations, promotions and takeovers were under way
\* (visible, _suppress, mutate, delete_exchange, revoke_source).
ForgottenIsGone ==
    /\ \A c \in Chats : GivesNothingForgotten(c)
    /\ \A c \in forgotten :
         /\ ~TalkVisible(c)
         /\ \A t \in Topics : ~MemoryVisible(c, t) /\ ~SharedVisible(c, t)
         /\ formation[c].state \in {"none", "SKIPPED_REVOKED"}
    /\ \A c \in unshared, t \in Topics : ~SharedVisible(c, t)
    /\ \A p \in erased : ~memory[p[1]][p[2]].body /\ ~shared[p[1]][p[2]].body

=============================================================================
