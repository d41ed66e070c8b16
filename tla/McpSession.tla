----------------------------- MODULE McpSession -----------------------------
(***************************************************************************)
(* McpIntegrationComponent (mcp/lifecycle.py): the sessions with the MCP   *)
(* server processes, their replacement when one breaks, and the shutdown.  *)
(*                                                                         *)
(* Everything runs on one event loop, so a step is what happens between    *)
(* two awaits.  start, one reconnect task per server, one cleanup task per *)
(* broken client and close interleave.  All servers are enabled.           *)
(***************************************************************************)
EXTENDS Naturals, Sequences, FiniteSets

CONSTANTS
    Configs,       \* server ids, in the order of start
    MaxReconnects,  \* reconnect_max_attempts
    MaxClients,    \* bound: processes spawned for each server
    NoClient

Servers == {Configs[i] : i \in DOMAIN Configs}
Clients == UNION {{s} \X (1..MaxClients[s]) : s \in Servers}

\* No two servers have the same id (server_id_duplicate in mcp/config.py).
ASSUME McpAssumption ==
    /\ Configs \in Seq(Servers)
    /\ \A i, j \in DOMAIN Configs : Configs[i] = Configs[j] => i = j
    /\ MaxReconnects \in Nat \ {0}
    /\ \A s \in Servers : MaxClients[s] \in Nat \ {0}
    /\ NoClient \notin Clients

VARIABLES
    starting,    \* server that start is at; beyond the last one it has returned
    candidate,   \* client of start's or of a reconnect task's discovery
    session,     \* client and generation bound in _sessions
    reconnect,   \* position, attempt and old generation of the reconnect task
    client,      \* process, broken and closed flag, generation of every client
    owned,       \* _owned_clients
    cleanup,     \* clients with a _close_broken_session task
    closing,     \* where close is
    toClose      \* clients that close has still to close

mcpVars == <<starting, candidate, session, reconnect, client, owned, cleanup,
             closing, toClose>>

NoSession == [client |-> NoClient, gen |-> 0]
NoSessionTask == [pc |-> "none", attempt |-> 0, old |-> 0]

McpInit ==
    /\ starting = 1 /\ owned = {} /\ cleanup = {}
    /\ candidate = [s \in Servers |-> NoClient]
    /\ session = [s \in Servers |-> NoSession]
    /\ reconnect = [s \in Servers |-> NoSessionTask]
    /\ client = [c \in Clients |-> [proc |-> "none", broken |-> FALSE, closed |-> FALSE, gen |-> 0]]
    /\ closing = "open" /\ toClose = {}

Started == starting > Len(Configs)
Closed == closing # "open"
Healthy(c) == ~client[c].broken /\ ~client[c].closed

\* The next client of a server.
Fresh(s) == {c \in Clients : c[1] = s /\ client[c].proc = "none"
                             /\ \A n \in 1..(c[2] - 1) : client[<<s, n>>].proc # "none"}

Spawn(s) ==
    \E c \in Fresh(s) : /\ client' = [client EXCEPT ![c].proc = "live"]
                        /\ candidate' = [candidate EXCEPT ![s] = c]

\* MUTANT: publication does not ask whether the component was closed meanwhile.
MayPublishAfterClose(c) == Healthy(c)

\* _publish_session's condition.
MayPublish(c) == ~Closed /\ Healthy(c)

PublishSession(s, c, gen) ==
    /\ session' = [session EXCEPT ![s] = [client |-> c, gen |-> gen]]
    /\ client' = [client EXCEPT ![c].gen = gen]

\* client.close up to its first await; the second half is ProcessReaped.
Shut(c) == client' = [client EXCEPT ![c].closed = TRUE]
Reaped(c) == [client EXCEPT ![c].closed = TRUE, ![c].proc = "dead"]

-----------------------------------------------------------------------------
(* start *)

AtServer(s) == ~Started /\ s = Configs[starting] /\ reconnect[s].pc = "none"

\* A client found broken when start returns is handled as if it broke then.
BrokenAtStart(sess) ==
    {s \in Servers : sess[s].client # NoClient /\ client[sess[s].client].broken}

Unbind(S, sess) ==
    /\ session' = [s \in Servers |-> IF s \in S THEN NoSession ELSE sess[s]]
    /\ cleanup' = cleanup \cup {sess[s].client : s \in S}
    /\ reconnect' = [s \in Servers |->
         IF s \in S THEN [pc |-> "sleeping", attempt |-> 1, old |-> sess[s].gen]
         ELSE reconnect[s]]

\* The end of a server's turn; behind the last one _started is set and sessions
\* that broke meanwhile go to _on_client_broken.
NextServer(sess) ==
    /\ starting' = starting + 1
    /\ IF starting = Len(Configs)
         THEN Unbind(IF Closed THEN {} ELSE BrokenAtStart(sess), sess)
         ELSE session' = sess /\ UNCHANGED <<cleanup, reconnect>>

\* discover_server spawns the process, or cannot.  A component that is closed
\* does not start, but a start that runs goes on.
StartSpawns(s) ==
    /\ AtServer(s) /\ candidate[s] = NoClient
    /\ starting = 1 => ~Closed
    /\ \/ Spawn(s) /\ UNCHANGED <<starting, session, cleanup, reconnect>>
       \/ NextServer(session) /\ UNCHANGED <<client, candidate>>
    /\ UNCHANGED <<owned, closing, toClose>>

\* initialize and tools/list succeeded: publish, or close the client.
StartDiscovers(s) ==
    LET c == candidate[s] IN
    /\ AtServer(s) /\ c # NoClient /\ Healthy(c)
    /\ owned' = owned \cup {c}
    /\ IF MayPublish(c)
         THEN /\ client' = [client EXCEPT ![c].gen = 1]
              /\ candidate' = [candidate EXCEPT ![s] = NoClient]
              /\ NextServer([session EXCEPT ![s] = [client |-> c, gen |-> 1]])
         ELSE Shut(c) /\ UNCHANGED <<starting, candidate, session, cleanup, reconnect>>
    /\ UNCHANGED <<closing, toClose>>

\* A timeout, a protocol error, or a client that broke meanwhile.
StartFails(s) ==
    LET c == candidate[s] IN
    /\ AtServer(s) /\ c # NoClient /\ ~client[c].closed
    /\ Shut(c)
    /\ UNCHANGED <<starting, candidate, session, reconnect, owned, cleanup, closing, toClose>>

StartDrops(s) ==
    LET c == candidate[s] IN
    /\ AtServer(s) /\ c # NoClient /\ client[c].closed
    /\ client' = Reaped(c)
    /\ candidate' = [candidate EXCEPT ![s] = NoClient]
    /\ NextServer(session)
    /\ UNCHANGED <<owned, closing, toClose>>

-----------------------------------------------------------------------------
(* A session breaks: _break and _on_client_broken *)

ClientBreaks(c) ==
    LET s == c[1] IN
    /\ client[c].proc = "live" /\ Healthy(c)
    /\ \E p \in {"live", "dead"} :
         client' = [client EXCEPT ![c].broken = TRUE, ![c].proc = p]
    /\ IF ~Closed /\ Started /\ session[s].client = c
         THEN Unbind({s}, session) ELSE UNCHANGED <<session, cleanup, reconnect>>
    /\ UNCHANGED <<starting, candidate, owned, closing, toClose>>

CleanupBegins(c) ==
    /\ c \in cleanup /\ ~client[c].closed /\ Shut(c)
    /\ UNCHANGED <<starting, candidate, session, reconnect, owned, cleanup, closing, toClose>>

CleanupEnds(c) ==
    /\ c \in cleanup /\ client[c].closed
    /\ client' = Reaped(c) /\ cleanup' = cleanup \ {c}
    /\ UNCHANGED <<starting, candidate, session, reconnect, owned, closing, toClose>>

-----------------------------------------------------------------------------
(* _reconnect_loop *)

\* The next attempt, or the end when there is none left.
NextAttempt(s) ==
    LET task == reconnect[s] IN
    reconnect' = [reconnect EXCEPT ![s] =
        IF task.attempt < MaxReconnects
          THEN [task EXCEPT !.pc = "sleeping", !.attempt = task.attempt + 1]
          ELSE NoSessionTask]

ReconnectWakes(s) ==
    /\ reconnect[s].pc = "sleeping"
    /\ \/ Spawn(s) /\ reconnect' = [reconnect EXCEPT ![s].pc = "discovering"]
       \/ NextAttempt(s) /\ UNCHANGED <<client, candidate>>
    /\ UNCHANGED <<starting, session, owned, cleanup, closing, toClose>>

\* A compatible candidate becomes the next generation; one that is not ends the
\* loop after it is closed.
ReconnectDiscovers(s) ==
    LET c == candidate[s] IN
    /\ reconnect[s].pc = "discovering" /\ Healthy(c)
    /\ owned' = owned \cup {c}
    /\ \/ /\ MayPublish(c) /\ PublishSession(s, c, reconnect[s].old + 1)
          /\ reconnect' = [reconnect EXCEPT ![s] = NoSessionTask]
          /\ candidate' = [candidate EXCEPT ![s] = NoClient]
       \/ /\ Shut(c) /\ reconnect' = [reconnect EXCEPT ![s].pc = "rejecting"]
          /\ UNCHANGED <<session, candidate>>
    /\ UNCHANGED <<starting, cleanup, closing, toClose>>

ReconnectFails(s) ==
    LET c == candidate[s] IN
    /\ reconnect[s].pc = "discovering" /\ Shut(c)
    /\ reconnect' = [reconnect EXCEPT ![s].pc = "dropping"]
    /\ UNCHANGED <<starting, candidate, session, owned, cleanup, closing, toClose>>

\* The candidate is reaped; a cancelled task ends here.
ReconnectDrops(s) ==
    LET c == candidate[s] IN
    /\ reconnect[s].pc \in {"rejecting", "dropping", "cancelled"}
    /\ client' = Reaped(c)
    /\ candidate' = [candidate EXCEPT ![s] = NoClient]
    /\ IF reconnect[s].pc = "dropping" THEN NextAttempt(s)
       ELSE reconnect' = [reconnect EXCEPT ![s] = NoSessionTask]
    /\ UNCHANGED <<starting, session, owned, cleanup, closing, toClose>>

-----------------------------------------------------------------------------
(* close *)

\* Tasks are cancelled: a discovery closes its candidate before it ends, a task
\* in the middle of a client.close ends at once and leaves the process to itself.
CloseBegins ==
    /\ closing = "open" /\ closing' = "gathering"
    /\ LET open == {s \in Servers : reconnect[s].pc = "discovering"}
           others == {s \in Servers : reconnect[s].pc \notin {"none", "discovering"}}
       IN  /\ reconnect' = [s \in Servers |->
                IF s \in open THEN [reconnect[s] EXCEPT !.pc = "cancelled"] ELSE NoSessionTask]
           /\ candidate' = [s \in Servers |-> IF s \in others THEN NoClient ELSE candidate[s]]
           /\ client' = [c \in Clients |->
                IF c[1] \in open /\ c = candidate[c[1]] THEN [client[c] EXCEPT !.closed = TRUE]
                ELSE client[c]]
    /\ cleanup' = {}
    /\ UNCHANGED <<starting, session, owned, toClose>>

CloseGathered ==
    /\ closing = "gathering" /\ \A s \in Servers : reconnect[s].pc = "none"
    /\ closing' = "closing"
    /\ session' = [s \in Servers |-> NoSession]
    /\ toClose' = owned
    /\ UNCHANGED <<starting, candidate, reconnect, client, owned, cleanup>>

\* close of a client that is already closed returns at once.
CloseClient(c) ==
    /\ c \in toClose /\ toClose' = toClose \ {c}
    /\ client' = IF client[c].closed THEN client ELSE Reaped(c)
    /\ UNCHANGED <<starting, candidate, session, reconnect, owned, cleanup, closing>>

CloseEnds ==
    /\ closing = "closing" /\ toClose = {}
    /\ closing' = "closed" /\ owned' = {}
    /\ UNCHANGED <<starting, candidate, session, reconnect, client, cleanup, toClose>>

-----------------------------------------------------------------------------
McpNext ==
    \/ \E s \in Servers : \/ StartSpawns(s) \/ StartDiscovers(s) \/ StartFails(s) \/ StartDrops(s)
                          \/ ReconnectWakes(s) \/ ReconnectDiscovers(s) \/ ReconnectFails(s)
                          \/ ReconnectDrops(s)
    \/ \E c \in Clients : ClientBreaks(c) \/ CleanupBegins(c) \/ CleanupEnds(c) \/ CloseClient(c)
    \/ CloseBegins \/ CloseGathered \/ CloseEnds

McpSpec == McpInit /\ [][McpNext]_mcpVars

-----------------------------------------------------------------------------
\* Somebody will still close or publish the client.
InHand(c) ==
    \/ c = session[c[1]].client \/ c = candidate[c[1]] \/ c \in cleanup
    \/ closing \in {"gathering", "closing"} /\ c \in owned

\* No server process is forgotten: one that has not been told to stop is bound
\* or in the hands of a task that closes or publishes it, however start,
\* reconnects, breaks and close interleave; a started component never keeps a
\* broken session, its generations only grow, and close leaves nothing bound
\* (_publish_session, _on_client_broken, close).
SessionsAreManaged ==
    /\ \A c \in Clients : client[c].proc = "live" /\ ~client[c].closed => InHand(c)
    /\ \A s \in Servers : session[s].client # NoClient =>
         /\ closing \in {"open", "gathering"}
         /\ Started /\ ~Closed => Healthy(session[s].client)
    /\ \A c, d \in Clients : c[1] = d[1] /\ c[2] < d[2] /\ client[d].gen # 0
                             => client[c].gen < client[d].gen
    /\ closing = "closed" => \A s \in Servers : reconnect[s].pc = "none"

=============================================================================
