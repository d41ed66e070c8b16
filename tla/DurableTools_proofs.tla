------------------------ MODULE DurableTools_proofs ------------------------
(***************************************************************************)
(* Proofs about the durable side of tool execution, for any number of      *)
(* processes, lanes, invocations, takeovers and lookups: whoever takes the *)
(* run over, the side effect of an invocation happens at most once, what   *)
(* the ledger calls COMMITTED happened, and nothing gated runs without its *)
(* approval.                                                               *)
(***************************************************************************)
EXTENDS DurableTools, RunControl_proofs

USE ControlAssumption, ToolsAssumption DEF ControlAssumption, ToolsAssumption
USE DEF controlVars, toolVars

-----------------------------------------------------------------------------
(* The inductive invariant.                                                *)

\* A row nobody has started.
Fresh == {"none", "PREPARED"}

\* A lane past its selection is about an invocation; the lanes that repair
\* the ledger are only ever about one that was started.
LanesArePlaced ==
    /\ \A l \in Executors : pc[l] \in {"waiting", "claimed", "prepared", "started", "calling"}
                            => work[l] \in Invs
    /\ \A l \in Reconcilers \cup Operators :
          pc[l] # "idle" => work[l] \in Invs /\ inv[work[l]].state \notin Fresh

\* An executor that has yet to hear from the provider about i.
Asks(l, i) ==
    /\ work[l] = i
    /\ \/ pc[l] = "started"
       \/ pc[l] = "calling" /\ reply[l] = "none"

\* One lane at most is about to cause the effect of an invocation, and only
\* while nothing has caused it; before the row is started nobody is.
AskedOnce ==
    \A i \in Invs :
      /\ \A k, l \in Executors : Asks(k, i) /\ Asks(l, i) => k = l
      /\ effects[i] + flying[i] <= 1
      /\ (inv[i].state \in Fresh \/ \E l \in Executors : Asks(l, i))
           => effects[i] = 0 /\ flying[i] = 0
      /\ inv[i].state \in Fresh => \A l \in Executors : ~Asks(l, i)

\* An answer that says the effect happened is true.
AnswersAreTrue ==
    /\ \A l \in Executors : pc[l] = "calling" /\ reply[l] = "acted" => effects[work[l]] > 0
    /\ \A l \in Reconcilers : pc[l] = "answered" /\ reply[l] = "COMMITTED"
                              => effects[work[l]] > 0

\* A lane that may start a gated row has its approval and its claim, and the row
\* it prepared stays bound to that claim.
ClaimIsEarned ==
    \A l \in Executors :
      /\ pc[l] \in {"waiting", "claimed"} => work[l] \in Gated
      /\ pc[l] = "waiting" => approval[work[l]] # "none"
      /\ pc[l] \in {"claimed", "prepared"} /\ work[l] \in Gated
           => approval[work[l]] = "APPROVED" /\ claims[work[l]] = 1
      /\ pc[l] = "prepared" /\ work[l] \in Gated => inv[work[l]].claim = "bound"

IInv ==
    /\ ToolsTypeOK
    /\ LanesArePlaced
    /\ AskedOnce
    /\ AnswersAreTrue /\ CommittedHappened
    /\ ClaimIsEarned /\ ApprovedAndClaimedOnce

-----------------------------------------------------------------------------
(* Rows: what the updates of a ledger row preserve.                        *)

Authors == {"none", "executor", "provider", "operator"}
Bindings == {"none", "bound"}

\* q is a ledger row with this state, author, owner, token and binding.
RowIs(q, s, b, o, t, c) ==
    /\ q \in InvRow /\ q.state = s /\ q.by = b
    /\ q.owner = o /\ q.token = t /\ q.claim = c

LEMMA FieldUpdate ==
  ASSUME NEW r \in InvRow
  PROVE  /\ \A s \in States : RowIs([r EXCEPT !.state = s], s, r.by, r.owner, r.token, r.claim)
         /\ \A b \in Authors : RowIs([r EXCEPT !.by = b], r.state, b, r.owner, r.token, r.claim)
         /\ \A o \in Owners : RowIs([r EXCEPT !.owner = o], r.state, r.by, o, r.token, r.claim)
         /\ \A t \in 0..MaxToken : RowIs([r EXCEPT !.token = t], r.state, r.by, r.owner, t, r.claim)
         /\ \A n \in Nat : RowIs([r EXCEPT !.attempts = n], r.state, r.by, r.owner, r.token, r.claim)
         /\ \A c \in Bindings : RowIs([r EXCEPT !.claim = c], r.state, r.by, r.owner, r.token, c)
  BY DEF InvRow, Authors, Bindings, RowIs

LEMMA FlagUpdate ==
  ASSUME NEW r \in InvRow, NEW v \in BOOLEAN
  PROVE  /\ RowIs([r EXCEPT !.manual = v], r.state, r.by, r.owner, r.token, r.claim)
         /\ RowIs([r EXCEPT !.due = v], r.state, r.by, r.owner, r.token, r.claim)
  BY DEF InvRow, RowIs

\* The updates the actions make, each a chain of single-field updates.
LEMMA RowUpdates ==
  ASSUME NEW r \in InvRow, NEW l \in Lanes, held \in [Lanes -> 0..MaxToken],
         NEW s \in States, NEW b \in Authors, NEW n \in Nat
  PROVE  /\ RowIs([r EXCEPT !.state = s, !.by = b], s, b, r.owner, r.token, r.claim)
         /\ RowIs([r EXCEPT !.state = s, !.by = b, !.manual = FALSE], s, b, r.owner, r.token, r.claim)
         /\ RowIs(Owned(l, [r EXCEPT !.state = s]), s, r.by, OwnerOf[l], held[l], r.claim)
         /\ RowIs(Owned(l, [r EXCEPT !.state = s, !.by = b, !.manual = FALSE]),
                  s, b, OwnerOf[l], held[l], r.claim)
         /\ RowIs(StillUnknown(r, n), "UNKNOWN", r.by, r.owner, r.token, r.claim)
         /\ \A c \in Bindings : RowIs(Owned(l, [r EXCEPT !.state = s, !.claim = c]),
                                    s, r.by, OwnerOf[l], held[l], c)
<1> USE DEF RowIs
<1> DEFINE r1 == [r EXCEPT !.state = s]
           r2 == [r1 EXCEPT !.by = b]
           r3 == [r2 EXCEPT !.manual = FALSE]
<1>0. OwnerOf[l] \in Owners /\ held[l] \in 0..MaxToken
  OBVIOUS
<1>1. RowIs(r1, s, r.by, r.owner, r.token, r.claim)
  BY FieldUpdate
<1>2. RowIs(r2, s, b, r.owner, r.token, r.claim)
  <2> HIDE DEF r1
  <2> QED BY <1>1, FieldUpdate
<1>3. RowIs(r3, s, b, r.owner, r.token, r.claim)
  <2> HIDE DEF r2
  <2> QED BY <1>2, FlagUpdate
<1>4. ASSUME NEW q \in InvRow
      PROVE  RowIs(Owned(l, q), q.state, q.by, OwnerOf[l], held[l], q.claim)
  <2> DEFINE q1 == [q EXCEPT !.owner = OwnerOf[l]]
  <2>1. RowIs(q1, q.state, q.by, OwnerOf[l], q.token, q.claim)
    BY <1>0, FieldUpdate
  <2>2. RowIs([q1 EXCEPT !.token = held[l]], q.state, q.by, OwnerOf[l], held[l], q.claim)
    <3> HIDE DEF q1
    <3> QED BY <1>0, <2>1, FieldUpdate
  <2> QED BY <2>2 DEF Owned
<1>5. RowIs(StillUnknown(r, n), "UNKNOWN", r.by, r.owner, r.token, r.claim)
  <2> DEFINE v == r.attempts + 1 >= n
             q1 == [r EXCEPT !.state = "UNKNOWN"]
             q2 == [q1 EXCEPT !.attempts = r.attempts + 1]
             q3 == [q2 EXCEPT !.manual = v]
             q4 == [q3 EXCEPT !.due = FALSE]
  <2>1. RowIs(q1, "UNKNOWN", r.by, r.owner, r.token, r.claim) /\ r.attempts + 1 \in Nat
    BY FieldUpdate DEF States, InvRow
  <2>2. RowIs(q2, "UNKNOWN", r.by, r.owner, r.token, r.claim)
    <3> HIDE DEF q1
    <3> QED BY <2>1, FieldUpdate
  <2>3. RowIs(q3, "UNKNOWN", r.by, r.owner, r.token, r.claim)
    <3>1. v \in BOOLEAN
      OBVIOUS
    <3> HIDE DEF q2, v
    <3>2. RowIs([q2 EXCEPT !.manual = v], q2.state, q2.by, q2.owner, q2.token, q2.claim)
      BY <3>1, <2>2, FlagUpdate, Zenon
    <3> QED BY <2>2, <3>2, Zenon
  <2>4. RowIs(q4, "UNKNOWN", r.by, r.owner, r.token, r.claim)
    <3> HIDE DEF q3
    <3> QED BY <2>3, FlagUpdate
  <2>5. StillUnknown(r, n) = q4
    BY DEF StillUnknown
  <2> QED BY <2>4, <2>5
<1>6. [r EXCEPT !.state = s, !.by = b] = r2
  OBVIOUS
<1>7. [r EXCEPT !.state = s, !.by = b, !.manual = FALSE] = r3
  OBVIOUS
<1>10. ASSUME NEW c \in Bindings
       PROVE  RowIs([r EXCEPT !.state = s, !.claim = c], s, r.by, r.owner, r.token, c)
  <2>1. [r EXCEPT !.state = s, !.claim = c] = [r1 EXCEPT !.claim = c]
    OBVIOUS
  <2> HIDE DEF r1
  <2>2. RowIs([r1 EXCEPT !.claim = c], s, r.by, r.owner, r.token, c)
    BY <1>1, FieldUpdate
  <2> QED BY <2>1, <2>2
<1>11. ASSUME NEW c \in Bindings
       PROVE  RowIs(Owned(l, [r EXCEPT !.state = s, !.claim = c]),
                    s, r.by, OwnerOf[l], held[l], c)
  <2>1. PICK q : q = [r EXCEPT !.state = s, !.claim = c]
    OBVIOUS
  <2>2. RowIs(q, s, r.by, r.owner, r.token, c)
    BY <2>1, <1>10
  <2>3. RowIs(Owned(l, q), s, r.by, OwnerOf[l], held[l], c)
    BY <2>2, <1>4
  <2> QED BY <2>1, <2>3
<1> HIDE DEF r1, r2, r3
<1>8. RowIs(Owned(l, r1), s, r.by, OwnerOf[l], held[l], r.claim)
  BY <1>1, <1>4
<1>9. RowIs(Owned(l, r3), s, b, OwnerOf[l], held[l], r.claim)
  BY <1>3, <1>4
<1> HIDE DEF RowIs
<1> QED BY <1>2, <1>3, <1>5, <1>6, <1>7, <1>8, <1>9, <1>11 DEF r1

\* Row i gets this state and author; the others keep theirs.
Writes(i, s, b) ==
    \A j \in Invs : /\ inv'[j].state = IF j = i THEN s ELSE inv[j].state
                    /\ inv'[j].by = IF j = i THEN b ELSE inv[j].by

\* No row loses its execution claim.
KeepsClaims == \A j \in Invs : inv[j].claim = "bound" => inv'[j].claim = "bound"

LEMMA WriteRow ==
  ASSUME inv \in [Invs -> InvRow], NEW i \in Invs, NEW r, NEW s, NEW b, NEW o, NEW t,
         RowIs(r, s, b, o, t, inv[i].claim), inv' = [inv EXCEPT ![i] = r]
  PROVE  inv' \in [Invs -> InvRow] /\ Writes(i, s, b) /\ KeepsClaims
  BY DEF RowIs, Writes, KeepsClaims

LEMMA BindRow ==
  ASSUME inv \in [Invs -> InvRow], NEW i \in Invs, NEW r, NEW s, NEW b, NEW o, NEW t,
         RowIs(r, s, b, o, t, "bound"), inv' = [inv EXCEPT ![i] = r]
  PROVE  /\ inv' \in [Invs -> InvRow] /\ Writes(i, s, b) /\ KeepsClaims
         /\ inv'[i].claim = "bound"
  BY DEF RowIs, Writes, KeepsClaims

LEMMA NoWrite == UNCHANGED inv => KeepsClaims
  BY DEF KeepsClaims

-----------------------------------------------------------------------------
(* The ledger: what each action that writes it does to a row.              *)

\* The write is l's under the present lease, and touches row i only.
Fenced(l, i) ==
    /\ Current(l)
    /\ inv'[i].owner = OwnerOf[l] /\ inv'[i].token = held[l]
    /\ \A j \in Invs \ {i} : inv'[j] = inv[j]

LEMMA FencedRow ==
  ASSUME inv \in [Invs -> InvRow], NEW l \in Lanes, Current(l), NEW i \in Invs,
         NEW r, NEW s, NEW b, NEW c, RowIs(r, s, b, OwnerOf[l], held[l], c),
         inv' = [inv EXCEPT ![i] = r]
  PROVE  Fenced(l, i)
  BY DEF RowIs, Fenced

\* A write to a row the lane owns already.
LEMMA OwnWrite ==
  ASSUME inv \in [Invs -> InvRow], NEW l \in Lanes, Current(l), NEW i \in Invs, Owns(l, i),
         NEW r, NEW s, NEW b, RowIs(r, s, b, inv[i].owner, inv[i].token, inv[i].claim),
         inv' = [inv EXCEPT ![i] = r]
  PROVE  inv' \in [Invs -> InvRow] /\ Writes(i, s, b) /\ KeepsClaims /\ Fenced(l, i)
<1>1. RowIs(r, s, b, OwnerOf[l], held[l], inv[i].claim)
  BY DEF Owns
<1> QED BY <1>1, WriteRow, FencedRow

LEMMA PrepareWrites ==
  ASSUME IInv, NEW l \in Executors, NEW i \in Invs, Prepare(l, i)
  PROVE  /\ inv' \in [Invs -> InvRow] /\ KeepsClaims /\ (i \in Gated => inv'[i].claim = "bound")
         /\ inv[i].state \in Fresh /\ Fenced(l, i) /\ Writes(i, "PREPARED", inv[i].by)
<1>1. inv \in [Invs -> InvRow] /\ held \in [Lanes -> 0..MaxToken] /\ l \in Lanes
  BY DEF IInv, ToolsTypeOK, ControlTypeOK
<1>2. inv[i].state \in Fresh /\ Current(l)
  BY DEF Prepare, Fresh
<1>3. CASE i \in Gated
  <2>1. RowIs(Owned(l, [inv[i] EXCEPT !.state = "PREPARED", !.claim = "bound"]),
              "PREPARED", inv[i].by, OwnerOf[l], held[l], "bound")
    BY <1>1, RowUpdates DEF States, Authors, Bindings
  <2>2. inv' = [inv EXCEPT ![i] = Owned(l, [inv[i] EXCEPT !.state = "PREPARED", !.claim = "bound"])]
    BY <1>3 DEF Prepare
  <2> QED BY <1>1, <1>2, <2>1, <2>2, BindRow, FencedRow
<1>4. CASE i \notin Gated
  <2>0. inv[i].claim \in Bindings
    BY <1>1 DEF InvRow, Bindings
  <2>1. RowIs(Owned(l, [inv[i] EXCEPT !.state = "PREPARED", !.claim = inv[i].claim]),
              "PREPARED", inv[i].by, OwnerOf[l], held[l], inv[i].claim)
    BY <1>1, <2>0, RowUpdates DEF States, Authors
  <2>2. inv' = [inv EXCEPT ![i] =
                  Owned(l, [inv[i] EXCEPT !.state = "PREPARED", !.claim = inv[i].claim])]
    <3>1. [inv[i] EXCEPT !.state = "PREPARED", !.claim = IF i \in Gated THEN "bound" ELSE inv[i].claim]
          = [inv[i] EXCEPT !.state = "PREPARED", !.claim = inv[i].claim]
      BY <1>4
    <3> QED BY <1>4, <3>1 DEF Prepare
  <2> QED BY <1>1, <1>2, <1>4, <2>1, <2>2, WriteRow, FencedRow
<1> QED BY <1>3, <1>4

LEMMA PrepareAheadWrites ==
  ASSUME IInv, NEW l \in Executors, PrepareAhead(l)
  PROVE  /\ inv' \in [Invs -> InvRow] /\ KeepsClaims /\ work[l] \in Gated
         /\ \/ UNCHANGED inv
            \/ /\ inv[work[l]].state \in Fresh /\ inv[work[l]].claim = "none"
               /\ Fenced(l, work[l]) /\ Writes(work[l], "PREPARED", inv[work[l]].by)
<1>1. inv \in [Invs -> InvRow] /\ work[l] \in Gated /\ work[l] \in Invs
      /\ held \in [Lanes -> 0..MaxToken] /\ l \in Lanes
  BY DEF IInv, ToolsTypeOK, ControlTypeOK, ClaimIsEarned, PrepareAhead, At
<1>2. RowIs(Owned(l, [inv[work[l]] EXCEPT !.state = "PREPARED"]),
            "PREPARED", inv[work[l]].by, OwnerOf[l], held[l], inv[work[l]].claim)
  BY <1>1, RowUpdates DEF States, Authors
<1>3. \/ /\ inv[work[l]].state \in Fresh /\ Current(l) /\ inv[work[l]].claim = "none"
         /\ inv' = [inv EXCEPT ![work[l]] = Owned(l, [inv[work[l]] EXCEPT !.state = "PREPARED"])]
      \/ UNCHANGED inv
  BY DEF PrepareAhead, Fresh
<1> QED BY <1>1, <1>2, <1>3, WriteRow, NoWrite, FencedRow

LEMMA StartWrites ==
  ASSUME IInv, NEW l \in Executors, Start(l)
  PROVE  /\ inv' \in [Invs -> InvRow] /\ KeepsClaims
         /\ \/ UNCHANGED inv
            \/ /\ inv[work[l]].state = "PREPARED" /\ Fenced(l, work[l])
               /\ Writes(work[l], "STARTED", inv[work[l]].by)
<1>1. inv \in [Invs -> InvRow] /\ work[l] \in Invs /\ l \in Lanes
  BY DEF IInv, ToolsTypeOK, LanesArePlaced, Start, At
<1>2. RowIs([inv[work[l]] EXCEPT !.state = "STARTED"], "STARTED", inv[work[l]].by,
            inv[work[l]].owner, inv[work[l]].token, inv[work[l]].claim)
  BY <1>1, FieldUpdate DEF States
<1>3. \/ /\ inv[work[l]].state = "PREPARED" /\ Current(l) /\ Owns(l, work[l])
         /\ inv' = [inv EXCEPT ![work[l]] = [inv[work[l]] EXCEPT !.state = "STARTED"]]
      \/ UNCHANGED inv
  BY DEF Start
<1> QED BY <1>1, <1>2, <1>3, OwnWrite, NoWrite

LEMMA CommitWrites ==
  ASSUME IInv, NEW l \in Executors, Commit(l)
  PROVE  /\ inv' \in [Invs -> InvRow] /\ KeepsClaims
         /\ \/ UNCHANGED inv
            \/ /\ inv[work[l]].state = "STARTED" /\ Fenced(l, work[l])
               /\ Writes(work[l], "COMMITTED", "executor")
<1>1. inv \in [Invs -> InvRow] /\ work[l] \in Invs
      /\ held \in [Lanes -> 0..MaxToken] /\ l \in Lanes
  BY DEF IInv, ToolsTypeOK, LanesArePlaced, Commit, At, ControlTypeOK
<1>2. RowIs([inv[work[l]] EXCEPT !.state = "COMMITTED", !.by = "executor"],
            "COMMITTED", "executor", inv[work[l]].owner, inv[work[l]].token, inv[work[l]].claim)
  BY <1>1, RowUpdates DEF States, Authors
<1>3. \/ /\ inv[work[l]].state = "STARTED" /\ Current(l) /\ Owns(l, work[l])
         /\ inv' = [inv EXCEPT ![work[l]] =
                      [inv[work[l]] EXCEPT !.state = "COMMITTED", !.by = "executor"]]
      \/ UNCHANGED inv
  BY DEF Commit
<1> QED BY <1>1, <1>2, <1>3, OwnWrite, NoWrite

LEMMA MarkUnknownWrites ==
  ASSUME IInv, NEW l \in Executors, MarkUnknown(l)
  PROVE  /\ inv' \in [Invs -> InvRow] /\ KeepsClaims
         /\ \/ UNCHANGED inv
            \/ /\ inv[work[l]].state = "STARTED" /\ Fenced(l, work[l])
               /\ Writes(work[l], "UNKNOWN", inv[work[l]].by)
<1>1. inv \in [Invs -> InvRow] /\ work[l] \in Invs /\ l \in Lanes
  BY DEF IInv, ToolsTypeOK, LanesArePlaced, MarkUnknown
<1>2. RowIs([inv[work[l]] EXCEPT !.state = "UNKNOWN"], "UNKNOWN", inv[work[l]].by,
            inv[work[l]].owner, inv[work[l]].token, inv[work[l]].claim)
  BY <1>1, FieldUpdate DEF States
<1>3. \/ /\ inv[work[l]].state = "STARTED" /\ Current(l) /\ Owns(l, work[l])
         /\ inv' = [inv EXCEPT ![work[l]] = [inv[work[l]] EXCEPT !.state = "UNKNOWN"]]
      \/ UNCHANGED inv
  BY DEF MarkUnknown
<1> QED BY <1>1, <1>2, <1>3, OwnWrite, NoWrite

LEMMA StillUnknownWrites ==
  ASSUME IInv, NEW l \in Reconcilers, UnregisteredTool(l) \/ RecordUnknown(l)
  PROVE  /\ inv' \in [Invs -> InvRow] /\ KeepsClaims
         /\ \/ UNCHANGED inv
            \/ /\ inv[work[l]].state \in {"STARTED", "UNKNOWN"} /\ Fenced(l, work[l])
               /\ Writes(work[l], "UNKNOWN", inv[work[l]].by)
<1>1. inv \in [Invs -> InvRow] /\ work[l] \in Invs
      /\ held \in [Lanes -> 0..MaxToken] /\ l \in Lanes
  BY DEF IInv, ToolsTypeOK, LanesArePlaced, UnregisteredTool, RecordUnknown, At, ControlTypeOK
<1>2. ASSUME NEW n \in Nat
      PROVE  RowIs(StillUnknown(inv[work[l]], n), "UNKNOWN", inv[work[l]].by,
                   inv[work[l]].owner, inv[work[l]].token, inv[work[l]].claim)
  BY <1>1, RowUpdates DEF States, Authors
<1>3. \/ /\ inv[work[l]].state \in {"STARTED", "UNKNOWN"} /\ Current(l) /\ Owns(l, work[l])
         /\ \E n \in Nat : inv' = [inv EXCEPT ![work[l]] = StillUnknown(inv[work[l]], n)]
      \/ UNCHANGED inv
  BY DEF UnregisteredTool, RecordUnknown
<1> QED BY <1>1, <1>2, <1>3, OwnWrite, NoWrite

LEMMA TakeOverWrites ==
  ASSUME IInv, NEW l \in Reconcilers, TakeOverRecord(l)
  PROVE  /\ inv' \in [Invs -> InvRow] /\ KeepsClaims
         /\ \/ UNCHANGED inv
            \/ /\ inv[work[l]].state \notin Settled /\ Fenced(l, work[l])
               /\ Writes(work[l], "UNKNOWN", inv[work[l]].by)
<1>1. inv \in [Invs -> InvRow] /\ work[l] \in Invs
      /\ held \in [Lanes -> 0..MaxToken] /\ l \in Lanes
  BY DEF IInv, ToolsTypeOK, LanesArePlaced, TakeOverRecord, At, ControlTypeOK
<1>2. RowIs(Owned(l, [inv[work[l]] EXCEPT !.state = "UNKNOWN"]), "UNKNOWN",
            inv[work[l]].by, OwnerOf[l], held[l], inv[work[l]].claim)
  BY <1>1, RowUpdates DEF States, Authors
<1>3. \/ /\ inv[work[l]].state \notin Settled /\ Current(l)
         /\ inv' = [inv EXCEPT ![work[l]] = Owned(l, [inv[work[l]] EXCEPT !.state = "UNKNOWN"])]
      \/ UNCHANGED inv
  BY DEF TakeOverRecord
<1> QED BY <1>1, <1>2, <1>3, WriteRow, NoWrite, FencedRow

LEMMA ConvergeWrites ==
  ASSUME IInv, NEW l \in Reconcilers, Converge(l)
  PROVE  /\ inv' \in [Invs -> InvRow] /\ KeepsClaims
         /\ \/ UNCHANGED inv
            \/ /\ inv[work[l]].state = "UNKNOWN" /\ Fenced(l, work[l])
               /\ Writes(work[l], reply[l], "provider")
<1>1. inv \in [Invs -> InvRow] /\ work[l] \in Invs
      /\ held \in [Lanes -> 0..MaxToken] /\ l \in Lanes
  BY DEF IInv, ToolsTypeOK, LanesArePlaced, Converge, At, ControlTypeOK
<1>2. reply[l] \in States
  BY DEF Converge, Settled, States
<1>3. RowIs([inv[work[l]] EXCEPT !.state = reply[l], !.by = "provider", !.manual = FALSE],
            reply[l], "provider", inv[work[l]].owner, inv[work[l]].token, inv[work[l]].claim)
  BY <1>1, <1>2, RowUpdates DEF Authors
<1>4. \/ /\ inv[work[l]].state = "UNKNOWN" /\ Current(l) /\ Owns(l, work[l])
         /\ inv' = [inv EXCEPT ![work[l]] = [inv[work[l]] EXCEPT
                      !.state = reply[l], !.by = "provider", !.manual = FALSE]]
      \/ UNCHANGED inv
  BY DEF Converge
<1> QED BY <1>1, <1>3, <1>4, OwnWrite, NoWrite

LEMMA ResolveWrites ==
  ASSUME IInv, NEW l \in Operators, NEW s \in Settled, Resolve(l, s)
  PROVE  /\ inv' \in [Invs -> InvRow] /\ KeepsClaims
         /\ \/ UNCHANGED inv
            \/ /\ inv[work[l]].state = "UNKNOWN" /\ Fenced(l, work[l])
               /\ Writes(work[l], s, "operator")
<1>1. inv \in [Invs -> InvRow] /\ work[l] \in Invs
      /\ held \in [Lanes -> 0..MaxToken] /\ l \in Lanes /\ s \in States
  BY DEF IInv, ToolsTypeOK, LanesArePlaced, Resolve, At, ControlTypeOK, Settled, States
<1>2. RowIs(Owned(l, [inv[work[l]] EXCEPT !.state = s, !.by = "operator", !.manual = FALSE]),
            s, "operator", OwnerOf[l], held[l], inv[work[l]].claim)
  BY <1>1, RowUpdates DEF Authors
<1>3. \/ /\ inv[work[l]].state = "UNKNOWN" /\ Current(l)
         /\ inv' = [inv EXCEPT ![work[l]] = Owned(l, [inv[work[l]] EXCEPT
                      !.state = s, !.by = "operator", !.manual = FALSE])]
      \/ UNCHANGED inv
  BY DEF Resolve
<1> QED BY <1>1, <1>2, <1>3, WriteRow, NoWrite, FencedRow

LEMMA BackoffWrites ==
  ASSUME IInv, NEW i \in Invs, BackoffElapses(i)
  PROVE  inv' \in [Invs -> InvRow] /\ KeepsClaims /\ Writes(i, inv[i].state, inv[i].by)
<1>1. inv \in [Invs -> InvRow]
  BY DEF IInv, ToolsTypeOK
<1>2. RowIs([inv[i] EXCEPT !.due = TRUE], inv[i].state, inv[i].by, inv[i].owner, inv[i].token, inv[i].claim)
  BY <1>1, FlagUpdate
<1>3. inv' = [inv EXCEPT ![i] = [inv[i] EXCEPT !.due = TRUE]]
  BY DEF BackoffElapses
<1> QED BY <1>1, <1>2, <1>3, WriteRow


-----------------------------------------------------------------------------
(* Types.                                                                  *)

LEMMA InitType == Init => ToolsTypeOK
  BY DEF Init, ControlInit, ToolsTypeOK, ControlTypeOK, ControlRow, InvRow, PcValues,
         States, ApprovalStates

LEMMA ExecutorType ==
  ASSUME IInv, NEW l \in Executors,
         ExecutorStep(l) \/ ExecutorRenews(l) \/ ProviderStep(l)
  PROVE  ToolsTypeOK'
<1> USE DEF ToolsTypeOK, Goto, PcValues
<1>0. l \in Lanes /\ ControlTypeOK /\ ToolsTypeOK
  BY DEF IInv
<1>w. pc[l] \in {"waiting", "started", "calling"} => work[l] \in Invs
  BY DEF IInv, LanesArePlaced
<1>1. CASE ExecutorClaims(l)
  BY <1>0, <1>1, ControlType DEF ExecutorClaims
<1>2. CASE ExecutorRenews(l)
  BY <1>0, <1>2, ControlType DEF ExecutorRenews
<1>3. CASE InvalidateRun(l)
  BY <1>0, <1>3, ControlType DEF InvalidateRun, ApprovalStates
<1>4. CASE FinalizeTerminal(l)
  BY <1>0, <1>4, ControlType DEF FinalizeTerminal
<1>5. CASE OwnershipLost(l)
  BY <1>0, <1>5, ControlType DEF OwnershipLost
<1>6. ASSUME NEW i \in Invs, RequestApproval(l, i)
      PROVE  ToolsTypeOK'
  BY <1>0, <1>6, ControlType DEF RequestApproval, ApprovalStates
<1>7. ASSUME NEW i \in Invs, Prepare(l, i)
      PROVE  ToolsTypeOK'
  BY <1>0, <1>7, ControlType, PrepareWrites DEF Prepare
<1>8. ASSUME NEW i \in Invs, AnswerFromLedger(l, i)
      PROVE  ToolsTypeOK'
  BY <1>0, <1>8, ControlType DEF AnswerFromLedger
<1>9. CASE WaitEndsWithoutApproval(l)
  BY <1>0, <1>9, ControlType DEF WaitEndsWithoutApproval
<1>10. CASE ClaimExecution(l)
  BY <1>0, <1>w, <1>10, ControlType DEF ClaimExecution, At
<1>11. CASE ExistingClaim(l)
  BY <1>0, <1>11, ControlType DEF ExistingClaim
<1>12. CASE Start(l)
  BY <1>0, <1>12, ControlType, StartWrites DEF Start
<1>13. CASE CallProvider(l)
  BY <1>0, <1>13, ControlType DEF CallProvider
<1>14. CASE Commit(l)
  BY <1>0, <1>14, ControlType, CommitWrites DEF Commit
<1>15. CASE MarkUnknown(l)
  <2>1. flying' \in [Invs -> Nat]
    BY <1>0, <1>w, <1>15 DEF MarkUnknown
  <2>2. inv' \in [Invs -> InvRow]
    BY <1>15, MarkUnknownWrites
  <2> QED BY <1>0, <1>15, <2>1, <2>2, ControlType DEF MarkUnknown
<1>16. CASE ProviderActs(l)
  BY <1>0, <1>w, <1>16, ControlType DEF ProviderActs
<1>17. CASE ProviderRefuses(l)
  BY <1>0, <1>17, ControlType DEF ProviderRefuses
<1>18. CASE LeaveOpen(l)
  BY <1>0, <1>18, ControlType DEF LeaveOpen
<1>19. CASE PrepareAhead(l)
  BY <1>0, <1>19, ControlType, PrepareAheadWrites DEF PrepareAhead
<1> QED BY <1>1, <1>2, <1>3, <1>4, <1>5, <1>6, <1>7, <1>8, <1>9, <1>10, <1>11,
           <1>12, <1>13, <1>14, <1>15, <1>16, <1>17, <1>18, <1>19 DEF ExecutorStep, ProviderStep

LEMMA LaneEndsType ==
  ASSUME ToolsTypeOK, NEW l \in Lanes, LaneEnds(l)
  PROVE  /\ ControlTypeOK'
         /\ pc' \in [Lanes -> PcValues]
         /\ work' \in [Lanes -> Invs \cup {NoInv}]
  BY ControlType DEF LaneEnds, ToolsTypeOK, Goto, PcValues

LEMMA ReconcilerType ==
  ASSUME IInv, NEW l \in Reconcilers, ReconcilerStep(l)
  PROVE  ToolsTypeOK'
<1> USE DEF ToolsTypeOK
<1>0. l \in Lanes /\ ControlTypeOK /\ ToolsTypeOK
  BY DEF IInv
<1>1. ASSUME NEW i \in Invs, SelectCandidate(l, i)
      PROVE  ToolsTypeOK'
  BY <1>0, <1>1, ControlType DEF SelectCandidate, Goto, PcValues
<1>2. CASE ReconcilerClaims(l)
  BY <1>0, <1>2, ControlType DEF ReconcilerClaims, Goto, PcValues
<1>3. CASE UnregisteredTool(l)
  BY <1>0, <1>3, LaneEndsType, StillUnknownWrites DEF UnregisteredTool
<1>4. CASE TakeOverRecord(l)
  BY <1>0, <1>4, LaneEndsType, TakeOverWrites, ControlType DEF TakeOverRecord, Goto, PcValues
<1>5. CASE Lookup(l)
  BY <1>0, <1>5, ControlType DEF Lookup, Goto, PcValues, Settled
<1>6. CASE RecordUnknown(l)
  BY <1>0, <1>6, LaneEndsType, StillUnknownWrites DEF RecordUnknown
<1>7. CASE Converge(l)
  BY <1>0, <1>7, LaneEndsType, ConvergeWrites DEF Converge
<1> QED BY <1>1, <1>2, <1>3, <1>4, <1>5, <1>6, <1>7 DEF ReconcilerStep

LEMMA OperatorType ==
  ASSUME IInv, NEW l \in Operators, OperatorStep(l)
  PROVE  ToolsTypeOK'
<1> USE DEF ToolsTypeOK
<1>0. l \in Lanes /\ ControlTypeOK /\ ToolsTypeOK
  BY DEF IInv
<1>1. ASSUME NEW i \in Invs, OperatorReads(l, i)
      PROVE  ToolsTypeOK'
  BY <1>0, <1>1, ControlType DEF OperatorReads, Goto, PcValues
<1>2. CASE OperatorClaims(l)
  BY <1>0, <1>2, ControlType DEF OperatorClaims, Goto, PcValues
<1>3. ASSUME NEW s \in Settled, Resolve(l, s)
      PROVE  ToolsTypeOK'
  BY <1>0, <1>3, LaneEndsType, ResolveWrites DEF Resolve
<1> QED BY <1>1, <1>2, <1>3 DEF OperatorStep

\* The lanes of a process that dies while it waits for the provider.
Orphans(o, i) == {l \in Executors : /\ OwnerOf[l] = o /\ pc[l] = "calling"
                                    /\ reply[l] = "none" /\ work[l] = i}

LEMMA OrphansAreFew ==
  ASSUME IInv, NEW o \in Owners, NEW i \in Invs
  PROVE  \/ Orphans(o, i) = {} /\ Cardinality(Orphans(o, i)) = 0
         \/ Orphans(o, i) # {} /\ Cardinality(Orphans(o, i)) = 1
<1>1. \A a, b \in Orphans(o, i) : a = b
  BY DEF IInv, AskedOnce, Orphans, Asks
<1> QED BY <1>1, SetOfAtMostOne

LEMMA DiesType ==
  ASSUME IInv, NEW o \in Owners, Dies(o)
  PROVE  ToolsTypeOK'
<1> USE DEF ToolsTypeOK
<1>0. ToolsTypeOK
  BY DEF IInv
<1>1. flying' = [i \in Invs |-> flying[i] + Cardinality(Orphans(o, i))]
  BY DEF Dies, Orphans
<1>2. flying' \in [Invs -> Nat]
  BY <1>0, <1>1, OrphansAreFew
<1>3. ControlTypeOK'
  BY <1>0 DEF Dies, ControlTypeOK
<1>4. /\ pc' \in [Lanes -> PcValues] /\ work' \in [Lanes -> Invs \cup {NoInv}]
      /\ alive' \subseteq Owners
  BY <1>0 DEF Dies, PcValues
<1>5. UNCHANGED <<kind, inv, approval, claims, reply, effects>>
  BY DEF Dies
<1> QED BY <1>0, <1>2, <1>3, <1>4, <1>5

LEMMA EnvironmentType ==
  ASSUME IInv,
         \/ \E i \in Invs : LateCall(i) \/ BackoffElapses(i)
                            \/ \E d \in {"APPROVED", "REJECTED"} : Decide(i, d)
         \/ UserCancels \/ Tick
  PROVE  ToolsTypeOK'
<1> USE DEF ToolsTypeOK
<1>0. ControlTypeOK /\ ToolsTypeOK
  BY DEF IInv
<1>1. ASSUME NEW i \in Invs, LateCall(i)
      PROVE  ToolsTypeOK'
  BY <1>0, <1>1 DEF LateCall, ControlTypeOK
<1>2. ASSUME NEW i \in Invs, BackoffElapses(i)
      PROVE  ToolsTypeOK'
  BY <1>0, <1>2, BackoffWrites DEF BackoffElapses, ControlTypeOK
<1>3. ASSUME NEW i \in Invs, NEW d \in {"APPROVED", "REJECTED"}, Decide(i, d)
      PROVE  ToolsTypeOK'
  BY <1>0, <1>3 DEF Decide, ApprovalStates, ControlTypeOK
<1>4. CASE UserCancels
  BY <1>0, <1>4 DEF UserCancels, RequestCancel, ControlTypeOK, ControlRow
<1>5. CASE Tick
  BY <1>0, <1>5 DEF Tick, LeaseRunsDown, ControlTypeOK, ControlRow
<1> QED BY <1>1, <1>2, <1>3, <1>4, <1>5


-----------------------------------------------------------------------------
(* The parts of the invariant, action by action.                           *)

LEMMA ExecutorPlaced ==
  ASSUME IInv, ToolsTypeOK', NEW l \in Executors,
         ExecutorStep(l) \/ ExecutorRenews(l) \/ ProviderStep(l)
  PROVE  LanesArePlaced'
<1> USE DEF LanesArePlaced, Goto, At, Fresh, Writes, ToolsTypeOK
<1>0. ToolsTypeOK /\ LanesArePlaced
  BY DEF IInv
<1>1. CASE ExecutorClaims(l)
  BY <1>0, <1>1 DEF ExecutorClaims
<1>2. CASE ExecutorRenews(l)
  BY <1>0, <1>2 DEF ExecutorRenews
<1>3. CASE InvalidateRun(l)
  BY <1>0, <1>3 DEF InvalidateRun
<1>4. CASE FinalizeTerminal(l)
  BY <1>0, <1>4 DEF FinalizeTerminal
<1>5. CASE OwnershipLost(l)
  BY <1>0, <1>5 DEF OwnershipLost
<1>6. ASSUME NEW i \in Invs, RequestApproval(l, i)
      PROVE  LanesArePlaced'
  BY <1>0, <1>6 DEF RequestApproval
<1>7. ASSUME NEW i \in Invs, Prepare(l, i)
      PROVE  LanesArePlaced'
  <2>1. /\ pc' = [pc EXCEPT ![l] = "prepared"] /\ work' = [work EXCEPT ![l] = i]
        /\ UNCHANGED <<reply, flying, effects>>
    BY <1>7 DEF Prepare
  <2>2. Writes(i, "PREPARED", inv[i].by) /\ inv[i].state \in Fresh
    BY <1>7, PrepareWrites
  <2> QED BY <1>0, <2>1, <2>2
<1>8. ASSUME NEW i \in Invs, AnswerFromLedger(l, i)
      PROVE  LanesArePlaced'
  BY <1>0, <1>8 DEF AnswerFromLedger
<1>9. CASE WaitEndsWithoutApproval(l)
  BY <1>0, <1>9 DEF WaitEndsWithoutApproval
<1>10. CASE ClaimExecution(l)
  BY <1>0, <1>10 DEF ClaimExecution
<1>11. CASE ExistingClaim(l)
  BY <1>0, <1>11 DEF ExistingClaim
<1>12. CASE Start(l)
  BY <1>0, <1>12, StartWrites DEF Start
<1>13. CASE CallProvider(l)
  BY <1>0, <1>13 DEF CallProvider
<1>14. CASE Commit(l)
  BY <1>0, <1>14, CommitWrites DEF Commit
<1>15. CASE MarkUnknown(l)
  BY <1>0, <1>15, MarkUnknownWrites DEF MarkUnknown
<1>16. CASE ProviderActs(l)
  BY <1>0, <1>16 DEF ProviderActs
<1>17. CASE ProviderRefuses(l)
  BY <1>0, <1>17 DEF ProviderRefuses
<1>18. CASE LeaveOpen(l)
  BY <1>0, <1>18 DEF LeaveOpen
<1>19. CASE PrepareAhead(l)
  BY <1>0, <1>19, PrepareAheadWrites DEF PrepareAhead
<1> QED BY <1>1, <1>2, <1>3, <1>4, <1>5, <1>6, <1>7, <1>8, <1>9, <1>10, <1>11, <1>12,
           <1>13, <1>14, <1>15, <1>16, <1>17, <1>18, <1>19 DEF ExecutorStep, ProviderStep

LEMMA ReconcilerPlaced ==
  ASSUME IInv, ToolsTypeOK', NEW l \in Reconcilers, ReconcilerStep(l)
  PROVE  LanesArePlaced'
<1> USE DEF LanesArePlaced, Goto, At, Fresh, Writes, ToolsTypeOK
<1>0. ToolsTypeOK /\ LanesArePlaced
  BY DEF IInv
<1>1. ASSUME NEW i \in Invs, SelectCandidate(l, i)
      PROVE  LanesArePlaced'
  BY <1>0, <1>1 DEF SelectCandidate, Candidate
<1>2. CASE ReconcilerClaims(l)
  BY <1>0, <1>2 DEF ReconcilerClaims
<1>3. CASE UnregisteredTool(l)
  BY <1>0, <1>3, StillUnknownWrites DEF UnregisteredTool, LaneEnds
<1>4. CASE TakeOverRecord(l)
  BY <1>0, <1>4, TakeOverWrites DEF TakeOverRecord, LaneEnds
<1>5. CASE Lookup(l)
  BY <1>0, <1>5 DEF Lookup
<1>6. CASE RecordUnknown(l)
  BY <1>0, <1>6, StillUnknownWrites DEF RecordUnknown, LaneEnds
<1>7. CASE Converge(l)
  <2>1. \/ UNCHANGED inv
        \/ /\ reply[l] \in Settled /\ pc[l] = "answered" /\ inv[work[l]].state = "UNKNOWN"
           /\ Writes(work[l], reply[l], "provider")
    BY <1>7, ConvergeWrites DEF Converge
  <2>2. /\ pc' = [pc EXCEPT ![l] = "idle"] /\ work' = [work EXCEPT ![l] = NoInv]
        /\ UNCHANGED <<approval, claims, reply, flying, effects>>
    BY <1>7 DEF Converge, LaneEnds
  <2> QED BY <1>0, <2>1, <2>2 DEF Settled
<1> QED BY <1>1, <1>2, <1>3, <1>4, <1>5, <1>6, <1>7 DEF ReconcilerStep

LEMMA OperatorPlaced ==
  ASSUME IInv, ToolsTypeOK', NEW l \in Operators, OperatorStep(l)
  PROVE  LanesArePlaced'
<1> USE DEF LanesArePlaced, Goto, At, Fresh, Writes, ToolsTypeOK
<1>0. ToolsTypeOK /\ LanesArePlaced
  BY DEF IInv
<1>1. ASSUME NEW i \in Invs, OperatorReads(l, i)
      PROVE  LanesArePlaced'
  BY <1>0, <1>1 DEF OperatorReads
<1>2. CASE OperatorClaims(l)
  BY <1>0, <1>2 DEF OperatorClaims
<1>3. ASSUME NEW s \in Settled, Resolve(l, s)
      PROVE  LanesArePlaced'
  BY <1>0, <1>3, ResolveWrites DEF Resolve, LaneEnds, Settled
<1> QED BY <1>1, <1>2, <1>3 DEF OperatorStep

LEMMA EnvironmentPlaced ==
  ASSUME IInv, ToolsTypeOK',
         \/ \E i \in Invs : LateCall(i) \/ BackoffElapses(i)
                            \/ \E d \in {"APPROVED", "REJECTED"} : Decide(i, d)
         \/ \E o \in Owners : Dies(o)
         \/ UserCancels \/ Tick
  PROVE  LanesArePlaced'
<1> USE DEF LanesArePlaced, Goto, At, Fresh, Writes, ToolsTypeOK
<1>0. ToolsTypeOK /\ LanesArePlaced
  BY DEF IInv
<1>1. ASSUME NEW i \in Invs, LateCall(i)
      PROVE  LanesArePlaced'
  BY <1>0, <1>1 DEF LateCall
<1>2. ASSUME NEW i \in Invs, BackoffElapses(i)
      PROVE  LanesArePlaced'
  BY <1>0, <1>2, BackoffWrites DEF BackoffElapses
<1>3. ASSUME NEW i \in Invs, NEW d \in {"APPROVED", "REJECTED"}, Decide(i, d)
      PROVE  LanesArePlaced'
  BY <1>0, <1>3 DEF Decide
<1>4. ASSUME NEW o \in Owners, Dies(o)
      PROVE  LanesArePlaced'
  BY <1>0, <1>4 DEF Dies
<1>5. CASE UserCancels
  BY <1>0, <1>5 DEF UserCancels
<1>6. CASE Tick
  BY <1>0, <1>6 DEF Tick
<1> QED BY <1>1, <1>2, <1>3, <1>4, <1>5, <1>6

\* A step that asks nothing new, causes nothing and unstarts no row.
LEMMA QuietStep ==
  ASSUME AskedOnce, UNCHANGED <<flying, effects>>,
         \A k \in Executors, i \in Invs : Asks(k, i)' => Asks(k, i),
         \A i \in Invs : inv'[i].state \in Fresh => inv[i].state \in Fresh
  PROVE  AskedOnce'
  BY DEF AskedOnce

LEMMA ExecutorAsked ==
  ASSUME IInv, ToolsTypeOK', NEW l \in Executors,
         ExecutorStep(l) \/ ExecutorRenews(l) \/ ProviderStep(l)
  PROVE  AskedOnce'
<1> USE DEF AskedOnce, Asks, Goto, At, Fresh, Writes, ToolsTypeOK, LanesArePlaced
<1>0. ToolsTypeOK /\ LanesArePlaced /\ AskedOnce
  BY DEF IInv
<1>1. CASE ExecutorClaims(l)
  BY <1>0, <1>1 DEF ExecutorClaims
<1>2. CASE ExecutorRenews(l)
  BY <1>0, <1>2 DEF ExecutorRenews
<1>3. CASE InvalidateRun(l)
  BY <1>0, <1>3 DEF InvalidateRun
<1>4. CASE FinalizeTerminal(l)
  BY <1>0, <1>4 DEF FinalizeTerminal
<1>5. CASE OwnershipLost(l)
  BY <1>0, <1>5 DEF OwnershipLost
<1>6. ASSUME NEW i \in Invs, RequestApproval(l, i)
      PROVE  AskedOnce'
  BY <1>0, <1>6 DEF RequestApproval
<1>7. ASSUME NEW i \in Invs, Prepare(l, i)
      PROVE  AskedOnce'
  <2>1. /\ pc' = [pc EXCEPT ![l] = "prepared"] /\ work' = [work EXCEPT ![l] = i]
        /\ UNCHANGED <<reply, flying, effects>>
    BY <1>7 DEF Prepare
  <2>2. Writes(i, "PREPARED", inv[i].by) /\ inv[i].state \in Fresh
    BY <1>7, PrepareWrites
  <2> QED BY <1>0, <2>1, <2>2
<1>8. ASSUME NEW i \in Invs, AnswerFromLedger(l, i)
      PROVE  AskedOnce'
  BY <1>0, <1>8 DEF AnswerFromLedger
<1>9. CASE WaitEndsWithoutApproval(l)
  BY <1>0, <1>9 DEF WaitEndsWithoutApproval
<1>10. CASE ClaimExecution(l)
  BY <1>0, <1>10 DEF ClaimExecution
<1>11. CASE ExistingClaim(l)
  <2>1. \E p \in {"leased", "claimed"} : pc' = [pc EXCEPT ![l] = p]
    BY <1>11 DEF ExistingClaim
  <2>2. /\ work' = work \/ work' = [work EXCEPT ![l] = NoInv]
        /\ UNCHANGED <<inv, reply, flying, effects>> /\ pc[l] = "waiting"
    BY <1>11 DEF ExistingClaim
  <2>3. \A k \in Executors, i \in Invs : Asks(k, i)' => Asks(k, i)
    BY <1>0, <2>1, <2>2
  <2> QED BY <1>0, <2>2, <2>3, QuietStep
<1>12. CASE Start(l)
  <2>1. CASE Current(l) /\ Owns(l, work[l]) /\ inv[work[l]].state = "PREPARED"
    <3> DEFINE i == work[l]
    <3>1. i \in Invs /\ \A j \in Invs : inv'[j].state = IF j = i THEN "STARTED" ELSE inv[j].state
      <4>1. i \in Invs
        BY <1>0, <1>12 DEF Start
      <4>2. inv'[i].state = "STARTED"
        BY <1>0, <1>12, <2>1, <4>1 DEF Start, InvRow
      <4> QED BY <2>1, <1>12, <4>1, <4>2, StartWrites
    <3>2. /\ pc' = [pc EXCEPT ![l] = "started"]
          /\ UNCHANGED <<work, reply, flying, effects>>
      BY <1>12, <2>1 DEF Start
    <3>3. ASSUME NEW k \in Executors, NEW j \in Invs, Asks(k, j)'
          PROVE  Asks(k, j) \/ (k = l /\ j = i)
      <4>1. work'[k] = work[k] /\ reply'[k] = reply[k] /\ (k # l => pc'[k] = pc[k])
        BY <1>0, <3>2
      <4> QED BY <3>3, <4>1
    <3>4. effects[i] = 0 /\ flying[i] = 0 /\ \A k \in Executors : ~Asks(k, i)
      BY <1>0, <2>1, <3>1
    <3> HIDE DEF Asks
    <3> QED BY <1>0, <2>1, <3>1, <3>2, <3>3, <3>4
  <2>2. CASE ~(Current(l) /\ Owns(l, work[l]) /\ inv[work[l]].state = "PREPARED")
    <3>1. /\ pc' = [pc EXCEPT ![l] = "leased"] /\ work' = [work EXCEPT ![l] = NoInv]
          /\ UNCHANGED <<inv, reply, flying, effects>>
      BY <1>12, <2>2 DEF Start
    <3>2. \A k \in Executors, i \in Invs : Asks(k, i)' => Asks(k, i)
      BY <1>0, <3>1
    <3> QED BY <1>0, <3>1, <3>2, QuietStep
  <2> QED BY <2>1, <2>2
<1>13. CASE CallProvider(l)
  BY <1>0, <1>13 DEF CallProvider
<1>14. CASE Commit(l)
  <2>1. UNCHANGED inv \/ Writes(work[l], "COMMITTED", "executor")
    BY <1>14, CommitWrites DEF Commit
  <2>2. /\ pc' = [pc EXCEPT ![l] = "leased"] /\ work' = [work EXCEPT ![l] = NoInv]
        /\ UNCHANGED <<reply, flying, effects>>
    BY <1>14 DEF Commit, LaneEnds
  <2>3. \A k \in Executors, i \in Invs : Asks(k, i)' => Asks(k, i)
    BY <1>0, <2>2
  <2>4. \A i \in Invs : inv'[i].state \in Fresh => inv[i].state \in Fresh
    BY <1>0, <2>1
  <2> QED BY <1>0, <2>2, <2>3, <2>4, QuietStep
<1>15. CASE MarkUnknown(l)
  BY <1>0, <1>15, MarkUnknownWrites DEF MarkUnknown
<1>16. CASE ProviderActs(l)
  <2>1. work[l] \in Invs /\ Asks(l, work[l])
    BY <1>0, <1>16 DEF ProviderActs
  <2>2. effects[work[l]] = 0 /\ flying[work[l]] = 0 /\ inv[work[l]].state \notin Fresh
    BY <1>0, <2>1
  <2>3. \A k \in Executors, i \in Invs : Asks(k, i)' => k # l /\ Asks(k, i)
    BY <1>0, <1>16 DEF ProviderActs
  <2>4. \A k \in Executors : ~Asks(k, work[l])'
    <3>1. \A k \in Executors : Asks(k, work[l]) => k = l
      BY <1>0, <2>1
    <3>2. UNCHANGED work
      BY <1>16 DEF ProviderActs
    <3> HIDE DEF Asks
    <3> QED BY <2>1, <2>3, <3>1, <3>2
  <2>5. /\ UNCHANGED <<inv, flying, work>>
        /\ \A i \in Invs : effects'[i] = IF i = work[l] THEN effects[i] + 1 ELSE effects[i]
    BY <1>0, <1>16 DEF ProviderActs
  <2> HIDE DEF Asks
  <2> QED BY <1>0, <2>1, <2>2, <2>3, <2>4, <2>5
<1>17. CASE ProviderRefuses(l)
  BY <1>0, <1>17 DEF ProviderRefuses
<1>18. CASE LeaveOpen(l)
  BY <1>0, <1>18 DEF LeaveOpen
<1>19. CASE PrepareAhead(l)
  BY <1>0, <1>19, PrepareAheadWrites DEF PrepareAhead
<1> QED BY <1>1, <1>2, <1>3, <1>4, <1>5, <1>6, <1>7, <1>8, <1>9, <1>10, <1>11, <1>12,
           <1>13, <1>14, <1>15, <1>16, <1>17, <1>18, <1>19 DEF ExecutorStep, ProviderStep

LEMMA ReconcilerAsked ==
  ASSUME IInv, ToolsTypeOK', NEW l \in Reconcilers, ReconcilerStep(l)
  PROVE  AskedOnce'
<1> USE DEF AskedOnce, Asks, Goto, At, Fresh, Writes, ToolsTypeOK, LanesArePlaced
<1>0. ToolsTypeOK /\ LanesArePlaced /\ AskedOnce
  BY DEF IInv
<1>1. ASSUME NEW i \in Invs, SelectCandidate(l, i)
      PROVE  AskedOnce'
  BY <1>0, <1>1 DEF SelectCandidate
<1>2. CASE ReconcilerClaims(l)
  BY <1>0, <1>2 DEF ReconcilerClaims
<1>3. CASE UnregisteredTool(l)
  <2>1. pc[l] # "idle" /\ (UNCHANGED inv \/ Writes(work[l], "UNKNOWN", inv[work[l]].by))
    BY <1>3, StillUnknownWrites DEF UnregisteredTool
  <2>2. /\ pc' = [pc EXCEPT ![l] = "idle"] /\ work' = [work EXCEPT ![l] = NoInv]
        /\ UNCHANGED <<reply, flying, effects>>
    BY <1>3 DEF UnregisteredTool, LaneEnds
  <2>3. \A k \in Executors, i \in Invs : Asks(k, i)' => Asks(k, i)
    BY <1>0, <2>2
  <2>4. \A i \in Invs : inv'[i].state \in Fresh => inv[i].state \in Fresh
    BY <1>0, <2>1
  <2> QED BY <1>0, <2>2, <2>3, <2>4, QuietStep
<1>4. CASE TakeOverRecord(l)
  <2>1. UNCHANGED inv \/ Writes(work[l], "UNKNOWN", inv[work[l]].by)
    BY <1>4, TakeOverWrites
  <2>2. /\ \E p \in {"idle", "lookup", "unsupported"} : pc' = [pc EXCEPT ![l] = p]
        /\ work' = work \/ work' = [work EXCEPT ![l] = NoInv]
        /\ UNCHANGED <<reply, flying, effects>>
    BY <1>4 DEF TakeOverRecord, LaneEnds
  <2>3. \A k \in Executors, i \in Invs : Asks(k, i)' => Asks(k, i)
    BY <1>0, <2>2
  <2>4. \A i \in Invs : inv'[i].state \in Fresh => inv[i].state \in Fresh
    BY <1>0, <2>1
  <2> QED BY <1>0, <2>2, <2>3, <2>4, QuietStep
<1>5. CASE Lookup(l)
  BY <1>0, <1>5 DEF Lookup
<1>6. CASE RecordUnknown(l)
  <2>1. pc[l] # "idle" /\ (UNCHANGED inv \/ Writes(work[l], "UNKNOWN", inv[work[l]].by))
    BY <1>6, StillUnknownWrites DEF RecordUnknown
  <2>2. /\ pc' = [pc EXCEPT ![l] = "idle"] /\ work' = [work EXCEPT ![l] = NoInv]
        /\ UNCHANGED <<reply, flying, effects>>
    BY <1>6 DEF RecordUnknown, LaneEnds
  <2>3. \A k \in Executors, i \in Invs : Asks(k, i)' => Asks(k, i)
    BY <1>0, <2>2
  <2>4. \A i \in Invs : inv'[i].state \in Fresh => inv[i].state \in Fresh
    BY <1>0, <2>1
  <2> QED BY <1>0, <2>2, <2>3, <2>4, QuietStep
<1>7. CASE Converge(l)
  <2>1. \/ UNCHANGED inv
        \/ inv[work[l]].state = "UNKNOWN" /\ Writes(work[l], reply[l], "provider")
           /\ reply[l] \in {"COMMITTED", "NOT_COMMITTED"}
    BY <1>7, ConvergeWrites DEF Converge, Settled
  <2>2. /\ pc' = [pc EXCEPT ![l] = "idle"] /\ work' = [work EXCEPT ![l] = NoInv]
        /\ UNCHANGED <<reply, flying, effects>>
    BY <1>7 DEF Converge, LaneEnds
  <2>3. \A k \in Executors, i \in Invs : Asks(k, i)' => Asks(k, i)
    BY <1>0, <2>2
  <2>4. \A i \in Invs : inv'[i].state \in Fresh => inv[i].state \in Fresh
    BY <1>0, <2>1
  <2> QED BY <1>0, <2>2, <2>3, <2>4, QuietStep
<1> QED BY <1>1, <1>2, <1>3, <1>4, <1>5, <1>6, <1>7 DEF ReconcilerStep

LEMMA OperatorAsked ==
  ASSUME IInv, ToolsTypeOK', NEW l \in Operators, OperatorStep(l)
  PROVE  AskedOnce'
<1> USE DEF AskedOnce, Asks, Goto, At, Fresh, Writes, ToolsTypeOK, LanesArePlaced
<1>0. ToolsTypeOK /\ LanesArePlaced /\ AskedOnce
  BY DEF IInv
<1>1. ASSUME NEW i \in Invs, OperatorReads(l, i)
      PROVE  AskedOnce'
  BY <1>0, <1>1 DEF OperatorReads
<1>2. CASE OperatorClaims(l)
  BY <1>0, <1>2 DEF OperatorClaims
<1>3. ASSUME NEW s \in Settled, Resolve(l, s)
      PROVE  AskedOnce'
  <2>1. (UNCHANGED inv \/ Writes(work[l], s, "operator")) /\ s \in {"COMMITTED", "NOT_COMMITTED"}
    BY <1>3, ResolveWrites DEF Resolve, Settled
  <2>2. /\ pc' = [pc EXCEPT ![l] = "idle"] /\ work' = [work EXCEPT ![l] = NoInv]
        /\ UNCHANGED <<reply, flying, effects>>
    BY <1>3 DEF Resolve, LaneEnds
  <2>3. \A k \in Executors, i \in Invs : Asks(k, i)' => Asks(k, i)
    BY <1>0, <2>2
  <2>4. \A i \in Invs : inv'[i].state \in Fresh => inv[i].state \in Fresh
    BY <1>0, <2>1
  <2> QED BY <1>0, <2>2, <2>3, <2>4, QuietStep
<1> QED BY <1>1, <1>2, <1>3 DEF OperatorStep

LEMMA EnvironmentAsked ==
  ASSUME IInv, ToolsTypeOK',
         \/ \E i \in Invs : LateCall(i) \/ BackoffElapses(i)
                            \/ \E d \in {"APPROVED", "REJECTED"} : Decide(i, d)
         \/ \E o \in Owners : Dies(o)
         \/ UserCancels \/ Tick
  PROVE  AskedOnce'
<1> USE DEF AskedOnce, Asks, Goto, At, Fresh, Writes, ToolsTypeOK, LanesArePlaced
<1>0. ToolsTypeOK /\ LanesArePlaced /\ AskedOnce
  BY DEF IInv
<1>1. ASSUME NEW i \in Invs, LateCall(i)
      PROVE  AskedOnce'
  BY <1>0, <1>1 DEF LateCall
<1>2. ASSUME NEW i \in Invs, BackoffElapses(i)
      PROVE  AskedOnce'
  BY <1>0, <1>2, BackoffWrites DEF BackoffElapses
<1>3. ASSUME NEW i \in Invs, NEW d \in {"APPROVED", "REJECTED"}, Decide(i, d)
      PROVE  AskedOnce'
  BY <1>0, <1>3 DEF Decide
<1>4. ASSUME NEW o \in Owners, Dies(o)
      PROVE  AskedOnce'
  <2>1. flying' = [i \in Invs |-> flying[i] + Cardinality(Orphans(o, i))]
    BY <1>4 DEF Dies, Orphans
  <2>2. \A k \in Executors, i \in Invs : Asks(k, i)' <=> Asks(k, i) /\ OwnerOf[k] # o
    BY <1>0, <1>4 DEF Dies
  <2>3. ASSUME NEW i \in Invs
        PROVE  \/ flying'[i] = flying[i]
               \/ /\ \E l \in Executors : Asks(l, i) /\ OwnerOf[l] = o
                  /\ flying'[i] = flying[i] + 1
    <3>1. flying'[i] = flying[i] + Cardinality(Orphans(o, i)) /\ flying[i] \in Nat
      BY <1>0, <2>1
    <3>2. Orphans(o, i) # {} => \E l \in Executors : Asks(l, i) /\ OwnerOf[l] = o
      BY DEF Orphans
    <3> HIDE DEF Asks
    <3> QED BY <3>1, <3>2, OrphansAreFew
  <2>4. UNCHANGED <<inv, effects>>
    BY <1>4 DEF Dies
  <2>5. ASSUME NEW i \in Invs
        PROVE  /\ effects'[i] + flying'[i] <= 1
               /\ (inv[i].state \in Fresh \/ \E l \in Executors : Asks(l, i)')
                    => effects'[i] = 0 /\ flying'[i] = 0
    <3> HIDE DEF Asks
    <3>1. effects[i] \in Nat /\ flying[i] \in Nat
      BY <1>0
    <3>2. CASE flying'[i] = flying[i]
      BY <1>0, <2>2, <2>4, <3>2
    <3>3. CASE /\ \E l \in Executors : Asks(l, i) /\ OwnerOf[l] = o
               /\ flying'[i] = flying[i] + 1
      <4>1. /\ effects[i] = 0 /\ flying[i] = 0 /\ inv[i].state \notin Fresh
            /\ \A k \in Executors : Asks(k, i) => OwnerOf[k] = o
        BY <1>0, <3>3
      <4> QED BY <2>2, <2>4, <3>3, <4>1
    <3> QED BY <2>3, <3>2, <3>3
  <2> HIDE DEF Asks
  <2> QED BY <1>0, <2>2, <2>4, <2>5
<1>5. CASE UserCancels
  BY <1>0, <1>5 DEF UserCancels
<1>6. CASE Tick
  BY <1>0, <1>6 DEF Tick
<1> QED BY <1>1, <1>2, <1>3, <1>4, <1>5, <1>6

LEMMA ExecutorTruth ==
  ASSUME IInv, ToolsTypeOK', NEW l \in Executors,
         ExecutorStep(l) \/ ExecutorRenews(l) \/ ProviderStep(l)
  PROVE  (AnswersAreTrue /\ CommittedHappened)'
<1> USE DEF AnswersAreTrue, CommittedHappened, Goto, At, Writes, ToolsTypeOK, LanesArePlaced
<1>0. ToolsTypeOK /\ LanesArePlaced /\ AnswersAreTrue /\ CommittedHappened
  BY DEF IInv
<1>1. CASE ExecutorClaims(l)
  BY <1>0, <1>1 DEF ExecutorClaims
<1>2. CASE ExecutorRenews(l)
  BY <1>0, <1>2 DEF ExecutorRenews
<1>3. CASE InvalidateRun(l)
  BY <1>0, <1>3 DEF InvalidateRun
<1>4. CASE FinalizeTerminal(l)
  BY <1>0, <1>4 DEF FinalizeTerminal
<1>5. CASE OwnershipLost(l)
  BY <1>0, <1>5 DEF OwnershipLost
<1>6. ASSUME NEW i \in Invs, RequestApproval(l, i)
      PROVE  (AnswersAreTrue /\ CommittedHappened)'
  BY <1>0, <1>6 DEF RequestApproval
<1>7. ASSUME NEW i \in Invs, Prepare(l, i)
      PROVE  (AnswersAreTrue /\ CommittedHappened)'
  <2>1. Writes(i, "PREPARED", inv[i].by)
    BY <1>7, PrepareWrites
  <2>2. /\ pc' = [pc EXCEPT ![l] = "prepared"] /\ work' = [work EXCEPT ![l] = i]
        /\ UNCHANGED <<reply, effects>>
    BY <1>7 DEF Prepare
  <2> QED BY <1>0, <2>1, <2>2
<1>8. ASSUME NEW i \in Invs, AnswerFromLedger(l, i)
      PROVE  (AnswersAreTrue /\ CommittedHappened)'
  BY <1>0, <1>8 DEF AnswerFromLedger
<1>9. CASE WaitEndsWithoutApproval(l)
  BY <1>0, <1>9 DEF WaitEndsWithoutApproval
<1>10. CASE ClaimExecution(l)
  BY <1>0, <1>10 DEF ClaimExecution
<1>11. CASE ExistingClaim(l)
  BY <1>0, <1>11 DEF ExistingClaim
<1>12. CASE Start(l)
  BY <1>0, <1>12, StartWrites DEF Start
<1>13. CASE CallProvider(l)
  BY <1>0, <1>13 DEF CallProvider
<1>14. CASE Commit(l)
  BY <1>0, <1>14, CommitWrites DEF Commit
<1>15. CASE MarkUnknown(l)
  BY <1>0, <1>15, MarkUnknownWrites DEF MarkUnknown
<1>16. CASE ProviderActs(l)
  BY <1>0, <1>16 DEF ProviderActs
<1>17. CASE ProviderRefuses(l)
  BY <1>0, <1>17 DEF ProviderRefuses
<1>18. CASE LeaveOpen(l)
  BY <1>0, <1>18 DEF LeaveOpen
<1>19. CASE PrepareAhead(l)
  BY <1>0, <1>19, PrepareAheadWrites DEF PrepareAhead
<1> QED BY <1>1, <1>2, <1>3, <1>4, <1>5, <1>6, <1>7, <1>8, <1>9, <1>10, <1>11, <1>12,
           <1>13, <1>14, <1>15, <1>16, <1>17, <1>18, <1>19 DEF ExecutorStep, ProviderStep

LEMMA ReconcilerTruth ==
  ASSUME IInv, ToolsTypeOK', NEW l \in Reconcilers, ReconcilerStep(l)
  PROVE  (AnswersAreTrue /\ CommittedHappened)'
<1> USE DEF AnswersAreTrue, CommittedHappened, Goto, At, Writes, ToolsTypeOK, LanesArePlaced
<1>0. ToolsTypeOK /\ LanesArePlaced /\ AnswersAreTrue /\ CommittedHappened
  BY DEF IInv
<1>1. ASSUME NEW i \in Invs, SelectCandidate(l, i)
      PROVE  (AnswersAreTrue /\ CommittedHappened)'
  BY <1>0, <1>1 DEF SelectCandidate
<1>2. CASE ReconcilerClaims(l)
  BY <1>0, <1>2 DEF ReconcilerClaims
<1>3. CASE UnregisteredTool(l)
  BY <1>0, <1>3, StillUnknownWrites DEF UnregisteredTool, LaneEnds
<1>4. CASE TakeOverRecord(l)
  BY <1>0, <1>4, TakeOverWrites DEF TakeOverRecord, LaneEnds
<1>5. CASE Lookup(l)
  BY <1>0, <1>5 DEF Lookup
<1>6. CASE RecordUnknown(l)
  BY <1>0, <1>6, StillUnknownWrites DEF RecordUnknown, LaneEnds
<1>7. CASE Converge(l)
  <2>1. \/ UNCHANGED inv
        \/ /\ reply[l] \in Settled /\ pc[l] = "answered" /\ inv[work[l]].state = "UNKNOWN"
           /\ Writes(work[l], reply[l], "provider")
    BY <1>7, ConvergeWrites DEF Converge
  <2>2. /\ pc' = [pc EXCEPT ![l] = "idle"] /\ work' = [work EXCEPT ![l] = NoInv]
        /\ UNCHANGED <<approval, claims, reply, flying, effects>>
    BY <1>7 DEF Converge, LaneEnds
  <2> QED BY <1>0, <2>1, <2>2 DEF Settled
<1> QED BY <1>1, <1>2, <1>3, <1>4, <1>5, <1>6, <1>7 DEF ReconcilerStep

LEMMA OperatorTruth ==
  ASSUME IInv, ToolsTypeOK', NEW l \in Operators, OperatorStep(l)
  PROVE  (AnswersAreTrue /\ CommittedHappened)'
<1> USE DEF AnswersAreTrue, CommittedHappened, Goto, At, Writes, ToolsTypeOK, LanesArePlaced
<1>0. ToolsTypeOK /\ LanesArePlaced /\ AnswersAreTrue /\ CommittedHappened
  BY DEF IInv
<1>1. ASSUME NEW i \in Invs, OperatorReads(l, i)
      PROVE  (AnswersAreTrue /\ CommittedHappened)'
  BY <1>0, <1>1 DEF OperatorReads
<1>2. CASE OperatorClaims(l)
  BY <1>0, <1>2 DEF OperatorClaims
<1>3. ASSUME NEW s \in Settled, Resolve(l, s)
      PROVE  (AnswersAreTrue /\ CommittedHappened)'
  BY <1>0, <1>3, ResolveWrites DEF Resolve, LaneEnds, Settled
<1> QED BY <1>1, <1>2, <1>3 DEF OperatorStep

LEMMA EnvironmentTruth ==
  ASSUME IInv, ToolsTypeOK',
         \/ \E i \in Invs : LateCall(i) \/ BackoffElapses(i)
                            \/ \E d \in {"APPROVED", "REJECTED"} : Decide(i, d)
         \/ \E o \in Owners : Dies(o)
         \/ UserCancels \/ Tick
  PROVE  (AnswersAreTrue /\ CommittedHappened)'
<1> USE DEF AnswersAreTrue, CommittedHappened, Goto, At, Writes, ToolsTypeOK, LanesArePlaced
<1>0. ToolsTypeOK /\ LanesArePlaced /\ AnswersAreTrue /\ CommittedHappened
  BY DEF IInv
<1>1. ASSUME NEW i \in Invs, LateCall(i)
      PROVE  (AnswersAreTrue /\ CommittedHappened)'
  BY <1>0, <1>1 DEF LateCall
<1>2. ASSUME NEW i \in Invs, BackoffElapses(i)
      PROVE  (AnswersAreTrue /\ CommittedHappened)'
  BY <1>0, <1>2, BackoffWrites DEF BackoffElapses
<1>3. ASSUME NEW i \in Invs, NEW d \in {"APPROVED", "REJECTED"}, Decide(i, d)
      PROVE  (AnswersAreTrue /\ CommittedHappened)'
  BY <1>0, <1>3 DEF Decide
<1>4. ASSUME NEW o \in Owners, Dies(o)
      PROVE  (AnswersAreTrue /\ CommittedHappened)'
  BY <1>0, <1>4 DEF Dies
<1>5. CASE UserCancels
  BY <1>0, <1>5 DEF UserCancels
<1>6. CASE Tick
  BY <1>0, <1>6 DEF Tick
<1> QED BY <1>1, <1>2, <1>3, <1>4, <1>5, <1>6

LEMMA ExecutorEarned ==
  ASSUME IInv, ToolsTypeOK', NEW l \in Executors,
         ExecutorStep(l) \/ ExecutorRenews(l) \/ ProviderStep(l)
  PROVE  (ClaimIsEarned /\ ApprovedAndClaimedOnce)'
<1> USE DEF ClaimIsEarned, ApprovedAndClaimedOnce, Goto, At, Writes, KeepsClaims, ToolsTypeOK, LanesArePlaced
<1>0. ToolsTypeOK /\ LanesArePlaced /\ ClaimIsEarned /\ ApprovedAndClaimedOnce
  BY DEF IInv
<1>1. CASE ExecutorClaims(l)
  BY <1>0, <1>1 DEF ExecutorClaims
<1>2. CASE ExecutorRenews(l)
  BY <1>0, <1>2 DEF ExecutorRenews
<1>3. CASE InvalidateRun(l)
  BY <1>0, <1>3 DEF InvalidateRun
<1>4. CASE FinalizeTerminal(l)
  BY <1>0, <1>4 DEF FinalizeTerminal
<1>5. CASE OwnershipLost(l)
  BY <1>0, <1>5 DEF OwnershipLost
<1>6. ASSUME NEW i \in Invs, RequestApproval(l, i)
      PROVE  (ClaimIsEarned /\ ApprovedAndClaimedOnce)'
  BY <1>0, <1>6 DEF RequestApproval
<1>7. ASSUME NEW i \in Invs, Prepare(l, i)
      PROVE  (ClaimIsEarned /\ ApprovedAndClaimedOnce)'
  <2>1. /\ pc' = [pc EXCEPT ![l] = "prepared"] /\ work' = [work EXCEPT ![l] = i]
        /\ UNCHANGED <<reply, flying, effects>>
        /\ UNCHANGED <<approval, claims>> /\ (i \in Gated => pc[l] = "claimed" /\ work[l] = i)
    BY <1>7 DEF Prepare
  <2>2. Writes(i, "PREPARED", inv[i].by) /\ inv[i].state \in Fresh /\ KeepsClaims /\ (i \in Gated => inv'[i].claim = "bound")
    BY <1>7, PrepareWrites
  <2> QED BY <1>0, <2>1, <2>2
<1>8. ASSUME NEW i \in Invs, AnswerFromLedger(l, i)
      PROVE  (ClaimIsEarned /\ ApprovedAndClaimedOnce)'
  BY <1>0, <1>8 DEF AnswerFromLedger
<1>9. CASE WaitEndsWithoutApproval(l)
  BY <1>0, <1>9 DEF WaitEndsWithoutApproval
<1>10. CASE ClaimExecution(l)
  BY <1>0, <1>10 DEF ClaimExecution
<1>11. CASE ExistingClaim(l)
  BY <1>0, <1>11 DEF ExistingClaim
<1>12. CASE Start(l)
  BY <1>0, <1>12, StartWrites DEF Start
<1>13. CASE CallProvider(l)
  BY <1>0, <1>13 DEF CallProvider
<1>14. CASE Commit(l)
  BY <1>0, <1>14, CommitWrites DEF Commit
<1>15. CASE MarkUnknown(l)
  BY <1>0, <1>15, MarkUnknownWrites DEF MarkUnknown
<1>16. CASE ProviderActs(l)
  BY <1>0, <1>16 DEF ProviderActs
<1>17. CASE ProviderRefuses(l)
  BY <1>0, <1>17 DEF ProviderRefuses
<1>18. CASE LeaveOpen(l)
  BY <1>0, <1>18 DEF LeaveOpen
<1>19. CASE PrepareAhead(l)
  <2>1. /\ pc' = [pc EXCEPT ![l] = "leaving"] /\ work' = [work EXCEPT ![l] = NoInv]
        /\ UNCHANGED <<approval, claims>> /\ pc[l] = "waiting"
    BY <1>19 DEF PrepareAhead
  <2>2. /\ KeepsClaims /\ work[l] \in Gated
        /\ UNCHANGED inv \/ Writes(work[l], "PREPARED", inv[work[l]].by)
    BY <1>19, PrepareAheadWrites
  <2> QED BY <1>0, <2>1, <2>2
<1> QED BY <1>1, <1>2, <1>3, <1>4, <1>5, <1>6, <1>7, <1>8, <1>9, <1>10, <1>11, <1>12,
           <1>13, <1>14, <1>15, <1>16, <1>17, <1>18, <1>19 DEF ExecutorStep, ProviderStep

LEMMA ReconcilerEarned ==
  ASSUME IInv, ToolsTypeOK', NEW l \in Reconcilers, ReconcilerStep(l)
  PROVE  (ClaimIsEarned /\ ApprovedAndClaimedOnce)'
<1> USE DEF ClaimIsEarned, ApprovedAndClaimedOnce, Goto, At, Writes, KeepsClaims, ToolsTypeOK, LanesArePlaced
<1>0. ToolsTypeOK /\ LanesArePlaced /\ ClaimIsEarned /\ ApprovedAndClaimedOnce
  BY DEF IInv
<1>1. ASSUME NEW i \in Invs, SelectCandidate(l, i)
      PROVE  (ClaimIsEarned /\ ApprovedAndClaimedOnce)'
  BY <1>0, <1>1 DEF SelectCandidate
<1>2. CASE ReconcilerClaims(l)
  BY <1>0, <1>2 DEF ReconcilerClaims
<1>3. CASE UnregisteredTool(l)
  BY <1>0, <1>3, StillUnknownWrites DEF UnregisteredTool, LaneEnds, Fresh
<1>4. CASE TakeOverRecord(l)
  BY <1>0, <1>4, TakeOverWrites DEF TakeOverRecord, LaneEnds, Fresh
<1>5. CASE Lookup(l)
  BY <1>0, <1>5 DEF Lookup
<1>6. CASE RecordUnknown(l)
  BY <1>0, <1>6, StillUnknownWrites DEF RecordUnknown, LaneEnds, Fresh
<1>7. CASE Converge(l)
  BY <1>0, <1>7, ConvergeWrites DEF Converge, LaneEnds, Settled
<1> QED BY <1>1, <1>2, <1>3, <1>4, <1>5, <1>6, <1>7 DEF ReconcilerStep

LEMMA OperatorEarned ==
  ASSUME IInv, ToolsTypeOK', NEW l \in Operators, OperatorStep(l)
  PROVE  (ClaimIsEarned /\ ApprovedAndClaimedOnce)'
<1> USE DEF ClaimIsEarned, ApprovedAndClaimedOnce, Goto, At, Writes, KeepsClaims, ToolsTypeOK, LanesArePlaced
<1>0. ToolsTypeOK /\ LanesArePlaced /\ ClaimIsEarned /\ ApprovedAndClaimedOnce
  BY DEF IInv
<1>1. ASSUME NEW i \in Invs, OperatorReads(l, i)
      PROVE  (ClaimIsEarned /\ ApprovedAndClaimedOnce)'
  BY <1>0, <1>1 DEF OperatorReads
<1>2. CASE OperatorClaims(l)
  BY <1>0, <1>2 DEF OperatorClaims
<1>3. ASSUME NEW s \in Settled, Resolve(l, s)
      PROVE  (ClaimIsEarned /\ ApprovedAndClaimedOnce)'
  BY <1>0, <1>3, ResolveWrites DEF Resolve, LaneEnds, Settled
<1> QED BY <1>1, <1>2, <1>3 DEF OperatorStep

LEMMA EnvironmentEarned ==
  ASSUME IInv, ToolsTypeOK',
         \/ \E i \in Invs : LateCall(i) \/ BackoffElapses(i)
                            \/ \E d \in {"APPROVED", "REJECTED"} : Decide(i, d)
         \/ \E o \in Owners : Dies(o)
         \/ UserCancels \/ Tick
  PROVE  (ClaimIsEarned /\ ApprovedAndClaimedOnce)'
<1> USE DEF ClaimIsEarned, ApprovedAndClaimedOnce, Goto, At, Writes, KeepsClaims, ToolsTypeOK, LanesArePlaced
<1>0. ToolsTypeOK /\ LanesArePlaced /\ ClaimIsEarned /\ ApprovedAndClaimedOnce
  BY DEF IInv
<1>1. ASSUME NEW i \in Invs, LateCall(i)
      PROVE  (ClaimIsEarned /\ ApprovedAndClaimedOnce)'
  BY <1>0, <1>1 DEF LateCall
<1>2. ASSUME NEW i \in Invs, BackoffElapses(i)
      PROVE  (ClaimIsEarned /\ ApprovedAndClaimedOnce)'
  BY <1>0, <1>2, BackoffWrites DEF BackoffElapses
<1>3. ASSUME NEW i \in Invs, NEW d \in {"APPROVED", "REJECTED"}, Decide(i, d)
      PROVE  (ClaimIsEarned /\ ApprovedAndClaimedOnce)'
  BY <1>0, <1>3 DEF Decide
<1>4. ASSUME NEW o \in Owners, Dies(o)
      PROVE  (ClaimIsEarned /\ ApprovedAndClaimedOnce)'
  BY <1>0, <1>4 DEF Dies
<1>5. CASE UserCancels
  BY <1>0, <1>5 DEF UserCancels
<1>6. CASE Tick
  BY <1>0, <1>6 DEF Tick
<1> QED BY <1>1, <1>2, <1>3, <1>4, <1>5, <1>6

-----------------------------------------------------------------------------
(* The invariant, and what follows from it.                                *)

LEMMA InitInv == Init => IInv
<1> SUFFICES ASSUME Init PROVE IInv
  OBVIOUS
<1>1. ToolsTypeOK
  BY InitType
<1>2. /\ \A l \in Lanes : pc[l] = "idle" /\ reply[l] = "none"
      /\ \A i \in Invs : effects[i] = 0 /\ flying[i] = 0 /\ claims[i] = 0 /\ inv[i].state = "none"
  BY DEF Init
<1>3. LanesArePlaced /\ AskedOnce /\ AnswersAreTrue /\ ClaimIsEarned
  BY <1>2 DEF LanesArePlaced, AskedOnce, Asks, AnswersAreTrue, ClaimIsEarned
<1>4. CommittedHappened /\ ApprovedAndClaimedOnce
  BY <1>2 DEF CommittedHappened, ApprovedAndClaimedOnce
<1> QED BY <1>1, <1>3, <1>4 DEF IInv

LEMMA Inductive == IInv /\ [Next]_vars => IInv'
<1> SUFFICES ASSUME IInv, [Next]_vars PROVE IInv'
  OBVIOUS
<1> USE DEF IInv
<1>1. ASSUME NEW l \in Executors, ExecutorStep(l) \/ ExecutorRenews(l) \/ ProviderStep(l)
      PROVE  IInv'
  <2>1. ToolsTypeOK'
    BY <1>1, ExecutorType
  <2> HIDE DEF IInv
  <2>2. LanesArePlaced' /\ AskedOnce'
    BY <1>1, <2>1, ExecutorPlaced, ExecutorAsked
  <2>3. (AnswersAreTrue /\ CommittedHappened)' /\ (ClaimIsEarned /\ ApprovedAndClaimedOnce)'
    BY <1>1, <2>1, ExecutorTruth, ExecutorEarned
  <2> QED BY <2>1, <2>2, <2>3 DEF IInv
<1>2. ASSUME NEW l \in Reconcilers, ReconcilerStep(l)
      PROVE  IInv'
  <2>1. ToolsTypeOK'
    BY <1>2, ReconcilerType
  <2> HIDE DEF IInv
  <2>2. LanesArePlaced' /\ AskedOnce'
    BY <1>2, <2>1, ReconcilerPlaced, ReconcilerAsked
  <2>3. (AnswersAreTrue /\ CommittedHappened)' /\ (ClaimIsEarned /\ ApprovedAndClaimedOnce)'
    BY <1>2, <2>1, ReconcilerTruth, ReconcilerEarned
  <2> QED BY <2>1, <2>2, <2>3 DEF IInv
<1>3. ASSUME NEW l \in Operators, OperatorStep(l)
      PROVE  IInv'
  <2>1. ToolsTypeOK'
    BY <1>3, OperatorType
  <2> HIDE DEF IInv
  <2>2. LanesArePlaced' /\ AskedOnce'
    BY <1>3, <2>1, OperatorPlaced, OperatorAsked
  <2>3. (AnswersAreTrue /\ CommittedHappened)' /\ (ClaimIsEarned /\ ApprovedAndClaimedOnce)'
    BY <1>3, <2>1, OperatorTruth, OperatorEarned
  <2> QED BY <2>1, <2>2, <2>3 DEF IInv
<1>4. ASSUME \/ \E i \in Invs : LateCall(i) \/ BackoffElapses(i)
                            \/ \E d \in {"APPROVED", "REJECTED"} : Decide(i, d)
             \/ \E o \in Owners : Dies(o)
             \/ UserCancels \/ Tick
      PROVE  IInv'
  <2>1. ToolsTypeOK'
    BY <1>4, EnvironmentType, DiesType
  <2> HIDE DEF IInv
  <2>2. LanesArePlaced' /\ AskedOnce'
    BY <1>4, <2>1, EnvironmentPlaced, EnvironmentAsked
  <2>3. (AnswersAreTrue /\ CommittedHappened)' /\ (ClaimIsEarned /\ ApprovedAndClaimedOnce)'
    BY <1>4, <2>1, EnvironmentTruth, EnvironmentEarned
  <2> QED BY <2>1, <2>2, <2>3 DEF IInv
<1>5. CASE UNCHANGED vars
  BY <1>5 DEF vars, ToolsTypeOK, ControlTypeOK, LanesArePlaced, AskedOnce, Asks,
     AnswersAreTrue, CommittedHappened, ClaimIsEarned, ApprovedAndClaimedOnce
<1> QED BY <1>1, <1>2, <1>3, <1>4, <1>5 DEF Next

\* Type correctness of the ledger, the control row and the lanes.
THEOREM ToolsTypes == Spec => []ToolsTypeOK
<1>1. IInv => ToolsTypeOK
  BY DEF IInv
<1> QED BY <1>1, InitInv, Inductive, PTL DEF Spec

\* Whatever lanes lose the run, die or answer late, the side effect of a tool
\* invocation happens at most once and is asked for at most once
\* (tool_idempotency.py start, tool_execution.py mark_durable_unknown).
THEOREM EffectsHappenOnce == Spec => []EffectAtMostOnce
<1>1. IInv => EffectAtMostOnce
  <2> SUFFICES ASSUME IInv, NEW i \in Invs
               PROVE  effects[i] + flying[i] + Cardinality(Waiting(i)) <= 1
    BY DEF EffectAtMostOnce
  <2>1. \A l \in Waiting(i) : l \in Executors /\ Asks(l, i)
    BY DEF Waiting, Asks
  <2>2. \/ Waiting(i) = {} /\ Cardinality(Waiting(i)) = 0
        \/ Waiting(i) # {} /\ Cardinality(Waiting(i)) = 1
    <3>1. \A a, b \in Waiting(i) : a = b
      BY <2>1 DEF IInv, AskedOnce
    <3> QED BY <3>1, SetOfAtMostOne
  <2>3. effects[i] \in Nat /\ flying[i] \in Nat
    BY DEF IInv, ToolsTypeOK
  <2> QED BY <2>1, <2>2, <2>3 DEF IInv, AskedOnce
<1> QED BY <1>1, InitInv, Inductive, PTL DEF Spec

\* A row the executor or the adapter's lookup committed says what the provider
\* did (tool_idempotency.py committed, reconcile_durable_record).
THEOREM CommittedIsTrue == Spec => []CommittedHappened
<1>1. IInv => CommittedHappened
  BY DEF IInv
<1> QED BY <1>1, InitInv, Inductive, PTL DEF Spec

\* A gated invocation leaves PREPARED only with its approval granted, its one
\* execution claim made and the row bound to it (durable_approval.py
\* claim_execution, tool_idempotency.py prepare): the row Stage 8 prepares ahead
\* of the decision (stage8/execution.py) starts nothing.
THEOREM GatedIsApproved == Spec => []ApprovedAndClaimedOnce
<1>1. IInv => ApprovedAndClaimedOnce
  BY DEF IInv
<1> QED BY <1>1, InitInv, Inductive, PTL DEF Spec

-----------------------------------------------------------------------------
(* What a step may never do to the ledger.                                 *)

\* Only BackoffElapses and fenced writes of one row change the ledger.
LedgerStep ==
    \/ UNCHANGED inv
    \/ \E i \in Invs : inv' = [inv EXCEPT ![i].due = TRUE]
    \/ \E l \in Lanes, i \in Invs :
         /\ Fenced(l, i)
         /\ inv[i].state \notin Settled

LEMMA EveryLedgerStep ==
  ASSUME IInv, Next
  PROVE  LedgerStep
<1> USE DEF LedgerStep
<1>1. ASSUME NEW l \in Executors, ExecutorStep(l) \/ ExecutorRenews(l) \/ ProviderStep(l)
      PROVE  LedgerStep
  <2>1. \/ \E i \in Invs : Prepare(l, i)
        \/ Start(l) \/ Commit(l) \/ MarkUnknown(l) \/ PrepareAhead(l)
        \/ UNCHANGED inv
    BY <1>1 DEF ExecutorStep, ProviderStep, ExecutorClaims, InvalidateRun, FinalizeTerminal,
       OwnershipLost, RequestApproval, AnswerFromLedger, WaitEndsWithoutApproval,
       ClaimExecution, ExistingClaim, CallProvider, ExecutorRenews, ProviderActs, ProviderRefuses, LeaveOpen
  <2>2. \A i \in Invs : Prepare(l, i) => inv[i].state \notin Settled /\ Fenced(l, i)
    BY PrepareWrites DEF Fresh, Settled
  <2>3. Start(l) \/ Commit(l) \/ MarkUnknown(l)
        => \/ UNCHANGED inv
           \/ work[l] \in Invs /\ inv[work[l]].state \notin Settled /\ Fenced(l, work[l])
    <3>1. Start(l) \/ Commit(l) \/ MarkUnknown(l) => work[l] \in Invs
      BY DEF IInv, LanesArePlaced, Start, Commit, MarkUnknown, At
    <3> QED BY <3>1, StartWrites, CommitWrites, MarkUnknownWrites DEF Settled
  <2>4. PrepareAhead(l) => \/ UNCHANGED inv
                           \/ /\ work[l] \in Invs /\ inv[work[l]].state \notin Settled
                              /\ Fenced(l, work[l])
    BY PrepareAheadWrites DEF Fresh, Settled
  <2> QED BY <2>1, <2>2, <2>3, <2>4
<1>2. ASSUME NEW l \in Reconcilers, ReconcilerStep(l)
      PROVE  LedgerStep
  <2>1. \/ UnregisteredTool(l) \/ RecordUnknown(l) \/ TakeOverRecord(l) \/ Converge(l)
        \/ UNCHANGED inv
    BY <1>2 DEF ReconcilerStep, SelectCandidate, ReconcilerClaims, Lookup
  <2>2. UnregisteredTool(l) \/ RecordUnknown(l) \/ TakeOverRecord(l) \/ Converge(l)
        => work[l] \in Invs
    BY DEF IInv, LanesArePlaced, UnregisteredTool, RecordUnknown, TakeOverRecord, Converge, At
  <2>3. UnregisteredTool(l) \/ RecordUnknown(l) \/ TakeOverRecord(l) \/ Converge(l)
        => UNCHANGED inv \/ (inv[work[l]].state \notin Settled /\ Fenced(l, work[l]))
    BY StillUnknownWrites, TakeOverWrites, ConvergeWrites DEF Settled
  <2> QED BY <2>1, <2>2, <2>3
<1>3. ASSUME NEW l \in Operators, OperatorStep(l)
      PROVE  LedgerStep
  <2>1. (\E s \in Settled : Resolve(l, s)) \/ UNCHANGED inv
    BY <1>3 DEF OperatorStep, OperatorReads, OperatorClaims
  <2>2. \A s \in Settled : Resolve(l, s)
          => /\ work[l] \in Invs
             /\ UNCHANGED inv \/ (inv[work[l]].state \notin Settled /\ Fenced(l, work[l]))
    <3> TAKE s \in Settled
    <3>1. Resolve(l, s) => work[l] \in Invs
      BY DEF IInv, LanesArePlaced, Resolve, At
    <3> QED BY <3>1, ResolveWrites DEF Settled
  <2> QED BY <2>1, <2>2
<1>4. ASSUME NEW i \in Invs,
             LateCall(i) \/ BackoffElapses(i)
             \/ \E d \in {"APPROVED", "REJECTED"} : Decide(i, d)
      PROVE  LedgerStep
  BY <1>4 DEF LateCall, BackoffElapses, Decide
<1>5. ASSUME (\E o \in Owners : Dies(o)) \/ UserCancels \/ Tick
      PROVE  LedgerStep
  BY <1>5 DEF Dies, UserCancels, Tick
<1> QED BY <1>1, <1>2, <1>3, <1>4, <1>5 DEF Next

LEMMA DueIsNoWrite ==
  ASSUME NEW r \in InvRow
  PROVE  /\ [r EXCEPT !.due = r.due] = r
         /\ [[r EXCEPT !.due = TRUE] EXCEPT !.due = r.due] = r
  BY DEF InvRow

\* A ledger row changes only under the run's live lease, and carries its owner
\* and token afterwards: what a lane that lost the run writes is refused
\* (tool_idempotency.py _assert_owner, run_control.py _lock_current_lease).
THEOREM LedgerFencing == Spec => LedgerIsFenced
<1>1. IInv /\ [Next]_vars => [\A i \in Invs : [inv'[i] EXCEPT !.due = inv[i].due] # inv[i]
        => /\ control.state = "ACTIVE" /\ Live
           /\ inv'[i].token = control.token /\ inv'[i].owner = control.owner]_vars
  <2> SUFFICES ASSUME IInv, Next, NEW i \in Invs,
                      [inv'[i] EXCEPT !.due = inv[i].due] # inv[i]
               PROVE  /\ control.state = "ACTIVE" /\ Live
                      /\ inv'[i].token = control.token /\ inv'[i].owner = control.owner
    OBVIOUS
  <2>1. inv \in [Invs -> InvRow] /\ inv[i] \in InvRow
    BY DEF IInv, ToolsTypeOK
  <2>2. inv'[i] # inv[i]
    BY <2>1, DueIsNoWrite
  <2>3. ~\E j \in Invs : inv' = [inv EXCEPT ![j].due = TRUE]
    <3>1. ASSUME NEW j \in Invs, inv' = [inv EXCEPT ![j].due = TRUE]
          PROVE  FALSE
      <4>1. inv'[i] = inv[i] \/ inv'[i] = [inv[i] EXCEPT !.due = TRUE]
        BY <2>1, <3>1
      <4> QED BY <2>1, <2>2, <4>1, DueIsNoWrite
    <3> QED BY <3>1
  <2>4. PICK l \in Lanes, j \in Invs : Fenced(l, j)
    BY <2>2, <2>3, EveryLedgerStep DEF LedgerStep
  <2>5. j = i
    BY <2>2, <2>4 DEF Fenced
  <2> QED BY <2>4, <2>5 DEF Fenced, Current
<1> QED BY <1>1, InitInv, Inductive, PTL DEF Spec, LedgerIsFenced

\* No late executor, slow lookup or operator who read UNKNOWN before replaces a
\* settled outcome (tool_idempotency.py committed, _resolve_unknown).
THEOREM SettledStays == Spec => SettledIsFinal
<1>1. IInv /\ [Next]_vars
      => [\A i \in Invs : inv[i].state \in Settled => inv'[i].state = inv[i].state]_vars
  <2> SUFFICES ASSUME IInv, Next, NEW i \in Invs, inv[i].state \in Settled
               PROVE  inv'[i].state = inv[i].state
    OBVIOUS
  <2>1. inv \in [Invs -> InvRow]
    BY DEF IInv, ToolsTypeOK
  <2>2. CASE UNCHANGED inv
    BY <2>2
  <2>3. ASSUME NEW j \in Invs, inv' = [inv EXCEPT ![j].due = TRUE]
        PROVE  inv'[i].state = inv[i].state
    BY <2>1, <2>3 DEF InvRow
  <2>4. ASSUME NEW l \in Lanes, NEW j \in Invs, Fenced(l, j), inv[j].state \notin Settled
        PROVE  inv'[i].state = inv[i].state
    BY <2>4 DEF Fenced
  <2> QED BY <2>2, <2>3, <2>4, EveryLedgerStep DEF LedgerStep
<1> QED BY <1>1, InitInv, Inductive, PTL DEF Spec, SettledIsFinal

=============================================================================
