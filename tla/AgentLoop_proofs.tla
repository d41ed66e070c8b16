-------------------------- MODULE AgentLoop_proofs --------------------------
(***************************************************************************)
(* Proofs about the agent loop of one durable run, for any number of       *)
(* processes, takeovers and frames' decisions, and any pinned policy: a    *)
(* write happens once, after the reads beside it, and an observation is    *)
(* whole when the next decision is made on it.                             *)
(***************************************************************************)
EXTENDS AgentLoop, RunControl_proofs, WellFoundedInduction

-----------------------------------------------------------------------------
(* The agent loop: rows, frames and the executor that has the run.         *)

Phases == {"none", "NEED_DECISION", "WAIT_ACTIONS", "WAIT_CHILD", "RESULT_READY", "STOPPED"}
ActionKeys == UNION {UNION {UNION {{b[o].key : o \in DOMAIN b} : b \in p.batches[f]} : f \in Frames}
                     : p \in Pins}
Decided == (UNION {UNION {p.batches[f] : f \in Frames} : p \in Pins}) \cup {"none", Final, Handoff}
IterationRow ==
    [state : {"OPEN", "CLOSED", "ACCEPTED", "OBSERVED"}, model : {"none", "STARTED", "UNKNOWN", "COMPLETED"},
     answer : Decided, unknown : BOOLEAN, recovered : BOOLEAN]
ActionRow ==
    [key : ActionKeys, tool : {"none", "PREPARED", "STARTED", "UNKNOWN", "COMMITTED", "NOT_COMMITTED"},
     ok : BOOLEAN, approval : {"none", "PENDING", "APPROVED", "REJECTED", "INVALIDATED"},
     acted : BOOLEAN, result : {"none", "SUCCEEDED", "FAILED"}, skipped : BOOLEAN]
Batch == UNION {[1..k -> ActionRow] : k \in 0..MaxBatch}
CallPlaces == {"approve", "prepare", "start", "calling", "record", "skip"}
CallEnds == {"done", "doneFailed", "suspended", "errored", "cancelled", "limited"}
Waves == UNION {[S -> CallPlaces \cup CallEnds] : S \in SUBSET Ordinals}
DriverPlaces ==
    {"idle", "selected", "claimed", "drive", "asking", "batch", "childFailed", "suspending",
     "stopping", "failing", "closing", "ended"}
DriverRow ==
    [pc : DriverPlaces, frame : Frames, gen : Nat, no : Nat, queue : SUBSET Ordinals,
     failed : BOOLEAN, wave : Waves]
LoopRootRow ==
    [status : {"none", "ACTIVE", "SUCCEEDED", "FAILED"}, failures : Nat, manual : BOOLEAN,
     receipt : BOOLEAN]

LoopTypes ==
    /\ pinned \in Pins
    /\ loopRoot \in LoopRootRow
    /\ frames \in [Frames -> [phase : Phases, gen : Nat]]
    /\ iters \in [Frames -> Seq(IterationRow)]
    /\ acts \in [Frames -> Seq(Batch)]
    /\ delegation \in {"none", "accepted", "result", "observed"}
    /\ delivered \in Nat
    /\ driver \in [Lanes -> DriverRow]
    /\ \A f \in Frames : Len(acts[f]) = Len(iters[f])

\* Action o of iteration n of frame f.
Cell(f, n, o) == f \in Frames /\ n \in DOMAIN acts[f] /\ o \in DOMAIN acts[f][n]

Underway(a) == a.tool \notin {"none", "PREPARED"}

\* A row's result is its tool's, and only what was not started is skipped.
RowIsSound(a) ==
    /\ a.result # "none" => a.tool = "COMMITTED" /\ a.result = IF a.ok THEN "SUCCEEDED" ELSE "FAILED"
    /\ a.skipped => a.result = "none" /\ ~Underway(a)
    /\ a.acted => ~Reading(a) /\ Underway(a)
RowsAreSound == \A f, n, o : Cell(f, n, o) => RowIsSound(acts[f][n][o])

\* No write is decided on twice in a run, nor two in a batch.
KeysAreApart ==
    \A f, n, o, g, m, q :
        Cell(f, n, o) /\ Cell(g, m, q) /\ acts[f][n][o].key = acts[g][m][q].key
        /\ ~Reading(acts[f][n][o]) => f = g /\ n = m /\ o = q
OneWrite ==
    \A f, n, o, q : Cell(f, n, o) /\ Cell(f, n, q) /\ ~Reading(acts[f][n][o]) /\ ~Reading(acts[f][n][q])
                    => o = q

Good(a) == a.tool = "COMMITTED" /\ a.ok /\ a.result = "SUCCEEDED"

\* The tool of the action has failed, whether that is recorded or not.
Bad(a) == a.tool = "COMMITTED" /\ ~a.ok

\* Another action of a batch with a write.
BesideWrite(f, n, o, w) == Cell(f, n, o) /\ Cell(f, n, w) /\ o # w /\ ~Reading(acts[f][n][w])

WritesFollow ==
    \A f, n, o, w : BesideWrite(f, n, o, w) /\ Underway(acts[f][n][w]) => Good(acts[f][n][o])

\* An action is skipped because another one failed, or by the end of the child.
SkipsHaveCause ==
    \A f, n, o : Cell(f, n, o) /\ acts[f][n][o].skipped =>
        \/ f = "child" /\ delegation \in {"result", "observed"}
        \/ \E p : Cell(f, n, p) /\ Bad(acts[f][n][p])

FramesAreSound ==
    /\ delegation = "none" => frames["child"].phase = "none"
    /\ frames["child"].phase = "none" => Len(iters["child"]) = 0
    /\ \A f, n, o : Cell(f, n, o) /\ OpenTool(acts[f][n][o]) =>
         n = Len(iters[f]) /\ frames[f].phase \in {"WAIT_ACTIONS", "STOPPED"}
    /\ \A f \in Frames : \A n \in DOMAIN iters[f] : iters[f][n].state = "OPEN" => DOMAIN acts[f][n] = {}
    /\ frames["root"].phase = "WAIT_CHILD" =>
         Len(iters["root"]) > 0 /\ DOMAIN acts["root"][Len(iters["root"])] = {}
    /\ \A f \in Frames : frames[f].phase = "WAIT_ACTIONS" =>
         Len(iters[f]) > 0 /\ iters[f][Len(iters[f])].state # "OBSERVED"

ObservedIsWhole ==
    \A f, n, o : Cell(f, n, o) /\ iters[f][n].state = "OBSERVED" =>
        acts[f][n][o].skipped \/ acts[f][n][o].result # "none"

ChildIsClosed ==
    delegation \in {"result", "observed"} =>
        \A f, n, o : Cell(f, n, o) /\ f = "child" => ~OpenTool(acts[f][n][o])

\* What a row is like behind a call that stands at p.
CallFits(a, p) ==
    /\ p \in CallPlaces => a.result = "none" /\ ~a.skipped
    /\ p \in {"approve", "prepare"} => ~OpenTool(a)
    /\ p \in {"start", "skip"} => a.tool = "PREPARED"
    /\ p = "calling" => a.tool = "STARTED"
    /\ p = "record" => a.tool = "COMMITTED"
    /\ p = "done" => Good(a)
    /\ p = "doneFailed" => a.skipped \/ a.result = "FAILED"

\* What the executor of a batch has yet to do, is doing and has done agrees with
\* the rows.
QueueFits(batch, queue, wave) ==
    /\ queue \cup DOMAIN wave \subseteq DOMAIN batch /\ queue \cap DOMAIN wave = {}
    /\ \A o \in queue : batch[o].result = "none" /\ ~batch[o].skipped /\ ~OpenTool(batch[o])
    /\ \A o \in DOMAIN wave : CallFits(batch[o], wave[o])
    /\ \A o \in DOMAIN batch \ (queue \cup DOMAIN wave) : batch[o].skipped \/ batch[o].result # "none"

\* The write waits for the reads: a failure is known, or still to be met, or
\* what is over has succeeded; a skip has its cause; and a write is called when
\* all else has succeeded.
WriteWaits(batch, queue, wave, failed) ==
    /\ \/ failed
       \/ \E p \in queue \cup DOMAIN wave : Bad(batch[p])
       \/ \A o \in DOMAIN batch \ (queue \cup DOMAIN wave) : Good(batch[o])
    /\ failed => \E p \in DOMAIN batch : Bad(batch[p])
    /\ (\E o \in DOMAIN wave : wave[o] = "skip") => \E p \in DOMAIN batch : Bad(batch[p])
    /\ \A w \in DOMAIN wave : ~Reading(batch[w]) => \A o \in DOMAIN batch : o # w => Good(batch[o])

BatchIsSound(l) ==
    LET f == driver[l].frame
        n == driver[l].no
    IN
    /\ n \in DOMAIN acts[f] /\ n = Len(iters[f]) /\ frames[f].phase = "WAIT_ACTIONS"
    /\ f = "child" => delegation = "accepted"
    /\ QueueFits(acts[f][n], driver[l].queue, driver[l].wave)
    /\ WriteWaits(acts[f][n], driver[l].queue, driver[l].wave, driver[l].failed)

DriversArePlaced ==
    /\ \A l \in Lanes : driver[l].pc = "selected" =>
         l \in Resumers /\ loopRoot.status # "none" /\ ~(Live /\ control.owner = OwnerOf[l])
    /\ \A l \in Lanes : Current(l) /\ driver[l].pc = "batch" => BatchIsSound(l)
    /\ \A l \in Lanes : DOMAIN driver[l].wave # {} => driver[l].pc = "batch"

\* Nothing is there before the run is created.
RootIsCreated == loopRoot.status = "none" => frames["root"].phase = "none"

FinalIsOnce ==
    /\ delivered = IF loopRoot.receipt THEN 1 ELSE 0
    /\ \A l \in Lanes : driver[l].pc = "closing" => loopRoot.receipt
    /\ loopRoot.status = "SUCCEEDED" => loopRoot.receipt

LoopInv ==
    /\ TokensAreApart /\ LoopTypes
    /\ RowsAreSound /\ KeysAreApart /\ OneWrite /\ WritesFollow /\ SkipsHaveCause
    /\ FramesAreSound /\ ObservedIsWhole /\ ChildIsClosed
    /\ DriversArePlaced /\ RootIsCreated /\ FinalIsOnce

-----------------------------------------------------------------------------
(* Shapes: what an update of one action row leaves alone.                  *)

LEMMA EmptyBatch == <<>> \in Batch /\ DOMAIN <<>> = {} /\ <<>> \in Waves
<1>1. <<>> \in [1..0 -> ActionRow] /\ DOMAIN <<>> = {} /\ 0 \in 0..MaxBatch
  BY LoopAssumption DEF LoopAssumption
<1>2. <<>> \in [{} -> CallPlaces \cup CallEnds] /\ {} \in SUBSET Ordinals
  OBVIOUS
<1>3. <<>> \in Batch
  BY <1>1 DEF Batch
<1> QED BY <1>1, <1>2, <1>3 DEF Waves

LEMMA BatchParts ==
  ASSUME NEW b \in Batch
  PROVE  /\ DOMAIN b \subseteq Ordinals /\ b \in [DOMAIN b -> ActionRow]
         /\ \A o \in DOMAIN b : b[o] \in ActionRow
<1>1. PICK k \in 0..MaxBatch : b \in [1..k -> ActionRow]
  BY DEF Batch
<1>2. MaxBatch \in Nat
  BY LoopAssumption DEF LoopAssumption
<1>3. 1..k \subseteq Ordinals
  BY <1>1, <1>2 DEF Ordinals
<1> QED BY <1>1, <1>3

\* Other rows for the same actions.
LEMMA SameBatch ==
  ASSUME NEW b \in Batch, NEW c \in [DOMAIN b -> ActionRow]
  PROVE  c \in Batch
<1>1. PICK k \in 0..MaxBatch : b \in [1..k -> ActionRow]
  BY DEF Batch
<1>2. c \in [1..k -> ActionRow]
  BY <1>1
<1> QED BY <1>1, <1>2 DEF Batch

LEMMA SeqDomains ==
  ASSUME NEW S, NEW s \in Seq(S), NEW t \in Seq(S), Len(s) = Len(t), NEW n \in DOMAIN t
  PROVE  DOMAIN s = DOMAIN t /\ n \in 1..Len(t)
  OBVIOUS

LEMMA Shapes ==
  ASSUME LoopTypes, NEW f \in Frames
  PROVE  /\ Len(iters[f]) \in Nat
         /\ DOMAIN iters[f] = 1..Len(iters[f]) /\ DOMAIN acts[f] = 1..Len(iters[f])
         /\ iters[f] \in Seq(IterationRow) /\ acts[f] \in Seq(Batch)
         /\ \A n \in 1..Len(iters[f]) : iters[f][n] \in IterationRow /\ acts[f][n] \in Batch
  BY DEF LoopTypes

LEMMA Cells ==
  ASSUME LoopTypes, NEW f, NEW n, NEW o, Cell(f, n, o)
  PROVE  /\ f \in Frames /\ n \in 1..Len(iters[f]) /\ o \in Ordinals
         /\ acts[f][n] \in Batch /\ acts[f][n][o] \in ActionRow
<1>1. f \in Frames /\ n \in DOMAIN acts[f] /\ o \in DOMAIN acts[f][n]
  BY DEF Cell
<1>2. n \in 1..Len(iters[f]) /\ acts[f][n] \in Batch
  BY <1>1, Shapes
<1> QED BY <1>1, <1>2, BatchParts

\* The batches keep their actions.
SameShape ==
    /\ acts' \in [Frames -> Seq(Batch)]
    /\ \A f \in Frames : Len(acts'[f]) = Len(acts[f])
    /\ \A f \in Frames : \A n \in 1..Len(acts[f]) : DOMAIN acts'[f][n] = DOMAIN acts[f][n]

LEMMA ShapeCells ==
  ASSUME LoopTypes, SameShape, NEW f, NEW n, NEW o
  PROVE  Cell(f, n, o)' <=> Cell(f, n, o)
<1>1. CASE f \in Frames
  <2>1. acts'[f] \in Seq(Batch) /\ acts[f] \in Seq(Batch) /\ Len(acts'[f]) = Len(acts[f])
    BY <1>1 DEF SameShape, LoopTypes
  <2>2. DOMAIN acts'[f] = DOMAIN acts[f] /\ DOMAIN acts[f] = 1..Len(acts[f])
    BY <2>1
  <2> QED BY <1>1, <2>2 DEF Cell, SameShape
<1>2. CASE f \notin Frames
  BY <1>2 DEF Cell
<1> QED BY <1>1, <1>2

PutAction(f, n, o, row) == acts' = [acts EXCEPT ![f][n][o] = row]

LEMMA SetCell ==
  ASSUME LoopTypes, NEW f, NEW n, NEW o, Cell(f, n, o), NEW row \in ActionRow,
         PutAction(f, n, o, row)
  PROVE  /\ SameShape /\ acts'[f][n][o] = row
         /\ \A g, m, q : Cell(g, m, q) /\ <<g, m, q>> # <<f, n, o>> => acts'[g][m][q] = acts[g][m][q]
<1> DEFINE b == [acts[f][n] EXCEPT ![o] = row]
<1> DEFINE s == [acts[f] EXCEPT ![n] = b]
<1>1. /\ f \in Frames /\ n \in 1..Len(acts[f]) /\ o \in DOMAIN acts[f][n]
      /\ acts[f] \in Seq(Batch) /\ acts[f][n] \in Batch /\ acts \in [Frames -> Seq(Batch)]
  BY Cells DEF Cell, LoopTypes
<1>2. b \in Batch /\ DOMAIN b = DOMAIN acts[f][n] /\ b[o] = row
      /\ \A q \in DOMAIN acts[f][n] : q # o => b[q] = acts[f][n][q]
  <2>1. acts[f][n] \in [DOMAIN acts[f][n] -> ActionRow]
    BY <1>1, BatchParts
  <2>2. /\ b \in [DOMAIN acts[f][n] -> ActionRow] /\ b[o] = row
        /\ \A q \in DOMAIN acts[f][n] : q # o => b[q] = acts[f][n][q]
    BY <1>1, <2>1
  <2>3. b \in Batch
    BY <1>1, <2>2, SameBatch
  <2> QED BY <2>2, <2>3
<1> HIDE DEF b
<1>3. /\ s \in Seq(Batch) /\ Len(s) = Len(acts[f]) /\ s[n] = b
      /\ \A m \in 1..Len(acts[f]) : m # n => s[m] = acts[f][m]
  BY <1>1, <1>2
<1>4. acts' = [acts EXCEPT ![f] = s]
  BY <1>1 DEF b, PutAction
<1> HIDE DEF s
<1>5. /\ acts' \in [Frames -> Seq(Batch)] /\ acts'[f] = s
      /\ \A g \in Frames : g # f => acts'[g] = acts[g]
  BY <1>1, <1>3, <1>4
<1>6. SameShape
  BY <1>2, <1>3, <1>5 DEF SameShape
<1>7. ASSUME NEW g, NEW m, NEW q, Cell(g, m, q), <<g, m, q>> # <<f, n, o>>
      PROVE  acts'[g][m][q] = acts[g][m][q]
  <2>1. g \in Frames /\ m \in 1..Len(acts[g]) /\ q \in DOMAIN acts[g][m]
    BY <1>7, Cells DEF Cell, LoopTypes
  <2> QED BY <1>2, <1>3, <1>5, <1>7, <2>1
<1>8. acts'[f][n][o] = row
  BY <1>2, <1>3, <1>5
<1> QED BY <1>6, <1>7, <1>8

-----------------------------------------------------------------------------
(* Steps that only touch approvals and what the provider did.              *)

RowInv ==
    /\ RowsAreSound /\ KeysAreApart /\ OneWrite /\ WritesFollow /\ SkipsHaveCause
    /\ FramesAreSound /\ ObservedIsWhole /\ ChildIsClosed

\* The two rows differ in their approval or in what the provider did.
SameFate(a, b) ==
    /\ b.key = a.key /\ b.tool = a.tool /\ b.ok = a.ok
    /\ b.result = a.result /\ b.skipped = a.skipped

FatesStay ==
    /\ SameShape
    /\ \A f, n, o : Cell(f, n, o) => SameFate(acts[f][n][o], acts'[f][n][o])
                                     /\ RowIsSound(acts'[f][n][o])

LEMMA UnchangedFates ==
  ASSUME LoopTypes, RowsAreSound, UNCHANGED acts
  PROVE  FatesStay
  BY DEF FatesStay, SameShape, SameFate, RowsAreSound, LoopTypes

LEMMA FatesKeepRows ==
  ASSUME LoopTypes, RowInv, FatesStay, UNCHANGED <<iters, frames, delegation>>
  PROVE  RowInv'
<1>1. \A f, n, o : Cell(f, n, o)' <=> Cell(f, n, o)
  BY ShapeCells DEF FatesStay
<1>2. \A f, n, o : Cell(f, n, o) =>
        /\ Reading(acts'[f][n][o]) <=> Reading(acts[f][n][o])
        /\ Underway(acts'[f][n][o]) <=> Underway(acts[f][n][o])
        /\ OpenTool(acts'[f][n][o]) <=> OpenTool(acts[f][n][o])
        /\ Good(acts'[f][n][o]) <=> Good(acts[f][n][o])
        /\ Bad(acts'[f][n][o]) <=> Bad(acts[f][n][o])
        /\ SameFate(acts[f][n][o], acts'[f][n][o])
  BY DEF FatesStay, SameFate, Reading, Underway, OpenTool, Good, Bad
<1>3. RowsAreSound'
  BY <1>1 DEF FatesStay, RowsAreSound
<1>4. \A f, n, o, w : BesideWrite(f, n, o, w)' <=> BesideWrite(f, n, o, w)
  BY <1>1, <1>2 DEF BesideWrite
<1>5. KeysAreApart' /\ OneWrite'
  BY <1>1, <1>2 DEF RowInv, KeysAreApart, OneWrite, SameFate
<1>6. WritesFollow' /\ SkipsHaveCause'
  <2>1. WritesFollow'
    BY <1>2, <1>4 DEF RowInv, WritesFollow, BesideWrite
  <2>2. SkipsHaveCause'
    BY <1>1, <1>2 DEF RowInv, SkipsHaveCause, SameFate
  <2> QED BY <2>1, <2>2
<1>7. FramesAreSound'
  <2>1. \A f \in Frames : \A n \in DOMAIN iters[f] : DOMAIN acts'[f][n] = DOMAIN acts[f][n]
    <3>1. \A f \in Frames : DOMAIN iters[f] = 1..Len(acts[f])
      BY Shapes DEF LoopTypes
    <3> QED BY <3>1 DEF FatesStay, SameShape
  <2>2. "root" \in Frames
    BY DEF Frames
  <2>3. Len(iters["root"]) > 0 => Len(iters["root"]) \in DOMAIN iters["root"]
    BY <2>2, Shapes
  <2> QED BY <1>1, <1>2, <2>1, <2>2, <2>3 DEF RowInv, FramesAreSound
<1>8. ObservedIsWhole' /\ ChildIsClosed'
  BY <1>1, <1>2 DEF RowInv, ObservedIsWhole, ChildIsClosed, SameFate
<1> QED BY <1>3, <1>5, <1>6, <1>7, <1>8 DEF RowInv

LEMMA FatesFit ==
  ASSUME NEW b, NEW c, NEW queue, NEW wave, NEW failed, DOMAIN c = DOMAIN b,
         \A o \in DOMAIN b : SameFate(b[o], c[o])
  PROVE  /\ QueueFits(b, queue, wave) => QueueFits(c, queue, wave)
         /\ QueueFits(b, queue, wave) /\ WriteWaits(b, queue, wave, failed) => WriteWaits(c, queue, wave, failed)
<1>1. \A o \in DOMAIN b :
        /\ OpenTool(c[o]) <=> OpenTool(b[o])
        /\ Good(c[o]) <=> Good(b[o])
        /\ Bad(c[o]) <=> Bad(b[o])
        /\ Reading(c[o]) <=> Reading(b[o])
        /\ c[o].result = b[o].result /\ (c[o].skipped <=> b[o].skipped) /\ c[o].tool = b[o].tool
  BY DEF SameFate, OpenTool, Good, Bad, Reading
<1>2. \A o \in DOMAIN b : \A p : CallFits(b[o], p) => CallFits(c[o], p)
  BY <1>1 DEF CallFits
<1>3. QueueFits(b, queue, wave) => QueueFits(c, queue, wave)
  BY <1>1, <1>2 DEF QueueFits
<1>4. QueueFits(b, queue, wave) /\ WriteWaits(b, queue, wave, failed) => WriteWaits(c, queue, wave, failed)
  <2> SUFFICES ASSUME QueueFits(b, queue, wave), WriteWaits(b, queue, wave, failed)
               PROVE  WriteWaits(c, queue, wave, failed)
    OBVIOUS
  <2>1. queue \cup DOMAIN wave \subseteq DOMAIN b
    BY DEF QueueFits
  <2> QED BY <1>1, <2>1 DEF WriteWaits
<1> QED BY <1>3, <1>4

LEMMA FatesKeepBatch ==
  ASSUME LoopTypes, NEW l \in Lanes, BatchIsSound(l), driver'[l] = driver[l],
         FatesStay, UNCHANGED <<iters, frames, delegation>>
  PROVE  BatchIsSound(l)'
<1> DEFINE f == driver[l].frame
           n == driver[l].no
<1>1. f \in Frames /\ n \in DOMAIN acts[f] /\ acts'[f] \in Seq(Batch) /\ acts[f] \in Seq(Batch)
  BY DEF BatchIsSound, FatesStay, SameShape, LoopTypes, DriverRow
<1>2. n \in 1..Len(acts[f]) /\ DOMAIN acts'[f] = DOMAIN acts[f]
  BY <1>1 DEF FatesStay, SameShape
<1>3. DOMAIN acts'[f][n] = DOMAIN acts[f][n]
  BY <1>1, <1>2 DEF FatesStay, SameShape
<1>4. \A o \in DOMAIN acts[f][n] : SameFate(acts[f][n][o], acts'[f][n][o])
  BY <1>1 DEF FatesStay, Cell
<1>5. /\ QueueFits(acts'[f][n], driver[l].queue, driver[l].wave)
      /\ WriteWaits(acts'[f][n], driver[l].queue, driver[l].wave, driver[l].failed)
  BY <1>3, <1>4, FatesFit DEF BatchIsSound
<1> QED
  BY <1>2, <1>5 DEF BatchIsSound

-----------------------------------------------------------------------------
(* Drivers: the assignments to a lane's place, and what they keep.         *)

\* q is the driver x, but at place p with this work.
DriverIs(q, x, p, queue, failed, wave) ==
    /\ q \in DriverRow /\ q.pc = p /\ q.frame = x.frame /\ q.no = x.no /\ q.gen = x.gen
    /\ q.queue = queue /\ q.failed = failed /\ q.wave = wave

\* Lane l comes to stand as q says.
Moves(l, q) == q \in DriverRow /\ driver' = [driver EXCEPT ![l] = q]

LEMMA GoesMoves ==
  ASSUME LoopTypes, NEW l \in Lanes, NEW p \in DriverPlaces, Goes(l, p)
  PROVE  \E q : Moves(l, q) /\ DriverIs(q, driver[l], p, driver[l].queue, driver[l].failed, driver[l].wave)
<1> DEFINE q == [driver[l] EXCEPT !.pc = p]
<1>1. driver[l] \in DriverRow /\ driver' = [driver EXCEPT ![l] = q]
  BY DEF LoopTypes, Goes
<1>2. DriverIs(q, driver[l], p, driver[l].queue, driver[l].failed, driver[l].wave)
  BY <1>1 DEF DriverIs, DriverRow
<1> QED BY <1>1, <1>2 DEF Moves, DriverIs

\* A lane that has put its batch away.
Bare(q, p) == q \in DriverRow /\ q.pc = p /\ DOMAIN q.wave = {}

LEMMA ParkedRow == Parked \in DriverRow /\ DOMAIN Parked.wave = {} /\ Parked.pc = "idle"
<1>1. <<>> \in Waves /\ DOMAIN <<>> = {}
  BY EmptyBatch
<1> QED BY <1>1 DEF Parked, DriverRow, DriverPlaces, Frames

LEMMA ParkedAt ==
  ASSUME NEW p \in DriverPlaces, NEW g \in Nat
  PROVE  /\ Bare([Parked EXCEPT !.pc = p], p)
         /\ Bare([Parked EXCEPT !.pc = p, !.gen = g], p)
<1>1. Bare([Parked EXCEPT !.pc = p], p)
  BY ParkedRow DEF Bare, DriverRow
<1>2. [Parked EXCEPT !.pc = p, !.gen = g] = [[Parked EXCEPT !.pc = p] EXCEPT !.gen = g]
  BY ParkedRow DEF DriverRow
<1>3. ASSUME NEW x \in DriverRow PROVE [x EXCEPT !.gen = g] \in DriverRow
        /\ [x EXCEPT !.gen = g].pc = x.pc /\ [x EXCEPT !.gen = g].wave = x.wave
  BY DEF DriverRow
<1> QED BY <1>1, <1>2, <1>3 DEF Bare

LEMMA LeavesMoves ==
  ASSUME LoopTypes, NEW l \in Lanes, NEW p \in DriverPlaces, Leaves(l, p)
  PROVE  \E q : Moves(l, q) /\ Bare(q, p)
<1>1. driver[l].gen \in Nat
  BY DEF LoopTypes, DriverRow
<1> QED BY <1>1, ParkedAt DEF Leaves, Moves, Bare

LEMMA GoesOffMoves ==
  ASSUME LoopTypes, NEW l \in Lanes, GoesOff(l)
  PROVE  \E q, p : Moves(l, q) /\ Bare(q, p) /\ p \in {"idle", "ended"}
<1>1. CASE l \in Resumers
  BY <1>1, ParkedRow DEF GoesOff, Moves, Bare
<1>2. CASE l \notin Resumers
  <2>1. Bare([Parked EXCEPT !.pc = "ended"], "ended")
    BY ParkedAt DEF DriverPlaces
  <2> QED BY <1>2, <2>1 DEF GoesOff, Moves, Bare
<1> QED BY <1>1, <1>2

LEMMA WaveUpdate ==
  ASSUME NEW w \in Waves, NEW o \in DOMAIN w, NEW p \in CallPlaces \cup CallEnds
  PROVE  /\ [w EXCEPT ![o] = p] \in Waves /\ DOMAIN [w EXCEPT ![o] = p] = DOMAIN w
         /\ [w EXCEPT ![o] = p][o] = p
         /\ \A q \in DOMAIN w : q # o => [w EXCEPT ![o] = p][q] = w[q]
<1>1. PICK S \in SUBSET Ordinals : w \in [S -> CallPlaces \cup CallEnds]
  BY DEF Waves
<1>2. [w EXCEPT ![o] = p] \in [S -> CallPlaces \cup CallEnds]
  BY <1>1
<1> QED BY <1>1, <1>2 DEF Waves

LEMMA ThreadMoves ==
  ASSUME LoopTypes, NEW l \in Lanes, NEW o \in DOMAIN driver[l].wave,
         NEW p \in CallPlaces \cup CallEnds, Thread(l, o, p)
  PROVE  \E q : /\ Moves(l, q)
                /\ DriverIs(q, driver[l], driver[l].pc, driver[l].queue, driver[l].failed,
                            [driver[l].wave EXCEPT ![o] = p])
<1> DEFINE w == [driver[l].wave EXCEPT ![o] = p]
           q == [driver[l] EXCEPT !.wave = w]
<1>1. driver[l] \in DriverRow /\ driver[l].wave \in Waves
  BY DEF LoopTypes, DriverRow
<1>2. w \in Waves
  BY <1>1, WaveUpdate
<1>3. driver' = [driver EXCEPT ![l] = q]
  BY <1>1 DEF Thread, LoopTypes, DriverRow
<1> HIDE DEF w
<1>4. DriverIs(q, driver[l], driver[l].pc, driver[l].queue, driver[l].failed, w)
  BY <1>1, <1>2 DEF DriverIs, DriverRow
<1> QED BY <1>3, <1>4 DEF Moves, DriverIs, w

LEMMA MovesFacts ==
  ASSUME LoopTypes, NEW l \in Lanes, NEW q, Moves(l, q)
  PROVE  /\ driver' \in [Lanes -> DriverRow] /\ driver'[l] = q
         /\ \A k \in Lanes : k # l => driver'[k] = driver[k]
  BY DEF LoopTypes, Moves

\* A lane moves, and the rows keep their fate.
LEMMA LaneMoves ==
  ASSUME LoopTypes, DriversArePlaced, NEW l \in Lanes, NobodyGains, FatesStay,
         UNCHANGED <<iters, frames, delegation>>,
         NEW q, Moves(l, q), loopRoot'.status = "none" => loopRoot.status = "none",
         q.pc = "selected" => l \in Resumers /\ loopRoot.status # "none"
                              /\ ~(Live /\ control.owner = OwnerOf[l]),
         Current(l)' /\ q.pc = "batch" => BatchIsSound(l)',
         DOMAIN q.wave # {} => q.pc = "batch"
  PROVE  DriversArePlaced'
<1>1. /\ driver' \in [Lanes -> DriverRow] /\ driver'[l] = q
      /\ \A k \in Lanes : k # l => driver'[k] = driver[k]
  BY MovesFacts
<1>2. ASSUME NEW k \in Lanes, driver'[k].pc = "selected"
      PROVE  k \in Resumers /\ loopRoot'.status # "none" /\ ~(Live' /\ control'.owner = OwnerOf[k])
  BY <1>1, <1>2 DEF DriversArePlaced, NobodyGains
<1>3. ASSUME NEW k \in Lanes, Current(k)', driver'[k].pc = "batch" PROVE BatchIsSound(k)'
  <2>1. CASE k = l
    BY <1>1, <1>3, <2>1
  <2>2. CASE k # l
    <3>1. BatchIsSound(k) /\ driver'[k] = driver[k]
      BY <1>1, <1>3, <2>2 DEF DriversArePlaced, NobodyGains
    <3> QED BY <3>1, FatesKeepBatch
  <2> QED BY <2>1, <2>2
<1>4. \A k \in Lanes : DOMAIN driver'[k].wave # {} => driver'[k].pc = "batch"
  BY <1>1 DEF DriversArePlaced
<1> QED BY <1>2, <1>3, <1>4 DEF DriversArePlaced

\* Nobody moves, and the rows keep their fate.
LEMMA NobodyMoves ==
  ASSUME LoopTypes, DriversArePlaced, NobodyGains, FatesStay,
         UNCHANGED <<iters, frames, delegation, driver>>,
         loopRoot'.status = "none" => loopRoot.status = "none"
  PROVE  DriversArePlaced'
<1>1. ASSUME NEW k \in Lanes, Current(k)', driver'[k].pc = "batch" PROVE BatchIsSound(k)'
  <2>1. BatchIsSound(k)
    BY <1>1 DEF DriversArePlaced, NobodyGains
  <2> QED BY <2>1, FatesKeepBatch
<1> QED BY <1>1 DEF DriversArePlaced, NobodyGains

\* The holder of the run moves: whatever it does to the rows, nobody else has a
\* batch that counts.
LEMMA HolderMoves ==
  ASSUME LoopTypes, TokensAreApart, DriversArePlaced, NEW l \in Lanes, Current(l), NobodyGains,
         NEW q, Moves(l, q), loopRoot'.status = "none" => loopRoot.status = "none",
         q.pc # "selected", q.pc = "batch" => BatchIsSound(l)',
         DOMAIN q.wave # {} => q.pc = "batch"
  PROVE  DriversArePlaced'
<1>1. /\ driver' \in [Lanes -> DriverRow] /\ driver'[l] = q
      /\ \A k \in Lanes : k # l => driver'[k] = driver[k]
  BY MovesFacts
<1>2. ASSUME NEW k \in Lanes, driver'[k].pc = "selected"
      PROVE  k \in Resumers /\ loopRoot'.status # "none" /\ ~(Live' /\ control'.owner = OwnerOf[k])
  BY <1>1, <1>2 DEF DriversArePlaced, NobodyGains
<1>3. ASSUME NEW k \in Lanes, Current(k)', driver'[k].pc = "batch" PROVE BatchIsSound(k)'
  <2>1. k = l
    BY <1>3, CurrentIsOne DEF NobodyGains
  <2> QED BY <1>1, <1>3, <2>1
<1>4. \A k \in Lanes : DOMAIN driver'[k].wave # {} => driver'[k].pc = "batch"
  BY <1>1 DEF DriversArePlaced
<1> QED BY <1>2, <1>3, <1>4 DEF DriversArePlaced

LEMMA FinalStays ==
  ASSUME LoopTypes, FinalIsOnce, NEW l \in Lanes, NEW q, Moves(l, q), q.pc = "closing" => loopRoot.receipt,
         delivered' = delivered, loopRoot'.receipt = loopRoot.receipt,
         loopRoot'.status = "SUCCEEDED" => loopRoot.receipt
  PROVE  FinalIsOnce'
<1>1. /\ driver'[l] = q /\ \A k \in Lanes : k # l => driver'[k] = driver[k]
  BY MovesFacts
<1> QED BY <1>1 DEF FinalIsOnce

-----------------------------------------------------------------------------
(* The steps, one by one.                                                  *)

LEMMA LoopStarts == LoopInit => LoopInv
<1> SUFFICES ASSUME LoopInit PROVE LoopInv
  OBVIOUS
<1>1. TokensAreApart
  <2>1. control \in ControlRow /\ control.token = 0
    BY ControlAssumption DEF ControlAssumption, LoopInit, ControlInit, ControlRow
  <2>2. held = [l \in Lanes |-> 0] /\ 0 \in 0..MaxToken
    BY ControlAssumption DEF ControlAssumption, LoopInit, ControlInit
  <2> QED BY <2>1, <2>2 DEF TokensAreApart, ControlTypeOK
<1>2. /\ frames = [f \in Frames |-> [phase |-> "none", gen |-> 0]]
      /\ iters = [f \in Frames |-> <<>>] /\ acts = [f \in Frames |-> <<>>]
      /\ delegation = "none" /\ delivered = 0 /\ driver = [l \in Lanes |-> Parked]
      /\ loopRoot = [status |-> "none", failures |-> 0, manual |-> FALSE, receipt |-> FALSE]
      /\ pinned \in Pins
  BY DEF LoopInit, NoFrame
<1>3. loopRoot \in LoopRootRow /\ frames \in [Frames -> [phase : Phases, gen : Nat]]
  BY <1>2 DEF LoopRootRow, Phases
<1>4. /\ iters \in [Frames -> Seq(IterationRow)] /\ acts \in [Frames -> Seq(Batch)]
      /\ \A f \in Frames : Len(acts[f]) = 0 /\ Len(iters[f]) = 0 /\ DOMAIN iters[f] = {}
  BY <1>2
<1>5. driver \in [Lanes -> DriverRow]
  BY <1>2, ParkedRow
<1>6. LoopTypes
  BY <1>2, <1>3, <1>4, <1>5 DEF LoopTypes
<1>7. \A f, n, o : ~Cell(f, n, o)
  BY <1>2 DEF Cell
<1>8. RowInv
  <2>1. "root" \in Frames /\ "child" \in Frames
    BY DEF Frames
  <2>2. frames["root"].phase = "none" /\ frames["child"].phase = "none"
    BY <1>2, <2>1
  <2>3. \A f \in Frames : frames[f].phase = "none"
    BY <1>2
  <2> QED
    BY <1>4, <1>7, <2>1, <2>2, <2>3 DEF RowInv, RowsAreSound, KeysAreApart, OneWrite, WritesFollow, SkipsHaveCause,
       FramesAreSound, ObservedIsWhole, ChildIsClosed, BesideWrite
<1>9. DriversArePlaced /\ FinalIsOnce
  <2>1. \A l \in Lanes : driver[l].pc = "idle" /\ DOMAIN driver[l].wave = {}
    BY <1>2, ParkedRow
  <2> QED BY <1>2, <2>1 DEF DriversArePlaced, FinalIsOnce
<1>10. RootIsCreated
  BY <1>2 DEF RootIsCreated, Frames
<1> QED BY <1>1, <1>6, <1>8, <1>9, <1>10 DEF LoopInv, RowInv

\* A step that leaves the structure and the fates alone.
LEMMA QuietStep ==
  ASSUME LoopInv, TokensAreApart', FatesStay, DriversArePlaced', FinalIsOnce',
         UNCHANGED <<pinned, iters, frames, delegation>>,
         loopRoot'.status = "none" => loopRoot.status = "none",
         driver' \in [Lanes -> DriverRow], loopRoot' \in LoopRootRow, delivered' \in Nat
  PROVE  LoopInv'
<1>1. RowInv'
  BY FatesKeepRows DEF LoopInv, RowInv
<1>2. LoopTypes'
  BY DEF LoopInv, LoopTypes, FatesStay, SameShape
<1> QED BY <1>1, <1>2 DEF LoopInv, RowInv, RootIsCreated

\* A lane moves and only reads.
LEMMA ReadStep ==
  ASSUME LoopInv, NEW l \in Lanes, NEW q, Moves(l, q), UNCHANGED controlVars \/ LeaseRunsDown,
         UNCHANGED <<pinned, loopRows, delivered>>,
         q.pc = "selected" => l \in Resumers /\ loopRoot.status # "none"
                              /\ ~(Live /\ control.owner = OwnerOf[l]),
         Current(l)' /\ q.pc = "batch" => BatchIsSound(l)',
         DOMAIN q.wave # {} => q.pc = "batch", q.pc # "closing"
  PROVE  LoopInv'
<1> USE DEF LoopInv, loopRows
<1>1. TokensAreApart' /\ NobodyGains
  BY ControlStill
<1>2. FatesStay
  BY UnchangedFates
<1>3. DriversArePlaced'
  BY <1>1, <1>2, LaneMoves
<1>4. FinalIsOnce'
  BY FinalStays DEF FinalIsOnce
<1> QED BY <1>1, <1>2, <1>3, <1>4, QuietStep, MovesFacts DEF LoopTypes

LEMMA SelectSteps ==
  ASSUME LoopInv, NEW l \in Lanes, SelectLoop(l)
  PROVE  LoopInv'
<1>1. PICK q : Moves(l, q) /\ DriverIs(q, driver[l], "selected", driver[l].queue, driver[l].failed, driver[l].wave)
  BY GoesMoves DEF SelectLoop, LoopInv, DriverPlaces
<1>2. DOMAIN driver[l].wave = {}
  BY DEF SelectLoop, Stands, LoopInv, DriversArePlaced
<1> QED BY <1>1, <1>2, ReadStep DEF SelectLoop, DriverIs, controlVars

LEMMA StopsItselfSteps ==
  ASSUME LoopInv, NEW l \in Lanes, StopsItself(l)
  PROVE  LoopInv'
<1>1. PICK p \in {"stopping", "childFailed"} : Goes(l, p)
  BY DEF StopsItself
<1>2. PICK q : Moves(l, q) /\ DriverIs(q, driver[l], p, driver[l].queue, driver[l].failed, driver[l].wave)
  BY <1>1, GoesMoves DEF LoopInv, DriverPlaces
<1>3. DOMAIN driver[l].wave = {}
  BY DEF StopsItself, Stands, LoopInv, DriversArePlaced
<1> QED BY <1>2, <1>3, ReadStep DEF StopsItself, DriverIs, controlVars

LEMMA SeesCancelSteps ==
  ASSUME LoopInv, NEW l \in Lanes, SeesCancel(l)
  PROVE  LoopInv'
<1>1. PICK q : Moves(l, q) /\ Bare(q, "stopping")
  BY LeavesMoves DEF SeesCancel, LoopInv, DriverPlaces
<1> QED BY <1>1, ReadStep DEF SeesCancel, Bare, controlVars


-----------------------------------------------------------------------------
(* Taking the run over.                                                    *)

LEMMA TakeOverStep ==
  ASSUME LoopInv, NEW l \in Lanes, ClaimTakesOver(l), NEW q, Moves(l, q),
         q.pc \notin {"selected", "batch", "closing"}, DOMAIN q.wave = {},
         UNCHANGED <<pinned, iters, acts, delegation, delivered>>,
         loopRoot' \in LoopRootRow, loopRoot'.status # "none", loopRoot'.receipt = loopRoot.receipt,
         loopRoot'.status = "SUCCEEDED" => loopRoot.receipt,
         frames' \in [Frames -> [phase : Phases, gen : Nat]], RowInv',
         \A m \in Lanes : m # l /\ driver[m].pc = "selected" => OwnerOf[m] # OwnerOf[l]
  PROVE  LoopInv'
<1> USE DEF LoopInv
<1>1. /\ TokensAreApart' /\ control'.owner = OwnerOf[l]
      /\ \A m \in Lanes \ {l} : ~Current(m)'
  BY TakeOverIsExclusive
<1>2. /\ driver' \in [Lanes -> DriverRow] /\ driver'[l] = q
      /\ \A k \in Lanes : k # l => driver'[k] = driver[k]
  BY MovesFacts
<1>3. DriversArePlaced'
  <2>1. ASSUME NEW k \in Lanes, driver'[k].pc = "selected"
        PROVE  k \in Resumers /\ loopRoot'.status # "none" /\ ~(Live' /\ control'.owner = OwnerOf[k])
    BY <1>1, <1>2, <2>1 DEF DriversArePlaced
  <2>2. ASSUME NEW k \in Lanes, Current(k)' PROVE driver'[k].pc # "batch"
    BY <1>1, <1>2, <2>2
  <2>3. \A k \in Lanes : DOMAIN driver'[k].wave # {} => driver'[k].pc = "batch"
    BY <1>2 DEF DriversArePlaced
  <2> QED BY <2>1, <2>2, <2>3 DEF DriversArePlaced
<1>4. FinalIsOnce'
  BY FinalStays
<1>5. LoopTypes'
  BY <1>2 DEF LoopTypes
<1> QED BY <1>1, <1>3, <1>4, <1>5 DEF RowInv, RootIsCreated

LEMMA ClaimSteps ==
  ASSUME LoopInv, NEW l \in Lanes, ClaimLoop(l)
  PROVE  LoopInv'
<1> USE DEF LoopInv, loopRows
<1>1. /\ DOMAIN driver[l].wave = {} /\ l \in Resumers /\ loopRoot.status # "none"
      /\ ~(Live /\ control.owner = OwnerOf[l])
  BY DEF ClaimLoop, Stands, DriversArePlaced
<1>2. CASE Claim(l) /\ Goes(l, "claimed")
  <2>1. PICK q : Moves(l, q) /\ DriverIs(q, driver[l], "claimed", driver[l].queue, driver[l].failed, driver[l].wave)
    BY <1>2, GoesMoves DEF DriverPlaces
  <2>2. ClaimTakesOver(l)
    BY <1>1, <1>2 DEF Claim, ClaimRenews
  <2>3. \A m \in Lanes : m # l /\ driver[m].pc = "selected" => OwnerOf[m] # OwnerOf[l]
    BY <1>1, LoopAssumption DEF LoopAssumption, DriversArePlaced
  <2>4. RowInv'
    BY FatesKeepRows, UnchangedFates DEF RowInv, ClaimLoop
  <2> QED BY <1>1, <2>1, <2>2, <2>3, <2>4, TakeOverStep DEF ClaimLoop, DriverIs, LoopTypes, FinalIsOnce
<1>3. CASE ClaimRefused(l) /\ Goes(l, "idle") /\ UNCHANGED controlVars
  <2>1. PICK q : Moves(l, q) /\ DriverIs(q, driver[l], "idle", driver[l].queue, driver[l].failed, driver[l].wave)
    BY <1>3, GoesMoves DEF DriverPlaces
  <2> QED BY <1>1, <1>3, <2>1, ReadStep DEF ClaimLoop, DriverIs
<1> QED BY <1>2, <1>3 DEF ClaimLoop

LEMMA CreateSteps ==
  ASSUME LoopInv, NEW l \in Lanes, CreateLoop(l)
  PROVE  LoopInv'
<1> USE DEF LoopInv
<1>0. "root" \in Frames /\ "child" \in Frames /\ "root" # "child"
  BY DEF Frames
<1>1. DOMAIN driver[l].wave = {} /\ loopRoot.status = "none" /\ frames["root"].phase = "none"
  BY DEF CreateLoop, Stands, DriversArePlaced, RootIsCreated
<1>2. PICK q : Moves(l, q) /\ DriverIs(q, driver[l], "drive", driver[l].queue, driver[l].failed, driver[l].wave)
  BY GoesMoves DEF DriverPlaces, CreateLoop
<1>3. loopRoot' \in LoopRootRow /\ loopRoot'.status = "ACTIVE" /\ loopRoot'.receipt = loopRoot.receipt
  BY DEF CreateLoop, LoopTypes, LoopRootRow
<1>4. /\ frames' \in [Frames -> [phase : Phases, gen : Nat]]
      /\ frames'["root"].phase = "NEED_DECISION" /\ frames'["child"] = frames["child"]
  BY <1>0 DEF CreateLoop, LoopTypes, Phases
<1>5. \A f, n, o : Cell(f, n, o) /\ OpenTool(acts[f][n][o]) => f # "root"
  BY <1>1 DEF FramesAreSound
<1>6. FramesAreSound'
  <2>1. UNCHANGED <<iters, acts, delegation>>
    BY DEF CreateLoop
  <2>2. \A f \in Frames : f = "root" \/ f = "child"
    BY DEF Frames
  <2>3. \A f, n, o : Cell(f, n, o)' <=> Cell(f, n, o)
    BY <2>1 DEF Cell
  <2>4. \A f, n, o : Cell(f, n, o) => f = "root" \/ f = "child"
    BY <2>2 DEF Cell
  <2> QED BY <1>0, <1>4, <1>5, <2>1, <2>2, <2>3, <2>4 DEF FramesAreSound
<1>7. RowInv'
  <2>1. UNCHANGED <<iters, acts, delegation>>
    BY DEF CreateLoop
  <2> QED BY <1>6, <2>1 DEF RowInv, RowsAreSound, KeysAreApart, OneWrite, WritesFollow, SkipsHaveCause,
             ObservedIsWhole, ChildIsClosed, BesideWrite, Cell
<1>8. \A m \in Lanes : driver[m].pc # "selected"
  BY <1>1 DEF DriversArePlaced
<1> QED BY <1>1, <1>2, <1>3, <1>4, <1>7, <1>8, TakeOverStep DEF CreateLoop, DriverIs

-----------------------------------------------------------------------------
(* Steps of the holder that move frames and iterations.                    *)

\* The holder acts, and has no batch in hand afterwards.
LEMMA HolderStep ==
  ASSUME LoopInv, NEW l \in Lanes, Current(l), NEW q, Moves(l, q),
         q.pc \notin {"selected", "batch", "closing"}, DOMAIN q.wave = {},
         UNCHANGED <<control, held, pinned, loopRoot, delivered>>, RootIsCreated',
         frames' \in [Frames -> [phase : Phases, gen : Nat]],
         iters' \in [Frames -> Seq(IterationRow)], acts' \in [Frames -> Seq(Batch)],
         delegation' \in {"none", "accepted", "result", "observed"},
         \A f \in Frames : Len(acts'[f]) = Len(iters'[f]),
         RowInv'
  PROVE  LoopInv'
<1> USE DEF LoopInv
<1>1. TokensAreApart' /\ NobodyGains
  BY ControlStill DEF controlVars
<1>2. DriversArePlaced'
  BY <1>1, HolderMoves
<1>3. FinalIsOnce'
  BY FinalStays DEF FinalIsOnce
<1>4. LoopTypes'
  BY MovesFacts DEF LoopTypes
<1> QED BY <1>1, <1>2, <1>3, <1>4 DEF RowInv

\* Iterations keep their states, frames their phases or are stopped.
LEMMA StatesKeepRows ==
  ASSUME LoopTypes, RowInv, UNCHANGED <<acts, delegation>>,
         \A f \in Frames : Len(iters'[f]) = Len(iters[f]) /\ DOMAIN iters'[f] = DOMAIN iters[f],
         \A f \in Frames : \A n \in 1..Len(iters[f]) : iters'[f][n].state = iters[f][n].state,
         \A f \in Frames : frames'[f].phase \in {frames[f].phase, "STOPPED"},
         frames'["child"].phase = "none" <=> frames["child"].phase = "none"
  PROVE  RowInv'
<1>0. "root" \in Frames /\ "child" \in Frames
  BY DEF Frames
<1>1. \A f, n, o : Cell(f, n, o)' <=> Cell(f, n, o)
  BY DEF Cell
<1>2. \A f, n, o : Cell(f, n, o) => f \in Frames /\ n \in 1..Len(iters[f])
  BY Cells
<1>3. \A f \in Frames : DOMAIN iters[f] = 1..Len(iters[f]) /\ Len(iters[f]) \in Nat
  BY Shapes
<1>4. FramesAreSound'
  <2> USE DEF RowInv, FramesAreSound
  <2>1. (delegation = "none" => frames["child"].phase = "none")'
    BY <1>0
  <2>2. (frames["child"].phase = "none" => Len(iters["child"]) = 0)'
    BY <1>0
  <2>3. (\A f, n, o : Cell(f, n, o) /\ OpenTool(acts[f][n][o]) =>
           n = Len(iters[f]) /\ frames[f].phase \in {"WAIT_ACTIONS", "STOPPED"})'
    BY <1>1, <1>2
  <2>4. (\A f \in Frames : \A n \in DOMAIN iters[f] : iters[f][n].state = "OPEN" => DOMAIN acts[f][n] = {})'
    BY <1>3
  <2>5. (frames["root"].phase = "WAIT_CHILD" =>
           Len(iters["root"]) > 0 /\ DOMAIN acts["root"][Len(iters["root"])] = {})'
    BY <1>0
  <2>6. (\A f \in Frames : frames[f].phase = "WAIT_ACTIONS" =>
           Len(iters[f]) > 0 /\ iters[f][Len(iters[f])].state # "OBSERVED")'
    BY <1>3
  <2> QED BY <2>1, <2>2, <2>3, <2>4, <2>5, <2>6
<1>5. ObservedIsWhole'
  BY <1>1, <1>2 DEF RowInv, ObservedIsWhole
<1> QED BY <1>4, <1>5 DEF RowInv, RowsAreSound, KeysAreApart, OneWrite, WritesFollow, SkipsHaveCause,
           ChildIsClosed, BesideWrite, Cell

PutIteration(f, n, row) == iters' = [iters EXCEPT ![f][n] = row]

LEMMA SetIteration ==
  ASSUME LoopTypes, NEW f \in Frames, NEW n \in 1..Len(iters[f]), NEW row \in IterationRow,
         PutIteration(f, n, row)
  PROVE  /\ iters' \in [Frames -> Seq(IterationRow)]
         /\ \A g \in Frames : Len(iters'[g]) = Len(iters[g]) /\ DOMAIN iters'[g] = DOMAIN iters[g]
         /\ iters'[f][n] = row
         /\ \A g \in Frames : \A m \in 1..Len(iters[g]) : (g = f /\ m = n) \/ iters'[g][m] = iters[g][m]
         /\ row.state = iters[f][n].state =>
              \A g \in Frames : \A m \in 1..Len(iters[g]) : iters'[g][m].state = iters[g][m].state
<1> DEFINE s == [iters[f] EXCEPT ![n] = row]
<1>1. iters[f] \in Seq(IterationRow) /\ iters \in [Frames -> Seq(IterationRow)]
  BY DEF LoopTypes
<1>2. /\ s \in Seq(IterationRow) /\ Len(s) = Len(iters[f]) /\ DOMAIN s = DOMAIN iters[f] /\ s[n] = row
      /\ \A m \in 1..Len(iters[f]) : m # n => s[m] = iters[f][m]
  BY <1>1
<1>3. iters' = [iters EXCEPT ![f] = s]
  BY <1>1 DEF PutIteration
<1> HIDE DEF s
<1> QED BY <1>1, <1>2, <1>3

LEMMA LastIteration ==
  ASSUME LoopTypes, NEW f \in Frames, Opened(f)
  PROVE  /\ Last(f) \in 1..Len(iters[f]) /\ Last(f) = Len(iters[f])
         /\ iters[f][Last(f)] \in IterationRow /\ iters[f][Last(f)].state = "OPEN"
  BY Shapes DEF Opened, Last

LEMMA FrameIs == Frame \in Frames /\ (Frame = "child" => delegation = "accepted")
  BY DEF Frame, Frames

LEMMA AskSteps ==
  ASSUME LoopInv, NEW l \in Lanes, AskModel(l)
  PROVE  LoopInv'
<1> USE DEF LoopInv
<1>f. PICK f : f = Frame
  OBVIOUS
<1>n. PICK n : n = Last(f)
  OBVIOUS
<1> DEFINE row == [iters[f][n] EXCEPT !.model = "STARTED"]
<1>0. f \in Frames /\ Opened(f)
  BY <1>f, FrameIs DEF AskModel
<1>1. n \in 1..Len(iters[f]) /\ iters[f][n] \in IterationRow
  BY <1>0, <1>n, LastIteration
<1>2. row \in IterationRow /\ row.state = iters[f][n].state
  BY <1>1 DEF IterationRow
<1>3. PutIteration(f, n, row)
  BY <1>0, <1>1, <1>f, <1>n DEF AskModel, LoopTypes, PutIteration
<1>4. DOMAIN driver[l].wave = {}
  BY DEF AskModel, Stands, DriversArePlaced
<1>5. PICK q : Moves(l, q) /\ DriverIs(q, driver[l], "asking", driver[l].queue, driver[l].failed, driver[l].wave)
  BY GoesMoves DEF DriverPlaces, AskModel
<1>6. UNCHANGED <<control, held, pinned, loopRoot, frames, acts, delegation, delivered>>
      /\ Current(l) /\ loopRoot.status # "none"
  BY DEF AskModel, LocksToAct, Locks
<1> HIDE DEF row
<1>7. /\ iters' \in [Frames -> Seq(IterationRow)]
      /\ \A g \in Frames : Len(iters'[g]) = Len(iters[g]) /\ DOMAIN iters'[g] = DOMAIN iters[g]
      /\ \A g \in Frames : \A m \in 1..Len(iters[g]) : iters'[g][m].state = iters[g][m].state
  BY <1>0, <1>1, <1>2, <1>3, SetIteration
<1>8. RowInv'
  BY <1>6, <1>7, StatesKeepRows DEF RowInv
<1> QED BY <1>4, <1>5, <1>6, <1>7, <1>8, HolderStep DEF DriverIs, LoopTypes, RootIsCreated

LEMMA DecidedHas ==
  /\ "none" \in Decided /\ Final \in Decided /\ Handoff \in Decided
  /\ \A p \in Pins : \A f \in Frames : p.batches[f] \subseteq Decided
<1> DEFINE B(p) == UNION {p.batches[f] : f \in Frames}
           S == UNION {B(p) : p \in Pins}
<1>1. \A p \in Pins : \A f \in Frames : p.batches[f] \subseteq B(p)
  OBVIOUS
<1>2. Decided = S \cup {"none", Final, Handoff}
  BY DEF Decided
<1> HIDE DEF B
<1>3. \A p \in Pins : B(p) \subseteq S
  OBVIOUS
<1> HIDE DEF S
<1>4. {"none", Final, Handoff} \subseteq Decided
  BY <1>2, Zenon
<1> QED BY <1>1, <1>2, <1>3, <1>4, Zenon

LEMMA DecidesSteps ==
  ASSUME LoopInv, NEW l \in Lanes, ModelDecides(l)
  PROVE  LoopInv'
<1> USE DEF LoopInv
<1>f. PICK f : f = Frame
  OBVIOUS
<1>n. PICK n : n = Last(f)
  OBVIOUS
<1>0. f \in Frames
  BY <1>f, FrameIs
<1>1. UNCHANGED <<control, held, pinned, loopRoot, frames, acts, delegation, delivered>>
      /\ Current(l) /\ loopRoot.status # "none"
  BY DEF ModelDecides, LocksToAct, Locks
<1>2. DOMAIN driver[l].wave = {}
  BY DEF ModelDecides, Stands, DriversArePlaced
<1>3. PICK p \in {"drive", "failing"} : Goes(l, p)
  BY DEF ModelDecides
<1>4. PICK q : Moves(l, q) /\ DriverIs(q, driver[l], p, driver[l].queue, driver[l].failed, driver[l].wave)
  BY <1>3, GoesMoves DEF DriverPlaces
<1>5. /\ iters' \in [Frames -> Seq(IterationRow)]
      /\ \A g \in Frames : Len(iters'[g]) = Len(iters[g]) /\ DOMAIN iters'[g] = DOMAIN iters[g]
      /\ \A g \in Frames : \A m \in 1..Len(iters[g]) : iters'[g][m].state = iters[g][m].state
  <2>1. n \in Nat /\ n = Len(iters[f]) /\ iters \in [Frames -> Seq(IterationRow)]
        /\ iters[f] \in Seq(IterationRow)
    BY <1>0, <1>n, Shapes DEF Last, LoopTypes
  <2>2. CASE n = 0
    <3>1. iters' = iters
      <4>1. 0 \notin DOMAIN iters[f]
        BY <2>1, <2>2
      <4>2. \A x : [iters[f] EXCEPT ![0] = x] = iters[f]
        BY <2>1, <4>1
      <4>3. PICK x : iters' = [iters EXCEPT ![f] = [iters[f] EXCEPT ![0] = x]]
        <5>1. ASSUME NEW d, iters' = [iters EXCEPT ![f][n].model = "COMPLETED", ![f][n].answer = d]
              PROVE  \E x : iters' = [iters EXCEPT ![f] = [iters[f] EXCEPT ![0] = x]]
          <6> DEFINE a == [iters EXCEPT ![f][0].model = "COMPLETED"]
          <6>1. iters' = [a EXCEPT ![f][0].answer = d]
            BY <2>2, <5>1
          <6>2. a = iters
            BY <1>0, <2>1, <4>1, <4>2
          <6> HIDE DEF a
          <6> QED BY <1>0, <2>1, <6>1, <6>2
        <5>2. CASE iters' = [iters EXCEPT ![f][n].model = "UNKNOWN", ![f][n].unknown = TRUE]
          BY <1>0, <2>1, <2>2, <4>1, <5>2
        <5> QED BY <1>f, <1>n, <5>1, <5>2 DEF ModelDecides
      <4> QED BY <1>0, <2>1, <4>2, <4>3
    <3> QED BY <2>1, <3>1
  <2>3. CASE n > 0
    <3>1. n \in 1..Len(iters[f]) /\ iters[f][n] \in IterationRow
      BY <2>1, <2>3
    <3>2. PICK row \in IterationRow : row.state = iters[f][n].state /\ PutIteration(f, n, row)
      <4>1. ASSUME NEW r \in IterationRow, NEW d \in Decided, NEW m \in {"COMPLETED", "UNKNOWN"}
            PROVE  /\ [r EXCEPT !.model = m] \in IterationRow /\ [r EXCEPT !.model = m].state = r.state
                   /\ [r EXCEPT !.answer = d] \in IterationRow /\ [r EXCEPT !.answer = d].state = r.state
                   /\ [r EXCEPT !.unknown = TRUE] \in IterationRow /\ [r EXCEPT !.unknown = TRUE].state = r.state
        BY DEF IterationRow
      <4>2. ASSUME NEW d \in Decisions(f),
                   iters' = [iters EXCEPT ![f][n].model = "COMPLETED", ![f][n].answer = d]
            PROVE  \E row \in IterationRow : row.state = iters[f][n].state /\ PutIteration(f, n, row)
        <5> DEFINE row == [[iters[f][n] EXCEPT !.model = "COMPLETED"] EXCEPT !.answer = d]
        <5>1. d \in Decided
          BY <1>0, DecidedHas DEF Decisions, LoopTypes
        <5>2. row \in IterationRow /\ row.state = iters[f][n].state
          BY <3>1, <4>1, <5>1
        <5>3. PutIteration(f, n, row)
          BY <1>0, <2>1, <3>1, <4>2 DEF PutIteration
        <5> QED BY <5>2, <5>3
      <4>3. ASSUME iters' = [iters EXCEPT ![f][n].model = "UNKNOWN", ![f][n].unknown = TRUE]
            PROVE  \E row \in IterationRow : row.state = iters[f][n].state /\ PutIteration(f, n, row)
        <5> DEFINE row == [[iters[f][n] EXCEPT !.model = "UNKNOWN"] EXCEPT !.unknown = TRUE]
        <5>1. "none" \in Decided
          BY DecidedHas
        <5>2. row \in IterationRow /\ row.state = iters[f][n].state
          BY <3>1, <4>1, <5>1
        <5>3. PutIteration(f, n, row)
          BY <1>0, <2>1, <3>1, <4>3 DEF PutIteration
        <5> QED BY <5>2, <5>3
      <4> QED BY <1>f, <1>n, <4>2, <4>3 DEF ModelDecides
    <3> QED BY <1>0, <3>1, <3>2, SetIteration
  <2> QED BY <2>1, <2>2, <2>3
<1>6. RowInv'
  BY <1>1, <1>5, StatesKeepRows DEF RowInv
<1> QED BY <1>1, <1>2, <1>4, <1>5, <1>6, HolderStep DEF DriverIs, LoopTypes, RootIsCreated

LEMMA StopSteps ==
  ASSUME LoopInv, NEW l \in Lanes, StopLoop(l)
  PROVE  LoopInv'
<1> USE DEF LoopInv
<1>0. "root" \in Frames /\ "child" \in Frames /\ "root" # "child"
  BY DEF Frames
<1>1. UNCHANGED <<control, held, pinned, loopRoot, iters, acts, delegation, delivered>>
      /\ Current(l) /\ loopRoot.status # "none"
  BY DEF StopLoop, Locks
<1>2. DOMAIN driver[l].wave = {}
  BY DEF StopLoop, Stands, DriversArePlaced
<1>3. PICK q : Moves(l, q) /\ DriverIs(q, driver[l], "failing", driver[l].queue, driver[l].failed, driver[l].wave)
  BY GoesMoves DEF DriverPlaces, StopLoop
<1>4. /\ frames' \in [Frames -> [phase : Phases, gen : Nat]]
      /\ frames'["child"] = frames["child"]
      /\ \A f \in Frames : frames'[f].phase \in {frames[f].phase, "STOPPED"}
  BY <1>0 DEF StopLoop, LoopTypes, Phases
<1>5. RowInv'
  BY <1>1, <1>4, StatesKeepRows DEF RowInv
<1> QED BY <1>1, <1>2, <1>3, <1>4, <1>5, HolderStep DEF DriverIs, LoopTypes, RootIsCreated

LEMMA RecoverSteps ==
  ASSUME LoopInv, NEW l \in Lanes, RecoverLoop(l)
  PROVE  LoopInv'
<1> USE DEF LoopInv
<1> DEFINE gen == frames["root"].gen + 1
           exhausted(f) == \E n \in DOMAIN iters[f] : /\ Abandoned(iters[f][n])
                                                      /\ iters[f][n].state = "OPEN"
                                                      /\ iters[f][n].recovered
<1>0. "root" \in Frames /\ "child" \in Frames /\ "root" # "child" /\ gen \in Nat
  BY DEF Frames, LoopTypes
<1>1. UNCHANGED <<control, held, pinned, loopRoot, acts, delegation, delivered>> /\ Current(l)
  BY DEF RecoverLoop
<1>2. PICK q : Moves(l, q) /\ Bare(q, "drive")
  <2>1. driver' = [driver EXCEPT ![l] = [Parked EXCEPT !.pc = "drive", !.gen = gen]]
    BY DEF RecoverLoop
  <2>2. "drive" \in DriverPlaces
    BY DEF DriverPlaces
  <2> HIDE DEF gen
  <2>3. Bare([Parked EXCEPT !.pc = "drive", !.gen = gen], "drive")
    BY <1>0, <2>2, ParkedAt
  <2> QED BY <2>1, <2>3 DEF Moves, Bare
<1>3. frames' = [f \in Frames |->
                IF frames[f].phase = "none" THEN frames[f]
                ELSE IF exhausted(f) THEN [phase |-> "STOPPED", gen |-> gen]
                ELSE [frames[f] EXCEPT !.gen = gen]]
  BY DEF RecoverLoop
<1> HIDE DEF gen, exhausted
<1>4. ASSUME NEW f \in Frames
      PROVE  /\ frames'[f] \in [phase : Phases, gen : Nat]
             /\ frames'[f].phase \in {frames[f].phase, "STOPPED"}
             /\ frames'[f].phase = "none" <=> frames[f].phase = "none"
  BY <1>0, <1>3 DEF LoopTypes, Phases
<1>5. \A r \in IterationRow : Recovered(r) \in IterationRow /\ Recovered(r).state = r.state
  <2> TAKE r \in IterationRow
  <2> DEFINE a == [r EXCEPT !.model = "UNKNOWN"]
             b == [a EXCEPT !.unknown = TRUE]
             c == [b EXCEPT !.recovered = TRUE]
  <2>1. a \in IterationRow /\ a.state = r.state
    BY DEF IterationRow
  <2> HIDE DEF a
  <2>2. b \in IterationRow /\ b.state = r.state
    BY <2>1 DEF IterationRow
  <2> HIDE DEF b
  <2>3. c \in IterationRow /\ c.state = r.state
    BY <2>2 DEF IterationRow
  <2>4. Recovered(r) \in {r, c}
    BY DEF Recovered, a, b, c
  <2> QED BY <2>3, <2>4
<1>6. iters' = [f \in Frames |-> [n \in DOMAIN iters[f] |-> Recovered(iters[f][n])]]
  BY DEF RecoverLoop
<1>7. ASSUME NEW f \in Frames
      PROVE  /\ iters'[f] \in Seq(IterationRow) /\ Len(iters'[f]) = Len(iters[f])
             /\ DOMAIN iters'[f] = DOMAIN iters[f]
             /\ \A n \in 1..Len(iters[f]) : iters'[f][n].state = iters[f][n].state
  <2>1. DOMAIN iters[f] = 1..Len(iters[f]) /\ Len(iters[f]) \in Nat
        /\ \A n \in 1..Len(iters[f]) : iters[f][n] \in IterationRow
    BY Shapes
  <2>2. iters'[f] = [n \in 1..Len(iters[f]) |-> Recovered(iters[f][n])]
    BY <1>6, <2>1
  <2> QED BY <1>5, <2>1, <2>2
<1>8. RowInv'
  BY <1>0, <1>1, <1>4, <1>7, StatesKeepRows DEF RowInv
<1>9. /\ frames' \in [Frames -> [phase : Phases, gen : Nat]]
      /\ iters' \in [Frames -> Seq(IterationRow)]
  BY <1>3, <1>4, <1>6, <1>7
<1> QED BY <1>0, <1>1, <1>2, <1>4, <1>7, <1>8, <1>9, HolderStep DEF Bare, LoopTypes, RootIsCreated

\* What the rows alone say.
LEMMA SameRows ==
  ASSUME RowInv, \A f, n, o : Cell(f, n, o)' <=> Cell(f, n, o),
         \A f, n, o : Cell(f, n, o) => acts'[f][n][o] = acts[f][n][o],
         delegation' \in {"result", "observed"} <=> delegation \in {"result", "observed"}
  PROVE  /\ RowsAreSound' /\ KeysAreApart' /\ OneWrite' /\ WritesFollow' /\ SkipsHaveCause' /\ ChildIsClosed'
<1>1. \A f, n, o, w : BesideWrite(f, n, o, w)' <=> BesideWrite(f, n, o, w)
  BY DEF BesideWrite
<1>2. RowsAreSound' /\ ChildIsClosed'
  BY DEF RowInv, RowsAreSound, ChildIsClosed
<1>3. KeysAreApart' /\ OneWrite'
  BY DEF RowInv, KeysAreApart, OneWrite
<1>4. WritesFollow' /\ SkipsHaveCause'
  <2>1. WritesFollow'
    BY <1>1 DEF RowInv, WritesFollow, BesideWrite
  <2>2. SkipsHaveCause'
    BY DEF RowInv, SkipsHaveCause
  <2> QED BY <2>1, <2>2
<1> QED BY <1>2, <1>3, <1>4

\* The last iteration of a frame without an open call ends, or is closed.
LEMMA IterationEnds ==
  ASSUME LoopTypes, RowInv, NEW f \in Frames, NEW n \in 1..Len(iters[f]), n = Len(iters[f]),
         NEW row \in IterationRow, PutIteration(f, n, row), UNCHANGED acts,
         row.state # "OPEN",
         row.state = "OBSERVED" => \A o \in DOMAIN acts[f][n] : acts[f][n][o].skipped \/ acts[f][n][o].result # "none",
         \A m, o : Cell(f, m, o) => ~OpenTool(acts[f][m][o]),
         \A g \in Frames : g # f => frames'[g] = frames[g],
         frames[f].phase # "none", frames'[f].phase \in {"NEED_DECISION", "RESULT_READY"},
         delegation' = "none" <=> delegation = "none",
         delegation' \in {"result", "observed"} <=> delegation \in {"result", "observed"}
  PROVE  RowInv'
<1>0. "root" \in Frames /\ "child" \in Frames
  BY DEF Frames
<1>1. \A g, m, o : Cell(g, m, o)' <=> Cell(g, m, o)
  BY DEF Cell
<1>2. \A g, m, o : Cell(g, m, o) => g \in Frames /\ m \in 1..Len(iters[g])
  BY Cells
<1>3. \A g \in Frames : DOMAIN iters[g] = 1..Len(iters[g]) /\ Len(iters[g]) \in Nat
  BY Shapes
<1>4. /\ \A g \in Frames : Len(iters'[g]) = Len(iters[g]) /\ DOMAIN iters'[g] = DOMAIN iters[g]
      /\ iters'[f][n] = row
      /\ \A g \in Frames : \A m \in 1..Len(iters[g]) : (g = f /\ m = n) \/ iters'[g][m] = iters[g][m]
  BY SetIteration
<1>5. FramesAreSound'
  <2> USE DEF RowInv, FramesAreSound
  <2>1. (delegation = "none" => frames["child"].phase = "none")'
    BY <1>0
  <2>2. (frames["child"].phase = "none" => Len(iters["child"]) = 0)'
    BY <1>0, <1>4
  <2>3. (\A g, m, o : Cell(g, m, o) /\ OpenTool(acts[g][m][o]) =>
           m = Len(iters[g]) /\ frames[g].phase \in {"WAIT_ACTIONS", "STOPPED"})'
    BY <1>1, <1>2, <1>4
  <2>4. (\A g \in Frames : \A m \in DOMAIN iters[g] : iters[g][m].state = "OPEN" => DOMAIN acts[g][m] = {})'
    <3> SUFFICES ASSUME NEW g \in Frames, NEW m \in 1..Len(iters[g]), iters'[g][m].state = "OPEN"
                 PROVE  DOMAIN acts[g][m] = {}
      BY <1>3, <1>4
    <3>1. iters'[g][m] = iters[g][m]
      BY <1>4
    <3> QED BY <1>3, <3>1
  <2>5. (frames["root"].phase = "WAIT_CHILD" =>
           Len(iters["root"]) > 0 /\ DOMAIN acts["root"][Len(iters["root"])] = {})'
    BY <1>0, <1>4
  <2>6. (\A g \in Frames : frames[g].phase = "WAIT_ACTIONS" =>
           Len(iters[g]) > 0 /\ iters[g][Len(iters[g])].state # "OBSERVED")'
    <3> SUFFICES ASSUME NEW g \in Frames, frames'[g].phase = "WAIT_ACTIONS"
                 PROVE  Len(iters'[g]) > 0 /\ iters'[g][Len(iters'[g])].state # "OBSERVED"
      OBVIOUS
    <3>1. g # f /\ Len(iters[g]) > 0 /\ iters[g][Len(iters[g])].state # "OBSERVED" /\ Len(iters[g]) \in 1..Len(iters[g])
      BY <1>3
    <3>2. iters'[g][Len(iters[g])] = iters[g][Len(iters[g])]
      BY <1>4, <3>1
    <3> QED BY <1>4, <3>1, <3>2
  <2> QED BY <2>1, <2>2, <2>3, <2>4, <2>5, <2>6
<1>6. ObservedIsWhole'
  <2> SUFFICES ASSUME NEW g, NEW m, NEW o, Cell(g, m, o), iters'[g][m].state = "OBSERVED"
               PROVE  acts[g][m][o].skipped \/ acts[g][m][o].result # "none"
    BY <1>1 DEF ObservedIsWhole
  <2>1. g \in Frames /\ m \in 1..Len(iters[g]) /\ o \in DOMAIN acts[g][m]
    BY <1>2 DEF Cell
  <2>2. CASE <<g, m>> = <<f, n>>
    BY <1>4, <2>1, <2>2
  <2>3. CASE <<g, m>> # <<f, n>>
    BY <1>4, <2>1, <2>3 DEF RowInv, ObservedIsWhole
  <2> QED BY <2>2, <2>3
<1>7. \A g, m, o : Cell(g, m, o) => acts'[g][m][o] = acts[g][m][o]
  OBVIOUS
<1> QED BY <1>1, <1>5, <1>6, <1>7, SameRows DEF RowInv

LEMMA CommitBatchSteps ==
  ASSUME LoopInv, NEW l \in Lanes, CommitBatch(l)
  PROVE  LoopInv'
<1> USE DEF LoopInv
<1>f. PICK f : f = driver[l].frame
  OBVIOUS
<1>n. PICK n : n = driver[l].no
  OBVIOUS
<1> DEFINE row == [iters[f][n] EXCEPT !.state = "OBSERVED"]
<1>1. Current(l) /\ loopRoot.status # "none"
      /\ UNCHANGED <<control, held, pinned, loopRoot, acts, delegation, delivered>>
  BY DEF CommitBatch, LocksToAct, Locks
<1>2. BatchIsSound(l)
  BY <1>1 DEF CommitBatch, Free, Stands, DriversArePlaced
<1>3. /\ f \in Frames /\ n \in 1..Len(iters[f]) /\ n = Len(iters[f]) /\ frames[f].phase = "WAIT_ACTIONS"
      /\ iters[f][n] \in IterationRow
  <2>1. f \in Frames
    BY <1>f DEF LoopTypes, DriverRow
  <2> QED BY <1>2, <1>f, <1>n, <2>1, Shapes DEF BatchIsSound
<1>4. row \in IterationRow /\ row.state = "OBSERVED"
  BY <1>3 DEF IterationRow
<1>5. PutIteration(f, n, row)
  BY <1>3, <1>f, <1>n DEF CommitBatch, PutIteration, BatchFrame, LoopTypes
<1>6. ASSUME NEW o \in DOMAIN acts[f][n]
      PROVE  /\ acts[f][n][o].skipped \/ acts[f][n][o].result # "none"
             /\ ~OpenTool(acts[f][n][o])
  BY <1>6, <1>f, <1>n DEF CommitBatch, BatchOf, BatchFrame, Row, OpenTool
<1>7. ASSUME NEW m, NEW o, Cell(f, m, o) PROVE ~OpenTool(acts[f][m][o])
  <2> SUFFICES ASSUME OpenTool(acts[f][m][o]) PROVE FALSE
    OBVIOUS
  <2>1. m = n /\ o \in DOMAIN acts[f][m]
    BY <1>3, <1>7 DEF FramesAreSound, Cell
  <2> QED BY <1>6, <2>1
<1>8. /\ frames' \in [Frames -> [phase : Phases, gen : Nat]] /\ frames'[f].phase = "NEED_DECISION"
      /\ \A g \in Frames : g # f => frames'[g] = frames[g]
  BY <1>3, <1>f DEF CommitBatch, BatchFrame, LoopTypes, Phases
<1>9. PICK q : Moves(l, q) /\ Bare(q, "drive")
  BY LeavesMoves DEF DriverPlaces, CommitBatch
<1> HIDE DEF row
<1>10. RowInv'
  BY <1>1, <1>3, <1>4, <1>5, <1>6, <1>7, <1>8, IterationEnds DEF RowInv
<1>11. iters' \in [Frames -> Seq(IterationRow)] /\ \A g \in Frames : Len(iters'[g]) = Len(iters[g])
  BY <1>3, <1>4, <1>5, SetIteration
<1> QED BY <1>1, <1>8, <1>9, <1>10, <1>11, HolderStep DEF Bare, LoopTypes, RootIsCreated

LEMMA AcceptChildSteps ==
  ASSUME LoopInv, NEW l \in Lanes, AcceptChild(l)
  PROVE  LoopInv'
<1> USE DEF LoopInv
<1>0. "root" \in Frames /\ "child" \in Frames
  BY DEF Frames
<1>n. PICK n : n = Len(iters["root"])
  OBVIOUS
<1> DEFINE row == [iters["root"][n] EXCEPT !.state = "OBSERVED"]
<1>1. /\ Current(l) /\ loopRoot.status # "none" /\ frames["root"].phase = "WAIT_CHILD"
      /\ delegation = "result" /\ delegation' = "observed"
      /\ UNCHANGED <<control, held, pinned, loopRoot, acts, driver, delivered>>
  BY DEF AcceptChild, LocksToAct, Locks
<1>2. n \in 1..Len(iters["root"]) /\ DOMAIN acts["root"][n] = {} /\ iters["root"][n] \in IterationRow
  BY <1>0, <1>1, <1>n, Shapes DEF FramesAreSound
<1>3. row \in IterationRow /\ row.state = "OBSERVED"
  BY <1>2 DEF IterationRow
<1>4. PutIteration("root", n, row)
  BY <1>0, <1>2, <1>n DEF AcceptChild, PutIteration, Last, LoopTypes
<1>5. \A m, o : Cell("root", m, o) => ~OpenTool(acts["root"][m][o])
  BY <1>1 DEF FramesAreSound
<1>6. /\ frames' \in [Frames -> [phase : Phases, gen : Nat]] /\ frames'["root"].phase = "NEED_DECISION"
      /\ \A g \in Frames : g # "root" => frames'[g] = frames[g]
  BY <1>0 DEF AcceptChild, LoopTypes, Phases
<1>7. Moves(l, driver[l]) /\ driver[l].pc = "drive" /\ DOMAIN driver[l].wave = {}
  BY <1>1 DEF AcceptChild, Stands, Moves, LoopTypes, DriversArePlaced
<1> HIDE DEF row
<1>8. RowInv'
  BY <1>0, <1>1, <1>2, <1>3, <1>4, <1>5, <1>6, <1>n, IterationEnds DEF RowInv
<1>9. iters' \in [Frames -> Seq(IterationRow)] /\ \A g \in Frames : Len(iters'[g]) = Len(iters[g])
  BY <1>0, <1>2, <1>3, <1>4, SetIteration
<1> QED BY <1>1, <1>6, <1>7, <1>8, <1>9, HolderStep DEF LoopTypes, RootIsCreated

LEMMA OpenSteps ==
  ASSUME LoopInv, NEW l \in Lanes, OpenIteration(l)
  PROVE  LoopInv'
<1> USE DEF LoopInv
<1>f. PICK f : f = Frame
  OBVIOUS
<1>0. f \in Frames /\ "root" \in Frames /\ "child" \in Frames
  BY <1>f, FrameIs DEF Frames
<1>1. /\ Current(l) /\ loopRoot.status # "none" /\ frames[f].phase = "NEED_DECISION"
      /\ UNCHANGED <<control, held, pinned, loopRoot, frames, delegation, driver, delivered>>
      /\ iters' = [iters EXCEPT ![f] = Append(iters[f], NewIteration)]
      /\ acts' = [acts EXCEPT ![f] = Append(acts[f], <<>>)]
  BY <1>f DEF OpenIteration, LocksToAct, Locks
<1>2. NewIteration \in IterationRow /\ NewIteration.state = "OPEN"
  <2>1. "none" \in Decided
    BY DecidedHas
  <2> QED BY <2>1 DEF NewIteration, IterationRow
<1>3. <<>> \in Batch /\ DOMAIN <<>> = {}
  BY EmptyBatch
<1> DEFINE s == Append(iters[f], NewIteration)
           b == Append(acts[f], <<>>)
           n == Len(iters[f]) + 1
<1>4. /\ s \in Seq(IterationRow) /\ Len(s) = n /\ s[n] = NewIteration
      /\ DOMAIN s = 1..n /\ \A m \in 1..Len(iters[f]) : s[m] = iters[f][m]
  <2>1. iters[f] \in Seq(IterationRow) /\ Len(iters[f]) \in Nat
    BY <1>0, Shapes
  <2> QED BY <1>2, <2>1
<1>5. /\ b \in Seq(Batch) /\ Len(b) = n /\ b[n] = <<>>
      /\ DOMAIN b = 1..n /\ \A m \in 1..Len(iters[f]) : b[m] = acts[f][m]
  <2>1. acts[f] \in Seq(Batch) /\ Len(acts[f]) = Len(iters[f]) /\ Len(iters[f]) \in Nat
    BY <1>0, Shapes DEF LoopTypes
  <2> QED BY <1>3, <2>1
<1> HIDE DEF s, b
<1>6. /\ iters' \in [Frames -> Seq(IterationRow)] /\ iters'[f] = s
      /\ \A g \in Frames : g # f => iters'[g] = iters[g]
  BY <1>0, <1>1, <1>4 DEF LoopTypes, s
<1>7. /\ acts' \in [Frames -> Seq(Batch)] /\ acts'[f] = b
      /\ \A g \in Frames : g # f => acts'[g] = acts[g]
  BY <1>0, <1>1, <1>5 DEF LoopTypes, b
<1>8. \A g \in Frames : /\ DOMAIN iters[g] = 1..Len(iters[g]) /\ DOMAIN acts[g] = 1..Len(iters[g])
                        /\ Len(iters[g]) \in Nat
  BY Shapes
<1>9. ASSUME NEW g, NEW m, NEW o
      PROVE  /\ Cell(g, m, o)' <=> Cell(g, m, o)
             /\ Cell(g, m, o) => g \in Frames /\ m \in 1..Len(iters[g]) /\ acts'[g][m][o] = acts[g][m][o]
  <2>1. CASE g \notin Frames
    BY <2>1 DEF Cell
  <2>2. CASE g \in Frames /\ g # f
    BY <1>7, <1>8, <2>2 DEF Cell
  <2>3. CASE g = f
    <3>1. CASE m = n
      BY <1>0, <1>3, <1>5, <1>7, <1>8, <2>3, <3>1 DEF Cell
    <3>2. CASE m # n
      <4>1. m \in 1..n <=> m \in 1..Len(iters[f])
        BY <1>0, <1>8, <3>2
      <4> QED BY <1>0, <1>5, <1>7, <1>8, <2>3, <4>1 DEF Cell
    <3> QED BY <3>1, <3>2
  <2> QED BY <2>1, <2>2, <2>3
<1>10. FramesAreSound'
  <2> USE DEF FramesAreSound
  <2>1. (delegation = "none" => frames["child"].phase = "none")'
    BY <1>1
  <2>2. (frames["child"].phase = "none" => Len(iters["child"]) = 0)'
    BY <1>0, <1>1, <1>6
  <2>3. (\A g, m, o : Cell(g, m, o) /\ OpenTool(acts[g][m][o]) =>
           m = Len(iters[g]) /\ frames[g].phase \in {"WAIT_ACTIONS", "STOPPED"})'
    BY <1>1, <1>6, <1>9
  <2>4. (\A g \in Frames : \A m \in DOMAIN iters[g] : iters[g][m].state = "OPEN" => DOMAIN acts[g][m] = {})'
    <3> SUFFICES ASSUME NEW g \in Frames, NEW m \in DOMAIN iters'[g], iters'[g][m].state = "OPEN"
                 PROVE  DOMAIN acts'[g][m] = {}
      OBVIOUS
    <3>1. CASE g # f
      BY <1>6, <1>7, <3>1
    <3>2. CASE g = f /\ m = n
      BY <1>3, <1>5, <1>7, <3>2
    <3>3. CASE g = f /\ m # n
      <4>1. m \in 1..Len(iters[f])
        BY <1>0, <1>4, <1>6, <1>8, <3>3
      <4>2. iters'[f][m] = iters[f][m] /\ acts'[f][m] = acts[f][m]
        BY <1>4, <1>5, <1>6, <1>7, <4>1
      <4> QED BY <1>0, <1>8, <3>3, <4>1, <4>2
    <3> QED BY <3>1, <3>2, <3>3
  <2>5. (frames["root"].phase = "WAIT_CHILD" =>
           Len(iters["root"]) > 0 /\ DOMAIN acts["root"][Len(iters["root"])] = {})'
    BY <1>0, <1>1, <1>6, <1>7
  <2>6. (\A g \in Frames : frames[g].phase = "WAIT_ACTIONS" =>
           Len(iters[g]) > 0 /\ iters[g][Len(iters[g])].state # "OBSERVED")'
    BY <1>1, <1>6
  <2> QED BY <2>1, <2>2, <2>3, <2>4, <2>5, <2>6
<1>11. ObservedIsWhole'
  <2> SUFFICES ASSUME NEW g, NEW m, NEW o, Cell(g, m, o), iters'[g][m].state = "OBSERVED"
               PROVE  acts[g][m][o].skipped \/ acts[g][m][o].result # "none"
    BY <1>9 DEF ObservedIsWhole
  <2>1. iters'[g][m] = iters[g][m]
    BY <1>4, <1>6, <1>9
  <2> QED BY <2>1 DEF ObservedIsWhole
<1>12. RowInv'
  <2>1. \A g, m, o : Cell(g, m, o)' <=> Cell(g, m, o)
    BY <1>9
  <2>2. \A g, m, o : Cell(g, m, o) => acts'[g][m][o] = acts[g][m][o]
    BY <1>9
  <2>3. RowInv
    BY DEF RowInv
  <2>4. /\ RowsAreSound' /\ KeysAreApart' /\ OneWrite' /\ WritesFollow' /\ SkipsHaveCause' /\ ChildIsClosed'
    BY <1>1, <2>1, <2>2, <2>3, SameRows
  <2> QED BY <1>10, <1>11, <2>4 DEF RowInv
<1>13. Moves(l, driver[l]) /\ driver[l].pc = "drive" /\ DOMAIN driver[l].wave = {}
  BY <1>1 DEF OpenIteration, Stands, Moves, LoopTypes, DriversArePlaced
<1>14. \A g \in Frames : Len(acts'[g]) = Len(iters'[g])
  BY <1>4, <1>5, <1>6, <1>7 DEF LoopTypes
<1> QED BY <1>1, <1>6, <1>7, <1>12, <1>13, <1>14, HolderStep DEF LoopTypes, RootIsCreated

\* What a batch of the pinned decisions becomes.
LEMMA NewBatch ==
  ASSUME LoopTypes, NEW f \in Frames, NEW d \in pinned.batches[f]
  PROVE  /\ [o \in DOMAIN d |-> NewAction(d[o])] \in Batch
         /\ \A o, q \in DOMAIN d : d[o].key # "read" /\ d[q].key # "read" => o = q
         /\ DOMAIN d # {}
<1>1. /\ \E k \in Ordinals : DOMAIN d = 1..k
      /\ pinned \in Pins
      /\ \A o, q \in DOMAIN d : d[o].key # "read" /\ d[q].key # "read" => o = q
  BY LoopAssumption DEF LoopAssumption, LoopTypes
<1>2. \A o \in DOMAIN d : d[o].key \in ActionKeys
  <2> DEFINE K(b) == {b[o].key : o \in DOMAIN b}
             F(p, g) == UNION {K(b) : b \in p.batches[g]}
             P(p) == UNION {F(p, g) : g \in Frames}
  <2>1. ActionKeys = UNION {P(p) : p \in Pins}
    BY DEF ActionKeys
  <2>2. \A o \in DOMAIN d : d[o].key \in K(d)
    OBVIOUS
  <2> HIDE DEF K
  <2>3. K(d) \subseteq F(pinned, f)
    OBVIOUS
  <2> HIDE DEF F
  <2>4. F(pinned, f) \subseteq P(pinned)
    OBVIOUS
  <2> HIDE DEF P
  <2> QED BY <1>1, <2>1, <2>2, <2>3, <2>4
<1>3. \A o \in DOMAIN d : NewAction(d[o]) \in ActionRow
  BY <1>2 DEF NewAction, ActionRow
<1>4. PICK k \in Ordinals : DOMAIN d = 1..k
  BY <1>1
<1>5. k \in 0..MaxBatch /\ 1 \in 1..k
  BY LoopAssumption DEF LoopAssumption, Ordinals
<1>6. [o \in DOMAIN d |-> NewAction(d[o])] \in [1..k -> ActionRow]
  BY <1>3, <1>4
<1>7. [o \in DOMAIN d |-> NewAction(d[o])] \in Batch
  BY <1>5, <1>6 DEF Batch
<1> QED BY <1>1, <1>4, <1>5, <1>7

LEMMA FinalDecided ==
  ASSUME LoopInv, NEW l \in Lanes, AcceptDecision(l), iters[Frame][Last(Frame)].answer = Final,
         iters' = [iters EXCEPT ![Frame][Last(Frame)].state = "CLOSED"],
         frames' = [frames EXCEPT ![Frame].phase = "RESULT_READY"],
         Goes(l, "drive"), UNCHANGED <<acts, delegation>>
  PROVE  LoopInv'
<1> USE DEF LoopInv
<1>f. PICK f : f = Frame
  OBVIOUS
<1>n. PICK n : n = Last(f)
  OBVIOUS
<1> DEFINE row == [iters[f][n] EXCEPT !.state = "CLOSED"]
<1>0. f \in Frames /\ Opened(f)
  BY <1>f, FrameIs DEF AcceptDecision
<1>1. /\ Current(l) /\ loopRoot.status # "none" /\ frames[f].phase = "NEED_DECISION"
      /\ UNCHANGED <<control, held, pinned, loopRoot, delivered>>
  BY <1>f DEF AcceptDecision, LocksToAct, Locks
<1>2. n \in 1..Len(iters[f]) /\ n = Len(iters[f]) /\ iters[f][n] \in IterationRow
  BY <1>0, <1>n, LastIteration
<1>3. row \in IterationRow /\ row.state = "CLOSED"
  BY <1>2 DEF IterationRow
<1>4. PutIteration(f, n, row)
  BY <1>0, <1>2, <1>f, <1>n DEF PutIteration, LoopTypes
<1>5. \A m, o : Cell(f, m, o) => ~OpenTool(acts[f][m][o])
  BY <1>1 DEF FramesAreSound
<1>6. /\ frames' \in [Frames -> [phase : Phases, gen : Nat]] /\ frames'[f].phase = "RESULT_READY"
      /\ \A g \in Frames : g # f => frames'[g] = frames[g]
  BY <1>0, <1>f DEF LoopTypes, Phases
<1>7. DOMAIN driver[l].wave = {}
  BY DEF AcceptDecision, Stands, DriversArePlaced
<1>8. PICK q : Moves(l, q) /\ DriverIs(q, driver[l], "drive", driver[l].queue, driver[l].failed, driver[l].wave)
  BY GoesMoves DEF DriverPlaces
<1> HIDE DEF row
<1>9. RowInv'
  BY <1>0, <1>1, <1>2, <1>3, <1>4, <1>5, <1>6, IterationEnds DEF RowInv
<1>10. iters' \in [Frames -> Seq(IterationRow)] /\ \A g \in Frames : Len(iters'[g]) = Len(iters[g])
  BY <1>0, <1>2, <1>3, <1>4, SetIteration
<1> QED BY <1>1, <1>6, <1>7, <1>8, <1>9, <1>10, HolderStep DEF DriverIs, LoopTypes, RootIsCreated

TakesHandoff ==
    /\ iters' = [iters EXCEPT ![Frame][Last(Frame)].state = "ACCEPTED"]
    /\ frames' = [frames EXCEPT !["root"].phase = "WAIT_CHILD",
                                !["child"] = [phase |-> "NEED_DECISION", gen |-> frames["root"].gen]]

LEMMA HandoffDecided ==
  ASSUME LoopInv, NEW l \in Lanes, AcceptDecision(l), delegation = "none", delegation' = "accepted",
         TakesHandoff, Goes(l, "drive"), UNCHANGED acts
  PROVE  LoopInv'
<1> USE DEF LoopInv
<1>f. "root" = Frame
  BY DEF Frame
<1>n. PICK n : n = Last("root")
  OBVIOUS
<1> DEFINE row == [iters["root"][n] EXCEPT !.state = "ACCEPTED"]
<1>0. "root" \in Frames /\ "child" \in Frames /\ Opened("root") /\ \A g \in Frames : g \in {"root", "child"}
  BY <1>f, FrameIs DEF AcceptDecision, Frames
<1>1. /\ Current(l) /\ loopRoot.status # "none" /\ frames["root"].phase = "NEED_DECISION"
      /\ UNCHANGED <<control, held, pinned, loopRoot, delivered>>
  BY <1>f DEF AcceptDecision, LocksToAct, Locks
<1>2. /\ n \in 1..Len(iters["root"]) /\ n = Len(iters["root"]) /\ iters["root"][n] \in IterationRow
      /\ DOMAIN acts["root"][n] = {}
  BY <1>0, <1>n, LastIteration, Shapes DEF FramesAreSound
<1>3. row \in IterationRow /\ row.state = "ACCEPTED"
  BY <1>2 DEF IterationRow
<1>4. PutIteration("root", n, row)
  BY <1>0, <1>2, <1>f, <1>n DEF PutIteration, LoopTypes, TakesHandoff
<1>6. /\ frames' \in [Frames -> [phase : Phases, gen : Nat]]
      /\ frames'["root"].phase = "WAIT_CHILD" /\ frames'["child"].phase = "NEED_DECISION"
  BY <1>0 DEF LoopTypes, Phases, TakesHandoff
<1>7. DOMAIN driver[l].wave = {}
  BY DEF AcceptDecision, Stands, DriversArePlaced
<1>8. PICK q : Moves(l, q) /\ DriverIs(q, driver[l], "drive", driver[l].queue, driver[l].failed, driver[l].wave)
  BY GoesMoves DEF DriverPlaces
<1> HIDE DEF row
<1>9. /\ iters' \in [Frames -> Seq(IterationRow)]
      /\ \A g \in Frames : Len(iters'[g]) = Len(iters[g]) /\ DOMAIN iters'[g] = DOMAIN iters[g]
      /\ iters'["root"][n] = row
      /\ \A g \in Frames : \A m \in 1..Len(iters[g]) : (g = "root" /\ m = n) \/ iters'[g][m] = iters[g][m]
  <2>1. iters' \in [Frames -> Seq(IterationRow)] /\ iters'["root"][n] = row
    BY <1>0, <1>2, <1>3, <1>4, SetIteration
  <2>2. \A g \in Frames : Len(iters'[g]) = Len(iters[g]) /\ DOMAIN iters'[g] = DOMAIN iters[g]
    BY <1>0, <1>2, <1>3, <1>4, SetIteration
  <2>3. \A g \in Frames : \A m \in 1..Len(iters[g]) : (g = "root" /\ m = n) \/ iters'[g][m] = iters[g][m]
    BY <1>0, <1>2, <1>3, <1>4, SetIteration
  <2> QED BY <2>1, <2>2, <2>3
<1>10. \A g, m, o : Cell(g, m, o) => /\ g \in Frames /\ m \in 1..Len(iters[g]) /\ ~OpenTool(acts[g][m][o])
                                     /\ <<g, m>> # <<"root", n>> /\ g = "root"
  <2> SUFFICES ASSUME NEW g, NEW m, NEW o, Cell(g, m, o)
               PROVE  /\ g \in Frames /\ m \in 1..Len(iters[g]) /\ ~OpenTool(acts[g][m][o])
                      /\ <<g, m>> # <<"root", n>> /\ g = "root"
    OBVIOUS
  <2>1. g \in Frames /\ m \in 1..Len(iters[g])
    BY Cells
  <2>2. Len(iters["child"]) = 0
    BY DEF FramesAreSound
  <2>3. g = "root"
    BY <1>0, <2>1, <2>2
  <2>4. ~OpenTool(acts[g][m][o])
    BY <1>1, <2>3 DEF FramesAreSound
  <2> QED BY <1>2, <2>1, <2>3, <2>4 DEF Cell
<1>11. FramesAreSound'
  <2> USE DEF FramesAreSound
  <2>0. \A g \in Frames : DOMAIN iters[g] = 1..Len(iters[g]) /\ Len(iters[g]) \in Nat
    BY Shapes
  <2>1. (delegation = "none" => frames["child"].phase = "none")'
    OBVIOUS
  <2>2. (frames["child"].phase = "none" => Len(iters["child"]) = 0)'
    BY <1>6
  <2>3. (\A g, m, o : Cell(g, m, o) /\ OpenTool(acts[g][m][o]) =>
           m = Len(iters[g]) /\ frames[g].phase \in {"WAIT_ACTIONS", "STOPPED"})'
    BY <1>10 DEF Cell
  <2>4. (\A g \in Frames : \A m \in DOMAIN iters[g] : iters[g][m].state = "OPEN" => DOMAIN acts[g][m] = {})'
    <3> SUFFICES ASSUME NEW g \in Frames, NEW m \in 1..Len(iters[g]), iters'[g][m].state = "OPEN"
                 PROVE  DOMAIN acts[g][m] = {}
      BY <1>9, <2>0
    <3>1. iters'[g][m] = iters[g][m]
      BY <1>3, <1>9
    <3> QED BY <2>0, <3>1
  <2>5. (frames["root"].phase = "WAIT_CHILD" =>
           Len(iters["root"]) > 0 /\ DOMAIN acts["root"][Len(iters["root"])] = {})'
    BY <1>0, <1>2, <1>9, <2>0
  <2>6. (\A g \in Frames : frames[g].phase = "WAIT_ACTIONS" =>
           Len(iters[g]) > 0 /\ iters[g][Len(iters[g])].state # "OBSERVED")'
    BY <1>0, <1>6
  <2> QED BY <2>1, <2>2, <2>3, <2>4, <2>5, <2>6
<1>12. ObservedIsWhole'
  <2> SUFFICES ASSUME NEW g, NEW m, NEW o, Cell(g, m, o), iters'[g][m].state = "OBSERVED"
               PROVE  acts[g][m][o].skipped \/ acts[g][m][o].result # "none"
    BY DEF ObservedIsWhole, Cell
  <2>1. iters'[g][m] = iters[g][m]
    BY <1>9, <1>10
  <2> QED BY <2>1 DEF ObservedIsWhole
<1>13. RowInv'
  <2>1. \A g, m, o : Cell(g, m, o)' <=> Cell(g, m, o)
    BY DEF Cell
  <2>2. RowInv
    BY DEF RowInv
  <2>3. /\ RowsAreSound' /\ KeysAreApart' /\ OneWrite' /\ WritesFollow' /\ SkipsHaveCause' /\ ChildIsClosed'
    BY <2>1, <2>2, SameRows
  <2> QED BY <1>11, <1>12, <2>3 DEF RowInv
<1> QED BY <1>1, <1>6, <1>7, <1>8, <1>9, <1>13, HolderStep DEF DriverIs, LoopTypes, RootIsCreated

\* A new batch: its writes are new to the run.
TakesBatch(d) ==
    /\ ~Repeats(Frame, d)
    /\ iters' = [iters EXCEPT ![Frame][Last(Frame)].state = "ACCEPTED"]
    /\ frames' = [frames EXCEPT ![Frame].phase = "WAIT_ACTIONS"]
    /\ acts' = [acts EXCEPT ![Frame][Last(Frame)] = [o \in DOMAIN d |-> NewAction(d[o])]]

LEMMA BatchDecided ==
  ASSUME LoopInv, NEW l \in Lanes, AcceptDecision(l), NEW d \in pinned.batches[Frame], TakesBatch(d),
         Goes(l, "drive"), UNCHANGED delegation
  PROVE  LoopInv'
<1> USE DEF LoopInv
<1>f. PICK f : f = Frame
  OBVIOUS
<1>n. PICK n : n = Last(f)
  OBVIOUS
<1> DEFINE row == [iters[f][n] EXCEPT !.state = "ACCEPTED"]
<1>0. f \in Frames /\ Opened(f) /\ "root" \in Frames /\ "child" \in Frames
  BY <1>f, FrameIs DEF AcceptDecision, Frames
<1>1. /\ Current(l) /\ loopRoot.status # "none" /\ frames[f].phase = "NEED_DECISION"
      /\ UNCHANGED <<control, held, pinned, loopRoot, delivered>>
  BY <1>f DEF AcceptDecision, LocksToAct, Locks
<1>2. /\ n \in 1..Len(iters[f]) /\ n = Len(iters[f]) /\ iters[f][n] \in IterationRow
      /\ DOMAIN acts[f][n] = {}
  BY <1>0, <1>n, LastIteration, Shapes DEF FramesAreSound
<1>3. row \in IterationRow /\ row.state = "ACCEPTED"
  BY <1>2 DEF IterationRow
<1>4. PutIteration(f, n, row)
  BY <1>0, <1>2, <1>f, <1>n DEF PutIteration, LoopTypes, TakesBatch
<1>5. PICK b : b = [o \in DOMAIN d |-> NewAction(d[o])]
  OBVIOUS
<1>6. /\ frames' \in [Frames -> [phase : Phases, gen : Nat]] /\ frames'[f].phase = "WAIT_ACTIONS"
      /\ \A g \in Frames : g # f => frames'[g] = frames[g]
  BY <1>0, <1>f DEF LoopTypes, Phases, TakesBatch
<1>7. DOMAIN driver[l].wave = {}
  BY DEF AcceptDecision, Stands, DriversArePlaced
<1>8. PICK q : Moves(l, q) /\ DriverIs(q, driver[l], "drive", driver[l].queue, driver[l].failed, driver[l].wave)
  BY GoesMoves DEF DriverPlaces
<1> HIDE DEF row
<1>9. /\ iters' \in [Frames -> Seq(IterationRow)]
      /\ \A g \in Frames : Len(iters'[g]) = Len(iters[g]) /\ DOMAIN iters'[g] = DOMAIN iters[g]
      /\ iters'[f][n] = row
      /\ \A g \in Frames : \A m \in 1..Len(iters[g]) : (g = f /\ m = n) \/ iters'[g][m] = iters[g][m]
  <2>1. iters' \in [Frames -> Seq(IterationRow)] /\ iters'[f][n] = row
    BY <1>0, <1>2, <1>3, <1>4, SetIteration
  <2>2. \A g \in Frames : Len(iters'[g]) = Len(iters[g]) /\ DOMAIN iters'[g] = DOMAIN iters[g]
    BY <1>0, <1>2, <1>3, <1>4, SetIteration
  <2>3. \A g \in Frames : \A m \in 1..Len(iters[g]) : (g = f /\ m = n) \/ iters'[g][m] = iters[g][m]
    BY <1>0, <1>2, <1>3, <1>4, SetIteration
  <2> QED BY <2>1, <2>2, <2>3
<1>10. /\ b \in Batch
       /\ \A o \in DOMAIN b : /\ ~b[o].skipped /\ b[o].tool = "none" /\ b[o].result = "none" /\ ~b[o].acted
                              /\ b[o].key = d[o].key
       /\ \A o, q_1 \in DOMAIN b : ~Reading(b[o]) /\ ~Reading(b[q_1]) => o = q_1
  <2>1. /\ [o \in DOMAIN d |-> NewAction(d[o])] \in Batch
        /\ \A o, q_1 \in DOMAIN d : d[o].key # "read" /\ d[q_1].key # "read" => o = q_1
    BY <1>0, <1>f, NewBatch
  <2> QED BY <1>5, <2>1 DEF NewAction, Reading
<1>11. /\ acts' \in [Frames -> Seq(Batch)] /\ acts'[f][n] = b
       /\ \A g \in Frames : Len(acts'[g]) = Len(acts[g]) /\ DOMAIN acts'[g] = DOMAIN acts[g]
       /\ \A g \in Frames : \A m \in 1..Len(iters[g]) : <<g, m>> # <<f, n>> => acts'[g][m] = acts[g][m]
  <2> DEFINE s == [acts[f] EXCEPT ![n] = b]
  <2>1. acts[f] \in Seq(Batch) /\ acts \in [Frames -> Seq(Batch)] /\ Len(acts[f]) = Len(iters[f])
    BY <1>0 DEF LoopTypes
  <2>2. /\ s \in Seq(Batch) /\ Len(s) = Len(acts[f]) /\ DOMAIN s = DOMAIN acts[f] /\ s[n] = b
        /\ \A m \in 1..Len(iters[f]) : m # n => s[m] = acts[f][m]
    BY <1>2, <1>10, <2>1
  <2>3. acts' = [acts EXCEPT ![f] = s]
    BY <1>f, <1>n, <1>5, <2>1 DEF TakesBatch
  <2> HIDE DEF s
  <2> QED BY <1>0, <2>1, <2>2, <2>3
<1>12. ASSUME NEW g, NEW m, NEW o
       PROVE  /\ Cell(g, m, o) => /\ Cell(g, m, o)' /\ g \in Frames /\ m \in 1..Len(iters[g])
                                  /\ <<g, m>> # <<f, n>> /\ acts'[g][m] = acts[g][m]
              /\ Cell(g, m, o)' => \/ Cell(g, m, o)
                                   \/ g = f /\ m = n /\ o \in DOMAIN b
  <2>1. \A h \in Frames : DOMAIN acts[h] = 1..Len(iters[h])
    BY Shapes
  <2> QED BY <1>0, <1>2, <1>11, <2>1 DEF Cell
<1>13. ASSUME NEW g, NEW m, NEW o, Cell(g, m, o), NEW p \in DOMAIN b, ~Reading(b[p])
       PROVE  b[p].key # acts[g][m][o].key
  <2>1. acts[g][m][o] \in AllActs
    <3>1. g \in Frames /\ m \in DOMAIN acts[g] /\ o \in DOMAIN acts[g][m]
      BY <1>13 DEF Cell
    <3>2. acts[g][m][o] \in ActsOf(g)
      BY <3>1 DEF ActsOf
    <3> QED BY <3>1, <3>2 DEF AllActs
  <2>2. p \in DOMAIN d /\ b[p].key = d[p].key
    BY <1>5, <1>10, <1>13
  <2> QED BY <1>13, <2>1, <2>2 DEF Repeats, Reading, TakesBatch
<1>14. RowsAreSound'
  <2> SUFFICES ASSUME NEW g, NEW m, NEW o, Cell(g, m, o)' PROVE RowIsSound(acts'[g][m][o])
    BY DEF RowsAreSound
  <2>1. CASE Cell(g, m, o)
    BY <1>12, <2>1 DEF RowsAreSound
  <2>2. CASE ~Cell(g, m, o)
    <3>1. acts'[g][m] = b /\ o \in DOMAIN b
      BY <1>11, <1>12, <2>2
    <3> QED BY <1>10, <3>1 DEF RowIsSound
  <2> QED BY <2>1, <2>2
<1>15. KeysAreApart'
  <2> SUFFICES ASSUME NEW g, NEW m, NEW o, NEW h, NEW k, NEW p, Cell(g, m, o)', Cell(h, k, p)',
                      acts'[g][m][o].key = acts'[h][k][p].key, ~Reading(acts'[g][m][o])
               PROVE  g = h /\ m = k /\ o = p
    BY DEF KeysAreApart
  <2>1. ~Reading(acts'[h][k][p])
    BY DEF Reading
  <2>2. CASE Cell(g, m, o) /\ Cell(h, k, p)
    BY <1>12, <2>2 DEF KeysAreApart
  <2>3. CASE ~Cell(g, m, o) /\ ~Cell(h, k, p)
    BY <1>10, <1>11, <1>12, <2>1, <2>3
  <2>4. CASE Cell(g, m, o) /\ ~Cell(h, k, p)
    BY <1>11, <1>12, <1>13, <2>1, <2>4
  <2>5. CASE ~Cell(g, m, o) /\ Cell(h, k, p)
    BY <1>11, <1>12, <1>13, <2>1, <2>5
  <2> QED BY <2>2, <2>3, <2>4, <2>5
<1>16. OneWrite'
  <2> SUFFICES ASSUME NEW g, NEW m, NEW o, NEW p, Cell(g, m, o)', Cell(g, m, p)',
                      ~Reading(acts'[g][m][o]), ~Reading(acts'[g][m][p])
               PROVE  o = p
    BY DEF OneWrite
  <2>1. CASE <<g, m>> = <<f, n>>
    <3>1. o \in DOMAIN b /\ p \in DOMAIN b
      BY <1>12, <2>1
    <3> QED BY <1>10, <1>11, <2>1, <3>1
  <2>2. CASE <<g, m>> # <<f, n>>
    <3>1. Cell(g, m, o) /\ Cell(g, m, p)
      BY <1>12, <2>2
    <3> QED BY <1>12, <3>1 DEF OneWrite
  <2> QED BY <2>1, <2>2
<1>17. WritesFollow' /\ SkipsHaveCause'
  <2>1. ASSUME NEW g, NEW m, NEW o, NEW w, BesideWrite(g, m, o, w)'
        PROVE  Underway(acts'[g][m][w]) => Good(acts'[g][m][o])
    <3>1. CASE <<g, m>> = <<f, n>>
      <4>1. o \in DOMAIN b /\ w \in DOMAIN b
        BY <1>12, <2>1, <3>1 DEF BesideWrite
      <4> QED BY <1>10, <1>11, <3>1, <4>1 DEF Underway
    <3>2. CASE <<g, m>> # <<f, n>>
      <4>1. Cell(g, m, o) /\ Cell(g, m, w) /\ BesideWrite(g, m, o, w)
        BY <1>12, <2>1, <3>2 DEF BesideWrite
      <4> QED BY <1>12, <4>1 DEF WritesFollow
    <3> QED BY <3>1, <3>2
  <2>2. ASSUME NEW g, NEW m, NEW o, Cell(g, m, o)', acts'[g][m][o].skipped
        PROVE  \/ g = "child" /\ delegation \in {"result", "observed"}
               \/ \E p : Cell(g, m, p)' /\ Bad(acts'[g][m][p])
    <3>1. Cell(g, m, o) /\ acts'[g][m] = acts[g][m]
      BY <1>10, <1>11, <1>12, <2>2
    <3>2. \/ g = "child" /\ delegation \in {"result", "observed"}
          \/ \E p : Cell(g, m, p) /\ Bad(acts[g][m][p])
      BY <2>2, <3>1 DEF SkipsHaveCause
    <3> QED BY <1>12, <3>1, <3>2
  <2> QED BY <2>1, <2>2 DEF WritesFollow, SkipsHaveCause
<1>18. FramesAreSound'
  <2> USE DEF FramesAreSound
  <2>0. \A g \in Frames : DOMAIN iters[g] = 1..Len(iters[g]) /\ Len(iters[g]) \in Nat
    BY Shapes
  <2>1. (delegation = "none" => frames["child"].phase = "none")'
    BY <1>0, <1>1, <1>6
  <2>2. (frames["child"].phase = "none" => Len(iters["child"]) = 0)'
    BY <1>0, <1>6, <1>9
  <2>3. (\A g, m, o : Cell(g, m, o) /\ OpenTool(acts[g][m][o]) =>
           m = Len(iters[g]) /\ frames[g].phase \in {"WAIT_ACTIONS", "STOPPED"})'
    <3> SUFFICES ASSUME NEW g, NEW m, NEW o, Cell(g, m, o)', OpenTool(acts'[g][m][o])
                 PROVE  m = Len(iters'[g]) /\ frames'[g].phase \in {"WAIT_ACTIONS", "STOPPED"}
      OBVIOUS
    <3>1. Cell(g, m, o)
      BY <1>10, <1>11, <1>12 DEF OpenTool
    <3>2. g \in Frames /\ g # f /\ m = Len(iters[g]) /\ frames[g].phase \in {"WAIT_ACTIONS", "STOPPED"}
      BY <1>1, <1>12, <3>1
    <3> QED BY <1>6, <1>9, <3>2
  <2>4. (\A g \in Frames : \A m \in DOMAIN iters[g] : iters[g][m].state = "OPEN" => DOMAIN acts[g][m] = {})'
    <3> SUFFICES ASSUME NEW g \in Frames, NEW m \in 1..Len(iters[g]), iters'[g][m].state = "OPEN"
                 PROVE  DOMAIN acts'[g][m] = {}
      BY <1>9, <2>0
    <3>1. iters'[g][m] = iters[g][m] /\ acts'[g][m] = acts[g][m]
      BY <1>3, <1>9, <1>11
    <3> QED BY <2>0, <3>1
  <2>5. (frames["root"].phase = "WAIT_CHILD" =>
           Len(iters["root"]) > 0 /\ DOMAIN acts["root"][Len(iters["root"])] = {})'
    <3> SUFFICES ASSUME frames'["root"].phase = "WAIT_CHILD"
                 PROVE  Len(iters'["root"]) > 0 /\ DOMAIN acts'["root"][Len(iters'["root"])] = {}
      OBVIOUS
    <3>1. "root" # f /\ Len(iters["root"]) > 0 /\ DOMAIN acts["root"][Len(iters["root"])] = {}
      BY <1>0, <1>6
    <3>2. Len(iters["root"]) \in 1..Len(iters["root"])
      BY <1>0, <2>0, <3>1
    <3>3. acts'["root"][Len(iters["root"])] = acts["root"][Len(iters["root"])]
      BY <1>0, <1>11, <3>1, <3>2
    <3> QED BY <1>0, <1>9, <3>1, <3>3
  <2>6. (\A g \in Frames : frames[g].phase = "WAIT_ACTIONS" =>
           Len(iters[g]) > 0 /\ iters[g][Len(iters[g])].state # "OBSERVED")'
    <3> SUFFICES ASSUME NEW g \in Frames, frames'[g].phase = "WAIT_ACTIONS"
                 PROVE  Len(iters[g]) > 0 /\ iters'[g][Len(iters[g])].state # "OBSERVED"
      BY <1>9
    <3>1. CASE g = f
      BY <1>2, <1>3, <1>9, <3>1
    <3>2. CASE g # f
      <4>1. Len(iters[g]) > 0 /\ iters[g][Len(iters[g])].state # "OBSERVED" /\ Len(iters[g]) \in 1..Len(iters[g])
        BY <1>6, <2>0, <3>2
      <4> QED BY <1>9, <3>2, <4>1
    <3> QED BY <3>1, <3>2
  <2> QED BY <2>1, <2>2, <2>3, <2>4, <2>5, <2>6
<1>19. ObservedIsWhole'
  <2> SUFFICES ASSUME NEW g, NEW m, NEW o, Cell(g, m, o)', iters'[g][m].state = "OBSERVED"
               PROVE  acts'[g][m][o].skipped \/ acts'[g][m][o].result # "none"
    BY DEF ObservedIsWhole
  <2>1. Cell(g, m, o) /\ iters'[g][m] = iters[g][m]
    BY <1>3, <1>9, <1>12
  <2> QED BY <1>12, <2>1 DEF ObservedIsWhole
<1>20. ChildIsClosed'
  <2> SUFFICES ASSUME delegation \in {"result", "observed"}, NEW g, NEW m, NEW o, Cell(g, m, o)', g = "child"
               PROVE  ~OpenTool(acts'[g][m][o])
    BY DEF ChildIsClosed
  <2>1. CASE Cell(g, m, o)
    BY <1>12, <2>1 DEF ChildIsClosed
  <2>2. CASE ~Cell(g, m, o)
    <3>1. acts'[g][m] = b /\ o \in DOMAIN b
      BY <1>11, <1>12, <2>2
    <3> QED BY <1>10, <3>1 DEF OpenTool
  <2> QED BY <2>1, <2>2
<1>21. RowInv'
  BY <1>14, <1>15, <1>16, <1>17, <1>18, <1>19, <1>20 DEF RowInv
<1>22. \A g \in Frames : Len(acts'[g]) = Len(iters'[g])
  BY <1>9, <1>11 DEF LoopTypes
<1>23. iters' \in [Frames -> Seq(IterationRow)] /\ acts' \in [Frames -> Seq(Batch)]
  BY <1>9, <1>11
<1> QED BY <1>1, <1>6, <1>7, <1>8, <1>21, <1>22, <1>23, HolderStep DEF DriverIs, LoopTypes, RootIsCreated

LEMMA AcceptSteps ==
  ASSUME LoopInv, NEW l \in Lanes, AcceptDecision(l)
  PROVE  LoopInv'
<1>1. ASSUME UNCHANGED <<iters, frames, acts, delegation>>, Goes(l, "failing") PROVE LoopInv'
  <2>1. PICK q : Moves(l, q) /\ DriverIs(q, driver[l], "failing", driver[l].queue, driver[l].failed, driver[l].wave)
    BY <1>1, GoesMoves DEF LoopInv, DriverPlaces
  <2>2. DOMAIN driver[l].wave = {}
    BY DEF AcceptDecision, Stands, LoopInv, DriversArePlaced
  <2> QED BY <1>1, <2>1, <2>2, ReadStep DEF AcceptDecision, DriverIs, controlVars, loopRows
<1> QED BY <1>1, FinalDecided, HandoffDecided, BatchDecided DEF AcceptDecision, TakesHandoff, TakesBatch

-----------------------------------------------------------------------------
(* The end of the child.                                                   *)

LEMMA ChildRows ==
  ASSUME LoopTypes, NEW n, NEW o, Cell("child", n, o)
  PROVE  acts["child"][n][o] \in ActsOf("child")
  BY DEF Cell, ActsOf

\* Closing a row whose call has an outcome.
LEMMA ClosedRowIs ==
  ASSUME NEW a \in ActionRow, RowIsSound(a), ~OpenTool(a), a.tool # "NOT_COMMITTED"
  PROVE  /\ ClosedRow(a) \in ActionRow /\ RowIsSound(ClosedRow(a))
         /\ ClosedRow(a).key = a.key /\ ClosedRow(a).tool = a.tool
         /\ Good(a) => Good(ClosedRow(a))
         /\ a.skipped \/ a.result # "none" => ClosedRow(a) = a
<1>1. CASE a.result # "none" \/ a.skipped
  BY <1>1 DEF ClosedRow
<1>2. CASE ~(a.result # "none" \/ a.skipped) /\ a.tool = "COMMITTED"
  <2>1. ASSUME NEW r \in {"SUCCEEDED", "FAILED"}, r = IF a.ok THEN "SUCCEEDED" ELSE "FAILED"
        PROVE  /\ [a EXCEPT !.result = r] \in ActionRow /\ RowIsSound([a EXCEPT !.result = r])
               /\ [a EXCEPT !.result = r].key = a.key /\ [a EXCEPT !.result = r].tool = a.tool
    BY <1>2, <2>1 DEF ActionRow, RowIsSound, Reading, Underway
  <2> QED BY <1>2, <2>1 DEF ClosedRow, Good
<1>3. CASE ~(a.result # "none" \/ a.skipped) /\ a.tool # "COMMITTED"
  <2>1. a.tool \in {"none", "PREPARED"}
    BY <1>3 DEF ActionRow, OpenTool
  <2>2. /\ [a EXCEPT !.skipped = TRUE] \in ActionRow /\ RowIsSound([a EXCEPT !.skipped = TRUE])
        /\ [a EXCEPT !.skipped = TRUE].key = a.key /\ [a EXCEPT !.skipped = TRUE].tool = a.tool
    BY <1>3, <2>1 DEF ActionRow, RowIsSound, Reading, Underway
  <2> QED BY <1>3, <2>2 DEF ClosedRow, Good
<1> QED BY <1>1, <1>2, <1>3

ClosesChild ==
    /\ acts' = [acts EXCEPT !["child"] = [n \in DOMAIN @ |-> [o \in DOMAIN @[n] |-> ClosedRow(@[n][o])]]]
    /\ frames' = [frames EXCEPT !["child"].phase = "STOPPED"]
    /\ delegation' = "result"

LEMMA ChildCloses ==
  ASSUME LoopTypes, RowInv, ClosesChild, UNCHANGED iters, delegation = "accepted",
         \A n, o : Cell("child", n, o) => ~OpenTool(acts["child"][n][o]) /\ acts["child"][n][o].tool # "NOT_COMMITTED"
  PROVE  /\ RowInv' /\ acts' \in [Frames -> Seq(Batch)] /\ \A f \in Frames : Len(acts'[f]) = Len(acts[f])
<1>0. "root" \in Frames /\ "child" \in Frames /\ \A f \in Frames : f = "root" \/ f = "child"
  BY DEF Frames
<1> DEFINE B(n) == [o \in DOMAIN acts["child"][n] |-> ClosedRow(acts["child"][n][o])]
           s == [n \in 1..Len(iters["child"]) |-> B(n)]
<1>1. \A n, o : Cell("child", n, o) =>
        /\ acts["child"][n][o] \in ActionRow /\ RowIsSound(acts["child"][n][o])
        /\ ~OpenTool(acts["child"][n][o]) /\ acts["child"][n][o].tool # "NOT_COMMITTED"
  BY Cells DEF RowInv, RowsAreSound
<1>2. ASSUME NEW n \in 1..Len(iters["child"]) PROVE B(n) \in Batch
  <2>1. acts["child"][n] \in Batch /\ n \in DOMAIN acts["child"]
    BY <1>0, Shapes
  <2>2. \A o \in DOMAIN acts["child"][n] : ClosedRow(acts["child"][n][o]) \in ActionRow
    BY <1>0, <1>1, <2>1, ClosedRowIs DEF Cell
  <2>3. B(n) \in [DOMAIN acts["child"][n] -> ActionRow]
    BY <2>2
  <2> QED BY <2>1, <2>3, SameBatch
<1>3. s \in Seq(Batch) /\ Len(s) = Len(iters["child"]) /\ DOMAIN s = 1..Len(iters["child"])
  <2>1. Len(iters["child"]) \in Nat
    BY <1>0, Shapes
  <2> HIDE DEF B
  <2> QED BY <1>2, <2>1
<1>4. acts' = [acts EXCEPT !["child"] = s]
  <2>1. DOMAIN acts["child"] = 1..Len(iters["child"])
    BY <1>0, Shapes
  <2> QED BY <2>1 DEF ClosesChild
<1>5. /\ acts' \in [Frames -> Seq(Batch)] /\ acts'["child"] = s /\ acts'["root"] = acts["root"]
  <2> HIDE DEF s
  <2> QED BY <1>0, <1>3, <1>4 DEF LoopTypes
<1>6. SameShape
  <2>1. ASSUME NEW f \in Frames
        PROVE  /\ Len(acts'[f]) = Len(acts[f])
               /\ \A n \in 1..Len(acts[f]) : DOMAIN acts'[f][n] = DOMAIN acts[f][n]
    BY <1>0, <1>3, <1>5 DEF LoopTypes
  <2> QED BY <1>5, <2>1 DEF SameShape
<1>7. \A f, n, o : Cell(f, n, o)' <=> Cell(f, n, o)
  BY <1>6, ShapeCells
<1>8. ASSUME NEW f, NEW n, NEW o, Cell(f, n, o)
      PROVE  \/ f = "root" /\ acts'[f][n][o] = acts[f][n][o]
             \/ f = "child" /\ acts'[f][n][o] = ClosedRow(acts[f][n][o])
  <2>1. f \in Frames /\ n \in 1..Len(iters[f]) /\ o \in DOMAIN acts[f][n]
    BY <1>8, Cells DEF Cell
  <2> QED BY <1>0, <1>5, <2>1
<1> HIDE DEF s, B
<1>9. ASSUME NEW f, NEW n, NEW o, Cell(f, n, o)
      PROVE  /\ acts'[f][n][o].key = acts[f][n][o].key /\ acts'[f][n][o].tool = acts[f][n][o].tool
             /\ RowIsSound(acts'[f][n][o])
             /\ Good(acts[f][n][o]) => Good(acts'[f][n][o])
             /\ acts[f][n][o].skipped \/ acts[f][n][o].result # "none" => acts'[f][n][o] = acts[f][n][o]
             /\ f = "root" => acts'[f][n][o] = acts[f][n][o]
             /\ f = "root" \/ f = "child"
             /\ f = "child" => ~OpenTool(acts'[f][n][o])
  <2>1. CASE f = "root" /\ acts'[f][n][o] = acts[f][n][o]
    BY <1>9, <2>1 DEF RowInv, RowsAreSound
  <2>2. CASE f = "child" /\ acts'[f][n][o] = ClosedRow(acts[f][n][o])
    <3>1. /\ ClosedRow(acts[f][n][o]).key = acts[f][n][o].key /\ ClosedRow(acts[f][n][o]).tool = acts[f][n][o].tool
          /\ RowIsSound(ClosedRow(acts[f][n][o]))
          /\ Good(acts[f][n][o]) => Good(ClosedRow(acts[f][n][o]))
          /\ acts[f][n][o].skipped \/ acts[f][n][o].result # "none" => ClosedRow(acts[f][n][o]) = acts[f][n][o]
      BY <1>1, <1>9, <2>2, ClosedRowIs
    <3>2. ~OpenTool(acts[f][n][o])
      BY <1>1, <1>9, <2>2
    <3> QED BY <2>2, <3>1, <3>2 DEF OpenTool
  <2> QED BY <1>8, <1>9, <2>1, <2>2
<1>10. RowsAreSound'
  BY <1>7, <1>9 DEF RowsAreSound
<1>11. KeysAreApart' /\ OneWrite'
  <2>1. \A f, n, o : Cell(f, n, o) => acts'[f][n][o].key = acts[f][n][o].key
    BY <1>9
  <2> QED BY <1>7, <2>1 DEF RowInv, KeysAreApart, OneWrite, Reading
<1>12. WritesFollow' /\ SkipsHaveCause'
  <2>1. ASSUME NEW f, NEW n, NEW o, NEW w, BesideWrite(f, n, o, w)'
        PROVE  Underway(acts'[f][n][w]) => Good(acts'[f][n][o])
    <3>1. BesideWrite(f, n, o, w) /\ Cell(f, n, o) /\ Cell(f, n, w)
      BY <1>7, <1>9, <2>1 DEF BesideWrite, Reading
    <3> QED BY <1>9, <3>1 DEF RowInv, WritesFollow, Underway
  <2>2. ASSUME NEW f, NEW n, NEW o, Cell(f, n, o), f # "child", acts'[f][n][o].skipped
        PROVE  \E p : Cell(f, n, p) /\ Bad(acts'[f][n][p])
    <3>1. f = "root" /\ acts[f][n][o].skipped
      BY <1>9, <2>2
    <3>2. PICK p : Cell(f, n, p) /\ Bad(acts[f][n][p])
      BY <2>2, <3>1 DEF RowInv, SkipsHaveCause
    <3> QED BY <1>9, <3>1, <3>2
  <2>3. delegation' \in {"result", "observed"}
    BY DEF ClosesChild
  <2> QED BY <1>7, <2>1, <2>2, <2>3 DEF WritesFollow, SkipsHaveCause
<1>13. FramesAreSound'
  <2> USE DEF RowInv, FramesAreSound
  <2>0. \A g \in Frames : DOMAIN iters[g] = 1..Len(iters[g]) /\ Len(iters[g]) \in Nat
    BY Shapes
  <2>1. delegation' = "result" /\ frames'["child"].phase = "STOPPED" /\ frames'["root"] = frames["root"]
    BY <1>0 DEF ClosesChild, LoopTypes
  <2>2. (\A f, n, o : Cell(f, n, o) /\ OpenTool(acts[f][n][o]) =>
           n = Len(iters[f]) /\ frames[f].phase \in {"WAIT_ACTIONS", "STOPPED"})'
    BY <1>7, <1>9, <2>1
  <2>3. (\A g \in Frames : \A m \in DOMAIN iters[g] : iters[g][m].state = "OPEN" => DOMAIN acts[g][m] = {})'
    BY <1>6, <2>0 DEF SameShape, LoopTypes
  <2>4. (frames["root"].phase = "WAIT_CHILD" =>
           Len(iters["root"]) > 0 /\ DOMAIN acts["root"][Len(iters["root"])] = {})'
    BY <1>5, <2>1
  <2>5. (\A g \in Frames : frames[g].phase = "WAIT_ACTIONS" =>
           Len(iters[g]) > 0 /\ iters[g][Len(iters[g])].state # "OBSERVED")'
    BY <1>0, <2>1
  <2> QED BY <2>1, <2>2, <2>3, <2>4, <2>5
<1>14. ObservedIsWhole'
  <2> SUFFICES ASSUME NEW f, NEW n, NEW o, Cell(f, n, o), iters[f][n].state = "OBSERVED"
               PROVE  acts'[f][n][o].skipped \/ acts'[f][n][o].result # "none"
    BY <1>7 DEF ObservedIsWhole
  <2>1. acts[f][n][o].skipped \/ acts[f][n][o].result # "none"
    BY DEF RowInv, ObservedIsWhole
  <2> QED BY <1>9, <2>1
<1>15. ChildIsClosed'
  BY <1>7, <1>9 DEF ChildIsClosed
<1> QED BY <1>5, <1>6, <1>10, <1>11, <1>12, <1>13, <1>14, <1>15 DEF RowInv, SameShape

LEMMA CommitChildSteps ==
  ASSUME LoopInv, NEW l \in Lanes, CommitChild(l)
  PROVE  LoopInv'
<1> USE DEF LoopInv
<1>0. "root" \in Frames /\ "child" \in Frames
  BY DEF Frames
<1>1. /\ Current(l) /\ loopRoot.status # "none" /\ delegation = "accepted"
      /\ UNCHANGED <<control, held, pinned, loopRoot, iters, delivered>>
      /\ driver[l].pc \in {"drive", "childFailed"}
  BY FrameIs DEF CommitChild, LocksToAct, Locks, Stands
<1>2. DOMAIN driver[l].wave = {}
  BY <1>1 DEF DriversArePlaced
<1>3. ASSUME NEW p \in {"suspending", "failing"}, Goes(l, p), UNCHANGED <<acts, frames, delegation>>
      PROVE  LoopInv'
  <2>1. PICK q : Moves(l, q) /\ DriverIs(q, driver[l], p, driver[l].queue, driver[l].failed, driver[l].wave)
    BY <1>3, GoesMoves DEF DriverPlaces
  <2> QED BY <1>1, <1>2, <1>3, <2>1, ReadStep DEF DriverIs, controlVars, loopRows
<1>4. ASSUME ~ChildPending, UNCHANGED <<acts, frames>>, delegation' = "result", Goes(l, "drive")
      PROVE  LoopInv'
  <2>1. PICK q : Moves(l, q) /\ DriverIs(q, driver[l], "drive", driver[l].queue, driver[l].failed, driver[l].wave)
    BY <1>4, GoesMoves DEF DriverPlaces
  <2>2. \A f, n, o : (Cell(f, n, o)' <=> Cell(f, n, o)) /\ acts'[f][n][o] = acts[f][n][o]
    BY <1>4 DEF Cell
  <2>3. ChildIsClosed'
    BY <1>4, <2>2, ChildRows DEF ChildIsClosed, ChildPending
  <2>4. SkipsHaveCause'
    BY <1>1, <1>4, <2>2 DEF SkipsHaveCause
  <2>5. FramesAreSound'
    BY <1>1, <1>4, <2>2 DEF FramesAreSound
  <2>6. RowsAreSound' /\ KeysAreApart' /\ OneWrite'
    BY <1>4, <2>2 DEF RowsAreSound, KeysAreApart, OneWrite
  <2>7. WritesFollow' /\ ObservedIsWhole'
    BY <1>1, <1>4, <2>2 DEF WritesFollow, ObservedIsWhole, BesideWrite
  <2>8. RowInv'
    BY <2>3, <2>4, <2>5, <2>6, <2>7 DEF RowInv
  <2> QED BY <1>1, <1>2, <1>4, <2>1, <2>8, HolderStep DEF DriverIs, LoopTypes, RootIsCreated
<1>5. ASSUME ~ChildPending, \A a \in ActsOf("child") : a.tool # "NOT_COMMITTED", ClosesChild, Goes(l, "drive")
      PROVE  LoopInv'
  <2>1. PICK q : Moves(l, q) /\ DriverIs(q, driver[l], "drive", driver[l].queue, driver[l].failed, driver[l].wave)
    BY <1>5, GoesMoves DEF DriverPlaces
  <2>2. \A n, o : Cell("child", n, o) => ~OpenTool(acts["child"][n][o]) /\ acts["child"][n][o].tool # "NOT_COMMITTED"
    BY <1>5, ChildRows DEF ChildPending
  <2>3. /\ RowInv' /\ acts' \in [Frames -> Seq(Batch)] /\ \A f \in Frames : Len(acts'[f]) = Len(acts[f])
    BY <1>1, <1>5, <2>2, ChildCloses DEF RowInv
  <2>4. frames' \in [Frames -> [phase : Phases, gen : Nat]]
    BY <1>0, <1>5 DEF ClosesChild, LoopTypes, Phases
  <2>5. delegation' = "result"
    BY <1>5 DEF ClosesChild
  <2> QED BY <1>1, <1>2, <2>1, <2>3, <2>4, <2>5, HolderStep DEF DriverIs, LoopTypes, RootIsCreated
<1> QED BY <1>1, <1>3, <1>4, <1>5 DEF CommitChild, Stands, ClosesChild

-----------------------------------------------------------------------------
(* Steps on one action row.                                                *)

\* A row that has no result gets on, as far as its batch allows.
LEMMA CellRows ==
  ASSUME LoopTypes, RowInv, NEW f, NEW n, NEW o, Cell(f, n, o), NEW row \in ActionRow, PutAction(f, n, o, row),
         UNCHANGED <<iters, frames, delegation>>,
         row.key = acts[f][n][o].key, RowIsSound(row),
         acts[f][n][o].result = "none",
         Bad(acts[f][n][o]) => Bad(row),
         row.skipped => \E p : Cell(f, n, p) /\ Bad(acts[f][n][p]),
         Underway(row) /\ ~Reading(row) =>
            Underway(acts[f][n][o]) \/ \A p : Cell(f, n, p) /\ p # o => Good(acts[f][n][p]),
         OpenTool(row) => /\ n = Len(iters[f]) /\ frames[f].phase \in {"WAIT_ACTIONS", "STOPPED"}
                          /\ ~(f = "child" /\ delegation \in {"result", "observed"}),
         iters[f][n].state # "OBSERVED"
  PROVE  RowInv' /\ SameShape
<1>1. /\ SameShape /\ acts'[f][n][o] = row
      /\ \A g, m, q : Cell(g, m, q) /\ <<g, m, q>> # <<f, n, o>> => acts'[g][m][q] = acts[g][m][q]
  BY SetCell
<1>2. \A g, m, q : Cell(g, m, q)' <=> Cell(g, m, q)
  BY <1>1, ShapeCells
<1>3. ASSUME NEW g, NEW m, NEW q, Cell(g, m, q)
      PROVE  \/ g = f /\ m = n /\ q = o /\ acts'[g][m][q] = row
             \/ ~(g = f /\ m = n /\ q = o) /\ acts'[g][m][q] = acts[g][m][q]
  BY <1>1, <1>3
<1>4. ASSUME NEW g, NEW m, NEW q, Cell(g, m, q)
      PROVE  acts'[g][m][q].key = acts[g][m][q].key
  BY <1>3, <1>4
<1>5. RowsAreSound'
  BY <1>2, <1>3 DEF RowInv, RowsAreSound
<1>6. KeysAreApart' /\ OneWrite'
  BY <1>2, <1>4 DEF RowInv, KeysAreApart, OneWrite, Reading
<1>7. WritesFollow' /\ SkipsHaveCause'
  <2>1. ASSUME NEW g, NEW m, NEW q, NEW w, BesideWrite(g, m, q, w)'
        PROVE  Underway(acts'[g][m][w]) => Good(acts'[g][m][q])
    <3>1. BesideWrite(g, m, q, w) /\ Cell(g, m, q) /\ Cell(g, m, w) /\ q # w /\ ~Reading(acts'[g][m][w])
      BY <1>2, <1>4, <2>1 DEF BesideWrite, Reading
    <3>2. Underway(acts[g][m][w]) => Good(acts[g][m][q])
      BY <3>1 DEF RowInv, WritesFollow
    <3>3. CASE g = f /\ m = n /\ q = o
      <4>1. acts'[g][m][q] = row /\ acts'[g][m][w] = acts[g][m][w]
        BY <1>3, <3>1, <3>3
      <4> QED BY <3>1, <3>2, <3>3, <4>1 DEF Good
    <3>4. CASE g = f /\ m = n /\ w = o
      <4>1. acts'[g][m][w] = row /\ acts'[g][m][q] = acts[g][m][q]
        BY <1>3, <3>1, <3>4
      <4> QED BY <3>1, <3>2, <3>4, <4>1
    <3>5. CASE ~(g = f /\ m = n /\ q = o) /\ ~(g = f /\ m = n /\ w = o)
      <4>1. acts'[g][m][w] = acts[g][m][w] /\ acts'[g][m][q] = acts[g][m][q]
        BY <1>3, <3>1, <3>5
      <4> QED BY <3>2, <4>1
    <3> QED BY <3>3, <3>4, <3>5
  <2>2. \A g, m, p : Cell(g, m, p) /\ Bad(acts[g][m][p]) => Bad(acts'[g][m][p])
    BY <1>3
  <2>3. ASSUME NEW g, NEW m, NEW q, Cell(g, m, q), acts'[g][m][q].skipped
        PROVE  \/ g = "child" /\ delegation \in {"result", "observed"}
               \/ \E p : Cell(g, m, p) /\ Bad(acts[g][m][p])
    <3>1. CASE g = f /\ m = n /\ q = o
      BY <1>3, <2>3, <3>1
    <3>2. CASE ~(g = f /\ m = n /\ q = o)
      <4>1. acts[g][m][q].skipped
        BY <1>3, <2>3, <3>2
      <4> QED BY <2>3, <4>1 DEF RowInv, SkipsHaveCause
    <3> QED BY <3>1, <3>2
  <2> QED BY <1>2, <2>1, <2>2, <2>3 DEF WritesFollow, SkipsHaveCause
<1>8. FramesAreSound'
  <2> USE DEF RowInv, FramesAreSound
  <2>0. \A g \in Frames : DOMAIN iters[g] = 1..Len(iters[g]) /\ Len(iters[g]) \in Nat
    BY Shapes
  <2>1. (\A g, m, q : Cell(g, m, q) /\ OpenTool(acts[g][m][q]) =>
           m = Len(iters[g]) /\ frames[g].phase \in {"WAIT_ACTIONS", "STOPPED"})'
    BY <1>2, <1>3
  <2>2. \A g \in Frames : \A m \in DOMAIN iters[g] : DOMAIN acts'[g][m] = DOMAIN acts[g][m]
    BY <1>1, <2>0 DEF SameShape, LoopTypes
  <2>3. "root" \in Frames
    BY DEF Frames
  <2>4. Len(iters["root"]) > 0 => Len(iters["root"]) \in DOMAIN iters["root"]
    BY <2>0, <2>3
  <2> QED BY <2>1, <2>2, <2>3, <2>4
<1>9. ObservedIsWhole' /\ ChildIsClosed'
  BY <1>2, <1>3 DEF RowInv, ObservedIsWhole, ChildIsClosed
<1> QED BY <1>1, <1>5, <1>6, <1>7, <1>8, <1>9 DEF RowInv

\* One call of a wave gets on, together with its row.
LEMMA CallGoesOn ==
  ASSUME NEW b, NEW c, NEW queue, NEW wave, NEW next, NEW failed, NEW o \in DOMAIN wave,
         DOMAIN c = DOMAIN b, DOMAIN next = DOMAIN wave,
         \A p \in DOMAIN b : p # o => c[p] = b[p], \A p \in DOMAIN wave : p # o => next[p] = wave[p],
         QueueFits(b, queue, wave), WriteWaits(b, queue, wave, failed),
         c[o].key = b[o].key, CallFits(c[o], next[o]),
         Bad(b[o]) => Bad(c[o]), Good(b[o]) => Good(c[o]),
         next[o] = "skip" => \E p \in DOMAIN b : Bad(b[p])
  PROVE  QueueFits(c, queue, next) /\ WriteWaits(c, queue, next, failed)
<1>1. o \in DOMAIN b /\ o \notin queue
  BY DEF QueueFits
<1>2. QueueFits(c, queue, next)
  BY <1>1 DEF QueueFits
<1>3. \A p \in DOMAIN b : Reading(c[p]) <=> Reading(b[p])
  BY <1>1 DEF Reading
<1>4. \A p \in DOMAIN b : (Bad(b[p]) => Bad(c[p])) /\ (Good(b[p]) => Good(c[p]))
  BY <1>1
<1>5. queue \cup DOMAIN wave \subseteq DOMAIN b
  BY DEF QueueFits
<1>6. WriteWaits(c, queue, next, failed)
  <2>1. \/ failed
        \/ \E p \in queue \cup DOMAIN next : Bad(c[p])
        \/ \A p \in DOMAIN c \ (queue \cup DOMAIN next) : Good(c[p])
    BY <1>4, <1>5 DEF WriteWaits
  <2>2. failed => \E p \in DOMAIN c : Bad(c[p])
    BY <1>4 DEF WriteWaits
  <2>3. (\E p \in DOMAIN next : next[p] = "skip") => \E p \in DOMAIN c : Bad(c[p])
    BY <1>4 DEF WriteWaits
  <2>4. \A w \in DOMAIN next : ~Reading(c[w]) => \A p \in DOMAIN c : p # w => Good(c[p])
    BY <1>3, <1>4, <1>5 DEF WriteWaits
  <2> QED BY <2>1, <2>2, <2>3, <2>4 DEF WriteWaits
<1> QED BY <1>2, <1>6

\* The holder's own batch: a row and its call get on.
LEMMA CallSteps ==
  ASSUME LoopInv, NEW l \in Lanes, Current(l), NEW o, NEW p, InThread(l, o, p),
         NEW f, NEW n, f = driver[l].frame, n = driver[l].no,
         NEW row \in ActionRow, PutAction(f, n, o, row),
         NEW e \in CallPlaces \cup CallEnds, Thread(l, o, e),
         UNCHANGED <<control, held, pinned, loopRoot, iters, frames, delegation, delivered>>,
         row.key = acts[f][n][o].key, RowIsSound(row), acts[f][n][o].result = "none", CallFits(row, e),
         Bad(acts[f][n][o]) => Bad(row),
         row.skipped \/ e = "skip" => \E x \in DOMAIN acts[f][n] : Bad(acts[f][n][x])
  PROVE  LoopInv'
<1> USE DEF LoopInv
<1>1. driver[l].pc = "batch" /\ o \in DOMAIN driver[l].wave
  BY DEF InThread, Stands
<1>2. BatchIsSound(l)
  BY <1>1 DEF DriversArePlaced
<1>3. /\ f \in Frames /\ n \in DOMAIN acts[f] /\ n = Len(iters[f]) /\ frames[f].phase = "WAIT_ACTIONS"
      /\ f = "child" => delegation = "accepted"
      /\ QueueFits(acts[f][n], driver[l].queue, driver[l].wave)
      /\ WriteWaits(acts[f][n], driver[l].queue, driver[l].wave, driver[l].failed)
  BY <1>2, SMTT(40) DEF BatchIsSound, LoopTypes, DriverRow
<1>4. Cell(f, n, o)
  BY <1>1, <1>3 DEF Cell, QueueFits
<1>5. iters[f][n].state # "OBSERVED"
  BY <1>3, SMTT(40) DEF FramesAreSound
<1>6. \A x : Cell(f, n, x) <=> x \in DOMAIN acts[f][n]
  BY <1>3 DEF Cell
<1>7. row.skipped => \E x : Cell(f, n, x) /\ Bad(acts[f][n][x])
  BY <1>6, SMTT(40)
<1>8. ~Reading(row) => \A x : Cell(f, n, x) /\ x # o => Good(acts[f][n][x])
  BY <1>1, <1>3, <1>4, <1>6 DEF WriteWaits, Reading
<1>9. RowInv' /\ SameShape
  BY <1>3, <1>4, <1>5, <1>7, <1>8, CellRows DEF RowInv
<1>10. PICK q : /\ Moves(l, q)
                /\ DriverIs(q, driver[l], "batch", driver[l].queue, driver[l].failed,
                            [driver[l].wave EXCEPT ![o] = e])
  BY <1>1, ThreadMoves
<1>11. PICK w : w = [driver[l].wave EXCEPT ![o] = e]
  OBVIOUS
<1>12. /\ DOMAIN w = DOMAIN driver[l].wave /\ w[o] = e
       /\ \A x \in DOMAIN driver[l].wave : x # o => w[x] = driver[l].wave[x]
  <2>1. driver[l].wave \in Waves
    BY SMTT(40) DEF LoopTypes, DriverRow
  <2> QED BY <1>1, <1>11, <2>1, WaveUpdate
<1>13. /\ acts'[f][n][o] = row /\ DOMAIN acts'[f][n] = DOMAIN acts[f][n] /\ DOMAIN acts'[f] = DOMAIN acts[f]
       /\ \A x \in DOMAIN acts[f][n] : x # o => acts'[f][n][x] = acts[f][n][x]
  <2>1. acts'[f][n][o] = row /\ \A x : Cell(f, n, x) /\ x # o => acts'[f][n][x] = acts[f][n][x]
    <3>1. /\ acts'[f][n][o] = row
          /\ \A g, m, x : Cell(g, m, x) /\ <<g, m, x>> # <<f, n, o>> => acts'[g][m][x] = acts[g][m][x]
      BY <1>4, SetCell, SMTT(40)
    <3> QED BY <3>1
  <2>2. acts'[f] \in Seq(Batch) /\ acts[f] \in Seq(Batch) /\ Len(acts'[f]) = Len(acts[f])
    BY <1>3, <1>9, SMTT(40) DEF SameShape, LoopTypes
  <2> HIDE DEF LoopInv
  <2>n. n \in DOMAIN acts[f] /\ f \in Frames
    BY <1>3
  <2>3. DOMAIN acts'[f] = DOMAIN acts[f] /\ n \in 1..Len(acts[f])
    <3>1. PICK s, b : s = acts'[f] /\ b = acts[f]
      OBVIOUS
    <3>2. s \in Seq(Batch) /\ b \in Seq(Batch) /\ Len(s) = Len(b) /\ n \in DOMAIN b
      BY <2>n, <2>2, <3>1
    <3>3. DOMAIN s = DOMAIN b /\ n \in 1..Len(b)
      BY <3>2, SeqDomains
    <3> QED BY <3>1, <3>3
  <2>4. DOMAIN acts'[f][n] = DOMAIN acts[f][n]
    BY <2>n, <1>9, <2>3 DEF SameShape
  <2>5. \A x \in DOMAIN acts[f][n] : x # o => acts'[f][n][x] = acts[f][n][x]
    BY <1>6, <2>1
  <2> QED BY <2>1, <2>3, <2>4, <2>5
<1>14. /\ QueueFits(acts'[f][n], driver[l].queue, w)
       /\ WriteWaits(acts'[f][n], driver[l].queue, w, driver[l].failed)
  <2> HIDE DEF LoopInv
  <2>1. PICK b, c, wave, queue, failed : /\ b = acts[f][n] /\ c = acts'[f][n] /\ wave = driver[l].wave
                                         /\ queue = driver[l].queue /\ failed = driver[l].failed
    OBVIOUS
  <2>2. /\ o \in DOMAIN wave /\ DOMAIN c = DOMAIN b /\ DOMAIN w = DOMAIN wave
        /\ \A x \in DOMAIN b : x # o => c[x] = b[x]
        /\ \A x \in DOMAIN wave : x # o => w[x] = wave[x]
    BY <1>1, <1>12, <1>13, <2>1, ZenonT(40)
  <2>3. QueueFits(b, queue, wave) /\ WriteWaits(b, queue, wave, failed)
    BY <1>3, <2>1, ZenonT(40)
  <2>4. c[o].key = b[o].key /\ CallFits(c[o], w[o])
        /\ (Bad(b[o]) => Bad(c[o])) /\ (Good(b[o]) => Good(c[o]))
        /\ (w[o] = "skip" => \E x \in DOMAIN b : Bad(b[x]))
    <3>1. ~Good(acts[f][n][o])
      BY DEF Good
    <3> QED BY <1>12, <1>13, <2>1, <3>1, ZenonT(40)
  <2>5. QueueFits(c, queue, w) /\ WriteWaits(c, queue, w, failed)
    BY <2>2, <2>3, <2>4, CallGoesOn
  <2> QED BY <2>1, <2>5
<1>15. driver'[l] = q
  BY <1>10, MovesFacts
<1>16. BatchIsSound(l)'
  <2> HIDE DEF LoopInv
  <2>1. /\ driver'[l].frame = f /\ driver'[l].no = n /\ driver'[l].queue = driver[l].queue
        /\ driver'[l].failed = driver[l].failed /\ driver'[l].wave = w
    BY <1>10, <1>11, <1>15 DEF DriverIs
  <2>2. n \in DOMAIN acts'[f] /\ iters' = iters /\ frames' = frames /\ delegation' = delegation
    BY <1>3, <1>13, ZenonT(40)
  <2> QED BY <1>3, <1>14, <2>1, <2>2, ZenonT(60) DEF BatchIsSound
<1>17. TokensAreApart' /\ NobodyGains
  BY ControlStill DEF controlVars
<1>18. DriversArePlaced'
  BY <1>10, <1>16, <1>17, HolderMoves DEF DriverIs
<1>19. FinalIsOnce'
  BY <1>10, FinalStays DEF FinalIsOnce, DriverIs
<1>20. LoopTypes'
  BY <1>9, <1>10, MovesFacts DEF LoopTypes, SameShape
<1> QED BY <1>9, <1>17, <1>18, <1>19, <1>20 DEF RowInv, RootIsCreated

\* The call of a holder is about a row of its batch.
LEMMA HolderRow ==
  ASSUME LoopInv, NEW l \in Lanes, Current(l), NEW o, NEW p, InThread(l, o, p)
  PROVE  /\ Cell(driver[l].frame, driver[l].no, o) /\ Row(l, o) \in ActionRow
         /\ Row(l, o) = acts[driver[l].frame][driver[l].no][o] /\ RowIsSound(Row(l, o))
         /\ CallFits(Row(l, o), p) /\ o \in DOMAIN driver[l].wave
         /\ p = "skip" => \E x \in DOMAIN BatchOf(l) : Bad(Row(l, x))
         /\ ~Reading(Row(l, o)) => \A x \in DOMAIN BatchOf(l) : x # o => Good(Row(l, x))
<1> USE DEF LoopInv
<1>1. /\ driver[l].pc = "batch" /\ o \in DOMAIN driver[l].wave /\ driver[l].wave[o] = p
      /\ Row(l, o) = acts[driver[l].frame][driver[l].no][o]
      /\ BatchOf(l) = acts[driver[l].frame][driver[l].no]
      /\ \A x : Row(l, x) = acts[driver[l].frame][driver[l].no][x]
  BY DEF InThread, Stands, Row, BatchOf, BatchFrame
<1>2. BatchIsSound(l)
  BY <1>1, SMTT(40) DEF DriversArePlaced
<1>3. Cell(driver[l].frame, driver[l].no, o) /\ CallFits(Row(l, o), p)
  BY <1>1, <1>2 DEF BatchIsSound, QueueFits, Cell, LoopTypes, DriverRow
<1>4. Row(l, o) \in ActionRow /\ RowIsSound(Row(l, o))
  BY <1>1, <1>3, Cells DEF RowsAreSound
<1>5. o \in DOMAIN BatchOf(l)
  BY <1>1, <1>3, SMTT(40) DEF Cell
<1>6. p = "skip" => \E x \in DOMAIN BatchOf(l) : Bad(Row(l, x))
  BY <1>1, <1>2, <1>5 DEF BatchIsSound, WriteWaits
<1>7. ~Reading(Row(l, o)) => \A x \in DOMAIN BatchOf(l) : x # o => Good(Row(l, x))
  BY <1>1, <1>2, <1>5 DEF BatchIsSound, WriteWaits
<1> QED BY <1>1, <1>3, <1>4, <1>6, <1>7

\* A call moves on without touching its row.
LEMMA CallMoves ==
  ASSUME LoopInv, NEW l \in Lanes, NEW o, NEW p, InThread(l, o, p),
         NEW e \in CallPlaces \cup CallEnds, Thread(l, o, e),
         UNCHANGED <<control, held, pinned, loopRoot, iters, frames, acts, delegation, delivered>>,
         Current(l) => CallFits(Row(l, o), e),
         Current(l) /\ e = "skip" => \E x \in DOMAIN BatchOf(l) : Bad(Row(l, x))
  PROVE  LoopInv'
<1> USE DEF LoopInv
<1>1. driver[l].pc = "batch" /\ o \in DOMAIN driver[l].wave
  BY DEF InThread, Stands
<1>2. PICK q : /\ Moves(l, q)
               /\ DriverIs(q, driver[l], "batch", driver[l].queue, driver[l].failed,
                           [driver[l].wave EXCEPT ![o] = e])
  BY <1>1, ThreadMoves
<1>3. PICK f, n, w, b, wave, queue, failed :
         /\ f = driver[l].frame /\ n = driver[l].no /\ w = [driver[l].wave EXCEPT ![o] = e]
         /\ b = acts[f][n] /\ wave = driver[l].wave /\ queue = driver[l].queue /\ failed = driver[l].failed
  OBVIOUS
<1>4. ASSUME Current(l) PROVE BatchIsSound(l)'
  <2>1. BatchIsSound(l)
    BY <1>1, <1>4 DEF DriversArePlaced
  <2>2. /\ n \in DOMAIN acts[f] /\ n = Len(iters[f]) /\ frames[f].phase = "WAIT_ACTIONS"
        /\ f = "child" => delegation = "accepted"
        /\ QueueFits(b, queue, wave) /\ WriteWaits(b, queue, wave, failed)
    BY <1>3, <2>1 DEF BatchIsSound
  <2>3. /\ DOMAIN w = DOMAIN wave /\ w[o] = e /\ o \in DOMAIN wave
        /\ \A x \in DOMAIN wave : x # o => w[x] = wave[x]
    <3>1. driver[l].wave \in Waves
      BY DEF LoopTypes, DriverRow
    <3> QED BY <1>1, <1>3, <3>1, WaveUpdate
  <2>4. CallFits(b[o], w[o]) /\ (w[o] = "skip" => \E x \in DOMAIN b : Bad(b[x]))
    BY <1>3, <1>4, <2>3 DEF Row, BatchOf, BatchFrame
  <2>5. QueueFits(b, queue, w) /\ WriteWaits(b, queue, w, failed)
    BY <2>2, <2>3, <2>4, CallGoesOn
  <2>6. driver'[l] = q
    BY <1>2, MovesFacts
  <2> QED BY <1>2, <1>3, <2>2, <2>5, <2>6 DEF BatchIsSound, DriverIs
<1>5. Current(l)' => Current(l)
  BY DEF Current, Live
<1> QED BY <1>2, <1>4, <1>5, ReadStep DEF DriverIs, loopRows, controlVars

LEMMA CallCancelledSteps ==
  ASSUME LoopInv, NEW l \in Lanes, NEW o, CallCancelled(l, o)
  PROVE  LoopInv'
<1>1. PICK p : InThread(l, o, p)
  BY DEF CallCancelled
<1> QED BY <1>1, CallMoves DEF CallCancelled, CallFits, CallPlaces, CallEnds, loopRows

LEMMA PrepareSteps ==
  ASSUME LoopInv, NEW l \in Lanes, NEW o, PrepareTool(l, o)
  PROVE  LoopInv'
<1>1. Current(l) /\ InThread(l, o, "prepare")
      /\ UNCHANGED <<control, held, pinned, loopRoot, frames, iters, delegation, delivered>>
  BY DEF PrepareTool, LocksToAct, Locks
<1>f. PICK f, n, a : f = driver[l].frame /\ n = driver[l].no /\ a = acts[f][n][o]
  OBVIOUS
<1>2. /\ Cell(f, n, o) /\ Row(l, o) = a /\ a \in ActionRow /\ RowIsSound(a) /\ CallFits(a, "prepare")
  BY <1>1, <1>f, HolderRow
<1>3. a.result = "none" /\ ~a.skipped /\ ~OpenTool(a)
  BY <1>2, SMTT(40) DEF CallFits, CallPlaces
<1>4. CASE /\ a.tool \in {"none", "PREPARED"}
           /\ SetRow(l, o, [a EXCEPT !.tool = "PREPARED"]) /\ Thread(l, o, "start")
  <2>1. PICK row : row = [a EXCEPT !.tool = "PREPARED"]
    OBVIOUS
  <2>2. /\ row \in ActionRow /\ row.key = a.key /\ RowIsSound(row) /\ CallFits(row, "start") /\ ~row.skipped
        /\ ~Bad(a)
    BY <1>2, <1>3, <1>4, <2>1 DEF ActionRow, RowIsSound, CallFits, Underway, Reading, CallPlaces, Bad
  <2>3. PutAction(f, n, o, row)
    BY <1>4, <1>f, <2>1 DEF PutAction, SetRow, BatchFrame
  <2> QED BY <1>1, <1>3, <1>4, <1>f, <2>2, <2>3, CallSteps DEF CallPlaces
<1>5. CASE /\ a.tool \notin {"none", "PREPARED"} /\ UNCHANGED acts
           /\ Thread(l, o, IF a.tool = "COMMITTED" THEN "record" ELSE "errored")
  <2>1. CallFits(a, "record") \/ a.tool # "COMMITTED"
    BY <1>3 DEF CallFits
  <2>2. CallFits(a, "errored")
    BY DEF CallFits, CallPlaces
  <2> QED BY <1>1, <1>2, <1>5, <2>1, <2>2, CallMoves DEF CallPlaces, CallEnds
<1> QED BY <1>2, <1>4, <1>5 DEF PrepareTool

LEMMA StartSteps ==
  ASSUME LoopInv, NEW l \in Lanes, NEW o, StartTool(l, o)
  PROVE  LoopInv'
<1>1. Current(l) /\ InThread(l, o, "start")
      /\ UNCHANGED <<control, held, pinned, loopRoot, frames, iters, delegation, delivered>>
  BY DEF StartTool, LocksToAct, Locks
<1>f. PICK f, n, a : f = driver[l].frame /\ n = driver[l].no /\ a = acts[f][n][o]
  OBVIOUS
<1>2. /\ Cell(f, n, o) /\ Row(l, o) = a /\ a \in ActionRow /\ RowIsSound(a) /\ CallFits(a, "start")
      /\ ~Reading(a) => \A x \in DOMAIN BatchOf(l) : x # o => Good(Row(l, x))
  BY <1>1, <1>f, HolderRow
<1>3. a.result = "none" /\ ~a.skipped /\ a.tool = "PREPARED"
  BY <1>2 DEF CallFits, CallPlaces
<1>4. ASSUME NEW e \in {"suspended", "limited"}, Thread(l, o, e), UNCHANGED acts PROVE LoopInv'
  <2>1. CallFits(a, e)
    BY DEF CallFits, CallPlaces
  <2> QED BY <1>1, <1>2, <1>4, <2>1, CallMoves DEF CallEnds
<1>5. ASSUME Thread(l, o, "skip"), UNCHANGED acts, \E s \in Siblings(l, o) : Failed(s) PROVE LoopInv'
  <2>1. CallFits(a, "skip")
    BY <1>3 DEF CallFits
  <2>2. PICK s \in DOMAIN BatchOf(l) \ {o} : Failed(Row(l, s))
    BY <1>5 DEF Siblings
  <2>3. Bad(Row(l, s))
    <3>1. BatchOf(l) = acts[f][n] /\ Row(l, s) = acts[f][n][s]
      BY <1>f DEF BatchOf, BatchFrame, Row
    <3>2. Cell(f, n, s)
      BY <1>2, <2>2, <3>1 DEF Cell
    <3>3. acts[f][n][s] \in ActionRow /\ RowIsSound(acts[f][n][s])
      BY <3>2, Cells, SMTT(40) DEF LoopInv, RowsAreSound
    <3> QED BY <2>2, <3>1, <3>3 DEF Failed, Bad, RowIsSound, ActionRow
  <2> QED BY <1>1, <1>2, <1>5, <2>1, <2>2, <2>3, CallMoves DEF CallPlaces
<1>6. ASSUME SetRow(l, o, [a EXCEPT !.tool = "STARTED"]), Thread(l, o, "calling") PROVE LoopInv'
  <2>1. PICK row : row = [a EXCEPT !.tool = "STARTED"]
    OBVIOUS
  <2>2. /\ row \in ActionRow /\ row.key = a.key /\ RowIsSound(row) /\ CallFits(row, "calling") /\ ~row.skipped
        /\ ~Bad(a)
    BY <1>2, <1>3, <2>1 DEF ActionRow, RowIsSound, CallFits, Underway, Reading, CallPlaces, Bad
  <2>3. PutAction(f, n, o, row)
    BY <1>6, <1>f, <2>1 DEF PutAction, SetRow, BatchFrame
  <2> QED BY <1>1, <1>3, <1>6, <1>f, <2>2, <2>3, CallSteps DEF CallPlaces
<1> QED BY <1>2, <1>4, <1>5, <1>6 DEF StartTool

LEMMA ReturnsSteps ==
  ASSUME LoopInv, NEW l \in Lanes, NEW o, ToolReturns(l, o)
  PROVE  LoopInv'
<1>1. InThread(l, o, "calling")
      /\ UNCHANGED <<control, held, pinned, loopRoot, frames, iters, delegation, delivered>>
  BY DEF ToolReturns
<1>f. PICK f, n, a : f = driver[l].frame /\ n = driver[l].no /\ a = acts[f][n][o]
  OBVIOUS
<1>2. ASSUME Current(l)
      PROVE  /\ Cell(f, n, o) /\ Row(l, o) = a /\ a \in ActionRow /\ RowIsSound(a)
             /\ a.result = "none" /\ ~a.skipped /\ a.tool = "STARTED" /\ ~Bad(a)
  <2>1. /\ Cell(f, n, o) /\ Row(l, o) = a /\ a \in ActionRow /\ RowIsSound(a) /\ CallFits(a, "calling")
    BY <1>1, <1>2, <1>f, HolderRow, SMTT(40)
  <2> QED BY <2>1 DEF CallFits, CallPlaces, Bad
<1>3. ASSUME Current(l), NEW ok \in BOOLEAN, SetRow(l, o, [Row(l, o) EXCEPT !.tool = "COMMITTED", !.ok = ok]),
             Thread(l, o, "record")
      PROVE  LoopInv'
  <2>1. PICK b : b = [a EXCEPT !.tool = "COMMITTED"]
    OBVIOUS
  <2>2. PICK row : row = [b EXCEPT !.ok = ok]
    OBVIOUS
  <2>3. /\ b \in ActionRow /\ b.key = a.key /\ b.result = "none" /\ ~b.skipped /\ b.tool = "COMMITTED" /\ b.acted = a.acted
    BY <1>2, <1>3, <2>1 DEF ActionRow
  <2>4. /\ row \in ActionRow /\ row.key = a.key /\ row.result = "none" /\ ~row.skipped /\ row.tool = "COMMITTED"
        /\ row.acted = a.acted
    BY <2>2, <2>3 DEF ActionRow
  <2>5. RowIsSound(row) /\ CallFits(row, "record")
    BY <1>2, <1>3, <2>4 DEF RowIsSound, CallFits, Underway, Reading
  <2>6. PutAction(f, n, o, row)
    <3>1. acts' = [acts EXCEPT ![f][n][o] = [a EXCEPT !.tool = "COMMITTED", !.ok = ok]]
      BY <1>2, <1>3, <1>f DEF SetRow, BatchFrame
    <3>2. [a EXCEPT !.tool = "COMMITTED", !.ok = ok] = row
      BY <2>1, <2>2
    <3> QED BY <3>1, <3>2 DEF PutAction
  <2> QED BY <1>1, <1>2, <1>3, <1>f, <2>4, <2>5, <2>6, CallSteps DEF CallPlaces
<1>4. ASSUME Current(l), SetRow(l, o, [Row(l, o) EXCEPT !.tool = "UNKNOWN"]), Thread(l, o, "suspended")
      PROVE  LoopInv'
  <2>1. PICK row : row = [a EXCEPT !.tool = "UNKNOWN"]
    OBVIOUS
  <2>2. row \in ActionRow /\ row.key = a.key /\ RowIsSound(row) /\ CallFits(row, "suspended") /\ ~row.skipped
    BY <1>2, <1>4, <2>1 DEF ActionRow, RowIsSound, CallFits, Underway, Reading, CallPlaces
  <2>3. PutAction(f, n, o, row)
    BY <1>2, <1>4, <1>f, <2>1 DEF PutAction, SetRow, BatchFrame
  <2> QED BY <1>1, <1>2, <1>4, <1>f, <2>2, <2>3, CallSteps DEF CallEnds
<1>5. ASSUME ~Current(l), Thread(l, o, "suspended"), UNCHANGED acts PROVE LoopInv'
  BY <1>1, <1>5, CallMoves DEF CallEnds
<1> QED BY <1>3, <1>4, <1>5 DEF ToolReturns

LEMMA RecordSteps ==
  ASSUME LoopInv, NEW l \in Lanes, NEW o, RecordAction(l, o)
  PROVE  LoopInv'
<1>1. Current(l)
      /\ UNCHANGED <<control, held, pinned, loopRoot, frames, iters, delegation, delivered>>
  BY DEF RecordAction, LocksToAct, Locks
<1>f. PICK f, n, a : f = driver[l].frame /\ n = driver[l].no /\ a = acts[f][n][o]
  OBVIOUS
<1>2. ASSUME InThread(l, o, "record"),
             SetRow(l, o, [Row(l, o) EXCEPT !.result = IF Row(l, o).ok THEN "SUCCEEDED" ELSE "FAILED"]),
             Thread(l, o, IF InThread(l, o, "record") /\ Row(l, o).ok THEN "done" ELSE "doneFailed")
      PROVE  LoopInv'
  <2>1. /\ Cell(f, n, o) /\ Row(l, o) = a /\ a \in ActionRow /\ RowIsSound(a) /\ CallFits(a, "record")
    BY <1>1, <1>2, <1>f, HolderRow
  <2>2. a.result = "none" /\ ~a.skipped /\ a.tool = "COMMITTED"
    BY <2>1 DEF CallFits, CallPlaces
  <2>3. PICK r : r = IF a.ok THEN "SUCCEEDED" ELSE "FAILED"
    OBVIOUS
  <2>4. PICK e : e = IF a.ok THEN "done" ELSE "doneFailed"
    OBVIOUS
  <2>5. PICK row : row = [a EXCEPT !.result = r]
    OBVIOUS
  <2>6. row \in ActionRow /\ row.key = a.key /\ ~row.skipped /\ row.tool = "COMMITTED" /\ row.ok = a.ok /\ row.result = r
        /\ row.acted = a.acted
    BY <2>1, <2>2, <2>3, <2>5 DEF ActionRow
  <2>7. RowIsSound(row) /\ CallFits(row, e) /\ e \in CallEnds /\ e # "skip"
    BY <2>1, <2>2, <2>3, <2>4, <2>6 DEF RowIsSound, CallFits, Underway, Reading, CallPlaces, CallEnds, Good, ActionRow
  <2>8. PutAction(f, n, o, row) /\ (Bad(a) => Bad(row))
    BY <1>2, <1>f, <2>1, <2>3, <2>5, <2>6 DEF PutAction, SetRow, BatchFrame, Bad
  <2>9. Thread(l, o, e)
    BY <1>2, <2>1, <2>4
  <2> QED BY <1>1, <1>2, <1>f, <2>2, <2>6, <2>7, <2>8, <2>9, CallSteps
<1>3. ASSUME InThread(l, o, "skip"), ~InThread(l, o, "record"),
             SetRow(l, o, [Row(l, o) EXCEPT !.skipped = TRUE]),
             Thread(l, o, IF InThread(l, o, "record") /\ Row(l, o).ok THEN "done" ELSE "doneFailed")
      PROVE  LoopInv'
  <2>1. /\ Cell(f, n, o) /\ Row(l, o) = a /\ a \in ActionRow /\ RowIsSound(a) /\ CallFits(a, "skip")
        /\ \E x \in DOMAIN BatchOf(l) : Bad(Row(l, x))
    BY <1>1, <1>3, <1>f, HolderRow
  <2>2. a.result = "none" /\ ~a.skipped /\ a.tool = "PREPARED" /\ ~Bad(a)
    BY <2>1 DEF CallFits, CallPlaces, Bad
  <2>3. PICK row : row = [a EXCEPT !.skipped = TRUE]
    OBVIOUS
  <2>4. row \in ActionRow /\ row.key = a.key /\ RowIsSound(row) /\ CallFits(row, "doneFailed")
    BY <2>1, <2>2, <2>3 DEF ActionRow, RowIsSound, CallFits, Underway, Reading, CallPlaces
  <2>5. PutAction(f, n, o, row)
    BY <1>3, <1>f, <2>1, <2>3 DEF PutAction, SetRow, BatchFrame
  <2>6. Thread(l, o, "doneFailed")
    BY <1>3
  <2>7. \E x \in DOMAIN acts[f][n] : Bad(acts[f][n][x])
    BY <1>f, <2>1 DEF BatchOf, BatchFrame, Row
  <2> QED BY <1>1, <1>3, <1>f, <2>2, <2>4, <2>5, <2>6, <2>7, CallSteps DEF CallEnds
<1>4. InThread(l, o, "skip") => ~InThread(l, o, "record")
  BY DEF InThread
<1> QED BY <1>2, <1>3, <1>4 DEF RecordAction

-----------------------------------------------------------------------------
(* Approvals, providers and the surroundings.                              *)

\* A row keeps its fate.
LEMMA FateOf ==
  ASSUME LoopTypes, RowsAreSound, NEW f, NEW n, NEW o, Cell(f, n, o), NEW row \in ActionRow,
         PutAction(f, n, o, row), SameFate(acts[f][n][o], row), RowIsSound(row)
  PROVE  FatesStay
<1>1. /\ SameShape /\ acts'[f][n][o] = row
      /\ \A g, m, q : Cell(g, m, q) /\ <<g, m, q>> # <<f, n, o>> => acts'[g][m][q] = acts[g][m][q]
  BY SetCell
<1>2. ASSUME NEW g, NEW m, NEW q, Cell(g, m, q)
      PROVE  SameFate(acts[g][m][q], acts'[g][m][q]) /\ RowIsSound(acts'[g][m][q])
  <2>1. CASE g = f /\ m = n /\ q = o
    BY <1>1, <2>1
  <2>2. CASE ~(g = f /\ m = n /\ q = o)
    <3>1. acts'[g][m][q] = acts[g][m][q]
      BY <1>1, <1>2, <2>2
    <3> QED BY <1>2, <3>1 DEF SameFate, RowsAreSound
  <2> QED BY <2>1, <2>2
<1> QED BY <1>1, <1>2 DEF FatesStay

\* A row that is not there is not written.
LEMMA PutNothing ==
  ASSUME LoopTypes, NEW f \in Frames, NEW n, NEW o, ~Cell(f, n, o), NEW row, PutAction(f, n, o, row)
  PROVE  acts' = acts
<1>1. acts \in [Frames -> Seq(Batch)] /\ acts[f] \in Seq(Batch)
  BY DEF LoopTypes
<1>2. acts' = [acts EXCEPT ![f] = [acts[f] EXCEPT ![n] = [acts[f][n] EXCEPT ![o] = row]]]
  BY DEF PutAction
<1>3. [acts[f] EXCEPT ![n] = [acts[f][n] EXCEPT ![o] = row]] = acts[f]
  <2>1. CASE n \notin DOMAIN acts[f]
    BY <1>1, <2>1
  <2>2. CASE n \in DOMAIN acts[f]
    <3>1. acts[f][n] \in Batch /\ o \notin DOMAIN acts[f][n]
      BY <1>1, <2>2 DEF Cell
    <3>2. acts[f][n] \in [DOMAIN acts[f][n] -> ActionRow]
      BY <3>1, BatchParts
    <3>3. [acts[f][n] EXCEPT ![o] = row] = acts[f][n]
      BY <3>1, <3>2
    <3> QED BY <1>1, <2>2, <3>3
  <2> QED BY <2>1, <2>2
<1> QED BY <1>1, <1>2, <1>3

LEMMA AwaitSteps ==
  ASSUME LoopInv, NEW l \in Lanes, NEW o, AwaitApproval(l, o)
  PROVE  LoopInv'
<1>1. InThread(l, o, "approve")
      /\ UNCHANGED <<control, held, pinned, loopRoot, frames, iters, delegation, delivered>>
  BY DEF AwaitApproval
<1>f. PICK f, n, a : f = driver[l].frame /\ n = driver[l].no /\ a = acts[f][n][o]
  OBVIOUS
<1>2. Row(l, o) = a
  BY <1>f DEF Row, BatchOf, BatchFrame
<1>3. ASSUME SetRow(l, o, [a EXCEPT !.approval = "PENDING"]), Thread(l, o, "suspended") PROVE LoopInv'
  <2>1. PICK row : row = [a EXCEPT !.approval = "PENDING"]
    OBVIOUS
  <2>2. PutAction(f, n, o, row)
    BY <1>3, <1>f, <2>1 DEF PutAction, SetRow, BatchFrame
  <2>3. ASSUME a \in ActionRow, RowIsSound(a)
        PROVE  row \in ActionRow /\ SameFate(a, row) /\ RowIsSound(row)
    BY <2>1, <2>3, SMTT(40) DEF ActionRow, SameFate, RowIsSound, Reading, Underway
  <2>4. CASE Current(l)
    <3>1. a \in ActionRow /\ RowIsSound(a) /\ CallFits(a, "approve")
      BY <1>1, <1>2, <1>f, <2>4, HolderRow
    <3>2. a.result = "none" /\ ~a.skipped
      BY <3>1 DEF CallFits, CallPlaces
    <3>3. row.key = a.key /\ CallFits(row, "suspended") /\ ~row.skipped /\ (Bad(a) => Bad(row))
      BY <2>3, <3>1, <3>2 DEF SameFate, CallFits, CallPlaces, Bad
    <3> QED BY <1>1, <1>3, <1>f, <2>2, <2>3, <2>4, <3>1, <3>2, <3>3, CallSteps DEF CallEnds
  <2>5. CASE ~Current(l)
    <3> USE DEF LoopInv
    <3>1. FatesStay
      <4>1. CASE Cell(f, n, o)
        <5>1. a \in ActionRow /\ RowIsSound(a)
          BY <1>f, <4>1, Cells DEF RowsAreSound
        <5> QED BY <1>f, <2>2, <2>3, <4>1, <5>1, FateOf
      <4>2. CASE ~Cell(f, n, o)
        <5>1. f \in Frames
          BY <1>f DEF LoopTypes, DriverRow
        <5>2. acts' = acts
          BY <2>2, <4>2, <5>1, PutNothing
        <5> QED BY <5>2, UnchangedFates
      <4> QED BY <4>1, <4>2
    <3>2. driver[l].pc = "batch" /\ o \in DOMAIN driver[l].wave
      BY <1>1 DEF InThread, Stands
    <3>3. PICK q : /\ Moves(l, q)
                   /\ DriverIs(q, driver[l], "batch", driver[l].queue, driver[l].failed,
                               [driver[l].wave EXCEPT ![o] = "suspended"])
      BY <1>3, <3>2, ThreadMoves DEF CallEnds
    <3>4. TokensAreApart' /\ NobodyGains
      BY <1>1, ControlStill DEF controlVars
    <3>5. ~Current(l)'
      BY <2>5, <3>4 DEF NobodyGains
    <3>6. DriversArePlaced'
      BY <1>1, <3>1, <3>3, <3>4, <3>5, LaneMoves DEF DriverIs
    <3>7. FinalIsOnce'
      BY <1>1, <3>3, FinalStays DEF FinalIsOnce, DriverIs
    <3> QED BY <1>1, <3>1, <3>3, <3>4, <3>6, <3>7, QuietStep, MovesFacts DEF LoopTypes
  <2> QED BY <2>4, <2>5
<1>4. ASSUME NEW e \in {"suspended", "prepare", "errored", "cancelled"}, Thread(l, o, e), UNCHANGED acts
      PROVE  LoopInv'
  <2>1. ASSUME Current(l) PROVE CallFits(a, e)
    <3>1. CallFits(a, "approve")
      BY <1>1, <1>2, <2>1, HolderRow
    <3> QED BY <3>1 DEF CallFits, CallPlaces
  <2> QED BY <1>1, <1>2, <1>4, <2>1, CallMoves DEF CallPlaces, CallEnds
<1>5. CASE SetRow(l, o, [Row(l, o) EXCEPT !.approval = "PENDING"]) /\ Thread(l, o, "suspended")
  BY <1>2, <1>3, <1>5
<1>6. CASE /\ UNCHANGED acts
           /\ Thread(l, o, IF Row(l, o).approval = "PENDING" THEN "suspended"
                           ELSE IF Row(l, o).approval = "APPROVED" THEN "prepare"
                           ELSE IF Row(l, o).approval = "REJECTED" THEN "errored" ELSE "cancelled")
  <2>1. PICK e : e = IF Row(l, o).approval = "PENDING" THEN "suspended"
                     ELSE IF Row(l, o).approval = "APPROVED" THEN "prepare"
                     ELSE IF Row(l, o).approval = "REJECTED" THEN "errored" ELSE "cancelled"
    OBVIOUS
  <2> QED BY <1>4, <1>6, <2>1
<1> QED BY <1>5, <1>6 DEF AwaitApproval

LEMMA ActionCells ==
  ASSUME LoopTypes
  PROVE  /\ \A i \in ActionIds : i = <<i[1], i[2], i[3]>> /\ Cell(i[1], i[2], i[3]) /\ Act(i) = acts[i[1]][i[2]][i[3]]
         /\ \A f, n, o : Cell(f, n, o) => <<f, n, o>> \in ActionIds
<1>1. \A f \in Frames : DOMAIN iters[f] = DOMAIN acts[f]
  BY Shapes
<1>2. ASSUME NEW i \in ActionIds
      PROVE  i = <<i[1], i[2], i[3]>> /\ Cell(i[1], i[2], i[3]) /\ Act(i) = acts[i[1]][i[2]][i[3]]
  <2>1. PICK k \in Iterations : i \in {<<k[1], k[2], o>> : o \in DOMAIN acts[k[1]][k[2]]}
    BY DEF ActionIds
  <2>2. PICK o \in DOMAIN acts[k[1]][k[2]] : i = <<k[1], k[2], o>>
    BY <2>1
  <2>3. PICK f \in Frames : k \in {<<f, n>> : n \in DOMAIN iters[f]}
    BY <2>1 DEF Iterations
  <2>4. PICK n \in DOMAIN iters[f] : k = <<f, n>>
    BY <2>3
  <2>5. i = <<f, n, o>> /\ o \in DOMAIN acts[f][n]
    BY <2>2, <2>4
  <2> QED BY <1>1, <2>3, <2>4, <2>5 DEF Cell, Act
<1>3. ASSUME NEW f, NEW n, NEW o, Cell(f, n, o) PROVE <<f, n, o>> \in ActionIds
  <2>1. f \in Frames /\ n \in DOMAIN iters[f] /\ o \in DOMAIN acts[f][n]
    BY <1>1, <1>3 DEF Cell
  <2>2. PICK k : k = <<f, n>>
    OBVIOUS
  <2>3. k \in Iterations /\ k[1] = f /\ k[2] = n
    BY <2>1, <2>2 DEF Iterations
  <2>4. <<f, n, o>> \in {<<k[1], k[2], x>> : x \in DOMAIN acts[k[1]][k[2]]}
    BY <2>1, <2>3
  <2> QED BY <2>3, <2>4 DEF ActionIds
<1> QED BY <1>2, <1>3

LEMMA FateSteps ==
  ASSUME LoopInv, FatesStay, UNCHANGED controlVars \/ LeaseRunsDown,
         UNCHANGED <<pinned, loopRoot, frames, iters, delegation, delivered, driver>>
  PROVE  LoopInv'
<1> USE DEF LoopInv
<1>1. TokensAreApart' /\ NobodyGains
  BY ControlStill
<1>2. DriversArePlaced'
  BY <1>1, NobodyMoves
<1>3. FinalIsOnce'
  BY DEF FinalIsOnce
<1> QED BY <1>1, <1>2, <1>3, QuietStep DEF LoopTypes

LEMMA TickSteps ==
  ASSUME LoopInv, LoopTick
  PROVE  LoopInv'
<1>1. FatesStay
  BY UnchangedFates DEF LoopInv, LoopTick, loopRows
<1> QED BY <1>1, FateSteps DEF LoopTick, loopRows

LEMMA WriteActsSteps ==
  ASSUME LoopInv, NEW i \in ActionIds, WriteActs(i)
  PROVE  LoopInv'
<1> USE DEF LoopInv
<1>f. PICK f, n, o, a : f = i[1] /\ n = i[2] /\ o = i[3] /\ a = acts[f][n][o]
  OBVIOUS
<1>1. Cell(f, n, o) /\ Act(i) = a /\ a \in ActionRow /\ RowIsSound(a)
  BY <1>f, ActionCells, Cells DEF RowsAreSound
<1>2. PICK row : row = [a EXCEPT !.acted = TRUE]
  OBVIOUS
<1>3. row \in ActionRow /\ SameFate(a, row) /\ RowIsSound(row)
  <2>1. ~Reading(a) /\ Underway(a)
    BY <1>1 DEF WriteActs, OpenTool, Underway
  <2> QED BY <1>1, <1>2, <2>1 DEF ActionRow, SameFate, RowIsSound, Reading, Underway
<1>4. PutAction(f, n, o, row)
  BY <1>1, <1>2, <1>f DEF WriteActs, PutAction, Cell, LoopTypes
<1>5. FatesStay
  BY <1>1, <1>3, <1>4, <1>f, FateOf
<1> QED BY <1>5, FateSteps DEF WriteActs, controlVars

LEMMA DecideSteps ==
  ASSUME LoopInv, NEW i \in ActionIds, DecideAction(i)
  PROVE  LoopInv'
<1> USE DEF LoopInv
<1>f. PICK f, n, o, a : f = i[1] /\ n = i[2] /\ o = i[3] /\ a = acts[f][n][o]
  OBVIOUS
<1>1. Cell(f, n, o) /\ a \in ActionRow /\ RowIsSound(a)
  BY <1>f, ActionCells, Cells, SMTT(40) DEF RowsAreSound
<1>2. PICK d \in {"APPROVED", "REJECTED"} : acts' = [acts EXCEPT ![f][n][o].approval = d]
  BY <1>f DEF DecideAction
<1>3. PICK row : row = [a EXCEPT !.approval = d]
  OBVIOUS
<1>4. row \in ActionRow /\ SameFate(a, row) /\ RowIsSound(row)
  BY <1>1, <1>3 DEF ActionRow, SameFate, RowIsSound, Reading, Underway
<1>5. PutAction(f, n, o, row)
  BY <1>1, <1>2, <1>3, <1>f DEF PutAction, Cell, LoopTypes
<1>6. FatesStay
  BY <1>1, <1>4, <1>5, <1>f, FateOf
<1> QED BY <1>6, FateSteps DEF DecideAction, controlVars

LEMMA ReconcileSteps ==
  ASSUME LoopInv, NEW i \in ActionIds, ReconcileAction(i)
  PROVE  LoopInv'
<1> USE DEF LoopInv
<1>f. PICK f, n, o, a : f = i[1] /\ n = i[2] /\ o = i[3] /\ a = acts[f][n][o]
  OBVIOUS
<1>1. Cell(f, n, o) /\ Act(i) = a /\ a \in ActionRow /\ RowIsSound(a)
  BY <1>f, ActionCells, Cells DEF RowsAreSound
<1>2. OpenTool(a) /\ Underway(a) /\ a.result = "none" /\ ~a.skipped /\ ~Live /\ ~Bad(a)
  BY <1>1, SMTT(40) DEF ReconcileAction, OpenTool, Underway, RowIsSound, Bad
<1>3. PICK t \in {"COMMITTED", "NOT_COMMITTED"} :
        acts' = [acts EXCEPT ![f][n][o].tool = t, ![f][n][o].ok = (t = "COMMITTED")]
  BY <1>f DEF ReconcileAction
<1>4. PICK b, row, ok : ok = (t = "COMMITTED") /\ b = [a EXCEPT !.tool = t] /\ row = [b EXCEPT !.ok = ok]
  OBVIOUS
<1>5. /\ b \in ActionRow /\ b.key = a.key /\ b.tool = t /\ b.result = "none" /\ ~b.skipped /\ b.acted = a.acted
  BY <1>1, <1>2, <1>4 DEF ActionRow
<1>6. /\ row \in ActionRow /\ row.key = a.key /\ row.tool = t /\ row.result = "none" /\ ~row.skipped /\ row.acted = a.acted
  <2>1. ok \in BOOLEAN
    BY <1>4
  <2> QED BY <1>4, <1>5, <2>1 DEF ActionRow
<1>7. RowIsSound(row) /\ ~OpenTool(row)
  BY <1>1, <1>6 DEF RowIsSound, Reading, Underway, OpenTool
<1>8. PutAction(f, n, o, row)
  <2>1. f \in Frames /\ n \in DOMAIN acts[f] /\ o \in DOMAIN acts[f][n] /\ DOMAIN acts = Frames
    BY <1>1 DEF Cell, LoopTypes
  <2>2. PICK ac : ac = [acts EXCEPT ![f][n][o].tool = t]
    OBVIOUS
  <2>3. acts' = [ac EXCEPT ![f][n][o].ok = ok]
    BY <1>3, <1>4, <2>2
  <2>4. ac = [acts EXCEPT ![f][n][o] = b]
    BY <1>4, <1>f, <2>1, <2>2
  <2>5. acts' = [acts EXCEPT ![f][n][o] = row]
    BY <1>4, <2>1, <2>3, <2>4
  <2> QED BY <2>5 DEF PutAction
<1>9. iters[f][n].state # "OBSERVED"
  BY <1>1, <1>2, <1>f DEF ObservedIsWhole
<1>10. RowInv' /\ SameShape
  <2>1. UNCHANGED <<iters, frames, delegation>> /\ RowInv
    BY DEF ReconcileAction, RowInv
  <2> QED BY <1>1, <1>2, <1>6, <1>7, <1>8, <1>9, <1>f, <2>1, CellRows, SMTT(40)
<1>11. TokensAreApart' /\ DriversArePlaced' /\ FinalIsOnce' /\ RootIsCreated'
  <2>1. UNCHANGED <<control, held, loopRoot, frames, delivered, driver>>
    BY DEF ReconcileAction
  <2>2. \A l \in Lanes : ~Current(l)'
    BY <1>2, <2>1 DEF Current, Live
  <2>3. TokensAreApart'
    BY <2>1, SMTT(40) DEF TokensAreApart, ControlTypeOK
  <2> QED BY <2>1, <2>2, <2>3, SMTT(40) DEF DriversArePlaced, FinalIsOnce, RootIsCreated, Live
<1>12. LoopTypes'
  BY <1>10 DEF ReconcileAction, LoopTypes, SameShape
<1> QED BY <1>10, <1>11, <1>12 DEF RowInv

LEMMA InvalidatedFates ==
  ASSUME LoopTypes, RowsAreSound, acts' = Invalidated
  PROVE  FatesStay
<1> DEFINE R(f, n, o) == IF acts[f][n][o].approval = "PENDING"
                           THEN [acts[f][n][o] EXCEPT !.approval = "INVALIDATED"] ELSE acts[f][n][o]
           B(f, n) == [o \in DOMAIN acts[f][n] |-> R(f, n, o)]
           S(f) == [n \in DOMAIN acts[f] |-> B(f, n)]
<1>1. ASSUME NEW f, NEW n, NEW o, Cell(f, n, o)
      PROVE  R(f, n, o) \in ActionRow /\ SameFate(acts[f][n][o], R(f, n, o)) /\ RowIsSound(R(f, n, o))
  <2>1. acts[f][n][o] \in ActionRow /\ RowIsSound(acts[f][n][o])
    BY <1>1, Cells DEF RowsAreSound
  <2>2. PICK a : a = acts[f][n][o]
    OBVIOUS
  <2>3. LET r == [a EXCEPT !.approval = "INVALIDATED"]
        IN  r \in ActionRow /\ SameFate(a, r) /\ RowIsSound(r)
    BY <2>1, <2>2 DEF ActionRow, SameFate, RowIsSound, Reading, Underway
  <2> QED BY <2>1, <2>2, <2>3 DEF SameFate
<1>2. acts' = [f \in Frames |-> S(f)]
  BY DEF Invalidated
<1> HIDE DEF R
<1>3. ASSUME NEW f \in Frames, NEW n \in DOMAIN acts[f]
      PROVE  B(f, n) \in Batch /\ DOMAIN B(f, n) = DOMAIN acts[f][n] /\ \A o \in DOMAIN acts[f][n] : B(f, n)[o] = R(f, n, o)
  <2>1. acts[f][n] \in Batch
    BY Shapes
  <2>2. \A o \in DOMAIN acts[f][n] : R(f, n, o) \in ActionRow
    BY <1>1 DEF Cell
  <2>3. B(f, n) \in [DOMAIN acts[f][n] -> ActionRow]
    BY <2>2
  <2>4. B(f, n) \in Batch
    BY <2>1, <2>3, SameBatch
  <2> QED BY <2>4
<1> HIDE DEF B
<1>4. ASSUME NEW f \in Frames
      PROVE  S(f) \in Seq(Batch) /\ Len(S(f)) = Len(acts[f]) /\ \A n \in DOMAIN acts[f] : S(f)[n] = B(f, n)
  <2>1. DOMAIN acts[f] = 1..Len(iters[f]) /\ Len(acts[f]) = Len(iters[f]) /\ Len(iters[f]) \in Nat
    BY Shapes DEF LoopTypes
  <2> QED BY <1>3, <2>1
<1> HIDE DEF S
<1>5. SameShape
  <2>1. acts' \in [Frames -> Seq(Batch)]
    BY <1>2, <1>4
  <2>2. \A f \in Frames : DOMAIN acts[f] = 1..Len(acts[f])
    BY Shapes DEF LoopTypes
  <2> QED BY <1>2, <1>3, <1>4, <2>1, <2>2 DEF SameShape
<1>6. ASSUME NEW f, NEW n, NEW o, Cell(f, n, o) PROVE acts'[f][n][o] = R(f, n, o)
  BY <1>2, <1>3, <1>4, <1>6 DEF Cell
<1> QED BY <1>1, <1>5, <1>6 DEF FatesStay

\* A lane drops its lease and its batch.
LEMMA LeavingStep ==
  ASSUME LoopInv, NEW l \in Lanes, GoesOff(l), FatesStay,
         \/ CloseTerminal /\ held' = [held EXCEPT ![l] = 0]
         \/ UNCHANGED control /\ held' = [held EXCEPT ![l] = 0],
         UNCHANGED <<pinned, frames, iters, delegation, delivered>>,
         loopRoot' \in LoopRootRow, loopRoot'.receipt = loopRoot.receipt,
         loopRoot'.status = "none" => loopRoot.status = "none",
         loopRoot'.status = "SUCCEEDED" => loopRoot.receipt
  PROVE  LoopInv'
<1> USE DEF LoopInv
<1>1. TokensAreApart' /\ NobodyGains
  BY ControlKeeps
<1>2. PICK q, p : Moves(l, q) /\ Bare(q, p) /\ p \in {"idle", "ended"}
  BY GoesOffMoves
<1>3. DriversArePlaced'
  BY <1>1, <1>2, LaneMoves DEF Bare
<1>4. FinalIsOnce'
  BY <1>2, FinalStays DEF Bare
<1> QED BY <1>1, <1>2, <1>3, <1>4, QuietStep, MovesFacts DEF LoopTypes

LEMMA FailureRecorded ==
  ASSUME LoopTypes, NEW l, RecordFailure(l)
  PROVE  loopRoot' \in LoopRootRow /\ loopRoot'.status = loopRoot.status /\ loopRoot'.receipt = loopRoot.receipt
<1>1. loopRoot \in LoopRootRow /\ MaxFailures \in Nat
  BY LoopAssumption DEF LoopAssumption, LoopTypes
<1>2. CASE l \in Starters
  BY <1>1, <1>2 DEF RecordFailure
<1>3. CASE l \notin Starters
  <2>1. PICK x, m, r : /\ x = IF loopRoot.failures < MaxFailures THEN loopRoot.failures + 1 ELSE loopRoot.failures
                       /\ m = (loopRoot.manual \/ loopRoot.failures + 1 >= MaxFailures)
                       /\ r = [loopRoot EXCEPT !.failures = x]
    OBVIOUS
  <2>2. x \in Nat /\ m \in BOOLEAN
    BY <1>1, <2>1 DEF LoopRootRow
  <2>3. r \in LoopRootRow /\ r.status = loopRoot.status /\ r.receipt = loopRoot.receipt /\ r.manual = loopRoot.manual
    BY <1>1, <2>1, <2>2 DEF LoopRootRow
  <2>4. loopRoot' = [r EXCEPT !.manual = m]
    BY <1>1, <1>3, <2>1 DEF RecordFailure, LoopRootRow
  <2> QED BY <2>2, <2>3, <2>4 DEF LoopRootRow
<1> QED BY <1>2, <1>3

LEMMA SuspendSteps ==
  ASSUME LoopInv, NEW l \in Lanes, Suspend(l)
  PROVE  LoopInv'
<1>1. FatesStay
  BY UnchangedFates DEF LoopInv, Suspend
<1>2. loopRoot' \in LoopRootRow /\ loopRoot'.status = loopRoot.status /\ loopRoot'.receipt = loopRoot.receipt
  BY FailureRecorded DEF LoopInv, Suspend
<1>3. loopRoot.status = "SUCCEEDED" => loopRoot.receipt
  BY DEF LoopInv, FinalIsOnce
<1> QED BY <1>1, <1>2, <1>3, LeavingStep DEF Suspend

LEMMA OustedSteps ==
  ASSUME LoopInv, NEW l \in Lanes, Ousted(l)
  PROVE  LoopInv'
<1>1. FatesStay
  BY UnchangedFates, InvalidatedFates DEF LoopInv, Ousted
<1>2. loopRoot' \in LoopRootRow /\ loopRoot'.status = loopRoot.status /\ loopRoot'.receipt = loopRoot.receipt
  BY FailureRecorded DEF LoopInv, Ousted
<1>3. loopRoot.status = "SUCCEEDED" => loopRoot.receipt
  BY DEF LoopInv, FinalIsOnce
<1> QED BY <1>1, <1>2, <1>3, LeavingStep DEF Ousted

LEMMA FinalizeSteps ==
  ASSUME LoopInv, NEW l \in Lanes, Finalize(l)
  PROVE  LoopInv'
<1>1. FatesStay
  BY InvalidatedFates DEF LoopInv, Finalize
<1>2. /\ loopRoot' \in LoopRootRow /\ loopRoot'.status \in {"SUCCEEDED", "FAILED"}
      /\ loopRoot'.receipt = loopRoot.receipt /\ (loopRoot'.status = "SUCCEEDED" => Stands(l, "closing"))
  BY DEF LoopInv, LoopTypes, LoopRootRow, Finalize
<1>3. Stands(l, "closing") => loopRoot.receipt
  BY DEF LoopInv, FinalIsOnce, Stands
<1> QED BY <1>1, <1>2, <1>3, LeavingStep DEF Finalize

LEMMA PublishSteps ==
  ASSUME LoopInv, NEW l \in Lanes, PublishFinal(l)
  PROVE  LoopInv'
<1> USE DEF LoopInv
<1>1. UNCHANGED <<control, held, pinned, frames, iters, acts, delegation>> /\ driver[l].pc = "drive"
  BY DEF PublishFinal, Stands
<1>2. PICK q : Moves(l, q) /\ DriverIs(q, driver[l], "closing", driver[l].queue, driver[l].failed, driver[l].wave)
  BY GoesMoves DEF DriverPlaces, PublishFinal
<1>3. DOMAIN driver[l].wave = {}
  BY <1>1 DEF DriversArePlaced
<1>4. /\ loopRoot' \in LoopRootRow /\ loopRoot'.status = loopRoot.status /\ loopRoot'.receipt
      /\ delivered' = 1
  <2>1. CASE loopRoot.receipt
    BY <2>1 DEF PublishFinal, MustPublish, LoopTypes, FinalIsOnce
  <2>2. CASE ~loopRoot.receipt
    <3>1. delivered = 0 /\ delivered' = delivered + 1 /\ loopRoot' = [loopRoot EXCEPT !.receipt = TRUE]
      BY <2>2 DEF PublishFinal, MustPublish, FinalIsOnce
    <3>2. loopRoot' \in LoopRootRow /\ loopRoot'.status = loopRoot.status /\ loopRoot'.receipt
      BY <3>1 DEF LoopTypes, LoopRootRow
    <3> QED BY <3>1, <3>2
  <2> QED BY <2>1, <2>2
<1>5. FatesStay
  BY <1>1, UnchangedFates
<1>6. TokensAreApart' /\ NobodyGains
  BY <1>1, ControlStill DEF controlVars
<1>7. DriversArePlaced'
  BY <1>1, <1>2, <1>3, <1>4, <1>5, <1>6, LaneMoves DEF DriverIs
<1>8. FinalIsOnce'
  BY <1>4 DEF FinalIsOnce
<1> QED BY <1>1, <1>2, <1>4, <1>5, <1>6, <1>7, <1>8, QuietStep, MovesFacts DEF LoopTypes

LEMMA CancelSteps ==
  ASSUME LoopInv, CancelLoop
  PROVE  LoopInv'
<1> USE DEF LoopInv
<1>1. /\ control' \in ControlRow /\ held' = held /\ control'.token = control.token /\ control'.owner = control.owner
      /\ control'.lease = control.lease /\ control'.state = control.state
  BY DEF CancelLoop, RequestCancel, TokensAreApart, ControlTypeOK, ControlRow
<1>2. TokensAreApart' /\ NobodyGains
  BY <1>1 DEF TokensAreApart, ControlTypeOK, NobodyGains, Current, Live
<1>3. UNCHANGED <<pinned, loopRoot, frames, iters, acts, delegation, delivered, driver>>
  BY DEF CancelLoop, loopRows
<1>4. FatesStay
  BY <1>3, UnchangedFates
<1>5. DriversArePlaced' /\ FinalIsOnce'
  BY <1>2, <1>3, <1>4, NobodyMoves DEF FinalIsOnce
<1> QED BY <1>2, <1>3, <1>4, <1>5, QuietStep DEF LoopTypes

-----------------------------------------------------------------------------
(* The batch in the driver's hands.                                        *)

LEMMA SmallestOrdinal ==
  ASSUME NEW S \in SUBSET Ordinals, S # {}
  PROVE  Min(S) \in S
<1>1. MaxBatch \in Nat
  BY LoopAssumption DEF LoopAssumption
<1>2. S \subseteq Nat
  BY <1>1 DEF Ordinals
<1>3. PICK x \in S : \A y \in S : ~(<<y, x>> \in OpToRel(<, Nat))
  BY <1>2, NatLessThanWellFounded, WFMin
<1>4. \A y \in S : x <= y
  <2> TAKE y \in S
  <2>1. x \in Nat /\ y \in Nat /\ ~(<<y, x>> \in OpToRel(<, Nat))
    BY <1>2, <1>3
  <2>2. ~(y < x)
    BY <2>1 DEF OpToRel
  <2>3. x \in Nat /\ y \in Nat
    BY <2>1
  <2> QED BY ONLY <2>2, <2>3
<1> QED BY <1>4 DEF Min

LEMMA TurnIs ==
  ASSUME NEW queue \in SUBSET Ordinals, queue # {}, NEW reads
  PROVE  /\ ReadsFirst(queue, reads) \in queue
         /\ queue \cap reads # {} => ReadsFirst(queue, reads) \in reads
  BY SmallestOrdinal DEF ReadsFirst

\* A lane moves within its batch and only reads.
LEMMA BatchMoves ==
  ASSUME LoopInv, NEW l \in Lanes, driver[l].pc = "batch", NEW q \in DriverRow,
         driver' = [driver EXCEPT ![l] = q], q.pc = "batch", q.frame = driver[l].frame, q.no = driver[l].no,
         UNCHANGED <<control, held, pinned, loopRoot, iters, frames, acts, delegation, delivered>>,
         NEW b, b = acts[driver[l].frame][driver[l].no],
         Current(l) => QueueFits(b, q.queue, q.wave) /\ WriteWaits(b, q.queue, q.wave, q.failed)
  PROVE  LoopInv'
<1> USE DEF LoopInv
<1>1. Moves(l, q)
  BY DEF Moves
<1>2. driver'[l] = q
  BY <1>1, MovesFacts
<1>3. Current(l)' => Current(l)
  BY DEF Current, Live
<1>4. ASSUME Current(l) PROVE BatchIsSound(l)'
  <2>1. BatchIsSound(l)
    BY <1>4 DEF DriversArePlaced
  <2> QED BY <1>2, <1>4, <2>1 DEF BatchIsSound
<1> QED BY <1>1, <1>3, <1>4, ReadStep DEF loopRows, controlVars

LEMMA LoadSteps ==
  ASSUME LoopInv, NEW l \in Lanes, LoadBatch(l)
  PROVE  LoopInv'
<1> USE DEF LoopInv
<1>f. PICK f, n, b, queue, failed :
        /\ f = Frame /\ n = Last(f) /\ b = acts[f][n]
        /\ queue = {o \in DOMAIN b : b[o].result = "none" /\ ~b[o].skipped}
        /\ failed = \E o \in DOMAIN b : b[o].result = "FAILED"
  OBVIOUS
<1>1. /\ UNCHANGED <<control, held, pinned, loopRoot, iters, frames, acts, delegation, delivered>>
      /\ driver[l].pc = "drive" /\ frames[f].phase = "WAIT_ACTIONS" /\ Current(l)
  BY <1>f DEF LoadBatch, loopRows, Stands, Locks
<1>2. DOMAIN driver[l].wave = {}
  BY <1>1 DEF DriversArePlaced
<1>3. CASE Goes(l, "suspending")
  <2>1. PICK q : Moves(l, q) /\ DriverIs(q, driver[l], "suspending", driver[l].queue, driver[l].failed, driver[l].wave)
    BY <1>3, GoesMoves DEF DriverPlaces
  <2> QED BY <1>1, <1>2, <2>1, ReadStep DEF DriverIs, controlVars, loopRows
<1>4. CASE /\ ~\E o \in DOMAIN b : OpenTool(b[o])
           /\ driver' = [driver EXCEPT ![l] = [driver[l] EXCEPT !.pc = "batch", !.frame = f, !.no = n,
                           !.queue = queue, !.failed = failed]]
  <2>1. /\ f \in Frames /\ (f = "child" => delegation = "accepted")
        /\ n = Len(iters[f]) /\ n \in 1..Len(iters[f]) /\ n \in DOMAIN acts[f] /\ b \in Batch
    BY <1>1, <1>f, FrameIs, Shapes DEF Last, FramesAreSound
  <2>2. queue \in SUBSET Ordinals /\ failed \in BOOLEAN /\ n \in Nat
    BY <1>f, <2>1, BatchParts
  <2>3. PICK q : /\ q = [driver[l] EXCEPT !.pc = "batch", !.frame = f, !.no = n, !.queue = queue, !.failed = failed]
    OBVIOUS
  <2>4. /\ q \in DriverRow /\ q.pc = "batch" /\ q.frame = f /\ q.no = n /\ q.queue = queue /\ q.failed = failed
        /\ q.wave = driver[l].wave
    <3>1. driver[l] \in DriverRow
      BY DEF LoopTypes
    <3>2. PICK q1, q2, q3, q4 :
            /\ q1 = [driver[l] EXCEPT !.pc = "batch"] /\ q2 = [q1 EXCEPT !.frame = f]
            /\ q3 = [q2 EXCEPT !.no = n] /\ q4 = [q3 EXCEPT !.queue = queue]
      OBVIOUS
    <3>3. q = [q4 EXCEPT !.failed = failed]
      BY <2>3, <3>2
    <3>4. q1 \in DriverRow /\ q1.pc = "batch" /\ q1.wave = driver[l].wave
      BY <3>1, <3>2 DEF DriverRow, DriverPlaces
    <3>5. q2 \in DriverRow /\ q2.pc = "batch" /\ q2.wave = driver[l].wave /\ q2.frame = f
      BY <2>1, <3>2, <3>4 DEF DriverRow
    <3>6. q3 \in DriverRow /\ q3.pc = "batch" /\ q3.wave = driver[l].wave /\ q3.frame = f /\ q3.no = n
      BY <2>2, <3>2, <3>5 DEF DriverRow
    <3>7. q4 \in DriverRow /\ q4.pc = "batch" /\ q4.wave = driver[l].wave /\ q4.frame = f /\ q4.no = n /\ q4.queue = queue
      BY <2>2, <3>2, <3>6 DEF DriverRow
    <3> QED BY <2>2, <3>3, <3>7 DEF DriverRow
  <2>5. Moves(l, q) /\ driver'[l] = q
    BY <1>4, <2>3, <2>4, MovesFacts DEF Moves
  <2>6. \A o \in DOMAIN b : Cell(f, n, o) /\ RowIsSound(b[o])
    BY <1>f, <2>1 DEF Cell, RowsAreSound
  <2>7. QueueFits(b, queue, driver[l].wave)
    BY <1>2, <1>4, <1>f DEF QueueFits
  <2>8. WriteWaits(b, queue, driver[l].wave, failed)
    <3>1. \A o \in DOMAIN b : b[o] \in ActionRow
      BY <2>1, BatchParts
    <3>2. ASSUME NEW p \in DOMAIN b, Bad(b[p]) PROVE failed \/ p \in queue
      BY <1>f, <2>6, <3>1, <3>2 DEF Bad, RowIsSound, ActionRow, Underway
    <3>3. ASSUME NEW o \in DOMAIN b, o \notin queue, ~failed, ~\E p \in queue : Bad(b[p]) PROVE Good(b[o])
      <4>1. ~b[o].skipped
        <5> SUFFICES ASSUME b[o].skipped PROVE FALSE
          OBVIOUS
        <5>1. PICK p : Cell(f, n, p) /\ Bad(b[p])
          BY <1>f, <2>1, <2>6 DEF SkipsHaveCause
        <5>2. p \in DOMAIN b
          BY <1>f, <5>1 DEF Cell
        <5> QED BY <3>2, <3>3, <5>1, <5>2
      <4>2. b[o].result # "none" /\ b[o].result # "FAILED"
        BY <1>f, <3>3, <4>1
      <4> QED BY <2>6, <3>1, <4>2 DEF RowIsSound, Good, ActionRow
    <3>4. failed => \E p \in DOMAIN b : Bad(b[p])
      <4> SUFFICES ASSUME NEW x \in DOMAIN b, b[x].result = "FAILED" PROVE Bad(b[x])
        BY <1>f
      <4> QED BY <2>6, <3>1 DEF RowIsSound, Bad, ActionRow
    <3> QED BY <1>2, <3>3, <3>4 DEF WriteWaits
  <2>9. BatchIsSound(l)'
    BY <1>1, <1>f, <2>1, <2>4, <2>5, <2>7, <2>8 DEF BatchIsSound
  <2> QED BY <1>1, <1>2, <2>4, <2>5, <2>9, ReadStep DEF controlVars, loopRows
<1> QED BY <1>3, <1>4, <1>f DEF LoadBatch

LEMMA StartWaveSteps ==
  ASSUME LoopInv, NEW l \in Lanes, StartWave(l)
  PROVE  LoopInv'
<1> USE DEF LoopInv
<1>0. PICK calls \in Together(l) :
        driver' = [driver EXCEPT ![l].queue = @ \ calls,
                       ![l].wave = [o \in calls |-> IF Row(l, o).key \in pinned.gated THEN "approve" ELSE "prepare"]]
  BY DEF StartWave
<1>f. PICK f, n, b, queue, reads, t, behind, wave :
        /\ f = driver[l].frame /\ n = driver[l].no /\ b = acts[f][n] /\ queue = driver[l].queue
        /\ reads = Reads(l) /\ t = Turn(l) /\ behind = (queue \cap reads) \ {t}
        /\ wave = [o \in calls |-> IF Row(l, o).key \in pinned.gated THEN "approve" ELSE "prepare"]
  OBVIOUS
<1>1. /\ UNCHANGED <<control, held, pinned, loopRoot, iters, frames, acts, delegation, delivered>>
      /\ driver[l].pc = "batch" /\ DOMAIN driver[l].wave = {} /\ queue # {} /\ ~MustSkip(l, t)
      /\ driver' = [driver EXCEPT ![l].queue = @ \ calls, ![l].wave = wave]
  BY <1>0, <1>f DEF StartWave, loopRows, Stands, Free
<1>2. driver[l] \in DriverRow /\ queue \in SUBSET Ordinals
  BY <1>f DEF LoopTypes, DriverRow
<1>3. t \in queue /\ (queue \cap reads # {} => t \in reads) /\ calls \subseteq queue
      /\ \A o \in calls : o \in reads \/ o = t
  <2>1. t \in queue /\ (queue \cap reads # {} => t \in reads)
    BY <1>1, <1>2, <1>f, TurnIs DEF Turn
  <2>2. calls = {t} \/ (behind # {} /\ calls = {t, Min(behind)})
    BY <1>0, <1>f DEF Together
  <2>3. behind # {} => Min(behind) \in behind
    <3>1. behind \in SUBSET Ordinals
      BY <1>2, <1>f
    <3> QED BY <3>1, SmallestOrdinal
  <2> QED BY <1>f, <2>1, <2>2, <2>3
<1>4. wave \in Waves /\ DOMAIN wave = calls /\ \A o \in calls : wave[o] \in {"approve", "prepare"}
  <2>1. wave \in [calls -> CallPlaces \cup CallEnds] /\ calls \in SUBSET Ordinals
    BY <1>2, <1>3, <1>f DEF CallPlaces
  <2> QED BY <1>f, <2>1 DEF Waves
<1>5. PICK q1, q : q1 = [driver[l] EXCEPT !.queue = queue \ calls] /\ q = [q1 EXCEPT !.wave = wave]
  OBVIOUS
<1>6. q1 \in DriverRow /\ q1.queue = queue \ calls /\ q1.pc = driver[l].pc /\ q1.frame = f /\ q1.no = n
      /\ q1.failed = driver[l].failed
  BY <1>2, <1>5, <1>f DEF DriverRow
<1>7. q \in DriverRow /\ q.queue = queue \ calls /\ q.pc = "batch" /\ q.frame = f /\ q.no = n
      /\ q.failed = driver[l].failed /\ q.wave = wave
  BY <1>1, <1>4, <1>5, <1>6 DEF DriverRow
<1>8. driver' = [driver EXCEPT ![l] = q]
  BY <1>1, <1>5, <1>f DEF LoopTypes
<1>9. ASSUME Current(l)
      PROVE  QueueFits(b, queue \ calls, wave) /\ WriteWaits(b, queue \ calls, wave, driver[l].failed)
  <2>1. BatchIsSound(l)
    BY <1>1, <1>9 DEF DriversArePlaced
  <2>2. /\ QueueFits(b, queue, driver[l].wave) /\ WriteWaits(b, queue, driver[l].wave, driver[l].failed)
        /\ f \in Frames /\ n \in DOMAIN acts[f]
    BY <1>2, <1>f, <2>1 DEF BatchIsSound, DriverRow
  <2>3. QueueFits(b, queue \ calls, wave)
    BY <1>1, <1>3, <1>4, <2>2 DEF QueueFits, CallFits
  <2>4. \A o : o \in reads <=> o \in DOMAIN b /\ Reading(b[o])
    BY <1>f DEF Reads, BatchOf, Row, BatchFrame
  <2>5. ASSUME NEW w \in calls, ~Reading(b[w]), NEW o \in DOMAIN b, o # w PROVE Good(b[o])
    <3>1. w \in queue /\ w \in DOMAIN b /\ w = t /\ w \notin reads /\ queue \cap reads = {}
      BY <1>3, <2>2, <2>4, <2>5 DEF QueueFits
    <3>2. ~driver[l].failed
      <4>1. Row(l, w) = b[w]
        BY <1>f DEF Row, BatchOf, BatchFrame
      <4> QED BY <1>1, <2>5, <3>1, <4>1 DEF MustSkip
    <3>3. Cell(f, n, o) /\ Cell(f, n, w)
      BY <1>f, <2>2, <2>5, <3>1 DEF Cell
    <3>4. queue \subseteq DOMAIN b
      BY <2>2 DEF QueueFits
    <3>5. \A x \in queue : x = w
      <4> TAKE x \in queue
      <4>1. x \in DOMAIN b /\ ~Reading(b[x])
        BY <2>4, <3>1, <3>4
      <4>2. Cell(f, n, x)
        BY <1>f, <2>2, <4>1 DEF Cell
      <4> QED BY <1>f, <2>5, <3>3, <4>1, <4>2 DEF OneWrite
    <3>6. CASE Bad(b[w])
      <4>1. BesideWrite(f, n, o, w) /\ Underway(b[w])
        BY <1>f, <2>5, <3>3, <3>6 DEF BesideWrite, Bad, Underway
      <4> QED BY <1>f, <4>1 DEF WritesFollow
    <3>7. CASE ~Bad(b[w])
      BY <1>1, <2>2, <2>5, <3>2, <3>5, <3>7 DEF WriteWaits
    <3> QED BY <3>6, <3>7
  <2>6. WriteWaits(b, queue \ calls, wave, driver[l].failed)
    <3>1. (queue \ calls) \cup DOMAIN wave = queue \cup DOMAIN driver[l].wave
      BY <1>1, <1>3, <1>4
    <3>2. \A o \in DOMAIN wave : wave[o] # "skip"
      BY <1>4
    <3>3. \A w \in DOMAIN wave : ~Reading(b[w]) => \A o \in DOMAIN b : o # w => Good(b[o])
      BY <1>4, <2>5
    <3> QED BY <2>2, <3>1, <3>2, <3>3 DEF WriteWaits
  <2> QED BY <2>3, <2>6
<1>10. Current(l) => QueueFits(b, q.queue, q.wave) /\ WriteWaits(b, q.queue, q.wave, q.failed)
  BY <1>7, <1>9
<1>11. b = acts[driver[l].frame][driver[l].no] /\ q.frame = driver[l].frame /\ q.no = driver[l].no
  BY <1>7, <1>f
<1> QED BY <1>1, <1>7, <1>8, <1>10, <1>11, BatchMoves

LEMMA WaveEndsSteps ==
  ASSUME LoopInv, NEW l \in Lanes, WaveEnds(l)
  PROVE  LoopInv'
<1> USE DEF LoopInv
<1>f. PICK f, n, b, queue, wave, failed :
        /\ f = driver[l].frame /\ n = driver[l].no /\ b = acts[f][n] /\ queue = driver[l].queue
        /\ wave = driver[l].wave
        /\ failed = (driver[l].failed \/ "doneFailed" \in {wave[o] : o \in DOMAIN wave})
  OBVIOUS
<1>1. /\ UNCHANGED <<control, held, pinned, loopRoot, iters, frames, acts, delegation, delivered>>
      /\ driver[l].pc = "batch"
  BY DEF WaveEnds, loopRows, Stands
<1>2. CASE /\ {o \in DOMAIN wave : wave[o] \notin {"done", "doneFailed"}} = {}
           /\ driver' = [driver EXCEPT ![l].wave = <<>>,
                           ![l].failed = @ \/ "doneFailed" \in {wave[o] : o \in DOMAIN wave}]
  <2>1. driver[l] \in DriverRow /\ failed \in BOOLEAN /\ <<>> \in Waves /\ DOMAIN <<>> = {}
    BY <1>f, EmptyBatch DEF LoopTypes, DriverRow
  <2>2. PICK q1, q : q1 = [driver[l] EXCEPT !.wave = <<>>] /\ q = [q1 EXCEPT !.failed = failed]
    OBVIOUS
  <2>3. /\ q1 \in DriverRow /\ q1.queue = queue /\ q1.pc = "batch" /\ q1.frame = f /\ q1.no = n /\ q1.wave = <<>>
        /\ q1.failed = driver[l].failed
    BY <1>1, <1>f, <2>1, <2>2 DEF DriverRow
  <2>4. /\ q \in DriverRow /\ q.queue = queue /\ q.pc = "batch" /\ q.frame = f /\ q.no = n /\ q.wave = <<>>
        /\ q.failed = failed
    BY <2>1, <2>2, <2>3 DEF DriverRow
  <2>5. driver' = [driver EXCEPT ![l] = q]
    <3>1. PICK dr : dr = [driver EXCEPT ![l].wave = <<>>]
      OBVIOUS
    <3>2. dr = [driver EXCEPT ![l] = q1] /\ dr[l] = q1
      BY <2>2, <3>1 DEF LoopTypes
    <3>3. driver' = [dr EXCEPT ![l].failed = @ \/ "doneFailed" \in {wave[o] : o \in DOMAIN wave}]
      BY <1>2, <3>1
    <3>4. driver' = [dr EXCEPT ![l] = q]
      BY <1>f, <2>2, <2>3, <3>2, <3>3
    <3> QED BY <3>2, <3>4
  <2>6. ASSUME Current(l) PROVE QueueFits(b, queue, <<>>) /\ WriteWaits(b, queue, <<>>, failed)
    <3>1. BatchIsSound(l)
      BY <1>1, <2>6 DEF DriversArePlaced
    <3>2. QueueFits(b, queue, wave) /\ WriteWaits(b, queue, wave, driver[l].failed)
      BY <1>f, <3>1 DEF BatchIsSound
    <3>3. \A o \in DOMAIN wave : wave[o] \in {"done", "doneFailed"}
      BY <1>2
    <3>4. \A o \in DOMAIN wave : /\ b[o].skipped \/ b[o].result # "none"
                                 /\ wave[o] = "done" => Good(b[o])
      BY <3>2, <3>3 DEF QueueFits, CallFits, Good
    <3>5. QueueFits(b, queue, <<>>)
      BY <2>1, <3>2, <3>4 DEF QueueFits
    <3>6. failed => \E p \in DOMAIN b : Bad(b[p])
      <4>1. driver[l].failed => \E p \in DOMAIN b : Bad(b[p])
        BY <3>2 DEF WriteWaits
      <4>2. ASSUME NEW o \in DOMAIN wave, wave[o] = "doneFailed" PROVE \E p \in DOMAIN b : Bad(b[p])
        <5>1. /\ f \in Frames /\ n \in DOMAIN acts[f] /\ o \in DOMAIN b
              /\ b[o].skipped \/ b[o].result = "FAILED"
              /\ f = "child" => delegation = "accepted"
          BY <1>f, <3>1, <3>2, <4>2 DEF BatchIsSound, LoopTypes, DriverRow, QueueFits, CallFits
        <5>2. Cell(f, n, o) /\ b[o] \in ActionRow /\ RowIsSound(b[o])
          BY <1>f, <5>1, Cells DEF Cell, RowsAreSound
        <5>3. CASE b[o].result = "FAILED"
          BY <5>1, <5>2, <5>3 DEF RowIsSound, Bad, ActionRow
        <5>4. CASE b[o].skipped
          <6>1. PICK p : Cell(f, n, p) /\ Bad(acts[f][n][p])
            BY <1>f, <5>1, <5>2, <5>4 DEF SkipsHaveCause
          <6> QED BY <1>f, <6>1 DEF Cell
        <5> QED BY <5>1, <5>3, <5>4
      <4> QED BY <1>f, <4>1, <4>2
    <3>7. WriteWaits(b, queue, <<>>, failed)
      <4>1. ASSUME ~failed, ~\E p \in queue : Bad(b[p]), NEW o \in DOMAIN b, o \notin queue PROVE Good(b[o])
        <5>1. ~driver[l].failed /\ \A x \in DOMAIN wave : wave[x] = "done"
          BY <1>f, <3>3, <4>1
        <5>2. \A x \in DOMAIN wave : Good(b[x]) /\ ~Bad(b[x])
          BY <3>4, <5>1 DEF Good, Bad
        <5>3. \A x \in DOMAIN b \ (queue \cup DOMAIN wave) : Good(b[x])
          BY <3>2, <4>1, <5>1, <5>2 DEF WriteWaits
        <5> QED BY <4>1, <5>2, <5>3
      <4> QED BY <2>1, <3>6, <4>1 DEF WriteWaits
    <3> QED BY <3>5, <3>7
  <2>7. Current(l) => QueueFits(b, q.queue, q.wave) /\ WriteWaits(b, q.queue, q.wave, q.failed)
    BY <2>4, <2>6
  <2>8. b = acts[driver[l].frame][driver[l].no] /\ q.frame = driver[l].frame /\ q.no = driver[l].no
    BY <1>f, <2>4
  <2> QED BY <1>1, <2>4, <2>5, <2>7, <2>8, BatchMoves
<1>3. ASSUME NEW o, Leaves(l, AfterError(l, wave[o])) PROVE LoopInv'
  <2>1. PICK p : p = AfterError(l, wave[o])
    OBVIOUS
  <2>2. p \in {"suspending", "failing", "stopping", "childFailed"}
    BY <2>1 DEF AfterError
  <2>3. PICK q : Moves(l, q) /\ Bare(q, p)
    BY <1>3, <2>1, <2>2, LeavesMoves DEF DriverPlaces
  <2> QED BY <1>1, <2>2, <2>3, ReadStep DEF Bare, controlVars, loopRows
<1> QED BY <1>2, <1>3, <1>f DEF WaveEnds

LEMMA SkipSteps ==
  ASSUME LoopInv, NEW l \in Lanes, SkipAction(l)
  PROVE  LoopInv'
<1> USE DEF LoopInv
<1>f. PICK f, n, b, queue, t, a, row :
        /\ f = driver[l].frame /\ n = driver[l].no /\ b = acts[f][n] /\ queue = driver[l].queue
        /\ t = Turn(l) /\ a = b[t] /\ row = [a EXCEPT !.skipped = TRUE]
  OBVIOUS
<1>1. /\ UNCHANGED <<control, held, pinned, loopRoot, iters, frames, delegation, delivered>>
      /\ driver[l].pc = "batch" /\ DOMAIN driver[l].wave = {} /\ queue # {} /\ Current(l)
      /\ driver[l].failed /\ a.tool \in {"none", "PREPARED"}
      /\ driver' = [driver EXCEPT ![l].queue = @ \ {t}]
      /\ PutAction(f, n, t, row)
  BY <1>f DEF SkipAction, Stands, Free, LocksToAct, Locks, MustSkip, PutAction, SetRow, Row, BatchOf, BatchFrame
<1>2. driver[l] \in DriverRow /\ queue \in SUBSET Ordinals /\ t \in queue
  <2>1. driver[l] \in DriverRow /\ queue \in SUBSET Ordinals
    BY <1>f DEF LoopTypes, DriverRow
  <2> QED BY <1>1, <1>f, <2>1, TurnIs DEF Turn
<1>3. BatchIsSound(l)
  BY <1>1, SMTT(40) DEF DriversArePlaced
<1>4. /\ f \in Frames /\ n \in DOMAIN acts[f] /\ n = Len(iters[f]) /\ frames[f].phase = "WAIT_ACTIONS"
      /\ QueueFits(b, queue, driver[l].wave) /\ WriteWaits(b, queue, driver[l].wave, driver[l].failed)
  BY <1>2, <1>3, <1>f DEF BatchIsSound, DriverRow
<1>5. Cell(f, n, t) /\ a.result = "none" /\ a = acts[f][n][t]
  BY <1>2, <1>4, <1>f DEF Cell, QueueFits
<1>6. a \in ActionRow /\ RowIsSound(a)
  BY <1>5, Cells, SMTT(40) DEF RowsAreSound
<1>7. row \in ActionRow /\ row.key = a.key /\ RowIsSound(row) /\ row.skipped /\ ~OpenTool(row) /\ ~Underway(row)
      /\ row.result = "none"
  BY <1>1, <1>5, <1>6, <1>f DEF ActionRow, RowIsSound, OpenTool, Underway, Reading
<1>8. ~Bad(a) /\ \E p : Cell(f, n, p) /\ Bad(acts[f][n][p])
  BY <1>1, <1>4, <1>f DEF Bad, Cell, WriteWaits
<1>9. iters[f][n].state # "OBSERVED"
  BY <1>4 DEF FramesAreSound
<1>10. RowInv' /\ SameShape
  BY <1>1, <1>5, <1>7, <1>8, <1>9, CellRows DEF RowInv
<1>11. PICK q, c : q = [driver[l] EXCEPT !.queue = queue \ {t}] /\ c = acts'[f][n]
  OBVIOUS
<1>12. /\ q \in DriverRow /\ q.queue = queue \ {t} /\ q.pc = "batch" /\ q.frame = f /\ q.no = n
       /\ q.failed = driver[l].failed /\ q.wave = driver[l].wave
  BY <1>1, <1>2, <1>11, <1>f DEF DriverRow
<1>13. Moves(l, q) /\ driver'[l] = q
  <2>1. driver' = [driver EXCEPT ![l] = q]
    BY <1>1, <1>11, <1>f DEF LoopTypes
  <2> QED BY <1>12, <2>1, MovesFacts DEF Moves
<1>14. c[t] = row /\ DOMAIN c = DOMAIN b /\ n \in DOMAIN acts'[f]
       /\ \A x \in DOMAIN b : x # t => c[x] = b[x]
  <2>1. /\ acts'[f][n][t] = row
        /\ \A g, m, x : Cell(g, m, x) /\ <<g, m, x>> # <<f, n, t>> => acts'[g][m][x] = acts[g][m][x]
    BY <1>1, <1>5, <1>7, SetCell
  <2>2. acts'[f] \in Seq(Batch) /\ acts[f] \in Seq(Batch) /\ Len(acts'[f]) = Len(acts[f])
    BY <1>4, <1>10 DEF SameShape, LoopTypes
  <2>3. DOMAIN acts'[f] = DOMAIN acts[f] /\ n \in 1..Len(acts[f])
    BY <1>4, <2>2, SeqDomains
  <2>4. DOMAIN acts'[f][n] = DOMAIN acts[f][n]
    BY <1>4, <1>10, <2>3 DEF SameShape
  <2>5. \A x \in DOMAIN acts[f][n] : x # t => acts'[f][n][x] = acts[f][n][x]
    <3> TAKE x \in DOMAIN acts[f][n]
    <3>1. Cell(f, n, x)
      BY <1>4 DEF Cell
    <3> QED BY <2>1, <3>1
  <2>6. b = acts[f][n] /\ c = acts'[f][n]
    BY <1>11, <1>f
  <2> QED BY <1>4, <2>1, <2>3, <2>4, <2>5, <2>6
<1>15. QueueFits(c, queue \ {t}, driver[l].wave)
  BY <1>1, <1>2, <1>4, <1>7, <1>14 DEF QueueFits
<1>16. WriteWaits(c, queue \ {t}, driver[l].wave, driver[l].failed)
  <2>1. PICK p \in DOMAIN b : Bad(b[p])
    BY <1>1, <1>4, SMTT(40) DEF WriteWaits
  <2>2. p \in DOMAIN c /\ Bad(c[p])
    BY <1>8, <1>14, <1>f, <2>1
  <2> QED BY <1>1, <2>2 DEF WriteWaits
<1>17. BatchIsSound(l)'
  <2>1. f = "child" => delegation = "accepted"
    BY <1>3, <1>f DEF BatchIsSound
  <2>2. c = acts'[f][n]
    BY <1>11
  <2> QED BY <1>1, <1>4, <1>12, <1>13, <1>14, <1>15, <1>16, <2>1, <2>2 DEF BatchIsSound
<1>18. TokensAreApart' /\ NobodyGains
  BY <1>1, ControlStill DEF controlVars
<1>19. DriversArePlaced'
  BY <1>1, <1>12, <1>13, <1>17, <1>18, HolderMoves
<1>20. FinalIsOnce'
  BY <1>1, <1>12, <1>13, FinalStays DEF FinalIsOnce
<1>21. LoopTypes'
  BY <1>1, <1>10, <1>13, MovesFacts DEF LoopTypes, SameShape
<1> QED BY <1>1, <1>10, <1>18, <1>19, <1>20, <1>21 DEF RowInv, RootIsCreated

-----------------------------------------------------------------------------
(* The theorems.                                                           *)

LEMMA LoopInductive == LoopInv /\ [LoopNext]_loopVars => LoopInv'
<1> SUFFICES ASSUME LoopInv, [LoopNext]_loopVars PROVE LoopInv'
  OBVIOUS
<1>1. ASSUME NEW l \in Lanes,
             \/ CreateLoop(l) \/ SelectLoop(l) \/ ClaimLoop(l) \/ RecoverLoop(l)
             \/ StopsItself(l) \/ OpenIteration(l) \/ AskModel(l) \/ ModelDecides(l) \/ AcceptDecision(l)
      PROVE  LoopInv'
  BY <1>1, CreateSteps, SelectSteps, ClaimSteps, RecoverSteps, StopsItselfSteps, OpenSteps, AskSteps,
     DecidesSteps, AcceptSteps
<1>2. ASSUME NEW l \in Lanes,
             \/ LoadBatch(l) \/ SkipAction(l) \/ StartWave(l) \/ WaveEnds(l) \/ CommitBatch(l)
             \/ CommitChild(l) \/ AcceptChild(l)
             \/ Suspend(l) \/ SeesCancel(l) \/ Ousted(l) \/ StopLoop(l) \/ PublishFinal(l) \/ Finalize(l)
      PROVE  LoopInv'
  BY <1>2, LoadSteps, SkipSteps, StartWaveSteps, WaveEndsSteps, CommitBatchSteps, CommitChildSteps,
     AcceptChildSteps, SuspendSteps, SeesCancelSteps, OustedSteps, StopSteps, PublishSteps, FinalizeSteps
<1>3. ASSUME NEW l \in Lanes, NEW o \in Ordinals,
             \/ AwaitApproval(l, o) \/ PrepareTool(l, o) \/ StartTool(l, o) \/ ToolReturns(l, o)
             \/ RecordAction(l, o) \/ CallCancelled(l, o)
      PROVE  LoopInv'
  BY <1>3, AwaitSteps, PrepareSteps, StartSteps, ReturnsSteps, RecordSteps, CallCancelledSteps
<1>4. ASSUME NEW i \in ActionIds, WriteActs(i) \/ DecideAction(i) \/ ReconcileAction(i) PROVE LoopInv'
  BY <1>4, WriteActsSteps, DecideSteps, ReconcileSteps
<1>5. CASE CancelLoop \/ LoopTick
  BY <1>5, CancelSteps, TickSteps
<1>6. CASE UNCHANGED loopVars
  <2>1. FatesStay
    BY <1>6, UnchangedFates DEF loopVars, LoopInv
  <2> QED BY <1>6, <2>1, FateSteps DEF loopVars, controlVars
<1> QED BY <1>1, <1>2, <1>3, <1>4, <1>5, <1>6 DEF LoopNext

LEMMA LoopIsSound == LoopSpec => []LoopInv
<1> QED BY LoopStarts, LoopInductive, PTL DEF LoopSpec

\* No write of a run happens twice, whichever frame, iteration, executor or
\* reconciliation it goes through (accept_batch refuses a
\* repeated action, and only the holder of the run starts one).
THEOREM WritesHappenOnce == LoopSpec => []LoopWritesOnce
<1>1. LoopInv => LoopWritesOnce
  <2> SUFFICES ASSUME LoopInv, NEW i \in ActionIds, NEW j \in ActionIds,
                      Act(i).acted, Act(j).acted, Act(i).key = Act(j).key
               PROVE  i = j
    BY DEF LoopWritesOnce
  <2>1. /\ i = <<i[1], i[2], i[3]>> /\ Cell(i[1], i[2], i[3]) /\ Act(i) = acts[i[1]][i[2]][i[3]]
        /\ j = <<j[1], j[2], j[3]>> /\ Cell(j[1], j[2], j[3]) /\ Act(j) = acts[j[1]][j[2]][j[3]]
    BY ActionCells DEF LoopInv
  <2>2. ~Reading(Act(i))
    BY <2>1 DEF LoopInv, RowsAreSound, RowIsSound
  <2>3. i[1] = j[1] /\ i[2] = j[2] /\ i[3] = j[3]
    BY <2>1, <2>2 DEF LoopInv, KeysAreApart
  <2> QED BY <2>1, <2>3
<1> QED BY <1>1, LoopIsSound, PTL

\* A write is under way only when every read beside it has succeeded, whoever
\* takes the batch up again and however many actions the batch has.
THEOREM WritesComeLast == LoopSpec => []WriteFollowsReads
<1>1. LoopInv => WriteFollowsReads
  <2> SUFFICES ASSUME LoopInv, NEW i \in ActionIds, ~Reading(Act(i)), Act(i).tool \notin {"none", "PREPARED"},
                      NEW o \in DOMAIN acts[i[1]][i[2]] \ {i[3]}
               PROVE  acts[i[1]][i[2]][o].tool = "COMMITTED" /\ acts[i[1]][i[2]][o].ok
    BY DEF WriteFollowsReads
  <2>1. Cell(i[1], i[2], i[3]) /\ Act(i) = acts[i[1]][i[2]][i[3]]
    BY ActionCells DEF LoopInv
  <2>2. BesideWrite(i[1], i[2], o, i[3]) /\ Underway(acts[i[1]][i[2]][i[3]])
    BY <2>1 DEF BesideWrite, Cell, Underway
  <2> QED BY <2>2 DEF LoopInv, WritesFollow, Good
<1> QED BY <1>1, LoopIsSound, PTL

\* What an iteration observes is what its actions came to; nothing is open when
\* a frame decides or a parent goes on; the answer is delivered once.
THEOREM ObservationStaysWhole == LoopSpec => []ObservationIsWhole
<1>1. LoopInv => ObservationIsWhole
  <2> SUFFICES ASSUME LoopInv PROVE ObservationIsWhole
    OBVIOUS
  <2> USE DEF LoopInv
  <2>1. ASSUME NEW f \in Frames, NEW n \in DOMAIN iters[f], iters[f][n].state = "OBSERVED",
               NEW o \in DOMAIN acts[f][n]
        PROVE  IF acts[f][n][o].skipped THEN acts[f][n][o].tool \in {"none", "PREPARED"}
               ELSE acts[f][n][o].tool = "COMMITTED"
                    /\ acts[f][n][o].result = (IF acts[f][n][o].ok THEN "SUCCEEDED" ELSE "FAILED")
    <3>1. Cell(f, n, o)
      BY <2>1, Shapes DEF Cell
    <3> QED BY <2>1, <3>1 DEF ObservedIsWhole, RowsAreSound, RowIsSound, Underway
  <2>2. ASSUME NEW f \in Frames, NEW a \in ActsOf(f) PROVE \E n, o : Cell(f, n, o) /\ a = acts[f][n][o]
    BY <2>2 DEF ActsOf, Cell
  <2>3. ASSUME NEW f \in Frames, frames[f].phase \in {"NEED_DECISION", "RESULT_READY"}, NEW a \in ActsOf(f)
        PROVE  ~OpenTool(a)
    <3>1. PICK n, o : Cell(f, n, o) /\ a = acts[f][n][o]
      BY <2>2, <2>3
    <3> QED BY <2>3, <3>1 DEF FramesAreSound
  <2>4. ASSUME delegation \in {"result", "observed"}, NEW a \in ActsOf("child") PROVE ~OpenTool(a)
    <3>1. "child" \in Frames
      BY DEF Frames
    <3>2. PICK n, o : Cell("child", n, o) /\ a = acts["child"][n][o]
      BY <2>2, <2>4, <3>1
    <3> QED BY <2>4, <3>2 DEF ChildIsClosed
  <2>5. delivered <= 1 /\ (loopRoot.status = "SUCCEEDED" => delivered = 1)
    BY DEF FinalIsOnce
  <2> QED BY <2>1, <2>3, <2>4, <2>5 DEF ObservationIsWhole
<1> QED BY <1>1, LoopIsSound, PTL

=============================================================================
