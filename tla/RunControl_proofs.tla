-------------------------- MODULE RunControl_proofs --------------------------
(***************************************************************************)
(* What the proofs about the holders of a run's lease share: the control   *)
(* row keeps its type, a token has one holder, and nobody gains the run    *)
(* but by taking it over.                                                  *)
(***************************************************************************)
EXTENDS RunControl, FiniteSetTheorems, TLAPS

USE ControlAssumption DEF ControlAssumption, controlVars

LEMMA SetOfAtMostOne ==
  ASSUME NEW S, \A a, b \in S : a = b
  PROVE  \/ S = {} /\ Cardinality(S) = 0
         \/ S # {} /\ Cardinality(S) = 1
<1>1. CASE S = {}
  BY <1>1, FS_EmptySet
<1>2. CASE S # {}
  <2>1. PICK a \in S : TRUE
    BY <1>2
  <2>2. S = {a}
    BY <2>1
  <2>3. Cardinality({a}) = 1
    BY FS_Singleton
  <2> QED BY <1>2, <2>2, <2>3
<1> QED BY <1>1, <1>2

-----------------------------------------------------------------------------
(* The control row.                                                        *)

LEMMA ControlRowUpdates ==
  ASSUME NEW r \in ControlRow, NEW o \in Owners \cup {NoOwner}, NEW t \in 0..MaxToken,
         NEW n \in 0..LeaseTicks
  PROVE  /\ [r EXCEPT !.owner = o, !.lease = n] \in ControlRow
         /\ [r EXCEPT !.owner = o, !.token = t, !.lease = n] \in ControlRow
         /\ [r EXCEPT !.state = "CLOSED", !.owner = o, !.lease = n] \in ControlRow
<1>1. ASSUME NEW q \in ControlRow
      PROVE  /\ [q EXCEPT !.owner = o] \in ControlRow
             /\ [q EXCEPT !.token = t] \in ControlRow
             /\ [q EXCEPT !.lease = n] \in ControlRow
             /\ [q EXCEPT !.state = "CLOSED"] \in ControlRow
  BY DEF ControlRow
<1>2. [[r EXCEPT !.owner = o] EXCEPT !.lease = n] \in ControlRow
  BY <1>1
<1>3. [[[r EXCEPT !.owner = o] EXCEPT !.token = t] EXCEPT !.lease = n] \in ControlRow
  BY <1>1
<1>4. [[[r EXCEPT !.state = "CLOSED"] EXCEPT !.owner = o] EXCEPT !.lease = n] \in ControlRow
  BY <1>1
<1> QED BY <1>2, <1>3, <1>4

\* What the lease service does to the control row keeps its type.
LEMMA ControlType ==
  ASSUME ControlTypeOK, NEW l \in Lanes,
         \/ Claim(l) \/ Renew(l) \/ Release(l) \/ RequestCancel \/ LeaseRunsDown
         \/ CloseTerminal /\ held' = [held EXCEPT ![l] = 0]
         \/ UNCHANGED control /\ held' = [held EXCEPT ![l] = 0]
         \/ UNCHANGED controlVars
  PROVE  ControlTypeOK'
<1> USE DEF ControlTypeOK
<1>0. /\ OwnerOf[l] \in Owners \cup {NoOwner} /\ NoOwner \in Owners \cup {NoOwner}
      /\ LeaseTicks \in 0..LeaseTicks /\ 0 \in 0..LeaseTicks /\ 0 \in 0..MaxToken
      /\ control.token \in 0..MaxToken
  BY DEF ControlRow
<1>1. CASE ClaimRenews(l)
  BY <1>0, <1>1 DEF ClaimRenews, ControlRow
<1>2. CASE ClaimTakesOver(l)
  <2>1. control.token + 1 \in 0..MaxToken
    BY <1>0, <1>2 DEF ClaimTakesOver
  <2>2. held' \in [Lanes -> 0..MaxToken]
    BY <1>2, <2>1 DEF ClaimTakesOver
  <2>3. control' \in ControlRow
    BY <1>0, <1>2, <2>1, ControlRowUpdates DEF ClaimTakesOver
  <2> QED BY <2>2, <2>3
<1>3. CASE Renew(l)
  BY <1>3 DEF Renew, Current, ControlRow
<1>4. CASE Release(l)
  BY <1>0, <1>4, ControlRowUpdates DEF Release
<1>5. CASE RequestCancel
  BY <1>5 DEF RequestCancel, ControlRow
<1>6. CASE LeaseRunsDown
  BY <1>6 DEF LeaseRunsDown, ControlRow
<1>7. CASE CloseTerminal /\ held' = [held EXCEPT ![l] = 0]
  BY <1>0, <1>7, ControlRowUpdates DEF CloseTerminal
<1>8. CASE UNCHANGED control /\ held' = [held EXCEPT ![l] = 0]
  BY <1>0, <1>8
<1>9. CASE UNCHANGED controlVars
  BY <1>9
<1> QED BY <1>1, <1>2, <1>3, <1>4, <1>5, <1>6, <1>7, <1>8, <1>9 DEF Claim


-----------------------------------------------------------------------------
(* Holders that claim only what nobody holds.                              *)

\* No token is in two hands, and none is newer than the row's.
TokensAreApart ==
    /\ ControlTypeOK
    /\ \A l \in Lanes : held[l] <= control.token
    /\ \A l, m \in Lanes : l # m /\ held[l] = held[m] => held[l] = 0

LEMMA CurrentIsOne ==
  ASSUME TokensAreApart, NEW l \in Lanes, NEW m \in Lanes, Current(l), Current(m)
  PROVE  l = m
  BY DEF TokensAreApart, Current

\* Nobody becomes the present holder, or the owner of a live lease.
NobodyGains ==
    /\ \A m \in Lanes : Current(m)' => Current(m)
    /\ \A m \in Lanes : Live' /\ control'.owner = OwnerOf[m] => Live /\ control.owner = OwnerOf[m]

LEMMA ControlKeeps ==
  ASSUME TokensAreApart, NEW l \in Lanes,
         \/ Renew(l) \/ Release(l) \/ LeaseRunsDown
         \/ CloseTerminal /\ held' = [held EXCEPT ![l] = 0]
         \/ UNCHANGED control /\ held' = [held EXCEPT ![l] = 0]
         \/ UNCHANGED controlVars
  PROVE  TokensAreApart' /\ NobodyGains
<1>0. ControlTypeOK'
  BY ControlType DEF TokensAreApart
<1>1. /\ control.token \in Nat /\ control'.token = control.token
      /\ held' = held \/ held' = [held EXCEPT ![l] = 0]
  <2> USE DEF TokensAreApart, ControlTypeOK, ControlRow
  <2>1. CASE Renew(l) \/ LeaseRunsDown \/ UNCHANGED controlVars
    BY <2>1 DEF Renew, LeaseRunsDown
  <2>2. CASE Release(l)
    BY <2>2 DEF Release
  <2>3. CASE CloseTerminal /\ held' = [held EXCEPT ![l] = 0]
    BY <2>3 DEF CloseTerminal
  <2>4. CASE UNCHANGED control /\ held' = [held EXCEPT ![l] = 0]
    BY <2>4
  <2> QED BY <2>1, <2>2, <2>3, <2>4
<1>2. TokensAreApart'
  BY <1>0, <1>1 DEF TokensAreApart, ControlTypeOK
<1>3. /\ control'.state = control.state \/ control'.state = "CLOSED"
      /\ \/ control'.lease = 0
         \/ Live /\ control'.owner = control.owner
         \/ control' = control
  BY DEF TokensAreApart, ControlTypeOK, ControlRow, Renew, Release, LeaseRunsDown, CloseTerminal,
         Live, Current
<1>4. NobodyGains
  BY <1>0, <1>1, <1>2, <1>3 DEF TokensAreApart, ControlTypeOK, NobodyGains, Current, Live
<1> QED BY <1>2, <1>4

LEMMA ControlStill ==
  ASSUME TokensAreApart, UNCHANGED controlVars \/ LeaseRunsDown
  PROVE  TokensAreApart' /\ NobodyGains
<1>1. CASE UNCHANGED controlVars
  BY <1>1 DEF TokensAreApart, ControlTypeOK, NobodyGains, Current, Live
<1>2. CASE LeaseRunsDown
  <2>1. /\ control.lease \in 0..LeaseTicks /\ control.lease > 0 /\ LeaseTicks \in Nat
        /\ control' = [control EXCEPT !.lease = control.lease - 1] /\ UNCHANGED held
    BY <1>2 DEF LeaseRunsDown, TokensAreApart, ControlTypeOK, ControlRow
  <2>2. /\ control' \in ControlRow /\ control'.token = control.token
        /\ control'.state = control.state /\ control'.owner = control.owner
    BY <2>1 DEF TokensAreApart, ControlTypeOK, ControlRow
  <2> QED BY <2>1, <2>2 DEF TokensAreApart, ControlTypeOK, NobodyGains, Current, Live
<1> QED BY <1>1, <1>2

\* A new token is nobody's, and a lease that has run out stays so.
LEMMA TokenMoves ==
  ASSUME TokensAreApart, ~Live, control.token < MaxToken,
         control' = [control EXCEPT !.token = @ + 1], UNCHANGED held
  PROVE  TokensAreApart' /\ NobodyGains
<1>1. /\ control.token \in Nat /\ control'.token = control.token + 1
      /\ control' \in ControlRow /\ control'.lease = control.lease
  BY DEF TokensAreApart, ControlTypeOK, ControlRow
<1> QED BY <1>1 DEF TokensAreApart, ControlTypeOK, NobodyGains, Current, Live

LEMMA TakeOverIsExclusive ==
  ASSUME TokensAreApart, NEW l \in Lanes, ClaimTakesOver(l)
  PROVE  /\ TokensAreApart'
         /\ control'.owner = OwnerOf[l]
         /\ \A m \in Lanes \ {l} : ~Current(m)'
<1>0. ControlTypeOK'
  BY ControlType DEF TokensAreApart, Claim
<1>1. /\ control.token \in Nat /\ control'.token = control.token + 1
      /\ control'.owner = OwnerOf[l] /\ held' = [held EXCEPT ![l] = control.token + 1]
  BY DEF TokensAreApart, ControlTypeOK, ControlRow, ClaimTakesOver
<1>2. \A m \in Lanes : held[m] \in Nat /\ held[m] <= control.token
  BY DEF TokensAreApart, ControlTypeOK
<1>3. TokensAreApart'
  BY <1>0, <1>1, <1>2 DEF TokensAreApart, ControlTypeOK
<1> QED BY <1>1, <1>2, <1>3 DEF TokensAreApart, ControlTypeOK, Current

=============================================================================
