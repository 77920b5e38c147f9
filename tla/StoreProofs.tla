---------------------------- MODULE StoreProofs -----------------------------
(***************************************************************************)
(* Proofs about the steps of the constitutional store, for any set of      *)
(* processes, any states they may try to save and any limits.  Each lemma  *)
(* assumes only the invariant and one step, so that it serves every module *)
(* that builds on the store.                                               *)
(***************************************************************************)
EXTENDS ConstitutionalStore, TLAPS

\* An append under way follows the entry its process validated against.
AppendsFollow ==
  \A p \in Procs : saving[p].phase = "append" =>
    \/ saving[p].base = NoFile
    \/ /\ saving[p].base \in DOMAIN history
       /\ Successor(history[saving[p].base].snap, saving[p].next)

\* The inductive invariant: NeverGoesBack alone says nothing of the entries
\* that are still to be appended.
StoreInv == StoreTypeOK /\ AppendsFollow /\ NeverGoesBack

-----------------------------------------------------------------------------
(* Snapshots.                                                              *)

\* What _validate_successor lets through never goes back.
LEMMA SuccessorSucceeds ==
  ASSUME NEW a \in Snapshot, NEW b \in Snapshot, Successor(a, b)
  PROVE  Succeeds(a, b)
<1>1. a.revision \in Nat /\ b.revision \in Nat
  BY DEF Snapshot
<1> QED
  BY <1>1 DEF Successor, Succeeds

\* Not going back is transitive: within one revision the mode is the same, so
\* the usage of the first and of the last can be compared through the middle.
LEMMA SucceedsTransitive ==
  ASSUME NEW a \in Snapshot, NEW b \in Snapshot, NEW c \in Snapshot,
         Succeeds(a, b), Succeeds(b, c)
  PROVE  Succeeds(a, c)
<1>1. /\ a.revision \in Nat /\ b.revision \in Nat /\ c.revision \in Nat
      /\ a.used \in Nat /\ b.used \in Nat /\ c.used \in Nat
      /\ a.ticks \in Nat /\ b.ticks \in Nat /\ c.ticks \in Nat
  BY DEF Snapshot
<1>2. a.revision <= c.revision
  BY <1>1 DEF Succeeds
<1>3. ASSUME a.revision = c.revision
      PROVE  a.revision = b.revision /\ b.revision = c.revision
  BY <1>1, <1>3 DEF Succeeds
<1> QED
  BY <1>1, <1>2, <1>3 DEF Succeeds

LEMMA GenesisType == Genesis \in Snapshot
  BY DEF Genesis, Snapshot, Modes

LEMMA NotSavingType == NotSaving \in SaveInProgress
  BY GenesisType DEF NotSaving, SaveInProgress, NoFile

-----------------------------------------------------------------------------
(* The steps of a save.                                                    *)

LEMMA StoreInitInv == StoreInit => StoreInv
<1> SUFFICES ASSUME StoreInit PROVE StoreInv
  OBVIOUS
<1>1. StoreTypeOK
  <2>1. saving \in [Procs -> SaveInProgress]
    BY NotSavingType DEF StoreInit
  <2>2. history \in Seq(Entry)
    BY DEF StoreInit
  <2>3. state_file \in Nat /\ history_torn \in BOOLEAN /\ lapsed \in SUBSET Nat
    BY DEF StoreInit, NoFile
  <2> QED
    BY <2>1, <2>2, <2>3 DEF StoreTypeOK
<1>2. AppendsFollow
  BY DEF StoreInit, AppendsFollow, NotSaving
<1>3. NeverGoesBack
  BY DEF StoreInit, NeverGoesBack
<1> QED
  BY <1>1, <1>2, <1>3 DEF StoreInv

LEMMA SaveCheckInv ==
  ASSUME StoreInv, NEW p \in Procs, NEW s \in Snapshot, NEW expired,
         SaveCheck(p, s, expired)
  PROVE  StoreInv'
<1> DEFINE new == [NotSaving EXCEPT !.phase = "append", !.base = state_file,
                                    !.next = s]
<1>1. saving' = [saving EXCEPT ![p] = new]
  BY DEF SaveCheck
<1>2. UNCHANGED <<state_file, history, history_torn, lapsed>>
  BY DEF SaveCheck
<1>3. history \in Seq(Entry) /\ Len(history) \in Nat
  BY DEF StoreInv, StoreTypeOK
<1>4. state_file \in Nat
  BY <1>3 DEF SaveCheck, CanSave, Readable, NoFile
<1>5. new \in SaveInProgress
  BY <1>4, NotSavingType DEF NotSaving, SaveInProgress
<1>6. StoreTypeOK'
  BY <1>1, <1>2, <1>5 DEF StoreInv, StoreTypeOK
<1>7. new.phase = "append" /\ new.base = state_file /\ new.next = s
  BY DEF NotSaving
<1>8. \/ new.base = NoFile
      \/ /\ new.base \in DOMAIN history
         /\ Successor(history[new.base].snap, new.next)
  <2>1. CASE state_file = NoFile
    BY <2>1, <1>7
  <2>2. CASE state_file # NoFile
    <3>1. state_file \in 1 .. Len(history)
      BY <2>2, <1>3, <1>4 DEF SaveCheck, CanSave, Readable, NoFile
    <3>2. Successor(history[state_file].snap, s)
      BY <2>2 DEF SaveCheck, CanSave, Current
    <3>3. DOMAIN history = 1 .. Len(history)
      BY <1>3
    <3> QED
      BY <3>1, <3>2, <3>3, <1>7
  <2> QED
    BY <2>1, <2>2
<1> HIDE DEF new
<1>9. AppendsFollow'
  BY <1>1, <1>2, <1>8 DEF StoreInv, StoreTypeOK, AppendsFollow
<1>10. NeverGoesBack'
  BY <1>2 DEF StoreInv, NeverGoesBack, ChainIntact
<1> QED
  BY <1>6, <1>9, <1>10 DEF StoreInv

\* The one step that extends the history.  Two processes may both be about to
\* append after the same entry; the second to do so breaks the chain.
LEMMA SaveAppendInv ==
  ASSUME StoreInv, NEW p \in Procs, SaveAppend(p)
  PROVE  StoreInv'
<1> DEFINE e == [prev |-> saving[p].base, snap |-> saving[p].next]
           n == Len(history)
<1>1. /\ saving \in [Procs -> SaveInProgress]
      /\ history \in Seq(Entry)
      /\ n \in Nat
      /\ DOMAIN history = 1 .. n
  BY DEF StoreInv, StoreTypeOK
<1>0. n \in Nat
  BY <1>1
<1>2. e \in Entry /\ e.prev = saving[p].base /\ e.snap = saving[p].next
  BY <1>1 DEF Entry, SaveInProgress
<1>3. history' = Append(history, e)
  BY DEF SaveAppend
<1> HIDE DEF e
<1>4. /\ history' \in Seq(Entry)
      /\ Len(history') = n + 1
      /\ DOMAIN history' = 1 .. (n + 1)
      /\ history'[n + 1] = e
      /\ \A i \in 1 .. n : history'[i] = history[i]
  BY <1>1, <1>2, <1>3
<1>5. saving' \in [Procs -> SaveInProgress]
  <2> DEFINE share(q) == saving[q].shared \/ q \in Staging
             mine == [saving[p] EXCEPT !.phase = "replace", !.entry = n + 1,
                                       !.shared = Staging # {}]
             theirs(q) == [saving[q] EXCEPT !.shared = share(q)]
  <2>1. saving' = [q \in Procs |-> IF q = p THEN mine ELSE theirs(q)]
    BY DEF SaveAppend
  <2>2. (Staging # {}) \in BOOLEAN
    BY Zenon
  <2>3. mine \in SaveInProgress
    <3>1. ASSUME NEW b \in BOOLEAN
          PROVE  [saving[p] EXCEPT !.phase = "replace", !.entry = n + 1,
                                   !.shared = b] \in SaveInProgress
      <4>1. saving[p] \in SaveInProgress /\ n + 1 \in Nat
        BY <1>0, <1>1
      <4> HIDE DEF n
      <4> QED
        BY <4>1 DEF SaveInProgress
    <3> QED
      BY <2>2, <3>1
  <2>4. ASSUME NEW q \in Procs
        PROVE  theirs(q) \in SaveInProgress
    <3>1. share(q) \in BOOLEAN
      BY Zenon
    <3> HIDE DEF share
    <3> QED
      BY <1>1, <3>1 DEF SaveInProgress
  <2> HIDE DEF mine, theirs
  <2> QED
    BY <2>1, <2>3, <2>4
<1>6. StoreTypeOK'
  BY <1>4, <1>5 DEF StoreInv, StoreTypeOK, SaveAppend
<1>7. AppendsFollow'
  <2> SUFFICES ASSUME NEW q \in Procs, saving'[q].phase = "append",
                      saving'[q].base # NoFile
               PROVE  /\ saving'[q].base \in DOMAIN history'
                      /\ Successor(history'[saving'[q].base].snap, saving'[q].next)
    BY DEF AppendsFollow
  <2>1. /\ saving[q].phase = "append"
        /\ saving'[q].base = saving[q].base
        /\ saving'[q].next = saving[q].next
    <3>1. q # p
      BY <1>1 DEF SaveAppend, SaveInProgress
    <3>2. saving'[q] = [saving[q] EXCEPT !.shared = saving[q].shared \/ q \in Staging]
      BY <3>1 DEF SaveAppend
    <3> QED
      BY <3>2, <1>1 DEF SaveInProgress
  <2>2. /\ saving[q].base \in 1 .. n
        /\ Successor(history[saving[q].base].snap, saving[q].next)
    BY <2>1, <1>1 DEF StoreInv, AppendsFollow
  <2> QED
    BY <2>1, <2>2, <1>1, <1>4
<1>8. NeverGoesBack'
  <2> SUFFICES ASSUME ChainIntact',
                      NEW i \in 1 .. (n + 1), NEW j \in 1 .. (n + 1), i < j
               PROVE  Succeeds(history'[i].snap, history'[j].snap)
    BY <1>4 DEF NeverGoesBack
  <2>1. ChainIntact
    <3>1. ~history_torn
      BY DEF ChainIntact, SaveAppend
    <3>2. \A k \in 1 .. n : history[k].prev = k - 1
      BY <1>1, <1>4 DEF ChainIntact
    <3> QED
      BY <3>1, <3>2, <1>1 DEF ChainIntact
  <2>2. i \in 1 .. n
    BY <1>1
  <2>3. CASE j \in 1 .. n
    BY <2>1, <2>2, <2>3, <1>1, <1>4 DEF StoreInv, NeverGoesBack
  <2>4. CASE j = n + 1
    <3>1. e.prev = n
      BY <1>1, <1>4 DEF ChainIntact
    <3>2. n \in 1 .. n /\ saving[p].base = n
      BY <3>1, <2>2, <1>1, <1>2
    <3>3. Successor(history[n].snap, e.snap)
      <4>1. saving[p].phase = "append" /\ saving[p].base # NoFile
        <5>1. n # NoFile
          BY <3>2, <1>0 DEF NoFile
        <5> QED
          BY <5>1, <3>2 DEF SaveAppend
      <4>2. Successor(history[saving[p].base].snap, saving[p].next)
        BY <4>1 DEF StoreInv, AppendsFollow
      <4> QED
        BY <4>2, <3>2, <1>2
    <3>4. /\ history[n].snap \in Snapshot
          /\ history[i].snap \in Snapshot
          /\ e.snap \in Snapshot
      <4>1. history[n] \in Entry /\ history[i] \in Entry
        BY <3>2, <2>2, <1>1
      <4> QED
        BY <4>1, <1>2 DEF Entry
    <3>5. Succeeds(history[n].snap, e.snap)
      BY <3>3, <3>4, SuccessorSucceeds
    <3>6. CASE i = n
      BY <3>5, <3>6, <2>4, <3>2, <1>4
    <3>7. CASE i # n
      <4>1. Succeeds(history[i].snap, history[n].snap)
        <5>1. i < n
          BY <3>7, <2>2, <1>0
        <5>2. i \in DOMAIN history /\ n \in DOMAIN history
          BY <3>2, <2>2, <1>1
        <5> QED
          BY <5>1, <5>2, <2>1 DEF StoreInv, NeverGoesBack
      <4>2. Succeeds(history[i].snap, e.snap)
        BY <4>1, <3>4, <3>5, SucceedsTransitive
      <4> QED
        BY <4>2, <2>2, <2>4, <1>4
    <3> QED
      BY <3>6, <3>7
  <2> QED
    BY <2>3, <2>4, <1>1
<1> QED
  BY <1>6, <1>7, <1>8 DEF StoreInv

LEMMA SaveReplaceInv ==
  ASSUME StoreInv, NEW p \in Procs, SaveReplace(p)
  PROVE  StoreInv'
<1>1. saving' = [saving EXCEPT ![p] = NotSaving]
      /\ UNCHANGED <<history, history_torn, lapsed>>
  BY DEF SaveReplace
<1>2. state_file' \in Nat \union {Torn}
  <2>1. \A q \in Procs : saving[q].entry \in Nat
    BY DEF StoreInv, StoreTypeOK, SaveInProgress
  <2> QED
    BY <2>1 DEF StoreInv, StoreTypeOK, SaveReplace, Staging
<1>3. StoreTypeOK'
  BY <1>1, <1>2, NotSavingType DEF StoreInv, StoreTypeOK
<1>4. AppendsFollow'
  BY <1>1 DEF StoreInv, StoreTypeOK, AppendsFollow, NotSaving
<1>5. NeverGoesBack'
  BY <1>1 DEF StoreInv, NeverGoesBack, ChainIntact
<1> QED
  BY <1>3, <1>4, <1>5 DEF StoreInv

LEMMA SaveLostInv ==
  ASSUME StoreInv, NEW p \in Procs, SaveLost(p)
  PROVE  StoreInv'
<1>1. saving' = [saving EXCEPT ![p] = NotSaving]
      /\ UNCHANGED <<state_file, history, history_torn, lapsed>>
  BY DEF SaveLost
<1>2. StoreTypeOK'
  BY <1>1, NotSavingType DEF StoreInv, StoreTypeOK
<1>3. AppendsFollow'
  BY <1>1 DEF StoreInv, StoreTypeOK, AppendsFollow, NotSaving
<1>4. NeverGoesBack'
  BY <1>1 DEF StoreInv, NeverGoesBack, ChainIntact
<1> QED
  BY <1>2, <1>3, <1>4 DEF StoreInv

LEMMA SaveCrashInv ==
  ASSUME StoreInv, NEW p \in Procs, SaveCrash(p)
  PROVE  StoreInv'
<1>1. /\ saving' = [saving EXCEPT ![p] = NotSaving]
      /\ UNCHANGED <<state_file, history, lapsed>>
      /\ history_torn' = history_torn \/ history_torn' = TRUE
  BY DEF SaveCrash
<1>2. StoreTypeOK'
  BY <1>1, NotSavingType DEF StoreInv, StoreTypeOK
<1>3. AppendsFollow'
  BY <1>1 DEF StoreInv, StoreTypeOK, AppendsFollow, NotSaving
<1>4. NeverGoesBack'
  BY <1>1 DEF StoreInv, NeverGoesBack, ChainIntact
<1> QED
  BY <1>2, <1>3, <1>4 DEF StoreInv

LEMMA LapseInv ==
  ASSUME StoreInv, NEW r \in Nat, Lapse(r)
  PROVE  StoreInv'
<1>1. UNCHANGED <<state_file, history, history_torn, saving>>
  BY DEF Lapse
<1>2. lapsed' \in SUBSET Nat
  BY DEF StoreInv, StoreTypeOK, Lapse
<1> QED
  BY <1>1, <1>2 DEF StoreInv, StoreTypeOK, AppendsFollow, NeverGoesBack, ChainIntact

LEMMA StoreStutterInv ==
  ASSUME StoreInv, UNCHANGED storeVars
  PROVE  StoreInv'
  BY DEF storeVars, StoreInv, StoreTypeOK, AppendsFollow, NeverGoesBack, ChainIntact
=============================================================================
