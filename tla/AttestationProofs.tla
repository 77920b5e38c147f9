------------------------- MODULE AttestationProofs --------------------------
(***************************************************************************)
(* Proofs about the store under arbitrary callers, and about attestation   *)
(* beside them, for any number of binders and callers, any states they try *)
(* to save and any limits.  The steps of the store are those of            *)
(* StoreProofs.                                                            *)
(***************************************************************************)
EXTENDS Attestation, StoreProofs

-----------------------------------------------------------------------------
(* The store under arbitrary callers.                                      *)

LEMMA StoreStepInv == StoreInv /\ [Next]_storeVars => StoreInv'
<1> SUFFICES ASSUME StoreInv, [Next]_storeVars PROVE StoreInv'
  OBVIOUS
<1>1. CASE \E p \in Procs : Save(p)
  BY <1>1, SaveCheckInv, CandidatesAssumption DEF Save
<1>2. CASE \E p \in Procs : SaveAppend(p)
  BY <1>2, SaveAppendInv
<1>3. CASE \E p \in Procs : SaveReplace(p)
  BY <1>3, SaveReplaceInv
<1>7. CASE \E p \in Procs : SaveLost(p)
  BY <1>7, SaveLostInv
<1>4. CASE \E p \in Procs : Crash(p)
  BY <1>4, SaveCrashInv DEF Crash
<1>5. CASE \E r \in GrantRevisions \ lapsed : Lapse(r)
  <2>1. GrantRevisions \subseteq Nat
    BY CandidatesAssumption DEF GrantRevisions, Snapshot
  <2> QED
    BY <1>5, <2>1, LapseInv
<1>6. CASE UNCHANGED storeVars
  BY <1>6, StoreStutterInv
<1> QED
  BY <1>1, <1>2, <1>3, <1>4, <1>5, <1>6, <1>7 DEF Next

\* The store's variables keep their types whoever saves what, and whoever dies.
THEOREM StoreTypeCorrect == Spec => []StoreTypeOK
<1>1. StoreInv => StoreTypeOK
  BY DEF StoreInv
<1> QED
  BY <1>1, StoreInitInv, StoreStepInv, PTL DEF Spec

\* Whatever any number of processes save, crash over or race to append without
\* a lock, a history that verifies never goes back on itself: the compare of
\* _validate_successor and the hash chain are together enough.
THEOREM HistoryNeverGoesBack == Spec => []NeverGoesBack
<1>1. StoreInv => NeverGoesBack
  BY DEF StoreInv
<1> QED
  BY <1>1, StoreInitInv, StoreStepInv, PTL DEF Spec

-----------------------------------------------------------------------------
(* What binders know.                                                      *)

Heads == [state : Nat, count : Nat, events : 0 .. MaxEvents]

\* What heads say of the history is so.
HeadsHold(heads) ==
  /\ heads.state = heads.count
  /\ heads.count <= Len(history)
  /\ \A i \in 1 .. heads.count : history[i].prev = i - 1

BindingType ==
  [phase : {"idle", "history", "journal", "chain", "append"}, heads : Heads, prev : Nat]

\* What a binder has read so far is as true as what it will attest: the snapshot
\* is checked against the history as soon as the history is read, and nothing
\* takes a line of the history back afterwards.
BindersHold ==
  /\ journal \in 0 .. MaxEvents
  /\ attestations \in Seq([prev : Nat, heads : Heads])
  /\ binding \in [Binders -> BindingType]
  /\ \A b \in Binders :
       /\ binding[b].phase \in {"journal", "chain", "append"} => HeadsHold(binding[b].heads)
       /\ binding[b].phase \in {"chain", "append"} =>
            ~IsEmpty(binding[b].heads) /\ binding[b].heads.events <= journal
       /\ binding[b].phase = "append" => binding[b].prev <= Len(attestations)

AttestInv == BindersHold /\ AttestedPrefixHolds

LEMMA NotBindingType == NotBinding \in BindingType /\ NoHeads \in Heads
  BY MaxEventsAssumption DEF NotBinding, BindingType, NoHeads, Heads

LEMMA AttestInvInit == StoreInit /\ AttestationInit => AttestInv
<1> SUFFICES ASSUME StoreInit, AttestationInit PROVE AttestInv
  OBVIOUS
<1>1. binding \in [Binders -> BindingType] /\ \A b \in Binders : binding[b].phase = "idle"
  BY NotBindingType DEF AttestationInit, NotBinding
<1>2. BindersHold
  BY <1>1, MaxEventsAssumption DEF AttestationInit, BindersHold
<1>3. AttestedPrefixHolds
  BY DEF AttestationInit, AttestedPrefixHolds
<1> QED
  BY <1>2, <1>3 DEF AttestInv

-----------------------------------------------------------------------------
(* The callers of the store.                                               *)

\* Whatever the callers do, the history is only ever appended to.
LEMMA HistoryGrows ==
  ASSUME StoreInv, Next
  PROVE  /\ Len(history) \in Nat
         /\ Len(history) <= Len(history')
         /\ \A i \in 1 .. Len(history) : history'[i] = history[i]
<1>1. history \in Seq(Entry) /\ Len(history) \in Nat
  BY DEF StoreInv, StoreTypeOK
<1>2. CASE UNCHANGED history
  BY <1>1, <1>2
<1>3. CASE \E p \in Procs : SaveAppend(p)
  <2>1. PICK p \in Procs : SaveAppend(p)
    BY <1>3
  <2> DEFINE e == [prev |-> saving[p].base, snap |-> saving[p].next]
  <2>2. history' = Append(history, e)
    BY <2>1 DEF SaveAppend
  <2>3. e \in Entry
    BY DEF StoreInv, StoreTypeOK, SaveInProgress, Entry
  <2> HIDE DEF e
  <2> QED
    BY <1>1, <2>2, <2>3
<1>4. UNCHANGED history \/ \E p \in Procs : SaveAppend(p)
  BY DEF Next, Save, SaveCheck, SaveReplace, SaveLost, Crash, SaveCrash, Lapse
<1> QED
  BY <1>2, <1>3, <1>4

LEMMA CallerStep ==
  ASSUME StoreInv, AttestInv, Next, UNCHANGED attestationVars
  PROVE  AttestInv'
<1>1. ASSUME NEW heads \in Heads, HeadsHold(heads)
      PROVE  HeadsHold(heads)'
  <2>1. /\ Len(history) \in Nat /\ Len(history) <= Len(history')
        /\ \A i \in 1 .. Len(history) : history'[i] = history[i]
    BY HistoryGrows
  <2>2. heads.count \in Nat
    BY DEF Heads
  <2>3. Len(history') \in Nat
    <3>1. StoreInv'
      BY StoreStepInv
    <3> QED
      BY <3>1 DEF StoreInv, StoreTypeOK
  <2> QED
    BY <1>1, <2>1, <2>2, <2>3 DEF HeadsHold
<1>2. BindersHold'
  BY <1>1 DEF AttestInv, BindersHold, BindingType, attestationVars
<1>3. AttestedPrefixHolds'
  <2> SUFFICES ASSUME NEW k \in DOMAIN attestations
               PROVE  /\ attestations[k].prev < k
                      /\ attestations[k].heads \in ConstitutionalHeads
                      /\ ~IsEmpty(attestations[k].heads)
                      /\ HeadsHold(attestations[k].heads)'
                      /\ attestations[k].heads.events <= journal
    BY DEF AttestedPrefixHolds, attestationVars, HeadsHold
  <2>1. attestations[k].heads \in Heads
    BY DEF AttestInv, AttestedPrefixHolds, ConstitutionalHeads, Heads
  <2>2. HeadsHold(attestations[k].heads)
    BY DEF AttestInv, AttestedPrefixHolds, HeadsHold
  <2>3. HeadsHold(attestations[k].heads)'
    BY <1>1, <2>1, <2>2 DEF attestationVars, HeadsHold
  <2> QED
    BY <2>3 DEF AttestInv, AttestedPrefixHolds
<1> QED
  BY <1>2, <1>3 DEF AttestInv

-----------------------------------------------------------------------------
(* The binders.                                                            *)

\* A read changes what its binder knows, and nothing else.
LEMMA ReadingStep ==
  ASSUME AttestInv, UNCHANGED storeVars, UNCHANGED <<attestations, journal>>,
         NEW b \in Binders, NEW known \in BindingType,
         binding' = [binding EXCEPT ![b] = known],
         known.phase \in {"journal", "chain", "append"} => HeadsHold(known.heads),
         known.phase \in {"chain", "append"} =>
           ~IsEmpty(known.heads) /\ known.heads.events <= journal,
         known.phase = "append" => known.prev <= Len(attestations)
  PROVE  AttestInv'
<1>1. history' = history
  BY DEF storeVars
<1>2. BindersHold'
  <2>1. binding' \in [Binders -> BindingType]
    BY DEF AttestInv, BindersHold
  <2>2. ASSUME NEW c \in Binders
        PROVE  /\ binding'[c].phase \in {"journal", "chain", "append"} =>
                    HeadsHold(binding'[c].heads)
               /\ binding'[c].phase \in {"chain", "append"} =>
                    ~IsEmpty(binding'[c].heads) /\ binding'[c].heads.events <= journal
               /\ binding'[c].phase = "append" => binding'[c].prev <= Len(attestations)
    BY DEF AttestInv, BindersHold
  <2> QED
    BY <1>1, <2>1, <2>2 DEF AttestInv, BindersHold, HeadsHold, IsEmpty
<1>3. AttestedPrefixHolds'
  BY <1>1 DEF AttestInv, AttestedPrefixHolds, IsEmpty
<1> QED
  BY <1>2, <1>3 DEF AttestInv

LEMMA EndingStep ==
  ASSUME AttestInv, UNCHANGED storeVars, UNCHANGED <<attestations, journal>>,
         NEW b \in Binders, Ends(b)
  PROVE  AttestInv'
<1>1. NotBinding.phase = "idle"
  BY DEF NotBinding
<1> QED
  BY <1>1, NotBindingType, ReadingStep DEF Ends

LEMMA ReadStateStep ==
  ASSUME StoreInv, AttestInv, UNCHANGED storeVars, NEW b \in Binders, ReadState(b)
  PROVE  AttestInv'
<1>1. binding[b] \in BindingType
  BY DEF AttestInv, BindersHold
<1>2. CASE Reads(b, "journal", NoHeads)
  <2> DEFINE known == [binding[b] EXCEPT !.phase = "journal", !.heads = NoHeads]
  <2>1. known \in BindingType /\ known.phase = "journal" /\ known.heads = NoHeads
    BY <1>1, NotBindingType DEF BindingType
  <2>2. HeadsHold(NoHeads)
    <3>1. Len(history) \in Nat
      BY DEF StoreInv, StoreTypeOK
    <3> QED
      BY <3>1 DEF HeadsHold, NoHeads
  <2>3. binding' = [binding EXCEPT ![b] = known]
    BY <1>2 DEF Reads
  <2> HIDE DEF known
  <2> QED
    BY <2>1, <2>2, <2>3, ReadingStep DEF ReadState
<1>3. CASE Readable /\ Reads(b, "history", [NoHeads EXCEPT !.state = state_file])
  <2> DEFINE known == [binding[b] EXCEPT !.phase = "history",
                         !.heads = [NoHeads EXCEPT !.state = state_file]]
  <2>1. state_file \in Nat
    BY <1>3 DEF StoreInv, StoreTypeOK, Readable
  <2>2. known \in BindingType /\ known.phase = "history"
    BY <1>1, <2>1, NotBindingType DEF BindingType, Heads
  <2>3. binding' = [binding EXCEPT ![b] = known]
    BY <1>3 DEF Reads
  <2> HIDE DEF known
  <2> QED
    BY <2>2, <2>3, ReadingStep DEF ReadState
<1> QED
  BY <1>2, <1>3 DEF ReadState

\* The one check: the head of the history read now against the snapshot read
\* before.  It is what makes the heads hold.
LEMMA ReadHistoryStep ==
  ASSUME StoreInv, AttestInv, UNCHANGED storeVars, NEW b \in Binders, ReadHistory(b)
  PROVE  AttestInv'
<1>1. binding[b] \in BindingType
  BY DEF AttestInv, BindersHold
<1>2. CASE ChainIntact /\ Len(history) = binding[b].heads.state
  <2> DEFINE heads == [binding[b].heads EXCEPT !.count = Len(history)]
             known == [binding[b] EXCEPT !.phase = "journal", !.heads = heads]
  <2>1. history \in Seq(Entry) /\ Len(history) \in Nat
    BY DEF StoreInv, StoreTypeOK
  <2>2. /\ heads \in Heads
        /\ heads.state = Len(history) /\ heads.count = Len(history)
    BY <1>1, <1>2, <2>1 DEF BindingType, Heads
  <2>3. HeadsHold(heads)
    BY <1>2, <2>1, <2>2 DEF HeadsHold, ChainIntact
  <2>4. binding' = [binding EXCEPT ![b] = known]
    BY <1>2 DEF ReadHistory, Reads
  <2> HIDE DEF heads
  <2>5. known \in BindingType /\ known.phase = "journal" /\ known.heads = heads
    BY <1>1, <2>2 DEF BindingType
  <2> HIDE DEF known
  <2> QED
    BY <2>3, <2>4, <2>5, ReadingStep DEF ReadHistory
<1>3. CASE ~(ChainIntact /\ Len(history) = binding[b].heads.state)
  BY <1>3, EndingStep DEF ReadHistory
<1> QED
  BY <1>2, <1>3

LEMMA ReadJournalStep ==
  ASSUME AttestInv, UNCHANGED storeVars, NEW b \in Binders, ReadJournal(b)
  PROVE  AttestInv'
<1> DEFINE heads == [binding[b].heads EXCEPT !.events = journal]
           known == [binding[b] EXCEPT !.phase = "chain", !.heads = heads]
<1>1. binding[b] \in BindingType /\ journal \in 0 .. MaxEvents
  BY DEF AttestInv, BindersHold
<1>2. CASE IsEmpty(heads)
  BY <1>2, EndingStep DEF ReadJournal
<1>3. CASE ~IsEmpty(heads)
  <2>1. /\ heads \in Heads
        /\ heads.events = journal
        /\ heads.state = binding[b].heads.state
        /\ heads.count = binding[b].heads.count
    BY <1>1 DEF BindingType, Heads
  <2>2. HeadsHold(binding[b].heads)
    BY DEF ReadJournal, AttestInv, BindersHold
  <2>3. HeadsHold(heads)
    BY <2>1, <2>2 DEF HeadsHold
  <2>4. binding' = [binding EXCEPT ![b] = known]
    BY <1>3 DEF ReadJournal, Reads
  <2> HIDE DEF heads
  <2>5. known \in BindingType /\ known.phase = "chain" /\ known.heads = heads
    BY <1>1, <2>1 DEF BindingType
  <2>6. heads.events <= journal
    BY <1>1, <2>1, MaxEventsAssumption
  <2> HIDE DEF known
  <2> QED
    BY <1>3, <2>3, <2>4, <2>5, <2>6, ReadingStep DEF ReadJournal
<1> QED
  BY <1>2, <1>3

LEMMA ReadChainStep ==
  ASSUME AttestInv, UNCHANGED storeVars, NEW b \in Binders, ReadChain(b)
  PROVE  AttestInv'
<1> DEFINE known == [binding[b] EXCEPT !.phase = "append", !.prev = Len(attestations)]
<1>1. binding[b] \in BindingType /\ Len(attestations) \in Nat
  BY DEF AttestInv, BindersHold
<1>2. CASE Ends(b)
  BY <1>2, EndingStep DEF ReadChain
<1>3. CASE binding' = [binding EXCEPT ![b].phase = "append", ![b].prev = Len(attestations)]
  <2>1. /\ known \in BindingType
        /\ known.phase = "append" /\ known.heads = binding[b].heads
        /\ known.prev = Len(attestations)
    BY <1>1 DEF BindingType
  <2>2. /\ HeadsHold(binding[b].heads) /\ ~IsEmpty(binding[b].heads)
        /\ binding[b].heads.events <= journal
    BY DEF ReadChain, AttestInv, BindersHold
  <2>3. binding' = [binding EXCEPT ![b] = known]
    BY <1>3
  <2>4. UNCHANGED <<attestations, journal>>
    BY DEF ReadChain
  <2> HIDE DEF known
  <2>5. HeadsHold(known.heads) /\ ~IsEmpty(known.heads) /\ known.heads.events <= journal
    BY <2>1, <2>2
  <2>6. known.prev <= Len(attestations)
    BY <1>1, <2>1
  <2> QED
    BY <2>1, <2>3, <2>4, <2>5, <2>6, ReadingStep
<1> QED
  BY <1>2, <1>3 DEF ReadChain

\* What is appended has held since it was read.
LEMMA AppendAttestationStep ==
  ASSUME AttestInv, UNCHANGED storeVars, NEW b \in Binders, AppendAttestation(b)
  PROVE  AttestInv'
<1> DEFINE n == Len(attestations)
           a == [prev |-> binding[b].prev, heads |-> binding[b].heads]
<1>1. binding[b] \in BindingType /\ attestations \in Seq([prev : Nat, heads : Heads])
  BY DEF AttestInv, BindersHold
<1>2. n \in Nat /\ DOMAIN attestations = 1 .. n
  BY <1>1
<1>3. /\ a.prev <= n /\ a.heads \in Heads /\ HeadsHold(a.heads)
      /\ ~IsEmpty(a.heads) /\ a.heads.events <= journal
  BY <1>1 DEF AppendAttestation, AttestInv, BindersHold, BindingType
<1>4. a \in [prev : Nat, heads : Heads]
  BY <1>1 DEF BindingType
<1>5. attestations' = Append(attestations, a)
  BY DEF AppendAttestation
<1> HIDE DEF a
<1>6. /\ attestations' \in Seq([prev : Nat, heads : Heads])
      /\ Len(attestations') = n + 1
      /\ DOMAIN attestations' = 1 .. (n + 1)
      /\ attestations'[n + 1] = a
      /\ \A k \in 1 .. n : attestations'[k] = attestations[k]
  BY <1>1, <1>4, <1>5
<1>7. history' = history /\ journal' = journal
  BY DEF storeVars, AppendAttestation
<1>8. BindersHold'
  <2>1. binding' \in [Binders -> BindingType]
    BY NotBindingType DEF AppendAttestation, Ends, AttestInv, BindersHold
  <2>2. ASSUME NEW c \in Binders
        PROVE  binding'[c].phase = "idle" \/ binding'[c] = binding[c]
    BY DEF AppendAttestation, Ends, NotBinding, AttestInv, BindersHold
  <2>3. \A c \in Binders : binding[c].prev \in Nat
    BY DEF AttestInv, BindersHold, BindingType
  <2> QED
    BY <1>2, <1>6, <1>7, <2>1, <2>2, <2>3 DEF AttestInv, BindersHold, HeadsHold, IsEmpty
<1>9. AttestedPrefixHolds'
  <2> SUFFICES ASSUME NEW k \in 1 .. (n + 1)
               PROVE  /\ attestations'[k].prev < k
                      /\ attestations'[k].heads \in ConstitutionalHeads
                      /\ ~IsEmpty(attestations'[k].heads)
                      /\ HeadsHold(attestations'[k].heads)
                      /\ attestations'[k].heads.events <= journal
    BY <1>6, <1>7 DEF AttestedPrefixHolds, HeadsHold, IsEmpty
  <2>1. CASE k = n + 1
    <3>1. a.prev < n + 1
      BY <1>2, <1>3, <1>4
    <3> QED
      BY <2>1, <3>1, <1>3, <1>6 DEF Heads, ConstitutionalHeads
  <2>2. CASE k \in 1 .. n
    BY <2>2, <1>2, <1>6 DEF AttestInv, AttestedPrefixHolds, HeadsHold
  <2> QED
    BY <1>2, <2>1, <2>2
<1> QED
  BY <1>8, <1>9 DEF AttestInv

LEMMA JournalEventStep ==
  ASSUME AttestInv, UNCHANGED storeVars, JournalEvent
  PROVE  AttestInv'
<1>1. /\ history' = history /\ UNCHANGED <<attestations, binding>>
      /\ journal \in 0 .. MaxEvents /\ journal' \in 0 .. MaxEvents /\ journal <= journal'
  BY MaxEventsAssumption DEF storeVars, JournalEvent, AttestInv, BindersHold
<1>2. BindersHold'
  <2>1. \A b \in Binders : binding[b].heads.events \in 0 .. MaxEvents
    BY DEF AttestInv, BindersHold, BindingType, Heads
  <2> QED
    BY <1>1, <2>1, MaxEventsAssumption DEF AttestInv, BindersHold, HeadsHold, IsEmpty
<1>3. AttestedPrefixHolds'
  <2>1. \A k \in DOMAIN attestations : attestations[k].heads.events \in 0 .. MaxEvents
    BY DEF AttestInv, AttestedPrefixHolds, ConstitutionalHeads
  <2> QED
    BY <1>1, <2>1, MaxEventsAssumption DEF AttestInv, AttestedPrefixHolds, IsEmpty
<1> QED
  BY <1>2, <1>3 DEF AttestInv

-----------------------------------------------------------------------------
(* Both together.                                                          *)

LEMMA AttestStepInv ==
  StoreInv /\ AttestInv /\ [AttestingNext]_<<storeVars, attestationVars>>
    => (StoreInv /\ AttestInv)'
<1> SUFFICES ASSUME StoreInv, AttestInv, [AttestingNext]_<<storeVars, attestationVars>>
             PROVE  (StoreInv /\ AttestInv)'
  OBVIOUS
<1>1. CASE Next /\ UNCHANGED attestationVars
  BY <1>1, StoreStepInv, CallerStep
<1>2. CASE AttestationNext /\ UNCHANGED storeVars
  <2>1. StoreInv'
    BY <1>2, StoreStutterInv
  <2>2. ASSUME NEW b \in Binders, BinderCrash(b)
        PROVE  AttestInv'
    BY <1>2, <2>2, EndingStep DEF BinderCrash
  <2>3. AttestInv'
    BY <1>2, <2>2, ReadStateStep, ReadHistoryStep, ReadJournalStep, ReadChainStep,
       AppendAttestationStep, JournalEventStep DEF AttestationNext
  <2> QED
    BY <2>1, <2>3
<1>3. CASE UNCHANGED <<storeVars, attestationVars>>
  <2>1. AttestInv'
    BY <1>3 DEF AttestInv, BindersHold, AttestedPrefixHolds, HeadsHold, IsEmpty,
                storeVars, attestationVars
  <2> QED
    BY <1>3, <2>1, StoreStutterInv
<1> QED
  BY <1>1, <1>2, <1>3 DEF AttestingNext

\* What was attested once stays true for ever, however many binders and callers
\* of the store there are and whatever they interleave, fork, tear or lose: the
\* second read of the history, against the snapshot of the first, is enough.
THEOREM AttestedStaysTrue == AttestingSpec => []AttestedPrefixHolds
<1>1. StoreInit /\ AttestationInit => StoreInv /\ AttestInv
  BY StoreInitInv, AttestInvInit
<1>2. StoreInv /\ AttestInv => AttestedPrefixHolds
  BY DEF AttestInv
<1> QED
  BY <1>1, <1>2, AttestStepInv, PTL DEF AttestingSpec
=============================================================================
