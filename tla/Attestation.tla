---------------------------- MODULE Attestation -----------------------------
(***************************************************************************)
(* Anchor attestation of the constitutional state                          *)
(* (constitutional_attestation.py): `anchor bind` reads the head of the    *)
(* state store, the head of the action journal and its own chain, one      *)
(* after the other and without a lock, signs what it read and appends it   *)
(* to anchor_attestations.jsonl.  Callers of the store save meanwhile, and *)
(* two binders may be at work.  The anchor itself is Anchor's; here it     *)
(* stays what it is.  A position stands for a hash, as in the store.       *)
(***************************************************************************)
EXTENDS StoreClients

CONSTANTS
  Binders,           \* processes that may be binding
  MaxAttestations,   \* bound on the attestations made
  MaxEvents          \* bound on the journal of actions

ASSUME MaxEventsAssumption == MaxEvents \in Nat

VARIABLES
  attestations,      \* anchor_attestations.jsonl
  attestations_torn, \* TRUE once a line of it has been cut short
  journal,           \* events in action_events.jsonl, which only grows
  binding            \* per binder: what it has read so far

attestationVars == <<attestations, attestations_torn, journal, binding>>

\* `state` is the snapshot that load_snapshot_for_recovery returned, `count` the
\* length of the history read after it.
ConstitutionalHeads == [state : Nat, count : Nat, events : 0 .. MaxEvents]

NoHeads == [state |-> 0, count |-> 0, events |-> 0]

IsEmpty(heads) == heads.count = 0 /\ heads.events = 0

NotBinding == [phase |-> "idle", heads |-> NoHeads, prev |-> 0]

AttestationInit ==
  /\ attestations = <<>>
  /\ attestations_torn = FALSE
  /\ journal = 0
  /\ binding = [b \in Binders |-> NotBinding]

\* The command ends: it is done, or it has raised.
Ends(b) == binding' = [binding EXCEPT ![b] = NotBinding]

Reads(b, phase, heads) ==
  binding' = [binding EXCEPT ![b].phase = phase, ![b].heads = heads]

-----------------------------------------------------------------------------
(* current_heads.                                                          *)

\* The canonical snapshot, validated against the history, its lease expired or
\* not; this raises when they disagree.
ReadState(b) ==
  /\ binding[b].phase = "idle"
  /\ \/ state_file = NoFile /\ Reads(b, "journal", NoHeads)
     \/ Readable /\ Reads(b, "history", [NoHeads EXCEPT !.state = state_file])
  /\ UNCHANGED <<attestations, attestations_torn, journal>>

\* Variant of ReadHistory that does not compare its head with the snapshot.
ReadHistoryUnchecked(b) ==
  /\ binding[b].phase = "history"
  /\ IF ChainIntact
     THEN Reads(b, "journal", [binding[b].heads EXCEPT !.count = Len(history)])
     ELSE Ends(b)
  /\ UNCHANGED <<attestations, attestations_torn, journal>>

\* The history is read once more; a save in between shows.
ReadHistory(b) ==
  /\ binding[b].phase = "history"
  /\ IF ChainIntact /\ Len(history) = binding[b].heads.state
     THEN Reads(b, "journal", [binding[b].heads EXCEPT !.count = Len(history)])
     ELSE Ends(b)
  /\ UNCHANGED <<attestations, attestations_torn, journal>>

\* The journal; bind_current_heads refuses to attest nothing.
ReadJournal(b) ==
  /\ binding[b].phase = "journal"
  /\ LET heads == [binding[b].heads EXCEPT !.events = journal] IN
       IF IsEmpty(heads) THEN Ends(b) ELSE Reads(b, "chain", heads)
  /\ UNCHANGED <<attestations, attestations_torn, journal>>

-----------------------------------------------------------------------------
(* The chain of attestations.                                              *)

\* history: every line parses, and links to the one before it.
AttestationsIntact ==
  /\ ~attestations_torn
  /\ \A i \in DOMAIN attestations : attestations[i].prev = i - 1

\* A chain that is not empty must verify before it is extended, and verify
\* reads the current heads, which raises when the store is not readable.
ReadChain(b) ==
  /\ binding[b].phase = "chain"
  /\ IF AttestationsIntact /\ (attestations = <<>> \/ state_file = NoFile \/ Readable)
     THEN binding' = [binding EXCEPT ![b].phase = "append",
                                     ![b].prev = Len(attestations)]
     ELSE Ends(b)
  /\ UNCHANGED <<attestations, attestations_torn, journal>>

\* What was read is signed and appended, whatever has happened since.
AppendAttestation(b) ==
  /\ binding[b].phase = "append"
  /\ Len(attestations) < MaxAttestations
  /\ attestations' = Append(attestations,
                            [prev |-> binding[b].prev, heads |-> binding[b].heads])
  /\ Ends(b)
  /\ UNCHANGED <<attestations_torn, journal>>

\* The binder is killed, an append under way leaving a partial line, or the
\* anchor does not unlock.
BinderCrash(b) ==
  /\ binding[b].phase # "idle"
  /\ Ends(b)
  /\ \/ UNCHANGED attestations_torn
     \/ binding[b].phase = "append" /\ attestations_torn' = TRUE
  /\ UNCHANGED <<attestations, journal>>

\* An action is journaled, by whoever runs one.
JournalEvent ==
  /\ journal < MaxEvents
  /\ journal' = journal + 1
  /\ UNCHANGED <<attestations, attestations_torn, binding>>

AttestationNext ==
  \/ \E b \in Binders :
       \/ ReadState(b) \/ ReadHistory(b) \/ ReadJournal(b) \/ ReadChain(b)
       \/ AppendAttestation(b) \/ BinderCrash(b)
  \/ JournalEvent

\* The store's callers and the binders, none of whom locks anything.
AttestingNext ==
  \/ Next /\ UNCHANGED attestationVars
  \/ AttestationNext /\ UNCHANGED storeVars

AttestingSpec ==
  StoreInit /\ AttestationInit /\ [][AttestingNext]_<<storeVars, attestationVars>>

-----------------------------------------------------------------------------
(* Correctness.                                                            *)

\* What has been attested stays true: the snapshot an attestation names is the
\* last of the history it counted, and that history is still there, whole and
\* in order, whatever callers of the store have appended, forked, torn or lost
\* while the binder was reading and ever since.
AttestedPrefixHolds ==
  \A k \in DOMAIN attestations :
    LET heads == attestations[k].heads IN
      /\ attestations[k].prev < k /\ heads \in ConstitutionalHeads /\ ~IsEmpty(heads)
      /\ heads.state = heads.count
      /\ heads.count <= Len(history) /\ heads.events <= journal
      /\ \A i \in 1 .. heads.count : history[i].prev = i - 1
=============================================================================
