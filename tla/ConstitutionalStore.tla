------------------------- MODULE ConstitutionalStore -------------------------
(***************************************************************************)
(* The constitutional state store (constitutional_store.py).  A save       *)
(* validates the new state against the stored one, appends a snapshot to   *)
(* the hash-chained history.jsonl, and only then replaces state.json: two  *)
(* durable steps with a possible crash between them, and no file lock, so  *)
(* another process may be at any point of a save of its own.               *)
(*                                                                         *)
(* A snapshot's hash covers a fresh snapshot_id, so no two saves share a   *)
(* hash and an entry's position in the history stands for its hash.        *)
(***************************************************************************)
EXTENDS Integers, Sequences

CONSTANTS
  Procs,             \* processes that may be saving
  MaxTotalActions,   \* the control contract's max_total_actions
  MaxClockTicks      \* the control contract's max_clock_ticks

ASSUME LimitsAssumption == MaxTotalActions \in Nat /\ MaxClockTicks \in Nat

VARIABLES
  state_file,    \* state.json: a position in history, NoFile or Torn
  history,       \* history.jsonl: the snapshots appended, each with its back link
  history_torn,  \* TRUE once a line of history.jsonl has been cut short
  saving,        \* per process: the save it is in the middle of
  lapsed         \* revisions whose bounded-control grant has expired by now

NoFile == 0    \* no such file
Torn == -1     \* a file two writers left in pieces

storeVars == <<state_file, history, history_torn, saving, lapsed>>

-----------------------------------------------------------------------------
(* Persisted states.                                                       *)

Modes == {"SHADOW", "ADVISE", "BOUNDED_CONTROL"}

\* `lineage` stands for the identities a same-revision update must keep: the
\* human seal, the promotion receipt, the grant and the session.  The writer
\* that advanced the revision identifies them.  Action and receipt ids are
\* numbers, 0 for none.
Snapshot ==
  [mode     : Modes,
   revision : Nat,
   lineage  : Procs \union {"genesis"},
   used     : Nat,       \* session.actions_used
   ticks    : Nat,       \* session.clock_ticks_used, which warrant budgets follow
   pending  : Nat,       \* session.pending_action_id
   last     : Nat,       \* action whose OUTCOME is session.last_receipt_id
   stopped  : BOOLEAN,   \* session stopped, or its warrant revoked
   collapse : Nat]       \* action whose OUTCOME is collapse_receipt.source_ref

Genesis ==
  [mode |-> "SHADOW", revision |-> 0, lineage |-> "genesis", used |-> 0,
   ticks |-> 0, pending |-> 0, last |-> 0, stopped |-> FALSE, collapse |-> 0]

Lapsed(s, expired) == s.mode = "BOUNDED_CONTROL" /\ s.revision \in expired

NoActiveControl(s) ==
  s.used = 0 /\ s.ticks = 0 /\ s.pending = 0 /\ s.last = 0 /\ ~s.stopped

WithinLimits(s) == s.used <= MaxTotalActions /\ s.ticks <= MaxClockTicks

\* _validate_state without its expiry test.
WellFormed(s) ==
  CASE s.mode = "SHADOW" /\ s.revision = 0 -> s = Genesis
    [] s.mode = "SHADOW" /\ s.revision > 0 -> NoActiveControl(s)
    [] s.mode = "ADVISE"          -> NoActiveControl(s) /\ s.collapse = 0
    [] s.mode = "BOUNDED_CONTROL" -> ~s.stopped /\ WithinLimits(s) /\ s.collapse = 0

AllowedTransitions ==
  {<<"SHADOW", "ADVISE">>, <<"ADVISE", "BOUNDED_CONTROL">>,
   <<"ADVISE", "SHADOW">>, <<"BOUNDED_CONTROL", "SHADOW">>}

\* Variant of Successor that lets a session hand back what it has spent.
SuccessorRefunding(before, after) ==
  \/ /\ after.revision = before.revision + 1
     /\ <<before.mode, after.mode>> \in AllowedTransitions
  \/ /\ after.revision = before.revision
     /\ after.mode = before.mode
     /\ after.lineage = before.lineage

\* _validate_successor
Successor(before, after) ==
  \/ /\ after.revision = before.revision + 1
     /\ <<before.mode, after.mode>> \in AllowedTransitions
  \/ /\ after.revision = before.revision
     /\ after.mode = before.mode
     /\ after.lineage = before.lineage
     /\ after.mode = "BOUNDED_CONTROL"
          => before.used <= after.used /\ before.ticks <= after.ticks

-----------------------------------------------------------------------------
(* Reading.                                                                *)

\* _verify_history_chain: every entry links back to the one before it.
ChainIntact ==
  ~history_torn /\ \A i \in DOMAIN history : history[i].prev = i - 1

\* _load_snapshot_checked: the canonical file is the last history entry.
Readable ==
  state_file # NoFile /\ state_file = Len(history) /\ ChainIntact

Current == history[state_file].snap

\* load: the snapshot, or genesis while no state file exists.
CanLoad(expired) ==
  state_file = NoFile \/ (Readable /\ ~Lapsed(Current, expired))

Loaded == IF state_file = NoFile THEN Genesis ELSE Current

-----------------------------------------------------------------------------
(* Saving.                                                                 *)

SaveInProgress ==
  [phase  : {"idle", "append", "replace"},
   base   : Nat,         \* the entry the new one was validated against
   entry  : Nat,         \* where the new one was appended
   next   : Snapshot,
   shared : BOOLEAN]     \* another save used state.json.tmp at the same time

NotSaving == [phase |-> "idle", base |-> NoFile, entry |-> NoFile,
              next |-> Genesis, shared |-> FALSE]

StoreInit ==
  /\ state_file = NoFile
  /\ history = <<>>
  /\ history_torn = FALSE
  /\ saving = [p \in Procs |-> NotSaving]
  /\ lapsed = {}

\* What save checks of s against what is on disk now.  Authority that has
\* expired may only be replaced by SHADOW.  `expired` is what had expired at the
\* caller's timestamp, which may be older than now.
CanSave(s, expired) ==
  /\ WellFormed(s) /\ ~Lapsed(s, expired)
  /\ state_file # NoFile =>
       /\ Readable
       /\ Lapsed(Current, expired) => s.mode = "SHADOW"
       /\ Successor(Current, s)

\* save, up to the append.
SaveCheck(p, s, expired) ==
  /\ saving[p].phase = "idle"
  /\ CanSave(s, expired)
  /\ saving' = [saving EXCEPT ![p] = [NotSaving EXCEPT !.phase = "append",
                                        !.base = state_file, !.next = s]]
  /\ UNCHANGED <<state_file, history, history_torn, lapsed>>

\* Processes about to replace state.json from the one state.json.tmp they share.
Staging == {q \in Procs : saving[q].phase = "replace"}

\* Variant of SaveAppend that links to the entry before the one validated.
SaveAppendUnlinked(p) ==
  /\ saving[p].phase = "append"
  /\ history' = Append(history, [prev |-> saving[p].base - 1, snap |-> saving[p].next])
  /\ saving' = [saving EXCEPT ![p].phase = "replace",
                              ![p].entry = Len(history) + 1]
  /\ UNCHANGED <<state_file, history_torn, lapsed>>

\* The snapshot line reaches history.jsonl (written, flushed and fsynced), and
\* the process goes on to write the same text to state.json.tmp.
SaveAppend(p) ==
  /\ saving[p].phase = "append"
  /\ history' = Append(history, [prev |-> saving[p].base, snap |-> saving[p].next])
  /\ saving' = [q \in Procs |->
       IF q = p
       THEN [saving[p] EXCEPT !.phase = "replace", !.entry = Len(history) + 1,
                              !.shared = Staging # {}]
       ELSE [saving[q] EXCEPT !.shared = @ \/ q \in Staging]]
  /\ UNCHANGED <<state_file, history_torn, lapsed>>

\* state.json is atomically replaced by the staging file, which may hold the
\* text of another save that used it meanwhile, or pieces of both.
SaveReplace(p) ==
  /\ saving[p].phase = "replace"
  /\ \/ state_file' = saving[p].entry
     \/ /\ saving[p].shared
        /\ state_file' \in {Torn} \union {saving[q].entry : q \in Staging}
  /\ saving' = [saving EXCEPT ![p] = NotSaving]
  /\ UNCHANGED <<history, history_torn, lapsed>>

\* Another save has already moved the staging file away: os.replace raises.
SaveLost(p) ==
  /\ saving[p].phase = "replace"
  /\ saving[p].shared
  /\ saving' = [saving EXCEPT ![p] = NotSaving]
  /\ UNCHANGED <<state_file, history, history_torn, lapsed>>

\* The process dies in its save; an append under way may leave a partial line.
SaveCrash(p) ==
  /\ saving' = [saving EXCEPT ![p] = NotSaving]
  /\ \/ UNCHANGED history_torn
     \/ saving[p].phase = "append" /\ history_torn' = TRUE
  /\ UNCHANGED <<state_file, history, lapsed>>

\* Time passes the expiry of the grant made at revision r.
Lapse(r) ==
  /\ lapsed' = lapsed \union {r}
  /\ UNCHANGED <<state_file, history, history_torn, saving>>

-----------------------------------------------------------------------------
(* Correctness.                                                            *)

Entry == [prev : Nat, snap : Snapshot]

\* Every variable of the store has its type.
StoreTypeOK ==
  /\ state_file \in Nat \union {Torn}
  /\ history \in Seq(Entry)
  /\ history_torn \in BOOLEAN
  /\ saving \in [Procs -> SaveInProgress]
  /\ lapsed \in SUBSET Nat

\* b may stand later than a in one history: no revision comes back, and within
\* a revision neither its human authorization, nor its grant, nor its session
\* is swapped, and nothing the session has spent is given back.
Succeeds(a, b) ==
  /\ a.revision <= b.revision
  /\ a.revision = b.revision =>
       /\ a.mode = b.mode /\ a.lineage = b.lineage
       /\ a.mode = "BOUNDED_CONTROL" => a.used <= b.used /\ a.ticks <= b.ticks

\* As long as the history verifies, it never goes back on itself over any
\* distance -- a collapsed lease is never revived and spent authority is never
\* refunded -- although writers take no lock and each checks only the snapshot
\* it happened to read before another may have appended its own.
NeverGoesBack ==
  ChainIntact =>
    \A i, j \in DOMAIN history :
      i < j => Succeeds(history[i].snap, history[j].snap)

\* "the orphan history tail will be detected on the next save/load rather than
\* silently accepted" (the comment in save): with no save in progress, a history
\* ahead of the state file cannot be loaded from.
OrphanTailDetected ==
  (\A p \in Procs : saving[p].phase = "idle") /\ state_file # Len(history)
    => ~CanLoad(lapsed)
=============================================================================
