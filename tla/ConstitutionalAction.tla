------------------------ MODULE ConstitutionalAction ------------------------
(***************************************************************************)
(* The bounded-action transaction and its crash recovery, over the store:  *)
(* constitutional_action.py, constitutional_recovery.py, the licensing of  *)
(* control_witness.py and the bounded part of constitutional_runtime.py.   *)
(*                                                                         *)
(* Each command of the shell is a process that reads, decides, and then    *)
(* works through the durable steps it decided on: saves of the state and   *)
(* appends to the action journal, with the adapter's execution in between. *)
(* A step that raises ends the command; a crash may end it anywhere.       *)
(***************************************************************************)
EXTENDS ConstitutionalStore, FiniteSets

CONSTANTS
  MaxTransactions,   \* bound on the action commands started
  MaxRevision,       \* bound on the revision a promotion is made at
  MaxHistory,        \* bound on the history a promotion is made on
  MaxEvents          \* bound on the journal a recovery is started on

ASSUME BoundsAssumption ==
  /\ MaxTransactions \in Nat /\ MaxRevision \in Nat
  /\ MaxHistory \in Nat /\ MaxEvents \in Nat

VARIABLES
  journal,        \* actions.jsonl: the events appended, each with its back link
  journal_torn,   \* TRUE once a line of actions.jsonl has been cut short
  control,        \* what runtime_control_state.json asks of the runtime
  performed,      \* the adapter executions so far
  next_tx,        \* the next transaction id, which is also its action id
  run             \* per process: the command it is running

journalVars == <<journal, journal_torn>>
vars == <<storeVars, journalVars, control, performed, next_tx, run>>

-----------------------------------------------------------------------------
(* Commands.                                                               *)

EventTypes == {"REFUSED", "LICENSED", "OUTCOME", "COMMITTED", "RECOVERY"}

\* Transaction 0 stands for the fresh ids recoveries give to audit lines of
\* their own; `ok` is the success an OUTCOME reports.
Line == [tx : Nat, type : EventTypes, ok : BOOLEAN]

Step == [do : {"save", "log", "execute"}, state : Snapshot, line : Line]

Event(tx, type) == [tx |-> tx, type |-> type, ok |-> FALSE]
Outcome(tx, ok) == [tx |-> tx, type |-> "OUTCOME", ok |-> ok]

SaveStep(s) == [do |-> "save", state |-> s, line |-> Event(0, "REFUSED")]
LogStep(line) == [do |-> "log", state |-> Genesis, line |-> line]
ExecuteStep == [do |-> "execute", state |-> Genesis, line |-> Event(0, "REFUSED")]

Statuses ==
  {"CLEAN", "PENDING_UNKNOWN", "PENDING_OUTCOME_READY", "COMMIT_MARKER_MISSING",
   "ORPHANED_LICENSE", "EXPIRED_ACTIVE", "RAISES"}

NotAppending == -1

Run ==
  [phase  : {"idle", "decide", "reconcile", "work"},
   todo   : Seq(Step),         \* durable steps still to take
   seen   : SUBSET Nat,        \* what had lapsed at the command's timestamp
   loaded : Snapshot,          \* the state it loaded
   tx     : Nat,               \* its transaction
   ticks  : Nat,               \* the clock ticks its action asks for
   status : Statuses,          \* what a recovery's inspection found
   link   : Nat \union {NotAppending}]   \* journal length read before an append

Idle ==
  [phase |-> "idle", todo |-> <<>>, seen |-> {}, loaded |-> Genesis, tx |-> 0,
   ticks |-> 0, status |-> "CLEAN", link |-> NotAppending]

Init ==
  /\ StoreInit
  /\ journal = <<>>
  /\ journal_torn = FALSE
  /\ control = "open"
  /\ performed = <<>>
  /\ next_tx = 1
  /\ run = [p \in Procs |-> Idle]

Finish(p) == run' = [run EXCEPT ![p] = Idle]

\* The command goes on to take `steps`.
Proceed(p, steps) ==
  run' = [run EXCEPT ![p].phase = "work", ![p].todo = steps]

\* The command is done with its first step, and ends with the last.
StepDone(p) ==
  IF Len(run[p].todo) = 1 THEN Finish(p)
  ELSE run' = [run EXCEPT ![p].todo = Tail(@), ![p].link = NotAppending]

Doing(p, what) == run[p].phase = "work" /\ Head(run[p].todo).do = what

-----------------------------------------------------------------------------
(* States a command may write.                                             *)

\* collapse_control_to_shadow; `source` is the action whose OUTCOME receipt the
\* collapse refers to, 0 for any other receipt.
Collapsed(p, s, source) ==
  [Genesis EXCEPT !.revision = s.revision + 1, !.lineage = p, !.collapse = source]

\* Variant of Charged that does not count the action.
ChargedUncounted(s, tx, ticks) ==
  [s EXCEPT !.ticks = @ + ticks, !.pending = tx, !.last = 0]

\* The session license_control_action returns: budgets spent, action pending.
Charged(s, tx, ticks) ==
  [s EXCEPT !.used = @ + 1, !.ticks = @ + ticks, !.pending = tx, !.last = 0]

\* The session record_control_outcome returns for a success.
Completed(s, tx) == [s EXCEPT !.pending = 0, !.last = tx]

\* A human-authorized promotion: SHADOW to ADVISE, ADVISE to a fresh session.
Promoted(p, s) ==
  [Genesis EXCEPT !.revision = s.revision + 1, !.lineage = p,
     !.mode = IF s.mode = "SHADOW" THEN "ADVISE" ELSE "BOUNDED_CONTROL"]

-----------------------------------------------------------------------------
(* phik constitutional action.                                             *)

\* The shell loads the state; BOUNDED_CONTROL is required.
StartAction(p, ticks) ==
  /\ run[p].phase = "idle"
  /\ next_tx <= MaxTransactions
  /\ Readable /\ ~Lapsed(Current, lapsed)
  /\ Current.mode = "BOUNDED_CONTROL"
  /\ run' = [run EXCEPT ![p] = [Idle EXCEPT !.phase = "decide", !.loaded = Current,
                                           !.tx = next_tx, !.ticks = ticks]]
  /\ next_tx' = next_tx + 1
  /\ UNCHANGED <<storeVars, journalVars, control, performed>>

\* What license_control_action checks of session and warrant.
Licensable(s, ticks, expired) ==
  /\ s.pending = 0
  /\ ~Lapsed(s, expired)
  /\ s.used < MaxTotalActions
  /\ s.ticks + ticks <= MaxClockTicks

RefuseAndCollapse(p) ==
  <<SaveStep(Collapsed(p, run[p].loaded, 0)), LogStep(Event(run[p].tx, "REFUSED"))>>

\* Variant of Decide that executes before the LICENSED line is in the journal.
DecideUnlicensed(p) ==
  LET r == run[p] IN
  /\ r.phase = "decide"
  /\ Licensable(r.loaded, r.ticks, lapsed)
  /\ run' = [run EXCEPT ![p].phase = "work", ![p].seen = lapsed,
       ![p].todo = <<SaveStep(Charged(r.loaded, r.tx, r.ticks)), ExecuteStep>>]
  /\ UNCHANGED <<storeVars, journalVars, control, performed, next_tx>>

\* orchestrate_runtime, on the control state read now and at a timestamp the
\* whole command keeps.  Routes, scope, evidence and resources may refuse any
\* action; quarantine, a seal and a refused license all collapse the lease.
Decide(p) ==
  LET r == run[p] IN
  /\ r.phase = "decide"
  /\ \E steps \in
       CASE control = "contained" -> {RefuseAndCollapse(p)}
         [] control = "review"    -> {<<LogStep(Event(r.tx, "REFUSED"))>>}
         [] control = "open"      ->
              {RefuseAndCollapse(p)} \union
              {steps \in {<<SaveStep(Charged(r.loaded, r.tx, r.ticks)),
                            LogStep(Event(r.tx, "LICENSED")), ExecuteStep>>} :
                 Licensable(r.loaded, r.ticks, lapsed)} :
       run' = [run EXCEPT ![p].phase = "work", ![p].todo = steps, ![p].seen = lapsed]
  /\ UNCHANGED <<storeVars, journalVars, control, performed, next_tx>>

\* Variant of Execute that completes the session after a failure too.
ExecuteKeepsLease(p, ok) ==
  LET r == run[p] IN
  /\ Doing(p, "execute")
  /\ performed' = Append(performed, [tx |-> r.tx, lease |-> r.loaded.revision])
  /\ Proceed(p, <<LogStep(Outcome(r.tx, ok)),
                  SaveStep(Completed(Charged(r.loaded, r.tx, r.ticks), r.tx)),
                  LogStep(Event(r.tx, "COMMITTED"))>>)
  /\ UNCHANGED <<storeVars, journalVars, control, next_tx>>

\* execute_runtime_adapter and record_control_outcome.  A failure is terminal,
\* and what follows works on the state loaded when the command began.
Execute(p, ok) ==
  LET r == run[p]
      charged == Charged(r.loaded, r.tx, r.ticks)
      final == IF ok THEN Completed(charged, r.tx) ELSE Collapsed(p, charged, r.tx)
  IN
  /\ Doing(p, "execute")
  /\ performed' = Append(performed, [tx |-> r.tx, lease |-> r.loaded.revision])
  /\ Proceed(p, <<LogStep(Outcome(r.tx, ok)), SaveStep(final),
                  LogStep(Event(r.tx, "COMMITTED"))>>)
  /\ UNCHANGED <<storeVars, journalVars, control, next_tx>>

-----------------------------------------------------------------------------
(* phik constitutional route, and promotion.                               *)

\* A route evaluated while the runtime is sealed or quarantined stops the
\* session and persists the collapse; any other route writes nothing.
Route(p) ==
  /\ run[p].phase = "idle"
  /\ control = "contained"
  /\ Readable /\ ~Lapsed(Current, lapsed)
  /\ Current.mode = "BOUNDED_CONTROL"
  /\ run' = [run EXCEPT ![p] = [Idle EXCEPT !.phase = "work", !.seen = lapsed,
                                  !.todo = <<SaveStep(Collapsed(p, Current, 0))>>]]
  /\ UNCHANGED <<storeVars, journalVars, control, performed, next_tx>>

\* A human-authorized promotion is computed from the loaded state and saved.
Promote(p) ==
  /\ run[p].phase = "idle"
  /\ CanLoad(lapsed)
  /\ Loaded.mode # "BOUNDED_CONTROL"
  /\ Loaded.revision < MaxRevision /\ Len(history) < MaxHistory
  /\ run' = [run EXCEPT ![p] = [Idle EXCEPT !.phase = "work", !.seen = lapsed,
                                  !.todo = <<SaveStep(Promoted(p, Loaded))>>]]
  /\ UNCHANGED <<storeVars, journalVars, control, performed, next_tx>>

-----------------------------------------------------------------------------
(* phik constitutional recovery reconcile.                                 *)

JournalIntact ==
  ~journal_torn /\ \A i \in DOMAIN journal : journal[i].prev = i - 1

Events(tx, type) ==
  {i \in DOMAIN journal : journal[i].tx = tx /\ journal[i].type = type}

Transactions == {journal[i].tx : i \in DOMAIN journal} \ {0}

\* _one_event raises on a second event of a type it looks for.
Repeated(type) == \E tx \in Transactions : Cardinality(Events(tx, type)) > 1

\* Variant of OpenLicensed that ignores the COMMITTED markers.
OpenOrCommitted == {tx \in Transactions : Events(tx, "LICENSED") # {}}

\* _open_licensed_transactions
OpenLicensed ==
  {tx \in Transactions : Events(tx, "LICENSED") # {} /\ Events(tx, "COMMITTED") = {}}

Succeeded(tx) == \A i \in Events(tx, "OUTCOME") : journal[i].ok

\* _validate_completed_state_for_outcome
CompletedFor(s, tx) ==
  \/ s.mode = "BOUNDED_CONTROL" /\ s.last = tx /\ Succeeded(tx)
  \/ s.mode = "SHADOW" /\ s.collapse = tx /\ ~Succeeded(tx)

\* Variant of PendingStatus that names a status the inspection does not know.
PendingStatusMisspelt(s) ==
  IF Events(s.pending, "OUTCOME") = {} THEN "PENDING" ELSE "PENDING_OUTCOME_READY"

\* Variant of PendingStatus that insists on an OUTCOME.
PendingStatusStrict(s) ==
  IF Events(s.pending, "OUTCOME") = {} THEN "RAISES" ELSE "PENDING_OUTCOME_READY"

PendingStatus(s) ==
  LET tx == s.pending IN
  IF Repeated("LICENSED") THEN "RAISES"
  ELSE IF Events(tx, "LICENSED") = {} THEN "PENDING_UNKNOWN"
  ELSE IF Events(tx, "COMMITTED") # {} \/ Cardinality(Events(tx, "OUTCOME")) > 1
  THEN "RAISES"
  ELSE IF Events(tx, "OUTCOME") = {} THEN "PENDING_UNKNOWN"
  ELSE "PENDING_OUTCOME_READY"

OpenStatus(s, tx) ==
  IF Cardinality(Events(tx, "OUTCOME")) > 1 THEN "RAISES"
  ELSE IF Events(tx, "OUTCOME") # {}
  THEN IF CompletedFor(s, tx) THEN "COMMIT_MARKER_MISSING" ELSE "RAISES"
  ELSE IF s.mode = "SHADOW" THEN "ORPHANED_LICENSE" ELSE "RAISES"

\* inspect_action_recovery, of a readable state s and the journal.
Inspection(s, expired) ==
  IF ~JournalIntact THEN "RAISES"
  ELSE IF s.mode = "BOUNDED_CONTROL" /\ s.pending # 0 THEN PendingStatus(s)
  ELSE IF Repeated("LICENSED") \/ Repeated("COMMITTED")
          \/ Cardinality(OpenLicensed) > 1 THEN "RAISES"
  ELSE IF OpenLicensed # {} THEN OpenStatus(s, CHOOSE tx \in OpenLicensed : TRUE)
  ELSE IF Lapsed(s, expired) THEN "EXPIRED_ACTIVE"
  ELSE "CLEAN"

\* The transaction an inspection is about, 0 when the journal has none.
InspectedTx(s) ==
  LET open == {tx \in Transactions :
                 IF s.mode = "BOUNDED_CONTROL" /\ s.pending # 0
                 THEN tx = s.pending /\ Events(tx, "LICENSED") # {}
                 ELSE tx \in OpenLicensed}
  IN  IF open = {} THEN 0 ELSE CHOOSE tx \in open : TRUE

\* The inspection; a clean one is a no-op and one that raises ends the command.
Recover(p) ==
  LET status == Inspection(Current, lapsed) IN
  /\ run[p].phase = "idle"
  /\ Len(journal) < MaxEvents
  /\ Readable
  /\ status \notin {"CLEAN", "RAISES"}
  /\ run' = [run EXCEPT ![p] = [Idle EXCEPT !.phase = "reconcile", !.seen = lapsed,
                                  !.status = status, !.tx = InspectedTx(Current)]]
  /\ UNCHANGED <<storeVars, journalVars, control, performed, next_tx>>

CloseSteps(tx) == <<LogStep(Event(tx, "RECOVERY")), LogStep(Event(tx, "COMMITTED"))>>

\* The steps reconcile_action_recovery takes, from the state as it is now.
ReconcileSteps(p, s) ==
  LET r == run[p]
      collapse(source) == SaveStep(Collapsed(p, s, source))
  IN
  CASE r.status = "PENDING_OUTCOME_READY" ->
         <<IF ~Succeeded(r.tx) THEN collapse(r.tx)
           ELSE IF Lapsed(s, r.seen) THEN collapse(0)
           ELSE SaveStep(Completed(s, r.tx))>> \o CloseSteps(r.tx)
    [] r.status = "PENDING_UNKNOWN" -> <<collapse(0)>> \o CloseSteps(r.tx)
    [] r.status = "COMMIT_MARKER_MISSING" ->
         (IF Lapsed(s, r.seen) THEN <<collapse(0)>> ELSE <<>>) \o CloseSteps(r.tx)
    [] r.status = "ORPHANED_LICENSE" -> CloseSteps(r.tx)
    [] r.status = "EXPIRED_ACTIVE" -> <<collapse(0), LogStep(Event(0, "RECOVERY"))>>

\* What the reconciliation requires of the state it reads the second time.
StillReconcilable(r, s) ==
  CASE r.status = "PENDING_OUTCOME_READY" -> s.pending = r.tx
    [] r.status = "PENDING_UNKNOWN"       -> s.pending # 0
    [] r.status = "EXPIRED_ACTIVE"        -> s.mode = "BOUNDED_CONTROL"
    [] OTHER                              -> TRUE

Reconcile(p) ==
  /\ run[p].phase = "reconcile"
  /\ IF Readable /\ StillReconcilable(run[p], Current)
     THEN Proceed(p, ReconcileSteps(p, Current))
     ELSE Finish(p)
  /\ UNCHANGED <<storeVars, journalVars, control, performed, next_tx>>

-----------------------------------------------------------------------------
(* Durable steps.                                                          *)

Saving(p) == saving[p].phase # "idle"

\* A save begins, or raises and the command with it.
BeginSave(p) ==
  LET r == run[p]
      state == Head(r.todo).state
  IN
  /\ Doing(p, "save")
  /\ ~Saving(p)
  /\ IF CanSave(state, r.seen)
     THEN SaveCheck(p, state, r.seen) /\ UNCHANGED run
     ELSE Finish(p) /\ UNCHANGED storeVars
  /\ UNCHANGED <<journalVars, control, performed, next_tx>>

AppendState(p) ==
  /\ SaveAppend(p)
  /\ UNCHANGED <<journalVars, control, performed, next_tx, run>>

FinishSave(p) ==
  /\ \/ SaveReplace(p) /\ StepDone(p)
     \/ SaveLost(p) /\ Finish(p)
  /\ UNCHANGED <<journalVars, control, performed, next_tx>>

\* journal.append reads the whole journal for the hash to link back to, and
\* raises if it does not verify.
ReadJournal(p) ==
  /\ Doing(p, "log")
  /\ run[p].link = NotAppending
  /\ IF JournalIntact THEN run' = [run EXCEPT ![p].link = Len(journal)]
                      ELSE Finish(p)
  /\ UNCHANGED <<storeVars, journalVars, control, performed, next_tx>>

AppendJournal(p) ==
  LET line == Head(run[p].todo).line IN
  /\ Doing(p, "log")
  /\ run[p].link # NotAppending
  /\ journal' = Append(journal, [prev |-> run[p].link, tx |-> line.tx,
                                 type |-> line.type, ok |-> line.ok])
  /\ StepDone(p)
  /\ UNCHANGED <<storeVars, journal_torn, control, performed, next_tx>>

\* The process dies, at any point; the line it was appending may be cut short.
Crash(p) ==
  /\ run[p].phase # "idle"
  /\ Finish(p)
  /\ SaveCrash(p)
  /\ \/ UNCHANGED journal_torn
     \/ run[p].link # NotAppending /\ journal_torn' = TRUE
  /\ UNCHANGED <<journal, control, performed, next_tx>>

-----------------------------------------------------------------------------
(* The environment.                                                        *)

\* Operators move the runtime control state (ControlState) at any time.
ChangeControl ==
  /\ control' \in {"open", "review", "contained"} \ {control}
  /\ UNCHANGED <<storeVars, journalVars, performed, next_tx, run>>

\* A bounded-control grant expires, at any time after it was persisted.
Expire(r) ==
  /\ r \notin lapsed
  /\ \E i \in DOMAIN history :
       history[i].snap.mode = "BOUNDED_CONTROL" /\ history[i].snap.revision = r
  /\ Lapse(r)
  /\ UNCHANGED <<journalVars, control, performed, next_tx, run>>

Next ==
  \/ \E p \in Procs :
       \/ \E ticks \in 1 .. MaxClockTicks : StartAction(p, ticks)
       \/ Decide(p)
       \/ \E ok \in BOOLEAN : Execute(p, ok)
       \/ Route(p)
       \/ Promote(p)
       \/ Recover(p)
       \/ Reconcile(p)
       \/ BeginSave(p)
       \/ AppendState(p)
       \/ FinishSave(p)
       \/ ReadJournal(p)
       \/ AppendJournal(p)
       \/ Crash(p)
  \/ ChangeControl
  \/ \E r \in 1 .. MaxRevision : Expire(r)

Spec == Init /\ [][Next]_vars

-----------------------------------------------------------------------------
(* Correctness.                                                            *)

\* Every variable of the model has its type.
ActionTypeOK ==
  /\ StoreTypeOK
  /\ journal \in Seq([prev : Nat, tx : Nat, type : EventTypes, ok : BOOLEAN])
  /\ journal_torn \in BOOLEAN
  /\ control \in {"open", "review", "contained"}
  /\ performed \in Seq([tx : Nat, lease : Nat])
  /\ next_tx \in Nat
  /\ run \in [Procs -> Run]

PerformedUnder(r) == Cardinality({i \in DOMAIN performed : performed[i].lease = r})

\* However the commands, crashes and recoveries interleave, the adapter is never
\* executed more often under one lease than its contract allows: "a later action
\* cannot silently reuse that authority" (README).
ExecutedWithinLease ==
  \A i \in DOMAIN performed : PerformedUnder(performed[i].lease) <= MaxTotalActions

\* The most the history has ever charged to the lease granted at revision r.
ChargedTo(r) ==
  LET used == {history[i].snap.used :
                 i \in {j \in DOMAIN history :
                          /\ history[j].snap.revision = r
                          /\ history[j].snap.mode = "BOUNDED_CONTROL"}}
  IN  IF used = {} THEN 0 ELSE CHOOSE u \in used : \A v \in used : v <= u

Lease == INSTANCE BoundedLease WITH
  Leases     <- 1 .. MaxRevision,
  MaxActions <- MaxTotalActions,
  spent      <- [r \in 1 .. MaxRevision |-> ChargedTo(r)],
  done       <- [r \in 1 .. MaxRevision |-> PerformedUnder(r)]

\* One process at a time, whatever crashes in between, the transaction and its
\* recovery implement the lease: every execution was charged to it durably
\* beforehand, one by one, and no charge is ever refunded.
HonoursLease == Lease!Spec

\* The journal tells one story about each transaction, whoever finished it: it
\* was refused, or licensed once, then at most once received, then at most once
\* committed, in that order.
JournalTellsOneStory ==
  \A tx \in Transactions :
    /\ \A type \in EventTypes \ {"RECOVERY"} : Cardinality(Events(tx, type)) <= 1
    /\ Events(tx, "REFUSED") # {} => Events(tx, "LICENSED") = {}
    /\ \A i \in Events(tx, "OUTCOME") : \E j \in Events(tx, "LICENSED") : j < i
    /\ \A i \in Events(tx, "COMMITTED") :
         \A j \in Events(tx, "OUTCOME") \union Events(tx, "LICENSED") : j < i

LeaseOf(tx) ==
  performed[CHOOSE i \in DOMAIN performed : performed[i].tx = tx].lease

\* A COMMITTED marker settles its action: the action is not pending any more,
\* and if it failed then the lease it was performed under is gone for good.
CommittedIsSettled ==
  Readable => \A tx \in Transactions :
    Events(tx, "COMMITTED") # {} =>
      /\ Current.pending # tx
      /\ ~Succeeded(tx) => Current.revision > LeaseOf(tx)

\* Write-ahead, for any number of processes: whatever the adapter executed had
\* been charged in the history and LICENSED in the journal beforehand, whoever
\* else was writing; and the journal reports no OUTCOME that did not happen.
WrittenAhead ==
  /\ \A i \in DOMAIN performed :
       /\ \E k \in DOMAIN history : history[k].snap.pending = performed[i].tx
       /\ Events(performed[i].tx, "LICENSED") # {}
  /\ \A k \in DOMAIN journal :
       journal[k].type = "OUTCOME" =>
         \E i \in DOMAIN performed : performed[i].tx = journal[k].tx

\* No command is running and both files can be read.
Quiet ==
  (\A p \in Procs : run[p].phase = "idle") /\ Readable /\ JournalIntact

\* Wherever a command dies, an action left pending can be reconciled, be its
\* outcome known or not, and whatever earlier transactions left behind.
PendingIsReconcilable ==
  Quiet /\ Current.pending # 0 =>
    Inspection(Current, lapsed) \in {"PENDING_UNKNOWN", "PENDING_OUTCOME_READY"}

\* "completed state + OUTCOME + no COMMITTED marker -> repair the journal commit
\* marker" (README).
CommitMarkerRepairable ==
  Quiet => \A tx \in OpenLicensed :
    Events(tx, "OUTCOME") # {} /\ CompletedFor(Current, tx)
      => Inspection(Current, lapsed) = "COMMIT_MARKER_MISSING"

\* "pending + LICENSED + OUTCOME -> apply the already-journaled outcome ->
\* persist completed session or terminal collapse" (README): a recovery of a
\* journaled outcome that dies half-way can be started again.
OutcomeRecoveryRestarts ==
  [][\A p \in Procs :
       run[p].status = "PENDING_OUTCOME_READY" /\ run'[p] = Idle
         => (Quiet /\ Cardinality(OpenLicensed) = 1
               => Inspection(Current, lapsed) # "RAISES")']_vars
=============================================================================
