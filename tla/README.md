# A TLA+ verification of PhiKernel

PhiKernel (`src/src/phikernel`) is a local runtime that decides what an
assistant may do and keeps durable evidence of it: a human-held control state
(review, quarantine, seal), a constitutional state with a hash-chained history,
leases of bounded control with contracts and warrants, a write-ahead journal for
the actions taken under them, crash recovery, and a background heartbeat. It is
a set of short-lived shell commands over shared files, with one long-lived
scheduler; what is hard about it is what happens between two file operations.

This directory holds TLA+ modules translated from that code, TLC configurations
that model-check them, and TLAPS proofs. Names follow the source; the comments
name the function a definition stands for.

Contents: [inventory](#inventory) · [modules](#modules) · [runs](#runs) ·
[findings](#where-the-code-and-its-documents-disagree) ·
[fairness](#fairness) · [proofs](#proofs) · [limits](#what-is-not-covered) ·
[plan](#plan)

## Inventory

### Control substrate — `control_state.py`
* State: `runtime_control_state.json` (flags `review_required`, `quarantined`,
  `sealed`, `recovery_required`, `recovery_state`, the counts of both logs), the
  append-only operator-action log and recovery log.
* Operations: `apply_operator_action` with nine actions: refresh, approve,
  review, quarantine, seal, clear_review, release_quarantine, begin_recovery,
  recover_from_seal.
* Interaction: every other command reads the file once; nobody locks it.
* Hard: read-modify-write by several shells, a kill between rewrite and log
  appends, a file truncated before it is written, rejected actions that still
  change state.
* Correct if: boundaries nest, containment is lowered rung by rung, a seal is
  only lifted explicitly, advice leads out, logs never lead the state.

### State store — `constitutional_store.py`
* State: `state.json`, `state.json.tmp`, `history.jsonl`.
* Operations: `load`, `load_snapshot`, recovery load, `save`.
* Interaction: called by every constitutional command; no lock; callers pass
  the timestamp that decides expiry.
* Hard: crash between append and replace, one staging file for all writers,
  stale validation, torn lines, expiry between two steps.
* Correct if: history never goes back, spent authority is never refunded, a
  history ahead of its state file is noticed.

### Action transaction — `constitutional_action.py`, `constitutional_runtime.py`
* State: `actions.jsonl` (hash-chained events), the store.
* Operations: `execute_constitutional_action`: decide, save the charged session,
  LICENSED, execute the adapter, OUTCOME, save, COMMITTED; or REFUSED and
  collapse. `orchestrate_runtime` makes the decision.
* Hard: a crash between any two of them; two commands at once; containment that
  changes after the decision; an adapter that fails.
* Correct if: nothing executes that is not charged and licensed on disk first;
  no lease is exceeded; the journal tells one story per transaction.

### Crash recovery — `constitutional_recovery.py`
* State: none of its own; it reads and completes the two above.
* Operations: `inspect_action_recovery` (six statuses or an error),
  `reconcile_action_recovery`.
* Hard: it may crash itself; it runs on whatever earlier transactions left; a
  lease may have expired in between.
* Correct if: a pending action is always reconcilable, never executed again, and
  recovery can be restarted.

### Control witness and sessions — `control_witness.py`
* State: an immutable `ControlSession` value under a `ControlContract`.
* Operations: `start_control_session`, `license_control_action`,
  `record_control_outcome`, `apply_human_veto`, `terminate_control_session`,
  `collapse_control_to_shadow`; before them evidence, evaluation and grant.
* Hard: outcomes that arrive after a stop; terminal refusals with an action
  pending; several budgets that must all hold.
* Correct if: counts, ticks and budgets hold, stops are final, licenses and
  outcomes alternate.

### Warrants and transitions — `warrant.py`, `transition.py`
* State: an immutable `Warrant` with budgets.
* Operations: `authorize`, `spend`, `revoke`, `evaluate_transition`.
* Hard: all-or-nothing over several resources; floating-point limits.
* Correct if: no budget is overdrawn, nothing is granted after revocation.

### Heart — `heart.py`
* State: jobs, schedule, history, the loop thread and stop event,
  `heart_status.json`.
* Operations: `register_job`, `start`, `stop`, `run_due_jobs_once`, `status`,
  the loop, job callbacks.
* Hard: real threads; a join with a timeout; a stop event shared by all loops;
  callbacks outside the lock; a status write that may raise at the end of almost
  every critical section, outside any handler.
* Correct if: what runs can be stopped and does stop, due jobs run while the heart
  runs, the status file is true whenever it could be written.

### Promotion and witness bench — `witness_bench.py`
* State: `PromotionState` (mode, revision, seal), evidence cases, reports,
  proposals, grants; all but the state are values that callers keep.
* Operations: evaluate, propose, `authorize_promotion`,
  `authorize_bounded_control`, `collapse_to_shadow`.
* Interaction: a human seals a proposal; sessions start from the grant;
  `orchestrate_runtime` steers under it and collapses it.
* Hard: a proposal that is stale when authorised; evidence picked by the caller; a
  collapse beside a live session, and that session under a later grant.
* Correct if: privilege grows one mode at a time, only on witnessed evidence and a
  current human authorisation, and only sessions of the grant in force steer.

### Anchor and capsules — `anchor.py`, `capsule.py`
* State: the encrypted key, the signed manifest, capsule files.
* Operations: `initialize`, `unlock`, `sign_bytes`, `seal`, `verify_capsule`.
* Interaction: `seal` and `phik execute` read the control state once and act later.
* Hard: a crash between the two anchor files, two initialisations, a key derivation
  between the gate and the write.
* Correct if: what is sealed verifies, and a gate that stays closed ends the work
  behind it.

### Attestation — `constitutional_attestation.py`
* State: a chain of signed attestations of the store's and the journal's heads.
* Operations: `bind_current_heads`, `history`, `verify`.
* Hard: the heads are read in three steps while others write; two binders.
* Correct if: what was attested once stays true.

### Governance libraries
Pure functions on immutable values: no file, no lock, no thread. What is hard about
them is that a caller may use a value late, again, or together with another.

| Part | Values and operations | What is hard | Correct if |
|---|---|---|---|
| Mutability, `mutability.py` | three strata; petitions, proposals, grants, weather | applied out of order or twice | nothing stale or beyond its grant is applied |
| Premises, `premise.py` | state, challenges, evaluations, resolutions | an evaluation of a premise that has moved; one source cited often; a list of challenges of the caller's choice at each call | restrictions are founded, and lifted by resolutions only |
| Carriage, contradictions, `carriage.py`, `contradiction.py` | candidates, admissions, citations, handoffs | rights that change under a citation | whatever is used has sound lineage |
| Clock skins, `clockskin.py` | leases of local time, ticks bought with warrants | waiting counted twice; several leases paid from one warrant | time is earned and paid for |
| Coalitions, `coalition.py` | charters, child warrants | one budget lent to many; two lifetimes; members leaving | the budget is conserved, nothing is spent after its time |
| Router and shadow, `relational_router.py`, `routing_shadow.py`, with `scar.py`, `saturation.py` | candidates, costs, comparisons | terms that depend on how many routes are left | only the better decides, comparisons are true |

### The remaining parts
`constitutional_authority.py` verifies signatures over a loaded state;
`constitutional_shell.py` and `router.py` turn bundles into candidates and text;
`coherence.py` and TIEKAT score metrics; `anc_bridge.py` and `trust_runtime.py` map
an external guard's verdicts. None of them keeps state.

## Modules

| Module | Models | Notes |
|---|---|---|
| `ControlState` | `control_state.py` | a process per shell; Load, Truncate, Write, LogAction, LogRecovery, Crash are the file operations of one command |
| `ControlLadder` | — | abstract: containment rises at will and falls one rung per command |
| `ConstitutionalStore` | `constitutional_store.py` | SaveCheck, SaveAppend, SaveReplace, SaveLost, SaveCrash, Lapse; used by two modules |
| `StoreClients` | any use of the store | any process may try to save any state |
| `ConstitutionalAction` | `constitutional_action.py`, `constitutional_recovery.py`, bounded part of `constitutional_runtime.py`, the commands of `shell.py` | EXTENDS the store; each command is a process with a list of durable steps left |
| `BoundedLease` | — | abstract: charge before performing, never beyond the limit, never refund |
| `Anchor` | `anchor.py`, `phik init` | two files, several shells, crashes between any two steps |
| `GuardedCommands` | `capsule.py` and `phik execute` | composes `ControlState`, `Anchor` and the commands they guard |
| `Attestation` | `constitutional_attestation.py` | EXTENDS the store; a process per binder, one action per read |
| `Mutability` | `mutability.py` | the strata; what was issued is a set to draw from at any time |
| `Premise` | `premise.py` | EXTENDS `Mutability`: a premise reaches the strata as weather, proposals and petitions |
| `Carriage` | `carriage.py`, `contradiction.py`, the handoff of `clockskin.py` | receipts are kept, contradictions open and close around them |
| `ClockSkin` | `clockskin.py` | leases that share a warrant |
| `Coalition` | `coalition.py` | charters, a sponsor and its children |
| `ShadowComparison` | the comparison states of `routing_shadow.py` and `witness_bench.py` | shared by the next two |
| `Router` | `relational_router.py`, `routing_shadow.py`, the terms of `scar.py` and `saturation.py` | pure operators over a field that changes |
| `Promotion` | `witness_bench.py`, the grant of `control_witness.py`, `constitutional_runtime.py` | reports, proposals, seals and sessions outlive collapses |
| `Warrant` | `warrant.py`, `transition.py` | pure operators over warrant values |
| `ControlSession` | session part of `control_witness.py` | EXTENDS `Warrant`; implements `BoundedLease` |
| `Heart` | `heart.py` | callers, loops and callbacks; every action is one critical section |
| `MC…` | — | constants for TLC |
| `ControlProofs`, `StoreProofs`, `AttestationProofs`, `ActionProofs`, `LeaseProofs`, `HeartProofs`, `LibraryProofs` | — | theorems; see [proofs](#proofs) |
| `FoldProofs` | — | lemmas about sums over functions, used by two of them |

How state corresponds to the code:

* **ControlState.** `state_file` is the parsed JSON; `torn` its truncated form;
  the two counters `actions_logged` and `recovery_logged` are the numbers of log
  lines. Notes are present or absent. A `Load` computes the whole outcome, as
  `apply_operator_action` does before it writes.
* **ConstitutionalStore.** A snapshot's hash covers a fresh id, so its position
  in `history` stands for its hash and `prev` for its back link. Identities that
  an update must keep (seal, receipts, grant, session) are one `lineage`. Expiry
  is a set `lapsed` of revisions; a command may use an older view of it, because
  the code passes one timestamp through a command.
* **ConstitutionalAction.** `journal` is `actions.jsonl`; its append reads the
  chain first (`ReadJournal`) and writes later (`AppendJournal`), so two
  processes may link to the same line. `run[p].todo` is the sequence of durable
  steps a command has decided on, `performed` the real-world executions.
  `Inspection` is `inspect_action_recovery` with its error paths ("RAISES").
* **Anchor, GuardedCommands.** `key_file` and `manifest_file` are the anchor ids the
  two files were made for; a key opens for its own id only, as the id is the
  associated data of its encryption. `work[w]` is what a guarded command knows: its
  phase, and the anchor and signer of the capsule it is making.
* **Attestation.** `binding[b]` is what a binder has read so far. The store's own
  actions run between its reads.
* **The libraries.** Values are records and what was ever handed out stays in a set or
  sequence: an action draws from it at any later time, which is what late, repeated
  and mixed use comes to. In `Promotion` a proposal's index is also the id of its
  seal and its grant, and a session is the lease that `ControlSession` implements. In
  `Router` costs are halves of the policy's unit; a scar is fresh or faded, success
  concentrated or not. A contradiction is known by its place in the sequence of those
  opened, which stands for its id: resolving one leaves another of the same claim open.
* **Premise.** Severities are multiples of the unit the two thresholds are given in.
  `evaluate_premise` and `apply_premise_evaluation` each take a list of challenges from
  their caller, and nothing ties the second to the first, or either to all there are:
  `Evaluate(C)` and `ApplyEvaluation(e, C)` take any sets of challenges made so far. An
  evaluation's `weighed` is the verified challenges it scored, of which the code keeps
  the score only. `ApplyEvaluation(e, {})` restricts a premise that names no evidence,
  so `RestrictionIsFounded` asks for an evaluation that weighed enough, not for what
  the premise quotes. The thresholds are one policy's; the code takes one per call.
* **Promotion.** `Reviewed` and `ControlReady` are readiness under one report policy, of
  the shape of the code's defaults. The code takes a policy per report
  (`witness_bench.py:430`, `control_witness.py:566`), and authorising a promotion does
  not look at which one the report was made under: `PromotionIsWitnessed` says nothing
  of a report made under a laxer one. `SteeringIsCurrent` is about turns taken through
  `orchestrate_runtime`; a direct `license_control_action` looks at no promotion state.
* **ControlSession.** A call maps a session value to the next; `receipts` is the
  sequence of license and outcome receipts. Any refusal is terminal, as in
  `_terminal_refusal`. Which clause refuses is immaterial to the state, so
  `Licensable` is one conjunction.
* **Heart.** `thread` and `stop_event` are the service's fields, `worker[w]` the
  program counter of a thread running jobs, `caller[c]` the loop a `stop()` is
  joining. `Running` is the `running` property. `Stopped` may fire while the loop
  is alive: that is the join that timed out. `due` stands for the monotonic
  schedule, and `DueAmong[n]` is the list comprehension of `run_due_jobs_once` over the
  first n jobs. Jobs registered as disabled are never due and are left out.
  `_persist_status` quotes the outputs in `_history` and `_last_coherence_frame`
  (`history`, `frame`), so it raises when json cannot write one of them (`Writable`),
  and on any OSError. `written` is the outcome of the write: each critical section that
  ends with one (`RegisterJob`, `Start`, `Stopped`, `Return`, `Tick`) may fail there,
  with its state changes made and the file as it was. A caller gets the exception; a
  thread running jobs is then in phase "raise", still alive, with the rest of its round
  dropped, until `Die` ends it. A callback may end its thread as well, by an exception
  that `except Exception` lets through (`Escape`). `unpublished` is an auxiliary
  variable: no action reads it. It says that since the file was last written a write of
  it has failed or the known loop has died. The capsule id that `checkpoint_capsule`
  leaves in the status is a string, which json can write.

## Runs

| Run | Instance | What it shows |
|---|---|---|
| `control` | 1 shell with 5 commands; or with 3 beside a writer; or 2 initialising shells and a writer | `TypeOK`, `ContainmentNested`, `NextStepLeadsHome`, `AuditNeverAhead`, `SealNeedsRecovery`, refinement of `ControlLadder`; `SealedIsVerifiable`, `ClosedGateDrains` |
| `store` | 2 writers, 3 saves, 6 candidate states; or 2 binders, 2 attestations and 2 saves | `StoreTypeOK`, `NeverGoesBack`, `AttestedPrefixHolds` |
| `store_orphan` | 2 writers | violation: an orphan history line accepted |
| `action_one` | 1 process, 3 transactions | `ActionTypeOK`, `JournalTellsOneStory`, `PendingIsReconcilable`, refinement of `BoundedLease` |
| `action_leases` | 1 process, 2 leases in a row | `CommittedIsSettled` |
| `action_shared` | 2 processes, 1 transaction, recoveries of up to 2 journal lines | `WrittenAhead` |
| `action_commit` | 1 process, 2 transactions | violation: an unrepairable COMMITTED marker |
| `action_outcome` | the same | violation: a recovery that cannot be restarted |
| `action_two` | 2 processes, 2 transactions | violation: a lease exceeded |
| `library` | one instance of each library, one at a time (below) | all: `LibraryTypeOK`, which also says that the policy stays within its grants and that comparisons are true; strata: `EnactedIsSpent`; premises: `RestrictionIsFounded`, `OnlyResolutionLifts`; carriages: `LineageIsSound`; clocks: `LocalTimeIsEarned`, `WarrantPaysForTicks`; coalitions: `BudgetIsConserved`, `SpendingIsAlive`; routing: `LosersDoNotSteer`; promotion: `PromotionIsWitnessed`, `StaleProposalsAreDead`, `SteeringIsCurrent`; sessions: `SessionTypeOK`, `WithinContract`, `ReceiptsAlternate`, `StopIsFinal`, refinement of `BoundedLease` |
| `heart_one` | 1 caller, 2 worker threads, 2 jobs, one of which leaves the metrics, history of 2 | `HeartTypeOK`, `LiveLoopIsStoppable`, `StatusIsTrue`, `StopSettles`, `DueJobsRun` |
| `heart_two` | 2 callers, 1 job | violation: a running heart that cannot be stopped |

Why the bounds are enough to be interesting:

* `MaxCommands` (control): three commands climb from a seal to normal, so five
  contain a full cycle with an interfering command and a crash. More than one shell
  is the subject of the proofs.
* `MaxSaves`, `Candidates` (store): the candidates contain a lease at every usage
  up to one above its limit, the same revision with another lineage, and the
  states before and after it; three saves are a fork and what is built on it.
* `MaxTransactions`, `MaxRevision`, `MaxHistory`, `MaxEvents` (action): a
  promotion is made while revision and history are below their bounds, a recovery
  is started while the journal is; both may then run to their end. Two
  transactions are what a stale leftover and its successor need; three let a
  recovery line of one be followed by another. `action_leases` has two complete
  leases. `action_shared` bounds the rest tightly because two processes
  interleave at every durable step; `action_two` shows that a second transaction
  is where the unlocked store lets go.
* `control` and `store` compose components whose product is far larger than either.
  Each initial state says which part of the composition moves (`part`): operators
  alone with the large bound, or fewer commands beside the guarded ones, or the
  anchor and the capsules sealed meanwhile. Two saves and two attestations contain a
  save between any two reads of a binder, a fork and a torn line. The theorem about
  `GuardedCommands` is of the whole composition.
* `library` explores each library from its own initial states and leaves the others
  alone, which loses nothing: they share no state. The bounds: three amendments over
  two texts restore an old text; two revisions make a proposal stale; two challenges
  of three severities reach every threshold, and are weighed and recorded in every portion; two evaluations are one old and one new,
  with one resolution between; two carriages are a parent and its child; two skins, one
  of each mode, advance twice each; two coalitions, one that outlives the sponsor and
  one that does not, of three members; three routes, two changes and a comparison;
  four proposals and six revisions are two full climbs with a collapse between; the
  four witness cases contain a repeated receipt and an unreviewed conflict. A session
  has 2 rules of count 2, 3 actions, 4 ticks and budget 3, and every request up to 2
  units and 2 ticks.
* Two worker threads (heart): the loop given up by a `stop()` and its successor,
  or a loop and a direct `run_due_jobs_once`. A history of two is trimmed, and long
  enough for an output that cannot be written to stand in the way of the write after
  the next result too.
* Symmetry is used only in `action_shared` (processes) and `store` (binders), which have no temporal property. Deadlock checking is
  off where a bounded number of commands or a stopped session ends the system.

## Where the code and its documents disagree

1. **An orphan history line is accepted** (`store_orphan`). After a crash in the
   first save, `load` finds no `state.json` and answers genesis without looking at
   the history; the comment at `constitutional_store.py:263` promises detection.
2. **A missing COMMITTED marker may be beyond repair** (`action_commit`). Two
   transactions that both die before COMMITTED leave two open licenses and the
   inspection raises; the README promises the repair.
3. **Recovery of an outcome on an expired lease cannot be restarted**
   (`action_outcome`). The collapse it saves names the stop receipt as its source,
   the inspection expects the OUTCOME's.
4. **A lease can be spent twice by two commands** (`action_two`). Both validate
   against the unspent session before either replaces it; both execute.
5. **A running heart that `stop()` refuses to stop** (`heart_two`). The second half
   of `stop()` forgets whatever loop is current, also one that another thread has
   started since.

The last two need two shells or threads at once; with one of each the properties hold
(`action_one`, `heart_one`, and the proofs below), the heart's as qualified next. In the same way two control commands
that overlap lose one another's flags, a seal included: `apply_operator_action` reads at
`control_state.py:336` and rewrites the whole file at 375 with no lock. `SealNeedsRecovery`
and `ClimbsLadder` are therefore stated of one shell; `ContainmentNested` and
`NextStepLeadsHome` survive the race.

Further disagreements that the models reach and no run reports:

* **Disbanding leaves grants.** `coalition.py:16` says that disbanding "leaves zero
  temporary grants"; `disband_coalition` revokes the one warrant it is handed (499),
  and `issue_coalition_warrant` may be called any number of times. The others live
  until the expiry that `SpendingIsAlive` checks.
* **A handoff needs no current right.** `src/README.md:227` asks for current carriage
  rights; `cross_skin_handoff` takes a decision of any age and records its time.
* **An anchor half made.** After a kill between the key and the manifest
  (`anchor.py:347`), every `phik init` refuses the key that is there. Two shells that
  initialise at once may publish a manifest whose key has been replaced; nothing
  wrong is ever signed with it (`SealedIsVerifiable`), but nothing is signed at all.

* **A heart that an exception stops.** `_persist_status` is called outside the `try`
  around the callback (`heart.py:449`, and 319 at the end of a round): a returned dict
  that json cannot write (562), or a full disk, ends the loop thread. The jobs behind it
  in the round wait for a restart, and `heart_status.json` keeps saying `running: true`
  while `running` is False. The output stays in `_history`, and that of
  `collect_metrics` in `_last_coherence_frame`, so every later write raises as well,
  those of `start()`, `stop()` and `register_job()` included, until newer results have
  pushed it out; a restarted loop runs one job and dies again meanwhile. Therefore
  `StatusIsTrue` speaks of a file that could be written, `DueJobsRun` of a heart that
  goes on running, and `LiveLoopIsStoppable` allows for one more case. A `stop()` times
  out and gives up the loop A; a `start()` clears the event, A lives on, and starts B; B
  dies of a failed write. Now A runs and `stop()` is refused, with one caller. What holds,
  and is checked and proved, is that the service then still knows of the dead B, so that
  `start()` is accepted and the `stop()` after it ends A too.

And behaviour that a reader may not expect, of which the documents say nothing: a grant
of policy mutation or of bounded control may be used again (the session's own budget is
what bounds it); a petition's seal is not bound to the petition; a premise that was
restored is restricted again by the evidence that the resolution dealt with; two binders
that fork the attestation chain end it; a WALL_RATE lease that waited too long never
advances again.

## Fairness

* `Heart`: weak fairness of each thread running jobs. Operating systems schedule
  threads, and a callback is assumed to return or raise; one that hangs for ever would
  block its loop in the code as well. No fairness is assumed of callers, of the clock,
  or of `stop()`, so `StopSettles` is conditional on the event staying set, and
  `DueJobsRun` on the heart running. Nothing is assumed of writes: every one may fail.
* `GuardedCommands`: weak fairness of the steps of a command that has begun
  (`Works(w)`): no step waits for anything, so the process takes it or is killed. None
  of beginning one, of operators, or of initialising, so `ClosedGateDrains` is
  conditional on the gate staying closed.

The other models state safety only: shell commands may be killed anywhere, nobody
promises to run another, and nobody has to call a library.

## Proofs

All constants are arbitrary: any number of shells, writers, threads, rules, kinds and
jobs, any limits. Assumptions are the named ASSUMEs of the modules, which TLC
evaluates in the runs.

* **`ControlProofs`.** `TypeCorrect`; `AlwaysNested` and `AdviceLeadsHome` for any
  number of racing shells: both follow from `Nested` of every flag record that is
  stored or about to be written. `OneShellKeepsSeal`, `OneShellClimbsLadder` and
  `OneShellLogsLag` assume a single shell. The invariant of the first two adds that what
  a command is about to write was computed from what is stored (`Fresh`), the fact two
  shells destroy; that of the third (`LogsLag`) that how far a command has come says
  which log lines it still owes. `SealedAlwaysVerifiable` for any number of shells that
  initialise and any number of writers. The invariant is that whoever is initialising
  holds an anchor id that nothing else names (`Unheld`): an id is published, by its
  manifest, before any capsule can name it, and is never given to a second key
  (`Sealed`).
* **`StoreProofs`** holds the lemmas about one step of the store that the next two share.
* **`AttestationProofs`.** `StoreTypeCorrect`, `HistoryNeverGoesBack`, `AttestedStaysTrue`.
  `NeverGoesBack` alone is not inductive: it says nothing of entries still to be appended.
  The invariant adds `AppendsFollow`: what a process is about to append succeeds the
  entry it validated against. With `SuccessorSucceeds` and `SucceedsTransitive` an append
  that keeps the chain intact extends the order over any distance. Attestations stay true
  because the history only grows and because what a binder has read so far is true
  already (`BindersHold`).
* **`ActionProofs`.** For any number of commands and recoveries that race:
  `ActionTypeCorrect`, `AlwaysWrittenAhead` and `ActionsNeverGoBack`. What a command has
  left to do says what is on disk already (`Licensing`, `Reporting`), and a save in
  progress is the one its next step asks for (`SaveOK`).
  For one process, which crashes anywhere and recovers any number of times:
  `OneProcessOneStory`, `OneProcessReconciles` and `OneProcessSettles`. The invariant
  they share (`OneInv`) says that the journal (`OneStory`), the state file (`OneState`),
  the save in progress (`OneFile`) and what the command has left to do fit together;
  its heart is `Tells`, what each line still to be journaled takes for granted, because
  a story is spoilt long before the line that spoils it is written: by a command that
  intends it on the strength of what no longer holds.
  `OneProcessHonoursLease` is the refinement of `BoundedLease`. It adds `LeaseInv`:
  what the state file says was used is the most any entry of the history says of that
  lease, the command counts from there, and it has charged what it is about to perform.
  An append of the history is then a `Charge` or a stutter, an execution a `Perform`.
  That there is one process is needed: with two a lease is exceeded (`action_two`).
* **`LeaseProofs`**, from the promotion to the sessions it leads to.
  `PromotionTypeCorrect`, `PromotionAlwaysWitnessed`, `StaleProposalsStayDead`,
  `OnlyCurrentSteers`. Every proposal is founded on witnessed evidence when it is made;
  authorisations happen at strictly growing revisions, each one above the revision its
  proposal was made for, and the last one is what is in force (`AuthorizedInOrder`).
  `SessionTypeCorrect` (which includes that no warrant is overdrawn), `ContractIsKept`,
  `ReceiptsInTurn`, `StopsAreFinal`, `SessionIsLease`, and `CollapseEndsLease`, which no
  run states: a collapsed session licenses nothing. The invariant adds
  `StoppedIsRevoked` and `ReceiptsCount`: twice the actions used, less the one pending,
  is the number of receipts; from that the alternation and the refinement follow by
  arithmetic.
* **`HeartProofs`.** `StatusStaysTrue` for any callers and any failures: a step that ends
  with a write leaves the truth or the mark that it could not (`WrittenIsTrue`), and
  the others leave `Running` alone, except for the death of the known loop, which is
  marked. `OneCallerReachesLoop` under `OneCallerOnly`, from two facts: a `stop()` in
  progress has set the event, and while the event is clear a live loop means that the
  service knows of a loop (`LoopIsKnown`), alive or ended by an exception.
  `HeartTypeCorrect`
  rests on `DueSolvable` and `DueType`: the jobs a round collects are a sequence of
  registered jobs, however many there are.
* **`FoldProofs`.** What was lent, bought or scored is a sum, `SumFunction`, and the
  library defines it by recursion over subsets in an order nobody knows. No induction
  rule can be instantiated here, so each argument takes the least number for which the
  claim were false (`LeastNatural`, `SubsetInduction`): the recursion has a solution
  (`SumExists`), the order makes no difference (`SumsAgree`), and from that `SumType`,
  `SumEmpty`, `SumExtend` (one value more), `SumChange` (another value in one place) and
  `SumWithin` (smaller values, smaller sum). `DueSolvable` is proved in the same way.
* **`LibraryProofs`**, for any number of the values that callers keep.
  * Carriages: `LineageStaysSound`. The invariant adds that a verdict names a carriage
    that was produced; candidates never change and nothing verified is unverified, so
    what an admission rested on stays as it was.
  * Coalitions: `BudgetStaysConserved`, `SpendingStaysAlive`. No child is overdrawn and
    each expires with the earlier of charter and sponsor; lending extends the sum of
    the limits by what the sponsor is charged (`SumExtend`), spending changes one term
    of the other (`SumChange`), which stays below the first (`SumWithin`).
  * Clock skins: `LocalTimeStaysEarned`, `WarrantAlwaysPays`. The two with the type are
    inductive together; `WaitingAdds` is the arithmetic of an interval that is counted
    from where the last one ended, `AdvanceAccounts` and `PaymentStep` that a receipt
    moves the lease's sum and the warrant's by the same ticks.
  * Premises and strata, composed (`GovernanceSpec`): `EnactedStaysSpent`,
    `RestrictionStaysFounded`, `OnlyResolutionEverLifts`, `GovernanceTypeCorrect`. An
    enacted petition was written against a history shorter than the one there is; it is
    the length that grows, never the text, which an amendment may restore. A restriction
    is founded because an evaluation recommends what it has weighed enough for or finds
    in place (`RecommendedIsFounded`): behind each restriction, in force or recommended,
    is one that weighed enough, and evaluations are only ever added.
  * Router: `LosersNeverSteer`, `ComparisonsStayCountable`. The first is about one step
    and any field: a loser that worsens admits no new route and lowers no cost
    (`WorseIsNoBetter`, `NoBetterAdmits`), the saturation of the others changes only
    where the selected route is the only one left, and the tie-break looks at names.
  * `LibraryTypeCorrect` puts the types together for the run's own specification.

Only model-checked: liveness (`StopSettles`, `DueJobsRun`, `ClosedGateDrains`), which
like ENABLED is beyond the prover. Every invariant, every action property and every
refinement that a passing run checks has a theorem of its own. Those of the libraries
are about the specification of each (`CarriageSpec`, `CoalitionSpec`, `ClockSpec`,
`GovernanceSpec`, `RouterSpec`), whose actions are the ones the run explores one library
at a time.

None of the modules uses a RECURSIVE operator; `DueAmong` is a recursive function.

## What is not covered

* Cryptography, JSON and text, file permissions, numeric scoring (`coherence.py`,
  TIEKAT), rendering: library code, pure I/O or floating point. Scars and saturation
  are present as what the router and the premises take from them, without weights and
  half-lives.
* Threads that cannot be started, and exceptions raised into a thread from outside
  (KeyboardInterrupt): the heart's failures are those of callbacks and of writes.
* Floats: amounts and ticks are naturals. A rounding in `ResourceBudget.debit` that
  takes a sum over its limit is outside the model.
* The content of seals, grants and contracts beyond what decides: a seal is valid and
  names its proposal. `ConstitutionalAction` takes the promotion that starts a lease as
  authorised; how it comes about is `Promotion`.
* Not modelled because nothing in them changes state: `constitutional_authority.py`,
  `constitutional_shell.py`, `router.py`, `anc_bridge.py`, `trust_runtime.py`,
  the restoring and listing of capsules, and the shell commands that only read.
* The file system: an append is one durable step that may be torn by a crash, a
  replace is atomic. Lost directory entries are not modelled.
* Someone editing the files: hash chains are modelled for what crashes and races do.

## Plan

1. Done: control substrate, store, action transaction and recovery, warrants and
   sessions, heart.
2. Done: promotion with its sessions; anchor and capsules under a control state that
   changes; attestation over the store's moving heads; clock skins, coalitions,
   premises, strata, carriages; the router and its shadow.
3. Done: proofs of the control substrate, the store and its attestation, the anchor,
   promotion, sessions, the heart, and the action transaction: types and `WrittenAhead`
   for any number of processes, the journal, the recovery and the refinement of the
   lease for one.
4. Done: proofs of the libraries and of the scheduler's types, with the lemmas about sums
   that they need.
5. Left: the parts listed above as partly modelled (the shell's restore and pulse-once,
   the restoring of capsules); a theorem that relates `Promotion`'s sessions to those of
   `ControlSession`, which so far share the abstract lease and nothing else.
