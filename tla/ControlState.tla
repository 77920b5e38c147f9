---------------------------- MODULE ControlState ----------------------------
(***************************************************************************)
(* The operator control substrate (control_state.py): one JSON file holds  *)
(* the review / quarantine / seal / recovery flags, and every `phik        *)
(* control` command reads it, computes a transition, rewrites it in place  *)
(* and appends one or two audit records.  Nothing locks the file: each     *)
(* command is a process of its own that reads, truncates, writes and logs  *)
(* in separate steps, and may be killed between any two of them.           *)
(***************************************************************************)
EXTENDS Naturals, FiniteSets

CONSTANTS
  Operators,     \* shells that may have a control command running
  MaxCommands    \* bound on the commands started in one behaviour

ASSUME MaxCommandsAssumption == MaxCommands \in Nat

VARIABLES
  state_file,        \* runtime_control_state.json: its last complete content
  torn,              \* TRUE while the file is truncated and not yet rewritten
  actions_logged,    \* lines of runtime_control_actions.jsonl
  recovery_logged,   \* lines of runtime_recovery_actions.jsonl
  pc,                \* per operator: the next step of its command
  command,           \* per operator: the command, an action and its note
  resulting,         \* per operator: the state its command will write
  started            \* commands started so far (bounds the model only)

vars == <<state_file, torn, actions_logged, recovery_logged, pc, command,
          resulting, started>>

-----------------------------------------------------------------------------
(* The actions and the state they act on.                                  *)

RecoveryActions ==
  {"clear_review", "release_quarantine", "recover_from_seal", "begin_recovery"}

Actions ==
  {"refresh", "approve", "review", "quarantine", "seal"} \union RecoveryActions

RecoveryStates ==
  {"none", "review_pending", "quarantine_pending", "seal_recovery_required",
   "recovered", "recovery_blocked", "recovery_in_progress"}

Flags == [review_required   : BOOLEAN,
          quarantined       : BOOLEAN,
          sealed            : BOOLEAN,
          recovery_required : BOOLEAN,
          recovery_state    : RecoveryStates]

RuntimeControlState ==
  [flags : Flags, action_history_count : Nat, recovery_history_count : Nat]

\* Only recover_from_seal looks at its note.
Commands ==
  [action : Actions \ {"recover_from_seal"}, note : {FALSE}]
    \union [action : {"recover_from_seal"}, note : BOOLEAN]

ClearFlags == [review_required |-> FALSE, quarantined |-> FALSE,
               sealed |-> FALSE, recovery_required |-> FALSE,
               recovery_state |-> "none"]

InitialState == [flags |-> ClearFlags, action_history_count |-> 0,
                 recovery_history_count |-> 0]

NoCommand == [action |-> "refresh", note |-> FALSE]

-----------------------------------------------------------------------------
(* _apply_transition: the flags an action leaves behind.                   *)

Refresh(f) == f

Review(f) == [f EXCEPT !.review_required = TRUE, !.recovery_required = FALSE,
                       !.recovery_state = "review_pending"]

Quarantine(f) == [f EXCEPT !.quarantined = TRUE, !.review_required = TRUE,
                           !.recovery_required = TRUE,
                           !.recovery_state = "quarantine_pending"]

Seal(f) == [f EXCEPT !.sealed = TRUE, !.quarantined = TRUE,
                     !.review_required = TRUE, !.recovery_required = TRUE,
                     !.recovery_state = "seal_recovery_required"]

ReviewCleared(f) == [f EXCEPT !.review_required = FALSE,
                              !.recovery_required = FALSE,
                              !.recovery_state = "recovered"]

Contained(f) == f.sealed \/ f.quarantined

\* Variant of Blocked with the recovery state misspelt.
BlockedMisspelt(f) == [f EXCEPT !.recovery_state = "recovery_block"]

\* A rejected recovery action still writes: the runtime is marked blocked.
Blocked(f) == [f EXCEPT !.recovery_state = "recovery_blocked"]

BlockedRequired(f) == [Blocked(f) EXCEPT !.recovery_required = TRUE]

Approve(f) == IF ~Contained(f) /\ f.review_required THEN ReviewCleared(f) ELSE f

ClearReview(f) ==
  IF Contained(f) THEN BlockedRequired(f)
  ELSE IF f.review_required THEN ReviewCleared(f) ELSE Blocked(f)

\* Variant of ReleaseQuarantine that does not look at the seal.
ReleaseUnderSeal(f) ==
  IF ~f.quarantined THEN Blocked(f)
  ELSE [f EXCEPT !.quarantined = FALSE, !.recovery_required = FALSE,
                 !.recovery_state = "review_pending"]

ReleaseQuarantine(f) ==
  IF f.sealed THEN BlockedRequired(f)
  ELSE IF ~f.quarantined THEN Blocked(f)
  ELSE [f EXCEPT !.quarantined = FALSE, !.recovery_required = FALSE,
                 !.recovery_state = IF f.review_required THEN "review_pending"
                                                         ELSE "recovered"]

BeginRecovery(f) ==
  IF Contained(f) \/ f.review_required
  THEN [f EXCEPT !.recovery_required = TRUE,
                 !.recovery_state = "recovery_in_progress"]
  ELSE Blocked(f)

\* Variant of RecoverFromSeal that does not ask for the note.
RecoverUnnoted(f, note) ==
  IF ~f.sealed THEN Blocked(f)
  ELSE [f EXCEPT !.sealed = FALSE, !.recovery_state = "recovery_in_progress"]

\* Variant of RecoverFromSeal that lifts the quarantine along with the seal.
RecoverFully(f, note) ==
  IF ~f.sealed THEN Blocked(f)
  ELSE IF ~note THEN BlockedRequired(f)
  ELSE [f EXCEPT !.sealed = FALSE, !.quarantined = FALSE,
                 !.recovery_required = FALSE, !.recovery_state = "review_pending"]

RecoverFromSeal(f, note) ==
  IF ~f.sealed THEN Blocked(f)
  ELSE IF ~note THEN BlockedRequired(f)
  ELSE [f EXCEPT !.sealed = FALSE, !.quarantined = TRUE,
                 !.review_required = TRUE, !.recovery_required = TRUE,
                 !.recovery_state = "recovery_in_progress"]

Transition(c, f) ==
  CASE c.action = "refresh"            -> Refresh(f)
    [] c.action = "review"             -> Review(f)
    [] c.action = "quarantine"         -> Quarantine(f)
    [] c.action = "seal"               -> Seal(f)
    [] c.action = "approve"            -> Approve(f)
    [] c.action = "clear_review"       -> ClearReview(f)
    [] c.action = "release_quarantine" -> ReleaseQuarantine(f)
    [] c.action = "begin_recovery"     -> BeginRecovery(f)
    [] c.action = "recover_from_seal"  -> RecoverFromSeal(f, c.note)

\* Variant of NextStep that tests the quarantine before the seal.
NextStepQuarantineFirst(f) ==
  IF f.quarantined THEN "release_quarantine"
  ELSE IF f.review_required THEN "clear_review" ELSE "proceed"

\* The step the runtime tells its operator to take next.
NextStep(f) ==
  IF f.sealed THEN "recover_from_seal"
  ELSE IF f.quarantined THEN "release_quarantine"
  ELSE IF f.recovery_state = "recovery_in_progress"
       THEN "complete_recovery_review"
  ELSE IF f.review_required THEN "clear_review"
  ELSE "proceed"

\* Variant of Apply that forgets to count the action.
ApplyUncounted(c, s) ==
  [flags |-> Transition(c, s.flags),
   action_history_count |-> s.action_history_count,
   recovery_history_count |-> s.recovery_history_count]

\* What a command writes over the state it read.
Apply(c, s) ==
  [flags |-> Transition(c, s.flags),
   action_history_count |-> s.action_history_count + 1,
   recovery_history_count |->
     IF c.action \in RecoveryActions THEN s.recovery_history_count + 1
                                     ELSE s.recovery_history_count]

-----------------------------------------------------------------------------
(* One command, step by step.                                              *)

Init ==
  /\ state_file = InitialState
  /\ torn = FALSE
  /\ actions_logged = 0
  /\ recovery_logged = 0
  /\ pc = [o \in Operators |-> "idle"]
  /\ command = [o \in Operators |-> NoCommand]
  /\ resulting = [o \in Operators |-> InitialState]
  /\ started = 0

\* The command reads the file and computes what it will write.  A truncated
\* file is not JSON: the load raises and the command ends having done nothing.
Load(o, c) ==
  /\ pc[o] = "idle"
  /\ started < MaxCommands
  /\ ~torn
  /\ started' = started + 1
  /\ command' = [command EXCEPT ![o] = c]
  /\ resulting' = [resulting EXCEPT ![o] = Apply(c, state_file)]
  /\ pc' = [pc EXCEPT ![o] = "truncate"]
  /\ UNCHANGED <<state_file, torn, actions_logged, recovery_logged>>

\* open("w") empties the file before anything is written to it.
Truncate(o) ==
  /\ pc[o] = "truncate"
  /\ torn' = TRUE
  /\ pc' = [pc EXCEPT ![o] = "write"]
  /\ UNCHANGED <<state_file, actions_logged, recovery_logged, command,
                 resulting, started>>

\* The new text lands from offset 0.  If another command rewrote the file since
\* this one truncated it, a longer old text leaves its tail behind: not JSON.
Write(o) ==
  /\ pc[o] = "write"
  /\ \/ state_file' = resulting[o] /\ torn' = FALSE
     \/ ~torn /\ torn' = TRUE /\ UNCHANGED state_file
  /\ pc' = [pc EXCEPT ![o] = "log"]
  /\ UNCHANGED <<actions_logged, recovery_logged, command, resulting, started>>

Forget(o) ==
  /\ pc' = [pc EXCEPT ![o] = "idle"]
  /\ command' = [command EXCEPT ![o] = NoCommand]
  /\ resulting' = [resulting EXCEPT ![o] = InitialState]

LogAction(o) ==
  /\ pc[o] = "log"
  /\ actions_logged' = actions_logged + 1
  /\ IF command[o].action \in RecoveryActions
     THEN pc' = [pc EXCEPT ![o] = "log_recovery"] /\ UNCHANGED <<command, resulting>>
     ELSE Forget(o)
  /\ UNCHANGED <<state_file, torn, recovery_logged, started>>

LogRecovery(o) ==
  /\ pc[o] = "log_recovery"
  /\ recovery_logged' = recovery_logged + 1
  /\ Forget(o)
  /\ UNCHANGED <<state_file, torn, actions_logged, started>>

\* The process is killed; what it had not yet done to the files is lost.
Crash(o) ==
  /\ pc[o] # "idle"
  /\ Forget(o)
  /\ UNCHANGED <<state_file, torn, actions_logged, recovery_logged, started>>

Next ==
  \E o \in Operators :
    \/ \E c \in Commands : Load(o, c)
    \/ Truncate(o)
    \/ Write(o)
    \/ LogAction(o)
    \/ LogRecovery(o)
    \/ Crash(o)

Spec == Init /\ [][Next]_vars

-----------------------------------------------------------------------------
(* Correctness.                                                            *)

\* Every variable of the model has its type.
TypeOK ==
  /\ state_file \in RuntimeControlState
  /\ torn \in BOOLEAN
  /\ actions_logged \in Nat
  /\ recovery_logged \in Nat
  /\ pc \in [Operators -> {"idle", "truncate", "write", "log", "log_recovery"}]
  /\ command \in [Operators -> Commands]
  /\ resulting \in [Operators -> RuntimeControlState]
  /\ started \in 0 .. MaxCommands

Nested(f) ==
  /\ f.sealed => f.quarantined
  /\ f.quarantined => f.review_required
  /\ f.recovery_required => f.review_required
  /\ f.recovery_state = "recovery_in_progress" => f.review_required

\* Each boundary contains the weaker ones: a seal is also a quarantine, a
\* quarantine also requires review, and a pending recovery is never left behind
\* once review is cleared -- it holds bounded control (orchestrate_runtime) and
\* capsule writes, so nothing could clear it.  Lost updates between concurrent
\* commands must not break this either.
ContainmentNested == Nested(state_file.flags)

Follow(f) ==
  CASE NextStep(f) = "recover_from_seal"  -> RecoverFromSeal(f, TRUE)
    [] NextStep(f) = "release_quarantine" -> ReleaseQuarantine(f)
    [] NextStep(f) = "proceed"            -> Refresh(f)
    [] OTHER                              -> ClearReview(f)

\* The advice the control file carries is never a dead end: from any state the
\* operators can have left, three commands that follow next_step, one per
\* boundary, return the runtime to normal with no recovery outstanding.
NextStepLeadsHome ==
  LET home == Follow(Follow(Follow(state_file.flags)))
  IN  NextStep(home) = "proceed" /\ ~home.recovery_required

\* "seal remains a stronger boundary that requires explicit recovery action":
\* the file loses its seal only by a recover_from_seal that carries a note.
SealNeedsRecovery ==
  [][state_file.flags.sealed /\ ~state_file'.flags.sealed
       => \E o \in Operators :
            pc[o] = "write" /\ command[o] = [action |-> "recover_from_seal",
                                              note |-> TRUE]]_vars

\* The audit logs trail the state file, never lead it: whatever a log line
\* reports is in force, whichever step a command is killed after.
AuditNeverAhead ==
  /\ actions_logged <= state_file.action_history_count
  /\ recovery_logged <= state_file.recovery_history_count

\* Where the runtime stands on the containment ladder.
Rung == LET f == state_file.flags
        IN  IF f.sealed THEN 3 ELSE IF f.quarantined THEN 2
            ELSE IF f.review_required THEN 1 ELSE 0

Ladder == INSTANCE ControlLadder WITH rung <- Rung

\* Commands run one at a time, whatever crashes in between, walk the ladder:
\* containment is raised at will and lowered one rung per command.
ClimbsLadder == Ladder!Spec
=============================================================================
