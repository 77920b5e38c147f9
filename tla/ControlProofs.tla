--------------------------- MODULE ControlProofs ---------------------------
(***************************************************************************)
(* Proofs about the operator control substrate and what it guards, for any *)
(* number of shells that race and crash: the flags and logs of the control *)
(* state, then the capsules and the anchor they are sealed under.  What the*)
(* code guarantees for a single shell only is proved for a single shell.   *)
(***************************************************************************)
EXTENDS GuardedCommands, TLAPS

-----------------------------------------------------------------------------
(* Lemmas about the transition table.                                      *)

\* Every transition of a nested set of flags leaves a nested set of flags.
LEMMA TransitionNested ==
  ASSUME NEW f \in Flags, NEW c \in Commands
  PROVE  /\ Transition(c, f) \in Flags
         /\ Nested(f) => Nested(Transition(c, f))
<1> USE DEF Flags, RecoveryStates, Nested, Contained, Blocked, BlockedRequired
<1>1. CASE c.action = "refresh"
  BY <1>1 DEF Transition, Refresh
<1>2. CASE c.action = "review"
  BY <1>2 DEF Transition, Review
<1>3. CASE c.action = "quarantine"
  BY <1>3 DEF Transition, Quarantine
<1>4. CASE c.action = "seal"
  BY <1>4 DEF Transition, Seal
<1>5. CASE c.action = "approve"
  BY <1>5 DEF Transition, Approve, ReviewCleared
<1>6. CASE c.action = "clear_review"
  BY <1>6 DEF Transition, ClearReview, ReviewCleared
<1>7. CASE c.action = "release_quarantine"
  BY <1>7 DEF Transition, ReleaseQuarantine
<1>8. CASE c.action = "begin_recovery"
  BY <1>8 DEF Transition, BeginRecovery
<1>9. CASE c.action = "recover_from_seal"
  BY <1>9 DEF Transition, RecoverFromSeal
<1> QED
  BY <1>1, <1>2, <1>3, <1>4, <1>5, <1>6, <1>7, <1>8, <1>9
     DEF Commands, Actions, RecoveryActions

\* A command writes a state of the right type.
LEMMA ApplyType ==
  ASSUME NEW s \in RuntimeControlState, NEW c \in Commands
  PROVE  /\ Apply(c, s) \in RuntimeControlState
         /\ Apply(c, s).flags = Transition(c, s.flags)
<1>1. s.flags \in Flags
  BY DEF RuntimeControlState
<1>2. Transition(c, s.flags) \in Flags
  BY <1>1, TransitionNested
<1> QED
  BY <1>2 DEF Apply, RuntimeControlState

\* A command lifts at most the outermost boundary.
LEMMA TransitionLowersOne ==
  ASSUME NEW f \in Flags, NEW c \in Commands, Nested(f)
  PROVE  /\ f.sealed => Transition(c, f).quarantined
         /\ f.quarantined => Transition(c, f).review_required
<1> USE DEF Flags, Nested, Contained, Blocked, BlockedRequired, Transition
<1>1. CASE c.action \in {"refresh", "review", "quarantine", "seal"}
  BY <1>1 DEF Refresh, Review, Quarantine, Seal
<1>2. CASE c.action \in {"approve", "clear_review"}
  BY <1>2 DEF Approve, ClearReview, ReviewCleared
<1>3. CASE c.action \in {"release_quarantine", "begin_recovery"}
  BY <1>3 DEF ReleaseQuarantine, BeginRecovery
<1>4. CASE c.action = "recover_from_seal"
  BY <1>4 DEF RecoverFromSeal
<1> QED
  BY <1>1, <1>2, <1>3, <1>4 DEF Commands, Actions, RecoveryActions

-----------------------------------------------------------------------------
(* Any number of shells.                                                   *)

LEMMA InitialValues ==
  /\ InitialState \in RuntimeControlState
  /\ NoCommand \in Commands
  /\ InitialState.flags = ClearFlags
BY DEF InitialState, RuntimeControlState, NoCommand, Commands, Actions,
       RecoveryActions, ClearFlags, Flags, RecoveryStates

\* Every variable keeps its type, whatever the commands and the crashes.
THEOREM TypeCorrect == Spec => []TypeOK
<1>1. Init => TypeOK
  <2>1. Init => /\ state_file \in RuntimeControlState
               /\ command \in [Operators -> Commands]
               /\ resulting \in [Operators -> RuntimeControlState]
    BY InitialValues DEF Init
  <2>4. Init => torn \in BOOLEAN
    BY DEF Init
  <2>2. Init => /\ actions_logged \in Nat
               /\ recovery_logged \in Nat
               /\ started \in 0 .. MaxCommands
    BY MaxCommandsAssumption DEF Init
  <2>3. Init => pc \in [Operators -> {"idle", "truncate", "write", "log",
                                      "log_recovery"}]
    BY DEF Init
  <2> QED
    BY <2>1, <2>2, <2>3, <2>4 DEF TypeOK
<1>2. TypeOK /\ [Next]_vars => TypeOK'
  <2> SUFFICES ASSUME TypeOK, [Next]_vars
               PROVE  TypeOK'
    OBVIOUS
  <2> USE DEF TypeOK
  <2>1. CASE UNCHANGED vars
    BY <2>1 DEF vars
  <2>2. ASSUME NEW o \in Operators, NEW c \in Commands, Load(o, c)
        PROVE  TypeOK'
    <3>1. Apply(c, state_file) \in RuntimeControlState
      BY ApplyType
    <3> QED
      BY <2>2, <3>1, MaxCommandsAssumption DEF Load
  <2>3. ASSUME NEW o \in Operators, Truncate(o)
        PROVE  TypeOK'
    BY <2>3 DEF Truncate
  <2>4. ASSUME NEW o \in Operators, Write(o)
        PROVE  TypeOK'
    BY <2>4 DEF Write
  <2>5. ASSUME NEW o \in Operators, LogAction(o)
        PROVE  TypeOK'
    BY <2>5, InitialValues DEF LogAction, Forget
  <2>6. ASSUME NEW o \in Operators, LogRecovery(o)
        PROVE  TypeOK'
    BY <2>6, InitialValues DEF LogRecovery, Forget
  <2>7. ASSUME NEW o \in Operators, Crash(o)
        PROVE  TypeOK'
    BY <2>7, InitialValues DEF Crash, Forget
  <2> QED
    BY <2>1, <2>2, <2>3, <2>4, <2>5, <2>6, <2>7 DEF Next
<1> QED
  BY <1>1, <1>2, PTL DEF Spec

\* The file is nested, and so is everything a command is about to write.
NestedEverywhere ==
  /\ ContainmentNested
  /\ \A o \in Operators : Nested(resulting[o].flags)

\* Containment stays nested however many shells race on the file: a lost
\* update can drop a boundary but never leave half of one.
THEOREM AlwaysNested == Spec => []ContainmentNested
<1>1. Init => NestedEverywhere
  BY InitialValues
     DEF Init, NestedEverywhere, ContainmentNested, Nested, ClearFlags
<1>2. TypeOK /\ NestedEverywhere /\ [Next]_vars => NestedEverywhere'
  <2> SUFFICES ASSUME TypeOK, NestedEverywhere, [Next]_vars
               PROVE  NestedEverywhere'
    OBVIOUS
  <2> USE DEF NestedEverywhere, ContainmentNested, TypeOK
  <2>0. Nested(InitialState.flags)
    BY InitialValues DEF Nested, ClearFlags
  <2>1. CASE UNCHANGED vars
    BY <2>1 DEF vars
  <2>2. ASSUME NEW o \in Operators, NEW c \in Commands, Load(o, c)
        PROVE  NestedEverywhere'
    <3>1. state_file.flags \in Flags
      BY DEF RuntimeControlState
    <3>2. Nested(Apply(c, state_file).flags)
      BY <3>1, TransitionNested, ApplyType
    <3> QED
      BY <2>2, <3>2 DEF Load
  <2>3. ASSUME NEW o \in Operators, Truncate(o)
        PROVE  NestedEverywhere'
    BY <2>3 DEF Truncate
  <2>4. ASSUME NEW o \in Operators, Write(o)
        PROVE  NestedEverywhere'
    BY <2>4 DEF Write
  <2>5. ASSUME NEW o \in Operators, LogAction(o)
        PROVE  NestedEverywhere'
    BY <2>5, <2>0 DEF LogAction, Forget
  <2>6. ASSUME NEW o \in Operators, LogRecovery(o)
        PROVE  NestedEverywhere'
    BY <2>6, <2>0 DEF LogRecovery, Forget
  <2>7. ASSUME NEW o \in Operators, Crash(o)
        PROVE  NestedEverywhere'
    BY <2>7, <2>0 DEF Crash, Forget
  <2> QED
    BY <2>1, <2>2, <2>3, <2>4, <2>5, <2>6, <2>7 DEF Next
<1>3. NestedEverywhere => ContainmentNested
  BY DEF NestedEverywhere
<1> QED
  BY <1>1, <1>2, <1>3, TypeCorrect, PTL DEF Spec

\* Following next_step lifts the outermost boundary and adds none.
LEMMA FollowLowers ==
  ASSUME NEW f \in Flags, Nested(f)
  PROVE  /\ Follow(f) \in Flags
         /\ Nested(Follow(f))
         /\ ~Follow(f).sealed
         /\ ~f.sealed => ~Follow(f).quarantined
         /\ ~f.sealed /\ ~f.quarantined => ~Follow(f).review_required
BY DEF Follow, NextStep, RecoverFromSeal, ReleaseQuarantine, Refresh,
       ClearReview, ReviewCleared, Contained, Blocked, BlockedRequired,
       Flags, RecoveryStates, Nested

\* Three commands that follow next_step bring any reachable runtime home.
THEOREM AdviceLeadsHome == Spec => []NextStepLeadsHome
<1>1. TypeOK /\ ContainmentNested => NextStepLeadsHome
  <2> SUFFICES ASSUME NEW f \in Flags, Nested(f)
               PROVE  LET home == Follow(Follow(Follow(f)))
                      IN  NextStep(home) = "proceed" /\ ~home.recovery_required
    BY DEF TypeOK, RuntimeControlState, ContainmentNested, NextStepLeadsHome
  <2> DEFINE g == Follow(f)
             h == Follow(g)
             home == Follow(h)
  <2>1. g \in Flags /\ Nested(g) /\ ~g.sealed
    BY FollowLowers
  <2>2. h \in Flags /\ Nested(h) /\ ~h.sealed /\ ~h.quarantined
    BY <2>1, FollowLowers
  <2>3. /\ home \in Flags /\ Nested(home)
        /\ ~home.sealed /\ ~home.quarantined /\ ~home.review_required
    BY <2>2, FollowLowers
  <2> HIDE DEF home
  <2>4. NextStep(home) = "proceed" /\ ~home.recovery_required
    BY <2>3 DEF NextStep, Nested, Flags
  <2> QED
    BY <2>4 DEF home
<1> QED
  BY <1>1, TypeCorrect, AlwaysNested, PTL

-----------------------------------------------------------------------------
(* A single shell.                                                         *)

\* What the command in progress will write is the transition of what is in the
\* file, because nobody else writes it.
Fresh ==
  \A o \in Operators :
    pc[o] \in {"truncate", "write"} => resulting[o] = Apply(command[o], state_file)

LEMMA FreshInvariant ==
  ASSUME NEW p, Operators = {p}
  PROVE  Spec => []Fresh
<1>1. Init => Fresh
  BY DEF Init, Fresh
<1>2. TypeOK /\ Fresh /\ [Next]_vars => Fresh'
  BY DEF TypeOK, Fresh, Next, vars, Load, Truncate, Write, LogAction,
         LogRecovery, Crash, Forget
<1> QED
  BY <1>1, <1>2, TypeCorrect, PTL DEF Spec

\* How far a command has come tells what it may still log.  Its truncation keeps
\* the file torn until it has written: that is what two shells destroy, when one
\* writes into the text of the other.
LogsLag ==
  \A o \in Operators :
    /\ pc[o] = "write" => torn
    /\ pc[o] = "log" => actions_logged < state_file.action_history_count
    /\ \/ pc[o] = "log" /\ command[o].action \in RecoveryActions
       \/ pc[o] = "log_recovery"
       => recovery_logged < state_file.recovery_history_count

\* With one shell a log line is never written before the state it reports,
\* whichever step the command is killed after.
THEOREM OneShellLogsLag ==
  ASSUME NEW p, Operators = {p}
  PROVE  Spec => []AuditNeverAhead
<1>1. Init => AuditNeverAhead /\ LogsLag
  BY DEF Init, InitialState, AuditNeverAhead, LogsLag
<1>2. TypeOK /\ Fresh /\ AuditNeverAhead /\ LogsLag /\ [Next]_vars
        => (AuditNeverAhead /\ LogsLag)'
  <2> SUFFICES ASSUME TypeOK, Fresh, AuditNeverAhead, LogsLag, [Next]_vars
               PROVE  (AuditNeverAhead /\ LogsLag)'
    OBVIOUS
  <2> USE DEF AuditNeverAhead, LogsLag
  <2>0. /\ actions_logged \in Nat /\ recovery_logged \in Nat
        /\ state_file.action_history_count \in Nat
        /\ state_file.recovery_history_count \in Nat
        /\ DOMAIN pc = {p} /\ DOMAIN command = {p}
    BY DEF TypeOK, RuntimeControlState
  <2>1. CASE UNCHANGED vars
    BY <2>1 DEF vars
  <2>2. ASSUME NEW c \in Commands, Load(p, c)
        PROVE  (AuditNeverAhead /\ LogsLag)'
    BY <2>0, <2>2 DEF Load
  <2>3. CASE Truncate(p)
    BY <2>0, <2>3 DEF Truncate
  <2>4. CASE Write(p)
    <3>1. state_file' = Apply(command[p], state_file)
      BY <2>4 DEF Write, Fresh
    <3>2. /\ state_file'.action_history_count = state_file.action_history_count + 1
          /\ state_file'.recovery_history_count =
               IF command[p].action \in RecoveryActions
               THEN state_file.recovery_history_count + 1
               ELSE state_file.recovery_history_count
      BY <3>1 DEF Apply
    <3>3. /\ actions_logged' = actions_logged /\ recovery_logged' = recovery_logged
          /\ command' = command /\ pc' = [pc EXCEPT ![p] = "log"]
      BY <2>4 DEF Write
    <3> QED
      BY <2>0, <3>2, <3>3
  <2>5. CASE LogAction(p)
    BY <2>0, <2>5 DEF LogAction, Forget
  <2>6. CASE LogRecovery(p)
    BY <2>0, <2>6 DEF LogRecovery, Forget
  <2>7. CASE Crash(p)
    BY <2>0, <2>7 DEF Crash, Forget
  <2> QED
    BY <2>1, <2>2, <2>3, <2>4, <2>5, <2>6, <2>7 DEF Next
<1> QED
  BY <1>1, <1>2, TypeCorrect, FreshInvariant, PTL DEF Spec

\* With one shell, only an explicit, noted recovery lifts the seal.
THEOREM OneShellKeepsSeal ==
  ASSUME NEW p, Operators = {p}
  PROVE  Spec => SealNeedsRecovery
<1>1. TypeOK /\ Fresh /\ [Next]_vars
        => [state_file.flags.sealed /\ ~state_file'.flags.sealed
             => \E o \in Operators :
                  pc[o] = "write" /\ command[o] = [action |-> "recover_from_seal",
                                                    note |-> TRUE]]_vars
  <2> SUFFICES ASSUME TypeOK, Fresh, Next,
                      state_file.flags.sealed, ~state_file'.flags.sealed
               PROVE  \E o \in Operators :
                        pc[o] = "write"
                        /\ command[o] = [action |-> "recover_from_seal",
                                          note |-> TRUE]
    BY DEF vars
  <2>1. PICK o \in Operators : Write(o) /\ state_file' = resulting[o]
    BY DEF Next, Load, Truncate, Write, LogAction, LogRecovery, Crash, Forget
  <2>2. /\ pc[o] = "write"
        /\ command[o] \in Commands
        /\ state_file.flags \in Flags
        /\ state_file'.flags = Transition(command[o], state_file.flags)
    BY <2>1, ApplyType DEF Write, Fresh, TypeOK, RuntimeControlState
  <2>3. ASSUME NEW c \in Commands, NEW f \in Flags,
               f.sealed, ~Transition(c, f).sealed
        PROVE  c = [action |-> "recover_from_seal", note |-> TRUE]
    <3>1. c.action = "recover_from_seal"
      BY <2>3
         DEF Transition, Commands, Actions, RecoveryActions, Flags, Refresh,
             Review, Quarantine, Seal, Approve, ClearReview, ReviewCleared,
             ReleaseQuarantine, BeginRecovery, Contained, Blocked,
             BlockedRequired
    <3>2. c.note
      BY <2>3, <3>1
         DEF Transition, RecoverFromSeal, Flags, Blocked, BlockedRequired
    <3>3. c \in [action : {"recover_from_seal"}, note : BOOLEAN]
      BY <3>1 DEF Commands
    <3> QED
      BY <3>1, <3>2, <3>3
  <2> QED
    BY <2>2, <2>3
<1> QED
  BY <1>1, TypeCorrect, FreshInvariant, PTL DEF Spec, SealNeedsRecovery

\* With one shell, the control file implements the containment ladder.
THEOREM OneShellClimbsLadder ==
  ASSUME NEW p, Operators = {p}
  PROVE  Spec => ClimbsLadder
<1>1. Init => Ladder!Init
  BY InitialValues DEF Init, Ladder!Init, Rung, ClearFlags
<1>2. TypeOK /\ ContainmentNested /\ Fresh /\ [Next]_vars
        => [Ladder!Next]_Rung
  <2> SUFFICES ASSUME TypeOK, ContainmentNested, Fresh, Next,
                      state_file' # state_file
               PROVE  [Ladder!Next]_Rung
    BY DEF vars, Rung
  <2>1. PICK o \in Operators : Write(o) /\ state_file' = resulting[o]
    BY DEF Next, Load, Truncate, Write, LogAction, LogRecovery, Crash, Forget
  <2>2. /\ command[o] \in Commands
        /\ state_file.flags \in Flags
        /\ Nested(state_file.flags)
        /\ state_file'.flags = Transition(command[o], state_file.flags)
    BY <2>1, ApplyType
       DEF Write, Fresh, TypeOK, RuntimeControlState, ContainmentNested
  <2> DEFINE R(f) == IF f.sealed THEN 3 ELSE IF f.quarantined THEN 2
                     ELSE IF f.review_required THEN 1 ELSE 0
  <2>3. ASSUME NEW c \in Commands, NEW f \in Flags, Nested(f)
        PROVE  /\ R(f) \in 0 .. 3
               /\ R(Transition(c, f)) \in 0 .. 3
               /\ \/ R(Transition(c, f)) = R(f)
                  \/ R(f) < R(Transition(c, f))
                  \/ R(f) > 0 /\ R(Transition(c, f)) = R(f) - 1
    <3> DEFINE g == Transition(c, f)
    <3>1. /\ f.sealed => g.quarantined
          /\ f.quarantined => g.review_required
      BY <2>3, TransitionLowersOne
    <3>2. Nested(g)
      BY <2>3, TransitionNested
    <3> HIDE DEF g
    <3>3. /\ R(f) \in 0 .. 3
          /\ R(g) \in 0 .. 3
          /\ R(g) >= R(f) - 1
      BY <2>3, <3>1, <3>2 DEF Nested
    <3> QED
      BY <3>3 DEF g
  <2>4. /\ Rung = R(state_file.flags)
        /\ Rung' = R(Transition(command[o], state_file.flags))
    BY <2>2 DEF Rung
  <2>5. /\ Rung' \in 0 .. 3
        /\ Rung' = Rung \/ Rung < Rung' \/ (Rung > 0 /\ Rung' = Rung - 1)
    BY <2>2, <2>3, <2>4
  <2> QED
    BY <2>5 DEF Ladder!Next, Ladder!Raise, Ladder!Lower, Ladder!Rungs
<1> QED
  BY <1>1, <1>2, TypeCorrect, AlwaysNested, FreshInvariant, PTL
     DEF Spec, ClimbsLadder, Ladder!Spec

-----------------------------------------------------------------------------
(* Capsules and the anchor.                                                *)

(* Whoever is initialising holds an anchor id that nothing else names: no   *)
(* manifest, no capsule, no work under way, no other initialisation.  So an *)
(* id that a capsule names can be published before its signature is made,   *)
(* but not afterwards.                                                      *)
Holds(i, id) == initializing[i].phase # "idle" /\ initializing[i].id = id

Unheld(id) == \A i \in Initializers : ~Holds(i, id)

Sealed(c) == c.anchor \in 1 .. anchors /\ Unheld(c.anchor) /\ (Names(c) => Verifies(c))

IdsOK ==
  /\ anchors \in Nat
  /\ key_file \in Nat
  /\ manifest_file \in 0 .. anchors
  /\ initializing \in [Initializers ->
       [phase : {"idle", "create", "write", "sign", "publish"}, id : Nat]]
  /\ \A i \in Initializers :
       initializing[i].phase # "idle" => initializing[i].id \in 1 .. anchors
  /\ \A i, j \in Initializers :
       /\ initializing[i].phase # "idle" /\ initializing[j].phase # "idle"
       /\ initializing[i].id = initializing[j].id
       => i = j
  /\ Unheld(manifest_file)

WorkOK ==
  /\ work \in [Writers -> Work]
  /\ \A w \in Writers :
       /\ work[w].phase \in {"sign", "write"} =>
            work[w].capsule.anchor \in 1 .. anchors /\ Unheld(work[w].capsule.anchor)
       /\ work[w].phase = "write" => Sealed(work[w].capsule)

CapsulesOK == \A c \in capsules : Sealed(c)

IInv == IdsOK /\ WorkOK /\ CapsulesOK

LEMMA IInvInit == AnchorInit /\ GuardedInit => IInv
  BY DEF AnchorInit, GuardedInit, IInv, IdsOK, WorkOK, CapsulesOK, Unheld, Holds,
         NotInitializing, NoAnchor, NoWork, Work, Kinds, Capsule

(* Initialisations leave the writers and the capsules alone.  All they can   *)
(* disturb is the manifest and who holds which id.                           *)
LEMMA AnchorStep ==
  ASSUME IInv, AnchorNext, UNCHANGED guardedVars
  PROVE  IInv'
<1> SUFFICES ASSUME NEW i \in Initializers,
                    \/ Initialize(i) \/ CreateKey(i) \/ WriteKey(i) \/ SignManifest(i)
                    \/ PublishManifest(i) \/ InitializerCrash(i)
             PROVE  IInv'
  BY DEF AnchorNext
<1> USE DEF IInv, guardedVars
<1> DEFINE Fewer ==
      /\ \A j \in Initializers :
           initializing'[j].phase # "idle" =>
             initializing[j].phase # "idle" /\ initializing'[j].id = initializing[j].id
      /\ initializing' \in [Initializers ->
           [phase : {"idle", "create", "write", "sign", "publish"}, id : Nat]]
<1> DEFINE Stays == anchors' = anchors /\ manifest_file' = manifest_file /\ key_file' \in Nat
<1>1. ASSUME Stays, Fewer
      PROVE  IInv'
  <2>1. \A id : Unheld(id) => Unheld(id)'
    BY <1>1 DEF Unheld, Holds
  <2>2. \A c : Sealed(c) => Sealed(c)'
    BY <1>1, <2>1 DEF Sealed, Names, Verifies
  <2>3. IdsOK'
    <3> HIDE DEF IInv
    <3>1. Unheld(manifest_file)'
      BY <1>1, <2>1 DEF IInv, IdsOK
    <3>. QED  BY <1>1, <3>1 DEF IInv, IdsOK
  <2>. QED  BY <1>1, <2>1, <2>2, <2>3 DEF WorkOK, CapsulesOK
<1>2. CASE Initialize(i)
  <2> USE <1>2 DEF Initialize, IdsOK
  <2>1. IdsOK'
    BY DEF Unheld, Holds
  <2>2. \A id \in 1 .. anchors : Unheld(id) => Unheld(id)'
    BY DEF Unheld, Holds
  <2>3. \A c : Sealed(c) => Sealed(c)'
    BY <2>2 DEF Sealed, Names, Verifies
  <2>. QED  BY <2>1, <2>2, <2>3 DEF WorkOK, CapsulesOK
<1>3. CASE CreateKey(i)
  <2>1. Stays
    BY <1>3 DEF CreateKey, Continues, Ends, NotInitializing, NoAnchor, IdsOK
  <2>2. Fewer
    BY <1>3 DEF CreateKey, Continues, Ends, NotInitializing, NoAnchor, IdsOK
  <2>. QED  BY <1>1, <2>1, <2>2
<1>4. CASE WriteKey(i)
  <2>1. Stays
    BY <1>4 DEF WriteKey, Continues, IdsOK
  <2>2. Fewer
    BY <1>4 DEF WriteKey, Continues, IdsOK
  <2>. QED  BY <1>1, <2>1, <2>2
<1>5. CASE SignManifest(i)
  <2>1. Stays
    BY <1>5 DEF SignManifest, Continues, Ends, NotInitializing, NoAnchor, IdsOK
  <2>2. Fewer
    BY <1>5 DEF SignManifest, Continues, Ends, NotInitializing, NoAnchor, IdsOK
  <2>. QED  BY <1>1, <2>1, <2>2
<1>6. CASE PublishManifest(i)
  <2> USE <1>6 DEF PublishManifest, Ends, NotInitializing, NoAnchor
  <2>1. IdsOK'
    BY DEF IdsOK, Unheld, Holds
  <2>2. \A id : Unheld(id) => Unheld(id)' /\ id # manifest_file'
    BY DEF IdsOK, Unheld, Holds
  <2>3. \A c : Sealed(c) => Sealed(c)'
    BY <2>2 DEF Sealed, Names, Verifies
  <2>. QED  BY <2>1, <2>2, <2>3 DEF WorkOK, CapsulesOK
<1>7. CASE InitializerCrash(i)
  <2>1. Stays
    BY <1>7 DEF InitializerCrash, Ends, NotInitializing, NoAnchor, IdsOK
  <2>2. Fewer
    BY <1>7 DEF InitializerCrash, Ends, NotInitializing, NoAnchor, IdsOK
  <2>. QED  BY <1>1, <2>1, <2>2
<1>. QED  BY <1>2, <1>3, <1>4, <1>5, <1>6, <1>7

(* A command that is done leaves nothing to account for.                    *)
LEMMA DoneKeeps ==
  ASSUME WorkOK, NEW w \in Writers, Done(w), UNCHANGED anchorVars
  PROVE  WorkOK'
  BY DEF WorkOK, Done, anchorVars, NoWork, NoAnchor, Work, Kinds, Capsule, Unheld,
         Holds, Sealed, Names, Verifies

(* Writers leave the anchor alone.                                          *)
LEMMA GuardedStep ==
  ASSUME IInv, GuardedNext, UNCHANGED <<vars, anchorVars>>
  PROVE  IInv'
<1> SUFFICES ASSUME NEW w \in Writers,
                    (\E kind \in Kinds : Begin(w, kind)) \/ Works(w) \/ Abandon(w)
             PROVE  IInv'
  BY DEF GuardedNext
<1>1. IdsOK'
  BY DEF IInv, IdsOK, anchorVars, Unheld, Holds
<1>2. \A c : Sealed(c) => Sealed(c)'
  BY DEF anchorVars, Sealed, Names, Verifies, Unheld, Holds
<1>3. CASE \E kind \in Kinds : Begin(w, kind)
  <2>1. PICK kind \in Kinds : Begin(w, kind)
    BY <1>3
  <2>2. WorkOK'
    BY <2>1 DEF Begin, IInv, WorkOK, anchorVars, NoWork, NoAnchor, Work, Kinds, Capsule,
                Unheld, Holds, Sealed, Names, Verifies
  <2>3. CapsulesOK'
    BY <2>1, <1>2 DEF Begin, IInv, CapsulesOK
  <2>. QED  BY <1>1, <2>2, <2>3 DEF IInv
<1>4. CASE ReadManifest(w)
  <2>1. manifest_file # NoAnchor => manifest_file \in 1 .. anchors /\ Unheld(manifest_file)
    BY DEF IInv, IdsOK, NoAnchor
  <2>2. WorkOK'
    <3>1. CASE manifest_file = NoAnchor
      BY <3>1, <1>4, DoneKeeps DEF ReadManifest, IInv
    <3>2. CASE manifest_file # NoAnchor
      <4> USE <1>4, <3>2 DEF ReadManifest, IInv
      <4>1. manifest_file \in Nat
        BY DEF IdsOK
      <4> DEFINE next == [work[w] EXCEPT !.phase = "sign", !.capsule.anchor = manifest_file]
      <4>2. work' \in [Writers -> Work]
        <5>1. work' = [work EXCEPT ![w] = next]
          BY DEF WorkOK
        <5>2. next \in Work
          BY <4>1 DEF WorkOK, Work, Capsule
        <5>. QED  BY <5>1, <5>2 DEF WorkOK
      <4>3. \A v \in Writers \ {w} : work'[v] = work[v]
        BY DEF WorkOK
      <4>4. work'[w].phase = "sign" /\ work'[w].capsule.anchor = manifest_file
        BY <4>1 DEF WorkOK, Work, Capsule
      <4>5. anchors' = anchors /\ \A id : Unheld(id) => Unheld(id)'
        BY DEF anchorVars, Unheld, Holds
      <4>. QED  BY <1>2, <2>1, <4>2, <4>3, <4>4, <4>5 DEF WorkOK
    <3>. QED  BY <3>1, <3>2
  <2>. QED  BY <1>1, <1>2, <1>4, <2>2 DEF ReadManifest, IInv, CapsulesOK
<1>5. CASE SignCapsule(w)
  <2>1. WorkOK'
    <3>1. CASE Unlocks(manifest_file)
      <4> USE <1>5, <3>1 DEF SignCapsule, Unlocks, IInv
      <4> DEFINE next == [work[w] EXCEPT !.phase = "write", !.capsule.signer = key_file]
      <4>1. work' = [work EXCEPT ![w] = next]
        BY DEF WorkOK
      <4>2. next \in Work /\ next.capsule.signer = manifest_file
        BY DEF WorkOK, IdsOK, Work, Capsule
      <4>3. next.capsule.anchor = work[w].capsule.anchor
        BY DEF WorkOK, Work, Capsule
      <4>4. Sealed(next.capsule)
        <5>1. work[w].phase = "sign"
          OBVIOUS
        <5>. QED  BY <4>2, <4>3, <5>1 DEF WorkOK, Sealed, Names, Verifies
      <4>5. anchors' = anchors /\ \A id : Unheld(id) => Unheld(id)'
        BY DEF anchorVars, Unheld, Holds
      <4> HIDE DEF next
      <4>6. \A v \in Writers : work'[v] = IF v = w THEN next ELSE work[v]
        BY <4>1 DEF WorkOK
      <4>7. work' \in [Writers -> Work]
        BY <4>1, <4>2 DEF WorkOK
      <4>. QED  BY <1>2, <4>4, <4>5, <4>6, <4>7 DEF WorkOK, Sealed
    <3>2. CASE ~Unlocks(manifest_file)
      BY <3>2, <1>5, DoneKeeps DEF SignCapsule, IInv
    <3>. QED  BY <3>1, <3>2
  <2>. QED  BY <1>1, <1>2, <1>5, <2>1 DEF SignCapsule, IInv, CapsulesOK
<1>6. CASE WriteCapsule(w)
  <2>1. Sealed(work[w].capsule)
    BY <1>6 DEF WriteCapsule, IInv, WorkOK
  <2>2. CapsulesOK'
    BY <1>2, <1>6, <2>1 DEF WriteCapsule, IInv, CapsulesOK
  <2>. QED  BY <1>1, <1>6, <2>2, DoneKeeps DEF WriteCapsule, IInv
<1>7. CASE ExecuteAdapter(w) \/ Abandon(w)
  BY <1>1, <1>2, <1>7, DoneKeeps DEF ExecuteAdapter, Abandon, IInv, CapsulesOK
<1>. QED  BY <1>3, <1>4, <1>5, <1>6, <1>7 DEF Works

(* Control commands touch neither.                                          *)
LEMMA IdleStep ==
  ASSUME IInv, UNCHANGED <<anchorVars, guardedVars>>
  PROVE  IInv'
  BY DEF IInv, IdsOK, WorkOK, CapsulesOK, anchorVars, guardedVars, Unheld, Holds, Sealed,
         Names, Verifies

(* For any number of initialising shells and of writers, a capsule that      *)
(* names the published anchor is signed with that anchor's key.              *)
THEOREM SealedAlwaysVerifiable == GuardedSpec => []SealedIsVerifiable
<1>1. Init /\ AnchorInit /\ GuardedInit => IInv
  BY IInvInit
<1>2. ASSUME IInv,
             [\/ Next /\ UNCHANGED <<anchorVars, guardedVars>>
              \/ AnchorNext /\ UNCHANGED <<vars, guardedVars>>
              \/ GuardedNext /\ UNCHANGED <<vars, anchorVars>>]_allVars
      PROVE  IInv'
  <2>1. CASE Next /\ UNCHANGED <<anchorVars, guardedVars>>
    BY <1>2, <2>1, IdleStep
  <2>2. CASE AnchorNext /\ UNCHANGED <<vars, guardedVars>>
    BY <1>2, <2>2, AnchorStep
  <2>3. CASE GuardedNext /\ UNCHANGED <<vars, anchorVars>>
    BY <1>2, <2>3, GuardedStep
  <2>4. CASE UNCHANGED allVars
    BY <1>2, <2>4, IdleStep DEF allVars
  <2>. QED  BY <1>2, <2>1, <2>2, <2>3, <2>4
<1>3. IInv => SealedIsVerifiable
  BY DEF IInv, CapsulesOK, Sealed, SealedIsVerifiable
<1>. QED  BY <1>1, <1>2, <1>3, PTL DEF GuardedSpec
=============================================================================
