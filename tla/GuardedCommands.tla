-------------------------- MODULE GuardedCommands ---------------------------
(***************************************************************************)
(* What the operator control state guards: `phik capsule seal`, with the   *)
(* checkpoint job of a heart, and `phik execute` (capsule.py, shell.py).   *)
(* Such a command reads the control state once, when it begins, and acts   *)
(* later: a capsule is written after the anchor has been read, a key       *)
(* derived and a signature made.  Operators (ControlState) and             *)
(* initialisations of the anchor (Anchor) go on meanwhile.                 *)
(***************************************************************************)
EXTENDS ControlState, Anchor

CONSTANT Writers   \* processes that may run such a command

VARIABLES
  capsules,   \* the capsules stored: the anchor each names, and its signer
  work        \* per writer: the command it is running

guardedVars == <<capsules, work>>

Kinds == {"capsule", "execute"}
Capsule == [anchor : Nat, signer : Nat]
Work == [phase : {"idle", "verify", "sign", "write", "act"}, kind : Kinds,
         capsule : Capsule]

NoWork == [phase |-> "idle", kind |-> "execute",
           capsule |-> [anchor |-> NoAnchor, signer |-> NoAnchor]]

GuardedInit == capsules = {} /\ work = [w \in Writers |-> NoWork]

Done(w) == work' = [work EXCEPT ![w] = NoWork]

\* Variant of Permits that takes a file it cannot parse for a fresh one.
PermitsTorn(kind) ==
  \/ torn
  \/ /\ ~Contained(state_file.flags)
     /\ kind = "capsule" => state_file.flags.recovery_state # "recovery_in_progress"

\* What ContinuityCapsuleStore.seal and _control_gate_for_service ask for; a
\* truncated file is not JSON, and either command fails.
Permits(kind) ==
  /\ ~torn
  /\ ~Contained(state_file.flags)
  /\ kind = "capsule" => state_file.flags.recovery_state # "recovery_in_progress"

Begin(w, kind) ==
  /\ work[w].phase = "idle"
  /\ Permits(kind)
  /\ work' = [work EXCEPT ![w] = [NoWork EXCEPT
       !.phase = IF kind = "capsule" THEN "verify" ELSE "act", !.kind = kind]]
  /\ UNCHANGED capsules

\* load_manifest, which raises without one, and verify_anchor; the capsule will
\* name this anchor, in its id, its manifest hash and its key.
ReadManifest(w) ==
  /\ work[w].phase = "verify"
  /\ IF manifest_file = NoAnchor THEN Done(w)
     ELSE work' = [work EXCEPT ![w].phase = "sign", ![w].capsule.anchor = manifest_file]
  /\ UNCHANGED capsules

\* sign_bytes reads the manifest again, and opens the key for its anchor.
SignCapsule(w) ==
  /\ work[w].phase = "sign"
  /\ IF Unlocks(manifest_file)
     THEN work' = [work EXCEPT ![w].phase = "write", ![w].capsule.signer = key_file]
     ELSE Done(w)
  /\ UNCHANGED capsules

\* _write_capsule replaces a file of the capsule's own.
WriteCapsule(w) ==
  /\ work[w].phase = "write"
  /\ capsules' = capsules \union {work[w].capsule}
  /\ Done(w)

\* The runtime adapter runs, and cmd_execute returns.
ExecuteAdapter(w) ==
  /\ work[w].phase = "act"
  /\ Done(w)
  /\ UNCHANGED capsules

\* The command is killed, or something else it needs raises: the trust guard,
\* a wrong passphrase.  What is left of a capsule is not in the store.
Abandon(w) ==
  /\ work[w].phase # "idle"
  /\ Done(w)
  /\ UNCHANGED capsules

Works(w) ==
  ReadManifest(w) \/ SignCapsule(w) \/ WriteCapsule(w) \/ ExecuteAdapter(w)

GuardedNext ==
  \E w \in Writers :
    \/ \E kind \in Kinds : Begin(w, kind)
    \/ Works(w)
    \/ Abandon(w)

allVars == <<vars, anchorVars, guardedVars>>

GuardedSpec ==
  /\ Init /\ AnchorInit /\ GuardedInit
  /\ [][\/ Next /\ UNCHANGED <<anchorVars, guardedVars>>
        \/ AnchorNext /\ UNCHANGED <<vars, guardedVars>>
        \/ GuardedNext /\ UNCHANGED <<vars, anchorVars>>]_allVars
  /\ \A w \in Writers : WF_allVars(Works(w) /\ UNCHANGED <<vars, anchorVars>>)

-----------------------------------------------------------------------------
(* Correctness.                                                            *)

\* verify_capsule: the manifest it names is there, and its signature verifies
\* under the key that manifest publishes.
Names(c) == c.anchor = manifest_file
Verifies(c) == Names(c) /\ c.signer = manifest_file

\* However many shells initialise, race and crash, a capsule that was sealed
\* under the anchor now published verifies: its signature is never one of a key
\* that another initialisation put into the keystore meanwhile.
SealedIsVerifiable == \A c \in capsules : Names(c) => Verifies(c)

\* While this holds nothing of that kind is to be done: the runtime is sealed or
\* quarantined, its recovery is in progress, or the control file is in pieces.
ShutFor(kind) ==
  \/ torn
  \/ state_file.flags.sealed \/ state_file.flags.quarantined
  \/ kind = "capsule" /\ state_file.flags.recovery_state = "recovery_in_progress"

\* A command that was past the gate when an operator closed it still acts, as
\* nothing looks at the control state again; but a gate that stays closed, or a
\* control file that a crash has left in pieces, leaves nothing at work behind
\* it: from then on "memory write blocked" is what every attempt is told.
ClosedGateDrains ==
  \A kind \in Kinds :
    <>[]ShutFor(kind) =>
      <>[](\A w \in Writers : work[w].phase = "idle" \/ work[w].kind # kind)
=============================================================================
