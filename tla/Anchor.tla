------------------------------- MODULE Anchor -------------------------------
(***************************************************************************)
(* The state anchor (anchor.py): an encrypted signing key and a signed     *)
(* manifest in two files, made once by `phik init`.  Each file is replaced *)
(* atomically, but not the two together, and nothing locks them: several   *)
(* shells may be initialising, and any may be killed in between.  A key    *)
(* opens only for the anchor id it was made for.                           *)
(***************************************************************************)
EXTENDS Naturals

CONSTANTS
  Initializers,   \* shells that may run `phik init`
  MaxAnchors      \* bound on the anchor ids drawn

ASSUME MaxAnchorsAssumption == MaxAnchors \in Nat

VARIABLES
  key_file,       \* the anchor id the encrypted private key was made for
  manifest_file,  \* the anchor id of the published manifest
  anchors,        \* anchor ids drawn so far
  initializing    \* per shell: its next step and the id it has drawn

anchorVars == <<key_file, manifest_file, anchors, initializing>>

NoAnchor == 0   \* no such file

NotInitializing == [phase |-> "idle", id |-> NoAnchor]

AnchorInit ==
  /\ key_file = NoAnchor
  /\ manifest_file = NoAnchor
  /\ anchors = 0
  /\ initializing = [i \in Initializers |-> NotInitializing]

Ends(i) == initializing' = [initializing EXCEPT ![i] = NotInitializing]
Continues(i, phase) == initializing' = [initializing EXCEPT ![i].phase = phase]

\* initialize, which raises if there is a manifest.
Initialize(i) ==
  /\ initializing[i].phase = "idle"
  /\ manifest_file = NoAnchor
  /\ anchors < MaxAnchors
  /\ anchors' = anchors + 1
  /\ initializing' = [initializing EXCEPT ![i] = [phase |-> "create", id |-> anchors + 1]]
  /\ UNCHANGED <<key_file, manifest_file>>

\* AnchorKeyStore.create: the check, and after the key derivation the file.
CreateKey(i) ==
  /\ initializing[i].phase = "create"
  /\ IF key_file = NoAnchor THEN Continues(i, "write") ELSE Ends(i)
  /\ UNCHANGED <<key_file, manifest_file, anchors>>

WriteKey(i) ==
  /\ initializing[i].phase = "write"
  /\ key_file' = initializing[i].id
  /\ Continues(i, "sign")
  /\ UNCHANGED <<manifest_file, anchors>>

\* Variant of Unlocks that opens the key for any anchor.
UnlocksForAny(id) == key_file # NoAnchor

\* AnchorKeyStore.unlock raises if the key was made for another anchor.
Unlocks(id) == key_file = id

\* The new manifest is signed, before it is published.
SignManifest(i) ==
  /\ initializing[i].phase = "sign"
  /\ IF Unlocks(initializing[i].id) THEN Continues(i, "publish") ELSE Ends(i)
  /\ UNCHANGED <<key_file, manifest_file, anchors>>

\* _save_manifest
PublishManifest(i) ==
  /\ initializing[i].phase = "publish"
  /\ manifest_file' = initializing[i].id
  /\ Ends(i)
  /\ UNCHANGED <<key_file, anchors>>

\* The shell is killed; after WriteKey every later initialize fails in create.
InitializerCrash(i) ==
  /\ initializing[i].phase # "idle"
  /\ Ends(i)
  /\ UNCHANGED <<key_file, manifest_file, anchors>>

AnchorNext ==
  \E i \in Initializers :
    \/ Initialize(i) \/ CreateKey(i) \/ WriteKey(i) \/ SignManifest(i)
    \/ PublishManifest(i) \/ InitializerCrash(i)

=============================================================================
