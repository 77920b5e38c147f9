--------------------------- MODULE MCAttestation ----------------------------
(* Two callers saving the states around one bounded lease; and two binders   *)
(* attesting, while the callers save the first few of them.                  *)
EXTENDS Attestation, MCStoreClients

CONSTANTS b1, b2

TwoBinders == {b1, b2}

VARIABLE part   \* what the behaviour is about

MCInit == StoreInit /\ AttestationInit /\ part \in {"callers", "binders"}

\* Where binders are at work, two entries are enough for every way a history can
\* go wrong, and no lease is needed, so none lapses.
FewSaves ==
  /\ Len(history') <= 2 /\ lapsed' = {}
  /\ \A p \in Procs : saving'[p].next.mode # "BOUNDED_CONTROL"

MCNext ==
  /\ AttestingNext
  /\ IF part = "binders" THEN FewSaves ELSE UNCHANGED attestationVars
  /\ UNCHANGED part

\* Binders are interchangeable.
Symmetry == Permutations(TwoBinders)

MCSpec == MCInit /\ [][MCNext]_<<storeVars, attestationVars, part>>
=============================================================================
