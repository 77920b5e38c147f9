---------------------------- MODULE StoreClients ----------------------------
(***************************************************************************)
(* The constitutional store used by arbitrary callers: any process may try *)
(* to save any state at any time, with a timestamp that may be stale, and  *)
(* may die in the middle.  What holds here holds for every use of it.      *)
(***************************************************************************)
EXTENDS ConstitutionalStore

CONSTANTS
  Candidates,   \* the states callers try to save
  MaxSaves      \* bound on the length of the history

ASSUME CandidatesAssumption == Candidates \subseteq Snapshot
ASSUME MaxSavesAssumption == MaxSaves \in Nat

GrantRevisions == {s.revision : s \in {t \in Candidates : t.mode = "BOUNDED_CONTROL"}}

Save(p) ==
  /\ Len(history) < MaxSaves
  /\ \E s \in Candidates, expired \in SUBSET lapsed : SaveCheck(p, s, expired)

Crash(p) == saving[p].phase # "idle" /\ SaveCrash(p)

Next ==
  \/ \E p \in Procs : Save(p) \/ SaveAppend(p) \/ SaveReplace(p) \/ SaveLost(p)
                     \/ Crash(p)
  \/ \E r \in GrantRevisions \ lapsed : Lapse(r)

Spec == StoreInit /\ [][Next]_storeVars
=============================================================================
