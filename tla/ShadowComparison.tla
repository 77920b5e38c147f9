-------------------------- MODULE ShadowComparison --------------------------
(***************************************************************************)
(* What a shadow comparison may say (routing_shadow.py): its state, and    *)
(* whether the legacy route was admissible, where that is known.  The      *)
(* router produces such receipts, the witness bench counts them.           *)
(***************************************************************************)

Unknown == "unknown"   \* legacy_candidate_admissible_in_vnext = None

ComparisonStates ==
  {"AGREE", "DIVERGE", "VNEXT_BLOCKS_LEGACY", "VNEXT_NO_ROUTE", "VNEXT_ERROR",
   "LEGACY_UNMAPPED"}

Comparisons ==
  {[state |-> "AGREE", admissible |-> "yes"],
   [state |-> "DIVERGE", admissible |-> "yes"],
   [state |-> "DIVERGE", admissible |-> Unknown],
   [state |-> "VNEXT_BLOCKS_LEGACY", admissible |-> "no"]} \union
  {[state |-> s, admissible |-> Unknown] :
     s \in {"VNEXT_NO_ROUTE", "VNEXT_ERROR", "LEGACY_UNMAPPED"}}

\* CONFLICT_STATES of the witness bench
ConflictStates == {"DIVERGE", "VNEXT_BLOCKS_LEGACY"}
=============================================================================
