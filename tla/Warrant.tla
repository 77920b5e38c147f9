------------------------------ MODULE Warrant ------------------------------
(***************************************************************************)
(* Warrants and governed transitions (warrant.py, transition.py) as pure   *)
(* values: a warrant is never changed, only succeeded.  Amounts are        *)
(* naturals where the code has floats.                                     *)
(***************************************************************************)
EXTENDS Naturals

CONSTANTS
  Kinds,     \* kinds of resource a proposal may ask for
  Granted,   \* the kinds the warrant has a budget for
  Limit,     \* the budget of each of them
  Scopes     \* the exact scopes the warrant covers

ASSUME BudgetAssumption == Granted \subseteq Kinds /\ Limit \in [Granted -> Nat]

\* ResourceBudget raises on a `spent` beyond its limit, so none exists.
Warrants == [spent : {f \in [Granted -> Nat] : \A k \in Granted : f[k] <= Limit[k]},
             revoked : BOOLEAN]

\* Each kind at most once: a function on the kinds that are named.
IsSpend(spends) ==
  DOMAIN spends \subseteq Kinds /\ \A k \in DOMAIN spends : spends[k] \in Nat

Unspent == [spent |-> [k \in Granted |-> 0], revoked |-> FALSE]

\* authorize; the bearer is always the session's actor here.
Authorized(w, scope, expired) == ~w.revoked /\ ~expired /\ scope \in Scopes

\* Variant of Affordable that compares with the limit, not with what is left.
AffordableAfresh(w, spends) ==
  \A k \in DOMAIN spends : k \in Granted /\ spends[k] <= Limit[k]

\* The preflight of evaluate_transition, before anything is debited.
Affordable(w, spends) ==
  \A k \in DOMAIN spends :
    k \in Granted /\ spends[k] <= Limit[k] - w.spent[k]

\* spend, for every resource of the proposal.
Debited(w, spends) ==
  [w EXCEPT !.spent =
     [k \in Granted |->
        w.spent[k] + (IF k \in DOMAIN spends THEN spends[k] ELSE 0)]]

Revoked(w) == [w EXCEPT !.revoked = TRUE]
=============================================================================
