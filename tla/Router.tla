------------------------------- MODULE Router -------------------------------
(***************************************************************************)
(* The relational router and its shadow comparison (relational_router.py,  *)
(* routing_shadow.py, with the cost terms of scar.py and saturation.py).   *)
(* Routing is a function of the candidates as they are: hard gates first,  *)
(* then the cheapest of what is left.  The state is what the candidates    *)
(* consist of, changed by the components that own it.  Costs are counted   *)
(* in halves of the policy's unit.                                         *)
(***************************************************************************)
EXTENDS Naturals, FiniteSets, FiniteSetsExt, ShadowComparison

CONSTANTS
  Routes,      \* the candidates' route keys; ties go to the smaller key
  BaseCost,    \* per route: base_cost
  Coalesced,   \* routes whose actor is a coalition
  Lent,        \* of those, the ones whose capability a leaving member brought
  MaxChanges, MaxComparisons  \* bounds

ASSUME RouteAssumption ==
  /\ Routes \subseteq Nat \ {0} /\ BaseCost \in [Routes -> Nat]
  /\ Lent \subseteq Coalesced /\ Coalesced \subseteq Routes
  /\ MaxChanges \in Nat

VARIABLES
  field,        \* per route: the state of what its RouteCandidate consists of
  comparisons,  \* the ShadowComparisonReceipts, without repetitions
  changes       \* number of changes so far

routerVars == <<field, comparisons, changes>>

NoRoute == 0

\* A legacy coach's binding, if it has one, names a candidate or no candidate.
Bindings == [bound : {TRUE}, route : Routes \union {NoRoute}]
            \union {[bound |-> FALSE, route |-> NoRoute]}

Fresh(r) ==
  [revoked |-> FALSE, remaining |-> 2, ticks |-> 2, closed |-> FALSE,
   citable |-> TRUE, disputed |-> FALSE, premise |-> "ACTIVE",
   coalition |-> IF r \in Coalesced THEN "ACTIVE" ELSE "none",
   constraint |-> "none", scar |-> 0, weather |-> 0, dominant |-> FALSE]

\* Some candidates may already have lost their warrant.
RouterInit ==
  /\ \E lost \in SUBSET Routes :
       field = [r \in Routes |-> [Fresh(r) EXCEPT !.revoked = r \in lost]]
  /\ comparisons = {} /\ changes = 0

-----------------------------------------------------------------------------
(* Stage one.  A route asks for one unit of its warrant's budget and one    *)
(* tick of its clock lease.                                                 *)

\* _available_capabilities: a coalition offers what its active members have.
Capable(r) == ~(r \in Lent /\ field[r].coalition # "ACTIVE")

\* evaluate_dependent_route
PremiseAllows(r) == field[r].premise \in {"ACTIVE", "CHALLENGED"}

\* _hard_block_reasons, of which one is enough.
Admissible ==
  {r \in Routes :
     /\ Capable(r)
     /\ ~field[r].revoked /\ field[r].remaining >= 1
     /\ field[r].citable /\ ~field[r].disputed
     /\ PremiseAllows(r)
     /\ ~field[r].closed /\ field[r].ticks >= 1
     /\ field[r].coalition # "DISSOLVED"
     /\ field[r].constraint # "BLOCK"}

-----------------------------------------------------------------------------
(* Stage two.                                                               *)

\* Variant of Saturation that asks for more than one alternative.
SaturationOfMany(r) ==
  IF field[r].dominant /\ Cardinality(Admissible \ {r}) > 1 THEN 2 ELSE 0

\* compute_route_adjustment: success that crowds out the others costs, but
\* only where there are others.
Saturation(r) ==
  IF field[r].dominant /\ Admissible \ {r} # {} THEN 2 ELSE 0

\* _clock_penalty (the larger of what is spent and what is asked of the rest)
\* and _resource_penalty, each at most one unit.
Pressure(left) == IF left = 2 THEN 1 ELSE 2

Cost(r) ==
  BaseCost[r] + 2 * field[r].scar + Saturation(r) + field[r].weather
  + (IF field[r].premise = "CHALLENGED" THEN 1 ELSE 0)
  + Pressure(field[r].ticks) + Pressure(field[r].remaining)
  + (IF field[r].coalition = "DEGRADED" THEN 1 ELSE 0)
  + (IF field[r].constraint = "PENALTY" THEN 2 ELSE 0)

\* route_relational
Selected ==
  IF Admissible = {} THEN NoRoute
  ELSE LET cheapest == {r \in Admissible : \A q \in Admissible : Cost(r) <= Cost(q)}
       IN  Min(cheapest)

-----------------------------------------------------------------------------
(* The shadow.                                                              *)

Known(r) == IF r \in Routes THEN (IF r \in Admissible THEN "yes" ELSE "no") ELSE Unknown

\* Variant of Compare that looks for a selection before it looks at the block.
CompareSelectionFirst(l) ==
  [state |-> IF ~l.bound THEN "LEGACY_UNMAPPED"
             ELSE IF Selected = NoRoute THEN "VNEXT_NO_ROUTE"
             ELSE IF Known(l.route) = "no" THEN "VNEXT_BLOCKS_LEGACY"
             ELSE IF Selected = l.route THEN "AGREE" ELSE "DIVERGE",
   admissible |-> Known(l.route)]

\* _compare: no binding, a blocked route, no selection, the same one or another.
Compare(l) ==
  [state |-> IF ~l.bound THEN "LEGACY_UNMAPPED"
             ELSE IF Known(l.route) = "no" THEN "VNEXT_BLOCKS_LEGACY"
             ELSE IF Selected = NoRoute THEN "VNEXT_NO_ROUTE"
             ELSE IF Selected = l.route THEN "AGREE" ELSE "DIVERGE",
   admissible |-> Known(l.route)]

\* run_shadow_routing, under the binding of the coach the legacy router chose;
\* whatever goes wrong inside the relational router is a receipt too.
Observe(l, failed) ==
  /\ Cardinality(comparisons) < MaxComparisons
  /\ comparisons' = comparisons \union
       {IF failed THEN [state |-> "VNEXT_ERROR", admissible |-> Unknown]
        ELSE Compare(l)}
  /\ UNCHANGED <<field, changes>>

-----------------------------------------------------------------------------
(* What may happen to a candidate.                                          *)

Changed(r, to) ==
  /\ changes < MaxChanges
  /\ to # field[r]
  /\ field' = [field EXCEPT ![r] = to]
  /\ changes' = changes + 1
  /\ UNCHANGED comparisons

Worse(r) ==
  LET f == field[r]
  IN  {[f EXCEPT !.revoked = TRUE], [f EXCEPT !.closed = TRUE],
       [f EXCEPT !.citable = FALSE], [f EXCEPT !.disputed = TRUE],
       [f EXCEPT !.constraint = "BLOCK"],
       [f EXCEPT !.scar = 1], [f EXCEPT !.weather = 2]}
      \union {[f EXCEPT !.remaining = @ - 1] : n \in {1} \intersect (1 .. f.remaining)}
      \union {[f EXCEPT !.ticks = @ - 1] : n \in {1} \intersect (1 .. f.ticks)}
      \union {[f EXCEPT !.premise = p] :
                p \in CASE f.premise = "ACTIVE" -> {"CHALLENGED", "QUARANTINED"}
                        [] f.premise = "CHALLENGED" -> {"QUARANTINED", "RETIRED"}
                        [] f.premise = "QUARANTINED" -> {"RETIRED"}
                        [] f.premise = "RETIRED" -> {}}
      \union {[f EXCEPT !.coalition = c] :
                c \in CASE f.coalition = "ACTIVE" -> {"DEGRADED", "DISSOLVED"}
                        [] f.coalition = "DEGRADED" -> {"DISSOLVED"}
                        [] f.coalition \in {"DISSOLVED", "none"} -> {}}
      \union (IF f.constraint = "none" THEN {[f EXCEPT !.constraint = "PENALTY"]} ELSE {})

\* Scars and weather decay, contradictions and premises are resolved, citation
\* rights come back with them, and a human constraint expires.
Better(r) ==
  LET f == field[r]
  IN  {[f EXCEPT !.scar = 0], [f EXCEPT !.weather = @ \div 2],
       [f EXCEPT !.citable = TRUE], [f EXCEPT !.disputed = FALSE],
       [f EXCEPT !.constraint = "none"], [f EXCEPT !.dominant = FALSE]}
      \union (IF f.premise \in {"CHALLENGED", "QUARANTINED"}
              THEN {[f EXCEPT !.premise = "ACTIVE"]} ELSE {})

RouterNext ==
  \/ \E r \in Routes : \E to \in Worse(r) : Changed(r, to)
  \/ \E r \in Routes : \E to \in Better(r) : Changed(r, to)
  \/ \E r \in Routes : Changed(r, [field[r] EXCEPT !.dominant = TRUE])
  \/ \E l \in Bindings, failed \in BOOLEAN : Observe(l, failed)

RouterSpec == RouterInit /\ [][RouterNext]_routerVars

-----------------------------------------------------------------------------
(* Correctness.                                                            *)

\* A route that was not selected cannot take the decision to another by getting
\* worse: blocked, scarred, exhausted or dissolved, it leaves the selected one
\* selected, although the saturation of each depends on how many there are.
LosersDoNotSteer ==
  [][\A r \in Routes \ {Selected} :
       field'[r] # field[r] /\ field'[r] \in Worse(r) /\ Selected # NoRoute
         => Selected' = Selected]_routerVars

\* Every comparison is one the witness bench can count: a legacy route that is
\* blocked is reported as blocked, also when nothing else is admissible, and a
\* route that was not looked at never counts as covered.
RouterTypeOK ==
  /\ comparisons \subseteq Comparisons
  /\ DOMAIN field = Routes /\ changes \in 0 .. MaxChanges
=============================================================================
