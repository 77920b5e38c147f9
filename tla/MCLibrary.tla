----------------------------- MODULE MCLibrary ------------------------------
(***************************************************************************)
(* One instance of each of the governance libraries.  They share no state: *)
(* each is used with values its callers hold, so a behaviour exercises the *)
(* part it starts with and leaves the others alone.                        *)
(***************************************************************************)
EXTENDS Premise, Carriage, ClockSkin, Coalition, Router, Promotion, ControlSession

VARIABLE part   \* the part this behaviour exercises

allVars == <<mutabilityVars, premiseVars, carriageVars, clockVars, coalitionVars,
             routerVars, promotionVars, vars, part>>

-----------------------------------------------------------------------------
(* Premises and strata: severities in the unit of the thresholds. *)
OneClause == {"clause"}
TwoTexts == {"old", "new"}
Challenges == Challenge

(* Clock skins: one of each mode.                                           *)
TwoSkins == {"wall", "human"}
Modes == [s \in TwoSkins |-> IF s = "wall" THEN "WALL_RATE" ELSE "EXPLICIT_SIGNAL"]

(* Coalitions: one charter ends before the sponsor's warrant, one after.    *)
Expiries == [a |-> 1, b |-> 3]

(* Routes: dearer by a half from one to the next.                           *)
ThreeRoutes == {1, 2, 3}
Costs == [r \in ThreeRoutes |-> r - 1]

(* Promotion: two cases of one receipt, two conflicts, one of them reviewed. *)
Case(receipt, bundle, state, reviewed) ==
  [receipt |-> receipt, bundle |-> bundle,
   comparison |-> [state |-> state, admissible |-> "yes"],
   replayed |-> TRUE, invariant |-> TRUE, effect |-> TRUE, reviewed |-> reviewed]
FourCases == {Case(1, 1, "AGREE", FALSE), Case(1, 2, "AGREE", FALSE),
              Case(2, 2, "DIVERGE", TRUE), Case(3, 3, "DIVERGE", FALSE)}
TwoOfTwo == [receipts |-> 2, bundles |-> 2, coverage |-> 95, effects |-> 80]
Rehearsal(i, contract, kind) ==
  [evidence |-> i, contract |-> contract, kind |-> kind, input |-> i,
   passed |-> TRUE, replayed |-> TRUE, invariant |-> TRUE, effect |-> TRUE]
ThreeRehearsals == {Rehearsal(1, "c1", "happy"), Rehearsal(2, "c1", "veto"),
                    Rehearsal(3, "c2", "happy")}

(* Sessions: two rules, three units of one kind.  All that the right actor   *)
(* may ask for with evidence, and what a single thing is wrong with.         *)
TwoRules == {"r1", "r2"}
Counts == [r \in TwoRules |-> 2]
TwoKinds == {"granted", "other"}
OneGranted == {"granted"}
Budget == [k \in OneGranted |-> 3]
Asked(rule, actor, ticks, spends, evidenced) ==
  [rule |-> rule, actor |-> actor, ticks |-> ticks, spends |-> spends, evidenced |-> evidenced]
SomeRequests ==
  {Asked(r, TRUE, t, f, TRUE) : r \in TwoRules, t \in 0 .. 2, f \in [OneGranted -> 0 .. 2]}
  \union {Asked(NoRule, TRUE, 0, [k \in OneGranted |-> 0], TRUE),
          Asked("r1", FALSE, 0, [k \in OneGranted |-> 0], TRUE),
          Asked("r1", TRUE, 0, [k \in OneGranted |-> 0], FALSE),
          Asked("r1", TRUE, 0, [k \in TwoKinds |-> 1], TRUE)}

-----------------------------------------------------------------------------
LibraryInit ==
  /\ MutabilityInit /\ PremiseInit /\ CarriageInit /\ ClockInit
  /\ CoalitionInit /\ RouterInit /\ PromotionInit /\ Init
  /\ part \in {"constitution", "policy", "premise", "carriage", "clock",
               "coalition", "router", "promotion", "session"}
  /\ part # "policy" => policy.value = Minimum
  /\ part # "router" => \A r \in Routes : ~field[r].revoked

LibraryNext ==
  /\ UNCHANGED part
  /\ \/ /\ part = "constitution" /\ ConstitutionNext
        /\ UNCHANGED <<premiseVars, carriageVars, clockVars, coalitionVars,
                       routerVars, promotionVars, vars>>
     \/ /\ part = "policy" /\ PolicyNext
        /\ UNCHANGED <<premiseVars, carriageVars, clockVars, coalitionVars,
                       routerVars, promotionVars, vars>>
     \/ /\ part = "premise"
        /\ PremiseNext \/ (WeatherNext /\ UNCHANGED premiseVars)
        /\ UNCHANGED <<carriageVars, clockVars, coalitionVars,
                       routerVars, promotionVars, vars>>
     \/ /\ part = "carriage" /\ CarriageNext
        /\ UNCHANGED <<mutabilityVars, premiseVars, clockVars, coalitionVars,
                       routerVars, promotionVars, vars>>
     \/ /\ part = "clock" /\ ClockNext
        /\ UNCHANGED <<mutabilityVars, premiseVars, carriageVars, coalitionVars,
                       routerVars, promotionVars, vars>>
     \/ /\ part = "coalition" /\ CoalitionNext
        /\ UNCHANGED <<mutabilityVars, premiseVars, carriageVars, clockVars,
                       routerVars, promotionVars, vars>>
     \/ /\ part = "router" /\ RouterNext
        /\ UNCHANGED <<mutabilityVars, premiseVars, carriageVars, clockVars,
                       coalitionVars, promotionVars, vars>>
     \/ /\ part = "promotion" /\ PromotionNext
        /\ UNCHANGED <<mutabilityVars, premiseVars, carriageVars, clockVars,
                       coalitionVars, routerVars, vars>>
     \/ /\ part = "session" /\ Next
        /\ UNCHANGED <<mutabilityVars, premiseVars, carriageVars, clockVars,
                       coalitionVars, routerVars, promotionVars>>

LibrarySpec == LibraryInit /\ [][LibraryNext]_allVars

-----------------------------------------------------------------------------
\* Every library's values stay what their constructors accept, whatever sequence
\* of calls led to them: a policy inside a grant, a premise with verified
\* challenges only, a contradiction that is open or resolved, a coalition of at
\* least two, comparisons the witness bench can count, a mode with its seal.
LibraryTypeOK ==
  /\ MutabilityTypeOK /\ PremiseTypeOK /\ CarriageTypeOK
  /\ CoalitionTypeOK /\ RouterTypeOK /\ PromotionTypeOK
=============================================================================
