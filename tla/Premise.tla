------------------------------ MODULE Premise -------------------------------
(***************************************************************************)
(* A premise and what is held against it (premise.py).  Scars and open     *)
(* contradictions make verified challenges, anybody unverified ones; an    *)
(* evaluation weighs those its caller passes and may be applied at any     *)
(* later time, to a premise that has moved since, with other challenges to *)
(* be recorded.  Only a resolution under an external authority lifts a     *)
(* restriction.  A premise reaches the strata of Mutability as weather,    *)
(* proposals and petitions, never directly.                                *)
(***************************************************************************)
EXTENDS Mutability, Functions

CONSTANTS
  Scars, Contradictions,  \* the sources of verified challenges
  MaxSeverity,            \* the severity 1.0, in units of the thresholds
  ChallengeThreshold, QuarantineThreshold,
  ChallengedPressure, QuarantinedPressure,
  MaxChallenges, MaxEvaluations, MaxResolutions

ASSUME PremisePolicyAssumption ==
  /\ Scars \intersect Contradictions = {}
  /\ MaxSeverity \in Nat
  /\ ChallengeThreshold \in Nat \ {0} /\ QuarantineThreshold \in Nat
  /\ ChallengeThreshold <= QuarantineThreshold
  /\ ChallengedPressure \in Nat /\ QuarantinedPressure \in Nat
  /\ ChallengedPressure <= QuarantinedPressure
  /\ QuarantinedPressure <= MaxPressure

VARIABLES
  premise,      \* the PremiseObject: its state and challenge_refs
  challenges,   \* every PremiseChallenge made
  resolved,     \* contradictions that have been resolved
  evaluations,  \* PremiseEvaluations made, each with the challenges it weighed
  resolutions   \* number of PremiseResolutionReceipts

premiseVars == <<premise, challenges, resolved, evaluations, resolutions>>

Sources == Scars \union Contradictions
States == {"ACTIVE", "CHALLENGED", "QUARANTINED", "RETIRED"}
Rank(s) == CASE s = "ACTIVE" -> 0 [] s = "CHALLENGED" -> 1
             [] s = "QUARANTINED" -> 2 [] s = "RETIRED" -> 3
Challenge == [source : Sources, severity : 0 .. MaxSeverity, verified : BOOLEAN]
Verified(C) == {c \in C : c.verified}
Evaluation == [recommended : States, weighed : SUBSET Challenge]

\* A petition made from a premise carries its challenges as its evidence.
ASSUME EvidenceAssumption == Challenge \subseteq Evidence

PremiseInit ==
  /\ premise = [state |-> "ACTIVE", challenge_refs |-> {}]
  /\ challenges = {} /\ resolved = {} /\ evaluations = {}
  /\ resolutions = 0

\* challenge_from_scar (the severity is what is left of the scar's weight),
\* challenge_from_contradiction (an open one), record_unverified_challenge.
Challenged(source, severity, verified) ==
  /\ Cardinality(challenges) < MaxChallenges
  /\ verified => source \notin resolved
  /\ challenges' = challenges \union
       {[source |-> source, severity |-> severity, verified |-> verified]}
  /\ UNCHANGED <<premise, resolved, evaluations, resolutions>>

\* ContradictionObject.resolve
ResolveContradiction(c) ==
  /\ c \notin resolved
  /\ resolved' = resolved \union {c}
  /\ UNCHANGED <<premise, challenges, evaluations, resolutions>>

\* One source counts once, at its severest.
Severest(s, C) == Max({c.severity : c \in {d \in C : d.source = s}})

Score(C) ==
  SumFunction([s \in {c.source : c \in Verified(C)} |-> Severest(s, Verified(C))])

\* Variant of Recommended that counts a source as often as it is cited.
RecommendedReplayed(state, C) ==
  IF Rank(state) < 2 /\ MapThenSumSet(LAMBDA c : c.severity, Verified(C)) >= QuarantineThreshold
  THEN "QUARANTINED" ELSE state

\* evaluate_premise, of the challenges C.
Recommended(state, C) ==
  CASE state \in {"RETIRED", "QUARANTINED"} -> state
    [] state \in {"ACTIVE", "CHALLENGED"} /\ Score(C) >= QuarantineThreshold -> "QUARANTINED"
    [] state \in {"ACTIVE", "CHALLENGED"} /\ Score(C) < QuarantineThreshold ->
         IF Score(C) >= ChallengeThreshold THEN "CHALLENGED" ELSE state

\* The caller chooses what to have weighed; what is not verified is not.
Evaluate(C) ==
  /\ Cardinality(evaluations) < MaxEvaluations
  /\ evaluations' = evaluations \union
       {[recommended |-> Recommended(premise.state, C), weighed |-> Verified(C)]}
  /\ UNCHANGED <<premise, challenges, resolved, resolutions>>

\* Variant of ApplyEvaluation that takes an evaluation at its word.
ApplyAnyEvaluation(e, C) ==
  /\ premise.state # "RETIRED"
  /\ premise' = [state |-> e.recommended,
                 challenge_refs |-> premise.challenge_refs \union Verified(C)]
  /\ UNCHANGED <<challenges, resolved, evaluations, resolutions>>

\* apply_premise_evaluation, of whatever age: it records the verified ones of
\* the challenges C its caller passes, be they those that were weighed or not.
ApplyEvaluation(e, C) ==
  /\ premise.state # "RETIRED"
  /\ Rank(e.recommended) >= Rank(premise.state)
  /\ premise' = [state |-> e.recommended,
                 challenge_refs |-> premise.challenge_refs \union Verified(C)]
  /\ UNCHANGED <<challenges, resolved, evaluations, resolutions>>

\* resolve_premise; the evidence held against it is kept.
ResolvePremise(state) ==
  /\ premise.state \in {"CHALLENGED", "QUARANTINED"}
  /\ resolutions < MaxResolutions
  /\ premise' = [premise EXCEPT !.state = state]
  /\ resolutions' = resolutions + 1
  /\ UNCHANGED <<challenges, resolved, evaluations>>

\* evaluate_dependent_route and evaluate_dependent_carriage
BlocksDependents(state) == state \in {"QUARANTINED", "RETIRED"}

-----------------------------------------------------------------------------
(* What a premise may do to the strata.                                    *)

\* write_premise_routing_weather
WriteWeather(key) ==
  /\ premise.state # "ACTIVE"
  /\ Updated(key, IF BlocksDependents(premise.state) THEN QuarantinedPressure
                                                      ELSE ChallengedPressure)

\* propose_policy_change_from_premise
ProposeFromPremise(value) == premise.state # "ACTIVE" /\ Proposed(value)

\* petition_constitution_from_premise
PetitionFromPremise(clause, text) ==
  /\ BlocksDependents(premise.state)
  /\ Petitioned(clause, text, TRUE, premise.challenge_refs)

-----------------------------------------------------------------------------
PremiseOwnNext ==
  \/ \E s \in Sources, n \in 0 .. MaxSeverity, v \in BOOLEAN : Challenged(s, n, v)
  \/ \E c \in Contradictions : ResolveContradiction(c)
  \/ \E C \in SUBSET challenges : Evaluate(C)
  \/ \E e \in evaluations, C \in SUBSET challenges : ApplyEvaluation(e, C)
  \/ \E state \in {"ACTIVE", "RETIRED"} : ResolvePremise(state)

PremiseNext ==
  \/ PremiseOwnNext /\ UNCHANGED mutabilityVars
  \/ /\ \/ \E k \in WeatherKeys : WriteWeather(k)
        \/ \E v \in Bounds : ProposeFromPremise(v)
        \/ \E c \in Clauses, t \in Texts : PetitionFromPremise(c, t)
     /\ UNCHANGED premiseVars

\* A premise among all else that acts on the strata.
GovernanceNext ==
  \/ PremiseNext
  \/ (ConstitutionNext \/ PolicyNext \/ WeatherNext) /\ UNCHANGED premiseVars

governanceVars == <<mutabilityVars, premiseVars>>

GovernanceSpec ==
  MutabilityInit /\ PremiseInit /\ [][GovernanceNext]_governanceVars

-----------------------------------------------------------------------------
(* Correctness.                                                            *)

\* Every variable has its type: a premise holds verified challenges only.
PremiseTypeOK ==
  /\ premise \in [state : States,
                   challenge_refs : SUBSET Verified(challenges)]
  /\ challenges \subseteq Challenge
  /\ resolved \subseteq Contradictions
  /\ evaluations \subseteq Evaluation
  /\ resolutions \in Nat

\* Some evaluation weighed at once verified evidence worth n.
Weighed(n) == \E e \in evaluations : Score(e.weighed) >= n

\* Whatever was evaluated when, in whatever portions, and applied in whatever
\* order, with whatever recorded beside it: a premise is restricted only if one
\* evaluation at one time weighed verified evidence that reaches the threshold of
\* the restriction, each source counted once.  The same stands behind a petition
\* against the constitution made from it, also from a premise since retired, and
\* the evidence the petition quotes is verified.  That the premise or the petition
\* names the evidence that was weighed is not promised: the caller may omit it.
RestrictionIsFounded ==
  /\ premise.state = "CHALLENGED" => Weighed(ChallengeThreshold)
  /\ premise.state = "QUARANTINED" => Weighed(QuarantineThreshold)
  /\ \A p \in petitions :
       p.premise => /\ Weighed(ChallengeThreshold)
                    /\ p.evidence \subseteq Verified(challenges)

\* An evaluation made before the premise moved never lowers its restriction:
\* that takes a resolution, and a retired premise stays retired.
OnlyResolutionLifts ==
  [][Rank(premise'.state) < Rank(premise.state) =>
       resolutions' = resolutions + 1 /\ premise.state # "RETIRED"]_premiseVars
=============================================================================
