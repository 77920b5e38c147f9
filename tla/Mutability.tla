----------------------------- MODULE Mutability -----------------------------
(***************************************************************************)
(* The three strata of mutable state (mutability.py).  L0, the             *)
(* constitution, is amended by a petition under a human seal; L1, a policy *)
(* parameter, is set by a proposal under a bounded human grant; L2, the    *)
(* routing weather, is written by the runtime and decays.  Petitions,      *)
(* proposals and grants are values: whoever holds one may hand it in at    *)
(* any later time, and again.                                              *)
(***************************************************************************)
EXTENDS Naturals, Sequences, FiniteSets, FiniteSetsExt

CONSTANTS
  Clauses, Texts,     \* clauses of the constitution, what they may say
  Evidence,           \* what a petition may name as evidence
  Minimum, Maximum,   \* the declared bounds of the policy parameter
  Actors,             \* who may propose and hold grants
  WeatherKeys, MaxPressure,
  MaxAmendments, MaxRevision,  \* bounds on what is applied
  MaxOpen, MaxGrants           \* bounds on what is outstanding

ASSUME PolicyAssumption ==
  /\ Minimum \in Nat /\ Maximum \in Nat /\ Minimum <= Maximum
  /\ MaxPressure \in Nat

VARIABLES
  constitution,  \* the amendments applied since genesis, in order
  petitions,     \* every ConstitutionPetition made
  enacted,       \* those that an amendment receipt exists for
  policy,        \* the PolicyParameter
  proposals,     \* every PolicyChangeProposal made
  grants,        \* every PolicyMutationGrant issued
  lapsed,        \* those that are expired or revoked
  weather        \* RoutingWeatherState: the pressure under each key

constitutionVars == <<constitution, petitions, enacted>>
policyVars == <<policy, proposals, grants, lapsed>>
mutabilityVars == <<constitution, petitions, enacted, policy, proposals,
                    grants, lapsed, weather>>

Amendment == [clause : Clauses, text : Texts]
Petition == [base : Seq(Amendment), clause : Clauses, text : Texts,
             premise : BOOLEAN, evidence : SUBSET Evidence]
Bounds == Minimum .. Maximum
Grant == [grantee : Actors, minimum : Bounds, maximum : Bounds]

Outstanding == Cardinality(petitions) + Cardinality(proposals)

MutabilityInit ==
  /\ constitution = <<>> /\ petitions = {} /\ enacted = {}
  /\ policy \in [value : Bounds, revision : {0}, by : {"nobody"}]
  /\ proposals = {} /\ grants = {} /\ lapsed = {}
  /\ weather = [k \in WeatherKeys |-> 0]

-----------------------------------------------------------------------------
(* L0.                                                                     *)

\* Variant of SnapshotHash that leaves out what the snapshot was amended from.
SnapshotHashOfLast(h) == IF h = <<>> THEN h ELSE <<h[Len(h)]>>

\* _constitution_hash covers revision, clauses, the parent's hash and the seal,
\* hence everything that led to the snapshot.
SnapshotHash(h) == h

\* petition_constitution_change, of an existing clause; `premise` tells whether
\* its evidence names one.
Petitioned(clause, text, premised, evidence) ==
  /\ Outstanding < MaxOpen
  /\ petitions' = petitions \union
       {[base |-> SnapshotHash(constitution), clause |-> clause, text |-> text,
         premise |-> premised, evidence |-> evidence]}
  /\ UNCHANGED <<constitution, enacted, weather>> /\ UNCHANGED policyVars

\* apply_constitution_petition, with the human seal it is given.
Current(p) == p.base = SnapshotHash(constitution)

ApplyPetition(p) ==
  /\ Current(p) /\ Len(constitution) < MaxAmendments
  /\ constitution' = Append(constitution, [clause |-> p.clause, text |-> p.text])
  /\ enacted' = enacted \union {p}
  /\ UNCHANGED <<petitions, weather>> /\ UNCHANGED policyVars

-----------------------------------------------------------------------------
(* L1.                                                                     *)

\* propose_policy_change: the value is not looked at.
Proposed(value) ==
  /\ Outstanding < MaxOpen
  /\ proposals' = proposals \union {[base_revision |-> policy.revision, value |-> value]}
  /\ UNCHANGED <<policy, grants, lapsed, weather>> /\ UNCHANGED constitutionVars

\* issue_policy_mutation_grant, by a human: inside the parameter's bounds.
IssueGrant(g) ==
  /\ Cardinality(grants) < MaxGrants
  /\ g.minimum <= g.maximum
  /\ grants' = grants \union {g}
  /\ lapsed' = lapsed \ {g}
  /\ UNCHANGED <<policy, proposals, weather>> /\ UNCHANGED constitutionVars

Lapse(g) ==
  /\ lapsed' = lapsed \union {g}
  /\ UNCHANGED <<policy, proposals, grants, weather>> /\ UNCHANGED constitutionVars

Allows(g, actor, value) ==
  /\ g.grantee = actor /\ g \notin lapsed
  /\ value \in Bounds
  /\ value \in g.minimum .. g.maximum

\* apply_policy_proposal
ApplyProposal(p, actor, g) ==
  /\ p.base_revision = policy.revision /\ policy.revision < MaxRevision
  /\ Allows(g, actor, p.value)
  /\ policy' = [value |-> p.value, revision |-> policy.revision + 1, by |-> actor]
  /\ UNCHANGED <<proposals, grants, lapsed, weather>> /\ UNCHANGED constitutionVars

-----------------------------------------------------------------------------
(* L2.                                                                     *)

\* apply_routing_weather_update replaces the entry of its key, whoever wrote it.
Updated(key, value) ==
  /\ weather' = [weather EXCEPT ![key] = value]
  /\ UNCHANGED constitutionVars /\ UNCHANGED policyVars

\* value_at, over one half-life.
Decay(key) ==
  /\ weather[key] > 0
  /\ weather' = [weather EXCEPT ![key] = @ \div 2]
  /\ UNCHANGED constitutionVars /\ UNCHANGED policyVars

-----------------------------------------------------------------------------
ConstitutionNext ==
  \/ \E c \in Clauses, t \in Texts : Petitioned(c, t, FALSE, {})
  \/ \E p \in petitions : ApplyPetition(p)

PolicyNext ==
  \/ \E v \in Minimum .. Maximum + 1 : Proposed(v)
  \/ \E g \in Grant : IssueGrant(g)
  \/ \E g \in grants \ lapsed : Lapse(g)
  \/ \E p \in proposals, a \in Actors, g \in grants : ApplyProposal(p, a, g)

WeatherNext ==
  \/ \E k \in WeatherKeys, v \in 0 .. MaxPressure : Updated(k, v)
  \/ \E k \in WeatherKeys : Decay(k)

-----------------------------------------------------------------------------
(* Correctness.                                                            *)

\* Every variable has its type, and whoever last set the policy did so inside a
\* grant of their own.
MutabilityTypeOK ==
  /\ constitution \in Seq(Amendment)
  /\ petitions \subseteq Petition /\ enacted \subseteq petitions
  /\ policy \in [value : Bounds, revision : Nat, by : Actors \union {"nobody"}]
  /\ proposals \subseteq [base_revision : Nat, value : Nat]
  /\ lapsed \subseteq grants /\ grants \subseteq Grant
  /\ weather \in [WeatherKeys -> 0 .. MaxPressure]
  /\ policy.revision > 0 =>
       \E g \in grants : g.grantee = policy.by /\ policy.value \in g.minimum .. g.maximum

\* An amendment is never applied twice, nor after another one its petitioner
\* had not seen: once enacted a petition stays stale, also when the text it was
\* written against is restored word for word.
EnactedIsSpent == \A p \in enacted : ~Current(p)
=============================================================================
