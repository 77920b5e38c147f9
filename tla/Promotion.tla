----------------------------- MODULE Promotion ------------------------------
(***************************************************************************)
(* The promotion gate (witness_bench.py, control_witness.py) and the turns *)
(* of the runtime under it (constitutional_runtime.py).  The caller picks  *)
(* the evidence of a report; a human seals a proposal made from it; the    *)
(* seal is applied to the promotion state, now or later.  In               *)
(* BOUNDED_CONTROL the sessions of the grant steer.  Reports, proposals,   *)
(* grants and sessions are values and outlive a collapse back to SHADOW.   *)
(* A session is reduced to the lease that ControlSession implements.       *)
(***************************************************************************)
EXTENDS Naturals, Sequences, FiniteSets, SequencesExt, ShadowComparison

CONSTANTS
  WitnessCases,       \* the BehavioralWitnessCases at hand
  BenchPolicy,    \* WitnessBenchPolicy: counts, and rates in percent
  Contracts,
  Rehearsals,     \* the ControlWitnessCases at hand
  CaseKinds,      \* REQUIRED_CONTROL_CASE_KINDS
  LeaseActions,   \* actions a session may take
  MaxProposals, MaxRevisions, MaxSessions    \* bounds

WitnessCaseType ==
  [receipt : Nat, bundle : Nat, comparison : Comparisons, replayed : BOOLEAN,
   invariant : BOOLEAN, effect : BOOLEAN, reviewed : BOOLEAN]
RehearsalType ==
  [evidence : Nat, contract : Contracts, kind : CaseKinds, input : Nat, passed : BOOLEAN,
   replayed : BOOLEAN, invariant : BOOLEAN, effect : BOOLEAN]

ASSUME PromotionAssumption ==
  /\ WitnessCases \subseteq WitnessCaseType /\ IsFiniteSet(WitnessCases)
  /\ BenchPolicy.bundles \in Nat \ {0} /\ BenchPolicy.bundles <= BenchPolicy.receipts
  /\ Rehearsals \subseteq RehearsalType
  /\ LeaseActions \in Nat

VARIABLES
  promotion,   \* the PromotionState
  promotionProposals,  \* every proposal made; its index is also the id of its
                       \* seal and, for bounded control, of its grant
  seals,       \* the promotionProposals a human has sealed
  authorized,  \* the authorization receipts, in order
  sessions,      \* the sessions started, in order
  lapsedGrants       \* the grants whose lifetime is over

promotionVars ==
  <<promotion, promotionProposals, seals, authorized, sessions, lapsedGrants>>

NoSeal == 0
NoContract == "none"
NoSession == 0

-----------------------------------------------------------------------------
(* The witness bench and the control witness, pure.                        *)

AtLeast(part, whole, percent) ==
  part # {} /\ Cardinality(part) * 100 >= percent * Cardinality(whole)

\* evaluate_witness_bench raises if a shadow receipt is counted twice.
Countable(cases) == \A c, d \in cases : c.receipt = d.receipt => c = d

\* Variant of Reviewed: having conflicts at all is what is asked for.
ReviewedSomewhere(cases) ==
  LET conflicts == {c \in cases : c.comparison.state \in ConflictStates}
  IN  conflicts = {} \/ \E c \in conflicts : c.reviewed

\* The default policy: every conflict is reviewed.
Reviewed(cases) ==
  \A c \in cases : c.comparison.state \in ConflictStates => c.reviewed

\* evaluate_witness_bench: READY_FOR_HUMAN_REVIEW
Ready(cases) ==
  /\ Countable(cases)
  /\ Cardinality(cases) >= BenchPolicy.receipts
  /\ Cardinality({c.bundle : c \in cases}) >= BenchPolicy.bundles
  /\ \A c \in cases : c.comparison.state # "VNEXT_ERROR" /\ c.replayed /\ c.invariant
  /\ AtLeast({c \in cases : c.comparison.admissible # Unknown}, cases, BenchPolicy.coverage)
  /\ AtLeast({c \in cases : c.effect}, cases, BenchPolicy.effects)
  /\ Reviewed(cases)

\* evaluate_control_witness under its default policy
ControlReady(contract, cases) ==
  /\ \A c \in cases : c.contract = contract
  /\ Cardinality({c.evidence : c \in cases}) = Cardinality(cases)
  /\ Cardinality({c.input : c \in cases}) >= Cardinality(CaseKinds)
  /\ {c.kind : c \in cases} = CaseKinds
  /\ \A c \in cases : c.passed /\ c.replayed /\ c.invariant /\ c.effect

-----------------------------------------------------------------------------
(* Proposals, seals and their application.                                 *)

\* PromotionState.genesis
PromotionInit ==
  /\ promotion = [mode |-> "SHADOW", revision |-> 0, seal |-> NoSeal]
  /\ promotionProposals = <<>> /\ seals = {} /\ authorized = <<>>
  /\ sessions = <<>> /\ lapsedGrants = {}

PromotionProposed(target, contract, report) ==
  /\ Len(promotionProposals) < MaxProposals
  /\ promotionProposals' = Append(promotionProposals,
       [target |-> target, base |-> promotion.revision,
        contract |-> contract, report |-> report])
  /\ UNCHANGED <<promotion, seals, authorized, sessions, lapsedGrants>>

\* propose_promotion
ProposePromotion(cases) ==
  /\ Ready(cases)
  /\ promotion.mode = "SHADOW"
  /\ PromotionProposed("ADVISE", NoContract, cases)

\* propose_bounded_control
ProposeBoundedControl(contract, cases) ==
  /\ promotion.mode = "ADVISE"
  /\ ControlReady(contract, cases)
  /\ PromotionProposed("BOUNDED_CONTROL", contract, cases)

\* A human seals a proposal, whenever: the seal names it and may not predate it.
Seal(p) ==
  /\ p \notin seals
  /\ seals' = seals \union {p}
  /\ UNCHANGED <<promotion, promotionProposals, authorized, sessions, lapsedGrants>>

From(target) == IF target = "ADVISE" THEN "SHADOW" ELSE "ADVISE"

\* authorize_promotion and authorize_bounded_control; the latter also issues
\* the grant and its dedicated warrant, of the proposal's id.
Authorize(p) ==
  /\ promotion.mode = From(promotionProposals[p].target)
  /\ promotion.revision = promotionProposals[p].base
  /\ p \in seals
  /\ promotion.revision < MaxRevisions
  /\ promotion' = [mode |-> promotionProposals[p].target,
                    revision |-> promotion.revision + 1, seal |-> p]
  /\ authorized' = Append(authorized,
       [proposal |-> p, revision |-> promotion.revision + 1])
  /\ UNCHANGED <<promotionProposals, seals, sessions, lapsedGrants>>

\* Variant of InShadow that returns to the revision before the promotion.
InShadowRewound ==
  [mode |-> "SHADOW", seal |-> NoSeal,
   revision |-> promotion.revision - (IF promotion.mode = "ADVISE" THEN 1 ELSE 2)]

InShadow == [mode |-> "SHADOW", seal |-> NoSeal, revision |-> promotion.revision + 1]

\* collapse_to_shadow: the sessions are not asked for.
CollapseToShadow ==
  /\ promotion.mode # "SHADOW"
  /\ promotion' = InShadow
  /\ UNCHANGED <<promotionProposals, seals, authorized, sessions, lapsedGrants>>

-----------------------------------------------------------------------------
(* Sessions and turns.                                                     *)

\* start_control_session: the grant is a value, and is not spent by a start.
StartControlSession(p) ==
  /\ promotion.mode = "BOUNDED_CONTROL" /\ promotion.seal = p
  /\ p \notin lapsedGrants
  /\ Len(sessions) < MaxSessions
  /\ sessions' = Append(sessions,
       [grant |-> p, used |-> 0, pending |-> FALSE, stopped |-> FALSE])
  /\ UNCHANGED <<promotion, promotionProposals, seals, authorized, lapsedGrants>>

\* Variant of Bound that does not compare the seals.
BoundToSession(s, g, contract) ==
  /\ sessions[s].grant = g
  /\ promotionProposals[g].contract = contract

\* _control_binding_failure = None, for session s with the grant and contract
\* the caller supplies.  The route selected matches the action or does not.
Bound(s, g, contract) ==
  /\ promotion.seal = g
  /\ sessions[s].grant = g
  /\ promotionProposals[g].contract = contract

\* license_control_action of a request that fits the contract's rules or not
MayLicense(w, fits) ==
  /\ fits
  /\ ~w.stopped /\ ~w.pending
  /\ w.grant \notin lapsedGrants
  /\ w.used < LeaseActions

\* orchestrate_runtime in BOUNDED_CONTROL, not held for review, with
\* everything it asks for: the action is licensed.
Steer(s, g, contract, fits) ==
  /\ promotion.mode = "BOUNDED_CONTROL"
  /\ Bound(s, g, contract) /\ MayLicense(sessions[s], fits)
  /\ sessions' = [sessions EXCEPT ![s].used = @ + 1, ![s].pending = TRUE]
  /\ UNCHANGED <<promotion, promotionProposals, seals, authorized, lapsedGrants>>

\* The same turn without a route, with a binding that fails, or with an action
\* that is refused; or a sealed or quarantined runtime, with the session.  In
\* all of them the session stops and the state collapses.
StopAndCollapse(s) ==
  /\ promotion.mode = "BOUNDED_CONTROL"
  /\ sessions' = [sessions EXCEPT ![s].stopped = TRUE]
  /\ promotion' = InShadow
  /\ UNCHANGED <<promotionProposals, seals, authorized, lapsedGrants>>

\* orchestrate_runtime: a turn with session s, or with none.  SHADOW, ADVISE, a
\* review hold and a missing artifact change nothing; a blocked runtime
\* collapses also without the session.
Turn(s, g, contract, blocked, routed, fits) ==
  IF blocked
  THEN IF s = NoSession
       THEN promotion.mode = "BOUNDED_CONTROL" /\ CollapseToShadow
       ELSE StopAndCollapse(s)
  ELSE /\ s # NoSession
       /\ \/ routed /\ Steer(s, g, contract, fits)
          \/ /\ ~(routed /\ Bound(s, g, contract) /\ MayLicense(sessions[s], fits))
             /\ StopAndCollapse(s)

\* record_control_outcome
RecordOutcome(s, success) ==
  /\ sessions[s].pending
  /\ sessions' = [sessions EXCEPT ![s].pending = FALSE, ![s].stopped = @ \/ ~success]
  /\ UNCHANGED <<promotion, promotionProposals, seals, authorized, lapsedGrants>>

\* apply_human_veto, terminate_control_session
StopLease(s) ==
  /\ ~sessions[s].stopped
  /\ sessions' = [sessions EXCEPT ![s].stopped = TRUE]
  /\ UNCHANGED <<promotion, promotionProposals, seals, authorized, lapsedGrants>>

\* collapse_control_to_shadow: any stopped session will do.
CollapseControl(s) ==
  /\ promotion.mode = "BOUNDED_CONTROL" /\ sessions[s].stopped
  /\ CollapseToShadow

\* The lifetime of a grant's warrant ends.
Lapses(p) ==
  /\ promotionProposals[p].target = "BOUNDED_CONTROL" /\ p \notin lapsedGrants
  /\ lapsedGrants' = lapsedGrants \union {p}
  /\ UNCHANGED <<promotion, promotionProposals, seals, authorized, sessions>>

PromotionNext ==
  \/ \E cases \in SUBSET WitnessCases : ProposePromotion(cases)
  \/ \E contract \in Contracts, cases \in SUBSET Rehearsals :
       ProposeBoundedControl(contract, cases)
  \/ \E p \in DOMAIN promotionProposals :
       Seal(p) \/ Authorize(p) \/ StartControlSession(p) \/ Lapses(p)
  \/ CollapseToShadow
  \/ \E s \in DOMAIN sessions \union {NoSession},
        g \in {a.proposal : a \in Range(authorized)}, contract \in Contracts, blocked, routed, fits \in BOOLEAN :
       Turn(s, g, contract, blocked, routed, fits)
  \/ \E s \in DOMAIN sessions :
       \/ \E success \in BOOLEAN : RecordOutcome(s, success)
       \/ StopLease(s)
       \/ CollapseControl(s)

PromotionSpec == PromotionInit /\ [][PromotionNext]_promotionVars

-----------------------------------------------------------------------------
(* Correctness.                                                            *)

\* Every variable has its type: only SHADOW carries no seal, and no session
\* takes more actions than its lease allows.
PromotionTypeOK ==
  /\ promotion \in {p \in [mode : {"SHADOW", "ADVISE", "BOUNDED_CONTROL"},
                           revision : Nat, seal : seals \union {NoSeal}] :
                      p.mode = "SHADOW" <=> p.seal = NoSeal}
  /\ seals \union lapsedGrants \subseteq DOMAIN promotionProposals
  /\ authorized \in Seq([proposal : seals, revision : Nat])
  /\ sessions \in Seq([grant : seals, used : 0 .. LeaseActions,
                     pending : BOOLEAN, stopped : BOOLEAN])

\* "A bounded-control grant is never inferred from success": whatever evidence
\* the caller picks, ADVISE stands on as many distinct shadow receipts as the
\* policy asks for and on no conflict left unreviewed, and control on a
\* rehearsal of every kind of case under the contract that was granted.
PromotionIsWitnessed ==
  \A i \in DOMAIN authorized :
    LET proposal == promotionProposals[authorized[i].proposal]
        report   == proposal.report
    IN  IF proposal.target = "ADVISE"
        THEN /\ Cardinality({c.receipt : c \in report}) >= BenchPolicy.receipts
             /\ ~ \E c \in report : c.comparison.state \in ConflictStates /\ ~c.reviewed
        ELSE \A kind \in CaseKinds :
               \E c \in report : c.kind = kind /\ c.contract = proposal.contract

\* A proposal that was sealed too late, or applied before, never comes back:
\* each is applied at most once, at the revision it was made at, however often
\* privilege collapses and is granted again in between; control is granted only
\* on top of an advice that was in force until then.
StaleProposalsAreDead ==
  \A i \in DOMAIN authorized :
    /\ promotionProposals[authorized[i].proposal].base + 1 = authorized[i].revision
    /\ \A j \in DOMAIN authorized :
         authorized[i].proposal = authorized[j].proposal => i = j
    /\ promotionProposals[authorized[i].proposal].target = "BOUNDED_CONTROL" =>
         /\ i > 1 /\ authorized[i - 1].revision + 1 = authorized[i].revision
         /\ promotionProposals[authorized[i - 1].proposal].target = "ADVISE"

\* A session that survived a collapse never steers again, also not when a later
\* grant puts the runtime back into BOUNDED_CONTROL: only sessions of the grant
\* in force are licensed.
SteeringIsCurrent ==
  [][\A s \in DOMAIN sessions :
       sessions'[s].used # sessions[s].used =>
         /\ promotion.mode = "BOUNDED_CONTROL"
         /\ promotion.seal = sessions[s].grant]_promotionVars
=============================================================================
