---------------------------- MODULE LeaseProofs ----------------------------
(***************************************************************************)
(* Proofs about the privileges an agent may hold.  First the promotion     *)
(* gate, for any evidence and contracts and any number of proposals,       *)
(* revisions and sessions; then a bounded-control session, under every     *)
(* contract, warrant and set of requests.  Its inductive invariant adds to *)
(* the properties the two facts they rest on: a stopped session's warrant  *)
(* is revoked, and the receipts count what was charged.                    *)
(***************************************************************************)
EXTENDS Promotion, ControlSession, FiniteSetTheorems, TLAPS

Proposal ==
  [target : {"ADVISE", "BOUNDED_CONTROL"}, base : Nat,
   contract : Contracts \union {NoContract},
   report : (SUBSET WitnessCases) \union (SUBSET Rehearsals)]

\* What the evidence of a proposal comes to; it is judged once, when it is made.
Founded(proposal) ==
  \/ proposal.target = "ADVISE" /\ Ready(proposal.report)
       /\ proposal.report \in SUBSET WitnessCases
  \/ proposal.target = "BOUNDED_CONTROL" /\ ControlReady(proposal.contract, proposal.report)

\* Authorizations come at growing revisions, each one past its proposal's base,
\* and the advice in force is the last of them.
AuthorizedInOrder ==
  /\ \A i \in DOMAIN authorized :
       /\ authorized[i].revision <= promotion.revision
       /\ promotionProposals[authorized[i].proposal].base + 1 = authorized[i].revision
       /\ promotionProposals[authorized[i].proposal].target = "BOUNDED_CONTROL" =>
            /\ i > 1 /\ authorized[i - 1].revision + 1 = authorized[i].revision
            /\ promotionProposals[authorized[i - 1].proposal].target = "ADVISE"
  /\ \A i, j \in DOMAIN authorized :
       i < j => authorized[i].revision < authorized[j].revision
  /\ promotion.mode = "ADVISE" =>
       /\ Len(authorized) > 0
       /\ authorized[Len(authorized)].revision = promotion.revision
       /\ promotionProposals[authorized[Len(authorized)].proposal].target = "ADVISE"

ProposalsOK ==
  /\ promotionProposals \in Seq(Proposal)
  /\ \A p \in DOMAIN promotionProposals : Founded(promotionProposals[p])
  /\ 0 \notin DOMAIN promotionProposals

PromotionInv == ProposalsOK /\ PromotionTypeOK /\ AuthorizedInOrder

LEMMA PromotionInvInit == PromotionInit => PromotionInv
  BY DEF PromotionInit, PromotionInv, ProposalsOK, PromotionTypeOK, AuthorizedInOrder,
         NoSeal

-----------------------------------------------------------------------------
(* The steps.                                                              *)

LeaseOf(granted) ==
  [grant : granted, used : 0 .. LeaseActions, pending : BOOLEAN, stopped : BOOLEAN]

LEMMA InShadowType ==
  ASSUME PromotionInv
  PROVE  /\ InShadow.mode = "SHADOW" /\ InShadow.seal = NoSeal
         /\ InShadow.revision = promotion.revision + 1
         /\ InShadow \in [mode : {"SHADOW", "ADVISE", "BOUNDED_CONTROL"},
                          revision : Nat, seal : seals \union {NoSeal}]
         /\ promotion.revision \in Nat
  BY DEF PromotionInv, PromotionTypeOK, InShadow

LEMMA SeqGrows ==
  ASSUME NEW S, NEW T, S \subseteq T, NEW q \in Seq(S)
  PROVE  q \in Seq(T)
  OBVIOUS

LEMMA SeqElements ==
  ASSUME NEW S, NEW q \in Seq(S)
  PROVE  /\ Len(q) \in Nat /\ DOMAIN q = 1 .. Len(q)
         /\ \A i \in DOMAIN q : q[i] \in S
  OBVIOUS

LEMMA AuthorizedType ==
  ASSUME PromotionInv
  PROVE  /\ authorized \in Seq([proposal : seals, revision : Nat])
         /\ Len(authorized) \in Nat
         /\ DOMAIN authorized = 1 .. Len(authorized)
         /\ \A i \in DOMAIN authorized :
              /\ authorized[i].proposal \in DOMAIN promotionProposals
              /\ authorized[i].revision \in Nat
<1>1. authorized \in Seq([proposal : seals, revision : Nat])
  BY DEF PromotionInv, PromotionTypeOK
<1>2. /\ Len(authorized) \in Nat /\ DOMAIN authorized = 1 .. Len(authorized)
      /\ \A i \in DOMAIN authorized : authorized[i] \in [proposal : seals, revision : Nat]
  BY <1>1, SeqElements
<1>3. seals \subseteq DOMAIN promotionProposals
  BY DEF PromotionInv, PromotionTypeOK
<1> QED
  BY <1>1, <1>2, <1>3

\* A collapse, a session that moves and a grant that lapses disturb nothing
\* of what was proposed and authorized.
LEMMA StayingStep ==
  ASSUME PromotionInv,
         UNCHANGED <<promotionProposals, seals, authorized>>,
         promotion' = promotion \/ promotion' = InShadow,
         sessions' \in Seq(LeaseOf(seals)),
         lapsedGrants' \subseteq DOMAIN promotionProposals
  PROVE  PromotionInv'
<1>1. ProposalsOK'
  <2>1. promotionProposals' = promotionProposals /\ ProposalsOK
    BY DEF PromotionInv
  <2>2. \A q \in DOMAIN promotionProposals : Founded(promotionProposals[q])
    BY <2>1 DEF ProposalsOK
  <2> QED
    BY <2>1, <2>2 DEF ProposalsOK
<1>2. PromotionTypeOK'
  BY InShadowType DEF PromotionInv, PromotionTypeOK, LeaseOf
<1>3. AuthorizedInOrder'
  <2>1. promotion.revision \in Nat /\ promotion'.revision \in Nat
        /\ promotion.revision <= promotion'.revision
    BY InShadowType
  <2>2. promotion'.mode = "ADVISE" => promotion' = promotion
    BY InShadowType
  <2>3. \A i \in DOMAIN authorized : authorized[i].revision \in Nat
    BY AuthorizedType
  <2> QED
    BY <2>1, <2>2, <2>3 DEF PromotionInv, AuthorizedInOrder
<1> QED
  BY <1>1, <1>2, <1>3 DEF PromotionInv

\* A proposal is one more value; those made before keep their index.
LEMMA ProposedStep ==
  ASSUME PromotionInv, NEW proposal \in Proposal, Founded(proposal),
         promotionProposals' = Append(promotionProposals, proposal),
         UNCHANGED <<promotion, seals, authorized, sessions, lapsedGrants>>
  PROVE  PromotionInv'
<1> DEFINE n == Len(promotionProposals)
<1>1. promotionProposals \in Seq(Proposal) /\ n \in Nat
  BY DEF PromotionInv, ProposalsOK
<1>2. /\ promotionProposals' \in Seq(Proposal)
      /\ DOMAIN promotionProposals = 1 .. n
      /\ DOMAIN promotionProposals' = 1 .. (n + 1)
      /\ promotionProposals'[n + 1] = proposal
      /\ \A p \in 1 .. n : promotionProposals'[p] = promotionProposals[p]
  BY <1>1
<1>3. ProposalsOK'
  <2>1. \A p \in 1 .. (n + 1) : Founded(promotionProposals'[p])
    <3>1. \A p \in 1 .. n : Founded(promotionProposals'[p])
      BY <1>2 DEF PromotionInv, ProposalsOK
    <3> QED
      BY <1>1, <1>2, <3>1
  <2> QED
    BY <1>1, <1>2, <2>1 DEF ProposalsOK
<1>4. PromotionTypeOK'
  BY <1>1, <1>2 DEF PromotionInv, PromotionTypeOK
<1>5. AuthorizedInOrder'
  <2>1. \A i \in DOMAIN authorized :
          promotionProposals'[authorized[i].proposal]
            = promotionProposals[authorized[i].proposal]
    BY <1>2, AuthorizedType
  <2>2. authorized \in Seq([proposal : seals, revision : Nat])
    BY AuthorizedType
  <2>3. \A i \in DOMAIN authorized : i > 1 => i - 1 \in DOMAIN authorized
    BY <2>2
  <2>4. Len(authorized) > 0 => Len(authorized) \in DOMAIN authorized
    BY <2>2
  <2>5. AuthorizedInOrder
    BY DEF PromotionInv
  <2>6. \A i \in DOMAIN authorized :
          /\ authorized[i].revision <= promotion.revision
          /\ promotionProposals'[authorized[i].proposal].base + 1 = authorized[i].revision
          /\ promotionProposals'[authorized[i].proposal].target = "BOUNDED_CONTROL" =>
               /\ i > 1 /\ authorized[i - 1].revision + 1 = authorized[i].revision
               /\ promotionProposals'[authorized[i - 1].proposal].target = "ADVISE"
    <3> SUFFICES ASSUME NEW i \in DOMAIN authorized
                 PROVE  /\ authorized[i].revision <= promotion.revision
                        /\ promotionProposals'[authorized[i].proposal].base + 1
                             = authorized[i].revision
                        /\ promotionProposals'[authorized[i].proposal].target
                              = "BOUNDED_CONTROL" =>
                             /\ i > 1
                             /\ authorized[i - 1].revision + 1 = authorized[i].revision
                             /\ promotionProposals'[authorized[i - 1].proposal].target
                                  = "ADVISE"
      OBVIOUS
    <3>1. i > 1 => promotionProposals'[authorized[i - 1].proposal]
                     = promotionProposals[authorized[i - 1].proposal]
      BY <2>1, <2>3
    <3> QED
      BY <2>1, <2>5, <3>1 DEF AuthorizedInOrder
  <2>7. promotion.mode = "ADVISE" =>
          /\ Len(authorized) > 0
          /\ authorized[Len(authorized)].revision = promotion.revision
          /\ promotionProposals'[authorized[Len(authorized)].proposal].target = "ADVISE"
    BY <2>1, <2>4, <2>5 DEF AuthorizedInOrder
  <2> QED
    BY <2>5, <2>6, <2>7 DEF AuthorizedInOrder
<1> QED
  BY <1>3, <1>4, <1>5 DEF PromotionInv

LEMMA SealStep ==
  ASSUME PromotionInv, NEW p \in DOMAIN promotionProposals, Seal(p)
  PROVE  PromotionInv'
<1>1. ProposalsOK'
  <2>1. promotionProposals' = promotionProposals /\ ProposalsOK
    BY DEF Seal, PromotionInv
  <2>2. \A q \in DOMAIN promotionProposals : Founded(promotionProposals[q])
    BY <2>1 DEF ProposalsOK
  <2> QED
    BY <2>1, <2>2 DEF ProposalsOK
<1>2. PromotionTypeOK'
  <2>0. seals \subseteq seals'
    BY DEF Seal
  <2>1. authorized \in Seq([proposal : seals', revision : Nat])
    <3>1. authorized \in Seq([proposal : seals, revision : Nat])
      BY AuthorizedType
    <3>2. [proposal : seals, revision : Nat] \subseteq [proposal : seals', revision : Nat]
      BY <2>0
    <3> QED
      BY <3>1, <3>2, SeqGrows
  <2>2. sessions \in Seq(LeaseOf(seals'))
    <3>1. sessions \in Seq(LeaseOf(seals))
      BY DEF PromotionInv, PromotionTypeOK, LeaseOf
    <3>2. LeaseOf(seals) \subseteq LeaseOf(seals')
      BY <2>0 DEF LeaseOf
    <3> QED
      BY <3>1, <3>2, SeqGrows
  <2> QED
    BY <2>1, <2>2 DEF Seal, PromotionInv, PromotionTypeOK, LeaseOf
<1>3. AuthorizedInOrder'
  BY DEF Seal, PromotionInv, AuthorizedInOrder
<1> QED
  BY <1>1, <1>2, <1>3 DEF PromotionInv

\* The revision grows past every authorization before, and a proposal of
\* BOUNDED_CONTROL finds the advice it was made in still the last of them.
LEMMA AuthorizeStep ==
  ASSUME PromotionInv, NEW p \in DOMAIN promotionProposals, Authorize(p)
  PROVE  PromotionInv'
<1> DEFINE n == Len(authorized)
           a == [proposal |-> p, revision |-> promotion.revision + 1]
<1>1. /\ authorized \in Seq([proposal : seals, revision : Nat]) /\ n \in Nat
      /\ promotion.revision \in Nat
      /\ promotionProposals[p] \in Proposal
      /\ p # NoSeal
  BY DEF PromotionInv, PromotionTypeOK, ProposalsOK, NoSeal
<1>2. /\ a \in [proposal : seals, revision : Nat]
      /\ a.proposal = p /\ a.revision = promotion.revision + 1
  BY <1>1 DEF Authorize
<1>3. authorized' = Append(authorized, a)
  BY DEF Authorize
<1> HIDE DEF a
<1>4. /\ authorized' \in Seq([proposal : seals, revision : Nat])
      /\ Len(authorized') = n + 1
      /\ DOMAIN authorized = 1 .. n /\ DOMAIN authorized' = 1 .. (n + 1)
      /\ authorized'[n + 1] = a
      /\ \A i \in 1 .. n : authorized'[i] = authorized[i]
  BY <1>1, <1>2, <1>3
<1>5. /\ promotion'.mode = promotionProposals[p].target
      /\ promotion'.revision = promotion.revision + 1 /\ promotion'.seal = p
      /\ promotion' \in [mode : {"SHADOW", "ADVISE", "BOUNDED_CONTROL"},
                         revision : Nat, seal : seals \union {NoSeal}]
      /\ promotionProposals[p].target \in {"ADVISE", "BOUNDED_CONTROL"}
      /\ promotionProposals[p].base = promotion.revision
  BY <1>1 DEF Authorize, Proposal
<1>6. UNCHANGED <<promotionProposals, seals, sessions, lapsedGrants>>
  BY DEF Authorize
<1>7. ProposalsOK'
  <2>1. promotionProposals' = promotionProposals /\ ProposalsOK
    BY <1>6 DEF PromotionInv
  <2>2. (\A q \in DOMAIN promotionProposals : Founded(promotionProposals[q]))'
    BY <2>1 DEF ProposalsOK
  <2> QED BY <2>1, <2>2 DEF ProposalsOK
<1>8. PromotionTypeOK'
  BY <1>1, <1>4, <1>5, <1>6 DEF PromotionInv, PromotionTypeOK
<1>9. AuthorizedInOrder'
  <2>1. \A i \in 1 .. n : authorized[i].revision \in Nat
    BY <1>4, AuthorizedType
  <2>2. ASSUME NEW i \in 1 .. (n + 1)
        PROVE  /\ authorized'[i].revision <= promotion'.revision
               /\ promotionProposals[authorized'[i].proposal].base + 1
                    = authorized'[i].revision
               /\ promotionProposals[authorized'[i].proposal].target = "BOUNDED_CONTROL" =>
                    /\ i > 1 /\ authorized'[i - 1].revision + 1 = authorized'[i].revision
                    /\ promotionProposals[authorized'[i - 1].proposal].target = "ADVISE"
    <3>1. CASE i = n + 1
      <4>1. promotionProposals[p].target = "BOUNDED_CONTROL" => promotion.mode = "ADVISE"
        BY DEF Authorize, From
      <4>2. promotionProposals[p].target = "BOUNDED_CONTROL" =>
              /\ n > 0 /\ authorized[n].revision = promotion.revision
              /\ promotionProposals[authorized[n].proposal].target = "ADVISE"
        BY <4>1 DEF PromotionInv, AuthorizedInOrder
      <4> QED
        BY <3>1, <4>2, <1>1, <1>2, <1>4, <1>5
    <3>2. CASE i \in 1 .. n
      <4>1. i > 1 => i - 1 \in 1 .. n
        BY <3>2, <1>1
      <4>2. /\ authorized'[i] = authorized[i]
            /\ i > 1 => authorized'[i - 1] = authorized[i - 1]
        BY <3>2, <4>1, <1>4
      <4>3. /\ authorized[i].revision \in Nat /\ authorized[i].revision <= promotion.revision
            /\ promotionProposals[authorized[i].proposal].base + 1 = authorized[i].revision
            /\ promotionProposals[authorized[i].proposal].target = "BOUNDED_CONTROL" =>
                 /\ i > 1 /\ authorized[i - 1].revision + 1 = authorized[i].revision
                 /\ promotionProposals[authorized[i - 1].proposal].target = "ADVISE"
        BY <3>2, <2>1, <1>4 DEF PromotionInv, AuthorizedInOrder
      <4> QED
        BY <4>2, <4>3, <1>1, <1>5
    <3> QED
      BY <3>1, <3>2, <1>1
  <2>3. ASSUME NEW i \in 1 .. (n + 1), NEW j \in 1 .. (n + 1), i < j
        PROVE  authorized'[i].revision < authorized'[j].revision
    <3>1. i \in 1 .. n
      BY <2>3, <1>1
    <3>2. CASE j = n + 1
      <4>1. authorized'[i] = authorized[i] /\ authorized'[j] = a
        BY <3>1, <3>2, <1>4
      <4>2. authorized[i].revision \in Nat /\ authorized[i].revision <= promotion.revision
        BY <3>1, <2>1, <1>4 DEF PromotionInv, AuthorizedInOrder
      <4> QED
        BY <4>1, <4>2, <1>1, <1>2
    <3>3. CASE j \in 1 .. n
      BY <2>3, <3>1, <3>3, <1>4 DEF PromotionInv, AuthorizedInOrder
    <3> QED
      BY <3>2, <3>3, <1>1
  <2>4. promotion'.mode = "ADVISE" =>
          /\ Len(authorized') > 0
          /\ authorized'[Len(authorized')].revision = promotion'.revision
          /\ promotionProposals[authorized'[Len(authorized')].proposal].target = "ADVISE"
    <3>1. authorized'[Len(authorized')] = a /\ Len(authorized') > 0
      BY <1>1, <1>4
    <3> QED
      BY <3>1, <1>2, <1>5
  <2> QED
    BY <1>4, <1>6, <2>2, <2>3, <2>4 DEF AuthorizedInOrder
<1> QED
  BY <1>7, <1>8, <1>9 DEF PromotionInv

\* Everything that only moves sessions, collapses or lets a grant lapse.
LEMMA TurnStep ==
  ASSUME PromotionInv,
         NEW s \in DOMAIN sessions \union {NoSession},
         NEW g \in {a.proposal : a \in Range(authorized)}, NEW contract \in Contracts,
         NEW blocked \in BOOLEAN, NEW routed \in BOOLEAN, NEW fits \in BOOLEAN,
         Turn(s, g, contract, blocked, routed, fits)
  PROVE  /\ UNCHANGED <<promotionProposals, seals, authorized, lapsedGrants>>
         /\ promotion' = promotion \/ promotion' = InShadow
         /\ sessions' \in Seq(LeaseOf(seals))
<1>1. sessions \in Seq(LeaseOf(seals)) /\ NoSession \notin DOMAIN sessions
  BY DEF PromotionInv, PromotionTypeOK, LeaseOf, NoSession
<1>2. CASE CollapseToShadow
  BY <1>1, <1>2 DEF CollapseToShadow
<1>3. CASE s \in DOMAIN sessions /\ StopAndCollapse(s)
  <2>1. sessions[s] \in LeaseOf(seals)
    BY <1>1, <1>3
  <2>2. [sessions[s] EXCEPT !.stopped = TRUE] \in LeaseOf(seals)
    BY <2>1 DEF LeaseOf
  <2> QED
    BY <1>1, <1>3, <2>2 DEF StopAndCollapse
<1>4. CASE s \in DOMAIN sessions /\ Steer(s, g, contract, fits)
  <2>1. sessions[s] \in LeaseOf(seals) /\ sessions[s].used < LeaseActions
    BY <1>1, <1>4 DEF Steer, MayLicense
  <2>2. [sessions[s] EXCEPT !.used = sessions[s].used + 1, !.pending = TRUE]
          \in LeaseOf(seals)
    <3>1. sessions[s].used + 1 \in 0 .. LeaseActions
      BY <2>1, PromotionAssumption DEF LeaseOf
    <3> QED
      BY <2>1, <3>1 DEF LeaseOf
  <2>3. sessions' = [sessions EXCEPT ![s] = [sessions[s] EXCEPT
                       !.used = sessions[s].used + 1, !.pending = TRUE]]
    BY <1>4 DEF Steer
  <2>4. sessions' \in Seq(LeaseOf(seals))
    BY <1>1, <1>4, <2>2, <2>3
  <2> QED
    BY <1>4, <2>4 DEF Steer
<1> QED
  BY <1>2, <1>3, <1>4 DEF Turn

LEMMA PromotionStepInv == PromotionInv /\ [PromotionNext]_promotionVars => PromotionInv'
<1> SUFFICES ASSUME PromotionInv, [PromotionNext]_promotionVars
             PROVE  PromotionInv'
  OBVIOUS
<1>1. /\ sessions \in Seq(LeaseOf(seals))
      /\ lapsedGrants \subseteq DOMAIN promotionProposals
      /\ promotion.revision \in Nat
  BY DEF PromotionInv, PromotionTypeOK, LeaseOf
<1>2. ASSUME NEW cases \in SUBSET WitnessCases, ProposePromotion(cases)
      PROVE  PromotionInv'
  <2> DEFINE proposal == [target |-> "ADVISE", base |-> promotion.revision,
                          contract |-> NoContract, report |-> cases]
  <2>1. proposal \in Proposal /\ Founded(proposal)
    BY <1>1, <1>2 DEF Proposal, Founded, ProposePromotion
  <2>2. promotionProposals' = Append(promotionProposals, proposal)
    BY <1>2 DEF ProposePromotion, PromotionProposed
  <2> HIDE DEF proposal
  <2> QED
    BY <1>2, <2>1, <2>2, ProposedStep DEF ProposePromotion, PromotionProposed
<1>3. ASSUME NEW contract \in Contracts, NEW cases \in SUBSET Rehearsals,
             ProposeBoundedControl(contract, cases)
      PROVE  PromotionInv'
  <2> DEFINE proposal == [target |-> "BOUNDED_CONTROL", base |-> promotion.revision,
                          contract |-> contract, report |-> cases]
  <2>1. proposal \in Proposal /\ Founded(proposal)
    <3>1. proposal \in Proposal
      BY <1>1 DEF Proposal
    <3>2. ControlReady(contract, cases)
      BY <1>3 DEF ProposeBoundedControl
    <3> QED
      BY <3>1, <3>2 DEF Founded
  <2>2. promotionProposals' = Append(promotionProposals, proposal)
    BY <1>3 DEF ProposeBoundedControl, PromotionProposed
  <2> HIDE DEF proposal
  <2> QED
    BY <1>3, <2>1, <2>2, ProposedStep DEF ProposeBoundedControl, PromotionProposed
<1>4. ASSUME NEW p \in DOMAIN promotionProposals, StartControlSession(p)
      PROVE  PromotionInv'
  <2> DEFINE w == [grant |-> p, used |-> 0, pending |-> FALSE, stopped |-> FALSE]
  <2>1. p \in seals
    <3>1. promotion.seal = p /\ promotion.mode # "SHADOW"
      BY <1>4 DEF StartControlSession
    <3> QED
      BY <3>1 DEF PromotionInv, PromotionTypeOK
  <2>2. w \in LeaseOf(seals)
    BY <2>1, PromotionAssumption DEF LeaseOf
  <2>3. sessions' = Append(sessions, w)
    BY <1>4 DEF StartControlSession
  <2> HIDE DEF w
  <2>4. sessions' \in Seq(LeaseOf(seals))
    BY <1>1, <2>2, <2>3
  <2> QED
    BY <1>1, <1>4, <2>4, StayingStep DEF StartControlSession
<1>5. ASSUME NEW p \in DOMAIN promotionProposals, Lapses(p)
      PROVE  PromotionInv'
  BY <1>1, <1>5, StayingStep DEF Lapses
<1>6. ASSUME CollapseToShadow
      PROVE  PromotionInv'
  BY <1>1, <1>6, StayingStep DEF CollapseToShadow
<1>7. ASSUME NEW s \in DOMAIN sessions \union {NoSession},
             NEW g \in {a.proposal : a \in Range(authorized)}, NEW contract \in Contracts,
             NEW blocked \in BOOLEAN, NEW routed \in BOOLEAN, NEW fits \in BOOLEAN,
             Turn(s, g, contract, blocked, routed, fits)
      PROVE  PromotionInv'
  BY <1>1, <1>7, TurnStep, StayingStep
<1>8. ASSUME NEW s \in DOMAIN sessions, NEW success \in BOOLEAN, RecordOutcome(s, success)
      PROVE  PromotionInv'
  <2>1. sessions[s] \in LeaseOf(seals)
    BY <1>1
  <2>2. [sessions[s] EXCEPT !.pending = FALSE, !.stopped = sessions[s].stopped \/ ~success]
          \in LeaseOf(seals)
    BY <2>1 DEF LeaseOf
  <2>3. sessions' = [sessions EXCEPT ![s] = [sessions[s] EXCEPT
                       !.pending = FALSE, !.stopped = sessions[s].stopped \/ ~success]]
    BY <1>8 DEF RecordOutcome
  <2>4. sessions' \in Seq(LeaseOf(seals))
    BY <1>1, <2>2, <2>3
  <2> QED
    BY <1>1, <1>8, <2>4, StayingStep DEF RecordOutcome
<1>9. ASSUME NEW s \in DOMAIN sessions, StopLease(s)
      PROVE  PromotionInv'
  <2>0. sessions[s] \in LeaseOf(seals)
    BY <1>1
  <2>1. [sessions[s] EXCEPT !.stopped = TRUE] \in LeaseOf(seals)
    BY <2>0 DEF LeaseOf
  <2>2. sessions' \in Seq(LeaseOf(seals))
    BY <1>1, <1>9, <2>1 DEF StopLease
  <2> QED
    BY <1>1, <1>9, <2>2, StayingStep DEF StopLease
<1>10. CASE UNCHANGED promotionVars
  BY <1>1, <1>10, StayingStep DEF promotionVars
<1> QED
  BY <1>2, <1>3, <1>4, <1>5, <1>6, <1>7, <1>8, <1>9, <1>10, SealStep, AuthorizeStep
     DEF PromotionNext, CollapseControl

-----------------------------------------------------------------------------
(* What follows.                                                           *)

\* As many distinct receipts as cases, when no receipt is counted twice.
LEMMA ReceiptsCounted ==
  ASSUME NEW cases, IsFiniteSet(cases), Countable(cases)
  PROVE  Cardinality({c.receipt : c \in cases}) = Cardinality(cases)
<1> DEFINE cited == {c.receipt : c \in cases}
           f == [c \in cases |-> c.receipt]
<1>1. f \in Bijection(cases, cited)
  BY DEF Countable, Bijection, Injection, Surjection, IsInjective
<1>2. ExistsBijection(cases, cited)
  BY <1>1 DEF ExistsBijection
<1> QED
  BY <1>2, FS_Bijection

\* The state, the proposals, the seals and the sessions keep their types,
\* whatever order proposals, seals, sessions and collapses come in.
THEOREM PromotionTypeCorrect == PromotionSpec => []PromotionTypeOK
<1>1. PromotionInv => PromotionTypeOK
  BY DEF PromotionInv
<1> QED
  BY <1>1, PromotionInvInit, PromotionStepInv, PTL DEF PromotionSpec

\* No mode is ever entered on less evidence than the policy asks for, however a
\* caller picks or repeats it: one receipt cannot stand for two.
THEOREM PromotionAlwaysWitnessed == PromotionSpec => []PromotionIsWitnessed
<1>1. PromotionInv => PromotionIsWitnessed
  <2> SUFFICES ASSUME PromotionInv, NEW i \in DOMAIN authorized
               PROVE  LET proposal == promotionProposals[authorized[i].proposal]
                          report   == proposal.report
                      IN  IF proposal.target = "ADVISE"
                          THEN /\ Cardinality({c.receipt : c \in report})
                                    >= BenchPolicy.receipts
                               /\ ~ \E c \in report :
                                      c.comparison.state \in ConflictStates /\ ~c.reviewed
                          ELSE \A kind \in CaseKinds :
                                 \E c \in report :
                                   c.kind = kind /\ c.contract = proposal.contract
    BY DEF PromotionIsWitnessed
  <2> DEFINE proposal == promotionProposals[authorized[i].proposal]
  <2>1. Founded(proposal)
    <3>1. authorized[i].proposal \in DOMAIN promotionProposals
      BY AuthorizedType
    <3> QED
      BY <3>1 DEF PromotionInv, ProposalsOK
  <2> HIDE DEF proposal
  <2>2. ASSUME proposal.target = "ADVISE"
        PROVE  /\ Cardinality({c.receipt : c \in proposal.report}) >= BenchPolicy.receipts
               /\ ~ \E c \in proposal.report :
                      c.comparison.state \in ConflictStates /\ ~c.reviewed
    <3>1. Ready(proposal.report) /\ proposal.report \in SUBSET WitnessCases
      BY <2>1, <2>2 DEF Founded
    <3>2. IsFiniteSet(proposal.report)
      BY <3>1, PromotionAssumption, FS_Subset
    <3>3. Cardinality({c.receipt : c \in proposal.report}) = Cardinality(proposal.report)
      BY <3>1, <3>2, ReceiptsCounted DEF Ready
    <3> QED
      BY <3>1, <3>3 DEF Ready, Reviewed
  <2>3. ASSUME proposal.target # "ADVISE"
        PROVE  \A kind \in CaseKinds :
                 \E c \in proposal.report : c.kind = kind /\ c.contract = proposal.contract
    BY <2>1, <2>3 DEF Founded, ControlReady
  <2> QED
    BY <2>2, <2>3 DEF proposal
<1> QED
  BY <1>1, PromotionInvInit, PromotionStepInv, PTL DEF PromotionSpec

\* A proposal is applied at most once, at the revision it was made at, whatever
\* collapses and climbs lie in between; control only on the advice before it.
THEOREM StaleProposalsStayDead == PromotionSpec => []StaleProposalsAreDead
<1>1. PromotionInv => StaleProposalsAreDead
  <2> SUFFICES ASSUME PromotionInv PROVE StaleProposalsAreDead
    OBVIOUS
  <2>1. authorized \in Seq([proposal : seals, revision : Nat])
    BY DEF PromotionInv, PromotionTypeOK
  <2>2. ASSUME NEW i \in DOMAIN authorized, NEW j \in DOMAIN authorized,
               authorized[i].proposal = authorized[j].proposal
        PROVE  i = j
    <3>1. authorized[i].revision = authorized[j].revision
      BY <2>2 DEF PromotionInv, AuthorizedInOrder
    <3>2. /\ i \in Int /\ j \in Int
          /\ authorized[i].revision \in Nat /\ authorized[j].revision \in Nat
      BY AuthorizedType
    <3> QED
      BY <3>1, <3>2 DEF PromotionInv, AuthorizedInOrder
  <2> QED
    BY <2>2 DEF StaleProposalsAreDead, PromotionInv, AuthorizedInOrder
<1> QED
  BY <1>1, PromotionInvInit, PromotionStepInv, PTL DEF PromotionSpec

\* Only a session of the grant in force is ever licensed, also among any number
\* that have survived a collapse and a later grant.
THEOREM OnlyCurrentSteers == PromotionSpec => SteeringIsCurrent
<1>1. PromotionInv /\ [PromotionNext]_promotionVars =>
        [\A s \in DOMAIN sessions :
           sessions'[s].used # sessions[s].used =>
             /\ promotion.mode = "BOUNDED_CONTROL"
             /\ promotion.seal = sessions[s].grant]_promotionVars
  <2> SUFFICES ASSUME PromotionInv, PromotionNext, NEW t \in DOMAIN sessions,
                      sessions'[t].used # sessions[t].used
               PROVE  /\ promotion.mode = "BOUNDED_CONTROL"
                      /\ promotion.seal = sessions[t].grant
    OBVIOUS
  <2>1. sessions \in Seq(LeaseOf(seals)) /\ NoSession \notin DOMAIN sessions
    BY DEF PromotionInv, PromotionTypeOK, LeaseOf, NoSession
  <2>2. ASSUME NEW s \in DOMAIN sessions, NEW g, NEW contract, NEW fits,
               Steer(s, g, contract, fits)
        PROVE  /\ promotion.mode = "BOUNDED_CONTROL"
               /\ promotion.seal = sessions[t].grant
    <3>1. t = s
      BY <2>1, <2>2 DEF Steer
    <3> QED
      BY <2>2, <3>1 DEF Steer, Bound
  <2>3. ASSUME NEW s \in DOMAIN sessions, StopAndCollapse(s)
        PROVE  FALSE
    BY <2>1, <2>3 DEF StopAndCollapse, LeaseOf
  <2>4. ASSUME NEW p, StartControlSession(p)
        PROVE  FALSE
    <3> DEFINE w == [grant |-> p, used |-> 0, pending |-> FALSE, stopped |-> FALSE]
    <3>1. sessions' = Append(sessions, w)
      BY <2>4 DEF StartControlSession
    <3> HIDE DEF w
    <3> QED
      BY <2>1, <3>1
  <2>5. ASSUME NEW s \in DOMAIN sessions, NEW success \in BOOLEAN, RecordOutcome(s, success)
        PROVE  FALSE
    BY <2>1, <2>5 DEF RecordOutcome, LeaseOf
  <2>6. ASSUME NEW s \in DOMAIN sessions, StopLease(s)
        PROVE  FALSE
    BY <2>1, <2>6 DEF StopLease, LeaseOf
  <2>7. sessions' # sessions
    OBVIOUS
  <2>8. ASSUME NEW s \in DOMAIN sessions \union {NoSession}, NEW g, NEW contract,
               NEW blocked, NEW routed, NEW fits,
               Turn(s, g, contract, blocked, routed, fits)
        PROVE  /\ promotion.mode = "BOUNDED_CONTROL"
               /\ promotion.seal = sessions[t].grant
    BY <2>1, <2>2, <2>3, <2>7, <2>8 DEF Turn, CollapseToShadow
  <2> QED
    BY <2>4, <2>5, <2>6, <2>7, <2>8
       DEF PromotionNext, ProposePromotion, ProposeBoundedControl, PromotionProposed, Seal,
           Authorize, Lapses, CollapseToShadow, CollapseControl
<1> QED
  BY <1>1, PromotionInvInit, PromotionStepInv, PTL DEF PromotionSpec, SteeringIsCurrent

-----------------------------------------------------------------------------
(* Bounded-control sessions.                                               *)

\* Each charged action has its license receipt, and its outcome receipt too
\* unless it is still pending.
ReceiptsCount ==
  Len(receipts) = 2 * session.actions_used - (IF session.pending THEN 1 ELSE 0)

\* A session stops together with its warrant.
StoppedIsRevoked == session.stopped => session.warrant.revoked

InTurn ==
  \A i \in DOMAIN receipts :
    receipts[i] = IF i % 2 = 1 THEN "license" ELSE "outcome"

SessionInv ==
  /\ SessionTypeOK
  /\ WithinContract
  /\ StoppedIsRevoked
  /\ ReceiptsCount
  /\ InTurn
  /\ collapsed => session.stopped

-----------------------------------------------------------------------------
(* The operations on session values.                                       *)

\* Debiting what is affordable never overdraws a warrant.
LEMMA DebitStaysWithin ==
  ASSUME NEW w \in Warrants, NEW spends, IsSpend(spends), Affordable(w, spends)
  PROVE  Debited(w, spends) \in Warrants /\ Debited(w, spends).revoked = w.revoked
<1> DEFINE f == [k \in Granted |->
                   w.spent[k] + (IF k \in DOMAIN spends THEN spends[k] ELSE 0)]
<1>1. w.spent \in [Granted -> Nat] /\ \A k \in Granted : w.spent[k] <= Limit[k]
  BY DEF Warrants
<1>2. ASSUME NEW k \in Granted
      PROVE  f[k] \in Nat /\ f[k] <= Limit[k]
  <2>1. w.spent[k] \in Nat /\ Limit[k] \in Nat /\ w.spent[k] <= Limit[k]
    BY <1>1, BudgetAssumption
  <2>2. CASE k \in DOMAIN spends
    <3>1. spends[k] \in Nat /\ spends[k] <= Limit[k] - w.spent[k]
      BY <2>2 DEF IsSpend, Affordable
    <3> QED BY <2>1, <2>2, <3>1
  <2>3. CASE k \notin DOMAIN spends
    BY <2>1, <2>3
  <2> QED BY <2>2, <2>3
<1>3. Debited(w, spends) = [w EXCEPT !.spent = f]
  BY DEF Debited
<1>4. f \in {g \in [Granted -> Nat] : \A k \in Granted : g[k] <= Limit[k]}
  BY <1>2
<1> HIDE DEF f
<1> QED BY <1>3, <1>4 DEF Warrants

\* Stopping keeps the type, the counters and what is pending.
LEMMA StopShape ==
  ASSUME NEW s \in Session
  PROVE  /\ Stopped(s) \in Session
         /\ Stopped(s).stopped
         /\ Stopped(s).warrant.revoked
         /\ Stopped(s).warrant.spent = s.warrant.spent
         /\ Stopped(s).actions_used = s.actions_used
         /\ Stopped(s).clock_ticks_used = s.clock_ticks_used
         /\ Stopped(s).action_usage = s.action_usage
         /\ Stopped(s).pending = s.pending
BY DEF Stopped, Session, Revoked, Warrants

\* A session whose counters and warrant are replaced is a session.
LEMMA SessionUpdated ==
  ASSUME NEW s \in Session, NEW w \in Warrants, NEW a \in Nat, NEW c \in Nat,
         NEW u \in [Rules -> Nat]
  PROVE  [s EXCEPT !.warrant = w, !.actions_used = a, !.clock_ticks_used = c,
                   !.action_usage = u, !.pending = TRUE] \in Session
BY DEF Session

\* Charging a licensable request keeps the type and stays within the contract.
LEMMA ChargeShape ==
  ASSUME NEW s \in Session, NEW q \in Requests, Licensable(s, q)
  PROVE  /\ Charged(s, q) \in Session
         /\ Charged(s, q).actions_used = s.actions_used + 1
         /\ Charged(s, q).actions_used <= MaxTotalActions
         /\ Charged(s, q).clock_ticks_used <= MaxClockTicks
         /\ Charged(s, q).action_usage = UsedOnceMore(s.action_usage, q.rule)
         /\ Charged(s, q).action_usage[q.rule] <= MaxCount[q.rule]
         /\ Charged(s, q).pending
         /\ ~Charged(s, q).stopped
<1>1. q.ticks \in Nat /\ q.rule \in Rules /\ IsSpend(q.spends)
  BY ContractAssumption DEF IsRequest, Licensable
<1>2. MaxTotalActions \in Nat /\ MaxCount[q.rule] \in Nat
  BY <1>1, ContractAssumption
<1>3. /\ s.warrant \in Warrants /\ s.actions_used \in Nat
      /\ s.clock_ticks_used \in Nat /\ s.action_usage \in [Rules -> Nat]
  BY DEF Session
<1>4. Debited(s.warrant, q.spends) \in Warrants
  BY <1>1, <1>3, DebitStaysWithin DEF Licensable
<1>5. UsedOnceMore(s.action_usage, q.rule) \in [Rules -> Nat]
  BY <1>1, <1>3 DEF UsedOnceMore
<1>6. /\ s.actions_used + 1 <= MaxTotalActions
      /\ s.action_usage[q.rule] + 1 <= MaxCount[q.rule]
      /\ s.clock_ticks_used + q.ticks <= MaxClockTicks
  <2>1. s.action_usage[q.rule] \in Nat
    BY <1>1, <1>3
  <2> QED BY <1>2, <1>3, <2>1 DEF Licensable
<1>7. Charged(s, q) \in Session
  <2>1. s.actions_used + 1 \in Nat /\ s.clock_ticks_used + q.ticks \in Nat
    BY <1>1, <1>3
  <2> QED BY <1>4, <1>5, <2>1, SessionUpdated, Zenon DEF Charged
<1>8. Charged(s, q).action_usage = UsedOnceMore(s.action_usage, q.rule)
  BY DEF Charged, Session
<1>9. Charged(s, q).action_usage[q.rule] <= MaxCount[q.rule]
  BY <1>1, <1>3, <1>6, <1>8 DEF UsedOnceMore
<1>10. /\ Charged(s, q).actions_used = s.actions_used + 1
       /\ Charged(s, q).clock_ticks_used = s.clock_ticks_used + q.ticks
       /\ Charged(s, q).pending
       /\ Charged(s, q).stopped = s.stopped
  BY DEF Charged, Session
<1> QED BY <1>6, <1>7, <1>8, <1>9, <1>10 DEF Licensable

-----------------------------------------------------------------------------
(* The inductive invariant.                                                *)

LEMMA SessionInvInit == Init => SessionInv
<1> SUFFICES ASSUME Init PROVE SessionInv
  OBVIOUS
<1>1. Unspent \in Warrants
  BY BudgetAssumption DEF Unspent, Warrants
<1>2. session \in Session
  BY <1>1 DEF Init, Session
<1>3. SessionTypeOK /\ InTurn
  <2>1. receipts = <<>> /\ expired \in BOOLEAN /\ collapsed \in BOOLEAN
    BY Zenon DEF Init
  <2>2. receipts \in Seq({"license", "outcome"}) /\ DOMAIN receipts = {}
    BY <2>1
  <2> QED BY <1>2, <2>1, <2>2 DEF SessionTypeOK, InTurn
<1>5. ReceiptsCount
  <2>1. session.actions_used = 0 /\ ~session.pending
    BY DEF Init
  <2>2. Len(receipts) = 0
    BY DEF Init
  <2>3. 2 * session.actions_used - (IF session.pending THEN 1 ELSE 0) = 2 * 0 - 0
    BY <2>1
  <2>4. 2 * 0 - 0 = 0
    OBVIOUS
  <2> QED BY <2>2, <2>3, <2>4 DEF ReceiptsCount
<1>4. WithinContract
  BY ContractAssumption DEF Init, WithinContract
<1> QED BY <1>3, <1>4, <1>5 DEF Init, SessionInv, StoppedIsRevoked

\* The receipt appended is the one whose turn it is.
LEMMA AppendInTurn ==
  ASSUME receipts \in Seq({"license", "outcome"}), InTurn, ReceiptsCount,
         session.actions_used \in Nat,
         NEW e \in {"license", "outcome"},
         e = IF session.pending THEN "outcome" ELSE "license",
         receipts' = Append(receipts, e)
  PROVE  /\ receipts' \in Seq({"license", "outcome"})
         /\ Len(receipts') = Len(receipts) + 1
         /\ InTurn'
<1>1. /\ receipts' \in Seq({"license", "outcome"})
      /\ Len(receipts') = Len(receipts) + 1
  OBVIOUS
<1>2. ASSUME NEW i \in DOMAIN receipts'
      PROVE  receipts'[i] = IF i % 2 = 1 THEN "license" ELSE "outcome"
  <2>1. CASE i \in DOMAIN receipts
    <3>1. receipts'[i] = receipts[i]
      BY <2>1
    <3> QED BY <2>1, <3>1 DEF InTurn
  <2>2. CASE i = Len(receipts) + 1
    <3>1. receipts'[i] = e
      BY <2>2
    <3>2. (i % 2 = 1) <=> ~session.pending
      BY <2>2 DEF ReceiptsCount
    <3> QED BY <3>1, <3>2
  <2>3. i \in DOMAIN receipts \/ i = Len(receipts) + 1
    OBVIOUS
  <2> QED BY <2>1, <2>2, <2>3
<1> QED BY <1>1, <1>2 DEF InTurn

LEMMA SessionInvNext == SessionInv /\ [Next]_vars => SessionInv'
<1> SUFFICES ASSUME SessionInv, [Next]_vars
             PROVE  SessionInv'
  OBVIOUS
<1> USE DEF SessionInv
<1>0. session \in Session /\ session.actions_used \in Nat
  BY DEF SessionTypeOK, Session
<1>1. ASSUME NEW q \in Requests, License(q)
      PROVE  SessionInv'
  <2>1. Licensable(session, q) /\ session' = Charged(session, q)
    BY <1>1 DEF License
  <2>2. /\ session' \in Session
        /\ session'.actions_used = session.actions_used + 1
        /\ session'.actions_used <= MaxTotalActions
        /\ session'.clock_ticks_used <= MaxClockTicks
        /\ session'.action_usage = UsedOnceMore(session.action_usage, q.rule)
        /\ session'.action_usage[q.rule] <= MaxCount[q.rule]
        /\ session'.pending /\ ~session'.stopped
    BY <1>0, <2>1, ChargeShape, Zenon
  <2>3. ~session.pending /\ ~session.stopped /\ q.rule \in Rules
    BY <2>1 DEF Licensable
  <2>4. WithinContract'
    <3>1. session.action_usage \in [Rules -> Nat]
      BY <1>0 DEF Session
    <3>2. \A r \in Rules : session'.action_usage[r] <= MaxCount[r]
      BY <2>2, <2>3, <3>1 DEF UsedOnceMore, WithinContract
    <3> QED BY <2>2, <3>2 DEF WithinContract
  <2>5. /\ receipts' \in Seq({"license", "outcome"})
        /\ Len(receipts') = Len(receipts) + 1 /\ InTurn'
    <3>1. receipts' = Append(receipts, "license")
      BY <1>1 DEF License
    <3> QED BY <1>0, <2>3, <3>1, AppendInTurn DEF SessionTypeOK
  <2>6. ReceiptsCount'
    BY <1>0, <2>2, <2>3, <2>5 DEF ReceiptsCount, SessionTypeOK
  <2>7. UNCHANGED <<expired, collapsed>>
    BY <1>1 DEF License
  <2> QED BY <2>2, <2>3, <2>4, <2>5, <2>6, <2>7 DEF SessionTypeOK, StoppedIsRevoked
<1>2. ASSUME session' = Stopped(session), UNCHANGED <<expired, receipts>>,
             collapsed' = collapsed
      PROVE  SessionInv'
  <2>1. /\ session' \in Session
        /\ session'.stopped /\ session'.warrant.revoked
        /\ session'.actions_used = session.actions_used
        /\ session'.clock_ticks_used = session.clock_ticks_used
        /\ session'.action_usage = session.action_usage
        /\ session'.pending = session.pending
    BY <1>0, <1>2, StopShape, Zenon
  <2>2. WithinContract'
    BY <2>1 DEF WithinContract
  <2>3. ReceiptsCount' /\ InTurn'
    BY <1>2, <2>1 DEF ReceiptsCount, InTurn
  <2> QED BY <1>2, <2>1, <2>2, <2>3 DEF SessionTypeOK, StoppedIsRevoked
<1>3. ASSUME NEW success \in BOOLEAN, Outcome(success)
      PROVE  SessionInv'
  <2> DEFINE s == IF success THEN session ELSE Stopped(session)
  <2>1. /\ s \in Session
        /\ s.actions_used = session.actions_used
        /\ s.clock_ticks_used = session.clock_ticks_used
        /\ s.action_usage = session.action_usage
        /\ s.stopped => s.warrant.revoked
        /\ session.stopped => s.stopped
    <3>1. CASE success
      BY <1>0, <3>1 DEF StoppedIsRevoked
    <3>2. CASE ~success
      BY <1>0, <3>2, StopShape
    <3> QED BY <3>1, <3>2
  <2>2. session' = [s EXCEPT !.pending = FALSE]
    BY <1>3 DEF Outcome
  <2> HIDE DEF s
  <2>3. /\ session' \in Session
        /\ session'.actions_used = session.actions_used
        /\ session'.clock_ticks_used = session.clock_ticks_used
        /\ session'.action_usage = session.action_usage
        /\ session'.stopped => session'.warrant.revoked
        /\ session.stopped => session'.stopped
        /\ ~session'.pending
    BY <2>1, <2>2 DEF Session
  <2>4. session.pending
    BY <1>3 DEF Outcome
  <2>5. /\ receipts' \in Seq({"license", "outcome"})
        /\ Len(receipts') = Len(receipts) + 1 /\ InTurn'
    <3>1. receipts' = Append(receipts, "outcome")
      BY <1>3 DEF Outcome
    <3> QED BY <1>0, <2>4, <3>1, AppendInTurn DEF SessionTypeOK
  <2>6. ReceiptsCount'
    BY <1>0, <2>3, <2>4, <2>5 DEF ReceiptsCount, SessionTypeOK
  <2>7. WithinContract'
    BY <2>3 DEF WithinContract
  <2>8. UNCHANGED <<expired, collapsed>>
    BY <1>3 DEF Outcome
  <2> QED BY <2>3, <2>5, <2>6, <2>7, <2>8 DEF SessionTypeOK, StoppedIsRevoked
<1>4. ASSUME Collapse \/ Expire \/ UNCHANGED vars
      PROVE  SessionInv'
  <2>1. session' = session /\ receipts' = receipts
    BY <1>4 DEF Collapse, Expire, vars
  <2>2. expired' \in BOOLEAN /\ collapsed' \in BOOLEAN
        /\ (collapsed' => session.stopped)
    <3>1. expired \in BOOLEAN /\ collapsed \in BOOLEAN
      BY DEF SessionTypeOK
    <3>2. CASE Collapse
      BY <3>1, <3>2, Zenon DEF Collapse
    <3>3. CASE Expire
      BY <3>1, <3>3, Zenon DEF Expire
    <3>4. CASE UNCHANGED vars
      BY <3>1, <3>4, Zenon DEF vars
    <3> QED BY <1>4, <3>2, <3>3, <3>4
  <2> QED
    BY <2>1, <2>2
    DEF SessionTypeOK, WithinContract, StoppedIsRevoked, ReceiptsCount, InTurn
<1>5. ASSUME NEW q \in Requests, Refuse(q)
      PROVE  SessionInv'
  BY <1>2, <1>5 DEF Refuse
<1>6. ASSUME Stop
      PROVE  SessionInv'
  BY <1>2, <1>6 DEF Stop
<1> QED BY <1>1, <1>3, <1>4, <1>5, <1>6 DEF Next

\* SessionInv holds of every session.
THEOREM SessionInvariant == Spec => []SessionInv
BY SessionInvInit, SessionInvNext, PTL DEF Spec

-----------------------------------------------------------------------------
(* What follows from it.                                                   *)

\* The type invariant, and with it: no warrant is ever overdrawn.
THEOREM SessionTypeCorrect == Spec => []SessionTypeOK
<1>1. SessionInv => SessionTypeOK
  BY DEF SessionInv
<1> QED BY <1>1, SessionInvariant, PTL

\* No order of requests, refusals, stops and outcomes licenses more than the
\* contract allows (license_control_action).
THEOREM ContractIsKept == Spec => []WithinContract
<1>1. SessionInv => WithinContract
  BY DEF SessionInv
<1> QED BY <1>1, SessionInvariant, PTL

\* Licenses and outcomes are receipted in turn (post_action_receipt_required).
THEOREM ReceiptsInTurn == Spec => []ReceiptsAlternate
<1>1. SessionInv => ReceiptsAlternate
  <2> SUFFICES ASSUME SessionInv
               PROVE  session.pending <=> Len(receipts) % 2 = 1
    BY DEF SessionInv, InTurn, ReceiptsAlternate
  <2>1. session.actions_used \in Nat /\ session.pending \in BOOLEAN
    BY DEF SessionInv, SessionTypeOK, Session
  <2> QED BY <2>1 DEF SessionInv, ReceiptsCount
<1> QED BY <1>1, SessionInvariant, PTL

\* Back in SHADOW, the session is stopped and licenses nothing any more.
THEOREM CollapseEndsLease == Spec => []CollapsedIsStopped
<1>1. SessionInv => CollapsedIsStopped
  BY DEF SessionInv, CollapsedIsStopped, Licensable
<1> QED BY <1>1, SessionInvariant, PTL

-----------------------------------------------------------------------------
(* Stops are final.                                                        *)

LEMMA StoppedAgain ==
  ASSUME NEW s \in Session, s.warrant.revoked
  PROVE  Stopped(s).warrant = s.warrant
<1>1. s.warrant \in Warrants
  BY DEF Session
<1>2. s.warrant = [spent |-> s.warrant.spent, revoked |-> TRUE]
  BY <1>1 DEF Warrants
<1>3. Revoked(s.warrant) = s.warrant
  BY <1>2 DEF Revoked
<1>4. Stopped(s).warrant = Revoked(s.warrant)
  BY DEF Stopped, Session
<1> QED BY <1>3, <1>4

\* After a stop, the outcome of what was under way, further requests and
\* whatever else comes neither reopen the session nor spend from it.
THEOREM StopsAreFinal == Spec => StopIsFinal
<1> DEFINE Kept == session.stopped =>
                     /\ session'.stopped
                     /\ session'.warrant = session.warrant /\ session.warrant.revoked
                     /\ session'.actions_used = session.actions_used
<1>1. SessionInv /\ [Next]_vars => [Kept]_vars
  <2> SUFFICES ASSUME SessionInv, Next, session.stopped
               PROVE  /\ session'.stopped
                      /\ session'.warrant = session.warrant
                      /\ session.warrant.revoked
                      /\ session'.actions_used = session.actions_used
    OBVIOUS
  <2>1. session \in Session /\ session.warrant.revoked
    BY DEF SessionInv, SessionTypeOK, StoppedIsRevoked
  <2>2. /\ Stopped(session) \in Session
        /\ Stopped(session).stopped
        /\ Stopped(session).warrant = session.warrant
        /\ Stopped(session).actions_used = session.actions_used
    BY <2>1, StopShape, StoppedAgain
  <2>3. ASSUME NEW q \in Requests, License(q) \/ Refuse(q)
        PROVE  session' = Stopped(session)
    BY <2>3 DEF License, Refuse, Licensable
  <2>4. ASSUME NEW success \in BOOLEAN, Outcome(success)
        PROVE  /\ session'.stopped
               /\ session'.warrant = session.warrant
               /\ session'.actions_used = session.actions_used
    <3>1. CASE success
      BY <2>1, <2>4, <3>1 DEF Outcome, Session
    <3>2. CASE ~success
      <4>1. session' = [Stopped(session) EXCEPT !.pending = FALSE]
        BY <2>4, <3>2 DEF Outcome
      <4> QED BY <2>2, <4>1 DEF Session
    <3> QED BY <3>1, <3>2
  <2>5. ASSUME Stop PROVE FALSE
    BY <2>5 DEF Stop
  <2>6. ASSUME Collapse \/ Expire PROVE session' = session
    BY <2>6 DEF Collapse, Expire
  <2> QED BY <2>1, <2>2, <2>3, <2>4, <2>5, <2>6 DEF Next
<1> QED BY <1>1, SessionInvariant, PTL DEF Spec, StopIsFinal

-----------------------------------------------------------------------------
(* The session implements the lease.                                       *)

LEMMA ReceiptsSpent ==
  ASSUME SessionInv
  PROVE  /\ session.actions_used \in Nat /\ Len(receipts) \in Nat
         /\ session.pending =>
              Len(receipts) - session.actions_used = session.actions_used - 1
         /\ ~session.pending =>
              Len(receipts) - session.actions_used = session.actions_used
<1>1. session.actions_used \in Nat /\ Len(receipts) \in Nat
  BY DEF SessionInv, SessionTypeOK, Session
<1> QED BY <1>1 DEF SessionInv, ReceiptsCount

\* Every step of a session charges the lease, performs a charged action or
\* leaves the lease alone.
THEOREM SessionIsLease == Spec => SessionHonoursLease
<1> DEFINE spent == [l \in {"session"} |-> session.actions_used]
           done  == [l \in {"session"} |-> Len(receipts) - session.actions_used]
<1>1. Init => Lease!Init
  <2> SUFFICES ASSUME Init PROVE Lease!Init
    OBVIOUS
  <2>1. session.actions_used = 0 /\ Len(receipts) = 0
    BY DEF Init
  <2> QED BY <2>1 DEF Lease!Init
<1>2. SessionInv /\ [Next]_vars => [Lease!Next]_<<spent, done>>
  <2> SUFFICES ASSUME SessionInv, [Next]_vars
               PROVE  Lease!Next \/ UNCHANGED <<spent, done>>
    OBVIOUS
  <2>0. /\ session \in Session /\ session.actions_used \in Nat
        /\ receipts \in Seq({"license", "outcome"}) /\ Len(receipts) \in Nat
    BY DEF SessionInv, SessionTypeOK, Session
  <2>1. ASSUME NEW q \in Requests, License(q)
        PROVE  Lease!Charge("session")
    <3>1. Licensable(session, q) /\ session' = Charged(session, q)
      BY <2>1 DEF License
    <3>2. /\ session'.actions_used = session.actions_used + 1
          /\ session.actions_used < MaxTotalActions
      <4>1. /\ session'.actions_used = session.actions_used + 1
            /\ session'.actions_used <= MaxTotalActions
        BY <2>0, <3>1, ChargeShape, Zenon
      <4>2. MaxTotalActions \in Nat
        BY ContractAssumption
      <4> QED BY <2>0, <4>1, <4>2
    <3>3. Len(receipts') = Len(receipts) + 1
      BY <2>0, <2>1 DEF License
    <3>4. Len(receipts') - session'.actions_used = Len(receipts) - session.actions_used
      BY <2>0, <3>2, <3>3
    <3> QED BY <3>2, <3>4 DEF Lease!Charge
  <2>2. ASSUME NEW success \in BOOLEAN, Outcome(success)
        PROVE  Lease!Perform("session")
    <3>1. session'.actions_used = session.actions_used
      <4>1. CASE success
        BY <2>0, <2>2, <4>1 DEF Outcome, Session
      <4>2. CASE ~success
        <5>1. session' = [Stopped(session) EXCEPT !.pending = FALSE]
          BY <2>2, <4>2 DEF Outcome
        <5>2. /\ Stopped(session) \in Session
              /\ Stopped(session).actions_used = session.actions_used
          BY <2>0, StopShape
        <5> QED BY <5>1, <5>2 DEF Session
      <4> QED BY <4>1, <4>2
    <3>2. Len(receipts') = Len(receipts) + 1
      BY <2>0, <2>2 DEF Outcome
    <3>3. Len(receipts) - session.actions_used < session.actions_used
      BY <2>0, <2>2, ReceiptsSpent DEF Outcome
    <3>4. Len(receipts') - session'.actions_used
            = (Len(receipts) - session.actions_used) + 1
      BY <2>0, <3>1, <3>2
    <3> QED BY <3>1, <3>3, <3>4 DEF Lease!Perform
  <2>3. ASSUME \/ \E q \in Requests : Refuse(q)
               \/ Stop \/ Collapse \/ Expire \/ UNCHANGED vars
        PROVE  UNCHANGED <<spent, done>>
    <3>1. receipts' = receipts
      BY <2>3 DEF Refuse, Stop, Collapse, Expire, vars
    <3>2. session'.actions_used = session.actions_used
      <4>1. session' = Stopped(session) \/ session' = session
        BY <2>3 DEF Refuse, Stop, Collapse, Expire, vars
      <4> QED BY <2>0, <4>1, StopShape
    <3> QED BY <3>1, <3>2
  <2> QED BY <2>1, <2>2, <2>3 DEF Next, Lease!Next
<1> QED BY <1>1, <1>2, SessionInvariant, PTL DEF Spec, SessionHonoursLease, Lease!Spec
=============================================================================
