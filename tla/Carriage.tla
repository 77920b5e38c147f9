------------------------------ MODULE Carriage ------------------------------
(***************************************************************************)
(* What a licensed transition produced, and who may still use it           *)
(* (carriage.py, contradiction.py, the handoff of clockskin.py).           *)
(* Candidates are immutable, and so are the receipts of their admission;   *)
(* contradictions open and close around them, and a CitationDecision is a  *)
(* value that its holder may present at any later time.                    *)
(***************************************************************************)
EXTENDS Naturals, Sequences, FiniteSets

CONSTANTS
  Claims,             \* claim keys
  Refs,               \* provenance references a candidate may carry
  MaxCarriages, MaxContradictions,  \* bounds on what is made
  MaxReceipts                       \* bound on the receipts kept

ASSUME CarriageAssumption == MaxCarriages \in Nat

VARIABLES
  candidates,      \* every CarriageCandidate, in the order of production
  verified,        \* provenance references the callers have verified
  verdicts,        \* MembraneVerdict receipts
  contradictions,  \* ContradictionObjects as they were opened, in their current
                   \* version: each has an id of its own, its place
  citations,       \* CitationDecisions handed out
  handoffs         \* CrossSkinHandoffReceipts

carriageVars == <<candidates, verified, verdicts, contradictions, citations, handoffs>>

Ids == DOMAIN candidates
Candidate == [claim : Claims, parents : SUBSET (1 .. MaxCarriages),
              provenance : SUBSET Refs, licensed : BOOLEAN]
Verdict == [carriage : 1 .. MaxCarriages,
            decision : {"ADMIT", "QUARANTINE", "REFUSE"}]
Contradiction == [claim : Claims, exhibits : SUBSET (1 .. MaxCarriages),
                  status : {"OPEN", "RESOLVED"}]
Decided == [carriage : 1 .. MaxCarriages, allowed : BOOLEAN]

CarriageInit ==
  /\ candidates = <<>> /\ verified = {} /\ verdicts = {}
  /\ contradictions = <<>> /\ citations = {} /\ handoffs = {}

\* The admitted_parent_carriage_ids callers pass: those with an ADMIT receipt.
Admitted == {v.carriage : v \in {w \in verdicts : w.decision = "ADMIT"}}

\* blocks_claim and blocks_carriage
Open == {contradictions[k] : k \in {j \in DOMAIN contradictions :
                                      contradictions[j].status = "OPEN"}}
BlocksClaim(claim) == \E k \in Open : k.claim = claim
BlocksCarriage(c) == \E k \in Open : c \in k.exhibits

\* _blocking_contradictions: also those of the parents, for an admission.
BlocksAdmission(c) ==
  \/ BlocksClaim(candidates[c].claim)
  \/ \E d \in {c} \union candidates[c].parents : BlocksCarriage(d)

\* CarriageCandidate.create, from a transition that was licensed or not.
Produce(candidate) ==
  /\ Len(candidates) < MaxCarriages
  /\ candidate.parents \subseteq Ids
  /\ candidates' = Append(candidates, candidate)
  /\ UNCHANGED <<verified, verdicts, contradictions, citations, handoffs>>

Verify(r) ==
  /\ verified' = verified \union {r}
  /\ UNCHANGED <<candidates, verdicts, contradictions, citations, handoffs>>

\* Variant of Intact that does not look at the parents.
IntactAlone(c) ==
  candidates[c].provenance \subseteq verified /\ ~BlocksAdmission(c)

Intact(c) ==
  /\ candidates[c].provenance \subseteq verified
  /\ candidates[c].parents \subseteq Admitted
  /\ ~BlocksAdmission(c)

Receipted == Cardinality(verdicts) + Cardinality(citations) + Cardinality(handoffs)

\* evaluate_carriage; `own` tells whether the transition evaluation it is given
\* is the one the candidate came from.  The same candidate may be judged again.
Judge(c, own) ==
  /\ Receipted < MaxReceipts
  /\ verdicts' = verdicts \union
       {[carriage |-> c,
         decision |-> IF ~own \/ ~candidates[c].licensed THEN "REFUSE"
                      ELSE IF Intact(c) THEN "ADMIT" ELSE "QUARANTINE"]}
  /\ UNCHANGED <<candidates, verified, contradictions, citations, handoffs>>

\* ContradictionObject.open: between two carriages at least.
OpenContradiction(claim, exhibits) ==
  /\ Len(contradictions) < MaxContradictions
  /\ Cardinality(exhibits) >= 2
  /\ contradictions' = Append(contradictions,
       [claim |-> claim, exhibits |-> exhibits, status |-> "OPEN"])
  /\ UNCHANGED <<candidates, verified, verdicts, citations, handoffs>>

\* ContradictionObject.resolve: the callers pass its current version on.
Resolve(k) ==
  /\ contradictions[k].status = "OPEN"
  /\ contradictions' = [contradictions EXCEPT ![k].status = "RESOLVED"]
  /\ UNCHANGED <<candidates, verified, verdicts, citations, handoffs>>

\* evaluate_citation looks at the carriage and its claim, not at its parents.
Citable(c, v) ==
  /\ v.carriage = c /\ v.decision = "ADMIT"
  /\ ~BlocksClaim(candidates[c].claim) /\ ~BlocksCarriage(c)

Cite(c, v) ==
  /\ Receipted < MaxReceipts
  /\ citations' = citations \union {[carriage |-> c, allowed |-> Citable(c, v)]}
  /\ UNCHANGED <<candidates, verified, verdicts, contradictions, handoffs>>

\* cross_skin_handoff of carriage c under the citation decision d.
Handoff(c, d) ==
  /\ Receipted < MaxReceipts
  /\ handoffs' = handoffs \union
       {[carriage |-> c, allowed |-> d.carriage = c /\ d.allowed]}
  /\ UNCHANGED <<candidates, verified, verdicts, contradictions, citations>>

CarriageNext ==
  \/ \E claim \in Claims, parents \in SUBSET Ids, refs \in SUBSET Refs, licensed \in BOOLEAN :
       Produce([claim |-> claim, parents |-> parents, provenance |-> refs,
                licensed |-> licensed])
  \/ \E r \in Refs : Verify(r)
  \/ \E c \in Ids, own \in BOOLEAN : Judge(c, own)
  \/ \E claim \in Claims, exhibits \in SUBSET Ids : OpenContradiction(claim, exhibits)
  \/ \E k \in DOMAIN contradictions : Resolve(k)
  \/ \E c \in Ids, v \in verdicts : Cite(c, v)
  \/ \E c \in Ids, d \in citations : Handoff(c, d)

CarriageSpec == CarriageInit /\ [][CarriageNext]_carriageVars

-----------------------------------------------------------------------------
(* Correctness.                                                            *)

\* Every variable has its type; a contradiction is either open or resolved.
CarriageTypeOK ==
  /\ candidates \in Seq(Candidate) /\ verified \subseteq Refs
  /\ verdicts \subseteq Verdict /\ contradictions \in Seq(Contradiction)
  /\ citations \subseteq Decided /\ handoffs \subseteq Decided

Allowed(decisions) == {d.carriage : d \in {e \in decisions : e.allowed}}

\* Whatever may be cited, or was handed to another skin, stems from licensed
\* transitions and verified provenance through all of its ancestors.
LineageIsSound ==
  /\ Allowed(citations) \union Allowed(handoffs) \subseteq Admitted
  /\ \A c \in Admitted : /\ candidates[c].licensed
                         /\ candidates[c].provenance \subseteq verified
                         /\ candidates[c].parents \subseteq Admitted
=============================================================================
