--------------------------- MODULE LibraryProofs ----------------------------
(***************************************************************************)
(* Proofs about the governance libraries, for any number of the values     *)
(* their callers hold and hand in again: carriages and contradictions,     *)
(* premises and the strata they act on, clock skins, coalitions, routes.   *)
(***************************************************************************)
EXTENDS MCLibrary, LeaseProofs, FoldProofs

\* What appending one element does to a sequence.
LEMMA Appended ==
  ASSUME NEW S, NEW s \in Seq(S), NEW e \in S
  PROVE  /\ Append(s, e) \in Seq(S)
         /\ Len(s) \in Nat /\ Len(Append(s, e)) = Len(s) + 1
         /\ DOMAIN s = 1 .. Len(s) /\ DOMAIN Append(s, e) = 1 .. (Len(s) + 1)
         /\ Append(s, e)[Len(s) + 1] = e
         /\ \A i \in 1 .. Len(s) : Append(s, e)[i] = s[i]
  OBVIOUS

-----------------------------------------------------------------------------
(* Carriages.                                                              *)

(* Receipts name carriages that were produced, and a candidate never        *)
(* changes, so what an admission rested on stays what it was.               *)
CarriageInv ==
  /\ CarriageTypeOK
  /\ Len(candidates) <= MaxCarriages
  /\ \A v \in verdicts : v.carriage \in Ids
  /\ LineageIsSound

LEMMA CarriageInvInit == CarriageInit => CarriageInv
  BY CarriageAssumption
  DEF CarriageInit, CarriageInv, CarriageTypeOK, Ids, LineageIsSound, Admitted, Allowed

LEMMA ProduceStep ==
  ASSUME CarriageInv, NEW candidate \in Candidate, Produce(candidate)
  PROVE  CarriageInv'
<1> DEFINE n == Len(candidates)
<1>1. candidates \in Seq(Candidate)
  BY DEF CarriageInv, CarriageTypeOK
<1>2. candidates' = Append(candidates, candidate) /\ n < MaxCarriages
  BY DEF Produce
<1>3. /\ candidates' \in Seq(Candidate) /\ n \in Nat /\ Len(candidates') = n + 1
      /\ DOMAIN candidates = 1 .. n /\ DOMAIN candidates' = 1 .. (n + 1)
      /\ \A i \in 1 .. n : candidates'[i] = candidates[i]
  BY <1>1, <1>2, Appended
<1>4. UNCHANGED <<verified, verdicts, contradictions, citations, handoffs>>
  BY DEF Produce
<1>5. Admitted \subseteq 1 .. n /\ Admitted' = Admitted
  BY <1>3, <1>4 DEF CarriageInv, Admitted, Ids
<1>6. CarriageTypeOK'
  BY <1>3, <1>4 DEF CarriageInv, CarriageTypeOK
<1>7. Len(candidates') <= MaxCarriages
  BY <1>2, <1>3, CarriageAssumption
<1>8. (\A v \in verdicts : v.carriage \in Ids)'
  BY <1>3, <1>4 DEF CarriageInv, Ids
<1>9. LineageIsSound'
  BY <1>3, <1>4, <1>5 DEF CarriageInv, LineageIsSound, Allowed
<1> QED BY <1>6, <1>7, <1>8, <1>9 DEF CarriageInv

LEMMA JudgeStep ==
  ASSUME CarriageInv, NEW c \in Ids, NEW own \in BOOLEAN, Judge(c, own)
  PROVE  CarriageInv'
<1> DEFINE decision == IF ~own \/ ~candidates[c].licensed THEN "REFUSE"
                       ELSE IF Intact(c) THEN "ADMIT" ELSE "QUARANTINE"
           v == [carriage |-> c, decision |-> decision]
<1>1. verdicts' = verdicts \union {v}
  BY DEF Judge
<1>2. v.carriage = c /\ v.decision = decision
  OBVIOUS
<1>3. decision \in {"ADMIT", "QUARANTINE", "REFUSE"}
  OBVIOUS
<1>4. decision = "ADMIT" => candidates[c].licensed /\ Intact(c)
  OBVIOUS
<1>5. c \in 1 .. MaxCarriages
  BY CarriageAssumption DEF CarriageInv, CarriageTypeOK, Ids
<1>6. v \in Verdict
  BY <1>3, <1>5 DEF Verdict
<1> HIDE DEF v, decision
<1>7. UNCHANGED <<candidates, verified, contradictions, citations, handoffs>>
  BY DEF Judge
<1>8. /\ Admitted \subseteq Admitted'
      /\ \A d \in Admitted' : d \in Admitted \/ (d = c /\ decision = "ADMIT")
  BY <1>1, <1>2 DEF Admitted
<1>9. CarriageTypeOK'
  BY <1>1, <1>6, <1>7 DEF CarriageInv, CarriageTypeOK
<1>10. (\A w \in verdicts : w.carriage \in Ids)' /\ Len(candidates') <= MaxCarriages
  BY <1>1, <1>2, <1>7 DEF CarriageInv, Ids
<1>11. LineageIsSound'
  <2>1. (Allowed(citations) \union Allowed(handoffs) \subseteq Admitted)'
    BY <1>7, <1>8 DEF CarriageInv, LineageIsSound, Allowed
  <2>2. ASSUME NEW d \in Admitted'
        PROVE  /\ candidates[d].licensed
               /\ candidates[d].provenance \subseteq verified
               /\ candidates[d].parents \subseteq Admitted'
    <3>1. CASE d \in Admitted
      BY <3>1, <1>8 DEF CarriageInv, LineageIsSound
    <3>2. CASE d = c /\ decision = "ADMIT"
      BY <3>2, <1>4, <1>8 DEF decision, Intact
    <3> QED BY <2>2, <1>8, <3>1, <3>2
  <2> QED BY <1>7, <2>1, <2>2 DEF LineageIsSound
<1> QED BY <1>9, <1>10, <1>11 DEF CarriageInv

\* Verification, contradictions, citations and handoffs admit nothing.
LEMMA ReceiptStep ==
  ASSUME CarriageInv, UNCHANGED <<candidates, verdicts>>,
         verified \subseteq verified', verified' \subseteq Refs,
         contradictions' \in Seq(Contradiction),
         citations' \subseteq Decided, handoffs' \subseteq Decided,
         Allowed(citations') \union Allowed(handoffs') \subseteq Admitted
  PROVE  CarriageInv'
<1>1. Admitted' = Admitted
  BY DEF Admitted
<1>2. CarriageTypeOK'
  BY DEF CarriageInv, CarriageTypeOK
<1>3. LineageIsSound'
  BY <1>1 DEF CarriageInv, LineageIsSound, Allowed
<1> QED BY <1>2, <1>3 DEF CarriageInv, Ids

LEMMA CarriageStep == CarriageInv /\ [CarriageNext]_carriageVars => CarriageInv'
<1> SUFFICES ASSUME CarriageInv, [CarriageNext]_carriageVars PROVE CarriageInv'
  OBVIOUS
<1>0. /\ candidates \in Seq(Candidate) /\ contradictions \in Seq(Contradiction)
      /\ verified \subseteq Refs /\ citations \subseteq Decided /\ handoffs \subseteq Decided
      /\ Allowed(citations) \subseteq Admitted /\ Allowed(handoffs) \subseteq Admitted
      /\ Ids \subseteq 1 .. MaxCarriages
  BY CarriageAssumption DEF CarriageInv, CarriageTypeOK, LineageIsSound, Ids
<1>1. ASSUME NEW claim \in Claims, NEW parents \in SUBSET Ids, NEW refs \in SUBSET Refs,
             NEW licensed \in BOOLEAN,
             Produce([claim |-> claim, parents |-> parents, provenance |-> refs,
                      licensed |-> licensed])
      PROVE  CarriageInv'
  <2>1. [claim |-> claim, parents |-> parents, provenance |-> refs,
         licensed |-> licensed] \in Candidate
    BY <1>0 DEF Candidate
  <2> QED BY <1>1, <2>1, ProduceStep
<1>2. ASSUME NEW r \in Refs, Verify(r) PROVE CarriageInv'
  <2>1. /\ verified' = verified \union {r}
        /\ UNCHANGED <<candidates, verdicts, contradictions, citations, handoffs>>
    BY <1>2 DEF Verify
  <2> QED BY <1>0, <2>1, ReceiptStep
<1>3. ASSUME NEW c \in Ids, NEW own \in BOOLEAN, Judge(c, own) PROVE CarriageInv'
  BY <1>3, JudgeStep
<1>4. ASSUME NEW claim \in Claims, NEW exhibits \in SUBSET Ids,
             OpenContradiction(claim, exhibits)
      PROVE  CarriageInv'
  <2>1. [claim |-> claim, exhibits |-> exhibits, status |-> "OPEN"] \in Contradiction
    BY <1>0 DEF Contradiction
  <2>2. /\ contradictions' = Append(contradictions,
             [claim |-> claim, exhibits |-> exhibits, status |-> "OPEN"])
        /\ UNCHANGED <<candidates, verified, verdicts, citations, handoffs>>
    BY <1>4 DEF OpenContradiction
  <2>3. contradictions' \in Seq(Contradiction)
    BY <1>0, <2>1, <2>2, Appended
  <2> QED BY <1>0, <2>2, <2>3, ReceiptStep
<1>5. ASSUME NEW k \in DOMAIN contradictions, Resolve(k) PROVE CarriageInv'
  <2>1. /\ contradictions' = [contradictions EXCEPT ![k].status = "RESOLVED"]
        /\ UNCHANGED <<candidates, verified, verdicts, citations, handoffs>>
    BY <1>5 DEF Resolve
  <2>2. contradictions[k] \in Contradiction
    BY <1>0
  <2>3. [contradictions[k] EXCEPT !.status = "RESOLVED"] \in Contradiction
    BY <2>2 DEF Contradiction
  <2>4. contradictions' \in Seq(Contradiction)
    BY <1>0, <2>1, <2>3
  <2> QED BY <1>0, <2>1, <2>4, ReceiptStep
<1>6. ASSUME NEW c \in Ids, NEW v \in verdicts, Cite(c, v) PROVE CarriageInv'
  <2> DEFINE d == [carriage |-> c, allowed |-> Citable(c, v)]
  <2>1. /\ citations' = citations \union {d}
        /\ UNCHANGED <<candidates, verified, verdicts, contradictions, handoffs>>
    BY <1>6 DEF Cite
  <2>2. Citable(c, v) \in BOOLEAN /\ (Citable(c, v) => c \in Admitted)
    BY DEF Citable, Admitted
  <2>3. d \in Decided /\ d.carriage = c /\ (d.allowed => c \in Admitted)
    BY <1>0, <2>2 DEF Decided
  <2> HIDE DEF d
  <2>4. citations' \subseteq Decided /\ Allowed(citations') \subseteq Admitted
    BY <1>0, <2>1, <2>3 DEF Allowed
  <2> QED BY <1>0, <2>1, <2>4, ReceiptStep
<1>7. ASSUME NEW c \in Ids, NEW e \in citations, Handoff(c, e) PROVE CarriageInv'
  <2> DEFINE d == [carriage |-> c, allowed |-> e.carriage = c /\ e.allowed]
  <2>1. /\ handoffs' = handoffs \union {d}
        /\ UNCHANGED <<candidates, verified, verdicts, contradictions, citations>>
    BY <1>7 DEF Handoff
  <2>2. e \in Decided
    BY <1>0
  <2>3. e.allowed \in BOOLEAN /\ (e.carriage = c /\ e.allowed => c \in Admitted)
    BY <1>0, <2>2 DEF Decided, Allowed
  <2>4. d \in Decided /\ d.carriage = c /\ (d.allowed => c \in Admitted)
    BY <1>0, <2>3 DEF Decided
  <2> HIDE DEF d
  <2>5. handoffs' \subseteq Decided /\ Allowed(handoffs') \subseteq Admitted
    BY <1>0, <2>1, <2>4 DEF Allowed
  <2> QED BY <1>0, <2>1, <2>5, ReceiptStep
<1>8. CASE UNCHANGED carriageVars
  BY <1>8, <1>0, ReceiptStep DEF carriageVars
<1> QED BY <1>1, <1>2, <1>3, <1>4, <1>5, <1>6, <1>7, <1>8 DEF CarriageNext

\* Whatever may be cited or was handed over was admitted, and so were all of its
\* ancestors: for any number of candidates, verdicts and contradictions, judged
\* again and cited at any later time.
THEOREM LineageStaysSound == CarriageSpec => []LineageIsSound
<1>1. CarriageInv => LineageIsSound
  BY DEF CarriageInv
<1> QED BY <1>1, CarriageInvInit, CarriageStep, PTL DEF CarriageSpec

-----------------------------------------------------------------------------
(* Coalitions.                                                             *)

Limits == [i \in DOMAIN children |-> children[i].limit]
Spendings == [i \in DOMAIN children |-> children[i].spent]

(* No child uses more than it was lent, and what was lent and used by the   *)
(* sponsor itself is what the sponsor has spent; the rest is addition.      *)
CoalitionInv ==
  /\ CoalitionTypeOK
  /\ \A i \in DOMAIN children :
       /\ children[i].spent <= children[i].limit
       /\ children[i].expires_at = ChildExpiry(children[i].coalition)
  /\ SumFunction(Limits) + sponsor.own = sponsor.spent

LEMMA ChildrenFacts ==
  ASSUME CoalitionTypeOK
  PROVE  /\ DOMAIN children = 1 .. Len(children) /\ Len(children) \in Nat
         /\ IsFiniteSet(DOMAIN children)
         /\ Limits \in [DOMAIN children -> Nat] /\ Spendings \in [DOMAIN children -> Nat]
         /\ \A i \in DOMAIN children : children[i] \in Child
<1>1. children \in Seq(Child)
  BY DEF CoalitionTypeOK
<1>2. \A i \in DOMAIN children : children[i] \in Child
  BY <1>1
<1>3. DOMAIN children = 1 .. Len(children) /\ Len(children) \in Nat
  BY <1>1
<1>4. IsFiniteSet(DOMAIN children)
  BY <1>3, FS_Interval
<1>5. Limits \in [DOMAIN children -> Nat] /\ Spendings \in [DOMAIN children -> Nat]
  BY <1>2 DEF Limits, Spendings, Child
<1> QED BY <1>2, <1>3, <1>4, <1>5

LEMMA CoalitionInvInit == CoalitionInit => CoalitionInv
<1> SUFFICES ASSUME CoalitionInit PROVE CoalitionInv
  OBVIOUS
<1>1. CoalitionTypeOK
  BY CoalitionAssumption DEF CoalitionInit, CoalitionTypeOK, Charter, Active
<1>2. Limits \in [{} -> Nat]
  BY DEF CoalitionInit, Limits
<1>3. SumFunction(Limits) = 0
  BY <1>2, SumEmpty
<1> QED BY <1>1, <1>3 DEF CoalitionInit, CoalitionInv

\* Charters come and go without touching what was lent.
LEMMA CharterStep ==
  ASSUME CoalitionInv, NEW c \in Coalitions, NEW charter \in Charter,
         charters' = [charters EXCEPT ![c] = charter],
         UNCHANGED <<time, sponsor, children>>
  PROVE  CoalitionInv'
<1>1. CoalitionTypeOK'
  BY DEF CoalitionInv, CoalitionTypeOK
<1>2. Limits' = Limits
  BY DEF Limits
<1> QED BY <1>1, <1>2 DEF CoalitionInv, ChildExpiry

\* A child that keeps its limit leaves the sum of the limits alone.
LEMMA ChildStep ==
  ASSUME CoalitionInv, NEW i \in DOMAIN children, NEW child \in Child,
         child.limit = children[i].limit, child.spent <= child.limit,
         child.expires_at = children[i].expires_at,
         child.coalition = children[i].coalition,
         children' = [children EXCEPT ![i] = child],
         charters' \in [Coalitions -> Charter], UNCHANGED <<time, sponsor>>
  PROVE  CoalitionInv'
<1>1. children \in Seq(Child)
  BY DEF CoalitionInv, CoalitionTypeOK
<1>2. children' \in Seq(Child) /\ DOMAIN children' = DOMAIN children
  BY <1>1
<1>3. children'[i] = child /\ \A j \in DOMAIN children : j # i => children'[j] = children[j]
  BY <1>1
<1>4. CoalitionTypeOK'
  BY <1>2 DEF CoalitionInv, CoalitionTypeOK
<1>5. Limits' = Limits
  BY <1>2, <1>3 DEF Limits
<1>6. (\A j \in DOMAIN children :
        /\ children[j].spent <= children[j].limit
        /\ children[j].expires_at = ChildExpiry(children[j].coalition))'
  BY <1>2, <1>3 DEF CoalitionInv, ChildExpiry
<1> QED BY <1>4, <1>5, <1>6 DEF CoalitionInv

LEMMA IssueStep ==
  ASSUME CoalitionInv, NEW c \in Coalitions, NEW limit \in Nat,
         IssueCoalitionWarrant(c, limit)
  PROVE  CoalitionInv'
<1> DEFINE child == [coalition |-> c, limit |-> limit, spent |-> 0,
                     expires_at |-> ChildExpiry(c), revoked |-> FALSE]
           n == Len(children)
<1>1. /\ children' = Append(children, child) /\ limit <= SponsorLimit - sponsor.spent
      /\ sponsor' = [sponsor EXCEPT !.spent = @ + limit] /\ UNCHANGED <<time, charters>>
  BY DEF IssueCoalitionWarrant, Reserve
<1>2. /\ child.limit = limit /\ child.spent = 0 /\ child.coalition = c
      /\ child.expires_at = ChildExpiry(c)
  OBVIOUS
<1>3. ChildExpiry(c) \in Nat
  BY CoalitionAssumption DEF ChildExpiry
<1>4. child \in Child
  BY <1>3 DEF Child
<1> HIDE DEF child
<1>5. /\ children' \in Seq(Child) /\ DOMAIN children' = 1 .. (n + 1)
      /\ children'[n + 1] = child /\ \A i \in 1 .. n : children'[i] = children[i]
  BY <1>1, <1>4, Appended DEF CoalitionInv, CoalitionTypeOK
<1>6. /\ DOMAIN children = 1 .. n /\ n \in Nat /\ IsFiniteSet(1 .. n)
      /\ Limits \in [1 .. n -> Nat]
  BY ChildrenFacts DEF CoalitionInv
<1>7. Limits' = [i \in 1 .. (n + 1) |-> children'[i].limit]
  BY <1>5 DEF Limits
<1>8. /\ Limits' \in [1 .. n \cup {n + 1} -> Nat] /\ Limits'[n + 1] = limit
      /\ \A i \in 1 .. n : Limits'[i] = Limits[i]
  <2>1. 1 .. (n + 1) = 1 .. n \cup {n + 1}
    BY <1>6
  <2>2. \A i \in 1 .. n : Limits'[i] = Limits[i]
    BY <1>5, <1>6, <1>7 DEF Limits
  <2>3. Limits'[n + 1] = limit
    BY <1>2, <1>5, <1>6, <1>7
  <2>4. \A i \in 1 .. (n + 1) : Limits'[i] \in Nat
    BY <1>6, <2>1, <2>2, <2>3
  <2> QED BY <1>7, <2>1, <2>2, <2>3, <2>4
<1>9. SumFunction(Limits') = limit + SumFunction(Limits)
  <2>1. n + 1 \notin 1 .. n
    BY <1>6
  <2>2. Extends(Limits', Limits, 1 .. n, n + 1)
    BY <1>6, <1>8, <2>1 DEF Extends
  <2> QED BY <1>6, <1>8, <2>2, SumExtend
<1>10. /\ sponsor \in [spent : 0 .. SponsorLimit, own : Nat, revoked : BOOLEAN]
       /\ SumFunction(Limits) \in Nat
  BY <1>6, SumType DEF CoalitionInv, CoalitionTypeOK
<1>11. /\ sponsor' \in [spent : 0 .. SponsorLimit, own : Nat, revoked : BOOLEAN]
       /\ sponsor'.spent = sponsor.spent + limit /\ sponsor'.own = sponsor.own
  <2>1. sponsor.spent + limit \in 0 .. SponsorLimit
    BY <1>1, <1>10, CoalitionAssumption
  <2> QED BY <1>1, <1>10, <2>1
<1>12. CoalitionTypeOK'
  BY <1>1, <1>5, <1>11 DEF CoalitionInv, CoalitionTypeOK
<1>13. (\A j \in DOMAIN children :
         /\ children[j].spent <= children[j].limit
         /\ children[j].expires_at = ChildExpiry(children[j].coalition))'
  <2> SUFFICES ASSUME NEW j \in 1 .. (n + 1)
               PROVE  /\ children'[j].spent <= children'[j].limit
                      /\ children'[j].expires_at = ChildExpiry(children'[j].coalition)
    BY <1>5 DEF ChildExpiry
  <2>1. CASE j \in 1 .. n
    BY <2>1, <1>5, <1>6 DEF CoalitionInv
  <2>2. CASE j = n + 1
    BY <2>2, <1>2, <1>5
  <2> QED BY <2>1, <2>2, <1>6
<1>14. SumFunction(Limits') + sponsor'.own = sponsor'.spent
  <2>1. SumFunction(Limits) + sponsor.own = sponsor.spent
    BY DEF CoalitionInv
  <2>2. sponsor.own \in Nat /\ sponsor.spent \in Nat
    BY <1>10
  <2> QED BY <1>9, <1>10, <1>11, <2>1, <2>2
<1> QED BY <1>12, <1>13, <1>14 DEF CoalitionInv

LEMMA CoalitionStep == CoalitionInv /\ [CoalitionNext]_coalitionVars => CoalitionInv'
<1> SUFFICES ASSUME CoalitionInv, [CoalitionNext]_coalitionVars PROVE CoalitionInv'
  OBVIOUS
<1>0. /\ time \in 0 .. MaxTime /\ charters \in [Coalitions -> Charter]
      /\ sponsor \in [spent : 0 .. SponsorLimit, own : Nat, revoked : BOOLEAN]
      /\ children \in Seq(Child)
  BY DEF CoalitionInv, CoalitionTypeOK
<1>1. ASSUME NEW c \in Coalitions, NEW members \in SUBSET Members, Activate(c, members)
      PROVE  CoalitionInv'
  <2>1. [state |-> "ACTIVE", active |-> members] \in Charter
    BY <1>1 DEF Activate, Charter, Active
  <2> QED BY <1>1, <2>1, CharterStep DEF Activate
<1>2. ASSUME NEW c \in Coalitions, NEW members \in SUBSET Members, Degrade(c, members)
      PROVE  CoalitionInv'
  <2>1. charters[c].active \in SUBSET Members
    BY <1>0 DEF Charter
  <2>2. [state |-> "DEGRADED", active |-> charters[c].active \ members] \in Charter
    BY <1>2, <2>1 DEF Degrade, Charter, Active
  <2>3. charters' = [charters EXCEPT ![c] =
                       [state |-> "DEGRADED", active |-> charters[c].active \ members]]
    BY <1>0, <1>2 DEF Degrade
  <2> QED BY <1>2, <2>2, <2>3, CharterStep DEF Degrade
<1>3. ASSUME NEW c \in Coalitions, NEW limit \in 0 .. SponsorLimit,
             IssueCoalitionWarrant(c, limit)
      PROVE  CoalitionInv'
  <2>1. limit \in Nat
    OBVIOUS
  <2> QED BY <1>3, <2>1, IssueStep
<1>4. ASSUME NEW c \in Coalitions, NEW i \in DOMAIN children, Disband(c, i)
      PROVE  CoalitionInv'
  <2> DEFINE child == [children[i] EXCEPT !.revoked = TRUE]
  <2>1. children[i] \in Child /\ children[i].spent <= children[i].limit
    BY <1>0 DEF CoalitionInv
  <2>2. /\ child \in Child /\ child.limit = children[i].limit
        /\ child.spent = children[i].spent /\ child.coalition = children[i].coalition
        /\ child.expires_at = children[i].expires_at
    BY <2>1 DEF Child
  <2>3. children' = [children EXCEPT ![i] = child]
    BY <1>0, <1>4 DEF Disband
  <2> HIDE DEF child
  <2>4. [state |-> "DISSOLVED", active |-> {}] \in Charter
    BY DEF Charter, Active
  <2>5. charters' \in [Coalitions -> Charter] /\ UNCHANGED <<time, sponsor>>
    BY <1>0, <1>4, <2>4 DEF Disband
  <2> QED BY <2>1, <2>2, <2>3, <2>5, ChildStep
<1>5. ASSUME NEW i \in DOMAIN children, NEW amount \in 1 .. SponsorLimit,
             SpendChild(i, amount)
      PROVE  CoalitionInv'
  <2> DEFINE child == [children[i] EXCEPT !.spent = @ + amount]
  <2>0. children[i] \in Child
    BY <1>0
  <2>1. children[i] \in Child /\ children[i].limit \in Nat /\ children[i].spent \in Nat
    BY <2>0 DEF Child
  <2>2. children[i].spent + amount \in Nat /\ children[i].spent + amount <= children[i].limit
    BY <1>5, <2>1 DEF SpendChild
  <2>3. /\ child \in Child /\ child.limit = children[i].limit
        /\ child.spent = children[i].spent + amount
        /\ child.coalition = children[i].coalition
        /\ child.expires_at = children[i].expires_at
    BY <2>1, <2>2 DEF Child
  <2>4. /\ children' = [children EXCEPT ![i] = child]
        /\ charters' \in [Coalitions -> Charter] /\ UNCHANGED <<time, sponsor>>
    BY <1>0, <1>5 DEF SpendChild
  <2> HIDE DEF child
  <2>5. child.spent <= child.limit
    BY <2>2, <2>3
  <2> QED BY <2>3, <2>4, <2>5, ChildStep
<1>6. ASSUME NEW amount \in 1 .. SponsorLimit, SpendSponsor(amount)
      PROVE  CoalitionInv'
  <2>1. /\ sponsor.spent \in 0 .. SponsorLimit /\ sponsor.own \in Nat
        /\ amount <= SponsorLimit - sponsor.spent /\ SponsorLimit \in Nat
    BY <1>0, <1>6, CoalitionAssumption DEF SpendSponsor
  <2>2. sponsor.spent + amount \in 0 .. SponsorLimit /\ sponsor.own + amount \in Nat
    BY <2>1
  <2>3. /\ sponsor' = [sponsor EXCEPT !.spent = sponsor.spent + amount,
                                      !.own = sponsor.own + amount]
        /\ UNCHANGED <<time, charters, children>>
    BY <1>0, <1>6 DEF SpendSponsor
  <2>4. /\ sponsor' \in [spent : 0 .. SponsorLimit, own : Nat, revoked : BOOLEAN]
        /\ sponsor'.spent = sponsor.spent + amount /\ sponsor'.own = sponsor.own + amount
    BY <1>0, <2>2, <2>3
  <2>5. Limits' = Limits /\ SumFunction(Limits) \in Nat
    BY <2>3, ChildrenFacts, SumType DEF CoalitionInv, Limits
  <2>6. SumFunction(Limits') + sponsor'.own = sponsor'.spent
    <3>1. SumFunction(Limits) + sponsor.own = sponsor.spent
      BY DEF CoalitionInv
    <3>2. \A a, b, d, e \in Nat : a + b = d => a + (b + e) = d + e
      OBVIOUS
    <3>3. SumFunction(Limits) + (sponsor.own + amount) = sponsor.spent + amount
      BY <2>1, <2>5, <3>1, <3>2
    <3> QED BY <2>4, <2>5, <3>3
  <2>7. CoalitionTypeOK'
    BY <2>3, <2>4 DEF CoalitionInv, CoalitionTypeOK
  <2> QED BY <2>3, <2>6, <2>7 DEF CoalitionInv, ChildExpiry
<1>7. CASE RevokeSponsor
  <2>1. /\ sponsor' \in [spent : 0 .. SponsorLimit, own : Nat, revoked : BOOLEAN]
        /\ sponsor'.spent = sponsor.spent /\ sponsor'.own = sponsor.own
        /\ UNCHANGED <<time, charters, children>>
    BY <1>0, <1>7 DEF RevokeSponsor
  <2>2. Limits' = Limits
    BY <2>1 DEF Limits
  <2> QED BY <2>1, <2>2 DEF CoalitionInv, CoalitionTypeOK, ChildExpiry
<1>8. CASE Tick
  <2>1. time' \in 0 .. MaxTime /\ UNCHANGED <<charters, sponsor, children>>
    BY <1>0, <1>8, CoalitionAssumption DEF Tick
  <2>2. Limits' = Limits
    BY <2>1 DEF Limits
  <2> QED BY <2>1, <2>2 DEF CoalitionInv, CoalitionTypeOK, ChildExpiry
<1>9. CASE UNCHANGED coalitionVars
  BY <1>9 DEF coalitionVars, CoalitionInv, CoalitionTypeOK, ChildExpiry, Limits
<1> QED BY <1>1, <1>2, <1>3, <1>4, <1>5, <1>6, <1>7, <1>8, <1>9 DEF CoalitionNext

\* However many coalitions draw on a sponsor, and however often: together with
\* the sponsor itself they never use more than its warrant grants, and what it
\* has spent is what it lent and used.
THEOREM BudgetStaysConserved == CoalitionSpec => []BudgetIsConserved
<1>1. CoalitionInv => BudgetIsConserved
  <2> SUFFICES ASSUME CoalitionInv PROVE BudgetIsConserved
    OBVIOUS
  <2>1. /\ IsFiniteSet(DOMAIN children)
        /\ Limits \in [DOMAIN children -> Nat] /\ Spendings \in [DOMAIN children -> Nat]
    BY ChildrenFacts DEF CoalitionInv
  <2>2. \A i \in DOMAIN children : Spendings[i] <= Limits[i]
    BY DEF CoalitionInv, Spendings, Limits
  <2>3. SumFunction(Spendings) <= SumFunction(Limits)
    BY <2>1, <2>2, SumWithin
  <2>4. SumFunction(Spendings) \in Nat /\ SumFunction(Limits) \in Nat
    BY <2>1, SumType
  <2>5. /\ SumFunction(Limits) + sponsor.own = sponsor.spent
        /\ sponsor.own \in Nat /\ sponsor.spent \in 0 .. SponsorLimit
    BY DEF CoalitionInv, CoalitionTypeOK
  <2>6. SumFunction(Spendings) + sponsor.own <= SponsorLimit
    BY <2>3, <2>4, <2>5, CoalitionAssumption
  <2> QED BY <2>5, <2>6 DEF BudgetIsConserved, LentOut, UsedUp, Limits, Spendings
<1> QED BY <1>1, CoalitionInvInit, CoalitionStep, PTL DEF CoalitionSpec

\* No child warrant is spent from once its charter or its sponsor's warrant has
\* run out, whatever became of the coalition meanwhile.
THEOREM SpendingStaysAlive == CoalitionSpec => SpendingIsAlive
<1> DEFINE Alive ==
      \A i \in DOMAIN children :
        children'[i].spent # children[i].spent =>
          time < CharterExpiry[children[i].coalition] /\ time < SponsorExpiry
<1>1. CoalitionInv /\ [CoalitionNext]_coalitionVars => [Alive]_coalitionVars
  <2> SUFFICES ASSUME CoalitionInv, CoalitionNext,
                      NEW i \in DOMAIN children, children'[i].spent # children[i].spent
               PROVE  time < CharterExpiry[children[i].coalition] /\ time < SponsorExpiry
    OBVIOUS
  <2>1. children \in Seq(Child) /\ children[i] \in Child /\ time \in Nat
    BY DEF CoalitionInv, CoalitionTypeOK
  <2>2. children' # children
    OBVIOUS
  <2>3. PICK j \in DOMAIN children, amount \in 1 .. SponsorLimit : SpendChild(j, amount)
    <3>1. ASSUME NEW c \in Coalitions, NEW j \in DOMAIN children, Disband(c, j)
          PROVE  FALSE
      <4>1. children[j] \in Child /\ children' = [children EXCEPT ![j].revoked = TRUE]
        BY <2>1, <3>1 DEF Disband
      <4> QED BY <2>1, <4>1 DEF Child
    <3>2. ASSUME NEW c \in Coalitions, NEW limit, IssueCoalitionWarrant(c, limit)
          PROVE  FALSE
      <4>1. PICK e : children' = Append(children, e)
        BY <3>2 DEF IssueCoalitionWarrant
      <4> QED BY <2>1, <4>1
    <3> QED BY <2>2, <3>1, <3>2 DEF CoalitionNext, Activate, Degrade, SpendSponsor,
                                    RevokeSponsor, Tick
  <2>4. j = i
    BY <2>1, <2>3 DEF SpendChild
  <2>5. time < children[i].expires_at
    BY <2>3, <2>4 DEF SpendChild
  <2>6. children[i].expires_at = ChildExpiry(children[i].coalition)
    BY DEF CoalitionInv
  <2>7. children[i].coalition \in Coalitions
    BY <2>1 DEF Child
  <2>8. CharterExpiry[children[i].coalition] \in Nat /\ SponsorExpiry \in Nat
    BY <2>7, CoalitionAssumption
  <2> QED BY <2>1, <2>5, <2>6, <2>8 DEF ChildExpiry
<1> QED BY <1>1, CoalitionInvInit, CoalitionStep, PTL DEF CoalitionSpec, SpendingIsAlive

-----------------------------------------------------------------------------
(* Clock skins.                                                            *)

TickValues(s) == [i \in DOMAIN advances[s] |-> advances[s][i].ticks]
BoughtValues(s) ==
  [i \in DOMAIN advances[s] |-> IF advances[s][i].bought THEN advances[s][i].ticks ELSE 0]
BoughtTicks == [s \in Skins |-> Bought(s)]

ClockTypeOK ==
  /\ leases \in [Skins -> ClockLease]
  /\ advances \in [Skins -> Seq(Receipt)]
  /\ warrant \in [spent : 0 .. WarrantLimit, revoked : BOOLEAN]

(* The accounts of a lease and of the warrant are the properties            *)
(* themselves; they are inductive once every receipt has its type.          *)
ClockInv == ClockTypeOK /\ LocalTimeIsEarned /\ WarrantPaysForTicks

LEMMA WaitingAdds ==
  ASSUME NEW r \in Nat, NEW from \in Nat, NEW to \in Nat, from <= to
  PROVE  /\ (to - from) * r \in Nat /\ (to - from) * r + from * r = to * r
         /\ from * r <= to * r
<1>1. PICK d \in Nat : to = from + d
  <2>1. to - from \in Nat /\ to = from + (to - from)
    OBVIOUS
  <2> QED BY <2>1
<1>2. to - from = d /\ (from + d) * r = from * r + d * r
  BY <1>1
<1>3. d * r \in Nat /\ from * r \in Nat
  OBVIOUS
<1>4. (to - from) * r = d * r /\ to * r = from * r + d * r
  BY <1>1, <1>2
<1> QED BY <1>3, <1>4

LEMMA ReceiptFacts ==
  ASSUME ClockTypeOK, NEW s \in Skins
  PROVE  /\ DOMAIN advances[s] = 1 .. Len(advances[s]) /\ Len(advances[s]) \in Nat
         /\ IsFiniteSet(DOMAIN advances[s])
         /\ TickValues(s) \in [DOMAIN advances[s] -> Nat]
         /\ BoughtValues(s) \in [DOMAIN advances[s] -> Nat]
         /\ Ticks(s) = SumFunction(TickValues(s)) /\ Ticks(s) \in Nat
         /\ Bought(s) = SumFunction(BoughtValues(s)) /\ Bought(s) \in Nat
<1>1. advances[s] \in Seq(Receipt)
  BY DEF ClockTypeOK
<1>2. DOMAIN advances[s] = 1 .. Len(advances[s]) /\ Len(advances[s]) \in Nat
  BY <1>1
<1>3. \A i \in DOMAIN advances[s] : advances[s][i].ticks \in Nat
  <2>1. \A i \in 1 .. Len(advances[s]) : advances[s][i] \in Receipt
    BY <1>1
  <2>2. \A x \in Receipt : x.ticks \in Nat
    BY DEF Receipt
  <2> QED BY <1>2, <2>1, <2>2
<1>4. IsFiniteSet(DOMAIN advances[s])
  BY <1>2, FS_Interval
<1>5. /\ TickValues(s) \in [DOMAIN advances[s] -> Nat]
      /\ BoughtValues(s) \in [DOMAIN advances[s] -> Nat]
  BY <1>3 DEF TickValues, BoughtValues
<1>6. Ticks(s) = SumFunction(TickValues(s)) /\ Bought(s) = SumFunction(BoughtValues(s))
  BY DEF Ticks, Bought, TickValues, BoughtValues
<1> QED BY <1>2, <1>4, <1>5, <1>6, SumType

LEMMA BoughtTicksFacts ==
  ASSUME ClockTypeOK
  PROVE  /\ BoughtTicks \in [Skins -> Nat] /\ SumFunction(BoughtTicks) \in Nat
<1>1. BoughtTicks \in [Skins -> Nat]
  BY ReceiptFacts DEF BoughtTicks
<1> QED BY <1>1, SumType, ClockAssumption

LEMMA ClockInvInit == ClockInit => ClockInv
<1> SUFFICES ASSUME ClockInit PROVE ClockInv
  OBVIOUS
<1>1. ClockTypeOK
  <2>1. [spent_ticks |-> 0, last_wall_time |-> 0, closed |-> FALSE] \in ClockLease
    BY ClockAssumption DEF ClockLease
  <2>2. [spent |-> 0, revoked |-> FALSE] \in [spent : 0 .. WarrantLimit, revoked : BOOLEAN]
    BY ClockAssumption
  <2> QED BY <2>1, <2>2 DEF ClockInit, ClockTypeOK
<1>2. ASSUME NEW s \in Skins
      PROVE  Ticks(s) = 0 /\ Bought(s) = 0
  <2>1. DOMAIN advances[s] = {}
    BY DEF ClockInit
  <2>2. TickValues(s) \in [{} -> Nat] /\ BoughtValues(s) \in [{} -> Nat]
    BY <2>1 DEF TickValues, BoughtValues
  <2> QED BY <2>2, <1>1, SumEmpty, ReceiptFacts
<1>3. LocalTimeIsEarned
  BY <1>1, <1>2, ClockAssumption DEF ClockInit, LocalTimeIsEarned, ClockTypeOK
<1>4. SumFunction(BoughtTicks) = 0
  <2> DEFINE zero == [s \in Skins |-> 0]
  <2>1. BoughtTicks \in [Skins -> Nat] /\ \A s \in Skins : BoughtTicks[s] <= 0
    BY <1>2 DEF BoughtTicks
  <2> DEFINE Good == {D \in SUBSET Skins : SumFunction([s \in D |-> 0]) = 0}
  <2>2. {} \in Good
    <3>1. [s \in {} |-> 0] \in [{} -> Nat]
      OBVIOUS
    <3> QED BY <3>1, SumEmpty
  <2>3. ASSUME NEW D \in SUBSET Skins, D # {}, \A x \in D : D \ {x} \in Good
        PROVE  D \in Good
    <3>1. PICK x : x \in D
      BY <2>3
    <3> DEFINE f == [s \in D \ {x} |-> 0]
               g == [s \in D |-> 0]
    <3>2. D = (D \ {x}) \cup {x}
      BY <3>1
    <3>3. Extends(g, f, D \ {x}, x) /\ g[x] = 0
      BY <3>1, <3>2 DEF Extends
    <3>4. SumFunction(f) = 0
      BY <2>3, <3>1
    <3>5. IsFiniteSet(D \ {x})
      BY ClockAssumption, FS_Subset
    <3> HIDE DEF f, g
    <3>6. SumFunction(g) = 0
      BY <3>3, <3>4, <3>5, SumExtend
    <3> QED BY <3>6 DEF g
  <2> HIDE DEF Good
  <2>4. \A D \in SUBSET Skins : D \in Good
    BY <2>2, <2>3, ClockAssumption, SubsetInduction
  <2>5. BoughtTicks = [s \in Skins |-> 0]
    BY <1>2 DEF BoughtTicks
  <2> QED BY <2>4, <2>5 DEF Good
<1>5. WarrantPaysForTicks
  <2>1. CostPerTick * SumFunction(BoughtTicks) = 0
    BY <1>4, ClockAssumption
  <2>2. warrant.spent = 0 /\ 0 <= WarrantLimit
    BY ClockAssumption DEF ClockInit
  <2> QED BY <2>1, <2>2 DEF WarrantPaysForTicks, BoughtTicks
<1> QED BY <1>1, <1>3, <1>5 DEF ClockInv

\* What an advance does to the accounts, whoever asked for it.
LEMMA AdvanceAccounts ==
  ASSUME ClockTypeOK, NEW s \in Skins, NEW ticks \in Nat, NEW at \in 0 .. MaxWallTime,
         NEW signal \in BOOLEAN, NEW bought \in BOOLEAN,
         Advance(s, ticks, at, signal, bought)
  PROVE  /\ leases' \in [Skins -> ClockLease] /\ advances' \in [Skins -> Seq(Receipt)]
         /\ \A t \in Skins \ {s} : leases'[t] = leases[t] /\ advances'[t] = advances[t]
         /\ leases'[s].spent_ticks = leases[s].spent_ticks + ticks
         /\ leases'[s].last_wall_time = at
         /\ leases[s].last_wall_time <= at /\ leases[s].last_wall_time \in Nat
         /\ leases[s].spent_ticks \in Nat
         /\ Ticks(s)' = Ticks(s) + ticks
         /\ Bought(s)' = Bought(s) + (IF bought THEN ticks ELSE 0)
         /\ \A t \in Skins \ {s} : Ticks(t)' = Ticks(t) /\ Bought(t)' = Bought(t)
         /\ \A i \in DOMAIN advances'[s] :
              \/ advances'[s][i].signal = signal
              \/ i \in DOMAIN advances[s] /\ advances'[s][i] = advances[s][i]
<1> DEFINE r == [ticks |-> ticks, wall_from |-> leases[s].last_wall_time,
                 wall_to |-> at, signal |-> signal, bought |-> bought]
           n == Len(advances[s])
<1>1. /\ leases[s] \in ClockLease /\ leases \in [Skins -> ClockLease]
      /\ advances \in [Skins -> Seq(Receipt)]
  BY DEF ClockTypeOK
<1>2. /\ leases[s].spent_ticks \in 0 .. GrantedTicks /\ GrantedTicks \in Nat
      /\ leases[s].last_wall_time \in 0 .. MaxWallTime /\ MaxWallTime \in Nat
  BY <1>1, ClockAssumption DEF ClockLease
<1>3. /\ at >= leases[s].last_wall_time /\ ticks <= GrantedTicks - leases[s].spent_ticks
      /\ leases' = [leases EXCEPT ![s] = Advanced(leases[s], ticks, at)]
      /\ advances' = [advances EXCEPT ![s] = Append(advances[s], r)]
  BY <1>1 DEF Advance
<1>4. leases[s].spent_ticks + ticks \in 0 .. GrantedTicks
  BY <1>2, <1>3
<1>5. /\ Advanced(leases[s], ticks, at) \in ClockLease
      /\ Advanced(leases[s], ticks, at).spent_ticks = leases[s].spent_ticks + ticks
      /\ Advanced(leases[s], ticks, at).last_wall_time = at
  BY <1>1, <1>4 DEF Advanced, ClockLease
<1>6. leases' \in [Skins -> ClockLease]
  BY <1>1, <1>3, <1>5
<1>7. leases'[s] = Advanced(leases[s], ticks, at)
  BY <1>1, <1>3
<1>8. \A t \in Skins \ {s} : leases'[t] = leases[t] /\ advances'[t] = advances[t]
  BY <1>1, <1>3
<1>9. r.ticks = ticks /\ r.signal = signal /\ r.bought = bought
  OBVIOUS
<1>10. r \in Receipt
  BY <1>2 DEF Receipt
<1> HIDE DEF r
<1>11. advances[s] \in Seq(Receipt) /\ advances'[s] = Append(advances[s], r)
  BY <1>1, <1>3
<1>12. /\ advances'[s] \in Seq(Receipt) /\ n \in Nat
       /\ DOMAIN advances[s] = 1 .. n /\ DOMAIN advances'[s] = 1 .. (n + 1)
       /\ advances'[s][n + 1] = r
       /\ \A i \in 1 .. n : advances'[s][i] = advances[s][i]
  BY <1>10, <1>11, Appended
<1>13. advances' \in [Skins -> Seq(Receipt)]
  BY <1>1, <1>3, <1>11, <1>12
<1>14. /\ TickValues(s) \in [1 .. n -> Nat] /\ BoughtValues(s) \in [1 .. n -> Nat]
       /\ Ticks(s) = SumFunction(TickValues(s)) /\ Ticks(s) \in Nat
       /\ Bought(s) = SumFunction(BoughtValues(s)) /\ Bought(s) \in Nat
       /\ IsFiniteSet(1 .. n)
  BY <1>12, ReceiptFacts
<1>15. 1 .. (n + 1) = 1 .. n \cup {n + 1} /\ n + 1 \notin 1 .. n
  BY <1>12
<1>16. Ticks(s)' = Ticks(s) + ticks
  <2>1. TickValues(s)' = [i \in 1 .. (n + 1) |-> advances'[s][i].ticks]
    BY <1>12 DEF TickValues
  <2>2. \A i \in 1 .. n : (TickValues(s)')[i] = TickValues(s)[i]
    BY <1>12, <1>15, <2>1 DEF TickValues
  <2>3. (TickValues(s)')[n + 1] = ticks
    BY <1>9, <1>12, <1>15, <2>1
  <2>4. TickValues(s)' \in [1 .. n \cup {n + 1} -> Nat]
    BY <1>14, <1>15, <2>1, <2>2, <2>3
  <2>5. Extends(TickValues(s)', TickValues(s), 1 .. n, n + 1)
    BY <1>14, <1>15, <2>2, <2>4 DEF Extends
  <2>6. SumFunction(TickValues(s)') = ticks + SumFunction(TickValues(s))
    BY <1>14, <2>3, <2>5, SumExtend
  <2>7. Ticks(s)' = SumFunction(TickValues(s)')
    BY DEF Ticks, TickValues
  <2> QED BY <1>14, <2>6, <2>7
<1>17. Bought(s)' = Bought(s) + (IF bought THEN ticks ELSE 0)
  <2> DEFINE b == IF bought THEN ticks ELSE 0
  <2>1. BoughtValues(s)' = [i \in 1 .. (n + 1) |->
                              IF advances'[s][i].bought THEN advances'[s][i].ticks ELSE 0]
    BY <1>12 DEF BoughtValues
  <2>2. \A i \in 1 .. n : (BoughtValues(s)')[i] = BoughtValues(s)[i]
    BY <1>12, <1>15, <2>1 DEF BoughtValues
  <2>3. (BoughtValues(s)')[n + 1] = b /\ b \in Nat
    BY <1>9, <1>12, <1>15, <2>1
  <2> HIDE DEF b
  <2>4. BoughtValues(s)' \in [1 .. n \cup {n + 1} -> Nat]
    BY <1>14, <1>15, <2>1, <2>2, <2>3
  <2>5. Extends(BoughtValues(s)', BoughtValues(s), 1 .. n, n + 1)
    BY <1>14, <1>15, <2>2, <2>4 DEF Extends
  <2>6. SumFunction(BoughtValues(s)') = b + SumFunction(BoughtValues(s))
    BY <1>14, <2>3, <2>5, SumExtend
  <2>7. Bought(s)' = SumFunction(BoughtValues(s)')
    BY DEF Bought, BoughtValues
  <2>8. Bought(s)' = Bought(s) + b
    BY <1>14, <2>3, <2>6, <2>7
  <2> QED BY <2>8 DEF b
<1>18. \A t \in Skins \ {s} : Ticks(t)' = Ticks(t) /\ Bought(t)' = Bought(t)
  BY <1>8 DEF Ticks, Bought
<1>19. \A i \in DOMAIN advances'[s] :
         \/ advances'[s][i].signal = signal
         \/ i \in DOMAIN advances[s] /\ advances'[s][i] = advances[s][i]
  <2> TAKE i \in DOMAIN advances'[s]
  <2>1. i \in 1 .. n \/ i = n + 1
    BY <1>12, <1>15
  <2>2. CASE i \in 1 .. n
    BY <1>12, <2>2
  <2>3. CASE i = n + 1
    <3>1. advances'[s][i] = r
      BY <1>12, <2>3
    <3> QED BY <1>9, <3>1
  <2> QED BY <2>1, <2>2, <2>3
<1> QED BY <1>2, <1>3, <1>5, <1>6, <1>7, <1>8, <1>13, <1>16, <1>17, <1>18, <1>19

\* The warrant has paid for what was bought, if it pays for what is bought now.
LEMMA PaymentStep ==
  ASSUME ClockInv, ClockTypeOK', NEW s \in Skins, NEW b \in Nat,
         Bought(s)' = Bought(s) + b,
         \A t \in Skins \ {s} : Bought(t)' = Bought(t),
         warrant'.spent = warrant.spent + b * CostPerTick
  PROVE  WarrantPaysForTicks'
<1>1. BoughtTicks \in [Skins -> Nat] /\ SumFunction(BoughtTicks) \in Nat
  BY BoughtTicksFacts DEF ClockInv
<1>2. \A t \in Skins : Bought(t) \in Nat
  BY ReceiptFacts DEF ClockInv
<1>3. BoughtTicks' = [t \in Skins |-> IF t = s THEN Bought(s) + b ELSE Bought(t)]
  BY DEF BoughtTicks
<1>4. BoughtTicks' \in [Skins -> Nat]
  BY <1>2, <1>3
<1>5. /\ BoughtTicks[s] = Bought(s) /\ (BoughtTicks')[s] = Bought(s) + b
      /\ \A t \in Skins \ {s} : (BoughtTicks')[t] = BoughtTicks[t]
  BY <1>3 DEF BoughtTicks
<1>6. SumFunction(BoughtTicks') + Bought(s) = SumFunction(BoughtTicks) + (Bought(s) + b)
  <2>1. Differ(BoughtTicks, BoughtTicks', Skins, s)
    BY <1>1, <1>4, <1>5 DEF Differ
  <2> QED BY <2>1, <1>5, SumChange, ClockAssumption
<1>7. SumFunction(BoughtTicks') \in Nat
  BY <1>4, SumType, ClockAssumption
<1>8. SumFunction(BoughtTicks') = SumFunction(BoughtTicks) + b
  BY <1>1, <1>2, <1>6, <1>7
<1>9. warrant.spent = CostPerTick * SumFunction(BoughtTicks)
  BY DEF ClockInv, WarrantPaysForTicks, BoughtTicks
<1>10. warrant'.spent = CostPerTick * SumFunction(BoughtTicks')
  <2>1. CostPerTick \in Nat
    BY ClockAssumption
  <2>2. \A c, x, y \in Nat : c * x + y * c = c * (x + y)
    OBVIOUS
  <2> QED BY <2>1, <2>2, <1>1, <1>8, <1>9
<1>11. warrant'.spent <= WarrantLimit
  BY ClockAssumption DEF ClockTypeOK
<1>12. SumFunction(BoughtTicks') = SumFunction([t \in Skins |-> Bought(t)'])
  BY DEF BoughtTicks
<1> QED BY <1>10, <1>11, <1>12 DEF WarrantPaysForTicks

\* The account of a lease stays in order, when it is advanced by what was waited
\* for, signalled or bought.
LEMMA EarnedStep ==
  ASSUME ClockInv, NEW s \in Skins, NEW ticks \in Nat, NEW at \in 0 .. MaxWallTime,
         NEW signal \in BOOLEAN, NEW bought \in BOOLEAN,
         Advance(s, ticks, at, signal, bought),
         Mode[s] = "EXPLICIT_SIGNAL" => signal,
         Mode[s] = "WALL_RATE" /\ ~bought =>
           ticks = (at - leases[s].last_wall_time) * TickRate
  PROVE  LocalTimeIsEarned'
<1>1. ClockTypeOK
  BY DEF ClockInv
<1>2. /\ leases' \in [Skins -> ClockLease]
      /\ \A t \in Skins \ {s} : leases'[t] = leases[t] /\ advances'[t] = advances[t]
      /\ \A t \in Skins \ {s} : Ticks(t)' = Ticks(t) /\ Bought(t)' = Bought(t)
  BY <1>1, AdvanceAccounts
<1>3. /\ leases'[s].spent_ticks = leases[s].spent_ticks + ticks
      /\ leases'[s].last_wall_time = at
      /\ leases[s].last_wall_time <= at /\ leases[s].last_wall_time \in Nat
      /\ leases[s].spent_ticks \in Nat
      /\ Ticks(s)' = Ticks(s) + ticks
      /\ Bought(s)' = Bought(s) + (IF bought THEN ticks ELSE 0)
  BY <1>1, AdvanceAccounts
<1>4. \A i \in DOMAIN advances'[s] :
        \/ advances'[s][i].signal = signal
        \/ i \in DOMAIN advances[s] /\ advances'[s][i] = advances[s][i]
  BY <1>1, AdvanceAccounts
<1>5. ASSUME NEW t \in Skins, t # s
      PROVE  /\ leases'[t].spent_ticks = Ticks(t)'
             /\ Mode[t] = "WALL_RATE" =>
                  leases'[t].spent_ticks - Bought(t)' <= leases'[t].last_wall_time * TickRate
             /\ Mode[t] = "EXPLICIT_SIGNAL" =>
                  \A i \in DOMAIN advances'[t] : advances'[t][i].signal
  <2>1. leases'[t] = leases[t] /\ advances'[t] = advances[t]
        /\ Ticks(t)' = Ticks(t) /\ Bought(t)' = Bought(t)
    BY <1>2, <1>5
  <2> QED BY <2>1 DEF ClockInv, LocalTimeIsEarned
<1>6. /\ leases[s].spent_ticks = Ticks(s)
      /\ Mode[s] = "WALL_RATE" =>
           leases[s].spent_ticks - Bought(s) <= leases[s].last_wall_time * TickRate
      /\ Mode[s] = "EXPLICIT_SIGNAL" => \A i \in DOMAIN advances[s] : advances[s][i].signal
  BY DEF ClockInv, LocalTimeIsEarned
<1>7. leases'[s].spent_ticks = Ticks(s)'
  BY <1>3, <1>6
<1>8. ASSUME Mode[s] = "WALL_RATE"
      PROVE  leases'[s].spent_ticks - Bought(s)' <= leases'[s].last_wall_time * TickRate
  <2> DEFINE last == leases[s].last_wall_time
  <2>1. /\ last \in Nat /\ at \in Nat /\ TickRate \in Nat /\ last <= at
        /\ Bought(s) \in Nat
    BY <1>1, <1>3, ClockAssumption, ReceiptFacts
  <2>2. /\ (at - last) * TickRate \in Nat
        /\ (at - last) * TickRate + last * TickRate = at * TickRate
        /\ last * TickRate <= at * TickRate
    BY <2>1, WaitingAdds
  <2>3. last * TickRate \in Nat /\ at * TickRate \in Nat
    BY <2>1
  <2>4. leases[s].spent_ticks - Bought(s) <= last * TickRate
    BY <1>6, <1>8
  <2>5. CASE bought
    <3>1. Bought(s)' = Bought(s) + ticks
      BY <1>3, <2>5
    <3>2. (leases[s].spent_ticks + ticks) - (Bought(s) + ticks) <= at * TickRate
      BY <1>3, <2>1, <2>2, <2>3, <2>4
    <3> QED BY <1>3, <3>1, <3>2
  <2>6. CASE ~bought
    <3>1. Bought(s)' = Bought(s)
      BY <1>3, <2>1, <2>6
    <3>2. ticks = (at - last) * TickRate
      BY <1>8, <2>6
    <3> DEFINE w == (at - last) * TickRate
               l == last * TickRate
               a == at * TickRate
    <3>3. w \in Nat /\ l \in Nat /\ a \in Nat /\ w + l = a
      BY <2>2, <2>3
    <3>4. leases[s].spent_ticks - Bought(s) <= l /\ ticks = w
      BY <2>4, <3>2
    <3> HIDE DEF w, l, a
    <3>5. (leases[s].spent_ticks + ticks) - Bought(s) <= a
      BY <1>3, <2>1, <3>3, <3>4
    <3> QED BY <1>3, <3>1, <3>5 DEF a
  <2> QED BY <2>5, <2>6
<1>9. ASSUME Mode[s] = "EXPLICIT_SIGNAL"
      PROVE  \A i \in DOMAIN advances'[s] : advances'[s][i].signal
  BY <1>4, <1>6, <1>9
<1> QED BY <1>2, <1>5, <1>7, <1>8, <1>9 DEF LocalTimeIsEarned

LEMMA ClockStep == ClockInv /\ [ClockNext]_clockVars => ClockInv'
<1> SUFFICES ASSUME ClockInv, [ClockNext]_clockVars PROVE ClockInv'
  OBVIOUS
<1>0. /\ ClockTypeOK /\ warrant \in [spent : 0 .. WarrantLimit, revoked : BOOLEAN]
      /\ warrant.spent \in Nat
  BY DEF ClockInv, ClockTypeOK
<1>1. ASSUME NEW s \in Skins, NEW at \in 0 .. MaxWallTime, AdvanceWallTime(s, at)
      PROVE  ClockInv'
  <2> DEFINE ticks == (at - leases[s].last_wall_time) * TickRate
  <2>1. /\ Mode[s] = "WALL_RATE" /\ Advance(s, ticks, at, FALSE, FALSE)
        /\ UNCHANGED warrant /\ at >= leases[s].last_wall_time
    BY <1>1 DEF AdvanceWallTime, Advance
  <2>2. leases[s] \in ClockLease /\ TickRate \in Nat /\ at \in Nat
    BY <1>0, ClockAssumption DEF ClockTypeOK
  <2>3. leases[s].last_wall_time \in Nat
    BY <2>2 DEF ClockLease
  <2>4. ticks \in Nat
    BY <2>1, <2>2, <2>3, WaitingAdds
  <2>5. LocalTimeIsEarned'
    BY <2>1, <2>4, EarnedStep
  <2> HIDE DEF ticks
  <2>6. /\ leases' \in [Skins -> ClockLease] /\ advances' \in [Skins -> Seq(Receipt)]
        /\ Bought(s)' = Bought(s) + 0
        /\ \A t \in Skins \ {s} : Bought(t)' = Bought(t)
    BY <1>0, <2>1, <2>4, AdvanceAccounts
  <2>7. ClockTypeOK'
    BY <1>0, <2>1, <2>6 DEF ClockTypeOK
  <2>8. warrant'.spent = warrant.spent + 0 * CostPerTick
    BY <1>0, <2>1, ClockAssumption
  <2>9. WarrantPaysForTicks'
    BY <2>6, <2>7, <2>8, PaymentStep
  <2> QED BY <2>5, <2>7, <2>9 DEF ClockInv
<1>2. ASSUME NEW s \in Skins, NEW at \in 0 .. MaxWallTime, NEW ticks \in 0 .. GrantedTicks,
             AdvanceExplicit(s, ticks, at)
      PROVE  ClockInv'
  <2>1. /\ Mode[s] = "EXPLICIT_SIGNAL" /\ Advance(s, ticks, at, TRUE, FALSE)
        /\ UNCHANGED warrant
    BY <1>2 DEF AdvanceExplicit
  <2>2. ticks \in Nat
    BY ClockAssumption
  <2>3. LocalTimeIsEarned'
    BY <2>1, <2>2, EarnedStep
  <2>4. /\ leases' \in [Skins -> ClockLease] /\ advances' \in [Skins -> Seq(Receipt)]
        /\ Bought(s)' = Bought(s) + 0
        /\ \A t \in Skins \ {s} : Bought(t)' = Bought(t)
    BY <1>0, <2>1, <2>2, AdvanceAccounts
  <2>5. ClockTypeOK'
    BY <1>0, <2>1, <2>4 DEF ClockTypeOK
  <2>6. warrant'.spent = warrant.spent + 0 * CostPerTick
    BY <1>0, <2>1, ClockAssumption
  <2>7. WarrantPaysForTicks'
    BY <2>4, <2>5, <2>6, PaymentStep
  <2> QED BY <2>3, <2>5, <2>7 DEF ClockInv
<1>3. ASSUME NEW s \in Skins, NEW at \in 0 .. MaxWallTime, NEW ticks \in 0 .. GrantedTicks,
             NEW signal \in BOOLEAN, SpendTicksWithWarrant(s, ticks, at, signal)
      PROVE  ClockInv'
  <2>1. /\ signal <=> Mode[s] = "EXPLICIT_SIGNAL"
        /\ Advance(s, ticks, at, signal, TRUE)
        /\ ticks * CostPerTick <= WarrantLimit - warrant.spent
        /\ warrant' = [warrant EXCEPT !.spent = warrant.spent + ticks * CostPerTick]
    BY <1>0, <1>3 DEF SpendTicksWithWarrant, Affords, Debit
  <2>2. ticks \in Nat /\ ticks * CostPerTick \in Nat /\ WarrantLimit \in Nat
    BY ClockAssumption
  <2>3. LocalTimeIsEarned'
    BY <2>1, <2>2, EarnedStep
  <2>4. /\ leases' \in [Skins -> ClockLease] /\ advances' \in [Skins -> Seq(Receipt)]
        /\ Bought(s)' = Bought(s) + ticks
        /\ \A t \in Skins \ {s} : Bought(t)' = Bought(t)
    <3>1. CASE signal = TRUE
      <4>1. Advance(s, ticks, at, TRUE, TRUE)
        BY <2>1, <3>1
      <4> QED BY <1>0, <2>2, <4>1, AdvanceAccounts
    <3>2. CASE signal = FALSE
      <4>1. Advance(s, ticks, at, FALSE, TRUE)
        BY <2>1, <3>2
      <4> QED BY <1>0, <2>2, <4>1, AdvanceAccounts
    <3> QED BY <3>1, <3>2
  <2> DEFINE cost == ticks * CostPerTick
  <2>5. cost \in Nat /\ cost <= WarrantLimit - warrant.spent
        /\ warrant' = [warrant EXCEPT !.spent = warrant.spent + cost]
    BY <2>1, <2>2
  <2> HIDE DEF cost
  <2>6. warrant.spent + cost \in 0 .. WarrantLimit
    BY <1>0, <2>2, <2>5
  <2>7. /\ warrant' \in [spent : 0 .. WarrantLimit, revoked : BOOLEAN]
        /\ warrant'.spent = warrant.spent + cost
    BY <1>0, <2>5, <2>6
  <2>8. ClockTypeOK'
    BY <2>4, <2>7 DEF ClockTypeOK
  <2>9. warrant'.spent = warrant.spent + ticks * CostPerTick
    BY <2>7 DEF cost
  <2>10. WarrantPaysForTicks'
    BY <2>2, <2>4, <2>8, <2>9, PaymentStep
  <2> QED BY <2>3, <2>8, <2>10 DEF ClockInv
<1>4. ASSUME UNCHANGED advances, leases' \in [Skins -> ClockLease],
             \A s \in Skins : /\ leases'[s].spent_ticks = leases[s].spent_ticks
                              /\ leases'[s].last_wall_time = leases[s].last_wall_time,
             warrant' \in [spent : 0 .. WarrantLimit, revoked : BOOLEAN],
             warrant'.spent = warrant.spent
      PROVE  ClockInv'
  <2>1. ClockTypeOK'
    BY <1>0, <1>4 DEF ClockTypeOK
  <2>2. \A s \in Skins : Ticks(s)' = Ticks(s) /\ Bought(s)' = Bought(s)
    BY <1>4 DEF Ticks, Bought
  <2>3. LocalTimeIsEarned'
    BY <1>4, <2>2 DEF ClockInv, LocalTimeIsEarned
  <2>4. [s \in Skins |-> Bought(s)'] = [s \in Skins |-> Bought(s)]
    BY <2>2
  <2>5. WarrantPaysForTicks'
    BY <1>4, <2>4 DEF ClockInv, WarrantPaysForTicks
  <2> QED BY <2>1, <2>3, <2>5 DEF ClockInv
<1>5. ASSUME NEW s \in Skins, CloseClockLease(s) PROVE ClockInv'
  <2>1. /\ leases' = [leases EXCEPT ![s].closed = TRUE] /\ UNCHANGED <<warrant, advances>>
        /\ leases \in [Skins -> ClockLease]
    BY <1>0, <1>5 DEF CloseClockLease, ClockTypeOK
  <2>2. leases' \in [Skins -> ClockLease]
    BY <2>1 DEF ClockLease
  <2>3. \A t \in Skins : /\ leases'[t].spent_ticks = leases[t].spent_ticks
                         /\ leases'[t].last_wall_time = leases[t].last_wall_time
    BY <2>1 DEF ClockLease
  <2> QED BY <1>0, <1>4, <2>1, <2>2, <2>3
<1>6. CASE RevokeWarrant
  <2>1. /\ warrant' \in [spent : 0 .. WarrantLimit, revoked : BOOLEAN]
        /\ warrant'.spent = warrant.spent /\ UNCHANGED <<leases, advances>>
    BY <1>0, <1>6 DEF RevokeWarrant
  <2> QED BY <1>0, <1>4, <2>1 DEF ClockTypeOK
<1>7. CASE UNCHANGED clockVars
  BY <1>0, <1>4, <1>7 DEF clockVars, ClockTypeOK
<1> QED BY <1>1, <1>2, <1>3, <1>5, <1>6, <1>7 DEF ClockNext

\* For any number of skins, leases advanced in any order and at any times: what
\* a lease has spent was waited for, signalled or bought, within its grant.
THEOREM LocalTimeStaysEarned == ClockSpec => []LocalTimeIsEarned
<1>1. ClockInv => LocalTimeIsEarned
  BY DEF ClockInv
<1> QED BY <1>1, ClockInvInit, ClockStep, PTL DEF ClockSpec

\* The one warrant has paid for exactly what was bought on all the leases that
\* share it, within its limit.
THEOREM WarrantAlwaysPays == ClockSpec => []WarrantPaysForTicks
<1>1. ClockInv => WarrantPaysForTicks
  BY DEF ClockInv
<1> QED BY <1>1, ClockInvInit, ClockStep, PTL DEF ClockSpec


-----------------------------------------------------------------------------
(* Premises: what the verified evidence is worth.                          *)

\* A bounded nonempty set of naturals has a maximum, and Max is it.
LEMMA MaxOf ==
  ASSUME NEW m \in Nat, NEW S \in SUBSET (0 .. m), S # {}
  PROVE  Max(S) \in S /\ Max(S) \in Nat /\ \A y \in S : y <= Max(S)
<1> DEFINE T == {n \in Nat : n <= m /\ m - n \in S}
<1>1. T \in SUBSET Nat
  OBVIOUS
<1>2. T # {}
  <2>1. PICK x \in S : TRUE
    OBVIOUS
  <2>2. m - x \in Nat /\ m - x <= m /\ m - (m - x) = x
    BY <2>1
  <2>3. m - x \in T
    BY <2>1, <2>2
  <2> QED BY <2>3
<1>3. PICK n \in T : \A k \in T : n <= k
  <2> HIDE DEF T
  <2> QED BY <1>1, <1>2, LeastNatural
<1>4. \A y \in S : y <= m - n
  <2> TAKE y \in S
  <2>1. m - y \in Nat /\ m - y <= m /\ m - (m - y) = y /\ y \in Nat
    OBVIOUS
  <2>2. m - y \in T
    BY <2>1
  <2>3. n <= m - y /\ n \in Nat
    BY <1>3, <2>2
  <2> QED BY <2>1, <2>3
<1>5. m - n \in S /\ \A y \in S : m - n >= y
  BY <1>3, <1>4
<1>6. Max(S) \in S /\ \A y \in S : Max(S) >= y
  BY <1>5 DEF Max
<1>7. \A y \in S : y \in Nat
  OBVIOUS
<1> QED BY <1>6, <1>7

\* The verified part of some challenges, the sources it names, and what each of
\* them counts.
SourcesOf(C) == {c.source : c \in Verified(C)}
SeveritiesOf(s, C) == {c.severity : c \in {d \in Verified(C) : d.source = s}}
Counted(C) == [s \in SourcesOf(C) |-> Max(SeveritiesOf(s, C))]

LEMMA ScoreIsSum == ASSUME NEW C PROVE Score(C) = SumFunction(Counted(C))
  BY DEF Score, Severest, Counted, SourcesOf, SeveritiesOf, Verified

LEMMA SeverestOf ==
  ASSUME NEW C \in SUBSET Challenge, NEW s \in SourcesOf(C)
  PROVE  /\ SeveritiesOf(s, C) \in SUBSET (0 .. MaxSeverity)
         /\ SeveritiesOf(s, C) # {}
         /\ Max(SeveritiesOf(s, C)) \in SeveritiesOf(s, C)
         /\ Max(SeveritiesOf(s, C)) \in Nat
         /\ \A y \in SeveritiesOf(s, C) : y <= Max(SeveritiesOf(s, C))
<1>1. \A c \in Challenge : c.severity \in 0 .. MaxSeverity
  BY DEF Challenge
<1>2. SeveritiesOf(s, C) \in SUBSET (0 .. MaxSeverity)
  BY <1>1 DEF SeveritiesOf, Verified
<1>3. PICK c \in Verified(C) : c.source = s
  BY DEF SourcesOf
<1>4. c.severity \in SeveritiesOf(s, C)
  BY <1>3 DEF SeveritiesOf
<1>5. SeveritiesOf(s, C) # {}
  BY <1>4
<1> QED BY <1>2, <1>5, MaxOf, PremisePolicyAssumption

LEMMA CountedFacts ==
  ASSUME NEW C \in SUBSET Challenge, IsFiniteSet(C)
  PROVE  /\ IsFiniteSet(SourcesOf(C))
         /\ Counted(C) \in [SourcesOf(C) -> Nat]
         /\ Score(C) \in Nat
<1>1. IsFiniteSet(Verified(C))
  BY FS_Subset DEF Verified
<1> DEFINE f == [c \in Verified(C) |-> c.source]
<1>2. f \in Surjection(Verified(C), SourcesOf(C))
  BY DEF Surjection, SourcesOf
<1>3. IsFiniteSet(SourcesOf(C))
  <2> HIDE DEF f
  <2> QED BY <1>1, <1>2, FS_Surjection
<1>4. Counted(C) \in [SourcesOf(C) -> Nat]
  BY SeverestOf DEF Counted
<1>5. SumFunction(Counted(C)) \in Nat
  BY <1>3, <1>4, SumType
<1> QED BY <1>3, <1>4, <1>5, ScoreIsSum

-----------------------------------------------------------------------------
(* The strata.                                                             *)

(* An enacted petition was written against a shorter history than the one  *)
(* it is held against now.                                                 *)
MutabilityInv ==
  /\ MutabilityTypeOK
  /\ \A p \in enacted : Len(p.base) < Len(constitution)

LEMMA MutabilityInvInit == MutabilityInit => MutabilityInv
<1> SUFFICES ASSUME MutabilityInit PROVE MutabilityInv
  OBVIOUS
<1>1. policy \in [value : Bounds, revision : Nat, by : Actors \union {"nobody"}]
  BY DEF MutabilityInit
<1>2. ~(policy.revision > 0)
  BY DEF MutabilityInit
<1>3. weather \in [WeatherKeys -> 0 .. MaxPressure]
  BY PolicyAssumption DEF MutabilityInit
<1>4. constitution \in Seq(Amendment)
  BY DEF MutabilityInit
<1>5. /\ petitions \subseteq Petition /\ enacted \subseteq petitions
      /\ proposals \subseteq [base_revision : Nat, value : Nat]
      /\ lapsed \subseteq grants /\ grants \subseteq Grant
  BY DEF MutabilityInit
<1>6. \A p \in enacted : Len(p.base) < Len(constitution)
  BY DEF MutabilityInit
<1> QED BY <1>1, <1>2, <1>3, <1>4, <1>5, <1>6 DEF MutabilityInv, MutabilityTypeOK

LEMMA PetitionedStep ==
  ASSUME MutabilityInv, NEW c \in Clauses, NEW t \in Texts, NEW premised \in BOOLEAN,
         NEW evidence \in SUBSET Evidence, Petitioned(c, t, premised, evidence)
  PROVE  MutabilityInv'
<1> DEFINE p == [base |-> constitution, clause |-> c, text |-> t,
                 premise |-> premised, evidence |-> evidence]
<1>1. p \in Petition
  BY DEF MutabilityInv, MutabilityTypeOK, Petition
<1>2. /\ petitions' = petitions \union {p}
      /\ UNCHANGED <<constitution, enacted, weather, policy, proposals, grants, lapsed>>
  BY DEF Petitioned, SnapshotHash, policyVars
<1> HIDE DEF p
<1> QED BY <1>1, <1>2 DEF MutabilityInv, MutabilityTypeOK

LEMMA ApplyPetitionStep ==
  ASSUME MutabilityInv, NEW p \in petitions, ApplyPetition(p)
  PROVE  MutabilityInv'
<1> DEFINE a == [clause |-> p.clause, text |-> p.text]
<1>1. p \in Petition /\ constitution \in Seq(Amendment)
  BY DEF MutabilityInv, MutabilityTypeOK
<1>2. p.clause \in Clauses /\ p.text \in Texts
  BY <1>1 DEF Petition
<1>3. a \in Amendment
  BY <1>2 DEF Amendment
<1>4. /\ p.base = constitution /\ constitution' = Append(constitution, a)
      /\ enacted' = enacted \union {p}
      /\ UNCHANGED <<petitions, weather, policy, proposals, grants, lapsed>>
  BY DEF ApplyPetition, Current, SnapshotHash, policyVars
<1> HIDE DEF a
<1>5. /\ constitution' \in Seq(Amendment) /\ Len(constitution) \in Nat
      /\ Len(constitution') = Len(constitution) + 1
  BY <1>1, <1>3, <1>4, Appended
<1>6. MutabilityTypeOK'
  BY <1>4, <1>5 DEF MutabilityInv, MutabilityTypeOK
<1>7. ASSUME NEW q \in enacted' PROVE Len(q.base) < Len(constitution')
  <2>1. CASE q = p
    BY <2>1, <1>4, <1>5
  <2>2. CASE q \in enacted
    <3>1. q \in Petition
      BY <2>2 DEF MutabilityInv, MutabilityTypeOK
    <3>2. q.base \in Seq(Amendment)
      BY <3>1 DEF Petition
    <3>3. Len(q.base) \in Nat /\ Len(q.base) < Len(constitution)
      BY <2>2, <3>2 DEF MutabilityInv
    <3> QED BY <3>3, <1>5
  <2> QED BY <2>1, <2>2, <1>4
<1> QED BY <1>6, <1>7 DEF MutabilityInv

LEMMA ChangeProposedStep ==
  ASSUME MutabilityInv, NEW v \in Nat, Proposed(v)
  PROVE  MutabilityInv'
<1> DEFINE p == [base_revision |-> policy.revision, value |-> v]
<1>1. p \in [base_revision : Nat, value : Nat]
  BY DEF MutabilityInv, MutabilityTypeOK
<1>2. /\ proposals' = proposals \union {p}
      /\ UNCHANGED <<constitution, petitions, enacted, weather, policy, grants, lapsed>>
  BY DEF Proposed, constitutionVars
<1> HIDE DEF p
<1> QED BY <1>1, <1>2 DEF MutabilityInv, MutabilityTypeOK

LEMMA GrantsStep ==
  ASSUME MutabilityInv, NEW g \in Grant,
         IssueGrant(g) \/ (g \in grants /\ Lapse(g))
  PROVE  MutabilityInv'
<1>1. /\ grants \subseteq grants' /\ grants' \subseteq grants \union {g}
      /\ lapsed' \subseteq grants'
      /\ UNCHANGED <<constitution, petitions, enacted, weather, policy, proposals>>
  BY DEF IssueGrant, Lapse, constitutionVars, MutabilityInv, MutabilityTypeOK
<1>2. policy.revision > 0 =>
        \E h \in grants' : h.grantee = policy.by /\ policy.value \in h.minimum .. h.maximum
  BY <1>1 DEF MutabilityInv, MutabilityTypeOK
<1> QED BY <1>1, <1>2 DEF MutabilityInv, MutabilityTypeOK

LEMMA ApplyProposalStep ==
  ASSUME MutabilityInv, NEW p \in proposals, NEW a \in Actors, NEW g \in grants,
         ApplyProposal(p, a, g)
  PROVE  MutabilityInv'
<1>1. /\ g.grantee = a /\ p.value \in Bounds /\ p.value \in g.minimum .. g.maximum
      /\ policy' = [value |-> p.value, revision |-> policy.revision + 1, by |-> a]
      /\ UNCHANGED <<constitution, petitions, enacted, weather, proposals, grants, lapsed>>
  BY DEF ApplyProposal, Allows, constitutionVars
<1>2. policy.revision \in Nat
  BY DEF MutabilityInv, MutabilityTypeOK
<1>3. policy' \in [value : Bounds, revision : Nat, by : Actors \union {"nobody"}]
  BY <1>1, <1>2
<1>4. g.grantee = policy'.by /\ policy'.value \in g.minimum .. g.maximum
  BY <1>1
<1> QED BY <1>1, <1>3, <1>4 DEF MutabilityInv, MutabilityTypeOK

LEMMA WeatherStep ==
  ASSUME MutabilityInv,
         \/ \E k \in WeatherKeys, v \in 0 .. MaxPressure : Updated(k, v)
         \/ \E k \in WeatherKeys : Decay(k)
  PROVE  MutabilityInv'
<1>1. /\ weather \in [WeatherKeys -> 0 .. MaxPressure] /\ MaxPressure \in Nat
  BY PolicyAssumption DEF MutabilityInv, MutabilityTypeOK
<1>2. \A n \in 0 .. MaxPressure : n \div 2 \in 0 .. MaxPressure
  BY <1>1
<1>3. PICK k \in WeatherKeys, v \in 0 .. MaxPressure :
        weather' = [weather EXCEPT ![k] = v]
  BY <1>1, <1>2 DEF Updated, Decay
<1>4. weather' \in [WeatherKeys -> 0 .. MaxPressure]
  BY <1>1, <1>3
<1>5. UNCHANGED <<constitution, petitions, enacted, policy, proposals, grants, lapsed>>
  BY DEF Updated, Decay, constitutionVars, policyVars
<1> QED BY <1>4, <1>5 DEF MutabilityInv, MutabilityTypeOK

LEMMA MutabilityStutter ==
  ASSUME MutabilityInv, UNCHANGED mutabilityVars PROVE MutabilityInv'
BY DEF MutabilityInv, MutabilityTypeOK, mutabilityVars

-----------------------------------------------------------------------------
(* A premise among them.                                                   *)

\* What the evidence has to reach for a premise to be restricted: a retired one
\* was restricted before.
Needed(state) ==
  IF state = "QUARANTINED" THEN QuarantineThreshold ELSE ChallengeThreshold

(* What an evaluation weighed stays on record, and what it recommends, if  *)
(* it is a restriction, it has weighed enough for or has found in place;   *)
(* so behind each restriction in place or recommended is an evaluation     *)
(* that has weighed enough for it.                                         *)
PremiseInv ==
  /\ PremiseTypeOK
  /\ IsFiniteSet(challenges)
  /\ premise.state # "ACTIVE" => Weighed(Needed(premise.state))
  /\ \A e \in evaluations :
       /\ e.weighed \subseteq challenges
       /\ e.recommended # "ACTIVE" => Weighed(Needed(e.recommended))
  /\ \A p \in petitions :
       p.premise => Weighed(ChallengeThreshold) /\ p.evidence \subseteq Verified(challenges)

LEMMA NeededFacts ==
  /\ ChallengeThreshold \in Nat /\ QuarantineThreshold \in Nat
  /\ ChallengeThreshold <= QuarantineThreshold
  /\ \A s \in States : Needed(s) \in Nat /\ ChallengeThreshold <= Needed(s)
BY PremisePolicyAssumption DEF Needed, States

LEMMA PremiseFacts ==
  ASSUME PremiseInv
  PROVE  /\ premise.state \in States
         /\ premise = [state |-> premise.state, challenge_refs |-> premise.challenge_refs]
         /\ premise.challenge_refs \in SUBSET Verified(challenges)
         /\ challenges \in SUBSET Challenge /\ IsFiniteSet(challenges)
         /\ \A C \in SUBSET challenges : Score(C) \in Nat
<1>1. /\ premise.state \in States
      /\ premise = [state |-> premise.state, challenge_refs |-> premise.challenge_refs]
      /\ premise.challenge_refs \in SUBSET Verified(challenges)
      /\ challenges \in SUBSET Challenge /\ IsFiniteSet(challenges)
  BY DEF PremiseInv, PremiseTypeOK
<1>2. ASSUME NEW C \in SUBSET challenges PROVE Score(C) \in Nat
  <2>1. C \in SUBSET Challenge /\ IsFiniteSet(C)
    BY <1>1, FS_Subset
  <2> QED BY <2>1, CountedFacts
<1> QED BY <1>1, <1>2

\* Evidence enough for a restriction is enough for the mildest one.
LEMMA WeighedForAny ==
  ASSUME PremiseInv, NEW s \in States, Weighed(Needed(s))
  PROVE  Weighed(ChallengeThreshold)
<1>1. PICK e \in evaluations : Score(e.weighed) >= Needed(s)
  BY DEF Weighed
<1>2. Score(e.weighed) \in Nat
  BY PremiseFacts DEF PremiseInv
<1>3. Score(e.weighed) >= ChallengeThreshold
  BY <1>1, <1>2, NeededFacts
<1> QED BY <1>3 DEF Weighed

LEMMA PremiseInvInit == MutabilityInit /\ PremiseInit => PremiseInv
<1> SUFFICES ASSUME MutabilityInit, PremiseInit PROVE PremiseInv
  OBVIOUS
<1>1. PremiseTypeOK
  BY DEF PremiseInit, PremiseTypeOK, States
<1>2. IsFiniteSet(challenges)
  BY FS_EmptySet DEF PremiseInit
<1> QED BY <1>1, <1>2 DEF PremiseInv, PremiseInit, MutabilityInit

\* An evaluation recommends the state it finds, or one that what it weighs
\* reaches.
LEMMA RecommendedIsFounded ==
  ASSUME NEW state \in States, NEW C, Score(C) \in Nat
  PROVE  /\ Recommended(state, C) \in States
         /\ Recommended(state, C) = state \/ Score(C) >= Needed(Recommended(state, C))
<1> USE NeededFacts
<1>1. CASE state = "RETIRED" \/ state = "QUARANTINED"
  BY <1>1 DEF Recommended, States
<1>2. CASE state = "ACTIVE" \/ state = "CHALLENGED"
  <2>1. CASE Score(C) >= QuarantineThreshold
    BY <1>2, <2>1 DEF Recommended, States, Needed
  <2>2. CASE Score(C) < QuarantineThreshold
    <3>1. Recommended(state, C) = IF Score(C) >= ChallengeThreshold
                                  THEN "CHALLENGED" ELSE state
      BY <1>2, <2>2 DEF Recommended
    <3> QED BY <3>1 DEF States, Needed
  <2> QED BY <2>1, <2>2
<1> QED BY <1>1, <1>2 DEF States

\* A challenge more, or a contradiction resolved.
LEMMA ChallengesStep ==
  ASSUME PremiseInv, UNCHANGED petitions,
         \/ \E s \in Sources, n \in 0 .. MaxSeverity, v \in BOOLEAN : Challenged(s, n, v)
         \/ \E c \in Contradictions : ResolveContradiction(c)
  PROVE  PremiseInv'
<1>1. ASSUME NEW s \in Sources, NEW n \in 0 .. MaxSeverity, NEW v \in BOOLEAN,
             Challenged(s, n, v)
      PROVE  PremiseInv'
  <2> DEFINE x == [source |-> s, severity |-> n, verified |-> v]
  <2>1. x \in Challenge
    BY DEF Challenge
  <2>2. /\ challenges' = challenges \union {x}
        /\ UNCHANGED <<premise, resolved, evaluations, resolutions>>
    BY <1>1 DEF Challenged
  <2> HIDE DEF x
  <2>3. IsFiniteSet(challenges')
    BY <2>2, FS_AddElement DEF PremiseInv
  <2>4. PremiseTypeOK'
    BY <2>1, <2>2 DEF PremiseInv, PremiseTypeOK, Verified
  <2>5. Verified(challenges) \subseteq Verified(challenges')
    BY <2>2 DEF Verified
  <2> QED BY <2>2, <2>3, <2>4, <2>5 DEF PremiseInv, Weighed
<1>2. ASSUME NEW c \in Contradictions, ResolveContradiction(c) PROVE PremiseInv'
  <2>1. /\ resolved' = resolved \union {c}
        /\ UNCHANGED <<premise, challenges, evaluations, resolutions>>
    BY <1>2 DEF ResolveContradiction
  <2>2. PremiseTypeOK'
    BY <2>1 DEF PremiseInv, PremiseTypeOK, Verified
  <2> QED BY <2>1, <2>2 DEF PremiseInv, Weighed, Verified
<1> QED BY <1>1, <1>2

LEMMA EvaluateStep ==
  ASSUME PremiseInv, UNCHANGED petitions, NEW C \in SUBSET challenges, Evaluate(C)
  PROVE  PremiseInv'
<1> DEFINE V == Verified(C)
           r == Recommended(premise.state, C)
           e == [recommended |-> r, weighed |-> V]
<1>1. /\ evaluations' = evaluations \union {e}
      /\ UNCHANGED <<premise, challenges, resolved, resolutions>>
  BY DEF Evaluate
<1>2. V \in SUBSET challenges /\ Score(V) = Score(C) /\ Score(C) \in Nat
  <2>1. V \in SUBSET challenges
    BY DEF Verified
  <2>2. Verified(V) = V
    BY DEF Verified
  <2>3. Score(V) = Score(C)
    BY <2>2 DEF Score
  <2> QED BY <2>1, <2>3, PremiseFacts
<1> HIDE DEF V
<1>3. r \in States /\ (r = premise.state \/ Score(C) >= Needed(r))
  BY <1>2, PremiseFacts, RecommendedIsFounded
<1> HIDE DEF r
<1>4. e \in Evaluation
  BY <1>2, <1>3, PremiseFacts DEF Evaluation
<1>5. e.recommended = r /\ e.weighed = V
  OBVIOUS
<1> HIDE DEF e
<1>6. PremiseTypeOK'
  BY <1>1, <1>4 DEF PremiseInv, PremiseTypeOK
<1>7. \A n : Weighed(n) => \E d \in evaluations' : Score(d.weighed) >= n
  BY <1>1 DEF Weighed
<1>8. r # "ACTIVE" => \E d \in evaluations' : Score(d.weighed) >= Needed(r)
  <2>1. CASE r = premise.state
    BY <2>1, <1>7 DEF PremiseInv
  <2>2. CASE Score(C) >= Needed(r)
    BY <2>2, <1>1, <1>2, <1>5
  <2> QED BY <2>1, <2>2, <1>3
<1>9. \A d \in evaluations' :
        /\ d.weighed \subseteq challenges'
        /\ d.recommended # "ACTIVE" =>
             \E f \in evaluations' : Score(f.weighed) >= Needed(d.recommended)
  BY <1>1, <1>2, <1>5, <1>7, <1>8 DEF PremiseInv
<1>10. /\ premise.state # "ACTIVE" =>
             \E f \in evaluations' : Score(f.weighed) >= Needed(premise.state)
       /\ \A p \in petitions : p.premise =>
             /\ \E f \in evaluations' : Score(f.weighed) >= ChallengeThreshold
             /\ p.evidence \subseteq Verified(challenges)
  BY <1>7 DEF PremiseInv
<1> QED BY <1>1, <1>6, <1>9, <1>10 DEF PremiseInv, Weighed

LEMMA ApplyEvaluationStep ==
  ASSUME PremiseInv, UNCHANGED petitions, NEW e \in evaluations,
         NEW C \in SUBSET challenges, ApplyEvaluation(e, C)
  PROVE  PremiseInv'
<1> DEFINE refs == premise.challenge_refs \union Verified(C)
<1>1. /\ premise' = [state |-> e.recommended, challenge_refs |-> refs]
      /\ UNCHANGED <<challenges, resolved, evaluations, resolutions>>
  BY DEF ApplyEvaluation
<1>2. e \in Evaluation
  BY DEF PremiseInv, PremiseTypeOK
<1>3. /\ e.recommended \in States
      /\ e.recommended # "ACTIVE" => Weighed(Needed(e.recommended))
  BY <1>2 DEF Evaluation, PremiseInv
<1>4. refs \in SUBSET Verified(challenges)
  BY PremiseFacts DEF Verified
<1> HIDE DEF refs
<1>5. PremiseTypeOK'
  BY <1>1, <1>3, <1>4 DEF PremiseInv, PremiseTypeOK, Verified
<1>6. premise'.state = e.recommended
  BY <1>1
<1> QED BY <1>1, <1>3, <1>5, <1>6 DEF PremiseInv, Weighed

LEMMA ResolvePremiseStep ==
  ASSUME PremiseInv, UNCHANGED petitions, NEW state \in {"ACTIVE", "RETIRED"},
         ResolvePremise(state)
  PROVE  PremiseInv'
<1>1. /\ premise.state \in States \ {"ACTIVE"}
      /\ premise' = [premise EXCEPT !.state = state] /\ resolutions' = resolutions + 1
      /\ UNCHANGED <<challenges, resolved, evaluations>>
  BY DEF ResolvePremise, States
<1>2. premise' = [state |-> state, challenge_refs |-> premise.challenge_refs]
  BY <1>1, PremiseFacts
<1>3. PremiseTypeOK'
  BY <1>1, <1>2 DEF PremiseInv, PremiseTypeOK, States, Verified
<1>4. Weighed(ChallengeThreshold)
  BY <1>1, WeighedForAny DEF PremiseInv
<1>5. premise'.state \in {"ACTIVE", "RETIRED"} /\ Needed("RETIRED") = ChallengeThreshold
  BY <1>2 DEF Needed
<1> QED BY <1>1, <1>3, <1>4, <1>5 DEF PremiseInv, Weighed

\* The premise itself stays where it is; a petition may name it.
LEMMA PremiseKept ==
  ASSUME PremiseInv, UNCHANGED premiseVars,
         \A p \in petitions' \ petitions :
           p.premise => Weighed(ChallengeThreshold) /\ p.evidence \subseteq Verified(challenges)
  PROVE  PremiseInv'
<1>1. UNCHANGED <<premise, challenges, resolved, evaluations, resolutions>>
  BY DEF premiseVars
<1> QED BY <1>1 DEF PremiseInv, PremiseTypeOK, Weighed

GovernanceInv == MutabilityInv /\ PremiseInv

\* What a restricted premise does to the strata.
LEMMA PremiseActs ==
  ASSUME GovernanceInv, UNCHANGED premiseVars,
         \/ \E k \in WeatherKeys : WriteWeather(k)
         \/ \E v \in Bounds : ProposeFromPremise(v)
         \/ \E c \in Clauses, t \in Texts : PetitionFromPremise(c, t)
  PROVE  GovernanceInv'
<1>0. MutabilityInv /\ PremiseInv
  BY DEF GovernanceInv
<1>1. ASSUME NEW k \in WeatherKeys, WriteWeather(k) PROVE GovernanceInv'
  <2>1. PICK v \in 0 .. MaxPressure : Updated(k, v)
    <3>1. /\ QuarantinedPressure \in 0 .. MaxPressure
          /\ ChallengedPressure \in 0 .. MaxPressure
      BY PolicyAssumption, PremisePolicyAssumption
    <3> QED BY <1>1, <3>1 DEF WriteWeather
  <2>2. MutabilityInv'
    BY <1>0, <2>1, WeatherStep
  <2>3. UNCHANGED petitions
    BY <2>1 DEF Updated, constitutionVars
  <2> QED BY <1>0, <2>2, <2>3, PremiseKept DEF GovernanceInv
<1>2. ASSUME NEW v \in Bounds, ProposeFromPremise(v) PROVE GovernanceInv'
  <2>1. Proposed(v) /\ v \in Nat
    BY <1>2, PolicyAssumption DEF ProposeFromPremise, Bounds
  <2>2. MutabilityInv'
    BY <1>0, <2>1, ChangeProposedStep
  <2>3. UNCHANGED petitions
    BY <2>1 DEF Proposed, constitutionVars
  <2> QED BY <1>0, <2>2, <2>3, PremiseKept DEF GovernanceInv
<1>3. ASSUME NEW c \in Clauses, NEW t \in Texts, PetitionFromPremise(c, t)
      PROVE  GovernanceInv'
  <2>1. /\ premise.state \in {"QUARANTINED", "RETIRED"}
        /\ Petitioned(c, t, TRUE, premise.challenge_refs)
    BY <1>3 DEF PetitionFromPremise, BlocksDependents
  <2>2. premise.challenge_refs \in SUBSET Evidence
    BY <1>0, PremiseFacts, EvidenceAssumption DEF Verified
  <2>3. MutabilityInv'
    BY <1>0, <2>1, <2>2, PetitionedStep
  <2>4. Weighed(ChallengeThreshold)
    <3>1. premise.state \in States /\ Weighed(Needed(premise.state))
      BY <1>0, <2>1, PremiseFacts DEF PremiseInv
    <3> QED BY <1>0, <3>1, WeighedForAny
  <2>5. \A p \in petitions' \ petitions :
          Weighed(ChallengeThreshold) /\ p.evidence \subseteq Verified(challenges)
    BY <1>0, <2>1, <2>4, PremiseFacts DEF Petitioned
  <2> QED BY <1>0, <2>3, <2>5, PremiseKept DEF GovernanceInv
<1> QED BY <1>1, <1>2, <1>3

\* What all the others do to them.
LEMMA OthersAct ==
  ASSUME GovernanceInv, UNCHANGED premiseVars,
         ConstitutionNext \/ PolicyNext \/ WeatherNext
  PROVE  GovernanceInv'
<1>0. MutabilityInv /\ PremiseInv
  BY DEF GovernanceInv
<1>1. ASSUME NEW c \in Clauses, NEW t \in Texts, Petitioned(c, t, FALSE, {})
      PROVE  GovernanceInv'
  <2>1. MutabilityInv'
    <3>1. FALSE \in BOOLEAN /\ {} \in SUBSET Evidence
      OBVIOUS
    <3> QED BY <1>0, <1>1, <3>1, PetitionedStep, Zenon
  <2>2. \A p \in petitions' \ petitions : ~p.premise
    BY <1>1 DEF Petitioned
  <2> QED BY <1>0, <2>1, <2>2, PremiseKept DEF GovernanceInv
<1>2. ASSUME MutabilityInv', UNCHANGED petitions PROVE GovernanceInv'
  BY <1>0, <1>2, PremiseKept DEF GovernanceInv
<1>3. ASSUME NEW p \in petitions, ApplyPetition(p) PROVE GovernanceInv'
  <2>1. MutabilityInv' /\ UNCHANGED petitions
    BY <1>0, <1>3, ApplyPetitionStep DEF ApplyPetition
  <2> QED BY <1>2, <2>1
<1>4. ASSUME NEW v \in Minimum .. Maximum + 1, Proposed(v) PROVE GovernanceInv'
  <2>1. v \in Nat
    BY PolicyAssumption
  <2>2. MutabilityInv' /\ UNCHANGED petitions
    BY <1>0, <1>4, <2>1, ChangeProposedStep DEF Proposed, constitutionVars
  <2> QED BY <1>2, <2>2
<1>5. ASSUME NEW g \in Grant, IssueGrant(g) \/ (g \in grants /\ Lapse(g))
      PROVE  GovernanceInv'
  <2>1. MutabilityInv' /\ UNCHANGED petitions
    BY <1>0, <1>5, GrantsStep DEF IssueGrant, Lapse, constitutionVars
  <2> QED BY <1>2, <2>1
<1>6. ASSUME NEW p \in proposals, NEW a \in Actors, NEW g \in grants,
             ApplyProposal(p, a, g)
      PROVE  GovernanceInv'
  <2>1. MutabilityInv' /\ UNCHANGED petitions
    BY <1>0, <1>6, ApplyProposalStep DEF ApplyProposal, constitutionVars
  <2> QED BY <1>2, <2>1
<1>7. CASE WeatherNext
  <2>1. MutabilityInv' /\ UNCHANGED petitions
    BY <1>0, <1>7, WeatherStep DEF WeatherNext, Updated, Decay, constitutionVars
  <2> QED BY <1>2, <2>1
<1>8. CASE ConstitutionNext
  BY <1>8, <1>1, <1>3 DEF ConstitutionNext
<1>9. CASE PolicyNext
  <2>1. grants \subseteq Grant
    BY <1>0 DEF MutabilityInv, MutabilityTypeOK
  <2> QED BY <1>9, <1>4, <1>5, <1>6, <2>1 DEF PolicyNext
<1> QED BY <1>7, <1>8, <1>9

LEMMA GovernanceStep ==
  GovernanceInv /\ [GovernanceNext]_governanceVars => GovernanceInv'
<1> SUFFICES ASSUME GovernanceInv, [GovernanceNext]_governanceVars PROVE GovernanceInv'
  OBVIOUS
<1>0. MutabilityInv /\ PremiseInv
  BY DEF GovernanceInv
<1>1. CASE PremiseOwnNext /\ UNCHANGED mutabilityVars
  <2>1. MutabilityInv' /\ UNCHANGED petitions
    BY <1>0, <1>1, MutabilityStutter DEF mutabilityVars
  <2>2. PremiseInv'
    BY <1>0, <1>1, <2>1, ChallengesStep, EvaluateStep, ApplyEvaluationStep,
       ResolvePremiseStep DEF PremiseOwnNext
  <2> QED BY <2>1, <2>2 DEF GovernanceInv
<1>2. CASE UNCHANGED governanceVars
  <2>1. UNCHANGED mutabilityVars /\ UNCHANGED premiseVars /\ UNCHANGED petitions
    BY <1>2 DEF governanceVars, mutabilityVars, premiseVars
  <2> QED BY <1>0, <2>1, MutabilityStutter, PremiseKept DEF GovernanceInv
<1> QED BY <1>1, <1>2, PremiseActs, OthersAct DEF GovernanceNext, PremiseNext

LEMMA GovernanceInvInit == MutabilityInit /\ PremiseInit => GovernanceInv
BY MutabilityInvInit, PremiseInvInit DEF GovernanceInv

\* Whoever applies which petition when: an amendment is not applied twice, nor
\* to a constitution that its petition was not written against.
THEOREM EnactedStaysSpent == GovernanceSpec => []EnactedIsSpent
<1>1. GovernanceInv => EnactedIsSpent
  <2> SUFFICES ASSUME GovernanceInv, NEW p \in enacted, Current(p) PROVE FALSE
    BY DEF EnactedIsSpent
  <2>1. p.base = constitution /\ constitution \in Seq(Amendment)
    BY DEF Current, SnapshotHash, GovernanceInv, MutabilityInv, MutabilityTypeOK
  <2>2. Len(p.base) < Len(constitution)
    BY DEF GovernanceInv, MutabilityInv
  <2>3. Len(constitution) \in Nat
    BY <2>1
  <2> QED BY <2>1, <2>2, <2>3
<1> QED BY <1>1, GovernanceInvInit, GovernanceStep, PTL DEF GovernanceSpec

\* Whatever was evaluated when, in whatever portions, and applied in whatever
\* order, for any number of challenges of any severity: behind a restriction is
\* one evaluation that weighed verified evidence enough for it.
THEOREM RestrictionStaysFounded == GovernanceSpec => []RestrictionIsFounded
<1>1. GovernanceInv => RestrictionIsFounded
  BY DEF GovernanceInv, PremiseInv, RestrictionIsFounded, Needed
<1> QED BY <1>1, GovernanceInvInit, GovernanceStep, PTL DEF GovernanceSpec

\* Nothing but a resolution lowers a restriction, and nothing that of a retired
\* premise.
THEOREM OnlyResolutionEverLifts == GovernanceSpec => OnlyResolutionLifts
<1>1. GovernanceInv /\ [GovernanceNext]_governanceVars
      => [Rank(premise'.state) < Rank(premise.state) =>
            resolutions' = resolutions + 1 /\ premise.state # "RETIRED"]_premiseVars
  <2> SUFFICES ASSUME GovernanceInv, [GovernanceNext]_governanceVars,
                      Rank(premise'.state) < Rank(premise.state)
               PROVE  resolutions' = resolutions + 1 /\ premise.state # "RETIRED"
    OBVIOUS
  <2>0. PremiseInv /\ premise.state \in States /\ \A s \in States : Rank(s) \in Nat
    BY PremiseFacts DEF GovernanceInv, States, Rank
  <2>1. premise' # premise
    BY <2>0
  <2>2. PremiseOwnNext
    BY <2>1 DEF GovernanceNext, PremiseNext, governanceVars, premiseVars
  <2>3. ASSUME NEW e \in evaluations, NEW C \in SUBSET challenges, ApplyEvaluation(e, C)
        PROVE  FALSE
    <3>1. e \in Evaluation
      BY <2>0 DEF PremiseInv, PremiseTypeOK
    <3>2. e.recommended \in States
      BY <3>1 DEF Evaluation
    <3>3. Rank(e.recommended) >= Rank(premise.state) /\ premise'.state = e.recommended
      BY <2>3 DEF ApplyEvaluation
    <3> QED BY <2>0, <3>2, <3>3
  <2>4. PICK s \in {"ACTIVE", "RETIRED"} : ResolvePremise(s)
    BY <2>1, <2>2, <2>3 DEF PremiseOwnNext, Challenged, ResolveContradiction, Evaluate
  <2> QED BY <2>4 DEF ResolvePremise
<1> QED BY <1>1, GovernanceInvInit, GovernanceStep, PTL
        DEF GovernanceSpec, OnlyResolutionLifts

-----------------------------------------------------------------------------
(* Routes: what a candidate consists of, and what makes it no better.      *)

RouteState ==
  [revoked : BOOLEAN, remaining : 0 .. 2, ticks : 0 .. 2, closed : BOOLEAN,
   citable : BOOLEAN, disputed : BOOLEAN, premise : States,
   coalition : {"none", "ACTIVE", "DEGRADED", "DISSOLVED"},
   constraint : {"none", "PENALTY", "BLOCK"}, scar : 0 .. 1, weather : 0 .. 2,
   dominant : BOOLEAN]

\* g blocks and costs at least as much as f does, and crowds out no less.
NoBetter(f, g) ==
  /\ f.revoked => g.revoked
  /\ g.remaining <= f.remaining /\ g.ticks <= f.ticks
  /\ f.closed => g.closed
  /\ g.citable => f.citable
  /\ f.disputed => g.disputed
  /\ g.premise = f.premise \/ f.premise = "ACTIVE" \/ g.premise \notin {"ACTIVE", "CHALLENGED"}
  /\ g.coalition = f.coalition \/ f.coalition = "ACTIVE" \/ g.coalition = "DISSOLVED"
  /\ g.constraint = f.constraint \/ f.constraint = "none" \/ g.constraint = "BLOCK"
  /\ f.scar <= g.scar /\ f.weather <= g.weather
  /\ g.dominant = f.dominant

\* g is f but for one field.
Fields == {"revoked", "remaining", "ticks", "closed", "citable", "disputed", "premise",
           "coalition", "constraint", "scar", "weather", "dominant"}
Kept(f, g, x) == \A k \in Fields \ {x} : g[k] = f[k]

LEMMA WorseIsNoBetter ==
  ASSUME field \in [Routes -> RouteState], NEW r \in Routes, NEW g \in Worse(r)
  PROVE  g \in RouteState /\ NoBetter(field[r], g)
<1> DEFINE f == field[r]
<1>0. f \in RouteState
  OBVIOUS
<1> HIDE DEF f
<1>f. /\ f.revoked \in BOOLEAN /\ f.closed \in BOOLEAN /\ f.citable \in BOOLEAN
      /\ f.disputed \in BOOLEAN /\ f.remaining \in 0 .. 2 /\ f.ticks \in 0 .. 2
      /\ f.premise \in States
      /\ f.coalition \in {"none", "ACTIVE", "DEGRADED", "DISSOLVED"}
      /\ f.constraint \in {"none", "PENALTY", "BLOCK"}
      /\ f.scar \in 0 .. 1 /\ f.weather \in 0 .. 2 /\ f.dominant \in BOOLEAN
  BY <1>0 DEF RouteState
<1>1. CASE g = [f EXCEPT !.revoked = TRUE]
  <2>1. g \in RouteState /\ g.revoked = TRUE /\ Kept(f, g, "revoked")
    BY <1>0, <1>1 DEF RouteState, Kept, Fields
  <2> QED BY <2>1, <1>f DEF NoBetter, Kept, Fields, f
<1>2. CASE g = [f EXCEPT !.closed = TRUE]
  <2>1. g \in RouteState /\ g.closed = TRUE /\ Kept(f, g, "closed")
    BY <1>0, <1>2 DEF RouteState, Kept, Fields
  <2> QED BY <2>1, <1>f DEF NoBetter, Kept, Fields, f
<1>3. CASE g = [f EXCEPT !.citable = FALSE]
  <2>1. g \in RouteState /\ g.citable = FALSE /\ Kept(f, g, "citable")
    BY <1>0, <1>3 DEF RouteState, Kept, Fields
  <2> QED BY <2>1, <1>f DEF NoBetter, Kept, Fields, f
<1>4. CASE g = [f EXCEPT !.disputed = TRUE]
  <2>1. g \in RouteState /\ g.disputed = TRUE /\ Kept(f, g, "disputed")
    BY <1>0, <1>4 DEF RouteState, Kept, Fields
  <2> QED BY <2>1, <1>f DEF NoBetter, Kept, Fields, f
<1>5. CASE g = [f EXCEPT !.constraint = "BLOCK"]
  <2>1. g \in RouteState /\ g.constraint = "BLOCK" /\ Kept(f, g, "constraint")
    BY <1>0, <1>5 DEF RouteState, Kept, Fields
  <2> QED BY <2>1, <1>f DEF NoBetter, Kept, Fields, f
<1>6. CASE g = [f EXCEPT !.scar = 1]
  <2>1. g \in RouteState /\ g.scar = 1 /\ Kept(f, g, "scar")
    BY <1>0, <1>6 DEF RouteState, Kept, Fields
  <2> QED BY <2>1, <1>f DEF NoBetter, Kept, Fields, f
<1>7. CASE g = [f EXCEPT !.weather = 2]
  <2>1. g \in RouteState /\ g.weather = 2 /\ Kept(f, g, "weather")
    BY <1>0, <1>7 DEF RouteState, Kept, Fields
  <2> QED BY <2>1, <1>f DEF NoBetter, Kept, Fields, f
<1>8. CASE g \in {[f EXCEPT !.remaining = @ - 1] : n \in {1} \intersect (1 .. f.remaining)}
  <2>1. f.remaining >= 1 /\ f.remaining - 1 \in 0 .. 2 /\ g = [f EXCEPT !.remaining = f.remaining - 1]
    BY <1>8, <1>f
  <2>2. /\ g \in RouteState /\ g.remaining = f.remaining - 1
        /\ Kept(f, g, "remaining")
    BY <1>0, <2>1 DEF RouteState, Kept, Fields
  <2> QED BY <2>1, <2>2, <1>f DEF NoBetter, Kept, Fields, f
<1>9. CASE g \in {[f EXCEPT !.ticks = @ - 1] : n \in {1} \intersect (1 .. f.ticks)}
  <2>1. f.ticks >= 1 /\ f.ticks - 1 \in 0 .. 2 /\ g = [f EXCEPT !.ticks = f.ticks - 1]
    BY <1>9, <1>f
  <2>2. /\ g \in RouteState /\ g.ticks = f.ticks - 1
        /\ Kept(f, g, "ticks")
    BY <1>0, <2>1 DEF RouteState, Kept, Fields
  <2> QED BY <2>1, <2>2, <1>f DEF NoBetter, Kept, Fields, f
<1>10. CASE g \in {[f EXCEPT !.premise = p] :
                  p \in CASE f.premise = "ACTIVE" -> {"CHALLENGED", "QUARANTINED"}
                          [] f.premise = "CHALLENGED" -> {"QUARANTINED", "RETIRED"}
                          [] f.premise = "QUARANTINED" -> {"RETIRED"}
                          [] f.premise = "RETIRED" -> {}}
  <2>1. PICK p \in {"CHALLENGED", "QUARANTINED", "RETIRED"} :
          /\ g = [f EXCEPT !.premise = p]
          /\ p = "CHALLENGED" => f.premise = "ACTIVE"
    BY <1>10, <1>f DEF States
  <2>2. g \in RouteState /\ g.premise = p /\ Kept(f, g, "premise")
    BY <1>0, <2>1 DEF RouteState, Kept, Fields, States
  <2> QED BY <2>1, <2>2, <1>f DEF NoBetter, Kept, Fields, f
<1>11. CASE g \in {[f EXCEPT !.coalition = c] :
                  c \in CASE f.coalition = "ACTIVE" -> {"DEGRADED", "DISSOLVED"}
                          [] f.coalition = "DEGRADED" -> {"DISSOLVED"}
                          [] f.coalition \in {"DISSOLVED", "none"} -> {}}
  <2>1. PICK c \in {"DEGRADED", "DISSOLVED"} :
          /\ g = [f EXCEPT !.coalition = c]
          /\ c = "DEGRADED" => f.coalition = "ACTIVE"
    BY <1>11, <1>f
  <2>2. g \in RouteState /\ g.coalition = c /\ Kept(f, g, "coalition")
    BY <1>0, <2>1 DEF RouteState, Kept, Fields
  <2> QED BY <2>1, <2>2, <1>f DEF NoBetter, Kept, Fields, f
<1>12. CASE f.constraint = "none" /\ g = [f EXCEPT !.constraint = "PENALTY"]
  <2>1. g \in RouteState /\ g.constraint = "PENALTY" /\ Kept(f, g, "constraint")
    BY <1>0, <1>12 DEF RouteState, Kept, Fields
  <2> QED BY <2>1, <1>12, <1>f DEF NoBetter, Kept, Fields, f
<1> QED BY <1>1, <1>2, <1>3, <1>4, <1>5, <1>6, <1>7, <1>8, <1>9, <1>10, <1>11, <1>12
        DEF Worse, f

LEMMA BetterIsState ==
  ASSUME field \in [Routes -> RouteState], NEW r \in Routes,
         NEW g \in Better(r) \union {[field[r] EXCEPT !.dominant = TRUE]}
  PROVE  g \in RouteState
<1> DEFINE f == field[r]
<1>0. f \in RouteState
  OBVIOUS
<1>1. f.weather \in 0 .. 2
  BY <1>0 DEF RouteState
<1> HIDE DEF f
<1>2. f.weather \div 2 \in 0 .. 2
  BY <1>1
<1>3. [f EXCEPT !.scar = 0] \in RouteState /\ [f EXCEPT !.citable = TRUE] \in RouteState
  <2>1. [f EXCEPT !.scar = 0] \in RouteState
    BY <1>0 DEF RouteState
  <2>2. [f EXCEPT !.citable = TRUE] \in RouteState
    BY <1>0 DEF RouteState
  <2> QED BY <2>1, <2>2
<1>4. [f EXCEPT !.weather = f.weather \div 2] \in RouteState
  BY <1>0, <1>2 DEF RouteState
<1>5. /\ [f EXCEPT !.disputed = FALSE] \in RouteState
      /\ [f EXCEPT !.constraint = "none"] \in RouteState
  BY <1>0 DEF RouteState
<1>6. /\ [f EXCEPT !.dominant = FALSE] \in RouteState
      /\ [f EXCEPT !.dominant = TRUE] \in RouteState
  BY <1>0 DEF RouteState
<1>7. [f EXCEPT !.premise = "ACTIVE"] \in RouteState
  BY <1>0 DEF RouteState, States
<1> QED BY <1>3, <1>4, <1>5, <1>6, <1>7 DEF Better, f

\* Both stages look at one candidate each, but for the saturation.
Admits(r, f) ==
  /\ ~(r \in Lent /\ f.coalition # "ACTIVE")
  /\ ~f.revoked /\ f.remaining >= 1
  /\ f.citable /\ ~f.disputed
  /\ f.premise \in {"ACTIVE", "CHALLENGED"}
  /\ ~f.closed /\ f.ticks >= 1
  /\ f.coalition # "DISSOLVED"
  /\ f.constraint # "BLOCK"

OwnCost(base, f) ==
  base + 2 * f.scar + f.weather
  + (IF f.premise = "CHALLENGED" THEN 1 ELSE 0)
  + Pressure(f.ticks) + Pressure(f.remaining)
  + (IF f.coalition = "DEGRADED" THEN 1 ELSE 0)
  + (IF f.constraint = "PENALTY" THEN 2 ELSE 0)

LEMMA AdmissibleIs == Admissible = {r \in Routes : Admits(r, field[r])}
BY DEF Admissible, Admits, Capable, PremiseAllows

LEMMA OwnCostFacts ==
  ASSUME NEW b \in Nat, NEW f \in RouteState
  PROVE  OwnCost(b, f) \in Nat
<1>1. f.scar \in Nat /\ f.weather \in Nat
  BY DEF RouteState
<1> QED BY <1>1 DEF OwnCost, Pressure

LEMMA CostIs ==
  ASSUME field \in [Routes -> RouteState], NEW r \in Routes
  PROVE  /\ Cost(r) = OwnCost(BaseCost[r], field[r]) + Saturation(r)
         /\ OwnCost(BaseCost[r], field[r]) \in Nat /\ Saturation(r) \in Nat
         /\ Cost(r) \in Nat
<1> DEFINE f == field[r]
<1>1. f \in RouteState /\ BaseCost[r] \in Nat
  BY RouteAssumption
<1>2. f.scar \in Nat /\ f.weather \in Nat
  BY <1>1 DEF RouteState
<1>3. Saturation(r) \in Nat
  BY DEF Saturation
<1>4. Cost(r) = BaseCost[r] + 2 * f.scar + Saturation(r) + f.weather
        + (IF f.premise = "CHALLENGED" THEN 1 ELSE 0)
        + Pressure(f.ticks) + Pressure(f.remaining)
        + (IF f.coalition = "DEGRADED" THEN 1 ELSE 0)
        + (IF f.constraint = "PENALTY" THEN 2 ELSE 0)
  BY DEF Cost
<1> HIDE DEF f
<1>5. Cost(r) = OwnCost(BaseCost[r], f) + Saturation(r)
  BY <1>1, <1>2, <1>3, <1>4 DEF OwnCost, Pressure
<1>6. OwnCost(BaseCost[r], f) \in Nat
  BY <1>1, OwnCostFacts
<1>7. Cost(r) \in Nat
  BY <1>3, <1>5, <1>6
<1> QED BY <1>3, <1>5, <1>6, <1>7 DEF f

\* No better is not admitted where it was not, and costs no less where it is.
LEMMA NoBetterAdmits ==
  ASSUME NEW r \in Routes, NEW f \in RouteState, NEW g \in RouteState,
         NoBetter(f, g), Admits(r, g)
  PROVE  Admits(r, f) /\ OwnCost(BaseCost[r], f) <= OwnCost(BaseCost[r], g)
<1>f. /\ f.remaining \in 0 .. 2 /\ f.ticks \in 0 .. 2 /\ f.premise \in States
      /\ f.coalition \in {"none", "ACTIVE", "DEGRADED", "DISSOLVED"}
      /\ f.constraint \in {"none", "PENALTY", "BLOCK"}
      /\ f.scar \in 0 .. 1 /\ f.weather \in 0 .. 2
  BY DEF RouteState
<1>g. /\ g.remaining \in 0 .. 2 /\ g.ticks \in 0 .. 2 /\ g.premise \in States
      /\ g.coalition \in {"none", "ACTIVE", "DEGRADED", "DISSOLVED"}
      /\ g.constraint \in {"none", "PENALTY", "BLOCK"}
      /\ g.scar \in 0 .. 1 /\ g.weather \in 0 .. 2
  BY DEF RouteState
<1>1. Admits(r, f)
  BY <1>f, <1>g DEF Admits, NoBetter
<1>2. f.scar <= g.scar /\ f.weather <= g.weather
  BY DEF NoBetter
<1>3. Pressure(f.ticks) <= Pressure(g.ticks) /\ Pressure(f.remaining) <= Pressure(g.remaining)
  BY <1>f, <1>g DEF NoBetter, Pressure
<1>4. f.premise = "CHALLENGED" => g.premise = "CHALLENGED"
  BY DEF NoBetter, Admits
<1>5. f.coalition = "DEGRADED" => g.coalition = "DEGRADED"
  BY DEF NoBetter, Admits
<1>6. f.constraint = "PENALTY" => g.constraint = "PENALTY"
  BY DEF NoBetter, Admits
<1>7. /\ Pressure(f.ticks) \in Nat /\ Pressure(g.ticks) \in Nat
      /\ Pressure(f.remaining) \in Nat /\ Pressure(g.remaining) \in Nat
      /\ BaseCost[r] \in Nat
  BY RouteAssumption DEF Pressure
<1>8. OwnCost(BaseCost[r], f) <= OwnCost(BaseCost[r], g)
  BY <1>f, <1>g, <1>2, <1>3, <1>4, <1>5, <1>6, <1>7 DEF OwnCost
<1> QED BY <1>1, <1>8

LEMMA MinOf ==
  ASSUME NEW S \in SUBSET Nat, S # {}
  PROVE  Min(S) \in S /\ \A y \in S : Min(S) <= y
BY LeastNatural DEF Min

\* Of what is admissible, the smallest of the cheapest.
Cheapest == {r \in Admissible : \A q \in Admissible : Cost(r) <= Cost(q)}

LEMMA SelectedFacts ==
  ASSUME field \in [Routes -> RouteState], Admissible # {}
  PROVE  /\ Selected \in Cheapest /\ Selected = Min(Cheapest)
         /\ \A q \in Cheapest : Selected <= q
<1>1. Admissible \in SUBSET Routes /\ \A r \in Admissible : Cost(r) \in Nat
  BY CostIs DEF Admissible
<1> DEFINE costs == {Cost(r) : r \in Admissible}
<1>2. costs \in SUBSET Nat /\ costs # {}
  BY <1>1
<1>3. PICK n \in costs : \A m \in costs : n <= m
  <2> HIDE DEF costs
  <2> QED BY <1>2, LeastNatural
<1>4. PICK r \in Admissible : n = Cost(r)
  BY <1>3
<1>5. r \in Cheapest
  BY <1>3, <1>4 DEF Cheapest
<1>6. Cheapest \in SUBSET Nat
  BY <1>1, RouteAssumption DEF Cheapest
<1>7. Selected = Min(Cheapest)
  BY DEF Selected, Cheapest
<1> QED BY <1>5, <1>6, <1>7, MinOf

LEMMA SelectedIsRoute ==
  ASSUME field \in [Routes -> RouteState]
  PROVE  (Selected # NoRoute <=> Admissible # {}) /\ (Selected # NoRoute => Selected \in Admissible)
<1>1. 0 \notin Admissible
  BY RouteAssumption DEF Admissible
<1>2. CASE Admissible = {}
  BY <1>2 DEF Selected
<1>3. CASE Admissible # {}
  BY <1>1, <1>3, SelectedFacts DEF Cheapest, NoRoute
<1> QED BY <1>2, <1>3

RouterInv == field \in [Routes -> RouteState] /\ RouterTypeOK

LEMMA RouterInvInit == RouterInit => RouterInv
<1> SUFFICES ASSUME RouterInit PROVE RouterInv
  OBVIOUS
<1>1. PICK lost \in SUBSET Routes :
        field = [r \in Routes |-> [Fresh(r) EXCEPT !.revoked = r \in lost]]
  BY DEF RouterInit
<1>2. ASSUME NEW r \in Routes PROVE [Fresh(r) EXCEPT !.revoked = r \in lost] \in RouteState
  <2>1. Fresh(r) \in RouteState
    BY DEF Fresh, RouteState, States
  <2>2. (r \in lost) \in BOOLEAN
    OBVIOUS
  <2> QED BY <2>1, <2>2 DEF RouteState
<1>3. field \in [Routes -> RouteState]
  BY <1>1, <1>2
<1>4. comparisons \subseteq Comparisons /\ changes \in 0 .. MaxChanges
  BY RouteAssumption DEF RouterInit
<1> QED BY <1>3, <1>4 DEF RouterInv, RouterTypeOK

LEMMA CompareType ==
  ASSUME field \in [Routes -> RouteState], NEW l \in Bindings
  PROVE  Compare(l) \in Comparisons
<1>1. /\ l.bound \in BOOLEAN /\ l.route \in Routes \union {NoRoute}
      /\ ~l.bound => l.route = NoRoute
  <2>1. CASE l \in [bound : {TRUE}, route : Routes \union {NoRoute}]
    BY <2>1
  <2>2. CASE l = [bound |-> FALSE, route |-> NoRoute]
    BY <2>2
  <2> QED BY <2>1, <2>2 DEF Bindings
<1>2. NoRoute \notin Routes
  BY RouteAssumption DEF NoRoute
<1>3. Admissible \subseteq Routes
  BY DEF Admissible
<1>4. /\ l.route \in Admissible => Known(l.route) = "yes"
      /\ l.route \in Routes \ Admissible => Known(l.route) = "no"
      /\ l.route = NoRoute => Known(l.route) = Unknown
  BY <1>2, <1>3 DEF Known
<1>5. Unknown # "no"
  BY DEF Unknown
<1>6. CASE ~l.bound
  BY <1>1, <1>4, <1>6 DEF Compare, Comparisons
<1>7. CASE l.bound /\ Known(l.route) = "no"
  BY <1>7 DEF Compare, Comparisons
<1>8. CASE l.bound /\ Known(l.route) # "no"
  <2>1. l.route \in Admissible \/ l.route = NoRoute
    BY <1>1, <1>4, <1>8
  <2>2. CASE Selected = NoRoute
    <3>1. l.route = NoRoute
      BY <2>1, <2>2, SelectedIsRoute
    <3>2. Compare(l) = [state |-> "VNEXT_NO_ROUTE", admissible |-> Unknown]
      BY <1>4, <1>8, <2>2, <3>1 DEF Compare
    <3> QED BY <3>2 DEF Comparisons
  <2>3. CASE Selected # NoRoute /\ Selected = l.route
    <3>1. Known(l.route) = "yes"
      BY <1>4, <2>3, SelectedIsRoute
    <3>2. Compare(l) = [state |-> "AGREE", admissible |-> "yes"]
      BY <1>8, <2>3, <3>1 DEF Compare
    <3> QED BY <3>2 DEF Comparisons
  <2>4. CASE Selected # NoRoute /\ Selected # l.route
    <3>1. Known(l.route) \in {"yes", Unknown}
      BY <1>4, <2>1
    <3>2. Compare(l) = [state |-> "DIVERGE", admissible |-> Known(l.route)]
      BY <1>8, <2>4 DEF Compare
    <3> QED BY <3>1, <3>2 DEF Comparisons
  <2> QED BY <2>2, <2>3, <2>4
<1> QED BY <1>1, <1>6, <1>7, <1>8

LEMMA ChangedStep ==
  ASSUME RouterInv, NEW r \in Routes, NEW g \in RouteState, Changed(r, g)
  PROVE  RouterInv'
<1>1. /\ field' = [field EXCEPT ![r] = g] /\ changes < MaxChanges
      /\ changes' = changes + 1 /\ UNCHANGED comparisons
  BY DEF Changed
<1>2. field' \in [Routes -> RouteState]
  BY <1>1 DEF RouterInv
<1>3. changes' \in 0 .. MaxChanges
  BY <1>1, RouteAssumption DEF RouterInv, RouterTypeOK
<1> QED BY <1>1, <1>2, <1>3 DEF RouterInv, RouterTypeOK

LEMMA RouterStep == RouterInv /\ [RouterNext]_routerVars => RouterInv'
<1> SUFFICES ASSUME RouterInv, [RouterNext]_routerVars PROVE RouterInv'
  OBVIOUS
<1>0. field \in [Routes -> RouteState]
  BY DEF RouterInv
<1>1. ASSUME NEW r \in Routes, NEW g \in Worse(r), Changed(r, g) PROVE RouterInv'
  BY <1>0, <1>1, WorseIsNoBetter, ChangedStep
<1>2. ASSUME NEW r \in Routes, NEW g \in Better(r), Changed(r, g) PROVE RouterInv'
  BY <1>0, <1>2, BetterIsState, ChangedStep
<1>3. ASSUME NEW r \in Routes, Changed(r, [field[r] EXCEPT !.dominant = TRUE])
      PROVE  RouterInv'
  BY <1>0, <1>3, BetterIsState, ChangedStep
<1>4. ASSUME NEW l \in Bindings, NEW failed \in BOOLEAN, Observe(l, failed)
      PROVE  RouterInv'
  <2>1. Compare(l) \in Comparisons
    BY <1>0, CompareType
  <2>2. [state |-> "VNEXT_ERROR", admissible |-> Unknown] \in Comparisons
    BY DEF Comparisons
  <2>3. /\ comparisons' \subseteq comparisons \union
             {Compare(l), [state |-> "VNEXT_ERROR", admissible |-> Unknown]}
        /\ UNCHANGED <<field, changes>>
    BY <1>4 DEF Observe
  <2> QED BY <2>1, <2>2, <2>3 DEF RouterInv, RouterTypeOK
<1>5. CASE UNCHANGED routerVars
  BY <1>5 DEF routerVars, RouterInv, RouterTypeOK
<1> QED BY <1>1, <1>2, <1>3, <1>4, <1>5 DEF RouterNext

CostsTyped ==
  \A r \in Routes : /\ Cost(r) = OwnCost(BaseCost[r], field[r]) + Saturation(r)
                    /\ OwnCost(BaseCost[r], field[r]) \in Nat /\ Saturation(r) \in Nat
                    /\ Cost(r) \in Nat

SelectedIsCheapest ==
  Admissible # {} => Selected \in Cheapest /\ \A q \in Cheapest : Selected <= q

\* The same of the state that a step leads to.
LEMMA RoutedThen == field \in [Routes -> RouteState] => CostsTyped /\ SelectedIsCheapest
BY CostIs, SelectedFacts DEF CostsTyped, SelectedIsCheapest

LEMMA RoutedNext ==
  (field \in [Routes -> RouteState])' => CostsTyped' /\ SelectedIsCheapest'
BY RoutedThen, PTL

\* A route that gets worse without being the selected one leaves the selected
\* one admissible and as cheap as it was, and makes no other any cheaper.
LEMMA LoserWorsens ==
  ASSUME field \in [Routes -> RouteState], NEW s \in Admissible,
         NEW r \in Routes \ {s}, NEW g \in Worse(r),
         field' = [field EXCEPT ![r] = g]
  PROVE  /\ field' \in [Routes -> RouteState]
         /\ s \in Admissible' /\ Cost(s)' <= Cost(s)
         /\ \A q \in Admissible' : q \in Admissible
         /\ \A q \in Admissible' \ {s} : Cost(q) <= Cost(q)'
<1>1. s \in Routes /\ s # r
  BY DEF Admissible
<1>2. g \in RouteState /\ NoBetter(field[r], g) /\ field[r] \in RouteState
  BY WorseIsNoBetter
<1>3. /\ field' \in [Routes -> RouteState] /\ field'[r] = g
      /\ \A q \in Routes \ {r} : field'[q] = field[q]
  BY <1>2
<1>4. Admissible' = {q \in Routes : Admits(q, field'[q])}
  BY AdmissibleIs DEF Admissible, Admits, Capable, PremiseAllows
<1>5. s \in Admissible'
  BY <1>1, <1>3, <1>4, AdmissibleIs
<1>6. \A q \in Admissible' : q \in Admissible
  BY <1>2, <1>3, <1>4, AdmissibleIs, NoBetterAdmits
<1>7. \A q \in Routes : field'[q].dominant = field[q].dominant
  BY <1>2, <1>3 DEF NoBetter
<1>8. Saturation(s)' <= Saturation(s)
  <2>1. Admissible' \ {s} # {} => Admissible \ {s} # {}
    BY <1>6
  <2> QED BY <1>1, <1>7, <2>1 DEF Saturation
<1>9. \A q \in Routes \ {s} : Saturation(q)' = Saturation(q)
  <2> TAKE q \in Routes \ {s}
  <2>1. Admissible' \ {q} # {} /\ Admissible \ {q} # {}
    BY <1>5
  <2> QED BY <1>7, <2>1 DEF Saturation
<1>10. ASSUME NEW q \in Routes
       PROVE  /\ Cost(q) = OwnCost(BaseCost[q], field[q]) + Saturation(q)
              /\ OwnCost(BaseCost[q], field[q]) \in Nat /\ Saturation(q) \in Nat
              /\ Cost(q)' = OwnCost(BaseCost[q], field'[q]) + Saturation(q)'
              /\ OwnCost(BaseCost[q], field'[q]) \in Nat /\ Saturation(q)' \in Nat
  <2>1. CostsTyped /\ CostsTyped'
    BY <1>3, RoutedThen, RoutedNext
  <2>2. /\ Cost(q)' = OwnCost(BaseCost[q], field[q])' + Saturation(q)'
        /\ OwnCost(BaseCost[q], field[q])' \in Nat /\ Saturation(q)' \in Nat
    BY <2>1 DEF CostsTyped
  <2>3. OwnCost(BaseCost[q], field[q])' = OwnCost(BaseCost[q], field'[q])
    BY DEF OwnCost, Pressure
  <2> QED BY <2>1, <2>2, <2>3 DEF CostsTyped
<1>11. Cost(s)' <= Cost(s)
  BY <1>1, <1>3, <1>8, <1>10
<1>12. ASSUME NEW q \in Admissible' \ {s} PROVE Cost(q) <= Cost(q)'
  <2>1. q \in Routes /\ q \in Admissible /\ Saturation(q)' = Saturation(q)
    BY <1>4, <1>6, <1>9
  <2>2. OwnCost(BaseCost[q], field[q]) <= OwnCost(BaseCost[q], field'[q])
    <3>1. CASE q = r
      BY <3>1, <1>2, <1>3, <1>4, NoBetterAdmits
    <3>2. CASE q # r
      BY <3>2, <2>1, <1>3, <1>10
    <3> QED BY <3>1, <3>2
  <2> QED BY <2>1, <2>2, <1>10
<1> QED BY <1>3, <1>5, <1>6, <1>11, <1>12

LEMMA LoserDoesNotSteer ==
  ASSUME field \in [Routes -> RouteState], Admissible # {},
         NEW r \in Routes \ {Selected}, NEW g \in Worse(r),
         field' = [field EXCEPT ![r] = g]
  PROVE  Selected' = Selected
<1>0. PICK s \in Admissible : s = Selected
  BY SelectedFacts DEF Cheapest
<1>1. /\ field' \in [Routes -> RouteState]
      /\ s \in Admissible' /\ Cost(s)' <= Cost(s)
      /\ \A q \in Admissible' : q \in Admissible
      /\ \A q \in Admissible' \ {s} : Cost(q) <= Cost(q)'
  BY <1>0, LoserWorsens
<1>2. s \in Cheapest /\ \A q \in Cheapest : s <= q
  BY <1>0, SelectedFacts
<1>3. CostsTyped /\ CostsTyped' /\ SelectedIsCheapest'
  BY <1>1, RoutedThen, RoutedNext
<1>4. PICK t \in Admissible' : t = Selected' /\ t \in Cheapest' /\ \A q \in Cheapest' : t <= q
  BY <1>1, <1>3 DEF SelectedIsCheapest, Cheapest
<1>5. \A q : q \in Cheapest'
             <=> q \in Admissible' /\ \A p \in Admissible' : Cost(q)' <= Cost(p)'
  BY DEF Cheapest
<1>6. /\ \A q \in Admissible : q \in Routes /\ Cost(q) \in Nat
      /\ \A q \in Admissible' : q \in Routes /\ Cost(q)' \in Nat
  BY <1>1, <1>3 DEF Admissible, CostsTyped
<1>7. s \in Admissible /\ \A q \in Admissible : Cost(s) <= Cost(q)
  BY <1>2 DEF Cheapest
<1>8. ASSUME NEW q \in Admissible' PROVE Cost(s)' <= Cost(q)'
  <2>1. CASE q = s
    BY <2>1, <1>1, <1>6
  <2>2. CASE q # s
    <3>1. Cost(s) <= Cost(q) /\ Cost(q) <= Cost(q)' /\ Cost(s)' <= Cost(s)
      BY <2>2, <1>1, <1>7
    <3>2. Cost(s) \in Nat /\ Cost(q) \in Nat /\ Cost(q)' \in Nat /\ Cost(s)' \in Nat
      BY <1>1, <1>6
    <3> QED BY <3>1, <3>2
  <2> QED BY <2>1, <2>2
<1>9. s \in Cheapest'
  BY <1>1, <1>5, <1>8
<1>10. t \in Cheapest
  <2>1. t \in Admissible /\ Cost(t)' <= Cost(s)'
    BY <1>1, <1>4, <1>5
  <2>2. CASE t = s
    BY <2>2, <1>2
  <2>3. CASE t # s
    <3>1. Cost(t) <= Cost(t)' /\ Cost(s)' <= Cost(s)
      BY <1>1, <2>3
    <3>2. Cost(t) \in Nat /\ Cost(t)' \in Nat /\ Cost(s) \in Nat /\ Cost(s)' \in Nat
      BY <1>1, <1>6, <2>1
    <3>3. Cost(t) <= Cost(s)
      BY <2>1, <3>1, <3>2
    <3>4. \A q \in Admissible : Cost(t) <= Cost(q)
      BY <1>6, <1>7, <2>1, <3>3
    <3> QED BY <2>1, <3>4 DEF Cheapest
  <2> QED BY <2>2, <2>3
<1>11. s <= t /\ t <= s
  BY <1>2, <1>4, <1>9, <1>10
<1>12. s \in Nat /\ t \in Nat
  BY <1>6, RouteAssumption
<1> QED BY <1>0, <1>4, <1>11, <1>12

\* For any number of routes at any costs: whichever of the routes that were not
\* selected gets worse, the selected one stays selected.
THEOREM LosersNeverSteer == RouterSpec => LosersDoNotSteer
<1>1. RouterInv /\ [RouterNext]_routerVars
      => [\A r \in Routes \ {Selected} :
            field'[r] # field[r] /\ field'[r] \in Worse(r) /\ Selected # NoRoute
              => Selected' = Selected]_routerVars
  <2> SUFFICES ASSUME RouterInv, [RouterNext]_routerVars,
                      NEW r \in Routes \ {Selected}, field'[r] # field[r],
                      field'[r] \in Worse(r), Selected # NoRoute
               PROVE  Selected' = Selected
    OBVIOUS
  <2>0. field \in [Routes -> RouteState] /\ Admissible # {}
    BY SelectedIsRoute DEF RouterInv
  <2>1. field' # field
    OBVIOUS
  <2>2. PICK q \in Routes : \E g : field' = [field EXCEPT ![q] = g]
    BY <2>1 DEF RouterNext, Changed, Observe, routerVars
  <2>3. q = r /\ field' = [field EXCEPT ![r] = field'[r]]
    BY <2>0, <2>2
  <2> QED BY <2>0, <2>3, LoserDoesNotSteer
<1> QED BY <1>1, RouterInvInit, RouterStep, PTL DEF RouterSpec, LosersDoNotSteer

\* Every comparison is one the witness bench can count, for any number of routes.
THEOREM ComparisonsStayCountable == RouterSpec => []RouterTypeOK
<1>1. RouterInv => RouterTypeOK
  BY DEF RouterInv
<1> QED BY <1>1, RouterInvInit, RouterStep, PTL DEF RouterSpec

-----------------------------------------------------------------------------
(* The types.                                                              *)

\* The strata and the premise hold what their constructors accept, a policy lies
\* inside a grant of whoever set it, a premise holds verified challenges only.
THEOREM GovernanceTypeCorrect == GovernanceSpec => [](MutabilityTypeOK /\ PremiseTypeOK)
<1>1. GovernanceInv => MutabilityTypeOK /\ PremiseTypeOK
  BY DEF GovernanceInv, MutabilityInv, PremiseInv
<1> QED BY <1>1, GovernanceInvInit, GovernanceStep, PTL DEF GovernanceSpec

\* A behaviour of all the libraries is one of each of them.
LibraryInv ==
  /\ GovernanceInv /\ CarriageInv /\ ClockInv /\ CoalitionInv /\ RouterInv
  /\ PromotionInv /\ SessionInv

LEMMA LibraryInvInit == LibraryInit => LibraryInv
BY GovernanceInvInit, CarriageInvInit, ClockInvInit, CoalitionInvInit, RouterInvInit,
   PromotionInvInit, SessionInvInit DEF LibraryInit, LibraryInv

LEMMA LibraryParts ==
  [LibraryNext]_allVars =>
    /\ [GovernanceNext]_governanceVars /\ [CarriageNext]_carriageVars
    /\ [ClockNext]_clockVars /\ [CoalitionNext]_coalitionVars
    /\ [RouterNext]_routerVars /\ [PromotionNext]_promotionVars /\ [Next]_vars
<1> SUFFICES ASSUME [LibraryNext]_allVars
             PROVE  /\ [GovernanceNext]_governanceVars /\ [CarriageNext]_carriageVars
                    /\ [ClockNext]_clockVars /\ [CoalitionNext]_coalitionVars
                    /\ [RouterNext]_routerVars /\ [PromotionNext]_promotionVars
                    /\ [Next]_vars
  OBVIOUS
<1>1. CASE UNCHANGED allVars
  BY <1>1 DEF allVars, governanceVars
<1>2. CASE /\ ConstitutionNext \/ PolicyNext
           /\ UNCHANGED <<premiseVars, carriageVars, clockVars, coalitionVars,
                          routerVars, promotionVars, vars>>
  BY <1>2 DEF GovernanceNext
<1>3. CASE /\ PremiseNext \/ (WeatherNext /\ UNCHANGED premiseVars)
           /\ UNCHANGED <<carriageVars, clockVars, coalitionVars,
                          routerVars, promotionVars, vars>>
  BY <1>3 DEF GovernanceNext
<1>4. CASE CarriageNext \/ ClockNext \/ CoalitionNext \/ RouterNext \/ PromotionNext \/ Next
  <2>1. CASE UNCHANGED <<mutabilityVars, premiseVars>>
    BY <1>4, <2>1 DEF governanceVars, LibraryNext, allVars
  <2> QED BY <1>4, <2>1, <1>1, <1>2, <1>3 DEF LibraryNext
<1> QED BY <1>1, <1>2, <1>3, <1>4 DEF LibraryNext

LEMMA LibraryStep == LibraryInv /\ [LibraryNext]_allVars => LibraryInv'
BY LibraryParts, GovernanceStep, CarriageStep, ClockStep, CoalitionStep, RouterStep,
   PromotionStepInv, SessionInvNext DEF LibraryInv

\* Every library's values stay what their constructors accept, whichever of
\* them is used and however often.
THEOREM LibraryTypeCorrect == LibrarySpec => []LibraryTypeOK
<1>1. LibraryInv => LibraryTypeOK
  BY DEF LibraryInv, LibraryTypeOK, GovernanceInv, MutabilityInv, PremiseInv,
         CarriageInv, CoalitionInv, RouterInv, PromotionInv
<1> QED BY <1>1, LibraryInvInit, LibraryStep, PTL DEF LibrarySpec

=============================================================================
