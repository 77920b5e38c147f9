----------------------------- MODULE Coalition ------------------------------
(***************************************************************************)
(* Coalitions and the warrants they are lent (coalition.py).  A charter is *)
(* drafted, activated, degraded and disbanded; while it is active a        *)
(* sponsor may issue it child warrants, each paid for out of the sponsor's *)
(* own budget at the moment of the grant.  Charters and warrants are       *)
(* separate values: disbanding a coalition changes its charter and the one *)
(* warrant it is given.                                                    *)
(***************************************************************************)
EXTENDS Naturals, Sequences, FiniteSets, Functions

CONSTANTS
  Coalitions, Members,
  CharterExpiry,   \* per coalition: expires_at
  SponsorExpiry, SponsorLimit,     \* the sponsoring warrant: lifetime and budget
  MaxTime, MaxChildren             \* bounds: time, child warrants

ASSUME CoalitionAssumption ==
  /\ CharterExpiry \in [Coalitions -> Nat] /\ SponsorExpiry \in Nat
  /\ SponsorLimit \in Nat /\ MaxTime \in Nat

VARIABLES
  time,      \* the clock the calls are made at
  charters,  \* per coalition: its CoalitionCharter
  sponsor,   \* the sponsoring Warrant, and what of it the sponsor itself used
  children   \* the coalition warrants, in the order of their grants

coalitionVars == <<time, charters, sponsor, children>>

Active == {"ACTIVE", "DEGRADED"}

\* __post_init__ refuses an active coalition of fewer than two members.
Charter ==
  {c \in [state : {"DRAFT", "ACTIVE", "DEGRADED", "DISSOLVED"}, active : SUBSET Members] :
     IF c.state \in Active THEN Cardinality(c.active) >= 2 ELSE c.active = {}}
Child == [coalition : Coalitions, limit : Nat, spent : Nat,
          expires_at : Nat, revoked : BOOLEAN]

CoalitionInit ==
  /\ time = 0
  /\ charters = [c \in Coalitions |-> [state |-> "DRAFT", active |-> {}]]
  /\ sponsor = [spent |-> 0, own |-> 0, revoked |-> FALSE]
  /\ children = <<>>

\* activate_coalition
Activate(c, members) ==
  /\ charters[c].state = "DRAFT" /\ time < CharterExpiry[c]
  /\ Cardinality(members) >= 2
  /\ charters' = [charters EXCEPT ![c] = [state |-> "ACTIVE", active |-> members]]
  /\ UNCHANGED <<time, sponsor, children>>

\* Variant of ChildExpiry that forgets the sponsor's.
ChildExpiryOfCharter(c) == CharterExpiry[c]

ChildExpiry(c) ==
  IF CharterExpiry[c] <= SponsorExpiry THEN CharterExpiry[c] ELSE SponsorExpiry

\* Variant of Reserve that only checks the sponsor's budget.
ReserveNothing(limit) ==
  /\ limit <= SponsorLimit - sponsor.spent
  /\ UNCHANGED sponsor

Reserve(limit) ==
  /\ limit <= SponsorLimit - sponsor.spent
  /\ sponsor' = [sponsor EXCEPT !.spent = @ + limit]

\* issue_coalition_warrant: as often as the budget lasts.
IssueCoalitionWarrant(c, limit) ==
  /\ charters[c].state \in Active /\ time < CharterExpiry[c]
  /\ ~sponsor.revoked /\ time < SponsorExpiry
  /\ Len(children) < MaxChildren
  /\ Reserve(limit)
  /\ children' = Append(children,
       [coalition |-> c, limit |-> limit, spent |-> 0,
        expires_at |-> ChildExpiry(c), revoked |-> FALSE])
  /\ UNCHANGED <<time, charters>>

\* degrade_coalition
Degrade(c, unavailable) ==
  /\ charters[c].state \in Active /\ time < CharterExpiry[c]
  /\ unavailable # {} /\ unavailable \subseteq charters[c].active
  /\ Cardinality(charters[c].active \ unavailable) >= 2
  /\ charters' = [charters EXCEPT ![c] =
                    [state |-> "DEGRADED", active |-> @.active \ unavailable]]
  /\ UNCHANGED <<time, sponsor, children>>

\* disband_coalition, with the i-th child: a draft, an expired or a degraded
\* coalition as well; the warrant may have been revoked before.
Disband(c, i) ==
  /\ charters[c].state # "DISSOLVED"
  /\ children[i].coalition = c
  /\ charters' = [charters EXCEPT ![c] = [state |-> "DISSOLVED", active |-> {}]]
  /\ children' = [children EXCEPT ![i].revoked = TRUE]
  /\ UNCHANGED <<time, sponsor>>

\* Warrant.spend by the coalition; nobody looks at charter or sponsor again.
SpendChild(i, amount) ==
  /\ ~children[i].revoked /\ time < children[i].expires_at
  /\ amount <= children[i].limit - children[i].spent
  /\ children' = [children EXCEPT ![i].spent = @ + amount]
  /\ UNCHANGED <<time, charters, sponsor>>

\* Warrant.spend by the sponsor itself
SpendSponsor(amount) ==
  /\ ~sponsor.revoked /\ time < SponsorExpiry
  /\ amount <= SponsorLimit - sponsor.spent
  /\ sponsor' = [sponsor EXCEPT !.spent = @ + amount, !.own = @ + amount]
  /\ UNCHANGED <<time, charters, children>>

\* Warrant.revoke: the children are not told.
RevokeSponsor ==
  /\ ~sponsor.revoked
  /\ sponsor' = [sponsor EXCEPT !.revoked = TRUE]
  /\ UNCHANGED <<time, charters, children>>

Tick ==
  /\ time < MaxTime
  /\ time' = time + 1
  /\ UNCHANGED <<charters, sponsor, children>>

CoalitionNext ==
  \/ \E c \in Coalitions :
       \/ \E members \in SUBSET Members : Activate(c, members) \/ Degrade(c, members)
       \/ \E limit \in 0 .. SponsorLimit : IssueCoalitionWarrant(c, limit)
       \/ \E i \in DOMAIN children : Disband(c, i)
  \/ \E i \in DOMAIN children, n \in 1 .. SponsorLimit : SpendChild(i, n)
  \/ \E n \in 1 .. SponsorLimit : SpendSponsor(n)
  \/ RevokeSponsor
  \/ Tick

CoalitionSpec == CoalitionInit /\ [][CoalitionNext]_coalitionVars

-----------------------------------------------------------------------------
(* Correctness.                                                            *)

\* Every variable has its type; in particular every charter is one that its
\* own constructor accepts, whatever sequence of calls led to it.
CoalitionTypeOK ==
  /\ time \in 0 .. MaxTime
  /\ charters \in [Coalitions -> Charter]
  /\ sponsor \in [spent : 0 .. SponsorLimit, own : Nat, revoked : BOOLEAN]
  /\ children \in Seq(Child)

LentOut == SumFunction([i \in DOMAIN children |-> children[i].limit])
UsedUp == SumFunction([i \in DOMAIN children |-> children[i].spent])

\* However many coalitions and the sponsor itself draw on one warrant, in
\* whatever order, together they never use more than it grants; what was lent
\* and not used is not given back.
BudgetIsConserved ==
  /\ UsedUp + sponsor.own <= SponsorLimit
  /\ LentOut + sponsor.own = sponsor.spent

\* No coalition spends after its charter or its sponsor's warrant has run out,
\* although neither is consulted when it spends.
SpendingIsAlive ==
  [][\A i \in DOMAIN children :
       children'[i].spent # children[i].spent =>
         time < CharterExpiry[children[i].coalition] /\ time < SponsorExpiry]_coalitionVars
=============================================================================
