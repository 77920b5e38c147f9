----------------------------- MODULE ClockSkin ------------------------------
(***************************************************************************)
(* Local computational time (clockskin.py).  A lease of a WALL_RATE skin   *)
(* earns ticks by waiting, one of an EXPLICIT_SIGNAL skin by a signal      *)
(* only, and ticks of either may be bought with a budget of a warrant that *)
(* several leases share.  The callers say what time it is.                 *)
(***************************************************************************)
EXTENDS Naturals, Sequences, FiniteSets, Functions

CONSTANTS
  Skins,            \* the skins, each with one lease
  Mode,             \* per skin: "WALL_RATE" or "EXPLICIT_SIGNAL"
  TickRate,         \* ticks a WALL_RATE skin earns per unit of time
  GrantedTicks,     \* granted_ticks of each lease
  CostPerTick, WarrantLimit, WarrantExpiry,  \* the warrant that ticks are bought with
  MaxWallTime, MaxAdvances                   \* bounds: time, receipts per lease

ASSUME ClockAssumption ==
  /\ IsFiniteSet(Skins)
  /\ Mode \in [Skins -> {"WALL_RATE", "EXPLICIT_SIGNAL"}]
  /\ TickRate \in Nat \ {0} /\ GrantedTicks \in Nat
  /\ CostPerTick \in Nat /\ WarrantLimit \in Nat
  /\ MaxWallTime \in Nat

VARIABLES
  leases,    \* per skin: its ClockLease
  warrant,   \* the Warrant
  advances   \* per skin: its ClockAdvanceReceipts

clockVars == <<leases, warrant, advances>>

ClockLease == [spent_ticks : 0 .. GrantedTicks, last_wall_time : 0 .. MaxWallTime,
          closed : BOOLEAN]
Receipt == [ticks : Nat, wall_from : Nat, wall_to : Nat,
            signal : BOOLEAN, bought : BOOLEAN]

\* issue_clock_lease, opened at time 0
ClockInit ==
  /\ leases = [s \in Skins |->
                 [spent_ticks |-> 0, last_wall_time |-> 0, closed |-> FALSE]]
  /\ warrant = [spent |-> 0, revoked |-> FALSE]
  /\ advances = [s \in Skins |-> <<>>]

\* Variant of Advanced that leaves the clock of the lease where it was.
AdvancedInPlace(lease, ticks, at) == [lease EXCEPT !.spent_ticks = @ + ticks]

Advanced(lease, ticks, at) ==
  [lease EXCEPT !.spent_ticks = @ + ticks, !.last_wall_time = at]

\* _advance, which raises when the lease has not that many ticks left, and what
\* all its callers check first.
Advance(s, ticks, at, signal, bought) ==
  /\ ~leases[s].closed
  /\ at >= leases[s].last_wall_time
  /\ ticks <= GrantedTicks - leases[s].spent_ticks
  /\ Len(advances[s]) < MaxAdvances
  /\ leases' = [leases EXCEPT ![s] = Advanced(@, ticks, at)]
  /\ advances' = [advances EXCEPT ![s] =
                    Append(@, [ticks |-> ticks, wall_from |-> leases[s].last_wall_time,
                               wall_to |-> at, signal |-> signal, bought |-> bought])]

\* advance_wall_time; it can never succeed again once the waiting is worth more
\* than what is left of the lease.
AdvanceWallTime(s, at) ==
  /\ Mode[s] = "WALL_RATE"
  /\ Advance(s, (at - leases[s].last_wall_time) * TickRate, at, FALSE, FALSE)
  /\ UNCHANGED warrant

\* advance_explicit
AdvanceExplicit(s, ticks, at) ==
  /\ Mode[s] = "EXPLICIT_SIGNAL"
  /\ Advance(s, ticks, at, TRUE, FALSE)
  /\ UNCHANGED warrant

Affords(ticks) == ticks * CostPerTick <= WarrantLimit - warrant.spent

\* Variant of Debit that debits the warrant for one tick, whatever was bought.
DebitOnce(ticks) ==
  warrant' = [warrant EXCEPT !.spent = @ + (IF ticks = 0 THEN 0 ELSE CostPerTick)]

Debit(ticks) == warrant' = [warrant EXCEPT !.spent = @ + ticks * CostPerTick]

\* spend_ticks_with_warrant, by the bearer: the clock moves on without earning
\* anything, and both budgets are looked at before either is touched.
SpendTicksWithWarrant(s, ticks, at, signal) ==
  /\ signal <=> Mode[s] = "EXPLICIT_SIGNAL"
  /\ Affords(ticks)
  /\ ~warrant.revoked /\ at < WarrantExpiry
  /\ Advance(s, ticks, at, signal, TRUE)
  /\ Debit(ticks)

\* close_clock_lease
CloseClockLease(s) ==
  /\ ~leases[s].closed
  /\ leases' = [leases EXCEPT ![s].closed = TRUE]
  /\ UNCHANGED <<warrant, advances>>

RevokeWarrant ==
  /\ ~warrant.revoked
  /\ warrant' = [warrant EXCEPT !.revoked = TRUE]
  /\ UNCHANGED <<leases, advances>>

ClockNext ==
  \/ \E s \in Skins, at \in 0 .. MaxWallTime :
       \/ AdvanceWallTime(s, at)
       \/ \E ticks \in 0 .. GrantedTicks :
            \/ AdvanceExplicit(s, ticks, at)
            \/ \E signal \in BOOLEAN : SpendTicksWithWarrant(s, ticks, at, signal)
  \/ \E s \in Skins : CloseClockLease(s)
  \/ RevokeWarrant

ClockSpec == ClockInit /\ [][ClockNext]_clockVars

-----------------------------------------------------------------------------
(* Correctness.                                                            *)

Ticks(s) == SumFunction([i \in DOMAIN advances[s] |-> advances[s][i].ticks])

Bought(s) == SumFunction([i \in DOMAIN advances[s] |->
                            IF advances[s][i].bought THEN advances[s][i].ticks ELSE 0])

\* Local time is accounted for, whoever advances a lease at which time: what
\* was not bought was either signalled or waited for, no waiting counts twice,
\* and no lease runs past what it was granted.
LocalTimeIsEarned ==
  \A s \in Skins :
    /\ leases[s] \in ClockLease
    /\ leases[s].spent_ticks = Ticks(s)
    /\ Mode[s] = "WALL_RATE" =>
         leases[s].spent_ticks - Bought(s) <= leases[s].last_wall_time * TickRate
    /\ Mode[s] = "EXPLICIT_SIGNAL" =>
         \A i \in DOMAIN advances[s] : advances[s][i].signal

\* Ticks and warrant are spent together: the warrant has paid for exactly the
\* ticks that were bought on all leases, within its limit.
WarrantPaysForTicks ==
  /\ warrant.spent <= WarrantLimit
  /\ warrant.spent = CostPerTick * SumFunction([s \in Skins |-> Bought(s)])
=============================================================================
