--------------------------- MODULE ControlSession ---------------------------
(***************************************************************************)
(* A bounded-control session (control_witness.py): one lease under one     *)
(* contract.  Its owner asks for licenses and reports outcomes; a human    *)
(* may veto it, or the runtime terminate it, at any moment, also while an  *)
(* action is under way.  Every refusal is terminal.  The session value a   *)
(* call returns replaces the one it was given.                             *)
(***************************************************************************)
EXTENDS Warrant, Sequences

CONSTANTS
  Rules,             \* the contract's action rules, each with its own scope
  MaxCount,          \* per rule: max_count
  MaxTotalActions,   \* max_total_actions
  MaxClockTicks,     \* max_clock_ticks
  Requests           \* the control actions asked for

NoRule == "no rule"

IsRequest(q) ==
  /\ DOMAIN q = {"rule", "actor", "ticks", "spends", "evidenced"}
  /\ q.rule \in Rules \union {NoRule}   \* the rule the scope matches, if any
  /\ q.actor \in BOOLEAN                \* made by the session's actor
  /\ q.ticks \in Nat
  /\ IsSpend(q.spends)
  /\ q.evidenced \in BOOLEAN            \* carries all required evidence

ASSUME ContractAssumption ==
  /\ Scopes = Rules /\ NoRule \notin Rules
  /\ MaxCount \in [Rules -> Nat \ {0}]
  /\ MaxTotalActions \in Nat \ {0} /\ MaxClockTicks \in Nat \ {0}
  /\ \A q \in Requests : IsRequest(q)

VARIABLES
  session,    \* the ControlSession
  expired,    \* TRUE once the warrant's lifetime is over
  collapsed,  \* TRUE once the promotion state has gone back to SHADOW
  receipts    \* receipted licenses and outcomes, in order

vars == <<session, expired, collapsed, receipts>>

Session ==
  [warrant          : Warrants,
   actions_used     : Nat,
   clock_ticks_used : Nat,
   action_usage     : [Rules -> Nat],
   pending          : BOOLEAN,
   stopped          : BOOLEAN]

\* start_control_session
Init ==
  /\ session = [warrant |-> Unspent, actions_used |-> 0, clock_ticks_used |-> 0,
                action_usage |-> [r \in Rules |-> 0],
                pending |-> FALSE, stopped |-> FALSE]
  /\ expired = FALSE
  /\ collapsed = FALSE
  /\ receipts = <<>>

-----------------------------------------------------------------------------
(* license_control_action                                                  *)

\* Variant of Licensable that forgets the action still pending.
LicensablePending(s, q) ==
  /\ ~s.stopped
  /\ q.actor /\ q.rule \in Rules
  /\ s.actions_used < MaxTotalActions
  /\ s.action_usage[q.rule] < MaxCount[q.rule]
  /\ s.clock_ticks_used + q.ticks <= MaxClockTicks
  /\ q.evidenced
  /\ Authorized(s.warrant, q.rule, expired)
  /\ Affordable(s.warrant, q.spends)

\* Variant of Licensable that allows one action too many under a rule.
LicensableOnceMore(s, q) ==
  /\ ~s.stopped /\ ~s.pending
  /\ q.actor /\ q.rule \in Rules
  /\ s.actions_used < MaxTotalActions
  /\ s.action_usage[q.rule] <= MaxCount[q.rule]
  /\ s.clock_ticks_used + q.ticks <= MaxClockTicks
  /\ q.evidenced
  /\ Authorized(s.warrant, q.rule, expired)
  /\ Affordable(s.warrant, q.spends)

Licensable(s, q) ==
  /\ ~s.stopped /\ ~s.pending
  /\ q.actor /\ q.rule \in Rules
  /\ s.actions_used < MaxTotalActions
  /\ s.action_usage[q.rule] < MaxCount[q.rule]
  /\ s.clock_ticks_used + q.ticks <= MaxClockTicks
  /\ q.evidenced
  /\ Authorized(s.warrant, q.rule, expired)
  /\ Affordable(s.warrant, q.spends)

UsedOnceMore(usage, r) == [usage EXCEPT ![r] = @ + 1]

Charged(s, q) ==
  [s EXCEPT !.warrant = Debited(@, q.spends),
            !.actions_used = @ + 1,
            !.clock_ticks_used = @ + q.ticks,
            !.action_usage = UsedOnceMore(@, q.rule),
            !.pending = TRUE]

\* Variant of Stopped that gives the action under way back.
StoppedRefunding(s) ==
  [s EXCEPT !.warrant = Revoked(@), !.stopped = TRUE,
            !.actions_used = IF s.pending /\ ~s.stopped THEN @ - 1 ELSE @]

\* A stop revokes the warrant but keeps a pending action open.
Stopped(s) == [s EXCEPT !.warrant = Revoked(@), !.stopped = TRUE]

License(q) ==
  /\ Licensable(session, q)
  /\ session' = Charged(session, q)
  /\ receipts' = Append(receipts, "license")
  /\ UNCHANGED <<expired, collapsed>>

\* _terminal_refusal; the promotion state is not consulted.
Refuse(q) ==
  /\ ~Licensable(session, q)
  /\ session' = Stopped(session)
  /\ UNCHANGED <<expired, collapsed, receipts>>

-----------------------------------------------------------------------------
(* Outcomes and stops.                                                     *)

\* Variant of Outcome that lets a success reopen a session stopped meanwhile.
OutcomeReopens(success) ==
  /\ session.pending
  /\ session' = [(IF success THEN [session EXCEPT !.stopped = FALSE]
                             ELSE Stopped(session)) EXCEPT !.pending = FALSE]
  /\ receipts' = Append(receipts, "outcome")
  /\ UNCHANGED <<expired, collapsed>>

\* record_control_outcome: also a stopped session receipts what was pending,
\* and a success does not reopen it.  A failure is terminal.
Outcome(success) ==
  /\ session.pending
  /\ session' = [(IF success THEN session ELSE Stopped(session))
                   EXCEPT !.pending = FALSE]
  /\ receipts' = Append(receipts, "outcome")
  /\ UNCHANGED <<expired, collapsed>>

\* apply_human_veto and terminate_control_session; both raise if stopped.
Stop ==
  /\ ~session.stopped
  /\ session' = Stopped(session)
  /\ UNCHANGED <<expired, collapsed, receipts>>

\* collapse_control_to_shadow
Collapse ==
  /\ ~collapsed
  /\ session.stopped
  /\ collapsed' = TRUE
  /\ UNCHANGED <<session, expired, receipts>>

Expire ==
  /\ ~expired
  /\ expired' = TRUE
  /\ UNCHANGED <<session, collapsed, receipts>>

Next ==
  \/ \E q \in Requests : License(q) \/ Refuse(q)
  \/ \E success \in BOOLEAN : Outcome(success)
  \/ Stop
  \/ Collapse
  \/ Expire

Spec == Init /\ [][Next]_vars

-----------------------------------------------------------------------------
(* Correctness.                                                            *)

\* Every variable of the model has its type; no warrant is overdrawn.
SessionTypeOK ==
  /\ session \in Session
  /\ expired \in BOOLEAN
  /\ collapsed \in BOOLEAN
  /\ receipts \in Seq({"license", "outcome"})

\* Whatever is asked for, refused, vetoed or reported in whatever order, the
\* contract bounds what is licensed in total, under each rule, and in ticks.
WithinContract ==
  /\ session.actions_used <= MaxTotalActions
  /\ \A r \in Rules : session.action_usage[r] <= MaxCount[r]
  /\ session.clock_ticks_used <= MaxClockTicks

\* A stop, by veto, refusal, failure or termination, is for good: nothing that
\* is still under way at the time, neither its outcome nor another request,
\* reopens the session, un-revokes its warrant or spends from it.
StopIsFinal ==
  [][session.stopped =>
       /\ session'.stopped
       /\ session'.warrant = session.warrant /\ session.warrant.revoked
       /\ session'.actions_used = session.actions_used]_vars

\* "post_action_receipt_required": licenses and outcomes are receipted in turn,
\* so a license is never given before the previous action's outcome is known.
ReceiptsAlternate ==
  /\ \A i \in DOMAIN receipts :
       receipts[i] = IF i % 2 = 1 THEN "license" ELSE "outcome"
  /\ session.pending <=> Len(receipts) % 2 = 1

\* Privilege collapses only after its session has stopped, so that no lease is
\* licensable once the runtime is back in SHADOW.
CollapsedIsStopped ==
  collapsed => session.stopped /\ \A q \in Requests : ~Licensable(session, q)

Lease == INSTANCE BoundedLease WITH
  Leases     <- {"session"},
  MaxActions <- MaxTotalActions,
  spent      <- [l \in {"session"} |-> session.actions_used],
  done       <- [l \in {"session"} |-> Len(receipts) - session.actions_used]

\* The session implements the lease, counting receipted outcomes as performed.
SessionHonoursLease == Lease!Spec
=============================================================================
