--------------------------- MODULE ControlLadder ---------------------------
(***************************************************************************)
(* What the operator control surface promises, without its file, flags or  *)
(* commands: containment is a ladder of four rungs.  An operator may climb *)
(* any number of rungs at once, but may come down only one at a time, so a *)
(* sealed runtime always passes through quarantine and review on its way   *)
(* back to normal.                                                         *)
(***************************************************************************)
EXTENDS Naturals

VARIABLE rung   \* 0 clear, 1 review, 2 quarantine, 3 seal

Rungs == 0 .. 3

Init == rung = 0

\* review, quarantine and seal contain the runtime further.
Raise == \E higher \in Rungs : rung < higher /\ rung' = higher

\* approve, clear_review, release_quarantine and recover_from_seal.
Lower == rung > 0 /\ rung' = rung - 1

Next == Raise \/ Lower

Spec == Init /\ [][Next]_rung
=============================================================================
