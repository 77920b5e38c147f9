---------------------------- MODULE BoundedLease ----------------------------
(***************************************************************************)
(* What a bounded-control lease promises: an action is charged to a lease  *)
(* before it is performed, never more actions are charged than the         *)
(* contract allows, and nothing charged is ever given back.                *)
(***************************************************************************)
EXTENDS Naturals

CONSTANTS
  Leases,     \* the leases that may be granted
  MaxActions  \* actions a lease allows in total

VARIABLES
  spent,      \* per lease: actions charged to it
  done        \* per lease: actions performed under it

Init ==
  /\ spent = [l \in Leases |-> 0]
  /\ done = [l \in Leases |-> 0]

Charge(l) ==
  /\ spent[l] < MaxActions
  /\ spent' = [spent EXCEPT ![l] = @ + 1]
  /\ UNCHANGED done

Perform(l) ==
  /\ done[l] < spent[l]
  /\ done' = [done EXCEPT ![l] = @ + 1]
  /\ UNCHANGED spent

Next == \E l \in Leases : Charge(l) \/ Perform(l)

Spec == Init /\ [][Next]_<<spent, done>>
=============================================================================
