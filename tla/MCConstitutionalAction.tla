----------------------- MODULE MCConstitutionalAction -----------------------
(* One process running the constitutional commands, or two of them.         *)
EXTENDS ConstitutionalAction, TLC

CONSTANTS p1, p2

OneProc == {p1}
TwoProcs == {p1, p2}

\* The processes are interchangeable; used with invariants only.
Symmetry == Permutations(TwoProcs)
=============================================================================
