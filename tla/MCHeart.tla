------------------------------- MODULE MCHeart -------------------------------
(* One application thread, or two of them, and two threads running jobs.    *)
EXTENDS Heart

CONSTANTS c1, c2, w1, w2, j1, j2

OneCaller == {c1}
TwoCallers == {c1, c2}
TwoWorkers == {w1, w2}
OneJob == {j1}
TwoJobs == {j1, j2}
=============================================================================
