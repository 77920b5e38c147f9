--------------------------- MODULE MCStoreClients ---------------------------
(* Two processes and the states around one bounded lease.                   *)
EXTENDS StoreClients, TLC

CONSTANTS p1, p2

TwoProcs == {p1, p2}

State(mode, revision, lineage, used, ticks) ==
  [Genesis EXCEPT !.mode = mode, !.revision = revision, !.lineage = lineage,
                  !.used = used, !.ticks = ticks]

\* One of them is past the limit, so that validation has something to refuse.
ManyStates ==
  {State("ADVISE", 1, p1, 0, 0), State("SHADOW", 3, p1, 0, 0),
   State("BOUNDED_CONTROL", 2, p2, 1, 1)}
    \union {State("BOUNDED_CONTROL", 2, p1, u, 1) : u \in 0 .. MaxTotalActions + 1}

=============================================================================
