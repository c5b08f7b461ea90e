--------------------------- MODULE MCCoordination ---------------------------
(* Small instances of Coordination for TLC. *)
EXTENDS Coordination, TLC

\* The requests, the teams, and the addresses the start says nothing of are
\* interchangeable.
Symmetry ==
  Permutations(Requests) \cup Permutations(Teams)
    \cup Permutations(Accounts \ (Founders \cup {Seeded}))
=============================================================================
