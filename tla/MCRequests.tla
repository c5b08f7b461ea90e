----------------------------- MODULE MCRequests -----------------------------
(* Small instances of Requests for TLC. *)
EXTENDS Requests, TLC

\* Requests, names and addresses are each interchangeable.
Symmetry == Permutations(Requests) \cup Permutations(Names) \cup Permutations(Emails)
=============================================================================
