------------------------------ MODULE MCLinks ------------------------------
(* Small instances of Links for TLC. *)
EXTENDS Links, TLC

\* A sign-in link lives one instant, an invitation longer.
MCLife == [p \in Purposes |-> IF p = "signin" THEN 1 ELSE 3]

\* The requests are interchangeable.
Symmetry == Permutations(Requests)
=============================================================================
