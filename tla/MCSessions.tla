----------------------------- MODULE MCSessions -----------------------------
(* Small instances of Sessions for TLC. *)
EXTENDS Sessions, TLC

CONSTANTS ann, r1, r2, one, two

MCFirst == [e \in Emails |-> one]

\* The second pod's clock is one tick ahead.
MCAhead == [r \in Requests |-> IF r = r2 THEN 1 ELSE 0]
MCTogether == [r \in Requests |-> 0]

Symmetry == Permutations(Requests)
=============================================================================
