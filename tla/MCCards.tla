------------------------------ MODULE MCCards ------------------------------
(* Small instances of Cards for TLC. *)
EXTENDS Cards, TLC

CONSTANTS alice, bob, carol, North, South, National

\* carol coordinates; alice and bob are volunteers of two teams.
MCManages == [a \in Accounts |-> IF a \in Coordinators THEN Accounts \ {a} ELSE {}]
MCTeams == {North, South, National}
MCTeamOf == [a \in Accounts |->
               CASE a = alice -> North [] a = bob -> South [] OTHER -> National]

\* The requests are interchangeable.
Symmetry == Permutations(Requests)
=============================================================================
