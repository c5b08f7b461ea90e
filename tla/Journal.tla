------------------------------ MODULE Journal ------------------------------
(***************************************************************************)
(* What the browser's own store promises its volunteer about a history:    *)
(* lines are added on top, one line at a time is struck or reworded, and   *)
(* nothing else touches them but a backup put back and the erasing of      *)
(* everything.  No tabs, no screens, no transactions.                      *)
(***************************************************************************)
EXTENDS Integers, Sequences

CONSTANTS Codes, Texts, Line

VARIABLES lines, backups

vars == <<lines, backups>>

Init ==
  /\ lines = [c \in Codes |-> <<>>]
  /\ backups \in SUBSET [Codes -> Seq(Line)]

Write(c) == \E l \in Line : lines' = [lines EXCEPT ![c] = <<l>> \o @] /\ UNCHANGED backups

\* The sequence s without its line i.
Without(s, i) == SubSeq(s, 1, i - 1) \o SubSeq(s, i + 1, Len(s))

Strike(c) ==
  \E i \in DOMAIN lines[c] :
    lines' = [lines EXCEPT ![c] = Without(@, i)] /\ UNCHANGED backups

Reword(c) ==
  \E i \in DOMAIN lines[c], text \in Texts :
    lines' = [lines EXCEPT ![c] = [@ EXCEPT ![i].note = text]] /\ UNCHANGED backups

Keep == backups' = backups \cup {lines} /\ UNCHANGED lines

\* A backup replaces, card by card, or leaves alone, or empties: what a card held
\* goes with it, whenever it was written.
Restore ==
  /\ \E b \in backups :
       /\ DOMAIN lines' = Codes
       /\ \A c \in Codes : lines'[c] \in {lines[c], b[c], <<>>}
  /\ UNCHANGED backups

Erase == lines' = [c \in Codes |-> <<>>] /\ UNCHANGED backups

Next ==
  \/ \E c \in Codes : Write(c) \/ Strike(c) \/ Reword(c)
  \/ Keep \/ Restore \/ Erase

Spec == Init /\ [][Next]_vars
=============================================================================
