------------------------------ MODULE Register ------------------------------
(***************************************************************************)
(* What the routes of Cards promise together: every request that answers   *)
(* 200 took effect in one instant, on the register as it was in that       *)
(* instant.  No statements, no locks, no private writes: only the          *)
(* committed history, its head, the reservations and the open accounts.    *)
(***************************************************************************)
EXTENDS Integers, FiniteSets

CONSTANTS Cards, Accounts, Coordinators, Manages, TeamOf, Statuses, ToContact,
          Pools, BatchSize, NoOne, NoTeam, NoRow

VARIABLES notes, card, active

vars == <<notes, card, active>>

History(c) == {n \in notes : n.card = c}

Free(c) ==
  \/ card[c] = NoRow
  \/ card[c].volunteer = NoOne /\ card[c].status = ToContact

HolderOf(c) == IF card[c] = NoRow THEN NoOne ELSE card[c].volunteer

Init ==
  /\ notes = {}
  /\ card = [c \in Cards |-> NoRow]
  /\ active = [a \in Accounts |-> TRUE]

\* A status is written with its note, over the state its writer had seen, and
\* becomes the head of the history in the same instant.
Record(who, c, status, seen) ==
  /\ card[c] = NoRow \/ card[c].status = seen
  /\ \E n \in notes' :
       /\ n.card = c /\ n.author = who /\ n.status = status /\ ~n.edited
       /\ \A m \in History(c) : m.id < n.id
       /\ notes' = notes \cup {n}
  /\ card' = [card EXCEPT ![c] = [status |-> status, by |-> TeamOf[who],
                                  volunteer |-> HolderOf(c)]]
  /\ UNCHANGED active

\* An author corrects the words of a note, and nothing else of it.
Correct(who, n) ==
  /\ n.author = who
  /\ notes' = (notes \ {n}) \cup {[n EXCEPT !.edited = TRUE]}
  /\ UNCHANGED <<card, active>>

\* A note goes, and the card says what the newest one left says.
Remove(who, n) ==
  /\ who \in Coordinators \/ n.author = who
  /\ notes' = notes \ {n}
  /\ LET left == {m \in notes' : m.card = n.card}
     IN \/ /\ left = {}
           /\ card' = [card EXCEPT ![n.card] = [@ EXCEPT !.status = ToContact, !.by = NoTeam]]
        \/ \E m \in left :
             /\ \A k \in left : k.id <= m.id
             /\ card' = [card EXCEPT ![n.card] =
                           [@ EXCEPT !.status = m.status, !.by = TeamOf[m.author]]]
  /\ UNCHANGED active

\* A batch: cards that are all free become one volunteer's, together.
Reserve(who, pool) ==
  /\ \E S \in SUBSET pool :
       /\ Cardinality(S) <= BatchSize
       /\ \A c \in S : Free(c)
       /\ card' = [c \in Cards |->
                     IF c \notin S THEN card[c]
                     ELSE IF card[c] = NoRow
                          THEN [status |-> ToContact, by |-> NoTeam, volunteer |-> who]
                          ELSE [card[c] EXCEPT !.volunteer = who]]
  /\ UNCHANGED <<notes, active>>

\* An account closes, and cards it had not touched go back to the pool; or it
\* opens again, and takes nothing back.
Toggle(a) ==
  /\ active' = [active EXCEPT ![a] = ~@]
  /\ \E S \in SUBSET Cards :
       /\ active'[a] => S = {}
       /\ \A c \in S : HolderOf(c) = a /\ card[c].status = ToContact
       /\ card' = [c \in Cards |-> IF c \in S THEN [card[c] EXCEPT !.volunteer = NoOne]
                                             ELSE card[c]]
  /\ UNCHANGED notes

Next ==
  \/ \E who \in Accounts, c \in Cards, status \in Statuses, seen \in Statuses :
       Record(who, c, status, seen)
  \/ \E who \in Accounts, n \in notes : Correct(who, n) \/ Remove(who, n)
  \/ \E who \in Accounts, pool \in Pools : Reserve(who, pool)
  \/ \E who \in Accounts : \E a \in Manages[who] : Toggle(a)

Spec == Init /\ [][Next]_vars
=============================================================================
