---------------------------- MODULE LinksProofs ----------------------------
(***************************************************************************)
(* Proofs about Links, for any number of addresses, requests, connections  *)
(* and links.                                                              *)
(***************************************************************************)
EXTENDS Links, TLAPS

Unlanded == {"clearing", "insert", "commit"}
Spending == {"renew", "alone", "retry"}

\* No row holds the link of that number.
Gone(i) == \A k \in Keys : link[k] # NoLink => link[k].id # i

\* A link somebody has to themselves: drawn, never opened, in no committed row.
Fresh(i) == i \in 1..drawn /\ opened[i] = 0 /\ Gone(i)

Types ==
  /\ link \in [Keys -> Link \cup {NoLink}]
  /\ lock \in [Keys -> Requests \cup {NoRequest}]
  /\ tx \in [Requests -> [Keys -> Link \cup {NoLink, Untouched}]]
  /\ pc \in [Requests -> Steps]
  /\ job \in [Requests -> Jobs]
  /\ drawn \in 0..MaxLinks /\ clock \in Nat
  /\ opened \in [Ids -> Nat]
  /\ presented \subseteq Ids

\* A written row is a locked row, and a new one is about to be committed.
WritesAreLocked ==
  \A r \in Requests, k \in Keys :
    /\ tx[r][k] # Untouched => lock[k] = r
    /\ tx[r][k] \notin {NoLink, Untouched} =>
         pc[r] = "commit" /\ tx[r][k].id = job[r].id /\ k = KeyOf(r)

\* A link in a row is in one row, was drawn and has opened nothing.
RowsAreUnspent ==
  /\ \A k \in Keys : link[k] # NoLink => link[k].id <= drawn /\ opened[link[k].id] = 0
  /\ \A k, l \in Keys :
       (link[k] # NoLink /\ link[l] # NoLink /\ link[k].id = link[l].id) => k = l

\* Whoever has not landed a link yet, and whoever has landed its end and reads
\* the account, has it to themselves.
OwnersAreAlone ==
  /\ \A r \in Requests : pc[r] \in Unlanded \cup {"read"} => Fresh(job[r].id)
  /\ \A r, q \in Requests :
       (r # q /\ {pc[r], pc[q]} \subseteq Unlanded \cup {"read"}) => job[r].id # job[q].id

\* Whoever renews has the row of their link locked, and deleted.
RenewalsHold ==
  \A r \in Requests : pc[r] = "renew" =>
    \E k \in Keys : lock[k] = r /\ link[k] # NoLink /\ link[k].id = job[r].id /\ tx[r][k] = NoLink

OpenedOnce == \A i \in Ids : opened[i] <= 1 /\ (i > drawn => opened[i] = 0)

\* A link presented has landed, and is gone or in the hands of its spender.
PresentedAreSpent ==
  \A i \in presented :
    /\ i <= drawn
    /\ \A r \in Requests : pc[r] \in Unlanded => job[r].id # i
    /\ Gone(i) \/ \E r \in Requests : pc[r] \in Spending /\ job[r].id = i

\* A link delivered has a number that was drawn, or could be.
Delivered == \A m \in inbox : m.id \in 0..MaxLinks

IInv ==
  /\ Types /\ WritesAreLocked /\ RowsAreUnspent /\ OwnersAreAlone /\ RenewalsHold
  /\ OpenedOnce /\ PresentedAreSpent

-----------------------------------------------------------------------------
\* Facts of the model

LEMMA NullsAreNoLinks ==
  /\ NoLink \notin Link /\ Untouched \notin Link /\ NoLink # Untouched
  /\ NoRequest \notin Requests /\ MaxLinks \in Nat \ {0}
BY LinksAssumption

LEMMA KeyTypes ==
  ASSUME Types, NEW r \in Requests
  PROVE  KeyOf(r) \in Keys
<1>1. job[r].email \in Emails
  BY DEF Types, Jobs
<1> QED  BY <1>1 DEF KeyOf, Keys, Purposes

LEMMA RowTypes ==
  ASSUME Types, NEW k \in Keys, link[k] # NoLink
  PROVE  link[k] \in Link /\ link[k].id \in Ids
BY DEF Types, Link

LEMMA FreshIds ==
  ASSUME Types, NEW i, Fresh(i)
  PROVE  i \in Ids
BY NullsAreNoLinks DEF Types, Fresh, Ids

LEMMA EndedTypes ==
  ASSUME Types, NEW r \in Requests, EndTx(r)
  PROVE  /\ lock' \in [Keys -> Requests \cup {NoRequest}]
         /\ tx' \in [Requests -> [Keys -> Link \cup {NoLink, Untouched}]]
         /\ \A k \in Keys : /\ tx'[r][k] = Untouched
                            /\ lock[k] # r => lock'[k] = lock[k]
         /\ \A q \in Requests \ {r} : tx'[q] = tx[q]
<1>1. NoTx \in [Keys -> Link \cup {NoLink, Untouched}] /\ \A k \in Keys : NoTx[k] = Untouched
  BY DEF NoTx
<1>2. lock' = [k \in Keys |-> IF lock[k] = r THEN NoRequest ELSE lock[k]]
      /\ tx' = [tx EXCEPT ![r] = NoTx]
  BY DEF EndTx
<1> HIDE DEF NoTx
<1> QED  BY <1>1, <1>2 DEF Types

-----------------------------------------------------------------------------
\* The steps that land nothing

\* A request that moves on with no row of its own, or ends: what it held to
\* itself goes with it, and what it was spending stays with it or is given up.
LEMMA QuietSteps ==
  ASSUME IInv, NEW r \in Requests,
         NEW s \in Steps \ (Unlanded \cup {"read", "renew"}),
         pc' = [pc EXCEPT ![r] = s],
         job' \in [Requests -> Jobs], \A q \in Requests \ {r} : job'[q] = job[q],
         (UNCHANGED <<tx, lock>> /\ pc[r] # "commit") \/ EndTx(r),
         UNCHANGED <<link, drawn>>, clock' \in Nat,
         \/ opened' = opened
         \/ pc[r] = "read" /\ opened' = [opened EXCEPT ![job[r].id] = @ + 1],
         presented' \subseteq presented,
         pc[r] \in Spending =>
           (s \in Spending /\ job'[r].id = job[r].id) \/ job[r].id \notin presented'
  PROVE  IInv'
<1>1. /\ lock' \in [Keys -> Requests \cup {NoRequest}]
      /\ tx' \in [Requests -> [Keys -> Link \cup {NoLink, Untouched}]]
      /\ \A k \in Keys : lock[k] # r => lock'[k] = lock[k]
      /\ \A q \in Requests \ {r} : tx'[q] = tx[q]
  <2>1. CASE UNCHANGED <<tx, lock>>
    BY <2>1 DEF IInv, Types
  <2>2. CASE EndTx(r)
    BY <2>2, EndedTypes DEF IInv
  <2> QED  BY <2>1, <2>2
<1>2. \A q \in Requests : pc'[q] = IF q = r THEN s ELSE pc[q]
  BY DEF IInv, Types
<1>0. /\ opened' \in [Ids -> Nat]
      /\ \A i \in Ids : opened'[i] # opened[i] =>
           pc[r] = "read" /\ i = job[r].id /\ Fresh(i) /\ opened'[i] = 1
  <2>1. CASE opened' = opened
    BY <2>1 DEF IInv, Types
  <2>2. CASE pc[r] = "read" /\ opened' = [opened EXCEPT ![job[r].id] = @ + 1]
    <3>1. Fresh(job[r].id) /\ job[r].id \in Ids /\ opened \in [Ids -> Nat]
      BY <2>2, FreshIds DEF IInv, Types, OwnersAreAlone
    <3>2. opened[job[r].id] = 0
      BY <3>1 DEF Fresh
    <3> QED  BY <2>2, <3>1, <3>2
  <2> QED  BY <2>1, <2>2
<1>3. Types'
  BY <1>0, <1>1 DEF IInv, Types
<1>4. WritesAreLocked'
  <2> SUFFICES ASSUME NEW q \in Requests, NEW k \in Keys
               PROVE  /\ tx'[q][k] # Untouched => lock'[k] = q
                      /\ tx'[q][k] \notin {NoLink, Untouched} =>
                           pc'[q] = "commit" /\ tx'[q][k].id = job'[q].id /\ k = KeyOf(q)'
    BY DEF WritesAreLocked
  <2>1. CASE q = r
    <3>1. CASE UNCHANGED <<tx, lock>> /\ pc[r] # "commit"
      BY <2>1, <3>1 DEF IInv, WritesAreLocked
    <3>2. CASE EndTx(r)
      BY <2>1, <3>2, EndedTypes DEF IInv
    <3> QED  BY <3>1, <3>2
  <2>2. CASE q # r
    <3>1. tx'[q] = tx[q] /\ pc'[q] = pc[q] /\ job'[q] = job[q]
      BY <1>1, <1>2, <2>2
    <3>2. tx[q][k] # Untouched => lock'[k] = q
      BY <1>1, <2>2 DEF IInv, WritesAreLocked
    <3>3. KeyOf(q)' = KeyOf(q)
      BY <3>1 DEF KeyOf
    <3> QED  BY <3>1, <3>2, <3>3 DEF IInv, WritesAreLocked
  <2> QED  BY <2>1, <2>2
<1>5. RowsAreUnspent' /\ OpenedOnce'
  <2>1. \A k \in Keys : link[k] # NoLink => opened'[link[k].id] = opened[link[k].id]
    BY <1>0, RowTypes DEF IInv, Fresh, Gone
  <2>2. RowsAreUnspent'
    BY <2>1 DEF IInv, RowsAreUnspent
  <2>3. ASSUME NEW i \in Ids
        PROVE  opened'[i] <= 1 /\ (i > drawn' => opened'[i] = 0)
    <3>1. CASE opened'[i] = opened[i]
      BY <3>1 DEF IInv, OpenedOnce
    <3>2. CASE opened'[i] # opened[i]
      BY <1>0, <3>2 DEF Fresh, IInv, Types
    <3> QED  BY <3>1, <3>2
  <2> QED  BY <2>2, <2>3 DEF OpenedOnce
<1>6. OwnersAreAlone'
  <2>1. ASSUME NEW q \in Requests, pc'[q] \in Unlanded \cup {"read"}
        PROVE  Fresh(job[q].id)' /\ q # r /\ pc[q] \in Unlanded \cup {"read"}
    <3>1. /\ q # r /\ pc[q] \in Unlanded \cup {"read"} /\ job'[q] = job[q]
          /\ Fresh(job[q].id)
      BY <1>2, <2>1 DEF IInv, OwnersAreAlone, Unlanded
    <3>2. job[q].id \in Ids
      BY <3>1, FreshIds DEF IInv
    <3>3. opened'[job[q].id] = opened[job[q].id]
      BY <1>0, <3>1, <3>2 DEF IInv, OwnersAreAlone
    <3> QED  BY <3>1, <3>3 DEF Fresh, Gone
  <2> QED  BY <1>2, <2>1 DEF IInv, OwnersAreAlone
<1>7. RenewalsHold'
  <2> SUFFICES ASSUME NEW q \in Requests, pc'[q] = "renew"
               PROVE  \E k \in Keys : /\ lock'[k] = q /\ link'[k] # NoLink
                                      /\ link'[k].id = job'[q].id /\ tx'[q][k] = NoLink
    BY DEF RenewalsHold
  <2>1. q # r /\ pc[q] = "renew"
    BY <1>2
  <2>2. PICK k \in Keys : lock[k] = q /\ link[k] # NoLink /\ link[k].id = job[q].id /\ tx[q][k] = NoLink
    BY <2>1 DEF IInv, RenewalsHold
  <2> QED  BY <1>1, <2>1, <2>2
<1>8. PresentedAreSpent'
  <2> SUFFICES ASSUME NEW i \in presented'
               PROVE  /\ i <= drawn'
                      /\ \A q \in Requests : pc'[q] \in Unlanded => job'[q].id # i
                      /\ Gone(i)' \/ \E q \in Requests : pc'[q] \in Spending /\ job'[q].id = i
    BY DEF PresentedAreSpent
  <2>1. i \in presented
    OBVIOUS
  <2>2. i <= drawn' /\ \A q \in Requests : pc'[q] \in Unlanded => job'[q].id # i
    BY <1>2, <2>1 DEF IInv, PresentedAreSpent
  <2>3. Gone(i)' <=> Gone(i)
    BY DEF Gone
  <2>4. ASSUME NEW q \in Requests, pc[q] \in Spending, job[q].id = i
        PROVE  pc'[q] \in Spending /\ job'[q].id = i
    BY <1>2, <2>4
  <2> QED  BY <2>1, <2>2, <2>3, <2>4 DEF IInv, PresentedAreSpent
<1> QED  BY <1>3, <1>4, <1>5, <1>6, <1>7, <1>8 DEF IInv

-----------------------------------------------------------------------------
\* The steps that land rows, or take some away

\* A transaction that ends with its writes in the table: a new link lands at
\* the key of its minting, the others are removed, and nobody's locked row is
\* touched.
LEMMA LandingSteps ==
  ASSUME IInv, NEW r \in Requests,
         NEW s \in Steps \ (Unlanded \cup {"renew"}),
         pc' = [pc EXCEPT ![r] = s],
         job' \in [Requests -> Jobs], \A q \in Requests \ {r} : job'[q] = job[q],
         EndTx(r), UNCHANGED <<opened, drawn, presented, clock>>,
         link' \in [Keys -> Link \cup {NoLink}],
         \A k \in Keys : \/ link'[k] \in {link[k], NoLink}
                         \/ pc[r] = "commit" /\ k = KeyOf(r) /\ link'[k].id = job[r].id,
         \A k \in Keys : lock[k] \notin {NoRequest, r} => link'[k] = link[k],
         s = "read" => pc[r] = "renew" /\ job'[r].id = job[r].id,
         pc[r] \in Spending =>
           (s \in Spending /\ job'[r].id = job[r].id)
             \/ \A k \in Keys : link'[k] # NoLink => link'[k].id # job[r].id,
         s = "read" => \A k \in Keys : link'[k] # NoLink => link'[k].id # job[r].id
  PROVE  IInv'
<1>1. /\ lock' \in [Keys -> Requests \cup {NoRequest}]
      /\ tx' \in [Requests -> [Keys -> Link \cup {NoLink, Untouched}]]
      /\ \A k \in Keys : tx'[r][k] = Untouched /\ (lock[k] # r => lock'[k] = lock[k])
      /\ \A q \in Requests \ {r} : tx'[q] = tx[q]
  BY EndedTypes DEF IInv
<1>2. \A q \in Requests : pc'[q] = IF q = r THEN s ELSE pc[q]
  BY DEF IInv, Types
<1>3. Types'
  BY <1>1 DEF IInv, Types
<1>4. WritesAreLocked'
  <2> SUFFICES ASSUME NEW q \in Requests, NEW k \in Keys
               PROVE  /\ tx'[q][k] # Untouched => lock'[k] = q
                      /\ tx'[q][k] \notin {NoLink, Untouched} =>
                           pc'[q] = "commit" /\ tx'[q][k].id = job'[q].id /\ k = KeyOf(q)'
    BY DEF WritesAreLocked
  <2>1. CASE q = r
    BY <1>1, <2>1
  <2>2. CASE q # r
    <3>1. tx'[q] = tx[q] /\ pc'[q] = pc[q] /\ job'[q] = job[q]
      BY <1>1, <1>2, <2>2
    <3>2. tx[q][k] # Untouched => lock'[k] = q
      BY <1>1, <2>2 DEF IInv, WritesAreLocked
    <3>3. KeyOf(q)' = KeyOf(q)
      BY <3>1 DEF KeyOf
    <3> QED  BY <3>1, <3>2, <3>3 DEF IInv, WritesAreLocked
  <2> QED  BY <2>1, <2>2
<1>5. \A k \in Keys : link'[k] # NoLink =>
         \/ link[k] # NoLink /\ link'[k].id = link[k].id
         \/ pc[r] = "commit" /\ k = KeyOf(r) /\ link'[k].id = job[r].id
  OBVIOUS
<1>6. pc[r] = "commit" => Fresh(job[r].id)
  BY DEF IInv, OwnersAreAlone, Unlanded
<1>7. RowsAreUnspent'
  <2>1. ASSUME NEW k \in Keys, link'[k] # NoLink
        PROVE  link'[k].id <= drawn' /\ opened'[link'[k].id] = 0
    <3>1. CASE link[k] # NoLink /\ link'[k].id = link[k].id
      BY <3>1 DEF IInv, RowsAreUnspent
    <3>2. CASE pc[r] = "commit" /\ link'[k].id = job[r].id
      BY <1>6, <3>2 DEF Fresh, IInv, Types
    <3> QED  BY <1>5, <2>1, <3>1, <3>2
  <2>2. ASSUME NEW k \in Keys, NEW l \in Keys,
               link'[k] # NoLink, link'[l] # NoLink, link'[k].id = link'[l].id
        PROVE  k = l
    <3>1. pc[r] = "commit" => \A j \in Keys : link[j] # NoLink => link[j].id # job[r].id
      BY <1>6 DEF Fresh, Gone
    <3> QED  BY <1>5, <2>2, <3>1 DEF IInv, RowsAreUnspent
  <2> QED  BY <2>1, <2>2 DEF RowsAreUnspent
<1>8. s = "read" => \E k \in Keys : link[k] # NoLink /\ link[k].id = job[r].id
  BY DEF IInv, RenewalsHold
<1>9. OwnersAreAlone'
  <2>1. ASSUME NEW q \in Requests, q # r, pc'[q] \in Unlanded \cup {"read"}
        PROVE  /\ job'[q].id = job[q].id /\ pc[q] \in Unlanded \cup {"read"}
               /\ Fresh(job[q].id)
    BY <1>2, <2>1 DEF IInv, OwnersAreAlone
  <2>2. ASSUME NEW q \in Requests, q # r, pc'[q] \in Unlanded \cup {"read"}
        PROVE  Fresh(job[q].id)'
    <3>1. /\ job'[q].id = job[q].id /\ pc[q] \in Unlanded \cup {"read"}
          /\ Fresh(job[q].id)
      BY <2>1, <2>2
    <3>2. pc[r] = "commit" => job[q].id # job[r].id
      BY <2>2, <3>1 DEF IInv, OwnersAreAlone, Unlanded
    <3>3. \A k \in Keys : link'[k] # NoLink => link'[k].id # job[q].id
      BY <1>5, <3>1, <3>2 DEF Fresh, Gone
    <3> QED  BY <3>1, <3>3 DEF Fresh, Gone
  <2>3. ASSUME pc'[r] \in Unlanded \cup {"read"}
        PROVE  Fresh(job[r].id)' /\ s = "read" /\ job'[r].id = job[r].id
    <3>1. s = "read" /\ job'[r].id = job[r].id
      BY <1>2, <2>3
    <3>2. PICK k \in Keys : link[k] # NoLink /\ link[k].id = job[r].id
      BY <1>8, <3>1
    <3>3. job[r].id \in 1..drawn /\ opened[job[r].id] = 0
      BY <3>2, RowTypes DEF IInv, Types, RowsAreUnspent, Ids
    <3>4. \A l \in Keys : link'[l] # NoLink => link'[l].id # job[r].id
      BY <3>1
    <3> QED  BY <3>1, <3>3, <3>4 DEF Fresh, Gone
  <2>4. ASSUME NEW q \in Requests, q # r, {pc'[q], pc'[r]} \subseteq Unlanded \cup {"read"}
        PROVE  job'[q].id # job'[r].id
    <3>1. Fresh(job[q].id) /\ job'[q].id = job[q].id
      BY <2>1, <2>4
    <3>2. s = "read" /\ job'[r].id = job[r].id
      BY <2>3, <2>4
    <3> QED  BY <1>8, <3>1, <3>2 DEF Fresh, Gone
  <2>5. ASSUME NEW p \in Requests \ {r}, NEW q \in Requests \ {r}, p # q,
               {pc'[p], pc'[q]} \subseteq Unlanded \cup {"read"}
        PROVE  job'[p].id # job'[q].id
    BY <1>2, <2>5 DEF IInv, OwnersAreAlone
  <2> QED  BY <2>2, <2>3, <2>4, <2>5 DEF OwnersAreAlone
<1>10. RenewalsHold'
  <2> SUFFICES ASSUME NEW q \in Requests, pc'[q] = "renew"
               PROVE  \E k \in Keys : /\ lock'[k] = q /\ link'[k] # NoLink
                                      /\ link'[k].id = job'[q].id /\ tx'[q][k] = NoLink
    BY DEF RenewalsHold
  <2>1. q # r /\ pc[q] = "renew"
    BY <1>2
  <2>2. PICK k \in Keys : lock[k] = q /\ link[k] # NoLink /\ link[k].id = job[q].id /\ tx[q][k] = NoLink
    BY <2>1 DEF IInv, RenewalsHold
  <2>3. link'[k] = link[k] /\ lock'[k] = q
    BY <1>1, <2>1, <2>2, NullsAreNoLinks
  <2> QED  BY <1>1, <2>1, <2>2, <2>3
<1>11. OpenedOnce'
  BY DEF IInv, OpenedOnce
<1>12. PresentedAreSpent'
  <2> SUFFICES ASSUME NEW i \in presented
               PROVE  /\ i <= drawn'
                      /\ \A q \in Requests : pc'[q] \in Unlanded => job'[q].id # i
                      /\ Gone(i)' \/ \E q \in Requests : pc'[q] \in Spending /\ job'[q].id = i
    BY DEF PresentedAreSpent
  <2>1. i <= drawn' /\ \A q \in Requests : pc'[q] \in Unlanded => job'[q].id # i
    BY <1>2 DEF IInv, PresentedAreSpent
  <2>2. pc[r] = "commit" => job[r].id # i
    BY DEF IInv, PresentedAreSpent, Unlanded
  <2>3. CASE Gone(i)
    BY <1>5, <2>1, <2>2, <2>3 DEF Gone
  <2>4. CASE \E q \in Requests : pc[q] \in Spending /\ job[q].id = i
    <3>1. PICK q \in Requests : pc[q] \in Spending /\ job[q].id = i
      BY <2>4
    <3>2. CASE q = r
      BY <1>2, <2>1, <3>1, <3>2 DEF Gone
    <3>3. CASE q # r
      BY <1>2, <2>1, <3>1, <3>3
    <3> QED  BY <3>2, <3>3
  <2> QED  BY <2>1, <2>3, <2>4 DEF IInv, PresentedAreSpent
<1> QED  BY <1>3, <1>4, <1>7, <1>9, <1>10, <1>11, <1>12 DEF IInv

-----------------------------------------------------------------------------
\* The steps that write a row, privately

\* A statement takes the lock of a key nobody else has, and writes it.
LEMMA WritingSteps ==
  ASSUME IInv, NEW r \in Requests, NEW k \in Keys, NEW s \in Steps,
         Lockable(r, k), TakeLock(r, k),
         tx' \in [Requests -> [Keys -> Link \cup {NoLink, Untouched}]],
         \A q \in Requests \ {r} : tx'[q] = tx[q],
         \A l \in Keys \ {k} : tx'[r][l] = tx[r][l],
         \/ tx'[r][k] = NoLink
         \/ s = "commit" /\ tx'[r][k].id = job[r].id /\ k = KeyOf(r) /\ job' = job,
         pc[r] # "commit", pc' = [pc EXCEPT ![r] = s],
         job' \in [Requests -> Jobs], \A q \in Requests \ {r} : job'[q] = job[q],
         s = "renew" =>
           link[k] # NoLink /\ tx'[r][k] = NoLink /\ link[k].id = job'[r].id,
         UNCHANGED <<link, opened, drawn, clock>>, presented' \subseteq Ids
  PROVE  Types' /\ WritesAreLocked' /\ RowsAreUnspent' /\ OpenedOnce' /\ RenewalsHold'
<1>1. /\ lock' \in [Keys -> Requests \cup {NoRequest}]
      /\ \A l \in Keys : lock'[l] = IF l = k THEN r ELSE lock[l]
  BY DEF TakeLock, IInv, Types
<1>3. \A q \in Requests : pc'[q] = IF q = r THEN s ELSE pc[q]
  BY DEF IInv, Types
<1>4. Types'
  BY <1>1 DEF IInv, Types
<1>5. WritesAreLocked'
  <2> SUFFICES ASSUME NEW q \in Requests, NEW l \in Keys
               PROVE  /\ tx'[q][l] # Untouched => lock'[l] = q
                      /\ tx'[q][l] \notin {NoLink, Untouched} =>
                           pc'[q] = "commit" /\ tx'[q][l].id = job'[q].id /\ l = KeyOf(q)'
    BY DEF WritesAreLocked
  <2>1. CASE q = r /\ l = k
    BY <1>1, <1>3, <2>1 DEF KeyOf
  <2>2. CASE q = r /\ l # k
    BY <1>1, <2>2 DEF IInv, WritesAreLocked
  <2>3. CASE q # r
    <3>1. tx'[q] = tx[q] /\ pc'[q] = pc[q] /\ job'[q] = job[q]
      BY <1>3, <2>3
    <3>2. KeyOf(q)' = KeyOf(q)
      BY <3>1 DEF KeyOf
    <3>3. tx[q][l] # Untouched => lock[l] = q
      BY DEF IInv, WritesAreLocked
    <3>4. l = k => lock[l] # q
      BY <2>3, NullsAreNoLinks DEF Lockable
    <3> QED  BY <1>1, <3>1, <3>2, <3>3, <3>4 DEF IInv, WritesAreLocked
  <2> QED  BY <2>1, <2>2, <2>3
<1>6. RowsAreUnspent' /\ OpenedOnce'
  BY DEF IInv, RowsAreUnspent, OpenedOnce
<1>7. ASSUME NEW q \in Requests, q # r, pc'[q] = "renew"
      PROVE  \E l \in Keys : /\ lock'[l] = q /\ link'[l] # NoLink
                             /\ link'[l].id = job'[q].id /\ tx'[q][l] = NoLink
  <2>1. PICK l \in Keys : lock[l] = q /\ link[l] # NoLink /\ link[l].id = job[q].id /\ tx[q][l] = NoLink
    BY <1>3, <1>7 DEF IInv, RenewalsHold
  <2>2. l # k
    BY <1>7, <2>1, NullsAreNoLinks DEF Lockable
  <2> QED  BY <1>1, <1>7, <2>1, <2>2
<1>8. RenewalsHold'
  BY <1>1, <1>3, <1>7 DEF RenewalsHold
<1> QED  BY <1>4, <1>5, <1>6, <1>8

\* The statements of a minting that is not landed: its number stays its own.
LEMMA MintingSteps ==
  ASSUME IInv, NEW r \in Requests, NEW s \in Unlanded,
         pc[r] \in Unlanded, pc' = [pc EXCEPT ![r] = s],
         job' \in [Requests -> Jobs], \A q \in Requests : job'[q].id = job[q].id,
         UNCHANGED <<link, opened, drawn, presented>>
  PROVE  OwnersAreAlone' /\ PresentedAreSpent'
<1>1. \A q \in Requests : pc'[q] = IF q = r THEN s ELSE pc[q]
  BY DEF IInv, Types
<1>2. OwnersAreAlone'
  BY <1>1 DEF IInv, OwnersAreAlone, Fresh, Gone
<1>3. PresentedAreSpent'
  BY <1>1 DEF IInv, PresentedAreSpent, Gone, Unlanded, Spending
<1> QED  BY <1>2, <1>3

LEMMA ClearRowKeeps ==
  ASSUME IInv, NEW r \in Requests, ClearRow(r)
  PROVE  IInv'
<1>1. PICK k \in job[r].todo :
        /\ Lockable(r, k)
        /\ IF Clearable(r, k)
           THEN TakeLock(r, k) /\ tx' = [tx EXCEPT ![r] = [@ EXCEPT ![k] = NoLink]]
           ELSE UNCHANGED <<lock, tx>>
        /\ job' = [job EXCEPT ![r].todo = job[r].todo \ {k}]
        /\ Goto(r, IF job[r].todo \ {k} = {} THEN "insert" ELSE "clearing")
  BY DEF ClearRow
<1>2. k \in Keys /\ job[r] \in Jobs
  BY DEF IInv, Types, Jobs
<1>3. PICK s \in {"insert", "clearing"} : pc' = [pc EXCEPT ![r] = s]
  BY <1>1 DEF Goto
<1>4. /\ pc[r] = "clearing" /\ UNCHANGED <<link, opened, drawn, presented, clock>>
  BY DEF ClearRow, Committed, History
<1>5. /\ job' \in [Requests -> Jobs] /\ \A q \in Requests \ {r} : job'[q] = job[q]
      /\ \A q \in Requests : job'[q].id = job[q].id
  <2>1. [job[r] EXCEPT !.todo = job[r].todo \ {k}] \in Jobs
        /\ [job[r] EXCEPT !.todo = job[r].todo \ {k}].id = job[r].id
    BY <1>2 DEF Jobs
  <2>2. job' = [job EXCEPT ![r] = [job[r] EXCEPT !.todo = job[r].todo \ {k}]]
    BY <1>1
  <2> QED  BY <2>1, <2>2 DEF IInv, Types
<1>6. s \in Steps /\ s \in Unlanded /\ s # "renew" /\ pc[r] \in Unlanded
  BY <1>4 DEF Steps, Unlanded
<1>7. OwnersAreAlone' /\ PresentedAreSpent'
  BY <1>3, <1>4, <1>5, <1>6, MintingSteps
<1>8. CASE Clearable(r, k)
  <2>1. TakeLock(r, k) /\ tx' = [tx EXCEPT ![r] = [@ EXCEPT ![k] = NoLink]] /\ Lockable(r, k)
    BY <1>1, <1>8
  <2>2. /\ presented' \subseteq Ids /\ pc[r] # "commit"
        /\ tx' \in [Requests -> [Keys -> Link \cup {NoLink, Untouched}]]
        /\ \A q \in Requests \ {r} : tx'[q] = tx[q]
        /\ tx'[r][k] = NoLink /\ \A l \in Keys \ {k} : tx'[r][l] = tx[r][l]
    BY <1>2, <1>4, <2>1 DEF IInv, Types
  <2>3. Types' /\ WritesAreLocked' /\ RowsAreUnspent' /\ OpenedOnce' /\ RenewalsHold'
    BY <1>2, <1>3, <1>4, <1>5, <1>6, <2>1, <2>2, WritingSteps
  <2> QED  BY <1>7, <2>3 DEF IInv
<1>9. CASE ~Clearable(r, k)
  <2>1. UNCHANGED <<lock, tx>>
    BY <1>1, <1>9
  <2>2. \A q \in Requests : pc'[q] = IF q = r THEN s ELSE pc[q]
    BY <1>3 DEF IInv, Types
  <2>3. Types'
    BY <1>3, <1>4, <1>5, <1>6, <2>1 DEF IInv, Types
  <2>4. WritesAreLocked'
    <3>1. \A q \in Requests \ {r} : KeyOf(q)' = KeyOf(q) /\ pc'[q] = pc[q]
      BY <1>5, <2>2 DEF KeyOf
    <3>2. \A l \in Keys : tx[r][l] \in {NoLink, Untouched}
      BY <1>4 DEF IInv, WritesAreLocked
    <3> QED  BY <1>5, <2>1, <3>1, <3>2 DEF IInv, WritesAreLocked
  <2>5. RowsAreUnspent' /\ OpenedOnce'
    BY <1>4 DEF IInv, RowsAreUnspent, OpenedOnce
  <2>6. RenewalsHold'
    BY <1>4, <1>5, <1>6, <2>1, <2>2 DEF IInv, RenewalsHold
  <2> QED  BY <1>7, <2>3, <2>4, <2>5, <2>6 DEF IInv
<1> QED  BY <1>8, <1>9

LEMMA InsertKeeps ==
  ASSUME IInv, NEW r \in Requests, Insert(r)
  PROVE  IInv'
<1> DEFINE k == KeyOf(r)
           row == [id |-> job[r].id, expires |-> job[r].now + Life[k[2]]]
<1>1. /\ pc[r] = "insert" /\ Lockable(r, k) /\ TakeLock(r, k)
      /\ tx' = [tx EXCEPT ![r] = [@ EXCEPT ![k] = row]]
      /\ pc' = [pc EXCEPT ![r] = "commit"]
      /\ UNCHANGED <<job, link, opened, drawn, presented, clock>>
  BY DEF Insert, Goto, Committed, History
<1>2. k \in Keys /\ KeyOf(r)' = k
  BY <1>1, KeyTypes DEF IInv, KeyOf
<1>3. job[r].id \in Ids /\ job[r].now \in Nat /\ Life[k[2]] \in Nat
  <2>1. job[r].id \in 1..drawn
    BY <1>1 DEF IInv, OwnersAreAlone, Fresh, Unlanded
  <2>2. drawn \in 0..MaxLinks /\ job[r] \in Jobs /\ k[2] \in Purposes
    BY <1>2 DEF IInv, Types, Keys
  <2> QED  BY <2>1, <2>2, LinksAssumption DEF Ids, Jobs
<1>4. row \in Link /\ row.id = job[r].id
  BY <1>3 DEF Link
<1>5. /\ job' \in [Requests -> Jobs] /\ \A q \in Requests \ {r} : job'[q] = job[q]
      /\ \A q \in Requests : job'[q].id = job[q].id
      /\ presented' \subseteq Ids /\ "commit" \in Steps /\ "commit" \in Unlanded
      /\ pc[r] \in Unlanded /\ pc[r] # "commit"
  BY <1>1 DEF IInv, Types, Steps, Unlanded
<1>6. Types' /\ WritesAreLocked' /\ RowsAreUnspent' /\ OpenedOnce' /\ RenewalsHold'
  <2>1. /\ tx' \in [Requests -> [Keys -> Link \cup {NoLink, Untouched}]]
        /\ \A q \in Requests \ {r} : tx'[q] = tx[q]
        /\ tx'[r][k] = row /\ \A l \in Keys \ {k} : tx'[r][l] = tx[r][l]
    <3> HIDE DEF row, k
    <3> QED  BY <1>1, <1>2, <1>4 DEF IInv, Types
  <2>2. PICK s \in Steps : s = "commit" /\ pc' = [pc EXCEPT ![r] = s]
    BY <1>1, <1>5
  <2>3. tx'[r][k].id = job[r].id /\ k = KeyOf(r) /\ job' = job
    BY <1>1, <1>4, <2>1
  <2> HIDE DEF row, k
  <2> QED  BY <1>1, <1>2, <1>5, <2>1, <2>2, <2>3, WritingSteps
<1>7. OwnersAreAlone' /\ PresentedAreSpent'
  BY <1>1, <1>5, MintingSteps
<1> QED  BY <1>6, <1>7 DEF IInv

\* The number of a minting is drawn here, and is nobody else's.
LEMMA ClearKeeps ==
  ASSUME IInv, NEW r \in Requests, Clear(r)
  PROVE  IInv'
<1> DEFINE found == {k \in Keys : Clearable(r, k)}
<1>1. /\ pc[r] = "clear" /\ drawn < MaxLinks /\ drawn' = drawn + 1
      /\ job' = [job EXCEPT ![r] = [@ EXCEPT !.id = drawn + 1, !.todo = found]]
      /\ UNCHANGED <<link, lock, tx, clock, opened, presented>>
  BY DEF Clear, Committed
<1>2. PICK s \in {"insert", "clearing"} : pc' = [pc EXCEPT ![r] = s]
  BY DEF Clear, Goto
<1>3. found \subseteq Keys
  OBVIOUS
<1> HIDE DEF found
<1>4. /\ \A q \in Requests : pc'[q] = IF q = r THEN s ELSE pc[q]
      /\ s \in Steps
  BY <1>2 DEF IInv, Types, Steps
<1>5. drawn \in Nat /\ drawn + 1 \in 1..MaxLinks /\ drawn + 1 \in 0..MaxLinks /\ drawn' \in 0..MaxLinks
  BY <1>1, NullsAreNoLinks DEF IInv, Types
<1>6. /\ job' \in [Requests -> Jobs] /\ job'[r].id = drawn + 1
      /\ \A q \in Requests \ {r} : job'[q] = job[q]
  <2>1. job[r] \in Jobs
    BY DEF IInv, Types
  <2>2. /\ [job[r] EXCEPT !.id = drawn + 1, !.todo = found] \in Jobs
        /\ [job[r] EXCEPT !.id = drawn + 1, !.todo = found].id = drawn + 1
    BY <1>3, <1>5, <2>1 DEF Jobs
  <2> QED  BY <1>1, <2>2 DEF IInv, Types
<1>7. Types'
  BY <1>1, <1>2, <1>4, <1>5, <1>6 DEF IInv, Types
<1>8. WritesAreLocked'
  <2>1. \A q \in Requests \ {r} : KeyOf(q)' = KeyOf(q) /\ pc'[q] = pc[q]
    BY <1>4, <1>6 DEF KeyOf
  <2>2. \A k \in Keys : tx[r][k] \in {NoLink, Untouched}
    BY <1>1 DEF IInv, WritesAreLocked
  <2> QED  BY <1>1, <1>6, <2>1, <2>2 DEF IInv, WritesAreLocked
<1>9. \A k \in Keys : link[k] # NoLink => link[k].id \in Nat /\ link[k].id <= drawn
  BY RowTypes DEF IInv, RowsAreUnspent, Ids
<1>10. RowsAreUnspent'
  <2>1. \A k \in Keys : link[k] # NoLink => link[k].id <= drawn'
    BY <1>1, <1>5, <1>9
  <2> QED  BY <1>1, <2>1 DEF IInv, RowsAreUnspent
<1>11. OwnersAreAlone'
  <2>1. drawn + 1 \in 1..drawn' /\ opened'[drawn + 1] = 0
    BY <1>1, <1>5 DEF IInv, OpenedOnce, Ids
  <2>2. Fresh(job[r].id)'
    BY <1>1, <1>5, <1>6, <1>9, <2>1 DEF Fresh, Gone
  <2>3. ASSUME NEW q \in Requests \ {r}, pc'[q] \in Unlanded \cup {"read"}
        PROVE  Fresh(job[q].id)' /\ job[q].id \in 1..drawn
    <3>1. Fresh(job[q].id) /\ job'[q] = job[q]
      BY <1>4, <1>6, <2>3 DEF IInv, OwnersAreAlone
    <3>2. job[q].id \in 1..drawn'
      BY <1>1, <1>5, <3>1 DEF Fresh
    <3> QED  BY <1>1, <3>1, <3>2 DEF Fresh, Gone
  <2>4. ASSUME NEW q \in Requests \ {r}, pc'[q] \in Unlanded \cup {"read"}
        PROVE  job'[q].id # job'[r].id
    BY <1>5, <1>6, <2>3, <2>4
  <2>5. ASSUME NEW p \in Requests \ {r}, NEW q \in Requests \ {r}, p # q,
               {pc'[p], pc'[q]} \subseteq Unlanded \cup {"read"}
        PROVE  job'[p].id # job'[q].id
    BY <1>4, <1>6, <2>5 DEF IInv, OwnersAreAlone
  <2> QED  BY <2>2, <2>3, <2>4, <2>5 DEF OwnersAreAlone
<1>12. RenewalsHold'
  BY <1>1, <1>4, <1>6 DEF IInv, RenewalsHold
<1>13. OpenedOnce'
  BY <1>1, <1>5 DEF IInv, OpenedOnce, Ids
<1>14. PresentedAreSpent'
  <2>1. \A i \in presented : i \in Nat /\ i <= drawn
    BY DEF IInv, Types, PresentedAreSpent, Ids
  <2>2. \A i \in presented : i <= drawn' /\ i # drawn + 1
    BY <1>1, <1>5, <2>1
  <2>3. ASSUME NEW i \in presented, NEW q \in Requests, pc'[q] \in Unlanded
        PROVE  job'[q].id # i
    BY <1>4, <1>6, <2>2, <2>3 DEF IInv, PresentedAreSpent
  <2>4. ASSUME NEW q \in Requests, pc[q] \in Spending
        PROVE  pc'[q] \in Spending /\ job'[q].id = job[q].id
    BY <1>1, <1>4, <1>6, <2>4 DEF Spending
  <2>5. \A i \in Ids : Gone(i) <=> Gone(i)'
    BY <1>1 DEF Gone
  <2> QED  BY <1>1, <2>2, <2>3, <2>4, <2>5 DEF IInv, Types, PresentedAreSpent
<1> QED  BY <1>7, <1>8, <1>10, <1>11, <1>12, <1>13, <1>14 DEF IInv

\* A link that is found is locked, deleted, and in its spender's hands.
LEMMA SpendKeeps ==
  ASSUME IInv, NEW r \in Requests, Spend(r)
  PROVE  IInv' \/ (Refuse(r) /\ pc[r] = "spend")
<1> SUFFICES ASSUME NEW k \in Keys, link[k] # NoLink, link[k].id = job[r].id,
                    pc[r] = "spend", Lockable(r, k), TakeLock(r, k),
                    tx' = [tx EXCEPT ![r] = [@ EXCEPT ![k] = NoLink]],
                    job' = [job EXCEPT ![r].email = k[1]],
                    presented' = presented \cup {job[r].id},
                    pc' = [pc EXCEPT ![r] = "renew"],
                    UNCHANGED <<link, opened, drawn, clock>>
             PROVE  IInv'
  BY DEF Spend, Holding, Goto, Committed
<1>1. /\ job' \in [Requests -> Jobs] /\ \A q \in Requests \ {r} : job'[q] = job[q]
      /\ \A q \in Requests : job'[q].id = job[q].id
  <2>1. job[r] \in Jobs /\ k[1] \in Emails
    BY DEF IInv, Types, Keys
  <2>2. [job[r] EXCEPT !.email = k[1]] \in Jobs /\ [job[r] EXCEPT !.email = k[1]].id = job[r].id
    BY <2>1 DEF Jobs
  <2>3. job' = [job EXCEPT ![r] = [job[r] EXCEPT !.email = k[1]]]
    OBVIOUS
  <2> QED  BY <2>2, <2>3 DEF IInv, Types
<1>2. job[r].id \in Ids /\ job[r].id <= drawn /\ ~Gone(job[r].id)
  BY RowTypes DEF IInv, RowsAreUnspent, Gone
<1>3. /\ tx' \in [Requests -> [Keys -> Link \cup {NoLink, Untouched}]]
      /\ \A q \in Requests \ {r} : tx'[q] = tx[q]
      /\ tx'[r][k] = NoLink /\ \A l \in Keys \ {k} : tx'[r][l] = tx[r][l]
  BY DEF IInv, Types
<1>4. PICK s \in Steps : s = "renew" /\ pc' = [pc EXCEPT ![r] = s]
  BY DEF Steps
<1>5. \A q \in Requests : pc'[q] = IF q = r THEN s ELSE pc[q]
  BY <1>4 DEF IInv, Types
<1>8. Types' /\ WritesAreLocked' /\ RowsAreUnspent' /\ OpenedOnce' /\ RenewalsHold'
  <2>1. presented' \subseteq Ids /\ pc[r] # "commit" /\ link[k].id = job'[r].id
    BY <1>1, <1>2 DEF IInv, Types
  <2> QED  BY <1>1, <1>3, <1>4, <2>1, WritingSteps
<1>6. OwnersAreAlone'
  BY <1>1, <1>4, <1>5 DEF IInv, OwnersAreAlone, Fresh, Gone, Unlanded
<1>7. PresentedAreSpent'
  <2>1. ASSUME NEW q \in Requests, pc'[q] \in Unlanded
        PROVE  job'[q].id # job[r].id
    BY <1>1, <1>2, <1>4, <1>5, <2>1 DEF IInv, OwnersAreAlone, Fresh, Unlanded
  <2>2. pc'[r] \in Spending /\ job'[r].id = job[r].id
    BY <1>1, <1>4, <1>5 DEF Spending
  <2>3. ASSUME NEW i \in presented
        PROVE  /\ i <= drawn'
               /\ \A q \in Requests : pc'[q] \in Unlanded => job'[q].id # i
               /\ Gone(i)' \/ \E q \in Requests : pc'[q] \in Spending /\ job'[q].id = i
    BY <1>1, <1>4, <1>5 DEF IInv, PresentedAreSpent, Gone, Unlanded, Spending
  <2> QED  BY <1>2, <2>1, <2>2, <2>3 DEF PresentedAreSpent
<1> QED  BY <1>6, <1>7, <1>8 DEF IInv

-----------------------------------------------------------------------------
\* The ends of transactions and of requests

LEMMA NoJobTypes ==
  NoJob \in Jobs
<1>1. AnyEmail \in Emails
  BY LinksAssumption DEF AnyEmail
<1> QED  BY <1>1, NullsAreNoLinks DEF NoJob, Jobs, Routes

LEMMA CloseFacts ==
  ASSUME Types, NEW r \in Requests, Close(r)
  PROVE  /\ EndTx(r) /\ pc' = [pc EXCEPT ![r] = "idle"]
         /\ job' \in [Requests -> Jobs] /\ \A q \in Requests \ {r} : job'[q] = job[q]
BY NoJobTypes DEF Types, Close, Goto

LEMMA RefuseKeeps ==
  ASSUME IInv, NEW r \in Requests, Refuse(r), pc[r] \notin Spending
  PROVE  IInv'
<1>1. /\ EndTx(r) /\ pc' = [pc EXCEPT ![r] = "idle"]
      /\ job' \in [Requests -> Jobs] /\ \A q \in Requests \ {r} : job'[q] = job[q]
  BY CloseFacts DEF Refuse, IInv
<1>2. /\ UNCHANGED <<link, drawn>> /\ opened' = opened /\ presented' \subseteq presented
      /\ clock' \in Nat
  BY DEF Refuse, Committed, History, IInv, Types
<1>3. PICK s \in Steps \ (Unlanded \cup {"read", "renew"}) : pc' = [pc EXCEPT ![r] = s]
  BY <1>1 DEF Steps, Unlanded
<1> QED  BY <1>1, <1>2, <1>3, QuietSteps

LEMMA ReadAccountKeeps ==
  ASSUME IInv, NEW r \in Requests, ReadAccount(r)
  PROVE  IInv'
<1>1. /\ EndTx(r) /\ pc' = [pc EXCEPT ![r] = "idle"]
      /\ job' \in [Requests -> Jobs] /\ \A q \in Requests \ {r} : job'[q] = job[q]
  BY CloseFacts DEF ReadAccount, IInv
<1>2. /\ pc[r] = "read" /\ pc[r] \notin Spending
      /\ UNCHANGED <<link, drawn>> /\ presented' \subseteq presented
      /\ clock' \in Nat
      /\ opened' = opened \/ opened' = [opened EXCEPT ![job[r].id] = @ + 1]
  BY DEF ReadAccount, Committed, IInv, Types, Spending
<1>3. PICK s \in Steps \ (Unlanded \cup {"read", "renew"}) : pc' = [pc EXCEPT ![r] = s]
  BY <1>1 DEF Steps, Unlanded
<1> QED  BY <1>1, <1>2, <1>3, QuietSteps

LEMMA GiveUpKeeps ==
  ASSUME IInv, NEW r \in Requests, GiveUp(r)
  PROVE  IInv'
<1>1. /\ EndTx(r) /\ pc' = [pc EXCEPT ![r] = "idle"]
      /\ job' \in [Requests -> Jobs] /\ \A q \in Requests \ {r} : job'[q] = job[q]
  BY CloseFacts DEF GiveUp, IInv
<1>2. /\ UNCHANGED <<link, drawn>> /\ opened' = opened
      /\ presented' \subseteq presented /\ job[r].id \notin presented'
      /\ clock' \in Nat
  BY DEF GiveUp, Committed, IInv, Types
<1>3. PICK s \in Steps \ (Unlanded \cup {"read", "renew"}) : pc' = [pc EXCEPT ![r] = s]
  BY <1>1 DEF Steps, Unlanded
<1> QED  BY <1>1, <1>2, <1>3, QuietSteps

\* What a transaction leaves in the table.
LEMMA AppliedRows ==
  ASSUME IInv, NEW r \in Requests, pc[r] \in {"commit", "renew"}, link' = Applied(r)
  PROVE  /\ link' \in [Keys -> Link \cup {NoLink}]
         /\ \A k \in Keys : \/ link'[k] \in {link[k], NoLink}
                            \/ pc[r] = "commit" /\ k = KeyOf(r) /\ link'[k].id = job[r].id
         /\ \A k \in Keys : lock[k] \notin {NoRequest, r} => link'[k] = link[k]
         /\ pc[r] = "renew" =>
              \A k \in Keys : link'[k] # NoLink => link'[k].id # job[r].id
<1>1. /\ link' \in [Keys -> Link \cup {NoLink}]
      /\ \A k \in Keys : link'[k] = IF tx[r][k] = Untouched THEN link[k] ELSE tx[r][k]
  BY DEF Applied, IInv, Types
<1>2. \A k \in Keys : /\ tx[r][k] # Untouched => lock[k] = r
                      /\ tx[r][k] \notin {NoLink, Untouched} =>
                           pc[r] = "commit" /\ tx[r][k].id = job[r].id /\ k = KeyOf(r)
  BY DEF IInv, WritesAreLocked
<1>3. ASSUME pc[r] = "renew", NEW k \in Keys, link'[k] # NoLink
      PROVE  link'[k].id # job[r].id
  <2>1. link'[k] = link[k] /\ link[k] # NoLink
    BY <1>1, <1>2, <1>3
  <2>2. PICK l \in Keys : link[l] # NoLink /\ link[l].id = job[r].id /\ tx[r][l] = NoLink
    BY <1>3 DEF IInv, RenewalsHold
  <2>3. k # l
    BY <1>1, <1>3, <2>2, NullsAreNoLinks
  <2> QED  BY <2>1, <2>2, <2>3 DEF IInv, RowsAreUnspent
<1>4. ASSUME NEW k \in Keys
      PROVE  /\ \/ link'[k] \in {link[k], NoLink}
                \/ pc[r] = "commit" /\ k = KeyOf(r) /\ link'[k].id = job[r].id
             /\ lock[k] \notin {NoRequest, r} => link'[k] = link[k]
  <2>1. CASE tx[r][k] = Untouched
    BY <1>1, <2>1
  <2>2. CASE tx[r][k] # Untouched
    BY <1>1, <1>2, <2>2
  <2> QED  BY <2>1, <2>2
<1> QED  BY <1>1, <1>3, <1>4

LEMMA CommitKeeps ==
  ASSUME IInv, NEW r \in Requests, Commit(r) \/ CommitLost(r)
  PROVE  IInv'
<1>1. /\ pc[r] = "commit" /\ pc[r] \notin Spending /\ link' = Applied(r)
      /\ UNCHANGED <<opened, drawn, presented, clock>>
  BY DEF Commit, CommitLost, Land, History, Spending
<1>2. /\ EndTx(r) /\ job' \in [Requests -> Jobs]
      /\ \A q \in Requests \ {r} : job'[q] = job[q]
      /\ \E s \in {"release", "idle"} : pc' = [pc EXCEPT ![r] = s]
  <2>1. CASE Commit(r)
    BY <2>1 DEF Commit, Goto, IInv, Types
  <2>2. CASE CommitLost(r)
    BY <2>2, CloseFacts DEF CommitLost, IInv
  <2> QED  BY <2>1, <2>2
<1>3. PICK s \in Steps \ (Unlanded \cup {"renew"}) : s # "read" /\ pc' = [pc EXCEPT ![r] = s]
  BY <1>2 DEF Steps, Unlanded
<1>4. /\ link' \in [Keys -> Link \cup {NoLink}]
      /\ \A k \in Keys : \/ link'[k] \in {link[k], NoLink}
                         \/ pc[r] = "commit" /\ k = KeyOf(r) /\ link'[k].id = job[r].id
      /\ \A k \in Keys : lock[k] \notin {NoRequest, r} => link'[k] = link[k]
  BY <1>1, AppliedRows
<1>5. EndTx(r) /\ job' \in [Requests -> Jobs] /\ \A q \in Requests \ {r} : job'[q] = job[q]
  BY <1>2
<1> QED  BY <1>1, <1>3, <1>4, <1>5, LandingSteps

LEMMA RenewKeeps ==
  ASSUME IInv, NEW r \in Requests, Renew(r)
  PROVE  IInv'
<1>1. /\ pc[r] = "renew" /\ link' = Applied(r) /\ EndTx(r)
      /\ UNCHANGED <<opened, drawn, presented, clock>>
      /\ job' \in [Requests -> Jobs] /\ job' = job
  BY DEF Renew, Land, History, IInv, Types
<1>2. PICK s \in Steps \ (Unlanded \cup {"renew"}) : s = "read" /\ pc' = [pc EXCEPT ![r] = s]
  BY DEF Renew, Goto, Steps, Unlanded
<1> QED  BY <1>1, <1>2, AppliedRows, LandingSteps

LEMMA RenewFailsKeeps ==
  ASSUME IInv, NEW r \in Requests, RenewFails(r)
  PROVE  IInv'
<1>1. /\ pc[r] = "renew" /\ link' \in {link, Applied(r)} /\ EndTx(r)
      /\ UNCHANGED <<opened, drawn, presented, clock>>
      /\ job' \in [Requests -> Jobs] /\ job' = job
  BY DEF RenewFails, History, IInv, Types
<1>2. PICK s \in Steps \ (Unlanded \cup {"read", "renew"}) :
         s \in Spending /\ pc' = [pc EXCEPT ![r] = s]
  BY DEF RenewFails, Goto, Steps, Unlanded, Spending
<1>3. CASE UNCHANGED link
  <2>1. presented' \subseteq presented /\ clock' \in Nat /\ UNCHANGED <<link, drawn>>
    BY <1>1, <1>3 DEF IInv, Types
  <2> QED  BY <1>1, <1>2, <2>1, QuietSteps
<1>4. CASE link' = Applied(r)
  <2>1. s # "read" /\ s \in Steps \ (Unlanded \cup {"renew"})
    BY <1>2 DEF Spending
  <2> QED  BY <1>1, <1>2, <1>4, <2>1, AppliedRows, LandingSteps
<1> QED  BY <1>1, <1>3, <1>4

LEMMA RetryKeeps ==
  ASSUME IInv, NEW r \in Requests, Retry(r)
  PROVE  IInv'
<1>1. /\ EndTx(r) /\ pc' = [pc EXCEPT ![r] = "idle"]
      /\ job' \in [Requests -> Jobs] /\ \A q \in Requests \ {r} : job'[q] = job[q]
  BY CloseFacts DEF Retry, IInv
<1>2. /\ pc[r] = "retry" /\ UNCHANGED <<opened, drawn, presented, clock>>
      /\ \A k \in Holding(job[r].id) : Lockable(r, k)
      /\ link' = [k \in Keys |-> IF k \in Holding(job[r].id) THEN NoLink ELSE link[k]]
  BY DEF Retry, History
<1>3. link' \in [Keys -> Link \cup {NoLink}] /\ \A k \in Keys : link'[k] \in {link[k], NoLink}
  BY <1>2 DEF IInv, Types
<1>4. \A k \in Keys : lock[k] \notin {NoRequest, r} => link'[k] = link[k]
  BY <1>2 DEF Lockable
<1>5. \A k \in Keys : link'[k] # NoLink => link'[k].id # job[r].id
  BY <1>2 DEF Holding
<1>6. PICK s \in Steps \ (Unlanded \cup {"renew"}) : s = "idle" /\ pc' = [pc EXCEPT ![r] = s]
  BY <1>1 DEF Steps, Unlanded
<1> QED  BY <1>1, <1>2, <1>3, <1>4, <1>5, <1>6, LandingSteps

-----------------------------------------------------------------------------
\* Every step

\* A request that moves on, the database untouched.
LEMMA MovesKeep ==
  ASSUME IInv, NEW r \in Requests,
         NEW s \in Steps \ (Unlanded \cup {"read", "renew"}),
         pc' = [pc EXCEPT ![r] = s], pc[r] # "commit",
         job' \in [Requests -> Jobs], \A q \in Requests \ {r} : job'[q] = job[q],
         UNCHANGED <<link, tx, lock, opened, drawn, clock, presented>>,
         pc[r] \in Spending => s \in Spending /\ job'[r].id = job[r].id
  PROVE  IInv'
<1>1. clock' \in Nat /\ presented' \subseteq presented
  BY DEF IInv, Types
<1> QED  BY <1>1, QuietSteps

LEMMA ArriveKeeps ==
  ASSUME IInv, NEW r \in Requests, NEW e \in Emails, NEW i \in 0..MaxLinks,
         NEW route \in Routes \ {"toggle"}, Arrive(r, route, e, i)
  PROVE  IInv'
<1> DEFINE j == [NoJob EXCEPT !.route = route, !.email = e, !.id = i]
<1>1. /\ pc[r] = "idle" /\ pc[r] \notin Spending /\ job' = [job EXCEPT ![r] = j]
      /\ UNCHANGED <<link, tx, lock, opened, drawn, clock, presented>>
  BY DEF Arrive, Committed, Spending
<1>2. j \in Jobs
  BY NoJobTypes DEF Jobs
<1>3. PICK s \in Steps \ (Unlanded \cup {"read", "renew"}) : pc' = [pc EXCEPT ![r] = s]
  BY DEF Arrive, Goto, Steps, Unlanded
<1> HIDE DEF j
<1>4. job' \in [Requests -> Jobs] /\ \A q \in Requests \ {r} : job'[q] = job[q]
  BY <1>1, <1>2 DEF IInv, Types
<1> QED  BY <1>1, <1>3, <1>4, MovesKeep

LEMMA AcquireMoves ==
  ASSUME NEW r \in Requests, Acquire(r), job[r] \in Jobs
  PROVE  \E s \in {"clear", "retry", "look", "account", "spend"} :
            pc' = [pc EXCEPT ![r] = s] /\ (pc[r] = "alone" => s = "retry")
<1>1. pc' = [pc EXCEPT ![r] = Granted(r)] /\ pc[r] \in {"open", "reopen", "alone"}
  BY DEF Acquire, Goto
<1>2. job[r].route \in {"ask", "invite", "redeem"}
  BY DEF Jobs, Routes
<1>3. /\ Granted(r) \in {"clear", "retry", "look", "account", "spend"}
      /\ pc[r] = "alone" => Granted(r) = "retry"
  BY <1>1, <1>2 DEF Granted
<1> QED  BY <1>1, <1>3

LEMMA AcquireKeeps ==
  ASSUME IInv, NEW r \in Requests, Acquire(r)
  PROVE  IInv'
<1>1. /\ pc[r] \in {"open", "reopen", "alone"}
      /\ job' = [job EXCEPT ![r].now = clock]
      /\ UNCHANGED <<link, tx, lock, opened, drawn, clock, presented>>
  BY DEF Acquire, Committed, History
<1>2. /\ job' \in [Requests -> Jobs] /\ \A q \in Requests \ {r} : job'[q] = job[q]
      /\ job'[r].id = job[r].id
  <2>1. job[r] \in Jobs /\ clock \in Nat
    BY DEF IInv, Types
  <2>2. [job[r] EXCEPT !.now = clock] \in Jobs /\ [job[r] EXCEPT !.now = clock].id = job[r].id
    BY <2>1 DEF Jobs
  <2>3. job' = [job EXCEPT ![r] = [job[r] EXCEPT !.now = clock]]
    BY <1>1
  <2> QED  BY <2>2, <2>3 DEF IInv, Types
<1>3. PICK s \in Steps \ (Unlanded \cup {"read", "renew"}) :
         pc' = [pc EXCEPT ![r] = s] /\ (pc[r] \in Spending => s \in Spending)
  BY <1>1, AcquireMoves DEF IInv, Types, Steps, Unlanded, Spending
<1> QED  BY <1>1, <1>2, <1>3, MovesKeep

LEMMA LookKeeps ==
  ASSUME IInv, NEW r \in Requests, Look(r)
  PROVE  IInv'
<1>1. pc[r] = "look" /\ pc[r] \notin Spending
  BY DEF Look, Spending
<1>2. CASE account[job[r].email] = "open"
  <2>1. /\ UNCHANGED <<link, tx, lock, opened, drawn, clock, presented>>
        /\ job' \in [Requests -> Jobs] /\ job' = job
    BY <1>2 DEF Look, Committed, History, IInv, Types
  <2>2. PICK s \in Steps \ (Unlanded \cup {"read", "renew"}) : pc' = [pc EXCEPT ![r] = s]
    BY <1>2 DEF Look, Goto, Steps, Unlanded
  <2> QED  BY <1>1, <2>1, <2>2, MovesKeep
<1>3. CASE account[job[r].email] # "open"
  BY <1>1, <1>3, RefuseKeeps DEF Look
<1> QED  BY <1>2, <1>3

LEMMA OpenAccountKeeps ==
  ASSUME IInv, NEW r \in Requests, OpenAccount(r)
  PROVE  IInv'
<1>1. pc[r] = "account" /\ pc[r] \notin Spending
  BY DEF OpenAccount, Spending
<1>2. CASE account[job[r].email] = "none"
  <2>1. /\ UNCHANGED <<link, tx, lock, opened, drawn, clock, presented>>
        /\ job' = [job EXCEPT ![r].now = clock]
    BY <1>2 DEF OpenAccount, Committed, History
  <2>2. job' \in [Requests -> Jobs] /\ \A q \in Requests \ {r} : job'[q] = job[q]
    <3>1. job[r] \in Jobs /\ clock \in Nat
      BY DEF IInv, Types
    <3>2. [job[r] EXCEPT !.now = clock] \in Jobs
      BY <3>1 DEF Jobs
    <3>3. job' = [job EXCEPT ![r] = [job[r] EXCEPT !.now = clock]]
      BY <2>1
    <3> QED  BY <3>2, <3>3 DEF IInv, Types
  <2>3. PICK s \in Steps \ (Unlanded \cup {"read", "renew"}) : pc' = [pc EXCEPT ![r] = s]
    BY <1>2 DEF OpenAccount, Goto, Steps, Unlanded
  <2> QED  BY <1>1, <2>1, <2>2, <2>3, MovesKeep
<1>3. CASE account[job[r].email] # "none"
  BY <1>1, <1>3, RefuseKeeps DEF OpenAccount
<1> QED  BY <1>2, <1>3

LEMMA ReleaseKeeps ==
  ASSUME IInv, NEW r \in Requests, Release(r)
  PROVE  IInv'
<1>1. /\ pc[r] = "release" /\ pc[r] \notin Spending
      /\ UNCHANGED <<link, tx, lock, opened, drawn, clock, presented>>
      /\ job' \in [Requests -> Jobs] /\ job' = job
  BY DEF Release, Committed, History, IInv, Types, Spending
<1>2. PICK s \in Steps \ (Unlanded \cup {"read", "renew"}) : pc' = [pc EXCEPT ![r] = s]
  BY DEF Release, Goto, Steps, Unlanded
<1> QED  BY <1>1, <1>2, MovesKeep

LEMMA SendKeeps ==
  ASSUME IInv, NEW r \in Requests, Send(r)
  PROVE  IInv'
<1>1. /\ EndTx(r) /\ pc' = [pc EXCEPT ![r] = "idle"]
      /\ job' \in [Requests -> Jobs] /\ \A q \in Requests \ {r} : job'[q] = job[q]
  BY CloseFacts DEF Send, IInv
<1>2. /\ pc[r] \notin Spending /\ UNCHANGED <<link, drawn>> /\ opened' = opened
      /\ presented' \subseteq presented /\ clock' \in Nat
  BY DEF Send, Committed, IInv, Types, Spending
<1>3. PICK s \in Steps \ (Unlanded \cup {"read", "renew"}) : pc' = [pc EXCEPT ![r] = s]
  BY <1>1 DEF Steps, Unlanded
<1> QED  BY <1>1, <1>2, <1>3, QuietSteps

\* A step of nobody's: an account toggled, time that passes, or nothing.
LEMMA StillKeeps ==
  ASSUME IInv, UNCHANGED <<link, lock, tx, pc, job, drawn, opened, presented>>, clock' \in Nat
  PROVE  IInv'
<1>1. Types'
  BY DEF IInv, Types
<1>2. WritesAreLocked' /\ RowsAreUnspent' /\ OwnersAreAlone' /\ RenewalsHold' /\ OpenedOnce'
  BY DEF IInv, WritesAreLocked, RowsAreUnspent, OwnersAreAlone, RenewalsHold, OpenedOnce,
         Fresh, Gone, KeyOf
<1>3. PresentedAreSpent'
  BY DEF IInv, PresentedAreSpent, Gone
<1> QED  BY <1>1, <1>2, <1>3 DEF IInv

LEMMA Start ==
  Init => IInv
<1> SUFFICES ASSUME Init
             PROVE  IInv
  OBVIOUS
<1>1. Types
  <2>1. NoTx \in [Keys -> Link \cup {NoLink, Untouched}]
    BY DEF NoTx
  <2> QED  BY <2>1, NoJobTypes, NullsAreNoLinks DEF Init, Types, Steps
<1>2. WritesAreLocked /\ RenewalsHold
  BY DEF Init, NoTx, WritesAreLocked, RenewalsHold
<1>3. RowsAreUnspent /\ OwnersAreAlone /\ OpenedOnce /\ PresentedAreSpent
  BY DEF Init, RowsAreUnspent, OwnersAreAlone, OpenedOnce, PresentedAreSpent, Unlanded
<1> QED  BY <1>1, <1>2, <1>3 DEF IInv

LEMMA DeliveredKeeps ==
  ASSUME IInv, Delivered, [Next]_vars
  PROVE  Delivered'
<1>1. CASE UNCHANGED inbox
  BY <1>1 DEF Delivered
<1>2. ASSUME NEW r \in Requests, Send(r)
      PROVE  Delivered'
  <2>1. job[r].id \in 0..MaxLinks
    BY DEF IInv, Types, Jobs
  <2> QED  BY <1>2, <2>1 DEF Send, Delivered
<1>3. ASSUME NEW r \in Requests, Refuse(r)
      PROVE  UNCHANGED inbox
  BY <1>3 DEF Refuse, History
<1>4. ASSUME NEW r \in Requests, Step(r), ~Send(r)
      PROVE  UNCHANGED inbox
  <2>1. CASE Look(r) \/ OpenAccount(r) \/ Spend(r)
    BY <1>3, <2>1 DEF Look, OpenAccount, Spend, History
  <2>2. CASE Acquire(r) \/ ClearRow(r) \/ Insert(r) \/ Commit(r) \/ CommitLost(r)
             \/ Release(r) \/ Renew(r) \/ RenewFails(r) \/ Retry(r)
    BY <2>2 DEF Acquire, ClearRow, Insert, Commit, CommitLost, Release, Renew, RenewFails,
                Retry, History
  <2>3. CASE Clear(r) \/ ReadAccount(r)
    BY <2>3 DEF Clear, ReadAccount
  <2> QED  BY <1>4, <2>1, <2>2, <2>3 DEF Step
<1>5. ASSUME NEW r \in Requests,
             BeginAsk(r) \/ BeginInvite(r) \/ BeginRedeem(r) \/ Fail(r) \/ GiveUp(r)
      PROVE  UNCHANGED inbox
  <2>1. CASE Fail(r)
    BY <1>3, <2>1 DEF Fail
  <2>2. CASE BeginAsk(r) \/ BeginInvite(r) \/ BeginRedeem(r) \/ GiveUp(r)
    BY <2>2 DEF BeginAsk, BeginInvite, BeginRedeem, Arrive, GiveUp
  <2> QED  BY <1>5, <2>1, <2>2
<1>6. ASSUME Toggle \/ Tick \/ UNCHANGED vars
      PROVE  UNCHANGED inbox
  BY <1>6 DEF Toggle, Tick, History, vars
<1> QED  BY <1>1, <1>2, <1>4, <1>5, <1>6 DEF Next

LEMMA StepKeeps ==
  ASSUME IInv, Delivered, [Next]_vars
  PROVE  IInv'
<1>1. ASSUME NEW r \in Requests, BeginAsk(r) \/ BeginInvite(r) \/ BeginRedeem(r)
      PROVE  IInv'
  <2>1. AnyEmail \in Emails /\ 0 \in 0..MaxLinks /\ {"ask", "invite", "redeem"} \subseteq Routes \ {"toggle"}
    BY LinksAssumption, NullsAreNoLinks DEF AnyEmail, Routes
  <2>2. CASE BeginAsk(r) \/ BeginInvite(r)
    BY <2>1, <2>2, ArriveKeeps DEF BeginAsk, BeginInvite
  <2>3. CASE BeginRedeem(r)
    BY <2>1, <2>3, ArriveKeeps DEF BeginRedeem, Delivered
  <2> QED  BY <1>1, <2>2, <2>3
<1>2. ASSUME NEW r \in Requests, Step(r)
      PROVE  IInv'
  <2>1. CASE Spend(r)
    BY <2>1, SpendKeeps, RefuseKeeps DEF Spending
  <2> QED  BY <1>2, <2>1, AcquireKeeps, LookKeeps, OpenAccountKeeps, ClearKeeps, ClearRowKeeps,
              InsertKeeps, CommitKeeps, ReleaseKeeps, SendKeeps, RenewKeeps, RenewFailsKeeps,
              RetryKeeps, ReadAccountKeeps DEF Step
<1>3. ASSUME NEW r \in Requests, Fail(r)
      PROVE  IInv'
  BY <1>3, RefuseKeeps DEF Fail, Spending
<1>4. ASSUME Toggle \/ Tick \/ UNCHANGED vars
      PROVE  IInv'
  <2>1. clock' \in Nat /\ UNCHANGED <<link, lock, tx, pc, job, drawn, opened, presented>>
    BY <1>4 DEF Toggle, Tick, vars, Committed, History, IInv, Types
  <2> QED  BY <2>1, StillKeeps
<1> QED  BY <1>1, <1>2, <1>3, <1>4, GiveUpKeeps DEF Next

-----------------------------------------------------------------------------
\* Results

\* The invariant of the links: written rows are locked, a link is in one row
\* at most, whoever mints it or has just spent it has it to themselves.
THEOREM LinksInOrder ==
  Spec => [](IInv /\ Delivered)
<1>1. Init => IInv /\ Delivered
  BY Start DEF Init, Delivered
<1>2. IInv /\ Delivered /\ [Next]_vars => (IInv /\ Delivered)'
  BY StepKeeps, DeliveredKeeps
<1> QED  BY <1>1, <1>2, PTL DEF Spec

\* A link opens one session at most (redeemLink): however many requests
\* present it at once, whatever commits fail or lose their answer, while it is
\* asked for and minted again.
THEOREM LinksOpenOnce ==
  Spec => []SingleUse
<1>1. IInv => SingleUse
  BY DEF IInv, OpenedOnce, SingleUse
<1> QED  BY <1>1, LinksInOrder, PTL

\* A link that reached the database is in no row once nobody is busy with it
\* (redeemLink, spendAlone): a commit that failed hands back none.
THEOREM PresentedLinksAreGone ==
  Spec => []PresentedIsGone
<1>1. IInv => PresentedIsGone
  BY DEF IInv, PresentedAreSpent, PresentedIsGone, Holding, Gone
<1> QED  BY <1>1, LinksInOrder, PTL

-----------------------------------------------------------------------------
\* The pool

\* Whoever waits for a connection, or is about to, or for the relay.
Waiting == {"idle", "open", "reopen", "alone", "send"}

\* A request gives its connection back before it comes to a step that waits.
WaitersHoldNothing ==
  /\ pc \in [Requests -> Steps]
  /\ \A r \in Requests : pc[r] \in Waiting => r \notin conns

\* One request moves, and gives its connection back when it comes to wait.
LEMMA PoolSteps ==
  ASSUME WaitersHoldNothing, NEW r \in Requests, NEW s \in Steps,
         pc' = [pc EXCEPT ![r] = s],
         \A q \in Requests \ {r} : q \in conns' => q \in conns,
         s \in Waiting => r \notin conns'
  PROVE  WaitersHoldNothing'
BY DEF WaitersHoldNothing

LEMMA CloseKeepsThePool ==
  ASSUME WaitersHoldNothing, NEW r \in Requests, Close(r)
  PROVE  WaitersHoldNothing'
<1>1. PICK s \in Steps : pc' = [pc EXCEPT ![r] = s]
  BY DEF Close, Goto, Steps
<1>2. conns' = conns \ {r}
  BY DEF Close
<1> QED  BY <1>1, <1>2, PoolSteps

\* Nobody waits for a connection of the pool, or for the relay, while holding
\* one (renew, release, spendAlone).
THEOREM NobodyEverWaitsHolding ==
  Spec => []NobodyWaitsHolding
<1>1. Init => WaitersHoldNothing
  BY DEF Init, WaitersHoldNothing, Steps
<1>2. WaitersHoldNothing /\ IInv /\ [Next]_vars => WaitersHoldNothing'
  <2> SUFFICES ASSUME WaitersHoldNothing, IInv, [Next]_vars
               PROVE  WaitersHoldNothing'
    OBVIOUS
  <2>1. ASSUME NEW r \in Requests, Close(r) \/ Refuse(r)
        PROVE  WaitersHoldNothing'
    BY <2>1, CloseKeepsThePool DEF Refuse
  <2>2. ASSUME NEW r \in Requests, NEW route, NEW e, NEW i, Arrive(r, route, e, i)
        PROVE  WaitersHoldNothing'
    <3>1. pc' = [pc EXCEPT ![r] = "open"] /\ conns' = conns /\ r \notin conns
      BY <2>2 DEF Arrive, Goto, WaitersHoldNothing, Waiting
    <3>2. PICK s \in Steps : s = "open" /\ pc' = [pc EXCEPT ![r] = s]
      BY <3>1 DEF Steps
    <3> QED  BY <3>1, <3>2, PoolSteps
  <2>3. ASSUME NEW r \in Requests, Acquire(r)
        PROVE  WaitersHoldNothing'
    <3>1. PICK s \in {"clear", "retry", "look", "account", "spend"} : pc' = [pc EXCEPT ![r] = s]
      BY <2>3, AcquireMoves DEF IInv, Types
    <3>2. s \in Steps /\ s \notin Waiting /\ \A q \in Requests \ {r} : q \in conns' => q \in conns
      BY <2>3 DEF Acquire, Steps, Waiting
    <3> QED  BY <3>1, <3>2, PoolSteps
  <2>4. ASSUME NEW r \in Requests, NEW s \in Steps, pc' = [pc EXCEPT ![r] = s],
               conns' = conns \/ conns' = conns \ {r},
               s \in Waiting => conns' = conns \ {r}
        PROVE  WaitersHoldNothing'
    BY <2>4, PoolSteps
  <2>5. ASSUME NEW r \in Requests, Step(r), ~Acquire(r), ~Close(r), ~Refuse(r)
        PROVE  WaitersHoldNothing'
    <3>1. CASE Look(r) \/ RenewFails(r) \/ Release(r)
      <4>1. PICK s \in {"reopen", "alone", "send"} : pc' = [pc EXCEPT ![r] = s]
        BY <2>5, <3>1 DEF Look, RenewFails, Release, Goto
      <4>2. s \in Steps /\ conns' = conns \ {r}
        BY <2>5, <3>1 DEF Steps, Look, RenewFails, Release
      <4> QED  BY <2>4, <4>1, <4>2
    <3>2. CASE ~(Look(r) \/ RenewFails(r) \/ Release(r))
      <4>1. PICK s \in {"clear", "clearing", "insert", "commit", "release", "renew", "read"} :
                 pc' = [pc EXCEPT ![r] = s] /\ conns' = conns
        BY <2>5, <3>2 DEF Step, OpenAccount, Clear, ClearRow, Insert, Commit, CommitLost, Send,
                          Spend, Renew, Retry, ReadAccount, Goto
      <4>2. s \in Steps /\ s \notin Waiting
        BY DEF Steps, Waiting
      <4> QED  BY <2>4, <4>1, <4>2
    <3> QED  BY <3>1, <3>2
  <2>6. ASSUME Toggle \/ Tick \/ UNCHANGED vars
        PROVE  WaitersHoldNothing'
    BY <2>6 DEF Toggle, Tick, vars, WaitersHoldNothing
  <2> QED  BY <2>1, <2>2, <2>3, <2>5, <2>6
           DEF Next, BeginAsk, BeginInvite, BeginRedeem, Fail, GiveUp
<1>3. WaitersHoldNothing => NobodyWaitsHolding
  BY DEF WaitersHoldNothing, NobodyWaitsHolding, Waiting
<1> QED  BY <1>1, <1>2, <1>3, LinksInOrder, PTL DEF Spec

-----------------------------------------------------------------------------
\* What a minting has behind it

\* The accounts, and what is kept of them: an account being opened is not there
\* yet, a link in the table or in somebody's inbox has its account.
AccountsBehind ==
  /\ account \in [Emails -> {"none", "open", "closed"}]
  /\ opener \in [Emails -> Requests \cup {NoRequest}]
  /\ \A e \in Emails : opener[e] # NoRequest => account[e] = "none"
  /\ \A k \in Keys : link[k] # NoLink => account[k[1]] # "none"
  /\ \A m \in inbox : m.email \in Emails /\ account[m.email] # "none"

\* Where a request is says whose account it has behind it, and what the rows it
\* is about to remove are: expired, its own key's, or the link it presents.
OnItsWay(r) ==
  LET e == job[r].email
  IN /\ job[r].now <= clock
     /\ pc[r] = "look" => job[r].route = "ask"
     /\ pc[r] = "account" => job[r].route = "invite"
     /\ pc[r] = "reopen" => job[r].route = "ask" /\ account[e] # "none"
     /\ pc[r] \in {"clear"} \cup Unlanded =>
          \/ job[r].route = "ask" /\ account[e] # "none"
          \/ job[r].route = "invite" /\ opener[e] = r
     /\ pc[r] \in {"release", "send"} => account[e] # "none"
     /\ pc[r] \in {"spend", "read"} \cup Spending => job[r].route = "redeem"
     /\ pc[r] \notin {"renew"} \cup Unlanded => \A k \in Keys : tx[r][k] = Untouched
     /\ pc[r] \in Unlanded =>
          \A k \in Keys : (tx[r][k] # Untouched /\ k # KeyOf(r) /\ link[k] # NoLink) =>
                            link[k].expires <= clock
     /\ pc[r] = "renew" =>
          \A k \in Keys : (tx[r][k] # Untouched /\ link[k] # NoLink) => link[k].id = job[r].id

MintingInv == AccountsBehind /\ \A r \in Requests : OnItsWay(r)

\* A request stays on its way while nobody touches what it stands on.
LEMMA StaysOnItsWay ==
  ASSUME Types, NEW q \in Requests, OnItsWay(q), clock <= clock', clock' \in Nat,
         pc'[q] = pc[q], job'[q] = job[q], tx'[q] = tx[q],
         \A e \in Emails : account[e] # "none" => account'[e] # "none",
         \A e \in Emails : opener[e] = q => opener'[e] = q,
         \A k \in Keys : tx[q][k] # Untouched => link'[k] = link[k]
  PROVE  OnItsWay(q)'
<1>1. job[q].email \in Emails /\ job[q].now \in Nat /\ clock \in Nat
  BY DEF Types, Jobs
<1>2. job'[q].now <= clock'
  BY <1>1 DEF OnItsWay
<1>3. KeyOf(q)' = KeyOf(q)
  BY DEF KeyOf
<1>4. pc[q] \in Unlanded =>
        \A k \in Keys : (tx'[q][k] # Untouched /\ k # KeyOf(q) /\ link'[k] # NoLink) =>
                          link'[k].expires <= clock'
  <2> SUFFICES ASSUME pc[q] \in Unlanded, NEW k \in Keys, tx[q][k] # Untouched,
                      k # KeyOf(q), link[k] # NoLink
               PROVE  link[k].expires <= clock'
    OBVIOUS
  <2>1. link[k].expires <= clock /\ link[k].expires \in Nat
    BY DEF OnItsWay, Types, Link
  <2> QED  BY <1>1, <2>1
<1>5. pc[q] = "renew" =>
        \A k \in Keys : (tx'[q][k] # Untouched /\ link'[k] # NoLink) => link'[k].id = job'[q].id
  BY DEF OnItsWay
<1> QED  BY <1>1, <1>2, <1>3, <1>4, <1>5 DEF OnItsWay

\* A step of r's leaves the others' requests, accounts and rows to them.
Beside(r) ==
  /\ \A q \in Requests \ {r} : /\ pc'[q] = pc[q] /\ job'[q] = job[q] /\ tx'[q] = tx[q]
                               /\ \A e \in Emails : opener[e] = q => opener'[e] = q
                               /\ \A k \in Keys : tx[q][k] # Untouched => link'[k] = link[k]
  /\ \A e \in Emails : account[e] # "none" => account'[e] # "none"
  /\ clock' = clock

LEMMA BesideKeeps ==
  ASSUME IInv, MintingInv, NEW r \in Requests, Beside(r), AccountsBehind', OnItsWay(r)'
  PROVE  MintingInv'
<1>1. ASSUME NEW q \in Requests \ {r} PROVE OnItsWay(q)'
  <2>1. Types /\ OnItsWay(q) /\ clock <= clock' /\ clock' \in Nat
    BY DEF IInv, Types, MintingInv, Beside
  <2>2. /\ pc'[q] = pc[q] /\ job'[q] = job[q] /\ tx'[q] = tx[q]
        /\ \A e \in Emails : account[e] # "none" => account'[e] # "none"
        /\ \A e \in Emails : opener[e] = q => opener'[e] = q
        /\ \A k \in Keys : tx[q][k] # Untouched => link'[k] = link[k]
    BY DEF Beside
  <2> QED  BY <2>1, <2>2, StaysOnItsWay
<1> QED  BY <1>1 DEF MintingInv

\* The end of a transaction takes nothing from the others.
LEMMA EndedBeside ==
  ASSUME Types, AccountsBehind, NEW r \in Requests, EndTx(r)
  PROVE  /\ opener' \in [Emails -> Requests \cup {NoRequest}]
         /\ \A e \in Emails : opener'[e] = IF opener[e] = r THEN NoRequest ELSE opener[e]
         /\ \A k \in Keys : tx'[r][k] = Untouched
         /\ \A q \in Requests \ {r} : /\ tx'[q] = tx[q]
                                      /\ \A e \in Emails : opener[e] = q => opener'[e] = q
BY EndedTypes DEF EndTx, AccountsBehind

\* A request that ends has nothing behind it.
LEMMA EndsOnItsWay ==
  ASSUME Types, NEW r \in Requests, pc'[r] = "idle", job'[r] = NoJob,
         \A k \in Keys : tx'[r][k] = Untouched, clock' \in Nat
  PROVE  OnItsWay(r)'
BY DEF OnItsWay, Unlanded, Spending, NoJob

\* A request that closes, whatever it had done, leaves the table as it is.
LEMMA CloseInMinting ==
  ASSUME IInv, MintingInv, NEW r \in Requests, Close(r), UNCHANGED <<Committed, clock>>,
         \A m \in inbox' : m \in inbox \/ (m.email \in Emails /\ account[m.email] # "none")
  PROVE  MintingInv'
<1>1. Types /\ AccountsBehind /\ clock' \in Nat
  BY DEF IInv, Types, MintingInv
<1>2. /\ EndTx(r) /\ pc' = [pc EXCEPT ![r] = "idle"] /\ job' = [job EXCEPT ![r] = NoJob]
      /\ account' = account /\ link' = link /\ clock' = clock
  BY DEF Close, Goto, Committed
<1>3. AccountsBehind'
  BY <1>1, <1>2, EndedBeside DEF AccountsBehind
<1>4. pc'[r] = "idle" /\ job'[r] = NoJob
  BY <1>1, <1>2 DEF Types
<1>5. Beside(r)
  BY <1>1, <1>2, EndedBeside DEF Beside, Types
<1>6. OnItsWay(r)'
  BY <1>1, <1>2, <1>4, EndedBeside, EndsOnItsWay
<1> QED  BY <1>3, <1>5, <1>6, BesideKeeps

\* A request that moves, the table as it is and its transaction open.
LEMMA MoveInMinting ==
  ASSUME IInv, MintingInv, NEW r \in Requests, UNCHANGED <<Committed, clock, inbox>>,
         opener' = opener,
         \A q \in Requests \ {r} : pc'[q] = pc[q] /\ job'[q] = job[q] /\ tx'[q] = tx[q],
         OnItsWay(r)'
  PROVE  MintingInv'
<1>1. AccountsBehind'
  BY DEF MintingInv, AccountsBehind, Committed
<1>2. Beside(r)
  BY DEF Beside, Committed
<1> QED  BY <1>1, <1>2, BesideKeeps

LEMMA RefuseInMinting ==
  ASSUME IInv, MintingInv, NEW r \in Requests, Refuse(r)
  PROVE  MintingInv'
BY CloseInMinting DEF Refuse, History

LEMMA BeginsInMinting ==
  ASSUME IInv, MintingInv, NEW r \in Requests, NEW route, NEW e, NEW i,
         Arrive(r, route, e, i)
  PROVE  MintingInv'
<1> DEFINE j == [NoJob EXCEPT !.route = route, !.email = e, !.id = i]
<1>1. /\ pc[r] = "idle" /\ pc' = [pc EXCEPT ![r] = "open"] /\ job' = [job EXCEPT ![r] = j]
      /\ UNCHANGED <<Committed, clock, inbox>> /\ opener' = opener /\ tx' = tx
  BY DEF Arrive, Goto
<1>2. j.now = 0
  BY DEF NoJob
<1> HIDE DEF j
<1>3. /\ pc'[r] = "open" /\ job'[r] = j
      /\ \A q \in Requests \ {r} : pc'[q] = pc[q] /\ job'[q] = job[q] /\ tx'[q] = tx[q]
  BY <1>1 DEF IInv, Types
<1>4. clock' \in Nat /\ \A k \in Keys : tx'[r][k] = Untouched
  BY <1>1 DEF IInv, Types, MintingInv, OnItsWay, Unlanded
<1>5. OnItsWay(r)'
  BY <1>2, <1>3, <1>4 DEF OnItsWay, Unlanded, Spending
<1> QED  BY <1>1, <1>3, <1>5, MoveInMinting

\* A connection granted, an account found or opened, a connection given back.
LEMMA AcquireInMinting ==
  ASSUME IInv, MintingInv, NEW r \in Requests, Acquire(r)
  PROVE  MintingInv'
<1>0. /\ Types /\ OnItsWay(r) /\ job[r] \in Jobs /\ clock \in Nat
      /\ pc \in [Requests -> Steps] /\ job \in [Requests -> Jobs]
  BY DEF IInv, Types, MintingInv
<1>1. /\ pc[r] \in {"open", "reopen", "alone"} /\ pc' = [pc EXCEPT ![r] = Granted(r)]
      /\ job' = [job EXCEPT ![r].now = clock]
      /\ UNCHANGED <<Committed, clock, inbox>> /\ opener' = opener /\ tx' = tx
  BY DEF Acquire, Goto, History
<1>2. /\ pc'[r] = Granted(r) /\ job'[r].route = job[r].route /\ job'[r].email = job[r].email
      /\ job'[r].now = clock /\ account' = account /\ opener' = opener /\ clock' = clock
      /\ \A q \in Requests \ {r} : pc'[q] = pc[q] /\ job'[q] = job[q] /\ tx'[q] = tx[q]
  BY <1>0, <1>1 DEF Jobs, Committed
<1>3. \A k \in Keys : tx'[r][k] = Untouched
  BY <1>0, <1>1 DEF OnItsWay, Unlanded
<1>4. job[r].route \in {"ask", "invite", "redeem"}
  BY <1>0 DEF Jobs, Routes
<1>5. \/ Granted(r) = "look" /\ job[r].route = "ask"
      \/ Granted(r) = "account" /\ job[r].route = "invite"
      \/ Granted(r) \in {"spend", "retry"} /\ job[r].route = "redeem"
      \/ Granted(r) = "clear" /\ job[r].route = "ask" /\ account[job[r].email] # "none"
  BY <1>0, <1>1, <1>4 DEF Granted, OnItsWay, Spending
<1>6. OnItsWay(r)'
  BY <1>0, <1>2, <1>3, <1>5 DEF OnItsWay, Unlanded, Spending
<1> QED  BY <1>1, <1>2, <1>6, MoveInMinting

LEMMA LookInMinting ==
  ASSUME IInv, MintingInv, NEW r \in Requests, Look(r)
  PROVE  MintingInv'
<1>1. CASE account[job[r].email] # "open"
  BY <1>1, RefuseInMinting DEF Look
<1>2. CASE account[job[r].email] = "open"
  <2>1. /\ pc[r] = "look" /\ pc' = [pc EXCEPT ![r] = "reopen"] /\ tx' = tx /\ job' = job
        /\ UNCHANGED <<Committed, clock, inbox>> /\ opener' = opener
        /\ account' = account /\ clock' = clock
    BY <1>2 DEF Look, Goto, History, Committed
  <2>2. OnItsWay(r) /\ pc \in [Requests -> Steps]
    BY DEF IInv, Types, MintingInv
  <2>3. pc'[r] = "reopen" /\ \A q \in Requests \ {r} : pc'[q] = pc[q]
    BY <2>1, <2>2
  <2>4. OnItsWay(r)'
    BY <1>2, <2>1, <2>2, <2>3 DEF OnItsWay, Unlanded, Spending
  <2> QED  BY <2>1, <2>3, <2>4, MoveInMinting
<1> QED  BY <1>1, <1>2

LEMMA OpenAccountInMinting ==
  ASSUME IInv, MintingInv, NEW r \in Requests, OpenAccount(r)
  PROVE  MintingInv'
<1> DEFINE e == job[r].email
<1>1. CASE account[e] # "none"
  BY <1>1, RefuseInMinting DEF OpenAccount
<1>2. CASE account[e] = "none"
  <2>1. /\ pc[r] = "account" /\ pc' = [pc EXCEPT ![r] = "clear"] /\ tx' = tx
        /\ job' = [job EXCEPT ![r].now = clock] /\ opener[e] = NoRequest
        /\ opener' = [opener EXCEPT ![e] = r]
        /\ account' = account /\ link' = link /\ clock' = clock /\ inbox' = inbox
    BY <1>2 DEF OpenAccount, Goto, History, Committed
  <2>2. /\ OnItsWay(r) /\ AccountsBehind /\ e \in Emails /\ clock \in Nat
        /\ pc \in [Requests -> Steps] /\ job \in [Requests -> Jobs]
    BY DEF IInv, Types, MintingInv, Jobs
  <2>3. /\ pc'[r] = "clear" /\ job'[r].now = clock /\ job'[r].email = e
        /\ job'[r].route = job[r].route
        /\ \A q \in Requests \ {r} : pc'[q] = pc[q] /\ job'[q] = job[q]
    BY <2>1, <2>2 DEF Jobs
  <2>4. opener'[e] = r /\ \A d \in Emails \ {e} : opener'[d] = opener[d]
    BY <2>1, <2>2 DEF AccountsBehind
  <2>5. AccountsBehind'
    BY <1>2, <2>1, <2>2, <2>4 DEF AccountsBehind
  <2>6. OnItsWay(r)'
    BY <2>1, <2>2, <2>3, <2>4 DEF OnItsWay, Unlanded, Spending
  <2>7. Beside(r)
    BY <2>1, <2>2, <2>3, <2>4, NullsAreNoLinks DEF Beside
  <2> QED  BY <2>5, <2>6, <2>7, BesideKeeps
<1> QED  BY <1>1, <1>2

\* The statements of a minting: what it removes has expired, or is its own key's.
LEMMA ClearInMinting ==
  ASSUME IInv, MintingInv, NEW r \in Requests, Clear(r)
  PROVE  MintingInv'
<1> DEFINE found == {k \in Keys : Clearable(r, k)}
           j == [job[r] EXCEPT !.id = drawn + 1, !.todo = found]
<1>1. /\ pc[r] = "clear" /\ job' = [job EXCEPT ![r] = j] /\ tx' = tx
      /\ UNCHANGED <<Committed, clock, inbox>> /\ opener' = opener
      /\ account' = account /\ clock' = clock
      /\ \E s \in {"insert", "clearing"} : pc' = [pc EXCEPT ![r] = s]
  BY DEF Clear, Goto, Committed
<1>2. /\ OnItsWay(r) /\ job[r] \in Jobs /\ pc \in [Requests -> Steps]
      /\ job \in [Requests -> Jobs]
  BY DEF IInv, Types, MintingInv
<1>3. j.route = job[r].route /\ j.email = job[r].email /\ j.now = job[r].now
  BY <1>2 DEF Jobs
<1> HIDE DEF j
<1>4. /\ job'[r] = j /\ pc'[r] \in {"insert", "clearing"}
      /\ \A q \in Requests \ {r} : pc'[q] = pc[q] /\ job'[q] = job[q] /\ tx'[q] = tx[q]
  BY <1>1, <1>2
<1>5. \A k \in Keys : tx'[r][k] = Untouched
  BY <1>1, <1>2 DEF OnItsWay, Unlanded
<1>6. OnItsWay(r)'
  BY <1>1, <1>2, <1>3, <1>4, <1>5 DEF OnItsWay, Unlanded, Spending
<1> QED  BY <1>1, <1>4, <1>6, MoveInMinting

LEMMA ClearRowInMinting ==
  ASSUME IInv, MintingInv, NEW r \in Requests, ClearRow(r)
  PROVE  MintingInv'
<1>1. PICK k \in job[r].todo :
        /\ IF Clearable(r, k)
           THEN tx' = [tx EXCEPT ![r] = [@ EXCEPT ![k] = NoLink]]
           ELSE UNCHANGED tx
        /\ job' = [job EXCEPT ![r].todo = job[r].todo \ {k}]
        /\ Goto(r, IF job[r].todo \ {k} = {} THEN "insert" ELSE "clearing")
  BY DEF ClearRow
<1>2. /\ OnItsWay(r) /\ job[r] \in Jobs /\ k \in Keys /\ pc \in [Requests -> Steps]
      /\ job \in [Requests -> Jobs] /\ tx \in [Requests -> [Keys -> Link \cup {NoLink, Untouched}]]
      /\ link \in [Keys -> Link \cup {NoLink}] /\ job[r].now \in Nat /\ clock \in Nat
  BY DEF IInv, Types, MintingInv, Jobs
<1>3. /\ pc[r] = "clearing" /\ UNCHANGED <<Committed, clock, inbox>> /\ opener' = opener
      /\ account' = account /\ link' = link /\ clock' = clock
  BY DEF ClearRow, History, Committed
<1>4. /\ pc'[r] \in {"insert", "clearing"} /\ \A q \in Requests \ {r} : pc'[q] = pc[q]
  BY <1>1, <1>2 DEF Goto
<1>5. /\ job'[r].route = job[r].route /\ job'[r].email = job[r].email
      /\ job'[r].now = job[r].now /\ \A q \in Requests \ {r} : job'[q] = job[q]
  BY <1>1, <1>2 DEF Jobs
<1>6. /\ \A q \in Requests \ {r} : tx'[q] = tx[q]
      /\ \A l \in Keys \ {k} : tx'[r][l] = tx[r][l]
      /\ ~Clearable(r, k) => tx'[r][k] = tx[r][k]
  BY <1>1, <1>2
<1>7. KeyOf(r)' = KeyOf(r)
  BY <1>5 DEF KeyOf
<1>8. ASSUME NEW l \in Keys, tx'[r][l] # Untouched, l # KeyOf(r), link[l] # NoLink
      PROVE  link[l].expires <= clock
  <2>1. CASE tx[r][l] # Untouched
    BY <1>2, <1>3, <1>8, <2>1 DEF OnItsWay, Unlanded
  <2>2. CASE tx[r][l] = Untouched
    <3>1. l = k /\ Clearable(r, k)
      BY <1>6, <1>8, <2>2
    <3>2. link[k].expires <= job[r].now /\ link[k].expires \in Nat
      BY <1>2, <1>8, <3>1 DEF Clearable, Link
    <3>3. job[r].now <= clock
      BY <1>2 DEF OnItsWay
    <3> QED  BY <1>2, <3>1, <3>2, <3>3
  <2> QED  BY <2>1, <2>2
<1>9. OnItsWay(r)'
  BY <1>2, <1>3, <1>4, <1>5, <1>7, <1>8 DEF OnItsWay, Unlanded, Spending
<1> QED  BY <1>3, <1>4, <1>5, <1>6, <1>9, MoveInMinting

LEMMA InsertInMinting ==
  ASSUME IInv, MintingInv, NEW r \in Requests, Insert(r)
  PROVE  MintingInv'
<1> DEFINE k == KeyOf(r)
           row == [id |-> job[r].id, expires |-> job[r].now + Life[k[2]]]
<1>1. /\ pc[r] = "insert" /\ tx' = [tx EXCEPT ![r] = [@ EXCEPT ![k] = row]]
      /\ pc' = [pc EXCEPT ![r] = "commit"] /\ job' = job
      /\ UNCHANGED <<Committed, clock, inbox>> /\ opener' = opener
      /\ account' = account /\ link' = link /\ clock' = clock
  BY DEF Insert, Goto, History, Committed
<1>2. /\ OnItsWay(r) /\ k \in Keys /\ pc \in [Requests -> Steps]
      /\ tx \in [Requests -> [Keys -> Link \cup {NoLink, Untouched}]]
  BY KeyTypes DEF IInv, Types, MintingInv
<1> HIDE DEF row, k
<1>3. /\ pc'[r] = "commit" /\ job'[r] = job[r]
      /\ \A q \in Requests \ {r} : pc'[q] = pc[q] /\ job'[q] = job[q] /\ tx'[q] = tx[q]
      /\ \A l \in Keys \ {k} : tx'[r][l] = tx[r][l]
  BY <1>1, <1>2
<1>4. KeyOf(r)' = k
  BY <1>1 DEF KeyOf, k
<1>5. OnItsWay(r)'
  BY <1>1, <1>2, <1>3, <1>4 DEF OnItsWay, Unlanded, Spending, k
<1> QED  BY <1>1, <1>3, <1>5, MoveInMinting

\* A link found is the only row its spender removes.
LEMMA SpendInMinting ==
  ASSUME IInv, MintingInv, NEW r \in Requests, Spend(r)
  PROVE  MintingInv'
<1>1. CASE Refuse(r)
  BY <1>1, RefuseInMinting
<1>2. CASE ~Refuse(r)
  <2>1. PICK k \in Holding(job[r].id) :
          /\ tx' = [tx EXCEPT ![r] = [@ EXCEPT ![k] = NoLink]]
          /\ job' = [job EXCEPT ![r].email = k[1]]
          /\ pc' = [pc EXCEPT ![r] = "renew"]
          /\ UNCHANGED <<Committed, clock, inbox>> /\ opener' = opener
    BY <1>2 DEF Spend, Goto
  <2>2. /\ OnItsWay(r) /\ k \in Keys /\ link[k].id = job[r].id /\ pc[r] = "spend"
        /\ pc \in [Requests -> Steps] /\ job \in [Requests -> Jobs] /\ job[r] \in Jobs
        /\ tx \in [Requests -> [Keys -> Link \cup {NoLink, Untouched}]]
    BY DEF IInv, Types, MintingInv, Holding, Spend
  <2>3. /\ pc'[r] = "renew" /\ \A q \in Requests \ {r} : pc'[q] = pc[q]
        /\ \A q \in Requests \ {r} : job'[q] = job[q] /\ tx'[q] = tx[q]
        /\ \A l \in Keys \ {k} : tx'[r][l] = tx[r][l]
    BY <2>1, <2>2
  <2>4. /\ job'[r].route = job[r].route /\ job'[r].id = job[r].id /\ job'[r].now = job[r].now
        /\ link' = link /\ clock' = clock
    BY <2>1, <2>2 DEF Jobs, Committed
  <2>5. \A l \in Keys : tx[r][l] = Untouched
    BY <2>2 DEF OnItsWay, Unlanded
  <2>6. OnItsWay(r)'
    BY <2>2, <2>3, <2>4, <2>5 DEF OnItsWay, Unlanded, Spending
  <2> QED  BY <2>1, <2>3, <2>6, MoveInMinting
<1> QED  BY <1>1, <1>2

LEMMA ReleaseInMinting ==
  ASSUME IInv, MintingInv, NEW r \in Requests, Release(r)
  PROVE  MintingInv'
<1>1. /\ pc[r] = "release" /\ pc' = [pc EXCEPT ![r] = "send"] /\ tx' = tx /\ job' = job
      /\ UNCHANGED <<Committed, clock, inbox>> /\ opener' = opener
      /\ account' = account /\ clock' = clock
  BY DEF Release, Goto, History, Committed
<1>2. OnItsWay(r) /\ pc \in [Requests -> Steps]
  BY DEF IInv, Types, MintingInv
<1>3. pc'[r] = "send" /\ \A q \in Requests \ {r} : pc'[q] = pc[q]
  BY <1>1, <1>2
<1>4. OnItsWay(r)'
  BY <1>1, <1>2, <1>3 DEF OnItsWay, Unlanded, Spending
<1> QED  BY <1>1, <1>3, <1>4, MoveInMinting

\* The message of a minting goes to an address whose account is there.
LEMMA SendInMinting ==
  ASSUME IInv, MintingInv, NEW r \in Requests, Send(r)
  PROVE  MintingInv'
<1>1. OnItsWay(r) /\ pc[r] = "send" /\ job[r].email \in Emails
  BY DEF IInv, Types, MintingInv, Jobs, Send
<1>2. account[job[r].email] # "none" /\ KeyOf(r)[1] = job[r].email
  BY <1>1 DEF OnItsWay, KeyOf
<1>3. \A m \in inbox' : m \in inbox \/ (m.email \in Emails /\ account[m.email] # "none")
  BY <1>1, <1>2 DEF Send
<1> QED  BY <1>3, CloseInMinting DEF Send

-----------------------------------------------------------------------------
\* What landing does to the rows of an address.

\* Rows and accounts land together: a new row has its account with it, and the
\* rows others have locked stay as they are.
LEMMA LandsBeside ==
  ASSUME IInv, MintingInv, NEW r \in Requests, EndTx(r),
         pc[r] \in {"commit", "renew"}, link' = Applied(r),
         account' = [e \in Emails |-> IF opener[e] = r THEN "open" ELSE account[e]],
         UNCHANGED <<inbox, clock>>
  PROVE  /\ AccountsBehind'
         /\ \A e \in Emails : account[e] # "none" => account'[e] # "none"
         /\ \A q \in Requests \ {r}, k \in Keys : tx[q][k] # Untouched => link'[k] = link[k]
         /\ pc[r] = "commit" => account'[job[r].email] # "none"
<1>0. /\ Types /\ AccountsBehind /\ OnItsWay(r) /\ job[r].email \in Emails
      /\ \A k \in Keys : k[1] \in Emails
  BY DEF IInv, MintingInv, Types, Jobs, Keys
<1>1. /\ \A k \in Keys : \/ link'[k] \in {link[k], NoLink}
                         \/ pc[r] = "commit" /\ k = KeyOf(r)
      /\ \A k \in Keys : lock[k] \notin {NoRequest, r} => link'[k] = link[k]
  BY AppliedRows
<1>2. \A e \in Emails : account[e] # "none" => account'[e] # "none"
  BY <1>0
<1>3. pc[r] = "commit" => account'[job[r].email] # "none"
  BY <1>0 DEF OnItsWay, Unlanded
<1>4. KeyOf(r)[1] = job[r].email
  BY DEF KeyOf
<1>5. \A k \in Keys : link'[k] # NoLink => account'[k[1]] # "none"
  BY <1>0, <1>1, <1>2, <1>3, <1>4 DEF AccountsBehind
<1>6. \A e \in Emails : opener'[e] # NoRequest => account'[e] = "none"
  BY <1>0, EndedBeside DEF AccountsBehind
<1>7. account' \in [Emails -> {"none", "open", "closed"}]
  BY <1>0 DEF AccountsBehind
<1>8. \A m \in inbox' : m.email \in Emails /\ account'[m.email] # "none"
  BY <1>0, <1>2 DEF AccountsBehind
<1>9. opener' \in [Emails -> Requests \cup {NoRequest}]
  BY <1>0, EndedBeside
<1>10. AccountsBehind'
  BY <1>5, <1>6, <1>7, <1>8, <1>9 DEF AccountsBehind
<1>11. \A q \in Requests \ {r}, k \in Keys : tx[q][k] # Untouched => link'[k] = link[k]
  BY <1>1, NullsAreNoLinks DEF IInv, WritesAreLocked
<1> QED  BY <1>2, <1>3, <1>10, <1>11

\* The commit of a minting, told or not.
LEMMA CommitInMinting ==
  ASSUME IInv, MintingInv, NEW r \in Requests, Commit(r) \/ CommitLost(r)
  PROVE  MintingInv'
<1>0. /\ Types /\ AccountsBehind /\ OnItsWay(r) /\ pc \in [Requests -> Steps]
      /\ job \in [Requests -> Jobs] /\ clock \in Nat /\ job[r].now \in Nat
  BY DEF IInv, MintingInv, Types, Jobs
<1>1. /\ pc[r] = "commit" /\ EndTx(r) /\ link' = Applied(r)
      /\ account' = [e \in Emails |-> IF opener[e] = r THEN "open" ELSE account[e]]
      /\ UNCHANGED <<inbox, clock>> /\ clock' = clock
      /\ \/ pc' = [pc EXCEPT ![r] = "release"] /\ job' = job
         \/ pc' = [pc EXCEPT ![r] = "idle"] /\ job' = [job EXCEPT ![r] = NoJob]
  BY DEF Commit, CommitLost, Land, Close, Goto, History
<1>2. /\ AccountsBehind' /\ \A e \in Emails : account[e] # "none" => account'[e] # "none"
      /\ \A q \in Requests \ {r}, k \in Keys : tx[q][k] # Untouched => link'[k] = link[k]
      /\ account'[job[r].email] # "none"
  BY <1>1, LandsBeside
<1>3. \A q \in Requests \ {r} : pc'[q] = pc[q] /\ job'[q] = job[q]
  BY <1>0, <1>1
<1>4. Beside(r)
  BY <1>0, <1>1, <1>2, <1>3, EndedBeside DEF Beside
<1>5. \A k \in Keys : tx'[r][k] = Untouched
  BY <1>0, <1>1, EndedBeside
<1>6. CASE pc' = [pc EXCEPT ![r] = "release"] /\ job' = job
  <2>1. pc'[r] = "release" /\ job'[r] = job[r]
    BY <1>0, <1>6
  <2>2. OnItsWay(r)'
    BY <1>0, <1>1, <1>2, <1>5, <2>1 DEF OnItsWay, Unlanded, Spending
  <2> QED  BY <1>2, <1>4, <2>2, BesideKeeps
<1>7. CASE pc' = [pc EXCEPT ![r] = "idle"] /\ job' = [job EXCEPT ![r] = NoJob]
  <2>1. pc'[r] = "idle" /\ job'[r] = NoJob
    BY <1>0, <1>7
  <2> QED  BY <1>0, <1>1, <1>2, <1>4, <1>5, <2>1, EndsOnItsWay, BesideKeeps
<1> QED  BY <1>1, <1>6, <1>7

\* A link spent, its commit told or not, or given back by a rollback.
LEMMA RenewInMinting ==
  ASSUME IInv, MintingInv, NEW r \in Requests, Renew(r) \/ RenewFails(r)
  PROVE  MintingInv'
<1>0. /\ Types /\ AccountsBehind /\ OnItsWay(r) /\ pc \in [Requests -> Steps]
      /\ job \in [Requests -> Jobs] /\ clock \in Nat /\ job[r].now \in Nat
  BY DEF IInv, MintingInv, Types, Jobs
<1>1. /\ pc[r] = "renew" /\ EndTx(r) /\ UNCHANGED <<inbox, clock>> /\ clock' = clock
      /\ job' = job /\ \E s \in {"read", "alone"} : pc' = [pc EXCEPT ![r] = s]
      /\ \/ Land(r)
         \/ account' = account /\ link' \in {link, Applied(r)}
  BY DEF Renew, RenewFails, Goto, History
<1>2. pc'[r] \in {"read", "alone"} /\ \A q \in Requests \ {r} : pc'[q] = pc[q]
  BY <1>0, <1>1
<1>3. \A k \in Keys : tx'[r][k] = Untouched
  BY <1>0, <1>1, EndedBeside
<1>4. OnItsWay(r)'
  BY <1>0, <1>1, <1>2, <1>3 DEF OnItsWay, Unlanded, Spending
<1>5. ASSUME account' = account, link' \in {link, Applied(r)}
      PROVE  /\ AccountsBehind'
             /\ \A q \in Requests \ {r}, k \in Keys : tx[q][k] # Untouched => link'[k] = link[k]
  <2>1. \A k \in Keys : link'[k] \in {link[k], NoLink}
    BY <1>1, <1>5, AppliedRows
  <2>2. \A k \in Keys : lock[k] \notin {NoRequest, r} => link'[k] = link[k]
    BY <1>1, <1>5, AppliedRows
  <2>3. AccountsBehind'
    BY <1>0, <1>1, <1>5, <2>1, EndedBeside DEF AccountsBehind
  <2>4. \A q \in Requests \ {r}, k \in Keys : tx[q][k] # Untouched => link'[k] = link[k]
    BY <2>2, NullsAreNoLinks DEF IInv, WritesAreLocked
  <2> QED  BY <2>3, <2>4
<1>6. /\ AccountsBehind' /\ \A e \in Emails : account[e] # "none" => account'[e] # "none"
      /\ \A q \in Requests \ {r}, k \in Keys : tx[q][k] # Untouched => link'[k] = link[k]
  <2>1. CASE Land(r)
    BY <1>1, <2>1, LandsBeside DEF Land
  <2>2. CASE account' = account /\ link' \in {link, Applied(r)}
    BY <1>5, <2>2
  <2> QED  BY <1>1, <2>1, <2>2
<1>7. Beside(r)
  BY <1>0, <1>1, <1>2, <1>6, EndedBeside DEF Beside
<1> QED  BY <1>4, <1>6, <1>7, BesideKeeps

LEMMA RetryInMinting ==
  ASSUME IInv, MintingInv, NEW r \in Requests, Retry(r)
  PROVE  MintingInv'
<1>0. /\ Types /\ AccountsBehind /\ pc \in [Requests -> Steps]
      /\ job \in [Requests -> Jobs] /\ clock \in Nat
  BY DEF IInv, MintingInv, Types
<1>1. /\ EndTx(r) /\ pc' = [pc EXCEPT ![r] = "idle"] /\ job' = [job EXCEPT ![r] = NoJob]
      /\ UNCHANGED <<inbox, clock>> /\ clock' = clock /\ account' = account
      /\ \A k \in Holding(job[r].id) : Lockable(r, k)
      /\ link' = [k \in Keys |-> IF k \in Holding(job[r].id) THEN NoLink ELSE link[k]]
  BY DEF Retry, Close, Goto, History
<1>2. pc'[r] = "idle" /\ job'[r] = NoJob
      /\ \A q \in Requests \ {r} : pc'[q] = pc[q] /\ job'[q] = job[q]
  BY <1>0, <1>1
<1>3. \A k \in Keys : link'[k] \in {link[k], NoLink}
  BY <1>1
<1>4. \A q \in Requests \ {r}, k \in Keys : tx[q][k] # Untouched => link'[k] = link[k]
  BY <1>1, NullsAreNoLinks DEF IInv, WritesAreLocked, Lockable
<1>5. AccountsBehind'
  BY <1>0, <1>1, <1>3, EndedBeside DEF AccountsBehind
<1>6. OnItsWay(r)'
  BY <1>0, <1>1, <1>2, EndedBeside, EndsOnItsWay
<1>7. Beside(r)
  BY <1>0, <1>1, <1>2, <1>4, EndedBeside DEF Beside
<1> QED  BY <1>5, <1>6, <1>7, BesideKeeps

\* Every step keeps what a minting has behind it.
LEMMA MintingInductive ==
  /\ Init => MintingInv
  /\ IInv /\ MintingInv /\ [Next]_vars => MintingInv'
<1>1. ASSUME Init PROVE MintingInv
  <2>1. AccountsBehind
    BY <1>1 DEF Init, AccountsBehind
  <2>2. ASSUME NEW r \in Requests PROVE OnItsWay(r)
    <3>1. pc[r] = "idle" /\ job[r] = NoJob /\ tx[r] = NoTx /\ clock = 0
      BY <1>1 DEF Init
    <3>2. NoJob.now = 0 /\ \A k \in Keys : NoTx[k] = Untouched
      BY DEF NoJob, NoTx
    <3> QED  BY <3>1, <3>2 DEF OnItsWay, Unlanded, Spending
  <2> QED  BY <2>1, <2>2 DEF MintingInv
<1>2. ASSUME IInv, MintingInv, [Next]_vars PROVE MintingInv'
  <2>1. ASSUME NEW r \in Requests, BeginAsk(r) \/ BeginInvite(r) \/ BeginRedeem(r)
        PROVE  MintingInv'
    BY <1>2, <2>1, BeginsInMinting DEF BeginAsk, BeginInvite, BeginRedeem
  <2>2. ASSUME NEW r \in Requests, Step(r) PROVE MintingInv'
    <3>1. CASE ReadAccount(r)
      BY <1>2, <3>1, CloseInMinting DEF ReadAccount
    <3>2. CASE Acquire(r) \/ Look(r) \/ OpenAccount(r) \/ Clear(r) \/ ClearRow(r) \/ Insert(r)
      BY <1>2, <3>2, AcquireInMinting, LookInMinting, OpenAccountInMinting, ClearInMinting,
         ClearRowInMinting, InsertInMinting
    <3>3. CASE Release(r) \/ Send(r) \/ Spend(r)
      BY <1>2, <3>3, ReleaseInMinting, SendInMinting, SpendInMinting
    <3>4. CASE Commit(r) \/ CommitLost(r) \/ Renew(r) \/ RenewFails(r) \/ Retry(r)
      BY <1>2, <3>4, CommitInMinting, RenewInMinting, RetryInMinting
    <3> QED  BY <2>2, <3>1, <3>2, <3>3, <3>4 DEF Step
  <2>3. ASSUME NEW r \in Requests, Fail(r) \/ GiveUp(r) PROVE MintingInv'
    <3>1. CASE Fail(r)
      BY <1>2, <3>1, RefuseInMinting DEF Fail
    <3>2. CASE GiveUp(r)
      BY <1>2, <3>2, CloseInMinting DEF GiveUp
    <3> QED  BY <2>3, <3>1, <3>2
  <2>4. ASSUME Toggle \/ Tick \/ UNCHANGED vars PROVE MintingInv'
    <3>1. /\ pc' = pc /\ job' = job /\ tx' = tx /\ opener' = opener /\ link' = link
          /\ inbox' = inbox
      BY <2>4 DEF Toggle, Tick, vars, Committed, History
    <3>2. Types /\ AccountsBehind /\ clock' \in Nat /\ clock <= clock'
      BY <1>2, <2>4 DEF IInv, Types, MintingInv, Toggle, Tick, vars, History
    <3>3. /\ account' \in [Emails -> {"none", "open", "closed"}]
          /\ \A e \in Emails : account'[e] = "none" <=> account[e] = "none"
      BY <2>4, <3>2 DEF Toggle, Tick, vars, Committed, AccountsBehind
    <3>4. AccountsBehind'
      <4>1. \A k \in Keys : k[1] \in Emails
        BY DEF Keys
      <4> QED  BY <3>1, <3>2, <3>3, <4>1 DEF AccountsBehind
    <3>5. ASSUME NEW q \in Requests PROVE OnItsWay(q)'
      <4>1. OnItsWay(q)
        BY <1>2 DEF MintingInv
      <4> QED  BY <3>1, <3>2, <3>3, <4>1, StaysOnItsWay
    <3> QED  BY <3>4, <3>5 DEF MintingInv
  <2> QED  BY <1>2, <2>1, <2>2, <2>3, <2>4 DEF Next
<1> QED  BY <1>1, <1>2

\* The invariant of the mintings: whose account each has behind it, and what
\* the rows it removes are.
THEOREM MintingsInOrder == Spec => []MintingInv
BY MintingInductive, LinksInOrder, PTL DEF Spec

\* No message arrives before the account it opens, and none is sent for an
\* account that was rolled back (sendInvitation, mintDetached).
THEOREM InvitedAccountsAlwaysExist == Spec => []InvitedAccountsExist
<1>1. MintingInv => InvitedAccountsExist
  BY DEF MintingInv, AccountsBehind, InvitedAccountsExist
<1> QED  BY <1>1, MintingsInOrder, PTL

\* Only the end of a minting or of a presentation changes a row.
LEMMA OnlyLandingsCount ==
  ASSUME NEW r \in Requests, Step(r) \/ Fail(r) \/ GiveUp(r),
         ~(Commit(r) \/ CommitLost(r) \/ Renew(r) \/ RenewFails(r) \/ Retry(r))
  PROVE  link' = link
<1>1. CASE Acquire(r) \/ Look(r) \/ OpenAccount(r) \/ Clear(r)
  BY <1>1 DEF Acquire, Look, OpenAccount, Clear, Refuse, Committed
<1>2. CASE ClearRow(r) \/ Insert(r) \/ Release(r) \/ Send(r) \/ Spend(r) \/ ReadAccount(r)
  BY <1>2 DEF ClearRow, Insert, Release, Send, Spend, ReadAccount, Refuse, Committed
<1>3. CASE Fail(r) \/ GiveUp(r)
  BY <1>3 DEF Fail, GiveUp, Refuse, Committed
<1> QED  BY <1>1, <1>2, <1>3 DEF Step

\* An invitation that leaves the table had expired, or was presented.
LEMMA InvitationLeaves ==
  ASSUME IInv, MintingInv, NEW r \in Requests, NEW e \in Emails,
         Commit(r) \/ CommitLost(r) \/ Renew(r) \/ RenewFails(r) \/ Retry(r),
         link[<<e, "invitation">>] # NoLink,
         link'[<<e, "invitation">>] # link[<<e, "invitation">>]
  PROVE  \/ link[<<e, "invitation">>].expires <= clock
         \/ job[r].route = "redeem" /\ job[r].id = link[<<e, "invitation">>].id
<1> DEFINE k == <<e, "invitation">>
<1>1. k \in Keys /\ OnItsWay(r) /\ AccountsBehind
  BY DEF Keys, Purposes, MintingInv
<1>2. CASE Retry(r)
  <2>1. k \in Holding(job[r].id) /\ pc[r] = "retry"
    BY <1>1, <1>2 DEF Retry
  <2> QED  BY <1>1, <2>1 DEF Holding, OnItsWay, Spending
<1>3. CASE Renew(r) \/ RenewFails(r)
  <2>1. pc[r] = "renew" /\ tx[r][k] # Untouched
    BY <1>1, <1>3 DEF Renew, RenewFails, Land, Applied
  <2> QED  BY <1>1, <2>1 DEF OnItsWay, Spending
<1>4. CASE Commit(r) \/ CommitLost(r)
  <2>1. pc[r] = "commit" /\ tx[r][k] # Untouched
    BY <1>1, <1>4 DEF Commit, CommitLost, Land, Applied
  <2>2. CASE k # KeyOf(r)
    BY <1>1, <2>1, <2>2 DEF OnItsWay, Unlanded
  <2>3. CASE k = KeyOf(r)
    <3>1. job[r].route # "ask" /\ job[r].email = e
      BY <2>3 DEF KeyOf
    <3>2. opener[e] = r
      BY <1>1, <2>1, <3>1 DEF OnItsWay, Unlanded
    <3>3. account[e] = "none" /\ account[k[1]] # "none"
      BY <1>1, <3>2, NullsAreNoLinks DEF AccountsBehind
    <3> QED  BY <3>3
  <2> QED  BY <2>2, <2>3
<1> QED  BY <1>2, <1>3, <1>4

\* The two kinds of link do not compete (newLinkToken): asking for a sign-in
\* link never takes an invitation away.
THEOREM InvitationsAlwaysOutliveSignIns == Spec => InvitationsOutliveSignIns
<1>1. ASSUME IInv, MintingInv, [Next]_vars
      PROVE  [\A e \in Emails :
                LET row == link[<<e, "invitation">>]
                IN row # NoLink /\ link'[<<e, "invitation">>] # row =>
                     \/ row.expires <= clock
                     \/ \E r \in Requests :
                          job[r].route = "redeem" /\ job[r].id = row.id]_vars
  <2>1. CASE link' = link
    BY <2>1
  <2>2. ASSUME NEW r \in Requests, Step(r) \/ Fail(r) \/ GiveUp(r), link' # link
        PROVE  Commit(r) \/ CommitLost(r) \/ Renew(r) \/ RenewFails(r) \/ Retry(r)
    BY <2>2, OnlyLandingsCount
  <2>3. ASSUME ~ \E r \in Requests : Step(r) \/ Fail(r) \/ GiveUp(r)
        PROVE  link' = link
    BY <1>1, <2>3 DEF Next, BeginAsk, BeginInvite, BeginRedeem, Arrive, Toggle, Tick,
       Committed, vars
  <2> QED  BY <1>1, <2>1, <2>2, <2>3, InvitationLeaves
<1> QED  BY <1>1, LinksInOrder, MintingsInOrder, PTL DEF Spec, InvitationsOutliveSignIns
=============================================================================
