---------------------------- MODULE CardsProofs ----------------------------
(***************************************************************************)
(* Proofs about Cards, for every list, campaign, bound and number of       *)
(* concurrent requests.                                                    *)
(***************************************************************************)
EXTENDS Cards, FiniteSetTheorems, TLAPS

\* The local variables of an idle request are well typed.
LEMMA Defaults == NoArg \in Args /\ NoWork \in Work /\ NoTx \in Tx
<1>1. AnyCard \in Cards /\ AnyAccount \in Accounts
  BY CardsAssumption DEF AnyCard, AnyAccount
<1>2. NoArg \in Args
  BY <1>1, CardsAssumption DEF NoArg, Args, Routes
<1>3. NoWork \in Work
  BY <1>1, CardsAssumption DEF NoWork, Work, Blank, Head
<1>4. NoTx \in Tx
  BY DEF NoTx, Tx
<1> QED  BY <1>2, <1>3, <1>4

\* What a request sees of a row is a row, or the absence of one.
LEMMA SeesType ==
  ASSUME TypeOK, NEW r \in Requests, NEW c \in Cards
  PROVE  Sees(r, c) \in Row \cup {NoRow}
BY DEF TypeOK, Tx, Sees

\* The end of a transaction keeps the types of what is not committed.
LEMMA CloseType ==
  ASSUME TypeOK, NEW r \in Requests, Close(r)
  PROVE  /\ pc' \in [Requests -> Steps] /\ arg' \in [Requests -> Args]
         /\ work' \in [Requests -> Work] /\ tx' \in [Requests -> Tx]
         /\ lock' \in [Cards -> Requests \cup {NoRequest}]
BY Defaults DEF TypeOK, Close, Goto, Steps

LEMMA RollbackType ==
  ASSUME TypeOK, NEW r \in Requests, Rollback(r)
  PROVE  TypeOK'
BY CloseType DEF TypeOK, Rollback, Committed

\* Writing one row of the private write set, and locking it, keeps the types.
LEMMA WriteType ==
  ASSUME TypeOK, NEW r \in Requests, NEW c \in Cards, NEW row \in Row,
         WriteRow(r, c, row)
  PROVE  tx' \in [Requests -> Tx]
<1>1. tx[r] \in Tx /\ tx \in [Requests -> Tx]
  BY DEF TypeOK
<1>2. [tx[r] EXCEPT !.rows = [tx[r].rows EXCEPT ![c] = row]] \in Tx
  <2>1. [tx[r].rows EXCEPT ![c] = row] \in [Cards -> Row \cup {NoRow}]
    BY <1>1 DEF Tx
  <2> QED  BY <1>1, <2>1 DEF Tx
<1>3. tx' = [tx EXCEPT ![r] = [tx[r] EXCEPT !.rows = [tx[r].rows EXCEPT ![c] = row]]]
  BY <1>1 DEF WriteRow
<1> QED  BY <1>1, <1>2, <1>3

LEMMA LockType ==
  ASSUME TypeOK, NEW r \in Requests, NEW c \in Cards, TakeLock(r, c)
  PROVE  lock' \in [Cards -> Requests \cup {NoRequest}]
BY DEF TypeOK, TakeLock

LEMMA GotoType ==
  ASSUME TypeOK, NEW r \in Requests, NEW s \in Steps, Goto(r, s)
  PROVE  pc' \in [Requests -> Steps]
BY DEF TypeOK, Goto

\* A request that arrives carries well-typed arguments.
LEMMA ArriveType ==
  ASSUME TypeOK, NEW r \in Requests, Arrive(r)
  PROVE  TypeOK'
<1>1. ASSUME NEW who \in Accounts, NEW route \in Routes, NEW s \in Steps, NEW a \in Args,
             Begin(r, who, route, s, a)
      PROVE  TypeOK'
  <2>1. pc' \in [Requests -> Steps]
    BY <1>1, GotoType DEF Begin
  <2>2. arg' \in [Requests -> Args] /\ begun' \in Nat
    BY <1>1 DEF Begin, TypeOK
  <2> QED  BY <1>1, <2>1, <2>2 DEF Begin, TypeOK, Committed
<1>2. CASE BeginStatus(r)
  <2>1. PICK who \in Accounts, c \in Cards, s \in Statuses, seen \in Statuses :
          Begin(r, who, "status", "upsert",
                [NoArg EXCEPT !.route = "status", !.who = who, !.card = c,
                              !.status = s, !.seen = seen])
    BY <1>2 DEF BeginStatus
  <2>2. [NoArg EXCEPT !.route = "status", !.who = who, !.card = c,
                      !.status = s, !.seen = seen] \in Args
    BY Defaults DEF Args, Routes
  <2> QED  BY <1>1, <2>1, <2>2 DEF Routes, Steps
<1>3. CASE BeginEdit(r)
  <2>1. PICK who \in Accounts, c \in Cards, id \in 1..(nextId - 1) :
          Begin(r, who, "edit", "edit",
                [NoArg EXCEPT !.route = "edit", !.who = who, !.card = c, !.note = id])
    BY <1>3 DEF BeginEdit
  <2>2. [NoArg EXCEPT !.route = "edit", !.who = who, !.card = c, !.note = id] \in Args
    <3>1. id \in Nat
      BY DEF TypeOK
    <3> QED  BY <3>1, Defaults DEF Args, Routes
  <2> QED  BY <1>1, <2>1, <2>2 DEF Routes, Steps
<1>4. CASE BeginDelete(r)
  <2>1. PICK who \in Accounts, c \in Cards, id \in 1..(nextId - 1) :
          Begin(r, who, "delete", "erase",
                [NoArg EXCEPT !.route = "delete", !.who = who, !.card = c, !.note = id])
    BY <1>4 DEF BeginDelete
  <2>2. [NoArg EXCEPT !.route = "delete", !.who = who, !.card = c, !.note = id] \in Args
    <3>1. id \in Nat
      BY DEF TypeOK
    <3> QED  BY <3>1, Defaults DEF Args, Routes
  <2> QED  BY <1>1, <2>1, <2>2 DEF Routes, Steps
<1>5. CASE BeginBatch(r)
  <2>1. PICK who \in Accounts, pool \in Pools :
          Begin(r, who, "batch", "draw",
                [NoArg EXCEPT !.route = "batch", !.who = who, !.pool = pool])
    BY <1>5 DEF BeginBatch
  <2>2. [NoArg EXCEPT !.route = "batch", !.who = who, !.pool = pool] \in Args
    BY Defaults, CardsAssumption DEF Args, Routes
  <2> QED  BY <1>1, <2>1, <2>2 DEF Routes, Steps
<1>6. CASE BeginToggle(r)
  <2>0. PICK who \in Accounts : \E target \in Manages[who] \ {who} :
          Begin(r, who, "toggle", "flip",
                [NoArg EXCEPT !.route = "toggle", !.who = who, !.target = target])
    BY <1>6 DEF BeginToggle
  <2>1. PICK target \in Manages[who] \ {who} :
          Begin(r, who, "toggle", "flip",
                [NoArg EXCEPT !.route = "toggle", !.who = who, !.target = target])
    BY <2>0
  <2>2. [NoArg EXCEPT !.route = "toggle", !.who = who, !.target = target] \in Args
    BY Defaults, CardsAssumption DEF Args, Routes
  <2> QED  BY <1>1, <2>1, <2>2 DEF Routes, Steps
<1> QED  BY <1>2, <1>3, <1>4, <1>5, <1>6 DEF Arrive

\* Every statement keeps the types.
LEMMA StatementType ==
  ASSUME TypeOK, NEW r \in Requests, Statement(r)
  PROVE  TypeOK'
<1> DEFINE c == arg[r].card
<1>a. /\ arg[r] \in Args /\ c \in Cards /\ arg[r].status \in Statuses
      /\ arg[r].who \in Accounts /\ arg[r].pool \subseteq Cards
      /\ arg[r].target \in Accounts
  BY DEF TypeOK, Args
<1>b. TeamOf[arg[r].who] \in Teams
  BY <1>a, CardsAssumption
<1>c. \A d \in Cards : Holder(card[d]) \in Accounts \cup {NoOne}
  BY DEF TypeOK, Row, Holder
<1>d. tx[r] \in Tx /\ work[r] \in Work
  BY DEF TypeOK
<1>1. CASE Upsert(r)
  <2>1. CASE Rollback(r)
    BY <2>1, RollbackType
  <2>2. CASE ~Rollback(r)
    <3>1. [status |-> arg[r].status, by |-> TeamOf[arg[r].who],
           volunteer |-> Holder(card[c])] \in Row
      BY <1>a, <1>b, <1>c DEF Row
    <3>2. tx' \in [Requests -> Tx]
      BY <1>1, <1>a, <2>2, <3>1, WriteType DEF Upsert
    <3>3. lock' \in [Cards -> Requests \cup {NoRequest}]
      BY <1>1, <1>a, <2>2, LockType DEF Upsert
    <3>4. pc' \in [Requests -> Steps]
      BY <1>1, <2>2, GotoType DEF Upsert, Steps
    <3> QED  BY <1>1, <2>2, <3>2, <3>3, <3>4 DEF Upsert, TypeOK, Committed
  <2> QED  BY <2>1, <2>2
<1>2. CASE InsertNote(r)
  <2> DEFINE n == [id |-> nextId, card |-> arg[r].card, author |-> arg[r].who,
                   status |-> arg[r].status, edited |-> FALSE]
  <2>1. n \in Note
    BY <1>a DEF Note, TypeOK
  <2>2. tx' \in [Requests -> Tx]
    BY <1>2, <1>d, <2>1 DEF InsertNote, TypeOK, Tx
  <2>3. pc' \in [Requests -> Steps]
    BY <1>2, GotoType DEF InsertNote, Steps
  <2> QED  BY <1>2, <2>2, <2>3 DEF InsertNote, TypeOK, Committed
<1>3. CASE EditNote(r)
  <2> DEFINE mine == {n \in notes : /\ n.id = arg[r].note /\ n.card = arg[r].card
                                    /\ n.author = arg[r].who}
             words == {[n EXCEPT !.edited = TRUE] : n \in mine}
  <2>1. CASE Rollback(r)
    BY <2>1, RollbackType
  <2>2. CASE ~Rollback(r)
    <3>1. mine \subseteq Note /\ words \subseteq Note
      <4>1. mine \subseteq Note
        BY DEF TypeOK
      <4>2. \A n \in Note : [n EXCEPT !.edited = TRUE] \in Note
        BY DEF Note
      <4> QED  BY <4>1, <4>2
    <3>2. tx' = [tx EXCEPT ![r].erased = mine, ![r].added = words]
      BY <1>3, <2>2 DEF EditNote
    <3>3. tx' \in [Requests -> Tx]
      <4> HIDE DEF mine, words
      <4> QED  BY <1>d, <3>1, <3>2 DEF TypeOK, Tx
    <3>4. pc' \in [Requests -> Steps]
      BY <1>3, <2>2, GotoType DEF EditNote, Steps
    <3> QED  BY <1>3, <2>2, <3>3, <3>4 DEF EditNote, TypeOK, Committed
  <2> QED  BY <2>1, <2>2
<1>4. CASE EraseNote(r)
  <2> DEFINE found == {n \in notes :
                  /\ n.id = arg[r].note /\ n.card = arg[r].card
                  /\ arg[r].who \in Coordinators \/ n.author = arg[r].who}
  <2>1. CASE Rollback(r)
    BY <2>1, RollbackType
  <2>2. CASE ~Rollback(r)
    <3>1. found \subseteq Note
      BY DEF TypeOK
    <3>2. tx' = [tx EXCEPT ![r].erased = found]
      BY <1>4, <2>2 DEF EraseNote
    <3>3. tx' \in [Requests -> Tx]
      <4> HIDE DEF found
      <4> QED  BY <1>d, <3>1, <3>2 DEF TypeOK, Tx
    <3>4. pc' \in [Requests -> Steps]
      BY <1>4, <2>2, GotoType DEF EraseNote, Steps
    <3> QED  BY <1>4, <2>2, <3>3, <3>4 DEF EraseNote, TypeOK, Committed
  <2> QED  BY <2>1, <2>2
<1>5. CASE LockCard(r)
  <2>1. lock' \in [Cards -> Requests \cup {NoRequest}]
    BY <1>5, <1>a, LockType DEF LockCard, TypeOK
  <2>2. pc' \in [Requests -> Steps]
    BY <1>5, GotoType DEF LockCard, Steps
  <2> QED  BY <1>5, <2>1, <2>2 DEF LockCard, TypeOK, Committed
<1>6. CASE ReadHead(r)
  <2>1. Blank \in Head
    BY CardsAssumption DEF Blank, Head
  <2>2. \A n \in notes : HeadOf(n) \in Head
    BY CardsAssumption DEF TypeOK, Note, HeadOf, Head
  <2>3. PICK h \in Head : work' = [work EXCEPT ![r].head = h]
    BY <1>6, <2>1, <2>2 DEF ReadHead, NotesOf
  <2>4. work' \in [Requests -> Work]
    BY <1>d, <2>3 DEF TypeOK, Work
  <2>5. pc' \in [Requests -> Steps]
    BY <1>6, GotoType DEF ReadHead, Steps
  <2> QED  BY <1>6, <2>4, <2>5 DEF ReadHead, TypeOK, Committed
<1>7. CASE RestoreHead(r)
  <2>1. pc' \in [Requests -> Steps]
    BY <1>7, GotoType DEF RestoreHead, Steps
  <2>2. CASE card[c] = NoRow
    BY <1>7, <2>1, <2>2 DEF RestoreHead, TypeOK, Committed
  <2>3. CASE card[c] # NoRow
    <3>1. card[c] \in Row
      BY <1>a, <2>3 DEF TypeOK
    <3>2. [card[c] EXCEPT !.status = work[r].head.status, !.by = work[r].head.by] \in Row
      BY <1>d, <3>1 DEF Row, Work, Head
    <3>3. tx' \in [Requests -> Tx]
      BY <1>7, <1>a, <2>3, <3>2, WriteType DEF RestoreHead
    <3>4. lock' \in [Cards -> Requests \cup {NoRequest}]
      BY <1>7, <1>a, <2>3, LockType DEF RestoreHead
    <3> QED  BY <1>7, <2>1, <2>3, <3>3, <3>4 DEF RestoreHead, TypeOK, Committed
  <2> QED  BY <2>2, <2>3
<1>8. CASE Draw(r)
  <2> DEFINE lacking == BatchSize - Cardinality(Taken(r))
             drawn == Best(lacking, {d \in arg[r].pool : Available(Sees(r, d))})
  <2>1. drawn \subseteq Cards
    BY <1>a DEF Best
  <2>2. work' \in [Requests -> Work]
    <3>1. CASE work' = work
      BY <3>1 DEF TypeOK
    <3>2. CASE work' # work
      <4>1. /\ work[r].round < MaxBatchRounds
            /\ work' = [work EXCEPT ![r].round = @ + 1, ![r].won = FALSE, ![r].todo = drawn]
        BY <1>8, <3>2 DEF Draw
      <4>2. work[r].round + 1 \in 0..MaxBatchRounds
        BY <1>d, <4>1, CardsAssumption DEF Work
      <4> HIDE DEF drawn
      <4> QED  BY <1>d, <2>1, <4>1, <4>2 DEF TypeOK, Work
    <3> QED  BY <3>1, <3>2
  <2>3. pc' \in [Requests -> Steps]
    BY <1>8, GotoType DEF Draw, Steps
  <2> QED  BY <1>8, <2>2, <2>3 DEF Draw, TypeOK, Committed
<1>9. CASE TakeCard(r)
  <2>1. PICK d \in work[r].todo :
          LET rest == work[r].todo \ {d}
              free == Available(Sees(r, d))
              row == IF card[d] = NoRow
                     THEN [status |-> ToContact, by |-> NoTeam, volunteer |-> arg[r].who]
                     ELSE [card[d] EXCEPT !.volunteer = arg[r].who]
          IN /\ TakeLock(r, d)
             /\ IF free THEN WriteRow(r, d, row) ELSE UNCHANGED tx
             /\ work' = [work EXCEPT ![r].todo = rest, ![r].won = @ \/ free]
             /\ Goto(r, CASE rest # {} -> "take"
                          [] rest = {} /\ (work[r].won \/ free) -> "draw"
                          [] OTHER -> "recount")
    BY <1>9 DEF TakeCard
  <2> DEFINE row == IF card[d] = NoRow
                    THEN [status |-> ToContact, by |-> NoTeam, volunteer |-> arg[r].who]
                    ELSE [card[d] EXCEPT !.volunteer = arg[r].who]
             free == Available(Sees(r, d))
             rest == work[r].todo \ {d}
  <2>2. d \in Cards /\ rest \subseteq Cards
    BY <1>d DEF Work
  <2>3. row \in Row
    BY <1>a, <2>2, CardsAssumption DEF TypeOK, Row
  <2>4. tx' \in [Requests -> Tx]
    <3>1. CASE WriteRow(r, d, row)
      BY <2>2, <2>3, <3>1, WriteType
    <3>2. CASE UNCHANGED tx
      BY <3>2 DEF TypeOK
    <3> QED  BY <2>1, <3>1, <3>2
  <2>5. lock' \in [Cards -> Requests \cup {NoRequest}]
    BY <2>1, <2>2, LockType
  <2>6. work' \in [Requests -> Work]
    <3>1. work' = [work EXCEPT ![r].todo = rest, ![r].won = @ \/ free]
      BY <2>1
    <3>2. (work[r].won \/ free) \in BOOLEAN
      OBVIOUS
    <3> HIDE DEF rest, free
    <3> QED  BY <1>d, <2>2, <3>1, <3>2 DEF TypeOK, Work
  <2>7. pc' \in [Requests -> Steps]
    BY <2>1, GotoType DEF Steps
  <2> QED  BY <1>9, <2>4, <2>5, <2>6, <2>7 DEF TakeCard, TypeOK, Committed
<1>10. CASE Recount(r)
  <2>1. pc' \in [Requests -> Steps]
    BY <1>10, GotoType DEF Recount, Steps
  <2> QED  BY <1>10, <2>1 DEF Recount, TypeOK, Committed
<1>11. CASE Flip(r)
  <2>1. tx' \in [Requests -> Tx]
    BY <1>11, <1>a, <1>d DEF Flip, TypeOK, Tx
  <2>2. pc' \in [Requests -> Steps]
    BY <1>11, GotoType DEF Flip, Steps
  <2> QED  BY <1>11, <2>1, <2>2 DEF Flip, TypeOK, Committed
<1>12. CASE Sweep(r)
  <2> DEFINE held == {d \in Cards : ReservedTo(card[d], arg[r].target)}
  <2>1. work' \in [Requests -> Work]
    <3>1. CASE work' = work
      BY <3>1 DEF TypeOK
    <3>2. CASE work' # work
      <4>1. PICK d \in held : work' = [work EXCEPT ![r].todo = held, ![r].next = d]
        BY <1>12, <3>2 DEF Sweep
      <4>2. d \in Cards /\ held \subseteq Cards
        OBVIOUS
      <4> HIDE DEF held
      <4> QED  BY <1>d, <4>1, <4>2 DEF TypeOK, Work
    <3> QED  BY <3>1, <3>2
  <2>2. pc' \in [Requests -> Steps]
    BY <1>12, GotoType DEF Sweep, Steps
  <2> QED  BY <1>12, <2>1, <2>2 DEF Sweep, TypeOK, Committed
<1>13. CASE ReleaseCard(r)
  <2> DEFINE d == work[r].next
             rest == work[r].todo \ {d}
  <2>1. d \in Cards /\ rest \subseteq Cards
    BY <1>d DEF Work
  <2>2. tx' \in [Requests -> Tx]
    <3>1. CASE tx' = tx
      BY <3>1 DEF TypeOK
    <3>2. CASE tx' # tx
      <4>1. /\ ReservedTo(card[d], arg[r].target)
            /\ WriteRow(r, d, [card[d] EXCEPT !.volunteer = NoOne])
        BY <1>13, <3>2 DEF ReleaseCard
      <4>2. [card[d] EXCEPT !.volunteer = NoOne] \in Row
        BY <2>1, <4>1 DEF TypeOK, Row, ReservedTo
      <4> QED  BY <2>1, <4>1, <4>2, WriteType
    <3> QED  BY <3>1, <3>2
  <2>3. lock' \in [Cards -> Requests \cup {NoRequest}]
    BY <1>13, <2>1, LockType DEF ReleaseCard
  <2>4. work' \in [Requests -> Work]
    <3>1. PICK s \in SUBSET Cards, e \in Cards :
            work' = [work EXCEPT ![r].todo = s, ![r].next = e]
      BY <1>13, <2>1, Defaults DEF ReleaseCard, NoWork, Work
    <3> QED  BY <1>d, <3>1 DEF TypeOK, Work
  <2>5. pc' \in [Requests -> Steps]
    BY <1>13, GotoType DEF ReleaseCard, Steps
  <2> QED  BY <1>13, <2>2, <2>3, <2>4, <2>5 DEF ReleaseCard, TypeOK, Committed
<1>14. CASE Commit(r)
  <2>1. notes' \subseteq Note
    BY <1>14, <1>d DEF Commit, TypeOK, Tx
  <2>2. card' \in [Cards -> Row \cup {NoRow}]
    BY <1>14, SeesType DEF Commit
  <2>3. active' \in [Accounts -> BOOLEAN]
    BY <1>14 DEF Commit, TypeOK
  <2>4. gone' \subseteq Note
    BY <1>14 DEF Commit, TypeOK
  <2> QED  BY <1>14, <2>1, <2>2, <2>3, <2>4, CloseType DEF Commit, TypeOK
<1> QED  BY <1>1, <1>2, <1>3, <1>4, <1>5, <1>6, <1>7, <1>8, <1>9, <1>10, <1>11,
            <1>12, <1>13, <1>14 DEF Statement

\* Type correctness, for every value of the constants.
THEOREM TypeCorrect == Spec => []TypeOK
<1>1. Init => TypeOK
  BY Defaults, CardsAssumption DEF Init, TypeOK, Steps
<1>2. TypeOK /\ [Next]_vars => TypeOK'
  <2> SUFFICES ASSUME TypeOK, [Next]_vars PROVE TypeOK'
    OBVIOUS
  <2>1. CASE UNCHANGED vars
    BY <2>1 DEF vars, TypeOK
  <2>2. CASE Next
    <3>1. PICK r \in Requests : Arrive(r) \/ Statement(r) \/ Fail(r) \/ DeadlockVictim(r)
      BY <2>2 DEF Next
    <3> QED  BY <3>1, ArriveType, StatementType, RollbackType DEF Fail, DeadlockVictim
  <2> QED  BY <2>1, <2>2
<1> QED  BY <1>1, <1>2, PTL DEF Spec

-----------------------------------------------------------------------------
\* What a step of r that commits nothing leaves alone: the committed rows, the
\* other requests, and the locks they hold.
LocalStep(r) ==
  /\ UNCHANGED <<notes, card>>
  /\ nextId' >= nextId
  /\ \A q \in Requests \ {r} :
       /\ pc'[q] = pc[q] /\ arg'[q] = arg[q] /\ work'[q] = work[q] /\ tx'[q] = tx[q]
       /\ \A c \in Cards : lock[c] = q => lock'[c] = q

\* What r's own new write set must satisfy for the invariant to go on.
OwnWrites(r) ==
  /\ \A n \in tx'[r].added : n.id < nextId'
  /\ tx'[r].erased \subseteq notes
  /\ \A q \in Requests \ {r} : \A m \in tx'[r].erased : \A n \in tx[q].erased : m.id # n.id
  /\ \A c \in Cards : tx'[r].rows[c] # NoRow => lock'[c] = r

\* The statements of one request disturb nothing of another's.
LEMMA OthersUndisturbed ==
  ASSUME RegisterInv, NEW r \in Requests, LocalStep(r), NEW q \in Requests \ {r}
  PROVE  InOrder(q)'
<1>a. /\ notes' = notes /\ card' = card
      /\ pc'[q] = pc[q] /\ arg'[q] = arg[q] /\ work'[q] = work[q] /\ tx'[q] = tx[q]
      /\ \A c \in Cards : lock[c] = q => lock'[c] = q
  BY DEF LocalStep
<1>b. InOrder(q) /\ arg[q].card \in Cards
  BY DEF RegisterInv, TypeOK, Args
<1>1. /\ OnlyItsCard(q) => OnlyItsCard(q)'
      /\ AsSeen(q) => AsSeen(q)'
  BY <1>a, <1>b DEF OnlyItsCard, AsSeen
<1>2. OnlyReservations(q) => OnlyReservations(q)'
  BY <1>a DEF OnlyReservations, SameHead
<1>3. Removal(q) => Removal(q)'
  BY <1>a DEF Removal
<1>4. NoRowWritten(q) => NoRowWritten(q)'
  BY <1>a DEF NoRowWritten
<1>5. NotesLeft(q)' = NotesLeft(q)
  BY <1>a DEF NotesLeft, NotesOf
<1>6. StatusReady(q) => StatusReady(q)'
  BY <1>a, <1>1 DEF StatusReady, NotesOf
<1>7. \A h : Says(h, NotesLeft(q)) => Says(h, NotesLeft(q)')
  BY <1>5
<1>8. Says(work[q].head, NotesLeft(q)) => Says(work[q].head, NotesLeft(q))'
  BY <1>a, <1>5 DEF Says, Newest
<1>9. Says(tx[q].rows[arg[q].card], NotesLeft(q)) => Says(tx[q].rows[arg[q].card], NotesLeft(q))'
  BY <1>a, <1>5 DEF Says, Newest
<1> QED
  BY <1>a, <1>b, <1>1, <1>2, <1>3, <1>4, <1>6, <1>8, <1>9 DEF InOrder

\* A step that commits nothing keeps the invariant if its request stays in order.
LEMMA LocalStepKeeps ==
  ASSUME RegisterInv, NEW r \in Requests, LocalStep(r), TypeOK',
         OwnWrites(r), InOrder(r)'
  PROVE  RegisterInv'
<1>a. /\ notes' = notes /\ card' = card /\ nextId' >= nextId
      /\ \A q \in Requests \ {r} : tx'[q] = tx[q]
      /\ \A q \in Requests \ {r} : \A c \in Cards : lock[c] = q => lock'[c] = q
  BY DEF LocalStep
<1>1. HeadIsNewest'
  BY <1>a DEF RegisterInv, HeadIsNewest, NotesOf, Says, Newest
<1>2. IdsAreSpent'
  <2>1. nextId \in Nat /\ nextId' \in Nat
    BY DEF RegisterInv, TypeOK
  <2>2. \A n \in Note : n.id \in Nat
    BY DEF Note
  <2>3. notes \subseteq Note /\ \A q \in Requests : tx[q].added \subseteq Note
    BY DEF RegisterInv, TypeOK, Tx
  <2>4. \A n \in notes' : n.id < nextId'
    BY <1>a, <2>1, <2>2, <2>3 DEF RegisterInv, IdsAreSpent
  <2>5. \A q \in Requests \ {r} : \A n \in tx'[q].added : n.id < nextId'
    BY <1>a, <2>1, <2>2, <2>3 DEF RegisterInv, IdsAreSpent
  <2> QED  BY <2>4, <2>5 DEF OwnWrites, IdsAreSpent
<1>3. NotesAreLocked'
  BY <1>a DEF RegisterInv, NotesAreLocked, OwnWrites
<1>4. RowsAreLocked'
  BY <1>a DEF RegisterInv, RowsAreLocked, OwnWrites
<1>5. \A q \in Requests : InOrder(q)'
  BY OthersUndisturbed
<1> QED  BY <1>1, <1>2, <1>3, <1>4, <1>5 DEF RegisterInv

\* A transaction that is rolled back leaves the register as it was.
LEMMA RollbackKeeps ==
  ASSUME RegisterInv, NEW r \in Requests, Rollback(r)
  PROVE  RegisterInv'
<1>0. TypeOK /\ TypeOK'
  BY RollbackType DEF RegisterInv
<1>1. pc'[r] = "idle" /\ tx'[r] = NoTx
  BY <1>0 DEF Rollback, Close, Goto, TypeOK
<1>2. LocalStep(r)
  BY <1>0 DEF Rollback, Close, Goto, TypeOK, LocalStep, Committed
<1>3. OwnWrites(r)
  BY <1>1 DEF OwnWrites, NoTx
<1>4. InOrder(r)'
  BY <1>1 DEF InOrder, Fresh
<1> QED  BY <1>0, <1>2, <1>3, <1>4, LocalStepKeeps

\* A request begins with nothing written and nothing locked.
LEMMA ArriveKeeps ==
  ASSUME RegisterInv, NEW r \in Requests, Arrive(r)
  PROVE  RegisterInv'
<1>0. TypeOK /\ TypeOK'
  BY ArriveType DEF RegisterInv
<1>1. ASSUME NEW who \in Accounts, NEW route \in Routes, NEW step \in Steps, NEW a,
             Begin(r, who, route, step, a), a.route = route,
             \/ step \in Fresh /\ step # "idle" /\ RouteAt(step) = route
             \/ step = "draw" /\ route = "batch"
      PROVE  RegisterInv'
  <2>1. /\ pc'[r] = step /\ arg'[r] = a /\ tx' = tx /\ nextId' = nextId
        /\ LocalStep(r)
    BY <1>0, <1>1 DEF Begin, Goto, TypeOK, LocalStep, Committed
  <2>2. tx[r] = NoTx
    BY <1>1 DEF RegisterInv, InOrder, Begin, Fresh
  <2>3. OwnWrites(r)
    BY <2>1, <2>2 DEF OwnWrites, NoTx
  <2>4. OnlyReservations(r)'
    BY <2>1, <2>2 DEF OnlyReservations, NoTx
  <2>5. InOrder(r)'
    BY <1>1, <2>1, <2>2, <2>4 DEF InOrder, Fresh, RouteAt
  <2> QED  BY <1>0, <2>1, <2>3, <2>5, LocalStepKeeps
<1>r. /\ RouteAt("upsert") = "status" /\ RouteAt("edit") = "edit"
      /\ RouteAt("erase") = "delete" /\ RouteAt("flip") = "toggle"
  BY DEF RouteAt
<1>s. /\ {"upsert", "edit", "erase", "flip"} \subseteq Fresh
      /\ {"upsert", "edit", "erase", "flip", "draw"} \subseteq Steps
  BY DEF Fresh, Steps
<1>2. CASE BeginStatus(r)
  <2>1. PICK who \in Accounts, c \in Cards, s \in Statuses, seen \in Statuses :
          Begin(r, who, "status", "upsert",
                [NoArg EXCEPT !.route = "status", !.who = who, !.card = c,
                              !.status = s, !.seen = seen])
    BY <1>2 DEF BeginStatus
  <2>3. [NoArg EXCEPT !.route = "status", !.who = who, !.card = c,
                      !.status = s, !.seen = seen].route = "status"
    BY DEF NoArg
  <2> QED  BY <1>1, <1>r, <1>s, <2>1, <2>3 DEF Routes
<1>3. CASE BeginEdit(r)
  <2>1. PICK who \in Accounts, c \in Cards, id \in 1..(nextId - 1) :
          Begin(r, who, "edit", "edit",
                [NoArg EXCEPT !.route = "edit", !.who = who, !.card = c, !.note = id])
    BY <1>3 DEF BeginEdit
  <2>3. [NoArg EXCEPT !.route = "edit", !.who = who, !.card = c, !.note = id].route = "edit"
    BY DEF NoArg
  <2> QED  BY <1>1, <1>r, <1>s, <2>1, <2>3 DEF Routes
<1>4. CASE BeginDelete(r)
  <2>1. PICK who \in Accounts, c \in Cards, id \in 1..(nextId - 1) :
          Begin(r, who, "delete", "erase",
                [NoArg EXCEPT !.route = "delete", !.who = who, !.card = c, !.note = id])
    BY <1>4 DEF BeginDelete
  <2>3. [NoArg EXCEPT !.route = "delete", !.who = who, !.card = c, !.note = id].route = "delete"
    BY DEF NoArg
  <2> QED  BY <1>1, <1>r, <1>s, <2>1, <2>3 DEF Routes
<1>5. CASE BeginBatch(r)
  <2>1. PICK who \in Accounts, pool \in Pools :
          Begin(r, who, "batch", "draw",
                [NoArg EXCEPT !.route = "batch", !.who = who, !.pool = pool])
    BY <1>5 DEF BeginBatch
  <2>3. [NoArg EXCEPT !.route = "batch", !.who = who, !.pool = pool].route = "batch"
    BY DEF NoArg
  <2> QED  BY <1>1, <1>r, <1>s, <2>1, <2>3 DEF Routes
<1>6. CASE BeginToggle(r)
  <2>1. PICK who \in Accounts : \E target \in Manages[who] \ {who} :
          Begin(r, who, "toggle", "flip",
                [NoArg EXCEPT !.route = "toggle", !.who = who, !.target = target])
    BY <1>6 DEF BeginToggle
  <2>2. PICK target \in Manages[who] \ {who} :
          Begin(r, who, "toggle", "flip",
                [NoArg EXCEPT !.route = "toggle", !.who = who, !.target = target])
    BY <2>1
  <2>3. [NoArg EXCEPT !.route = "toggle", !.who = who, !.target = target].route = "toggle"
    BY DEF NoArg
  <2> QED  BY <1>1, <1>r, <1>s, <2>2, <2>3 DEF Routes
<1> QED  BY <1>2, <1>3, <1>4, <1>5, <1>6 DEF Arrive

\* The head of a history is not moved by correcting the words of its notes.
LEMMA WordsKeepTheHead ==
  ASSUME TypeOK, NEW X, X \subseteq notes, NEW E, E \subseteq notes,
         \A m \in X : \A n \in E : m.id # n.id,
         NEW c \in Cards, NEW h,
         Says(h, NotesOf(c, notes \ E))
  PROVE  Says(h, NotesOf(c, ((notes \ X) \cup {[n EXCEPT !.edited = TRUE] : n \in X}) \ E))
<1> DEFINE W(n) == IF n \in X THEN [n EXCEPT !.edited = TRUE] ELSE n
           old == NotesOf(c, notes \ E)
           new == NotesOf(c, ((notes \ X) \cup {[n EXCEPT !.edited = TRUE] : n \in X}) \ E)
<1>1. \A n \in Note : /\ W(n).id = n.id /\ W(n).card = n.card /\ W(n).author = n.author
                      /\ W(n).status = n.status
  BY DEF Note
<1>2. notes \subseteq Note
  BY DEF TypeOK
<1>3. \A n \in old : W(n) \in new
  <2> SUFFICES ASSUME NEW n \in old PROVE W(n) \in new
    OBVIOUS
  <2>1. n \in notes /\ n \notin E /\ n.card = c
    BY DEF NotesOf
  <2>2. W(n) \notin E
    BY <1>1, <1>2, <2>1
  <2> QED  BY <1>1, <1>2, <2>1, <2>2 DEF NotesOf
<1>4. \A m \in new : \E n \in old : m = W(n)
  <2> SUFFICES ASSUME NEW m \in new PROVE \E n \in old : m = W(n)
    OBVIOUS
  <2>1. CASE m \in notes \ X
    BY <2>1 DEF NotesOf
  <2>2. CASE m \notin notes \ X
    <3>1. PICK n \in X : m = [n EXCEPT !.edited = TRUE]
      BY <2>2 DEF NotesOf
    <3>2. m = W(n) /\ n \notin E /\ n \in notes
      BY <3>1
    <3>3. n.card = c
      BY <1>1, <1>2, <3>2 DEF NotesOf
    <3> QED  BY <3>2, <3>3 DEF NotesOf
  <2> QED  BY <2>1, <2>2
<1>5. old \subseteq Note
  BY <1>2 DEF NotesOf
<1> HIDE DEF W, old, new
<1>6. CASE old = {}
  <2>1. new = {}
    BY <1>4, <1>6
  <2> QED  BY <1>6, <2>1 DEF Says, old, new
<1>7. CASE old # {}
  <2>1. PICK n \in old : Newest(n, old) /\ h.status = n.status /\ h.by = TeamOf[n.author]
    BY <1>7 DEF Says, old
  <2>2. W(n) \in new /\ \A m \in new : m.id <= W(n).id
    BY <1>1, <1>3, <1>4, <1>5, <2>1 DEF Newest
  <2>3. W(n).status = n.status /\ W(n).author = n.author
    BY <1>1, <1>5
  <2> QED  BY <2>1, <2>2, <2>3 DEF Says, Newest, new
<1> QED  BY <1>6, <1>7

\* A commit of r does not touch the head of a card whose row r has not
\* written, and hands that card no note newer than those it had.
LEMMA CommitElsewhere ==
  ASSUME RegisterInv, NEW r \in Requests, Commit(r), NEW c \in Cards,
         tx[r].rows[c] = NoRow
  PROVE  /\ card'[c] = card[c]
         /\ \A h : \A E \in SUBSET notes :
              (/\ \A m \in tx[r].erased : \A n \in E : m.id # n.id
               /\ Says(h, NotesOf(c, notes \ E)))
              => Says(h, NotesOf(c, notes' \ E))
         /\ \A n \in NotesOf(c, notes') : \E m \in NotesOf(c, notes) : m.id = n.id
<1>1. card'[c] = card[c]
  BY DEF Commit, Sees
<1>2. /\ pc[r] = "commit" /\ InOrder(r) /\ TypeOK /\ tx[r] \in Tx
      /\ notes' = (notes \ tx[r].erased) \cup tx[r].added
      /\ tx[r].erased \subseteq notes /\ notes \subseteq Note
  BY DEF Commit, RegisterInv, TypeOK, NotesAreLocked
<1>3. CASE arg[r].route = "status"
  <2>1. tx[r].erased = {} /\ arg[r].card # c /\ \A n \in tx[r].added : n.card = arg[r].card
    BY <1>2, <1>3 DEF InOrder, StatusReady, OnlyItsCard
  <2>2. \A E : NotesOf(c, notes' \ E) = NotesOf(c, notes \ E)
    BY <1>2, <2>1 DEF NotesOf
  <2>3. NotesOf(c, notes') = NotesOf(c, notes)
    BY <1>2, <2>1 DEF NotesOf
  <2> QED  BY <1>1, <2>2, <2>3
<1>4. CASE arg[r].route = "edit"
  <2> DEFINE X == tx[r].erased
  <2>1. notes' = (notes \ X) \cup {[n EXCEPT !.edited = TRUE] : n \in X}
    BY <1>2, <1>4 DEF InOrder
  <2>2. \A h : \A E \in SUBSET notes :
              (/\ \A m \in tx[r].erased : \A n \in E : m.id # n.id
               /\ Says(h, NotesOf(c, notes \ E)))
              => Says(h, NotesOf(c, notes' \ E))
    BY <1>2, <2>1, WordsKeepTheHead
  <2>3. \A n \in NotesOf(c, notes') : \E m \in NotesOf(c, notes) : m.id = n.id
    <3> SUFFICES ASSUME NEW n \in notes', n.card = c
                 PROVE  \E m \in notes : m.card = c /\ m.id = n.id
      BY DEF NotesOf
    <3>1. CASE n \in notes
      BY <3>1
    <3>2. CASE n \notin notes
      <4>1. PICK m \in X : n = [m EXCEPT !.edited = TRUE]
        BY <2>1, <3>2
      <4>2. m \in Note
        BY <1>2
      <4>3. n.id = m.id /\ n.card = m.card
        BY <4>1, <4>2 DEF Note
      <4> QED  BY <1>2, <4>3
    <3> QED  BY <3>1, <3>2
  <2> QED  BY <1>1, <2>2, <2>3
<1>5. CASE arg[r].route = "delete"
  <2>1. tx[r].added = {} /\ arg[r].card # c /\ \A n \in tx[r].erased : n.card = arg[r].card
    BY <1>2, <1>5 DEF InOrder, Removal, OnlyItsCard
  <2>2. \A E : NotesOf(c, notes' \ E) = NotesOf(c, notes \ E)
    BY <1>2, <2>1 DEF NotesOf
  <2>3. NotesOf(c, notes') = NotesOf(c, notes)
    BY <1>2, <2>1 DEF NotesOf
  <2> QED  BY <1>1, <2>2, <2>3
<1>6. CASE arg[r].route \notin {"status", "edit", "delete"}
  <2>1. notes' = notes
    BY <1>2, <1>6 DEF InOrder, OnlyReservations
  <2> QED  BY <1>1, <2>1
<1> QED  BY <1>3, <1>4, <1>5, <1>6

\* A commit of r leaves the row it wrote saying what the history now says.
LEMMA CommitHere ==
  ASSUME RegisterInv, NEW r \in Requests, Commit(r), NEW c \in Cards,
         tx[r].rows[c] # NoRow
  PROVE  card'[c] # NoRow /\ Says(card'[c], NotesOf(c, notes'))
<1>1. card'[c] = tx[r].rows[c]
  BY DEF Commit, Sees
<1>2. /\ pc[r] = "commit" /\ InOrder(r) /\ TypeOK /\ HeadIsNewest
      /\ notes' = (notes \ tx[r].erased) \cup tx[r].added
      /\ notes \subseteq Note /\ tx[r].added \subseteq Note
  BY DEF Commit, RegisterInv, TypeOK, Tx
<1>3. CASE arg[r].route = "status"
  <2>1. StatusReady(r) /\ c = arg[r].card
    BY <1>2, <1>3 DEF InOrder, StatusReady, OnlyItsCard
  <2>2. PICK n \in tx[r].added :
          /\ tx[r].added = {n} /\ n.card = c
          /\ tx[r].rows[c].status = n.status /\ tx[r].rows[c].by = TeamOf[n.author]
          /\ \A m \in NotesOf(c, notes) : m.id < n.id
    BY <2>1 DEF StatusReady
  <2>3. notes' = notes \cup {n}
    BY <1>2, <2>1, <2>2 DEF StatusReady
  <2>4. NotesOf(c, notes') = NotesOf(c, notes) \cup {n}
    BY <2>2, <2>3 DEF NotesOf
  <2>5. \A m \in NotesOf(c, notes) : m \in Note
    BY <1>2 DEF NotesOf
  <2>6. n \in Note /\ \A m \in Note : m.id \in Nat
    BY <1>2 DEF Note
  <2>7. Newest(n, NotesOf(c, notes'))
    BY <2>2, <2>4, <2>5, <2>6 DEF Newest
  <2> QED  BY <1>1, <2>2, <2>4, <2>7 DEF Says
<1>4. CASE arg[r].route = "edit"
  BY <1>2, <1>4 DEF InOrder, NoRowWritten
<1>5. CASE arg[r].route = "delete"
  <2>1. /\ c = arg[r].card /\ tx[r].added = {}
        /\ Says(tx[r].rows[c], NotesLeft(r))
    BY <1>2, <1>5 DEF InOrder, OnlyItsCard, Removal
  <2>2. NotesOf(c, notes') = NotesLeft(r)
    BY <1>2, <2>1 DEF NotesLeft
  <2> QED  BY <1>1, <2>1, <2>2
<1>6. CASE arg[r].route \notin {"status", "edit", "delete"}
  <2>1. notes' = notes /\ SameHead(tx[r].rows[c], card[c])
    BY <1>2, <1>6 DEF InOrder, OnlyReservations
  <2>2. CASE card[c] = NoRow
    BY <1>1, <1>2, <2>1, <2>2 DEF HeadIsNewest, Says, SameHead
  <2>3. CASE card[c] # NoRow
    <3>1. Says(card[c], NotesOf(c, notes))
      BY <1>2, <2>3 DEF HeadIsNewest
    <3> QED  BY <1>1, <2>1, <2>3, <3>1 DEF Says, SameHead
  <2> QED  BY <2>2, <2>3
<1> QED  BY <1>3, <1>4, <1>5, <1>6

\* The commit of one request disturbs nothing of another's.
LEMMA CommitSparesOthers ==
  ASSUME RegisterInv, NEW r \in Requests, Commit(r), NEW q \in Requests \ {r}
  PROVE  /\ InOrder(q)'
         /\ tx'[q] = tx[q] /\ tx[q].erased \subseteq notes'
         /\ \A c \in Cards : lock[c] = q => lock'[c] = q
<1>1. /\ pc'[q] = pc[q] /\ arg'[q] = arg[q] /\ work'[q] = work[q] /\ tx'[q] = tx[q]
      /\ \A c \in Cards : lock[c] = q => lock'[c] = q
      /\ notes' = (notes \ tx[r].erased) \cup tx[r].added
  BY DEF Commit, Close, Goto, RegisterInv, TypeOK
<1>2. \A c \in Cards : lock[c] = q => tx[r].rows[c] = NoRow
  BY DEF RegisterInv, RowsAreLocked
<1>3. \A c \in Cards : lock[c] = q => card'[c] = card[c]
  BY <1>2, CommitElsewhere
<1>4. tx[q].erased \in SUBSET notes /\ \A m \in tx[r].erased : \A n \in tx[q].erased : m.id # n.id
  BY DEF RegisterInv, NotesAreLocked
<1>5. \A c \in Cards : \A h :
        lock[c] = q /\ Says(h, NotesOf(c, notes \ tx[q].erased))
          => Says(h, NotesOf(c, notes' \ tx[q].erased))
  BY <1>2, <1>4, CommitElsewhere
<1>6. \A c \in Cards : lock[c] = q =>
        \A n \in NotesOf(c, notes') : \E m \in NotesOf(c, notes) : m.id = n.id
  BY <1>2, CommitElsewhere
<1>7. arg[q].card \in Cards /\ InOrder(q) /\ RowsAreLocked /\ tx[q] \in Tx
  BY DEF RegisterInv, TypeOK, Args
<1>8. OnlyItsCard(q) => OnlyItsCard(q)' /\ (AsSeen(q) => AsSeen(q)')
  BY <1>1, <1>3, <1>7 DEF OnlyItsCard, AsSeen
<1>9. OnlyReservations(q) => OnlyReservations(q)'
  BY <1>1, <1>3, <1>7 DEF OnlyReservations, SameHead, RowsAreLocked
<1>10. Removal(q) => Removal(q)'
  BY <1>1 DEF Removal
<1>11. NoRowWritten(q) => NoRowWritten(q)'
  BY <1>1 DEF NoRowWritten
<1>12. lock[arg[q].card] = q /\ Says(work[q].head, NotesLeft(q))
         => Says(work[q].head, NotesLeft(q))'
  <2>1. lock[arg[q].card] = q /\ Says(work[q].head, NotesLeft(q))
          => Says(work[q].head, NotesOf(arg[q].card, notes' \ tx[q].erased))
    BY <1>5, <1>7 DEF NotesLeft
  <2>2. NotesLeft(q)' = NotesOf(arg[q].card, notes' \ tx[q].erased)
    BY <1>1 DEF NotesLeft, NotesOf
  <2> QED  BY <1>1, <2>1, <2>2 DEF Says, Newest
<1>13. lock[arg[q].card] = q /\ Says(tx[q].rows[arg[q].card], NotesLeft(q))
         => Says(tx[q].rows[arg[q].card], NotesLeft(q))'
  <2>1. lock[arg[q].card] = q /\ Says(tx[q].rows[arg[q].card], NotesLeft(q))
          => Says(tx[q].rows[arg[q].card], NotesOf(arg[q].card, notes' \ tx[q].erased))
    BY <1>5, <1>7 DEF NotesLeft
  <2>2. NotesLeft(q)' = NotesOf(arg[q].card, notes' \ tx[q].erased)
    BY <1>1 DEF NotesLeft, NotesOf
  <2> QED  BY <1>1, <2>1, <2>2 DEF Says, Newest
<1>14. StatusReady(q) => StatusReady(q)'
  <2> SUFFICES ASSUME StatusReady(q) PROVE StatusReady(q)'
    OBVIOUS
  <2>1. PICK n \in tx[q].added :
          /\ tx[q].added = {n} /\ n.card = arg[q].card
          /\ tx[q].rows[arg[q].card].status = n.status
          /\ tx[q].rows[arg[q].card].by = TeamOf[n.author]
          /\ \A m \in NotesOf(n.card, notes) : m.id < n.id
    BY DEF StatusReady
  <2>2. lock[n.card] = q
    BY <2>1 DEF StatusReady, OnlyItsCard
  <2>3. \A m \in NotesOf(n.card, notes') : m.id < n.id
    BY <1>6, <1>7, <2>1, <2>2
  <2> QED  BY <1>1, <1>8, <2>1, <2>3 DEF StatusReady
<1>15. tx[q].erased \subseteq notes'
  BY <1>1, <1>4
<1>16. InOrder(q)'
  BY <1>1, <1>7, <1>8, <1>9, <1>10, <1>11, <1>12, <1>13, <1>14 DEF InOrder, OnlyItsCard
<1> QED  BY <1>1, <1>15, <1>16

LEMMA CommitKeeps ==
  ASSUME RegisterInv, NEW r \in Requests, Commit(r)
  PROVE  RegisterInv'
<1>1. TypeOK /\ TypeOK'
  BY StatementType DEF RegisterInv, Statement
<1>2. /\ pc'[r] = "idle" /\ tx'[r] = NoTx /\ nextId' = nextId
      /\ notes' = (notes \ tx[r].erased) \cup tx[r].added
  BY <1>1 DEF Commit, Close, Goto, TypeOK
<1>3. HeadIsNewest'
  <2> SUFFICES ASSUME NEW c \in Cards
               PROVE  /\ NotesOf(c, notes') # {} => card'[c] # NoRow
                      /\ card'[c] # NoRow => Says(card'[c], NotesOf(c, notes'))
    BY DEF HeadIsNewest, NotesOf, Says, Newest
  <2>1. CASE tx[r].rows[c] # NoRow
    BY <2>1, CommitHere
  <2>2. CASE tx[r].rows[c] = NoRow
    <3>1. NotesOf(c, notes') # {} => NotesOf(c, notes) # {}
      BY <2>2, CommitElsewhere
    <3>2. card'[c] = card[c]
      BY <2>2, CommitElsewhere
    <3>3. \A h : Says(h, NotesOf(c, notes)) => Says(h, NotesOf(c, notes'))
      <4> DEFINE none == {}
      <4>1. none \in SUBSET notes /\ notes \ none = notes /\ notes' \ none = notes'
        OBVIOUS
      <4>2. \A m \in tx[r].erased : \A n \in none : m.id # n.id
        OBVIOUS
      <4> HIDE DEF none
      <4>3. \A h : Says(h, NotesOf(c, notes \ none)) => Says(h, NotesOf(c, notes' \ none))
        BY <2>2, <4>1, <4>2, CommitElsewhere
      <4> QED  BY <4>1, <4>3
    <3> QED  BY <3>1, <3>2, <3>3 DEF RegisterInv, HeadIsNewest
  <2> QED  BY <2>1, <2>2
<1>4. IdsAreSpent'
  <2>1. \A n \in notes' : n.id < nextId'
    BY <1>2 DEF RegisterInv, IdsAreSpent
  <2>2. \A q \in Requests \ {r} : \A n \in tx'[q].added : n.id < nextId'
    BY <1>2, CommitSparesOthers DEF RegisterInv, IdsAreSpent
  <2> QED  BY <1>2, <2>1, <2>2 DEF IdsAreSpent, NoTx
<1>5. NotesAreLocked'
  <2>1. tx'[r].erased = {}
    BY <1>2 DEF NoTx
  <2>2. \A q \in Requests \ {r} : tx'[q] = tx[q] /\ tx'[q].erased \subseteq notes'
    BY CommitSparesOthers
  <2> QED  BY <2>1, <2>2 DEF RegisterInv, NotesAreLocked
<1>6. RowsAreLocked'
  <2>1. \A c \in Cards : tx'[r].rows[c] = NoRow
    BY <1>2 DEF NoTx
  <2>2. \A q \in Requests \ {r}, c \in Cards : tx'[q].rows[c] # NoRow => lock'[c] = q
    BY CommitSparesOthers DEF RegisterInv, RowsAreLocked
  <2> QED  BY <2>1, <2>2 DEF RowsAreLocked
<1>7. InOrder(r)'
  BY <1>2 DEF InOrder, Fresh
<1>8. \A q \in Requests : InOrder(q)'
  BY <1>7, CommitSparesOthers
<1> QED  BY <1>1, <1>3, <1>4, <1>5, <1>6, <1>8 DEF RegisterInv

\* A step that writes nothing keeps what its request has written.
LEMMA SameWrites ==
  ASSUME RegisterInv, NEW r \in Requests, tx'[r] = tx[r], nextId' = nextId,
         \A c \in Cards : lock[c] = r => lock'[c] = r
  PROVE  OwnWrites(r)
BY DEF OwnWrites, RegisterInv, IdsAreSpent, NotesAreLocked, RowsAreLocked

\* A removal under way has a row to lock: its card had a note.
LEMMA RemovalHasARow ==
  ASSUME RegisterInv, NEW r \in Requests, Removal(r)
  PROVE  card[arg[r].card] \in Row
<1>1. PICK n \in tx[r].erased : n.card = arg[r].card
  BY DEF Removal
<1>2. n \in NotesOf(arg[r].card, notes)
  BY <1>1 DEF RegisterInv, NotesAreLocked, NotesOf
<1> QED  BY <1>2 DEF RegisterInv, HeadIsNewest, TypeOK, Args

\* The statements of a status, up to its commit.
LEMMA StatusKeeps ==
  ASSUME RegisterInv, NEW r \in Requests, Upsert(r) \/ InsertNote(r)
  PROVE  RegisterInv'
<1>0. TypeOK /\ TypeOK' /\ InOrder(r) /\ tx[r] \in Tx /\ arg[r] \in Args
  BY StatementType DEF RegisterInv, Statement, TypeOK
<1> DEFINE c == arg[r].card
<1>c. c \in Cards /\ arg[r].who \in Accounts /\ arg[r].status \in Statuses
  BY <1>0 DEF Args
<1>1. CASE Upsert(r)
  <2>1. CASE Rollback(r)
    BY <2>1, RollbackKeeps
  <2>2. CASE ~Rollback(r)
    <3> DEFINE row == [status |-> arg[r].status, by |-> TeamOf[arg[r].who],
                       volunteer |-> Holder(card[c])]
    <3>1. /\ WriteRow(r, c, row) /\ TakeLock(r, c) /\ Goto(r, "insert")
          /\ UNCHANGED <<Committed, nextId, arg, work, begun>>
          /\ Lockable(r, c) /\ pc[r] = "upsert" /\ AsSeen(r)
      BY <1>1, <2>2 DEF Upsert, AsSeen
    <3>2. row \in Row
      BY <1>0, <1>c, CardsAssumption DEF Row, Holder, TypeOK
    <3>3. row # NoRow
      BY <3>2, CardsAssumption
    <3>4. tx[r] = NoTx /\ arg[r].route = "status"
      BY <1>0, <3>1 DEF InOrder, Fresh, RouteAt
    <3>5. /\ tx'[r].added = {} /\ tx'[r].erased = {}
          /\ tx'[r].rows = [NoTx.rows EXCEPT ![c] = row]
          /\ \A q \in Requests \ {r} : tx'[q] = tx[q]
      BY <1>0, <3>1, <3>4 DEF WriteRow, NoTx, TypeOK
    <3>6. /\ tx'[r].rows[c] = row
          /\ \A d \in Cards \ {c} : tx'[r].rows[d] = NoRow
      BY <1>c, <3>5 DEF NoTx
    <3>7. /\ lock'[c] = r
          /\ \A d \in Cards \ {c} : lock'[d] = lock[d]
      BY <1>0, <1>c, <3>1 DEF TakeLock, TypeOK
    <3>8. LocalStep(r)
      BY <1>0, <1>c, <3>1, <3>5, <3>7, CardsAssumption
      DEF LocalStep, Committed, Goto, TypeOK, Lockable
    <3>9. OwnWrites(r)
      BY <3>5, <3>6, <3>7 DEF OwnWrites
    <3>10. pc'[r] = "insert" /\ arg'[r] = arg[r]
      BY <1>0, <3>1 DEF Goto, TypeOK
    <3>11. InOrder(r)'
      <4> HIDE DEF row
      <4>1. row.status = arg[r].status /\ row.by = TeamOf[arg[r].who]
        BY DEF row
      <4>2. OnlyItsCard(r)' /\ AsSeen(r)'
        BY <3>1, <3>3, <3>6, <3>7, <3>10 DEF OnlyItsCard, AsSeen, Committed
      <4> QED  BY <3>4, <3>5, <3>6, <3>10, <4>1, <4>2 DEF InOrder, Fresh, RouteAt
    <3> QED  BY <1>0, <3>8, <3>9, <3>11, LocalStepKeeps
  <2> QED  BY <2>1, <2>2
<1>2. CASE InsertNote(r)
  <2> DEFINE n == [id |-> nextId, card |-> c, author |-> arg[r].who,
                   status |-> arg[r].status, edited |-> FALSE]
  <2>1. /\ pc[r] = "insert" /\ tx' = [tx EXCEPT ![r].added = {n}]
        /\ nextId' = nextId + 1 /\ Goto(r, "commit")
        /\ UNCHANGED <<Committed, lock, arg, work, begun>>
    BY <1>2 DEF InsertNote
  <2>2. /\ n.id = nextId /\ n.card = c /\ n.author = arg[r].who /\ n.status = arg[r].status
    OBVIOUS
  <2> HIDE DEF n
  <2>3. /\ tx'[r].added = {n} /\ tx'[r].erased = tx[r].erased /\ tx'[r].rows = tx[r].rows
        /\ pc'[r] = "commit" /\ arg'[r] = arg[r] /\ lock' = lock /\ notes' = notes
        /\ nextId \in Nat
    BY <1>0, <2>1 DEF TypeOK, Tx, Goto, Committed
  <2>4. LocalStep(r)
    BY <1>0, <2>1, <2>3 DEF LocalStep, Committed, Goto, TypeOK
  <2>5. /\ arg[r].route = "status" /\ OnlyItsCard(r) /\ AsSeen(r)
        /\ tx[r].erased = {} /\ tx[r].rows[c].status = arg[r].status
        /\ tx[r].rows[c].by = TeamOf[arg[r].who]
    BY <1>0, <2>1 DEF InOrder, RouteAt
  <2>6. OwnWrites(r)
    BY <1>0, <2>1, <2>2, <2>3, <2>5 DEF OwnWrites, RegisterInv, RowsAreLocked
  <2>7. \A m \in NotesOf(n.card, notes) : m.id < n.id
    BY <2>2 DEF RegisterInv, IdsAreSpent, NotesOf
  <2>8. OnlyItsCard(r)' /\ AsSeen(r)'
    BY <2>1, <2>3, <2>5 DEF OnlyItsCard, AsSeen, Committed
  <2>9. StatusReady(r)'
    BY <2>2, <2>3, <2>5, <2>7, <2>8 DEF StatusReady
  <2>10. InOrder(r)'
    BY <2>3, <2>5, <2>9 DEF InOrder, Fresh
  <2> QED  BY <1>0, <2>4, <2>6, <2>10, LocalStepKeeps
<1> QED  BY <1>1, <1>2

\* The statement of a correction.
LEMMA EditKeeps ==
  ASSUME RegisterInv, NEW r \in Requests, EditNote(r)
  PROVE  RegisterInv'
<1>0. TypeOK /\ TypeOK' /\ InOrder(r) /\ tx[r] \in Tx
  BY StatementType DEF RegisterInv, Statement, TypeOK
<1> DEFINE mine == {n \in notes : /\ n.id = arg[r].note /\ n.card = arg[r].card
                                  /\ n.author = arg[r].who}
           words == {[n EXCEPT !.edited = TRUE] : n \in mine}
<1>1. CASE Rollback(r)
  BY <1>1, RollbackKeeps
<1>2. CASE ~Rollback(r)
  <2>1. /\ pc[r] = "edit" /\ NoteLockable(r, arg[r].note) /\ Goto(r, "commit")
        /\ tx' = [tx EXCEPT ![r].erased = mine, ![r].added = words]
        /\ UNCHANGED <<Committed, nextId, lock, arg, work, begun>>
    BY <1>2 DEF EditNote
  <2>2. tx[r] = NoTx /\ arg[r].route = "edit"
    BY <1>0, <2>1 DEF InOrder, Fresh, RouteAt
  <2>3. /\ mine \subseteq notes /\ \A n \in mine : n.id = arg[r].note
        /\ words = {[n EXCEPT !.edited = TRUE] : n \in mine}
    OBVIOUS
  <2>4. \A n \in words : n.id < nextId
    <3> SUFFICES ASSUME NEW n \in words PROVE n.id < nextId
      OBVIOUS
    <3>1. PICK m \in mine : n = [m EXCEPT !.edited = TRUE]
      OBVIOUS
    <3>2. m \in Note /\ m.id < nextId
      BY <1>0, <3>1 DEF TypeOK, RegisterInv, IdsAreSpent
    <3> QED  BY <3>1, <3>2 DEF Note
  <2> HIDE DEF mine, words
  <2>5. /\ tx'[r].added = words /\ tx'[r].erased = mine /\ tx'[r].rows = tx[r].rows
        /\ pc'[r] = "commit" /\ arg'[r] = arg[r] /\ lock' = lock
    BY <1>0, <2>1 DEF TypeOK, Tx, Goto
  <2>6. LocalStep(r)
    BY <1>0, <2>1 DEF LocalStep, Committed, Goto, TypeOK
  <2>7. \A d \in Cards : tx'[r].rows[d] = NoRow
    BY <2>2, <2>5 DEF NoTx
  <2>8. OwnWrites(r)
    BY <2>1, <2>3, <2>4, <2>5, <2>7 DEF OwnWrites, NoteLockable
  <2>9. InOrder(r)'
    BY <2>2, <2>3, <2>5, <2>7 DEF InOrder, Fresh, NoRowWritten
  <2> QED  BY <1>0, <2>6, <2>8, <2>9, LocalStepKeeps
<1> QED  BY <1>1, <1>2

\* The statements of a removal, up to its commit.
LEMMA DeleteKeeps ==
  ASSUME RegisterInv, NEW r \in Requests,
         EraseNote(r) \/ LockCard(r) \/ ReadHead(r) \/ RestoreHead(r)
  PROVE  RegisterInv'
<1>0. TypeOK /\ TypeOK' /\ InOrder(r) /\ tx[r] \in Tx /\ arg[r].card \in Cards
  BY StatementType DEF RegisterInv, Statement, TypeOK, Args
<1> DEFINE c == arg[r].card
<1>1. CASE EraseNote(r)
  <2> DEFINE found == {n \in notes :
                  /\ n.id = arg[r].note /\ n.card = arg[r].card
                  /\ arg[r].who \in Coordinators \/ n.author = arg[r].who}
  <2>1. CASE Rollback(r)
    BY <2>1, RollbackKeeps
  <2>2. CASE ~Rollback(r)
    <3>1. /\ pc[r] = "erase" /\ NoteLockable(r, arg[r].note) /\ Goto(r, "lockCard")
          /\ found # {} /\ tx' = [tx EXCEPT ![r].erased = found]
          /\ UNCHANGED <<Committed, nextId, lock, arg, work, begun>>
      BY <1>1, <2>2 DEF EraseNote
    <3>2. found \subseteq notes /\ \A n \in found : n.id = arg[r].note /\ n.card = c
      OBVIOUS
    <3> HIDE DEF found
    <3>3. tx[r] = NoTx /\ arg[r].route = "delete"
      BY <1>0, <3>1 DEF InOrder, Fresh, RouteAt
    <3>4. /\ tx'[r].added = {} /\ tx'[r].erased = found /\ tx'[r].rows = NoTx.rows
          /\ pc'[r] = "lockCard" /\ arg'[r] = arg[r] /\ lock' = lock
      BY <1>0, <3>1, <3>3 DEF TypeOK, Tx, Goto, NoTx
    <3>5. LocalStep(r)
      BY <1>0, <3>1 DEF LocalStep, Committed, Goto, TypeOK
    <3>6. \A d \in Cards : tx'[r].rows[d] = NoRow
      BY <3>4 DEF NoTx
    <3>7. OwnWrites(r)
      BY <3>1, <3>2, <3>4, <3>6 DEF OwnWrites, NoteLockable
    <3>8. Removal(r)' /\ NoRowWritten(r)'
      BY <3>1, <3>2, <3>4, <3>6 DEF Removal, NoRowWritten
    <3>9. InOrder(r)'
      BY <3>3, <3>4, <3>8 DEF InOrder, Fresh, RouteAt
    <3> QED  BY <1>0, <3>5, <3>7, <3>9, LocalStepKeeps
  <2> QED  BY <2>1, <2>2
<1>2. CASE LockCard(r)
  <2>1. pc[r] = "lockCard" /\ Removal(r) /\ NoRowWritten(r) /\ arg[r].route = "delete"
    BY <1>0, <1>2 DEF LockCard, InOrder, RouteAt
  <2>2. card[c] # NoRow
    BY <2>1, RemovalHasARow, CardsAssumption
  <2>3. /\ Lockable(r, c) /\ TakeLock(r, c) /\ Goto(r, "readHead")
        /\ UNCHANGED <<Committed, nextId, arg, work, tx, begun>>
    BY <1>2, <2>2 DEF LockCard
  <2>4. /\ lock'[c] = r /\ \A d \in Cards \ {c} : lock'[d] = lock[d]
    BY <1>0, <2>3 DEF TakeLock, TypeOK
  <2>5. LocalStep(r)
    BY <1>0, <2>3, <2>4, CardsAssumption DEF LocalStep, Committed, Goto, TypeOK, Lockable
  <2>6. OwnWrites(r)
    <3>1. \A d \in Cards : lock[d] = r => lock'[d] = r
      BY <2>4
    <3> QED  BY <2>3, <3>1, SameWrites
  <2>7. pc'[r] = "readHead" /\ arg'[r] = arg[r] /\ tx' = tx
    BY <1>0, <2>3 DEF Goto, TypeOK
  <2>8. Removal(r)' /\ NoRowWritten(r)'
    BY <2>1, <2>7 DEF Removal, NoRowWritten
  <2>9. InOrder(r)'
    BY <2>1, <2>4, <2>7, <2>8 DEF InOrder, Fresh, RouteAt
  <2> QED  BY <1>0, <2>5, <2>6, <2>9, LocalStepKeeps
<1>3. CASE ReadHead(r)
  <2>1. /\ pc[r] = "readHead" /\ Removal(r) /\ NoRowWritten(r) /\ arg[r].route = "delete"
        /\ lock[c] = r
    BY <1>0, <1>3 DEF ReadHead, InOrder, RouteAt
  <2>2. /\ Goto(r, "restore") /\ UNCHANGED <<Committed, nextId, lock, arg, tx, begun>>
    BY <1>3 DEF ReadHead
  <2>3. PICK h : work' = [work EXCEPT ![r].head = h] /\ Says(h, NotesLeft(r))
    <3>1. CASE NotesLeft(r) = {}
      <4>1. work' = [work EXCEPT ![r].head = Blank]
        BY <1>3, <3>1 DEF ReadHead, NotesLeft, Newest
      <4>2. Says(Blank, NotesLeft(r))
        BY <3>1 DEF Says, Blank
      <4> QED  BY <4>1, <4>2
    <3>2. CASE NotesLeft(r) # {}
      <4>1. PICK n \in NotesLeft(r) : /\ Newest(n, NotesLeft(r))
                                      /\ work' = [work EXCEPT ![r].head = HeadOf(n)]
        BY <1>3, <3>2 DEF ReadHead, NotesLeft
      <4>2. Says(HeadOf(n), NotesLeft(r))
        BY <3>2, <4>1 DEF Says, HeadOf
      <4> QED  BY <4>1, <4>2
    <3> QED  BY <3>1, <3>2
  <2>4. /\ pc'[r] = "restore" /\ arg'[r] = arg[r] /\ tx' = tx /\ notes' = notes
        /\ lock' = lock /\ work'[r].head = h
    BY <1>0, <2>2, <2>3 DEF Goto, TypeOK, Work, Committed
  <2>5. LocalStep(r)
    BY <1>0, <2>2, <2>3 DEF LocalStep, Committed, Goto, TypeOK
  <2>6. OwnWrites(r)
    BY <2>2, SameWrites
  <2>7. Removal(r)' /\ NoRowWritten(r)'
    BY <2>1, <2>4 DEF Removal, NoRowWritten
  <2>8. Says(work[r].head, NotesLeft(r))'
    <3>1. NotesLeft(r)' = NotesLeft(r)
      BY <2>4 DEF NotesLeft, NotesOf
    <3> QED  BY <2>3, <2>4, <3>1 DEF Says, Newest
  <2>9. InOrder(r)'
    BY <2>1, <2>4, <2>7, <2>8 DEF InOrder, Fresh, RouteAt
  <2> QED  BY <1>0, <2>5, <2>6, <2>9, LocalStepKeeps
<1>4. CASE RestoreHead(r)
  <2>1. /\ pc[r] = "restore" /\ Removal(r) /\ NoRowWritten(r) /\ arg[r].route = "delete"
        /\ lock[c] = r /\ Says(work[r].head, NotesLeft(r))
    BY <1>0, <1>4 DEF RestoreHead, InOrder, RouteAt
  <2>2. card[c] \in Row /\ card[c] # NoRow
    BY <2>1, RemovalHasARow, CardsAssumption
  <2> DEFINE row == [card[c] EXCEPT !.status = work[r].head.status, !.by = work[r].head.by]
  <2>3. /\ TakeLock(r, c) /\ WriteRow(r, c, row) /\ Goto(r, "commit")
        /\ UNCHANGED <<Committed, nextId, arg, work, begun>>
    BY <1>4, <2>2 DEF RestoreHead
  <2>4. /\ row \in Row /\ row.status = work[r].head.status /\ row.by = work[r].head.by
    <3>1. work[r].head.status \in Statuses /\ work[r].head.by \in Teams \cup {NoTeam}
      BY <1>0 DEF TypeOK, Work, Head
    <3> QED  BY <2>2, <3>1 DEF Row
  <2>5. row # NoRow
    BY <2>4, CardsAssumption
  <2> HIDE DEF row
  <2>6. /\ tx'[r].added = tx[r].added /\ tx'[r].erased = tx[r].erased
        /\ tx'[r].rows = [tx[r].rows EXCEPT ![c] = row]
        /\ pc'[r] = "commit" /\ arg'[r] = arg[r] /\ notes' = notes
    BY <1>0, <2>3 DEF WriteRow, TypeOK, Tx, Goto, Committed
  <2>7. /\ tx'[r].rows[c] = row /\ \A d \in Cards \ {c} : tx'[r].rows[d] = NoRow
    BY <1>0, <2>1, <2>6 DEF Tx, NoRowWritten
  <2>8. lock'[c] = r /\ \A d \in Cards \ {c} : lock'[d] = lock[d]
    BY <1>0, <2>3 DEF TakeLock, TypeOK
  <2>9. LocalStep(r)
    BY <1>0, <2>1, <2>3, <2>8 DEF LocalStep, WriteRow, Committed, Goto, TypeOK
  <2>10. OwnWrites(r)
    BY <2>3, <2>6, <2>7, <2>8 DEF OwnWrites, RegisterInv, IdsAreSpent, NotesAreLocked
  <2>11. Removal(r)' /\ OnlyItsCard(r)'
    BY <2>1, <2>5, <2>6, <2>7, <2>8 DEF Removal, OnlyItsCard
  <2>12. Says(tx[r].rows[arg[r].card], NotesLeft(r))'
    <3>1. NotesLeft(r)' = NotesLeft(r)
      BY <2>6 DEF NotesLeft, NotesOf
    <3> QED  BY <2>1, <2>4, <2>6, <2>7, <3>1 DEF Says, Newest
  <2>13. InOrder(r)'
    BY <2>1, <2>6, <2>11, <2>12 DEF InOrder, Fresh
  <2> QED  BY <1>0, <2>9, <2>10, <2>13, LocalStepKeeps
<1> QED  BY <1>1, <1>2, <1>3, <1>4

\* A reservation or a release written under its row's lock.
LEMMA ReservationWrite ==
  ASSUME RegisterInv, NEW r \in Requests, OnlyReservations(r), NEW c \in Cards,
         NEW row \in Row, SameHead(row, card[c]),
         WriteRow(r, c, row) \/ UNCHANGED tx,
         Lockable(r, c), TakeLock(r, c),
         UNCHANGED <<Committed, nextId, arg>>,
         NEW step, Goto(r, step),
         \A q \in Requests \ {r} : work'[q] = work[q]
  PROVE  LocalStep(r) /\ OwnWrites(r) /\ OnlyReservations(r)'
<1>0. TypeOK /\ tx[r] \in Tx
  BY DEF RegisterInv, TypeOK
<1>1. /\ tx'[r].added = tx[r].added /\ tx'[r].erased = tx[r].erased
      /\ \A d \in Cards \ {c} : tx'[r].rows[d] = tx[r].rows[d]
      /\ tx'[r].rows[c] = row \/ tx'[r].rows[c] = tx[r].rows[c]
      /\ \A q \in Requests \ {r} : tx'[q] = tx[q]
  <2>1. CASE UNCHANGED tx
    BY <2>1
  <2>2. CASE WriteRow(r, c, row)
    <3>1. tx'[r].rows = [tx[r].rows EXCEPT ![c] = row]
      BY <1>0, <2>2 DEF WriteRow, TypeOK, Tx
    <3> QED  BY <1>0, <2>2, <3>1 DEF WriteRow, TypeOK, Tx
  <2> QED  BY <2>1, <2>2
<1>2. lock'[c] = r /\ \A d \in Cards \ {c} : lock'[d] = lock[d]
  BY <1>0 DEF TakeLock, TypeOK
<1>3. LocalStep(r)
  BY <1>0, <1>1, <1>2, CardsAssumption DEF LocalStep, Committed, Goto, TypeOK, Lockable
<1>4. OwnWrites(r)
  BY <1>1, <1>2 DEF OwnWrites, OnlyReservations, RegisterInv, RowsAreLocked
<1>5. OnlyReservations(r)'
  BY <1>1 DEF OnlyReservations, SameHead, Committed
<1> QED  BY <1>3, <1>4, <1>5

\* The statements of a batch, up to its commit.
LEMMA BatchKeeps ==
  ASSUME RegisterInv, NEW r \in Requests, Draw(r) \/ TakeCard(r) \/ Recount(r)
  PROVE  RegisterInv'
<1>0. TypeOK /\ TypeOK' /\ InOrder(r) /\ arg[r] \in Args /\ work[r] \in Work
  BY StatementType DEF RegisterInv, Statement, TypeOK
<1>1. arg[r].route = "batch" /\ OnlyReservations(r) /\ arg' = arg
  BY <1>0 DEF Draw, TakeCard, Recount, InOrder, RouteAt
<1>2. pc'[r] \in {"draw", "take", "recount", "commit"}
  <2>1. CASE Draw(r)
    BY <1>0, <2>1 DEF Draw, Goto, TypeOK
  <2>2. CASE TakeCard(r)
    BY <1>0, <2>2 DEF TakeCard, Goto, TypeOK
  <2>3. CASE Recount(r)
    BY <1>0, <2>3 DEF Recount, Goto, TypeOK
  <2> QED  BY <2>1, <2>2, <2>3
<1>3. ASSUME OnlyReservations(r)' PROVE InOrder(r)'
  BY <1>1, <1>2, <1>3 DEF InOrder, Fresh, RouteAt
<1>4. CASE Draw(r) \/ Recount(r)
  <2>1. UNCHANGED <<Committed, nextId, lock, arg, tx>>
    BY <1>4 DEF Draw, Recount
  <2>2. \A q \in Requests \ {r} : pc'[q] = pc[q] /\ work'[q] = work[q]
    BY <1>0, <1>4 DEF Draw, Recount, Goto, TypeOK
  <2>3. LocalStep(r)
    BY <1>0, <2>1, <2>2 DEF LocalStep, Committed, TypeOK
  <2>4. OwnWrites(r)
    BY <2>1, SameWrites
  <2>5. OnlyReservations(r)'
    BY <1>1, <2>1 DEF OnlyReservations, SameHead, Committed
  <2> QED  BY <1>0, <1>3, <2>3, <2>4, <2>5, LocalStepKeeps
<1>5. CASE TakeCard(r)
  <2>1. PICK d \in work[r].todo :
          LET rest == work[r].todo \ {d}
              free == Available(Sees(r, d))
              row == IF card[d] = NoRow
                     THEN [status |-> ToContact, by |-> NoTeam, volunteer |-> arg[r].who]
                     ELSE [card[d] EXCEPT !.volunteer = arg[r].who]
          IN /\ Lockable(r, d) /\ TakeLock(r, d)
             /\ IF free THEN WriteRow(r, d, row) ELSE UNCHANGED tx
             /\ work' = [work EXCEPT ![r].todo = rest, ![r].won = @ \/ free]
             /\ Goto(r, CASE rest # {} -> "take"
                          [] rest = {} /\ (work[r].won \/ free) -> "draw"
                          [] OTHER -> "recount")
    BY <1>5 DEF TakeCard
  <2> DEFINE row == IF card[d] = NoRow
                    THEN [status |-> ToContact, by |-> NoTeam, volunteer |-> arg[r].who]
                    ELSE [card[d] EXCEPT !.volunteer = arg[r].who]
             step == CASE work[r].todo \ {d} # {} -> "take"
                       [] work[r].todo \ {d} = {} /\ (work[r].won \/ Available(Sees(r, d))) -> "draw"
                       [] OTHER -> "recount"
  <2>2. d \in Cards /\ arg[r].who \in Accounts
    BY <1>0 DEF Work, Args
  <2>3. row \in Row /\ SameHead(row, card[d])
    BY <1>0, <2>2, CardsAssumption DEF TypeOK, Row, SameHead
  <2>4. (WriteRow(r, d, row) \/ UNCHANGED tx) /\ Lockable(r, d) /\ TakeLock(r, d) /\ Goto(r, step)
    BY <2>1
  <2>5. \A q \in Requests \ {r} : work'[q] = work[q]
    BY <1>0, <2>1 DEF TypeOK
  <2>6. UNCHANGED <<Committed, nextId, arg>>
    BY <1>5 DEF TakeCard
  <2> HIDE DEF row, step
  <2>7. LocalStep(r) /\ OwnWrites(r) /\ OnlyReservations(r)'
    BY <1>1, <2>2, <2>3, <2>4, <2>5, <2>6, ReservationWrite
  <2> QED  BY <1>0, <1>3, <2>7, LocalStepKeeps
<1> QED  BY <1>4, <1>5

\* The statements of a closing or a reopening, up to its commit.
LEMMA ToggleKeeps ==
  ASSUME RegisterInv, NEW r \in Requests, Flip(r) \/ Sweep(r) \/ ReleaseCard(r)
  PROVE  RegisterInv'
<1>0. TypeOK /\ TypeOK' /\ InOrder(r) /\ tx[r] \in Tx /\ work[r] \in Work
  BY StatementType DEF RegisterInv, Statement, TypeOK
<1>1. /\ arg[r].route = "toggle" /\ arg' = arg
      /\ pc[r] \in {"flip", "sweep", "release"}
  BY <1>0 DEF Flip, Sweep, ReleaseCard, InOrder, RouteAt
<1>2. OnlyReservations(r)
  BY <1>0, <1>1 DEF InOrder, Fresh, OnlyReservations, NoTx
<1>3. pc'[r] \in {"sweep", "release", "commit"}
  <2>1. CASE Flip(r)
    BY <1>0, <2>1 DEF Flip, Goto, TypeOK
  <2>2. CASE Sweep(r)
    BY <1>0, <2>2 DEF Sweep, Goto, TypeOK
  <2>3. CASE ReleaseCard(r)
    BY <1>0, <2>3 DEF ReleaseCard, Goto, TypeOK
  <2> QED  BY <2>1, <2>2, <2>3
<1>4. ASSUME OnlyReservations(r)' PROVE InOrder(r)'
  BY <1>1, <1>3, <1>4 DEF InOrder, Fresh, RouteAt
<1>5. CASE Flip(r)
  <2>1. /\ tx'[r].rows = tx[r].rows /\ tx'[r].added = tx[r].added
        /\ tx'[r].erased = tx[r].erased
    BY <1>0, <1>5 DEF Flip, TypeOK, Tx
  <2>2. LocalStep(r)
    BY <1>0, <1>5 DEF Flip, LocalStep, Committed, Goto, TypeOK
  <2>3. lock' = lock /\ nextId' = nextId /\ card' = card
    BY <1>5 DEF Flip, Committed
  <2>4. OwnWrites(r)
    BY <2>1, <2>3 DEF OwnWrites, RegisterInv, IdsAreSpent, NotesAreLocked, RowsAreLocked
  <2>5. OnlyReservations(r)'
    BY <1>2, <2>1, <2>3 DEF OnlyReservations, SameHead
  <2> QED  BY <1>0, <1>4, <2>2, <2>4, <2>5, LocalStepKeeps
<1>6. CASE Sweep(r)
  <2>1. UNCHANGED <<Committed, nextId, lock, arg, tx>>
    BY <1>6 DEF Sweep
  <2>2. \A q \in Requests \ {r} : pc'[q] = pc[q] /\ work'[q] = work[q]
    BY <1>0, <1>6 DEF Sweep, Goto, TypeOK
  <2>3. LocalStep(r)
    BY <1>0, <2>1, <2>2 DEF LocalStep, Committed, TypeOK
  <2>4. OwnWrites(r)
    BY <2>1, SameWrites
  <2>5. OnlyReservations(r)'
    BY <1>2, <2>1 DEF OnlyReservations, SameHead, Committed
  <2> QED  BY <1>0, <1>4, <2>3, <2>4, <2>5, LocalStepKeeps
<1>7. CASE ReleaseCard(r)
  <2> DEFINE d == work[r].next
             freed == [card[d] EXCEPT !.volunteer = NoOne]
  <2>1. d \in Cards
    BY <1>0 DEF Work
  <2>2. Lockable(r, d) /\ TakeLock(r, d) /\ UNCHANGED <<Committed, nextId, arg>>
    BY <1>7 DEF ReleaseCard
  <2>3. PICK row \in Row : SameHead(row, card[d]) /\ (WriteRow(r, d, row) \/ UNCHANGED tx)
    <3>1. CASE ReservedTo(card[d], arg[r].target)
      <4>1. freed \in Row /\ SameHead(freed, card[d])
        BY <1>0, <2>1, <3>1 DEF TypeOK, Row, SameHead, ReservedTo
      <4>2. WriteRow(r, d, freed)
        BY <1>7, <3>1 DEF ReleaseCard
      <4> QED  BY <4>1, <4>2
    <3>2. CASE ~ReservedTo(card[d], arg[r].target)
      <4>1. UNCHANGED tx
        BY <1>7, <3>2 DEF ReleaseCard
      <4>2. CASE card[d] = NoRow
        <5>1. [status |-> ToContact, by |-> NoTeam, volunteer |-> NoOne] \in Row
          BY CardsAssumption DEF Row
        <5> QED  BY <4>1, <4>2, <5>1 DEF SameHead
      <4>3. CASE card[d] # NoRow
        BY <1>0, <2>1, <4>1, <4>3 DEF TypeOK, SameHead
      <4> QED  BY <4>2, <4>3
    <3> QED  BY <3>1, <3>2
  <2>4. PICK step : Goto(r, step)
    BY <1>7 DEF ReleaseCard
  <2>5. \A q \in Requests \ {r} : work'[q] = work[q]
    BY <1>0, <1>7 DEF ReleaseCard, TypeOK
  <2>6. LocalStep(r) /\ OwnWrites(r) /\ OnlyReservations(r)'
    BY <1>2, <2>1, <2>2, <2>3, <2>4, <2>5, ReservationWrite
  <2> QED  BY <1>0, <1>4, <2>6, LocalStepKeeps
<1> QED  BY <1>5, <1>6, <1>7

\* Every step keeps the register's invariant, and it holds of an empty register.
LEMMA RegisterInductive ==
  /\ Init => RegisterInv
  /\ RegisterInv /\ [Next]_vars => RegisterInv'
<1>1. ASSUME Init PROVE RegisterInv
  <2>1. TypeOK
    BY <1>1, Defaults, CardsAssumption DEF Init, TypeOK, Steps
  <2>2. HeadIsNewest
    BY <1>1 DEF Init, HeadIsNewest, NotesOf
  <2>3. IdsAreSpent /\ NotesAreLocked /\ RowsAreLocked
    BY <1>1 DEF Init, IdsAreSpent, NotesAreLocked, RowsAreLocked, NoTx
  <2>4. \A r \in Requests : InOrder(r)
    BY <1>1 DEF Init, InOrder, Fresh
  <2> QED  BY <2>1, <2>2, <2>3, <2>4 DEF RegisterInv
<1>2. ASSUME RegisterInv, [Next]_vars PROVE RegisterInv'
  <2>1. CASE UNCHANGED vars
    <3>1. TypeOK'
      BY <1>2, <2>1 DEF vars, RegisterInv, TypeOK
    <3>2. HeadIsNewest'
      BY <1>2, <2>1 DEF vars, RegisterInv, HeadIsNewest, Says, Newest, NotesOf
    <3>3. IdsAreSpent' /\ NotesAreLocked' /\ RowsAreLocked'
      BY <1>2, <2>1 DEF vars, RegisterInv, IdsAreSpent, NotesAreLocked, RowsAreLocked
    <3>4. \A r \in Requests : InOrder(r)'
      <4> SUFFICES ASSUME NEW r \in Requests PROVE InOrder(r)'
        OBVIOUS
      <4>1. InOrder(r) /\ \A h, S : Says(h, S)' = Says(h, S)
        BY <1>2 DEF RegisterInv, Says, Newest
      <4>2. /\ OnlyItsCard(r)' = OnlyItsCard(r) /\ NoRowWritten(r)' = NoRowWritten(r)
            /\ Removal(r)' = Removal(r) /\ NotesLeft(r)' = NotesLeft(r)
            /\ OnlyReservations(r)' = OnlyReservations(r) /\ AsSeen(r)' = AsSeen(r)
        BY <2>1 DEF vars, OnlyItsCard, NoRowWritten, Removal, NotesLeft, NotesOf,
           OnlyReservations, SameHead, AsSeen
      <4>3. StatusReady(r)' = StatusReady(r)
        BY <2>1, <4>2 DEF vars, StatusReady, NotesOf
      <4> QED  BY <2>1, <4>1, <4>2, <4>3 DEF vars, InOrder, Says, Newest
    <3> QED  BY <3>1, <3>2, <3>3, <3>4 DEF RegisterInv
  <2>2. CASE Next
    <3>1. PICK r \in Requests : Arrive(r) \/ Statement(r) \/ Fail(r) \/ DeadlockVictim(r)
      BY <2>2 DEF Next
    <3>2. CASE Arrive(r)
      BY <1>2, <3>2, ArriveKeeps
    <3>3. CASE Statement(r)
      BY <1>2, <3>3, StatusKeeps, EditKeeps, DeleteKeeps, BatchKeeps, ToggleKeeps,
         CommitKeeps DEF Statement
    <3>4. CASE Fail(r) \/ DeadlockVictim(r)
      BY <1>2, <3>4, RollbackKeeps DEF Fail, DeadlockVictim
    <3> QED  BY <3>1, <3>2, <3>3, <3>4
  <2> QED  BY <1>2, <2>1, <2>2
<1> QED  BY <1>1, <1>2

\* The invariant every request's place in its handler keeps (InOrder), for every
\* list, campaign and number of concurrent requests.
THEOREM RegisterInOrder == Spec => []RegisterInv
BY RegisterInductive, PTL DEF Spec

\* assignments is the head of notes, whatever races what: routeStatus,
\* routeEditNote, routeDeleteNote and restoreHead, routeBatch and
\* routeToggleAccount together.
THEOREM HeadIsAlwaysNewest == Spec => []HeadIsNewest
<1>1. RegisterInv => HeadIsNewest
  BY DEF RegisterInv
<1> QED  BY <1>1, RegisterInOrder, PTL

\* Every note of a commit is newer than all its card ever had, or a corrected one.
LEMMA CommitGrowsAtTheHead ==
  ASSUME RegisterInv, PastInv, NEW r \in Requests, Commit(r), NEW n \in notes' \ notes
  PROVE  \/ \E m \in notes : n = [m EXCEPT !.edited = TRUE]
         \/ \A m \in NotesOf(n.card, notes \cup gone) : m.id < n.id
<1>1. /\ pc[r] = "commit" /\ InOrder(r) /\ n \in tx[r].added /\ tx[r].erased \subseteq notes
  BY DEF Commit, RegisterInv, NotesAreLocked
<1>2. CASE arg[r].route = "status"
  <2>1. \A m \in NotesOf(n.card, notes) : m.id < n.id
    BY <1>1, <1>2 DEF InOrder, StatusReady
  <2>2. \A m \in NotesOf(n.card, gone) : m.id < n.id
    BY <1>1, <1>2 DEF PastInv
  <2> QED  BY <2>1, <2>2 DEF NotesOf
<1>3. CASE arg[r].route = "edit"
  <2>1. PICK m \in tx[r].erased : n = [m EXCEPT !.edited = TRUE]
    BY <1>1, <1>3 DEF InOrder
  <2> QED  BY <1>1, <2>1
<1>4. CASE arg[r].route \notin {"status", "edit"}
  BY <1>1, <1>4 DEF InOrder, Removal, OnlyReservations
<1> QED  BY <1>2, <1>3, <1>4

\* Only a commit changes the committed rows.
LEMMA OnlyCommitsCount ==
  ASSUME NEW r \in Requests, ~Commit(r),
         Arrive(r) \/ Statement(r) \/ Fail(r) \/ DeadlockVictim(r)
  PROVE  UNCHANGED Committed
<1>1. CASE Arrive(r)
  BY <1>1 DEF Arrive, BeginStatus, BeginEdit, BeginDelete, BeginBatch, BeginToggle, Begin
<1>2. CASE Upsert(r) \/ InsertNote(r) \/ EditNote(r) \/ EraseNote(r)
  BY <1>2 DEF Upsert, InsertNote, EditNote, EraseNote, Rollback
<1>3. CASE LockCard(r) \/ ReadHead(r) \/ RestoreHead(r)
  BY <1>3 DEF LockCard, ReadHead, RestoreHead
<1>4. CASE Draw(r) \/ TakeCard(r) \/ Recount(r) \/ Flip(r) \/ Sweep(r) \/ ReleaseCard(r)
  BY <1>4 DEF Draw, TakeCard, Recount, Flip, Sweep, ReleaseCard
<1>5. CASE Fail(r) \/ DeadlockVictim(r)
  BY <1>5 DEF Fail, DeadlockVictim, Rollback
<1> QED  BY <1>1, <1>2, <1>3, <1>4, <1>5 DEF Statement

\* A step of one request keeps the past behind the statuses under way, when it
\* commits nothing, spends ids only forwards and adds no note but the newest.
LEMMA AsideKeepsPast ==
  ASSUME RegisterInv, PastInv, NEW r \in Requests, UNCHANGED Committed,
         nextId' \in Nat, nextId' >= nextId,
         \A q \in Requests \ {r} : arg'[q] = arg[q] /\ tx'[q] = tx[q],
         \/ tx'[r].added = {}
         \/ arg'[r] = arg[r] /\ tx'[r].added = tx[r].added
         \/ arg'[r].route # "status"
         \/ \A n \in tx'[r].added : n.id = nextId
  PROVE  PastInv'
<1>1. gone' = gone /\ gone \subseteq Note /\ nextId \in Nat
  BY DEF Committed, RegisterInv, TypeOK
<1>2. \A n \in gone : n.id < nextId /\ n.id < nextId'
  BY <1>1 DEF PastInv, Note
<1>3. ASSUME NEW q \in Requests, arg'[q].route = "status", NEW n \in tx'[q].added,
             NEW m \in gone, m.card = n.card
      PROVE  m.id < n.id
  <2>1. CASE q # r
    <3>1. arg'[q] = arg[q] /\ tx'[q] = tx[q]
      BY <2>1
    <3> QED  BY <1>3, <3>1 DEF PastInv, NotesOf
  <2>2. CASE q = r /\ arg'[r] = arg[r] /\ tx'[r].added = tx[r].added
    BY <1>3, <2>2 DEF PastInv, NotesOf
  <2>3. CASE q = r /\ \A k \in tx'[r].added : k.id = nextId
    BY <1>2, <1>3, <2>3
  <2> QED  BY <1>3, <2>1, <2>2, <2>3
<1> QED  BY <1>1, <1>2, <1>3 DEF PastInv, NotesOf

\* A commit keeps it: what it removes had an older id than a status under way.
LEMMA CommitKeepsPast ==
  ASSUME RegisterInv, PastInv, NEW r \in Requests, Commit(r)
  PROVE  PastInv'
<1>1. /\ tx[r].erased \subseteq notes /\ notes \subseteq Note /\ gone \subseteq Note
      /\ nextId' = nextId /\ gone' = gone \cup (notes \ notes')
      /\ \A n \in notes : n.id < nextId
  BY DEF Commit, RegisterInv, NotesAreLocked, TypeOK, IdsAreSpent
<1>2. /\ tx'[r] = NoTx
      /\ \A q \in Requests \ {r} : arg'[q] = arg[q] /\ tx'[q] = tx[q]
  BY DEF Commit, Close, RegisterInv, TypeOK
<1>3. ASSUME NEW q \in Requests \ {r}, arg[q].route = "status", NEW n \in tx[q].added,
             NEW m \in notes, m.card = n.card
      PROVE  m.id < n.id
  <2>1. InOrder(q) /\ pc[q] \in Steps
    BY DEF RegisterInv, TypeOK
  <2>2. pc[q] \notin Fresh /\ pc[q] # "insert"
    BY <1>3, <2>1 DEF InOrder, NoTx
  <2>3. pc[q] = "commit"
    BY <1>3, <2>1, <2>2 DEF InOrder, RouteAt, Steps, Fresh
  <2> QED  BY <1>3, <2>1, <2>3 DEF InOrder, StatusReady, NotesOf
<1>4. \A n \in gone' : n.id < nextId'
  BY <1>1 DEF PastInv
<1>5. ASSUME NEW q \in Requests, arg'[q].route = "status", NEW n \in tx'[q].added,
             NEW m \in gone', m.card = n.card
      PROVE  m.id < n.id
  <2>1. q # r /\ arg'[q] = arg[q] /\ tx'[q] = tx[q]
    BY <1>2, <1>5 DEF NoTx
  <2>2. CASE m \in gone
    BY <1>5, <2>1, <2>2 DEF PastInv, NotesOf
  <2>3. CASE m \in notes
    BY <1>3, <1>5, <2>1, <2>3
  <2> QED  BY <1>1, <2>2, <2>3
<1> QED  BY <1>4, <1>5 DEF PastInv, NotesOf

\* Every statement, arrival and failure keeps it.
LEMMA StepKeepsPast ==
  ASSUME RegisterInv, PastInv, NEW r \in Requests, ~Commit(r),
         Arrive(r) \/ Statement(r) \/ Fail(r) \/ DeadlockVictim(r)
  PROVE  PastInv'
<1>1. UNCHANGED Committed
  BY OnlyCommitsCount
<1>2. /\ InOrder(r) /\ nextId \in Nat
      /\ tx \in [Requests -> Tx] /\ arg \in [Requests -> Args]
  BY DEF RegisterInv, TypeOK
<1>3. nextId' \in Nat /\ nextId' >= nextId
  <2>1. nextId' = nextId \/ nextId' = nextId + 1
    BY DEF Arrive, BeginStatus, BeginEdit, BeginDelete, BeginBatch, BeginToggle, Begin,
       Statement, Upsert, InsertNote, EditNote, EraseNote, LockCard, ReadHead, RestoreHead,
       Draw, TakeCard, Recount, Flip, Sweep, ReleaseCard, Fail, DeadlockVictim, Rollback
  <2> QED  BY <1>2, <2>1
<1>4. ASSUME Rollback(r)
      PROVE  /\ \A q \in Requests \ {r} : arg'[q] = arg[q] /\ tx'[q] = tx[q]
             /\ tx'[r].added = {}
  BY <1>2, <1>4 DEF Rollback, Close, NoTx
<1>5. ASSUME NEW who, NEW route, NEW step, NEW a, Begin(r, who, route, step, a)
      PROVE  /\ \A q \in Requests \ {r} : arg'[q] = arg[q] /\ tx'[q] = tx[q]
             /\ tx'[r].added = {}
  BY <1>2, <1>5 DEF Begin, InOrder, Fresh, NoTx
<1>6. ASSUME NEW c, NEW row, WriteRow(r, c, row)
      PROVE  /\ \A q \in Requests \ {r} : tx'[q] = tx[q]
             /\ tx'[r].added = tx[r].added
  BY <1>2, <1>6 DEF WriteRow, Tx
<1> DEFINE Kept == /\ \A q \in Requests \ {r} : arg'[q] = arg[q] /\ tx'[q] = tx[q]
                   /\ \/ tx'[r].added = {}
                      \/ arg'[r] = arg[r] /\ tx'[r].added = tx[r].added
                      \/ arg'[r].route # "status"
                      \/ \A n \in tx'[r].added : n.id = nextId
<1> SUFFICES Kept
  BY <1>1, <1>3, AsideKeepsPast
<1>7. CASE Arrive(r)
  BY <1>5, <1>7 DEF Arrive, BeginStatus, BeginEdit, BeginDelete, BeginBatch, BeginToggle
<1>8. CASE Upsert(r)
  BY <1>4, <1>6, <1>8 DEF Upsert
<1>9. CASE InsertNote(r)
  BY <1>2, <1>9 DEF InsertNote, Tx
<1>10. CASE EditNote(r)
  <2>1. CASE Rollback(r)
    BY <1>4, <2>1
  <2>2. CASE ~Rollback(r)
    BY <1>2, <1>10, <2>2 DEF EditNote, InOrder, RouteAt, Tx
  <2> QED  BY <2>1, <2>2
<1>11. CASE EraseNote(r)
  <2>1. CASE Rollback(r)
    BY <1>4, <2>1
  <2>2. CASE ~Rollback(r)
    BY <1>2, <1>11, <2>2 DEF EraseNote, Tx
  <2> QED  BY <2>1, <2>2
<1>12. CASE LockCard(r) \/ ReadHead(r) \/ Draw(r) \/ Recount(r) \/ Sweep(r)
  BY <1>12 DEF LockCard, ReadHead, Draw, Recount, Sweep
<1>13. CASE RestoreHead(r)
  BY <1>6, <1>13 DEF RestoreHead
<1>14. CASE TakeCard(r)
  BY <1>6, <1>14 DEF TakeCard
<1>15. CASE Flip(r)
  BY <1>2, <1>15 DEF Flip, Tx
<1>16. CASE ReleaseCard(r)
  BY <1>6, <1>16 DEF ReleaseCard
<1>17. CASE Fail(r) \/ DeadlockVictim(r)
  BY <1>4, <1>17 DEF Fail, DeadlockVictim
<1> QED  BY <1>7, <1>8, <1>9, <1>10, <1>11, <1>12, <1>13, <1>14, <1>15, <1>16, <1>17 DEF Statement

\* A status under way is newer than all its card ever had: ids are drawn under
\* the lock of the card, and never twice (routeStatus).
LEMMA PastInductive ==
  /\ Init => PastInv
  /\ RegisterInv /\ PastInv /\ [Next]_vars => PastInv'
<1>1. Init => PastInv
  BY DEF Init, PastInv, NoTx, NotesOf
<1>2. ASSUME RegisterInv, PastInv, [Next]_vars PROVE PastInv'
  <2>1. CASE UNCHANGED vars
    BY <1>2, <2>1 DEF vars, PastInv, NotesOf
  <2>2. CASE Next
    <3>1. PICK r \in Requests : Arrive(r) \/ Statement(r) \/ Fail(r) \/ DeadlockVictim(r)
      BY <2>2 DEF Next
    <3> QED  BY <1>2, <3>1, CommitKeepsPast, StepKeepsPast
  <2> QED  BY <1>2, <2>1, <2>2
<1> QED  BY <1>1, <1>2

\* A history grows at its head only: ids are handed out under the lock of the
\* card (routeStatus), and a note that was removed, were it the newest or the
\* only one of its card, never comes back (routeEditNote).
THEOREM HistoriesGrowAtTheHead == Spec => HistoryGrowsAtTheHead
<1>1. ASSUME RegisterInv, PastInv, [Next]_vars
      PROVE  [\A n \in notes' \ notes :
                \/ \E m \in notes : n = [m EXCEPT !.edited = TRUE]
                \/ \A m \in NotesOf(n.card, notes \cup gone) : m.id < n.id]_vars
  <2>1. CASE UNCHANGED vars
    BY <2>1
  <2>2. CASE Next
    <3>1. PICK r \in Requests : Arrive(r) \/ Statement(r) \/ Fail(r) \/ DeadlockVictim(r)
      BY <2>2 DEF Next
    <3>2. CASE Commit(r)
      BY <1>1, <3>2, CommitGrowsAtTheHead
    <3>3. CASE ~Commit(r)
      BY <3>1, <3>3, OnlyCommitsCount DEF Committed
    <3> QED  BY <3>2, <3>3
  <2> QED  BY <1>1, <2>1, <2>2
<1> QED  BY <1>1, RegisterInOrder, PastInductive, PTL DEF Spec, HistoryGrowsAtTheHead

\* A commit that adds a note is a status written over the state its writer saw.
LEMMA CommitAsSeen ==
  ASSUME RegisterInv, NEW r \in Requests, Commit(r),
         NEW n \in notes', \A m \in notes : m.id # n.id
  PROVE  /\ arg[r].route = "status" /\ arg[r].card = n.card
         /\ \/ card[n.card] = NoRow
            \/ card[n.card].status = arg[r].seen
<1>1. /\ pc[r] = "commit" /\ InOrder(r) /\ n \in tx[r].added
      /\ tx[r].erased \subseteq notes /\ notes \subseteq Note
  BY DEF Commit, RegisterInv, NotesAreLocked, TypeOK
<1>2. CASE arg[r].route = "status"
  BY <1>1, <1>2 DEF InOrder, StatusReady, AsSeen
<1>3. CASE arg[r].route = "edit"
  <2>1. PICK m \in tx[r].erased : n = [m EXCEPT !.edited = TRUE]
    BY <1>1, <1>3 DEF InOrder
  <2>2. m \in Note /\ m \in notes
    BY <1>1
  <2>3. n.id = m.id
    BY <2>1, <2>2 DEF Note
  <2> QED  BY <2>2, <2>3
<1>4. CASE arg[r].route \notin {"status", "edit"}
  BY <1>1, <1>4 DEF InOrder, Removal, OnlyReservations
<1> QED  BY <1>2, <1>3, <1>4

\* A status is never recorded over a state its writer did not name: the row is
\* locked from the conditional upsert to the commit (routeStatus).
THEOREM NobodyEverOverwritesUnread == Spec => NobodyOverwritesUnread
<1>1. ASSUME RegisterInv, [Next]_vars
      PROVE  [\A n \in notes' :
                (\A m \in notes : m.id # n.id) =>
                  \E r \in Requests :
                    /\ arg[r].route = "status" /\ arg[r].card = n.card
                    /\ \/ card[n.card] = NoRow
                       \/ card[n.card].status = arg[r].seen]_vars
  <2>1. CASE UNCHANGED vars
    BY <2>1
  <2>2. CASE Next
    <3>1. PICK r \in Requests : Arrive(r) \/ Statement(r) \/ Fail(r) \/ DeadlockVictim(r)
      BY <2>2 DEF Next
    <3>2. CASE Commit(r)
      BY <1>1, <3>2, CommitAsSeen
    <3>3. CASE ~Commit(r)
      BY <3>1, <3>3, OnlyCommitsCount DEF Committed
    <3> QED  BY <3>2, <3>3
  <2> QED  BY <1>1, <2>1, <2>2
<1> QED  BY <1>1, RegisterInOrder, PTL DEF Spec, NobodyOverwritesUnread

-----------------------------------------------------------------------------
\* A finite set of numbers that is not empty has a greatest one.
LEMMA GreatestOf ==
  ASSUME NEW B \in SUBSET Nat, IsFiniteSet(B), B # {}
  PROVE  \E m \in B : \A b \in B : b <= m
<1> DEFINE Above(c) == {d \in B : c < d}
           T == {Above(c) : c \in B}
<1>1. T # {} /\ T \subseteq FiniteSubsetsOf(B)
  <2>1. \A c \in B : Above(c) \subseteq B /\ IsFiniteSet(Above(c))
    BY FS_Subset
  <2> QED  BY <2>1 DEF FiniteSubsetsOf
<1>2. PICK x \in T : \A y \in T : ~ (<<y, x>> \in StrictSubsetOrdering(B))
  BY <1>1, FS_StrictSubsetOrderingWellFounded, WFMin
<1>3. PICK m \in B : x = Above(m)
  OBVIOUS
<1>4. ASSUME NEW b \in B, m < b PROVE FALSE
  <2>0. \A d \in B : b < d => m < d
    BY <1>4
  <2>1. Above(b) \in T /\ Above(b) \subseteq Above(m) /\ b \in Above(m) /\ b \notin Above(b)
    <3>1. ~(b < b) /\ m < b
      BY <1>4
    <3> QED  BY <2>0, <3>1
  <2>2. <<Above(b), x>> \in StrictSubsetOrdering(B)
    <3>1. Above(b) \in SUBSET B /\ x \in SUBSET B /\ Above(b) # x /\ Above(b) \subseteq x
      BY <1>3, <2>1
    <3> HIDE DEF Above, T
    <3>2. <<Above(b), x>> \in (SUBSET B) \X (SUBSET B)
      BY <3>1
    <3> QED  BY <3>1, <3>2 DEF StrictSubsetOrdering
  <2> QED  BY <1>2, <2>1, <2>2
<1> QED  BY <1>4

\* LIMIT k draws no more than k.
LEMMA BestIsLimited ==
  ASSUME NEW S \in SUBSET Cards, NEW k \in Nat
  PROVE  /\ Best(k, S) \subseteq S /\ IsFiniteSet(Best(k, S))
         /\ Cardinality(Best(k, S)) <= k
<1> DEFINE B == Best(k, S)
           Before(c) == {d \in S : d < c}
<1>1. B \subseteq S /\ B \subseteq Nat /\ IsFiniteSet(S) /\ IsFiniteSet(B)
  BY CardsAssumption, FS_Subset DEF Best
<1>2. CASE B = {}
  BY <1>1, <1>2, FS_EmptySet
<1>3. CASE B # {}
  <2>1. PICK m \in B : \A b \in B : b <= m
    BY <1>1, <1>3, GreatestOf
  <2>2. Cardinality(Before(m)) < k
    BY DEF Best
  <2>3. B \subseteq Before(m) \cup {m}
    BY <1>1, <2>1
  <2>4. IsFiniteSet(Before(m)) /\ Cardinality(Before(m)) \in Nat
    BY <1>1, FS_Subset, FS_CardinalityType
  <2>5. /\ IsFiniteSet(Before(m) \cup {m})
        /\ Cardinality(Before(m) \cup {m}) = Cardinality(Before(m)) + 1
    <3>1. m \notin Before(m)
      BY <1>1
    <3> HIDE DEF Before
    <3> QED  BY <2>4, <3>1, FS_AddElement
  <2>6. Cardinality(B) <= Cardinality(Before(m) \cup {m}) /\ Cardinality(B) \in Nat
    BY <1>1, <2>3, <2>5, FS_Subset, FS_CardinalityType
  <2> HIDE DEF B
  <2>7. Cardinality(B) <= k
    BY <2>2, <2>4, <2>5, <2>6
  <2> QED  BY <1>1, <2>7 DEF B
<1> QED  BY <1>1, <1>2, <1>3

-----------------------------------------------------------------------------
\* What the others' writes ask of r's, once its step is done.
WritesApart(r) ==
  /\ \A m, n \in tx'[r].added : m.id = n.id => m = n
  /\ \A n \in tx'[r].added : \A m \in notes : m.id = n.id => m \in tx'[r].erased
  /\ \A q \in Requests \ {r} :
       /\ \A n \in tx'[r].added : \A m \in tx[q].added : m.id # n.id
       /\ tx'[r].flipped \cap tx[q].flipped = {}

\* A step of r leaves the local state of the others alone.
Aside(r) ==
  \A q \in Requests \ {r} :
    pc'[q] = pc[q] /\ arg'[q] = arg[q] /\ work'[q] = work[q] /\ tx'[q] = tx[q]

\* A closing writes rows only once it has turned its account over.
LEMMA ReleasesAfterFlip ==
  ASSUME RegisterInv, NEW q \in Requests, arg[q].route = "toggle", Taken(q) # {}
  PROVE  HasFlipped(q)
<1>1. InOrder(q) /\ pc[q] \in Steps
  BY DEF RegisterInv, TypeOK
<1>2. pc[q] \notin Fresh
  BY <1>1 DEF InOrder, Taken, NoTx
<1>3. pc[q] \notin {"insert", "lockCard", "readHead", "restore", "draw", "take", "recount"}
  BY <1>1 DEF InOrder, RouteAt
<1> QED  BY <1>1, <1>2, <1>3 DEF HasFlipped, Steps, Fresh

\* What a request has written stays in keeping while its rows and its account do.
LEMMA StaysInKeeping ==
  ASSUME RegisterInv, NEW q \in Requests, InKeeping(q),
         pc'[q] = pc[q], arg'[q] = arg[q], work'[q] = work[q], tx'[q] = tx[q],
         \A c \in Taken(q) : card'[c] = card[c],
         HasFlipped(q) => active'[arg[q].target] = active[arg[q].target]
  PROVE  InKeeping(q)'
<1>1. Taken(q)' = Taken(q) /\ HasFlipped(q)' = HasFlipped(q)
  BY DEF Taken, HasFlipped
<1>2. \A c \in Taken(q) : RowInKeeping(q, c)'
  <2> SUFFICES ASSUME NEW c \in Taken(q) PROVE RowInKeeping(q, c)'
    OBVIOUS
  <2>1. RowInKeeping(q, c) /\ card'[c] = card[c]
    BY DEF InKeeping
  <2>2. arg[q].route = "toggle" => active'[arg[q].target] = active[arg[q].target]
    BY ReleasesAfterFlip
  <2> QED  BY <2>1, <2>2 DEF RowInKeeping, Available, Reservation, ReservedTo, Holder
<1>3. BatchInKeeping(q) => BatchInKeeping(q)'
  BY <1>1 DEF BatchInKeeping
<1>4. pc[q] \in {"sweep", "release"} => active'[arg[q].target]
  BY DEF InKeeping, HasFlipped
<1> QED  BY <1>1, <1>2, <1>3, <1>4 DEF InKeeping

\* A step that commits nothing keeps the invariant if its request's writes do.
LEMMA AsideKeeps ==
  ASSUME RegisterInv, KeepingInv, NEW r \in Requests, UNCHANGED Committed, Aside(r),
         WritesApart(r), InKeeping(r)'
  PROVE  KeepingInv'
<1>1. \A q \in Requests \ {r} : InKeeping(q)'
  BY StaysInKeeping DEF KeepingInv, Aside, Committed
<1>2. IdsAreUnique'
  BY DEF KeepingInv, IdsAreUnique, WritesApart, Aside, Committed
<1>3. FlipsAreLocked'
  BY DEF KeepingInv, FlipsAreLocked, WritesApart, Aside
<1> QED  BY <1>1, <1>2, <1>3 DEF KeepingInv

\* A request that writes nothing in a step is still in keeping after it, if the
\* place it goes to asks for nothing new.
LEMMA WaitsInKeeping ==
  ASSUME RegisterInv, KeepingInv, NEW r \in Requests, UNCHANGED Committed, Aside(r),
         arg'[r] = arg[r], tx'[r] = tx[r], HasFlipped(r)' = HasFlipped(r),
         pc'[r] \in {"sweep", "release"} => active[arg[r].target],
         arg[r].route = "batch" => BatchInKeeping(r)'
  PROVE  KeepingInv'
<1>1. InKeeping(r)
  BY DEF KeepingInv
<1>2. Taken(r)' = Taken(r)
  BY DEF Taken
<1>3. \A c \in Taken(r) : RowInKeeping(r, c)'
  <2> SUFFICES ASSUME NEW c \in Taken(r) PROVE RowInKeeping(r, c)'
    OBVIOUS
  <2>1. RowInKeeping(r, c) /\ card' = card /\ active' = active
    BY <1>1 DEF InKeeping, Committed
  <2> QED  BY <2>1 DEF RowInKeeping, Available, Reservation, ReservedTo, Holder
<1>4. InKeeping(r)'
  BY <1>1, <1>2, <1>3 DEF InKeeping, Committed
<1>5. WritesApart(r)
  BY DEF WritesApart, KeepingInv, IdsAreUnique, FlipsAreLocked
<1> QED  BY <1>4, <1>5, AsideKeeps

\* A request with nothing written has nothing to keep apart.
LEMMA NothingWritten ==
  ASSUME NEW r \in Requests, tx'[r] = NoTx
  PROVE  WritesApart(r) /\ Taken(r)' = {} /\ Cardinality(Taken(r)') = 0
<1>1. Taken(r)' = {}
  BY DEF Taken, NoTx
<1> QED  BY <1>1, FS_EmptySet DEF WritesApart, NoTx

\* Nor has it anything to keep, once it is over.
LEMMA EmptyHanded ==
  ASSUME NEW r \in Requests, pc'[r] = "idle", arg'[r] = NoArg, tx'[r] = NoTx
  PROVE  InKeeping(r)'
<1>1. Taken(r)' = {} /\ HasFlipped(r)' = FALSE
  BY NothingWritten DEF HasFlipped
<1>2. /\ arg'[r].route = "status" /\ tx'[r].added = {} /\ tx'[r].erased = {}
      /\ tx'[r].flipped = {}
  BY DEF NoArg, NoTx
<1> QED  BY <1>1, <1>2 DEF InKeeping

LEMMA RollbackInKeeping ==
  ASSUME RegisterInv, KeepingInv, NEW r \in Requests, Rollback(r)
  PROVE  KeepingInv'
<1>0. TypeOK
  BY DEF RegisterInv
<1>1. pc'[r] = "idle" /\ arg'[r] = NoArg /\ tx'[r] = NoTx /\ Aside(r) /\ UNCHANGED Committed
  BY <1>0 DEF Rollback, Close, Goto, TypeOK, Aside
<1>2. InKeeping(r)'
  BY <1>1, EmptyHanded
<1> QED  BY <1>1, <1>2, NothingWritten, AsideKeeps

LEMMA ArriveInKeeping ==
  ASSUME RegisterInv, KeepingInv, NEW r \in Requests, Arrive(r)
  PROVE  KeepingInv'
<1>0. TypeOK /\ InOrder(r)
  BY DEF RegisterInv
<1>1. ASSUME NEW who \in Accounts, NEW route, NEW step, NEW a, Begin(r, who, route, step, a),
             step \notin {"sweep", "release", "commit", "take"},
             a.route = "batch" => a.pool \in Pools,
             a.route = "toggle" => a.target \in Manages[a.who]
      PROVE  KeepingInv'
  <2>1. pc'[r] = step /\ arg'[r] = a /\ tx' = tx /\ Aside(r) /\ UNCHANGED Committed
    BY <1>0, <1>1 DEF Begin, Goto, TypeOK, Aside
  <2>2. tx'[r] = NoTx
    BY <1>0, <1>1, <2>1 DEF InOrder, Begin, Fresh
  <2>3. BatchSize \in Nat
    BY CardsAssumption
  <2>4. a.route = "batch" => BatchInKeeping(r)'
    <3>1. Cardinality(Taken(r)') = 0 /\ Cardinality(Taken(r))' = Cardinality(Taken(r)')
      BY <2>2, NothingWritten
    <3> QED  BY <1>1, <2>1, <2>3, <3>1 DEF BatchInKeeping
  <2>5. Taken(r)' = {}
    BY <2>2, NothingWritten
  <2>6. ~HasFlipped(r)'
    BY <1>1, <2>1 DEF HasFlipped
  <2>7. InKeeping(r)'
    BY <1>1, <2>1, <2>2, <2>4, <2>5, <2>6 DEF InKeeping, NoTx
  <2> QED  BY <2>1, <2>2, <2>7, NothingWritten, AsideKeeps
<1>2. CASE BeginStatus(r)
  <2>1. PICK who \in Accounts, c \in Cards, s \in Statuses, seen \in Statuses :
          Begin(r, who, "status", "upsert",
                [NoArg EXCEPT !.route = "status", !.who = who, !.card = c,
                              !.status = s, !.seen = seen])
    BY <1>2 DEF BeginStatus
  <2> DEFINE a == [NoArg EXCEPT !.route = "status", !.who = who, !.card = c,
                                !.status = s, !.seen = seen]
  <2>2. a.route = "status" /\ Begin(r, who, "status", "upsert", a)
    BY <2>1 DEF NoArg
  <2> HIDE DEF a
  <2> QED  BY <1>1, <2>2
<1>3. CASE BeginEdit(r)
  <2>1. PICK who \in Accounts, c \in Cards, id \in 1..(nextId - 1) :
          Begin(r, who, "edit", "edit",
                [NoArg EXCEPT !.route = "edit", !.who = who, !.card = c, !.note = id])
    BY <1>3 DEF BeginEdit
  <2> DEFINE a == [NoArg EXCEPT !.route = "edit", !.who = who, !.card = c, !.note = id]
  <2>2. a.route = "edit" /\ Begin(r, who, "edit", "edit", a)
    BY <2>1 DEF NoArg
  <2> HIDE DEF a
  <2> QED  BY <1>1, <2>2
<1>4. CASE BeginDelete(r)
  <2>1. PICK who \in Accounts, c \in Cards, id \in 1..(nextId - 1) :
          Begin(r, who, "delete", "erase",
                [NoArg EXCEPT !.route = "delete", !.who = who, !.card = c, !.note = id])
    BY <1>4 DEF BeginDelete
  <2> DEFINE a == [NoArg EXCEPT !.route = "delete", !.who = who, !.card = c, !.note = id]
  <2>2. a.route = "delete" /\ Begin(r, who, "delete", "erase", a)
    BY <2>1 DEF NoArg
  <2> HIDE DEF a
  <2> QED  BY <1>1, <2>2
<1>5. CASE BeginBatch(r)
  <2>1. PICK who \in Accounts, pool \in Pools :
          Begin(r, who, "batch", "draw",
                [NoArg EXCEPT !.route = "batch", !.who = who, !.pool = pool])
    BY <1>5 DEF BeginBatch
  <2> DEFINE a == [NoArg EXCEPT !.route = "batch", !.who = who, !.pool = pool]
  <2>2. a.route = "batch" /\ a.pool = pool /\ Begin(r, who, "batch", "draw", a)
    BY <2>1 DEF NoArg
  <2> HIDE DEF a
  <2> QED  BY <1>1, <2>2
<1>6. CASE BeginToggle(r)
  <2>1. PICK who \in Accounts : \E target \in Manages[who] \ {who} :
          Begin(r, who, "toggle", "flip",
                [NoArg EXCEPT !.route = "toggle", !.who = who, !.target = target])
    BY <1>6 DEF BeginToggle
  <2>2. PICK target \in Manages[who] \ {who} :
          Begin(r, who, "toggle", "flip",
                [NoArg EXCEPT !.route = "toggle", !.who = who, !.target = target])
    BY <2>1
  <2> DEFINE a == [NoArg EXCEPT !.route = "toggle", !.who = who, !.target = target]
  <2>3. /\ a.route = "toggle" /\ a.target = target /\ a.who = who
        /\ Begin(r, who, "toggle", "flip", a)
    BY <2>2 DEF NoArg
  <2> HIDE DEF a
  <2> QED  BY <1>1, <2>3
<1> QED  BY <1>2, <1>3, <1>4, <1>5, <1>6 DEF Arrive

\* The statements of a status, up to its commit.
LEMMA StatusInKeeping ==
  ASSUME RegisterInv, KeepingInv, NEW r \in Requests, Upsert(r) \/ InsertNote(r)
  PROVE  KeepingInv'
<1>0. TypeOK /\ InOrder(r) /\ InKeeping(r) /\ tx[r] \in Tx /\ arg[r] \in Args
  BY DEF RegisterInv, KeepingInv, TypeOK
<1>c. arg[r].card \in Cards
  BY <1>0 DEF Args
<1>1. CASE Rollback(r)
  BY <1>1, RollbackInKeeping
<1>2. CASE Upsert(r) /\ ~Rollback(r)
  <2> DEFINE c == arg[r].card
             row == [status |-> arg[r].status, by |-> TeamOf[arg[r].who],
                     volunteer |-> Holder(card[c])]
  <2>1. /\ pc[r] = "upsert" /\ WriteRow(r, c, row) /\ Goto(r, "insert")
        /\ UNCHANGED <<Committed, nextId, arg, work, begun>>
    BY <1>2 DEF Upsert
  <2>2. row.volunteer = Holder(card[c])
    OBVIOUS
  <2> HIDE DEF row
  <2>3. tx[r] = NoTx /\ arg[r].route = "status"
    BY <1>0, <2>1 DEF InOrder, Fresh, RouteAt
  <2>4. /\ tx'[r].added = {} /\ tx'[r].erased = {} /\ tx'[r].flipped = {}
        /\ tx'[r].rows = [NoTx.rows EXCEPT ![c] = row]
        /\ pc'[r] = "insert" /\ arg'[r] = arg[r] /\ Aside(r)
    BY <1>0, <2>1, <2>3 DEF WriteRow, NoTx, TypeOK, Goto, Aside
  <2>5. /\ tx'[r].rows[c] = row
        /\ \A d \in Cards \ {c} : tx'[r].rows[d] = NoRow
    BY <1>c, <2>4 DEF NoTx
  <2>6. \A d \in Taken(r)' : RowInKeeping(r, d)'
    BY <2>1, <2>2, <2>3, <2>4, <2>5 DEF Taken, RowInKeeping, Holder, Committed
  <2>7. InKeeping(r)'
    BY <2>3, <2>4, <2>6 DEF InKeeping, HasFlipped
  <2>8. WritesApart(r)
    BY <2>4 DEF WritesApart
  <2> QED  BY <2>1, <2>4, <2>7, <2>8, AsideKeeps
<1>3. CASE InsertNote(r)
  <2> DEFINE n == [id |-> nextId, card |-> arg[r].card, author |-> arg[r].who,
                   status |-> arg[r].status, edited |-> FALSE]
  <2>1. /\ pc[r] = "insert" /\ tx' = [tx EXCEPT ![r].added = {n}] /\ Goto(r, "commit")
        /\ UNCHANGED <<Committed, lock, arg, work, begun>>
    BY <1>3 DEF InsertNote
  <2>2. /\ n.id = nextId /\ n.author = arg[r].who /\ n.status = arg[r].status /\ ~n.edited
    OBVIOUS
  <2> HIDE DEF n
  <2>3. /\ tx'[r].added = {n} /\ tx'[r].erased = tx[r].erased /\ tx'[r].rows = tx[r].rows
        /\ tx'[r].flipped = tx[r].flipped
        /\ pc'[r] = "commit" /\ arg'[r] = arg[r] /\ card' = card /\ Aside(r)
    BY <1>0, <2>1 DEF TypeOK, Tx, Goto, Committed, Aside
  <2>4. arg[r].route = "status"
    BY <1>0, <2>1 DEF InOrder, RouteAt
  <2>5. Taken(r)' = Taken(r) /\ \A c \in Taken(r) : RowInKeeping(r, c)'
    BY <1>0, <2>3, <2>4 DEF Taken, InKeeping, RowInKeeping, Holder
  <2>6. InKeeping(r)'
    BY <1>0, <2>1, <2>2, <2>3, <2>4, <2>5 DEF InKeeping, HasFlipped
  <2>7. \A i \in Nat : i < nextId => i # nextId
    BY <1>0 DEF TypeOK
  <2>8. /\ notes \subseteq Note /\ \A q \in Requests : tx[q].added \subseteq Note
        /\ \A m \in Note : m.id \in Nat
    BY <1>0 DEF TypeOK, Tx, Note
  <2>9. \A m \in notes : m.id # n.id
    BY <2>2, <2>7, <2>8 DEF RegisterInv, IdsAreSpent
  <2>10. \A q \in Requests \ {r} : \A m \in tx[q].added : m.id # n.id
    BY <2>2, <2>7, <2>8 DEF RegisterInv, IdsAreSpent
  <2>11. WritesApart(r)
    BY <2>3, <2>9, <2>10 DEF WritesApart, KeepingInv, FlipsAreLocked
  <2> QED  BY <2>1, <2>3, <2>6, <2>11, AsideKeeps
<1> QED  BY <1>1, <1>2, <1>3

\* The statement of a correction, and the first of a removal: a note taken in
\* hand is the only one of its id, and nobody else's.
LEMMA EditInKeeping ==
  ASSUME RegisterInv, KeepingInv, NEW r \in Requests, EditNote(r)
  PROVE  KeepingInv'
<1>0. TypeOK /\ InOrder(r) /\ tx[r] \in Tx
  BY DEF RegisterInv, TypeOK
<1> DEFINE mine == {n \in notes : /\ n.id = arg[r].note /\ n.card = arg[r].card
                                  /\ n.author = arg[r].who}
           words == {[n EXCEPT !.edited = TRUE] : n \in mine}
<1>1. CASE Rollback(r)
  BY <1>1, RollbackInKeeping
<1>2. CASE ~Rollback(r)
  <2>1. /\ pc[r] = "edit" /\ NoteLockable(r, arg[r].note) /\ Goto(r, "commit")
        /\ tx' = [tx EXCEPT ![r].erased = mine, ![r].added = words]
        /\ UNCHANGED <<Committed, nextId, lock, arg, work, begun>>
    BY <1>2 DEF EditNote
  <2>2. tx[r] = NoTx /\ arg[r].route = "edit"
    BY <1>0, <2>1 DEF InOrder, Fresh, RouteAt
  <2>3. /\ mine \subseteq notes
        /\ \A n \in mine : n.id = arg[r].note /\ n.author = arg[r].who
    OBVIOUS
  <2>4. \A n \in words : \E m \in mine : n = [m EXCEPT !.edited = TRUE] /\ n.id = m.id
    <3> SUFFICES ASSUME NEW m \in mine PROVE [m EXCEPT !.edited = TRUE].id = m.id
      OBVIOUS
    <3>1. m \in Note
      BY <1>0 DEF TypeOK
    <3> QED  BY <3>1 DEF Note
  <2>5. \A m, n \in mine : m = n
    BY DEF KeepingInv, IdsAreUnique
  <2> HIDE DEF mine, words
  <2>6. /\ tx'[r].added = words /\ tx'[r].erased = mine /\ tx'[r].rows = NoTx.rows
        /\ tx'[r].flipped = {}
        /\ pc'[r] = "commit" /\ arg'[r] = arg[r] /\ Aside(r)
    BY <1>0, <2>1, <2>2 DEF TypeOK, Tx, Goto, Aside, NoTx
  <2>7. Taken(r)' = {}
    BY <2>6 DEF NoTx, Taken
  <2>8. InKeeping(r)'
    BY <2>2, <2>3, <2>6, <2>7 DEF InKeeping, HasFlipped
  <2>9. \A m, n \in words : m = n
    BY <2>4, <2>5
  <2>10. \A n \in words : \A m \in notes : m.id = n.id => m \in mine
    BY <2>3, <2>4 DEF KeepingInv, IdsAreUnique
  <2>11. \A q \in Requests \ {r} : \A n \in words : \A m \in tx[q].added : m.id # n.id
    <3> SUFFICES ASSUME NEW q \in Requests \ {r}, NEW n \in words, NEW m \in tx[q].added,
                        m.id = n.id
                 PROVE  FALSE
      OBVIOUS
    <3>1. PICK k \in mine : n.id = k.id
      BY <2>4
    <3>2. k \in tx[q].erased
      BY <2>3, <3>1 DEF KeepingInv, IdsAreUnique
    <3> QED  BY <2>1, <2>3, <3>1, <3>2 DEF NoteLockable
  <2>12. WritesApart(r)
    BY <2>6, <2>9, <2>10, <2>11 DEF WritesApart
  <2> QED  BY <2>1, <2>6, <2>8, <2>12, AsideKeeps
<1> QED  BY <1>1, <1>2

LEMMA DeleteInKeeping ==
  ASSUME RegisterInv, KeepingInv, NEW r \in Requests,
         EraseNote(r) \/ LockCard(r) \/ ReadHead(r) \/ RestoreHead(r)
  PROVE  KeepingInv'
<1>0. TypeOK /\ InOrder(r) /\ InKeeping(r) /\ tx[r] \in Tx /\ arg[r].card \in Cards
  BY DEF RegisterInv, KeepingInv, TypeOK, Args
<1>1. CASE Rollback(r)
  BY <1>1, RollbackInKeeping
<1>2. CASE EraseNote(r) /\ ~Rollback(r)
  <2> DEFINE found == {n \in notes :
                  /\ n.id = arg[r].note /\ n.card = arg[r].card
                  /\ arg[r].who \in Coordinators \/ n.author = arg[r].who}
  <2>1. /\ pc[r] = "erase" /\ Goto(r, "lockCard") /\ tx' = [tx EXCEPT ![r].erased = found]
        /\ UNCHANGED <<Committed, nextId, lock, arg, work, begun>>
    BY <1>2 DEF EraseNote
  <2>2. \A n \in found : /\ n.id = arg[r].note
                         /\ arg[r].who \in Coordinators \/ n.author = arg[r].who
    OBVIOUS
  <2> HIDE DEF found
  <2>3. tx[r] = NoTx /\ arg[r].route = "delete"
    BY <1>0, <2>1 DEF InOrder, Fresh, RouteAt
  <2>4. /\ tx'[r].added = {} /\ tx'[r].erased = found /\ tx'[r].rows = NoTx.rows
        /\ tx'[r].flipped = {}
        /\ pc'[r] = "lockCard" /\ arg'[r] = arg[r] /\ Aside(r)
    BY <1>0, <2>1, <2>3 DEF TypeOK, Tx, Goto, NoTx, Aside
  <2>5. Taken(r)' = {}
    BY <2>4 DEF Taken, NoTx
  <2>6. InKeeping(r)'
    BY <2>2, <2>3, <2>4, <2>5 DEF InKeeping, HasFlipped
  <2>7. WritesApart(r)
    BY <2>4 DEF WritesApart
  <2> QED  BY <2>1, <2>4, <2>6, <2>7, AsideKeeps
<1>3. CASE LockCard(r) \/ ReadHead(r)
  <2>1. /\ pc[r] \in {"lockCard", "readHead"} /\ pc'[r] \in {"readHead", "restore"}
        /\ arg'[r] = arg[r] /\ tx'[r] = tx[r] /\ Aside(r) /\ UNCHANGED Committed
    BY <1>0, <1>3 DEF LockCard, ReadHead, Goto, TypeOK, Aside
  <2>2. HasFlipped(r)' = HasFlipped(r)
    BY <2>1 DEF HasFlipped
  <2>3. arg[r].route = "delete"
    BY <1>0, <2>1 DEF InOrder, RouteAt
  <2> QED  BY <2>1, <2>2, <2>3, WaitsInKeeping
<1>4. CASE RestoreHead(r)
  <2> DEFINE c == arg[r].card
             row == [card[c] EXCEPT !.status = work[r].head.status, !.by = work[r].head.by]
  <2>1. /\ pc[r] = "restore" /\ Removal(r) /\ NoRowWritten(r) /\ arg[r].route = "delete"
    BY <1>0, <1>4 DEF RestoreHead, InOrder, RouteAt
  <2>2. card[c] \in Row /\ card[c] # NoRow
    BY <2>1, RemovalHasARow, CardsAssumption
  <2>3. /\ WriteRow(r, c, row) /\ Goto(r, "commit")
        /\ UNCHANGED <<Committed, nextId, arg, work, begun>>
    BY <1>4, <2>2 DEF RestoreHead
  <2>4. row = [card[c] EXCEPT !.status = row.status, !.by = row.by]
    BY <2>2 DEF Row
  <2> HIDE DEF row
  <2>5. /\ tx'[r].added = tx[r].added /\ tx'[r].erased = tx[r].erased
        /\ tx'[r].flipped = tx[r].flipped
        /\ tx'[r].rows = [tx[r].rows EXCEPT ![c] = row]
        /\ pc'[r] = "commit" /\ arg'[r] = arg[r] /\ card' = card /\ Aside(r)
    BY <1>0, <2>3 DEF WriteRow, TypeOK, Tx, Goto, Committed, Aside
  <2>6. /\ tx'[r].rows[c] = row /\ \A d \in Cards \ {c} : tx'[r].rows[d] = NoRow
    BY <1>0, <2>1, <2>5 DEF Tx, NoRowWritten
  <2>7. \A d \in Taken(r)' : RowInKeeping(r, d)'
    BY <2>1, <2>2, <2>4, <2>5, <2>6 DEF Taken, RowInKeeping
  <2>8. InKeeping(r)'
    BY <1>0, <2>1, <2>5, <2>7 DEF InKeeping, HasFlipped
  <2>9. WritesApart(r)
    BY <2>5 DEF WritesApart, KeepingInv, IdsAreUnique, FlipsAreLocked
  <2> QED  BY <2>3, <2>5, <2>8, <2>9, AsideKeeps
<1> QED  BY <1>1, <1>2, <1>3, <1>4

\* The statements of a batch: what it has drawn and what it is about to take
\* are together within the batch, and a row is counted only if it was free.
LEMMA BatchInKeepingNext ==
  ASSUME RegisterInv, KeepingInv, NEW r \in Requests,
         Draw(r) \/ TakeCard(r) \/ Recount(r)
  PROVE  KeepingInv'
<1>0. /\ TypeOK /\ InOrder(r) /\ InKeeping(r) /\ arg[r] \in Args /\ work[r] \in Work
      /\ tx[r] \in Tx
  BY DEF RegisterInv, KeepingInv, TypeOK
<1>1. /\ arg[r].route = "batch" /\ BatchInKeeping(r) /\ UNCHANGED <<Committed, arg>>
      /\ Aside(r) /\ pc'[r] \in {"draw", "take", "recount", "commit"}
  <2>1. arg[r].route = "batch"
    BY <1>0 DEF Draw, TakeCard, Recount, InOrder, RouteAt
  <2>2. CASE Draw(r)
    BY <1>0, <2>1, <2>2 DEF Draw, Goto, TypeOK, Aside, InKeeping
  <2>3. CASE TakeCard(r)
    <3>1. UNCHANGED <<Committed, arg>>
      BY <2>3 DEF TakeCard
    <3>2. /\ \A q \in Requests \ {r} : pc'[q] = pc[q] /\ work'[q] = work[q]
          /\ pc'[r] \in {"draw", "take", "recount"}
      BY <1>0, <2>3 DEF TakeCard, Goto, TypeOK
    <3>3. \A q \in Requests \ {r} : tx'[q] = tx[q]
      BY <1>0, <2>3 DEF TakeCard, WriteRow, TypeOK
    <3> QED  BY <1>0, <2>1, <3>1, <3>2, <3>3 DEF Aside, InKeeping
  <2>4. CASE Recount(r)
    BY <1>0, <2>1, <2>4 DEF Recount, Goto, TypeOK, Aside, InKeeping
  <2> QED  BY <2>2, <2>3, <2>4
<1>2. pc[r] \in {"draw", "take", "recount"} /\ ~HasFlipped(r) /\ ~HasFlipped(r)'
  BY <1>1 DEF Draw, TakeCard, Recount, HasFlipped
<1>w. ASSUME tx' = tx, BatchInKeeping(r)' PROVE KeepingInv'
  <2>1. /\ arg'[r] = arg[r] /\ tx'[r] = tx[r] /\ pc'[r] \notin {"sweep", "release"}
        /\ HasFlipped(r) = FALSE /\ HasFlipped(r)' = FALSE
    BY <1>1, <1>2, <1>w DEF HasFlipped
  <2> QED  BY <1>1, <1>w, <2>1, WaitsInKeeping
<1>3. /\ arg[r].pool \subseteq Cards /\ Taken(r) \subseteq Cards
      /\ IsFiniteSet(Taken(r)) /\ Cardinality(Taken(r)) \in Nat
  <2>1. arg[r].pool \subseteq Cards /\ Taken(r) \subseteq Cards
    BY <1>0 DEF Args, Taken
  <2> QED  BY <2>1, CardsAssumption, FS_Subset, FS_CardinalityType
<1>4. CASE Draw(r)
  <2> DEFINE lacking == BatchSize - Cardinality(Taken(r))
             free == {c \in arg[r].pool : Available(Sees(r, c))}
             drawn == Best(lacking, free)
  <2>1. tx' = tx /\ Taken(r)' = Taken(r)
    BY <1>4 DEF Draw, Taken
  <2>2. CASE pc'[r] = "take"
    <3>1. lacking > 0 /\ work' = [work EXCEPT ![r].round = @ + 1, ![r].won = FALSE, ![r].todo = drawn]
      BY <1>0, <1>4, <2>2 DEF Draw, Goto, TypeOK
    <3>2. lacking \in Nat
      BY <1>3, <3>1, CardsAssumption
    <3>3. drawn \subseteq free /\ IsFiniteSet(drawn) /\ Cardinality(drawn) <= lacking
      <4>1. free \in SUBSET Cards
        BY <1>3
      <4> HIDE DEF free, lacking
      <4> QED  BY <3>2, <4>1, BestIsLimited
    <3>4. Cardinality(drawn) \in Nat
      BY <3>3, FS_CardinalityType
    <3>5. drawn \subseteq arg[r].pool
      BY <3>3
    <3>6. Cardinality(Taken(r)) + Cardinality(drawn) <= BatchSize
      <4> HIDE DEF drawn
      <4> QED  BY <1>3, <3>3, <3>4, CardsAssumption
    <3>7. work'[r].todo = drawn
      <4> HIDE DEF drawn
      <4> QED  BY <1>0, <3>1 DEF TypeOK, Work
    <3>8. BatchInKeeping(r)'
      <4> HIDE DEF drawn
      <4> QED  BY <1>1, <2>1, <3>5, <3>6, <3>7 DEF BatchInKeeping
    <3> QED  BY <1>w, <2>1, <3>8
  <2>3. CASE pc'[r] # "take"
    <3>1. BatchInKeeping(r)'
      BY <1>1, <2>1, <2>3 DEF BatchInKeeping
    <3> QED  BY <1>w, <2>1, <3>1
  <2> QED  BY <2>2, <2>3
<1>5. CASE Recount(r)
  <2>1. tx' = tx /\ Taken(r)' = Taken(r) /\ pc'[r] # "take"
    BY <1>0, <1>5 DEF Recount, Taken, Goto, TypeOK
  <2>2. BatchInKeeping(r)'
    BY <1>1, <2>1 DEF BatchInKeeping
  <2> QED  BY <1>w, <2>1, <2>2
<1>6. CASE TakeCard(r)
  <2>1. PICK d \in work[r].todo :
          /\ IF Available(Sees(r, d)) THEN WriteRow(r, d, Reservation(card[d], arg[r].who))
                                      ELSE UNCHANGED tx
          /\ work' = [work EXCEPT ![r].todo = work[r].todo \ {d},
                                  ![r].won = @ \/ Available(Sees(r, d))]
    BY <1>6 DEF TakeCard, Reservation
  <2>2. pc[r] = "take" /\ d \in Cards /\ d \in arg[r].pool /\ arg[r].who \in Accounts
    BY <1>0, <1>1, <1>6 DEF TakeCard, Work, BatchInKeeping, Args
  <2>3. /\ work[r].todo \subseteq arg[r].pool /\ work'[r].todo = work[r].todo \ {d}
        /\ Cardinality(Taken(r)) + Cardinality(work[r].todo) <= BatchSize
    <3>1. work'[r].todo = work[r].todo \ {d}
      BY <1>0, <2>1 DEF TypeOK, Work
    <3> QED  BY <1>1, <2>2, <3>1 DEF BatchInKeeping
  <2>4. /\ IsFiniteSet(work[r].todo) /\ Cardinality(work[r].todo) \in Nat
        /\ Cardinality(work[r].todo \ {d}) = Cardinality(work[r].todo) - 1
        /\ Cardinality(work[r].todo \ {d}) \in Nat
    <3> DEFINE todo == work[r].todo
    <3>1. todo \subseteq Cards /\ d \in todo
      BY <1>3, <2>1, <2>3
    <3> HIDE DEF todo
    <3>2. IsFiniteSet(todo)
      BY <3>1, CardsAssumption, FS_Subset
    <3>3. Cardinality(todo \ {d}) = Cardinality(todo) - 1
      BY <3>1, <3>2, FS_RemoveElement
    <3>4. IsFiniteSet(todo \ {d})
      BY <3>2, FS_Subset
    <3>5. Cardinality(todo) \in Nat /\ Cardinality(todo \ {d}) \in Nat
      BY <3>2, <3>4, FS_CardinalityType
    <3> QED  BY <3>2, <3>3, <3>5 DEF todo
  <2>5. CASE ~Available(Sees(r, d))
    <3>1. tx' = tx /\ Taken(r)' = Taken(r)
      BY <2>1, <2>5 DEF Taken
    <3>2. Cardinality(Taken(r)) + Cardinality(work[r].todo \ {d}) <= BatchSize
      BY <1>3, <2>3, <2>4, CardsAssumption
    <3>3. BatchInKeeping(r)'
      BY <1>1, <2>3, <3>1, <3>2 DEF BatchInKeeping
    <3> QED  BY <1>w, <3>1, <3>3
  <2>6. CASE Available(Sees(r, d))
    <3> DEFINE row == Reservation(card[d], arg[r].who)
    <3>1. tx[r].rows[d] = NoRow /\ Available(card[d])
      <4>1. CASE tx[r].rows[d] = NoRow
        BY <2>6, <4>1 DEF Sees
      <4>2. CASE tx[r].rows[d] # NoRow
        <5>1. tx[r].rows[d] = Reservation(card[d], arg[r].who)
          BY <1>0, <1>1, <2>2, <4>2 DEF InKeeping, Taken, RowInKeeping
        <5>2. Reservation(card[d], arg[r].who).volunteer = arg[r].who
          BY <1>0, <2>2 DEF Reservation, TypeOK, Row
        <5>3. arg[r].who # NoOne
          BY <2>2, CardsAssumption
        <5> QED  BY <2>6, <4>2, <5>1, <5>2, <5>3 DEF Sees, Available
      <4> QED  BY <4>1, <4>2
    <3>2. WriteRow(r, d, row)
      BY <2>1, <2>6
    <3> HIDE DEF row
    <3>3. /\ tx'[r].added = tx[r].added /\ tx'[r].erased = tx[r].erased
          /\ tx'[r].flipped = tx[r].flipped
          /\ tx'[r].rows = [tx[r].rows EXCEPT ![d] = row]
      BY <1>0, <3>2 DEF WriteRow, TypeOK, Tx
    <3>4. tx'[r].rows[d] = row /\ \A e \in Cards \ {d} : tx'[r].rows[e] = tx[r].rows[e]
      BY <1>0, <2>2, <3>3 DEF Tx
    <3>5. Taken(r)' \subseteq Taken(r) \cup {d}
      BY <3>4 DEF Taken
    <3>6. Cardinality(Taken(r)') <= Cardinality(Taken(r)) + 1 /\ Cardinality(Taken(r)') \in Nat
      <4>1. /\ IsFiniteSet(Taken(r) \cup {d})
            /\ Cardinality(Taken(r) \cup {d}) <= Cardinality(Taken(r)) + 1
            /\ Cardinality(Taken(r) \cup {d}) \in Nat
        BY <1>3, FS_AddElement, FS_CardinalityType
      <4>2. /\ IsFiniteSet(Taken(r)')
            /\ Cardinality(Taken(r)') <= Cardinality(Taken(r) \cup {d})
        BY <3>5, <4>1, FS_Subset
      <4>3. Cardinality(Taken(r)') \in Nat
        BY <4>2, FS_CardinalityType
      <4> QED  BY <1>3, <4>1, <4>2, <4>3
    <3>7. /\ Cardinality(Taken(r)') + Cardinality(work[r].todo \ {d}) <= BatchSize
          /\ Cardinality(Taken(r)') <= BatchSize
      BY <1>3, <2>3, <2>4, <3>6, CardsAssumption
    <3>8. BatchInKeeping(r)'
      <4>1. Cardinality(Taken(r))' = Cardinality(Taken(r)')
        OBVIOUS
      <4> QED  BY <1>1, <2>3, <3>7, <4>1 DEF BatchInKeeping
    <3>9. \A c \in Taken(r)' : RowInKeeping(r, c)'
      <4> SUFFICES ASSUME NEW c \in Taken(r)' PROVE RowInKeeping(r, c)'
        OBVIOUS
      <4>1. CASE c = d
        BY <1>1, <2>2, <3>1, <3>4, <4>1 DEF RowInKeeping, Available, Reservation, Committed, row
      <4>2. CASE c # d
        <5>1. c \in Taken(r) /\ tx'[r].rows[c] = tx[r].rows[c]
          BY <3>4, <4>2 DEF Taken
        <5>2. RowInKeeping(r, c)
          BY <1>0, <5>1 DEF InKeeping
        <5> QED  BY <1>1, <5>1, <5>2 DEF RowInKeeping, Available, Reservation, Committed
      <4> QED  BY <4>1, <4>2
    <3>10. InKeeping(r)'
      BY <1>0, <1>1, <1>2, <3>3, <3>8, <3>9 DEF InKeeping
    <3>11. WritesApart(r)
      BY <3>3 DEF WritesApart, KeepingInv, IdsAreUnique, FlipsAreLocked
    <3> QED  BY <1>1, <3>10, <3>11, AsideKeeps
  <2> QED  BY <2>5, <2>6
<1> QED  BY <1>4, <1>5, <1>6

\* The statements of a closing: the account is one request's from its UPDATE on,
\* and a card is given back only if it still is its target's, untouched.
LEMMA ToggleInKeeping ==
  ASSUME RegisterInv, KeepingInv, NEW r \in Requests, Flip(r) \/ Sweep(r) \/ ReleaseCard(r)
  PROVE  KeepingInv'
<1>0. /\ TypeOK /\ InOrder(r) /\ InKeeping(r) /\ tx[r] \in Tx /\ work[r] \in Work
      /\ arg[r] \in Args
  BY DEF RegisterInv, KeepingInv, TypeOK
<1> DEFINE a == arg[r].target
<1>1. arg[r].route = "toggle" /\ UNCHANGED <<Committed, arg>>
  BY <1>0 DEF Flip, Sweep, ReleaseCard, InOrder, RouteAt
<1>2. Aside(r)
  <2>1. CASE Flip(r)
    BY <1>0, <2>1 DEF Flip, Goto, TypeOK, Aside
  <2>2. CASE Sweep(r)
    BY <1>0, <2>2 DEF Sweep, Goto, TypeOK, Aside
  <2>3. CASE ReleaseCard(r)
    BY <1>0, <2>3 DEF ReleaseCard, WriteRow, Goto, TypeOK, Aside
  <2> QED  BY <2>1, <2>2, <2>3
<1>3. CASE Flip(r)
  <2>1. /\ pc[r] = "flip" /\ tx' = [tx EXCEPT ![r].flipped = {a}] /\ AccountLockable(r, a)
        /\ pc'[r] = IF active[a] THEN "sweep" ELSE "commit"
    BY <1>0, <1>3 DEF Flip, Goto, TypeOK
  <2>2. tx[r] = NoTx
    BY <1>0, <2>1 DEF InOrder, Fresh
  <2>3. /\ tx'[r].added = {} /\ tx'[r].erased = {} /\ tx'[r].rows = NoTx.rows
        /\ tx'[r].flipped = {a}
    BY <1>0, <2>1, <2>2 DEF TypeOK, Tx, NoTx
  <2>4. Taken(r)' = {} /\ HasFlipped(r)'
    BY <1>1, <2>1, <2>3 DEF Taken, NoTx, HasFlipped
  <2>5. InKeeping(r)'
    BY <1>0, <1>1, <2>1, <2>3, <2>4 DEF InKeeping, Committed
  <2>6. WritesApart(r)
    BY <2>1, <2>3 DEF WritesApart, AccountLockable
  <2> QED  BY <1>1, <1>2, <2>5, <2>6, AsideKeeps
<1>4. CASE Sweep(r)
  <2>1. tx' = tx /\ pc[r] = "sweep" /\ pc'[r] \in {"release", "commit"}
    BY <1>0, <1>4 DEF Sweep, Goto, TypeOK
  <2>2. HasFlipped(r) = TRUE /\ HasFlipped(r)' = TRUE /\ active[a]
    BY <1>0, <1>1, <2>1 DEF HasFlipped, InKeeping
  <2> QED  BY <1>1, <1>2, <2>1, <2>2, WaitsInKeeping
<1>5. CASE ReleaseCard(r)
  <2> DEFINE d == work[r].next
             freed == [card[d] EXCEPT !.volunteer = NoOne]
  <2>1. d \in Cards /\ pc[r] = "release" /\ pc'[r] \in {"release", "commit"}
    BY <1>0, <1>5 DEF ReleaseCard, Work, Goto, TypeOK
  <2>2. HasFlipped(r) = TRUE /\ HasFlipped(r)' = TRUE /\ active[a]
    BY <1>0, <1>1, <2>1 DEF HasFlipped, InKeeping
  <2>3. CASE ~ReservedTo(card[d], a)
    <3>1. tx' = tx
      BY <1>5, <2>3 DEF ReleaseCard
    <3> QED  BY <1>1, <1>2, <2>2, <3>1, WaitsInKeeping
  <2>4. CASE ReservedTo(card[d], a)
    <3>1. WriteRow(r, d, freed)
      BY <1>5, <2>4 DEF ReleaseCard
    <3>2. freed = [card[d] EXCEPT !.volunteer = NoOne]
      OBVIOUS
    <3> HIDE DEF freed
    <3>3. /\ tx'[r].added = tx[r].added /\ tx'[r].erased = tx[r].erased
          /\ tx'[r].flipped = tx[r].flipped
          /\ tx'[r].rows = [tx[r].rows EXCEPT ![d] = freed]
      BY <1>0, <3>1 DEF WriteRow, TypeOK, Tx
    <3>4. tx'[r].rows[d] = freed /\ \A e \in Cards \ {d} : tx'[r].rows[e] = tx[r].rows[e]
      BY <1>0, <2>1, <3>3 DEF Tx
    <3>5. \A c \in Taken(r)' : RowInKeeping(r, c)'
      <4> SUFFICES ASSUME NEW c \in Taken(r)' PROVE RowInKeeping(r, c)'
        OBVIOUS
      <4>1. CASE c = d
        BY <1>1, <2>2, <2>4, <3>2, <3>4, <4>1 DEF RowInKeeping, ReservedTo, Committed
      <4>2. CASE c # d
        <5>1. c \in Taken(r) /\ tx'[r].rows[c] = tx[r].rows[c]
          BY <3>4, <4>2 DEF Taken
        <5>2. RowInKeeping(r, c)
          BY <1>0, <5>1 DEF InKeeping
        <5> QED  BY <1>1, <5>1, <5>2 DEF RowInKeeping, ReservedTo, Committed
      <4> QED  BY <4>1, <4>2
    <3>6. InKeeping(r)'
      BY <1>0, <1>1, <2>2, <3>3, <3>5 DEF InKeeping, Committed
    <3>7. WritesApart(r)
      BY <3>3 DEF WritesApart, KeepingInv, IdsAreUnique, FlipsAreLocked
    <3> QED  BY <1>1, <1>2, <3>6, <3>7, AsideKeeps
  <2> QED  BY <2>3, <2>4
<1> QED  BY <1>3, <1>4, <1>5

\* A commit gives back what its request had locked, and only that: what the
\* others have written stays in keeping with rows and accounts nobody touched.
LEMMA CommitInKeeping ==
  ASSUME RegisterInv, KeepingInv, NEW r \in Requests, Commit(r)
  PROVE  KeepingInv'
<1>0. /\ TypeOK /\ RowsAreLocked
      /\ pc'[r] = "idle" /\ arg'[r] = NoArg /\ tx'[r] = NoTx /\ Aside(r)
      /\ notes' = (notes \ tx[r].erased) \cup tx[r].added
  BY DEF RegisterInv, Commit, Close, Goto, TypeOK, Aside
<1>1. InKeeping(r)'
  BY <1>0, EmptyHanded
<1>2. \A q \in Requests \ {r} : InKeeping(q)'
  <2> SUFFICES ASSUME NEW q \in Requests \ {r} PROVE InKeeping(q)'
    OBVIOUS
  <2>1. InKeeping(q) /\ arg[q].target \in Accounts
    BY <1>0 DEF KeepingInv, TypeOK, Args
  <2>2. \A c \in Taken(q) : card'[c] = card[c]
    <3> SUFFICES ASSUME NEW c \in Taken(q) PROVE card'[c] = card[c]
      OBVIOUS
    <3>1. c \in Cards /\ tx[r].rows[c] = NoRow
      BY <1>0 DEF Taken, RowsAreLocked
    <3> QED  BY <3>1, CommitElsewhere
  <2>3. HasFlipped(q) => active'[arg[q].target] = active[arg[q].target]
    <3> SUFFICES ASSUME HasFlipped(q)
                 PROVE  active'[arg[q].target] = active[arg[q].target]
      OBVIOUS
    <3>1. arg[q].target \in tx[q].flipped
      BY <2>1 DEF InKeeping
    <3>2. arg[q].target \notin tx[r].flipped
      BY <3>1 DEF KeepingInv, FlipsAreLocked
    <3> QED  BY <2>1, <3>2 DEF Commit
  <2>4. pc'[q] = pc[q] /\ arg'[q] = arg[q] /\ work'[q] = work[q] /\ tx'[q] = tx[q]
    BY <1>0 DEF Aside
  <2> QED  BY <2>1, <2>2, <2>3, <2>4, StaysInKeeping
<1>3. IdsAreUnique'
  <2>1. \A m, n \in notes' : m.id = n.id => m = n
    BY <1>0 DEF KeepingInv, IdsAreUnique
  <2>2. ASSUME NEW q \in Requests
        PROVE  /\ \A m, n \in tx'[q].added : m.id = n.id => m = n
               /\ \A n \in tx'[q].added : \A m \in notes' : m.id = n.id => m \in tx'[q].erased
               /\ \A p \in Requests \ {q} :
                    \A n \in tx'[q].added : \A m \in tx'[p].added : m.id # n.id
    <3>1. CASE q = r
      BY <1>0, <3>1 DEF NoTx
    <3>2. CASE q # r
      <4>1. tx'[q] = tx[q]
        BY <1>0, <3>2 DEF Aside
      <4>2. \A n \in tx[q].added : \A m \in tx[r].added : m.id # n.id
        BY <3>2 DEF KeepingInv, IdsAreUnique
      <4>3. /\ \A m, n \in tx[q].added : m.id = n.id => m = n
            /\ \A n \in tx[q].added : \A m \in notes : m.id = n.id => m \in tx[q].erased
        BY DEF KeepingInv, IdsAreUnique
      <4>4. ASSUME NEW p \in Requests \ {q}
            PROVE  \A n \in tx'[q].added : \A m \in tx'[p].added : m.id # n.id
        <5>1. CASE p = r
          BY <1>0, <5>1 DEF NoTx
        <5>2. CASE p # r
          <6>1. tx'[p] = tx[p]
            BY <1>0, <5>2 DEF Aside
          <6> QED  BY <4>1, <6>1 DEF KeepingInv, IdsAreUnique
        <5> QED  BY <5>1, <5>2
      <4> QED  BY <1>0, <4>1, <4>2, <4>3, <4>4
    <3> QED  BY <3>1, <3>2
  <2> QED  BY <2>1, <2>2 DEF IdsAreUnique
<1>4. FlipsAreLocked'
  <2> SUFFICES ASSUME NEW q \in Requests, NEW p \in Requests \ {q}
               PROVE  tx'[q].flipped \cap tx'[p].flipped = {}
    BY DEF FlipsAreLocked
  <2>1. CASE q = r \/ p = r
    BY <1>0, <2>1 DEF NoTx
  <2>2. CASE q # r /\ p # r
    BY <1>0, <2>2 DEF Aside, KeepingInv, FlipsAreLocked
  <2> QED  BY <2>1, <2>2
<1> QED  BY <1>1, <1>2, <1>3, <1>4 DEF KeepingInv

\* Every step keeps what the requests have written in keeping.
LEMMA KeepingInductive ==
  /\ Init => KeepingInv
  /\ RegisterInv /\ KeepingInv /\ [Next]_vars => KeepingInv'
<1>1. ASSUME Init PROVE KeepingInv
  <2>1. \A r \in Requests : pc[r] = "idle" /\ arg[r] = NoArg /\ tx[r] = NoTx
    BY <1>1 DEF Init
  <2>2. \A r \in Requests : InKeeping(r)
    BY <2>1 DEF InKeeping, HasFlipped, NoArg, NoTx, Taken
  <2> QED  BY <1>1, <2>1, <2>2 DEF Init, KeepingInv, IdsAreUnique, FlipsAreLocked, NoTx
<1>2. ASSUME RegisterInv, KeepingInv, [Next]_vars PROVE KeepingInv'
  <2>1. CASE UNCHANGED vars
    <3>1. ASSUME NEW r \in Requests PROVE InKeeping(r)'
      BY <1>2, <2>1, StaysInKeeping DEF vars, KeepingInv
    <3>2. IdsAreUnique' /\ FlipsAreLocked'
      BY <1>2, <2>1 DEF vars, KeepingInv, IdsAreUnique, FlipsAreLocked
    <3> QED  BY <3>1, <3>2 DEF KeepingInv
  <2>2. CASE Next
    <3>1. PICK r \in Requests : Arrive(r) \/ Statement(r) \/ Fail(r) \/ DeadlockVictim(r)
      BY <2>2 DEF Next
    <3>2. CASE Arrive(r)
      BY <1>2, <3>2, ArriveInKeeping
    <3>3. CASE Statement(r)
      BY <1>2, <3>3, StatusInKeeping, EditInKeeping, DeleteInKeeping,
         BatchInKeepingNext, ToggleInKeeping, CommitInKeeping DEF Statement
    <3>4. CASE Fail(r) \/ DeadlockVictim(r)
      BY <1>2, <3>4, RollbackInKeeping DEF Fail, DeadlockVictim
    <3> QED  BY <3>1, <3>2, <3>3, <3>4
  <2> QED  BY <1>2, <2>1, <2>2
<1> QED  BY <1>1, <1>2

\* What a request has written is what its route makes of the committed rows, for
\* every list, campaign and number of concurrent requests.
THEOREM KeepingInOrder == Spec => []KeepingInv
BY KeepingInductive, RegisterInOrder, PTL DEF Spec

\* A batch keeps its promise whoever draws, closes accounts or writes statuses
\* at the same time: what it counts as taken is free until it commits, and never
\* more than the batch (routeBatch).
THEOREM BatchesKeepTheirPromise == Spec => []BatchKeepsItsPromise
<1>1. ASSUME RegisterInv, KeepingInv PROVE BatchKeepsItsPromise
  <2> SUFFICES ASSUME NEW r \in Requests, arg[r].route = "batch"
               PROVE  /\ work[r].round <= MaxBatchRounds
                      /\ Cardinality(Taken(r)) <= BatchSize
                      /\ Taken(r) \subseteq arg[r].pool
                      /\ \A c \in Taken(r) : Available(card[c])
    BY DEF BatchKeepsItsPromise
  <2>1. InKeeping(r) /\ work[r] \in Work
    BY <1>1 DEF KeepingInv, RegisterInv, TypeOK
  <2>2. work[r].round <= MaxBatchRounds
    BY <2>1, CardsAssumption DEF Work
  <2>3. Cardinality(Taken(r)) <= BatchSize
    BY <2>1 DEF InKeeping, BatchInKeeping
  <2>4. \A c \in Taken(r) : c \in arg[r].pool /\ Available(card[c])
    BY <2>1 DEF InKeeping, RowInKeeping
  <2> QED  BY <2>2, <2>3, <2>4
<1> QED  BY <1>1, RegisterInOrder, KeepingInOrder, PTL

\* What a commit makes of the rows of one card and of the accounts.
LEMMA CommitOfARow ==
  ASSUME RegisterInv, KeepingInv, NEW r \in Requests, Commit(r)
  PROVE  /\ pc[r] = "commit" /\ InOrder(r) /\ InKeeping(r)
         /\ tx[r] \in Tx /\ arg[r] \in Args /\ tx[r].erased \subseteq notes /\ notes \subseteq Note
         /\ notes' = (notes \ tx[r].erased) \cup tx[r].added
         /\ card \in [Cards -> Row \cup {NoRow}] /\ card' = [c \in Cards |-> Sees(r, c)]
         /\ tx[r].flipped = IF arg[r].route = "toggle" THEN {arg[r].target} ELSE {}
         /\ arg[r].route # "toggle" => active' = active
         /\ arg[r].route = "toggle" =>
              active' = [active EXCEPT ![arg[r].target] = ~active[arg[r].target]]
<1>1. /\ pc[r] = "commit" /\ InOrder(r) /\ InKeeping(r) /\ active \in [Accounts -> BOOLEAN]
      /\ tx[r] \in Tx /\ arg[r] \in Args /\ tx[r].erased \subseteq notes /\ notes \subseteq Note
      /\ notes' = (notes \ tx[r].erased) \cup tx[r].added
      /\ card \in [Cards -> Row \cup {NoRow}] /\ card' = [c \in Cards |-> Sees(r, c)]
      /\ active' = [a \in Accounts |-> IF a \in tx[r].flipped THEN ~active[a] ELSE active[a]]
  BY DEF Commit, RegisterInv, KeepingInv, NotesAreLocked, TypeOK
<1>2. tx[r].flipped = IF arg[r].route = "toggle" THEN {arg[r].target} ELSE {}
  BY <1>1 DEF InKeeping, HasFlipped
<1>3. arg[r].route # "toggle" => active' = active
  BY <1>1, <1>2
<1>4. arg[r].route = "toggle" =>
        active' = [active EXCEPT ![arg[r].target] = ~active[arg[r].target]]
  BY <1>1, <1>2
<1> QED  BY <1>1, <1>2, <1>3, <1>4

\* A commit that moves a reservation is a batch's, on a free card, or a
\* closing's, on a card its holder had not touched.
LEMMA CommitMovesInTheOpen ==
  ASSUME RegisterInv, KeepingInv, NEW r \in Requests, Commit(r), NEW c \in Cards,
         Holder(card[c]) # Holder(card'[c])
  PROVE  /\ card'[c].status = ToContact
         /\ \/ Available(card[c])
            \/ /\ ReservedTo(card[c], Holder(card[c])) /\ Holder(card'[c]) = NoOne
               /\ active[Holder(card[c])] /\ ~active'[Holder(card[c])]
<1>1. /\ InKeeping(r) /\ card[c] \in Row \cup {NoRow} /\ arg[r].target \in Accounts
      /\ card'[c] = Sees(r, c)
      /\ arg[r].route = "toggle" =>
           active' = [active EXCEPT ![arg[r].target] = ~active[arg[r].target]]
  BY CommitOfARow DEF Args
<1>2. /\ tx[r].rows[c] # NoRow /\ card'[c] = tx[r].rows[c]
      /\ Holder(card'[c]) = card'[c].volunteer
  BY <1>1 DEF Sees, Holder
<1>3. RowInKeeping(r, c)
  BY <1>1, <1>2 DEF InKeeping, Taken
<1>4. CASE arg[r].route = "batch"
  <2>1. Available(card[c]) /\ card'[c] = Reservation(card[c], arg[r].who)
    BY <1>2, <1>3, <1>4 DEF RowInKeeping
  <2> QED  BY <1>1, <2>1 DEF Reservation, Available, Row
<1>5. CASE arg[r].route = "toggle"
  <2>1. /\ ReservedTo(card[c], arg[r].target) /\ active[arg[r].target]
        /\ card'[c] = [card[c] EXCEPT !.volunteer = NoOne]
    BY <1>2, <1>3, <1>5 DEF RowInKeeping
  <2>2. Holder(card[c]) = arg[r].target
    BY <2>1 DEF ReservedTo, Holder
  <2>3. card'[c].volunteer = NoOne /\ card'[c].status = ToContact
    BY <1>1, <2>1 DEF ReservedTo, Row
  <2>4. ~active'[arg[r].target]
    <3>1. active \in [Accounts -> BOOLEAN]
      BY DEF RegisterInv, TypeOK
    <3> QED  BY <1>1, <1>5, <2>1, <3>1
  <2> QED  BY <1>2, <2>1, <2>2, <2>3, <2>4
<1>6. CASE arg[r].route = "delete"
  <2> DEFINE row == tx[r].rows[c]
  <2>1. card[c] # NoRow /\ row = [card[c] EXCEPT !.status = row.status, !.by = row.by]
    BY <1>3, <1>6 DEF RowInKeeping
  <2>2. row.volunteer = card[c].volunteer
    BY <1>1, <2>1 DEF Row
  <2> QED  BY <1>2, <2>1, <2>2 DEF Holder
<1>7. CASE arg[r].route \notin {"batch", "toggle", "delete"}
  BY <1>2, <1>3, <1>7 DEF RowInKeeping
<1> QED  BY <1>4, <1>5, <1>6, <1>7

\* A reservation begins on a free card and ends with its holder's account, on a
\* card still untouched (routeBatch, routeToggleAccount, routeStatus).
THEOREM ReservationsAlwaysMoveInTheOpen == Spec => ReservationsMoveInTheOpen
<1>1. ASSUME RegisterInv, KeepingInv, [Next]_vars
      PROVE  [\A c \in Cards :
                LET was == Holder(card[c])
                    is == Holder(card'[c])
                IN was # is =>
                     /\ card'[c].status = ToContact
                     /\ \/ Available(card[c])
                        \/ /\ ReservedTo(card[c], was) /\ is = NoOne
                           /\ active[was] /\ ~active'[was]]_vars
  <2>1. CASE UNCHANGED vars
    BY <2>1
  <2>2. CASE Next
    <3>1. PICK r \in Requests : Arrive(r) \/ Statement(r) \/ Fail(r) \/ DeadlockVictim(r)
      BY <2>2 DEF Next
    <3>2. CASE Commit(r)
      BY <1>1, <3>2, CommitMovesInTheOpen
    <3>3. CASE ~Commit(r)
      BY <3>1, <3>3, OnlyCommitsCount DEF Committed, Holder
    <3> QED  BY <3>2, <3>3
  <2> QED  BY <1>1, <2>1, <2>2
<1> QED  BY <1>1, RegisterInOrder, KeepingInOrder, PTL DEF Spec, ReservationsMoveInTheOpen

\* The commit of a status is the register's Record.
LEMMA CommitRecords ==
  ASSUME RegisterInv, KeepingInv, NEW r \in Requests, Commit(r), arg[r].route = "status"
  PROVE  TheRegister!Record(arg[r].who, arg[r].card, arg[r].status, arg[r].seen)
<1> DEFINE c == arg[r].card
           row == tx[r].rows[c]
<1>1. /\ StatusReady(r) /\ InKeeping(r) /\ tx[r] \in Tx /\ c \in Cards
      /\ card \in [Cards -> Row \cup {NoRow}] /\ card' = [d \in Cards |-> Sees(r, d)]
      /\ notes' = (notes \ tx[r].erased) \cup tx[r].added /\ active' = active
  BY CommitOfARow DEF InOrder, Args
<1>2. PICK n \in tx[r].added :
        /\ tx[r].added = {n} /\ n.card = c
        /\ row.status = n.status /\ row.by = TeamOf[n.author]
        /\ \A m \in NotesOf(n.card, notes) : m.id < n.id
  BY <1>1 DEF StatusReady
<1>3. n.author = arg[r].who /\ n.status = arg[r].status /\ ~n.edited
  BY <1>1 DEF InKeeping
<1>4. notes' = notes \cup {n}
  BY <1>1, <1>2 DEF StatusReady
<1>5. row = [status |-> arg[r].status, by |-> TeamOf[arg[r].who], volunteer |-> Holder(card[c])]
  <2>1. row \in Row /\ row # NoRow
    BY <1>1, CardsAssumption DEF StatusReady, OnlyItsCard, Tx
  <2>2. row.volunteer = Holder(card[c])
    BY <1>1, <2>1 DEF InKeeping, Taken, RowInKeeping
  <2>3. row.status = arg[r].status /\ row.by = TeamOf[arg[r].who]
    BY <1>2, <1>3
  <2> HIDE DEF row
  <2> QED  BY <2>1, <2>2, <2>3 DEF Row
<1>6. card' = [card EXCEPT ![c] = row]
  <2>1. \A d \in Cards : Sees(r, d) = IF d = c THEN row ELSE card[d]
    BY <1>1 DEF StatusReady, OnlyItsCard, Sees
  <2> HIDE DEF row
  <2> QED  BY <1>1, <2>1
<1>7. card[c] = NoRow \/ card[c].status = arg[r].seen
  BY <1>1 DEF StatusReady, AsSeen
<1>8. \E k \in notes' :
        /\ k.card = c /\ k.author = arg[r].who /\ k.status = arg[r].status /\ ~k.edited
        /\ \A m \in TheRegister!History(c) : m.id < k.id
        /\ notes' = notes \cup {k}
  BY <1>2, <1>3, <1>4 DEF NotesOf, TheRegister!History
<1> QED  BY <1>1, <1>5, <1>6, <1>7, <1>8 DEF TheRegister!Record, TheRegister!HolderOf, Holder

\* The commit of a correction is the register's Correct.
LEMMA CommitCorrects ==
  ASSUME RegisterInv, KeepingInv, NEW r \in Requests, Commit(r), arg[r].route = "edit"
  PROVE  \/ UNCHANGED <<notes, card, active>>
         \/ \E n \in notes : TheRegister!Correct(arg[r].who, n)
<1>1. /\ NoRowWritten(r) /\ InKeeping(r) /\ tx[r].erased \subseteq notes
      /\ tx[r].added = {[n EXCEPT !.edited = TRUE] : n \in tx[r].erased}
      /\ card \in [Cards -> Row \cup {NoRow}] /\ card' = [d \in Cards |-> Sees(r, d)]
      /\ notes' = (notes \ tx[r].erased) \cup tx[r].added /\ active' = active
  BY CommitOfARow DEF InOrder
<1>2. card' = card
  BY <1>1 DEF NoRowWritten, Sees
<1>3. CASE tx[r].erased = {}
  BY <1>1, <1>2, <1>3 DEF Committed
<1>4. CASE tx[r].erased # {}
  <2>1. PICK n \in tx[r].erased : TRUE
    BY <1>4
  <2>2. n.author = arg[r].who
    BY <1>1 DEF InKeeping
  <2>3. tx[r].erased = {n}
    BY <1>1 DEF InKeeping, KeepingInv, IdsAreUnique
  <2>4. notes' = (notes \ {n}) \cup {[n EXCEPT !.edited = TRUE]}
    BY <1>1, <2>3
  <2> QED  BY <1>1, <1>2, <2>2, <2>4 DEF TheRegister!Correct
<1> QED  BY <1>3, <1>4

\* The commit of a removal is the register's Remove: the row says what the
\* notes left say.
LEMMA CommitRemoves ==
  ASSUME RegisterInv, KeepingInv, NEW r \in Requests, Commit(r), arg[r].route = "delete"
  PROVE  \E n \in notes : TheRegister!Remove(arg[r].who, n)
<1> DEFINE c == arg[r].card
           row == tx[r].rows[c]
<1>1. /\ Removal(r) /\ OnlyItsCard(r) /\ Says(row, NotesLeft(r)) /\ c \in Cards
      /\ InKeeping(r) /\ tx[r].erased \subseteq notes
      /\ card \in [Cards -> Row \cup {NoRow}] /\ card' = [d \in Cards |-> Sees(r, d)]
      /\ notes' = (notes \ tx[r].erased) \cup tx[r].added /\ active' = active
  BY CommitOfARow DEF InOrder, Args
<1>2. PICK n \in tx[r].erased : TRUE
  BY <1>1 DEF Removal
<1>3. /\ n.card = c
      /\ arg[r].who \in Coordinators \/ n.author = arg[r].who
  BY <1>1 DEF Removal, InKeeping
<1>4. tx[r].erased = {n}
  BY <1>1 DEF InKeeping, KeepingInv, IdsAreUnique
<1>5. notes' = notes \ {n}
  BY <1>1, <1>4 DEF Removal
<1>6. row # NoRow /\ card[c] # NoRow
      /\ row = [card[c] EXCEPT !.status = row.status, !.by = row.by]
  BY <1>1 DEF OnlyItsCard, InKeeping, Taken, RowInKeeping
<1>7. card' = [card EXCEPT ![c] = row]
  <2>1. \A d \in Cards : Sees(r, d) = IF d = c THEN row ELSE card[d]
    BY <1>1 DEF OnlyItsCard, Sees
  <2> HIDE DEF row
  <2> QED  BY <1>1, <2>1
<1> DEFINE left == {m \in notes' : m.card = c}
<1>8. NotesLeft(r) = left
  BY <1>4, <1>5 DEF NotesLeft, NotesOf
<1>9. \/ left = {} /\ row.status = ToContact /\ row.by = NoTeam
      \/ \E m \in left : /\ \A k \in left : k.id <= m.id
                         /\ row.status = m.status /\ row.by = TeamOf[m.author]
  <2> HIDE DEF row, left
  <2> QED  BY <1>1, <1>8 DEF Says, Newest
<1> HIDE DEF row
<1>10. \A s, b : row.status = s /\ row.by = b =>
         card' = [card EXCEPT ![c] = [card[c] EXCEPT !.status = s, !.by = b]]
  BY <1>6, <1>7
<1>11. \/ /\ left = {}
          /\ card' = [card EXCEPT ![c] = [card[c] EXCEPT !.status = ToContact, !.by = NoTeam]]
       \/ \E m \in left :
            /\ \A k \in left : k.id <= m.id
            /\ card' = [card EXCEPT ![c] = [card[c] EXCEPT !.status = m.status,
                                                           !.by = TeamOf[m.author]]]
  <2>1. CASE left = {} /\ row.status = ToContact /\ row.by = NoTeam
    BY <1>10, <2>1
  <2>2. CASE \E m \in left : /\ \A k \in left : k.id <= m.id
                             /\ row.status = m.status /\ row.by = TeamOf[m.author]
    <3> HIDE DEF left
    <3>1. PICK m \in left : /\ \A k \in left : k.id <= m.id
                            /\ row.status = m.status /\ row.by = TeamOf[m.author]
      BY <2>2
    <3>2. card' = [card EXCEPT ![c] = [card[c] EXCEPT !.status = m.status,
                                                      !.by = TeamOf[m.author]]]
      BY <1>10, <3>1
    <3> QED  BY <3>1, <3>2
  <2> QED  BY <1>9, <2>1, <2>2
<1>12. TheRegister!Remove(arg[r].who, n)
  <2>1. UNCHANGED active /\ n.card = c
    BY <1>1, <1>3
  <2> HIDE DEF c
  <2> QED  BY <1>3, <1>5, <1>11, <2>1 DEF TheRegister!Remove
<1> QED  BY <1>1, <1>12

\* The register counts as its routes do.
LEMMA TheSameCount == \A S : TheRegister!Cardinality(S) = Cardinality(S)
<1> SUFFICES ASSUME NEW S PROVE TheRegister!Cardinality(S) = Cardinality(S)
  OBVIOUS
<1> QED  BY DEF TheRegister!Cardinality, Cardinality

\* The commit of a batch is the register's Reserve, of the cards it counted.
LEMMA CommitReserves ==
  ASSUME RegisterInv, KeepingInv, NEW r \in Requests, Commit(r), arg[r].route = "batch"
  PROVE  arg[r].pool \in Pools /\ TheRegister!Reserve(arg[r].who, arg[r].pool)
<1>1. /\ OnlyReservations(r) /\ InKeeping(r)
      /\ card \in [Cards -> Row \cup {NoRow}] /\ card' = [d \in Cards |-> Sees(r, d)]
      /\ notes' = (notes \ tx[r].erased) \cup tx[r].added /\ active' = active
  BY CommitOfARow DEF InOrder
<1>2. /\ arg[r].pool \in Pools /\ Cardinality(Taken(r)) <= BatchSize
      /\ \A c \in Taken(r) : RowInKeeping(r, c)
  BY <1>1 DEF InKeeping, BatchInKeeping
<1>3. \A c \in Taken(r) : /\ c \in arg[r].pool /\ Available(card[c])
                          /\ tx[r].rows[c] = Reservation(card[c], arg[r].who)
  BY <1>2 DEF RowInKeeping
<1>4. notes' = notes
  BY <1>1 DEF OnlyReservations
<1>5. \A c \in Taken(r) : TheRegister!Free(c)
  BY <1>3 DEF Available, TheRegister!Free
<1>6. card' = [c \in Cards |->
                 IF c \notin Taken(r) THEN card[c]
                 ELSE IF card[c] = NoRow
                      THEN [status |-> ToContact, by |-> NoTeam, volunteer |-> arg[r].who]
                      ELSE [card[c] EXCEPT !.volunteer = arg[r].who]]
  <2>1. \A c \in Cards : Sees(r, c) = IF c \notin Taken(r) THEN card[c]
                                      ELSE Reservation(card[c], arg[r].who)
    BY <1>3 DEF Sees, Taken
  <2> QED  BY <1>1, <2>1 DEF Reservation
<1>7. Taken(r) \in SUBSET arg[r].pool
  BY <1>3
<1>8. \E S \in SUBSET arg[r].pool :
        /\ Cardinality(S) <= BatchSize
        /\ \A c \in S : TheRegister!Free(c)
        /\ card' = [c \in Cards |->
                      IF c \notin S THEN card[c]
                      ELSE IF card[c] = NoRow
                           THEN [status |-> ToContact, by |-> NoTeam, volunteer |-> arg[r].who]
                           ELSE [card[c] EXCEPT !.volunteer = arg[r].who]]
  <2> DEFINE S == Taken(r)
  <2>1. S \in SUBSET arg[r].pool /\ Cardinality(S) <= BatchSize
    BY <1>2, <1>7
  <2>2. \A c \in S : TheRegister!Free(c)
    BY <1>5
  <2>3. card' = [c \in Cards |->
                  IF c \notin S THEN card[c]
                  ELSE IF card[c] = NoRow
                       THEN [status |-> ToContact, by |-> NoTeam, volunteer |-> arg[r].who]
                       ELSE [card[c] EXCEPT !.volunteer = arg[r].who]]
    BY <1>6
  <2> HIDE DEF S
  <2> QED  BY <2>1, <2>2, <2>3
<1> QED  BY <1>1, <1>2, <1>4, <1>8, TheSameCount DEF TheRegister!Reserve

\* The commit of a closing or a reopening is the register's Toggle.
LEMMA CommitToggles ==
  ASSUME RegisterInv, KeepingInv, NEW r \in Requests, Commit(r), arg[r].route = "toggle"
  PROVE  /\ arg[r].target \in Manages[arg[r].who]
         /\ TheRegister!Toggle(arg[r].target)
<1> DEFINE a == arg[r].target
<1>1. /\ OnlyReservations(r) /\ InKeeping(r) /\ a \in Accounts
      /\ card \in [Cards -> Row \cup {NoRow}] /\ card' = [d \in Cards |-> Sees(r, d)]
      /\ notes' = (notes \ tx[r].erased) \cup tx[r].added
      /\ active' = [active EXCEPT ![a] = ~active[a]] /\ active \in [Accounts -> BOOLEAN]
  BY CommitOfARow DEF InOrder, Args, RegisterInv, TypeOK
<1>2. a \in Manages[arg[r].who] /\ \A c \in Taken(r) : RowInKeeping(r, c)
  BY <1>1 DEF InKeeping
<1>3. \A c \in Taken(r) : /\ ReservedTo(card[c], a) /\ active[a]
                          /\ tx[r].rows[c] = [card[c] EXCEPT !.volunteer = NoOne]
  BY <1>2 DEF RowInKeeping
<1>4. notes' = notes
  BY <1>1 DEF OnlyReservations
<1>5. active'[a] => Taken(r) = {}
  BY <1>1, <1>3
<1>6. \A c \in Taken(r) : TheRegister!HolderOf(c) = a /\ card[c].status = ToContact
  BY <1>3 DEF ReservedTo, TheRegister!HolderOf
<1>7. card' = [c \in Cards |-> IF c \in Taken(r) THEN [card[c] EXCEPT !.volunteer = NoOne]
                                                 ELSE card[c]]
  <2>1. \A c \in Cards : Sees(r, c) = IF c \in Taken(r) THEN [card[c] EXCEPT !.volunteer = NoOne]
                                                        ELSE card[c]
    BY <1>3 DEF Sees, Taken
  <2> QED  BY <1>1, <2>1
<1>8. Taken(r) \in SUBSET Cards
  BY DEF Taken
<1> QED  BY <1>1, <1>2, <1>4, <1>5, <1>6, <1>7, <1>8 DEF TheRegister!Toggle

\* Every step of the requests is one of the register, or none.
LEMMA CommitIsAnOperation ==
  ASSUME RegisterInv, KeepingInv, NEW r \in Requests, Commit(r)
  PROVE  TheRegister!Next \/ UNCHANGED <<notes, card, active>>
<1>1. /\ arg[r].who \in Accounts /\ arg[r].card \in Cards /\ arg[r].status \in Statuses
      /\ arg[r].seen \in Statuses /\ arg[r].route \in Routes
  BY DEF RegisterInv, TypeOK, Args
<1>2. CASE arg[r].route = "status"
  BY <1>1, <1>2, CommitRecords DEF TheRegister!Next
<1>3. CASE arg[r].route = "edit"
  BY <1>1, <1>3, CommitCorrects DEF TheRegister!Next
<1>4. CASE arg[r].route = "delete"
  BY <1>1, <1>4, CommitRemoves DEF TheRegister!Next
<1>5. CASE arg[r].route = "batch"
  BY <1>1, <1>5, CommitReserves DEF TheRegister!Next
<1>6. CASE arg[r].route = "toggle"
  BY <1>1, <1>6, CommitToggles DEF TheRegister!Next
<1> QED  BY <1>1, <1>2, <1>3, <1>4, <1>5, <1>6 DEF Routes

\* Five routes, read at statement granularity, do what the register promises:
\* every request that answers 200 took effect at once, at its commit
\* (routeStatus, routeEditNote, routeDeleteNote, routeBatch, routeToggleAccount).
THEOREM RegisterIsImplemented == Spec => ImplementsRegister
<1>1. Init => TheRegister!Init
  BY DEF Init, TheRegister!Init
<1>2. RegisterInv /\ KeepingInv /\ [Next]_vars => [TheRegister!Next]_(TheRegister!vars)
  <2> SUFFICES ASSUME RegisterInv, KeepingInv, [Next]_vars
               PROVE  TheRegister!Next \/ UNCHANGED <<notes, card, active>>
    BY DEF TheRegister!vars, Committed
  <2>1. CASE UNCHANGED vars
    BY <2>1 DEF vars, Committed
  <2>2. CASE Next
    <3>1. PICK r \in Requests : Arrive(r) \/ Statement(r) \/ Fail(r) \/ DeadlockVictim(r)
      BY <2>2 DEF Next
    <3>2. CASE Commit(r)
      BY <3>2, CommitIsAnOperation
    <3>3. CASE ~Commit(r)
      BY <3>1, <3>3, OnlyCommitsCount DEF Committed
    <3> QED  BY <3>2, <3>3
  <2> QED  BY <2>1, <2>2
<1> QED  BY <1>1, <1>2, RegisterInOrder, KeepingInOrder, PTL
         DEF Spec, ImplementsRegister, TheRegister!Spec
=============================================================================
