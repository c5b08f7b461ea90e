--------------------------- MODULE RequestsProofs ---------------------------
(***************************************************************************)
(* Proofs about Requests, for any number of names, addresses, requests and *)
(* rows, and any ceiling.                                                  *)
(***************************************************************************)
EXTENDS Requests, FiniteSetTheorems, TLAPS

Deciding == {"accept", "refuse"}
Filing(r) == job[r].route = "file" /\ pc[r] = "commit"

Verdict(r) == IF job[r].route = "accept" THEN "accepted" ELSE "refused"

\* Where a request of each route may be, and what it has written by then.
Shape(r) ==
  /\ pc[r] # "idle" => job[r].email \in Emails
  /\ pc[r] # "idle" /\ job[r].route # "account" => job[r].name \in Names
  /\ pc[r] \in {"place", "pending", "count", "insert"} => job[r].route = "file"
  /\ pc[r] \in {"vacant", "open"} => job[r].route \in {"accept", "open"}
  /\ pc[r] = "person" => job[r].route \in {"accept", "open", "account"}
  /\ pc[r] \in {"lock", "update"} => job[r].route \in Deciding
  /\ tx[r].row # Nothing <=> pc[r] = "commit" /\ job[r].route \in Deciding \cup {"file"}
  /\ tx[r].place # Nothing =>
       /\ job[r].route \in {"accept", "open"} /\ pc[r] \in {"person", "update", "commit"}
       /\ tx[r].place = job[r].name
  /\ tx[r].person # Nothing =>
       /\ job[r].route \in {"accept", "open", "account"} /\ pc[r] \in {"update", "commit"}
       /\ tx[r].person = job[r].email
  /\ job[r].route = "accept" =>
       /\ pc[r] \in {"person", "update", "commit"} => tx[r].place # Nothing
       /\ pc[r] \in {"update", "commit"} => tx[r].person # Nothing

\* What a request knows of the row it decides, or files, and has locked.
Claim(r) ==
  LET i == job[r].id
  IN /\ job[r].route \in Deciding =>
          /\ i \in Ids /\ rows[i] # Nothing
          /\ rows[i].queue = job[r].queue /\ rows[i].email = job[r].email
          /\ pc[r] # "lock" => lock[i] = r /\ rows[i].state = "pending"
          /\ pc[r] = "commit" => tx[r].row = [rows[i] EXCEPT !.state = Verdict(r)]
     /\ Filing(r) =>
          /\ i \in Ids /\ rows[i] = Nothing /\ lock[i] = r
          /\ tx[r].row = [queue |-> job[r].queue, name |-> job[r].name,
                          email |-> job[r].email, state |-> "pending"]

\* What it has entered in a unique index is in no committed row, and in
\* nobody else's hands.
Own(r) ==
  /\ Filing(r) =>
       /\ PendingOn(job[r].queue, job[r].name) = {}
       /\ \A q \in Requests \ {r} :
            Filing(q) /\ job[q].queue = job[r].queue => job[q].name # job[r].name
  /\ tx[r].place # Nothing =>
       /\ ~PlaceTaken(job[r].queue, tx[r].place)
       /\ \A q \in Requests \ {r} : tx[q].place = tx[r].place => job[q].queue # job[r].queue
  /\ tx[r].person # Nothing /\ job[r].queue = "team" =>
       /\ ~EmailTaken("team", tx[r].person)
       /\ \A q \in Requests \ {r} : tx[q].person = tx[r].person => job[q].queue # "team"

RowsAreDrawn ==
  \A i \in Ids : (rows[i] # Nothing \/ lock[i] # Nothing) => i <= drawn

\* The unique indexes, pair by pair.
Indexed ==
  /\ \A i, j \in Ids :
       /\ rows[i] # Nothing /\ rows[j] # Nothing
       /\ rows[i].queue = rows[j].queue /\ rows[i].name = rows[j].name
       /\ rows[i].state = "pending" /\ rows[j].state = "pending"
       => i = j
  /\ \A p1, p2 \in places : p1.queue = p2.queue /\ p1.name = p2.name => p1 = p2
  /\ \A p1, p2 \in people :
       p1.queue = "team" /\ p2.queue = "team" /\ p1.email = p2.email => p1 = p2

\* What a request opened, from the first row to the last.
Opened ==
  \A i \in Ids :
    /\ \A p \in places \cup people : p.from = i => rows[i] # Nothing /\ rows[i].state = "accepted"
    /\ \A p1, p2 \in places : p1.from = i /\ p2.from = i => p1 = p2
    /\ \A p1, p2 \in people : p1.from = i /\ p2.from = i => p1 = p2
    /\ rows[i] # Nothing /\ rows[i].state = "accepted" =>
         /\ \E p \in places : p.from = i /\ p.queue = rows[i].queue
         /\ \E p \in people : p.from = i /\ p.email = rows[i].email

Others == \A r \in Requests : Shape(r) /\ Claim(r) /\ Own(r)

IInv == TypeOK /\ Others /\ RowsAreDrawn /\ Indexed /\ Opened

-----------------------------------------------------------------------------
\* Facts of the model

LEMMA Nulls ==
  /\ Nothing \notin Row /\ Nothing \notin Names /\ Nothing \notin Emails
  /\ Nothing \notin Requests /\ Direct \notin Ids
  /\ MaxRows \in Nat \ {0} /\ MaxPending \in Nat \ {0} /\ IsFiniteSet(Requests)
BY RequestsAssumption

LEMMA NoJobTypes ==
  /\ NoJob \in Jobs /\ NoJob.route = "file"
  /\ NoTx \in Tx /\ NoTx.row = Nothing /\ NoTx.place = Nothing /\ NoTx.person = Nothing
<1>1. (CHOOSE q \in Queues : TRUE) \in Queues
  BY RequestsAssumption
<1> QED  BY <1>1, Nulls DEF NoJob, NoTx, Jobs, Tx, Routes

\* A step of one request, as the others see it.
Frame(r) ==
  \A q \in Requests \ {r} :
    /\ pc'[q] = pc[q] /\ tx'[q] = tx[q] /\ job'[q] = job[q]
    /\ \A i \in Ids : lock[i] = q => lock'[i] = q

\* The rules of one request are broken by nobody but itself, as long as it
\* writes nothing for good.
LEMMA OneMoves ==
  ASSUME IInv, NEW r \in Requests, TypeOK', Frame(r),
         UNCHANGED <<rows, places, people>>,
         Shape(r)', Claim(r)', Own(r)', RowsAreDrawn'
  PROVE  IInv'
<1>1. Indexed' /\ Opened'
  BY DEF IInv, Indexed, Opened
<1>2. ASSUME NEW q \in Requests \ {r}
      PROVE  Shape(q)'
  BY <1>2 DEF IInv, Others, Shape, Frame
<1>3. ASSUME NEW q \in Requests \ {r}
      PROVE  Claim(q)'
  <2>1. /\ pc'[q] = pc[q] /\ tx'[q] = tx[q] /\ job'[q] = job[q] /\ rows' = rows
        /\ \A i \in Ids : lock[i] = q => lock'[i] = q
    BY DEF Frame
  <2>2. Claim(q)
    BY DEF IInv, Others
  <2> QED  BY <2>1, <2>2 DEF Claim, Filing, Verdict
<1>4. ASSUME NEW q \in Requests \ {r}
      PROVE  Own(q)'
  <2>1. \A p \in Requests \ {r} : pc'[p] = pc[p] /\ tx'[p] = tx[p] /\ job'[p] = job[p]
    BY DEF Frame
  <2>2. Own(q) /\ Own(r)'
    BY DEF IInv, Others
  <2>3. Filing(q)' => Filing(q)
    BY <2>1 DEF Filing
  <2>4. /\ PendingOn(job[q].queue, job[q].name)' = PendingOn(job[q].queue, job[q].name)
        /\ PlaceTaken(job[q].queue, tx[q].place)' = PlaceTaken(job[q].queue, tx[q].place)
        /\ EmailTaken("team", tx[q].person)' = EmailTaken("team", tx[q].person)
    BY <2>1 DEF PendingOn, Pending, PlaceTaken, EmailTaken
  <2>5. Filing(q)' =>
          /\ PendingOn(job[q].queue, job[q].name)' = {}
          /\ \A p \in Requests \ {q} :
               (Filing(p) /\ job[p].queue = job[q].queue => job[p].name # job[q].name)'
    <3>1. \A p \in Requests \ {r} : Filing(p)' => Filing(p)
      BY <2>1 DEF Filing
    <3>2. Filing(q)' => (Filing(r) /\ job[q].queue = job[r].queue => job[q].name # job[r].name)'
      BY <2>2 DEF Own
    <3> QED  BY <2>1, <2>2, <2>3, <2>4, <3>1, <3>2 DEF Own
  <2>6. tx'[q].place # Nothing =>
          /\ ~PlaceTaken(job[q].queue, tx[q].place)'
          /\ \A p \in Requests \ {q} :
               tx'[p].place = tx'[q].place => job'[p].queue # job'[q].queue
    BY <2>1, <2>2, <2>4 DEF Own
  <2>7. tx'[q].person # Nothing /\ job'[q].queue = "team" =>
          /\ ~EmailTaken("team", tx[q].person)'
          /\ \A p \in Requests \ {q} : tx'[p].person = tx'[q].person => job'[p].queue # "team"
    BY <2>1, <2>2, <2>4 DEF Own
  <2> QED  BY <2>5, <2>6, <2>7 DEF Own
<1>5. Others'
  BY <1>2, <1>3, <1>4 DEF Others
<1> QED  BY <1>1, <1>5 DEF IInv

-----------------------------------------------------------------------------
\* The steps that write nothing for good

LEMMA CloseFacts ==
  ASSUME TypeOK, NEW r \in Requests, Close(r)
  PROVE  /\ lock' \in [Ids -> Requests \cup {Nothing}] /\ tx' \in [Requests -> Tx]
         /\ pc' \in [Requests -> Steps] /\ job' \in [Requests -> Jobs]
         /\ Frame(r)
         /\ pc'[r] = "idle" /\ job'[r].route = "file"
         /\ tx'[r].row = Nothing /\ tx'[r].place = Nothing /\ tx'[r].person = Nothing
         /\ \A i \in Ids : lock'[i] = IF lock[i] = r THEN Nothing ELSE lock[i]
<1>1. /\ lock' = [i \in Ids |-> IF lock[i] = r THEN Nothing ELSE lock[i]]
      /\ tx' = [tx EXCEPT ![r] = NoTx] /\ job' = [job EXCEPT ![r] = NoJob]
      /\ pc' = [pc EXCEPT ![r] = "idle"]
  BY DEF Close, Goto
<1>2. /\ lock' \in [Ids -> Requests \cup {Nothing}]
      /\ \A i \in Ids : lock'[i] = IF lock[i] = r THEN Nothing ELSE lock[i]
  BY <1>1 DEF TypeOK
<1>3. /\ tx' \in [Requests -> Tx] /\ pc' \in [Requests -> Steps] /\ job' \in [Requests -> Jobs]
      /\ pc'[r] = "idle" /\ job'[r] = NoJob /\ tx'[r] = NoTx
      /\ \A q \in Requests \ {r} : pc'[q] = pc[q] /\ tx'[q] = tx[q] /\ job'[q] = job[q]
  BY <1>1, NoJobTypes DEF TypeOK, Steps
<1>4. Frame(r)
  BY <1>2, <1>3 DEF Frame
<1> QED  BY <1>2, <1>3, <1>4, NoJobTypes

LEMMA RefuseKeeps ==
  ASSUME IInv, NEW r \in Requests, Refuse(r)
  PROVE  IInv'
<1>1. TypeOK /\ Close(r) /\ UNCHANGED <<rows, places, people, drawn, begun>>
  BY DEF Refuse, Committed, IInv
<1>2. TypeOK'
  BY <1>1, CloseFacts DEF TypeOK
<1>3. Shape(r)' /\ Claim(r)' /\ Own(r)'
  BY <1>1, CloseFacts DEF Shape, Claim, Own, Filing, Deciding
<1>4. RowsAreDrawn'
  BY <1>1, CloseFacts DEF IInv, RowsAreDrawn
<1>5. Frame(r)
  BY <1>1, CloseFacts
<1> QED  BY <1>1, <1>2, <1>3, <1>4, <1>5, OneMoves

\* A SELECT that lets the request go on.
LEMMA AskKeeps ==
  ASSUME IInv, NEW r \in Requests, NEW refused \in BOOLEAN, NEW s \in Steps,
         NEW t \in {"place", "pending", "count", "vacant"},
         Ask(r, t, refused, s),
         t # "vacant" => s \in {"pending", "count", "insert"},
         t = "vacant" => s = "open"
  PROVE  IInv'
<1>1. CASE Refuse(r)
  BY <1>1, RefuseKeeps
<1>2. CASE ~Refuse(r)
  <2>1. /\ pc[r] = t /\ pc' = [pc EXCEPT ![r] = s]
        /\ UNCHANGED <<rows, places, people, lock, tx, job, drawn, begun>>
    BY <1>2 DEF Ask, Goto, Committed
  <2>2. TypeOK' /\ pc'[r] = s /\ Frame(r)
    BY <2>1 DEF IInv, TypeOK, Frame
  <2>3. Shape(r) /\ Claim(r) /\ Own(r)
    BY DEF IInv, Others
  <2>4. Shape(r)'
    BY <2>1, <2>2, <2>3 DEF Shape, Deciding
  <2>5. Claim(r)'
    BY <2>1, <2>2, <2>3 DEF Shape, Claim, Filing, Deciding
  <2>6. Own(r)'
    <3>1. tx[r].place = Nothing /\ tx[r].person = Nothing /\ ~Filing(r)'
      BY <2>1, <2>2, <2>3 DEF Shape, Filing
    <3> QED  BY <2>1, <3>1 DEF Own
  <2>7. RowsAreDrawn'
    BY <2>1 DEF IInv, RowsAreDrawn
  <2> QED  BY <2>1, <2>2, <2>4, <2>5, <2>6, <2>7, OneMoves
<1> QED  BY <1>1, <1>2

LEMMA SelectKeeps ==
  ASSUME IInv, NEW r \in Requests, CheckPlace(r) \/ CheckPending(r) \/ Count(r) \/ Vacant(r)
  PROVE  IInv'
<1> HIDE DEF IInv
<1>1. CASE CheckPlace(r)
  <2> DEFINE refused == PlaceTaken(job[r].queue, job[r].name)
  <2>1. refused \in BOOLEAN
    BY DEF PlaceTaken
  <2>2. Ask(r, "place", refused, "pending")
    BY <1>1 DEF CheckPlace
  <2> HIDE DEF refused
  <2> QED  BY <2>1, <2>2, AskKeeps DEF Steps
<1>2. CASE CheckPending(r)
  <2> DEFINE refused == PendingOn(job[r].queue, job[r].name) # {}
  <2>1. Ask(r, "pending", refused, "count") /\ refused \in BOOLEAN
    BY <1>2 DEF CheckPending
  <2> HIDE DEF refused
  <2> QED  BY <2>1, AskKeeps DEF Steps
<1>3. CASE Count(r)
  <2> DEFINE refused == Cardinality(Pending(job[r].queue)) >= MaxPending
  <2>1. Ask(r, "count", refused, "insert") /\ refused \in BOOLEAN
    BY <1>3 DEF Count
  <2> HIDE DEF refused
  <2> QED  BY <2>1, AskKeeps DEF Steps
<1>4. CASE Vacant(r)
  <2> DEFINE refused == \/ job[r].queue = "team" /\ EmailTaken("team", job[r].email)
                        \/ job[r].queue = "hosting" /\ PlaceTaken("hosting", job[r].name)
  <2>1. Ask(r, "vacant", refused, "open") /\ refused \in BOOLEAN
    BY <1>4 DEF Vacant
  <2> HIDE DEF refused
  <2> QED  BY <2>1, AskKeeps DEF Steps
<1> QED  BY <1>1, <1>2, <1>3, <1>4

\* A request that begins, with an input of its route.
LEMMA BeginKeeps ==
  ASSUME IInv, NEW r \in Requests, NEW s \in {"place", "lock", "vacant", "open", "person"},
         NEW j \in Jobs, Begin(r, s, j),
         j.email \in Emails, j.route # "account" => j.name \in Names,
         s = "place" => j.route = "file",
         s = "lock" => j.route \in Deciding,
         s \in {"vacant", "open"} => j.route = "open",
         s = "person" => j.route = "account",
         j.route \in Deciding =>
           /\ s = "lock" /\ j.id \in Ids /\ rows[j.id] # Nothing
           /\ rows[j.id].queue = j.queue /\ rows[j.id].email = j.email
  PROVE  IInv'
<1>1. /\ pc[r] = "idle" /\ pc' = [pc EXCEPT ![r] = s] /\ job' = [job EXCEPT ![r] = j]
      /\ begun' = begun + 1 /\ UNCHANGED <<rows, places, people, lock, tx, drawn>>
  BY DEF Begin, Goto, Committed
<1>2. s \in Steps
  BY DEF Steps
<1>3. /\ TypeOK' /\ pc'[r] = s /\ job'[r] = j /\ tx'[r] = tx[r] /\ Frame(r)
  BY <1>1, <1>2 DEF IInv, TypeOK, Frame
<1>4. tx[r].row = Nothing /\ tx[r].place = Nothing /\ tx[r].person = Nothing
  BY <1>1 DEF IInv, Others, Shape
<1>5. Shape(r)'
  BY <1>3, <1>4 DEF Shape, Deciding
<1>6. Claim(r)' /\ Own(r)'
  BY <1>1, <1>3, <1>4 DEF Claim, Own, Filing, Deciding
<1>7. RowsAreDrawn'
  BY <1>1 DEF IInv, RowsAreDrawn
<1> QED  BY <1>1, <1>3, <1>5, <1>6, <1>7, OneMoves

LEMMA BeginsKeep ==
  ASSUME IInv, NEW r \in Requests,
         \/ BeginFile(r) \/ BeginAccept(r) \/ BeginRefuse(r) \/ BeginOpen(r) \/ BeginAccount(r)
  PROVE  IInv'
<1>2. CASE BeginFile(r)
  <2>1. PICK q \in Queues, n \in Names, e \in Emails :
          Begin(r, "place", [NoJob EXCEPT !.queue = q, !.name = n, !.email = e])
    BY <1>2 DEF BeginFile
  <2>2. PICK j : j = [NoJob EXCEPT !.queue = q, !.name = n, !.email = e]
    OBVIOUS
  <2>3. j \in Jobs /\ j.email = e /\ j.name = n /\ j.route = "file"
    BY <2>2, NoJobTypes DEF Jobs
  <2> QED  BY <2>1, <2>2, <2>3, BeginKeeps DEF Deciding
<1>3. CASE BeginOpen(r)
  <2>1. PICK q \in Queues, n \in Names, e \in Emails :
          Begin(r, IF q = "hosting" THEN "vacant" ELSE "open",
                [NoJob EXCEPT !.route = "open", !.queue = q, !.name = n, !.email = e])
    BY <1>3 DEF BeginOpen
  <2>2. PICK j : j = [NoJob EXCEPT !.route = "open", !.queue = q, !.name = n, !.email = e]
    OBVIOUS
  <2>3. j \in Jobs /\ j.email = e /\ j.name = n /\ j.route = "open"
    BY <2>2, NoJobTypes DEF Jobs, Routes
  <2>4. PICK s \in {"vacant", "open"} : s = IF q = "hosting" THEN "vacant" ELSE "open"
    OBVIOUS
  <2>5. Begin(r, s, j)
    BY <2>1, <2>2, <2>4
  <2> QED  BY <2>3, <2>5, BeginKeeps DEF Deciding
<1>4. CASE BeginAccount(r)
  <2>1. PICK e \in Emails :
          Begin(r, "person", [NoJob EXCEPT !.route = "account", !.queue = "team", !.email = e])
    BY <1>4 DEF BeginAccount
  <2>2. PICK j : j = [NoJob EXCEPT !.route = "account", !.queue = "team", !.email = e]
    OBVIOUS
  <2>3. j \in Jobs /\ j.email = e /\ j.route = "account"
    BY <1>4, <2>2, NoJobTypes DEF Jobs, Routes, BeginAccount
  <2> QED  BY <2>1, <2>2, <2>3, BeginKeeps DEF Deciding
<1>5. CASE BeginAccept(r) \/ BeginRefuse(r)
  <2>1. PICK i \in Ids, n \in Names, route \in Deciding :
          /\ rows[i] # Nothing
          /\ Begin(r, "lock", [route |-> route, queue |-> rows[i].queue, name |-> n,
                               email |-> rows[i].email, id |-> i])
    <3>1. CASE BeginAccept(r)
      BY <3>1 DEF BeginAccept, Deciding
    <3>2. CASE BeginRefuse(r)
      <4>1. PICK i \in {i \in Ids : rows[i] # Nothing} :
              Begin(r, "lock", [route |-> "refuse", queue |-> rows[i].queue,
                                name |-> rows[i].name, email |-> rows[i].email, id |-> i])
        BY <3>2 DEF BeginRefuse
      <4>2. rows[i].name \in Names
        BY <4>1 DEF IInv, TypeOK, Row
      <4> QED  BY <4>1, <4>2 DEF Deciding
    <3> QED  BY <1>5, <3>1, <3>2
  <2>2. rows[i].queue \in Queues /\ rows[i].email \in Emails /\ i \in 0..MaxRows
    BY <2>1, Nulls DEF IInv, TypeOK, Row, Ids
  <2>3. PICK j : j = [route |-> route, queue |-> rows[i].queue, name |-> n,
                      email |-> rows[i].email, id |-> i]
    OBVIOUS
  <2>4. /\ j \in Jobs /\ j.email = rows[i].email /\ j.name = n /\ j.route = route
        /\ j.queue = rows[i].queue /\ j.id = i
    BY <2>2, <2>3 DEF Jobs, Routes, Deciding
  <2> QED  BY <2>1, <2>2, <2>3, <2>4, BeginKeeps DEF Deciding
<1> QED  BY <1>2, <1>3, <1>4, <1>5

-----------------------------------------------------------------------------
\* The statements that write, or lock

\* The identity drawn is nobody's, and the name is in no hand.
LEMMA InsertKeeps ==
  ASSUME IInv, NEW r \in Requests, InsertRow(r), ~Refuse(r)
  PROVE  IInv'
<1> DEFINE row == [queue |-> job[r].queue, name |-> job[r].name,
                   email |-> job[r].email, state |-> "pending"]
<1>1. /\ pc[r] = "insert" /\ ~NameInHand(r) /\ drawn < MaxRows /\ drawn' = drawn + 1
      /\ PendingOn(job[r].queue, job[r].name) = {}
      /\ tx' = [tx EXCEPT ![r].row = row] /\ lock' = [lock EXCEPT ![drawn + 1] = r]
      /\ job' = [job EXCEPT ![r].id = drawn + 1] /\ pc' = [pc EXCEPT ![r] = "commit"]
      /\ UNCHANGED <<rows, places, people, begun>>
  BY DEF InsertRow, Goto, Committed
<1>2. /\ Shape(r) /\ job[r].route = "file" /\ job[r].email \in Emails /\ job[r].name \in Names
      /\ tx[r].place = Nothing /\ tx[r].person = Nothing
  BY <1>1 DEF IInv, Others, Shape
<1>3. drawn \in Nat /\ drawn + 1 \in Ids /\ drawn + 1 \in 0..MaxRows
  BY <1>1, Nulls DEF IInv, TypeOK, Ids
<1>4. rows[drawn + 1] = Nothing /\ lock[drawn + 1] = Nothing
  <2>1. ~(drawn + 1 <= drawn)
    BY <1>3
  <2> QED  BY <1>3, <2>1 DEF IInv, RowsAreDrawn
<1>5. row \in Row /\ row # Nothing
  BY <1>2, Nulls DEF IInv, TypeOK, Jobs, Row, States
<1>6. /\ tx' \in [Requests -> Tx] /\ tx'[r].row = row
      /\ tx'[r].place = Nothing /\ tx'[r].person = Nothing
      /\ \A q \in Requests \ {r} : tx'[q] = tx[q]
  <2> HIDE DEF row
  <2>1. tx[r] \in Tx
    BY DEF IInv, TypeOK
  <2>2. [tx[r] EXCEPT !.row = row] \in Tx
    BY <1>5, <2>1 DEF Tx
  <2>3. tx' = [tx EXCEPT ![r] = [tx[r] EXCEPT !.row = row]]
    BY <1>1
  <2> QED  BY <1>2, <2>1, <2>2, <2>3 DEF IInv, TypeOK, Tx
<1>7. /\ job' \in [Requests -> Jobs] /\ job'[r].id = drawn + 1 /\ job'[r].route = "file"
      /\ job'[r].queue = job[r].queue /\ job'[r].name = job[r].name /\ job'[r].email = job[r].email
      /\ \A q \in Requests \ {r} : job'[q] = job[q]
  <2>1. job[r] \in Jobs
    BY DEF IInv, TypeOK
  <2>2. [job[r] EXCEPT !.id = drawn + 1] \in Jobs
    BY <1>3, <2>1 DEF Jobs
  <2>3. job' = [job EXCEPT ![r] = [job[r] EXCEPT !.id = drawn + 1]]
    BY <1>1
  <2> QED  BY <1>2, <2>1, <2>2, <2>3 DEF IInv, TypeOK, Jobs
<1>8. /\ lock' \in [Ids -> Requests \cup {Nothing}] /\ lock'[drawn + 1] = r
      /\ \A i \in Ids \ {drawn + 1} : lock'[i] = lock[i]
      /\ pc' \in [Requests -> Steps] /\ pc'[r] = "commit"
      /\ \A q \in Requests \ {r} : pc'[q] = pc[q]
  BY <1>1, <1>3 DEF IInv, TypeOK, Steps
<1>9. TypeOK'
  BY <1>1, <1>3, <1>6, <1>7, <1>8 DEF IInv, TypeOK
<1>10. Frame(r)
  BY <1>4, <1>6, <1>7, <1>8, Nulls DEF Frame
<1>11. Shape(r)'
  BY <1>2, <1>5, <1>6, <1>7, <1>8 DEF Shape, Deciding
<1>12. Claim(r)'
  BY <1>1, <1>3, <1>4, <1>6, <1>7, <1>8 DEF Claim, Filing, Deciding
<1>13. Own(r)'
  <2>1. PendingOn(job[r].queue, job[r].name)' = {}
    BY <1>1, <1>7 DEF PendingOn, Pending
  <2>2. ASSUME NEW q \in Requests \ {r}, Filing(q)', job'[q].queue = job'[r].queue
        PROVE  job'[q].name # job'[r].name
    <3>1. Filing(q) /\ job[q].queue = job[r].queue /\ job'[q].name = job[q].name
      BY <1>7, <1>8, <2>2 DEF Filing
    <3>2. tx[q].row # Nothing /\ tx[q].row.queue = job[q].queue /\ tx[q].row.name = job[q].name
      <4>1. Shape(q) /\ Claim(q)
        BY DEF IInv, Others
      <4>2. tx[q].row # Nothing
        BY <3>1, <4>1 DEF Shape, Filing
      <4>3. tx[q].row = [queue |-> job[q].queue, name |-> job[q].name,
                         email |-> job[q].email, state |-> "pending"]
        BY <3>1, <4>1 DEF Claim
      <4> QED  BY <4>2, <4>3
    <3> QED  BY <1>1, <1>7, <3>1, <3>2 DEF NameInHand
  <2> QED  BY <1>6, <2>1, <2>2 DEF Own
<1>14. RowsAreDrawn'
  <2>1. ASSUME NEW i \in Ids, rows'[i] # Nothing \/ lock'[i] # Nothing
        PROVE  i <= drawn'
    <3>1. i = drawn + 1 \/ i <= drawn
      BY <1>1, <1>8, <2>1 DEF IInv, RowsAreDrawn
    <3> QED  BY <1>1, <1>3, <3>1 DEF Ids
  <2> QED  BY <2>1 DEF RowsAreDrawn
<1> QED  BY <1>1, <1>9, <1>10, <1>11, <1>12, <1>13, <1>14, OneMoves

\* A request decided again finds its row in another state, and one still
\* pending locks it.
LEMMA LockRowKeeps ==
  ASSUME IInv, NEW r \in Requests, LockRow(r), ~Refuse(r)
  PROVE  IInv'
<1> DEFINE i == job[r].id
<1>1. /\ pc[r] = "lock" /\ lock[i] \in {Nothing, r} /\ rows[i].state = "pending"
      /\ lock' = [lock EXCEPT ![i] = r] /\ pc' = [pc EXCEPT ![r] = AfterLock(r)]
      /\ UNCHANGED <<rows, places, people, tx, job, drawn, begun>>
  BY DEF LockRow, Goto, Committed
<1>2. Shape(r) /\ Claim(r) /\ job[r].route \in Deciding /\ i \in Ids /\ rows[i] # Nothing
  BY <1>1 DEF IInv, Others, Shape, Claim
<1>3. PICK s \in {"vacant", "update"} :
         /\ pc' = [pc EXCEPT ![r] = s]
         /\ s = "vacant" <=> job[r].route = "accept"
  BY <1>1 DEF AfterLock
<1>4. /\ lock' \in [Ids -> Requests \cup {Nothing}] /\ lock'[i] = r
      /\ \A k \in Ids \ {i} : lock'[k] = lock[k]
      /\ pc' \in [Requests -> Steps] /\ pc'[r] = s
      /\ \A q \in Requests \ {r} : pc'[q] = pc[q]
  BY <1>1, <1>2, <1>3 DEF IInv, TypeOK, Steps
<1>5. TypeOK'
  BY <1>1, <1>4 DEF IInv, TypeOK
<1>6. Frame(r)
  BY <1>1, <1>4, Nulls DEF Frame
<1>7. tx[r].row = Nothing /\ tx[r].place = Nothing /\ tx[r].person = Nothing
  BY <1>1, <1>2 DEF Shape
<1>8. Shape(r)'
  BY <1>1, <1>2, <1>3, <1>4, <1>7 DEF Shape, Deciding
<1>9. Claim(r)' /\ Own(r)'
  BY <1>1, <1>2, <1>4, <1>7 DEF Claim, Own, Filing, Deciding
<1>10. RowsAreDrawn'
  BY <1>1, <1>2, <1>4 DEF IInv, RowsAreDrawn
<1> QED  BY <1>1, <1>5, <1>6, <1>8, <1>9, <1>10, OneMoves

\* The place, or the person, is entered in an index nobody else has in hand.
LEMMA OpenPlaceKeeps ==
  ASSUME IInv, NEW r \in Requests, OpenPlace(r), ~Refuse(r)
  PROVE  IInv'
<1>1. /\ pc[r] = "open" /\ ~PlaceInHand(r) /\ ~PlaceTaken(job[r].queue, job[r].name)
      /\ tx' = [tx EXCEPT ![r].place = job[r].name]
      /\ UNCHANGED <<rows, places, people, lock, job, drawn, begun>>
  BY DEF OpenPlace, Committed
<1>2. /\ Shape(r) /\ Claim(r) /\ job[r].route \in {"accept", "open"} /\ job[r].name \in Names
      /\ tx[r].row = Nothing /\ tx[r].person = Nothing
  BY <1>1 DEF IInv, Others, Shape
<1>3. PICK s \in {"person", "commit"} :
         pc' = [pc EXCEPT ![r] = s] /\ (job[r].route = "accept" => s = "person")
  BY DEF OpenPlace, Goto
<1>4. /\ tx' \in [Requests -> Tx] /\ tx'[r].place = job[r].name
      /\ tx'[r].row = Nothing /\ tx'[r].person = Nothing
      /\ \A q \in Requests \ {r} : tx'[q] = tx[q]
  <2>1. tx[r] \in Tx
    BY DEF IInv, TypeOK
  <2>2. [tx[r] EXCEPT !.place = job[r].name] \in Tx
    BY <1>2, <2>1 DEF Tx
  <2>3. tx' = [tx EXCEPT ![r] = [tx[r] EXCEPT !.place = job[r].name]]
    BY <1>1
  <2> QED  BY <1>2, <2>1, <2>2, <2>3 DEF IInv, TypeOK, Tx
<1>5. /\ pc' \in [Requests -> Steps] /\ pc'[r] = s
      /\ \A q \in Requests \ {r} : pc'[q] = pc[q]
  BY <1>3 DEF IInv, TypeOK, Steps
<1>6. TypeOK' /\ Frame(r)
  BY <1>1, <1>4, <1>5 DEF IInv, TypeOK, Frame
<1>7. Shape(r)'
  BY <1>1, <1>2, <1>3, <1>4, <1>5, Nulls DEF Shape, Deciding
<1>8. Claim(r)'
  BY <1>1, <1>2, <1>3, <1>4, <1>5 DEF Claim, Filing, Deciding
<1>9. Own(r)'
  <2>1. ~Filing(r)'
    BY <1>1, <1>2 DEF Filing
  <2>2. ~PlaceTaken(job[r].queue, tx[r].place)'
    BY <1>1, <1>4 DEF PlaceTaken
  <2>3. \A q \in Requests \ {r} : tx'[q].place = tx'[r].place => job'[q].queue # job'[r].queue
    BY <1>1, <1>4 DEF PlaceInHand
  <2> QED  BY <1>4, <2>1, <2>2, <2>3 DEF Own
<1>10. RowsAreDrawn'
  BY <1>1 DEF IInv, RowsAreDrawn
<1> QED  BY <1>1, <1>6, <1>7, <1>8, <1>9, <1>10, OneMoves

LEMMA OpenPersonKeeps ==
  ASSUME IInv, NEW r \in Requests, OpenPerson(r), ~Refuse(r)
  PROVE  IInv'
<1>1. /\ pc[r] = "person" /\ (job[r].queue = "team" => ~PersonInHand(r))
      /\ ~(job[r].queue = "team" /\ EmailTaken("team", job[r].email))
      /\ tx' = [tx EXCEPT ![r].person = job[r].email]
      /\ UNCHANGED <<rows, places, people, lock, job, drawn, begun>>
  BY DEF OpenPerson, Committed
<1>2. /\ Shape(r) /\ Claim(r) /\ Own(r) /\ job[r].route \in {"accept", "open", "account"}
      /\ job[r].email \in Emails /\ tx[r].row = Nothing
  BY <1>1 DEF IInv, Others, Shape
<1>3. PICK s \in {"update", "commit"} :
         pc' = [pc EXCEPT ![r] = s] /\ (s = "update" <=> job[r].route = "accept")
  BY DEF OpenPerson, Goto, AfterPerson
<1>4. /\ tx' \in [Requests -> Tx] /\ tx'[r].person = job[r].email
      /\ tx'[r].row = Nothing /\ tx'[r].place = tx[r].place
      /\ \A q \in Requests \ {r} : tx'[q] = tx[q]
  <2>1. tx[r] \in Tx
    BY DEF IInv, TypeOK
  <2>2. [tx[r] EXCEPT !.person = job[r].email] \in Tx
    BY <1>2, <2>1 DEF Tx
  <2>3. tx' = [tx EXCEPT ![r] = [tx[r] EXCEPT !.person = job[r].email]]
    BY <1>1
  <2> QED  BY <1>2, <2>1, <2>2, <2>3 DEF IInv, TypeOK, Tx
<1>5. /\ pc' \in [Requests -> Steps] /\ pc'[r] = s
      /\ \A q \in Requests \ {r} : pc'[q] = pc[q]
  BY <1>3 DEF IInv, TypeOK, Steps
<1>6. TypeOK' /\ Frame(r)
  BY <1>1, <1>4, <1>5 DEF IInv, TypeOK, Frame
<1>7. Shape(r)'
  BY <1>1, <1>2, <1>3, <1>4, <1>5, Nulls DEF Shape, Deciding
<1>8. Claim(r)'
  BY <1>1, <1>2, <1>3, <1>4, <1>5 DEF Claim, Filing, Deciding
<1>9. Own(r)'
  <2>1. ~Filing(r)'
    BY <1>1, <1>2 DEF Filing
  <2>2. tx'[r].place # Nothing =>
          /\ ~PlaceTaken(job[r].queue, tx[r].place)'
          /\ \A q \in Requests \ {r} : tx'[q].place = tx'[r].place => job'[q].queue # job'[r].queue
    BY <1>1, <1>2, <1>4 DEF Own, PlaceTaken
  <2>3. job[r].queue = "team" => ~EmailTaken("team", tx[r].person)'
    BY <1>1, <1>4 DEF EmailTaken
  <2>4. job[r].queue = "team" =>
          \A q \in Requests \ {r} : tx'[q].person = tx'[r].person => job'[q].queue # "team"
    BY <1>1, <1>4 DEF PersonInHand
  <2> QED  BY <1>1, <1>4, <2>1, <2>2, <2>3, <2>4 DEF Own
<1>10. RowsAreDrawn'
  BY <1>1 DEF IInv, RowsAreDrawn
<1> QED  BY <1>1, <1>6, <1>7, <1>8, <1>9, <1>10, OneMoves

LEMMA UpdateKeeps ==
  ASSUME IInv, NEW r \in Requests, Update(r)
  PROVE  IInv'
<1> DEFINE i == job[r].id
           row == [rows[i] EXCEPT !.state = Verdict(r)]
<1>1. /\ pc[r] = "update" /\ lock[i] \in {Nothing, r} /\ lock' = [lock EXCEPT ![i] = r]
      /\ tx' = [tx EXCEPT ![r].row = row] /\ pc' = [pc EXCEPT ![r] = "commit"]
      /\ UNCHANGED <<rows, places, people, job, drawn, begun>>
  BY DEF Update, Verdict, Goto, Committed
<1>2. /\ Shape(r) /\ Claim(r) /\ Own(r) /\ job[r].route \in Deciding
      /\ i \in Ids /\ rows[i] # Nothing
  BY <1>1 DEF IInv, Others, Shape, Claim
<1>3. row \in Row /\ row # Nothing
  <2>1. rows[i] \in Row
    BY <1>2 DEF IInv, TypeOK
  <2> QED  BY <2>1, Nulls DEF Row, States, Verdict
<1>4. /\ tx' \in [Requests -> Tx] /\ tx'[r].row = row
      /\ tx'[r].place = tx[r].place /\ tx'[r].person = tx[r].person
      /\ \A q \in Requests \ {r} : tx'[q] = tx[q]
  <2> HIDE DEF row
  <2>1. tx[r] \in Tx
    BY DEF IInv, TypeOK
  <2>2. [tx[r] EXCEPT !.row = row] \in Tx
    BY <1>3, <2>1 DEF Tx
  <2>3. tx' = [tx EXCEPT ![r] = [tx[r] EXCEPT !.row = row]]
    BY <1>1
  <2> QED  BY <2>1, <2>2, <2>3 DEF IInv, TypeOK, Tx
<1>5. /\ lock' \in [Ids -> Requests \cup {Nothing}] /\ lock'[i] = r
      /\ \A k \in Ids \ {i} : lock'[k] = lock[k]
      /\ pc' \in [Requests -> Steps] /\ pc'[r] = "commit"
      /\ \A q \in Requests \ {r} : pc'[q] = pc[q]
  BY <1>1, <1>2 DEF IInv, TypeOK, Steps
<1>6. TypeOK'
  BY <1>1, <1>4, <1>5 DEF IInv, TypeOK
<1>7. Frame(r)
  BY <1>1, <1>4, <1>5, Nulls DEF Frame
<1>8. Shape(r)'
  <2> HIDE DEF row
  <2> QED  BY <1>1, <1>2, <1>3, <1>4, <1>5 DEF Shape, Deciding
<1>9. Claim(r)'
  BY <1>1, <1>2, <1>4, <1>5 DEF Claim, Filing, Deciding, Verdict
<1>10. Own(r)'
  <2>1. ~Filing(r)'
    BY <1>1, <1>2 DEF Filing, Deciding
  <2> QED  BY <1>1, <1>2, <1>4, <2>1 DEF Own, PlaceTaken, EmailTaken
<1>11. RowsAreDrawn'
  BY <1>1, <1>2, <1>5 DEF IInv, RowsAreDrawn
<1> QED  BY <1>1, <1>6, <1>7, <1>8, <1>9, <1>10, <1>11, OneMoves

-----------------------------------------------------------------------------
\* The commit: the row in hand changes from absent to pending, or from pending
\* to decided, and what was opened joins the tables.
LEMMA CommitKeeps ==
  ASSUME IInv, NEW r \in Requests, Commit(r)
  PROVE  IInv'
<1> DEFINE i == job[r].id
           from == IF job[r].route = "accept" THEN job[r].id ELSE Direct
           place == [queue |-> job[r].queue, name |-> tx[r].place, from |-> from]
           person == [queue |-> job[r].queue, email |-> tx[r].person, from |-> from]
<1>1. /\ pc[r] = "commit" /\ Close(r) /\ UNCHANGED <<drawn, begun>>
      /\ rows' = IF tx[r].row = Nothing THEN rows ELSE [rows EXCEPT ![i] = tx[r].row]
      /\ places' = IF tx[r].place = Nothing THEN places ELSE places \cup {place}
      /\ people' = IF tx[r].person = Nothing THEN people ELSE people \cup {person}
  BY DEF Commit
<1>2. TypeOK /\ Shape(r) /\ Claim(r) /\ Own(r)
  BY DEF IInv, Others
<1>3. job[r] \in Jobs /\ tx[r] \in Tx /\ job[r].queue \in Queues
  BY <1>2 DEF TypeOK, Jobs
<1>4. \* A decision.
      job[r].route \in Deciding =>
        /\ i \in Ids /\ rows[i] # Nothing /\ lock[i] = r /\ rows[i].state = "pending"
        /\ rows[i].queue = job[r].queue /\ rows[i].email = job[r].email
        /\ tx[r].row # Nothing
        /\ rows'[i] = [rows[i] EXCEPT !.state = Verdict(r)]
        /\ rows[i] \in Row
  <2>1. ASSUME job[r].route \in Deciding
        PROVE  /\ i \in Ids /\ rows[i] # Nothing /\ lock[i] = r /\ rows[i].state = "pending"
               /\ rows[i].queue = job[r].queue /\ rows[i].email = job[r].email
               /\ tx[r].row = [rows[i] EXCEPT !.state = Verdict(r)]
    BY <1>1, <1>2, <2>1 DEF Claim
  <2>2. job[r].route \in Deciding => tx[r].row # Nothing
    BY <1>1, <1>2 DEF Shape
  <2> QED  BY <1>1, <1>2, <2>1, <2>2 DEF TypeOK
<1>5. \* A row that is filed.
      job[r].route = "file" =>
        /\ i \in Ids /\ rows[i] = Nothing /\ lock[i] = r /\ tx[r].row # Nothing
        /\ rows'[i] = [queue |-> job[r].queue, name |-> job[r].name,
                       email |-> job[r].email, state |-> "pending"]
        /\ job[r].name \in Names /\ job[r].email \in Emails
        /\ PendingOn(job[r].queue, job[r].name) = {}
  <2>1. ASSUME job[r].route = "file"
        PROVE  /\ i \in Ids /\ rows[i] = Nothing /\ lock[i] = r
               /\ tx[r].row = [queue |-> job[r].queue, name |-> job[r].name,
                               email |-> job[r].email, state |-> "pending"]
               /\ PendingOn(job[r].queue, job[r].name) = {}
               /\ Filing(r)
    BY <1>1, <1>2, <2>1 DEF Claim, Filing, Own
  <2>2. job[r].route = "file" =>
          tx[r].row # Nothing /\ job[r].name \in Names /\ job[r].email \in Emails
    BY <1>1, <1>2 DEF Shape
  <2> QED  BY <1>1, <1>2, <2>1, <2>2 DEF TypeOK
<1>6. job[r].route \notin Deciding \cup {"file"} => rows' = rows
  BY <1>1, <1>2 DEF Shape
<1>7. \A k \in Ids : k # i => rows'[k] = rows[k]
  BY <1>1, <1>2 DEF TypeOK
<1>8. \A k \in Ids : rows'[k] # rows[k] =>
         k = i /\ job[r].route \in Deciding \cup {"file"} /\ lock[k] = r
  BY <1>4, <1>5, <1>6, <1>7
<1>9. /\ places \subseteq places' /\ \A p \in places' : p \in places \/ (tx[r].place # Nothing /\ p = place)
      /\ tx[r].place # Nothing => place \in places'
      /\ people \subseteq people' /\ \A p \in people' : p \in people \/ (tx[r].person # Nothing /\ p = person)
      /\ tx[r].person # Nothing => person \in people'
  <2> HIDE DEF place, person
  <2> QED  BY <1>1
<1>10. from \in Origins /\ (from \in Ids => job[r].route = "accept" /\ from = i)
  BY <1>4, Nulls DEF Origins, Deciding
<1> HIDE DEF from
<1>11. /\ place.queue = job[r].queue /\ place.name = tx[r].place /\ place.from = from
       /\ person.queue = job[r].queue /\ person.email = tx[r].person /\ person.from = from
       /\ tx[r].place # Nothing => place \in Place
       /\ tx[r].person # Nothing => person \in Person
  BY <1>3, <1>10 DEF Place, Person, Tx
<1> HIDE DEF place, person
<1>12. TypeOK'
  <2>1. tx[r].row \in Row \cup {Nothing} /\ rows \in [Ids -> Row \cup {Nothing}]
    BY <1>2, <1>3 DEF TypeOK, Tx
  <2>2. rows' = rows \/ rows' = [rows EXCEPT ![i] = tx[r].row]
    BY <1>1
  <2>3. rows' \in [Ids -> Row \cup {Nothing}]
    BY <2>1, <2>2
  <2>4. places' \subseteq Place /\ people' \subseteq Person
    BY <1>2, <1>9, <1>11 DEF TypeOK
  <2> QED  BY <1>1, <1>2, <2>3, <2>4, CloseFacts DEF TypeOK
<1>13. Shape(r)' /\ Claim(r)' /\ Own(r)'
  BY <1>1, <1>2, CloseFacts DEF Shape, Claim, Own, Filing, Deciding
<1>14. Frame(r)
  BY <1>1, <1>2, CloseFacts
<1>15. ASSUME NEW q \in Requests \ {r}
       PROVE  Shape(q)' /\ Claim(q)' /\ Own(q)'
  <2>1. /\ pc'[q] = pc[q] /\ tx'[q] = tx[q] /\ job'[q] = job[q]
        /\ \A k \in Ids : lock[k] = q => lock'[k] = q
    BY <1>14 DEF Frame
  <2>2. Shape(q) /\ Claim(q) /\ Own(q)
    BY DEF IInv, Others
  <2>3. Shape(q)'
    BY <2>1, <2>2 DEF Shape
  <2>4. Claim(q)'
    <3> DEFINE k == job[q].id
    <3>1. ASSUME job[q].route \in Deciding
          PROVE  /\ k \in Ids /\ rows'[k] # Nothing
                 /\ rows'[k].queue = job[q].queue /\ rows'[k].email = job[q].email
                 /\ pc[q] # "lock" => lock'[k] = q /\ rows'[k].state = "pending"
                 /\ pc[q] = "commit" => tx[q].row = [rows'[k] EXCEPT !.state = Verdict(q)]
      <4>1. /\ k \in Ids /\ rows[k] # Nothing
            /\ rows[k].queue = job[q].queue /\ rows[k].email = job[q].email
            /\ pc[q] # "lock" => lock[k] = q /\ rows[k].state = "pending"
            /\ pc[q] = "commit" => tx[q].row = [rows[k] EXCEPT !.state = Verdict(q)]
        BY <2>2, <3>1 DEF Claim
      <4>2. CASE rows'[k] = rows[k]
        BY <2>1, <4>1, <4>2
      <4>3. CASE rows'[k] # rows[k]
        <5>1. k = i /\ lock[k] = r /\ job[r].route \in Deciding
          BY <1>5, <1>8, <4>1, <4>3
        <5>2. pc[q] = "lock"
          BY <4>1, <5>1
        <5>3. rows'[k] = [rows[k] EXCEPT !.state = Verdict(r)] /\ rows[k] \in Row
          BY <1>4, <5>1
        <5>4. rows'[k] \in Row
          BY <5>3 DEF Row, States, Verdict
        <5> QED  BY <4>1, <5>2, <5>3, <5>4, Nulls DEF Row
      <4> QED  BY <4>2, <4>3
    <3>2. ASSUME Filing(q)
          PROVE  k \in Ids /\ rows'[k] = Nothing /\ lock'[k] = q
      <4>1. k \in Ids /\ rows[k] = Nothing /\ lock[k] = q
        BY <2>2, <3>2 DEF Claim
      <4> QED  BY <1>8, <2>1, <4>1
    <3>3. Filing(q)' => Filing(q)
      BY <2>1 DEF Filing
    <3>4. Verdict(q)' = Verdict(q)
      BY <2>1 DEF Verdict
    <3> QED  BY <2>1, <2>2, <3>1, <3>2, <3>3, <3>4 DEF Claim
  <2>5. ASSUME Filing(q)'
        PROVE  /\ PendingOn(job[q].queue, job[q].name)' = {}
               /\ \A p \in Requests \ {q} :
                    (Filing(p) /\ job[p].queue = job[q].queue => job[p].name # job[q].name)'
    <3>1. Filing(q) /\ PendingOn(job[q].queue, job[q].name) = {}
      BY <2>1, <2>2, <2>5 DEF Filing, Own
    <3>2. ASSUME NEW k \in Ids, rows'[k] # Nothing, rows'[k].queue = job[q].queue,
                 rows'[k].state = "pending", rows'[k].name = job[q].name
          PROVE  FALSE
      <4>1. CASE rows'[k] = rows[k]
        BY <3>1, <3>2, <4>1 DEF PendingOn, Pending
      <4>2. CASE rows'[k] # rows[k] /\ job[r].route \in Deciding
        BY <1>4, <1>8, <3>2, <4>2 DEF Row, Verdict
      <4>3. CASE rows'[k] # rows[k] /\ job[r].route = "file"
        <5>1. Filing(r)
          BY <1>1, <4>3 DEF Filing
        <5>2. job[r].queue = job[q].queue /\ job[r].name = job[q].name
          BY <1>5, <1>8, <3>2, <4>3
        <5> QED  BY <2>2, <3>1, <5>1, <5>2 DEF Own
      <4> QED  BY <1>8, <4>1, <4>2, <4>3
    <3>3. PendingOn(job[q].queue, job[q].name)' = {}
      BY <2>1, <3>2 DEF PendingOn, Pending
    <3>4. \A p \in Requests \ {q} : Filing(p)' =>
            p # r /\ Filing(p) /\ job'[p] = job[p]
      BY <1>1, <1>2, <1>14, CloseFacts DEF Filing, Frame
    <3> QED  BY <2>1, <2>2, <3>1, <3>3, <3>4 DEF Own
  <2>6. ASSUME tx'[q].place # Nothing
        PROVE  /\ ~PlaceTaken(job[q].queue, tx[q].place)'
               /\ \A p \in Requests \ {q} :
                    tx'[p].place = tx'[q].place => job'[p].queue # job'[q].queue
    <3>1. /\ tx[q].place # Nothing /\ ~PlaceTaken(job[q].queue, tx[q].place)
          /\ \A p \in Requests \ {q} : tx[p].place = tx[q].place => job[p].queue # job[q].queue
      BY <2>1, <2>2, <2>6 DEF Own
    <3>2. ~PlaceTaken(job[q].queue, tx[q].place)'
      BY <1>9, <1>11, <2>1, <3>1 DEF PlaceTaken
    <3>3. \A p \in Requests \ {q} : p = r \/ (tx'[p] = tx[p] /\ job'[p] = job[p])
      BY <1>14 DEF Frame
    <3> QED  BY <1>1, <1>2, <2>1, <2>6, <3>1, <3>2, <3>3, CloseFacts
  <2>7. ASSUME tx'[q].person # Nothing, job'[q].queue = "team"
        PROVE  /\ ~EmailTaken("team", tx[q].person)'
               /\ \A p \in Requests \ {q} :
                    tx'[p].person = tx'[q].person => job'[p].queue # "team"
    <3>1. /\ tx[q].person # Nothing /\ ~EmailTaken("team", tx[q].person)
          /\ \A p \in Requests \ {q} : tx[p].person = tx[q].person => job[p].queue # "team"
      BY <2>1, <2>2, <2>7 DEF Own
    <3>2. ~EmailTaken("team", tx[q].person)'
      BY <1>9, <1>11, <2>1, <3>1 DEF EmailTaken
    <3>3. \A p \in Requests \ {q} : p = r \/ (tx'[p] = tx[p] /\ job'[p] = job[p])
      BY <1>14 DEF Frame
    <3> QED  BY <1>1, <1>2, <2>1, <2>7, <3>1, <3>2, <3>3, CloseFacts
  <2>8. Own(q)'
    BY <2>5, <2>6, <2>7 DEF Own
  <2> QED  BY <2>3, <2>4, <2>8
<1>16. RowsAreDrawn'
  <2>1. ASSUME NEW k \in Ids, rows'[k] # Nothing \/ lock'[k] # Nothing
        PROVE  rows[k] # Nothing \/ lock[k] # Nothing
    <3>1. lock'[k] # Nothing => lock[k] # Nothing
      BY <1>1, <1>2, CloseFacts
    <3> QED  BY <1>8, <2>1, <3>1, Nulls
  <2> QED  BY <1>1, <2>1 DEF IInv, RowsAreDrawn
<1>17. Indexed'
  <2>1. ASSUME NEW a \in Ids, NEW b \in Ids,
               rows'[a] # Nothing, rows'[b] # Nothing,
               rows'[a].queue = rows'[b].queue, rows'[a].name = rows'[b].name,
               rows'[a].state = "pending", rows'[b].state = "pending", a # b
        PROVE  FALSE
    <3>1. \A k \in {a, b} : rows'[k] # rows[k] => job[r].route = "file" /\ k = i
      BY <1>4, <1>8, <2>1 DEF Row, Verdict
    <3>2. CASE rows'[a] = rows[a] /\ rows'[b] = rows[b]
      BY <2>1, <3>2 DEF IInv, Indexed
    <3>3. ASSUME NEW k \in {a, b}, NEW l \in {a, b}, k # l, rows'[k] # rows[k]
          PROVE  FALSE
      <4>1. /\ job[r].route = "file" /\ k = i /\ rows'[l] = rows[l]
            /\ rows'[k].queue = job[r].queue /\ rows'[k].name = job[r].name
        BY <1>5, <3>1, <3>3
      <4>2. l \in PendingOn(job[r].queue, job[r].name)
        BY <2>1, <3>3, <4>1 DEF PendingOn, Pending
      <4> QED  BY <1>5, <4>1, <4>2
    <3> QED  BY <2>1, <3>2, <3>3
  <2>2. ASSUME NEW p1 \in places', NEW p2 \in places', p1.queue = p2.queue, p1.name = p2.name
        PROVE  p1 = p2
    <3>1. tx[r].place # Nothing => ~PlaceTaken(job[r].queue, tx[r].place)
      BY <1>2 DEF Own
    <3> QED  BY <1>9, <1>11, <2>2, <3>1 DEF IInv, Indexed, PlaceTaken
  <2>3. ASSUME NEW p1 \in people', NEW p2 \in people', p1.queue = "team", p2.queue = "team",
               p1.email = p2.email
        PROVE  p1 = p2
    <3>1. tx[r].person # Nothing /\ job[r].queue = "team" => ~EmailTaken("team", tx[r].person)
      BY <1>2 DEF Own
    <3> QED  BY <1>9, <1>11, <2>3, <3>1 DEF IInv, Indexed, EmailTaken
  <2> QED  BY <2>1, <2>2, <2>3 DEF Indexed
<1>18. Opened'
  <2>1. Opened
    BY DEF IInv
  <2>2. \A k \in Ids, p \in places \cup people : p.from = k =>
          rows[k] # Nothing /\ rows[k].state = "accepted" /\ rows'[k] = rows[k]
    <3>1. ASSUME NEW k \in Ids, rows[k] # Nothing, rows[k].state = "accepted"
          PROVE  rows'[k] = rows[k]
      BY <1>4, <1>5, <1>8, <3>1
    <3> QED  BY <2>1, <3>1 DEF Opened
  <2>3. \* What this commit opens.
        ASSUME NEW k \in Ids, from = k
        PROVE  /\ k = i /\ job[r].route = "accept" /\ rows[k].state = "pending"
               /\ rows'[k] # Nothing /\ rows'[k].state = "accepted"
    <3>1. k = i /\ job[r].route = "accept"
      BY <1>10, <2>3
    <3>2. rows[k].state = "pending" /\ rows[k] \in Row /\ rows'[k] = [rows[k] EXCEPT !.state = "accepted"]
      BY <1>4, <3>1 DEF Deciding, Verdict
    <3>3. rows'[k] \in Row /\ rows'[k].state = "accepted"
      BY <3>2 DEF Row, States
    <3> QED  BY <3>1, <3>2, <3>3, Nulls
  <2>4. ASSUME NEW k \in Ids, NEW p \in places' \cup people', p.from = k
        PROVE  rows'[k] # Nothing /\ rows'[k].state = "accepted"
    BY <1>9, <1>11, <2>2, <2>3, <2>4
  <2>5. ASSUME NEW k \in Ids, NEW p1 \in places', NEW p2 \in places', p1.from = k, p2.from = k
        PROVE  p1 = p2
    <3>1. CASE p1 \in places /\ p2 \in places
      BY <2>1, <2>5, <3>1 DEF Opened
    <3>2. CASE p1 = place \/ p2 = place
      <4>1. from = k
        BY <1>11, <2>5, <3>2
      <4>2. p1 \notin places /\ p2 \notin places
        BY <2>2, <2>3, <2>5, <4>1
      <4> QED  BY <1>9, <4>2
    <3> QED  BY <1>9, <3>1, <3>2
  <2>6. ASSUME NEW k \in Ids, NEW p1 \in people', NEW p2 \in people', p1.from = k, p2.from = k
        PROVE  p1 = p2
    <3>1. CASE p1 \in people /\ p2 \in people
      BY <2>1, <2>6, <3>1 DEF Opened
    <3>2. CASE p1 = person \/ p2 = person
      <4>1. from = k
        BY <1>11, <2>6, <3>2
      <4>2. p1 \notin people /\ p2 \notin people
        BY <2>2, <2>3, <2>6, <4>1
      <4> QED  BY <1>9, <4>2
    <3> QED  BY <1>9, <3>1, <3>2
  <2>7. ASSUME NEW k \in Ids, rows'[k] # Nothing, rows'[k].state = "accepted"
        PROVE  /\ \E p \in places' : p.from = k /\ p.queue = rows'[k].queue
               /\ \E p \in people' : p.from = k /\ p.email = rows'[k].email
    <3>1. CASE rows'[k] = rows[k]
      BY <1>9, <2>1, <2>7, <3>1 DEF Opened
    <3>2. CASE rows'[k] # rows[k]
      <4>1. k = i /\ job[r].route \in Deciding
        BY <1>5, <1>8, <2>7, <3>2
      <4>2. /\ rows[i] \in Row /\ rows'[i] = [rows[i] EXCEPT !.state = Verdict(r)]
            /\ rows[i].queue = job[r].queue /\ rows[i].email = job[r].email
        BY <1>4, <4>1
      <4>3. /\ rows'[i].state = Verdict(r)
            /\ rows'[i].queue = job[r].queue /\ rows'[i].email = job[r].email
        BY <4>2 DEF Row
      <4>4. job[r].route = "accept"
        BY <2>7, <4>1, <4>3 DEF Verdict
      <4>5. /\ tx[r].place # Nothing /\ tx[r].person # Nothing /\ tx[r].person = job[r].email
            /\ from = i
        BY <1>1, <1>2, <4>4 DEF Shape, from
      <4> QED  BY <1>9, <1>11, <4>1, <4>3, <4>5
    <3> QED  BY <3>1, <3>2
  <2> QED  BY <2>4, <2>5, <2>6, <2>7 DEF Opened
<1>19. Others'
  BY <1>13, <1>15 DEF Others
<1> QED  BY <1>12, <1>16, <1>17, <1>18, <1>19 DEF IInv

\* A team that takes another name keeps its queue and its origin, and the name
\* is in no table and in nobody's hands.
LEMMA RenameKeeps ==
  ASSUME IInv, Rename
  PROVE  IInv'
<1>1. PICK p \in places, n \in Names :
         /\ p.queue = "team" /\ ~PlaceTaken("team", n)
         /\ \A r \in Requests : job[r].queue = "team" => tx[r].place # n
         /\ places' = (places \ {p}) \cup {[p EXCEPT !.name = n]}
  BY DEF Rename
<1>2. UNCHANGED <<rows, people, lock, tx, pc, job, drawn, begun>>
  BY DEF Rename
<1>3. PICK new : new = [p EXCEPT !.name = n]
  OBVIOUS
<1>4. /\ new \in Place /\ new.queue = "team" /\ new.name = n /\ new.from = p.from
      /\ places' = (places \ {p}) \cup {new}
  BY <1>1, <1>3 DEF IInv, TypeOK, Place
<1>5. TypeOK'
  BY <1>2, <1>4 DEF IInv, TypeOK
<1>6. ASSUME NEW r \in Requests
      PROVE  Shape(r)' /\ Claim(r)' /\ Own(r)'
  <2>1. Shape(r) /\ Claim(r) /\ Own(r)
    BY DEF IInv, Others
  <2>2. Shape(r)' /\ Claim(r)'
    BY <1>2, <2>1 DEF Shape, Claim, Filing, Verdict
  <2>3. tx[r].place # Nothing => ~PlaceTaken(job[r].queue, tx[r].place)'
    BY <1>1, <1>2, <1>4, <2>1 DEF Own, PlaceTaken
  <2>4. Own(r)'
    BY <1>2, <2>1, <2>3 DEF Own, Filing, PendingOn, Pending, EmailTaken
  <2> QED  BY <2>2, <2>4
<1>7. RowsAreDrawn'
  BY <1>2 DEF IInv, RowsAreDrawn
<1>8. Indexed'
  <2>1. \A p1, p2 \in places' : p1.queue = p2.queue /\ p1.name = p2.name => p1 = p2
    BY <1>1, <1>4 DEF IInv, Indexed, PlaceTaken
  <2> QED  BY <1>2, <2>1 DEF IInv, Indexed
<1>9. Opened'
  <2>1. ASSUME NEW k \in Ids
        PROVE  /\ \A q \in places' : q.from = k => \E o \in places : o.from = k
               /\ \A p1, p2 \in places' : p1.from = k /\ p2.from = k => p1 = p2
               /\ \A o \in places : o.from = k =>
                    \E q \in places' : q.from = k /\ q.queue = o.queue
    BY <1>1, <1>4 DEF IInv, Opened
  <2>2. ASSUME NEW k \in Ids
        PROVE  /\ \A q \in places \cup people : q.from = k => rows[k] # Nothing /\ rows[k].state = "accepted"
               /\ \A p1, p2 \in people : p1.from = k /\ p2.from = k => p1 = p2
               /\ rows[k] # Nothing /\ rows[k].state = "accepted" =>
                    /\ \E q \in places : q.from = k /\ q.queue = rows[k].queue
                    /\ \E q \in people : q.from = k /\ q.email = rows[k].email
    BY DEF IInv, Opened
  <2>3. ASSUME NEW k \in Ids
        PROVE  /\ \A q \in places' \cup people' : q.from = k => rows'[k] # Nothing /\ rows'[k].state = "accepted"
               /\ rows'[k] # Nothing /\ rows'[k].state = "accepted" =>
                    /\ \E q \in places' : q.from = k /\ q.queue = rows'[k].queue
                    /\ \E q \in people' : q.from = k /\ q.email = rows'[k].email
    <3>1. rows' = rows /\ people' = people
      BY <1>2
    <3>2. \A q \in places' \cup people' : q.from = k => \E o \in places \cup people : o.from = k
      BY <2>1, <3>1
    <3> QED  BY <2>1, <2>2, <3>1, <3>2
  <2> QED  BY <1>2, <2>1, <2>2, <2>3 DEF Opened
<1>10. Others'
  BY <1>6 DEF Others
<1> QED  BY <1>5, <1>7, <1>8, <1>9, <1>10 DEF IInv

LEMMA StepKeeps ==
  ASSUME IInv, [Next]_vars
  PROVE  IInv'
<1> HIDE DEF IInv
<1>1. ASSUME NEW r \in Requests, Step(r) \/ Fail(r)
      PROVE  IInv'
  <2>1. CASE Refuse(r)
    BY <2>1, RefuseKeeps
  <2>2. CASE ~Refuse(r)
    BY <1>1, <2>2, SelectKeeps, InsertKeeps, LockRowKeeps, OpenPlaceKeeps, OpenPersonKeeps,
       UpdateKeeps, CommitKeeps DEF Step, Fail
  <2> QED  BY <2>1, <2>2
<1>2. CASE UNCHANGED vars
  BY <1>2 DEF vars, IInv, TypeOK, Others, Shape, Claim, Own, Filing, Verdict, PendingOn,
              Pending, PlaceTaken, EmailTaken, RowsAreDrawn, Indexed, Opened
<1> QED  BY <1>1, <1>2, BeginsKeep, RenameKeeps DEF Next

LEMMA InitHolds ==
  ASSUME Init
  PROVE  IInv
<1>1. \A r \in Requests : pc[r] = "idle" /\ job[r] = NoJob /\ tx[r] = NoTx
  BY DEF Init
<1>2. \A k \in Ids : rows[k] = Nothing /\ lock[k] = Nothing
  BY DEF Init
<1>3. TypeOK
  BY Nulls, NoJobTypes DEF Init, TypeOK, Steps
<1>4. Others
  BY <1>1, NoJobTypes DEF Others, Shape, Claim, Own, Filing, Deciding
<1> QED  BY <1>2, <1>3, <1>4 DEF Init, IInv, RowsAreDrawn, Indexed, Opened

-----------------------------------------------------------------------------
\* What every statement of every request keeps true of the two queues
\* (routeTeamRequest, routeDecideTeamRequest and theirs on the instance).
THEOREM RequestsInOrder == Spec => []IInv
<1>1. Init => IInv
  BY InitHolds
<1>2. IInv /\ [Next]_vars => IInv'
  BY StepKeeps
<1> QED  BY <1>1, <1>2, PTL DEF Spec

\* The state of routeTeamRequest, routeRequestCampaign and their decisions is
\* what the module says it is.
THEOREM RequestsTyped == Spec => []TypeOK
<1>1. IInv => TypeOK
  BY DEF IInv
<1> QED  BY <1>1, RequestsInOrder, PTL

\* An accepted request has opened one place and one account, any other none,
\* and no pending name, team, campaign or address is there twice: what the
\* indexes and routeDecideTeamRequest's transaction promise together.
THEOREM DecisionsAreAlwaysWhole == Spec => []DecisionsAreWhole
<1>1. ASSUME IInv
      PROVE  Unique
  <2>1. ASSUME NEW q \in Queues, NEW n \in Names
        PROVE  Cardinality(PendingOn(q, n)) <= 1
    <3>1. \A a, b \in PendingOn(q, n) : a = b
      BY <1>1 DEF IInv, Indexed, PendingOn, Pending
    <3>2. PendingOn(q, n) = {} \/ \E a : PendingOn(q, n) = {a}
      BY <3>1
    <3>3. Cardinality(PendingOn(q, n)) \in {0, 1}
      BY <3>2, FS_EmptySet, FS_Singleton
    <3> QED  BY <3>3
  <2> QED  BY <1>1, <2>1 DEF IInv, Indexed, Unique
<1>2. ASSUME IInv, NEW k \in Ids
      PROVE  IF rows[k] # Nothing /\ rows[k].state = "accepted"
             THEN /\ \E p \in places : {o \in places : o.from = k} = {p} /\ p.queue = rows[k].queue
                  /\ \E p \in people : {o \in people : o.from = k} = {p} /\ p.email = rows[k].email
             ELSE {o \in places : o.from = k} = {} /\ {o \in people : o.from = k} = {}
  <2>1. /\ \A p \in places \cup people : p.from = k => rows[k] # Nothing /\ rows[k].state = "accepted"
        /\ \A p1, p2 \in places : p1.from = k /\ p2.from = k => p1 = p2
        /\ \A p1, p2 \in people : p1.from = k /\ p2.from = k => p1 = p2
    BY <1>2 DEF IInv, Opened
  <2>2. ASSUME rows[k] # Nothing, rows[k].state = "accepted"
        PROVE  \E p \in places : {o \in places : o.from = k} = {p} /\ p.queue = rows[k].queue
    <3>1. PICK p \in places : p.from = k /\ p.queue = rows[k].queue
      BY <1>2, <2>2 DEF IInv, Opened
    <3> QED  BY <2>1, <3>1
  <2>3. ASSUME rows[k] # Nothing, rows[k].state = "accepted"
        PROVE  \E p \in people : {o \in people : o.from = k} = {p} /\ p.email = rows[k].email
    <3>1. PICK p \in people : p.from = k /\ p.email = rows[k].email
      BY <1>2, <2>3 DEF IInv, Opened
    <3> QED  BY <2>1, <3>1
  <2> QED  BY <2>1, <2>2, <2>3
<1>3. IInv => DecisionsAreWhole
  <2>1. ASSUME IInv, NEW k \in Ids,
               NEW opened, opened = {o \in places : o.from = k},
               NEW accounts, accounts = {o \in people : o.from = k}
        PROVE  IF rows[k] # Nothing /\ rows[k].state = "accepted"
               THEN /\ \E p \in opened : opened = {p} /\ p.queue = rows[k].queue
                    /\ \E p \in accounts : accounts = {p} /\ p.email = rows[k].email
               ELSE opened = {} /\ accounts = {}
    BY <1>2, <2>1
  <2> QED  BY <1>1, <2>1 DEF DecisionsAreWhole
<1> QED  BY <1>3, RequestsInOrder, PTL

\* Of two moderators on one request, one decides it: a committed row changes
\* once, from pending, and in nothing but its state.
THEOREM EachDecidedOnce == Spec => DecidedOnce
<1>1. ASSUME IInv, Next, NEW k \in Ids, rows[k] # Nothing, rows'[k] # rows[k]
      PROVE  /\ rows[k].state = "pending"
             /\ rows'[k] # Nothing /\ rows'[k] = [rows[k] EXCEPT !.state = rows'[k].state]
  <2>1. PICK r \in Requests : Commit(r)
    BY <1>1 DEF Next, BeginFile, BeginAccept, BeginRefuse, BeginOpen, BeginAccount, Begin, Step,
                CheckPlace, CheckPending, Count, InsertRow, LockRow, Vacant, OpenPlace,
                OpenPerson, Update, Ask, Fail, Refuse, Rename, Committed
  <2>2. TypeOK /\ Shape(r) /\ Claim(r) /\ pc[r] = "commit"
    BY <1>1, <2>1 DEF IInv, Others, Commit
  <2>3. tx[r].row # Nothing /\ rows' = [rows EXCEPT ![job[r].id] = tx[r].row]
    BY <1>1, <2>1 DEF Commit
  <2>4. k = job[r].id /\ rows'[k] = tx[r].row
    BY <1>1, <2>2, <2>3 DEF TypeOK
  <2>5. job[r].route \in Deciding
    BY <1>1, <2>2, <2>3, <2>4 DEF Shape, Claim, Filing
  <2>6. /\ rows[k].state = "pending" /\ rows[k] \in Row
        /\ rows'[k] = [rows[k] EXCEPT !.state = Verdict(r)]
    BY <1>1, <2>2, <2>4, <2>5 DEF Claim, TypeOK
  <2>7. rows'[k] \in Row /\ rows'[k].state = Verdict(r)
    BY <2>6 DEF Row, States, Verdict
  <2> QED  BY <2>6, <2>7, Nulls
<1> DEFINE Once ==
      \A i \in Ids :
        rows[i] # Nothing /\ rows'[i] # rows[i] =>
          /\ rows[i].state = "pending"
          /\ rows'[i] # Nothing /\ rows'[i] = [rows[i] EXCEPT !.state = rows'[i].state]
<1>2. IInv /\ [Next]_vars => [Once]_vars
  BY <1>1
<1> QED  BY <1>2, RequestsInOrder, PTL DEF Spec, DecidedOnce

-----------------------------------------------------------------------------
\* The requests whose row the ceiling has let in, and that have not committed.
LetIn(q) == {r \in Requests : job[r].queue = q /\ (pc[r] = "insert" \/ Filing(r))}

SlackHeld ==
  \A q \in Queues :
    Cardinality(Pending(q)) + Cardinality(LetIn(q)) <= MaxPending - 1 + Cardinality(Requests)

LEMMA Sizes ==
  ASSUME NEW q \in Queues
  PROVE  /\ IsFiniteSet(Pending(q)) /\ IsFiniteSet(LetIn(q))
         /\ Cardinality(Pending(q)) \in Nat /\ Cardinality(LetIn(q)) \in Nat
         /\ Cardinality(LetIn(q)) <= Cardinality(Requests) /\ Cardinality(Requests) \in Nat
<1>1. IsFiniteSet(Ids) /\ Pending(q) \in SUBSET Ids
  BY Nulls, FS_Interval DEF Ids, Pending
<1>2. IsFiniteSet(Requests) /\ LetIn(q) \in SUBSET Requests
  BY Nulls DEF LetIn
<1>3. IsFiniteSet(Pending(q))
  BY <1>1, FS_Subset
<1>4. IsFiniteSet(LetIn(q)) /\ Cardinality(LetIn(q)) <= Cardinality(Requests)
  BY <1>2, FS_Subset
<1> QED  BY <1>2, <1>3, <1>4, FS_CardinalityType

LEMMA SizesAfter ==
  ASSUME NEW q \in Queues
  PROVE  /\ IsFiniteSet(Pending(q)') /\ IsFiniteSet(LetIn(q)')
         /\ Cardinality(Pending(q)') \in Nat /\ Cardinality(LetIn(q)') \in Nat
         /\ Cardinality(LetIn(q)') <= Cardinality(Requests)
<1>1. IsFiniteSet(Ids) /\ Pending(q)' \in SUBSET Ids
  BY Nulls, FS_Interval DEF Ids, Pending
<1>2. IsFiniteSet(Requests) /\ LetIn(q)' \in SUBSET Requests
  BY Nulls DEF LetIn
<1>3. IsFiniteSet(Pending(q)')
  BY <1>1, FS_Subset
<1>4. IsFiniteSet(LetIn(q)') /\ Cardinality(LetIn(q)') <= Cardinality(Requests)
  BY <1>2, FS_Subset
<1> QED  BY <1>2, <1>3, <1>4, FS_CardinalityType

\* A step that lets nobody in and files nothing.
LEMMA NobodyIn ==
  ASSUME SlackHeld, NEW q \in Queues,
         Pending(q)' \subseteq Pending(q), LetIn(q)' \subseteq LetIn(q)
  PROVE  Cardinality(Pending(q)') + Cardinality(LetIn(q)') <= MaxPending - 1 + Cardinality(Requests)
<1>1. Cardinality(Pending(q)') <= Cardinality(Pending(q))
  BY Sizes, FS_Subset
<1>2. Cardinality(LetIn(q)') <= Cardinality(LetIn(q))
  BY Sizes, FS_Subset
<1>3. Cardinality(Pending(q)) + Cardinality(LetIn(q)) <= MaxPending - 1 + Cardinality(Requests)
  BY DEF SlackHeld
<1> QED  BY <1>1, <1>2, <1>3, Sizes, SizesAfter, Nulls

\* « A bound with slack, not an invariant » (routeTeamRequest): what the ceiling
\* lets in at once is what may pass it, however many come after.
THEOREM TheCeilingHasItsSlack == Spec => []CeilingSlack
<1>1. Init => SlackHeld
  <2>1. ASSUME Init, NEW q \in Queues
        PROVE  Pending(q) = {} /\ LetIn(q) = {}
    BY <2>1 DEF Init, Pending, LetIn, Filing
  <2>2. ASSUME Init, NEW q \in Queues
        PROVE  Cardinality(Pending(q)) + Cardinality(LetIn(q)) <= MaxPending - 1 + Cardinality(Requests)
    <3>1. Cardinality(Pending(q)) = 0 /\ Cardinality(LetIn(q)) = 0
      BY <2>1, <2>2, FS_EmptySet
    <3> QED  BY <3>1, Sizes, Nulls
  <2> QED  BY <2>2 DEF SlackHeld
<1>2. ASSUME IInv, SlackHeld, Next
      PROVE  SlackHeld'
  <2> SUFFICES ASSUME NEW q \in Queues
               PROVE  Cardinality(Pending(q)') + Cardinality(LetIn(q)')
                        <= MaxPending - 1 + Cardinality(Requests)
    BY DEF SlackHeld
  <2>1. TypeOK
    BY <1>2 DEF IInv
  <2>2. ASSUME NEW r \in Requests, rows' = rows, r \in LetIn(q)' => r \in LetIn(q),
               \A p \in Requests \ {r} : pc'[p] = pc[p] /\ job'[p] = job[p]
        PROVE  Cardinality(Pending(q)') + Cardinality(LetIn(q)')
                 <= MaxPending - 1 + Cardinality(Requests)
    <3>1. Pending(q)' \subseteq Pending(q)
      BY <2>2 DEF Pending
    <3>2. LetIn(q)' \subseteq LetIn(q)
      BY <2>2 DEF LetIn, Filing
    <3> QED  BY <1>2, <3>1, <3>2, NobodyIn
  <2>3. ASSUME NEW r \in Requests, Refuse(r)
        PROVE  Cardinality(Pending(q)') + Cardinality(LetIn(q)')
                 <= MaxPending - 1 + Cardinality(Requests)
    <3>1. rows' = rows /\ Frame(r) /\ pc'[r] = "idle"
      BY <2>1, <2>3, CloseFacts DEF Refuse, Committed
    <3>2. r \notin LetIn(q)'
      BY <3>1 DEF LetIn, Filing
    <3> QED  BY <2>2, <3>1, <3>2 DEF Frame
  <2>4. ASSUME NEW r \in Requests,
               \/ BeginFile(r) \/ BeginAccept(r) \/ BeginRefuse(r)
               \/ BeginOpen(r) \/ BeginAccount(r)
        PROVE  Cardinality(Pending(q)') + Cardinality(LetIn(q)')
                 <= MaxPending - 1 + Cardinality(Requests)
    <3>1. \E s \in {"place", "lock", "vacant", "open", "person"} : \E j : Begin(r, s, j)
      BY <2>4 DEF BeginFile, BeginAccept, BeginRefuse, BeginOpen, BeginAccount
    <3>2. PICK s \in {"place", "lock", "vacant", "open", "person"} :
             \E j : pc' = [pc EXCEPT ![r] = s] /\ job' = [job EXCEPT ![r] = j] /\ rows' = rows
      BY <3>1 DEF Begin, Goto, Committed
    <3>3. pc'[r] = s /\ \A p \in Requests \ {r} : pc'[p] = pc[p] /\ job'[p] = job[p]
      BY <2>1, <3>2 DEF TypeOK
    <3>4. r \notin LetIn(q)'
      BY <3>3 DEF LetIn, Filing
    <3> QED  BY <2>2, <3>2, <3>3, <3>4
  <2>5. ASSUME NEW r \in Requests, ~Refuse(r),
               \/ CheckPlace(r) \/ CheckPending(r) \/ LockRow(r) \/ Vacant(r)
               \/ OpenPlace(r) \/ OpenPerson(r) \/ Update(r)
        PROVE  Cardinality(Pending(q)') + Cardinality(LetIn(q)')
                 <= MaxPending - 1 + Cardinality(Requests)
    <3>1. PICK s \in {"pending", "count", "vacant", "update", "open", "person", "commit"} :
             pc' = [pc EXCEPT ![r] = s] /\ job' = job /\ rows' = rows
      BY <2>5 DEF CheckPlace, CheckPending, LockRow, Vacant, OpenPlace, OpenPerson, Update, Ask,
                  Goto, Committed, AfterLock, AfterPerson
    <3>2. job[r].route = "file" => s # "commit"
      <4>1. Shape(r) /\ pc[r] \in {"open", "person", "update"} => job[r].route # "file"
        BY DEF Shape, Deciding
      <4>2. Shape(r)
        BY <1>2 DEF IInv, Others
      <4>3. pc'[r] = s
        BY <2>1, <3>1 DEF TypeOK
      <4>4. s = "commit" => pc[r] \in {"open", "person", "update"}
        BY <2>1, <2>5, <4>3
           DEF TypeOK, CheckPlace, CheckPending, LockRow, Vacant, OpenPlace, OpenPerson, Update,
               Ask, Goto, AfterLock
      <4> QED  BY <4>1, <4>2, <4>4
    <3>3. pc'[r] = s /\ \A p \in Requests \ {r} : pc'[p] = pc[p] /\ job'[p] = job[p]
      BY <2>1, <3>1 DEF TypeOK
    <3>4. r \notin LetIn(q)'
      BY <3>1, <3>2, <3>3 DEF LetIn, Filing
    <3> QED  BY <2>2, <3>1, <3>3, <3>4
  <2>6. ASSUME NEW r \in Requests, ~Refuse(r), InsertRow(r)
        PROVE  Cardinality(Pending(q)') + Cardinality(LetIn(q)')
                 <= MaxPending - 1 + Cardinality(Requests)
    <3>1. /\ pc[r] = "insert" /\ rows' = rows /\ job' = [job EXCEPT ![r].id = drawn + 1]
          /\ pc' = [pc EXCEPT ![r] = "commit"]
      BY <2>6 DEF InsertRow, Goto, Committed
    <3>2. /\ job'[r].queue = job[r].queue
          /\ \A p \in Requests \ {r} : pc'[p] = pc[p] /\ job'[p] = job[p]
      BY <2>1, <3>1 DEF TypeOK, Jobs
    <3>3. r \in LetIn(q)' => r \in LetIn(q)
      BY <3>1, <3>2 DEF LetIn
    <3> QED  BY <2>2, <3>1, <3>2, <3>3
  <2>7. ASSUME NEW r \in Requests, ~Refuse(r), Count(r)
        PROVE  Cardinality(Pending(q)') + Cardinality(LetIn(q)')
                 <= MaxPending - 1 + Cardinality(Requests)
    <3>1. /\ pc' = [pc EXCEPT ![r] = "insert"] /\ job' = job /\ rows' = rows
          /\ ~(Cardinality(Pending(job[r].queue)) >= MaxPending)
      BY <2>7 DEF Count, Ask, Goto, Committed
    <3>2. \A p \in Requests \ {r} : pc'[p] = pc[p] /\ job'[p] = job[p]
      BY <2>1, <3>1 DEF TypeOK
    <3>3. CASE job[r].queue # q
      <4>1. r \notin LetIn(q)'
        BY <3>1, <3>3 DEF LetIn
      <4> QED  BY <2>2, <3>1, <3>2, <4>1
    <3>4. CASE job[r].queue = q
      <4>1. Pending(q)' = Pending(q)
        BY <3>1 DEF Pending
      <4>2. Cardinality(Pending(q)') <= MaxPending - 1
        BY <3>1, <3>4, <4>1, Sizes, Nulls
      <4> QED  BY <4>2, Sizes, SizesAfter, Nulls
    <3> QED  BY <3>3, <3>4
  <2>8. ASSUME NEW r \in Requests, Commit(r)
        PROVE  Cardinality(Pending(q)') + Cardinality(LetIn(q)')
                 <= MaxPending - 1 + Cardinality(Requests)
    <3>1. Shape(r) /\ Claim(r) /\ Own(r) /\ pc[r] = "commit" /\ Frame(r) /\ pc'[r] = "idle"
      BY <1>2, <2>8, CloseFacts DEF Commit, IInv, Others
    <3>2. LetIn(q)' \subseteq LetIn(q) \ {r}
      BY <3>1 DEF LetIn, Filing, Frame
    <3>3. CASE job[r].route # "file"
      <4>1. Pending(q)' \subseteq Pending(q)
        <5>1. CASE tx[r].row = Nothing
          BY <2>8, <5>1 DEF Commit, Pending
        <5>2. CASE tx[r].row # Nothing
          <6>1. /\ job[r].route \in Deciding /\ job[r].id \in Ids
                /\ tx[r].row = [rows[job[r].id] EXCEPT !.state = Verdict(r)]
                /\ rows[job[r].id] \in Row
            BY <2>1, <3>1, <3>3, <5>2 DEF Shape, Claim, TypeOK
          <6>2. tx[r].row.state # "pending"
            BY <6>1 DEF Row, Verdict
          <6>3. /\ rows'[job[r].id].state # "pending"
                /\ \A k \in Ids \ {job[r].id} : rows'[k] = rows[k]
            BY <2>1, <2>8, <5>2, <6>1, <6>2 DEF Commit, TypeOK
          <6> QED  BY <6>3 DEF Pending
        <5> QED  BY <5>1, <5>2
      <4> QED  BY <1>2, <3>2, <4>1, NobodyIn
    <3>4. CASE job[r].route = "file"
      <4>1. /\ job[r].id \in Ids /\ rows[job[r].id] = Nothing /\ tx[r].row.queue = job[r].queue
            /\ \A k \in Ids \ {job[r].id} : rows'[k] = rows[k]
            /\ rows'[job[r].id].queue = job[r].queue
        BY <2>1, <2>8, <3>1, <3>4 DEF Shape, Claim, Filing, Commit, TypeOK
      <4>2. CASE job[r].queue # q
        <5>1. Pending(q)' \subseteq Pending(q)
          BY <4>1, <4>2 DEF Pending
        <5> QED  BY <1>2, <3>2, <5>1, NobodyIn
      <4>3. CASE job[r].queue = q
        <5>1. Pending(q)' \in SUBSET (Pending(q) \cup {job[r].id})
          BY <4>1 DEF Pending
        <5>2. /\ IsFiniteSet(Pending(q) \cup {job[r].id})
              /\ Cardinality(Pending(q) \cup {job[r].id}) <= Cardinality(Pending(q)) + 1
          <6> DEFINE k == job[r].id
          <6>1. IsFiniteSet(Pending(q)) /\ Cardinality(Pending(q)) \in Nat
            BY Sizes
          <6> HIDE DEF k
          <6>2. /\ IsFiniteSet(Pending(q) \cup {k})
                /\ Cardinality(Pending(q) \cup {k}) =
                     IF k \in Pending(q) THEN Cardinality(Pending(q)) ELSE Cardinality(Pending(q)) + 1
            BY <6>1, FS_AddElement
          <6>3. Cardinality(Pending(q) \cup {k}) <= Cardinality(Pending(q)) + 1
            BY <6>1, <6>2
          <6> QED  BY <6>2, <6>3 DEF k
        <5>3. Cardinality(Pending(q)') <= Cardinality(Pending(q) \cup {job[r].id})
          BY <5>1, <5>2, FS_Subset
        <5>4. r \in LetIn(q)
          BY <3>1, <3>4, <4>3 DEF LetIn, Filing
        <5>5. /\ IsFiniteSet(LetIn(q) \ {r})
              /\ Cardinality(LetIn(q) \ {r}) = Cardinality(LetIn(q)) - 1
          BY <5>4, Sizes, FS_RemoveElement
        <5>6. Cardinality(LetIn(q)') <= Cardinality(LetIn(q) \ {r})
          BY <3>2, <5>5, FS_Subset
        <5>7. Cardinality(Pending(q)') <= Cardinality(Pending(q)) + 1
          <6>1. Cardinality(Pending(q) \cup {job[r].id}) \in Nat
            BY <5>2, FS_CardinalityType
          <6> QED  BY <5>2, <5>3, <6>1, Sizes, SizesAfter
        <5>8. Cardinality(LetIn(q)') <= Cardinality(LetIn(q)) - 1
          BY <5>5, <5>6
        <5>9. Cardinality(Pending(q)) + Cardinality(LetIn(q)) <= MaxPending - 1 + Cardinality(Requests)
          BY <1>2 DEF SlackHeld
        <5> QED  BY <5>7, <5>8, <5>9, Sizes, SizesAfter, Nulls
      <4> QED  BY <4>2, <4>3
    <3> QED  BY <3>3, <3>4
  <2>9. ASSUME Rename
        PROVE  Cardinality(Pending(q)') + Cardinality(LetIn(q)')
                 <= MaxPending - 1 + Cardinality(Requests)
    <3>1. Pending(q)' = Pending(q) /\ LetIn(q)' = LetIn(q)
      BY <2>9 DEF Rename, Pending, LetIn, Filing
    <3> QED  BY <1>2, <3>1, NobodyIn
  <2> QED  BY <1>2, <2>3, <2>4, <2>5, <2>6, <2>7, <2>8, <2>9 DEF Next, Step, Fail
<1>3. IInv /\ SlackHeld /\ UNCHANGED vars => SlackHeld'
  BY DEF vars, SlackHeld, Pending, LetIn, Filing
<1>4. SlackHeld => CeilingSlack
  BY Sizes, Nulls DEF SlackHeld, CeilingSlack
<1> QED  BY <1>1, <1>2, <1>3, <1>4, RequestsInOrder, PTL DEF Spec
=============================================================================
