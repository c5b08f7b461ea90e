------------------------------- MODULE Cards -------------------------------
(***************************************************************************)
(* The cards of one campaign: the history of notes, the assignments row    *)
(* that is its head, and the reservations, as concurrent HTTP requests     *)
(* read and write them (api/routes_mayors.go, routeToggleAccount of        *)
(* api/routes_team.go).                                                    *)
(*                                                                         *)
(* A request is one PostgreSQL transaction at READ COMMITTED.  Its writes  *)
(* are private (tx) until Commit applies them; each row it writes or locks *)
(* stays locked until then; every statement is a step of its own, reads    *)
(* the committed state of that moment overlaid with the request's own      *)
(* writes, and after waiting for a row lock re-evaluates its WHERE on the  *)
(* row as it then is.                                                      *)
(*                                                                         *)
(* Abstracted: a mayor is a number, the lower the better ranked; the       *)
(* filter of a batch (pool, department, theme) is the set of mayors it     *)
(* selects; the words of a note are whether they were corrected; the date  *)
(* columns follow the status and are left out; team_id follows volunteer.  *)
(* Teams and roles do not change here: Coordination.tla has them.          *)
(***************************************************************************)
EXTENDS Integers, FiniteSets

CONSTANTS
  Cards,          \* the mayors of the list, by rank: the lowest is drawn first
  Accounts,       \* the campaign's accounts
  Coordinators,   \* those of them with the coordination role
  Manages,        \* [Accounts -> SUBSET Accounts]: whom each may close or reopen
  Teams,          \* NationalTeam and the local teams
  TeamOf,         \* [Accounts -> Teams]: Account.MyTeam()
  Statuses,       \* the statuses of vocabulary.go
  ToContact,      \* StatusToContact
  Pools,          \* the sets of mayors a batch's criteria can select
  BatchSize,      \* orgs.batch_size
  MaxBatchRounds, \* maxBatchRounds
  Requests,       \* the requests in flight at once: one pool connection each
  Doors,          \* bound: the routes the instance exercises
  MaxRequests,    \* bound: the requests ever begun
  NoOne,          \* a NULL volunteer
  NoTeam,         \* a NULL updated_by_team
  NoRow,          \* a mayor with no assignments row
  NoRequest       \* nobody holds the row lock

Row == [status : Statuses, by : Teams \cup {NoTeam},
        volunteer : Accounts \cup {NoOne}]

\* A row of notes.  Its team_id is TeamOf[author], which does not move here.
Note == [id : Nat, card : Cards, author : Accounts, status : Statuses,
         edited : BOOLEAN]

\* What the head of a history says: a status and the team that wrote it.
Head == [status : Statuses, by : Teams \cup {NoTeam}]

Routes == {"status", "edit", "delete", "batch", "toggle"}

ASSUME CardsAssumption ==
  /\ Cards \subseteq Nat /\ Cards # {} /\ IsFiniteSet(Cards)
  /\ Accounts # {}
  /\ Coordinators \subseteq Accounts
  /\ Manages \in [Accounts -> SUBSET Accounts]
  /\ TeamOf \in [Accounts -> Teams]
  /\ ToContact \in Statuses
  /\ Pools \subseteq SUBSET Cards
  /\ BatchSize \in Nat /\ MaxBatchRounds \in Nat /\ MaxRequests \in Nat
  /\ Doors \subseteq Routes
  /\ NoOne \notin Accounts
  /\ NoTeam \notin Teams
  /\ NoRow \notin Row
  /\ NoRequest \notin Requests

VARIABLES
  notes,   \* the committed rows of notes
  card,    \* the committed rows of assignments
  active,  \* accounts.active, committed
  nextId,  \* the next value of the identity sequence of notes
  lock,    \* which request holds the row lock of each assignments row
  pc,      \* the statement each request is about to send
  arg,     \* what each request asks for, and who signedIn read
  work,    \* the local variables of each handler
  tx,      \* the uncommitted writes of each request
  begun,   \* how many requests were begun
  gone     \* auxiliary: every committed version of a note that no longer
           \* stands, removed or corrected.  No guard reads it.

vars == <<notes, card, active, nextId, lock, pc, arg, work, tx, begun, gone>>

Args == [route : Routes, who : Accounts, card : Cards, note : Nat,
         status : Statuses, seen : Statuses, pool : SUBSET Cards,
         target : Accounts]

Work == [todo : SUBSET Cards, next : Cards, round : 0..MaxBatchRounds,
         won : BOOLEAN, head : Head]

Tx == [rows : [Cards -> Row \cup {NoRow}], added : SUBSET Note,
       erased : SUBSET Note, flipped : SUBSET Accounts]

Steps == {"idle", "upsert", "insert", "edit", "erase", "lockCard", "readHead",
          "restore", "draw", "take", "recount", "flip", "sweep", "release",
          "commit"}

\* A card nobody has contacted, or that no note says anything about.
Blank == [status |-> ToContact, by |-> NoTeam]

AnyCard == CHOOSE c \in Cards : TRUE
AnyAccount == CHOOSE a \in Accounts : TRUE

NoArg == [route |-> "status", who |-> AnyAccount, card |-> AnyCard, note |-> 0,
          status |-> ToContact, seen |-> ToContact, pool |-> {},
          target |-> AnyAccount]
NoWork == [todo |-> {}, next |-> AnyCard, round |-> 0, won |-> FALSE,
           head |-> Blank]
NoTx == [rows |-> [c \in Cards |-> NoRow], added |-> {}, erased |-> {},
         flipped |-> {}]

Init ==
  /\ notes = {}
  /\ card = [c \in Cards |-> NoRow]
  /\ active = [a \in Accounts |-> TRUE]
  /\ nextId = 1
  /\ lock = [c \in Cards |-> NoRequest]
  /\ pc = [r \in Requests |-> "idle"]
  /\ arg = [r \in Requests |-> NoArg]
  /\ work = [r \in Requests |-> NoWork]
  /\ tx = [r \in Requests |-> NoTx]
  /\ begun = 0
  /\ gone = {}

-----------------------------------------------------------------------------
\* What a statement of r sees of a row: its own write, else the committed one.
Sees(r, c) == IF tx[r].rows[c] # NoRow THEN tx[r].rows[c] ELSE card[c]

\* Bug: a card is free as soon as nobody holds it, whatever was recorded on it.
AvailableIfUnheld(row) == row = NoRow \/ row.volunteer = NoOne

\* mayorAvailable: no row, or nobody's and never contacted.
Available(row) ==
  \/ row = NoRow
  \/ row.volunteer = NoOne /\ row.status = ToContact

NotesOf(c, S) == {n \in S : n.card = c}

Newest(n, S) == n \in S /\ \A m \in S : m.id <= n.id

\* A status and a team are what a history says: its newest note decides, and
\* none left is a card nobody has contacted.
Says(head, S) ==
  IF S = {} THEN head.status = ToContact /\ head.by = NoTeam
  ELSE \E n \in S : Newest(n, S) /\ head.status = n.status /\ head.by = TeamOf[n.author]

HeadOf(n) == [status |-> n.status, by |-> TeamOf[n.author]]

Holder(row) == IF row = NoRow THEN NoOne ELSE row.volunteer

\* The row lock of c is r's to take, or already r's.
Lockable(r, c) == lock[c] \in {NoRequest, r}

\* No other open transaction has updated or deleted the note of that id.
NoteLockable(r, id) ==
  \A q \in Requests \ {r} : \A n \in tx[q].erased : n.id # id

AccountLockable(r, a) == \A q \in Requests \ {r} : a \notin tx[q].flipped

\* The k best ranked of S: ORDER BY score DESC, insee_code LIMIT k.
Best(k, S) == {c \in S : Cardinality({d \in S : d < c}) < k}

BestOf(c, S) == c \in S /\ \A d \in S : c <= d

\* The mayors r's transaction has drawn so far.
Taken(r) == {c \in Cards : tx[r].rows[c] # NoRow}

Committed == <<notes, card, active, gone>>

Goto(r, step) == pc' = [pc EXCEPT ![r] = step]

TakeLock(r, c) == lock' = [lock EXCEPT ![c] = r]

WriteRow(r, c, row) == tx' = [tx EXCEPT ![r].rows = [@ EXCEPT ![c] = row]]

\* The end of a transaction, however it ends: its locks go with it.
Close(r) ==
  /\ Goto(r, "idle")
  /\ arg' = [arg EXCEPT ![r] = NoArg]
  /\ work' = [work EXCEPT ![r] = NoWork]
  /\ tx' = [tx EXCEPT ![r] = NoTx]
  /\ lock' = [c \in Cards |-> IF lock[c] = r THEN NoRequest ELSE lock[c]]

\* A refusal or a failure: nothing of the request is kept.
Rollback(r) == Close(r) /\ UNCHANGED <<Committed, nextId, begun>>

-----------------------------------------------------------------------------
\* signedIn opens the transaction and reads the account: a closed account
\* answers 401.  Nothing re-reads it afterwards.
Begin(r, who, route, step, a) ==
  /\ route \in Doors
  /\ pc[r] = "idle" /\ begun < MaxRequests
  /\ active[who]
  /\ begun' = begun + 1
  /\ arg' = [arg EXCEPT ![r] = a]
  /\ Goto(r, step)
  /\ UNCHANGED <<Committed, nextId, lock, work, tx>>

-----------------------------------------------------------------------------
\* POST /api/mayors/{insee}/status

BeginStatus(r) ==
  \E who \in Accounts, c \in Cards, s \in Statuses, seen \in Statuses :
    Begin(r, who, "status", "upsert",
          [NoArg EXCEPT !.route = "status", !.who = who, !.card = c,
                        !.status = s, !.seen = seen])

\* Bug: `seen` is not part of the statement.
UpsertUnseen(r) ==
  LET c == arg[r].card
  IN /\ pc[r] = "upsert"
     /\ Lockable(r, c)
     /\ WriteRow(r, c, [status |-> arg[r].status, by |-> TeamOf[arg[r].who],
                        volunteer |-> Holder(card[c])])
     /\ TakeLock(r, c)
     /\ Goto(r, "insert")
     /\ UNCHANGED <<Committed, nextId, arg, work, begun>>

\* Bug: `seen` is read first, and the row written later, unlocked.
UpsertUnlocked(r) ==
  LET c == arg[r].card
  IN /\ pc[r] = "upsert"
     /\ card[c] # NoRow => card[c].status = arg[r].seen
     /\ WriteRow(r, c, [status |-> arg[r].status, by |-> TeamOf[arg[r].who],
                        volunteer |-> Holder(card[c])])
     /\ Goto(r, "insert")
     /\ UNCHANGED <<Committed, nextId, lock, arg, work, begun>>

\* INSERT ... ON CONFLICT DO UPDATE ... WHERE assignments.status = seen.  It
\* waits for whoever has the row; no row updated is the 409.
Upsert(r) ==
  LET c == arg[r].card
      row == [status |-> arg[r].status, by |-> TeamOf[arg[r].who],
              volunteer |-> Holder(card[c])]
  IN /\ pc[r] = "upsert"
     /\ Lockable(r, c)
     /\ IF card[c] = NoRow \/ card[c].status = arg[r].seen
        THEN /\ WriteRow(r, c, row)
             /\ TakeLock(r, c)
             /\ Goto(r, "insert")
             /\ UNCHANGED <<Committed, nextId, arg, work, begun>>
        ELSE Rollback(r)

\* INSERT INTO notes: the identity is drawn here, for good, even if the
\* transaction fails.
InsertNote(r) ==
  LET n == [id |-> nextId, card |-> arg[r].card, author |-> arg[r].who,
            status |-> arg[r].status, edited |-> FALSE]
  IN /\ pc[r] = "insert"
     /\ tx' = [tx EXCEPT ![r].added = {n}]
     /\ nextId' = nextId + 1
     /\ Goto(r, "commit")
     /\ UNCHANGED <<Committed, lock, arg, work, begun>>

-----------------------------------------------------------------------------
\* POST /api/mayors/{insee}/notes/{id}

BeginEdit(r) ==
  \E who \in Accounts, c \in Cards, id \in 1..(nextId - 1) :
    Begin(r, who, "edit", "edit",
          [NoArg EXCEPT !.route = "edit", !.who = who, !.card = c, !.note = id])

\* UPDATE notes ... WHERE id AND insee_code AND volunteer = me: the author and
\* nobody else.  No row is the 403 or the 404.
EditNote(r) ==
  LET mine == {n \in notes : /\ n.id = arg[r].note /\ n.card = arg[r].card
                             /\ n.author = arg[r].who}
  IN /\ pc[r] = "edit"
     /\ IF mine = {}
        THEN Rollback(r)
        ELSE /\ NoteLockable(r, arg[r].note)
             /\ tx' = [tx EXCEPT ![r].erased = mine,
                                 ![r].added = {[n EXCEPT !.edited = TRUE] : n \in mine}]
             /\ Goto(r, "commit")
             /\ UNCHANGED <<Committed, nextId, lock, arg, work, begun>>

-----------------------------------------------------------------------------
\* DELETE /api/mayors/{insee}/notes/{id}, and restoreHead

BeginDelete(r) ==
  \E who \in Accounts, c \in Cards, id \in 1..(nextId - 1) :
    Begin(r, who, "delete", "erase",
          [NoArg EXCEPT !.route = "delete", !.who = who, !.card = c, !.note = id])

\* DELETE FROM notes ... RETURNING volunteer, with the author's predicate
\* unless the caller coordinates.
EraseNote(r) ==
  LET found == {n \in notes :
                  /\ n.id = arg[r].note /\ n.card = arg[r].card
                  /\ arg[r].who \in Coordinators \/ n.author = arg[r].who}
  IN /\ pc[r] = "erase"
     /\ IF found = {}
        THEN Rollback(r)
        ELSE /\ NoteLockable(r, arg[r].note)
             /\ tx' = [tx EXCEPT ![r].erased = found]
             /\ Goto(r, "lockCard")
             /\ UNCHANGED <<Committed, nextId, lock, arg, work, begun>>

\* Bug: the head is read with the card unlocked.
LockCardSkipped(r) ==
  /\ pc[r] = "lockCard"
  /\ Goto(r, "readHead")
  /\ UNCHANGED <<Committed, nextId, lock, arg, work, tx, begun>>

\* SELECT 1 FROM assignments ... FOR UPDATE: it waits for the row, and locks
\* nothing when there is none.
LockCard(r) ==
  LET c == arg[r].card
  IN /\ pc[r] = "lockCard"
     /\ IF card[c] = NoRow
        THEN UNCHANGED lock
        ELSE Lockable(r, c) /\ TakeLock(r, c)
     /\ Goto(r, "readHead")
     /\ UNCHANGED <<Committed, nextId, arg, work, tx, begun>>

\* SELECT ... FROM notes ORDER BY id DESC LIMIT 1, in a snapshot of its own.
ReadHead(r) ==
  LET left == NotesOf(arg[r].card, notes \ tx[r].erased)
  IN /\ pc[r] = "readHead"
     /\ \/ left = {} /\ work' = [work EXCEPT ![r].head = Blank]
        \/ \E n \in left : /\ Newest(n, left)
                            /\ work' = [work EXCEPT ![r].head = HeadOf(n)]
     /\ Goto(r, "restore")
     /\ UNCHANGED <<Committed, nextId, lock, arg, tx, begun>>

\* Bug: a history emptied entirely leaves the card as it was.
RestoreHeadIfAny(r) ==
  LET c == arg[r].card
      head == work[r].head
  IN /\ pc[r] = "restore"
     /\ IF head = Blank
        THEN UNCHANGED <<lock, tx>>
        ELSE /\ Lockable(r, c)
             /\ TakeLock(r, c)
             /\ WriteRow(r, c, [card[c] EXCEPT !.status = head.status, !.by = head.by])
     /\ Goto(r, "commit")
     /\ UNCHANGED <<Committed, nextId, arg, work, begun>>

\* UPDATE assignments SET status, updated_at, updated_by_team.
RestoreHead(r) ==
  LET c == arg[r].card
      head == work[r].head
  IN /\ pc[r] = "restore"
     /\ IF card[c] = NoRow
        THEN UNCHANGED <<lock, tx>>
        ELSE /\ Lockable(r, c)
             /\ TakeLock(r, c)
             /\ WriteRow(r, c, [card[c] EXCEPT !.status = head.status, !.by = head.by])
     /\ Goto(r, "commit")
     /\ UNCHANGED <<Committed, nextId, arg, work, begun>>

-----------------------------------------------------------------------------
\* POST /api/batch

BeginBatch(r) ==
  \E who \in Accounts, pool \in Pools :
    Begin(r, who, "batch", "draw",
          [NoArg EXCEPT !.route = "batch", !.who = who, !.pool = pool])

\* Bug: the loop goes on while the pool has anything left, full batch or not.
DrawForever(r) ==
  LET drawn == Best(BatchSize - Cardinality(Taken(r)),
                    {c \in arg[r].pool : Available(Sees(r, c))})
  IN /\ pc[r] = "draw"
     /\ work' = [work EXCEPT ![r].won = FALSE, ![r].todo = drawn]
     /\ Goto(r, IF drawn = {} THEN "recount" ELSE "take")
     /\ UNCHANGED <<Committed, nextId, lock, arg, tx, begun>>

\* The loop's condition, and the SELECT of the INSERT: the best free mayors of
\* this round's snapshot, as many as the batch still lacks.
Draw(r) ==
  LET lacking == BatchSize - Cardinality(Taken(r))
      drawn == Best(lacking, {c \in arg[r].pool : Available(Sees(r, c))})
  IN /\ pc[r] = "draw"
     /\ IF work[r].round < MaxBatchRounds /\ lacking > 0
        THEN /\ work' = [work EXCEPT ![r].round = @ + 1, ![r].won = FALSE,
                                     ![r].todo = drawn]
             /\ Goto(r, IF drawn = {} THEN "recount" ELSE "take")
        ELSE UNCHANGED work /\ Goto(r, "commit")
     /\ UNCHANGED <<Committed, nextId, lock, arg, tx, begun>>

\* Bug: a row drawn is taken, without asking again whether it is free.
TakeCardUnchecked(r) ==
  /\ pc[r] = "take"
  /\ \E c \in work[r].todo :
       LET rest == work[r].todo \ {c}
           row == IF card[c] = NoRow
                  THEN [status |-> ToContact, by |-> NoTeam, volunteer |-> arg[r].who]
                  ELSE [card[c] EXCEPT !.volunteer = arg[r].who]
       IN /\ BestOf(c, work[r].todo)
          /\ Lockable(r, c)
          /\ TakeLock(r, c)
          /\ WriteRow(r, c, row)
          /\ work' = [work EXCEPT ![r].todo = rest, ![r].won = TRUE]
          /\ Goto(r, IF rest # {} THEN "take" ELSE "draw")
  /\ UNCHANGED <<Committed, nextId, arg, begun>>

\* ON CONFLICT DO UPDATE ... WHERE the row is still free: it waits for the
\* row, keeps its lock either way, and counts it only if it was.
TakeCard(r) ==
  /\ pc[r] = "take"
  /\ \E c \in work[r].todo :
       LET rest == work[r].todo \ {c}
           free == Available(Sees(r, c))
           row == IF card[c] = NoRow
                  THEN [status |-> ToContact, by |-> NoTeam, volunteer |-> arg[r].who]
                  ELSE [card[c] EXCEPT !.volunteer = arg[r].who]
       IN /\ BestOf(c, work[r].todo)
          /\ Lockable(r, c)
          /\ TakeLock(r, c)
          /\ IF free THEN WriteRow(r, c, row) ELSE UNCHANGED tx
          /\ work' = [work EXCEPT ![r].todo = rest, ![r].won = @ \/ free]
          /\ Goto(r, CASE rest # {} -> "take"
                       [] rest = {} /\ (work[r].won \/ free) -> "draw"
                       [] OTHER -> "recount")
  /\ UNCHANGED <<Committed, nextId, arg, begun>>

\* A round that took nothing asks whether anything is left at all.
Recount(r) ==
  /\ pc[r] = "recount"
  /\ Goto(r, IF \E c \in arg[r].pool : Available(Sees(r, c)) THEN "draw" ELSE "commit")
  /\ UNCHANGED <<Committed, nextId, lock, arg, work, tx, begun>>

-----------------------------------------------------------------------------
\* POST /api/team/account/{email}/active

BeginToggle(r) ==
  \E who \in Accounts : \E target \in Manages[who] \ {who} :
    Begin(r, who, "toggle", "flip",
          [NoArg EXCEPT !.route = "toggle", !.who = who, !.target = target])

\* UPDATE accounts SET active = NOT active ... RETURNING active.
Flip(r) ==
  LET a == arg[r].target
  IN /\ pc[r] = "flip"
     /\ AccountLockable(r, a)
     /\ tx' = [tx EXCEPT ![r].flipped = {a}]
     /\ Goto(r, IF active[a] THEN "sweep" ELSE "commit")
     /\ UNCHANGED <<Committed, nextId, lock, arg, work, begun>>

\* The rows an UPDATE ... WHERE volunteer = target AND status = 'to_contact'
\* sees when it starts; it will meet them in whatever order the table has.
ReservedTo(row, a) == row # NoRow /\ row.volunteer = a /\ row.status = ToContact

Sweep(r) ==
  LET held == {c \in Cards : ReservedTo(card[c], arg[r].target)}
  IN /\ pc[r] = "sweep"
     /\ \/ held = {} /\ UNCHANGED work /\ Goto(r, "commit")
        \/ \E c \in held :
             /\ work' = [work EXCEPT ![r].todo = held, ![r].next = c]
             /\ Goto(r, "release")
     /\ UNCHANGED <<Committed, nextId, lock, arg, tx, begun>>

\* Bug: the cards to release are the ones listed before, whatever became of them.
ReleaseCardListed(r) ==
  LET c == work[r].next
      rest == work[r].todo \ {c}
  IN /\ pc[r] = "release"
     /\ Lockable(r, c)
     /\ TakeLock(r, c)
     /\ WriteRow(r, c, [card[c] EXCEPT !.volunteer = NoOne])
     /\ \/ /\ rest = {}
           /\ work' = [work EXCEPT ![r].todo = {}, ![r].next = AnyCard]
           /\ Goto(r, "commit")
        \/ \E d \in rest : /\ work' = [work EXCEPT ![r].todo = rest, ![r].next = d]
                            /\ Goto(r, "release")
     /\ UNCHANGED <<Committed, nextId, arg, begun>>

\* One row of that UPDATE: waited for, and written if it still qualifies.
ReleaseCard(r) ==
  LET c == work[r].next
      rest == work[r].todo \ {c}
  IN /\ pc[r] = "release"
     /\ Lockable(r, c)
     /\ TakeLock(r, c)
     /\ IF ReservedTo(card[c], arg[r].target)
        THEN WriteRow(r, c, [card[c] EXCEPT !.volunteer = NoOne])
        ELSE UNCHANGED tx
     /\ \/ /\ rest = {}
           /\ work' = [work EXCEPT ![r].todo = {}, ![r].next = AnyCard]
           /\ Goto(r, "commit")
        \/ \E d \in rest : /\ work' = [work EXCEPT ![r].todo = rest, ![r].next = d]
                            /\ Goto(r, "release")
     /\ UNCHANGED <<Committed, nextId, arg, begun>>

-----------------------------------------------------------------------------
\* The commit every route ends with, before its 200 leaves.
Commit(r) ==
  /\ pc[r] = "commit"
  /\ notes' = (notes \ tx[r].erased) \cup tx[r].added
  /\ card' = [c \in Cards |-> Sees(r, c)]
  /\ active' = [a \in Accounts |-> IF a \in tx[r].flipped THEN ~active[a] ELSE active[a]]
  /\ gone' = gone \cup (notes \ notes')
  /\ Close(r)
  /\ UNCHANGED <<nextId, begun>>

\* A connection lost, a cancelled request, a panic: openScope's deferred
\* rollback.
Fail(r) == pc[r] # "idle" /\ Rollback(r)

\* The assignments row r's next statement waits for, the note, the account.
Wants(r) ==
  CASE pc[r] = "upsert" -> {arg[r].card}
    [] pc[r] \in {"lockCard", "restore"} /\ card[arg[r].card] # NoRow -> {arg[r].card}
    [] pc[r] = "take" -> {c \in Cards : BestOf(c, work[r].todo)}
    [] pc[r] = "release" -> {work[r].next}
    [] OTHER -> {}

Blocks(q, r) ==
  /\ q # r
  /\ \/ \E c \in Wants(r) : lock[c] = q
     \/ pc[r] \in {"edit", "erase"} /\ \E n \in tx[q].erased : n.id = arg[r].note
     \/ pc[r] = "flip" /\ arg[r].target \in tx[q].flipped

\* PostgreSQL finds a cycle of waits and aborts one of its members: 500.
DeadlockVictim(r) ==
  /\ \E S \in SUBSET Requests :
       /\ r \in S
       /\ \A q \in S : \E p \in S : Blocks(p, q)
       /\ \A q \in S : \E p \in S : Blocks(q, p)
  /\ Rollback(r)

Statement(r) ==
  \/ Upsert(r) \/ InsertNote(r)
  \/ EditNote(r)
  \/ EraseNote(r) \/ LockCard(r) \/ ReadHead(r) \/ RestoreHead(r)
  \/ Draw(r) \/ TakeCard(r) \/ Recount(r)
  \/ Flip(r) \/ Sweep(r) \/ ReleaseCard(r)
  \/ Commit(r)

Arrive(r) == \/ BeginStatus(r) \/ BeginEdit(r) \/ BeginDelete(r)
             \/ BeginBatch(r) \/ BeginToggle(r)

Next == \E r \in Requests : Arrive(r) \/ Statement(r) \/ Fail(r) \/ DeadlockVictim(r)

Spec == Init /\ [][Next]_vars

\* A request that arrived goes on: its goroutine runs, PostgreSQL grants the
\* lock it waits for or breaks the deadlock.  Nobody has to send a request.
Fairness == \A r \in Requests : WF_vars(Statement(r)) /\ WF_vars(DeadlockVictim(r))

FairSpec == Spec /\ Fairness

-----------------------------------------------------------------------------
\* The variables hold what their comments say.
TypeOK ==
  /\ notes \in SUBSET Note
  /\ card \in [Cards -> Row \cup {NoRow}]
  /\ active \in [Accounts -> BOOLEAN]
  /\ nextId \in Nat
  /\ lock \in [Cards -> Requests \cup {NoRequest}]
  /\ pc \in [Requests -> Steps]
  /\ arg \in [Requests -> Args]
  /\ work \in [Requests -> Work]
  /\ tx \in [Requests -> Tx]
  /\ begun \in Nat
  /\ gone \in SUBSET Note

\* THE HISTORY IS THE REGISTER AND assignments IS ITS HEAD (restoreHead): the
\* committed row of a card says what the newest committed note of the card
\* says, and a card without notes says nothing, whatever the status writes
\* and the removals racing each other.
HeadIsNewest ==
  \A c \in Cards :
    LET history == NotesOf(c, notes)
    IN /\ history # {} => card[c] # NoRow
       /\ card[c] # NoRow => Says(card[c], history)

\* A history grows at its head only: a note that appears is newer than every
\* note its card ever had, those since removed included, or is one the card
\* has with its words corrected.  So a removed note never comes back, were it
\* the newest or the only one (routeEditNote against routeDeleteNote), and the
\* order of ids is the order of commits on one card (routeStatus).
HistoryGrowsAtTheHead ==
  [][\A n \in notes' \ notes :
       \/ \E m \in notes : n = [m EXCEPT !.edited = TRUE]
       \/ \A m \in NotesOf(n.card, notes \cup gone) : m.id < n.id]_vars

\* A status is never recorded over a state its writer did not name in `seen`
\* (routeStatus: « it refuses writing over a state nobody read »).
NobodyOverwritesUnread ==
  [][\A n \in notes' :
       (\A m \in notes : m.id # n.id) =>
         \E r \in Requests :
           /\ arg[r].route = "status" /\ arg[r].card = n.card
           /\ \/ card[n.card] = NoRow
              \/ card[n.card].status = arg[r].seen]_vars

\* What a batch counts as taken is free until it commits, of the pool it was
\* asked for, no more than the batch and in no more than maxBatchRounds rounds:
\* nobody is told they own a mayor who is not theirs (routeBatch).
BatchKeepsItsPromise ==
  \A r \in Requests : arg[r].route = "batch" =>
    /\ work[r].round <= MaxBatchRounds
    /\ Cardinality(Taken(r)) <= BatchSize
    /\ Taken(r) \subseteq arg[r].pool
    /\ \A c \in Taken(r) : Available(card[c])

\* A reservation begins on a free card, and ends only by the closing of its
\* holder's account on a card still untouched: work begun stays where it is
\* (routeToggleAccount), and no status claims or frees a card (routeStatus).
ReservationsMoveInTheOpen ==
  [][\A c \in Cards :
       LET was == Holder(card[c])
           is == Holder(card'[c])
       IN was # is =>
            /\ card'[c].status = ToContact
            /\ \/ Available(card[c])
               \/ /\ ReservedTo(card[c], was) /\ is = NoOne
                  /\ active[was] /\ ~active'[was]]_vars

\* A CARD NOBODY WILL WORK GOES BACK IN THE POOL (routeToggleAccount): no card
\* still to contact stays reserved to a closed account.
NoCardLeftToAClosedAccount ==
  \A c \in Cards, a \in Accounts : ReservedTo(card[c], a) => active[a]

\* Every request that arrives is answered, deadlocks included.
EveryRequestIsAnswered ==
  \A r \in Requests : pc[r] # "idle" ~> pc[r] = "idle"

-----------------------------------------------------------------------------
(***************************************************************************)
(* Why HeadIsNewest holds: what each request has locked and written, at    *)
(* each statement, is already what its commit needs.                       *)
(***************************************************************************)

\* Ids are handed out in order.
IdsAreSpent ==
  /\ \A n \in notes : n.id < nextId
  /\ \A r \in Requests : \A n \in tx[r].added : n.id < nextId

\* A note being corrected or removed stays until then, and is one request's.
NotesAreLocked ==
  /\ \A r \in Requests : tx[r].erased \subseteq notes
  /\ \A r \in Requests : \A q \in Requests \ {r} :
       \A m \in tx[r].erased : \A n \in tx[q].erased : m.id # n.id

\* An assignments row is written under its lock.
RowsAreLocked ==
  \A r \in Requests, c \in Cards : tx[r].rows[c] # NoRow => lock[c] = r

NoRowWritten(r) == \A c \in Cards : tx[r].rows[c] = NoRow

OnlyItsCard(r) ==
  /\ lock[arg[r].card] = r
  /\ tx[r].rows[arg[r].card] # NoRow
  /\ \A d \in Cards \ {arg[r].card} : tx[r].rows[d] = NoRow

\* The state r's writer named is the state of the card.
AsSeen(r) ==
  \/ card[arg[r].card] = NoRow
  \/ card[arg[r].card].status = arg[r].seen

\* A row that reserves or releases a card and says the same of its history.
SameHead(row, old) ==
  IF old = NoRow THEN row.status = ToContact /\ row.by = NoTeam
  ELSE row.status = old.status /\ row.by = old.by

OnlyReservations(r) ==
  /\ tx[r].added = {} /\ tx[r].erased = {}
  /\ \A c \in Cards : tx[r].rows[c] # NoRow => SameHead(tx[r].rows[c], card[c])

\* A status about to be committed: its note is newer than its card's history.
StatusReady(r) ==
  LET row == tx[r].rows[arg[r].card]
  IN /\ OnlyItsCard(r) /\ AsSeen(r) /\ tx[r].erased = {}
     /\ \E n \in tx[r].added :
          /\ tx[r].added = {n} /\ n.card = arg[r].card
          /\ row.status = n.status /\ row.by = TeamOf[n.author]
          /\ \A m \in NotesOf(n.card, notes) : m.id < n.id

\* A removal under way erases notes of its card, and writes nothing else yet.
Removal(r) ==
  /\ tx[r].added = {} /\ tx[r].erased # {}
  /\ \A n \in tx[r].erased : n.card = arg[r].card

NotesLeft(r) == NotesOf(arg[r].card, notes \ tx[r].erased)

Fresh == {"idle", "upsert", "edit", "erase", "flip"}

RouteAt(step) ==
  CASE step \in {"upsert", "insert"} -> "status"
    [] step = "edit" -> "edit"
    [] step \in {"erase", "lockCard", "readHead", "restore"} -> "delete"
    [] step \in {"draw", "take", "recount"} -> "batch"
    [] OTHER -> "toggle"

\* Where a request is says what it has locked and written.
InOrder(r) ==
  /\ pc[r] \notin {"idle", "commit"} => arg[r].route = RouteAt(pc[r])
  /\ pc[r] \in Fresh => tx[r] = NoTx
  /\ pc[r] = "insert" =>
       /\ OnlyItsCard(r) /\ AsSeen(r) /\ tx[r].added = {} /\ tx[r].erased = {}
       /\ tx[r].rows[arg[r].card].status = arg[r].status
       /\ tx[r].rows[arg[r].card].by = TeamOf[arg[r].who]
  /\ pc[r] \in {"lockCard", "readHead", "restore"} => Removal(r) /\ NoRowWritten(r)
  /\ pc[r] \in {"readHead", "restore"} => lock[arg[r].card] = r
  /\ pc[r] = "restore" => Says(work[r].head, NotesLeft(r))
  /\ pc[r] \in {"draw", "take", "recount", "sweep", "release"} => OnlyReservations(r)
  /\ pc[r] = "commit" =>
       CASE arg[r].route = "status" -> StatusReady(r)
         [] arg[r].route = "edit" ->
              /\ NoRowWritten(r)
              /\ tx[r].added = {[n EXCEPT !.edited = TRUE] : n \in tx[r].erased}
         [] arg[r].route = "delete" ->
              /\ Removal(r) /\ OnlyItsCard(r)
              /\ Says(tx[r].rows[arg[r].card], NotesLeft(r))
         [] OTHER -> OnlyReservations(r)

\* The invariant HeadIsNewest rests on: every request has locked and written
\* what its place in the handler says (routeStatus, restoreHead, routeBatch).
RegisterInv ==
  /\ TypeOK
  /\ HeadIsNewest
  /\ IdsAreSpent
  /\ NotesAreLocked
  /\ RowsAreLocked
  /\ \A r \in Requests : InOrder(r)

\* The invariant HistoryGrowsAtTheHead rests on, with RegisterInv: the note of a
\* status under way is newer than all its card ever had (routeStatus: the
\* identity is drawn under the lock of the card).
PastInv ==
  /\ \A n \in gone : n.id < nextId
  /\ \A r \in Requests : arg[r].route = "status" =>
       \A n \in tx[r].added : \A m \in NotesOf(n.card, gone) : m.id < n.id

-----------------------------------------------------------------------------
(***************************************************************************)
(* Why each commit is one operation of the register: what a request has    *)
(* written is what its route makes of the committed rows, which nobody     *)
(* else can have changed since.                                            *)
(***************************************************************************)

\* An id is one note's, and a note being written has an id of its own: a new
\* one, or that of the note it corrects.
IdsAreUnique ==
  /\ \A m, n \in notes : m.id = n.id => m = n
  /\ \A r \in Requests :
       /\ \A m, n \in tx[r].added : m.id = n.id => m = n
       /\ \A n \in tx[r].added : \A m \in notes : m.id = n.id => m \in tx[r].erased
       /\ \A q \in Requests \ {r} :
            \A n \in tx[r].added : \A m \in tx[q].added : m.id # n.id

\* An account being closed or reopened is one request's until then.
FlipsAreLocked ==
  \A r \in Requests : \A q \in Requests \ {r} : tx[r].flipped \cap tx[q].flipped = {}

\* The row with which a batch reserves a card.
Reservation(old, who) ==
  IF old = NoRow
  THEN [status |-> ToContact, by |-> NoTeam, volunteer |-> who]
  ELSE [old EXCEPT !.volunteer = who]

\* A row r has written is what its route makes of the committed one.
RowInKeeping(r, c) ==
  LET row == tx[r].rows[c]
      who == arg[r].who
      target == arg[r].target
  IN CASE arg[r].route = "batch" ->
            c \in arg[r].pool /\ Available(card[c]) /\ row = Reservation(card[c], who)
       [] arg[r].route = "toggle" ->
            /\ ReservedTo(card[c], target) /\ active[target]
            /\ row = [card[c] EXCEPT !.volunteer = NoOne]
       [] arg[r].route = "delete" ->
            card[c] # NoRow /\ row = [card[c] EXCEPT !.status = row.status, !.by = row.by]
       [] OTHER -> row.volunteer = Holder(card[c])

\* r has turned its target's account over, and not committed.
HasFlipped(r) ==
  \/ pc[r] \in {"sweep", "release"}
  \/ pc[r] = "commit" /\ arg[r].route = "toggle"

\* A batch under way has drawn no more than it may.
BatchInKeeping(r) ==
  /\ arg[r].pool \in Pools
  /\ Cardinality(Taken(r)) <= BatchSize
  /\ pc[r] = "take" =>
       /\ work[r].todo \subseteq arg[r].pool
       /\ Cardinality(Taken(r)) + Cardinality(work[r].todo) <= BatchSize

InKeeping(r) ==
  /\ arg[r].route = "batch" => BatchInKeeping(r)
  /\ arg[r].route = "toggle" => arg[r].target \in Manages[arg[r].who]
  /\ tx[r].flipped = IF HasFlipped(r) THEN {arg[r].target} ELSE {}
  /\ pc[r] \in {"sweep", "release"} => active[arg[r].target]
  /\ \A c \in Taken(r) : RowInKeeping(r, c)
  /\ arg[r].route = "status" =>
       \A n \in tx[r].added :
         n.author = arg[r].who /\ n.status = arg[r].status /\ ~n.edited
  /\ \A n \in tx[r].erased :
       /\ n.id = arg[r].note
       /\ \/ n.author = arg[r].who
          \/ arg[r].route = "delete" /\ arg[r].who \in Coordinators

\* The invariant ImplementsRegister, BatchKeepsItsPromise and
\* ReservationsMoveInTheOpen rest on (routeStatus, routeBatch, routeToggleAccount).
KeepingInv ==
  /\ IdsAreUnique
  /\ FlipsAreLocked
  /\ \A r \in Requests : InKeeping(r)

-----------------------------------------------------------------------------
\* With statements, locks and private writes forgotten, the requests do what
\* the register promises: each commit is one atomic operation of it.
TheRegister == INSTANCE Register
ImplementsRegister == TheRegister!Spec
=============================================================================
