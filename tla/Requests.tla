------------------------------- MODULE Requests -------------------------------
(***************************************************************************)
(* The two moderated queues: the teams asked for on a campaign             *)
(* (api/routes_team_requests.go) and the campaigns asked for on the        *)
(* instance (api/routes_instance.go), filed by anybody, decided by those   *)
(* who moderate, beside the doors that open a team, a campaign or an       *)
(* account without a request.                                              *)
(*                                                                         *)
(* Requests are transactions at READ COMMITTED, one step per statement, as *)
(* in Cards.  What two of them dispute is a row, locked FOR UPDATE, or an  *)
(* entry of a unique index: an insert waits for whoever has written it.    *)
(*                                                                         *)
(* Abstracted: a place is a team of the campaign or a campaign of the      *)
(* instance, its name a member of Names; a person is the account opened    *)
(* with it; perimeters, passwords and wording are left out, invitations    *)
(* are in Links, who may decide in Coordination.  A commit whose answer is *)
(* lost is a commit here: nothing but a message follows it.                *)
(***************************************************************************)
EXTENDS Integers, FiniteSets

CONSTANTS
  Queues,      \* the queues of the instance: team, hosting
  Names,       \* names of teams, addresses of campaigns
  Emails,
  Requests,    \* what runs at once
  MaxPending,  \* maxPendingTeamRequests, maxPendingRequests
  MaxRows,     \* bound: the rows ever filed
  MaxRequests, \* bound: the requests ever begun
  Doors,       \* bound: the routes the instance exercises
  Nothing,     \* no row, name, address or request
  Direct       \* the origin of what was opened without a request

Ids == 1..MaxRows
Origins == Ids \cup {Direct}

States == {"pending", "accepted", "refused"}

\* A row of team_requests or hosting_requests.
Row == [queue : Queues, name : Names, email : Emails, state : States]

\* A row of teams or orgs; `from`, history, is the request that opened it.
Place == [queue : Queues, name : Names, from : Origins]

\* An account of the campaign, or the coordination account of a campaign that
\* was opened: the email is unique among the first, alone in the second.
Person == [queue : Queues, email : Emails, from : Origins]

Routes == {"file", "accept", "refuse", "open", "account", "rename"}

ASSUME RequestsAssumption ==
  /\ Queues # {} /\ Queues \subseteq {"team", "hosting"}
  /\ Names # {} /\ Emails # {}
  /\ MaxPending \in Nat \ {0}
  /\ MaxRows \in Nat \ {0} /\ MaxRequests \in Nat
  /\ Doors \subseteq Routes /\ IsFiniteSet(Requests)
  /\ Nothing \notin Row \cup Names \cup Emails \cup Requests
  /\ Direct \notin Ids

VARIABLES
  rows,    \* the committed requests, by identity
  places,  \* the committed teams and campaigns
  people,  \* the committed accounts
  lock,    \* which transaction holds the row lock of each request
  tx,      \* what a transaction has written: a row, a place, a person
  pc,      \* the statement each request is about to send
  job,     \* its input and local variables
  drawn,   \* the identities drawn
  begun    \* how many requests were begun

vars == <<rows, places, people, lock, tx, pc, job, drawn, begun>>

Tx == [row : Row \cup {Nothing}, place : Names \cup {Nothing},
       person : Emails \cup {Nothing}]

Jobs == [route : Routes, queue : Queues, name : Names \cup {Nothing},
         email : Emails \cup {Nothing}, id : 0..MaxRows]

Steps == {"idle", "place", "pending", "count", "insert", "lock", "vacant",
          "open", "person", "update", "commit"}

NoTx == [row |-> Nothing, place |-> Nothing, person |-> Nothing]
NoJob == [route |-> "file", queue |-> CHOOSE q \in Queues : TRUE,
          name |-> Nothing, email |-> Nothing, id |-> 0]

Init ==
  /\ rows = [i \in Ids |-> Nothing]
  /\ places = {} /\ people = {}
  /\ lock = [i \in Ids |-> Nothing]
  /\ tx = [r \in Requests |-> NoTx]
  /\ pc = [r \in Requests |-> "idle"]
  /\ job = [r \in Requests |-> NoJob]
  /\ drawn = 0 /\ begun = 0

-----------------------------------------------------------------------------
Committed == <<rows, places, people>>

Goto(r, step) == pc' = [pc EXCEPT ![r] = step]

Close(r) ==
  /\ lock' = [i \in Ids |-> IF lock[i] = r THEN Nothing ELSE lock[i]]
  /\ tx' = [tx EXCEPT ![r] = NoTx]
  /\ job' = [job EXCEPT ![r] = NoJob]
  /\ Goto(r, "idle")

\* A refusal, and every failure: the scope rolls back.
Refuse(r) == Close(r) /\ UNCHANGED <<Committed, drawn, begun>>

\* A SELECT: the request goes on, or is refused.
Ask(r, from, refused, next) ==
  /\ pc[r] = from
  /\ \/ refused /\ Refuse(r)
     \/ /\ ~refused
        /\ Goto(r, next)
        /\ UNCHANGED <<Committed, lock, tx, job, drawn, begun>>

\* The pending rows of a queue, as a snapshot has them.
Pending(queue) ==
  {i \in Ids : rows[i] # Nothing /\ rows[i].queue = queue /\ rows[i].state = "pending"}

PendingOn(queue, name) == {i \in Pending(queue) : rows[i].name = name}

PlaceTaken(queue, name) == \E p \in places : p.queue = queue /\ p.name = name

EmailTaken(queue, email) == \E p \in people : p.queue = queue /\ p.email = email

\* Who has written, and not committed, an entry of each unique index; a row
\* that leaves `pending` keeps its entry until its transaction ends.
NameInHand(r) ==
  \E q \in Requests \ {r} :
    /\ tx[q].row # Nothing
    /\ tx[q].row.queue = job[r].queue /\ tx[q].row.name = job[r].name
PlaceInHand(r) ==
  \E q \in Requests \ {r} : tx[q].place = job[r].name /\ job[q].queue = job[r].queue
PersonInHand(r) ==
  \E q \in Requests \ {r} : tx[q].person = job[r].email /\ job[q].queue = job[r].queue

-----------------------------------------------------------------------------
Begin(r, step, j) ==
  /\ j.route \in Doors
  /\ pc[r] = "idle" /\ begun < MaxRequests
  /\ begun' = begun + 1
  /\ job' = [job EXCEPT ![r] = j]
  /\ Goto(r, step)
  /\ UNCHANGED <<Committed, lock, tx, drawn>>

\* POST /api/team/request and POST /api/request, from anybody.
BeginFile(r) ==
  \E q \in Queues, n \in Names, e \in Emails :
    Begin(r, "place", [NoJob EXCEPT !.queue = q, !.name = n, !.email = e])

CheckPlace(r) == Ask(r, "place", PlaceTaken(job[r].queue, job[r].name), "pending")

CheckPending(r) ==
  Ask(r, "pending", PendingOn(job[r].queue, job[r].name) # {}, "count")

\* Bug: the ceiling itself is let in.
CountAtMost(r) ==
  Ask(r, "count", Cardinality(Pending(job[r].queue)) > MaxPending, "insert")

\* INSERT ... SELECT ... WHERE (SELECT count(*)) < ceiling: the count is of the
\* statement's snapshot, however long the insert then waits for the index.
Count(r) ==
  Ask(r, "count", Cardinality(Pending(job[r].queue)) >= MaxPending, "insert")

\* The partial unique index on pending names: the insert waits for whoever has
\* an entry in hand, and the loser is the 409.
InsertRow(r) ==
  /\ pc[r] = "insert" /\ ~NameInHand(r)
  /\ drawn < MaxRows
  /\ IF PendingOn(job[r].queue, job[r].name) # {}
     THEN Refuse(r)
     ELSE /\ drawn' = drawn + 1
          /\ tx' = [tx EXCEPT ![r].row =
                      [queue |-> job[r].queue, name |-> job[r].name,
                       email |-> job[r].email, state |-> "pending"]]
          /\ lock' = [lock EXCEPT ![drawn + 1] = r]
          /\ job' = [job EXCEPT ![r].id = drawn + 1]
          /\ Goto(r, "commit")
          /\ UNCHANGED <<Committed, begun>>

-----------------------------------------------------------------------------
\* POST /api/team/requests/{id} and POST /api/admin/requests/{id}.  Whoever
\* accepts a team may give it another name; a campaign keeps its address.
BeginAccept(r) ==
  \E i \in {i \in Ids : rows[i] # Nothing}, n \in Names :
    /\ rows[i].queue = "hosting" => n = rows[i].name
    /\ Begin(r, "lock", [route |-> "accept", queue |-> rows[i].queue, name |-> n,
                         email |-> rows[i].email, id |-> i])

BeginRefuse(r) ==
  \E i \in {i \in Ids : rows[i] # Nothing} :
    Begin(r, "lock", [route |-> "refuse", queue |-> rows[i].queue,
                      name |-> rows[i].name, email |-> rows[i].email, id |-> i])

AfterLock(r) == IF job[r].route = "accept" THEN "vacant" ELSE "update"

\* Bug: the row is read without FOR UPDATE.
LockRowUnlocked(r) == Ask(r, "lock", rows[job[r].id].state # "pending", AfterLock(r))

\* SELECT ... FOR UPDATE: a request already decided is the 409.
LockRow(r) ==
  LET i == job[r].id
  IN /\ pc[r] = "lock"
     /\ lock[i] \in {Nothing, r}
     /\ IF rows[i].state # "pending"
        THEN Refuse(r)
        ELSE /\ lock' = [lock EXCEPT ![i] = r]
             /\ Goto(r, AfterLock(r))
             /\ UNCHANGED <<Committed, tx, job, drawn, begun>>

\* A team is refused to an address that has an account, a campaign when its
\* address was taken; routeCreateCampaign asks the same.
Vacant(r) ==
  Ask(r, "vacant",
      \/ job[r].queue = "team" /\ EmailTaken("team", job[r].email)
      \/ job[r].queue = "hosting" /\ PlaceTaken("hosting", job[r].name),
      "open")

\* insertTeam, and createCampaign's INSERT of the organisation.  A team opened
\* by hand has nobody in it yet.
OpenPlace(r) ==
  /\ pc[r] = "open" /\ ~PlaceInHand(r)
  /\ IF PlaceTaken(job[r].queue, job[r].name)
     THEN Refuse(r)
     ELSE /\ tx' = [tx EXCEPT ![r].place = job[r].name]
          /\ Goto(r, IF job[r].route = "accept" \/ job[r].queue = "hosting"
                     THEN "person" ELSE "commit")
          /\ UNCHANGED <<Committed, lock, job, drawn, begun>>

AfterPerson(r) == IF job[r].route = "accept" THEN "update" ELSE "commit"

\* Bug: an account taken meanwhile is passed over.
OpenPersonIfNew(r) ==
  /\ pc[r] = "person"
  /\ job[r].queue = "team" => ~PersonInHand(r)
  /\ tx' = [tx EXCEPT ![r].person =
              IF job[r].queue = "team" /\ EmailTaken("team", job[r].email)
              THEN @ ELSE job[r].email]
  /\ Goto(r, AfterPerson(r))
  /\ UNCHANGED <<Committed, lock, job, drawn, begun>>

\* insertAccount, and createCampaign's: the second writes in a campaign that
\* nobody else has seen, and can collide with nothing.
OpenPerson(r) ==
  /\ pc[r] = "person"
  /\ job[r].queue = "team" => ~PersonInHand(r)
  /\ IF job[r].queue = "team" /\ EmailTaken("team", job[r].email)
     THEN Refuse(r)
     ELSE /\ tx' = [tx EXCEPT ![r].person = job[r].email]
          /\ Goto(r, AfterPerson(r))
          /\ UNCHANGED <<Committed, lock, job, drawn, begun>>

\* UPDATE ... SET state, reason, decided_by: on the row as it is by then.
Update(r) ==
  LET i == job[r].id
  IN /\ pc[r] = "update"
     /\ lock[i] \in {Nothing, r}
     /\ lock' = [lock EXCEPT ![i] = r]
     /\ tx' = [tx EXCEPT ![r].row = [rows[i] EXCEPT !.state =
                 IF job[r].route = "accept" THEN "accepted" ELSE "refused"]]
     /\ Goto(r, "commit")
     /\ UNCHANGED <<Committed, job, drawn, begun>>

-----------------------------------------------------------------------------
\* routeCreateTeam and routeCreateCampaign, beside the queues: a pending
\* request on the same name stays untouched.
BeginOpen(r) ==
  \E q \in Queues, n \in Names, e \in Emails :
    Begin(r, IF q = "hosting" THEN "vacant" ELSE "open",
          [NoJob EXCEPT !.route = "open", !.queue = q, !.name = n, !.email = e])

\* routeCreateAccount.
BeginAccount(r) ==
  /\ "team" \in Queues
  /\ \E e \in Emails :
       Begin(r, "person", [NoJob EXCEPT !.route = "account", !.queue = "team", !.email = e])

\* routeUpdateTeam, its statement and its commit in one step.
Rename ==
  /\ "rename" \in Doors
  /\ \E p \in places, n \in Names :
       /\ p.queue = "team" /\ ~PlaceTaken("team", n)
       /\ \A r \in Requests : job[r].queue = "team" => tx[r].place # n
       /\ places' = (places \ {p}) \cup {[p EXCEPT !.name = n]}
  /\ UNCHANGED <<rows, people, lock, tx, pc, job, drawn, begun>>

\* Everything the transaction wrote, at once.
Commit(r) ==
  LET from == IF job[r].route = "accept" THEN job[r].id ELSE Direct
  IN /\ pc[r] = "commit"
     /\ rows' = IF tx[r].row = Nothing THEN rows
                ELSE [rows EXCEPT ![job[r].id] = tx[r].row]
     /\ places' = IF tx[r].place = Nothing THEN places
                  ELSE places \cup {[queue |-> job[r].queue, name |-> tx[r].place, from |-> from]}
     /\ people' = IF tx[r].person = Nothing THEN people
                  ELSE people \cup {[queue |-> job[r].queue, email |-> tx[r].person, from |-> from]}
     /\ Close(r)
     /\ UNCHANGED <<drawn, begun>>

\* A statement or a commit that fails, a caller who hangs up, a pod that dies.
Fail(r) == pc[r] # "idle" /\ Refuse(r)

Step(r) ==
  \/ CheckPlace(r) \/ CheckPending(r) \/ Count(r) \/ InsertRow(r)
  \/ LockRow(r) \/ Vacant(r) \/ OpenPlace(r) \/ OpenPerson(r) \/ Update(r)
  \/ Commit(r)

Next ==
  \/ \E r \in Requests :
       \/ BeginFile(r) \/ BeginAccept(r) \/ BeginRefuse(r)
       \/ BeginOpen(r) \/ BeginAccount(r)
       \/ Step(r) \/ Fail(r)
  \/ Rename

Spec == Init /\ [][Next]_vars

-----------------------------------------------------------------------------
\* The variables hold what their comments say.
TypeOK ==
  /\ rows \in [Ids -> Row \cup {Nothing}]
  /\ places \subseteq Place
  /\ people \subseteq Person
  /\ lock \in [Ids -> Requests \cup {Nothing}]
  /\ tx \in [Requests -> Tx]
  /\ pc \in [Requests -> Steps]
  /\ job \in [Requests -> Jobs]
  /\ drawn \in 0..MaxRows /\ begun \in Nat

\* « One pending request per address, enforced by the DATABASE »: what the
\* unique indexes say of the tables.
Unique ==
  /\ \A q \in Queues, n \in Names : Cardinality(PendingOn(q, n)) <= 1
  /\ \A p1, p2 \in places : p1.queue = p2.queue /\ p1.name = p2.name => p1 = p2
  /\ \A p1, p2 \in people :
       p1.queue = "team" /\ p2.queue = "team" /\ p1.email = p2.email => p1 = p2

\* « Two members of the coordination can process the same request at the same
\* moment » (routeDecideTeamRequest): a request is decided once, and never
\* leaves the queue otherwise.
DecidedOnce ==
  [][\A i \in Ids :
       rows[i] # Nothing /\ rows'[i] # rows[i] =>
         /\ rows[i].state = "pending"
         /\ rows'[i] # Nothing /\ rows'[i] = [rows[i] EXCEPT !.state = rows'[i].state]]_vars

\* An accepted request has one place and one person, a request that is pending
\* or refused has neither: whatever races it, fails or commits in part. And no
\* name, address or request is there twice (Unique): from a double click, from
\* two strangers, or from a decision and a direct opening that both looked first.
DecisionsAreWhole ==
  /\ Unique
  /\ \A i \in Ids :
       LET opened == {p \in places : p.from = i}
           accounts == {p \in people : p.from = i}
       IN IF rows[i] # Nothing /\ rows[i].state = "accepted"
          THEN /\ \E p \in opened : opened = {p} /\ p.queue = rows[i].queue
               /\ \E p \in accounts : accounts = {p} /\ p.email = rows[i].email
          ELSE opened = {} /\ accounts = {}

\* « A bound with slack, not an invariant » (routeTeamRequest): the ceiling is
\* exceeded by what runs at once and no more, however many come after.
CeilingSlack ==
  \A q \in Queues :
    Cardinality(Pending(q)) <= MaxPending - 1 + Cardinality(Requests)
=============================================================================
