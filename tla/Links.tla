-------------------------------- MODULE Links --------------------------------
(***************************************************************************)
(* The links a campaign sends by email: asked for from the sign-in screen, *)
(* minted with an account that is opened, exchanged once for a session     *)
(* (api/link.go), over a pool of connections (api/scope.go).               *)
(*                                                                         *)
(* As in Cards a request is a transaction at READ COMMITTED, one step per  *)
(* statement, its writes private until its commit.  A commit has three     *)
(* ends: it lands, it is rolled back, or it lands and its answer is lost.  *)
(*                                                                         *)
(* Abstracted: a token and its hash are a number, in the order they are    *)
(* drawn; a row of login_tokens is that number and its expiry; roles and   *)
(* teams are in Coordination, cookies and passwords in Sessions.           *)
(***************************************************************************)
EXTENDS Integers, FiniteSets

CONSTANTS
  Emails,      \* the addresses of one campaign
  Members,     \* those that have an account at the start
  Requests,    \* what runs at once: handlers, and the detached minting
  PoolSize,    \* connections of the pgx pool
  Life,        \* [Purposes -> Nat]: signInLinkLife, invitationLinkLife
  MaxLinks,    \* bound: the tokens ever drawn
  MaxClock,    \* bound: the last instant
  MaxRequests, \* bound: the requests ever begun
  Doors,       \* bound: the routes the instance exercises
  NoLink,      \* no row
  Untouched,   \* a row the transaction has not written
  NoRequest    \* nobody holds the row lock

Purposes == {"signin", "invitation"}

\* The unique index of login_tokens.
Keys == Emails \X Purposes

Ids == 1..MaxLinks

Link == [id : Ids, expires : Nat]

Routes == {"ask", "invite", "redeem", "toggle"}

ASSUME LinksAssumption ==
  /\ Emails # {} /\ Members \subseteq Emails
  /\ PoolSize \in Nat \ {0}
  /\ Life \in [Purposes -> Nat]
  /\ MaxLinks \in Nat \ {0} /\ MaxClock \in Nat /\ MaxRequests \in Nat
  /\ Doors \subseteq Routes
  /\ NoLink \notin Link /\ Untouched \notin Link /\ NoLink # Untouched
  /\ NoRequest \notin Requests

VARIABLES
  account,   \* accounts: "none", "open" or "closed", committed
  link,      \* the committed rows of login_tokens, by key
  opener,    \* which request has inserted an account it has not committed
  lock,      \* which request holds the row, or the index entry, of each key
  conns,     \* the requests that hold a connection of the pool
  pc,        \* the step each request is about to take
  job,       \* its input and local variables
  tx,        \* its uncommitted writes on login_tokens
  clock,     \* Server.now
  drawn,     \* how many tokens were drawn
  inbox,     \* the links that were delivered
  opened,    \* how many sessions each link opened
  presented, \* history: the links that reached the database, see Spend
  begun      \* how many requests were begun

vars == <<account, link, opener, lock, conns, pc, job, tx, clock, drawn, inbox,
          opened, presented, begun>>

Mail == [id : Ids, email : Emails, purpose : Purposes]

Jobs == [route : Routes \ {"toggle"}, email : Emails, id : 0..MaxLinks, now : Nat,
         todo : SUBSET Keys]

Steps == {"idle", "open", "look", "reopen", "account", "clear", "clearing",
          "insert", "commit", "release", "send", "spend", "renew", "read",
          "alone", "retry"}

AnyEmail == CHOOSE e \in Emails : TRUE

NoJob == [route |-> "ask", email |-> AnyEmail, id |-> 0, now |-> 0,
          todo |-> {}]
NoTx == [k \in Keys |-> Untouched]

Init ==
  /\ account = [e \in Emails |-> IF e \in Members THEN "open" ELSE "none"]
  /\ link = [k \in Keys |-> NoLink]
  /\ opener = [e \in Emails |-> NoRequest]
  /\ lock = [k \in Keys |-> NoRequest]
  /\ conns = {}
  /\ pc = [r \in Requests |-> "idle"]
  /\ job = [r \in Requests |-> NoJob]
  /\ tx = [r \in Requests |-> NoTx]
  /\ clock = 0 /\ drawn = 0
  /\ inbox = {}
  /\ opened = [i \in Ids |-> 0]
  /\ presented = {}
  /\ begun = 0

-----------------------------------------------------------------------------
Committed == <<account, link>>
History == <<clock, drawn, inbox, opened, presented, begun>>

Goto(r, step) == pc' = [pc EXCEPT ![r] = step]

Lockable(r, k) == lock[k] \in {NoRequest, r}

TakeLock(r, k) == lock' = [lock EXCEPT ![k] = r]

\* What the transaction of r leaves in the table.
Applied(r) == [k \in Keys |-> IF tx[r][k] = Untouched THEN link[k] ELSE tx[r][k]]

\* The end of a transaction: its locks and private writes go with it.
EndTx(r) ==
  /\ lock' = [k \in Keys |-> IF lock[k] = r THEN NoRequest ELSE lock[k]]
  /\ opener' = [e \in Emails |-> IF opener[e] = r THEN NoRequest ELSE opener[e]]
  /\ tx' = [tx EXCEPT ![r] = NoTx]

\* The end of a request: the deferred close of its scope.
Close(r) ==
  /\ EndTx(r)
  /\ conns' = conns \ {r}
  /\ job' = [job EXCEPT ![r] = NoJob]
  /\ Goto(r, "idle")

Refuse(r) == Close(r) /\ UNCHANGED <<Committed, History>>

\* The key a minting writes.
KeyOf(r) == <<job[r].email, IF job[r].route = "ask" THEN "signin" ELSE "invitation">>

\* The keys whose row is the link of that number.
Holding(i) == {k \in Keys : link[k] # NoLink /\ link[k].id = i}

-----------------------------------------------------------------------------
\* A request arrives; a link is presented by whoever was sent it, or a copy.
Arrive(r, route, email, id) ==
  /\ route \in Doors
  /\ pc[r] = "idle" /\ begun < MaxRequests
  /\ begun' = begun + 1
  /\ job' = [job EXCEPT ![r] = [NoJob EXCEPT !.route = route, !.email = email, !.id = id]]
  /\ Goto(r, "open")
  /\ UNCHANGED <<Committed, opener, lock, conns, tx, clock, drawn, inbox, opened, presented>>

BeginAsk(r) == \E e \in Emails : Arrive(r, "ask", e, 0)

BeginInvite(r) == \E e \in Emails : Arrive(r, "invite", e, 0)

BeginRedeem(r) == \E m \in inbox : Arrive(r, "redeem", AnyEmail, m.id)

\* What a request does first with its connection.
Granted(r) ==
  [open   |-> [ask |-> "look", invite |-> "account", redeem |-> "spend"][job[r].route],
   reopen |-> "clear",
   alone  |-> "retry"][pc[r]]

\* openScope, mintDetached and spendAlone take a connection; the clock is read
\* before the statement that follows, however long that one waits.
Acquire(r) ==
  /\ pc[r] \in {"open", "reopen", "alone"}
  /\ Cardinality(conns) < PoolSize
  /\ conns' = conns \cup {r}
  /\ job' = [job EXCEPT ![r].now = clock]
  /\ Goto(r, Granted(r))
  /\ UNCHANGED <<Committed, opener, lock, tx, History>>

\* routeRequestLink: it reads the account and answers the same sentence
\* whatever it found; the rest is detached, the request's connection given back.
Look(r) ==
  /\ pc[r] = "look"
  /\ IF account[job[r].email] = "open"
     THEN /\ conns' = conns \ {r}
          /\ Goto(r, "reopen")
          /\ UNCHANGED <<Committed, opener, lock, job, tx, History>>
     ELSE Refuse(r)

\* routeCreateAccount: the INSERT waits for one of the same address, and an
\* address taken is the 409.
OpenAccount(r) ==
  LET e == job[r].email
  IN /\ pc[r] = "account"
     /\ opener[e] = NoRequest
     /\ IF account[e] = "none"
        THEN /\ opener' = [opener EXCEPT ![e] = r]
             /\ job' = [job EXCEPT ![r].now = clock]
             /\ Goto(r, "clear")
             /\ UNCHANGED <<Committed, lock, conns, tx, History>>
        ELSE Refuse(r)

-----------------------------------------------------------------------------
\* newLinkToken

\* Bug: the previous links of the address go whatever their purpose.
ClearableAnyPurpose(r, k) ==
  /\ link[k] # NoLink
  /\ k[1] = job[r].email \/ link[k].expires <= job[r].now

\* The rows its DELETE names: the previous link of the address and purpose,
\* and everything that has expired.
Clearable(r, k) ==
  /\ link[k] # NoLink
  /\ k = KeyOf(r) \/ link[k].expires <= job[r].now

\* The token is drawn, and the DELETE takes its rows from its snapshot.
Clear(r) ==
  LET found == {k \in Keys : Clearable(r, k)}
  IN /\ pc[r] = "clear"
     /\ drawn < MaxLinks
     /\ drawn' = drawn + 1
     /\ job' = [job EXCEPT ![r] = [@ EXCEPT !.id = drawn + 1, !.todo = found]]
     /\ Goto(r, IF found = {} THEN "insert" ELSE "clearing")
     /\ UNCHANGED <<Committed, opener, lock, conns, tx, clock, inbox, opened, presented, begun>>

\* One row of it, waited for, and deleted if it still qualifies.
ClearRow(r) ==
  /\ pc[r] = "clearing"
  /\ \E k \in job[r].todo :
       LET rest == job[r].todo \ {k}
       IN /\ Lockable(r, k)
          /\ IF Clearable(r, k)
             THEN TakeLock(r, k) /\ tx' = [tx EXCEPT ![r] = [@ EXCEPT ![k] = NoLink]]
             ELSE UNCHANGED <<lock, tx>>
          /\ job' = [job EXCEPT ![r].todo = rest]
          /\ Goto(r, IF rest = {} THEN "insert" ELSE "clearing")
  /\ UNCHANGED <<Committed, opener, conns, History>>

\* Bug: the message leaves before the row and the account are committed.
InsertAndSend(r) ==
  LET k == KeyOf(r)
      row == [id |-> job[r].id, expires |-> job[r].now + Life[k[2]]]
  IN /\ pc[r] = "insert"
     /\ Lockable(r, k)
     /\ TakeLock(r, k)
     /\ tx' = [tx EXCEPT ![r] = [@ EXCEPT ![k] = row]]
     /\ inbox' = inbox \cup {[id |-> job[r].id, email |-> k[1], purpose |-> k[2]]}
     /\ Goto(r, "commit")
     /\ UNCHANGED <<Committed, opener, conns, job, clock, drawn, opened, presented, begun>>

\* INSERT ... ON CONFLICT DO UPDATE: the unique index makes it wait for any
\* transaction that has written the key, and the last word is the row's.
Insert(r) ==
  LET k == KeyOf(r)
      row == [id |-> job[r].id, expires |-> job[r].now + Life[k[2]]]
  IN /\ pc[r] = "insert"
     /\ Lockable(r, k)
     /\ TakeLock(r, k)
     /\ tx' = [tx EXCEPT ![r] = [@ EXCEPT ![k] = row]]
     /\ Goto(r, "commit")
     /\ UNCHANGED <<Committed, opener, conns, job, History>>

\* The rows, and the account with them, for good.
Land(r) ==
  /\ link' = Applied(r)
  /\ account' = [e \in Emails |-> IF opener[e] = r THEN "open" ELSE account[e]]

Commit(r) ==
  /\ pc[r] = "commit"
  /\ Land(r)
  /\ EndTx(r)
  /\ Goto(r, "release")
  /\ UNCHANGED <<conns, job, History>>

\* It landed, and the request was told otherwise: nothing is sent.
CommitLost(r) ==
  /\ pc[r] = "commit"
  /\ Land(r)
  /\ Close(r)
  /\ UNCHANGED History

\* The relay may take thirty seconds: the connection goes back first.
Release(r) ==
  /\ pc[r] = "release"
  /\ conns' = conns \ {r}
  /\ Goto(r, "send")
  /\ UNCHANGED <<Committed, opener, lock, job, tx, History>>

\* The relay takes the message, or does not.
Send(r) ==
  /\ pc[r] = "send"
  /\ inbox' \in {inbox, inbox \cup {[id |-> job[r].id, email |-> KeyOf(r)[1],
                                     purpose |-> KeyOf(r)[2]]}}
  /\ Close(r)
  /\ UNCHANGED <<Committed, clock, drawn, opened, presented, begun>>

-----------------------------------------------------------------------------
\* routeRedeemLink, redeemLink

\* Bug: the row is read, and deleted in a statement of its own that nobody
\* looks at.
SpendUnlocked(r) ==
  LET found == {k \in Holding(job[r].id) : link[k].expires > job[r].now}
  IN /\ pc[r] = "spend"
     /\ IF found = {}
        THEN Refuse(r)
        ELSE /\ tx' = [tx EXCEPT ![r] = [k \in Keys |-> IF k \in found THEN NoLink ELSE Untouched]]
             /\ job' = [job EXCEPT ![r].email = (CHOOSE k \in found : TRUE)[1]]
             /\ presented' = presented \cup {job[r].id}
             /\ Goto(r, "renew")
             /\ UNCHANGED <<Committed, opener, lock, conns, clock, drawn, inbox, opened, begun>>

\* DELETE ... WHERE token_hash AND expires_at > now RETURNING: it waits for
\* whoever has the row, and finds it there or not.
Spend(r) ==
  LET found == {k \in Holding(job[r].id) : link[k].expires > job[r].now}
  IN /\ pc[r] = "spend"
     /\ \/ found = {} /\ Refuse(r)
        \/ \E k \in found :
             /\ Lockable(r, k)
             /\ TakeLock(r, k)
             /\ tx' = [tx EXCEPT ![r] = [@ EXCEPT ![k] = NoLink]]
             /\ job' = [job EXCEPT ![r].email = k[1]]
             /\ presented' = presented \cup {job[r].id}
             /\ Goto(r, "renew")
             /\ UNCHANGED <<Committed, opener, conns, clock, drawn, inbox, opened, begun>>

\* renew, under a context the caller's hanging up does not cancel: the DELETE
\* is committed and a transaction opened behind it on the same connection.
Renew(r) ==
  /\ pc[r] = "renew"
  /\ Land(r)
  /\ EndTx(r)
  /\ Goto(r, "read")
  /\ UNCHANGED <<conns, job, History>>

\* Bug: a failed commit is answered, and nothing else is done.
RenewFailsOnly(r) ==
  /\ pc[r] = "renew"
  /\ \/ UNCHANGED link
     \/ link' = Applied(r)
  /\ Close(r)
  /\ UNCHANGED <<account, History>>

\* Bug: the link is spent on another connection with this one still held.
RenewFailsHolding(r) ==
  /\ pc[r] = "renew"
  /\ \/ UNCHANGED link
     \/ link' = Applied(r)
  /\ EndTx(r)
  /\ Goto(r, "alone")
  /\ UNCHANGED <<account, conns, job, History>>

\* The commit is rolled back, or its answer is lost: the connection goes back,
\* and the link will be spent alone.
RenewFails(r) ==
  /\ pc[r] = "renew"
  /\ \/ UNCHANGED link
     \/ link' = Applied(r)
  /\ EndTx(r)
  /\ conns' = conns \ {r}
  /\ Goto(r, "alone")
  /\ UNCHANGED <<account, job, History>>

\* spendAlone: a DELETE on a connection that owes the request nothing.
Retry(r) ==
  LET found == Holding(job[r].id)
  IN /\ pc[r] = "retry"
     /\ \A k \in found : Lockable(r, k)
     /\ link' = [k \in Keys |-> IF k \in found THEN NoLink ELSE link[k]]
     /\ Close(r)
     /\ UNCHANGED <<account, History>>

\* The account is read after the link is spent: a closed one is refused, and
\* the link is gone all the same.
ReadAccount(r) ==
  /\ pc[r] = "read"
  /\ opened' = IF account[job[r].email] = "open"
               THEN [opened EXCEPT ![job[r].id] = @ + 1] ELSE opened
  /\ Close(r)
  /\ UNCHANGED <<Committed, clock, drawn, inbox, presented, begun>>

-----------------------------------------------------------------------------
\* A statement that fails (a deadlock broken included), a caller who hangs up,
\* a connection never granted.
\* Neither the renewal nor spendAlone hears of the caller.
Fail(r) == pc[r] \notin {"idle", "renew", "alone", "retry"} /\ Refuse(r)

\* spendAlone's five seconds run out, or the pod dies before it is done: the
\* link stays, « the limit is worth naming ».
GiveUp(r) ==
  /\ pc[r] \in {"renew", "alone", "retry"}
  /\ presented' = presented \ {job[r].id}
  /\ Close(r)
  /\ UNCHANGED <<Committed, clock, drawn, inbox, opened, begun>>

\* routeToggleAccount, as Coordination and Cards have it.
Toggle ==
  /\ "toggle" \in Doors
  /\ \E e \in Emails :
       /\ account[e] # "none"
       /\ account' = [account EXCEPT ![e] = IF @ = "open" THEN "closed" ELSE "open"]
  /\ UNCHANGED <<link, opener, lock, conns, pc, job, tx, History>>

Tick ==
  /\ clock < MaxClock
  /\ clock' = clock + 1
  /\ UNCHANGED <<Committed, opener, lock, conns, pc, job, tx, drawn, inbox,
                 opened, presented, begun>>

Step(r) ==
  \/ Acquire(r) \/ Look(r) \/ OpenAccount(r)
  \/ Clear(r) \/ ClearRow(r) \/ Insert(r) \/ Commit(r) \/ CommitLost(r)
  \/ Release(r) \/ Send(r)
  \/ Spend(r) \/ Renew(r) \/ RenewFails(r) \/ Retry(r) \/ ReadAccount(r)

Next ==
  \/ \E r \in Requests :
       \/ BeginAsk(r) \/ BeginInvite(r) \/ BeginRedeem(r)
       \/ Step(r) \/ Fail(r) \/ GiveUp(r)
  \/ Toggle \/ Tick

Spec == Init /\ [][Next]_vars

-----------------------------------------------------------------------------
\* A row expires within the life of its purpose.
InItsTime(row, k) == row \notin {NoLink, Untouched} => row.expires <= clock + Life[k[2]]

\* The variables hold what their comments say, and no link outlives its purpose.
TypeOK ==
  /\ account \in [Emails -> {"none", "open", "closed"}]
  /\ link \in [Keys -> Link \cup {NoLink}]
  /\ opener \in [Emails -> Requests \cup {NoRequest}]
  /\ lock \in [Keys -> Requests \cup {NoRequest}]
  /\ conns \subseteq Requests
  /\ pc \in [Requests -> Steps]
  /\ job \in [Requests -> Jobs]
  /\ tx \in [Requests -> [Keys -> Link \cup {NoLink, Untouched}]]
  /\ clock \in Nat /\ drawn \in 0..MaxLinks
  /\ \A k \in Keys : InItsTime(link[k], k)
  /\ \A r \in Requests : job[r].now <= clock /\ \A k \in Keys : InItsTime(tx[r][k], k)
  /\ inbox \subseteq Mail
  /\ opened \in [Ids -> Nat]
  /\ presented \subseteq Ids
  /\ begun \in Nat

\* « DELETE ... RETURNING is what makes it single-use » (redeemLink): however
\* many copies are presented at once, while it is minted again or its commit
\* fails, a link opens one session at most.
SingleUse == \A i \in Ids : opened[i] <= 1

\* « A failed commit hands back no link that has just been presented »
\* (redeemLink, spendAlone): a link that reached the database is gone once no
\* request is busy with it, a refusal for a closed account included; the one
\* exception is a spendAlone that could not be done.
PresentedIsGone ==
  \A i \in presented :
    (\A r \in Requests : job[r].id # i) => Holding(i) = {}

\* « The two kinds do not compete » (newLinkToken): an invitation leaves the
\* table only by being presented, or when it has expired.
InvitationsOutliveSignIns ==
  [][\A e \in Emails :
       LET row == link[<<e, "invitation">>]
       IN row # NoLink /\ link'[<<e, "invitation">>] # row =>
            \/ row.expires <= clock
            \/ \E r \in Requests : job[r].route = "redeem" /\ job[r].id = row.id]_vars

\* « A link must not arrive before the account it opens » (sendInvitation),
\* and an invitation whose account rolled back is not sent either.
InvitedAccountsExist ==
  \A m \in inbox : account[m.email] # "none"

\* Nobody waits for a connection, or for the relay, while holding one: the
\* pool cannot be exhausted by requests that wait for it (renew, release).
NobodyWaitsHolding ==
  \A r \in Requests : pc[r] \in {"open", "reopen", "alone", "send"} => r \notin conns

=============================================================================
