------------------------------- MODULE Sessions -------------------------------
(***************************************************************************)
(* Passwords and the sessions they open: sign-in with its upgrade of old   *)
(* hashes, the change of one's own password, the reset by somebody else,   *)
(* the seeding at start (api/routes_session.go, api/routes_team.go,        *)
(* api/bootstrap.go), and the instants that end a session (api/auth.go,    *)
(* api/session.go).                                                        *)
(*                                                                         *)
(* There is no table of sessions: a token carries the second it was minted *)
(* in, an account the second of its last change, and each request compares *)
(* the two.  Requests are transactions at READ COMMITTED as in Cards, with *)
(* the hashing of a password, which is slow, between their statements.     *)
(*                                                                         *)
(* Abstracted: a hash is the password it verifies and whether it is of an  *)
(* older scheme; a password drawn or chosen is any of Passwords; a link    *)
(* session is opened here at any moment, Links says when.                  *)
(***************************************************************************)
EXTENDS Integers

CONSTANTS
  Emails,       \* the accounts of one campaign
  Passwords,
  First,        \* [Emails -> Passwords]: what each was opened with
  OldScheme,    \* the accounts whose hash predates argon2id
  Seeded,       \* the account PARAPHE_ADMIN_EMAIL names
  Requests,     \* the requests in flight at once
  Ahead,        \* [Requests -> Nat]: the clock of the pod that serves each
  SecondTicks,  \* clock ticks in a second
  Life,         \* SessionDuration, in seconds
  Skew,         \* jwtSkew, in seconds
  MaxClock,     \* bound: the last instant
  MaxRequests,  \* bound: the requests ever begun
  Doors,        \* bound: the routes the instance exercises
  NoRequest     \* nobody holds the row lock

Routes == {"signin", "link", "change", "reset", "seed", "toggle"}

Hash == [password : Passwords, old : BOOLEAN]

\* `changed` is password_changed_at, 0 for NULL: no token is older.
Row == [hash : Hash, changed : Nat, active : BOOLEAN]

ASSUME SessionsAssumption ==
  /\ Emails # {} /\ Passwords # {}
  /\ First \in [Emails -> Passwords]
  /\ OldScheme \subseteq Emails /\ Seeded \in Emails
  /\ Ahead \in [Requests -> Nat]
  /\ SecondTicks \in Nat \ {0} /\ Life \in Nat /\ Skew \in Nat
  /\ MaxClock \in Nat /\ MaxRequests \in Nat
  /\ Doors \subseteq Routes
  /\ NoRequest \notin Requests

VARIABLES
  account,   \* the committed rows of accounts
  lock,      \* which request holds the row lock of each
  pc,        \* the step each request is about to take
  job,       \* its input and local variables
  write,     \* the row it has written and not committed
  sessions,  \* the tokens that were minted
  clock,     \* ticks since the start
  changes,   \* history: how many changes and resets each account has had
  changedBy, \* history: how far ahead the clock of the last one was
  begun      \* how many requests were begun

vars == <<account, lock, pc, job, write, sessions, clock, changes, changedBy, begun>>

Vias == {"password", "link"}

\* A token; `under` is the password that opened it, `seen` and `ahead` are
\* history: the changes its request had seen, and the clock it was minted by.
Session == [email : Emails, iat : Nat, via : Vias, under : Passwords,
            seen : Nat, ahead : Nat]

\* typed: the password given; stored, open: the hash and `active` read; fresh:
\* the password to write; stamp: changedAt; seen: the changes of the account
\* when the request last read it.
Jobs == [route : Routes, email : Emails, typed : Passwords, stored : Hash,
         open : BOOLEAN, fresh : Passwords, stamp : Nat, seen : Nat]

Steps == {"idle", "verify", "reread", "rehash", "prove", "stamp", "write",
          "commit", "mint"}

AnyEmail == CHOOSE e \in Emails : TRUE
AnyPassword == CHOOSE p \in Passwords : TRUE
NoHash == [password |-> AnyPassword, old |-> FALSE]
NoJob == [route |-> "signin", email |-> AnyEmail, typed |-> AnyPassword,
          stored |-> NoHash, open |-> TRUE, fresh |-> AnyPassword, stamp |-> 0,
          seen |-> 0]
NoWrite == [hash |-> NoHash, changed |-> 0, active |-> FALSE]

Init ==
  /\ account = [e \in Emails |-> [hash |-> [password |-> First[e], old |-> e \in OldScheme],
                                  changed |-> 0, active |-> TRUE]]
  /\ lock = [e \in Emails |-> NoRequest]
  /\ pc = [r \in Requests |-> "idle"]
  /\ job = [r \in Requests |-> NoJob]
  /\ write = [r \in Requests |-> NoWrite]
  /\ sessions = {}
  /\ clock = 0
  /\ changes = [e \in Emails |-> 0]
  /\ changedBy = [e \in Emails |-> 0]
  /\ begun = 0

-----------------------------------------------------------------------------
\* Server.now, truncated to the second as a token and a change carry it.
Second(r) == (clock + Ahead[r]) \div SecondTicks

\* verify and signedIn, on the pod of r: not expired, not of the future, the
\* account open, and no change since.
Accepted(s, r) ==
  /\ Second(r) < s.iat + Life
  /\ s.iat <= Second(r) + Skew
  /\ account[s.email].active
  /\ s.iat >= account[s.email].changed

Goto(r, step) == pc' = [pc EXCEPT ![r] = step]

Lockable(r, e) == lock[e] \in {NoRequest, r}

EndTx(r) ==
  /\ lock' = [e \in Emails |-> IF lock[e] = r THEN NoRequest ELSE lock[e]]
  /\ write' = [write EXCEPT ![r] = NoWrite]

Close(r) ==
  /\ EndTx(r)
  /\ job' = [job EXCEPT ![r] = NoJob]
  /\ Goto(r, "idle")

Refuse(r) == Close(r) /\ UNCHANGED <<account, sessions, clock, changes, changedBy, begun>>

Begin(r, step, j) ==
  /\ j.route \in Doors
  /\ pc[r] = "idle" /\ begun < MaxRequests
  /\ begun' = begun + 1
  /\ job' = [job EXCEPT ![r] = j]
  /\ Goto(r, step)
  /\ UNCHANGED <<account, lock, write, sessions, clock, changes, changedBy>>

-----------------------------------------------------------------------------
\* POST /api/session.  The hash and `active` are read, then the password is
\* verified, which takes its time.
BeginSignIn(r) ==
  \E e \in Emails, p \in Passwords :
    Begin(r, "verify", [NoJob EXCEPT !.route = "signin", !.email = e, !.typed = p,
                                     !.stored = account[e].hash,
                                     !.open = account[e].active])

Verify(r) ==
  /\ pc[r] = "verify"
  /\ IF job[r].stored.password = job[r].typed /\ job[r].open
     THEN Goto(r, "reread") /\ UNCHANGED <<account, lock, job, write, sessions, clock,
                                           changes, changedBy, begun>>
     ELSE Refuse(r)

\* A link redeemed: the account is read and the session opened (Links).
BeginLink(r) ==
  \E e \in Emails : Begin(r, "reread", [NoJob EXCEPT !.route = "link", !.email = e])

\* readAccount, for both doors: a closed account opens nothing.  An old hash
\* is replaced while the password is at hand.
Reread(r) ==
  LET e == job[r].email
  IN /\ pc[r] = "reread"
     /\ IF account[e].active
        THEN /\ job' = [job EXCEPT ![r].seen = changes[e]]
             /\ Goto(r, IF job[r].route = "signin" /\ job[r].stored.old THEN "rehash" ELSE "mint")
             /\ UNCHANGED <<account, lock, write, sessions, clock, changes, changedBy, begun>>
        ELSE Refuse(r)

\* UPDATE accounts SET password_hash, whatever the row holds by then.
Rehash(r) ==
  LET e == job[r].email
  IN /\ pc[r] = "rehash"
     /\ Lockable(r, e)
     /\ lock' = [lock EXCEPT ![e] = r]
     /\ write' = [write EXCEPT ![r] =
                    [account[e] EXCEPT !.hash = [password |-> job[r].typed, old |-> FALSE]]]
     /\ Goto(r, "commit")
     /\ UNCHANGED <<account, job, sessions, clock, changes, changedBy, begun>>

\* A hash that cannot be upgraded is logged: the sign-in goes on without.
RehashFails(r) ==
  /\ pc[r] \in {"rehash", "commit"} /\ job[r].route = "signin"
  /\ EndTx(r)
  /\ Goto(r, "mint")
  /\ UNCHANGED <<account, job, sessions, clock, changes, changedBy, begun>>

-----------------------------------------------------------------------------
\* POST /api/me/password, from a session the guard accepts on that pod.  A
\* session a link opened proves nothing more; any other reads the hash.
BeginChange(r) ==
  \E s \in sessions, typed \in Passwords, fresh \in Passwords :
    /\ Accepted(s, r)
    /\ s.via = "password" => typed # fresh
    /\ Begin(r, IF s.via = "link" THEN "stamp" ELSE "prove",
             [NoJob EXCEPT !.route = "change", !.email = s.email, !.typed = typed,
                           !.fresh = fresh])

Prove(r) ==
  LET stored == account[job[r].email].hash
  IN /\ pc[r] = "prove"
     /\ IF stored.password = job[r].typed
        THEN /\ job' = [job EXCEPT ![r].stored = stored]
             /\ Goto(r, "stamp")
             /\ UNCHANGED <<account, lock, write, sessions, clock, changes, changedBy, begun>>
        ELSE Refuse(r)

\* POST /api/team/account/{email}/password, by somebody who manages them
\* (Coordination says who): a drawn password.
BeginReset(r) ==
  \E e \in Emails, p \in Passwords :
    Begin(r, "stamp", [NoJob EXCEPT !.route = "reset", !.email = e, !.fresh = p])

\* A pod starts: the seeded account takes the password of the environment.
BeginSeed(r) ==
  \E p \in Passwords :
    Begin(r, "write", [NoJob EXCEPT !.route = "seed", !.email = Seeded, !.fresh = p])

\* Bug: the instant of a change is not truncated, and a token's is.
StampUntruncated(r) ==
  /\ pc[r] = "stamp"
  /\ job' = [job EXCEPT ![r] = [@ EXCEPT !.seen = changes[job[r].email],
       !.stamp = (clock + Ahead[r] + SecondTicks - 1) \div SecondTicks]]
  /\ Goto(r, "write")
  /\ UNCHANGED <<account, lock, write, sessions, clock, changes, changedBy, begun>>

\* The new password is hashed, then changedAt drawn, before the UPDATE waits.
Stamp(r) ==
  /\ pc[r] = "stamp"
  /\ job' = [job EXCEPT ![r] = [@ EXCEPT !.seen = changes[job[r].email], !.stamp = Second(r)]]
  /\ Goto(r, "write")
  /\ UNCHANGED <<account, lock, write, sessions, clock, changes, changedBy, begun>>

\* Bug: the seeding starts the account afresh, the instant of its last change
\* included.
WrittenAfresh(r, row) ==
  [row EXCEPT !.hash = [password |-> job[r].fresh, old |-> FALSE], !.changed = job[r].stamp]

\* What the UPDATE makes of a row: seeding leaves the instant alone.
Written(r, row) ==
  [row EXCEPT !.hash = [password |-> job[r].fresh, old |-> FALSE],
              !.changed = IF job[r].route = "seed" THEN @ ELSE job[r].stamp]

Write(r) ==
  LET e == job[r].email
  IN /\ pc[r] = "write"
     /\ Lockable(r, e)
     /\ lock' = [lock EXCEPT ![e] = r]
     /\ write' = [write EXCEPT ![r] = Written(r, account[e])]
     /\ Goto(r, "commit")
     /\ UNCHANGED <<account, job, sessions, clock, changes, changedBy, begun>>

-----------------------------------------------------------------------------
Changing(r) == job[r].route \in {"change", "reset"}

\* The commit.  Whoever changed their own password keeps the session, with a
\* new token; a sign-in opens its own, whatever it was told of its commit.
Commit(r) ==
  LET e == job[r].email
  IN /\ pc[r] = "commit"
     /\ account' = [account EXCEPT ![e] = write[r]]
     /\ changes' = IF Changing(r) THEN [changes EXCEPT ![e] = @ + 1] ELSE changes
     /\ changedBy' = IF Changing(r) THEN [changedBy EXCEPT ![e] = Ahead[r]] ELSE changedBy
     /\ EndTx(r)
     /\ \/ /\ job[r].route \in {"change", "signin"}
           /\ job' = [job EXCEPT ![r].seen = IF Changing(r) THEN changes[e] + 1 ELSE @]
           /\ Goto(r, "mint")
        \/ /\ job[r].route \notin {"change", "signin"}
           /\ job' = [job EXCEPT ![r] = NoJob]
           /\ Goto(r, "idle")
     /\ UNCHANGED <<sessions, clock, begun>>

\* It landed, and the request was told otherwise: no token.
CommitLost(r) ==
  LET e == job[r].email
  IN /\ pc[r] = "commit" /\ job[r].route # "signin"
     /\ account' = [account EXCEPT ![e] = write[r]]
     /\ changes' = IF Changing(r) THEN [changes EXCEPT ![e] = @ + 1] ELSE changes
     /\ changedBy' = IF Changing(r) THEN [changedBy EXCEPT ![e] = Ahead[r]] ELSE changedBy
     /\ Close(r)
     /\ UNCHANGED <<sessions, clock, begun>>

\* Sessions.Set: the token says the second it is minted in.
Mint(r) ==
  /\ pc[r] = "mint"
  /\ sessions' = sessions \cup
       {[email |-> job[r].email, iat |-> Second(r),
         via |-> IF job[r].route = "link" THEN "link" ELSE "password",
         under |-> IF job[r].route = "change" THEN job[r].fresh ELSE job[r].typed,
         seen |-> job[r].seen, ahead |-> Ahead[r]]}
  /\ Close(r)
  /\ UNCHANGED <<account, clock, changes, changedBy, begun>>

\* A statement that fails, a caller who hangs up, a pod that dies.
Fail(r) == pc[r] # "idle" /\ Refuse(r)

\* routeToggleAccount, as Coordination has it.
Toggle ==
  /\ "toggle" \in Doors
  /\ \E e \in Emails :
       /\ lock[e] = NoRequest
       /\ account' = [account EXCEPT ![e].active = ~@]
  /\ UNCHANGED <<lock, pc, job, write, sessions, clock, changes, changedBy, begun>>

Tick ==
  /\ clock < MaxClock
  /\ clock' = clock + 1
  /\ UNCHANGED <<account, lock, pc, job, write, sessions, changes, changedBy, begun>>

Next ==
  \/ \E r \in Requests :
       \/ BeginSignIn(r) \/ BeginLink(r) \/ BeginChange(r) \/ BeginReset(r) \/ BeginSeed(r)
       \/ Verify(r) \/ Reread(r) \/ Rehash(r) \/ RehashFails(r)
       \/ Prove(r) \/ Stamp(r) \/ Write(r)
       \/ Commit(r) \/ CommitLost(r) \/ Mint(r) \/ Fail(r)
  \/ Toggle \/ Tick

Spec == Init /\ [][Next]_vars

-----------------------------------------------------------------------------
\* Some pod's clock has reached that second; 0 is no instant.
Reached(t) == t = 0 \/ \E r \in Requests : t <= Second(r)

Typed ==
  /\ account \in [Emails -> Row]
  /\ lock \in [Emails -> Requests \cup {NoRequest}]
  /\ pc \in [Requests -> Steps]
  /\ job \in [Requests -> Jobs]
  /\ write \in [Requests -> Row]
  /\ sessions \subseteq Session
  /\ clock \in Nat
  /\ changes \in [Emails -> Nat] /\ changedBy \in [Emails -> Nat]
  /\ begun \in Nat

NothingToCome ==
  /\ \A e \in Emails : Reached(account[e].changed)
  /\ \A r \in Requests : Reached(job[r].stamp) /\ Reached(write[r].changed)
  /\ \A s \in sessions : Reached(s.iat)

\* The variables hold what their comments say, and no token or change is of a
\* second that is still to come.
TypeOK == Typed /\ NothingToCome

\* « The cookie minted by the change itself is not before it and survives »
\* (signedIn), and more: a change signs out nobody whose session was opened
\* after it was there to be read, by a pod whose clock is not behind the one
\* that changed.
AChangeSparesWhatFollows ==
  \A s \in sessions :
    s.seen = changes[s.email] /\ s.ahead >= changedBy[s.email] =>
      s.iat >= account[s.email].changed

\* A token refused for a change is not accepted again: the instant of the last
\* change goes back only when two changes overlapped, or the pod of the second
\* is behind (« not a token this account still recognises », signedIn).
InstantsGoForward ==
  [][\A e \in Emails :
       account'[e].changed < account[e].changed =>
         \E r \in Requests :
           /\ pc[r] = "commit" /\ Changing(r) /\ job[r].email = e
           /\ job[r].seen < changes[e] \/ Ahead[r] < changedBy[e]]_vars

\* « The sessions opened under the old one fall » (routeResetPassword), those
\* opened in the very second of the change set apart.
SessionsOfAnOldPasswordFall ==
  \A s \in sessions :
    /\ s.via = "password" /\ s.under # account[s.email].hash.password
    /\ s.iat # account[s.email].changed
    => \A r \in Requests : ~Accepted(s, r)

\* « A hash in an older scheme is replaced the next time its owner signs in »
\* (NeedsRehash): the upgrade changes the scheme of a hash, never its password.
UpgradesKeepThePassword ==
  [][\A r \in Requests :
       LET e == job[r].email
       IN pc[r] = "commit" /\ job[r].route = "signin" /\ pc'[r] = "mint" =>
            account'[e].hash.password = account[e].hash.password]_vars
=============================================================================
