--------------------------- MODULE SessionsProofs ---------------------------
(***************************************************************************)
(* Proofs about Sessions, for every campaign, clock, number of pods and    *)
(* bound.                                                                  *)
(***************************************************************************)
EXTENDS Sessions, TLAPS

\* Time in seconds does not go back.
LEMMA SecondsGrow ==
  ASSUME NEW a \in Nat, NEW b \in Nat, a <= b
  PROVE  /\ a \div SecondTicks \in Nat
         /\ a \div SecondTicks <= b \div SecondTicks
<1>1. SecondTicks \in Nat \ {0}
  BY SessionsAssumption
<1>2. \A d \in Nat \ {0} : a \div d \in Nat /\ a \div d <= b \div d
  OBVIOUS
<1> QED  BY <1>1, <1>2

\* A pod reads a second, whatever its clock.
LEMMA SecondIsNat ==
  ASSUME Typed, NEW r \in Requests
  PROVE  Second(r) \in Nat /\ Ahead[r] \in Nat /\ clock + Ahead[r] \in Nat
<1>1. Ahead[r] \in Nat /\ clock \in Nat
  BY SessionsAssumption DEF Typed
<1> QED  BY <1>1, SecondsGrow DEF Second

\* The local variables of an idle request are well typed.
LEMMA Defaults == NoJob \in Jobs /\ NoWrite \in Row /\ NoJob.seen = 0 /\ NoJob.stamp = 0
<1>1. AnyEmail \in Emails /\ AnyPassword \in Passwords
  BY SessionsAssumption DEF AnyEmail, AnyPassword
<1> QED  BY <1>1 DEF NoJob, NoWrite, NoHash, Jobs, Row, Hash, Routes

-----------------------------------------------------------------------------
\* The inductive invariant

ChangeRoutes == {"change", "reset"}

\* The instant a change is about to write is not to come, and goes back only
\* if the account was changed since it was drawn, or by a pod further ahead.
StampHolds(r, j) ==
  /\ j.stamp <= Second(r)
  /\ j.seen = changes[j.email] /\ Ahead[r] >= changedBy[j.email] =>
       account[j.email].changed <= j.stamp

\* The steps each route goes through.
Routed(step, j) ==
  /\ step = "rehash" => j.route = "signin"
  /\ step \in {"prove", "stamp"} => j.route \in ChangeRoutes
  /\ step = "write" => j.route \in ChangeRoutes \cup {"seed"}

\* What a request at that step, with those variables, may rely on.
Holds(r, step, j, w, lk) ==
  /\ Routed(step, j)
  /\ j.seen <= changes[j.email]
  /\ j.route \in ChangeRoutes /\ step \in {"write", "commit"} => StampHolds(r, j)
  /\ step = "commit" =>
       /\ lk[j.email] = r
       /\ w.changed = IF j.route \in ChangeRoutes THEN j.stamp ELSE account[j.email].changed

RequestsHold == \A r \in Requests : Holds(r, pc[r], job[r], write[r], lock)

\* The last change of an account was no later than the clock that made it.
ChangesAreOver ==
  \A e \in Emails : account[e].changed <= (clock + changedBy[e]) \div SecondTicks

SessionsHold == \A s \in sessions : s.seen <= changes[s.email]

IInv ==
  /\ Typed /\ NothingToCome
  /\ RequestsHold /\ ChangesAreOver /\ SessionsHold
  /\ AChangeSparesWhatFollows

\* The fields of what a request has in hand.
LEMMA Fields ==
  ASSUME Typed, NEW r \in Requests
  PROVE  /\ job[r] \in Jobs /\ job[r].route \in Routes /\ job[r].email \in Emails
         /\ job[r].typed \in Passwords /\ job[r].fresh \in Passwords
         /\ job[r].seen \in Nat /\ job[r].stamp \in Nat /\ job[r].stored \in Hash
         /\ write[r] \in Row /\ pc[r] \in Steps
BY DEF Typed, Jobs

\* The fields of an account.
LEMMA AccountFields ==
  ASSUME Typed, NEW e \in Emails
  PROVE  /\ account[e] \in Row /\ account[e].hash \in Hash
         /\ account[e].changed \in Nat /\ account[e].active \in BOOLEAN
         /\ changes[e] \in Nat /\ changedBy[e] \in Nat
BY DEF Typed, Row

\* The start satisfies the invariant.
LEMMA Initially == Init => IInv
<1> SUFFICES ASSUME Init PROVE IInv
  OBVIOUS
<1>1. Typed
  <2>1. \A e \in Emails : [hash |-> [password |-> First[e], old |-> e \in OldScheme],
                           changed |-> 0, active |-> TRUE] \in Row
    BY SessionsAssumption DEF Row, Hash
  <2> QED  BY <2>1, Defaults DEF Init, Typed, Steps
<1>2. \A e \in Emails : account[e].changed = 0 /\ changes[e] = 0 /\ changedBy[e] = 0
  BY DEF Init
<1>3. NothingToCome
  BY <1>2, Defaults DEF Init, NothingToCome, Reached, NoWrite
<1>4. RequestsHold
  <2>1. NoJob.email \in Emails
    BY Defaults DEF Jobs
  <2> QED  BY <1>2, <2>1, Defaults DEF Init, RequestsHold, Holds, Routed
<1>5. ChangesAreOver
  <2> SUFFICES ASSUME NEW e \in Emails
               PROVE  account[e].changed <= (clock + changedBy[e]) \div SecondTicks
    BY DEF ChangesAreOver
  <2>1. clock = 0 /\ changedBy[e] = 0 /\ account[e].changed = 0
    BY <1>2 DEF Init
  <2>2. 0 + 0 = 0 /\ 0 \div SecondTicks \in Nat
    BY SecondsGrow
  <2>3. 0 <= (0 + 0) \div SecondTicks
    BY <2>2
  <2> QED  BY <2>1, <2>3
<1>6. SessionsHold /\ AChangeSparesWhatFollows
  BY DEF Init, SessionsHold, AChangeSparesWhatFollows
<1> QED  BY <1>1, <1>3, <1>4, <1>5, <1>6 DEF IInv

-----------------------------------------------------------------------------
\* A step that changes one request, and no account, session or clock.
LEMMA LocalStep ==
  ASSUME IInv, NEW r \in Requests,
         NEW step \in Steps, NEW j \in Jobs, NEW w \in Row,
         pc' = [pc EXCEPT ![r] = step], job' = [job EXCEPT ![r] = j],
         write' = [write EXCEPT ![r] = w],
         lock' \in [Emails -> Requests \cup {NoRequest}],
         \A e \in Emails : \A q \in Requests \ {r} : lock[e] = q => lock'[e] = q,
         UNCHANGED <<account, sessions, clock, changes, changedBy>>,
         begun' \in Nat,
         Reached(j.stamp), Reached(w.changed), Holds(r, step, j, w, lock')
  PROVE  IInv'
<1> USE DEF IInv
<1>1. Typed'
  BY DEF Typed
<1>2. /\ \A q \in Requests : Second(q)' = Second(q)
      /\ \A t \in Nat : Reached(t) => Reached(t)'
  BY DEF Second, Reached
<1>3. NothingToCome'
  <2>1. \A e \in Emails : Reached(account[e].changed)'
    BY <1>2, AccountFields DEF NothingToCome
  <2>2. \A s \in sessions' : Reached(s.iat)'
    BY <1>2 DEF NothingToCome, Typed, Session
  <2>3. \A q \in Requests : Reached(job[q].stamp)' /\ Reached(write[q].changed)'
    <3> TAKE q \in Requests
    <3>1. CASE q = r
      <4>1. job'[q] = j /\ write'[q] = w
        BY <3>1 DEF Typed
      <4>2. j.stamp \in Nat /\ w.changed \in Nat
        BY DEF Jobs, Row
      <4> QED  BY <4>1, <4>2, <1>2 DEF Reached
    <3>2. CASE q # r
      <4>1. job'[q] = job[q] /\ write'[q] = write[q]
        BY <3>2 DEF Typed
      <4>2. job[q].stamp \in Nat /\ write[q].changed \in Nat
        BY Fields DEF Row
      <4>3. Reached(job[q].stamp) /\ Reached(write[q].changed)
        BY DEF NothingToCome
      <4> QED  BY <4>1, <4>2, <4>3, <1>2 DEF Reached
    <3> QED  BY <3>1, <3>2
  <2> QED  BY <2>1, <2>2, <2>3 DEF NothingToCome
<1>4. RequestsHold'
  <2> SUFFICES ASSUME NEW q \in Requests
               PROVE  Holds(q, pc[q], job[q], write[q], lock)'
    BY DEF RequestsHold
  <2>1. CASE q = r
    <3>1. pc'[q] = step /\ job'[q] = j /\ write'[q] = w
      BY <2>1 DEF Typed
    <3> QED  BY <3>1, <2>1, <1>2 DEF Holds, Routed, StampHolds
  <2>2. CASE q # r
    <3>1. pc'[q] = pc[q] /\ job'[q] = job[q] /\ write'[q] = write[q]
      BY <2>2 DEF Typed
    <3>2. Holds(q, pc[q], job[q], write[q], lock) /\ job[q].email \in Emails
      BY Fields DEF RequestsHold
    <3> QED  BY <3>1, <3>2, <2>2, <1>2 DEF Holds, Routed, StampHolds
  <2> QED  BY <2>1, <2>2
<1>5. ChangesAreOver' /\ SessionsHold' /\ AChangeSparesWhatFollows'
  BY DEF ChangesAreOver, SessionsHold, AChangeSparesWhatFollows
<1> QED  BY <1>1, <1>3, <1>4, <1>5

\* The end of a transaction leaves the locks of the others alone.
LEMMA EndTxLocks ==
  ASSUME Typed, NEW r \in Requests, EndTx(r)
  PROVE  /\ lock' \in [Emails -> Requests \cup {NoRequest}]
         /\ \A e \in Emails : \A q \in Requests \ {r} : lock[e] = q => lock'[e] = q
         /\ write' = [write EXCEPT ![r] = NoWrite]
BY DEF Typed, EndTx

\* A request that ends, its transaction rolled back.
LEMMA RefuseStep ==
  ASSUME IInv, NEW r \in Requests, Refuse(r)
  PROVE  IInv'
<1>1. Typed
  BY DEF IInv
<1>2. EndTx(r) /\ job' = [job EXCEPT ![r] = NoJob] /\ pc' = [pc EXCEPT ![r] = "idle"]
      /\ UNCHANGED <<account, sessions, clock, changes, changedBy, begun>>
  BY DEF Refuse, Close, Goto
<1>3. Reached(NoJob.stamp) /\ Reached(NoWrite.changed) /\ "idle" \in Steps /\ begun' \in Nat
  BY <1>1, <1>2, Defaults DEF Reached, NoWrite, Steps, Typed
<1>4. Holds(r, "idle", NoJob, NoWrite, lock')
  BY <1>1, Defaults, AccountFields DEF Holds, Routed, Jobs
<1> QED  BY <1>1, <1>2, <1>3, <1>4, EndTxLocks, LocalStep, Defaults

-----------------------------------------------------------------------------
\* What Begin leaves.
LEMMA BeginStep ==
  ASSUME IInv, NEW r \in Requests, NEW step \in Steps, NEW j \in Jobs,
         Begin(r, step, j), j.stamp = 0, j.seen = 0, step # "commit",
         j.route \in ChangeRoutes => step # "write",
         Routed(step, j)
  PROVE  IInv'
<1>1. Typed /\ NothingToCome
  BY DEF IInv
<1>2. job' = [job EXCEPT ![r] = j] /\ pc' = [pc EXCEPT ![r] = step] /\ begun' \in Nat
      /\ UNCHANGED <<account, lock, write, sessions, clock, changes, changedBy>>
  BY <1>1 DEF Begin, Goto, Typed
<1>3. Reached(j.stamp) /\ Reached(write[r].changed) /\ write[r] \in Row
  BY <1>1, Fields DEF Reached, NothingToCome
<1>4. write' = [write EXCEPT ![r] = write[r]]
  BY <1>1, <1>2 DEF Typed
<1>5. Holds(r, step, j, write[r], lock')
  <2>1. changes[j.email] \in Nat
    BY <1>1, AccountFields DEF Jobs
  <2> QED  BY <2>1 DEF Holds, Routed
<1>6. lock' \in [Emails -> Requests \cup {NoRequest}]
      /\ \A e \in Emails : \A q \in Requests \ {r} : lock[e] = q => lock'[e] = q
  BY <1>1, <1>2 DEF Typed
<1> QED  BY <1>2, <1>3, <1>4, <1>5, <1>6, LocalStep

\* The five ways a request begins.
Arrive(r) ==
  BeginSignIn(r) \/ BeginLink(r) \/ BeginChange(r) \/ BeginReset(r) \/ BeginSeed(r)

\* Whoever knocks, and at whichever door.
LEMMA ArriveStep ==
  ASSUME IInv, NEW r \in Requests, Arrive(r)
  PROVE  IInv'
<1>1. Typed
  BY DEF IInv
<1> USE Defaults
<1>2. CASE BeginSignIn(r)
  <2>1. PICK e \in Emails, p \in Passwords :
          Begin(r, "verify", [NoJob EXCEPT !.route = "signin", !.email = e, !.typed = p,
                                           !.stored = account[e].hash,
                                           !.open = account[e].active])
    BY <1>2 DEF BeginSignIn
  <2> DEFINE j == [NoJob EXCEPT !.route = "signin", !.email = e, !.typed = p,
                                !.stored = account[e].hash, !.open = account[e].active]
  <2>2. j \in Jobs /\ j.stamp = 0 /\ j.seen = 0
    BY <1>1, AccountFields DEF Jobs, NoJob, Routes
  <2>3. "verify" \in Steps /\ Routed("verify", j)
    BY DEF Steps, Routed
  <2> HIDE DEF j
  <2>4. Begin(r, "verify", j)
    BY <2>1 DEF j
  <2> QED  BY <2>2, <2>3, <2>4, BeginStep
<1>3. CASE BeginLink(r)
  <2>1. PICK e \in Emails : Begin(r, "reread", [NoJob EXCEPT !.route = "link", !.email = e])
    BY <1>3 DEF BeginLink
  <2> DEFINE j == [NoJob EXCEPT !.route = "link", !.email = e]
  <2>2. j \in Jobs /\ j.stamp = 0 /\ j.seen = 0
    BY DEF Jobs, NoJob, Routes
  <2>3. "reread" \in Steps /\ Routed("reread", j)
    BY DEF Steps, Routed
  <2> HIDE DEF j
  <2>4. Begin(r, "reread", j)
    BY <2>1 DEF j
  <2> QED  BY <2>2, <2>3, <2>4, BeginStep
<1>4. CASE BeginChange(r)
  <2>1. PICK s \in sessions, typed \in Passwords, fresh \in Passwords :
          Begin(r, IF s.via = "link" THEN "stamp" ELSE "prove",
                [NoJob EXCEPT !.route = "change", !.email = s.email, !.typed = typed,
                              !.fresh = fresh])
    BY <1>4 DEF BeginChange
  <2> DEFINE j == [NoJob EXCEPT !.route = "change", !.email = s.email, !.typed = typed,
                                !.fresh = fresh]
             step == IF s.via = "link" THEN "stamp" ELSE "prove"
  <2>2. s.email \in Emails
    BY <1>1 DEF Typed, Session
  <2>3. j \in Jobs /\ j.stamp = 0 /\ j.seen = 0
    BY <2>2 DEF Jobs, NoJob, Routes
  <2>4. step \in Steps /\ step \notin {"write", "commit"} /\ Routed(step, j)
    BY DEF Steps, Routed, NoJob, ChangeRoutes
  <2> HIDE DEF j, step
  <2>5. Begin(r, step, j)
    BY <2>1 DEF j, step
  <2> QED  BY <2>3, <2>4, <2>5, BeginStep
<1>5. CASE BeginReset(r)
  <2>1. PICK e \in Emails, p \in Passwords :
          Begin(r, "stamp", [NoJob EXCEPT !.route = "reset", !.email = e, !.fresh = p])
    BY <1>5 DEF BeginReset
  <2> DEFINE j == [NoJob EXCEPT !.route = "reset", !.email = e, !.fresh = p]
  <2>2. j \in Jobs /\ j.stamp = 0 /\ j.seen = 0
    BY DEF Jobs, NoJob, Routes
  <2>3. "stamp" \in Steps /\ Routed("stamp", j)
    BY DEF Steps, Routed, NoJob, ChangeRoutes
  <2> HIDE DEF j
  <2>4. Begin(r, "stamp", j)
    BY <2>1 DEF j
  <2> QED  BY <2>2, <2>3, <2>4, BeginStep
<1>6. CASE BeginSeed(r)
  <2>1. PICK p \in Passwords :
          Begin(r, "write", [NoJob EXCEPT !.route = "seed", !.email = Seeded, !.fresh = p])
    BY <1>6 DEF BeginSeed
  <2> DEFINE j == [NoJob EXCEPT !.route = "seed", !.email = Seeded, !.fresh = p]
  <2>2. j \in Jobs /\ j.stamp = 0 /\ j.seen = 0 /\ j.route \notin ChangeRoutes
    BY SessionsAssumption DEF Jobs, NoJob, Routes, ChangeRoutes
  <2>3. "write" \in Steps /\ Routed("write", j)
    BY DEF Steps, Routed, NoJob
  <2> HIDE DEF j
  <2>4. Begin(r, "write", j)
    BY <2>1 DEF j
  <2> QED  BY <2>2, <2>3, <2>4, BeginStep
<1> QED  BY <1>2, <1>3, <1>4, <1>5, <1>6 DEF Arrive

\* A step that moves on, with new local variables, and writes nothing.
LEMMA MoveStep ==
  ASSUME IInv, NEW r \in Requests, NEW step \in Steps, NEW j \in Jobs,
         pc' = [pc EXCEPT ![r] = step], job' = [job EXCEPT ![r] = j],
         UNCHANGED <<account, lock, write, sessions, clock, changes, changedBy, begun>>,
         Reached(j.stamp), j.seen <= changes[j.email], step # "commit",
         j.route \in ChangeRoutes /\ step = "write" => StampHolds(r, j),
         Routed(step, j)
  PROVE  IInv'
<1>1. Typed /\ NothingToCome
  BY DEF IInv
<1>2. Reached(write[r].changed) /\ write[r] \in Row /\ begun' \in Nat
  BY <1>1, Fields DEF NothingToCome, Typed
<1>3. write' = [write EXCEPT ![r] = write[r]]
  BY <1>1 DEF Typed
<1>4. Holds(r, step, j, write[r], lock')
  BY DEF Holds, Routed
<1>5. lock' \in [Emails -> Requests \cup {NoRequest}]
      /\ \A e \in Emails : \A q \in Requests \ {r} : lock[e] = q => lock'[e] = q
  BY <1>1 DEF Typed
<1> QED  BY <1>2, <1>3, <1>4, <1>5, LocalStep

\* A step that leaves its variables as they are, among these.
LEMMA KeptJob ==
  ASSUME IInv, NEW r \in Requests
  PROVE  /\ Reached(job[r].stamp) /\ job[r].seen <= changes[job[r].email]
         /\ job = [job EXCEPT ![r] = job[r]]
         /\ Routed(pc[r], job[r])
BY DEF IInv, NothingToCome, RequestsHold, Holds, Routed, Typed

Reading(r) == Verify(r) \/ Reread(r) \/ Prove(r) \/ Stamp(r)

\* The statements that only read, and the drawing of the instant.
LEMMA ReadingStep ==
  ASSUME IInv, NEW r \in Requests, Reading(r)
  PROVE  IInv'
<1>1. Typed /\ NothingToCome
  BY DEF IInv
<1> DEFINE e == job[r].email
<1>2. e \in Emails /\ job[r] \in Jobs
  BY <1>1, Fields
<1>3. CASE Verify(r)
  <2>1. CASE job[r].stored.password = job[r].typed /\ job[r].open
    <3>1. pc' = [pc EXCEPT ![r] = "reread"] /\ job' = [job EXCEPT ![r] = job[r]]
          /\ UNCHANGED <<account, lock, write, sessions, clock, changes, changedBy, begun>>
      BY <1>3, <2>1, KeptJob DEF Verify, Goto
    <3>2. "reread" \in Steps /\ Routed("reread", job[r])
      BY DEF Steps, Routed
    <3> QED  BY <1>2, <3>1, <3>2, KeptJob, MoveStep
  <2>2. CASE ~(job[r].stored.password = job[r].typed /\ job[r].open)
    BY <1>3, <2>2, RefuseStep DEF Verify
  <2> QED  BY <2>1, <2>2
<1>4. CASE Reread(r)
  <2>1. CASE account[e].active
    <3> DEFINE j == [job[r] EXCEPT !.seen = changes[e]]
               step == IF job[r].route = "signin" /\ job[r].stored.old THEN "rehash" ELSE "mint"
    <3>1. j \in Jobs /\ j.stamp = job[r].stamp /\ j.seen = changes[e] /\ j.email = e
      BY <1>1, <1>2, AccountFields DEF Jobs
    <3>2. step \in Steps /\ step \notin {"write", "commit"} /\ Routed(step, j)
      BY <1>2 DEF Steps, Routed, Jobs
    <3>3. job' = [job EXCEPT ![r] = j] /\ pc' = [pc EXCEPT ![r] = step]
          /\ UNCHANGED <<account, lock, write, sessions, clock, changes, changedBy, begun>>
      BY <1>1, <1>4, <2>1 DEF Reread, Goto, Typed
    <3>4. j.seen <= changes[j.email] /\ Reached(j.stamp)
      BY <1>1, <1>2, <3>1, AccountFields DEF NothingToCome
    <3> HIDE DEF j, step
    <3> QED  BY <3>1, <3>2, <3>3, <3>4, MoveStep
  <2>2. CASE ~account[e].active
    BY <1>4, <2>2, RefuseStep DEF Reread
  <2> QED  BY <2>1, <2>2
<1>5. CASE Prove(r)
  <2> DEFINE stored == account[e].hash
  <2>1. CASE stored.password = job[r].typed
    <3> DEFINE j == [job[r] EXCEPT !.stored = stored]
    <3>1. j \in Jobs /\ j.stamp = job[r].stamp /\ j.seen = job[r].seen /\ j.email = e
      BY <1>1, <1>2, AccountFields DEF Jobs
    <3>2. "stamp" \in Steps /\ Routed("stamp", j)
      BY <1>2, <1>5, KeptJob DEF Steps, Routed, Jobs, Prove
    <3>3. job' = [job EXCEPT ![r] = j] /\ pc' = [pc EXCEPT ![r] = "stamp"]
          /\ UNCHANGED <<account, lock, write, sessions, clock, changes, changedBy, begun>>
      BY <1>1, <1>5, <2>1 DEF Prove, Goto, Typed
    <3> HIDE DEF j
    <3> QED  BY <3>1, <3>2, <3>3, KeptJob, MoveStep
  <2>2. CASE stored.password # job[r].typed
    BY <1>5, <2>2, RefuseStep DEF Prove
  <2> QED  BY <2>1, <2>2
<1>6. CASE Stamp(r)
  <2> DEFINE j == [job[r] EXCEPT !.seen = changes[e], !.stamp = Second(r)]
  <2>1. j \in Jobs /\ j.stamp = Second(r) /\ j.seen = changes[e] /\ j.email = e
    BY <1>1, <1>2, AccountFields, SecondIsNat DEF Jobs
  <2>2. "write" \in Steps /\ Routed("write", j)
    BY <1>2, <1>6, KeptJob DEF Steps, Routed, Jobs, Stamp
  <2>3. job' = [job EXCEPT ![r] = j] /\ pc' = [pc EXCEPT ![r] = "write"]
        /\ UNCHANGED <<account, lock, write, sessions, clock, changes, changedBy, begun>>
    BY <1>6 DEF Stamp, Goto
  <2> HIDE DEF j
  <2>4. Reached(j.stamp) /\ j.seen <= changes[j.email]
    BY <1>1, <1>2, <2>1, AccountFields, SecondIsNat DEF Reached
  <2>5. StampHolds(r, j)
    <3>1. account[e].changed <= Second(r) \/ ~(Ahead[r] >= changedBy[e])
      <4>1. SUFFICES ASSUME Ahead[r] >= changedBy[e]
                     PROVE  account[e].changed <= Second(r)
        OBVIOUS
      <4>2. account[e].changed \in Nat /\ changedBy[e] \in Nat /\ clock \in Nat /\ Ahead[r] \in Nat
        BY <1>1, <1>2, AccountFields, SecondIsNat DEF Typed
      <4>3. /\ (clock + changedBy[e]) \div SecondTicks <= (clock + Ahead[r]) \div SecondTicks
            /\ (clock + changedBy[e]) \div SecondTicks \in Nat
            /\ (clock + Ahead[r]) \div SecondTicks \in Nat
        <5> DEFINE a == clock + changedBy[e]
                   b == clock + Ahead[r]
        <5>1. a \in Nat /\ b \in Nat /\ a <= b
          BY <4>1, <4>2
        <5> HIDE DEF a, b
        <5>2. a \div SecondTicks <= b \div SecondTicks /\ a \div SecondTicks \in Nat
          BY <5>1, SecondsGrow
        <5>3. b \div SecondTicks \in Nat
          BY <5>1, SecondsGrow
        <5> QED  BY <5>2, <5>3 DEF a, b
      <4>4. account[e].changed <= (clock + changedBy[e]) \div SecondTicks
        BY <1>2 DEF IInv, ChangesAreOver
      <4> HIDE DEF e
      <4> QED  BY <4>2, <4>3, <4>4 DEF Second
    <3> QED  BY <1>1, <2>1, <3>1, SecondIsNat DEF StampHolds
  <2> QED  BY <2>1, <2>2, <2>3, <2>4, <2>5, MoveStep
<1> QED  BY <1>3, <1>4, <1>5, <1>6 DEF Reading

-----------------------------------------------------------------------------
\* A statement that writes: the row is locked, and what it held is kept.
LEMMA WriteStep ==
  ASSUME IInv, NEW r \in Requests, NEW w \in Row,
         Lockable(r, job[r].email), lock' = [lock EXCEPT ![job[r].email] = r],
         write' = [write EXCEPT ![r] = w], pc' = [pc EXCEPT ![r] = "commit"],
         UNCHANGED <<account, job, sessions, clock, changes, changedBy, begun>>,
         Reached(w.changed),
         w.changed = IF job[r].route \in ChangeRoutes THEN job[r].stamp
                     ELSE account[job[r].email].changed,
         job[r].route \in ChangeRoutes => pc[r] = "write"
  PROVE  IInv'
<1>1. Typed
  BY DEF IInv
<1>2. job[r].email \in Emails /\ job[r] \in Jobs
  BY <1>1, Fields
<1>3. "commit" \in Steps /\ begun' \in Nat
  BY <1>1 DEF Steps, Typed
<1>4. /\ lock' \in [Emails -> Requests \cup {NoRequest}]
      /\ \A e \in Emails : \A q \in Requests \ {r} : lock[e] = q => lock'[e] = q
  BY <1>1, <1>2, SessionsAssumption DEF Typed, Lockable
<1>5. Holds(r, "commit", job[r], w, lock')
  <2>1. lock'[job[r].email] = r
    BY <1>1, <1>2 DEF Typed
  <2>2. job[r].route \in ChangeRoutes => StampHolds(r, job[r])
    BY DEF IInv, RequestsHold, Holds, Routed
  <2> QED  BY <2>1, <2>2, KeptJob DEF Holds, Routed
<1> QED  BY <1>2, <1>3, <1>4, <1>5, KeptJob, LocalStep

Writing(r) == Rehash(r) \/ RehashFails(r) \/ Write(r)

\* The statements that write, or fail to.
LEMMA WritingStep ==
  ASSUME IInv, NEW r \in Requests, Writing(r)
  PROVE  IInv'
<1>1. Typed /\ NothingToCome
  BY DEF IInv
<1> DEFINE e == job[r].email
<1>2. e \in Emails /\ job[r] \in Jobs
  BY <1>1, Fields
<1>3. account[e] \in Row /\ Reached(account[e].changed) /\ Reached(job[r].stamp)
  BY <1>1, <1>2, AccountFields, KeptJob DEF NothingToCome
<1>4. CASE Rehash(r)
  <2> DEFINE w == [account[e] EXCEPT !.hash = [password |-> job[r].typed, old |-> FALSE]]
  <2>1. w \in Row /\ w.changed = account[e].changed
    BY <1>1, <1>3, Fields DEF Row, Hash
  <2>2. write' = [write EXCEPT ![r] = w] /\ lock' = [lock EXCEPT ![e] = r]
        /\ pc' = [pc EXCEPT ![r] = "commit"] /\ Lockable(r, e)
        /\ UNCHANGED <<account, job, sessions, clock, changes, changedBy, begun>>
        /\ job[r].route \notin ChangeRoutes
    BY <1>4, KeptJob DEF Rehash, Goto, ChangeRoutes, Routed
  <2> HIDE DEF w
  <2> QED  BY <1>3, <2>1, <2>2, WriteStep
<1>5. CASE RehashFails(r)
  <2>1. pc' = [pc EXCEPT ![r] = "mint"] /\ job' = [job EXCEPT ![r] = job[r]] /\ EndTx(r)
        /\ UNCHANGED <<account, sessions, clock, changes, changedBy, begun>>
    BY <1>5, KeptJob DEF RehashFails, Goto
  <2>2. Holds(r, "mint", job[r], NoWrite, lock')
    BY KeptJob DEF Holds, Routed
  <2>3. "mint" \in Steps /\ Reached(NoWrite.changed) /\ begun' \in Nat
    BY <1>1, <2>1 DEF Steps, Reached, NoWrite, Typed
  <2> QED  BY <1>1, <1>2, <1>3, <2>1, <2>2, <2>3, EndTxLocks, Defaults, LocalStep
<1>6. CASE Write(r)
  <2> DEFINE w == Written(r, account[e])
  <2>1. w \in Row
        /\ w.changed = IF job[r].route = "seed" THEN account[e].changed ELSE job[r].stamp
    BY <1>1, <1>3, Fields DEF Row, Hash, Written
  <2>2. write' = [write EXCEPT ![r] = w] /\ lock' = [lock EXCEPT ![e] = r]
        /\ pc' = [pc EXCEPT ![r] = "commit"] /\ Lockable(r, e) /\ pc[r] = "write"
        /\ UNCHANGED <<account, job, sessions, clock, changes, changedBy, begun>>
    BY <1>6 DEF Write, Goto
  <2> HIDE DEF w
  <2>3. w.changed = IF job[r].route \in ChangeRoutes THEN job[r].stamp
                    ELSE account[e].changed
    BY <2>1, <2>2, KeptJob DEF ChangeRoutes, Routed
  <2>4. Reached(w.changed)
    BY <1>3, <2>3
  <2> QED  BY <2>1, <2>2, <2>3, <2>4, WriteStep
<1> QED  BY <1>4, <1>5, <1>6 DEF Writing

-----------------------------------------------------------------------------
\* The clock stands still, or moves on.
LEMMA ClockForward ==
  ASSUME Typed, clock' \in Nat, clock <= clock'
  PROVE  /\ \A q \in Requests : Second(q) <= Second(q)' /\ Second(q)' \in Nat
         /\ \A t \in Nat : Reached(t) => Reached(t)'
         /\ \A n \in Nat : /\ (clock + n) \div SecondTicks <= (clock' + n) \div SecondTicks
                           /\ (clock' + n) \div SecondTicks \in Nat
                           /\ (clock + n) \div SecondTicks \in Nat
<1>0. clock \in Nat
  BY DEF Typed
<1>1. \A n \in Nat : /\ (clock + n) \div SecondTicks <= (clock' + n) \div SecondTicks
                     /\ (clock' + n) \div SecondTicks \in Nat
                     /\ (clock + n) \div SecondTicks \in Nat
  <2>1. \A x \in Nat, y \in Nat : x <= y =>
          \A n \in Nat : /\ (x + n) \div SecondTicks <= (y + n) \div SecondTicks
                         /\ (y + n) \div SecondTicks \in Nat
                         /\ (x + n) \div SecondTicks \in Nat
    <3> SUFFICES ASSUME NEW x \in Nat, NEW y \in Nat, x <= y, NEW n \in Nat
                 PROVE  /\ (x + n) \div SecondTicks <= (y + n) \div SecondTicks
                        /\ (y + n) \div SecondTicks \in Nat
                        /\ (x + n) \div SecondTicks \in Nat
      OBVIOUS
    <3>1. x + n \in Nat /\ y + n \in Nat /\ x + n <= y + n
      OBVIOUS
    <3> QED  BY <3>1, SecondsGrow
  <2> QED  BY <1>0, <2>1
<1>2. \A q \in Requests : Second(q) <= Second(q)' /\ Second(q)' \in Nat
  BY <1>1, SessionsAssumption DEF Second
<1>3. \A t \in Nat : Reached(t) => Reached(t)'
  <2> SUFFICES ASSUME NEW t \in Nat, NEW q \in Requests, t <= Second(q)
               PROVE  t <= Second(q)'
    BY DEF Reached
  <2> QED  BY <1>2, SecondIsNat
<1> QED  BY <1>1, <1>2, <1>3

\* What a commit does to the accounts.
Landed(r) ==
  LET e == job[r].email
  IN /\ account' = [account EXCEPT ![e] = write[r]]
     /\ changes' = IF Changing(r) THEN [changes EXCEPT ![e] = @ + 1] ELSE changes
     /\ changedBy' = IF Changing(r) THEN [changedBy EXCEPT ![e] = Ahead[r]] ELSE changedBy

\* The row that lands is the one locked, and its instant the one stamped.
LEMMA LandedRows ==
  ASSUME IInv, NEW r \in Requests, pc[r] = "commit", Landed(r)
  PROVE  LET e == job[r].email
         IN /\ account' \in [Emails -> Row]
            /\ changes' \in [Emails -> Nat] /\ changedBy' \in [Emails -> Nat]
            /\ \A f \in Emails \ {e} : /\ account'[f] = account[f] /\ changes'[f] = changes[f]
                                       /\ changedBy'[f] = changedBy[f]
            /\ lock[e] = r
            /\ Changing(r) => /\ account'[e].changed = job[r].stamp
                              /\ changes'[e] = changes[e] + 1
                              /\ changedBy'[e] = Ahead[r]
                              /\ StampHolds(r, job[r])
            /\ ~Changing(r) => /\ account'[e].changed = account[e].changed
                               /\ changes' = changes /\ changedBy' = changedBy
<1>1. Typed /\ Holds(r, pc[r], job[r], write[r], lock)
  BY DEF IInv, RequestsHold
<1>2. job[r].email \in Emails /\ write[r] \in Row /\ Ahead[r] \in Nat
  BY <1>1, Fields, SecondIsNat
<1>3. Changing(r) <=> job[r].route \in ChangeRoutes
  BY DEF Changing, ChangeRoutes
<1> QED  BY <1>1, <1>2, <1>3 DEF Landed, Typed, Holds

\* A commit, wherever its request goes next.
LEMMA LandingStep ==
  ASSUME IInv, NEW r \in Requests, pc[r] = "commit", Landed(r), EndTx(r),
         NEW step \in {"mint", "idle"}, NEW j \in Jobs,
         pc' = [pc EXCEPT ![r] = step], job' = [job EXCEPT ![r] = j],
         Reached(j.stamp), j.seen <= changes'[j.email],
         UNCHANGED <<sessions, clock, begun>>
  PROVE  IInv'
<1> DEFINE e == job[r].email
<1> USE DEF IInv
<1>1. Typed /\ e \in Emails /\ Reached(write[r].changed) /\ step \in Steps
  BY Fields DEF NothingToCome, Steps
<1>2. /\ account' \in [Emails -> Row]
      /\ changes' \in [Emails -> Nat] /\ changedBy' \in [Emails -> Nat]
      /\ \A f \in Emails \ {e} : /\ account'[f] = account[f] /\ changes'[f] = changes[f]
                                 /\ changedBy'[f] = changedBy[f]
      /\ lock[e] = r
      /\ Changing(r) => /\ account'[e].changed = job[r].stamp
                        /\ changes'[e] = changes[e] + 1
                        /\ changedBy'[e] = Ahead[r]
                        /\ StampHolds(r, job[r])
      /\ ~Changing(r) => /\ account'[e].changed = account[e].changed
                         /\ changes' = changes /\ changedBy' = changedBy
  BY LandedRows
<1>3. \A f \in Emails : changes[f] <= changes'[f] /\ changes[f] \in Nat /\ changes'[f] \in Nat
                        /\ account[f].changed \in Nat /\ account'[f].changed \in Nat
  BY <1>1, <1>2, AccountFields DEF Row
<1>4. Typed'
  BY <1>1, <1>2, EndTxLocks, Defaults DEF Typed
<1>5. /\ \A q \in Requests : Second(q)' = Second(q)
      /\ \A t \in Nat : Reached(t) => Reached(t)'
  BY DEF Second, Reached
<1> HIDE DEF e
<1>6. NothingToCome'
  <2>1. \A f \in Emails : Reached(account[f].changed)'
    <3> TAKE f \in Emails
    <3>1. account'[f].changed = account[f].changed \/ account'[f].changed = job[r].stamp
      BY <1>2, <1>1
    <3>2. Reached(account[f].changed) /\ Reached(job[r].stamp)
          /\ account[f].changed \in Nat /\ job[r].stamp \in Nat
      BY <1>1, <1>3, Fields DEF NothingToCome
    <3> QED  BY <3>1, <3>2, <1>5 DEF Reached
  <2>2. \A s \in sessions' : Reached(s.iat)'
    BY <1>1, <1>5 DEF NothingToCome, Typed, Session
  <2>3. \A q \in Requests : Reached(job[q].stamp)' /\ Reached(write[q].changed)'
    <3> TAKE q \in Requests
    <3>1. CASE q = r
      <4>1. job'[q] = j /\ write'[q] = NoWrite
        BY <3>1, <1>1, EndTxLocks DEF Typed
      <4>2. j.stamp \in Nat /\ NoWrite.changed = 0
        BY DEF Jobs, NoWrite
      <4> QED  BY <4>1, <4>2, <1>5 DEF Reached
    <3>2. CASE q # r
      <4>1. job'[q] = job[q] /\ write'[q] = write[q]
        BY <3>2, <1>1, EndTxLocks DEF Typed
      <4>2. job[q].stamp \in Nat /\ write[q].changed \in Nat
        BY <1>1, Fields DEF Row
      <4>3. Reached(job[q].stamp) /\ Reached(write[q].changed)
        BY DEF NothingToCome
      <4> QED  BY <4>1, <4>2, <4>3, <1>5 DEF Reached
    <3> QED  BY <3>1, <3>2
  <2> QED  BY <2>1, <2>2, <2>3 DEF NothingToCome
<1>7. RequestsHold'
  <2> SUFFICES ASSUME NEW q \in Requests
               PROVE  Holds(q, pc[q], job[q], write[q], lock)'
    BY DEF RequestsHold
  <2>1. CASE q = r
    <3>1. pc'[q] = step /\ job'[q] = j
      BY <2>1, <1>1 DEF Typed
    <3> QED  BY <3>1 DEF Holds, Routed
  <2>2. CASE q # r
    <3>1. pc'[q] = pc[q] /\ job'[q] = job[q] /\ write'[q] = write[q]
      BY <2>2, <1>1, EndTxLocks DEF Typed
    <3>2. /\ Holds(q, pc[q], job[q], write[q], lock) /\ job[q].email \in Emails
          /\ job[q].seen \in Nat /\ job[q].stamp \in Nat
      BY <1>1, Fields DEF RequestsHold
    <3> DEFINE f == job[q].email
    <3>3. pc[q] = "commit" => f # e /\ lock'[f] = q
      BY <3>2, <2>2, <1>1, <1>2, EndTxLocks DEF Holds
    <3>4. job[q].seen <= changes'[f]
      BY <3>2, <1>3 DEF Holds
    <3>5. StampHolds(q, job[q]) => StampHolds(q, job[q])'
      <4>1. CASE f = e /\ Changing(r)
        <5>1. job[q].seen # changes'[f]
          BY <4>1, <3>2, <1>2, <1>3 DEF Holds
        <5> QED  BY <5>1, <3>1, <1>5 DEF StampHolds
      <4>2. CASE ~(f = e /\ Changing(r))
        <5>1. account'[f].changed = account[f].changed /\ changes'[f] = changes[f]
              /\ changedBy'[f] = changedBy[f]
          BY <4>2, <3>2, <1>2
        <5> QED  BY <5>1, <3>1, <1>5 DEF StampHolds
      <4> QED  BY <4>1, <4>2
    <3>6. pc[q] = "commit" => account'[f] = account[f]
      BY <3>3, <3>2, <1>2
    <3> QED  BY <3>1, <3>2, <3>3, <3>4, <3>5, <3>6 DEF Holds, Routed
  <2> QED  BY <2>1, <2>2
<1>8. ChangesAreOver'
  <2> SUFFICES ASSUME NEW f \in Emails
               PROVE  account'[f].changed <= (clock + changedBy'[f]) \div SecondTicks
    BY DEF ChangesAreOver
  <2>1. CASE f = e /\ Changing(r)
    <3>1. account'[f].changed <= Second(r) /\ changedBy'[f] = Ahead[r]
      BY <2>1, <1>2 DEF StampHolds
    <3> QED  BY <3>1 DEF Second
  <2>2. CASE ~(f = e /\ Changing(r))
    <3>1. account'[f].changed = account[f].changed /\ changedBy'[f] = changedBy[f]
      BY <2>2, <1>2
    <3> QED  BY <3>1 DEF ChangesAreOver
  <2> QED  BY <2>1, <2>2
<1>9. SessionsHold' /\ AChangeSparesWhatFollows'
  <2> SUFFICES ASSUME NEW s \in sessions
               PROVE  /\ s.seen <= changes'[s.email]
                      /\ s.seen = changes'[s.email] /\ s.ahead >= changedBy'[s.email] =>
                           s.iat >= account'[s.email].changed
    BY DEF SessionsHold, AChangeSparesWhatFollows
  <2>1. s.email \in Emails /\ s.seen \in Nat /\ s.seen <= changes[s.email]
    BY <1>1 DEF Typed, Session, SessionsHold
  <2>2. CASE s.email = e /\ Changing(r)
    BY <2>1, <2>2, <1>2, <1>3
  <2>3. CASE ~(s.email = e /\ Changing(r))
    <3>1. account'[s.email].changed = account[s.email].changed
          /\ changes'[s.email] = changes[s.email] /\ changedBy'[s.email] = changedBy[s.email]
      BY <2>1, <2>3, <1>2
    <3> QED  BY <2>1, <3>1 DEF AChangeSparesWhatFollows
  <2> QED  BY <2>2, <2>3
<1> QED  BY <1>4, <1>6, <1>7, <1>8, <1>9

Committing(r) == Commit(r) \/ CommitLost(r)

\* A commit, and one whose answer is lost.
LEMMA CommittingStep ==
  ASSUME IInv, NEW r \in Requests, Committing(r)
  PROVE  IInv'
<1>1. Typed
  BY DEF IInv
<1>2. pc[r] = "commit" /\ Landed(r) /\ EndTx(r) /\ UNCHANGED <<sessions, clock, begun>>
  BY DEF Committing, Commit, CommitLost, Landed, Close
<1> DEFINE e == job[r].email
<1>3. e \in Emails /\ changes[e] \in Nat /\ job[r] \in Jobs
      /\ job[r].seen <= changes[e] /\ Reached(job[r].stamp)
  BY <1>1, Fields, AccountFields, KeptJob
<1>4. changes' \in [Emails -> Nat]
      /\ changes'[e] = IF Changing(r) THEN changes[e] + 1 ELSE changes[e]
  BY <1>2, LandedRows
<1>5. CASE job' = [job EXCEPT ![r] = NoJob] /\ pc' = [pc EXCEPT ![r] = "idle"]
  <2>1. NoJob.seen <= changes'[NoJob.email] /\ Reached(NoJob.stamp)
    BY <1>4, Defaults DEF Reached, Jobs
  <2> QED  BY <1>2, <1>5, <2>1, Defaults, LandingStep
<1>6. CASE pc' = [pc EXCEPT ![r] = "mint"]
           /\ job' = [job EXCEPT ![r].seen = IF Changing(r) THEN changes[e] + 1 ELSE @]
  <2> DEFINE j == [job[r] EXCEPT !.seen = IF Changing(r) THEN changes[e] + 1 ELSE @]
  <2>1. j \in Jobs /\ j.email = e /\ j.stamp = job[r].stamp
        /\ j.seen = IF Changing(r) THEN changes[e] + 1 ELSE job[r].seen
    BY <1>3 DEF Jobs
  <2>2. job' = [job EXCEPT ![r] = j]
    BY <1>1, <1>6 DEF Typed
  <2> HIDE DEF j, e
  <2>3. j.seen <= changes'[j.email] /\ Reached(j.stamp)
    BY <1>3, <1>4, <2>1
  <2> QED  BY <1>2, <1>6, <2>1, <2>2, <2>3, LandingStep
<1> QED  BY <1>5, <1>6 DEF Committing, Commit, CommitLost, Close, Goto

-----------------------------------------------------------------------------
\* A token minted now is of no second before the last change.
LEMMA MintStep ==
  ASSUME IInv, NEW r \in Requests, Mint(r)
  PROVE  IInv'
<1>1. Typed /\ NothingToCome
  BY DEF IInv
<1>2. PICK t \in Session :
        /\ t.email = job[r].email /\ t.iat = Second(r)
        /\ t.seen = job[r].seen /\ t.ahead = Ahead[r]
        /\ sessions' = sessions \cup {t}
  <2> DEFINE via == IF job[r].route = "link" THEN "link" ELSE "password"
             under == IF job[r].route = "change" THEN job[r].fresh ELSE job[r].typed
  <2>1. via \in Vias /\ under \in Passwords
    BY <1>1, Fields DEF Vias
  <2>2. [email |-> job[r].email, iat |-> Second(r), via |-> via, under |-> under,
         seen |-> job[r].seen, ahead |-> Ahead[r]] \in Session
    BY <1>1, <2>1, Fields, SecondIsNat DEF Session
  <2> QED  BY <2>2 DEF Mint
<1>3. t.email = job[r].email /\ t.iat = Second(r) /\ t.seen = job[r].seen /\ t.ahead = Ahead[r]
  BY <1>2
<1>4. sessions' = sessions \cup {t} /\ Close(r)
      /\ UNCHANGED <<account, clock, changes, changedBy, begun>>
  BY <1>2 DEF Mint
<1>5. EndTx(r) /\ job' = [job EXCEPT ![r] = NoJob] /\ pc' = [pc EXCEPT ![r] = "idle"]
  BY <1>4 DEF Close, Goto
<1>6. Typed'
  BY <1>1, <1>2, <1>4, <1>5, EndTxLocks, Defaults DEF Typed, Steps
<1>7. /\ \A q \in Requests : Second(q)' = Second(q)
      /\ \A n \in Nat : Reached(n) => Reached(n)'
  BY <1>4 DEF Second, Reached
<1>8. NothingToCome'
  <2>1. \A e \in Emails : Reached(account[e].changed)'
    BY <1>1, <1>4, <1>7, AccountFields DEF NothingToCome
  <2>2. \A s \in sessions' : Reached(s.iat)'
    <3>1. \A s \in sessions : Reached(s.iat)'
      BY <1>1, <1>7 DEF NothingToCome, Typed, Session
    <3>2. Reached(t.iat)'
      BY <1>1, <1>3, <1>7, SecondIsNat DEF Reached
    <3> QED  BY <1>4, <3>1, <3>2
  <2>3. \A q \in Requests : Reached(job[q].stamp)' /\ Reached(write[q].changed)'
    <3> TAKE q \in Requests
    <3>1. CASE q = r
      <4>1. job'[q] = NoJob /\ write'[q] = NoWrite /\ NoWrite.changed = 0
        BY <3>1, <1>1, <1>5, EndTxLocks DEF Typed, NoWrite
      <4> QED  BY <4>1, Defaults DEF Reached
    <3>2. CASE q # r
      <4>1. job'[q] = job[q] /\ write'[q] = write[q]
        BY <3>2, <1>1, <1>5, EndTxLocks DEF Typed
      <4>2. job[q].stamp \in Nat /\ write[q].changed \in Nat
        BY <1>1, Fields DEF Row
      <4>3. Reached(job[q].stamp) /\ Reached(write[q].changed)
        BY <1>1 DEF NothingToCome
      <4> QED  BY <4>1, <4>2, <4>3, <1>7 DEF Reached
    <3> QED  BY <3>1, <3>2
  <2> QED  BY <2>1, <2>2, <2>3 DEF NothingToCome
<1>9. RequestsHold'
  <2> SUFFICES ASSUME NEW q \in Requests
               PROVE  Holds(q, pc[q], job[q], write[q], lock)'
    BY DEF RequestsHold
  <2>1. CASE q = r
    <3>1. pc'[q] = "idle" /\ job'[q] = NoJob
      BY <2>1, <1>1, <1>5 DEF Typed
    <3>2. changes'[NoJob.email] \in Nat
      BY <1>1, <1>4, Defaults, AccountFields DEF Jobs
    <3> QED  BY <3>1, <3>2, Defaults DEF Holds, Routed
  <2>2. CASE q # r
    <3>1. pc'[q] = pc[q] /\ job'[q] = job[q] /\ write'[q] = write[q]
      BY <2>2, <1>1, <1>5, EndTxLocks DEF Typed
    <3>2. Holds(q, pc[q], job[q], write[q], lock) /\ job[q].email \in Emails
      BY <1>1, Fields DEF IInv, RequestsHold
    <3> QED  BY <3>1, <3>2, <2>2, <1>1, <1>4, <1>5, <1>7, EndTxLocks DEF Holds, Routed, StampHolds
  <2> QED  BY <2>1, <2>2
<1>10. ChangesAreOver'
  BY <1>4 DEF IInv, ChangesAreOver
<1>11. SessionsHold' /\ AChangeSparesWhatFollows'
  <2>1. job[r].email \in Emails /\ job[r].seen <= changes[job[r].email]
    BY <1>1, Fields, KeptJob
  <2>2. Ahead[r] >= changedBy[job[r].email] => Second(r) >= account[job[r].email].changed
    <3> DEFINE e == job[r].email
    <3>1. SUFFICES ASSUME Ahead[r] >= changedBy[e]
                   PROVE  Second(r) >= account[e].changed
      OBVIOUS
    <3>2. account[e].changed \in Nat /\ changedBy[e] \in Nat /\ clock \in Nat /\ Ahead[r] \in Nat
      BY <1>1, <2>1, AccountFields, SecondIsNat DEF Typed
    <3> DEFINE a == clock + changedBy[e]
               b == clock + Ahead[r]
    <3>3. a \in Nat /\ b \in Nat /\ a <= b
      BY <3>1, <3>2
    <3>4. account[e].changed <= a \div SecondTicks
      BY <2>1 DEF IInv, ChangesAreOver
    <3>5. Second(r) = b \div SecondTicks
      BY DEF Second
    <3> HIDE DEF a, b, e
    <3>6. a \div SecondTicks <= b \div SecondTicks /\ a \div SecondTicks \in Nat
      BY <3>3, SecondsGrow
    <3>7. b \div SecondTicks \in Nat
      BY <3>3, SecondsGrow
    <3> QED  BY <3>2, <3>4, <3>5, <3>6, <3>7
  <2>3. \A s \in sessions : s.seen <= changes[s.email]
    BY DEF IInv, SessionsHold
  <2>4. \A s \in sessions : s.seen = changes[s.email] /\ s.ahead >= changedBy[s.email] =>
                              s.iat >= account[s.email].changed
    BY DEF IInv, AChangeSparesWhatFollows
  <2>5. t.seen <= changes[t.email] /\ (t.ahead >= changedBy[t.email] => t.iat >= account[t.email].changed)
    BY <1>3, <2>1, <2>2
  <2>6. changes' = changes /\ changedBy' = changedBy /\ account' = account
    BY <1>4
  <2>7. \A s \in sessions \cup {t} :
          /\ s.seen <= changes[s.email]
          /\ s.seen = changes[s.email] /\ s.ahead >= changedBy[s.email] =>
               s.iat >= account[s.email].changed
    BY <2>3, <2>4, <2>5
  <2> QED  BY <1>4, <2>6, <2>7 DEF SessionsHold, AChangeSparesWhatFollows
<1> QED  BY <1>6, <1>8, <1>9, <1>10, <1>11 DEF IInv

\* Closing or reopening an account moves no instant.
LEMMA ToggleStep ==
  ASSUME IInv, Toggle
  PROVE  IInv' /\ \A e \in Emails : account'[e].changed = account[e].changed
<1>1. Typed
  BY DEF IInv
<1>2. PICK e \in Emails : account' = [account EXCEPT ![e].active = ~@]
  BY DEF Toggle
<1>3. /\ account' \in [Emails -> Row]
      /\ \A f \in Emails : account'[f].changed = account[f].changed
  BY <1>1, <1>2 DEF Typed, Row
<1>4. UNCHANGED <<lock, pc, job, write, sessions, clock, changes, changedBy, begun>>
  BY DEF Toggle
<1>5. Typed'
  BY <1>1, <1>3, <1>4 DEF Typed
<1>6. NothingToCome'
  BY <1>3, <1>4 DEF IInv, NothingToCome, Reached, Second
<1>7. RequestsHold'
  <2> SUFFICES ASSUME NEW q \in Requests
               PROVE  Holds(q, pc[q], job[q], write[q], lock)'
    BY DEF RequestsHold
  <2>1. job[q].email \in Emails /\ Holds(q, pc[q], job[q], write[q], lock)
    BY <1>1, Fields DEF IInv, RequestsHold
  <2> QED  BY <2>1, <1>3, <1>4 DEF Holds, Routed, StampHolds, Second
<1>8. ChangesAreOver'
  BY <1>3, <1>4 DEF IInv, ChangesAreOver
<1>9. SessionsHold' /\ AChangeSparesWhatFollows'
  <2>1. \A s \in sessions : s.email \in Emails
    BY <1>1 DEF Typed, Session
  <2> QED  BY <2>1, <1>3, <1>4 DEF IInv, SessionsHold, AChangeSparesWhatFollows
<1> QED  BY <1>3, <1>5, <1>6, <1>7, <1>8, <1>9 DEF IInv

\* The clock moves on.
LEMMA TickStep ==
  ASSUME IInv, Tick
  PROVE  IInv'
<1>1. Typed
  BY DEF IInv
<1>2. UNCHANGED <<account, lock, pc, job, write, sessions, changes, changedBy, begun>>
  BY DEF Tick
<1>3. clock \in Nat
  BY <1>1 DEF Typed
<1>4. clock' \in Nat /\ clock <= clock'
  BY <1>3 DEF Tick
<1>5. /\ \A q \in Requests : Second(q) <= Second(q)' /\ Second(q)' \in Nat
      /\ \A t \in Nat : Reached(t) => Reached(t)'
      /\ \A n \in Nat : /\ (clock + n) \div SecondTicks <= (clock' + n) \div SecondTicks
                        /\ (clock' + n) \div SecondTicks \in Nat
                        /\ (clock + n) \div SecondTicks \in Nat
  BY <1>1, <1>4, ClockForward
<1>6. Typed'
  BY <1>1, <1>2, <1>4 DEF Typed
<1>7. NothingToCome'
  <2>1. \A e \in Emails : account[e].changed \in Nat /\ Reached(account[e].changed)
    BY <1>1, AccountFields DEF IInv, NothingToCome
  <2>2. \A q \in Requests : /\ job[q].stamp \in Nat /\ Reached(job[q].stamp)
                            /\ write[q].changed \in Nat /\ Reached(write[q].changed)
    BY <1>1, Fields DEF IInv, NothingToCome, Row
  <2>3. \A s \in sessions : s.iat \in Nat /\ Reached(s.iat)
    BY <1>1 DEF IInv, NothingToCome, Typed, Session
  <2> QED  BY <2>1, <2>2, <2>3, <1>2, <1>5 DEF NothingToCome, Reached
<1>8. RequestsHold'
  <2> SUFFICES ASSUME NEW q \in Requests
               PROVE  Holds(q, pc[q], job[q], write[q], lock)'
    BY DEF RequestsHold
  <2>1. Holds(q, pc[q], job[q], write[q], lock) /\ job[q].stamp \in Nat /\ Second(q) \in Nat
    BY <1>1, Fields, SecondIsNat DEF IInv, RequestsHold
  <2>2. StampHolds(q, job[q]) => StampHolds(q, job[q])'
    BY <2>1, <1>2, <1>5 DEF StampHolds
  <2> QED  BY <2>1, <2>2, <1>2 DEF Holds, Routed
<1>9. ChangesAreOver'
  <2> SUFFICES ASSUME NEW e \in Emails
               PROVE  account[e].changed <= (clock' + changedBy[e]) \div SecondTicks
    BY <1>2 DEF ChangesAreOver
  <2>1. account[e].changed \in Nat /\ changedBy[e] \in Nat
        /\ account[e].changed <= (clock + changedBy[e]) \div SecondTicks
    BY <1>1, AccountFields DEF IInv, ChangesAreOver
  <2>2. /\ (clock + changedBy[e]) \div SecondTicks <= (clock' + changedBy[e]) \div SecondTicks
        /\ (clock' + changedBy[e]) \div SecondTicks \in Nat
        /\ (clock + changedBy[e]) \div SecondTicks \in Nat
    BY <1>5, <2>1
  <2> QED  BY <2>1, <2>2
<1>10. SessionsHold' /\ AChangeSparesWhatFollows'
  BY <1>2 DEF IInv, SessionsHold, AChangeSparesWhatFollows
<1> QED  BY <1>6, <1>7, <1>8, <1>9, <1>10 DEF IInv

-----------------------------------------------------------------------------
\* The theorems

Step(r) ==
  Arrive(r) \/ Reading(r) \/ Writing(r) \/ Committing(r) \/ Mint(r) \/ Fail(r)

\* The actions of Next, grouped as the lemmas above have them.
LEMMA NextIsAStep == Next <=> (\E r \in Requests : Step(r)) \/ Toggle \/ Tick
BY DEF Next, Step, Arrive, Reading, Writing, Committing

\* Every step preserves the invariant.
LEMMA Inductive == IInv /\ [Next]_vars => IInv'
<1> SUFFICES ASSUME IInv, [Next]_vars PROVE IInv'
  OBVIOUS
<1>1. CASE UNCHANGED vars
  BY <1>1 DEF vars, IInv, Typed, NothingToCome, Reached, Second, RequestsHold, Holds,
              Routed, StampHolds, ChangesAreOver, SessionsHold, AChangeSparesWhatFollows
<1>2. ASSUME NEW r \in Requests, Step(r) PROVE IInv'
  <2>1. CASE Arrive(r)
    BY <2>1, ArriveStep
  <2>2. CASE Reading(r)
    BY <2>2, ReadingStep
  <2>3. CASE Writing(r)
    BY <2>3, WritingStep
  <2>4. CASE Committing(r)
    BY <2>4, CommittingStep
  <2>5. CASE Mint(r)
    BY <2>5, MintStep
  <2>6. CASE Fail(r)
    BY <2>6, RefuseStep DEF Fail
  <2> QED  BY <1>2, <2>1, <2>2, <2>3, <2>4, <2>5, <2>6 DEF Step
<1>3. CASE Toggle
  BY <1>3, ToggleStep
<1>4. CASE Tick
  BY <1>4, TickStep
<1> QED  BY <1>1, <1>2, <1>3, <1>4, NextIsAStep

\* What a request was told, locked and stamped still stands at each of its
\* steps (the transactions of routes_session.go and routes_team.go).
THEOREM SessionsInOrder == Spec => []IInv
<1>1. Init => IInv
  BY Initially
<1>2. IInv /\ [Next]_vars => IInv'
  BY Inductive
<1> QED  BY <1>1, <1>2, PTL DEF Spec

\* The variables keep their types, and no token or change is of a second that
\* is still to come (Server.now truncated, in the two places that write one).
THEOREM TypeCorrect == Spec => []TypeOK
<1>1. IInv => TypeOK
  BY DEF IInv, TypeOK
<1> QED  BY <1>1, SessionsInOrder, PTL

\* A change signs out nobody who signed in after it was there to be read, by a
\* pod whose clock is not behind (signedIn, auth.go).
THEOREM ChangesSpareWhatFollows == Spec => []AChangeSparesWhatFollows
<1>1. IInv => AChangeSparesWhatFollows
  BY DEF IInv
<1> QED  BY <1>1, SessionsInOrder, PTL

\* A commit moves the instant of its account back only if the account was
\* changed while it ran, or by a pod further ahead.
LEMMA CommitsGoForward ==
  ASSUME IInv, NEW r \in Requests, Committing(r), NEW e \in Emails,
         account'[e].changed < account[e].changed
  PROVE  /\ pc[r] = "commit" /\ Changing(r) /\ job[r].email = e
         /\ job[r].seen < changes[e] \/ Ahead[r] < changedBy[e]
<1>1. Typed
  BY DEF IInv
<1>2. pc[r] = "commit" /\ Landed(r)
  BY DEF Committing, Commit, CommitLost, Landed
<1>3. e = job[r].email /\ Changing(r)
  BY <1>1, <1>2, LandedRows, AccountFields
<1>4. StampHolds(r, job[r]) /\ account'[e].changed = job[r].stamp
  BY <1>2, <1>3, LandedRows
<1>5. job[r].seen \in Nat /\ changes[e] \in Nat /\ job[r].seen <= changes[e]
      /\ Ahead[r] \in Nat /\ changedBy[e] \in Nat
      /\ job[r].stamp \in Nat /\ account[e].changed \in Nat
  BY <1>1, <1>3, Fields, AccountFields, SecondIsNat, KeptJob
<1> QED  BY <1>2, <1>3, <1>4, <1>5 DEF StampHolds

\* A session a change has ended stays ended: the instant of the last change
\* goes back only when two changes overlapped, or the second came from a pod
\* whose clock is behind (routeChangePassword, routeResetPassword).
THEOREM InstantsAlwaysGoForward == Spec => InstantsGoForward
<1> DEFINE Forward ==
      \A e \in Emails :
        account'[e].changed < account[e].changed =>
          \E r \in Requests :
            /\ pc[r] = "commit" /\ Changing(r) /\ job[r].email = e
            /\ job[r].seen < changes[e] \/ Ahead[r] < changedBy[e]
<1>1. IInv /\ [Next]_vars => [Forward]_vars
  <2> SUFFICES ASSUME IInv, Next, NEW e \in Emails,
                      account'[e].changed < account[e].changed
               PROVE  \E r \in Requests :
                        /\ pc[r] = "commit" /\ Changing(r) /\ job[r].email = e
                        /\ job[r].seen < changes[e] \/ Ahead[r] < changedBy[e]
    OBVIOUS
  <2>1. account[e].changed \in Nat /\ account' # account
    BY AccountFields DEF IInv
  <2>2. ~Toggle
    BY <2>1, ToggleStep
  <2>3. ~Tick
    BY <2>1 DEF Tick
  <2>4. PICK r \in Requests : Step(r)
    BY <2>2, <2>3, NextIsAStep
  <2>5. Committing(r)
    BY <2>1, <2>4 DEF Step, Arrive, BeginSignIn, BeginLink, BeginChange, BeginReset, BeginSeed,
                      Begin, Reading, Verify, Reread, Prove, Stamp, Writing, Rehash,
                      RehashFails, Write, Mint, Fail, Refuse
  <2> QED  BY <2>5, CommitsGoForward
<1>2. Spec => []IInv
  BY SessionsInOrder
<1> QED  BY <1>1, <1>2, PTL DEF Spec, InstantsGoForward

=============================================================================
