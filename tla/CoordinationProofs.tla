------------------------- MODULE CoordinationProofs -------------------------
(***************************************************************************)
(* Proofs about Coordination, for every campaign, set of teams, bound and  *)
(* number of concurrent requests.                                          *)
(***************************************************************************)
EXTENDS Coordination, TLAPS

\* The fields of what a request asks for.
LEMMA ArgFields ==
  ASSUME TypeOK, NEW r \in Requests
  PROVE  /\ arg[r].route \in Routes /\ arg[r].target \in Accounts
         /\ arg[r].role \in Roles /\ arg[r].team \in Teams \cup {NoTeam}
         /\ arg[r].role = "lead" => arg[r].team \in Teams
         /\ account[arg[r].target] \in Row \cup {Absent}
BY DEF TypeOK, Args

\* The local variables of an idle request are well typed.
LEMMA Defaults == NoArg \in Args /\ NoCount \in Counts /\ Coordinator \in Row
<1>1. NoArg \in Args
  BY CoordinationAssumption DEF NoArg, Args, Routes, Roles
<1>2. NoCount \in Counts
  BY DEF NoCount, Counts
<1>3. Coordinator \in Row
  BY DEF Coordinator, Row, Roles
<1> QED  BY <1>1, <1>2, <1>3

\* A statement writes a row, or none: what each route makes of an account.
LEMMA WrittenIsARow ==
  ASSUME TypeOK, NEW r \in Requests, NEW row \in Row \cup {Absent}
  PROVE  Written(r, row) \in Row \cup {Absent}
<1> USE ArgFields, Defaults
<1>1. CASE arg[r].route \in {"create", "grant"}
  BY <1>1 DEF Written, Row
<1>2. CASE arg[r].route = "seed"
  <2>1. CASE row = Absent
    BY <1>2, <2>1 DEF Written
  <2>2. CASE row # Absent
    <3>1. [row EXCEPT !.role = "coordination"] \in Row
      BY <2>2 DEF Row, Roles
    <3> QED  BY <1>2, <2>2, <3>1 DEF Written
  <2> QED  BY <2>1, <2>2
<1>3. CASE arg[r].route = "toggle"
  <2>1. CASE Reaches(r, row)
    <3>1. [row EXCEPT !.active = ~@] \in Row
      BY <2>1 DEF Row, Reaches
    <3> QED  BY <1>3, <2>1, <3>1 DEF Written
  <2>2. CASE ~Reaches(r, row)
    BY <1>3, <2>2 DEF Written
  <2> QED  BY <2>1, <2>2
<1>4. CASE arg[r].route = "role"
  <2>1. CASE Reaches(r, row)
    <3>1. [row EXCEPT !.role = arg[r].role, !.team = arg[r].team] \in Row
      BY <2>1 DEF Row, Reaches
    <3> QED  BY <1>4, <2>1, <3>1 DEF Written
  <2>2. CASE ~Reaches(r, row)
    BY <1>4, <2>2 DEF Written
  <2> QED  BY <2>1, <2>2
<1> QED  BY <1>1, <1>2, <1>3, <1>4 DEF Routes

\* A transaction that ends keeps the types of what it leaves behind.
LEMMA CloseType ==
  ASSUME TypeOK, NEW r \in Requests, Close(r)
  PROVE  /\ pc' \in [Requests -> Steps] /\ me' \in [Requests -> Row \cup {Absent}]
         /\ arg' \in [Requests -> Args] /\ count' \in [Requests -> Counts]
         /\ write' \in [Requests -> Row \cup {Absent}]
         /\ lock' \in [Accounts -> Requests \cup {NoRequest}]
BY Defaults DEF TypeOK, Close, Goto, Steps

LEMMA RollbackType ==
  ASSUME TypeOK, NEW r \in Requests, Rollback(r)
  PROVE  TypeOK'
BY CloseType DEF TypeOK, Rollback

\* A door opened: whoever knocks, the request is typed and its caller allowed.
Arrive(r) ==
  BeginCreate(r) \/ BeginGrant(r) \/ BeginToggle(r) \/ BeginRole(r) \/ BeginSeed(r)

Statement(r) ==
  Count(r) \/ LockNext(r) \/ Write(r) \/ Check(r) \/ Commit(r) \/ Fail(r)

LEMMA NextIsAStep ==
  Next <=> \E r \in Requests : Arrive(r) \/ Statement(r)
BY DEF Next, Arrive, Statement

\* What Begin leaves, for any caller and any argument the routes allow.
AllowedFor(a, caller) ==
  CASE a.route = "create" ->
         caller # Absent /\ (caller.role = "coordination" \/ a.role = "volunteer")
    [] a.route = "toggle" -> caller # Absent /\ caller.role \in {"coordination", "lead"}
    [] a.route = "role" -> caller # Absent /\ caller.role = "coordination"
    [] OTHER -> caller = Absent

LEMMA ArriveBegins ==
  ASSUME TypeOK, NEW r \in Requests, Arrive(r)
  PROVE  \E caller \in Row \cup {Absent}, a \in Args, step \in {"count", "write"} :
           /\ Begin(r, caller, step, a) /\ AllowedFor(a, caller)
           /\ step = "write" =>
                ~(\/ a.route = "role" /\ a.role # "coordination"
                  \/ a.route = "toggle" /\ caller.role = "coordination")
<1>1. \A who \in Accounts : account[who] \in Row \cup {Absent}
  BY DEF TypeOK
<1>2. \A role \in Roles : \A team \in TeamsFor(role) :
        team \in Teams \cup {NoTeam} /\ (role = "lead" => team \in Teams)
  BY DEF TeamsFor, Roles
<1>3. CASE BeginCreate(r)
  <2>1. PICK who \in Accounts, target \in Accounts, role \in RolesGiven :
          \E team \in TeamsFor(role) :
            /\ SignedIn(account[who], {"coordination", "lead"})
            /\ account[who].role = "lead" => role = "volunteer" /\ team = account[who].team
            /\ Begin(r, account[who], "write",
                 [route |-> "create", target |-> target, role |-> role, team |-> team])
    BY <1>3 DEF BeginCreate
  <2>2. PICK team \in TeamsFor(role) :
            /\ SignedIn(account[who], {"coordination", "lead"})
            /\ account[who].role = "lead" => role = "volunteer" /\ team = account[who].team
            /\ Begin(r, account[who], "write",
                 [route |-> "create", target |-> target, role |-> role, team |-> team])
    BY <2>1
  <2> DEFINE a == [route |-> "create", target |-> target, role |-> role, team |-> team]
  <2>3. role \in Roles /\ team \in Teams \cup {NoTeam} /\ (role = "lead" => team \in Teams)
    BY <1>2, CoordinationAssumption
  <2>4. a \in Args
    BY <2>3 DEF Args, Routes
  <2>5. AllowedFor(a, account[who])
    BY <2>2 DEF AllowedFor, SignedIn
  <2>6. Begin(r, account[who], "write", a) /\ a.route = "create"
    BY <2>2
  <2> HIDE DEF a
  <2> QED  BY <1>1, <2>4, <2>5, <2>6
<1>4. CASE BeginGrant(r)
  <2>1. PICK target \in Accounts :
          Begin(r, Absent, "write", [NoArg EXCEPT !.route = "grant", !.target = target,
                                                  !.role = "coordination"])
    BY <1>4 DEF BeginGrant
  <2> DEFINE a == [NoArg EXCEPT !.route = "grant", !.target = target, !.role = "coordination"]
  <2>2. a \in Args /\ a.route = "grant"
    BY Defaults DEF Args, Routes, Roles, NoArg
  <2>3. Begin(r, Absent, "write", a)
    BY <2>1
  <2> HIDE DEF a
  <2>4. AllowedFor(a, Absent)
    BY <2>2 DEF AllowedFor
  <2> QED  BY <2>2, <2>3, <2>4
<1>5. CASE BeginToggle(r)
  <2>1. PICK who \in Accounts : \E target \in Accounts \ {who} :
          /\ SignedIn(account[who], {"coordination", "lead"})
          /\ Begin(r, account[who],
                   IF account[who].role = "coordination" THEN "count" ELSE "write",
                   [NoArg EXCEPT !.route = "toggle", !.target = target])
    BY <1>5 DEF BeginToggle
  <2>2. PICK target \in Accounts \ {who} :
          /\ SignedIn(account[who], {"coordination", "lead"})
          /\ Begin(r, account[who],
                   IF account[who].role = "coordination" THEN "count" ELSE "write",
                   [NoArg EXCEPT !.route = "toggle", !.target = target])
    BY <2>1
  <2> DEFINE a == [NoArg EXCEPT !.route = "toggle", !.target = target]
             step == IF account[who].role = "coordination" THEN "count" ELSE "write"
  <2>3. a \in Args /\ a.route = "toggle"
    BY Defaults DEF Args, Routes, Roles, NoArg
  <2>4. Begin(r, account[who], step, a) /\ SignedIn(account[who], {"coordination", "lead"})
    BY <2>2
  <2>5. step \in {"count", "write"} /\ (step = "write" => account[who].role # "coordination")
    OBVIOUS
  <2> HIDE DEF a, step
  <2>6. AllowedFor(a, account[who])
    BY <2>3, <2>4 DEF AllowedFor, SignedIn
  <2> QED  BY <1>1, <2>3, <2>4, <2>5, <2>6
<1>6. CASE BeginRole(r)
  <2>1. PICK who \in Accounts, target \in Accounts, role \in RolesGiven :
          \E team \in TeamsFor(role) :
            /\ SignedIn(account[who], {"coordination"})
            /\ Begin(r, account[who], IF role = "coordination" THEN "write" ELSE "count",
                     [route |-> "role", target |-> target, role |-> role, team |-> team])
    BY <1>6 DEF BeginRole
  <2>2. PICK team \in TeamsFor(role) :
            /\ SignedIn(account[who], {"coordination"})
            /\ Begin(r, account[who], IF role = "coordination" THEN "write" ELSE "count",
                     [route |-> "role", target |-> target, role |-> role, team |-> team])
    BY <2>1
  <2> DEFINE a == [route |-> "role", target |-> target, role |-> role, team |-> team]
             step == IF role = "coordination" THEN "write" ELSE "count"
  <2>3. role \in Roles /\ team \in Teams \cup {NoTeam} /\ (role = "lead" => team \in Teams)
    BY <1>2, CoordinationAssumption
  <2>4. a \in Args /\ a.route = "role" /\ a.role = role
    BY <2>3 DEF Args, Routes
  <2>5. Begin(r, account[who], step, a) /\ SignedIn(account[who], {"coordination"})
    BY <2>2
  <2>6. step \in {"count", "write"} /\ (step = "write" => role = "coordination")
    OBVIOUS
  <2> HIDE DEF a, step
  <2>7. AllowedFor(a, account[who])
    BY <2>4, <2>5 DEF AllowedFor, SignedIn
  <2> QED  BY <1>1, <2>4, <2>5, <2>6, <2>7
<1>7. CASE BeginSeed(r)
  <2> DEFINE a == [NoArg EXCEPT !.route = "seed", !.role = "coordination"]
  <2>1. a \in Args /\ a.route = "seed"
    BY Defaults DEF Args, Routes, Roles, NoArg
  <2>2. Begin(r, Absent, "write", a)
    BY <1>7 DEF BeginSeed
  <2> HIDE DEF a
  <2>3. AllowedFor(a, Absent)
    BY <2>1 DEF AllowedFor
  <2> QED  BY <2>1, <2>2, <2>3
<1> QED  BY <1>3, <1>4, <1>5, <1>6, <1>7 DEF Arrive

\* Every step keeps the types.
LEMMA BeginType ==
  ASSUME TypeOK, NEW r \in Requests, NEW caller \in Row \cup {Absent}, NEW a \in Args,
         NEW step \in {"count", "write"}, Begin(r, caller, step, a)
  PROVE  TypeOK'
BY DEF TypeOK, Begin, Goto, Steps

\* One more row locked and not refused: c is what is counted after it.
LockedNext(r, a, c) ==
  /\ pc[r] = "lock" /\ Lockable(r, a)
  /\ TakeLock(r, a)
  /\ c.asked = count[r].asked /\ c.left = count[r].left \ {a}
  /\ c.kept = count[r].kept \cup (IF Coordinates(account[a]) THEN {a} ELSE {})
  /\ c.left # {} \/ c.kept # {arg[r].target}
  /\ count' = [count EXCEPT ![r] = c]
  /\ Goto(r, IF c.left = {} THEN "write" ELSE "lock")
  /\ UNCHANGED <<account, me, arg, write, begun>>

LEMMA LockNextStep ==
  ASSUME TypeOK, NEW r \in Requests, LockNext(r), ~Rollback(r)
  PROVE  \E a \in count[r].left, c \in Counts : LockedNext(r, a, c)
<1>1. PICK a \in count[r].left :
        LET left == count[r].left \ {a}
            kept == count[r].kept \cup (IF Coordinates(account[a]) THEN {a} ELSE {})
        IN /\ pc[r] = "lock" /\ Lockable(r, a)
           /\ ~(left = {} /\ kept = {arg[r].target})
           /\ TakeLock(r, a)
           /\ count' = [count EXCEPT ![r] = [asked |-> @.asked, left |-> left, kept |-> kept]]
           /\ Goto(r, IF left = {} THEN "write" ELSE "lock")
           /\ UNCHANGED <<account, me, arg, write, begun>>
  BY DEF LockNext
<1> DEFINE left == count[r].left \ {a}
           kept == count[r].kept \cup (IF Coordinates(account[a]) THEN {a} ELSE {})
           c == [asked |-> count[r].asked, left |-> left, kept |-> kept]
<1>2. count[r] \in Counts
  BY DEF TypeOK
<1>3. left \subseteq Accounts /\ kept \subseteq Accounts
  BY <1>2 DEF Counts
<1>4. c \in Counts
  BY <1>2, <1>3 DEF Counts
<1>5. count' = [count EXCEPT ![r] = c]
  BY <1>1 DEF TypeOK
<1>6. LockedNext(r, a, c)
  BY <1>1, <1>5 DEF LockedNext
<1> QED  BY <1>4, <1>6

LEMMA StatementType ==
  ASSUME TypeOK, NEW r \in Requests, Statement(r)
  PROVE  TypeOK'
<1> DEFINE t == arg[r].target
<1>1. t \in Accounts /\ account[t] \in Row \cup {Absent} /\ write[r] \in Row \cup {Absent}
  BY ArgFields DEF TypeOK
<1>2. CASE Count(r)
  <2> DEFINE snapshot == {a \in Accounts : Coordinates(account[a])}
  <2>1. /\ count' = [count EXCEPT ![r] = [asked |-> snapshot, left |-> snapshot, kept |-> {}]]
        /\ Goto(r, IF snapshot = {} THEN "write" ELSE "lock")
        /\ UNCHANGED <<account, lock, me, arg, write, begun>>
    BY <1>2 DEF Count
  <2>2. [asked |-> snapshot, left |-> snapshot, kept |-> {}] \in Counts
    BY DEF Counts
  <2> HIDE DEF snapshot
  <2>3. pc' \in [Requests -> Steps]
    BY <2>1 DEF TypeOK, Goto, Steps
  <2> QED  BY <2>1, <2>2, <2>3 DEF TypeOK
<1>3. CASE LockNext(r)
  <2>1. CASE Rollback(r)
    BY <2>1, RollbackType
  <2>2. CASE ~Rollback(r)
    <3>1. PICK a \in count[r].left, c \in Counts : LockedNext(r, a, c)
      BY <1>3, <2>2, LockNextStep
    <3>2. a \in Accounts
      BY DEF TypeOK, Counts
    <3>3. lock' \in [Accounts -> Requests \cup {NoRequest}]
      BY <3>1, <3>2 DEF LockedNext, TakeLock, TypeOK
    <3>4. count' \in [Requests -> Counts]
      BY <3>1 DEF LockedNext, TypeOK
    <3>5. pc' \in [Requests -> Steps]
      BY <3>1 DEF LockedNext, TypeOK, Goto, Steps
    <3> QED  BY <3>1, <3>3, <3>4, <3>5 DEF LockedNext, TypeOK
  <2> QED  BY <2>1, <2>2
<1>4. CASE Write(r)
  <2>1. CASE Rollback(r)
    BY <2>1, RollbackType
  <2>2. CASE ~Rollback(r)
    <3> DEFINE row == Written(r, account[t])
    <3>1. row \in Row \cup {Absent}
      BY <1>1, WrittenIsARow
    <3>2. /\ TakeLock(r, t) /\ write' = [write EXCEPT ![r] = row]
          /\ Goto(r, IF arg[r].route = "seed" THEN "check" ELSE "commit")
          /\ UNCHANGED <<account, me, arg, count, begun>>
      BY <1>4, <2>2 DEF Write
    <3> HIDE DEF row
    <3>3. lock' \in [Accounts -> Requests \cup {NoRequest}]
      BY <3>2, <1>1 DEF TakeLock, TypeOK
    <3>4. write' \in [Requests -> Row \cup {Absent}]
      BY <3>1, <3>2 DEF TypeOK
    <3>5. pc' \in [Requests -> Steps]
      BY <3>2 DEF TypeOK, Goto, Steps
    <3> QED  BY <3>2, <3>3, <3>4, <3>5 DEF TypeOK
  <2> QED  BY <2>1, <2>2
<1>5. CASE Check(r)
  <2>1. CASE Rollback(r)
    BY <2>1, RollbackType
  <2>2. CASE ~Rollback(r)
    BY <1>5, <2>2 DEF Check, TypeOK, Goto, Steps
  <2> QED  BY <2>1, <2>2
<1>6. CASE Commit(r)
  <2>1. account' \in [Accounts -> Row \cup {Absent}]
    BY <1>6, <1>1 DEF Commit, TypeOK
  <2> QED  BY <1>6, <2>1, CloseType DEF Commit, TypeOK
<1>7. CASE Fail(r)
  BY <1>7, RollbackType DEF Fail
<1> QED  BY <1>2, <1>3, <1>4, <1>5, <1>6, <1>7 DEF Statement

LEMMA TypeInductive ==
  ASSUME TypeOK, [Next]_vars
  PROVE  TypeOK'
<1>1. CASE UNCHANGED vars
  BY <1>1 DEF vars, TypeOK
<1>2. CASE Next
  <2>1. PICK r \in Requests : Arrive(r) \/ Statement(r)
    BY <1>2, NextIsAStep
  <2>2. CASE Arrive(r)
    <3>1. PICK caller \in Row \cup {Absent}, a \in Args, step \in {"count", "write"} :
            Begin(r, caller, step, a)
      BY <2>2, ArriveBegins
    <3> QED  BY <3>1, BeginType
  <2>3. CASE Statement(r)
    BY <2>3, StatementType
  <2> QED  BY <2>1, <2>2, <2>3
<1> QED  BY <1>1, <1>2

\* The accounts are well typed, and no lead is without a team (leadNeedsATeam),
\* whatever the doors do to each other.
THEOREM TypeCorrect == Spec => []TypeOK
<1>1. Init => TypeOK
  BY Defaults, CoordinationAssumption DEF Init, TypeOK, Steps
<1>2. TypeOK /\ [Next]_vars => TypeOK'
  BY TypeInductive
<1> QED  BY <1>1, <1>2, PTL DEF Spec

-----------------------------------------------------------------------------
(***************************************************************************)
(* CountsStand is inductive.  A request is disturbed by nobody else: its   *)
(* local variables are its own, and the rows it has locked do not change.  *)
(***************************************************************************)

\* q's local variables, its locks and the rows under them are as they were.
Undisturbed(q) ==
  /\ pc'[q] = pc[q] /\ me'[q] = me[q] /\ arg'[q] = arg[q]
  /\ count'[q] = count[q] /\ write'[q] = write[q]
  /\ \A a \in Accounts : lock[a] = q => lock'[a] = q /\ account'[a] = account[a]

LEMMA UndisturbedKeeps ==
  ASSUME TypeOK, NEW q \in Requests, Orderly(q), Undisturbed(q)
  PROVE  Orderly(q)'
<1> DEFINE t == arg[q].target
<1>1. t \in Accounts /\ count[q].asked \subseteq Accounts
  BY ArgFields DEF TypeOK, Counts
<1>2. \A a \in count[q].asked \ count[q].left :
        lock[a] = q /\ lock'[a] = q /\ account'[a] = account[a]
  BY <1>1 DEF Orderly, Counted, Undisturbed
<1>3. Counted(q)'
  <2>1. {a \in count[q].asked \ count[q].left : Coordinates(account'[a])}
          = {a \in count[q].asked \ count[q].left : Coordinates(account[a])}
    BY <1>2
  <2>2. Counted(q)
    BY DEF Orderly
  <2> QED  BY <1>2, <2>1, <2>2 DEF Undisturbed, Counted, Coordinates
<1>4. (pc[q] # "idle" => Allowed(q))'
  <2>1. Allowed(q)' <=> Allowed(q)
    BY DEF Allowed, Undisturbed
  <2> QED  BY <2>1 DEF Orderly, Undisturbed
<1>5. MustCount(q)' <=> MustCount(q)
  BY DEF MustCount, Undisturbed
<1>6. ASSUME pc[q] \in {"check", "commit"}
      PROVE  Written(q, account[arg[q].target])' = Written(q, account[arg[q].target])
  <2>1. account'[t] = account[t]
    BY <1>1, <1>6 DEF Orderly, Undisturbed
  <2>2. arg'[q] = arg[q] /\ me'[q] = me[q]
    BY DEF Undisturbed
  <2> QED  BY <2>1, <2>2 DEF Written, Reaches
<1>7. (pc[q] \in {"check", "commit"} =>
         /\ lock[arg[q].target] = q
         /\ write[q] # Absent /\ write[q] = Written(q, account[arg[q].target]))'
  <2> SUFFICES ASSUME pc[q] \in {"check", "commit"}
               PROVE  (/\ lock[arg[q].target] = q
                       /\ write[q] # Absent
                       /\ write[q] = Written(q, account[arg[q].target]))'
    BY DEF Undisturbed
  <2>1. lock[t] = q /\ write[q] # Absent /\ write[q] = Written(q, account[arg[q].target])
    BY DEF Orderly
  <2>2. lock'[t] = q /\ arg'[q] = arg[q] /\ write'[q] = write[q]
    BY <1>1, <2>1 DEF Undisturbed
  <2> QED  BY <1>6, <2>1, <2>2
<1> QED  BY <1>3, <1>4, <1>5, <1>7 DEF Orderly, Undisturbed

\* Whatever a request does, it leaves the others undisturbed.
LEMMA CloseSparesOthers ==
  ASSUME TypeOK, NEW r \in Requests, Close(r), NEW q \in Requests \ {r}
  PROVE  /\ pc'[q] = pc[q] /\ me'[q] = me[q] /\ arg'[q] = arg[q]
         /\ count'[q] = count[q] /\ write'[q] = write[q]
         /\ \A a \in Accounts : lock[a] = q => lock'[a] = q
BY DEF TypeOK, Close, Goto

LEMMA RollbackSparesOthers ==
  ASSUME TypeOK, NEW r \in Requests, Rollback(r), NEW q \in Requests \ {r}
  PROVE  Undisturbed(q)
BY CloseSparesOthers DEF Rollback, Undisturbed

LEMMA LockSparesOthers ==
  ASSUME TypeOK, NEW r \in Requests, NEW a \in Accounts, Lockable(r, a), TakeLock(r, a),
         NEW q \in Requests \ {r}
  PROVE  \A b \in Accounts : lock[b] = q => lock'[b] = q
BY CoordinationAssumption DEF TypeOK, Lockable, TakeLock

LEMMA SparesOthers ==
  ASSUME TypeOK, NEW r \in Requests, Orderly(r), Arrive(r) \/ Statement(r),
         NEW q \in Requests \ {r}
  PROVE  Undisturbed(q)
<1> DEFINE t == arg[r].target
<1>1. t \in Accounts
  BY ArgFields
<1>2. CASE Arrive(r)
  <2>1. PICK caller \in Row \cup {Absent}, a \in Args, step \in {"count", "write"} :
          Begin(r, caller, step, a)
    BY <1>2, ArriveBegins
  <2> QED  BY <2>1 DEF Begin, Goto, Undisturbed, TypeOK
<1>3. CASE Count(r)
  BY <1>3 DEF Count, Goto, Undisturbed, TypeOK
<1>4. CASE LockNext(r)
  <2>1. CASE Rollback(r)
    BY <2>1, RollbackSparesOthers
  <2>2. CASE ~Rollback(r)
    <3>1. PICK a \in count[r].left, c \in Counts : LockedNext(r, a, c)
      BY <1>4, <2>2, LockNextStep
    <3>2. a \in Accounts
      BY DEF TypeOK, Counts
    <3>3. \A b \in Accounts : lock[b] = q => lock'[b] = q
      BY <3>1, <3>2, LockSparesOthers DEF LockedNext
    <3> QED  BY <3>1, <3>3 DEF LockedNext, Goto, Undisturbed, TypeOK
  <2> QED  BY <2>1, <2>2
<1>5. CASE Write(r)
  <2>1. CASE Rollback(r)
    BY <2>1, RollbackSparesOthers
  <2>2. CASE ~Rollback(r)
    <3>1. /\ Lockable(r, t) /\ TakeLock(r, t)
          /\ write' = [write EXCEPT ![r] = Written(r, account[t])]
          /\ Goto(r, IF arg[r].route = "seed" THEN "check" ELSE "commit")
          /\ UNCHANGED <<account, me, arg, count, begun>>
      BY <1>5, <2>2 DEF Write
    <3>2. \A b \in Accounts : lock[b] = q => lock'[b] = q
      BY <3>1, <1>1, LockSparesOthers
    <3> QED  BY <3>1, <3>2 DEF Goto, Undisturbed, TypeOK
  <2> QED  BY <2>1, <2>2
<1>6. CASE Check(r)
  <2>1. CASE Rollback(r)
    BY <2>1, RollbackSparesOthers
  <2>2. CASE ~Rollback(r)
    BY <1>6, <2>2 DEF Check, Goto, Undisturbed, TypeOK
  <2> QED  BY <2>1, <2>2
<1>7. CASE Commit(r)
  <2>1. lock[t] = r
    BY <1>7 DEF Commit, Orderly
  <2>2. \A a \in Accounts \ {t} : account'[a] = account[a]
    BY <1>7, <1>1 DEF Commit, TypeOK
  <2>3. \A a \in Accounts : lock[a] = q => account'[a] = account[a]
    BY <2>1, <2>2
  <2> QED  BY <1>7, <2>3, CloseSparesOthers DEF Commit, Undisturbed
<1>8. CASE Fail(r)
  BY <1>8, RollbackSparesOthers DEF Fail
<1> QED  BY <1>2, <1>3, <1>4, <1>5, <1>6, <1>7, <1>8 DEF Statement

-----------------------------------------------------------------------------
\* And each step leaves its own request in order.

LEMMA ClosedIsOrderly ==
  ASSUME TypeOK, NEW r \in Requests, Close(r)
  PROVE  Orderly(r)'
<1>1. pc'[r] = "idle" /\ count'[r] = NoCount
  BY DEF Close, Goto, TypeOK
<1>2. Counted(r)'
  BY <1>1 DEF Counted, NoCount
<1>3. count'[r].left = {}
  BY <1>1 DEF NoCount
<1> QED  BY <1>1, <1>2, <1>3 DEF Orderly

LEMMA ArrivesOrderly ==
  ASSUME TypeOK, NEW r \in Requests, Orderly(r), Arrive(r)
  PROVE  Orderly(r)'
<1>1. PICK caller \in Row \cup {Absent}, a \in Args, step \in {"count", "write"} :
        /\ Begin(r, caller, step, a) /\ AllowedFor(a, caller)
        /\ step = "write" =>
             ~(\/ a.route = "role" /\ a.role # "coordination"
               \/ a.route = "toggle" /\ caller.role = "coordination")
  BY ArriveBegins
<1>2. /\ pc'[r] = step /\ me'[r] = caller /\ arg'[r] = a
      /\ count'[r] = count[r] /\ count[r] = NoCount
  BY <1>1 DEF Begin, Goto, TypeOK, Orderly
<1>3. Counted(r)' /\ count'[r].left = {}
  BY <1>2 DEF Counted, NoCount
<1>4. Allowed(r)'
  BY <1>1, <1>2 DEF Allowed, AllowedFor
<1>5. pc'[r] = "write" => ~MustCount(r)'
  BY <1>1, <1>2 DEF MustCount
<1>6. pc'[r] \in {"count", "write"}
  BY <1>2
<1> QED  BY <1>2, <1>3, <1>4, <1>5, <1>6 DEF Orderly

LEMMA CountIsOrderly ==
  ASSUME TypeOK, NEW r \in Requests, Orderly(r), Count(r)
  PROVE  Orderly(r)'
<1> DEFINE snapshot == {a \in Accounts : Coordinates(account[a])}
<1>1. /\ count'[r] = [asked |-> snapshot, left |-> snapshot, kept |-> {}]
      /\ pc'[r] = IF snapshot = {} THEN "write" ELSE "lock"
      /\ me'[r] = me[r] /\ arg'[r] = arg[r]
  BY DEF Count, Goto, TypeOK
<1>2. Allowed(r)
  BY DEF Count, Orderly
<1>3. Allowed(r)'
  BY <1>1, <1>2 DEF Allowed
<1> HIDE DEF snapshot
<1>4. Counted(r)'
  BY <1>1 DEF Counted
<1> QED  BY <1>1, <1>3, <1>4 DEF Orderly

LEMMA LockNextIsOrderly ==
  ASSUME TypeOK, NEW r \in Requests, Orderly(r), NEW a \in count[r].left, NEW c \in Counts,
         LockedNext(r, a, c)
  PROVE  Orderly(r)'
<1>1. /\ count'[r] = c /\ me'[r] = me[r] /\ arg'[r] = arg[r] /\ account' = account
      /\ pc'[r] = IF c.left = {} THEN "write" ELSE "lock"
  BY DEF LockedNext, Goto, TypeOK
<1>2. count[r].asked \subseteq Accounts /\ a \in Accounts /\ Counted(r)
  BY DEF TypeOK, Counts, Orderly
<1>3. c.asked \ c.left = (count[r].asked \ count[r].left) \cup {a}
  BY <1>2 DEF LockedNext, Counted
<1>4. \A b \in c.asked \ c.left : lock'[b] = r
  BY <1>2, <1>3 DEF LockedNext, TakeLock, TypeOK, Counted
<1>5. c.kept = {b \in c.asked \ c.left : Coordinates(account[b])}
  BY <1>2, <1>3 DEF LockedNext, Counted
<1>6. Counted(r)'
  <2>1. c.left \subseteq c.asked
    BY <1>2 DEF LockedNext, Counted
  <2> QED  BY <1>1, <1>4, <1>5, <2>1 DEF Counted, Coordinates
<1>7. Allowed(r)'
  <2>1. Allowed(r)
    BY DEF LockedNext, Orderly
  <2> QED  BY <1>1, <2>1 DEF Allowed
<1>8. pc'[r] = "write" => c.left = {} /\ c.kept # {arg[r].target}
  BY <1>1 DEF LockedNext
<1>9. pc'[r] \in {"lock", "write"}
  BY <1>1
<1> QED  BY <1>1, <1>6, <1>7, <1>8, <1>9 DEF Orderly

LEMMA WriteIsOrderly ==
  ASSUME TypeOK, NEW r \in Requests, Orderly(r), Write(r), ~Rollback(r)
  PROVE  Orderly(r)'
<1> DEFINE t == arg[r].target
<1>1. /\ pc[r] = "write" /\ Written(r, account[t]) # Absent
      /\ Lockable(r, t) /\ TakeLock(r, t)
      /\ write' = [write EXCEPT ![r] = Written(r, account[t])]
      /\ Goto(r, IF arg[r].route = "seed" THEN "check" ELSE "commit")
      /\ UNCHANGED <<account, me, arg, count, begun>>
  BY DEF Write
<1>2. t \in Accounts /\ count[r].asked \subseteq Accounts
  BY ArgFields DEF TypeOK, Counts
<1>3. /\ pc'[r] \in {"check", "commit"} /\ write'[r] = Written(r, account[t])
      /\ lock'[t] = r /\ \A a \in Accounts : lock[a] = r => lock'[a] = r
  BY <1>1, <1>2 DEF Goto, TakeLock, TypeOK
<1>4. Counted(r)'
  <2>1. Counted(r)
    BY DEF Orderly
  <2>2. \A a \in count[r].asked \ count[r].left : lock'[a] = r
    BY <1>2, <1>3, <2>1 DEF Counted
  <2> QED  BY <1>1, <2>1, <2>2 DEF Counted, Coordinates
<1>5. Allowed(r)'
  <2>1. Allowed(r)
    BY <1>1 DEF Orderly
  <2> QED  BY <1>1, <2>1 DEF Allowed
<1>6. Written(r, account[t])' = Written(r, account[t])
  BY <1>1 DEF Written, Reaches
<1>7. (MustCount(r)' => count'[r].kept # {arg'[r].target}) /\ count'[r].left = {}
  <2>1. (MustCount(r) => count[r].kept # {t}) /\ count[r].left = {}
    BY <1>1 DEF Orderly
  <2> QED  BY <1>1, <2>1 DEF MustCount
<1> QED  BY <1>1, <1>3, <1>4, <1>5, <1>6, <1>7 DEF Orderly

LEMMA CheckIsOrderly ==
  ASSUME TypeOK, NEW r \in Requests, Orderly(r), Check(r), ~Rollback(r)
  PROVE  Orderly(r)'
<1>1. /\ pc[r] = "check" /\ pc'[r] = "commit"
      /\ UNCHANGED <<account, lock, me, arg, count, write, begun>>
  BY DEF Check, Goto, TypeOK
<1>2. Counted(r)'
  BY <1>1 DEF Orderly, Counted, Coordinates
<1>3. Allowed(r)'
  <2>1. Allowed(r)
    BY <1>1 DEF Orderly
  <2> QED  BY <1>1, <2>1 DEF Allowed
<1>4. Written(r, account[arg[r].target])' = Written(r, account[arg[r].target])
  BY <1>1 DEF Written, Reaches
<1>5. MustCount(r)' <=> MustCount(r)
  BY <1>1 DEF MustCount
<1> QED  BY <1>1, <1>2, <1>3, <1>4, <1>5 DEF Orderly

LEMMA StatementIsOrderly ==
  ASSUME TypeOK, NEW r \in Requests, Orderly(r), Statement(r)
  PROVE  Orderly(r)'
<1>1. CASE Rollback(r)
  BY <1>1, ClosedIsOrderly DEF Rollback
<1>2. CASE ~Rollback(r)
  <2>1. CASE LockNext(r)
    BY <1>2, <2>1, LockNextStep, LockNextIsOrderly
  <2>2. CASE Commit(r)
    BY <2>2, ClosedIsOrderly DEF Commit
  <2> QED  BY <1>2, <2>1, <2>2, CountIsOrderly, WriteIsOrderly, CheckIsOrderly DEF Statement, Fail
<1> QED  BY <1>1, <1>2

LEMMA CountsInductive ==
  ASSUME CountsStand, [Next]_vars
  PROVE  CountsStand'
<1> USE DEF CountsStand
<1>1. TypeOK'
  BY TypeInductive
<1>2. CASE UNCHANGED vars
  <2>1. \A q \in Requests : Undisturbed(q)
    BY <1>2 DEF vars, Undisturbed
  <2> QED  BY <1>1, <2>1, UndisturbedKeeps
<1>3. CASE Next
  <2>1. PICK r \in Requests : Arrive(r) \/ Statement(r)
    BY <1>3, NextIsAStep
  <2>2. Orderly(r)'
    BY <2>1, ArrivesOrderly, StatementIsOrderly
  <2>3. \A q \in Requests \ {r} : Orderly(q)'
    BY <2>1, SparesOthers, UndisturbedKeeps
  <2> QED  BY <1>1, <2>2, <2>3
<1> QED  BY <1>2, <1>3

LEMMA InitIsOrderly == Init => CountsStand
<1> SUFFICES ASSUME Init PROVE CountsStand
  OBVIOUS
<1>1. TypeOK
  BY Defaults, CoordinationAssumption DEF Init, TypeOK, Steps
<1>2. ASSUME NEW r \in Requests PROVE Orderly(r)
  <2>1. pc[r] = "idle" /\ count[r] = NoCount
    BY DEF Init
  <2>2. Counted(r) /\ count[r].left = {}
    BY <2>1 DEF Counted, NoCount
  <2> QED  BY <2>1, <2>2 DEF Orderly
<1> QED  BY <1>1, <1>2 DEF CountsStand

\* What a request has counted, locked and read of its caller still stands at
\* each of its statements (soleActiveCoordinator, then the UPDATE).
THEOREM CountsAlwaysStand == Spec => []CountsStand
BY InitIsOrderly, CountsInductive, PTL DEF Spec

-----------------------------------------------------------------------------
(***************************************************************************)
(* What the commits may do to the accounts.                                *)
(***************************************************************************)

\* The accounts change by commits only.
LEMMA OnlyCommitsWrite ==
  ASSUME TypeOK, [Next]_vars
  PROVE  account' = account \/ \E r \in Requests : Commit(r)
<1>1. CASE UNCHANGED vars
  BY <1>1 DEF vars
<1>2. CASE Next
  <2>1. PICK r \in Requests : Arrive(r) \/ Statement(r)
    BY <1>2, NextIsAStep
  <2>2. CASE Arrive(r)
    BY <2>2, ArriveBegins DEF Begin
  <2>3. CASE Statement(r)
    BY <2>3 DEF Statement, Count, LockNext, Write, Check, Fail, Rollback
  <2> QED  BY <2>1, <2>2, <2>3
<1> QED  BY <1>1, <1>2

\* A commit writes what its route makes of the row as it is at that moment.
LEMMA CommitWrites ==
  ASSUME CountsStand, NEW r \in Requests, Commit(r)
  PROVE  /\ pc[r] = "commit" /\ arg[r].target \in Accounts
         /\ account'[arg[r].target] = write[r]
         /\ \A a \in Accounts \ {arg[r].target} : account'[a] = account[a]
         /\ write[r] # Absent /\ write[r] = Written(r, account[arg[r].target])
         /\ Counted(r) /\ Allowed(r) /\ count[r].left = {}
         /\ MustCount(r) => count[r].kept # {arg[r].target}
<1>1. TypeOK /\ Orderly(r) /\ pc[r] = "commit"
  BY DEF CountsStand, Commit
<1>2. arg[r].target \in Accounts
  BY <1>1, ArgFields
<1>3. account' = [account EXCEPT ![arg[r].target] = write[r]]
  BY DEF Commit
<1> QED  BY <1>1, <1>2, <1>3 DEF Orderly, TypeOK

\* The routes that write an account that exists, and what they write on it.
LEMMA WrittenOver ==
  ASSUME TypeOK, NEW r \in Requests, NEW row \in Row, Written(r, row) # Absent
  PROVE  \/ arg[r].route = "seed" /\ Written(r, row) = [row EXCEPT !.role = "coordination"]
         \/ /\ arg[r].route = "toggle" /\ Reaches(r, row)
            /\ Written(r, row) = [row EXCEPT !.active = ~@]
         \/ /\ arg[r].route = "role"
            /\ Written(r, row) = [row EXCEPT !.role = arg[r].role, !.team = arg[r].team]
<1>1. row # Absent
  BY CoordinationAssumption
<1>2. CASE arg[r].route \in {"create", "grant"}
  BY <1>1, <1>2 DEF Written
<1>3. CASE arg[r].route = "seed"
  BY <1>1, <1>3 DEF Written
<1>4. CASE arg[r].route = "toggle"
  BY <1>1, <1>4 DEF Written
<1>5. CASE arg[r].route = "role"
  BY <1>1, <1>5 DEF Written
<1> QED  BY <1>2, <1>3, <1>4, <1>5, ArgFields DEF Routes

\* The last coordinator leaves only through a request whose list of
\* coordinators was taken before they were on it (soleActiveCoordinator): the
\* counted rows are locked, so a kept list of one is the target's refusal.
THEOREM LastLeavesUncounted == Spec => TheLastLeavesOnlyUncounted
<1> DEFINE Leaves ==
      SomebodyCoordinates /\ ~SomebodyCoordinates' =>
        \E r \in Requests :
          /\ pc[r] = "commit" /\ Coordinates(account[arg[r].target])
          /\ arg[r].target \notin count[r].asked
<1>1. CountsStand /\ [Next]_vars => Leaves
  <2> SUFFICES ASSUME CountsStand, [Next]_vars, SomebodyCoordinates, ~SomebodyCoordinates'
               PROVE  \E r \in Requests :
                        /\ pc[r] = "commit" /\ Coordinates(account[arg[r].target])
                        /\ arg[r].target \notin count[r].asked
    OBVIOUS
  <2>1. TypeOK
    BY DEF CountsStand
  <2>2. account' # account
    BY DEF SomebodyCoordinates, Coordinates
  <2>3. PICK r \in Requests : Commit(r)
    BY <2>1, <2>2, OnlyCommitsWrite
  <2> DEFINE t == arg[r].target
             old == account[t]
  <2>4. /\ pc[r] = "commit" /\ t \in Accounts /\ account'[t] = write[r]
        /\ \A a \in Accounts \ {t} : account'[a] = account[a]
        /\ write[r] # Absent /\ write[r] = Written(r, old)
        /\ Counted(r) /\ Allowed(r) /\ count[r].left = {}
        /\ MustCount(r) => count[r].kept # {t}
    BY <2>3, CommitWrites
  <2>5. \A a \in Accounts : ~Coordinates(account'[a])
    BY DEF SomebodyCoordinates, Coordinates
  <2>6. \A a \in Accounts \ {t} : ~Coordinates(account[a])
    BY <2>4, <2>5
  <2>7. Coordinates(old) /\ old \in Row /\ old.role = "coordination" /\ old.active
    BY <2>1, <2>4, <2>6 DEF SomebodyCoordinates, Coordinates, TypeOK
  <2>8. ~Coordinates(Written(r, old))
    BY <2>4, <2>5
  <2>9. MustCount(r)
    <3>1. \/ arg[r].route = "seed" /\ Written(r, old) = [old EXCEPT !.role = "coordination"]
          \/ /\ arg[r].route = "toggle" /\ Reaches(r, old)
          \/ /\ arg[r].route = "role"
             /\ Written(r, old) = [old EXCEPT !.role = arg[r].role, !.team = arg[r].team]
      BY <2>1, <2>4, <2>7, WrittenOver
    <3>2. CASE arg[r].route = "seed" /\ Written(r, old) = [old EXCEPT !.role = "coordination"]
      BY <2>4, <2>7, <2>8, <3>2 DEF Coordinates, Row
    <3>3. CASE arg[r].route = "toggle" /\ Reaches(r, old)
      BY <2>7, <3>3 DEF Reaches, MustCount
    <3>4. CASE /\ arg[r].route = "role"
               /\ Written(r, old) = [old EXCEPT !.role = arg[r].role, !.team = arg[r].team]
      <4>1. CASE arg[r].role = "coordination"
        BY <2>4, <2>7, <2>8, <3>4, <4>1 DEF Coordinates, Row
      <4>2. CASE arg[r].role # "coordination"
        BY <3>4, <4>2 DEF MustCount
      <4> QED  BY <4>1, <4>2
    <3> QED  BY <3>1, <3>2, <3>3, <3>4
  <2>10. ASSUME t \in count[r].asked
         PROVE  FALSE
    <3>1. count[r].kept = {a \in count[r].asked : Coordinates(account[a])}
      BY <2>4 DEF Counted
    <3>2. count[r].asked \subseteq Accounts
      BY <2>1 DEF TypeOK, Counts
    <3>3. count[r].kept = {t}
      BY <2>6, <2>7, <2>10, <3>1, <3>2
    <3> QED  BY <2>4, <2>9, <3>3
  <2> QED  BY <2>4, <2>7, <2>10
<1>2. Spec => []CountsStand
  BY CountsAlwaysStand
<1> QED  BY <1>1, <1>2, PTL DEF Spec, TheLastLeavesOnlyUncounted

\* A lead changes nobody but a volunteer of their team, as that account stands
\* when the change commits (the filter of routeToggleAccount).
THEOREM LeadsStayInTheirTeam == Spec => LeadsReachTheirVolunteers
<1> DEFINE Reached ==
      \A a \in Accounts :
        account[a] # Absent /\ account'[a] # account[a] =>
          \E r \in Requests :
            /\ pc[r] = "commit" /\ arg[r].target = a
            /\ \/ arg[r].route = "seed" \/ me[r].role = "coordination"
               \/ account[a].role = "volunteer" /\ account[a].team = me[r].team
<1>1. CountsStand /\ [Next]_vars => Reached
  <2> SUFFICES ASSUME CountsStand, [Next]_vars, NEW a \in Accounts,
                      account[a] # Absent, account'[a] # account[a]
               PROVE  \E r \in Requests :
                        /\ pc[r] = "commit" /\ arg[r].target = a
                        /\ \/ arg[r].route = "seed" \/ me[r].role = "coordination"
                           \/ account[a].role = "volunteer" /\ account[a].team = me[r].team
    OBVIOUS
  <2>1. TypeOK /\ account[a] \in Row
    BY DEF CountsStand, TypeOK
  <2>2. PICK r \in Requests : Commit(r)
    BY <2>1, OnlyCommitsWrite
  <2>3. /\ pc[r] = "commit" /\ arg[r].target = a /\ Allowed(r)
        /\ Written(r, account[a]) # Absent
    BY <2>2, CommitWrites
  <2>4. \/ arg[r].route = "seed"
        \/ arg[r].route = "toggle" /\ Reaches(r, account[a])
        \/ arg[r].route = "role"
    BY <2>1, <2>3, WrittenOver
  <2>5. arg[r].route = "role" => me[r].role = "coordination"
    BY <2>3 DEF Allowed
  <2> QED  BY <2>3, <2>4, <2>5 DEF Reaches
<1>2. Spec => []CountsStand
  BY CountsAlwaysStand
<1> QED  BY <1>1, <1>2, PTL DEF Spec, LeadsReachTheirVolunteers

\* Nobody comes to coordinate but by a coordinator, the instance's grant of a
\* new address, or the seeding of an account that was not closed.
THEOREM CoordinationIsAlwaysGiven == Spec => CoordinationIsGiven
<1> DEFINE Given ==
      \A a \in Accounts :
        Coordinates(account'[a]) /\ ~Coordinates(account[a]) =>
          \E r \in Requests :
            /\ pc[r] = "commit" /\ arg[r].target = a
            /\ \/ me[r] # Absent /\ me[r].role = "coordination"
               \/ arg[r].route = "grant" /\ account[a] = Absent
               \/ arg[r].route = "seed" /\ (account[a] # Absent => account[a].active)
<1>1. CountsStand /\ [Next]_vars => Given
  <2> SUFFICES ASSUME CountsStand, [Next]_vars, NEW a \in Accounts,
                      Coordinates(account'[a]), ~Coordinates(account[a])
               PROVE  \E r \in Requests :
                        /\ pc[r] = "commit" /\ arg[r].target = a
                        /\ \/ me[r] # Absent /\ me[r].role = "coordination"
                           \/ arg[r].route = "grant" /\ account[a] = Absent
                           \/ arg[r].route = "seed" /\ (account[a] # Absent => account[a].active)
    OBVIOUS
  <2>1. TypeOK /\ account[a] \in Row \cup {Absent}
    BY DEF CountsStand, TypeOK
  <2>2. PICK r \in Requests : Commit(r)
    BY <2>1, OnlyCommitsWrite DEF Coordinates
  <2>3. /\ pc[r] = "commit" /\ arg[r].target = a /\ Allowed(r)
        /\ Written(r, account[a]) # Absent /\ account'[a] = Written(r, account[a])
    BY <2>2, CommitWrites DEF Coordinates
  <2>4. CASE account[a] = Absent
    <3>1. arg[r].route \in {"create", "grant", "seed"}
      BY <2>1, <2>3, <2>4, ArgFields DEF Written, Reaches, Routes
    <3>2. CASE arg[r].route = "create"
      <4>1. Written(r, account[a]).role = arg[r].role
        BY <2>4, <3>2 DEF Written
      <4>2. me[r] # Absent /\ (me[r].role = "coordination" \/ arg[r].role = "volunteer")
        BY <2>3, <3>2 DEF Allowed
      <4> QED  BY <2>3, <4>1, <4>2 DEF Coordinates
    <3>3. CASE arg[r].route = "grant"
      BY <2>3, <2>4, <3>3
    <3>4. CASE arg[r].route = "seed"
      BY <2>3, <2>4, <3>4
    <3> QED  BY <3>1, <3>2, <3>3, <3>4
  <2>5. CASE account[a] # Absent
    <3> DEFINE old == account[a]
    <3>1. old \in Row
      BY <2>1, <2>5
    <3>2. \/ arg[r].route = "seed" /\ Written(r, old) = [old EXCEPT !.role = "coordination"]
          \/ /\ arg[r].route = "toggle" /\ Reaches(r, old)
             /\ Written(r, old) = [old EXCEPT !.active = ~@]
          \/ arg[r].route = "role"
      BY <2>1, <2>3, <3>1, WrittenOver
    <3>3. CASE arg[r].route = "seed" /\ Written(r, old) = [old EXCEPT !.role = "coordination"]
      <4>1. old.active
        BY <2>3, <3>1, <3>3 DEF Coordinates, Row
      <4> QED  BY <2>3, <3>3, <4>1
    <3>4. CASE /\ arg[r].route = "toggle" /\ Reaches(r, old)
               /\ Written(r, old) = [old EXCEPT !.active = ~@]
      <4>1. old.role = "coordination"
        BY <2>3, <3>1, <3>4 DEF Coordinates, Row
      <4>2. me[r] # Absent /\ me[r].role = "coordination"
        BY <2>3, <3>4, <4>1 DEF Reaches, Allowed
      <4> QED  BY <2>3, <4>2
    <3>5. CASE arg[r].route = "role"
      <4>1. me[r] # Absent /\ me[r].role = "coordination"
        BY <2>3, <3>5 DEF Allowed
      <4> QED  BY <2>3, <4>1
    <3> QED  BY <3>2, <3>3, <3>4, <3>5
  <2> QED  BY <2>4, <2>5
<1>2. Spec => []CountsStand
  BY CountsAlwaysStand
<1> QED  BY <1>1, <1>2, PTL DEF Spec, CoordinationIsGiven
=============================================================================
