---------------------------- MODULE Coordination ----------------------------
(***************************************************************************)
(* Who runs a campaign: the roles, teams and activity of its accounts, as  *)
(* the doors that write them race each other (api/routes_team.go, the      *)
(* grant of api/routes_instance.go, the seeding of api/bootstrap.go).      *)
(*                                                                         *)
(* As in Cards a request is one transaction at READ COMMITTED, one step    *)
(* per statement.  SELECT ... FOR UPDATE takes its list of rows from the   *)
(* snapshot of its start, then locks them one by one and keeps those that  *)
(* still qualify.                                                          *)
(*                                                                         *)
(* Abstracted: names, addresses, passwords and invitations; the teams are  *)
(* there from the start; a team request that is accepted opens its lead's  *)
(* account as routeCreateAccount does.                                     *)
(***************************************************************************)
EXTENDS FiniteSets, Naturals

CONSTANTS
  Accounts,     \* the addresses an account can be opened for
  Founders,     \* those that coordinate the campaign at the start
  Seeded,       \* the PARAPHE_ADMIN_EMAIL of the bootstrap campaign
  Teams,        \* the local teams
  NoTeam,       \* a NULL team_id
  Absent,       \* an address with no account
  Requests,     \* the transactions in flight at once
  NoRequest,    \* nobody holds the row lock
  Doors,        \* bound: the doors the instance exercises
  RolesGiven,   \* bound: the roles that are asked for
  MaxRequests   \* bound: the requests ever begun

Roles == {"volunteer", "lead", "coordination"}

Routes == {"create", "grant", "toggle", "role", "seed"}

\* A lead conducts a team (leadNeedsATeam).
Row == {row \in [role : Roles, team : Teams \cup {NoTeam}, active : BOOLEAN] :
          row.role = "lead" => row.team \in Teams}

ASSUME CoordinationAssumption ==
  /\ Founders \subseteq Accounts /\ Founders # {}
  /\ Seeded \in Accounts
  /\ Absent \notin Row
  /\ NoTeam \notin Teams
  /\ NoRequest \notin Requests
  /\ RolesGiven \subseteq Roles
  /\ MaxRequests \in Nat

VARIABLES
  account,  \* the committed rows of accounts
  lock,     \* which request holds the row lock of each
  pc,       \* the statement each request is about to send
  me,       \* the caller's row as signedIn read it
  arg,      \* what each request asks for
  count,    \* soleActiveCoordinator's rows: of its snapshot, still to lock, kept
  write,    \* the row each request has written and not committed
  begun     \* how many requests were begun

vars == <<account, lock, pc, me, arg, count, write, begun>>

Args == {a \in [route : Routes, target : Accounts, role : Roles, team : Teams \cup {NoTeam}] :
           a.role = "lead" => a.team \in Teams}

Counts == [asked : SUBSET Accounts, left : SUBSET Accounts, kept : SUBSET Accounts]

Steps == {"idle", "count", "lock", "write", "check", "commit"}

Coordinator == [role |-> "coordination", team |-> NoTeam, active |-> TRUE]

NoArg == [route |-> "toggle", target |-> Seeded, role |-> "volunteer", team |-> NoTeam]

NoCount == [asked |-> {}, left |-> {}, kept |-> {}]

Init ==
  /\ account = [a \in Accounts |-> IF a \in Founders THEN Coordinator ELSE Absent]
  /\ lock = [a \in Accounts |-> NoRequest]
  /\ pc = [r \in Requests |-> "idle"]
  /\ me = [r \in Requests |-> Absent]
  /\ arg = [r \in Requests |-> NoArg]
  /\ count = [r \in Requests |-> NoCount]
  /\ write = [r \in Requests |-> Absent]
  /\ begun = 0

-----------------------------------------------------------------------------
\* Coordinates and can sign in: what soleActiveCoordinator counts.
Coordinates(row) == row # Absent /\ row.role = "coordination" /\ row.active

Lockable(r, a) == lock[a] \in {NoRequest, r}

TakeLock(r, a) == lock' = [lock EXCEPT ![a] = r]

Goto(r, step) == pc' = [pc EXCEPT ![r] = step]

Close(r) ==
  /\ Goto(r, "idle")
  /\ me' = [me EXCEPT ![r] = Absent]
  /\ arg' = [arg EXCEPT ![r] = NoArg]
  /\ count' = [count EXCEPT ![r] = NoCount]
  /\ write' = [write EXCEPT ![r] = Absent]
  /\ lock' = [a \in Accounts |-> IF lock[a] = r THEN NoRequest ELSE lock[a]]

\* A refusal, a failure, a deadlock broken: nothing is kept.
Rollback(r) == Close(r) /\ UNCHANGED <<account, begun>>

\* signedIn reads the caller's account once, open at that moment.
Begin(r, caller, step, a) ==
  /\ pc[r] = "idle" /\ begun < MaxRequests
  /\ a.route \in Doors
  /\ begun' = begun + 1
  /\ me' = [me EXCEPT ![r] = caller]
  /\ arg' = [arg EXCEPT ![r] = a]
  /\ Goto(r, step)
  /\ UNCHANGED <<account, lock, count, write>>

SignedIn(caller, roles) == caller # Absent /\ caller.active /\ caller.role \in roles

\* A team for a role: none for coordination, one for a lead.
TeamsFor(role) ==
  CASE role = "coordination" -> {NoTeam}
    [] role = "lead" -> Teams
    [] OTHER -> Teams \cup {NoTeam}

-----------------------------------------------------------------------------
\* POST /api/team/account: coordination opens any role; a lead opens
\* volunteers of their own team.
BeginCreate(r) ==
  \E who \in Accounts, target \in Accounts, role \in RolesGiven :
    \E team \in TeamsFor(role) :
      /\ SignedIn(account[who], {"coordination", "lead"})
      /\ account[who].role = "lead" => role = "volunteer" /\ team = account[who].team
      /\ Begin(r, account[who], "write",
               [route |-> "create", target |-> target, role |-> role, team |-> team])

\* POST /api/admin/campaigns/{slug}/coordination, from the instance: a new
\* address, never a promotion.
BeginGrant(r) ==
  \E target \in Accounts :
    Begin(r, Absent, "write", [NoArg EXCEPT !.route = "grant", !.target = target,
                                            !.role = "coordination"])

\* POST /api/team/account/{email}/active: only a coordinator can reach a
\* coordinator, so only theirs asks soleActiveCoordinator first.
BeginToggle(r) ==
  \E who \in Accounts : \E target \in Accounts \ {who} :
    /\ SignedIn(account[who], {"coordination", "lead"})
    /\ Begin(r, account[who],
             IF account[who].role = "coordination" THEN "count" ELSE "write",
             [NoArg EXCEPT !.route = "toggle", !.target = target])

\* POST /api/team/account/{email}/role, coordination only.  A promotion takes
\* nobody out of coordination and asks nothing.
BeginRole(r) ==
  \E who \in Accounts, target \in Accounts, role \in RolesGiven :
    \E team \in TeamsFor(role) :
      /\ SignedIn(account[who], {"coordination"})
      /\ Begin(r, account[who], IF role = "coordination" THEN "write" ELSE "count",
               [route |-> "role", target |-> target, role |-> role, team |-> team])

\* A pod starts with PARAPHE_ADMIN_EMAIL and PARAPHE_ADMIN_PASSWORD set.
BeginSeed(r) ==
  Begin(r, Absent, "write", [NoArg EXCEPT !.route = "seed", !.role = "coordination"])

-----------------------------------------------------------------------------
\* soleActiveCoordinator: SELECT ... WHERE role = coordination AND active FOR
\* UPDATE.  The rows to lock are those of its snapshot.
Count(r) ==
  /\ pc[r] = "count"
  /\ LET snapshot == {a \in Accounts : Coordinates(account[a])}
     IN /\ count' = [count EXCEPT ![r] = [asked |-> snapshot, left |-> snapshot, kept |-> {}]]
        /\ Goto(r, IF snapshot = {} THEN "write" ELSE "lock")
  /\ UNCHANGED <<account, lock, me, arg, write, begun>>

\* Bug: the rows are counted as the snapshot had them.
LockNextUnread(r) ==
  /\ pc[r] = "lock"
  /\ \E a \in count[r].left :
       LET left == count[r].left \ {a}
           kept == count[r].kept \cup {a}
       IN /\ Lockable(r, a)
          /\ IF left = {} /\ kept = {arg[r].target}
             THEN Rollback(r)
             ELSE /\ TakeLock(r, a)
                  /\ count' = [count EXCEPT ![r] = [asked |-> @.asked, left |-> left, kept |-> kept]]
                  /\ Goto(r, IF left = {} THEN "write" ELSE "lock")
                  /\ UNCHANGED <<account, me, arg, write, begun>>

\* One row of it, waited for and read again.  After the last, the target being
\* the only one left is the 409.
LockNext(r) ==
  /\ pc[r] = "lock"
  /\ \E a \in count[r].left :
       LET left == count[r].left \ {a}
           kept == count[r].kept \cup (IF Coordinates(account[a]) THEN {a} ELSE {})
       IN /\ Lockable(r, a)
          /\ IF left = {} /\ kept = {arg[r].target}
             THEN Rollback(r)
             ELSE /\ TakeLock(r, a)
                  /\ count' = [count EXCEPT ![r] = [asked |-> @.asked, left |-> left, kept |-> kept]]
                  /\ Goto(r, IF left = {} THEN "write" ELSE "lock")
                  /\ UNCHANGED <<account, me, arg, write, begun>>

\* Bug: a lead's filter names the team and not the role.
ReachesTeam(r, row) ==
  /\ row # Absent
  /\ arg[r].route = "role" \/ me[r].role = "coordination" \/ row.team = me[r].team

\* The WHERE of the UPDATE: a lead reaches the volunteers of their own team.
Reaches(r, row) ==
  /\ row # Absent
  /\ \/ arg[r].route = "role" \/ me[r].role = "coordination"
     \/ row.team = me[r].team /\ row.role = "volunteer"

\* Bug: seeding an account switches it back on.
WrittenReopening(r, row) ==
  CASE arg[r].route \in {"create", "grant"} /\ row = Absent ->
         [role |-> arg[r].role, team |-> arg[r].team, active |-> TRUE]
    [] arg[r].route = "seed" -> Coordinator
    [] arg[r].route = "toggle" /\ Reaches(r, row) -> [row EXCEPT !.active = ~@]
    [] arg[r].route = "role" /\ Reaches(r, row) ->
         [row EXCEPT !.role = arg[r].role, !.team = arg[r].team]
    [] OTHER -> Absent

\* What the statement makes of the row it finds; Absent is no row written: the
\* address is taken (409), or reaches nobody (404).
Written(r, row) ==
  CASE arg[r].route \in {"create", "grant"} /\ row = Absent ->
         [role |-> arg[r].role, team |-> arg[r].team, active |-> TRUE]
    [] arg[r].route = "seed" /\ row = Absent -> Coordinator
    [] arg[r].route = "seed" /\ row # Absent -> [row EXCEPT !.role = "coordination"]
    [] arg[r].route = "toggle" /\ Reaches(r, row) -> [row EXCEPT !.active = ~@]
    [] arg[r].route = "role" /\ Reaches(r, row) ->
         [row EXCEPT !.role = arg[r].role, !.team = arg[r].team]
    [] OTHER -> Absent

\* The INSERT or the UPDATE.  It waits for the row, and evaluates itself on the
\* row as it then is.
Write(r) ==
  LET a == arg[r].target
      row == Written(r, account[a])
  IN /\ pc[r] = "write"
     /\ IF row = Absent
        THEN Rollback(r)
        ELSE /\ Lockable(r, a)
             /\ TakeLock(r, a)
             /\ write' = [write EXCEPT ![r] = row]
             /\ Goto(r, IF arg[r].route = "seed" THEN "check" ELSE "commit")
             /\ UNCHANGED <<account, me, arg, count, begun>>

\* bootstrap refuses to start a campaign nobody can enter.
Check(r) ==
  /\ pc[r] = "check"
  /\ IF Coordinates(write[r]) \/ \E a \in Accounts \ {arg[r].target} : Coordinates(account[a])
     THEN Goto(r, "commit") /\ UNCHANGED <<account, lock, me, arg, count, write, begun>>
     ELSE Rollback(r)

Commit(r) ==
  /\ pc[r] = "commit"
  /\ account' = [account EXCEPT ![arg[r].target] = write[r]]
  /\ Close(r)
  /\ UNCHANGED begun

\* A connection lost, a pod killed, a deadlock broken.
Fail(r) == pc[r] # "idle" /\ Rollback(r)

Next ==
  \E r \in Requests :
    \/ BeginCreate(r) \/ BeginGrant(r) \/ BeginToggle(r) \/ BeginRole(r) \/ BeginSeed(r)
    \/ Count(r) \/ LockNext(r) \/ Write(r) \/ Check(r) \/ Commit(r) \/ Fail(r)

Spec == Init /\ [][Next]_vars

-----------------------------------------------------------------------------
\* The variables hold what their comments say, and a lead has a team.
TypeOK ==
  /\ account \in [Accounts -> Row \cup {Absent}]
  /\ lock \in [Accounts -> Requests \cup {NoRequest}]
  /\ pc \in [Requests -> Steps]
  /\ me \in [Requests -> Row \cup {Absent}]
  /\ arg \in [Requests -> Args]
  /\ count \in [Requests -> Counts]
  /\ write \in [Requests -> Row \cup {Absent}]
  /\ begun \in Nat

\* The two routes that can take a coordinator out « serialise against each
\* other, and the second to arrive re-evaluates on the committed state and is
\* refused » (soleActiveCoordinator): somebody can always run the campaign.
SomebodyCoordinates == \E a \in Accounts : Coordinates(account[a])

\* What the shared lock does keep: the last coordinator leaves only through a
\* request that had taken its list of coordinators before they were on it.
TheLastLeavesOnlyUncounted ==
  [][SomebodyCoordinates /\ ~SomebodyCoordinates' =>
       \E r \in Requests :
         /\ pc[r] = "commit" /\ Coordinates(account[arg[r].target])
         /\ arg[r].target \notin count[r].asked]_vars

\* A lead closes, reopens or renames nobody but a volunteer of the team they
\* were read with, even one promoted or moved while the request waited
\* (the filter of routeToggleAccount).
LeadsReachTheirVolunteers ==
  [][\A a \in Accounts :
       account[a] # Absent /\ account'[a] # account[a] =>
         \E r \in Requests :
           /\ pc[r] = "commit" /\ arg[r].target = a
           /\ \/ arg[r].route = "seed" \/ me[r].role = "coordination"
              \/ account[a].role = "volunteer" /\ account[a].team = me[r].team]_vars

\* Nobody comes to coordinate but by a coordinator's word, a new address the
\* instance grants, or the seeded account; and seeding never reopens a closed
\* account, « the one lever an incident leaves » (seedAccount).
CoordinationIsGiven ==
  [][\A a \in Accounts :
       Coordinates(account'[a]) /\ ~Coordinates(account[a]) =>
         \E r \in Requests :
           /\ pc[r] = "commit" /\ arg[r].target = a
           /\ \/ me[r] # Absent /\ me[r].role = "coordination"
              \/ arg[r].route = "grant" /\ account[a] = Absent
              \/ arg[r].route = "seed" /\ (account[a] # Absent => account[a].active)]_vars

\* « coordination sees the whole campaign: a team on the account would only
\* pretend to bound it » (routeChangeRole, and the same in routeCreateAccount).
CoordinationHasNoTeam ==
  \A a \in Accounts : Coordinates(account[a]) => account[a].team = NoTeam

-----------------------------------------------------------------------------
(***************************************************************************)
(* Why TheLastLeavesOnlyUncounted holds.                                   *)
(***************************************************************************)

\* The rows counted so far are locked, and kept if and only if they coordinate.
Counted(r) ==
  /\ count[r].left \subseteq count[r].asked
  /\ \A a \in count[r].asked \ count[r].left : lock[a] = r
  /\ count[r].kept = {a \in count[r].asked \ count[r].left : Coordinates(account[a])}

\* The requests that ask soleActiveCoordinator.
MustCount(r) ==
  \/ arg[r].route = "role" /\ arg[r].role # "coordination"
  \/ arg[r].route = "toggle" /\ me[r].role = "coordination"

\* What signedIn and the rules of each route required of the caller.
Allowed(r) ==
  CASE arg[r].route = "create" ->
         me[r] # Absent /\ (me[r].role = "coordination" \/ arg[r].role = "volunteer")
    [] arg[r].route = "toggle" -> me[r] # Absent /\ me[r].role \in {"coordination", "lead"}
    [] arg[r].route = "role" -> me[r] # Absent /\ me[r].role = "coordination"
    [] OTHER -> me[r] = Absent

\* Where a request is says what it has counted, locked and written.
Orderly(r) ==
  /\ Counted(r)
  /\ pc[r] # "idle" => Allowed(r)
  /\ pc[r] \notin {"count", "lock"} => count[r].left = {}
  /\ pc[r] \in {"idle", "count"} => count[r] = NoCount
  /\ pc[r] \in {"write", "check", "commit"} /\ MustCount(r) => count[r].kept # {arg[r].target}
  /\ pc[r] \in {"check", "commit"} =>
       /\ lock[arg[r].target] = r
       /\ write[r] # Absent /\ write[r] = Written(r, account[arg[r].target])

\* The invariant: every request's count still stands when it commits.
CountsStand == TypeOK /\ \A r \in Requests : Orderly(r)
=============================================================================
