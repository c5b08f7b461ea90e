----------------------------- MODULE Management -----------------------------
(* The screens that open accesses: the management of a team (TeamAdmin.tsx) and the          *)
(* moderation of an instance (InstanceModeration.tsx), which are built alike. Several flows  *)
(* draw one-time passwords, each under its own guard; each ends on a reload of the whole     *)
(* screen; and the reloads of two flows may land in either order, or not at all.             *)
EXTENDS Naturals, FiniteSets

CONSTANTS Requests, Teams, Nothing,
          MaxCalls      \* how many calls the screen begins

\* Of any instance.
ASSUME ManagementAssumption ==
  /\ Nothing \notin Requests \union Teams
  /\ IsFiniteSet(Requests) /\ MaxCalls \in Nat

VARIABLES
  requests,   \* [Requests -> States]: what the server holds
  data,       \* the same as the screen shows it, or Nothing before the first answer
  verified,   \* the requests whose address was ticked as verified
  held,       \* the submit guards that are taken
  editing,    \* the team whose row is open for correction, or Nothing
  calls,      \* what is out
  begun,      \* how many calls were begun
  created,    \* the cards of the one-time passwords on screen
  unnoted,    \* GHOST: the passwords answered and never noted
  abandoned,  \* GHOST: those of them that were on a screen when it was left, or came after
  raced       \* GHOST: a decision was answered while an older list was still out

ghostVars == <<unnoted, abandoned, raced>>
manageVars == <<requests, data, verified, held, editing, calls, begun, created, ghostVars>>

States == {"pending", "accepted", "refused"}
NoGuard == "no guard"

\* A call and the guard its handler holds until it returns.
Asked(kind, about, guard) ==
  [kind |-> kind, about |-> about, guard |-> guard, number |-> begun + 1, verdict |-> "pending",
   stage |-> "asked", saw |-> Nothing, mine |-> TRUE]

Begins(c) == begun < MaxCalls /\ begun' = begun + 1 /\ calls' = calls \union {c}

----------------------------------------------------------------------------
(* The presses. *)

Mounts ==
  /\ data = Nothing /\ ~\E c \in calls : c.mine
  /\ Begins(Asked("reload", Nothing, NoGuard))
  /\ UNCHANGED <<requests, data, verified, held, editing, created, ghostVars>>

\* « Ouvrir un accès » (or a campaign, or its coordination), « nouveau mot de passe ».
Draws(kind) ==
  /\ data # Nothing /\ kind \notin held
  /\ held' = held \union {kind}
  /\ Begins(Asked(kind, Nothing, kind))
  /\ UNCHANGED <<requests, data, verified, editing, created, ghostVars>>

Ticks(r) ==
  /\ data # Nothing /\ data[r] = "pending"
  /\ verified' = IF r \in verified THEN verified \ {r} ELSE verified \union {r}
  /\ UNCHANGED <<requests, data, held, editing, calls, begun, created, ghostVars>>

Confirmed(r, verdict) == verdict = "accepted" => r \in verified

\* Bug: the guard is asked before the tick is looked at.
GuardTakenFirst(r, verdict) == held \union {"decide"}

\* The tick is looked at BEFORE the guard, which takes itself as a side effect.
GuardAfter(r, verdict) == IF Confirmed(r, verdict) THEN held \union {"decide"} ELSE held

\* One decision at a time in the whole queue; an acceptance only to a verified address.
Decides(r, verdict) ==
  /\ data # Nothing /\ data[r] = "pending" /\ "decide" \notin held
  /\ held' = GuardAfter(r, verdict)
  /\ IF Confirmed(r, verdict)
     THEN Begins([Asked("decide", r, "decide") EXCEPT !.verdict = verdict])
     ELSE UNCHANGED <<calls, begun>>
  /\ UNCHANGED <<requests, data, verified, editing, created, ghostVars>>

\* A toggle, a role, a new team, and the row of a team put right: no guard.
Changes(what) ==
  /\ data # Nothing /\ what \in {Nothing, editing}
  /\ Begins(Asked("change", what, NoGuard))
  /\ UNCHANGED <<requests, data, verified, held, editing, created, ghostVars>>

EditsTeam(t) ==
  /\ data # Nothing /\ t # editing
  /\ editing' = t
  /\ UNCHANGED <<requests, data, verified, held, calls, begun, created, ghostVars>>

\* « j'ai noté »
Notes(card) ==
  /\ created' = created \ {card} /\ unnoted' = unnoted \ {card}
  /\ UNCHANGED <<requests, data, verified, held, editing, calls, begun, abandoned, raced>>

\* Another tab, or a session that ends: everything the screen held goes with it, the passwords
\* nobody noted too.
Leaves ==
  /\ data # Nothing
  /\ data' = Nothing /\ verified' = {} /\ held' = {} /\ editing' = Nothing
  /\ calls' = {[c EXCEPT !.mine = FALSE] : c \in calls}
  /\ created' = {} /\ abandoned' = abandoned \union created /\ raced' = FALSE
  /\ UNCHANGED <<requests, begun, unnoted>>

----------------------------------------------------------------------------
(* The server. *)

ServesCall(c) ==
  /\ c.stage = "asked"
  /\ LET settled == c.kind = "decide" /\ requests[c.about] # "pending"
     IN  calls' = (calls \ {c}) \union
           {[c EXCEPT !.stage = IF settled THEN "refused" ELSE "done",
                      !.saw = IF c.kind = "reload" THEN requests ELSE Nothing]}
  /\ requests' = IF c.kind = "decide" /\ requests[c.about] = "pending"
                 THEN [requests EXCEPT ![c.about] = c.verdict] ELSE requests
  /\ UNCHANGED <<data, verified, held, editing, begun, created, ghostVars>>

\* Refused, or lost on its way: before the server has acted, or after.
CallFails(c) ==
  /\ c.stage # "refused"
  /\ calls' = (calls \ {c}) \union {[c EXCEPT !.stage = "refused"]}
  /\ UNCHANGED <<requests, data, verified, held, editing, begun, created, ghostVars>>

AnotherModerator(r, verdict) ==
  /\ requests[r] = "pending"
  /\ requests' = [requests EXCEPT ![r] = verdict]
  /\ UNCHANGED <<data, verified, held, editing, calls, begun, created, ghostVars>>

----------------------------------------------------------------------------
(* The answers. *)

Card(c) == [of |-> c.about, number |-> c.number]
Opens(c) == c.kind \in {"open", "draw"} \/ (c.kind = "decide" /\ c.verdict = "accepted")

\* The password an answer carries, if it carries one.
Drawn(c) == IF Opens(c) THEN {Card(c)} ELSE {}

\* Bug: a single slot.
ShownLast(c) == IF Opens(c) THEN {Card(c)} ELSE created

\* A LIST, appended to: two flows draw a password, and neither sees the other's guard.
Shown(c) == created \union Drawn(c)

\* The server has answered: the request leaves the pending list here.
Decided(c) == IF c.kind = "decide" THEN [data EXCEPT ![c.about] = c.verdict] ELSE data

ActAnswers(c) ==
  /\ c.stage = "done" /\ c.mine /\ c.kind # "reload"
  /\ created' = Shown(c)
  /\ unnoted' = unnoted \union Drawn(c)
  /\ data' = Decided(c)
  /\ editing' = IF c.about \in Teams THEN Nothing ELSE editing
  /\ raced' = (raced \/ (c.kind = "decide" /\ \E d \in calls : d.mine /\ d.kind = "reload"))
  /\ IF c.kind = "draw"
     THEN calls' = calls \ {c} /\ held' = held \ {c.guard}
     ELSE /\ calls' = (calls \ {c}) \union {[Asked("reload", Nothing, c.guard) EXCEPT !.number = c.number]}
          /\ UNCHANGED held
  /\ UNCHANGED <<requests, verified, begun, abandoned>>

ReloadLands(c) ==
  /\ c.stage = "done" /\ c.mine /\ c.kind = "reload"
  /\ data' = c.saw
  /\ held' = held \ {c.guard}
  /\ calls' = calls \ {c}
  /\ UNCHANGED <<requests, verified, editing, begun, created, ghostVars>>

\* Said, and the guard let go, whatever failed.
Refuses(c) ==
  /\ c.stage = "refused" /\ c.mine
  /\ held' = held \ {c.guard}
  /\ calls' = calls \ {c}
  /\ UNCHANGED <<requests, data, verified, editing, begun, created, ghostVars>>

\* An answer that finds its screen left is shown nowhere, its password neither.
AnswersNoScreen(c) ==
  /\ c.stage # "asked" /\ ~c.mine
  /\ calls' = calls \ {c}
  /\ IF c.stage = "done"
     THEN unnoted' = unnoted \union Drawn(c) /\ abandoned' = abandoned \union Drawn(c)
     ELSE UNCHANGED <<unnoted, abandoned>>
  /\ UNCHANGED <<requests, data, verified, held, editing, begun, created, raced>>

ManageInit ==
  /\ requests = [r \in Requests |-> "pending"]
  /\ data = Nothing /\ verified = {} /\ held = {} /\ editing = Nothing
  /\ calls = {} /\ begun = 0 /\ created = {}
  /\ unnoted = {} /\ abandoned = {} /\ raced = FALSE

ManageNext ==
  \/ Mounts \/ Leaves
  \/ \E kind \in {"open", "draw"} : Draws(kind)
  \/ \E r \in Requests : Ticks(r)
  \/ \E r \in Requests, verdict \in {"accepted", "refused"} :
       Decides(r, verdict) \/ AnotherModerator(r, verdict)
  \/ \E t \in Teams \union {Nothing} : Changes(t) \/ EditsTeam(t)
  \/ \E card \in created : Notes(card)
  \/ \E c \in calls :
       \/ ServesCall(c) \/ CallFails(c)
       \/ ActAnswers(c) \/ ReloadLands(c) \/ Refuses(c) \/ AnswersNoScreen(c)

ManageSpec == ManageInit /\ [][ManageNext]_manageVars

----------------------------------------------------------------------------

\* The password of a request on screen, and the request still waiting.
Contradicted ==
  data # Nothing /\ \E card \in created : card.of \in Requests /\ data[card.of] = "pending"

\* A password is shown once and stored nowhere: each one answered and never noted is still on the
\* screen, whichever flow drew it and whatever the others were doing (TeamAdmin.tsx: « an
\* append cannot lose one »), unless the screen was left with it, or before it came: leaving is
\* the only way to lose one. And the password of an acceptance does not stand beside the very
\* request it answers, even when the reload fails, unless an older list was still out when the
\* decision was answered (onDecided).
PasswordsStandUntilNoted ==
  /\ unnoted \subseteq created \union abandoned
  /\ Contradicted => raced

\* A guard is taken only by a handler that is still running: none is left held, which would
\* swallow « every later decision in the queue » (TeamAdmin.tsx, decide).
NoGuardIsLeftHeld == \A g \in held : \E c \in calls : c.mine /\ c.guard = g

\* The second part, whatever list was still out (TeamAdmin.tsx: « a moderator discards a password that
\* contradicts the screen »).
APasswordContradictsNoRequest == ~Contradicted
=============================================================================
