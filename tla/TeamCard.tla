------------------------------ MODULE TeamCard ------------------------------
(* The card a volunteer has open in team mode: Team.tsx loads it from its address, and      *)
(* three kinds of call may answer with it afterwards, in any order. A card is a snapshot:   *)
(* its mayor and how many writes its history then had.                                      *)
EXTENDS Integers, FiniteSets

CONSTANTS Mayors, None,
          MaxAsked,     \* how far the counter of the screen goes in one behaviour
          MaxProfiles,  \* how many times the account on screen is replaced
          MaxOthers     \* how many writes colleagues make

ASSUME TeamCardAssumption ==
  /\ None \notin Mayors
  /\ MaxAsked \in Nat /\ MaxProfiles \in Nat /\ MaxOthers \in Nat

VARIABLES
  register,   \* [Mayors -> Nat]: the writes the server has committed on each card
  others,     \* how many of them were a colleague's
  me,         \* which object the account on screen is; 0 when nobody is signed in
  address,    \* the mayor the address bar names, or None
  chosen,     \* the snapshot on screen, or Blank
  loading,    \* the mayor the loader was last asked for
  writes,     \* the number of the last question asked
  inFlight,   \* the calls not yet answered to the screen
  known,      \* [Mayors -> Nat]: the newest snapshot a confirmed write answered with
  missed      \* a refusal was said since a card was last shown

cardVars == <<register, others, me, address, chosen, loading, writes, inFlight, known, missed>>

Blank == [mayor |-> None, version |-> 0]
Acts == {"status", "revision"}
\* « Mon profil », and the messages' texts (TeamAdmin): calls that answer with an account.
Forms == {"profile", "texts"}
Unserved == -1
Refused == -2

Call(kind, mayor, number) ==
  [kind |-> kind, mayor |-> mayor, asked |-> number, answer |-> Unserved, alive |-> TRUE]

Later(x, y) == IF x > y THEN x ELSE y

----------------------------------------------------------------------------
(* The effect that follows the account and the address. *)

\* Its cleanup: the load it had begun answers to nobody.
Cleaned(calls) == {[c EXCEPT !.alive = @ /\ c.kind # "load"] : c \in calls}
\* The card is unmounted: what its acts write when they land, they write nowhere.
Unmounted(calls) == {[c EXCEPT !.alive = @ /\ c.kind \notin Acts] : c \in calls}

CardEffect(account, where, calls) ==
  IF account = 0 \/ where = None
  THEN /\ loading' = None
       /\ chosen' = Blank
       /\ inFlight' = Unmounted(Cleaned(calls))
       /\ UNCHANGED writes
  ELSE IF loading = where
  THEN /\ inFlight' = Cleaned(calls)
       /\ UNCHANGED <<loading, chosen, writes>>
  ELSE /\ loading' = where
       /\ chosen' = Blank
       /\ writes' = writes + 1
       /\ inFlight' = Unmounted(Cleaned(calls)) \union {Call("load", where, writes + 1)}

\* A tab, a row of the list, a shared link, « précédent »: the address is what changes.
Goes(where) ==
  /\ where # address /\ (where # None => writes < MaxAsked)
  /\ address' = where
  /\ CardEffect(me, where, inFlight)
  /\ UNCHANGED <<register, others, me, known, missed>>

SignsIn ==
  /\ me = 0
  /\ me' = 1
  /\ address = None \/ writes < MaxAsked
  /\ CardEffect(me', address, inFlight)
  /\ UNCHANGED <<register, others, address, known, missed>>

\* Back to the form, at the home address.
Ends(calls) ==
  /\ me > 0
  /\ me' = 0 /\ address' = None /\ chosen' = Blank /\ loading' = None
  /\ inFlight' = Unmounted(Cleaned(calls))
  /\ UNCHANGED <<register, others, writes, known, missed>>

\* An answer 401 to any call.
SessionLost == \E c \in inFlight : Ends(inFlight \ {c})
\* The form comes back whatever the server answered.
LogsOut == Ends(inFlight)

----------------------------------------------------------------------------
(* The calls: what is asked, what the server does with it, what its answer shows. *)

\* One status and one revision at a time, while the card they were asked on is up.
Writes(kind) ==
  /\ me > 0 /\ address # None /\ chosen # Blank
  /\ writes < MaxAsked
  /\ ~\E c \in inFlight : c.kind = kind /\ c.alive
  /\ writes' = writes + 1
  /\ inFlight' = inFlight \union {Call(kind, chosen.mayor, writes + 1)}
  /\ UNCHANGED <<register, others, me, address, chosen, loading, known, missed>>

\* Both replace the account on screen when they answer. One of each at a time.
SavesForm(kind) ==
  /\ me > 0 /\ address = None
  /\ ~\E c \in inFlight : c.kind = kind
  /\ me < MaxProfiles
  /\ inFlight' = inFlight \union {Call(kind, None, 0)}
  /\ UNCHANGED <<register, others, me, address, chosen, loading, writes, known, missed>>

\* Each write answers with the card as its own transaction left it, each read as it found it.
Serves(c) ==
  /\ c.answer = Unserved /\ c.kind \notin Forms
  /\ IF c.kind \in Acts
     THEN register' = [register EXCEPT ![c.mayor] = @ + 1]
     ELSE UNCHANGED register
  /\ inFlight' = (inFlight \ {c}) \union {[c EXCEPT !.answer = register'[c.mayor]]}
  /\ UNCHANGED <<others, me, address, chosen, loading, writes, known, missed>>

\* A conflict, an outage, an answer that never comes back.
Fails(c) ==
  /\ c.kind \notin Forms /\ c.answer # Refused
  /\ inFlight' = (inFlight \ {c}) \union {[c EXCEPT !.answer = Refused]}
  /\ UNCHANGED <<register, others, me, address, chosen, loading, writes, known, missed>>

\* Bug: an answer that comes after another question is dropped for good.
ShowsCardOrDrops(c) ==
  /\ IF writes = c.asked
     THEN chosen' = [mayor |-> c.mayor, version |-> c.answer] /\ missed' = FALSE
     ELSE UNCHANGED <<chosen, missed>>
  /\ inFlight' = inFlight \ {c}
  /\ UNCHANGED writes

\* The card a call answered with, shown to whoever asked last; an act's is asked again.
ShowsCard(c) ==
  IF writes = c.asked
  THEN /\ chosen' = [mayor |-> c.mayor, version |-> c.answer]
       /\ missed' = FALSE
       /\ inFlight' = IF chosen.mayor = c.mayor THEN inFlight \ {c}
                      ELSE Unmounted(inFlight \ {c})
       /\ UNCHANGED writes
  ELSE IF c.kind \in Acts
  THEN /\ writes' = writes + 1
       /\ inFlight' = (inFlight \ {c}) \union {Call("again", c.mayor, writes + 1)}
       /\ UNCHANGED <<chosen, missed>>
  ELSE /\ inFlight' = inFlight \ {c}
       /\ UNCHANGED <<chosen, writes, missed>>

Answers(c) ==
  /\ c.answer > Unserved
  /\ c.kind = "load" => c.alive
  /\ c.kind \in Acts /\ writes # c.asked => writes < MaxAsked
  /\ ShowsCard(c)
  /\ known' = IF c.kind \in Acts THEN [known EXCEPT ![c.mayor] = Later(@, c.answer)] ELSE known
  /\ UNCHANGED <<register, others, me, address, loading>>

\* A load that answers after its effect was cleaned up is dropped, refusal included.
AnswersNobody(c) ==
  /\ c.kind = "load" /\ ~c.alive /\ c.answer # Unserved
  /\ inFlight' = inFlight \ {c}
  /\ UNCHANGED <<register, others, me, address, chosen, loading, writes, known, missed>>

\* A card that cannot be read sends back to the list; a refused act is said by its card.
AnswersRefusal(c) ==
  /\ c.answer = Refused
  /\ c.kind = "load" => c.alive
  /\ IF c.kind = "load"
     THEN /\ address' = None /\ loading' = None /\ chosen' = Blank
          /\ inFlight' = Unmounted(Cleaned(inFlight \ {c}))
     ELSE /\ inFlight' = inFlight \ {c}
          /\ UNCHANGED <<address, loading, chosen>>
  /\ missed' = TRUE
  /\ UNCHANGED <<register, others, me, writes, known>>

\* A fresh object on screen, even for the same account: the effect follows it. The profile
\* leaves the form alone when nobody is signed in any more; the texts put on screen the account
\* they were saved for, whoever is there by then.
AccountAnswers(c) ==
  /\ c.kind \in Forms
  /\ IF c.kind = "profile" /\ me = 0
     THEN /\ inFlight' = inFlight \ {c}
          /\ UNCHANGED <<me, loading, chosen, writes>>
     ELSE /\ me' = me + 1
          /\ address # None /\ loading # address => writes < MaxAsked
          /\ CardEffect(me', address, inFlight \ {c})
  /\ UNCHANGED <<register, others, address, known, missed>>

ColleagueWrites(m) ==
  /\ others < MaxOthers
  /\ others' = others + 1
  /\ register' = [register EXCEPT ![m] = @ + 1]
  /\ UNCHANGED <<me, address, chosen, loading, writes, inFlight, known, missed>>

CardInit ==
  /\ register = [m \in Mayors |-> 0] /\ others = 0
  /\ me = 1 /\ address = None /\ chosen = Blank /\ loading = None
  /\ writes = 0 /\ inFlight = {}
  /\ known = [m \in Mayors |-> 0] /\ missed = FALSE

CardNext ==
  \/ \E where \in Mayors \union {None} : Goes(where)
  \/ SignsIn
  \/ SessionLost \/ LogsOut
  \/ \E kind \in Acts : Writes(kind)
  \/ \E kind \in Forms : SavesForm(kind)
  \/ \E c \in inFlight :
       \/ Serves(c)
       \/ Fails(c)
       \/ Answers(c)
       \/ AnswersNobody(c)
       \/ AnswersRefusal(c)
       \/ AccountAnswers(c)
  \/ \E m \in Mayors : ColleagueWrites(m)

CardSpec == CardInit /\ [][CardNext]_cardVars

----------------------------------------------------------------------------

\* What is on screen once everything has answered knows every write the screen confirmed,
\* whatever the order of the commits and of the answers, unless a refusal was said meanwhile
\* (showsCard, Team.tsx: « the last-ASKED read is the freshest full stop »).
TheScreenCatchesUp ==
  (inFlight = {} /\ chosen # Blank /\ ~missed) => chosen.version >= known[chosen.mayor]

\* The card on screen is the one its address names (Team.tsx: a late answer « would otherwise
\* put the previous one back on screen, which is A's commune under B's address »).
UnderItsOwnAddress ==
  (me > 0 /\ address # None /\ chosen # Blank) => chosen.mayor = address

\* Once everything has answered, an address that names a card shows a card
\* (Team.tsx: « a deep link that renders an empty card is a link nobody sends twice »).
AnAddressedCardComes ==
  (inFlight = {} /\ me > 0 /\ address # None /\ ~missed) => chosen # Blank
=============================================================================
