----------------------------- MODULE TeamProofs -----------------------------
(***************************************************************************)
(* Proofs about the screens of the team mode: Doors, for any number of     *)
(* accounts on the same computer; TeamCard, for any mayors and any number  *)
(* of calls out at once; MayorsList, for any mayors, filters and number of *)
(* changes; Management, for any requests and teams. The four hold nothing  *)
(* in common, and each is proved of its own specification.                 *)
(***************************************************************************)
EXTENDS Doors, TeamCard, MayorsList, Management, TLAPS

(* Doors *)

\* What every page keeps between two events, as long as no answer has put an
\* earlier account back on screen: the words held unsent are those of the
\* account whose session a door showed last, and a session on screen is that
\* one. A page that has not finished its own load shows nobody, holds nothing
\* and waits for no texts. A token that still has its visit is its reader's.
DoorsInv ==
  /\ ~revived => /\ unsent \subseteq {last} \ {Nobody}
                 /\ signedIn # Nobody => last = signedIn
  /\ boot # "ready" => unsent = {} /\ signedIn = Nobody /\ saving = {} /\ ~revived
  /\ (pending # Nobody /\ ~stale) => pending = reader

\* A page starts as it should.
LEMMA DoorsStart == DoorsInit => DoorsInv
BY DEF DoorsInit, DoorsInv

\* A load of the page, by a link or not, forgets everything of the last one.
LEMMA LoadsForget ==
  ASSUME OpensLink \/ Reloads
  PROVE  DoorsInv'
BY DEF OpensLink, Reloads, Load, DoorsInv

\* Nothing a page does before its form or its session is up breaks it.
LEMMA BootKeeps ==
  ASSUME DoorsInv,
         \/ \E answer \in Modes : DetectMode(answer)
         \/ Retries \/ SomebodyElseSitsDown
         \/ Boots \/ LinkOpens \/ LinkRefused \/ Restores \/ NoSession
  PROVE  DoorsInv'
<1>1. ASSUME NEW answer \in Modes, DetectMode(answer) PROVE DoorsInv'
  BY <1>1 DEF DetectMode, Modes, textVars, DoorsInv
<1>2. Retries => DoorsInv'
  BY DEF Retries, textVars, DoorsInv
<1>3. SomebodyElseSitsDown => DoorsInv'
  BY DEF SomebodyElseSitsDown, textVars, DoorsInv
<1>4. Boots => DoorsInv'
  BY DEF Boots, textVars, DoorsInv
<1>5. LinkOpens => DoorsInv'
  BY DEF LinkOpens, Shows, textVars, DoorsInv
<1>6. Restores => DoorsInv'
  BY DEF Restores, Shows, textVars, DoorsInv
<1>7. LinkRefused \/ NoSession => DoorsInv'
  BY DEF LinkRefused, NoSession, textVars, DoorsInv
<1> QED  BY <1>1, <1>2, <1>3, <1>4, <1>5, <1>6, <1>7

\* The form, the words typed, and every way a session ends.
LEMMA SessionsKeep ==
  ASSUME DoorsInv,
         \/ SubmitsForm \/ SignedIn \/ FormAnswers
         \/ WritesWords \/ Asks \/ SessionEnds \/ SignsOut
         \/ \E a \in asked : Answered(a)
         \/ SavesTexts
         \/ \E a \in saving : TextsAnswer(a) \/ TextsRefused(a)
  PROVE  DoorsInv'
<1>1. SubmitsForm \/ FormAnswers \/ Asks => DoorsInv'
  BY DEF SubmitsForm, FormAnswers, Asks, textVars, DoorsInv
\* Not the same person as before: nothing is left for them to find.
<1>2. SignedIn => DoorsInv'
  BY DEF SignedIn, FormIsUp, DoorsInv
<1>3. WritesWords => DoorsInv'
  BY DEF WritesWords, textVars, DoorsInv
<1>4. SessionEnds => DoorsInv'
  BY DEF SessionEnds, pageVars, textVars, DoorsInv
<1>5. SignsOut => DoorsInv'
  BY DEF SignsOut, DoorsInv
<1>6. ASSUME NEW a \in asked, Answered(a) PROVE DoorsInv'
  BY <1>6 DEF Answered, AfterCall, textVars, DoorsInv
<1>7. SavesTexts => DoorsInv'
  BY DEF SavesTexts, DoorsInv
\* The answer of the texts is of the last account seen, or breaks what is promised openly.
<1>8. ASSUME NEW a \in saving, TextsAnswer(a) PROVE DoorsInv'
  BY <1>8 DEF TextsAnswer, DoorsInv
<1>9. ASSUME NEW a \in saving, TextsRefused(a) PROVE DoorsInv'
  BY <1>9 DEF TextsRefused, AfterCall, DoorsInv
<1> QED  BY <1>1, <1>2, <1>3, <1>4, <1>5, <1>6, <1>7, <1>8, <1>9

\* Every behaviour of a page keeps it (Team.tsx, App.tsx, Connexion.tsx, and the form of the
\* texts of TeamAdmin.tsx).
THEOREM DoorsInOrder == DoorsSpec => []DoorsInv
<1>1. DoorsInv /\ [DoorsNext]_doorVars => DoorsInv'
  <2> SUFFICES ASSUME DoorsInv, [DoorsNext]_doorVars PROVE DoorsInv'
    OBVIOUS
  <2>1. CASE UNCHANGED doorVars
    BY <2>1 DEF doorVars, pageVars, textVars, DoorsInv
  <2>2. CASE DoorsNext
    BY <2>2, LoadsForget, BootKeeps, SessionsKeep DEF DoorsNext
  <2> QED  BY <2>1, <2>2
<1> QED  BY <1>1, DoorsStart, PTL DEF DoorsSpec

-----------------------------------------------------------------------------

\* Unsent words are on screen only for the account that wrote them, whatever
\* doors the sessions before it came through and however they ended (the
\* seeding of lastAccount and the clearing of cardDrafts, Team.tsx), as long as
\* no late save of texts has brought an earlier account back (TeamAdmin.tsx).
THEOREM WordsStayWithTheirWriter == DoorsSpec => []UnsentWordsStayWithTheirWriter
<1>1. DoorsInv => UnsentWordsStayWithTheirWriter
  BY DEF DoorsInv, UnsentWordsStayWithTheirWriter
<1> QED  BY <1>1, DoorsInOrder, PTL

\* A sign-in link opens a session for whoever opened the link, and for nobody
\* who sits down at the page after them (consumeLinkToken, api.ts).
THEOREM LinksOpenForTheirReader == DoorsSpec => LinksAreForTheirReader
<1> DEFINE Redeemed == (boot = "asleep" /\ boot' = "redeeming") => redeemed' = reader
<1>1. DoorsInv /\ [DoorsNext]_doorVars => [Redeemed]_doorVars
  <2> SUFFICES ASSUME DoorsInv, DoorsNext, boot = "asleep", boot' = "redeeming"
               PROVE  redeemed' = reader
    OBVIOUS
  <2>1. Boots
    <3>1. ~(OpensLink \/ Reloads)
      BY DEF OpensLink, Reloads, Load
    <3>2. ~\E answer \in Modes : DetectMode(answer)
      BY DEF DetectMode
    <3>3. ~(Retries \/ SomebodyElseSitsDown \/ LinkOpens \/ LinkRefused \/ Restores \/ NoSession)
      BY DEF Retries, SomebodyElseSitsDown, LinkOpens, LinkRefused, Restores, NoSession
    <3>4. ~(SubmitsForm \/ SignedIn \/ FormAnswers)
      BY DEF SubmitsForm, SignedIn, FormAnswers, FormIsUp
    <3>5. ~(WritesWords \/ Asks \/ SessionEnds \/ SignsOut)
      BY DEF WritesWords, Asks, SessionEnds, SignsOut, pageVars
    <3>6. /\ ~\E a \in asked : Answered(a)
          /\ ~SavesTexts /\ ~\E a \in saving : TextsAnswer(a) \/ TextsRefused(a)
      BY DEF Answered, SavesTexts, TextsAnswer, TextsRefused
    <3> QED  BY <3>1, <3>2, <3>3, <3>4, <3>5, <3>6 DEF DoorsNext
  <2>2. pending # Nobody /\ ~stale
    BY <2>1 DEF Boots, Usable
  <2> QED  BY <2>1, <2>2 DEF Boots, Usable, DoorsInv
<1> QED  BY <1>1, DoorsInOrder, PTL DEF DoorsSpec, LinksAreForTheirReader

-----------------------------------------------------------------------------

(* TeamCard *)

CardKinds == Acts \union Forms \union {"load", "again"}

CardCallType ==
  [kind : CardKinds, mayor : Mayors \union {None}, asked : Nat, answer : Int, alive : BOOLEAN]

\* Of the calls in flight, by the last number asked, what the server holds and
\* what the screen has confirmed: each has its number, none answers more than
\* the server has, and the last one asked, once served, answers all that is known.
Sound(S, w, reg, kn) ==
  /\ S \subseteq CardCallType
  /\ \A c \in S : c.kind \in Forms => c.answer = Unserved
  /\ \A c \in S : c.kind \notin Forms =>
       c.mayor \in Mayors /\ c.asked <= w /\ c.answer <= reg[c.mayor]
  /\ \A c, d \in S : (c.kind \notin Forms /\ d.kind \notin Forms /\ c.asked = d.asked) => c = d
  /\ \A c \in S : (c.kind \notin Forms /\ c.asked = w /\ c.answer > Unserved) =>
       c.answer >= kn[c.mayor]

\* The last question is still out, and its answer will be shown.
Pending(S, w) == \E c \in S : c.kind \in Acts \union {"again"} /\ c.asked = w

CardTyped ==
  /\ register \in [Mayors -> Nat] /\ known \in [Mayors -> Nat]
  /\ writes \in Nat /\ missed \in BOOLEAN
  /\ address \in Mayors \union {None} /\ loading \in Mayors \union {None}
  /\ chosen = Blank \/ (chosen.mayor \in Mayors /\ chosen.version \in Int)

\* What the screen shows knows all that is confirmed, unless a refusal was said,
\* or the answer that does is on its way and will be shown.
CardInv ==
  /\ CardTyped
  /\ \A m \in Mayors : known[m] <= register[m]
  /\ Sound(inFlight, writes, register, known)
  /\ (chosen # Blank /\ ~missed) =>
       chosen.version >= known[chosen.mayor] \/ Pending(inFlight, writes)

-----------------------------------------------------------------------------
\* Facts about the calls in flight

\* Taking calls away.
LEMMA SoundFewer ==
  ASSUME NEW S, NEW T, NEW w, NEW reg, NEW kn, Sound(S, w, reg, kn), T \subseteq S
  PROVE  Sound(T, w, reg, kn)
BY DEF Sound

\* What an effect's cleanup and an unmounted card change of a call is nothing
\* its answer depends on.
LEMMA SoundLeft ==
  ASSUME NEW S, NEW w, NEW reg, NEW kn, Sound(S, w, reg, kn)
  PROVE  /\ Sound(Cleaned(S), w, reg, kn) /\ Sound(Unmounted(S), w, reg, kn)
         /\ Pending(S, w) => Pending(Cleaned(S), w) /\ Pending(Unmounted(S), w)
<1> DEFINE Clean(c) == [c EXCEPT !.alive = @ /\ c.kind # "load"]
           Unmount(c) == [c EXCEPT !.alive = @ /\ c.kind \notin Acts]
<1>1. \A c \in S : /\ Clean(c) \in CardCallType /\ Unmount(c) \in CardCallType
                   /\ Clean(c).kind = c.kind /\ Clean(c).mayor = c.mayor
                   /\ Clean(c).asked = c.asked /\ Clean(c).answer = c.answer
                   /\ Unmount(c).kind = c.kind /\ Unmount(c).mayor = c.mayor
                   /\ Unmount(c).asked = c.asked /\ Unmount(c).answer = c.answer
  BY DEF Sound, CardCallType
<1>2. Cleaned(S) = {Clean(c) : c \in S} /\ Unmounted(S) = {Unmount(c) : c \in S}
  BY DEF Cleaned, Unmounted
<1> HIDE DEF Clean, Unmount
<1>3. Sound(Cleaned(S), w, reg, kn)
  BY <1>1, <1>2 DEF Sound
<1>4. Sound(Unmounted(S), w, reg, kn)
  BY <1>1, <1>2 DEF Sound
<1>5. Pending(S, w) => Pending(Cleaned(S), w) /\ Pending(Unmounted(S), w)
  BY <1>1, <1>2 DEF Pending
<1> QED  BY <1>3, <1>4, <1>5

\* A question asked takes the next number, whatever is known by then.
LEMMA SoundAsked ==
  ASSUME NEW S, NEW w \in Nat, NEW reg \in [Mayors -> Nat], NEW kn \in [Mayors -> Nat],
         NEW kn2 \in [Mayors -> Nat], Sound(S, w, reg, kn),
         NEW kind \in CardKinds \ Forms, NEW m \in Mayors
  PROVE  LET c == Call(kind, m, w + 1)
         IN  /\ Sound(S \union {c}, w + 1, reg, kn2)
             /\ c.kind = kind /\ c.asked = w + 1
<1> DEFINE c == Call(kind, m, w + 1)
<1>1. /\ c \in CardCallType /\ c.kind = kind /\ c.asked = w + 1 /\ c.mayor = m
      /\ c.answer = Unserved /\ Unserved = -1
  BY DEF Call, CardCallType, Unserved
<1>2. \A d \in S : d.asked \in Nat /\ d.answer \in Int
  BY DEF Sound, CardCallType
<1> HIDE DEF c
<1>3. c.answer <= reg[m]
  BY <1>1
<1>4. Sound(S \union {c}, w + 1, reg, kn2)
  BY <1>1, <1>2, <1>3 DEF Sound
<1> QED  BY <1>1, <1>4 DEF c

\* A call answered, well or not, answers what the server then holds at most, and
\* all that is known if it is a card at all.
LEMMA SoundAnswered ==
  ASSUME NEW S, NEW w \in Nat, NEW reg \in [Mayors -> Nat], NEW kn \in [Mayors -> Nat],
         NEW reg2 \in [Mayors -> Nat], Sound(S, w, reg, kn),
         NEW c \in S, c.kind \notin Forms, NEW answer \in Int,
         \A m \in Mayors : reg[m] <= reg2[m],
         answer <= reg2[c.mayor],
         answer > Unserved => answer >= kn[c.mayor]
  PROVE  LET T == (S \ {c}) \union {[c EXCEPT !.answer = answer]}
         IN  Sound(T, w, reg2, kn) /\ (Pending(S, w) => Pending(T, w))
<1> DEFINE d == [c EXCEPT !.answer = answer]
<1>1. /\ d \in CardCallType /\ d.kind = c.kind /\ d.asked = c.asked /\ d.mayor = c.mayor
      /\ d.answer = answer
  BY DEF Sound, CardCallType
<1> HIDE DEF d
<1> DEFINE T == (S \ {c}) \union {d}
<1>2. \A e \in S : e.asked \in Nat /\ e.answer \in Int
  BY DEF Sound, CardCallType
<1>3. \A e \in T : e.kind \notin Forms =>
        e.mayor \in Mayors /\ e.asked <= w /\ e.answer <= reg2[e.mayor]
  <2> SUFFICES ASSUME NEW e \in S, e.kind \notin Forms
               PROVE  e.mayor \in Mayors /\ e.asked <= w /\ e.answer <= reg2[e.mayor]
    BY <1>1 DEF Sound
  <2>1. e.mayor \in Mayors /\ e.asked <= w /\ e.answer <= reg[e.mayor]
    BY DEF Sound
  <2>2. reg[e.mayor] <= reg2[e.mayor] /\ reg[e.mayor] \in Nat /\ reg2[e.mayor] \in Nat
    BY <2>1
  <2> QED  BY <1>2, <2>1, <2>2
<1>4. \A e, f \in T : (e.kind \notin Forms /\ f.kind \notin Forms /\ e.asked = f.asked) => e = f
  BY <1>1 DEF Sound
<1>5. \A e \in T : (e.kind \notin Forms /\ e.asked = w /\ e.answer > Unserved) =>
        e.answer >= kn[e.mayor]
  BY <1>1 DEF Sound
<1>6. Sound(T, w, reg2, kn)
  BY <1>1, <1>3, <1>4, <1>5 DEF Sound
<1>7. Pending(S, w) => Pending(T, w)
  BY <1>1 DEF Pending
<1> QED  BY <1>6, <1>7 DEF d

\* The answer to the last question, shown: no call of that number is left.
LEMMA SoundShown ==
  ASSUME NEW S, NEW w, NEW reg, NEW kn, NEW kn2, Sound(S, w, reg, kn),
         NEW c \in S, c.kind \notin Forms, c.asked = w
  PROVE  Sound(S \ {c}, w, reg, kn2)
BY DEF Sound

-----------------------------------------------------------------------------
\* Each step keeps it

LEMMA CardStart == CardInit => CardInv
<1> SUFFICES ASSUME CardInit PROVE CardInv
  OBVIOUS
<1>1. CardTyped
  BY DEF CardInit, CardTyped
<1>2. \A m \in Mayors : known[m] <= register[m]
  BY DEF CardInit
<1>3. Sound(inFlight, writes, register, known)
  BY DEF CardInit, Sound
<1> QED  BY <1>1, <1>2, <1>3 DEF CardInit, CardInv

\* The effect that follows the account and the address.
LEMMA EffectKeeps ==
  ASSUME CardInv, NEW account, NEW where \in Mayors \union {None},
         NEW left, left \subseteq inFlight, \A c \in inFlight \ left : c.kind \in Forms,
         CardEffect(account, where, left),
         address' = where, UNCHANGED <<register, known, missed>>
  PROVE  CardInv'
<1>1. Sound(left, writes, register, known)
  BY SoundFewer DEF CardInv
<1>2. Pending(inFlight, writes) => Pending(left, writes)
  BY DEF Pending, Acts, Forms
<1>3. /\ Sound(Cleaned(left), writes, register, known)
      /\ Pending(left, writes) => Pending(Cleaned(left), writes)
  BY <1>1, SoundLeft
<1>4. Sound(Unmounted(Cleaned(left)), writes, register, known)
  BY <1>3, SoundLeft
\* Nobody, or no address.
<1>5. CASE account = 0 \/ where = None
  <2>1. loading' = None /\ chosen' = Blank /\ writes' = writes
        /\ inFlight' = Unmounted(Cleaned(left))
    BY <1>5 DEF CardEffect
  <2> QED  BY <1>4, <2>1 DEF CardInv, CardTyped
\* The card asked for is the one already there or on its way.
<1>6. CASE ~(account = 0 \/ where = None) /\ loading = where
  <2>1. inFlight' = Cleaned(left) /\ UNCHANGED <<loading, chosen, writes>>
    BY <1>6 DEF CardEffect
  <2> QED  BY <1>2, <1>3, <2>1 DEF CardInv, CardTyped
\* Another card: its load takes the next number.
<1>7. CASE ~(account = 0 \/ where = None) /\ loading # where
  <2>1. /\ loading' = where /\ chosen' = Blank /\ writes' = writes + 1
        /\ inFlight' = Unmounted(Cleaned(left)) \union {Call("load", where, writes + 1)}
    BY <1>7 DEF CardEffect
  <2>2. where \in Mayors /\ "load" \in CardKinds \ Forms
    BY <1>7 DEF CardKinds, Forms
  <2>3. Sound(inFlight', writes + 1, register, known)
    BY <1>4, <2>1, <2>2, SoundAsked DEF CardInv, CardTyped
  <2> QED  BY <2>1, <2>2, <2>3 DEF CardInv, CardTyped
<1> QED  BY <1>5, <1>6, <1>7

\* The screen's own doings: where it goes, who is signed in.
LEMMA ScreenKeeps ==
  ASSUME CardInv,
         \/ \E where \in Mayors \union {None} : Goes(where)
         \/ SignsIn \/ SessionLost \/ LogsOut
         \/ \E c \in inFlight : AccountAnswers(c)
  PROVE  CardInv'
<1>1. ASSUME NEW where \in Mayors \union {None}, Goes(where) PROVE CardInv'
  BY <1>1, EffectKeeps DEF Goes
<1>2. ASSUME SignsIn PROVE CardInv'
  BY <1>2, EffectKeeps DEF SignsIn, CardInv, CardTyped
<1>3. ASSUME NEW left, left \subseteq inFlight, Ends(left) PROVE CardInv'
  <2>1. Sound(Unmounted(Cleaned(left)), writes, register, known)
    <3>1. Sound(left, writes, register, known)
      BY <1>3, SoundFewer DEF CardInv
    <3>2. Sound(Cleaned(left), writes, register, known)
      BY <3>1, SoundLeft
    <3> QED  BY <3>2, SoundLeft
  <2> QED  BY <1>3, <2>1 DEF Ends, CardInv, CardTyped
<1>4. SessionLost \/ LogsOut => CardInv'
  BY <1>3 DEF SessionLost, LogsOut
<1>5. ASSUME NEW c \in inFlight, AccountAnswers(c) PROVE CardInv'
  <2>1. c.kind \in Forms /\ UNCHANGED <<register, address, known, missed>>
    BY <1>5 DEF AccountAnswers
  <2>2. CASE c.kind = "profile" /\ me = 0
    <3>1. inFlight' = inFlight \ {c} /\ UNCHANGED <<loading, chosen, writes>>
      BY <1>5, <2>2 DEF AccountAnswers
    <3>2. Sound(inFlight \ {c}, writes, register, known)
      BY SoundFewer DEF CardInv
    <3>3. Pending(inFlight, writes) => Pending(inFlight \ {c}, writes)
      BY <2>1 DEF Pending, Acts, Forms
    <3> QED  BY <2>1, <3>1, <3>2, <3>3 DEF CardInv, CardTyped
  <2>3. CASE ~(c.kind = "profile" /\ me = 0)
    <3>1. CardEffect(me', address, inFlight \ {c})
      BY <1>5, <2>3 DEF AccountAnswers
    <3>2. address \in Mayors \union {None} /\ address' = address
      BY <2>1 DEF CardInv, CardTyped
    <3> QED  BY <2>1, <3>1, <3>2, EffectKeeps
  <2> QED  BY <2>2, <2>3
<1> QED  BY <1>1, <1>2, <1>4, <1>5

\* A question asked, a card written by somebody else.
LEMMA AskingKeeps ==
  ASSUME CardInv,
         \/ \E kind \in Acts : Writes(kind)
         \/ \E kind \in Forms : SavesForm(kind)
         \/ \E m \in Mayors : ColleagueWrites(m)
  PROVE  CardInv'
<1>1. ASSUME NEW kind \in Acts, Writes(kind) PROVE CardInv'
  <2>1. kind \in CardKinds \ Forms /\ chosen.mayor \in Mayors
    BY <1>1 DEF Writes, CardKinds, Acts, Forms, CardInv, CardTyped
  <2>2. LET c == Call(kind, chosen.mayor, writes + 1)
        IN  /\ Sound(inFlight \union {c}, writes + 1, register, known)
            /\ c.kind = kind /\ c.asked = writes + 1
    BY <2>1, SoundAsked DEF CardInv, CardTyped
  <2>3. Sound(inFlight', writes', register, known) /\ Pending(inFlight', writes')
    BY <1>1, <2>2 DEF Writes, Pending
  <2> QED  BY <1>1, <2>3 DEF Writes, CardInv, CardTyped
<1>2. ASSUME NEW kind \in Forms, SavesForm(kind) PROVE CardInv'
  <2> DEFINE c == Call(kind, None, 0)
  <2>1. c \in CardCallType /\ c.kind \in Forms /\ c.answer = Unserved
    BY DEF Call, CardCallType, CardKinds, Unserved
  <2> HIDE DEF c
  <2>2. Sound(inFlight \union {c}, writes, register, known)
    BY <2>1 DEF CardInv, Sound
  <2>3. Pending(inFlight, writes) => Pending(inFlight \union {c}, writes)
    BY DEF Pending
  <2>4. inFlight' = inFlight \union {c}
    BY <1>2 DEF SavesForm, c
  <2> QED  BY <1>2, <2>2, <2>3, <2>4 DEF SavesForm, CardInv, CardTyped
<1>3. ASSUME NEW m \in Mayors, ColleagueWrites(m) PROVE CardInv'
  <2>1. register' \in [Mayors -> Nat] /\ \A n \in Mayors : register[n] <= register'[n]
    BY <1>3 DEF ColleagueWrites, CardInv, CardTyped
  <2>2. \A c \in inFlight : c.answer \in Int
    BY DEF CardInv, Sound, CardCallType
  <2>3. \A c \in inFlight : c.kind \notin Forms => c.answer <= register'[c.mayor]
    BY <2>1, <2>2 DEF CardInv, CardTyped, Sound
  <2>4. Sound(inFlight, writes, register', known)
    BY <2>3 DEF CardInv, Sound
  <2>5. \A n \in Mayors : known[n] <= register'[n]
    BY <2>1 DEF CardInv, CardTyped
  <2> QED  BY <1>3, <2>1, <2>4, <2>5 DEF ColleagueWrites, CardInv, CardTyped
<1> QED  BY <1>1, <1>2, <1>3

\* What the server does with a call, and the calls that come to nothing.
LEMMA CallsKeep ==
  ASSUME CardInv, NEW c \in inFlight,
         Serves(c) \/ Fails(c) \/ AnswersNobody(c) \/ AnswersRefusal(c)
  PROVE  CardInv'
<1>1. ASSUME Serves(c) PROVE CardInv'
  <2>1. c.kind \notin Forms /\ c.mayor \in Mayors
    BY <1>1 DEF Serves, CardInv, Sound
  <2>2. register' \in [Mayors -> Nat] /\ \A n \in Mayors : register[n] <= register'[n]
    <3>1. CASE c.kind \in Acts
      BY <1>1, <2>1, <3>1 DEF Serves, CardInv, CardTyped
    <3>2. CASE c.kind \notin Acts
      BY <1>1, <3>2 DEF Serves, CardInv, CardTyped
    <3> QED  BY <3>1, <3>2
  <2>3. \A n \in Mayors : known[n] <= register'[n]
    BY <2>2 DEF CardInv, CardTyped
  <2>4. register'[c.mayor] \in Int /\ register'[c.mayor] >= known[c.mayor]
    BY <2>1, <2>2, <2>3 DEF CardInv, CardTyped
  <2>5. /\ writes \in Nat /\ register \in [Mayors -> Nat] /\ known \in [Mayors -> Nat]
        /\ Sound(inFlight, writes, register, known)
        /\ register'[c.mayor] <= register'[c.mayor]
    BY <2>4 DEF CardInv, CardTyped
  <2>6. LET T == (inFlight \ {c}) \union {[c EXCEPT !.answer = register'[c.mayor]]}
        IN  Sound(T, writes, register', known) /\ (Pending(inFlight, writes) => Pending(T, writes))
    BY <2>1, <2>2, <2>4, <2>5, SoundAnswered
  <2>7. inFlight' = (inFlight \ {c}) \union {[c EXCEPT !.answer = register'[c.mayor]]}
    BY <1>1 DEF Serves
  <2>8. /\ Sound(inFlight', writes, register', known)
        /\ Pending(inFlight, writes) => Pending(inFlight', writes)
    BY <2>6, <2>7
  <2> QED  BY <1>1, <2>2, <2>3, <2>8 DEF Serves, CardInv, CardTyped
<1>2. ASSUME Fails(c) PROVE CardInv'
  <2>1. c.kind \notin Forms /\ c.mayor \in Mayors
    BY <1>2 DEF Fails, CardInv, Sound
  <2>2. /\ Refused \in Int /\ Refused <= register[c.mayor] /\ ~(Refused > Unserved)
        /\ \A m \in Mayors : register[m] <= register[m]
    BY <2>1 DEF Refused, Unserved, CardInv, CardTyped
  <2>3. /\ Sound(inFlight', writes, register, known)
        /\ Pending(inFlight, writes) => Pending(inFlight', writes)
    BY <1>2, <2>1, <2>2, SoundAnswered DEF Fails, CardInv, CardTyped
  <2> QED  BY <1>2, <2>3 DEF Fails, CardInv, CardTyped
<1>3. Sound(inFlight \ {c}, writes, register, known)
  BY SoundFewer DEF CardInv
<1>4. ASSUME AnswersNobody(c) PROVE CardInv'
  <2>1. c.kind = "load"
    BY <1>4 DEF AnswersNobody
  <2>2. Pending(inFlight, writes) => Pending(inFlight \ {c}, writes)
    BY <2>1 DEF Pending, Acts
  <2> QED  BY <1>3, <1>4, <2>2 DEF AnswersNobody, CardInv, CardTyped
<1>5. ASSUME AnswersRefusal(c) PROVE CardInv'
  <2>1. Sound(Cleaned(inFlight \ {c}), writes, register, known)
    BY <1>3, SoundLeft
  <2>2. Sound(Unmounted(Cleaned(inFlight \ {c})), writes, register, known)
    BY <2>1, SoundLeft
  <2>3. CASE c.kind = "load"
    BY <1>5, <2>2, <2>3 DEF AnswersRefusal, CardInv, CardTyped
  <2>4. CASE c.kind # "load"
    BY <1>3, <1>5, <2>4 DEF AnswersRefusal, CardInv, CardTyped
  <2> QED  BY <2>3, <2>4
<1> QED  BY <1>1, <1>2, <1>4, <1>5

\* An answer: shown if it is the last question's, asked again if it is an act's.
LEMMA AnswersKeep ==
  ASSUME CardInv, NEW c \in inFlight, Answers(c)
  PROVE  CardInv'
<1>1. /\ c.kind \notin Forms /\ c.mayor \in Mayors /\ c.kind \in CardKinds
      /\ c.answer \in Nat /\ c.answer <= register[c.mayor]
  BY DEF Answers, CardInv, Sound, CardCallType, Unserved
<1>2. /\ known' \in [Mayors -> Nat] /\ \A m \in Mayors : known'[m] <= register[m]
      /\ known'[c.mayor] = known[c.mayor] \/ known'[c.mayor] = c.answer
  <2>1. CASE c.kind \in Acts
    <3>1. known' = [known EXCEPT ![c.mayor] = Later(known[c.mayor], c.answer)]
      BY <2>1 DEF Answers
    <3>2. \/ Later(known[c.mayor], c.answer) = known[c.mayor]
          \/ Later(known[c.mayor], c.answer) = c.answer
      BY DEF Later
    <3> QED  BY <1>1, <3>1, <3>2 DEF CardInv, CardTyped
  <2>2. CASE c.kind \notin Acts
    BY <2>2 DEF Answers, CardInv, CardTyped
  <2> QED  BY <2>1, <2>2
<1>3. UNCHANGED <<register, address, loading>>
  BY DEF Answers
\* It is shown, and it knows all that is confirmed.
<1>4. CASE writes = c.asked
  <2>1. /\ chosen' = [mayor |-> c.mayor, version |-> c.answer] /\ missed' = FALSE
        /\ writes' = writes
        /\ inFlight' = inFlight \ {c} \/ inFlight' = Unmounted(inFlight \ {c})
    BY <1>4 DEF Answers, ShowsCard
  <2>2. Sound(inFlight \ {c}, writes, register, known')
    BY <1>1, <1>4, SoundShown DEF CardInv
  <2>3. Sound(inFlight', writes, register, known')
    BY <2>1, <2>2, SoundLeft
  <2>4. c.answer >= known[c.mayor]
    BY <1>1, <1>4 DEF Answers, CardInv, Sound
  <2>5. c.answer >= known'[c.mayor]
    BY <1>1, <1>2, <2>4
  <2>6. chosen'.mayor = c.mayor /\ chosen'.version = c.answer
    BY <2>1
  <2>7. CardTyped'
    <3>1. chosen'.mayor \in Mayors /\ chosen'.version \in Int
      BY <1>1, <2>6
    <3>2. missed' \in BOOLEAN
      BY <2>1
    <3>3. /\ register' \in [Mayors -> Nat] /\ writes' \in Nat
          /\ address' \in Mayors \union {None} /\ loading' \in Mayors \union {None}
      BY <1>3, <2>1 DEF CardInv, CardTyped
    <3> QED  BY <1>2, <3>1, <3>2, <3>3 DEF CardTyped
  <2> QED  BY <1>2, <1>3, <2>1, <2>3, <2>5, <2>6, <2>7 DEF CardInv
<1>5. Sound(inFlight \ {c}, writes, register, known)
  BY SoundFewer DEF CardInv
\* It is asked again, with the next number, and the answer will be shown.
<1>6. CASE writes # c.asked /\ c.kind \in Acts
  <2>1. /\ writes' = writes + 1 /\ UNCHANGED <<chosen, missed>>
        /\ inFlight' = (inFlight \ {c}) \union {Call("again", c.mayor, writes + 1)}
    BY <1>6 DEF Answers, ShowsCard
  <2>2. "again" \in CardKinds \ Forms
    BY DEF CardKinds, Forms
  <2>3. LET d == Call("again", c.mayor, writes + 1)
        IN  /\ Sound((inFlight \ {c}) \union {d}, writes + 1, register, known')
            /\ d.kind = "again" /\ d.asked = writes + 1
    <3>1. /\ writes \in Nat /\ register \in [Mayors -> Nat] /\ known \in [Mayors -> Nat]
          /\ known' \in [Mayors -> Nat] /\ c.mayor \in Mayors
      BY <1>1, <1>2 DEF CardInv, CardTyped
    <3> DEFINE Left == inFlight \ {c}
               d == Call("again", c.mayor, writes + 1)
    <3>2. Sound(Left, writes, register, known)
      BY <1>5
    <3> HIDE DEF Left
    <3>3. ASSUME NEW kn2 \in [Mayors -> Nat], NEW m \in Mayors, NEW kind \in CardKinds \ Forms
          PROVE  LET e == Call(kind, m, writes + 1)
                 IN  Sound(Left \union {e}, writes + 1, register, kn2)
      BY <3>1, <3>2, SoundAsked
    <3>4. d.kind = "again" /\ d.asked = writes + 1
      BY DEF Call
    <3> QED  BY <2>2, <3>1, <3>3, <3>4 DEF Left
  <2>4. Sound(inFlight', writes', register, known') /\ Pending(inFlight', writes')
    BY <2>1, <2>3 DEF Pending
  <2> QED  BY <1>2, <1>3, <2>1, <2>4 DEF CardInv, CardTyped
\* A read that another question overtook.
<1>7. CASE writes # c.asked /\ c.kind \notin Acts
  <2>1. inFlight' = inFlight \ {c} /\ UNCHANGED <<chosen, writes, missed, known>>
    BY <1>7 DEF Answers, ShowsCard
  <2>2. Pending(inFlight, writes) => Pending(inFlight \ {c}, writes)
    BY <1>7 DEF Pending
  <2> QED  BY <1>3, <1>5, <2>1, <2>2 DEF CardInv, CardTyped
<1> QED  BY <1>4, <1>6, <1>7

\* Every behaviour of the card on screen keeps it.
THEOREM CardInOrder == CardSpec => []CardInv
<1>1. CardInv /\ [CardNext]_cardVars => CardInv'
  <2> SUFFICES ASSUME CardInv, [CardNext]_cardVars PROVE CardInv'
    OBVIOUS
  <2>1. CASE UNCHANGED cardVars
    BY <2>1 DEF cardVars, CardInv, CardTyped
  <2>2. CASE CardNext
    BY <2>2, ScreenKeeps, AskingKeeps, CallsKeep, AnswersKeep DEF CardNext
  <2> QED  BY <2>1, <2>2
<1> QED  BY <1>1, CardStart, PTL DEF CardSpec

\* Once every call has answered, the card on screen knows every write the screen
\* confirmed, however the commits and the answers were ordered, unless a refusal
\* was said meanwhile (showsCard, Team.tsx).
THEOREM ScreenCatchesUp == CardSpec => []TheScreenCatchesUp
<1>1. CardInv => TheScreenCatchesUp
  BY DEF CardInv, TheScreenCatchesUp, Pending
<1> QED  BY <1>1, CardInOrder, PTL

-----------------------------------------------------------------------------

(* MayorsList *)

ListRow == [mayor : Listed, of : Filters]
ListAsked(q) == q \in [kind : {"list", "page", "retry"}, mine : 1..latest, of : Filters]

ListTyped ==
  /\ filter \in Filters /\ rows \in Seq(ListRow)
  /\ latest \in Nat /\ latest > 0
  /\ \A q \in questions : ListAsked(q)

\* No mayor twice.
EachOnce(list) == \A i, j \in DOMAIN list : list[i].mayor = list[j].mayor => i = j

\* What the list shows is of one filter.
AllOf(list, f) == \A i \in DOMAIN list : list[i].of = f

\* A question under the last number was asked under the filter on screen. As long
\* as none has failed there is nothing to ask again; the rows of another filter
\* are on screen only while the list loads, and no page is asked for under them.
ListInv ==
  /\ ListTyped
  /\ EachOnce(rows)
  /\ \A q \in questions : q.mine = latest => q.of = filter
  /\ ~interrupted =>
       /\ failed = NoFilter
       /\ \A q \in questions : q.kind # "retry"
       /\ ~listLoading => AllOf(rows, filter)
       /\ \A q \in questions : (q.kind = "page" /\ q.mine = latest) => AllOf(rows, filter)

-----------------------------------------------------------------------------

\* A page is rows of the filter it was asked under.
LEMMA PageRows ==
  ASSUME NEW page \in Pages, NEW f \in Filters
  PROVE  /\ RowsOf(page, f) \in Seq(ListRow)
         /\ EachOnce(RowsOf(page, f)) /\ AllOf(RowsOf(page, f), f)
         /\ Len(RowsOf(page, f)) <= 1
<1>1. CASE page = <<>>
  <2>1. RowsOf(page, f) = <<>>
    BY <1>1 DEF RowsOf
  <2> QED  BY <2>1 DEF EachOnce, AllOf
<1>2. ASSUME NEW m \in Listed, page = <<m>>
      PROVE  /\ RowsOf(page, f) \in Seq(ListRow)
             /\ EachOnce(RowsOf(page, f)) /\ AllOf(RowsOf(page, f), f)
             /\ Len(RowsOf(page, f)) <= 1
  <2>1. RowsOf(page, f) = <<[mayor |-> m, of |-> f]>>
    BY <1>2 DEF RowsOf
  <2>2. [mayor |-> m, of |-> f] \in ListRow
    BY DEF ListRow
  <2> QED  BY <2>1, <2>2 DEF EachOnce, AllOf
<1> QED  BY <1>1, <1>2 DEF Pages

\* A page appended repeats nobody, and is of the filter the list is of.
LEMMA AppendedRows ==
  ASSUME NEW page \in Pages, NEW f \in Filters, rows \in Seq(ListRow), EachOnce(rows)
  PROVE  LET list == Appended(RowsOf(page, f))
         IN  /\ list \in Seq(ListRow) /\ EachOnce(list)
             /\ AllOf(rows, f) => AllOf(list, f)
<1> DEFINE more == RowsOf(page, f)
<1>1. /\ more \in Seq(ListRow) /\ AllOf(more, f) /\ Len(more) <= 1
  BY PageRows
<1> DEFINE Right(list) == /\ list \in Seq(ListRow) /\ EachOnce(list)
                          /\ AllOf(rows, f) => AllOf(list, f)
<1> HIDE DEF more
<1>2. ASSUME Repeats(more) PROVE Right(Appended(more))
  BY <1>2 DEF Appended
<1>3. ASSUME ~Repeats(more) PROVE Right(Appended(more))
  <2>1. /\ rows \o more \in Seq(ListRow) /\ Len(rows \o more) = Len(rows) + Len(more)
        /\ Len(more) \in Nat /\ Len(rows) \in Nat
    BY <1>1
  <2>2. \A i \in DOMAIN (rows \o more) :
          \/ i \in DOMAIN rows /\ (rows \o more)[i] = rows[i]
          \/ i = Len(rows) + 1 /\ 1 \in DOMAIN more /\ (rows \o more)[i] = more[1]
    BY <1>1, <2>1
  <2>3. \A i \in DOMAIN rows : 1 \in DOMAIN more => rows[i].mayor # more[1].mayor
    BY <1>3 DEF Repeats
  <2>4. EachOnce(rows \o more)
    BY <2>2, <2>3 DEF EachOnce
  <2>5. AllOf(rows, f) => AllOf(rows \o more, f)
    BY <1>1, <2>2 DEF AllOf
  <2> QED  BY <1>3, <2>1, <2>4, <2>5 DEF Appended
<1> QED  BY <1>2, <1>3 DEF more

LEMMA ListStart == ListInit => ListInv
BY DEF ListInit, ListInv, ListTyped, EachOnce, AllOf

LEMMA FilterKeeps ==
  ASSUME ListInv, NEW f \in Filters, ChangesFilter(f)
  PROVE  ListInv'
<1>1. \A q \in questions : q.mine \in Nat /\ q.mine < latest'
  BY DEF ListInv, ListTyped, ListAsked, ChangesFilter
<1>2. ListTyped'
  BY DEF ListInv, ListTyped, ListAsked, ChangesFilter
<1> QED  BY <1>1, <1>2 DEF ListInv, ListTyped, ChangesFilter, EachOnce, AllOf

LEMMA QuestionsKeep ==
  ASSUME ListInv, AsksList \/ LoadNext \/ RetriesList
  PROVE  ListInv'
<1>1. \A k \in {"list", "page", "retry"} :
        /\ ListAsked(Question(k)) /\ Question(k).kind = k /\ Question(k).mine = latest
        /\ Question(k).of = filter
  BY DEF Question, ListInv, ListTyped, ListAsked
<1> DEFINE Asking(k) == /\ questions' = questions \union {Question(k)}
                        /\ UNCHANGED <<filter, rows, latest, interrupted>>
<1>2. ASSUME NEW k \in {"list", "page", "retry"}, Asking(k)
      PROVE  /\ ListTyped' /\ EachOnce(rows)'
             /\ \A q \in questions' : q.mine = latest' => q.of = filter'
  BY <1>1, <1>2 DEF ListInv, ListTyped, ListAsked, EachOnce
<1>3. CASE AsksList
  <2>1. Asking("list") /\ UNCHANGED <<failed, listLoading>>
    BY <1>3 DEF AsksList
  <2> QED  BY <1>1, <1>2, <2>1 DEF ListInv, AllOf
<1>4. CASE LoadNext
  <2>1. Asking("page") /\ ~listLoading /\ listLoading' /\ failed' = failed
    BY <1>4 DEF LoadNext
  <2> QED  BY <1>1, <1>2, <2>1 DEF ListInv, AllOf
<1>5. CASE RetriesList
  <2>1. Asking("retry") /\ interrupted
    BY <1>5 DEF RetriesList, ListInv
  <2> QED  BY <1>2, <2>1 DEF ListInv
<1> QED  BY <1>3, <1>4, <1>5

LEMMA ListAnswersKeep ==
  ASSUME ListInv, NEW c \in questions, ListAnswers(c)
  PROVE  ListInv'
<1>1. /\ questions' = questions \ {c} /\ UNCHANGED <<filter, latest, interrupted>>
      /\ ListAsked(c)
  BY DEF ListAnswers, ListInv, ListTyped
<1>2. CASE ~Heeded(c)
  BY <1>1, <1>2 DEF ListAnswers, ListInv, ListTyped, ListAsked, EachOnce, AllOf
<1>3. CASE Heeded(c)
  <2>1. PICK page \in Pages, more \in BOOLEAN :
          /\ rows' = IF c.kind = "page" THEN Appended(RowsOf(page, c.of)) ELSE RowsOf(page, c.of)
          /\ failed' = IF c.kind = "list" THEN NoFilter ELSE failed
          /\ listLoading' = (c.kind = "retry" /\ listLoading)
    BY <1>3 DEF ListAnswers
  <2>2. /\ rows' \in Seq(ListRow) /\ EachOnce(rows')
        /\ c.kind # "page" => AllOf(rows', c.of)
        /\ AllOf(rows, c.of) => AllOf(rows', c.of)
    <3>1. c.of \in Filters /\ rows \in Seq(ListRow) /\ EachOnce(rows)
      BY <1>1 DEF ListAsked, ListInv, ListTyped
    <3> QED  BY <2>1, <3>1, PageRows, AppendedRows
  <2>3. ListTyped' /\ EachOnce(rows)'
    BY <1>1, <2>2 DEF ListInv, ListTyped, ListAsked, EachOnce
  <2>4. ~interrupted => c.kind # "retry" /\ c.of = filter /\ AllOf(rows', filter)
    <3> SUFFICES ASSUME ~interrupted PROVE c.kind # "retry" /\ c.of = filter /\ AllOf(rows', filter)
      OBVIOUS
    <3>1. c.kind # "retry" /\ c.mine = latest /\ c.of = filter
      BY <1>3 DEF ListInv, Heeded
    <3>2. c.kind = "page" => AllOf(rows, filter)
      BY <3>1 DEF ListInv
    <3> QED  BY <2>2, <3>1, <3>2
  <2>5. ~interrupted => failed' = NoFilter
    BY <2>1 DEF ListInv
  <2> QED  BY <1>1, <2>3, <2>4, <2>5 DEF ListInv, AllOf
<1> QED  BY <1>2, <1>3

LEMMA ListFailsKeep ==
  ASSUME ListInv, NEW c \in questions, ListFails(c)
  PROVE  ListInv'
<1>1. questions' = questions \ {c} /\ UNCHANGED <<filter, rows, latest>>
  BY DEF ListFails
<1>2. /\ ListTyped' /\ EachOnce(rows)'
      /\ \A q \in questions' : q.mine = latest' => q.of = filter'
  BY <1>1 DEF ListInv, ListTyped, ListAsked, EachOnce
<1>3. CASE Heeded(c)
  BY <1>2, <1>3 DEF ListFails, ListInv
<1>4. CASE ~Heeded(c)
  BY <1>1, <1>2, <1>4 DEF ListFails, ListInv, AllOf
<1> QED  BY <1>3, <1>4

\* Every behaviour of the list keeps it.
THEOREM ListInOrder == ListSpec => []ListInv
<1>1. ListInv /\ [ListNext]_listVars => ListInv'
  <2> SUFFICES ASSUME ListInv, [ListNext]_listVars PROVE ListInv'
    OBVIOUS
  <2>1. CASE UNCHANGED listVars
    BY <2>1 DEF listVars, ListInv, ListTyped, ListAsked, EachOnce, AllOf
  <2>2. CASE ListNext
    BY <2>2, FilterKeeps, QuestionsKeep, ListAnswersKeep, ListFailsKeep DEF ListNext
  <2> QED  BY <2>1, <2>2
<1> QED  BY <1>1, ListStart, PTL DEF ListSpec

\* A list at rest shows each mayor once, and only those the filter on screen asked
\* for, whatever the order of the answers, until a question fails (TeamMayors.tsx).
THEOREM ListIsAlwaysOfItsFilter == ListSpec => []ListIsOfItsFilter
<1>1. ListInv => ListIsOfItsFilter
  BY DEF ListInv, ListIsOfItsFilter, EachOnce, AllOf
<1> QED  BY <1>1, ListInOrder, PTL

-----------------------------------------------------------------------------

(* Management *)

Lists == [Requests -> States]
ManageKinds == {"reload", "open", "draw", "decide", "change"}
Guards == {"open", "draw", "decide", NoGuard}
Verdicts == {"accepted", "refused"}

ManageCallType ==
  [kind : ManageKinds, about : Requests \cup Teams \cup {Nothing}, guard : Guards, number : Nat,
   verdict : States, stage : {"asked", "done", "refused"}, saw : Lists \cup {Nothing},
   mine : BOOLEAN]

\* What a call is about, and what its answer is worth by now.
Sensible(c) ==
  /\ c \in ManageCallType
  /\ c.kind \in {"open", "draw"} => c.about = Nothing
  /\ c.kind = "decide" => c.about \in Requests /\ c.verdict \in Verdicts
  /\ c.kind = "decide" /\ c.stage = "done" => requests[c.about] # "pending"
  /\ c.kind = "reload" /\ c.stage = "done" => c.saw \in Lists
  /\ c.mine /\ c.kind # "reload" => data \in Lists
  /\ ~raced /\ c.mine /\ c.kind = "reload" /\ c.stage = "done" =>
       \A k \in created : k.of \in Requests => c.saw[k.of] # "pending"

\* The password of a request is of one the server has decided, and so has the
\* screen.
Agreed(k) ==
  k.of \in Requests =>
    /\ requests[k.of] # "pending"
    /\ ~raced /\ data \in Lists => data[k.of] # "pending"

Typed == requests \in Lists /\ data \in Lists \cup {Nothing} /\ begun \in Nat

ManageInv ==
  /\ Typed
  /\ \A c \in calls : Sensible(c)
  /\ \A k \in created : Agreed(k)
  /\ unnoted \subseteq created \cup abandoned
  /\ NoGuardIsLeftHeld

\* A call that begins, under its guard or none.
LEMMA BeginsKeeps ==
  ASSUME ManageInv, NEW c, Begins(c), Sensible(c), c.mine,
         c.stage = "asked", held' \subseteq held \cup {c.guard},
         UNCHANGED <<requests, data, created, ghostVars>>
  PROVE  ManageInv'
<1> USE DEF ghostVars
<1>1. begun' = begun + 1 /\ calls' = calls \cup {c}
  BY DEF Begins
<1>2. Typed'
  BY <1>1 DEF ManageInv, Typed
<1>3. \A d \in calls' : Sensible(d)'
  BY <1>1 DEF ManageInv, Sensible
<1>4. (\A k \in created : Agreed(k))' /\ (unnoted \subseteq created \cup abandoned)'
  BY DEF ManageInv, Agreed
<1>5. NoGuardIsLeftHeld'
  BY <1>1 DEF ManageInv, NoGuardIsLeftHeld
<1> QED  BY <1>2, <1>3, <1>4, <1>5 DEF ManageInv

LEMMA CallFields ==
  ASSUME ManageInv, NEW kind \in ManageKinds, NEW about \in Requests \cup Teams \cup {Nothing},
         NEW guard \in Guards
  PROVE  /\ Asked(kind, about, guard) \in ManageCallType
         /\ Asked(kind, about, guard).kind = kind /\ Asked(kind, about, guard).about = about
         /\ Asked(kind, about, guard).guard = guard /\ Asked(kind, about, guard).stage = "asked"
         /\ Asked(kind, about, guard).mine
         /\ Asked(kind, about, guard).verdict = "pending"
BY DEF ManageInv, Typed, Asked, ManageCallType, States

LEMMA PressesKeep ==
  ASSUME ManageInv,
         \/ Mounts
         \/ \E kind \in {"open", "draw"} : Draws(kind)
         \/ \E t \in Teams \cup {Nothing} : Changes(t) \/ EditsTeam(t)
         \/ \E r \in Requests : Ticks(r)
         \/ \E k \in created : Notes(k)
  PROVE  ManageInv'
<1> USE DEF ManageKinds, Guards, ghostVars
<1>1. CASE Mounts
  <2>1. PICK c : c = Asked("reload", Nothing, NoGuard)
    OBVIOUS
  <2>2. /\ c \in ManageCallType /\ c.kind = "reload" /\ c.stage = "asked" /\ c.mine
    BY <2>1, CallFields
  <2>3. Begins(c) /\ UNCHANGED <<requests, data, held, created, ghostVars>>
    BY <1>1, <2>1 DEF Mounts
  <2>4. Sensible(c)
    BY <2>2 DEF Sensible
  <2> QED  BY <2>2, <2>3, <2>4, BeginsKeeps
<1>2. ASSUME NEW kind \in {"open", "draw"}, Draws(kind)
      PROVE  ManageInv'
  <2>1. PICK c : c = Asked(kind, Nothing, kind)
    OBVIOUS
  <2>2. /\ c \in ManageCallType /\ c.kind = kind /\ c.guard = kind /\ c.about = Nothing
        /\ c.stage = "asked" /\ c.mine
    BY <2>1, CallFields
  <2>3. /\ Begins(c) /\ held' = held \cup {kind} /\ data # Nothing
        /\ UNCHANGED <<requests, data, created, ghostVars>>
    BY <1>2, <2>1 DEF Draws
  <2>4. Sensible(c)
    BY <2>2, <2>3 DEF Sensible, ManageInv, Typed
  <2> QED  BY <2>2, <2>3, <2>4, BeginsKeeps
<1>3. ASSUME NEW t \in Teams \cup {Nothing}, Changes(t)
      PROVE  ManageInv'
  <2>1. PICK c : c = Asked("change", t, NoGuard)
    OBVIOUS
  <2>2. c \in ManageCallType /\ c.kind = "change" /\ c.stage = "asked" /\ c.mine
    BY <2>1, CallFields
  <2>3. Begins(c) /\ data # Nothing /\ UNCHANGED <<requests, data, held, created, ghostVars>>
    BY <1>3, <2>1 DEF Changes
  <2>4. Sensible(c)
    BY <2>2, <2>3 DEF Sensible, ManageInv, Typed
  <2> QED  BY <2>2, <2>3, <2>4, BeginsKeeps
<1>4. ASSUME NEW t \in Teams \cup {Nothing}, EditsTeam(t)
      PROVE  ManageInv'
  BY <1>4 DEF EditsTeam, ManageInv, Typed, Sensible, Agreed, NoGuardIsLeftHeld
<1>5. ASSUME NEW r \in Requests, Ticks(r)
      PROVE  ManageInv'
  BY <1>5 DEF Ticks, ManageInv, Typed, Sensible, Agreed, NoGuardIsLeftHeld
<1>6. ASSUME NEW k \in created, Notes(k)
      PROVE  ManageInv'
  BY <1>6 DEF Notes, ManageInv, Typed, Sensible, Agreed, NoGuardIsLeftHeld
<1> QED  BY <1>1, <1>2, <1>3, <1>4, <1>5, <1>6

\* The guard of a decision is taken with its call, or not at all.
LEMMA DecidesKeeps ==
  ASSUME ManageInv, NEW r \in Requests, NEW verdict \in Verdicts, Decides(r, verdict)
  PROVE  ManageInv'
<1> USE DEF ghostVars
<1>1. CASE Confirmed(r, verdict)
  <2>1. PICK d : d = Asked("decide", r, "decide")
    OBVIOUS
  <2>2. PICK c : c = [d EXCEPT !.verdict = verdict]
    OBVIOUS
  <2>3. d \in ManageCallType /\ d.kind = "decide" /\ d.guard = "decide" /\ d.about = r
        /\ d.stage = "asked" /\ d.mine
    BY <2>1, CallFields DEF ManageKinds, Guards
  <2>4. c \in ManageCallType /\ c.kind = "decide" /\ c.guard = "decide" /\ c.about = r
        /\ c.stage = "asked" /\ c.mine /\ c.verdict = verdict
    BY <2>2, <2>3 DEF ManageCallType, States, Verdicts
  <2>5. /\ Begins(c) /\ held' = held \cup {"decide"} /\ data # Nothing
        /\ UNCHANGED <<requests, data, created, ghostVars>>
    BY <1>1, <2>1, <2>2 DEF Decides, GuardAfter
  <2>6. Sensible(c)
    BY <2>4, <2>5 DEF Sensible, ManageInv, Typed
  <2> QED  BY <2>4, <2>5, <2>6, BeginsKeeps
<1>2. CASE ~Confirmed(r, verdict)
  BY <1>2 DEF Decides, GuardAfter, ManageInv, Typed, Sensible, Agreed, NoGuardIsLeftHeld
<1> QED  BY <1>1, <1>2

-----------------------------------------------------------------------------
\* The server, and who else decides: a request decided stays decided.
LEMMA DecidedStays ==
  ASSUME ManageInv, NEW r \in Requests, NEW verdict \in Verdicts,
         requests' = [requests EXCEPT ![r] = verdict]
  PROVE  requests' \in Lists /\ requests'[r] # "pending"
         /\ \A q \in Requests : requests[q] # "pending" => requests'[q] # "pending"
BY DEF ManageInv, Typed, Lists, States, Verdicts

\* The calls, one of them answered by the server or lost.
LEMMA ServedKeeps ==
  ASSUME ManageInv, NEW c \in calls, NEW d, Sensible(d)', d.mine = c.mine, d.guard = c.guard,
         calls' = (calls \ {c}) \cup {d}, requests' \in Lists,
         \A q \in Requests : requests[q] # "pending" => requests'[q] # "pending",
         UNCHANGED <<data, held, begun, created, ghostVars>>
  PROVE  ManageInv'
<1> USE DEF ghostVars
<1>1. \A e \in calls : Sensible(e)'
  BY DEF ManageInv, Sensible
<1>2. \A e \in calls' : Sensible(e)'
  BY <1>1
<1>3. (\A k \in created : Agreed(k))'
  BY DEF ManageInv, Agreed
<1>4. NoGuardIsLeftHeld'
  BY DEF ManageInv, NoGuardIsLeftHeld
<1> QED  BY <1>2, <1>3, <1>4 DEF ManageInv, Typed

LEMMA ServerKeeps ==
  ASSUME ManageInv, NEW c \in calls, ServesCall(c) \/ CallFails(c)
  PROVE  ManageInv'
<1> USE DEF ghostVars
<1>1. Sensible(c) /\ c \in ManageCallType
  BY DEF ManageInv, Sensible
<1>2. CASE CallFails(c)
  <2>1. PICK d : d = [c EXCEPT !.stage = "refused"]
    OBVIOUS
  <2>2. /\ d \in ManageCallType /\ d.mine = c.mine /\ d.guard = c.guard /\ d.stage = "refused"
        /\ d.kind = c.kind /\ d.about = c.about /\ d.verdict = c.verdict
    BY <1>1, <2>1 DEF ManageCallType
  <2>3. /\ calls' = (calls \ {c}) \cup {d}
        /\ UNCHANGED <<requests, data, held, begun, created, ghostVars>>
    BY <1>2, <2>1 DEF CallFails
  <2>4. Sensible(d)'
    BY <1>1, <2>2, <2>3 DEF Sensible
  <2>5. requests \in Lists
    BY DEF ManageInv, Typed
  <2> QED  BY <2>2, <2>3, <2>4, <2>5, ServedKeeps
<1>3. CASE ServesCall(c)
  <2> DEFINE settled == c.kind = "decide" /\ requests[c.about] # "pending"
  <2>1. PICK d : d = [c EXCEPT !.stage = IF settled THEN "refused" ELSE "done",
                               !.saw = IF c.kind = "reload" THEN requests ELSE Nothing]
    OBVIOUS
  <2>2. requests \in Lists
    BY DEF ManageInv, Typed
  <2>3. /\ d \in ManageCallType /\ d.mine = c.mine /\ d.guard = c.guard
        /\ d.kind = c.kind /\ d.about = c.about /\ d.verdict = c.verdict
        /\ d.kind = "reload" => d.saw = requests
    BY <1>1, <2>1, <2>2 DEF ManageCallType
  <2>4. /\ calls' = (calls \ {c}) \cup {d}
        /\ UNCHANGED <<data, held, begun, created, ghostVars>>
    BY <1>3, <2>1 DEF ServesCall
  <2>5. /\ requests' \in Lists
        /\ \A q \in Requests : requests[q] # "pending" => requests'[q] # "pending"
        /\ c.kind = "decide" => requests'[c.about] # "pending"
    <3>1. CASE c.kind = "decide" /\ requests[c.about] = "pending"
      <4>1. requests' = [requests EXCEPT ![c.about] = c.verdict] /\ c.about \in Requests
            /\ c.verdict \in Verdicts
        BY <1>1, <1>3, <3>1 DEF ServesCall, Sensible
      <4> QED  BY <4>1, DecidedStays
    <3>2. CASE ~(c.kind = "decide" /\ requests[c.about] = "pending")
      BY <1>3, <2>2, <3>2 DEF ServesCall
    <3> QED  BY <3>1, <3>2
  <2>6. \A k \in created : k.of \in Requests => requests[k.of] # "pending"
    BY DEF ManageInv, Agreed
  <2>7. Sensible(d)'
    BY <1>1, <2>2, <2>3, <2>4, <2>5, <2>6 DEF Sensible
  <2> QED  BY <2>3, <2>4, <2>5, <2>7, ServedKeeps
<1> QED  BY <1>2, <1>3

LEMMA OthersKeep ==
  ASSUME ManageInv,
         \/ \E r \in Requests, verdict \in Verdicts : AnotherModerator(r, verdict)
         \/ \E c \in calls : AnswersNoScreen(c)
         \/ Leaves
  PROVE  ManageInv'
<1> USE DEF ghostVars
<1>1. ASSUME NEW r \in Requests, NEW verdict \in Verdicts, AnotherModerator(r, verdict)
      PROVE  ManageInv'
  <2>1. /\ requests' = [requests EXCEPT ![r] = verdict]
        /\ UNCHANGED <<data, held, calls, begun, created, ghostVars>>
    BY <1>1 DEF AnotherModerator
  <2>2. requests' \in Lists /\ \A q \in Requests : requests[q] # "pending" => requests'[q] # "pending"
    BY <2>1, DecidedStays
  <2>3. \A e \in calls : Sensible(e)'
    BY <2>1, <2>2 DEF ManageInv, Sensible
  <2> QED  BY <2>1, <2>2, <2>3 DEF ManageInv, Typed, Agreed, NoGuardIsLeftHeld
<1>2. ASSUME NEW c \in calls, AnswersNoScreen(c)
      PROVE  ManageInv'
  BY <1>2 DEF AnswersNoScreen, Drawn, ManageInv, Typed, Sensible, Agreed, NoGuardIsLeftHeld
<1>3. CASE Leaves
  <2>1. /\ data' = Nothing /\ held' = {} /\ created' = {} /\ UNCHANGED <<requests, begun>>
        /\ abandoned' = abandoned \cup created /\ unnoted' = unnoted
        /\ calls' = {[c EXCEPT !.mine = FALSE] : c \in calls}
    BY <1>3 DEF Leaves
  <2>2. ASSUME NEW c \in calls, NEW d, d = [c EXCEPT !.mine = FALSE]
        PROVE  Sensible(d)'
    <3>1. Sensible(c) /\ c \in ManageCallType
      BY DEF ManageInv, Sensible
    <3>2. /\ d \in ManageCallType /\ ~d.mine /\ d.kind = c.kind /\ d.about = c.about
          /\ d.verdict = c.verdict /\ d.stage = c.stage /\ d.saw = c.saw
      BY <2>2, <3>1 DEF ManageCallType
    <3> QED  BY <2>1, <3>1, <3>2 DEF Sensible
  <2>3. \A d \in calls' : Sensible(d)'
    BY <2>1, <2>2
  <2>4. unnoted' \subseteq created' \cup abandoned'
    BY <2>1 DEF ManageInv
  <2> QED  BY <2>1, <2>3, <2>4 DEF ManageInv, Typed, NoGuardIsLeftHeld
<1> QED  BY <1>1, <1>2, <1>3

-----------------------------------------------------------------------------
\* The answers

\* A reload that lands shows what it saw; a refusal shows nothing.
LEMMA EndsKeep ==
  ASSUME ManageInv, NEW c \in calls, ReloadLands(c) \/ Refuses(c)
  PROVE  ManageInv'
<1> USE DEF ghostVars
<1>1. /\ calls' = calls \ {c} /\ held' = held \ {c.guard} /\ c.mine
      /\ UNCHANGED <<requests, begun, created, ghostVars>>
  BY DEF ReloadLands, Refuses
<1>2. NoGuardIsLeftHeld'
  BY <1>1 DEF ManageInv, NoGuardIsLeftHeld
<1>3. CASE Refuses(c)
  <2>1. data' = data
    BY <1>3 DEF Refuses
  <2> QED  BY <1>1, <1>2, <2>1 DEF ManageInv, Typed, Sensible, Agreed
<1>4. CASE ReloadLands(c)
  <2>1. /\ data' = c.saw /\ c.saw \in Lists
        /\ ~raced => \A k \in created : k.of \in Requests => c.saw[k.of] # "pending"
    BY <1>4 DEF ReloadLands, ManageInv, Sensible
  <2>2. \A d \in calls' : Sensible(d)'
    BY <1>1, <2>1 DEF ManageInv, Sensible
  <2>3. (\A k \in created : Agreed(k))'
    BY <1>1, <2>1 DEF ManageInv, Agreed
  <2> QED  BY <1>1, <1>2, <2>1, <2>2, <2>3 DEF ManageInv, Typed
<1> QED  BY <1>3, <1>4

\* A list that is appended to loses no password; the answer of an acceptance
\* takes its request out of the pending ones on screen, and an older list that
\* could put it back is a race.
LEMMA ManageAnswersKeep ==
  ASSUME ManageInv, Nothing \notin Requests, NEW c \in calls, ActAnswers(c)
  PROVE  ManageInv'
<1> USE DEF ghostVars
<1>1. /\ c.stage = "done" /\ c.mine /\ c.kind # "reload"
      /\ created' = IF Opens(c) THEN created \cup {Card(c)} ELSE created
      /\ unnoted' = unnoted \cup Drawn(c) /\ created' = created \cup Drawn(c)
      /\ abandoned' = abandoned
      /\ data' = IF c.kind = "decide" THEN [data EXCEPT ![c.about] = c.verdict] ELSE data
      /\ raced' = (raced \/ (c.kind = "decide" /\ \E d \in calls : d.mine /\ d.kind = "reload"))
      /\ UNCHANGED <<requests, begun>>
  BY DEF ActAnswers, Shown, Drawn, Decided
<1>2. Sensible(c) /\ c \in ManageCallType /\ data \in Lists
  BY <1>1 DEF ManageInv, Sensible
<1>3. data' \in Lists /\ (c.kind = "decide" => data'[c.about] = c.verdict)
      /\ \A q \in Requests : data'[q] = data[q] \/ (c.kind = "decide" /\ q = c.about)
  BY <1>1, <1>2 DEF Sensible, Lists, States, Verdicts
<1>4. unnoted' \subseteq created' \cup abandoned'
  BY <1>1 DEF ManageInv
<1>5. \A k \in created' : k \in created \/ (Opens(c) /\ k = Card(c))
  BY <1>1
<1>6. Card(c).of = c.about
  BY DEF Card
<1>7. Opens(c) /\ c.about \in Requests =>
        c.kind = "decide" /\ c.verdict = "accepted" /\ requests[c.about] # "pending"
  BY <1>1, <1>2 DEF Opens, Sensible
<1>8. ASSUME NEW k \in created'
      PROVE  Agreed(k)'
  <2>1. CASE k \in created
    <3>1. Agreed(k)
      BY <2>1 DEF ManageInv
    <3>2. raced => raced'
      BY <1>1
    <3>3. c.kind = "decide" => c.verdict # "pending"
      BY <1>2 DEF Sensible, Verdicts
    <3>4. k.of \in Requests /\ ~raced => data[k.of] # "pending"
      BY <1>2, <3>1 DEF Agreed
    <3>5. k.of \in Requests /\ ~raced' => data'[k.of] # "pending"
      BY <1>3, <3>2, <3>3, <3>4
    <3> QED  BY <1>1, <3>1, <3>5 DEF Agreed
  <2>2. CASE Opens(c) /\ k = Card(c)
    BY <1>1, <1>3, <1>6, <1>7, <2>2 DEF Agreed
  <2> QED  BY <1>5, <2>1, <2>2
<1>9. \A d \in calls : Sensible(d)'
  <2> SUFFICES ASSUME NEW d \in calls PROVE Sensible(d)'
    OBVIOUS
  <2>1. Sensible(d)
    BY DEF ManageInv
  <2>2. ASSUME ~raced', d.mine, d.kind = "reload", d.stage = "done", NEW k \in created', k.of \in Requests
        PROVE  d.saw[k.of] # "pending"
    <3>1. ~raced /\ c.kind # "decide"
      BY <1>1, <2>2
    <3>2. k \in created
      BY <1>2, <1>5, <1>6, <2>2, <3>1 DEF Opens, Sensible
    <3> QED  BY <2>1, <2>2, <3>1, <3>2 DEF Sensible
  <2> QED  BY <1>1, <1>3, <2>1, <2>2 DEF Sensible
<1>10. CASE c.kind = "draw"
  <2>1. calls' = calls \ {c} /\ held' = held \ {c.guard}
    BY <1>10 DEF ActAnswers
  <2>2. NoGuardIsLeftHeld'
    BY <2>1 DEF ManageInv, NoGuardIsLeftHeld
  <2>3. \A d \in calls' : Sensible(d)'
    BY <1>9, <2>1
  <2> QED  BY <1>1, <1>3, <1>4, <1>8, <2>2, <2>3 DEF ManageInv, Typed
<1>11. CASE c.kind # "draw"
  <2>1. PICK b : b = Asked("reload", Nothing, c.guard)
    OBVIOUS
  <2>2. PICK d : d = [b EXCEPT !.number = c.number]
    OBVIOUS
  <2>3. b \in ManageCallType /\ b.kind = "reload" /\ b.stage = "asked" /\ b.mine /\ b.guard = c.guard
    BY <1>2, <2>1, CallFields DEF ManageKinds, ManageCallType
  <2>4. d \in ManageCallType /\ d.kind = "reload" /\ d.stage = "asked" /\ d.mine /\ d.guard = c.guard
    BY <1>2, <2>2, <2>3 DEF ManageCallType
  <2>5. calls' = (calls \ {c}) \cup {d} /\ held' = held
    BY <1>11, <2>1, <2>2 DEF ActAnswers
  <2>6. Sensible(d)'
    BY <2>4 DEF Sensible
  <2>7. NoGuardIsLeftHeld'
    BY <2>4, <2>5 DEF ManageInv, NoGuardIsLeftHeld
  <2>8. \A e \in calls' : Sensible(e)'
    BY <1>9, <2>5, <2>6
  <2> QED  BY <1>1, <1>3, <1>4, <1>8, <2>7, <2>8 DEF ManageInv, Typed
<1> QED  BY <1>10, <1>11

-----------------------------------------------------------------------------
\* What the screens that open accesses keep true through every press, answer
\* and reload (TeamAdmin.tsx, InstanceModeration.tsx).
THEOREM ManagementInOrder ==
  ManageSpec => []ManageInv
<1>1. Nothing \notin Requests
  BY ManagementAssumption
<1>2. ManageInit => ManageInv
  BY DEF ManageInit, ManageInv, Typed, Lists, States, NoGuardIsLeftHeld
<1>3. ManageInv /\ [ManageNext]_manageVars => ManageInv'
  <2> SUFFICES ASSUME ManageInv, [ManageNext]_manageVars PROVE ManageInv'
    OBVIOUS
  <2>1. CASE UNCHANGED manageVars
    BY <2>1 DEF manageVars, ghostVars, ManageInv, Typed, Sensible, Agreed, NoGuardIsLeftHeld
  <2>2. CASE ManageNext
    BY <1>1, <2>2, PressesKeep, DecidesKeeps, ServerKeeps, OthersKeep, EndsKeep, ManageAnswersKeep
       DEF ManageNext, Verdicts
  <2> QED  BY <2>1, <2>2
<1> QED  BY <1>2, <1>3, PTL DEF ManageSpec

\* Each one-time password answered stands on the screen until it is noted, unless
\* the screen itself was left, and contradicts the list beside it only after a
\* race (TeamAdmin.tsx: « an append cannot lose one »).
THEOREM PasswordsAlwaysStand ==
  ManageSpec => []PasswordsStandUntilNoted
<1>1. ManageInv => PasswordsStandUntilNoted
  BY DEF ManageInv, Typed, PasswordsStandUntilNoted, Contradicted, Agreed
<1> QED  BY <1>1, ManagementInOrder, PTL

\* No guard outlives its handler, whatever fails (decide, TeamAdmin.tsx).
THEOREM GuardsAreAlwaysGivenBack ==
  ManageSpec => []NoGuardIsLeftHeld
<1>1. ManageInv => NoGuardIsLeftHeld
  BY DEF ManageInv
<1> QED  BY <1>1, ManagementInOrder, PTL
=============================================================================
