------------------------------- MODULE Doors -------------------------------
(* How a session opens and closes on one browser, on a computer several volunteers use:      *)
(* the mode found at load (App.tsx), the sign-in link's token taken out of the address bar   *)
(* (main.tsx, api.ts), the form (Connexion.tsx), and the team screen that keeps the unsent   *)
(* words of whoever is signed in (Team.tsx).                                                 *)
EXTENDS FiniteSets

CONSTANTS Accounts, Nobody

ASSUME DoorsAssumption == Nobody \notin Accounts /\ IsFiniteSet(Accounts)

VARIABLES
  reader,     \* who sits at the computer
  mode,       \* the screen App renders: "loading", "outage", "browser" or "team"
  pending,    \* the token main.tsx took: the account it opens, or Nobody
  stale,      \* it was taken more than VISIT ago
  cookie,     \* the account whose session the browser holds and the server honours
  boot,       \* Team's own load: "asleep", "redeeming", "restoring", "ready"
  redeemed,   \* the token it consumed
  signedIn,   \* the account on screen, or Nobody for the form
  last,       \* lastAccount: whose session this page last showed
  unsent,     \* whose words cardDrafts holds
  busy,       \* the form's request in flight: Nobody, or the account that signs in
  asked,      \* the accounts some call was made for and has not answered
  saving,     \* those on whose behalf the messages' texts are being saved
  revived     \* GHOST: an answer put on screen an account other than the last seen

textVars == <<saving, revived>>
pageVars ==
  <<mode, pending, stale, boot, redeemed, signedIn, last, unsent, busy, asked, textVars>>
doorVars == <<reader, cookie, pageVars>>

----------------------------------------------------------------------------
(* App: which mode. *)

\* A load of the page, with or without a link: nothing held in memory survives it.
Load(token) ==
  /\ mode' = "loading" /\ pending' = token /\ stale' = FALSE
  /\ boot' = "asleep" /\ redeemed' = Nobody /\ signedIn' = Nobody
  /\ last' = Nobody /\ unsent' = {} /\ busy' = Nobody /\ asked' = {}
  /\ saving' = {} /\ revived' = FALSE
  /\ UNCHANGED <<reader, cookie>>

OpensLink == Load(reader)
Reloads == Load(Nobody)

\* What the configuration call comes to: an outage on a page the API marked as its own, the
\* browser version on one it did not. (The screen of an instance opens its doors as Team does.)
Modes == {"outage", "browser", "team"}

\* A sign-in link that lands on a screen which cannot use it is dropped.
DetectMode(answer) ==
  /\ mode = "loading"
  /\ mode' = answer
  /\ pending' = IF answer \in {"outage", "browser"} THEN Nobody ELSE pending
  /\ UNCHANGED <<reader, cookie, stale, boot, redeemed, signedIn, last, unsent, busy, asked,
                 textVars>>

Retries ==
  /\ mode = "outage" /\ mode' = "loading"
  /\ UNCHANGED <<reader, cookie, pending, stale, boot, redeemed, signedIn, last, unsent,
                 busy, asked, textVars>>

\* Whoever leaves the computer as it stands is gone for longer than a visit.
SomebodyElseSitsDown ==
  /\ \E a \in Accounts \ {reader} : reader' = a
  /\ stale' = TRUE
  /\ UNCHANGED <<cookie, mode, pending, boot, redeemed, signedIn, last, unsent, busy, asked,
                 textVars>>

----------------------------------------------------------------------------
(* Team: the link, then the cookie. *)

\* The token, handed over exactly once, and good for this visit.
Usable == IF stale THEN Nobody ELSE pending

Boots ==
  /\ mode = "team" /\ boot = "asleep"
  /\ redeemed' = Usable /\ pending' = Nobody
  /\ boot' = IF redeemed' # Nobody THEN "redeeming" ELSE "restoring"
  /\ UNCHANGED <<reader, cookie, mode, stale, signedIn, last, unsent, busy, asked, textVars>>

\* Bug: only the form remembers whose words these are.
ShowsUnseeded(a) == signedIn' = a /\ UNCHANGED last

\* The session on screen, and whose it was: seeded at every door.
Shows(a) == signedIn' = a /\ last' = a

LinkOpens ==
  /\ boot = "redeeming"
  /\ cookie' = redeemed /\ Shows(redeemed) /\ boot' = "ready"
  /\ UNCHANGED <<reader, mode, pending, stale, redeemed, unsent, busy, asked, textVars>>

\* Expired, used, closed, or never answered: said, and the cookie has its turn.
LinkRefused ==
  /\ boot = "redeeming" /\ boot' = "restoring"
  /\ UNCHANGED <<reader, cookie, mode, pending, stale, redeemed, signedIn, last, unsent,
                 busy, asked, textVars>>

Restores ==
  /\ boot = "restoring" /\ cookie # Nobody
  /\ Shows(cookie) /\ boot' = "ready"
  /\ UNCHANGED <<reader, cookie, mode, pending, stale, redeemed, unsent, busy, asked, textVars>>

\* No session, or no answer: the form, either way.
NoSession ==
  /\ boot = "restoring" /\ boot' = "ready"
  /\ UNCHANGED <<reader, cookie, mode, pending, stale, redeemed, signedIn, last, unsent,
                 busy, asked, textVars>>

----------------------------------------------------------------------------
(* The form, and the way out. *)

FormIsUp == boot = "ready" /\ signedIn = Nobody

\* One request at a time, told by a ref: the press, then its answer.
SubmitsForm ==
  /\ FormIsUp /\ busy = Nobody
  /\ busy' = reader
  /\ UNCHANGED <<reader, cookie, mode, pending, stale, boot, redeemed, signedIn, last,
                 unsent, asked, textVars>>

\* Not the same person as before: their drafts are not theirs.
SignedIn ==
  /\ FormIsUp /\ busy # Nobody
  /\ cookie' = busy
  /\ IF last # Nobody /\ last # busy
     THEN unsent' = {} /\ revived' = FALSE
     ELSE UNCHANGED <<unsent, revived>>
  /\ signedIn' = busy /\ last' = busy
  /\ busy' = Nobody
  /\ UNCHANGED <<reader, mode, pending, stale, boot, redeemed, asked, saving>>

\* A refusal, an outage, or the answer of a link asked for by email: the guard is released.
FormAnswers ==
  /\ busy # Nobody /\ busy' = Nobody
  /\ UNCHANGED <<reader, cookie, mode, pending, stale, boot, redeemed, signedIn, last,
                 unsent, asked, textVars>>

\* A rewritten email, a call note: held by the page for the account on screen.
WritesWords ==
  /\ signedIn # Nobody /\ unsent' = unsent \union {signedIn}
  /\ UNCHANGED <<reader, cookie, mode, pending, stale, boot, redeemed, signedIn, last, busy,
                 asked, textVars>>

\* Any call of a screen, on behalf of the session it shows.
Asks ==
  /\ signedIn # Nobody /\ asked' = asked \union {signedIn}
  /\ UNCHANGED <<reader, cookie, mode, pending, stale, boot, redeemed, signedIn, last,
                 unsent, busy, textVars>>

SessionEnds ==
  /\ cookie # Nobody /\ cookie' = Nobody
  /\ UNCHANGED <<reader, pageVars>>

\* What an answer comes to on the screen, for a call made on behalf of a: 401 to a session
\* that is over brings back the form, the drafts kept.
AfterCall(a) == IF cookie = a THEN {signedIn} ELSE {signedIn, Nobody}

Answered(a) ==
  /\ a \in asked /\ asked' = asked \ {a}
  /\ signedIn' \in AfterCall(a)
  /\ UNCHANGED <<reader, cookie, mode, pending, stale, boot, redeemed, last, unsent, busy, textVars>>

(* The form of the messages' texts, which holds the account it was drawn for. *)

SavesTexts ==
  /\ signedIn # Nobody /\ saving' = saving \union {signedIn}
  /\ UNCHANGED <<reader, cookie, mode, pending, stale, boot, redeemed, signedIn, last, unsent,
                 busy, asked, revived>>

\* Stored: the account the form was drawn for is put on screen with its texts, whoever is there
\* by now and whether or not anybody is (onMe is setMe, of the object the form captured).
TextsAnswer(a) ==
  /\ a \in saving /\ saving' = saving \ {a}
  /\ signedIn' = a
  /\ revived' = (revived \/ a # last)
  /\ UNCHANGED <<reader, cookie, mode, pending, stale, boot, redeemed, last, unsent, busy, asked>>

TextsRefused(a) ==
  /\ a \in saving /\ saving' = saving \ {a}
  /\ signedIn' \in AfterCall(a)
  /\ UNCHANGED <<reader, cookie, mode, pending, stale, boot, redeemed, last, unsent, busy, asked,
                 revived>>

\* Whether or not the server answered, the screen leaves and the drafts go.
SignsOut ==
  /\ signedIn # Nobody
  /\ cookie' \in {Nobody, cookie}
  /\ signedIn' = Nobody /\ unsent' = {} /\ revived' = FALSE
  /\ UNCHANGED <<reader, mode, pending, stale, boot, redeemed, last, busy, asked, saving>>

DoorsInit ==
  /\ reader \in Accounts /\ cookie \in Accounts \union {Nobody}
  /\ mode = "loading" /\ pending \in {reader, Nobody} /\ stale = FALSE
  /\ boot = "asleep" /\ redeemed = Nobody /\ signedIn = Nobody
  /\ last = Nobody /\ unsent = {} /\ busy = Nobody /\ asked = {}
  /\ saving = {} /\ revived = FALSE

DoorsNext ==
  \/ OpensLink \/ Reloads
  \/ \E answer \in Modes : DetectMode(answer)
  \/ Retries
  \/ SomebodyElseSitsDown
  \/ Boots \/ LinkOpens \/ LinkRefused \/ Restores \/ NoSession
  \/ SubmitsForm \/ SignedIn \/ FormAnswers
  \/ WritesWords \/ Asks \/ SessionEnds \/ SignsOut
  \/ \E a \in asked : Answered(a)
  \/ SavesTexts
  \/ \E a \in saving : TextsAnswer(a) \/ TextsRefused(a)

DoorsSpec == DoorsInit /\ [][DoorsNext]_doorVars

----------------------------------------------------------------------------

\* A token left waiting behind a page that hangs is not redeemed under the hands of whoever
\* sits down next (consumeLinkToken: « the session opens for the second person »).
LinksAreForTheirReader ==
  [][ (boot = "asleep" /\ boot' = "redeeming") => redeemed' = reader ]_doorVars

\* Unsent words about named mayors are on screen only for the account that wrote them,
\* whichever door each session came through and however the last one ended (Team.tsx:
\* « would otherwise hand Alice's card text to Bruno »). One answer escapes the doors: the
\* texts saved for an account that is no longer the last one seen bring it back on screen, over
\* whatever the next one was writing (TeamAdmin.tsx, onEnregistre); from then on, and until the
\* words are dropped, nothing is promised.
UnsentWordsStayWithTheirWriter ==
  signedIn # Nobody /\ ~revived => unsent \subseteq {signedIn}

\* The same without the exception, which the code does not keep: Alice saves the texts and loses
\* her session, Bruno signs in and writes, the answer brings Alice back beside Bruno's words.
UnsentWordsReachNobodyElse == signedIn # Nobody => unsent \subseteq {signedIn}
=============================================================================
