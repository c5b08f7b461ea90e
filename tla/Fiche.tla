------------------------------- MODULE Fiche -------------------------------
(* The card of a mayor (common.tsx), in the mode where it is hardest: the browser version    *)
(* swaps the mayor under a component that stays mounted, while acts asked on the previous    *)
(* one are still out, and another window writes the same store. Every line of a behaviour    *)
(* is of the same minute, which is when the lines of a history are hardest to tell apart.    *)
EXTENDS Integers, Sequences, SequencesExt, Statuts

CONSTANTS Mayors, None,
          CardTexts, Empty, \* what may be typed; Empty is a field with nothing in it
          AtFirst,          \* [Mayors -> Seq(CardLine)]: what the store holds at first
          MaxMoves,         \* how many times the volunteer types, chooses, presses or leaves
          MaxActs,          \* how many of these gestures begin an act
          MaxOthers,        \* how many times the other window writes
          MaxRenders        \* how many times what an email renders from changes

CardLine == [status : Statuses, note : CardTexts \union {Empty}]

\* Of any instance.
ASSUME FicheAssumption ==
  /\ None \notin Mayors /\ Empty \notin CardTexts
  /\ AtFirst \in [Mayors -> Seq(CardLine)]
  /\ {MaxMoves, MaxActs, MaxOthers, MaxRenders} \subseteq Nat

VARIABLES
  kept,        \* [Mayors -> Seq(CardLine)]: the history in IndexedDB, newest first
  history,     \* the same as this window last read it
  others, render, moves, begun,
  card,        \* the mayor on screen, or None when another tab is
  note,        \* the note being typed
  email,       \* "pristine", "rewritten" by hand, or "regenerated" under a rewrite
  drafts,      \* [Mayors -> Draft]: held by the parent, it outlives the card
  picked,      \* the status chosen in the select, and for whom
  active,      \* the line an editor or a question is open on
  correction,  \* what the open editor holds
  acts,        \* what is out: saves, revisions, copies
  said,        \* what the card says of the last act, and of whom
  owed,        \* GHOST: words typed about each mayor and filed nowhere
  choice       \* GHOST: the last status chosen on this card and not undone

records == <<kept, history>>
world == <<others, render>>
words == <<note, email, drafts, owed>>
select == <<picked, choice>>
editor == <<active, correction>>
ficheVars == <<records, world, moves, begun, card, words, select, editor, acts, said>>

NoPick == [who |-> None, value |-> ToContact]
NoChoice == [who |-> None, value |-> ToContact, after |-> 0]
\* A choice made now: it is of after the acts begun so far.
Choice(pick) == [who |-> pick.who, value |-> pick.value, after |-> begun]
NoAct == [verb |-> "none"]
Silence == [what |-> "", about |-> None]

----------------------------------------------------------------------------
(* What the card derives at each render. *)

carried == IF history[card] = <<>> THEN ToContact ELSE Head(history[card]).status

\* Bug: the pick stands wherever the card goes.
StatusOfAnyone == IF picked.who # None THEN picked.value ELSE carried

\* The pick stands on the person it was made for.
status == IF picked.who = card THEN picked.value ELSE carried

changed == status # carried

sameLine(a, b) == a.status = b.status

\* Where the aim sits now: the line it was taken on, else one that answers to it; 0 for gone.
aimedAt(lines, act) ==
  LET exact == {i \in DOMAIN lines : lines[i] = act.line}
      close == {i \in DOMAIN lines : sameLine(act.line, lines[i])}
      first(s) == CHOOSE i \in s : \A j \in s : i <= j
  IN  IF exact # {} THEN first(exact) ELSE IF close # {} THEN first(close) ELSE 0

\* The parent's store mirrors the fields at every render, under the render they are of.
Mirrored(m, text, mail, basis) ==
  [drafts EXCEPT ![m] = [note |-> text, touched |-> mail = "rewritten", basis |-> basis]]
freshEmail(m) ==
  IF ~drafts[m].touched THEN "pristine"
  ELSE IF drafts[m].basis = render THEN "rewritten" ELSE "regenerated"

Live(kind) == {c \in acts : c.kind = kind /\ c.live}
Superseded(calls) == {[c EXCEPT !.live = FALSE] : c \in calls}

----------------------------------------------------------------------------
(* The card comes, goes, and changes under the component. *)

Moves == moves < MaxMoves /\ moves' = moves + 1

\* Everything that belongs to a card leaves with it, and what is still out is superseded.
Opens(m) ==
  /\ m # card /\ Moves
  /\ card' = m
  /\ note' = drafts[m].note /\ email' = freshEmail(m)
  /\ drafts' = Mirrored(m, note', email', render)
  /\ owed' = [owed EXCEPT ![m].email = @ /\ email' # "regenerated"]
  /\ picked' = IF card = None THEN NoPick ELSE picked
  /\ choice' = IF picked'.who = m THEN Choice(picked') ELSE NoChoice
  /\ active' = NoAct /\ correction' = Empty /\ said' = Silence
  /\ acts' = Superseded(acts)
  /\ UNCHANGED <<records, world, begun>>

\* Any other tab unmounts it: the fields go, the parent's drafts stay.
Closes ==
  /\ card # None /\ Moves
  /\ card' = None
  /\ note' = Empty /\ email' = "pristine"
  /\ picked' = NoPick /\ choice' = NoChoice
  /\ active' = NoAct /\ correction' = Empty /\ said' = Silence
  /\ acts' = Superseded(acts)
  /\ UNCHANGED <<records, world, begun, drafts, owed>>

\* The campaign, its texts, or the volunteer's own touch change what an email renders to.
Rerenders ==
  /\ render < MaxRenders /\ render' = render + 1
  /\ IF card = None
     THEN UNCHANGED words
     ELSE /\ email' = IF email = "rewritten" THEN "regenerated" ELSE "pristine"
          /\ drafts' = Mirrored(card, note, email', render')
          /\ owed' = [owed EXCEPT ![card].email = FALSE]
          /\ UNCHANGED note
  /\ UNCHANGED <<records, others, moves, begun, card, select, editor, acts, said>>

----------------------------------------------------------------------------
(* What the volunteer does on it. *)

TypesNote(text) ==
  /\ card # None /\ text # note /\ Moves
  /\ note' = text
  /\ owed' = [owed EXCEPT ![card].note = text]
  /\ drafts' = Mirrored(card, text, email, render)
  /\ UNCHANGED <<records, world, begun, card, email, select, editor, acts, said>>

Rewrites ==
  /\ card # None /\ email # "rewritten" /\ Moves
  /\ email' = "rewritten"
  /\ owed' = [owed EXCEPT ![card].email = TRUE]
  /\ drafts' = Mirrored(card, note, "rewritten", render)
  /\ UNCHANGED <<records, world, begun, card, note, select, editor, acts, said>>

Picks(value) ==
  /\ card # None /\ value # status /\ Moves
  /\ picked' = [who |-> card, value |-> value]
  /\ choice' = Choice(picked')
  /\ UNCHANGED <<records, world, begun, card, words, editor, acts, said>>

\* One editor, one draft: opened on a line, over whatever was open.
OpensEditor(i) ==
  LET lines == history[card]
      abandons == /\ active.verb = "edit" /\ ~sameLine(active.line, lines[i])
                  /\ correction # lines[aimedAt(lines, active)].note
  IN  /\ (active # NoAct => aimedAt(lines, active) # i) /\ Moves
      /\ active' = [verb |-> "edit", line |-> lines[i], opened |-> begun]
      /\ correction' = lines[i].note
      /\ said' = IF abandons THEN [what |-> "abandoned", about |-> card] ELSE said
      /\ UNCHANGED <<records, world, begun, card, words, select, acts>>

\* The draft is only ever read by an editor: a question opens without one.
OpensQuestion(i) ==
  /\ (active # NoAct => aimedAt(history[card], active) # i) /\ Moves
  /\ active' = [verb |-> "delete", line |-> history[card][i], opened |-> begun]
  /\ correction' = Empty
  /\ UNCHANGED <<records, world, begun, card, words, select, acts, said>>

Corrects(text) ==
  /\ active.verb = "edit" /\ text # correction /\ Moves
  /\ correction' = text
  /\ UNCHANGED <<records, world, begun, card, words, select, active, acts, said>>

\* Not while the act is out: the request cannot be taken back.
Cancels ==
  /\ active # NoAct /\ Live("revision") = {} /\ Moves
  /\ active' = NoAct /\ correction' = Empty
  /\ UNCHANGED <<records, world, begun, card, words, select, acts, said>>

----------------------------------------------------------------------------
(* The acts: one of each kind at a time, numbered as they begin. *)

Begins(kind) ==
  /\ card # None /\ Live(kind) = {} /\ Moves
  /\ begun < MaxActs /\ begun' = begun + 1

\* What an act takes with it: whose card it is on, and what the press found there.
SaveAct == [kind |-> "save", who |-> card, live |-> TRUE, number |-> begun + 1,
            status |-> status, text |-> note]
RevisionAct(dropped) ==
  [kind |-> "revision", who |-> card, live |-> TRUE, number |-> begun + 1, from |-> active,
   at |-> aimedAt(history[card], active), text |-> correction, dropped |-> dropped]
CopyAct == [kind |-> "copy", who |-> card, live |-> TRUE, number |-> begun + 1]

\* « Enregistrer »: the status the select shows and the note, as the press finds them.
Saves ==
  /\ Begins("save")
  /\ note = Empty => changed
  /\ acts' = acts \union {SaveAct}
  /\ said' = Silence
  /\ UNCHANGED <<records, world, card, words, select, editor>>

\* Nothing to save is said, not written.
SavesNothing ==
  /\ card # None /\ Live("save") = {} /\ ~changed /\ note = Empty
  /\ said' = [what |-> "nothing to save", about |-> card]
  /\ UNCHANGED <<records, world, moves, begun, card, words, select, editor, acts>>

\* « Enregistrer la note », « Confirmer »: a removal drops the pick before its round trip.
Revises ==
  LET removes == active.verb = "delete"
  IN  /\ active # NoAct
      /\ Begins("revision")
      /\ acts' = acts \union {RevisionAct(IF removes THEN picked ELSE NoPick)}
      /\ picked' = IF removes THEN NoPick ELSE picked
      /\ said' = Silence
      /\ UNCHANGED <<records, world, card, words, choice, editor>>

\* « Copier » has no guard: a copy supersedes the one before it.
Copies ==
  /\ card # None /\ Moves
  /\ begun < MaxActs /\ begun' = begun + 1
  /\ acts' = (acts \ Live("copy")) \union Superseded(Live("copy")) \union {CopyAct}
  /\ UNCHANGED <<records, world, card, words, select, editor, said>>

----------------------------------------------------------------------------
(* What an act writes when it lands, if nothing has superseded it. *)

\* Bug: what is gated is the text, not the act.
NoteAfterAnyAct(c) == IF note = c.text THEN Empty ELSE note

\* What a save clears is what it sent, on the card it was sent from.
NoteAfter(c) == IF c.live /\ note = c.text THEN Empty ELSE note

\* Bug: the act that lands closes whatever editor is open.
ActiveAfterAny(c) == IF c.live THEN NoAct ELSE active

\* The editor an act may close: its own, and no other.
ActiveAfter(c) == IF c.live /\ active = c.from THEN NoAct ELSE active

\* A refusal is not a roll-back: the pick comes back, unless another was made since.
PickedAfter(c) == IF c.live /\ picked = NoPick THEN c.dropped ELSE picked

\* The word of an act that was superseded is about another mayor: it is not said.
Word(c, word) == IF c.live THEN [what |-> word, about |-> c.who] ELSE said

\* The history is read again; an act whose line has gone is cleared, and said.
Reread(c, lines, act, word) ==
  LET stranded == card = c.who /\ act # NoAct /\ aimedAt(lines, act) = 0
  IN  /\ history' = [history EXCEPT ![c.who] = lines]
      /\ active' = IF stranded THEN NoAct ELSE act
      /\ correction' = IF active'.verb = "edit" THEN correction ELSE Empty
      /\ said' = IF stranded THEN [what |-> "stranded", about |-> card] ELSE Word(c, word)

SaveLands(c) ==
  /\ c.kind = "save"
  /\ kept' = [kept EXCEPT ![c.who] = <<[status |-> c.status, note |-> c.text]>> \o @]
  /\ Reread(c, kept'[c.who], active, "filed")
  /\ note' = NoteAfter(c)
  /\ owed' = [owed EXCEPT ![c.who].note = IF @ = c.text THEN Empty ELSE @]
  /\ drafts' = IF card = None THEN drafts ELSE Mirrored(card, note', email, render)
  /\ acts' = acts \ {c}
  /\ UNCHANGED <<world, moves, begun, card, email, select>>

\* The store confirms the line inside the transaction that revises it, or refuses.
StillThere(c) == c.at \in DOMAIN kept[c.who] /\ kept[c.who][c.at] = c.from.line

RevisionLands(c) ==
  /\ c.kind = "revision" /\ StillThere(c)
  /\ kept' = [kept EXCEPT ![c.who] =
       IF c.from.verb = "edit" THEN [@ EXCEPT ![c.at].note = c.text] ELSE RemoveAt(@, c.at)]
  /\ Reread(c, kept'[c.who], ActiveAfter(c), "revised")
  /\ choice' = IF c.from.verb = "delete" /\ choice.after < c.number THEN NoChoice ELSE choice
  /\ acts' = acts \ {c}
  /\ UNCHANGED <<world, moves, begun, card, words, picked>>

RevisionRefused(c) ==
  /\ c.kind = "revision"
  /\ Reread(c, kept[c.who], active, "refused")
  /\ picked' = PickedAfter(c)
  /\ acts' = acts \ {c}
  /\ UNCHANGED <<kept, world, moves, begun, card, words, choice>>

\* A save the database refuses, and what the clipboard answers.
OnlySays(c) ==
  /\ c.kind \in {"save", "copy"}
  /\ \E word \in {"refused"} \union (IF c.kind = "copy" THEN {"copied"} ELSE {}) :
       said' = Word(c, word)
  /\ acts' = acts \ {c}
  /\ UNCHANGED <<records, world, moves, begun, card, words, select, editor>>

----------------------------------------------------------------------------

OtherWrites(m, lines) ==
  /\ others < MaxOthers /\ others' = others + 1
  /\ kept' = [kept EXCEPT ![m] = lines]
  /\ UNCHANGED <<history, render, moves, begun, card, words, select, editor, acts, said>>

\* The other window of the same browser, on the same store.
OtherWindow(m) ==
  \/ \E s \in Statuses : OtherWrites(m, <<[status |-> s, note |-> Empty]>> \o kept[m])
  \/ \E i \in DOMAIN kept[m] : OtherWrites(m, RemoveAt(kept[m], i))
  \/ \E i \in DOMAIN kept[m], t \in CardTexts : OtherWrites(m, [kept[m] EXCEPT ![i].note = t])

FicheInit ==
  /\ kept = AtFirst /\ history = AtFirst
  /\ others = 0 /\ render = 0 /\ moves = 0 /\ begun = 0
  /\ card = None /\ note = Empty /\ email = "pristine"
  /\ drafts = [m \in Mayors |-> [note |-> Empty, touched |-> FALSE, basis |-> 0]]
  /\ owed = [m \in Mayors |-> [note |-> Empty, email |-> FALSE]]
  /\ picked = NoPick /\ choice = NoChoice
  /\ active = NoAct /\ correction = Empty
  /\ acts = {} /\ said = Silence

FicheNext ==
  \/ \E m \in Mayors : Opens(m) \/ OtherWindow(m)
  \/ Closes \/ Rerenders \/ Rewrites
  \/ \E text \in CardTexts \union {Empty} : TypesNote(text) \/ Corrects(text)
  \/ \E value \in Statuses : Picks(value)
  \/ card # None /\ \E i \in DOMAIN history[card] : OpensEditor(i) \/ OpensQuestion(i)
  \/ Cancels \/ Saves \/ SavesNothing \/ Revises \/ Copies
  \/ \E c \in acts :
       SaveLands(c) \/ RevisionLands(c) \/ RevisionRefused(c) \/ OnlySays(c)

FicheSpec == FicheInit /\ [][FicheNext]_ficheVars

----------------------------------------------------------------------------

\* Words typed about a mayor, in the note or over the email, are on their card or kept for
\* it until they are filed or the screen says it could not keep them: whatever lands, and
\* whichever card it lands under (common.tsx: « the field empties under their hands »).
WordsAreKept ==
  \A m \in Mayors :
    /\ owed[m].note # Empty =>
         IF card = m THEN note = owed[m].note ELSE drafts[m].note = owed[m].note
    /\ owed[m].email => IF card = m THEN email = "rewritten" ELSE drafts[m].touched

\* The select shows what was chosen for this very mayor until a removal rolls their card
\* back, and else what the card carries: « Enregistrer » files nothing chosen for somebody
\* else, and a refused removal gives the choice back.
ChoicesStand ==
  (card # None /\ \A c \in Live("revision") :
                    c.from.verb = "delete" => c.number <= choice.after)
    => status = IF choice = NoChoice THEN carried ELSE choice.value

\* An act that lands takes away no editor but the one it was pressed from, unless the line
\* itself has gone: words being typed about another contact stay under the volunteer's hands.
CorrectionsStay ==
  [][ (active.verb = "edit" /\ card' = card /\ acts' # acts /\ active' # active) =>
        \/ said'.what = "stranded"
        \/ \E c \in acts \ acts' : c.kind = "revision" /\ c.from = active ]_ficheVars

\* « ONE EDITOR, ONE DRAFT — and abandoning it is SAID. » (common.tsx): an editor whose words
\* differ from the line gives way to another act on the card only with a word of it.
AbandonedIsSaid ==
  [][ (active.verb = "edit" /\ correction # active.line.note /\ card' = card
       /\ active' # active /\ active' # NoAct)
      => said'.what \in {"abandoned", "stranded"} ]_ficheVars
=============================================================================
