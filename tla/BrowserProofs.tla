--------------------------- MODULE BrowserProofs ---------------------------
(***************************************************************************)
(* Proofs about the browser version: its histories (LocalStore), for any   *)
(* tabs, mayors, statuses and texts, any backups a colleague may hand over *)
(* and any number of gestures; the card (Fiche), for any mayors, histories *)
(* and texts and any number of acts out at once; and the campaign of a     *)
(* page (Adoption), for any stores, backups and versions.                  *)
(***************************************************************************)
EXTENDS LocalStore, Adoption, Fiche, TLAPS

-----------------------------------------------------------------------------
\* The histories: their invariant

\* Every record of f says what its newest line says.
Honest(f) == \A c \in Codes : f[c] \in Records => Says(f[c])

\* What is stored, on a screen, on the disk or read by an import says what its newest
\* line says, and an import under way puts back one of the files on the disk.
StoreInv ==
  /\ TypeOK
  /\ Honest(store)
  /\ \A t \in Tabs : Honest(screen[t])
  /\ \A b \in backups : Honest(b)
  /\ \A t \in Tabs : (job[t] # Idle /\ job[t].at = "write") =>
                      job[t].from \in backups /\ Honest(job[t].existing)

-----------------------------------------------------------------------------
\* Facts about records and their lines

\* The record that takes a line on top.
LEMMA SavedIsRight ==
  ASSUME NEW current \in Records \cup {Absent}, NEW st \in Statuses, NEW text \in Texts,
         minute \in Minutes, NEW later \in minute..MaxMinute
  PROVE  /\ SavedEntry(current, st, text, later) \in Records
         /\ Says(SavedEntry(current, st, text, later))
         /\ Len(SavedEntry(current, st, text, later).notes) = Len(NotesOf(current)) + 1
         /\ NotesOf(current) \in Seq(Line)
<1> DEFINE l == [ts |-> later, status |-> st, note |-> text]
           notes == <<l>> \o NotesOf(current)
<1>1. NotesOf(current) \in Seq(Line)
  BY DEF NotesOf, Records
<1>2. later \in Minutes /\ minute <= later
  BY BoundsAssumption DEF Minutes
<1>3. l \in Line /\ <<l>> \in Seq(Line)
  BY <1>2 DEF Line
<1>4. /\ notes \in Seq(Line) /\ Len(notes) = Len(NotesOf(current)) + 1
      /\ notes # <<>> /\ Head(notes) = l
  BY <1>1, <1>3
<1>5. SavedEntry(current, st, text, later) =
        [status |-> st, updated_at |-> minute, notes |-> notes]
  BY DEF SavedEntry
<1>6. l.ts = later /\ l.status = st
  OBVIOUS
<1> HIDE DEF notes, l
<1> QED  BY <1>1, <1>2, <1>4, <1>5, <1>6 DEF Records, Says, HeadStatus

\* The lines left when one goes.
LEMMA WithoutIsRight ==
  ASSUME NEW notes \in Seq(Line), NEW i \in DOMAIN notes
  PROVE  Without(notes, i) \in Seq(Line)
BY DEF Without

\* The record that loses a line goes back to what the lines left say.
LEMMA DeletedIsRight ==
  ASSUME NEW current \in Records, NEW i \in DOMAIN current.notes, minute \in Minutes
  PROVE  /\ DeletedEntry(current, i) \in Records
         /\ Says(DeletedEntry(current, i))
         /\ DeletedEntry(current, i).notes = Without(current.notes, i)
<1> DEFINE notes == Without(current.notes, i)
<1>1. notes \in Seq(Line)
  BY WithoutIsRight DEF Records
<1>2. notes # <<>> => Head(notes) \in Line
  BY <1>1
<1>3. DeletedEntry(current, i) =
        [status |-> HeadStatus(notes),
         updated_at |-> IF notes = <<>> THEN minute ELSE Head(notes).ts, notes |-> notes]
  BY DEF DeletedEntry
<1> HIDE DEF notes
<1>4. HeadStatus(notes) \in Statuses
  BY <1>2, StatutsAssumption DEF HeadStatus, Line
<1>5. (IF notes = <<>> THEN minute ELSE Head(notes).ts) \in Minutes
  BY <1>2 DEF Line
<1>6. notes # <<>> => Head(notes).ts \in Int
  BY <1>2 DEF Line, Minutes
<1> QED  BY <1>1, <1>3, <1>4, <1>5, <1>6 DEF Records, Says, notes

\* The record with one line reworded says what it said.
LEMMA EditedIsRight ==
  ASSUME NEW current \in Records, Says(current), NEW i \in DOMAIN current.notes,
         NEW text \in Texts
  PROVE  /\ EditedEntry(current, i, text) \in Records
         /\ Says(EditedEntry(current, i, text))
         /\ EditedEntry(current, i, text).notes = [current.notes EXCEPT ![i].note = text]
<1> DEFINE notes == [current.notes EXCEPT ![i].note = text]
<1>1. current.notes \in Seq(Line) /\ current.notes # <<>>
  BY DEF Records
<1>2. current.notes[i] \in Line
  BY <1>1
<1>3. [current.notes[i] EXCEPT !.note = text] \in Line
  BY <1>2 DEF Line
<1>4. notes = [current.notes EXCEPT ![i] = [current.notes[i] EXCEPT !.note = text]]
  OBVIOUS
<1>5. notes \in Seq(Line) /\ notes # <<>> /\ Len(notes) = Len(current.notes)
  BY <1>1, <1>3, <1>4
<1>6. Head(notes).status = Head(current.notes).status /\ Head(notes).ts = Head(current.notes).ts
  <2>1. /\ notes[1].status = current.notes[1].status
        /\ notes[1].ts = current.notes[1].ts
    BY <1>1, <1>2, <1>4 DEF Line
  <2> HIDE DEF notes
  <2> QED  BY <1>1, <1>5, <2>1
<1>7. EditedEntry(current, i, text) = [current EXCEPT !.notes = notes]
  BY DEF EditedEntry
<1> HIDE DEF notes
<1>8. EditedEntry(current, i, text) \in Records
  BY <1>5, <1>7 DEF Records
<1>9. Says(EditedEntry(current, i, text))
  BY <1>1, <1>5, <1>6, <1>7 DEF Says, HeadStatus, Records
<1> QED  BY <1>7, <1>8, <1>9 DEF Records, notes

-----------------------------------------------------------------------------
\* What the three acts on a card commit

LEMMA SavesALine ==
  ASSUME StoreInv, NEW t \in Tabs, NEW c \in Codes, SaveTracking(t, c)
  PROVE  \E entry \in Records, l \in Line :
           /\ Commits(t, c, entry) /\ Says(entry) /\ minute' \in Minutes
           /\ entry.notes = <<l>> \o NotesOf(store[c])
           /\ Len(entry.notes) > Len(NotesOf(store[c]))
<1>1. PICK st \in Statuses, text \in Texts, later \in minute..MaxMinute :
        Commits(t, c, SavedEntry(store[c], st, text, later)) /\ minute' = later
  BY DEF SaveTracking
<1> DEFINE entry == SavedEntry(store[c], st, text, later)
           l == [ts |-> later, status |-> st, note |-> text]
<1>2. store[c] \in Records \cup {Absent} /\ minute \in Minutes
  BY DEF StoreInv, TypeOK, Tracked
<1>3. /\ entry \in Records /\ Says(entry)
      /\ Len(entry.notes) = Len(NotesOf(store[c])) + 1
      /\ NotesOf(store[c]) \in Seq(Line)
  BY <1>2, SavedIsRight
<1>4. minute' \in Minutes
  BY <1>1, <1>2, BoundsAssumption DEF Minutes
<1>5. l \in Line
  BY <1>1, <1>4 DEF Line
<1>6. entry.notes = <<l>> \o NotesOf(store[c])
  BY DEF SavedEntry
<1>7. Len(NotesOf(store[c])) \in Nat
  BY <1>3
<1> HIDE DEF entry, l
<1>8. Commits(t, c, entry)
  BY <1>1 DEF entry
<1> QED  BY <1>3, <1>4, <1>5, <1>6, <1>7, <1>8

\* The record an act revises, and the line it names, are there.
LEMMA ConfirmedIsThere ==
  ASSUME StoreInv, NEW t \in Tabs, NEW c \in Codes, NEW i, Confirmed(t, c, i)
  PROVE  /\ store[c] \in Records /\ Says(store[c]) /\ NotesOf(store[c]) = store[c].notes
         /\ store[c].notes \in Seq(Line) /\ i \in DOMAIN store[c].notes
         /\ minute \in Minutes
BY DEF StoreInv, TypeOK, Tracked, Honest, Confirmed, NotesOf, Records

LEMMA RewordsALine ==
  ASSUME StoreInv, NEW t \in Tabs, NEW c \in Codes, EditNote(t, c)
  PROVE  \E entry \in Records, i \in DOMAIN NotesOf(screen[t][c]), text \in Texts :
           /\ Commits(t, c, entry) /\ Says(entry) /\ Confirmed(t, c, i) /\ UNCHANGED minute
           /\ entry.notes = [store[c].notes EXCEPT ![i].note = text]
<1>1. PICK i \in DOMAIN NotesOf(screen[t][c]), text \in Texts :
        Confirmed(t, c, i) /\ Commits(t, c, EditedEntry(store[c], i, text)) /\ UNCHANGED minute
  BY DEF EditNote
<1> DEFINE entry == EditedEntry(store[c], i, text)
<1>2. /\ entry \in Records /\ Says(entry)
      /\ entry.notes = [store[c].notes EXCEPT ![i].note = text]
  BY <1>1, ConfirmedIsThere, EditedIsRight
<1> HIDE DEF entry
<1>3. Commits(t, c, entry)
  BY <1>1 DEF entry
<1> QED  BY <1>1, <1>2, <1>3

LEMMA StrikesALine ==
  ASSUME StoreInv, NEW t \in Tabs, NEW c \in Codes, DeleteNote(t, c)
  PROVE  \E entry \in Records, i \in DOMAIN NotesOf(screen[t][c]) :
           /\ Commits(t, c, entry) /\ Says(entry) /\ Confirmed(t, c, i) /\ UNCHANGED minute
           /\ entry.notes = Without(store[c].notes, i)
<1>1. PICK i \in DOMAIN NotesOf(screen[t][c]) :
        Confirmed(t, c, i) /\ Commits(t, c, DeletedEntry(store[c], i)) /\ UNCHANGED minute
  BY DEF DeleteNote
<1> DEFINE entry == DeletedEntry(store[c], i)
<1>2. entry \in Records /\ Says(entry) /\ entry.notes = Without(store[c].notes, i)
  BY <1>1, ConfirmedIsThere, DeletedIsRight
<1> HIDE DEF entry
<1>3. Commits(t, c, entry)
  BY <1>1 DEF entry
<1> QED  BY <1>1, <1>2, <1>3

-----------------------------------------------------------------------------
\* Every step keeps the invariant

LEMMA StoreStart == Init => StoreInv
<1> SUFFICES ASSUME Init PROVE StoreInv
  OBVIOUS
<1>1. Nowhere \in Tracked
  BY DEF Nowhere, Tracked
<1>2. TypeOK
  BY <1>1, ReceivedAssumption, BoundsAssumption DEF Init, TypeOK, Minutes, Jobs
<1>3. Honest(store)
  BY ReceivedAssumption DEF Init, Nowhere, Honest
<1>4. \A b \in backups : Honest(b)
  BY ReceivedAssumption DEF Init, Honest
<1>5. \A t \in Tabs : Honest(screen[t])
  BY ReceivedAssumption DEF Init, Nowhere, Honest
<1> QED  BY <1>2, <1>3, <1>4, <1>5 DEF StoreInv, Init

LEMMA CommitsKeep ==
  ASSUME StoreInv, NEW t \in Tabs, NEW c \in Codes, NEW entry \in Records, Says(entry),
         Commits(t, c, entry), minute' \in Minutes
  PROVE  StoreInv'
<1>1. /\ store' = [store EXCEPT ![c] = entry]
      /\ screen' = [screen EXCEPT ![t] = [@ EXCEPT ![c] = entry]]
      /\ gestures < MaxGestures /\ gestures' = gestures + 1
      /\ UNCHANGED <<backups, job>>
  BY DEF Commits, Gesture
<1>2. store' \in Tracked /\ [screen[t] EXCEPT ![c] = entry] \in Tracked
  BY <1>1 DEF StoreInv, TypeOK, Tracked
<1>3. screen' \in [Tabs -> Tracked]
  BY <1>1, <1>2 DEF StoreInv, TypeOK
<1>4. gestures' \in 0..MaxGestures
  BY <1>1, BoundsAssumption DEF StoreInv, TypeOK
<1>5. TypeOK'
  BY <1>1, <1>2, <1>3, <1>4 DEF StoreInv, TypeOK
<1>6. Honest(store')
  BY <1>1 DEF StoreInv, TypeOK, Tracked, Honest
<1>7. ASSUME NEW u \in Tabs PROVE Honest(screen'[u])
  BY <1>1 DEF StoreInv, TypeOK, Tracked, Honest
<1> QED  BY <1>1, <1>5, <1>6, <1>7 DEF StoreInv

\* A screen that takes what is stored, or nothing, changes nothing else.
LEMMA ScreensKeep ==
  ASSUME StoreInv, NEW t \in Tabs, NEW f \in Tracked, Honest(f),
         screen' = [screen EXCEPT ![t] = f],
         UNCHANGED <<store, backups, job, minute>>, gestures' \in 0..MaxGestures
  PROVE  StoreInv'
<1>1. screen' \in [Tabs -> Tracked]
  BY DEF StoreInv, TypeOK
<1>2. TypeOK'
  BY <1>1 DEF StoreInv, TypeOK
<1>3. ASSUME NEW u \in Tabs PROVE Honest(screen'[u])
  BY DEF StoreInv, TypeOK
<1> QED  BY <1>2, <1>3 DEF StoreInv

LEMMA OnlyGestures ==
  ASSUME StoreInv, Gesture
  PROVE  gestures' \in 0..MaxGestures
BY BoundsAssumption DEF StoreInv, TypeOK, Gesture

LEMMA CardsKeep ==
  ASSUME StoreInv, NEW t \in Tabs, NEW c \in Codes,
         SaveTracking(t, c) \/ EditNote(t, c) \/ DeleteNote(t, c) \/ RefuseNote(t, c)
  PROVE  StoreInv'
<1>1. CASE SaveTracking(t, c)
  BY <1>1, SavesALine, CommitsKeep
<1>2. CASE EditNote(t, c)
  <2>1. minute' \in Minutes
    BY <1>2, RewordsALine DEF StoreInv, TypeOK
  <2> QED  BY <1>2, <2>1, RewordsALine, CommitsKeep
<1>3. CASE DeleteNote(t, c)
  <2>1. minute' \in Minutes
    BY <1>3, StrikesALine DEF StoreInv, TypeOK
  <2> QED  BY <1>3, <2>1, StrikesALine, CommitsKeep
<1>4. CASE RefuseNote(t, c)
  <2> DEFINE f == IF store[c] = Absent THEN screen[t] ELSE [screen[t] EXCEPT ![c] = store[c]]
  <2>1. screen \in [Tabs -> Tracked] /\ store \in Tracked
    BY DEF StoreInv, TypeOK
  <2>2. f \in Tracked
    BY <2>1 DEF Tracked
  <2>3. screen' = [screen EXCEPT ![t] = f]
    BY <1>4, <2>1 DEF RefuseNote
  <2>4. Honest(f)
    BY <2>1 DEF StoreInv, Honest, Tracked
  <2> HIDE DEF f
  <2> QED  BY <1>4, <2>2, <2>3, <2>4, ScreensKeep, OnlyGestures DEF RefuseNote
<1> QED  BY <1>1, <1>2, <1>3, <1>4

LEMMA ReadsKeep ==
  ASSUME StoreInv, NEW t \in Tabs, LoadTracking(t) \/ ImportShows(t) \/ EraseShows(t)
  PROVE  StoreInv'
<1>1. /\ store \in Tracked /\ Nowhere \in Tracked /\ screen \in [Tabs -> Tracked]
      /\ gestures \in 0..MaxGestures
  BY DEF StoreInv, TypeOK, Nowhere, Tracked
<1>a. Honest(store) /\ Honest(Nowhere)
  BY ReceivedAssumption DEF StoreInv, Honest, Nowhere
<1>2. CASE LoadTracking(t)
  BY <1>1, <1>a, <1>2, ScreensKeep, OnlyGestures DEF LoadTracking
<1>3. ASSUME NEW f \in Tracked, Honest(f), screen' = [screen EXCEPT ![t] = f],
             job' = [job EXCEPT ![t] = Idle], UNCHANGED <<store, backups, minute, gestures>>
      PROVE  StoreInv'
  <2>1. screen' \in [Tabs -> Tracked]
    BY <1>1, <1>3
  <2>2. job' \in [Tabs -> Jobs]
    BY <1>3 DEF StoreInv, TypeOK, Jobs
  <2>3. TypeOK'
    BY <1>3, <2>1, <2>2 DEF StoreInv, TypeOK
  <2>4. \A u \in Tabs : job'[u] = Idle \/ job'[u] = job[u]
    BY <1>3 DEF StoreInv, TypeOK
  <2>5. ASSUME NEW u \in Tabs PROVE Honest(screen'[u])
    BY <1>3 DEF StoreInv, TypeOK
  <2> QED  BY <1>3, <2>3, <2>4, <2>5 DEF StoreInv
<1> QED  BY <1>1, <1>a, <1>2, <1>3 DEF ImportShows, EraseShows

LEMMA JobsKeep ==
  ASSUME StoreInv, NEW t \in Tabs,
         \/ EraseAll(t) \/ ImportWrites(t)
         \/ \E b \in backups, merge \in BOOLEAN : ImportReads(t, b, merge)
  PROVE  StoreInv'
<1>1. /\ store \in Tracked /\ Nowhere \in Tracked /\ job \in [Tabs -> Jobs]
      /\ gestures \in 0..MaxGestures /\ backups \subseteq Backups
  BY DEF StoreInv, TypeOK, Nowhere, Tracked
<1>2. CASE EraseAll(t)
  <2>1. job' \in [Tabs -> Jobs] /\ store' \in Tracked /\ gestures' \in 0..MaxGestures
    BY <1>1, <1>2, OnlyGestures DEF EraseAll, Jobs
  <2>2. TypeOK'
    BY <1>2, <2>1 DEF StoreInv, TypeOK, EraseAll
  <2>3. Honest(store')
    BY <1>2, ReceivedAssumption DEF EraseAll, Honest, Nowhere
  <2>4. \A u \in Tabs : job'[u] = [at |-> "forget"] \/ job'[u] = job[u]
    BY <1>1, <1>2 DEF EraseAll
  <2> QED  BY <1>2, <2>2, <2>3, <2>4 DEF StoreInv, EraseAll
<1>3. CASE ImportWrites(t)
  <2>1. /\ job[t] # Idle /\ job[t].at = "write" /\ job[t].from \in backups
        /\ job[t].from \in Backups
    BY <1>1, <1>3 DEF ImportWrites, StoreInv
  <2>2. \A c \in Codes : /\ store'[c] \in {job[t].from[c], store[c], Absent}
                         /\ store'[c] \in Records \cup {Absent}
    BY <1>1, <1>3, <2>1 DEF ImportWrites, Taken, Backups, Tracked
  <2>3. store' \in Tracked
    BY <1>3, <2>2 DEF ImportWrites, Tracked
  <2>4. job' \in [Tabs -> Jobs]
    BY <1>1, <1>3 DEF ImportWrites, Jobs
  <2>5. TypeOK'
    BY <1>3, <2>3, <2>4 DEF StoreInv, TypeOK, ImportWrites
  <2>6. Honest(store')
    BY <2>1, <2>2, ReceivedAssumption DEF StoreInv, Honest
  <2>7. \A u \in Tabs : job'[u] = [at |-> "show"] \/ job'[u] = job[u]
    BY <1>1, <1>3 DEF ImportWrites
  <2> QED  BY <1>3, <2>5, <2>6, <2>7 DEF StoreInv, ImportWrites
<1>4. ASSUME NEW b \in backups, NEW merge \in BOOLEAN, ImportReads(t, b, merge) PROVE StoreInv'
  <2> DEFINE j == [at |-> "write", merge |-> merge, from |-> b,
                   existing |-> IF merge THEN store ELSE Nowhere]
  <2>1. /\ j \in Jobs /\ j.from = b
        /\ job' = [job EXCEPT ![t] = j]
    BY <1>1, <1>4 DEF ImportReads, Jobs
  <2> HIDE DEF j
  <2>2. TypeOK'
    BY <1>1, <1>4, <2>1, OnlyGestures DEF StoreInv, TypeOK, ImportReads
  <2>3. \A u \in Tabs : job'[u] = j \/ job'[u] = job[u]
    BY <1>1, <2>1
  <2>4. Honest(j.existing)
    BY ReceivedAssumption DEF j, StoreInv, Honest, Nowhere
  <2> QED  BY <1>4, <2>1, <2>2, <2>3, <2>4 DEF StoreInv, ImportReads
<1> QED  BY <1>2, <1>3, <1>4

LEMMA ExportKeeps ==
  ASSUME StoreInv, ExportAll
  PROVE  StoreInv'
<1>1. store \in Backups
  BY DEF StoreInv, TypeOK, Tracked, Backups
<1>2. TypeOK'
  BY <1>1, OnlyGestures DEF StoreInv, TypeOK, ExportAll
<1> QED  BY <1>2 DEF StoreInv, ExportAll

LEMMA TickKeeps ==
  ASSUME StoreInv, Tick
  PROVE  StoreInv'
<1>1. minute' \in Minutes
  BY BoundsAssumption DEF StoreInv, TypeOK, Tick, Minutes
<1>2. TypeOK'
  BY <1>1 DEF StoreInv, TypeOK, Tick
<1> QED  BY <1>2 DEF StoreInv, Tick

\* Every behaviour of the store keeps it: whatever is stored, shown, exported or read
\* by an import says what its newest line says (saveTracking, reviseNote, importAll).
THEOREM StoreInOrder == Spec => []StoreInv
<1>1. StoreInv /\ [Next]_vars => StoreInv'
  <2> SUFFICES ASSUME StoreInv, [Next]_vars PROVE StoreInv'
    OBVIOUS
  <2>1. CASE UNCHANGED vars
    BY <2>1 DEF vars, StoreInv, TypeOK, Honest
  <2>2. CASE Next
    BY <2>2, CardsKeep, ReadsKeep, JobsKeep, ExportKeeps, TickKeeps DEF Next
  <2> QED  BY <2>1, <2>2
<1> QED  BY <1>1, StoreStart, PTL DEF Spec

\* Every stored record says what its newest line says, and is dated no later than it,
\* whatever was saved, reworded, struck or merged, and by whichever tab (deleteNote).
THEOREM StatusIsAlwaysTheHead == Spec => []StatusIsTheHead
<1>1. StoreInv => StatusIsTheHead
  BY DEF StoreInv, TypeOK, Tracked, Honest, StatusIsTheHead
<1> QED  BY <1>1, StoreInOrder, PTL

-----------------------------------------------------------------------------
\* What a revision touches

\* A card whose record changes while no import or erasure moves, without growing: an
\* act of one tab on that card did it.
RevisedBySome(c) == \E t \in Tabs : RevisedAsShown(t, c) /\ screen'[t][c] = store'[c]

LEMMA OnlyTheCardMoves ==
  ASSUME StoreInv, NEW t \in Tabs, NEW d \in Codes, NEW c \in Codes, NEW entry,
         Commits(t, d, entry), store'[c] # store[c]
  PROVE  c = d /\ store'[c] = entry /\ screen'[t][c] = entry
BY DEF Commits, StoreInv, TypeOK, Tracked

LEMMA ActsReviseAsShown ==
  ASSUME StoreInv, NEW t \in Tabs, NEW d \in Codes, NEW c \in Codes,
         SaveTracking(t, d) \/ EditNote(t, d) \/ DeleteNote(t, d) \/ RefuseNote(t, d),
         store'[c] # store[c], Len(NotesOf(store'[c])) <= Len(NotesOf(store[c]))
  PROVE  RevisedBySome(c)
<1>1. \A entry \in Records : NotesOf(entry) = entry.notes
  BY ReceivedAssumption DEF NotesOf
<1>2. CASE SaveTracking(t, d)
  <2>1. PICK entry \in Records :
          Commits(t, d, entry) /\ Len(entry.notes) > Len(NotesOf(store[d]))
    BY <1>2, SavesALine
  <2>2. c = d /\ store'[c] = entry
    BY <2>1, OnlyTheCardMoves
  <2>3. Len(entry.notes) \in Nat /\ Len(NotesOf(store[d])) \in Nat
    <3>1. store[d] \in Records \cup {Absent}
      BY DEF StoreInv, TypeOK, Tracked
    <3>2. entry.notes \in Seq(Line) /\ NotesOf(store[d]) \in Seq(Line)
      BY <3>1 DEF Records, NotesOf
    <3> QED  BY <3>2
  <2> QED  BY <1>1, <2>1, <2>2, <2>3
<1>3. CASE EditNote(t, d)
  <2>1. PICK entry \in Records, i \in DOMAIN NotesOf(screen[t][d]), text \in Texts :
          /\ Commits(t, d, entry) /\ Says(entry) /\ Confirmed(t, d, i) /\ UNCHANGED minute
          /\ entry.notes = [store[d].notes EXCEPT ![i].note = text]
    BY <1>3, RewordsALine
  <2>2. c = d /\ store'[c] = entry /\ screen'[t][c] = entry
    BY <2>1, OnlyTheCardMoves
  <2>3. i \in DOMAIN NotesOf(store[d]) /\ screen[t][d].notes[i] = store[d].notes[i]
    BY <2>1, ConfirmedIsThere DEF Confirmed
  <2>4. NotesOf(store'[c]) = [store[c].notes EXCEPT ![i].note = text]
    BY <1>1, <2>1, <2>2
  <2>5. i \in DOMAIN NotesOf(screen[t][c]) \cap DOMAIN NotesOf(store[c])
    BY <2>1, <2>2, <2>3
  <2>6. RevisedAsShown(t, c)
    BY <2>2, <2>3, <2>4, <2>5 DEF RevisedAsShown
  <2> QED  BY <2>2, <2>6 DEF RevisedBySome
<1>4. CASE DeleteNote(t, d)
  <2>1. PICK entry \in Records, i \in DOMAIN NotesOf(screen[t][d]) :
          /\ Commits(t, d, entry) /\ Says(entry) /\ Confirmed(t, d, i) /\ UNCHANGED minute
          /\ entry.notes = Without(store[d].notes, i)
    BY <1>4, StrikesALine
  <2>2. c = d /\ store'[c] = entry /\ screen'[t][c] = entry
    BY <2>1, OnlyTheCardMoves
  <2>3. i \in DOMAIN NotesOf(store[d]) /\ screen[t][d].notes[i] = store[d].notes[i]
    BY <2>1, ConfirmedIsThere DEF Confirmed
  <2>4. NotesOf(store'[c]) = Without(store[c].notes, i)
    BY <1>1, <2>1, <2>2
  <2> QED  BY <2>1, <2>2, <2>3, <2>4 DEF RevisedBySome, RevisedAsShown
<1>5. CASE RefuseNote(t, d)
  BY <1>5 DEF RefuseNote
<1> QED  BY <1>2, <1>3, <1>4, <1>5

\* An import or an erasure that writes moves its own tab on.
LEMMA WritersMoveOn ==
  ASSUME StoreInv, NEW t \in Tabs, EraseAll(t) \/ ImportWrites(t)
  PROVE  job' # job
<1>1. job \in [Tabs -> Jobs]
  BY DEF StoreInv, TypeOK
<1>2. CASE EraseAll(t)
  <2>1. job[t] = Idle /\ job'[t] = [at |-> "forget"]
    BY <1>1, <1>2 DEF EraseAll
  <2>2. [at |-> "forget"] \in [at : {"show", "forget"}]
    OBVIOUS
  <2> QED  BY <2>1, <2>2, IdleAssumption
<1>3. CASE ImportWrites(t)
  <2>1. job[t].at = "write" /\ job'[t].at = "show"
    BY <1>1, <1>3 DEF ImportWrites
  <2> QED  BY <2>1
<1> QED  BY <1>2, <1>3

\* A line is struck or reworded only as the tab that acts was showing it, at its
\* place, all the others left alone (the comparison of reviseNote).
THEOREM RevisionsAreAlwaysOfWhatIsShown == Spec => RevisionsAreOfWhatIsShown
<1> DEFINE Shrinks(c) == /\ store'[c] # store[c] /\ job' = job
                         /\ Len(NotesOf(store'[c])) <= Len(NotesOf(store[c]))
           AsShown == \A c \in Codes : Shrinks(c) => RevisedBySome(c)
<1>1. StoreInv /\ [Next]_vars => [AsShown]_vars
  <2> SUFFICES ASSUME StoreInv, Next, NEW c \in Codes, Shrinks(c) PROVE RevisedBySome(c)
    OBVIOUS
  <2>1. ASSUME NEW t \in Tabs, NEW d \in Codes,
               SaveTracking(t, d) \/ EditNote(t, d) \/ DeleteNote(t, d) \/ RefuseNote(t, d)
        PROVE  RevisedBySome(c)
    BY <2>1, ActsReviseAsShown
  <2>2. ASSUME NEW t \in Tabs, EraseAll(t) \/ ImportWrites(t) PROVE FALSE
    BY <2>2, WritersMoveOn
  <2>3. ~(ExportAll \/ Tick)
    BY DEF ExportAll, Tick
  <2>4. ASSUME NEW t \in Tabs,
               \/ LoadTracking(t) \/ ImportShows(t) \/ EraseShows(t)
               \/ \E b \in backups, merge \in BOOLEAN : ImportReads(t, b, merge)
        PROVE  FALSE
    BY <2>4 DEF LoadTracking, ImportShows, EraseShows, ImportReads
  <2> QED  BY <2>1, <2>2, <2>3, <2>4 DEF Next
<1>2. AsShown => \A c \in Codes : (/\ store'[c] # store[c]
                                   /\ job' = job
                                   /\ Len(NotesOf(store'[c])) <= Len(NotesOf(store[c])))
                    => \E t \in Tabs : RevisedAsShown(t, c) /\ screen'[t][c] = store'[c]
  BY DEF RevisedBySome
<1> QED  BY <1>1, <1>2, StoreInOrder, PTL DEF Spec, RevisionsAreOfWhatIsShown, RevisedBySome

-----------------------------------------------------------------------------
\* The store implements the journal

Lines == LinesOf(store)
Files == {LinesOf(b) : b \in backups}

\* The records' lines, by the definitions of the refinement.
LEMMA LinesAreNotes ==
  ASSUME StoreInv, NEW c \in Codes
  PROVE  /\ Lines \in [Codes -> Seq(Line)] /\ Lines[c] = NotesOf(store[c])
<1>1. \A d \in Codes : store[d] \in Records \cup {Absent} /\ (store[d] \in Records => store[d] # Absent /\ store[d] # Unreadable)
  BY ReceivedAssumption DEF StoreInv, TypeOK, Tracked
<1> QED  BY <1>1 DEF Lines, LinesOf, NotesOf, Records

LEMMA JournalStart == Init => TheJournal!Init
<1> SUFFICES ASSUME Init PROVE TheJournal!Init
  OBVIOUS
<1>1. LinesOf(store) = [c \in Codes |-> <<>>]
  BY DEF Init, Nowhere, LinesOf
<1>2. \A b \in Backups : LinesOf(b) \in [Codes -> Seq(Line)]
  BY DEF Backups, LinesOf, Records
<1>3. {LinesOf(b) : b \in backups} \in SUBSET [Codes -> Seq(Line)]
  BY <1>2, ReceivedAssumption DEF Init
<1> QED  BY <1>1, <1>3 DEF TheJournal!Init

\* An act that commits a record moves the lines of its card, and no file.
LEMMA CommitsMoveLines ==
  ASSUME StoreInv, NEW t \in Tabs, NEW c \in Codes, NEW entry \in Records, Commits(t, c, entry)
  PROVE  Lines' = [Lines EXCEPT ![c] = entry.notes] /\ Files' = Files
<1>1. store' = [store EXCEPT ![c] = entry] /\ backups' = backups /\ store \in Tracked
  BY DEF Commits, StoreInv, TypeOK
<1>2. entry \notin {Absent, Unreadable}
  BY ReceivedAssumption
<1> QED  BY <1>1, <1>2 DEF Lines, Files, LinesOf, Tracked

LEMMA ActsAreOfTheJournal ==
  ASSUME StoreInv, NEW t \in Tabs, NEW c \in Codes,
         SaveTracking(t, c) \/ EditNote(t, c) \/ DeleteNote(t, c)
  PROVE  TheJournal!Next
<1>0. Lines[c] = NotesOf(store[c]) /\ Lines \in [Codes -> Seq(Line)]
  BY LinesAreNotes
<1>1. CASE SaveTracking(t, c)
  <2>1. PICK entry \in Records, l \in Line :
          Commits(t, c, entry) /\ entry.notes = <<l>> \o NotesOf(store[c])
    BY <1>1, SavesALine
  <2>2. Lines' = [Lines EXCEPT ![c] = <<l>> \o @] /\ Files' = Files
    BY <1>0, <2>1, CommitsMoveLines
  <2> QED  BY <2>2 DEF TheJournal!Next, TheJournal!Write, Lines, Files
<1>2. CASE EditNote(t, c)
  <2>1. PICK entry \in Records, i \in DOMAIN NotesOf(screen[t][c]), text \in Texts :
          /\ Commits(t, c, entry) /\ Says(entry) /\ Confirmed(t, c, i) /\ UNCHANGED minute
          /\ entry.notes = [store[c].notes EXCEPT ![i].note = text]
    BY <1>2, RewordsALine
  <2>2. i \in DOMAIN Lines[c] /\ Lines[c] = store[c].notes
    BY <1>0, <2>1, ConfirmedIsThere
  <2>3. Lines' = [Lines EXCEPT ![c] = [@ EXCEPT ![i].note = text]] /\ Files' = Files
    BY <1>0, <2>1, <2>2, CommitsMoveLines
  <2> QED  BY <2>2, <2>3 DEF TheJournal!Next, TheJournal!Reword, Lines, Files
<1>3. CASE DeleteNote(t, c)
  <2>1. PICK entry \in Records, i \in DOMAIN NotesOf(screen[t][c]) :
          /\ Commits(t, c, entry) /\ Confirmed(t, c, i)
          /\ entry.notes = Without(store[c].notes, i)
    BY <1>3, StrikesALine
  <2>2. i \in DOMAIN Lines[c] /\ Lines[c] = store[c].notes
    BY <1>0, <2>1, ConfirmedIsThere
  <2>3. entry.notes = TheJournal!Without(Lines[c], i)
    BY <2>1, <2>2 DEF Without, TheJournal!Without
  <2>4. Lines' = [Lines EXCEPT ![c] = TheJournal!Without(@, i)] /\ Files' = Files
    BY <2>1, <2>3, CommitsMoveLines
  <2> QED  BY <2>2, <2>4 DEF TheJournal!Next, TheJournal!Strike, Lines, Files
<1> QED  BY <1>1, <1>2, <1>3

LEMMA FilesAreOfTheJournal ==
  ASSUME StoreInv, NEW t, EraseAll(t) \/ (t \in Tabs /\ ImportWrites(t)) \/ ExportAll
  PROVE  TheJournal!Next
<1>1. CASE EraseAll(t)
  <2>1. LinesOf(store') = [c \in Codes |-> <<>>] /\ backups' = backups
    BY <1>1 DEF EraseAll, Nowhere, LinesOf
  <2> QED  BY <2>1 DEF TheJournal!Next, TheJournal!Erase, LinesOf
<1>2. CASE t \in Tabs /\ ImportWrites(t)
  <2>1. /\ job[t].from \in backups /\ backups' = backups
        /\ \A c \in Codes : store'[c] \in {job[t].from[c], store[c], Absent}
    BY <1>2 DEF ImportWrites, StoreInv
  <2>2. \A c \in Codes : LinesOf(store')[c] \in {LinesOf(store)[c], LinesOf(job[t].from)[c], <<>>}
    BY <2>1 DEF LinesOf
  <2>3. DOMAIN LinesOf(store') = Codes
    BY DEF LinesOf
  <2>4. LinesOf(job[t].from) \in {LinesOf(b) : b \in backups}
    BY <2>1
  <2> QED  BY <2>1, <2>2, <2>3, <2>4 DEF TheJournal!Next, TheJournal!Restore, LinesOf
<1>3. CASE ExportAll
  <2>1. store' = store /\ backups' = backups \cup {store}
    BY <1>3 DEF ExportAll
  <2>2. {LinesOf(b) : b \in backups'} = {LinesOf(b) : b \in backups} \cup {LinesOf(store)}
    BY <2>1
  <2> QED  BY <2>1, <2>2 DEF TheJournal!Next, TheJournal!Keep, LinesOf
<1> QED  BY <1>1, <1>2, <1>3

\* With the tabs, their screens and their transactions forgotten, the store is the
\* journal of its volunteer: no line acknowledged is lost to another tab that saves,
\* rewords or strikes (reviseTracking reads, decides and writes in one transaction);
\* a backup put back may replace it, and the journal says so (importAll).
THEOREM JournalIsImplemented == Spec => ImplementsJournal
<1>1. StoreInv /\ [Next]_vars => [TheJournal!Next]_TheJournal!vars
  <2> SUFFICES ASSUME StoreInv, [Next]_vars,
                      ~(UNCHANGED <<store, backups>>)
               PROVE  TheJournal!Next
    BY DEF TheJournal!vars, LinesOf
  <2>1. Next
    BY DEF vars
  <2>2. ~Tick /\ \A t \in Tabs : /\ ~LoadTracking(t) /\ ~ImportShows(t) /\ ~EraseShows(t)
                                 /\ \A c \in Codes : ~RefuseNote(t, c)
                                 /\ \A b \in backups, merge \in BOOLEAN : ~ImportReads(t, b, merge)
    BY DEF Tick, LoadTracking, ImportShows, EraseShows, RefuseNote, ImportReads
  <2>3. CASE \E t \in Tabs, c \in Codes : SaveTracking(t, c) \/ EditNote(t, c) \/ DeleteNote(t, c)
    BY <2>3, ActsAreOfTheJournal
  <2>4. CASE \E t \in Tabs : EraseAll(t) \/ ImportWrites(t)
    BY <2>4, FilesAreOfTheJournal
  <2>5. CASE ExportAll
    BY <2>5, FilesAreOfTheJournal
  <2> QED  BY <2>1, <2>2, <2>3, <2>4, <2>5 DEF Next
<1> QED  BY <1>1, JournalStart, StoreInOrder, PTL DEF Spec, ImplementsJournal, TheJournal!Spec

-----------------------------------------------------------------------------
\* The card: its invariants

\* What every act carries, and what a save or a revision carries besides.
IsAct(c, n) ==
  /\ {"kind", "who", "live", "number"} \subseteq DOMAIN c
  /\ c.kind = "save" => "text" \in DOMAIN c
  /\ c.kind = "revision" => {"from", "dropped"} \subseteq DOMAIN c
  /\ c.kind \in {"save", "revision", "copy"}
  /\ c.live \in BOOLEAN
  /\ c.number \in Nat /\ 1 <= c.number /\ c.number <= n

\* An act that is live is of the card on screen, and one revision at most is.
ActsInv ==
  /\ begun \in Nat
  /\ card \in Mayors \union {None}
  /\ \A c \in acts : IsAct(c, begun)
  /\ \A c \in acts : c.live => card # None /\ c.who = card
  /\ \A c, d \in Live("revision") : c = d

\* The parent's drafts hold what the card on screen holds.
WordsInv ==
  /\ drafts \in [Mayors -> [note : CardTexts \union {Empty}, touched : BOOLEAN, basis : Nat]]
  /\ owed \in [Mayors -> [note : CardTexts \union {Empty}, email : BOOLEAN]]
  /\ render \in Nat /\ note \in CardTexts \union {Empty}
  /\ email \in {"pristine", "rewritten", "regenerated"}
  /\ card # None => /\ drafts[card].note = note
                    /\ drafts[card].touched <=> email = "rewritten"
  /\ WordsAreKept

FicheTyped == ActsInv /\ WordsInv

-----------------------------------------------------------------------------
\* Facts about the acts that are out

\* An act that is superseded is what it was, and no longer live.
LEMMA SupersededIsTheSame ==
  ASSUME NEW c, NEW n, IsAct(c, n)
  PROVE  LET d == [c EXCEPT !.live = FALSE]
         IN  /\ IsAct(d, n) /\ d.live = FALSE
             /\ d.kind = c.kind /\ d.number = c.number
             /\ c.kind = "revision" => d.from = c.from /\ d.dropped = c.dropped
BY DEF IsAct

\* The act a press begins.
LEMMA NewActs ==
  ASSUME NEW dropped
  PROVE  /\ SaveAct.kind = "save" /\ SaveAct.who = card /\ SaveAct.live = TRUE
         /\ SaveAct.number = begun + 1
         /\ {"kind", "who", "live", "number", "text"} \subseteq DOMAIN SaveAct
         /\ CopyAct.kind = "copy" /\ CopyAct.who = card /\ CopyAct.live = TRUE
         /\ CopyAct.number = begun + 1
         /\ {"kind", "who", "live", "number"} \subseteq DOMAIN CopyAct
         /\ LET r == RevisionAct(dropped)
            IN  /\ r.kind = "revision" /\ r.who = card /\ r.live = TRUE
                /\ r.number = begun + 1 /\ r.from = active /\ r.dropped = dropped
                /\ {"kind", "who", "live", "number", "from", "dropped"} \subseteq DOMAIN r
BY DEF SaveAct, CopyAct, RevisionAct

\* Leaving the card supersedes everything: nothing is live.
LEMMA LeavingSupersedes ==
  ASSUME ActsInv, acts' = Superseded(acts), begun' = begun, card' \in Mayors \union {None}
  PROVE  /\ ActsInv'
         /\ \A d \in acts' : ~d.live
         /\ \A d \in acts' : \E c \in acts : d.kind = c.kind /\ d.number = c.number
<1>1. ASSUME NEW d \in acts'
      PROVE  /\ IsAct(d, begun) /\ d.live = FALSE
             /\ \E c \in acts : d.kind = c.kind /\ d.number = c.number
  <2>1. PICK c \in acts : d = [c EXCEPT !.live = FALSE]
    BY DEF Superseded
  <2>2. IsAct(c, begun)
    BY DEF ActsInv
  <2> QED  BY <2>1, <2>2, SupersededIsTheSame
<1>2. Live("revision")' = {}
  BY <1>1 DEF Live
<1> QED  BY <1>1, <1>2 DEF ActsInv

\* What an act is, it stays as more are begun.
LEMMA ActsStay ==
  ASSUME NEW c, IsAct(c, begun), begun \in Nat
  PROVE  IsAct(c, begun + 1)
BY DEF IsAct

\* One more act, live, on the card on screen; a revision only when none is out.
LEMMA BegunActs ==
  ASSUME ActsInv, NEW a, acts' = acts \union {a}, begun' = begun + 1, card' = card,
         card # None, a.who = card, a.live = TRUE, IsAct(a, begun + 1),
         a.kind = "revision" => Live("revision") = {}
  PROVE  ActsInv'
<1>1. \A c \in acts' : IsAct(c, begun')
  BY ActsStay DEF ActsInv
<1>2. \A c, d \in Live("revision")' : c = d
  BY DEF ActsInv, Live
<1> QED  BY <1>1, <1>2 DEF ActsInv

\* The acts a press may begin are acts.
LEMMA NewActsAre ==
  ASSUME begun \in Nat, NEW dropped
  PROVE  /\ IsAct(SaveAct, begun + 1) /\ IsAct(CopyAct, begun + 1)
         /\ IsAct(RevisionAct(dropped), begun + 1)
<1>1. IsAct(SaveAct, begun + 1)
  <2> DEFINE a == SaveAct
  <2>1. /\ a.kind = "save" /\ a.live \in BOOLEAN /\ a.number = begun + 1
        /\ {"kind", "who", "live", "number", "text"} \subseteq DOMAIN a
    BY NewActs
  <2> HIDE DEF a
  <2>2. IsAct(a, begun + 1)
    BY <2>1 DEF IsAct
  <2> QED  BY <2>2 DEF a
<1>2. IsAct(CopyAct, begun + 1)
  <2> DEFINE a == CopyAct
  <2>1. /\ a.kind = "copy" /\ a.live \in BOOLEAN /\ a.number = begun + 1
        /\ {"kind", "who", "live", "number"} \subseteq DOMAIN a
    BY NewActs
  <2> HIDE DEF a
  <2>2. IsAct(a, begun + 1)
    BY <2>1 DEF IsAct
  <2> QED  BY <2>2 DEF a
<1>3. IsAct(RevisionAct(dropped), begun + 1)
  <2> DEFINE a == RevisionAct(dropped)
  <2>1. /\ a.kind = "revision" /\ a.live \in BOOLEAN /\ a.number = begun + 1
        /\ {"kind", "who", "live", "number", "from", "dropped"} \subseteq DOMAIN a
    BY NewActs
  <2> HIDE DEF a
  <2>2. IsAct(a, begun + 1)
    BY <2>1 DEF IsAct
  <2> QED  BY <2>2 DEF a
<1> QED  BY <1>1, <1>2, <1>3

\* Fewer acts, or the same.
LEMMA FewerActs ==
  ASSUME ActsInv, acts' \subseteq acts, begun' = begun, card' = card
  PROVE  ActsInv'
BY DEF ActsInv, Live

\* A copy supersedes the one before it.
LEMMA CopiesKeepActs ==
  ASSUME ActsInv, Copies
  PROVE  /\ ActsInv'
         /\ \A c \in acts' : c.kind = "revision" => c \in acts
<1> DEFINE a == CopyAct
           copies == Superseded(Live("copy"))
<1>1. /\ card # None /\ card' = card /\ begun' = begun + 1
      /\ acts' = (acts \ Live("copy")) \union copies \union {a}
  BY DEF Copies
<1>2. ASSUME NEW d \in copies PROVE IsAct(d, begun) /\ d.live = FALSE /\ d.kind = "copy"
  <2>1. PICK c \in Live("copy") : d = [c EXCEPT !.live = FALSE]
    BY DEF Superseded
  <2>2. IsAct(c, begun) /\ c.kind = "copy"
    BY DEF ActsInv, Live
  <2> QED  BY <2>1, <2>2, SupersededIsTheSame
<1>3. IsAct(a, begun + 1) /\ a.kind = "copy" /\ a.who = card
  BY NewActs, NewActsAre DEF ActsInv
<1> HIDE DEF a, copies
<1>4. \A c \in acts' : IsAct(c, begun')
  BY <1>1, <1>2, <1>3, ActsStay DEF ActsInv
<1>5. \A c \in acts' : c.live => card' # None /\ c.who = card'
  BY <1>1, <1>2, <1>3 DEF ActsInv
<1>6. \A c \in acts' : c.kind = "revision" => c \in acts
  BY <1>1, <1>2, <1>3
<1>7. \A c, d \in Live("revision")' : c = d
  BY <1>6 DEF Live, ActsInv
<1> QED  BY <1>1, <1>4, <1>5, <1>6, <1>7 DEF ActsInv

-----------------------------------------------------------------------------
\* Every step keeps the acts

\* A step that leaves the acts and the card alone.
Elsewhere == acts' \subseteq acts /\ UNCHANGED <<begun, card>>

LEMMA StepsElsewhere ==
  /\ Rerenders \/ Rewrites \/ Cancels \/ SavesNothing => Elsewhere
  /\ \A text : TypesNote(text) \/ Corrects(text) => Elsewhere
  /\ \A value : Picks(value) => Elsewhere
  /\ \A i : OpensEditor(i) \/ OpensQuestion(i) => Elsewhere
  /\ \A m : OtherWindow(m) => Elsewhere
  /\ \A c : SaveLands(c) \/ RevisionLands(c) \/ RevisionRefused(c) \/ OnlySays(c) => Elsewhere
<1>1. Rerenders \/ Rewrites \/ Cancels \/ SavesNothing => Elsewhere
  BY DEF Rerenders, Rewrites, Cancels, SavesNothing, Elsewhere
<1>2. \A text : TypesNote(text) \/ Corrects(text) => Elsewhere
  BY DEF TypesNote, Corrects, Elsewhere
<1>3. \A value : Picks(value) => Elsewhere
  BY DEF Picks, Elsewhere
<1>4. \A i : OpensEditor(i) \/ OpensQuestion(i) => Elsewhere
  BY DEF OpensEditor, OpensQuestion, Elsewhere
<1>5. \A m : OtherWindow(m) => Elsewhere
  BY DEF OtherWindow, OtherWrites, Elsewhere
<1>6. \A c : SaveLands(c) \/ RevisionLands(c) \/ RevisionRefused(c) \/ OnlySays(c) => Elsewhere
  BY DEF SaveLands, RevisionLands, RevisionRefused, OnlySays, Elsewhere
<1> QED  BY <1>1, <1>2, <1>3, <1>4, <1>5, <1>6

\* The presses that begin an act.
LEMMA PressesKeepActs ==
  ASSUME ActsInv, Saves \/ Revises
  PROVE  ActsInv'
<1>1. CASE Saves
  <2> DEFINE a == SaveAct
  <2>1. /\ acts' = acts \union {a} /\ begun' = begun + 1 /\ card' = card /\ card # None
    BY <1>1 DEF Saves, Begins
  <2>2. IsAct(a, begun + 1) /\ a.who = card /\ a.live = TRUE /\ a.kind = "save"
    BY NewActs, NewActsAre DEF ActsInv
  <2> HIDE DEF a
  <2> QED  BY <2>1, <2>2, BegunActs
<1>2. CASE Revises
  <2> DEFINE a == RevisionAct(IF active.verb = "delete" THEN picked ELSE NoPick)
  <2>1. /\ acts' = acts \union {a} /\ begun' = begun + 1 /\ card' = card /\ card # None
        /\ Live("revision") = {}
    BY <1>2 DEF Revises, Begins
  <2>2. IsAct(a, begun + 1) /\ a.who = card /\ a.live = TRUE
    BY NewActs, NewActsAre DEF ActsInv
  <2> HIDE DEF a
  <2> QED  BY <2>1, <2>2, BegunActs
<1> QED  BY <1>1, <1>2

LEMMA LeavesKeepActs ==
  ASSUME ActsInv, NEW m \in Mayors, Opens(m) \/ Closes
  PROVE  ActsInv'
<1>1. CASE Opens(m)
  BY <1>1, LeavingSupersedes DEF Opens
<1>2. CASE Closes
  BY <1>2, LeavingSupersedes DEF Closes
<1> QED  BY <1>1, <1>2

LEMMA ActsAreKept ==
  ASSUME ActsInv, FicheNext
  PROVE  ActsInv'
<1>1. Elsewhere => ActsInv'
  BY FewerActs DEF Elsewhere
<1>2. CASE \E m \in Mayors : Opens(m) \/ OtherWindow(m)
  BY <1>1, <1>2, LeavesKeepActs, StepsElsewhere
<1>3. CASE Closes
  <2>1. Mayors # {}
    BY <1>3 DEF Closes, ActsInv
  <2> QED  BY <1>3, <2>1, LeavesKeepActs
<1>4. CASE Rerenders \/ Rewrites \/ Cancels \/ SavesNothing
  BY <1>1, <1>4, StepsElsewhere
<1>5. CASE \E text \in CardTexts \union {Empty} : TypesNote(text) \/ Corrects(text)
  BY <1>1, <1>5, StepsElsewhere
<1>6. CASE \E value \in Statuses : Picks(value)
  BY <1>1, <1>6, StepsElsewhere
<1>7. CASE card # None /\ \E i \in DOMAIN history[card] : OpensEditor(i) \/ OpensQuestion(i)
  BY <1>1, <1>7, StepsElsewhere
<1>8. CASE Saves \/ Revises
  BY <1>8, PressesKeepActs
<1>9. CASE Copies
  BY <1>9, CopiesKeepActs
<1>10. CASE \E c \in acts :
             SaveLands(c) \/ RevisionLands(c) \/ RevisionRefused(c) \/ OnlySays(c)
  BY <1>1, <1>10, StepsElsewhere
<1> QED  BY <1>2, <1>3, <1>4, <1>5, <1>6, <1>7, <1>8, <1>9, <1>10 DEF FicheNext

-----------------------------------------------------------------------------
\* Every step keeps the words

Notes == CardTexts \union {Empty}
Draft == [note : Notes, touched : BOOLEAN, basis : Nat]

LEMMA FieldsAreTyped == WordsInv => note \in Notes /\ render \in Nat
BY DEF WordsInv, Notes

LEMMA MirroredIsADraft ==
  ASSUME WordsInv, NEW m \in Mayors, NEW text \in Notes, NEW mail, NEW basis \in Nat
  PROVE  LET d == Mirrored(m, text, mail, basis)
         IN  /\ d \in [Mayors -> Draft]
             /\ d[m].note = text /\ (d[m].touched <=> mail = "rewritten")
             /\ \A n \in Mayors \ {m} : d[n] = drafts[n]
BY DEF Mirrored, WordsInv, Notes, Draft

\* What a mayor is owed, the parent's drafts hold: the card on screen mirrors its own.
LEMMA WordsBehind ==
  ASSUME FicheTyped, NEW n \in Mayors
  PROVE  /\ owed[n].note # Empty => drafts[n].note = owed[n].note
         /\ owed[n].email => drafts[n].touched
<1>1. n # None
  BY FicheAssumption
<1>2. CASE card = n
  BY <1>1, <1>2 DEF FicheTyped, WordsInv, WordsAreKept
<1>3. CASE card # n
  BY <1>3 DEF FicheTyped, WordsInv, WordsAreKept
<1> QED  BY <1>2, <1>3

\* What a rewrite or a rendering changes of what is owed.
LEMMA OneEmailOwed ==
  ASSUME NEW o \in [Mayors -> [note : Notes, email : BOOLEAN]], NEW m \in Mayors,
         NEW mail \in BOOLEAN, NEW q, q = [o EXCEPT ![m].email = mail]
  PROVE  /\ q \in [Mayors -> [note : Notes, email : BOOLEAN]]
         /\ \A n \in Mayors : q[n].note = o[n].note
         /\ \A n \in Mayors \ {m} : q[n].email = o[n].email
         /\ q[m].email = mail
<1> DEFINE row == [o[m] EXCEPT !.email = mail]
<1>1. /\ row \in [note : Notes, email : BOOLEAN]
      /\ row.note = o[m].note /\ row.email = mail
  OBVIOUS
<1>2. q = [o EXCEPT ![m] = row]
  OBVIOUS
<1> HIDE DEF row
<1>3. q \in [Mayors -> [note : Notes, email : BOOLEAN]]
  BY <1>1, <1>2
<1>4. \A n \in Mayors : q[n] = IF n = m THEN row ELSE o[n]
  BY <1>2
<1> QED  BY <1>1, <1>3, <1>4

LEMMA StillWords ==
  ASSUME WordsInv, UNCHANGED <<words, card>>, render' \in Nat
  PROVE  WordsInv'
BY DEF WordsInv, WordsAreKept, words

LEMMA OpensKeepsWords ==
  ASSUME FicheTyped, NEW m \in Mayors, Opens(m)
  PROVE  WordsInv'
<1>1. /\ m # card /\ card' = m /\ render' = render
      /\ note' = drafts[m].note /\ email' = freshEmail(m)
      /\ drafts' = Mirrored(m, note', email', render)
      /\ owed' = [owed EXCEPT ![m].email = @ /\ email' # "regenerated"]
  BY DEF Opens, world
<1>2. note' \in Notes /\ email' \in {"pristine", "rewritten", "regenerated"}
  BY <1>1 DEF FicheTyped, WordsInv, freshEmail, Notes
<1>3. /\ drafts' \in [Mayors -> Draft]
      /\ drafts'[m].note = note' /\ (drafts'[m].touched <=> email' = "rewritten")
      /\ \A n \in Mayors \ {m} : drafts'[n] = drafts[n]
  BY <1>1, <1>2, MirroredIsADraft, FieldsAreTyped DEF FicheTyped
<1>4. /\ owed \in [Mayors -> [note : Notes, email : BOOLEAN]]
      /\ owed' = [owed EXCEPT ![m] = [owed[m] EXCEPT !.email = @ /\ email' # "regenerated"]]
  BY <1>1 DEF FicheTyped, WordsInv, Notes
<1>5. /\ owed' \in [Mayors -> [note : Notes, email : BOOLEAN]]
      /\ \A n \in Mayors : owed'[n].note = owed[n].note
      /\ \A n \in Mayors \ {m} : owed'[n].email = owed[n].email
      /\ owed'[m].email => owed[m].email /\ email' # "regenerated"
  BY <1>4
<1>6. owed[m].note # Empty => note' = owed[m].note
  BY <1>1 DEF FicheTyped, WordsInv, WordsAreKept
<1>7. owed'[m].email => email' = "rewritten"
  BY <1>1, <1>5 DEF FicheTyped, WordsInv, WordsAreKept, freshEmail
<1>8. \A n \in Mayors \ {m} : owed[n].note # Empty => drafts[n].note = owed[n].note
  BY WordsBehind
<1>9. \A n \in Mayors \ {m} : owed[n].email => drafts[n].touched
  BY WordsBehind
<1>10. WordsAreKept'
  BY <1>1, <1>3, <1>5, <1>6, <1>7, <1>8, <1>9 DEF WordsAreKept
<1> QED  BY <1>1, <1>2, <1>3, <1>5, <1>10 DEF FicheTyped, WordsInv, Notes, Draft

LEMMA ClosesKeepsWords ==
  ASSUME FicheTyped, Closes
  PROVE  WordsInv'
<1>1. /\ card # None /\ card' = None /\ note' = Empty /\ email' = "pristine"
      /\ UNCHANGED <<render, drafts, owed>>
  BY DEF Closes, world
<1>2. \A n \in Mayors : owed[n].note # Empty => drafts[n].note = owed[n].note
  BY WordsBehind
<1>3. \A n \in Mayors : owed[n].email => drafts[n].touched
  BY WordsBehind
<1>4. WordsAreKept'
  BY <1>1, <1>2, <1>3, FicheAssumption DEF WordsAreKept
<1> QED  BY <1>1, <1>4 DEF FicheTyped, WordsInv

LEMMA RerendersKeepsWords ==
  ASSUME FicheTyped, Rerenders
  PROVE  WordsInv'
<1>1. render' \in Nat /\ card' = card
  BY DEF Rerenders, FicheTyped, WordsInv
<1>2. CASE card = None
  BY <1>1, <1>2, StillWords DEF Rerenders, FicheTyped
<1>3. CASE card # None
  <2>1. /\ email' = IF email = "rewritten" THEN "regenerated" ELSE "pristine"
        /\ drafts' = Mirrored(card, note, email', render')
        /\ owed' = [owed EXCEPT ![card].email = FALSE]
        /\ note' = note /\ card \in Mayors
    BY <1>3 DEF Rerenders, FicheTyped, ActsInv
  <2>2. /\ drafts' \in [Mayors -> Draft]
        /\ drafts'[card].note = note /\ (drafts'[card].touched <=> email' = "rewritten")
        /\ \A n \in Mayors \ {card} : drafts'[n] = drafts[n]
    BY <1>1, <2>1, MirroredIsADraft, FieldsAreTyped DEF FicheTyped
  <2>3. /\ owed' \in [Mayors -> [note : Notes, email : BOOLEAN]]
        /\ \A n \in Mayors : owed'[n].note = owed[n].note
        /\ \A n \in Mayors \ {card} : owed'[n].email = owed[n].email
        /\ owed'[card].email = FALSE
    <3>1. owed \in [Mayors -> [note : Notes, email : BOOLEAN]]
      BY DEF FicheTyped, WordsInv, Notes
    <3> DEFINE mail == FALSE
    <3>2. owed' = [owed EXCEPT ![card].email = mail] /\ mail \in BOOLEAN /\ card \in Mayors
      BY <2>1
    <3> HIDE DEF mail
    <3>3. /\ owed' \in [Mayors -> [note : Notes, email : BOOLEAN]]
          /\ \A n \in Mayors : owed'[n].note = owed[n].note
          /\ \A n \in Mayors \ {card} : owed'[n].email = owed[n].email
          /\ owed'[card].email = mail
      BY <3>1, <3>2, OneEmailOwed
    <3> QED  BY <3>3 DEF mail
  <2>4. \A n \in Mayors \ {card} : owed[n].email => drafts[n].touched
    BY DEF FicheTyped, WordsInv, WordsAreKept
  <2>5. \A n \in Mayors : owed[n].note # Empty =>
          IF card = n THEN note = owed[n].note ELSE drafts[n].note = owed[n].note
    BY DEF FicheTyped, WordsInv, WordsAreKept
  <2>6. WordsAreKept'
    BY <1>1, <2>1, <2>2, <2>3, <2>4, <2>5 DEF WordsAreKept
  <2> QED  BY <1>1, <2>1, <2>2, <2>3, <2>6 DEF FicheTyped, WordsInv, Notes, Draft
<1> QED  BY <1>2, <1>3

LEMMA TypesNoteKeepsWords ==
  ASSUME FicheTyped, NEW text \in CardTexts \union {Empty}, TypesNote(text)
  PROVE  WordsInv'
<1>1. /\ note' = text /\ card' = card /\ card \in Mayors /\ render' = render /\ email' = email
      /\ owed' = [owed EXCEPT ![card].note = text]
      /\ drafts' = Mirrored(card, text, email, render)
  BY DEF TypesNote, FicheTyped, ActsInv, world
<1>2. /\ drafts' \in [Mayors -> Draft]
      /\ drafts'[card].note = text /\ (drafts'[card].touched <=> email = "rewritten")
      /\ \A n \in Mayors \ {card} : drafts'[n] = drafts[n]
  <2>1. text \in Notes
    BY DEF Notes
  <2> QED  BY <1>1, <2>1, MirroredIsADraft, FieldsAreTyped DEF FicheTyped
<1>3. /\ owed' \in [Mayors -> [note : Notes, email : BOOLEAN]]
      /\ \A n \in Mayors : owed'[n].email = owed[n].email
      /\ \A n \in Mayors \ {card} : owed'[n].note = owed[n].note
      /\ owed'[card].note = text
  <2>1. /\ owed \in [Mayors -> [note : Notes, email : BOOLEAN]]
        /\ owed' = [owed EXCEPT ![card] = [owed[card] EXCEPT !.note = text]]
    BY <1>1 DEF FicheTyped, WordsInv, Notes
  <2> QED  BY <1>1, <2>1 DEF Notes
<1>4. \A n \in Mayors : owed[n].email =>
        IF card = n THEN email = "rewritten" ELSE drafts[n].touched
  BY DEF FicheTyped, WordsInv, WordsAreKept
<1>5. \A n \in Mayors \ {card} : owed[n].note # Empty => drafts[n].note = owed[n].note
  BY DEF FicheTyped, WordsInv, WordsAreKept
<1>6. WordsAreKept'
  BY <1>1, <1>2, <1>3, <1>4, <1>5 DEF WordsAreKept
<1> QED  BY <1>1, <1>2, <1>3, <1>6 DEF FicheTyped, WordsInv, Notes, Draft

LEMMA RewritesKeepsWords ==
  ASSUME FicheTyped, Rewrites
  PROVE  WordsInv'
<1>1. /\ email' = "rewritten" /\ card' = card /\ card \in Mayors /\ UNCHANGED <<render, note>>
      /\ owed' = [owed EXCEPT ![card].email = TRUE]
      /\ drafts' = Mirrored(card, note, "rewritten", render)
  BY DEF Rewrites, FicheTyped, ActsInv, world
<1>2. /\ drafts' \in [Mayors -> Draft]
      /\ drafts'[card].note = note /\ drafts'[card].touched = TRUE
      /\ \A n \in Mayors \ {card} : drafts'[n] = drafts[n]
  BY <1>1, MirroredIsADraft, FieldsAreTyped DEF FicheTyped
<1>3. /\ owed' \in [Mayors -> [note : Notes, email : BOOLEAN]]
      /\ \A n \in Mayors : owed'[n].note = owed[n].note
      /\ \A n \in Mayors \ {card} : owed'[n].email = owed[n].email
  <2>1. owed \in [Mayors -> [note : Notes, email : BOOLEAN]]
    BY DEF FicheTyped, WordsInv, Notes
  <2> DEFINE mail == TRUE
  <2>2. owed' = [owed EXCEPT ![card].email = mail] /\ mail \in BOOLEAN /\ card \in Mayors
    BY <1>1
  <2> HIDE DEF mail
  <2> QED  BY <2>1, <2>2, OneEmailOwed
<1>4. \A n \in Mayors \ {card} : owed[n].email => drafts[n].touched
  BY DEF FicheTyped, WordsInv, WordsAreKept
<1>5. \A n \in Mayors : owed[n].note # Empty =>
        IF card = n THEN note = owed[n].note ELSE drafts[n].note = owed[n].note
  BY DEF FicheTyped, WordsInv, WordsAreKept
<1>6. WordsAreKept'
  BY <1>1, <1>2, <1>3, <1>4, <1>5 DEF WordsAreKept
<1> QED  BY <1>1, <1>2, <1>3, <1>6 DEF FicheTyped, WordsInv, Notes, Draft

\* What a save clears is what it sent, on the card it was sent from.
LEMMA SaveLandsKeepsWords ==
  ASSUME FicheTyped, NEW c \in acts, SaveLands(c)
  PROVE  WordsInv'
<1>1. /\ note' = NoteAfter(c) /\ UNCHANGED <<card, render, email>>
      /\ owed' = [owed EXCEPT ![c.who].note = IF @ = c.text THEN Empty ELSE @]
      /\ drafts' = IF card = None THEN drafts ELSE Mirrored(card, note', email, render)
      /\ c.live => c.who = card
  BY DEF SaveLands, FicheTyped, ActsInv, world
<1>2. note' \in Notes /\ (note' = note \/ (note' = Empty /\ note = c.text /\ c.who = card))
  BY <1>1 DEF NoteAfter, FicheTyped, WordsInv, Notes
<1>3. /\ owed' \in [Mayors -> [note : Notes, email : BOOLEAN]]
      /\ \A n \in Mayors : owed'[n].email = owed[n].email
      /\ \A n \in Mayors : owed'[n].note \in {owed[n].note, Empty}
      /\ \A n \in Mayors : (n = c.who /\ owed[n].note = c.text) => owed'[n].note = Empty
  <2>1. owed \in [Mayors -> [note : Notes, email : BOOLEAN]]
    BY DEF FicheTyped, WordsInv, Notes
  <2>2. CASE c.who \in Mayors
    <3>1. owed' = [owed EXCEPT ![c.who] =
                     [owed[c.who] EXCEPT !.note = IF @ = c.text THEN Empty ELSE @]]
      BY <1>1
    <3> QED  BY <2>1, <2>2, <3>1 DEF Notes
  <2>3. CASE c.who \notin Mayors
    <3>1. owed' = owed
      BY <1>1, <2>1, <2>3
    <3> QED  BY <2>1, <2>3, <3>1
  <2> QED  BY <2>2, <2>3
<1>4. \A n \in Mayors : owed[n].email =>
        IF card = n THEN email = "rewritten" ELSE drafts[n].touched
  BY DEF FicheTyped, WordsInv, WordsAreKept
<1>5. \A n \in Mayors : owed[n].note # Empty =>
        IF card = n THEN note = owed[n].note ELSE drafts[n].note = owed[n].note
  BY DEF FicheTyped, WordsInv, WordsAreKept
<1>6. \A n \in Mayors \ {card} : drafts'[n] = drafts[n]
  BY <1>1, <1>2, MirroredIsADraft DEF FicheTyped, ActsInv, WordsInv
<1>7. \A n \in Mayors : (card = n /\ owed'[n].note # Empty) => note' = owed'[n].note
  BY <1>2, <1>3, <1>5
<1>8. WordsAreKept'
  BY <1>1, <1>3, <1>4, <1>5, <1>6, <1>7 DEF WordsAreKept
<1>9. /\ drafts' \in [Mayors -> Draft]
      /\ card # None => drafts'[card].note = note' /\ (drafts'[card].touched <=> email = "rewritten")
  <2>1. CASE card = None
    BY <1>1, <2>1 DEF FicheTyped, WordsInv, Notes, Draft
  <2>2. CASE card # None
    <3>1. card \in Mayors
      BY <2>2 DEF FicheTyped, ActsInv
    <3> QED  BY <1>1, <1>2, <2>2, <3>1, MirroredIsADraft, FieldsAreTyped DEF FicheTyped
  <2> QED  BY <2>1, <2>2
<1> QED  BY <1>1, <1>2, <1>3, <1>8, <1>9 DEF FicheTyped, WordsInv, Notes, Draft

LEMMA WordsStay ==
  ASSUME FicheTyped, FicheNext
  PROVE  WordsInv'
<1>1. ASSUME UNCHANGED <<words, card, world>> PROVE WordsInv'
  BY <1>1, StillWords DEF FicheTyped, WordsInv, world
<1>2. CASE \E m \in Mayors : Opens(m) \/ OtherWindow(m)
  <2>1. ASSUME NEW m \in Mayors, OtherWindow(m) PROVE WordsInv'
    BY <2>1, StillWords DEF OtherWindow, OtherWrites, FicheTyped, WordsInv
  <2> QED  BY <1>2, <2>1, OpensKeepsWords
<1>3. CASE Closes \/ Rerenders \/ Rewrites
  BY <1>3, ClosesKeepsWords, RerendersKeepsWords, RewritesKeepsWords
<1>4. CASE \E text \in CardTexts \union {Empty} : TypesNote(text) \/ Corrects(text)
  BY <1>1, <1>4, TypesNoteKeepsWords DEF Corrects
<1>5. CASE \E value \in Statuses : Picks(value)
  BY <1>1, <1>5 DEF Picks
<1>6. CASE card # None /\ \E i \in DOMAIN history[card] : OpensEditor(i) \/ OpensQuestion(i)
  BY <1>1, <1>6 DEF OpensEditor, OpensQuestion
<1>7. CASE Cancels \/ Saves \/ SavesNothing \/ Revises \/ Copies
  BY <1>1, <1>7 DEF Cancels, Saves, SavesNothing, Revises, Copies
<1>8. CASE \E c \in acts :
            SaveLands(c) \/ RevisionLands(c) \/ RevisionRefused(c) \/ OnlySays(c)
  BY <1>1, <1>8, SaveLandsKeepsWords DEF RevisionLands, RevisionRefused, OnlySays
<1> QED  BY <1>2, <1>3, <1>4, <1>5, <1>6, <1>7, <1>8 DEF FicheNext

LEMMA FicheStart == FicheInit => FicheTyped
<1> SUFFICES ASSUME FicheInit PROVE FicheTyped
  OBVIOUS
<1>1. ActsInv
  BY DEF FicheInit, ActsInv, Live
<1>2. WordsInv
  BY FicheAssumption DEF FicheInit, WordsInv, WordsAreKept
<1> QED  BY <1>1, <1>2 DEF FicheTyped

\* Every behaviour of the card keeps its acts and its words.
THEOREM FicheInOrder == FicheSpec => []FicheTyped
<1>1. FicheTyped /\ [FicheNext]_ficheVars => FicheTyped'
  <2> SUFFICES ASSUME FicheTyped, [FicheNext]_ficheVars PROVE FicheTyped'
    OBVIOUS
  <2>1. CASE UNCHANGED ficheVars
    <3>1. ActsInv'
      BY <2>1, FewerActs DEF ficheVars, FicheTyped
    <3>2. WordsInv'
      BY <2>1, StillWords DEF ficheVars, world, FicheTyped, WordsInv
    <3> QED  BY <3>1, <3>2 DEF FicheTyped
  <2>2. CASE FicheNext
    BY <2>2, ActsAreKept, WordsStay DEF FicheTyped
  <2> QED  BY <2>1, <2>2
<1> QED  BY <1>1, FicheStart, PTL DEF FicheSpec

\* Words typed about a mayor are on their card or kept for it until they are filed,
\* or the screen says it could not keep them, whichever card an act lands under
\* (common.tsx: the swap of the card, NoteAfter, the mirror of the drafts).
THEOREM WordsAreAlwaysKept == FicheSpec => []WordsAreKept
<1>1. FicheTyped => WordsAreKept
  BY DEF FicheTyped, WordsInv
<1> QED  BY <1>1, FicheInOrder, PTL

\* An act that lands takes away no editor but the one it was pressed from, unless the
\* line itself has gone (common.tsx: what a landing act clears of the open editor).
THEOREM CorrectionsAlwaysStay == FicheSpec => CorrectionsStay
<1> DEFINE Stays ==
      (active.verb = "edit" /\ card' = card /\ acts' # acts /\ active' # active) =>
        \/ said'.what = "stranded"
        \/ \E c \in acts \ acts' : c.kind = "revision" /\ c.from = active
<1>1. FicheNext => Stays
  <2>1. CASE UNCHANGED active \/ acts' = acts \/ card' # card
    BY <2>1
  <2>2. ASSUME NEW c \in acts, SaveLands(c) \/ RevisionRefused(c) PROVE Stays
    BY <2>2 DEF SaveLands, RevisionRefused, Reread
  <2>3. ASSUME NEW c \in acts, RevisionLands(c) PROVE Stays
    BY <2>3 DEF RevisionLands, Reread, ActiveAfter
  <2>4. ASSUME NEW c \in acts, OnlySays(c) PROVE UNCHANGED active
    BY <2>4 DEF OnlySays, editor
  <2>5. ASSUME NEW m \in Mayors, Opens(m) \/ OtherWindow(m)
        PROVE  UNCHANGED active \/ card' # card
    BY <2>5 DEF Opens, OtherWindow, OtherWrites, editor
  <2>6. Closes => card' # card
    BY DEF Closes
  <2>7. Rerenders \/ Rewrites \/ Saves \/ SavesNothing \/ Revises \/ Copies => UNCHANGED active
    BY DEF Rerenders, Rewrites, Saves, SavesNothing, Revises, Copies, editor
  <2>8. Cancels => acts' = acts
    BY DEF Cancels
  <2>9. \A text : TypesNote(text) \/ Corrects(text) => UNCHANGED active
    BY DEF TypesNote, Corrects, editor
  <2>10. \A value : Picks(value) => UNCHANGED active
    BY DEF Picks, editor
  <2>11. \A i : OpensEditor(i) \/ OpensQuestion(i) => acts' = acts
    BY DEF OpensEditor, OpensQuestion
  <2> HIDE DEF Stays
  <2> QED
    BY <2>1, <2>2, <2>3, <2>4, <2>5, <2>6, <2>7, <2>8, <2>9, <2>10, <2>11 DEF FicheNext
<1> QED  BY <1>1, PTL DEF FicheSpec, CorrectionsStay

-----------------------------------------------------------------------------
\* What the select shows

\* A pick p stands for the choice ch on the card of m.
Standing(p, ch, m) ==
  IF ch = NoChoice THEN p.who # m ELSE ch.who = m /\ p.who = m /\ p.value = ch.value

\* The removals out that roll the choice back: pressed after it was made.
Undoing ==
  {c \in Live("revision") : c.from.verb = "delete" /\ ~(c.number <= choice.after)}

\* The choice made on a card is in the select, or with the removal that may give it back.
PickInv ==
  /\ choice.after \in Nat /\ choice.after <= begun
  /\ choice # NoChoice => card # None
  /\ \A c \in acts : (c.kind = "revision" /\ ~c.live /\ choice # NoChoice)
                       => c.number <= choice.after
  /\ \A c \in acts : (c.kind = "revision" /\ c.from.verb # "delete") => c.dropped = NoPick
  /\ \A c \in Undoing : picked = NoPick /\ Standing(c.dropped, choice, card)
  /\ card # None /\ Undoing = {} => Standing(picked, choice, card)

ChoiceInv == ActsInv /\ PickInv

LEMMA Silences ==
  /\ NoPick.who = None /\ NoChoice.after = 0
  /\ \A p : /\ Choice(p).who = p.who /\ Choice(p).value = p.value
            /\ Choice(p).after = begun
            /\ p.who # None => Choice(p) # NoChoice
BY DEF NoPick, NoChoice, Choice

\* A step that leaves the select and the revisions alone.
LEMMA PicksStay ==
  ASSUME ChoiceInv, UNCHANGED <<card, picked, choice>>, begun' \in Nat, begun <= begun',
         \A c : c.kind = "revision" => (c \in acts' <=> c \in acts)
  PROVE  PickInv'
<1>1. Undoing' = Undoing
  BY DEF Undoing, Live
<1>2. choice.after \in Nat /\ choice.after <= begun'
  BY DEF ChoiceInv, PickInv, ActsInv
<1> QED  BY <1>1, <1>2 DEF ChoiceInv, PickInv

LEMMA LeavingDrops ==
  ASSUME ActsInv, PickInv, acts' = Superseded(acts)
  PROVE  \A d \in acts' : (d.kind = "revision" /\ d.from.verb # "delete") => d.dropped = NoPick
<1> SUFFICES ASSUME NEW d \in acts', d.kind = "revision", d.from.verb # "delete"
             PROVE  d.dropped = NoPick
  OBVIOUS
<1>1. PICK c \in acts : d = [c EXCEPT !.live = FALSE]
  BY DEF Superseded
<1>2. IsAct(c, begun)
  BY DEF ActsInv
<1>3. d.kind = c.kind /\ (c.kind = "revision" => d.from = c.from /\ d.dropped = c.dropped)
  BY <1>1, <1>2, SupersededIsTheSame
<1> QED  BY <1>3 DEF PickInv

LEMMA OpensKeepsPicks ==
  ASSUME ChoiceInv, NEW m \in Mayors, Opens(m)
  PROVE  PickInv'
<1>1. /\ card' = m /\ m # None /\ begun' = begun /\ acts' = Superseded(acts)
      /\ choice' = IF picked'.who = m THEN Choice(picked') ELSE NoChoice
  BY FicheAssumption DEF Opens
<1>2. ActsInv' /\ \A d \in acts' : ~d.live
  BY <1>1, LeavingSupersedes DEF ChoiceInv
<1>3. Undoing' = {}
  BY <1>2 DEF Undoing, Live
<1>4. choice'.after \in Nat /\ choice'.after <= begun' /\ begun \in Nat
  BY <1>1, Silences DEF ChoiceInv, ActsInv
<1>5. choice' # NoChoice => choice'.after = begun
  BY <1>1, Silences
<1>6. \A c \in acts' : (c.kind = "revision" /\ ~c.live /\ choice' # NoChoice)
                         => c.number <= choice'.after
  BY <1>1, <1>2, <1>5 DEF ActsInv, IsAct
<1>7. Standing(picked', choice', card')
  BY <1>1, Silences DEF Standing
<1> QED  BY <1>1, <1>3, <1>4, <1>6, <1>7, LeavingDrops DEF PickInv, ChoiceInv

LEMMA ClosesKeepsPicks ==
  ASSUME ChoiceInv, Closes
  PROVE  PickInv'
<1>1. /\ card' = None /\ begun' = begun /\ acts' = Superseded(acts) /\ choice' = NoChoice
  BY DEF Closes
<1>2. ActsInv' /\ \A d \in acts' : ~d.live
  BY <1>1, LeavingSupersedes DEF ChoiceInv
<1>3. Undoing' = {}
  BY <1>2 DEF Undoing, Live
<1> QED  BY <1>1, <1>2, <1>3, LeavingDrops, Silences DEF PickInv, ChoiceInv, ActsInv

LEMMA PicksKeepsPicks ==
  ASSUME ChoiceInv, NEW value, Picks(value)
  PROVE  PickInv'
<1>1. /\ card # None /\ card' = card /\ acts' = acts /\ begun' = begun
      /\ picked' = [who |-> card, value |-> value] /\ choice' = Choice(picked')
  BY DEF Picks
<1>2. /\ picked'.who = card /\ choice'.who = card /\ choice'.value = picked'.value
      /\ choice'.after = begun /\ choice' # NoChoice
  BY <1>1, Silences
<1>3. \A c \in acts : c.number <= choice'.after
  BY <1>2 DEF ChoiceInv, ActsInv, IsAct
<1>4. Undoing' = {}
  BY <1>1, <1>3 DEF Undoing, Live
<1>5. Standing(picked', choice', card')
  BY <1>1, <1>2 DEF Standing
<1> QED  BY <1>1, <1>2, <1>3, <1>4, <1>5 DEF PickInv, ChoiceInv, ActsInv

\* A removal drops the pick before its round trip, and takes it along.
LEMMA RevisesKeepsPicks ==
  ASSUME ChoiceInv, Revises
  PROVE  PickInv'
<1> DEFINE removes == active.verb = "delete"
           a == RevisionAct(IF removes THEN picked ELSE NoPick)
<1>1. /\ card # None /\ Live("revision") = {} /\ begun' = begun + 1 /\ acts' = acts \union {a}
      /\ picked' = IF removes THEN NoPick ELSE picked
      /\ UNCHANGED <<card, choice>>
  BY DEF Revises, Begins
<1>2. /\ a.kind = "revision" /\ a.live = TRUE /\ a.number = begun + 1 /\ a.from = active
      /\ a.dropped = IF removes THEN picked ELSE NoPick
  BY NewActs
<1> HIDE DEF a
<1>3. /\ choice.after \in Nat /\ choice.after <= begun /\ begun \in Nat
      /\ ~(a.number <= choice.after)
  BY <1>2 DEF ChoiceInv, PickInv, ActsInv
<1>4. Undoing = {} /\ Standing(picked, choice, card)
  BY <1>1 DEF ChoiceInv, PickInv, Undoing
<1>5. Undoing' = IF removes THEN {a} ELSE {}
  BY <1>1, <1>2, <1>3 DEF Undoing, Live
<1>6. \A c \in acts' : (c.kind = "revision" /\ ~c.live /\ choice # NoChoice)
                         => c.number <= choice.after
  BY <1>1, <1>2 DEF ChoiceInv, PickInv
<1>7. \A c \in acts' : (c.kind = "revision" /\ c.from.verb # "delete") => c.dropped = NoPick
  BY <1>1, <1>2 DEF ChoiceInv, PickInv
<1>8. \A c \in Undoing' : picked' = NoPick /\ Standing(c.dropped, choice, card)
  BY <1>1, <1>2, <1>4, <1>5
<1>9. Undoing' = {} => Standing(picked', choice, card)
  BY <1>1, <1>4, <1>5
<1> QED  BY <1>1, <1>3, <1>6, <1>7, <1>8, <1>9 DEF PickInv

\* A removal that lands rolls back the choice it found, and no later one.
LEMMA RevisionLandsKeepsPicks ==
  ASSUME ChoiceInv, NEW c \in acts, RevisionLands(c)
  PROVE  PickInv'
<1>1. /\ c.kind = "revision" /\ acts' = acts \ {c} /\ UNCHANGED <<card, begun, picked>>
      /\ choice' = IF c.from.verb = "delete" /\ choice.after < c.number THEN NoChoice
                                                                      ELSE choice
  BY DEF RevisionLands, words
<1>2. /\ begun \in Nat /\ c.number \in Nat /\ c.number >= 1 /\ c.live \in BOOLEAN
      /\ choice.after \in Nat /\ choice.after <= begun
  BY DEF ChoiceInv, ActsInv, PickInv, IsAct
<1>3. CASE c \in Undoing
  <2>1. choice' = NoChoice /\ picked = NoPick
    BY <1>1, <1>2, <1>3 DEF Undoing, ChoiceInv, PickInv
  <2>2. Undoing' = {}
    BY <1>1, <1>3 DEF Undoing, Live, ChoiceInv, ActsInv
  <2>3. card # None => Standing(picked, NoChoice, card)
    BY <2>1, Silences DEF Standing
  <2> QED  BY <1>1, <1>2, <2>1, <2>2, <2>3, Silences DEF PickInv, ChoiceInv
<1>4. CASE c \notin Undoing
  <2>1. choice' = choice
    BY <1>1, <1>2, <1>4 DEF Undoing, Live, ChoiceInv, PickInv
  <2>2. Undoing' = Undoing
    BY <1>1, <1>4, <2>1 DEF Undoing, Live
  <2> QED  BY <1>1, <1>2, <2>1, <2>2 DEF PickInv, ChoiceInv
<1> QED  BY <1>3, <1>4

\* A refusal gives the pick back, unless another was made since.
LEMMA RefusalKeepsPicks ==
  ASSUME ChoiceInv, NEW c \in acts, RevisionRefused(c)
  PROVE  PickInv'
<1>1. /\ c.kind = "revision" /\ acts' = acts \ {c} /\ UNCHANGED <<card, begun, choice>>
      /\ picked' = IF c.live /\ picked = NoPick THEN c.dropped ELSE picked
  BY DEF RevisionRefused, words, PickedAfter
<1>2. /\ begun \in Nat /\ c.number \in Nat /\ c.number >= 1 /\ c.live \in BOOLEAN
      /\ choice.after \in Nat /\ choice.after <= begun
  BY DEF ChoiceInv, ActsInv, PickInv, IsAct
<1>3. CASE c \in Undoing
  <2>1. picked' = c.dropped /\ Standing(c.dropped, choice, card)
    BY <1>1, <1>3 DEF Undoing, Live, ChoiceInv, PickInv
  <2>2. Undoing' = {}
    BY <1>1, <1>3 DEF Undoing, Live, ChoiceInv, ActsInv
  <2> QED  BY <1>1, <1>2, <2>1, <2>2 DEF PickInv, ChoiceInv
<1>4. CASE c \notin Undoing
  <2>1. picked' = picked
    <3>1. CASE c.live
      <4>1. card # None /\ Undoing = {}
        BY <1>1, <1>4, <3>1 DEF Undoing, Live, ChoiceInv, ActsInv
      <4>2. CASE c.from.verb = "delete"
        <5>1. choice # NoChoice
          BY <1>1, <1>2, <1>4, <3>1, <4>2, Silences DEF Undoing, Live
        <5>2. picked.who = card
          BY <4>1, <5>1 DEF ChoiceInv, PickInv, Standing
        <5> QED  BY <1>1, <4>1, <5>2, Silences
      <4>3. CASE c.from.verb # "delete"
        BY <1>1, <4>3 DEF ChoiceInv, PickInv
      <4> QED  BY <4>2, <4>3
    <3>2. CASE ~c.live
      BY <1>1, <3>2
    <3> QED  BY <3>1, <3>2
  <2>2. Undoing' = Undoing
    BY <1>1, <1>4 DEF Undoing, Live
  <2> QED  BY <1>1, <1>2, <2>1, <2>2 DEF PickInv, ChoiceInv
<1> QED  BY <1>3, <1>4

\* A step that leaves the select alone, and the acts but for a save or a copy.
Unpicked ==
  /\ UNCHANGED <<card, picked, choice>> /\ begun' \in {begun, begun + 1}
  /\ \A c : c.kind = "revision" => (c \in acts' <=> c \in acts)

LEMMA StepsUnpicked ==
  /\ Rerenders \/ Rewrites \/ Cancels \/ SavesNothing => Unpicked
  /\ Saves \/ Copies => Unpicked
  /\ \A text : TypesNote(text) \/ Corrects(text) => Unpicked
  /\ \A i : OpensEditor(i) \/ OpensQuestion(i) => Unpicked
  /\ \A m : OtherWindow(m) => Unpicked
  /\ \A c : SaveLands(c) \/ OnlySays(c) => Unpicked
<1>1. Rerenders \/ Rewrites \/ Cancels \/ SavesNothing => Unpicked
  BY DEF Rerenders, Rewrites, Cancels, SavesNothing, Unpicked, select
<1>2. Saves => Unpicked
  <2> DEFINE a == SaveAct
  <2>1. Saves => acts' = acts \union {a} /\ begun' = begun + 1 /\ UNCHANGED <<card, select>>
    BY DEF Saves, Begins
  <2>2. a.kind = "save"
    BY NewActs
  <2> HIDE DEF a
  <2> QED  BY <2>1, <2>2 DEF Unpicked, select
<1>3. Copies => Unpicked
  <2> SUFFICES ASSUME Copies PROVE Unpicked
    OBVIOUS
  <2> DEFINE a == CopyAct
             copies == Superseded(Live("copy"))
  <2>1. /\ begun' = begun + 1 /\ UNCHANGED <<card, select>>
        /\ acts' = (acts \ Live("copy")) \union copies \union {a}
    BY DEF Copies
  <2>2. a.kind = "copy"
    BY NewActs
  <2>3. ASSUME NEW d \in copies PROVE d.kind # "revision"
    <3>1. PICK c \in Live("copy") : d = [c EXCEPT !.live = FALSE]
      BY DEF Superseded
    <3> QED  BY <3>1 DEF Live
  <2>4. \A c \in Live("copy") : c.kind # "revision"
    BY DEF Live
  <2> HIDE DEF a, copies
  <2> QED  BY <2>1, <2>2, <2>3, <2>4 DEF Unpicked, select
<1>4. \A text : TypesNote(text) \/ Corrects(text) => Unpicked
  BY DEF TypesNote, Corrects, Unpicked, select
<1>5. \A i : OpensEditor(i) \/ OpensQuestion(i) => Unpicked
  BY DEF OpensEditor, OpensQuestion, Unpicked, select
<1>6. \A m : OtherWindow(m) => Unpicked
  BY DEF OtherWindow, OtherWrites, Unpicked, select
<1>7. \A c : SaveLands(c) \/ OnlySays(c) => Unpicked
  BY DEF SaveLands, OnlySays, Unpicked, select
<1> QED  BY <1>1, <1>2, <1>3, <1>4, <1>5, <1>6, <1>7

LEMMA PicksAreKept ==
  ASSUME ChoiceInv, FicheNext
  PROVE  PickInv'
<1>1. Unpicked => PickInv'
  BY PicksStay DEF Unpicked, ChoiceInv, ActsInv
<1>2. CASE \E m \in Mayors : Opens(m) \/ OtherWindow(m)
  BY <1>1, <1>2, OpensKeepsPicks, StepsUnpicked
<1>3. CASE Closes
  BY <1>3, ClosesKeepsPicks
<1>4. CASE Rerenders \/ Rewrites \/ Cancels \/ SavesNothing \/ Saves \/ Copies
  BY <1>1, <1>4, StepsUnpicked
<1>5. CASE \E text \in CardTexts \union {Empty} : TypesNote(text) \/ Corrects(text)
  BY <1>1, <1>5, StepsUnpicked
<1>6. CASE \E value \in Statuses : Picks(value)
  BY <1>6, PicksKeepsPicks
<1>7. CASE card # None /\ \E i \in DOMAIN history[card] : OpensEditor(i) \/ OpensQuestion(i)
  BY <1>1, <1>7, StepsUnpicked
<1>8. CASE Revises
  BY <1>8, RevisesKeepsPicks
<1>9. CASE \E c \in acts :
            SaveLands(c) \/ RevisionLands(c) \/ RevisionRefused(c) \/ OnlySays(c)
  BY <1>1, <1>9, StepsUnpicked, RevisionLandsKeepsPicks, RefusalKeepsPicks
<1> QED  BY <1>2, <1>3, <1>4, <1>5, <1>6, <1>7, <1>8, <1>9 DEF FicheNext

\* The select shows what was chosen for this very mayor until a removal rolls their card
\* back, and else what the card carries (common.tsx: the pick, who it is of, and what a
\* removal does of it).
THEOREM ChoicesAlwaysStand == FicheSpec => []ChoicesStand
<1>1. FicheInit => ChoiceInv
  <2> SUFFICES ASSUME FicheInit PROVE ChoiceInv
    OBVIOUS
  <2>1. acts = {} /\ card = None /\ choice = NoChoice /\ begun = 0
    BY DEF FicheInit
  <2>2. ActsInv
    BY <2>1 DEF ActsInv, Live
  <2>3. Undoing = {}
    BY <2>1 DEF Undoing, Live
  <2> QED  BY <2>1, <2>2, <2>3, Silences DEF ChoiceInv, PickInv
<1>2. ChoiceInv /\ [FicheNext]_ficheVars => ChoiceInv'
  <2> SUFFICES ASSUME ChoiceInv, [FicheNext]_ficheVars PROVE ChoiceInv'
    OBVIOUS
  <2>1. CASE UNCHANGED ficheVars
    <3>1. ActsInv'
      BY <2>1, FewerActs DEF ficheVars, ChoiceInv
    <3>2. Unpicked
      BY <2>1 DEF ficheVars, select, Unpicked
    <3> QED  BY <3>1, <3>2, PicksStay DEF Unpicked, ChoiceInv, ActsInv
  <2>2. CASE FicheNext
    BY <2>2, ActsAreKept, PicksAreKept DEF ChoiceInv
  <2> QED  BY <2>1, <2>2
<1>3. ChoiceInv => ChoicesStand
  <2> SUFFICES ASSUME ChoiceInv, card # None,
                      \A c \in Live("revision") :
                        c.from.verb = "delete" => c.number <= choice.after
               PROVE  status = IF choice = NoChoice THEN carried ELSE choice.value
    BY DEF ChoicesStand
  <2>1. Undoing = {}
    BY DEF Undoing
  <2>2. Standing(picked, choice, card)
    BY <2>1 DEF ChoiceInv, PickInv
  <2> QED  BY <2>2 DEF Standing, status
<1> QED  BY <1>1, <1>2, <1>3, PTL DEF FicheSpec

-----------------------------------------------------------------------------
\* The campaign of a page: the lists of writes

\* What any handler may do; a snapshot of this origin's campaign is of one of its versions.
Sayings == {"saved", "pending", "offerError", "taken", "reread"}
Faithful(w) ==
  /\ w.do \in {"put"} \cup Sayings
  /\ w.do = "put" /\ w.key = "adoption" => OwnSnapshot(w.value)
  /\ w.do = "put" /\ w.key = "campagne" => w.value \in Campaigns
  /\ w.do = "saved" => w.cfg \in Campaigns

\* What a load may write: not over the fields typed or linked that it read, and nothing
\* when the page was opened for another campaign.
Spares(w, found) ==
  /\ w.do \in {"put", "pending", "offerError"}
  /\ found.campagne.fields \in {Typed, LinkFields} => ~(w.do = "put" /\ w.key = "campagne")
  /\ found.slug = Other => w.do # "put"

\* What a handler has to do; spares says it is the load's, and for which load.
Lawful(s, spares, found) ==
  \E S : s \in Seq(S) /\ \A w \in S : Faithful(w) /\ (spares => Spares(w, found))

LEMMA LawfulBy ==
  ASSUME NEW spares, NEW found, NEW s, NEW S, s \in Seq(S),
         \A w \in S : Faithful(w), spares => \A w \in S : Spares(w, found)
  PROVE  Lawful(s, spares, found)
BY DEF Lawful

LEMMA LawfulLists ==
  ASSUME NEW spares \in BOOLEAN, NEW found
  PROVE  /\ Lawful(<<>>, spares, found)
         /\ \A w : Faithful(w) /\ (spares => Spares(w, found)) => Lawful(<<w>>, spares, found)
         /\ \A s, t : Lawful(s, spares, found) /\ Lawful(t, spares, found)
                        => Lawful(s \o t, spares, found)
         /\ \A s : Lawful(s, spares, found) /\ s # <<>> =>
              /\ Faithful(Head(s)) /\ (spares => Spares(Head(s), found))
              /\ Lawful(Tail(s), spares, found) /\ Tail(s) # s
<1>1. Lawful(<<>>, spares, found)
  <2> DEFINE s == <<>>
             S == {}
  <2>1. s \in Seq(S) /\ \A x \in S : FALSE
    OBVIOUS
  <2> HIDE DEF s, S
  <2>2. Lawful(s, spares, found)
    BY <2>1, LawfulBy
  <2> QED  BY <2>2 DEF s
<1>2. ASSUME NEW w, Faithful(w), spares => Spares(w, found) PROVE Lawful(<<w>>, spares, found)
  <2> DEFINE s == <<w>>
             S == {w}
  <2>1. s \in Seq(S) /\ \A x \in S : x = w
    OBVIOUS
  <2> HIDE DEF s, S
  <2>2. Lawful(s, spares, found)
    BY <1>2, <2>1, LawfulBy
  <2> QED  BY <2>2 DEF s
<1>3. ASSUME NEW s, NEW t, Lawful(s, spares, found), Lawful(t, spares, found)
      PROVE  Lawful(s \o t, spares, found)
  <2>1. PICK S : s \in Seq(S) /\ \A w \in S : Faithful(w) /\ (spares => Spares(w, found))
    BY <1>3 DEF Lawful
  <2>2. PICK T : t \in Seq(T) /\ \A w \in T : Faithful(w) /\ (spares => Spares(w, found))
    BY <1>3 DEF Lawful
  <2>3. s \in Seq(S \cup T) /\ t \in Seq(S \cup T)
    BY <2>1, <2>2
  <2>4. s \o t \in Seq(S \cup T)
    BY <2>3
  <2> QED  BY <2>1, <2>2, <2>4 DEF Lawful
<1>4. ASSUME NEW s, Lawful(s, spares, found), s # <<>>
      PROVE  /\ Faithful(Head(s)) /\ (spares => Spares(Head(s), found))
             /\ Lawful(Tail(s), spares, found) /\ Tail(s) # s
  <2>1. PICK S : s \in Seq(S) /\ \A w \in S : Faithful(w) /\ (spares => Spares(w, found))
    BY <1>4 DEF Lawful
  <2>2. Head(s) \in S /\ Tail(s) \in Seq(S)
    BY <1>4, <2>1
  <2>3. Tail(s) # s
    BY <1>4, <2>1
  <2> QED  BY <2>1, <2>2, <2>3 DEF Lawful
<1> QED  BY <1>1, <1>2, <1>3, <1>4

\* The pieces the lists are made of.
LEMMA PutIsLawful ==
  ASSUME NEW spares \in BOOLEAN, NEW found, NEW k, NEW v, k = "adoption" => OwnSnapshot(v),
         k = "campagne" => v \in Campaigns,
         spares => /\ found.slug # Other
                   /\ k = "campagne" => found.campagne.fields \notin {Typed, LinkFields}
  PROVE  Lawful(Put(k, v), spares, found)
<1> DEFINE w == [do |-> "put", key |-> k, value |-> v]
<1>1. w.do = "put" /\ w.key = k /\ w.value = v
  OBVIOUS
<1>2. Put(k, v) = <<w>>
  BY DEF Put
<1> HIDE DEF w
<1>3. Faithful(w) /\ (spares => Spares(w, found))
  BY <1>1 DEF Faithful, Spares
<1> QED  BY <1>2, <1>3, LawfulLists

LEMMA SayIsLawful ==
  ASSUME NEW spares \in BOOLEAN, NEW found, NEW w,
         w.do \in Sayings, w.do = "saved" => w.cfg \in Campaigns, spares => w.do \in {"pending", "offerError"}
  PROVE  Lawful(<<w>>, spares, found)
<1>1. Faithful(w) /\ (spares => Spares(w, found))
  BY DEF Faithful, Spares, Sayings
<1> QED  BY <1>1, LawfulLists

LEMMA WhenIsLawful ==
  ASSUME NEW spares \in BOOLEAN, NEW found, NEW test \in BOOLEAN, NEW s,
         test => Lawful(s, spares, found)
  PROVE  Lawful(When(test, s), spares, found)
BY LawfulLists DEF When

LEMMA JoinIsLawful ==
  ASSUME NEW spares \in BOOLEAN, NEW found, NEW s, NEW t,
         Lawful(s, spares, found), Lawful(t, spares, found)
  PROVE  Lawful(s \o t, spares, found)
BY LawfulLists

LEMMA AdoptFieldsIsLawful ==
  ASSUME NEW spares \in BOOLEAN, NEW found, NEW offer, NEW current \in Campaigns,
         offer.fields \in Fields, offer.slug = Own => offer.fields \in OwnFields \cup {Blank},
         spares => /\ found.slug # Other
                   /\ found.campagne.fields \notin {Typed, LinkFields}
  PROVE  /\ Lawful(AdoptFields(offer, current), spares, found)
         /\ Lawful(Adopt(offer, current), spares, found)
<1> DEFINE one == Put("campagne", Handed(offer, current))
           two == Put("adoption", SnapshotOf(offer))
           three == When(offer.logo # Blank, Put("logo", offer.logo))
<1>1. Lawful(one, spares, found)
  <2>1. Handed(offer, current) \in Campaigns
    BY DEF Handed, Campaigns
  <2> QED  BY <2>1, PutIsLawful
<1>2. Lawful(two, spares, found)
  <2>1. OwnSnapshot(SnapshotOf(offer))
    BY DEF OwnSnapshot, SnapshotOf
  <2> QED  BY <2>1, PutIsLawful
<1>3. Lawful(three, spares, found)
  <2>1. Lawful(Put("logo", offer.logo), spares, found)
    BY PutIsLawful
  <2> QED  BY <2>1, WhenIsLawful
<1>4. AdoptFields(offer, current) = (one \o two) \o three
  BY DEF AdoptFields
<1> HIDE DEF one, two, three
<1>5. Lawful(AdoptFields(offer, current), spares, found)
  BY <1>1, <1>2, <1>3, <1>4, JoinIsLawful
<1> DEFINE four == Put("layer", offer.texts)
           five == Put("overlay", Blank)
<1>6. Lawful(four, spares, found) /\ Lawful(five, spares, found)
  BY PutIsLawful
<1>7. Adopt(offer, current) = (AdoptFields(offer, current) \o four) \o five
  BY DEF Adopt
<1> HIDE DEF four, five
<1>8. Lawful(Adopt(offer, current), spares, found)
  BY <1>5, <1>6, <1>7, JoinIsLawful
<1> QED  BY <1>5, <1>8

\* What a load decides spares what it found chosen, whatever its origin answers.
LEMMA DecideIsLawful ==
  ASSUME NEW found, NEW own, own = Nothing \/ own \in OwnOffers, OwnSnapshot(found.adoption),
         found.campagne \in Campaigns
  PROVE  Lawful(Decide(found, own), TRUE, found)
<1>1. Lawful(OfferLink(found), TRUE, found)
  <2> DEFINE w == [do |-> IF Untouched(found.campagne) THEN "pending" ELSE "offerError"]
  <2>1. w.do \in {"pending", "offerError"} /\ w.do \in Sayings
    BY DEF Sayings
  <2>2. OfferLink(found) = When(found.slug # Nothing, <<w>>)
    BY DEF OfferLink, Say
  <2> HIDE DEF w
  <2>3. Lawful(<<w>>, TRUE, found)
    BY <2>1, SayIsLawful
  <2> QED  BY <2>2, <2>3, WhenIsLawful
<1>2. CASE own = Nothing \/ ~MayTake(found, own)
  BY <1>1, <1>2 DEF Decide
<1>3. CASE ~(own = Nothing \/ ~MayTake(found, own))
  <2>1. /\ own \in OwnOffers /\ own.slug = Own /\ own.fields \in OwnFields \cup {Blank}
        /\ found.slug # Other /\ own.fields \in Fields
    BY <1>3, AdoptionAssumption DEF MayTake, OwnOffers, Slugs, Fields
  <2>2. CASE own.fields # Blank /\ Untouched(found.campagne)
    <3>1. found.campagne.fields \notin {Typed, LinkFields}
      BY <2>2, AdoptionAssumption DEF Untouched
    <3>2. Decide(found, own) = Adopt(own, found.campagne)
      BY <1>3, <2>2 DEF Decide
    <3> QED  BY <2>1, <3>1, <3>2, AdoptFieldsIsLawful
  <2>3. CASE ~(own.fields # Blank /\ Untouched(found.campagne))
    <3> DEFINE one == When(Migrates(found, own), Put("overlay", Blank))
               two == When(found.layer # own.texts, Put("layer", own.texts))
               same == IF SameAdoptedFields(found.campagne, own)
                       THEN Put("adoption", SnapshotOf(own))
                       ELSE AdoptFields(own, found.campagne)
               three == When(FieldsUntouched(found, own), same)
               four == When(own.fields # Blank /\ ~FieldsUntouched(found, own), OfferLink(found))
    <3>1. Lawful(one, TRUE, found)
      <4>1. Lawful(Put("overlay", Blank), TRUE, found)
        BY <2>1, PutIsLawful
      <4>2. Migrates(found, own) \in BOOLEAN
        BY DEF Migrates
      <4> QED  BY <4>1, <4>2, WhenIsLawful
    <3>2. Lawful(two, TRUE, found)
      <4>1. Lawful(Put("layer", own.texts), TRUE, found)
        BY <2>1, PutIsLawful
      <4> QED  BY <4>1, WhenIsLawful
    <3>3. Lawful(three, TRUE, found)
      <4>1. ASSUME FieldsUntouched(found, own)
            PROVE  found.campagne.fields \notin {Typed, LinkFields}
        BY <2>1, <4>1, AdoptionAssumption
        DEF FieldsUntouched, SameAdoptedFields, Followed, OwnSnapshot
      <4>2. ASSUME FieldsUntouched(found, own) PROVE Lawful(same, TRUE, found)
        <5>1. OwnSnapshot(SnapshotOf(own))
          BY <2>1 DEF OwnSnapshot, SnapshotOf
        <5>2. Lawful(Put("adoption", SnapshotOf(own)), TRUE, found)
          BY <2>1, <5>1, PutIsLawful
        <5>3. Lawful(AdoptFields(own, found.campagne), TRUE, found)
          BY <2>1, <4>1, <4>2, AdoptFieldsIsLawful
        <5> QED  BY <5>2, <5>3
      <4>3. FieldsUntouched(found, own) \in BOOLEAN
        BY DEF FieldsUntouched
      <4> HIDE DEF same
      <4> QED  BY <4>2, <4>3, WhenIsLawful
    <3>4. Lawful(four, TRUE, found)
      <4>1. (own.fields # Blank /\ ~FieldsUntouched(found, own)) \in BOOLEAN
        OBVIOUS
      <4> QED  BY <1>1, <4>1, WhenIsLawful
    <3>5. Decide(found, own) = ((one \o two) \o three) \o four
      BY <1>3, <2>3 DEF Decide, Follow
    <3> HIDE DEF one, two, three, four, same
    <3> QED  BY <3>1, <3>2, <3>3, <3>4, <3>5, JoinIsLawful
  <2> QED  BY <2>2, <2>3
<1> QED  BY <1>2, <1>3

-----------------------------------------------------------------------------
\* Every step keeps the lists lawful

SettingsInv ==
  /\ DOMAIN settings = Keys
  /\ settings["adoption"] # Unset => OwnSnapshot(settings["adoption"])
  /\ settings["campagne"] \in Campaigns \cup {Unset}

\* The page open, with campaigns and an offer that is the link's.
Showing(p) ==
  /\ {"open", "offer", "cfg", "draft"} \subseteq DOMAIN p
  /\ p.open /\ p.offer \in {Nothing, LinkOffer}
  /\ p.cfg \in Campaigns /\ p.draft \in Campaigns

PageInv ==
  /\ "open" \in DOMAIN page
  /\ page.open => Showing(page)
  /\ ~page.open => load = Nothing /\ todo = Quiet

LoadInv ==
  load # Nothing => /\ {"slug", "campagne", "adoption"} \subseteq DOMAIN load
                    /\ OwnSnapshot(load.adoption) /\ load.campagne \in Campaigns

TodoInv ==
  /\ DOMAIN todo = Handlers
  /\ \A h \in Handlers : Lawful(todo[h], h = "load", load)

AdoptInv == /\ SettingsInv /\ PageInv /\ LoadInv /\ TodoInv
            /\ origin \in OwnOffers

\* A handler that touches the store marks the load, and changes nothing it decides on.
LEMMA DisturbedDecidesTheSame ==
  ASSUME LoadInv, load' \in {load, Disturbed}
  PROVE  /\ LoadInv'
         /\ \A s, h : Lawful(s, h = "load", load) => Lawful(s, h = "load", load')
<1>1. CASE load' = load
  BY <1>1 DEF LoadInv
<1>2. CASE load' = Disturbed /\ load = Nothing
  BY <1>2 DEF LoadInv, Disturbed
<1>3. CASE load' = Disturbed /\ load # Nothing
  <2>1. /\ {"slug", "campagne", "adoption"} \subseteq DOMAIN load /\ OwnSnapshot(load.adoption)
        /\ load.campagne \in Campaigns /\ load' = [load EXCEPT !.alone = FALSE]
    BY <1>3 DEF LoadInv, Disturbed
  <2>2. /\ {"slug", "campagne", "adoption"} \subseteq DOMAIN load'
        /\ load'.slug = load.slug /\ load'.campagne = load.campagne
        /\ load'.adoption = load.adoption
    BY <2>1
  <2>3. \A w : Spares(w, load) => Spares(w, load')
    BY <2>2 DEF Spares
  <2>4. \A s, h : Lawful(s, h = "load", load) => Lawful(s, h = "load", load')
    BY <2>3 DEF Lawful
  <2> QED  BY <2>1, <2>2, <2>4 DEF LoadInv
<1> QED  BY <1>1, <1>2, <1>3

\* One list changes, lawfully.
LEMMA OneListChanges ==
  ASSUME TodoInv, LoadInv, load' \in {load, Disturbed}, NEW h \in Handlers, NEW s,
         Lawful(s, h = "load", load), todo' = [todo EXCEPT ![h] = s]
  PROVE  TodoInv' /\ LoadInv'
<1>1. DOMAIN todo' = Handlers /\ \A k \in Handlers : todo'[k] = IF k = h THEN s ELSE todo[k]
  BY DEF TodoInv
<1> QED  BY <1>1, DisturbedDecidesTheSame DEF TodoInv

LEMMA NoListChanges ==
  ASSUME TodoInv, LoadInv, load' \in {load, Disturbed}, todo' = todo
  PROVE  TodoInv' /\ LoadInv'
BY DisturbedDecidesTheSame DEF TodoInv

LEMMA WhatIsRead ==
  ASSUME SettingsInv
  PROVE  /\ ReadSetting(settings, "campagne") \in Campaigns
         /\ OwnSnapshot(ReadSetting(settings, "adoption"))
         /\ EMPTY_CFG \in Campaigns
<1>1. EMPTY_CFG \in Campaigns
  BY DEF EMPTY_CFG, Campaigns, Fields
<1>2. Fallback["campagne"] = EMPTY_CFG /\ Fallback["adoption"] = Nothing
  BY DEF Fallback
<1> QED  BY <1>1, <1>2 DEF SettingsInv, ReadSetting, OwnSnapshot

\* What a page shows may change, and stays a page.
LEMMA Redrawn ==
  ASSUME NEW p, Showing(p), NEW v
  PROVE  /\ \A x \in {"note", "overlay", "layer", "logo", "pending", "offerError"} :
              Showing([p EXCEPT ![x] = v])
         /\ Showing([p EXCEPT !.offer = Nothing])
         /\ Showing([p EXCEPT !.offer = LinkOffer])
         /\ v \in Campaigns => Showing([p EXCEPT !.cfg = v]) /\ Showing([p EXCEPT !.draft = v])
<1>1. ASSUME NEW x \in {"note", "overlay", "layer", "logo", "pending", "offerError"}
      PROVE  Showing([p EXCEPT ![x] = v])
  <2> DEFINE q == [p EXCEPT ![x] = v]
  <2>1. /\ DOMAIN q = DOMAIN p
        /\ \A y \in {"open", "offer", "cfg", "draft"} : q[y] = p[y]
    BY DEF Showing
  <2> HIDE DEF q
  <2>2. Showing(q)
    BY <2>1 DEF Showing
  <2> QED  BY <2>2 DEF q
<1>2. Showing([p EXCEPT !.offer = Nothing]) /\ Showing([p EXCEPT !.offer = LinkOffer])
  BY DEF Showing
<1>3. ASSUME v \in Campaigns PROVE Showing([p EXCEPT !.cfg = v])
  <2> DEFINE q == [p EXCEPT !.cfg = v]
  <2>1. DOMAIN q = DOMAIN p /\ q.open = p.open /\ q.offer = p.offer /\ q.draft = p.draft /\ q.cfg = v
    BY DEF Showing
  <2> HIDE DEF q
  <2>2. Showing(q)
    BY <1>3, <2>1 DEF Showing
  <2> QED  BY <2>2 DEF q
<1>4. ASSUME v \in Campaigns PROVE Showing([p EXCEPT !.draft = v])
  <2> DEFINE q == [p EXCEPT !.draft = v]
  <2>1. DOMAIN q = DOMAIN p /\ q.open = p.open /\ q.offer = p.offer /\ q.cfg = p.cfg /\ q.draft = v
    BY DEF Showing
  <2> HIDE DEF q
  <2>2. Showing(q)
    BY <1>4, <2>1 DEF Showing
  <2> QED  BY <2>2 DEF q
<1> QED  BY <1>1, <1>2, <1>3, <1>4

LEMMA QuietIsLawful ==
  \A found : \A h \in Handlers : Lawful(Quiet[h], h = "load", found)
BY LawfulLists DEF Quiet

LEMMA OpenPageKeepsIt ==
  ASSUME AdoptInv, NEW slug, OpenPage(slug)
  PROVE  AdoptInv'
<1> DEFINE read == [k \in Keys |-> ReadSetting(settings, k)]
<1>1. /\ ~page.open /\ todo = Quiet /\ UNCHANGED <<settings, todo, origin>>
      /\ page' = [open |-> TRUE, cfg |-> read.campagne, draft |-> read.campagne,
                  note |-> read.note, overlay |-> read.overlay, layer |-> read.layer,
                  logo |-> read.logo, pending |-> Nothing, offer |-> Nothing,
                  offerError |-> FALSE]
      /\ load' = [slug |-> slug, campagne |-> read.campagne, adoption |-> read.adoption,
                  overlay |-> read.overlay, layer |-> read.layer, at |-> "asking",
                  own |-> Nothing, alone |-> TRUE]
  BY DEF OpenPage, AdoptInv, PageInv
<1>2. OwnSnapshot(read.adoption) /\ read.campagne \in Campaigns
  BY WhatIsRead DEF AdoptInv, Keys
<1> HIDE DEF read
<1>3. Showing(page') /\ LoadInv'
  BY <1>1, <1>2 DEF Showing, LoadInv
<1>4. TodoInv'
  BY <1>1, QuietIsLawful DEF TodoInv, Quiet
<1> QED  BY <1>1, <1>3, <1>4 DEF AdoptInv, SettingsInv, PageInv, Showing

LEMMA OriginAnswersKeepsIt ==
  ASSUME AdoptInv, OriginAnswers
  PROVE  AdoptInv'
<1>1. PICK own \in OwnCampaign :
        /\ load # Nothing
        /\ load' = [load EXCEPT !.at = "writing", !.own = own]
        /\ todo' = [todo EXCEPT !["load"] = Decide(load, own)]
        /\ page' = page \/ page' = [page EXCEPT !.offerError = TRUE]
        /\ UNCHANGED <<settings, origin>>
  BY DEF OriginAnswers
<1>2. /\ {"slug", "campagne", "adoption"} \subseteq DOMAIN load'
      /\ load'.slug = load.slug /\ load'.campagne = load.campagne
      /\ load'.adoption = load.adoption /\ OwnSnapshot(load.adoption)
      /\ load.campagne \in Campaigns
  BY <1>1 DEF AdoptInv, LoadInv
<1>3. Lawful(Decide(load, own), TRUE, load)
  BY <1>1, <1>2, DecideIsLawful DEF OwnCampaign, AdoptInv
<1>4. \A w : Spares(w, load) => Spares(w, load')
  BY <1>2 DEF Spares
<1>5. \A s, h : Lawful(s, h = "load", load) => Lawful(s, h = "load", load')
  BY <1>4 DEF Lawful
<1>6. TodoInv'
  BY <1>1, <1>3, <1>5 DEF AdoptInv, TodoInv, Handlers
<1>7. Showing(page')
  <2>1. Showing(page)
    BY <1>1 DEF AdoptInv, PageInv, Showing
  <2> QED  BY <1>1, <2>1 DEF Showing
<1> QED  BY <1>1, <1>2, <1>6, <1>7 DEF AdoptInv, SettingsInv, LoadInv, PageInv, Showing

\* The writes of a handler: one setting, and what the page shows of it.
LEMMA StepKeepsIt ==
  ASSUME AdoptInv, NEW h \in Handlers, Step(h)
  PROVE  AdoptInv'
<1> DEFINE next == Head(todo[h])
<1>1. /\ todo[h] # <<>> /\ todo' = [todo EXCEPT ![h] = Tail(@)] /\ UNCHANGED origin
      /\ load' \in {load, Disturbed}
  BY DEF Step
<1>2. Lawful(todo[h], h = "load", load)
  BY DEF AdoptInv, TodoInv
<1>3. Faithful(next) /\ Lawful(Tail(todo[h]), h = "load", load)
  BY <1>1, <1>2, LawfulLists
<1>4. TodoInv' /\ LoadInv'
  <2>1. todo' = [todo EXCEPT ![h] = Tail(todo[h])]
    BY <1>1
  <2> QED  BY <1>1, <1>3, <2>1, OneListChanges DEF AdoptInv
<1>5. Showing(page)
  BY <1>1 DEF AdoptInv, PageInv, Showing, Quiet
<1>6. SettingsInv' /\ Showing(page')
  <2>1. CASE next.do = "put"
    <3>1. /\ settings' = [settings EXCEPT ![next.key] = next.value]
          /\ page' = IF h = "import" THEN page ELSE Shown(h, next.key, next.value)
      BY <2>1 DEF Step
    <3>2. SettingsInv'
      BY <1>3, <2>1, <3>1 DEF AdoptInv, SettingsInv, Faithful
    <3>3. Showing(Shown(h, next.key, next.value))
      <4> DEFINE k == next.key
                 v == next.value
      <4>1. k = "campagne" => v \in Campaigns
        BY <1>3, <2>1 DEF Faithful
      <4>2. \A x \in {"overlay", "layer", "logo"} : Showing([page EXCEPT ![x] = v])
        BY <1>5, Redrawn
      <4>3. k = "campagne" => Showing([page EXCEPT !.cfg = v, !.draft = v])
        <5>1. SUFFICES ASSUME v \in Campaigns PROVE Showing([page EXCEPT !.cfg = v, !.draft = v])
          BY <4>1
        <5> DEFINE q == [page EXCEPT !.cfg = v]
        <5>2. Showing(q)
          BY <1>5, <5>1, Redrawn
        <5>3. [page EXCEPT !.cfg = v, !.draft = v] = [q EXCEPT !.draft = v]
          OBVIOUS
        <5> HIDE DEF q
        <5> QED  BY <5>1, <5>2, <5>3, Redrawn
      <4> HIDE DEF k, v
      <4> QED  BY <1>5, <4>2, <4>3 DEF Shown, k, v
    <3> QED  BY <1>5, <3>1, <3>2, <3>3
  <2>2. CASE next.do # "put"
    <3>1. settings' = settings /\ Showing(page')
      <4>1. CASE next.do = "saved"
        <5>1. page' = [page EXCEPT !.cfg = next.cfg, !.note = next.note] /\ UNCHANGED settings
          BY <4>1 DEF Step
        <5>2. next.cfg \in Campaigns
          BY <1>3, <4>1 DEF Faithful
        <5>3. /\ DOMAIN page' = DOMAIN page /\ page'.open = page.open /\ page'.offer = page.offer
              /\ page'.cfg = next.cfg /\ page'.draft = page.draft
          BY <1>5, <5>1 DEF Showing
        <5> HIDE DEF next
        <5> QED  BY <1>5, <5>1, <5>2, <5>3 DEF Showing
      <4>2. CASE next.do = "pending"
        BY <1>5, <4>2 DEF Step, Showing
      <4>3. CASE next.do = "offerError"
        BY <1>5, <4>3 DEF Step, Showing
      <4>4. CASE next.do = "taken"
        BY <1>5, <4>4 DEF Step, Showing
      <4>5. CASE next.do = "reread"
        <5> DEFINE read == ReadSetting(settings, "campagne")
        <5>1. /\ UNCHANGED settings
              /\ page' = [page EXCEPT !.cfg = read, !.draft = read,
                                      !.note = ReadSetting(settings, "note"),
                                      !.overlay = ReadSetting(settings, "overlay"),
                                      !.layer = ReadSetting(settings, "layer"),
                                      !.logo = ReadSetting(settings, "logo")]
          BY <4>5 DEF Step
        <5>2. read \in Campaigns
          BY WhatIsRead DEF AdoptInv
        <5> HIDE DEF read
        <5>3. /\ DOMAIN page' = DOMAIN page /\ page'.open = page.open /\ page'.offer = page.offer
              /\ page'.cfg = read /\ page'.draft = read
          BY <1>5, <5>1 DEF Showing
        <5> QED  BY <1>5, <5>1, <5>2, <5>3 DEF Showing
      <4> QED  BY <1>3, <2>2, <4>1, <4>2, <4>3, <4>4, <4>5 DEF Faithful, Sayings
    <3> QED  BY <3>1 DEF AdoptInv, SettingsInv
  <2> QED  BY <2>1, <2>2
<1> QED  BY <1>1, <1>4, <1>6 DEF AdoptInv, PageInv, Showing

LEMMA FailuresKeepIt ==
  ASSUME AdoptInv, NEW h \in Handlers, WriteRefused(h) \/ LogoUnavailable(h)
  PROVE  AdoptInv'
<1>1. Lawful(todo[h], h = "load", load)
  BY DEF AdoptInv, TodoInv
<1>2. todo[h] # <<>> /\ Showing(page)
  BY DEF WriteRefused, LogoUnavailable, AdoptInv, PageInv, Showing, Quiet
<1>3. CASE WriteRefused(h)
  <2>1. /\ todo' = [todo EXCEPT ![h] = <<>>] /\ UNCHANGED <<settings, page, origin>>
        /\ load' \in {load, Disturbed}
    BY <1>3 DEF WriteRefused
  <2>2. Lawful(<<>>, h = "load", load)
    BY LawfulLists
  <2>3. TodoInv' /\ LoadInv'
    BY <2>1, <2>2, OneListChanges DEF AdoptInv
  <2> QED  BY <1>2, <2>1, <2>3 DEF AdoptInv, SettingsInv, PageInv, Showing
<1>4. CASE LogoUnavailable(h)
  <2>1. /\ todo' = [todo EXCEPT ![h] = Tail(todo[h])] /\ UNCHANGED <<settings, origin, load>>
        /\ page' = [page EXCEPT !.logo = Blank]
    BY <1>4 DEF LogoUnavailable
  <2>2. Lawful(Tail(todo[h]), h = "load", load)
    BY <1>1, <1>2, LawfulLists
  <2>3. TodoInv' /\ LoadInv'
    BY <2>1, <2>2, OneListChanges DEF AdoptInv
  <2>4. Showing(page')
    BY <1>2, <2>1 DEF Showing
  <2> QED  BY <2>1, <2>3, <2>4 DEF AdoptInv, SettingsInv, PageInv, Showing
<1> QED  BY <1>3, <1>4

LEMMA ClosePageKeepsIt ==
  ASSUME AdoptInv, ClosePage
  PROVE  AdoptInv'
<1>1. /\ page' = Closed /\ load' = Nothing /\ todo' = Quiet /\ UNCHANGED <<settings, origin>>
  BY DEF ClosePage
<1>2. TodoInv'
  BY <1>1, QuietIsLawful DEF TodoInv, Quiet
<1> QED  BY <1>1, <1>2 DEF AdoptInv, SettingsInv, PageInv, LoadInv, Closed

\* A screen that only shows something, or types.
LEMMA ScreensKeepIt ==
  ASSUME AdoptInv, TypeDraft \/ SeeOffer \/ RefuseOffer
  PROVE  AdoptInv'
<1>1. /\ page.open /\ UNCHANGED <<settings, load, todo, origin>>
  BY DEF TypeDraft, SeeOffer, RefuseOffer, Visit
<1>2. Showing(page)
  BY <1>1 DEF AdoptInv, PageInv, Showing
<1>3. Showing(page')
  <2>1. CASE TypeDraft
    <3>1. PICK fields \in {page.draft.fields, Typed}, person \in {page.draft.person, Me} :
            page' = [page EXCEPT !.draft = [fields |-> fields, person |-> person]]
      BY <2>1 DEF TypeDraft
    <3>2. [fields |-> fields, person |-> person] \in Campaigns
      BY <1>2, <3>1 DEF Showing, Campaigns, Fields
    <3> QED  BY <1>2, <3>1, <3>2, Redrawn
  <2>2. CASE SeeOffer
    BY <1>2, <2>2 DEF SeeOffer, Showing
  <2>3. CASE RefuseOffer
    BY <1>2, <2>3 DEF RefuseOffer, Showing
  <2> QED  BY <2>1, <2>2, <2>3
<1> QED  BY <1>1, <1>3 DEF AdoptInv, SettingsInv, PageInv, LoadInv, TodoInv, Showing

\* A screen that writes the store at once.
LEMMA WritesKeepIt ==
  ASSUME AdoptInv, SaveTemplates \/ ChooseLogo \/ EraseSettings
  PROVE  AdoptInv'
<1>1. page.open /\ load' \in {load, Disturbed} /\ UNCHANGED <<todo, origin>>
  BY DEF SaveTemplates, ChooseLogo, EraseSettings, Visit
<1>2. Showing(page)
  BY <1>1 DEF AdoptInv, PageInv, Showing
<1>3. SettingsInv' /\ Showing(page')
  <2>1. CASE SaveTemplates
    BY <1>2, <2>1 DEF SaveTemplates, Showing, AdoptInv, SettingsInv
  <2>2. CASE ChooseLogo
    BY <1>2, <2>2 DEF ChooseLogo, Showing, AdoptInv, SettingsInv
  <2>3. CASE EraseSettings
    <3>1. /\ settings' = [k \in Keys |-> Unset]
          /\ page' = [page EXCEPT !.cfg = EMPTY_CFG, !.draft = EMPTY_CFG, !.note = Blank,
                                  !.overlay = Blank, !.layer = Blank, !.logo = Blank]
      BY <2>3 DEF EraseSettings
    <3>2. EMPTY_CFG \in Campaigns
      BY WhatIsRead DEF AdoptInv
    <3>3. /\ DOMAIN page' = DOMAIN page /\ page'.open = page.open /\ page'.offer = page.offer
          /\ page'.cfg = EMPTY_CFG /\ page'.draft = EMPTY_CFG
      BY <1>2, <3>1 DEF Showing
    <3>4. Showing(page')
      BY <1>2, <3>2, <3>3 DEF Showing
    <3>5. SettingsInv'
      BY <3>1 DEF SettingsInv, Keys
    <3> QED  BY <3>4, <3>5
  <2> QED  BY <2>1, <2>2, <2>3
<1>4. TodoInv' /\ LoadInv'
  BY <1>1, NoListChanges DEF AdoptInv
<1> QED  BY <1>1, <1>3, <1>4 DEF AdoptInv, PageInv, Showing

\* A screen that begins a list of writes of its own.
LEMMA BeginningsKeepIt ==
  ASSUME AdoptInv, SaveCampaign \/ AcceptOffer \/ \E merge \in BOOLEAN : ImportBackup(merge)
  PROVE  AdoptInv'
<1>1. page.open /\ UNCHANGED <<settings, page, load, origin>>
  BY DEF SaveCampaign, AcceptOffer, ImportBackup, Visit
<1> SUFFICES \E h \in Handlers \ {"load"} : \E s :
               Lawful(s, FALSE, load) /\ todo' = [todo EXCEPT ![h] = s]
  <2>1. ASSUME NEW h \in Handlers, h # "load", NEW s, Lawful(s, FALSE, load),
               todo' = [todo EXCEPT ![h] = s]
        PROVE  TodoInv' /\ LoadInv'
    BY <1>1, <2>1, OneListChanges DEF AdoptInv
  <2> QED  BY <1>1, <2>1 DEF AdoptInv, SettingsInv, PageInv
<1>2. CASE SaveCampaign
  <2> DEFINE one == Put("campagne", page.draft)
             two == Put("note", "mine")
             w == [do |-> "saved", cfg |-> page.draft, note |-> "mine"]
  <2>0. page.draft \in Campaigns
    BY <1>1 DEF AdoptInv, PageInv, Showing
  <2>1. Lawful(one, FALSE, load) /\ Lawful(two, FALSE, load)
    BY <2>0, PutIsLawful
  <2>2. w.do \in Sayings /\ w.cfg \in Campaigns
    BY <2>0 DEF Sayings
  <2>3. todo' = [todo EXCEPT !["save"] = (one \o two) \o <<w>>]
    BY <1>2 DEF SaveCampaign
  <2> HIDE DEF one, two, w
  <2>4. Lawful(<<w>>, FALSE, load)
    BY <2>2, SayIsLawful
  <2>5. Lawful((one \o two) \o <<w>>, FALSE, load)
    BY <2>1, <2>4, JoinIsLawful
  <2> QED  BY <2>3, <2>5 DEF Handlers
<1>3. CASE AcceptOffer
  <2> DEFINE one == Adopt(page.offer, page.cfg)
             w == [do |-> "taken"]
  <2>0. /\ page.offer.slug = Own => page.offer.fields \in OwnFields \cup {Blank}
        /\ page.offer.fields \in Fields
    BY <1>1, <1>3, AdoptionAssumption
    DEF AcceptOffer, AdoptInv, PageInv, Showing, LinkOffer, Fields
  <2>1. page.cfg \in Campaigns
    BY <1>1 DEF AdoptInv, PageInv, Showing
  <2>2. Lawful(one, FALSE, load)
    BY <2>0, <2>1, AdoptFieldsIsLawful
  <2>3. w.do \in Sayings /\ w.do = "taken"
    BY DEF Sayings
  <2>4. todo' = [todo EXCEPT !["accept"] = one \o <<w>>]
    BY <1>3 DEF AcceptOffer, Say
  <2> HIDE DEF one, w
  <2>5. Lawful(<<w>>, FALSE, load)
    BY <2>3, SayIsLawful
  <2>6. Lawful(one \o <<w>>, FALSE, load)
    BY <2>2, <2>5, JoinIsLawful
  <2> QED  BY <2>4, <2>6 DEF Handlers
<1>4. ASSUME NEW merge \in BOOLEAN, ImportBackup(merge)
      PROVE  \E s : Lawful(s, FALSE, load) /\ todo' = [todo EXCEPT !["import"] = s]
  <2> DEFINE Takes(k) == Backup[k] # Unset /\ (merge => settings[k] = Unset)
             Restores(k) == When(Takes(k), Put(k, Backup[k]))
             w == [do |-> "reread"]
  <2>1. ASSUME NEW k PROVE Lawful(Restores(k), FALSE, load)
    <3>1. /\ k = "adoption" /\ Takes(k) => OwnSnapshot(Backup[k])
          /\ k = "campagne" /\ Takes(k) => Backup[k] \in Campaigns
      BY AdoptionAssumption
    <3>2. Takes(k) => Lawful(Put(k, Backup[k]), FALSE, load)
      BY <3>1, PutIsLawful
    <3>3. Takes(k) \in BOOLEAN
      OBVIOUS
    <3> HIDE DEF Takes
    <3> QED  BY <3>2, <3>3, WhenIsLawful
  <2>2. w.do \in Sayings /\ w.do = "reread"
    BY DEF Sayings
  <2>3. todo' = [todo EXCEPT !["import"] =
          (((((Restores("campagne") \o Restores("note")) \o Restores("adoption"))
             \o Restores("overlay")) \o Restores("layer")) \o Restores("logo")) \o <<w>>]
    BY <1>4 DEF ImportBackup, Restored, Say
  <2> HIDE DEF Restores, w
  <2>4. Lawful(<<w>>, FALSE, load)
    BY <2>2, SayIsLawful
  <2>5. Lawful((((((Restores("campagne") \o Restores("note")) \o Restores("adoption"))
             \o Restores("overlay")) \o Restores("layer")) \o Restores("logo")) \o <<w>>,
               FALSE, load)
    BY <2>1, <2>4, JoinIsLawful
  <2> QED  BY <2>3, <2>5
<1> QED  BY <1>2, <1>3, <1>4 DEF Handlers

LEMMA OriginEditsKeepsIt ==
  ASSUME AdoptInv, OriginEdits
  PROVE  AdoptInv'
<1>1. UNCHANGED <<settings, page, load, todo>> /\ origin' \in OwnOffers
  BY DEF OriginEdits, AdoptInv, OwnOffers
<1> QED  BY <1>1 DEF AdoptInv, SettingsInv, PageInv, LoadInv, TodoInv

LEMMA AdoptionKeepsIt ==
  ASSUME AdoptInv, [AdoptionNext]_adoptionVars
  PROVE  AdoptInv'
<1>1. CASE UNCHANGED adoptionVars
  BY <1>1 DEF adoptionVars, AdoptInv, SettingsInv, PageInv, LoadInv, TodoInv
<1>2. CASE AdoptionNext
  BY <1>2, OpenPageKeepsIt, OriginAnswersKeepsIt, StepKeepsIt, FailuresKeepIt,
     ClosePageKeepsIt, ScreensKeepIt, WritesKeepIt, BeginningsKeepIt, OriginEditsKeepsIt
  DEF AdoptionNext
<1> QED  BY <1>1, <1>2

LEMMA AdoptionStart == AdoptionInit => AdoptInv
<1> SUFFICES ASSUME AdoptionInit PROVE AdoptInv
  OBVIOUS
<1>1. /\ settings \in Stores /\ page = Closed /\ load = Nothing /\ todo = Quiet
      /\ origin \in OwnOffers
  BY AdoptionAssumption DEF AdoptionInit
<1>2. TodoInv
  BY <1>1, QuietIsLawful DEF TodoInv, Quiet
<1> QED  BY <1>1, <1>2, AdoptionAssumption DEF AdoptInv, SettingsInv, PageInv, LoadInv, Closed

\* Every behaviour of the campaign keeps every handler to what it may write.
THEOREM AdoptionInOrder == AdoptionSpec => []AdoptInv
BY AdoptionStart, AdoptionKeepsIt, PTL DEF AdoptionSpec

\* A step of another handler, or of a screen, is no step of the load.
LEMMA LoadStepsAreTheLoads ==
  ASSUME AdoptInv, AdoptionNext, LoadStep
  PROVE  \/ Step("load")
         \/ UNCHANGED settings
<1>1. Lawful(todo["load"], TRUE, load)
  BY DEF AdoptInv, TodoInv, Handlers
<1>2. Tail(todo["load"]) # todo["load"]
  BY <1>1, LawfulLists DEF LoadStep
<1>3. SaveTemplates \/ ChooseLogo \/ EraseSettings => UNCHANGED todo
  BY DEF SaveTemplates, ChooseLogo, EraseSettings
<1>4. ASSUME NEW h \in Handlers, h # "load", Step(h) PROVE todo'["load"] = todo["load"]
  BY <1>4 DEF Step, AdoptInv, TodoInv, Handlers
<1>5. ASSUME NEW h \in Handlers, WriteRefused(h) \/ LogoUnavailable(h) PROVE UNCHANGED settings
  BY <1>5 DEF WriteRefused, LogoUnavailable
<1>6. \A slug : OpenPage(slug) => UNCHANGED settings
  BY DEF OpenPage
<1>7. OriginAnswers \/ ClosePage \/ OriginEdits => UNCHANGED settings
  BY DEF OriginAnswers, ClosePage, OriginEdits
<1>8. TypeDraft \/ SaveCampaign \/ SeeOffer \/ AcceptOffer \/ RefuseOffer => UNCHANGED settings
  BY DEF TypeDraft, SaveCampaign, SeeOffer, AcceptOffer, RefuseOffer
<1>9. \A merge : ImportBackup(merge) => UNCHANGED settings
  BY DEF ImportBackup
<1> QED  BY <1>2, <1>3, <1>4, <1>5, <1>6, <1>7, <1>8, <1>9 DEF AdoptionNext, LoadStep

\* The nine fields, typed here or chosen by a link, stand whatever a load decides; and a
\* page opened for another campaign writes nothing before its offer is accepted
\* (Browser.tsx: the load effect and setPendingSlug; prefill.ts: fieldsUntouched). The
\* texts and the logo follow the campaign, and are not spoken of.
THEOREM WhatALoadFindsChosenAlwaysStands == AdoptionSpec => WhatALoadFindsChosenStands
<1> DEFINE Stands ==
      LoadStep =>
        /\ load.campagne.fields \in {Typed, LinkFields} => Campagne' = Campagne
        /\ load.slug = Other => settings' = settings
<1>1. AdoptInv /\ AdoptionNext => Stands
  <2> SUFFICES ASSUME AdoptInv, AdoptionNext, LoadStep
               PROVE  /\ load.campagne.fields \in {Typed, LinkFields} => Campagne' = Campagne
                      /\ load.slug = Other => settings' = settings
    OBVIOUS
  <2>1. CASE UNCHANGED settings
    BY <2>1 DEF Campagne, ReadSetting
  <2>2. CASE Step("load")
    <3> DEFINE next == Head(todo["load"])
    <3>1. Lawful(todo["load"], TRUE, load) /\ todo["load"] # <<>>
      BY <2>2 DEF AdoptInv, TodoInv, Handlers, Step
    <3>2. Faithful(next) /\ Spares(next, load)
      BY <3>1, LawfulLists
    <3>3. CASE next.do = "put"
      <4>1. settings' = [settings EXCEPT ![next.key] = next.value]
        BY <2>2, <3>3 DEF Step
      <4>2. next.key # "campagne" => settings'["campagne"] = settings["campagne"]
        BY <4>1 DEF AdoptInv, SettingsInv, Keys
      <4> QED  BY <3>2, <3>3, <4>2 DEF Spares, Campagne, ReadSetting
    <3>4. CASE next.do \in {"pending", "offerError"}
      <4>1. UNCHANGED settings
        BY <2>2, <3>4 DEF Step
      <4> QED  BY <4>1 DEF Campagne, ReadSetting
    <3> QED  BY <3>2, <3>3, <3>4 DEF Spares
  <2> QED  BY <2>1, <2>2, LoadStepsAreTheLoads
<1>2. AdoptInv /\ [AdoptionNext]_adoptionVars => [Stands]_adoptionVars
  BY <1>1
<1> HIDE DEF Stands
<1>3. AdoptionSpec => [][Stands]_adoptionVars
  BY <1>2, AdoptionInOrder, PTL DEF AdoptionSpec
<1> QED  BY <1>3, PTL DEF WhatALoadFindsChosenStands, Stands

-----------------------------------------------------------------------------
\* What a load leaves behind: the last write of each setting

IsList(s) == \E S : s \in Seq(S)
On(w, k) == w.do = "put" /\ w.key = k

\* Nothing in the list writes k; the last write of k in it is v.
Mute(s, k) == IsList(s) /\ \A i \in 1 .. Len(s) : ~On(s[i], k)
LastOf(s, k, v) ==
  /\ IsList(s)
  /\ \E i \in 1 .. Len(s) : /\ On(s[i], k) /\ s[i].value = v
                            /\ \A j \in i + 1 .. Len(s) : ~On(s[j], k)

LEMMA OneWrite ==
  ASSUME NEW k, NEW v
  PROVE  /\ LastOf(Put(k, v), k, v)
         /\ \A l : l # k => Mute(Put(k, v), l)
<1> DEFINE w == [do |-> "put", key |-> k, value |-> v]
           s == <<w>>
<1>1. w.do = "put" /\ w.key = k /\ w.value = v
  OBVIOUS
<1>2. s \in Seq({w}) /\ Len(s) = 1 /\ s[1] = w
  OBVIOUS
<1>3. Put(k, v) = s
  BY DEF Put
<1> HIDE DEF w, s
<1>4. IsList(s)
  BY <1>2 DEF IsList
<1>5. On(w, k) /\ \A l : l # k => ~On(w, l)
  BY <1>1 DEF On
<1>6. LastOf(s, k, v)
  <2>1. 1 \in 1 .. Len(s) /\ \A j \in 1 + 1 .. Len(s) : FALSE
    BY <1>2
  <2> QED  BY <1>1, <1>2, <1>4, <1>5, <2>1 DEF LastOf
<1>7. ASSUME NEW l, l # k PROVE Mute(s, l)
  BY <1>2, <1>4, <1>5, <1>7 DEF Mute
<1> QED  BY <1>3, <1>6, <1>7

LEMMA OneSaying ==
  ASSUME NEW w, w.do # "put", NEW k
  PROVE  Mute(<<w>>, k)
<1> DEFINE s == <<w>>
<1>1. s \in Seq({w}) /\ Len(s) = 1 /\ s[1] = w
  OBVIOUS
<1> HIDE DEF s
<1>2. Mute(s, k)
  BY <1>1 DEF Mute, IsList, On
<1> QED  BY <1>2 DEF s

LEMMA NothingToDo == ASSUME NEW k PROVE Mute(<<>>, k)
<1> DEFINE s == <<>>
<1>1. s \in Seq({}) /\ Len(s) = 0
  OBVIOUS
<1> HIDE DEF s
<1>2. Mute(s, k)
  BY <1>1 DEF Mute, IsList
<1> QED  BY <1>2 DEF s

LEMMA WhenMute ==
  ASSUME NEW test, NEW s, NEW k, Mute(s, k)
  PROVE  Mute(When(test, s), k)
BY NothingToDo DEF When

LEMMA Joined ==
  ASSUME NEW s, NEW t, NEW k
  PROVE  /\ Mute(s, k) /\ Mute(t, k) => Mute(s \o t, k)
         /\ \A v : LastOf(s, k, v) /\ Mute(t, k) => LastOf(s \o t, k, v)
         /\ \A v : IsList(s) /\ LastOf(t, k, v) => LastOf(s \o t, k, v)
<1> SUFFICES ASSUME IsList(s), IsList(t)
             PROVE  /\ Mute(s, k) /\ Mute(t, k) => Mute(s \o t, k)
                    /\ \A v : LastOf(s, k, v) /\ Mute(t, k) => LastOf(s \o t, k, v)
                    /\ \A v : IsList(s) /\ LastOf(t, k, v) => LastOf(s \o t, k, v)
  BY DEF Mute, LastOf
<1>1. PICK S : s \in Seq(S)
  BY DEF IsList
<1>2. PICK T : t \in Seq(T)
  BY DEF IsList
<1>3. s \in Seq(S \cup T) /\ t \in Seq(S \cup T)
  BY <1>1, <1>2
<1> DEFINE u == s \o t
<1>4. /\ u \in Seq(S \cup T) /\ Len(u) = Len(s) + Len(t)
      /\ \A i \in 1 .. Len(s) : u[i] = s[i]
      /\ \A i \in 1 .. Len(t) : u[Len(s) + i] = t[i]
      /\ \A i \in 1 .. Len(u) : i > Len(s) => i - Len(s) \in 1 .. Len(t) /\ u[i] = t[i - Len(s)]
      /\ Len(s) \in Nat /\ Len(t) \in Nat
  BY <1>3
<1> HIDE DEF u
<1>5. IsList(u)
  BY <1>4 DEF IsList
<1>6. ASSUME Mute(s, k), Mute(t, k) PROVE Mute(u, k)
  <2>1. ASSUME NEW i \in 1 .. Len(u) PROVE ~On(u[i], k)
    <3>1. CASE i <= Len(s)
      <4>1. i \in 1 .. Len(s) /\ u[i] = s[i]
        BY <1>4, <3>1
      <4> QED  BY <1>6, <4>1 DEF Mute
    <3>2. CASE ~(i <= Len(s))
      <4>1. i - Len(s) \in 1 .. Len(t) /\ u[i] = t[i - Len(s)]
        BY <1>4, <3>2
      <4> QED  BY <1>6, <4>1 DEF Mute
    <3> QED  BY <3>1, <3>2
  <2> QED  BY <1>5, <2>1 DEF Mute
<1>7. ASSUME NEW v, LastOf(s, k, v), Mute(t, k) PROVE LastOf(u, k, v)
  <2>1. PICK i \in 1 .. Len(s) : /\ On(s[i], k) /\ s[i].value = v
                                 /\ \A j \in i + 1 .. Len(s) : ~On(s[j], k)
    BY <1>7 DEF LastOf
  <2>2. i \in 1 .. Len(u) /\ On(u[i], k) /\ u[i].value = v
    BY <1>4, <2>1
  <2>3. ASSUME NEW j \in i + 1 .. Len(u) PROVE ~On(u[j], k)
    <3>1. CASE j <= Len(s)
      <4>1. j \in i + 1 .. Len(s) /\ j \in 1 .. Len(s) /\ u[j] = s[j]
        BY <1>4, <3>1
      <4> QED  BY <2>1, <4>1
    <3>2. CASE ~(j <= Len(s))
      <4>1. j - Len(s) \in 1 .. Len(t) /\ u[j] = t[j - Len(s)]
        BY <1>4, <3>2
      <4> QED  BY <1>7, <4>1 DEF Mute
    <3> QED  BY <3>1, <3>2
  <2> QED  BY <1>5, <2>2, <2>3 DEF LastOf
<1>8. ASSUME NEW v, LastOf(t, k, v) PROVE LastOf(u, k, v)
  <2>1. PICK i \in 1 .. Len(t) : /\ On(t[i], k) /\ t[i].value = v
                                 /\ \A j \in i + 1 .. Len(t) : ~On(t[j], k)
    BY <1>8 DEF LastOf
  <2> DEFINE n == Len(s) + i
  <2>2. n \in 1 .. Len(u) /\ On(u[n], k) /\ u[n].value = v
    BY <1>4, <2>1
  <2>3. ASSUME NEW j \in n + 1 .. Len(u) PROVE ~On(u[j], k)
    <3>1. j - Len(s) \in i + 1 .. Len(t) /\ u[j] = t[j - Len(s)]
      BY <1>4, <2>1
    <3> QED  BY <2>1, <3>1
  <2> HIDE DEF n
  <2> QED  BY <1>5, <2>2, <2>3 DEF LastOf
<1> QED  BY <1>6, <1>7, <1>8 DEF u

LEMMA Shortened ==
  ASSUME NEW s, s # <<>>, NEW k
  PROVE  /\ Mute(s, k) => Mute(Tail(s), k) /\ ~On(Head(s), k)
         /\ \A v : LastOf(s, k, v) =>
              LastOf(Tail(s), k, v) \/ (On(Head(s), k) /\ Head(s).value = v /\ Mute(Tail(s), k))
<1> SUFFICES ASSUME IsList(s)
             PROVE  /\ Mute(s, k) => Mute(Tail(s), k) /\ ~On(Head(s), k)
                    /\ \A v : LastOf(s, k, v) =>
                         \/ LastOf(Tail(s), k, v)
                         \/ On(Head(s), k) /\ Head(s).value = v /\ Mute(Tail(s), k)
  BY DEF Mute, LastOf
<1>1. PICK S : s \in Seq(S)
  BY DEF IsList
<1> DEFINE u == Tail(s)
           h == Head(s)
<1>2. /\ u \in Seq(S) /\ Len(u) = Len(s) - 1 /\ Len(s) \in Nat /\ Len(s) >= 1 /\ h = s[1]
      /\ \A i \in 1 .. Len(u) : u[i] = s[i + 1]
  BY <1>1
<1> HIDE DEF u, h
<1>3. IsList(u)
  BY <1>2 DEF IsList
<1>4. Mute(s, k) => Mute(u, k) /\ ~On(h, k)
  BY <1>2, <1>3 DEF Mute
<1>5. ASSUME NEW v, LastOf(s, k, v)
      PROVE  LastOf(u, k, v) \/ (On(h, k) /\ h.value = v /\ Mute(u, k))
  <2>1. PICK i \in 1 .. Len(s) : /\ On(s[i], k) /\ s[i].value = v
                                 /\ \A j \in i + 1 .. Len(s) : ~On(s[j], k)
    BY <1>5 DEF LastOf
  <2>2. CASE i = 1
    BY <1>2, <1>3, <2>1, <2>2 DEF Mute
  <2>3. CASE i # 1
    <3> DEFINE n == i - 1
    <3>1. n \in 1 .. Len(u) /\ On(u[n], k) /\ u[n].value = v
      BY <1>2, <2>1, <2>3
    <3>2. ASSUME NEW j \in n + 1 .. Len(u) PROVE ~On(u[j], k)
      <4>1. j \in 1 .. Len(u) /\ j + 1 \in i + 1 .. Len(s)
        BY <1>2, <2>1, <2>3
      <4> QED  BY <1>2, <2>1, <4>1
    <3> HIDE DEF n
    <3> QED  BY <1>3, <3>1, <3>2 DEF LastOf
  <2> QED  BY <2>2, <2>3
<1> QED  BY <1>4, <1>5 DEF u, h

\* Once the list is done, k will be v; now is what k is.
Will(s, k, v, now) == LastOf(s, k, v) \/ (Mute(s, k) /\ now = v)

LEMMA WillWhenDone ==
  ASSUME NEW k, NEW v, NEW now, Will(<<>>, k, v, now)
  PROVE  now = v
<1> DEFINE s == <<>>
<1>1. Len(s) = 0
  OBVIOUS
<1> HIDE DEF s
<1>2. ~LastOf(s, k, v)
  BY <1>1 DEF LastOf
<1> QED  BY <1>2 DEF Will, s

LEMMA WillGoesOn ==
  ASSUME NEW s, s # <<>>, NEW k, NEW v, NEW now, NEW then, Will(s, k, v, now),
         On(Head(s), k) /\ Head(s).value = v => then = v,
         ~On(Head(s), k) => then = now
  PROVE  Will(Tail(s), k, v, then)
BY Shortened DEF Will

\* What an undisturbed load will have left, where its origin answered own.
Leaves(s, found, own, layer, adoption, campagne) ==
  /\ Will(s, "layer", own.texts, layer)
  /\ (own.fields # Blank /\ (Untouched(found.campagne) \/ FieldsUntouched(found, own))) =>
       /\ Will(s, "adoption", SnapshotOf(own), adoption)
       /\ \E v \in Campaigns : v.fields = own.fields /\ Will(s, "campagne", v, campagne)

LEMMA AdoptFieldsWrites ==
  ASSUME NEW own, NEW c, NEW s, s = AdoptFields(own, c)
  PROVE  /\ LastOf(s, "campagne", Handed(own, c)) /\ LastOf(s, "adoption", SnapshotOf(own))
         /\ Mute(s, "layer") /\ Mute(s, "overlay")
<1> DEFINE one == Put("campagne", Handed(own, c))
           two == Put("adoption", SnapshotOf(own))
           put == Put("logo", own.logo)
           three == When(own.logo # Blank, put)
<1>1. /\ LastOf(one, "campagne", Handed(own, c))
      /\ Mute(one, "adoption") /\ Mute(one, "layer") /\ Mute(one, "overlay")
  BY OneWrite
<1>2. /\ LastOf(two, "adoption", SnapshotOf(own))
      /\ Mute(two, "campagne") /\ Mute(two, "layer") /\ Mute(two, "overlay")
  BY OneWrite
<1>3. Mute(put, "campagne") /\ Mute(put, "adoption") /\ Mute(put, "layer") /\ Mute(put, "overlay")
  BY OneWrite
<1>4. /\ Mute(three, "campagne") /\ Mute(three, "adoption")
      /\ Mute(three, "layer") /\ Mute(three, "overlay")
  BY <1>3, WhenMute
<1>5. s = (one \o two) \o three
  BY DEF AdoptFields
<1>6. IsList(one)
  BY <1>1 DEF Mute
<1> HIDE DEF one, two, three, put
<1>7. /\ LastOf(one \o two, "campagne", Handed(own, c))
      /\ LastOf(one \o two, "adoption", SnapshotOf(own))
      /\ Mute(one \o two, "layer") /\ Mute(one \o two, "overlay")
  BY <1>1, <1>2, <1>6, Joined
<1> QED  BY <1>4, <1>5, <1>7, Joined

LEMMA AdoptWrites ==
  ASSUME NEW own, NEW c
  PROVE  LET s == Adopt(own, c)
         IN  /\ LastOf(s, "campagne", Handed(own, c)) /\ LastOf(s, "adoption", SnapshotOf(own))
             /\ LastOf(s, "layer", own.texts)
<1> DEFINE one == AdoptFields(own, c)
           two == Put("layer", own.texts)
           three == Put("overlay", Blank)
<1>1. /\ LastOf(one, "campagne", Handed(own, c)) /\ LastOf(one, "adoption", SnapshotOf(own))
      /\ Mute(one, "layer")
  BY AdoptFieldsWrites
<1>2. LastOf(two, "layer", own.texts) /\ Mute(two, "campagne") /\ Mute(two, "adoption")
  BY OneWrite
<1>3. Mute(three, "layer") /\ Mute(three, "campagne") /\ Mute(three, "adoption")
  BY OneWrite
<1>4. Adopt(own, c) = (one \o two) \o three
  BY DEF Adopt
<1>5. IsList(one)
  BY <1>1 DEF Mute
<1> HIDE DEF one, two, three
<1>6. /\ LastOf(one \o two, "campagne", Handed(own, c))
      /\ LastOf(one \o two, "adoption", SnapshotOf(own))
      /\ LastOf(one \o two, "layer", own.texts)
  BY <1>1, <1>2, <1>5, Joined
<1> QED  BY <1>3, <1>4, <1>6, Joined

\* What a load decides leaves it following: its texts always, its fields while intact.
LEMMA DecideLeaves ==
  ASSUME NEW found, NEW own \in OwnOffers, own # Nothing, found.slug \in {Nothing, Own},
         NEW adoption, found.campagne \in Campaigns
  PROVE  Leaves(Decide(found, own), found, own, found.layer, adoption, found.campagne)
<1> DEFINE intact == FieldsUntouched(found, own)
           same == SameAdoptedFields(found.campagne, own)
           after == Decide(found, own)
<1>1. own.slug = Own /\ MayTake(found, own) /\ own.fields \in Fields
  BY DEF OwnOffers, MayTake, Fields
<1>2. Handed(own, found.campagne) \in Campaigns /\ Handed(own, found.campagne).fields = own.fields
  BY <1>1 DEF Handed, Campaigns
<1>3. CASE own.fields # Blank /\ Untouched(found.campagne)
  <2>1. after = Adopt(own, found.campagne)
    BY <1>1, <1>3 DEF Decide
  <2>2. /\ LastOf(after, "campagne", Handed(own, found.campagne))
        /\ LastOf(after, "adoption", SnapshotOf(own)) /\ LastOf(after, "layer", own.texts)
    BY <2>1, AdoptWrites
  <2> HIDE DEF after
  <2>3. Leaves(after, found, own, found.layer, adoption, found.campagne)
    BY <1>2, <2>2 DEF Leaves, Will
  <2> QED  BY <2>3 DEF after
<1>4. CASE ~(own.fields # Blank /\ Untouched(found.campagne))
  <2> DEFINE one == When(Migrates(found, own), Put("overlay", Blank))
             two == When(found.layer # own.texts, Put("layer", own.texts))
             writes == IF same THEN Put("adoption", SnapshotOf(own))
                       ELSE AdoptFields(own, found.campagne)
             three == When(intact, writes)
             w == [do |-> IF Untouched(found.campagne) THEN "pending" ELSE "offerError"]
             four == When(own.fields # Blank /\ ~intact, When(found.slug # Nothing, <<w>>))
  <2>1. after = ((one \o two) \o three) \o four
    BY <1>1, <1>4 DEF Decide, Follow, OfferLink, Say
  <2>2. Mute(one, "layer") /\ Mute(one, "campagne") /\ Mute(one, "adoption")
    BY OneWrite, WhenMute
  <2>3. Mute(two, "campagne") /\ Mute(two, "adoption")
    BY OneWrite, WhenMute
  <2>4. LastOf(two, "layer", own.texts) \/ (Mute(two, "layer") /\ found.layer = own.texts)
    BY OneWrite, NothingToDo DEF When
  <2>5. w.do # "put"
    OBVIOUS
  <2>6. /\ IF same THEN Mute(writes, "campagne")
                   ELSE LastOf(writes, "campagne", Handed(own, found.campagne))
        /\ LastOf(writes, "adoption", SnapshotOf(own)) /\ Mute(writes, "layer")
    BY OneWrite, AdoptFieldsWrites
  <2> HIDE DEF one, two, writes, w
  <2>7. Mute(four, "layer") /\ Mute(four, "campagne") /\ Mute(four, "adoption")
    BY <2>5, OneSaying, WhenMute
  <2>8. Mute(three, "layer")
    BY <2>6, WhenMute
  <2>9. intact => three = writes
    BY DEF When
  <2> HIDE DEF three, four
  <2>10. IsList(one) /\ IsList(two) /\ IsList(one \o two)
    <3>1. Mute(one \o two, "campagne")
      BY <2>2, <2>3, Joined
    <3> QED  BY <2>2, <2>3, <3>1 DEF Mute
  <2> HIDE DEF after
  <2>11. Will(after, "layer", own.texts, found.layer)
    <3>1. CASE LastOf(two, "layer", own.texts)
      <4>1. LastOf(one \o two, "layer", own.texts)
        BY <2>10, <3>1, Joined
      <4>2. LastOf((one \o two) \o three, "layer", own.texts)
        BY <2>8, <4>1, Joined
      <4> QED  BY <2>1, <2>7, <4>2, Joined DEF Will
    <3>2. CASE Mute(two, "layer") /\ found.layer = own.texts
      <4>1. Mute(one \o two, "layer")
        BY <2>2, <3>2, Joined
      <4>2. Mute((one \o two) \o three, "layer")
        BY <2>8, <4>1, Joined
      <4>3. Mute(after, "layer")
        BY <2>1, <2>7, <4>2, Joined
      <4> QED  BY <3>2, <4>3 DEF Will
    <3> QED  BY <2>4, <3>1, <3>2
  <2>12. ASSUME intact
         PROVE  /\ Will(after, "adoption", SnapshotOf(own), adoption)
                /\ \E v \in Campaigns : /\ v.fields = own.fields
                                        /\ Will(after, "campagne", v, found.campagne)
    <3>1. LastOf((one \o two) \o three, "adoption", SnapshotOf(own))
      BY <2>6, <2>9, <2>10, <2>12, Joined
    <3>2. Will(after, "adoption", SnapshotOf(own), adoption)
      BY <2>1, <2>7, <3>1, Joined DEF Will
    <3>3. CASE same
      <4>1. Mute(one \o two, "campagne")
        BY <2>2, <2>3, Joined
      <4>2. Mute((one \o two) \o three, "campagne")
        BY <2>6, <2>9, <2>12, <3>3, <4>1, Joined
      <4>3. Mute(after, "campagne")
        BY <2>1, <2>7, <4>2, Joined
      <4>4. found.campagne.fields = own.fields
        BY <3>3 DEF SameAdoptedFields
      <4> QED  BY <3>2, <4>3, <4>4 DEF Will
    <3>4. CASE ~same
      <4>1. LastOf((one \o two) \o three, "campagne", Handed(own, found.campagne))
        BY <2>6, <2>9, <2>10, <2>12, <3>4, Joined
      <4>2. LastOf(after, "campagne", Handed(own, found.campagne))
        BY <2>1, <2>7, <4>1, Joined
      <4> QED  BY <1>2, <3>2, <4>2 DEF Will
    <3> QED  BY <3>3, <3>4
  <2>13. Leaves(after, found, own, found.layer, adoption, found.campagne)
    BY <1>4, <2>11, <2>12 DEF Leaves
  <2> QED  BY <2>13 DEF after
<1> QED  BY <1>3, <1>4

-----------------------------------------------------------------------------
\* Every step keeps an undisturbed load to what it will leave

Complete(l) == {"slug", "campagne", "adoption", "layer", "at", "own", "alone"} \subseteq DOMAIN l

FollowInv ==
  load # Nothing =>
    /\ Complete(load)
    /\ load.at = "asking" =>
         /\ todo["load"] = <<>>
         /\ load.alone => /\ load.campagne = Campagne
                          /\ load.layer = ReadSetting(settings, "layer")
    /\ (load.at = "writing" /\ load.alone /\ load.own # Nothing /\ load.slug \in {Nothing, Own}) =>
         /\ load.own \in OwnOffers
         /\ Leaves(todo["load"], load, load.own, ReadSetting(settings, "layer"),
                   ReadSetting(settings, "adoption"), Campagne)

\* A step that leaves the store, the load and its list alone.
Apart == UNCHANGED <<settings, load>> /\ todo'["load"] = todo["load"]

\* Another writer: the load is no longer alone.
Beside == load' = Disturbed /\ todo'["load"] \in {todo["load"], <<>>}

LEMMA ApartOrBeside ==
  ASSUME FollowInv, Apart \/ Beside
  PROVE  FollowInv'
<1>1. CASE Apart
  BY <1>1 DEF Apart, FollowInv, Campagne
<1>2. CASE Beside /\ load = Nothing
  BY <1>2 DEF Beside, Disturbed, FollowInv
<1>3. CASE Beside /\ load # Nothing
  <2>1. /\ Complete(load) /\ load' = [load EXCEPT !.alone = FALSE]
        /\ load.at = "asking" => todo["load"] = <<>>
        /\ todo'["load"] \in {todo["load"], <<>>}
    BY <1>3 DEF Beside, Disturbed, FollowInv
  <2>2. Complete(load') /\ ~load'.alone /\ load'.at = load.at
    BY <2>1 DEF Complete
  <2> QED  BY <2>1, <2>2 DEF FollowInv
<1> QED  BY <1>1, <1>2, <1>3

LEMMA OpenPageFollows ==
  ASSUME AdoptInv, NEW slug, OpenPage(slug)
  PROVE  FollowInv'
<1> DEFINE read == [k \in Keys |-> ReadSetting(settings, k)]
<1>1. /\ todo' = Quiet /\ UNCHANGED settings
      /\ load' = [slug |-> slug, campagne |-> read.campagne, adoption |-> read.adoption,
                  overlay |-> read.overlay, layer |-> read.layer, at |-> "asking",
                  own |-> Nothing, alone |-> TRUE]
  BY DEF OpenPage, AdoptInv, PageInv
<1>2. read.campagne = Campagne' /\ read.layer = ReadSetting(settings', "layer")
  BY <1>1 DEF Keys, Campagne
<1> HIDE DEF read
<1>3. /\ Complete(load') /\ load'.at = "asking"
      /\ load'.campagne = read.campagne /\ load'.layer = read.layer
  BY <1>1 DEF Complete
<1>4. todo'["load"] = <<>>
  BY <1>1 DEF Quiet, Handlers
<1> QED  BY <1>2, <1>3, <1>4 DEF FollowInv

LEMMA OriginAnswersFollows ==
  ASSUME AdoptInv, FollowInv, OriginAnswers
  PROVE  FollowInv'
<1>1. PICK own \in OwnCampaign :
        /\ load # Nothing /\ load.at = "asking" /\ UNCHANGED settings
        /\ load' = [load EXCEPT !.at = "writing", !.own = own]
        /\ todo' = [todo EXCEPT !["load"] = Decide(load, own)]
  BY DEF OriginAnswers
<1>2. /\ Complete(load') /\ load'.slug = load.slug /\ load'.campagne = load.campagne
      /\ load'.adoption = load.adoption /\ load'.at = "writing"
      /\ load'.own = own /\ load'.alone = load.alone
  BY <1>1 DEF FollowInv, Complete
<1>3. todo'["load"] = Decide(load, own)
  BY <1>1 DEF AdoptInv, TodoInv, Handlers
<1> SUFFICES ASSUME load.alone, own # Nothing, load.slug \in {Nothing, Own}
             PROVE  /\ own \in OwnOffers
                    /\ Leaves(Decide(load, own), load', own, ReadSetting(settings, "layer"),
                              ReadSetting(settings, "adoption"), Campagne)
  BY <1>1, <1>2, <1>3 DEF FollowInv, Campagne
<1>4. own \in OwnOffers
  BY DEF OwnCampaign, AdoptInv
<1>5. /\ load.campagne = Campagne /\ load.layer = ReadSetting(settings, "layer")
      /\ load.campagne \in Campaigns
  BY <1>1 DEF FollowInv, AdoptInv, LoadInv
<1>6. Leaves(Decide(load, own), load, own, ReadSetting(settings, "layer"),
             ReadSetting(settings, "adoption"), Campagne)
  BY <1>4, <1>5, DecideLeaves
<1>7. FieldsUntouched(load', own) <=> FieldsUntouched(load, own)
  BY <1>2 DEF FieldsUntouched, Followed
<1> QED  BY <1>2, <1>4, <1>6, <1>7 DEF Leaves

\* A write of the load: the setting it writes is what the load leaves, or is written again.
LEMMA LoadWrites ==
  ASSUME AdoptInv, Step("load"), NEW k \in Keys, NEW v, v # Unset,
         Will(todo["load"], k, v, ReadSetting(settings, k))
  PROVE  Will(todo'["load"], k, v, ReadSetting(settings', k))
<1> DEFINE s == todo["load"]
           next == Head(s)
<1>1. s # <<>> /\ todo'["load"] = Tail(s)
  BY DEF Step, AdoptInv, TodoInv, Handlers
<1>2. Lawful(s, TRUE, load)
  BY DEF AdoptInv, TodoInv, Handlers
<1>3. Spares(next, load)
  BY <1>1, <1>2, LawfulLists
<1>4. On(next, k) /\ next.value = v => ReadSetting(settings', k) = v
  BY DEF Step, On, AdoptInv, SettingsInv, ReadSetting
<1>5. ~On(next, k) => ReadSetting(settings', k) = ReadSetting(settings, k)
  <2>1. CASE next.do = "put"
    BY <2>1 DEF Step, On, AdoptInv, SettingsInv, ReadSetting
  <2>2. CASE next.do # "put"
    <3>1. UNCHANGED settings
      BY <1>3, <2>2 DEF Step, Spares
    <3> QED  BY <3>1
  <2> QED  BY <2>1, <2>2
<1> HIDE DEF s, next
<1> QED  BY <1>1, <1>4, <1>5, WillGoesOn DEF s, next

LEMMA LoadStepFollows ==
  ASSUME AdoptInv, FollowInv, Step("load")
  PROVE  FollowInv'
<1>1. load' = load /\ todo["load"] # <<>>
  BY DEF Step
<1> SUFFICES ASSUME load # Nothing, load.at = "writing", load.alone, load.own # Nothing,
                    load.slug \in {Nothing, Own}
             PROVE  Leaves(todo'["load"], load, load.own, ReadSetting(settings', "layer"),
                           ReadSetting(settings', "adoption"), ReadSetting(settings', "campagne"))
  BY <1>1 DEF FollowInv, Campagne
<1>2. /\ load.own \in OwnOffers
      /\ Leaves(todo["load"], load, load.own, ReadSetting(settings, "layer"),
                ReadSetting(settings, "adoption"), ReadSetting(settings, "campagne"))
  BY DEF FollowInv, Campagne
<1>3. load.own.texts # Unset /\ SnapshotOf(load.own) # Unset /\ \A v \in Campaigns : v # Unset
  <2>1. SnapshotOf(load.own) \in Snapshots /\ load.own.texts \in AllTexts
    BY <1>2 DEF SnapshotOf, Snapshots, OwnOffers, Slugs, Fields, AllTexts
  <2> QED  BY <2>1, AdoptionAssumption
<1>4. {"layer", "adoption", "campagne"} \subseteq Keys
  BY DEF Keys
<1> QED  BY <1>2, <1>3, <1>4, LoadWrites DEF Leaves

LEMMA LogoFollows ==
  ASSUME AdoptInv, FollowInv, LogoUnavailable("load")
  PROVE  FollowInv'
<1> DEFINE s == todo["load"]
<1>1. /\ s # <<>> /\ todo'["load"] = Tail(s) /\ UNCHANGED <<settings, load>>
      /\ Head(s).key = "logo"
  BY DEF LogoUnavailable, AdoptInv, TodoInv, Handlers
<1>2. \A k, v, now : k # "logo" /\ Will(s, k, v, now) => Will(Tail(s), k, v, now)
  <2> SUFFICES ASSUME NEW k, NEW v, NEW now, k # "logo", Will(s, k, v, now)
               PROVE  Will(Tail(s), k, v, now)
    OBVIOUS
  <2>1. ~On(Head(s), k)
    BY <1>1 DEF On
  <2> HIDE DEF s
  <2> QED  BY <1>1, <2>1, WillGoesOn
<1>3. \A found, own, layer, adoption, campagne :
        Leaves(s, found, own, layer, adoption, campagne)
          => Leaves(Tail(s), found, own, layer, adoption, campagne)
  <2> HIDE DEF s
  <2> QED  BY <1>2 DEF Leaves
<1> QED  BY <1>1, <1>3 DEF FollowInv, Campagne

LEMMA OthersFollow ==
  ASSUME AdoptInv, FollowInv, AdoptionNext,
         ~ \E slug \in Slugs \cup {Nothing} : OpenPage(slug),
         ~OriginAnswers, ~Step("load"), ~LogoUnavailable("load"), ~ClosePage
  PROVE  Apart \/ Beside
<1>1. DOMAIN todo = Handlers /\ "load" \in Handlers
  BY DEF AdoptInv, TodoInv, Handlers
<1>2. ASSUME NEW h \in Handlers, h # "load", Step(h) PROVE Beside
  BY <1>1, <1>2 DEF Step, Beside
<1>3. ASSUME NEW h \in Handlers, WriteRefused(h) PROVE Beside
  BY <1>1, <1>3 DEF WriteRefused, Beside
<1>4. ASSUME NEW h \in Handlers, h # "load", LogoUnavailable(h) PROVE Apart
  BY <1>1, <1>4 DEF LogoUnavailable, Apart
<1>5. OriginEdits \/ TypeDraft \/ SeeOffer \/ RefuseOffer => Apart
  BY DEF OriginEdits, TypeDraft, SeeOffer, RefuseOffer, Apart
<1>6. SaveTemplates \/ ChooseLogo \/ EraseSettings => Beside
  BY DEF SaveTemplates, ChooseLogo, EraseSettings, Beside
<1>7. SaveCampaign => Apart
  BY <1>1 DEF SaveCampaign, Apart
<1>8. AcceptOffer => Apart
  BY <1>1 DEF AcceptOffer, Apart
<1>9. \A merge \in BOOLEAN : ImportBackup(merge) => Apart
  BY <1>1 DEF ImportBackup, Apart
<1> QED  BY <1>2, <1>3, <1>4, <1>5, <1>6, <1>7, <1>8, <1>9 DEF AdoptionNext

LEMMA FollowStays ==
  ASSUME AdoptInv, FollowInv, [AdoptionNext]_adoptionVars
  PROVE  FollowInv'
<1>1. CASE UNCHANGED adoptionVars
  BY <1>1, ApartOrBeside DEF adoptionVars, Apart
<1>2. CASE ClosePage
  BY <1>2 DEF ClosePage, FollowInv
<1>3. CASE AdoptionNext /\ ~ClosePage
  BY <1>3, OpenPageFollows, OriginAnswersFollows, LoadStepFollows, LogoFollows,
     OthersFollow, ApartOrBeside
<1> QED  BY <1>1, <1>2, <1>3

\* A load whose origin answered, and that nothing disturbed, leaves the browser following
\* its campaign: its texts, and its fields where nobody typed them (Browser.tsx: the load
\* effect, adopt, adoptFields; prefill.ts: fieldsUntouched).
THEOREM ALoadAlwaysLeavesItFollowing == AdoptionSpec => []ALoadLeavesItFollowing
<1>1. AdoptionInit => FollowInv
  BY DEF AdoptionInit, FollowInv
<1>2. FollowInv => ALoadLeavesItFollowing
  <2> SUFFICES ASSUME FollowInv, load # Nothing, load.alone, load.at = "writing",
                      todo["load"] = <<>>, load.own # Nothing, load.slug \in {Nothing, Own}
               PROVE  /\ ReadSetting(settings, "layer") = load.own.texts
                      /\ (load.own.fields # Blank
                          /\ (Untouched(load.campagne) \/ FieldsUntouched(load, load.own)))
                         => /\ Campagne.fields = load.own.fields
                            /\ ReadSetting(settings, "adoption") = SnapshotOf(load.own)
    BY DEF ALoadLeavesItFollowing
  <2>1. Leaves(<<>>, load, load.own, ReadSetting(settings, "layer"),
               ReadSetting(settings, "adoption"), Campagne)
    BY DEF FollowInv
  <2> QED  BY <2>1, WillWhenDone DEF Leaves
<1> QED  BY <1>1, <1>2, AdoptionStart, AdoptionKeepsIt, FollowStays, PTL DEF AdoptionSpec
=============================================================================
