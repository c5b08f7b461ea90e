----------------------------- MODULE LocalStore -----------------------------
(***************************************************************************)
(* The tracking of browser mode (src/web/src/db.ts, and the handlers of    *)
(* src/web/src/Browser.tsx that call it): the histories in IndexedDB, and  *)
(* what each open tab shows of them.  One action is one transaction of     *)
(* IndexedDB with the screen update that follows it; an import and an      *)
(* erasure are several, and the other tabs act between them.               *)
(*                                                                         *)
(* Abstracted: edited_at (shown, never read), the mayors, and the settings *)
(* (see Adoption). A refused correction reads the card again in a          *)
(* transaction of its own; no step is put between the two. The clock is    *)
(* never set back, as the local time of timestamp() is one night a year.   *)
(***************************************************************************)
EXTENDS Integers, Sequences, FiniteSets, Statuts

CONSTANTS Tabs, Codes, Texts,
          Received,     \* the backups a colleague may hand over
          Absent,       \* a mayor with no record
          Unreadable,   \* an entry validTracking refuses
          Idle,         \* a tab with no import or erasure under way
          MaxMinute, MaxNotes, MaxBackups, MaxGestures   \* bounds

Minutes == 1..MaxMinute
Line == [ts : Minutes, status : Statuses, note : Texts]
Records == [status : Statuses, updated_at : Minutes, notes : Seq(Line)]
Tracked == [Codes -> Records \cup {Absent}]
Backups == [Codes -> Records \cup {Absent, Unreadable}]

HeadStatus(notes) == IF notes = <<>> THEN ToContact ELSE Head(notes).status

\* A record that says what its newest line says, and is dated no later than it:
\* saveTracking reads the clock for the record first, and for the line next.
Says(r) ==
  /\ r.status = HeadStatus(r.notes)
  /\ r.notes # <<>> => r.updated_at <= Head(r.notes).ts

\* A backup is the export of another browser: validTracking checks its shape
\* only, and the rest is what that browser had stored.
ASSUME ReceivedAssumption ==
  /\ Absent # Unreadable /\ Absent \notin Records /\ Unreadable \notin Records
  /\ Received \subseteq Backups
  /\ \A b \in Received, c \in Codes : b[c] \in Records => Says(b[c])

ASSUME BoundsAssumption ==
  /\ MaxMinute \in Nat /\ MaxMinute > 0 /\ MaxNotes \in Nat /\ MaxBackups \in Nat
  /\ MaxGestures \in Nat

\* A tab in the middle of something is not one with nothing under way.
ASSUME IdleAssumption == Idle \notin [at : {"show", "forget"}]

VARIABLES
  store,     \* the tracking store, committed
  screen,    \* the `tracking` state of each tab
  backups,   \* the files on the volunteer's disk
  job,       \* the import or erasure each tab is in the middle of
  minute,    \* the clock, as timestamp() cuts it
  gestures   \* how many things the volunteer has done, bounded

vars == <<store, screen, backups, job, minute, gestures>>

Nowhere == [c \in Codes |-> Absent]

Jobs ==
  {Idle} \cup [at : {"write"}, merge : BOOLEAN, existing : Tracked, from : Backups]
         \cup [at : {"show", "forget"}]

TypeOK ==
  /\ store \in Tracked
  /\ screen \in [Tabs -> Tracked]
  /\ backups \subseteq Backups
  /\ job \in [Tabs -> Jobs]
  /\ minute \in Minutes
  /\ gestures \in 0..MaxGestures

Init ==
  /\ store = Nowhere
  /\ screen = [t \in Tabs |-> Nowhere]
  /\ backups = Received
  /\ job = [t \in Tabs |-> Idle]
  /\ minute = 1
  /\ gestures = 0

-----------------------------------------------------------------------------
Gesture == gestures < MaxGestures /\ gestures' = gestures + 1

NotesOf(r) == IF r = Absent THEN <<>> ELSE r.notes

\* Bug: the notes already held are not carried over.
LastWriterWins(current, status, text, later) ==
  [status |-> status, updated_at |-> minute,
   notes |-> <<[ts |-> later, status |-> status, note |-> text]>>]

\* What saveTracking stores over the record it has just read. The clock is read
\* twice, and may have moved on.
SavedEntry(current, status, text, later) ==
  [status |-> status, updated_at |-> minute,
   notes |-> <<[ts |-> later, status |-> status, note |-> text]>> \o NotesOf(current)]

\* A record written and shown: one readwrite transaction, then setTracking.
Commits(t, c, entry) ==
  /\ Gesture
  /\ store' = [store EXCEPT ![c] = entry]
  /\ screen' = [screen EXCEPT ![t] = [@ EXCEPT ![c] = entry]]
  /\ UNCHANGED <<backups, job>>

SaveTracking(t, c) ==
  /\ Len(NotesOf(store[c])) < MaxNotes
  /\ \E status \in Statuses, text \in Texts, later \in minute..MaxMinute :
       /\ Commits(t, c, SavedEntry(store[c], status, text, later))
       /\ minute' = later

\* Bug: a position is trusted.
AnyPosition(t, c, i) == store[c] # Absent /\ i \in DOMAIN store[c].notes

\* The line the tab shows at i is still the one stored at i.
Confirmed(t, c, i) ==
  /\ store[c] # Absent
  /\ i \in DOMAIN store[c].notes
  /\ store[c].notes[i] = screen[t][c].notes[i]

EditedEntry(current, i, text) == [current EXCEPT !.notes[i].note = text]

\* The history without its line i (the filter of deleteNote).
Without(notes, i) == SubSeq(notes, 1, i - 1) \o SubSeq(notes, i + 1, Len(notes))

\* Bug: the card keeps the status of the line that goes.
KeepsStatus(current, i) == [current EXCEPT !.notes = Without(current.notes, i)]

\* The card goes back to what the lines left say.
DeletedEntry(current, i) ==
  LET notes == Without(current.notes, i)
  IN [status |-> HeadStatus(notes),
      updated_at |-> IF notes = <<>> THEN minute ELSE Head(notes).ts,
      notes |-> notes]

EditNote(t, c) ==
  \E i \in DOMAIN NotesOf(screen[t][c]), text \in Texts :
    /\ Confirmed(t, c, i)
    /\ Commits(t, c, EditedEntry(store[c], i, text))
    /\ UNCHANGED minute

DeleteNote(t, c) ==
  \E i \in DOMAIN NotesOf(screen[t][c]) :
    /\ Confirmed(t, c, i)
    /\ Commits(t, c, DeletedEntry(store[c], i))
    /\ UNCHANGED minute

\* Refused: nothing is stored, and the screen takes the record as it is, when
\* there still is one.
RefuseNote(t, c) ==
  /\ Gesture
  /\ \E i \in DOMAIN NotesOf(screen[t][c]) : ~Confirmed(t, c, i)
  /\ screen' = IF store[c] = Absent THEN screen
               ELSE [screen EXCEPT ![t] = [@ EXCEPT ![c] = store[c]]]
  /\ UNCHANGED <<store, backups, job, minute>>

\* A tab opened or reloaded reads the whole store, once.
LoadTracking(t) ==
  /\ Gesture
  /\ job[t] = Idle
  /\ screen' = [screen EXCEPT ![t] = store]
  /\ UNCHANGED <<store, backups, job, minute>>

ExportAll ==
  /\ Gesture
  /\ Cardinality(backups) < MaxBackups
  /\ backups' = backups \cup {store}
  /\ UNCHANGED <<store, screen, job, minute>>

\* What a merge compares with is read in a transaction of its own.
ImportReads(t, b, merge) ==
  /\ Gesture
  /\ job[t] = Idle
  /\ job' = [job EXCEPT ![t] = [at |-> "write", merge |-> merge, from |-> b,
                                existing |-> IF merge THEN store ELSE Nowhere]]
  /\ UNCHANGED <<store, screen, backups, minute>>

\* An entry of the file is taken unless the record read was as recent.
Taken(j, c) ==
  /\ j.from[c] \notin {Absent, Unreadable}
  /\ j.existing[c] # Absent => j.existing[c].updated_at < j.from[c].updated_at

ImportWrites(t) ==
  /\ job[t] # Idle /\ job[t].at = "write"
  /\ store' = [c \in Codes |-> IF Taken(job[t], c) THEN job[t].from[c]
                               ELSE IF job[t].merge THEN store[c] ELSE Absent]
  /\ job' = [job EXCEPT ![t] = [at |-> "show"]]
  /\ UNCHANGED <<screen, backups, minute, gestures>>

ImportShows(t) ==
  /\ job[t] # Idle /\ job[t].at = "show"
  /\ screen' = [screen EXCEPT ![t] = store]
  /\ job' = [job EXCEPT ![t] = Idle]
  /\ UNCHANGED <<store, backups, minute, gestures>>

EraseAll(t) ==
  /\ Gesture
  /\ job[t] = Idle
  /\ store' = Nowhere
  /\ job' = [job EXCEPT ![t] = [at |-> "forget"]]
  /\ UNCHANGED <<screen, backups, minute>>

EraseShows(t) ==
  /\ job[t] # Idle /\ job[t].at = "forget"
  /\ screen' = [screen EXCEPT ![t] = Nowhere]
  /\ job' = [job EXCEPT ![t] = Idle]
  /\ UNCHANGED <<store, backups, minute, gestures>>

Tick ==
  /\ minute < MaxMinute
  /\ minute' = minute + 1
  /\ UNCHANGED <<store, screen, backups, job, gestures>>

Next ==
  \/ \E t \in Tabs, c \in Codes :
       SaveTracking(t, c) \/ EditNote(t, c) \/ DeleteNote(t, c) \/ RefuseNote(t, c)
  \/ \E t \in Tabs :
       \/ LoadTracking(t) \/ ImportWrites(t) \/ ImportShows(t)
       \/ EraseAll(t) \/ EraseShows(t)
       \/ \E b \in backups, merge \in BOOLEAN : ImportReads(t, b, merge)
  \/ ExportAll
  \/ Tick

Spec == Init /\ [][Next]_vars

-----------------------------------------------------------------------------
\* The history is the register and the status is its head: whatever was saved,
\* reworded, struck, restored or merged, by whichever tab, every stored record
\* says what its newest line says, and is dated no later than it (deleteNote:
\* what a merge compares is that date).
StatusIsTheHead == \A c \in Codes : store[c] # Absent => Says(store[c])

\* A line is struck or reworded only as the tab that acts was showing it, at
\* its place, all the others left alone: a stale screen rewrites nothing
\* (the comparison of reviseNote).
RevisedAsShown(t, c) ==
  \E i \in DOMAIN NotesOf(screen[t][c]) \cap DOMAIN NotesOf(store[c]) :
    /\ screen[t][c].notes[i] = store[c].notes[i]
    /\ \/ NotesOf(store'[c]) = Without(store[c].notes, i)
       \/ \E text \in Texts :
            NotesOf(store'[c]) = [store[c].notes EXCEPT ![i].note = text]

RevisionsAreOfWhatIsShown ==
  [][\A c \in Codes :
       /\ store'[c] # store[c]
       /\ job' = job
       /\ Len(NotesOf(store'[c])) <= Len(NotesOf(store[c]))
       => \E t \in Tabs : RevisedAsShown(t, c) /\ screen'[t][c] = store'[c]]_vars

\* A merge "garde votre travail et ne reprend que ce qui est plus récent": the
\* write of a merge never puts an older record over a newer one.
MergeNeverGoesBack ==
  [][\A t \in Tabs :
       /\ job[t] # Idle /\ job[t] # job'[t]
       /\ job[t].at = "write" /\ job[t].merge
       => \A c \in Codes : store[c] # Absent =>
            /\ store'[c] # Absent
            /\ store'[c].updated_at >= store[c].updated_at]_vars

-----------------------------------------------------------------------------
\* With the tabs, their screens and their transactions forgotten, the store is
\* the journal of its volunteer: no line acknowledged is lost to another tab that
\* saves, rewords or strikes (reviseTracking reads, decides and writes in one
\* transaction). A backup put back and the erasing of everything are the journal's
\* exceptions: a merge replaces a card's lines whole, those another tab saved since
\* it read the histories included (importAll; see MergeNeverGoesBack).
LinesOf(f) == [c \in Codes |-> IF f[c] \in {Absent, Unreadable} THEN <<>> ELSE f[c].notes]

TheJournal == INSTANCE Journal WITH
                lines <- LinesOf(store),
                backups <- {LinesOf(b) : b \in backups}

ImplementsJournal == TheJournal!Spec
=============================================================================
