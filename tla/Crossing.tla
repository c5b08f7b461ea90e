------------------------------ MODULE Crossing ------------------------------
(* The build of the lists (outils/build.ts, with the identity rules of          *)
(* outils/matching.ts and the sources of outils/sources.ts): the endorsements   *)
(* are filed per person, each person who endorsed a small candidate is looked   *)
(* for among the mayors in office, and every mayor is then given the rank that  *)
(* decides whether a message may say "you presented X".                        *)
(*                                                                              *)
(* A name is abstracted to what the rules tell apart: a sequence of tokens,     *)
(* whose likeness (100 * ratio()) is a constant; a commune to a value with its  *)
(* tight form and the names the 0.93 cutoff accepts for it.                     *)
EXTENDS Integers, SequencesExt, FiniteSetsExt, TLC

CONSTANTS
  Entries,     \* the rows an endorsement file may hold
  Registers,   \* the registers of mayors in office (sequences of officials)
  Directories, \* the directories of town halls (sequences of cards)
  Likeness,    \* <<token, token>> |-> 100 * ratio, for the pairs that are alike
  Tight,       \* commune name |-> its form without separators
  Near,        \* commune name |-> the names closestMatch accepts for it
  DeptOf,      \* INSEE code |-> department code
  MaxEntries,  \* bound: rows read from the endorsement files
  None

\* Of any instance: the register has one mayor per commune, and a department no two
\* communes of one name (build.ts:290, measured on it).
ASSUME CrossingAssumption ==
  /\ \A e \in Entries : e.year \in {"2022", "2017"} /\ e.tier \in {"A", "B", "none"}
  /\ \A r \in Registers :
       /\ r \in Seq(ToSet(r))
       /\ \A i, j \in DOMAIN r :
            r[i].insee = r[j].insee \/ (r[i].dept = r[j].dept /\ r[i].commune = r[j].commune) => i = j
  /\ \A d \in Directories :
       /\ d \in Seq(ToSet(d))
       /\ \A c \in ToSet(d) : c.insee # None /\ c.size \in Nat /\ c.delegate \in BOOLEAN

VARIABLES stage, register, cards, persons, next, still, former, unmatched, kept, merged, base

crossingVars == <<stage, register, cards, persons, next, still, former, unmatched, kept, merged, base>>

----------------------------------------------------------------------------
(* Identity *)

Alike(s, t) == IF s = t THEN 100 ELSE IF <<s, t>> \in DOMAIN Likeness THEN Likeness[<<s, t>>] ELSE 0

CompareFirstNames(a, b) ==
  LET short == Min({Len(a), Len(b)})
      worst == Min({Alike(a[i], b[i]) : i \in 1..short})
  IN CASE a = <<>> \/ b = <<>> -> "unsure"
       [] a # <<>> /\ b # <<>> /\ (ToSet(a) \subseteq ToSet(b) \/ ToSet(b) \subseteq ToSet(a)) -> "ok"
       [] OTHER -> IF worst >= 80 THEN "ok" ELSE IF worst >= 60 THEN "unsure" ELSE "different"

\* One surname, or a married or compound one that holds the other as a token.
SameSurname(p, r) ==
  \/ p = r
  \/ Len(p) = 1 /\ p[1] \in ToSet(r)
  \/ Len(r) = 1 /\ r[1] \in ToSet(p)

\* The sex decides where the register has it; the endorsement files always do (sources.ts:119).
CompareIdentity(rec, row) ==
  LET verdict == CompareFirstNames(rec.first, row.first)
      sameName == rec.last = row.last /\ rec.first = row.first
  IN IF ~SameSurname(rec.last, row.last) THEN "different"
     ELSE IF row.sex \in {None, rec.sex} THEN verdict
     ELSE IF sameName \/ verdict = "ok" THEN "unsure" ELSE "different"

PersonKey(e, discriminator) ==
  <<e.dept, e.commune, e.last, SubSeq(e.first, 1, Min({1, Len(e.first)})), discriminator>>

Filed(key) == {i \in DOMAIN persons : persons[i].key = key}

\* The key of an endorsement, among those already seen.
KeyAmong(e) ==
  LET key == PersonKey(e, <<>>)
  IN IF \E i \in Filed(key) : CompareFirstNames(persons[i].first, e.first) = "different"
     THEN PersonKey(e, e.first) ELSE key

----------------------------------------------------------------------------
(* The three sources *)

\* byCommune: a department's mayors by commune, the last row of a name winning.
CommunesOf(dept) == {register[i].commune : i \in {j \in DOMAIN register : register[j].dept = dept}}
MayorOf(dept, name) ==
  register[Max({i \in DOMAIN register : register[i].dept = dept /\ register[i].commune = name})]

\* One card per commune: the main town hall first, then the shorter name, then the first.
BeforeOrEqual(c, d) == IF c.delegate = d.delegate THEN c.size <= d.size ELSE d.delegate
Contacts ==
  LET at(insee) == {i \in DOMAIN cards : cards[i].insee = insee}
      best(insee) == {i \in at(insee) : \A j \in at(insee) : BeforeOrEqual(cards[i], cards[j])}
  IN {cards[Min(best(c.insee))] : c \in ToSet(cards)}

\* The communes a label names, those with only a delegate town hall left out.
CommunesByLabel(name) == {c.insee : c \in {d \in Contacts : ~d.delegate /\ name \in {d.label, d.city}}}

DeptCode(dept) ==
  IF CommunesOf(dept) = {} THEN None
  ELSE DeptOf[register[Min({i \in DOMAIN register : register[i].dept = dept})].insee]

\* The INSEE code of the commune that was signed, when no mayor of it is in the register:
\* of several, the first the directory came to.
SignedInsee(rec) ==
  LET here == {i \in CommunesByLabel(rec.commune) : DeptOf[i] = DeptCode(rec.dept)}
      first(insee) == Min({i \in DOMAIN cards : cards[i].insee = insee})
  IN IF here = {} THEN None ELSE CHOOSE i \in here : \A j \in here : first(i) <= first(j)

----------------------------------------------------------------------------
(* Filing *)

Points(tier) == CASE tier = "A" -> 2 [] tier = "B" -> 1 [] OTHER -> 0
Tag(e) == [year |-> e.year, tier |-> e.tier]

FileEntry(rec, e) ==
  IF e.tier = "none" THEN [rec EXCEPT !.others = Append(@, Tag(e))]
  ELSE [rec EXCEPT !.small = Append(@, Tag(e)), !.years = @ \union {e.year},
                   !.score = @ + Points(e.tier)]

NewPerson(e) ==
  [key |-> KeyAmong(e), sex |-> e.sex, last |-> e.last, first |-> e.first, commune |-> e.commune,
   dept |-> e.dept, office |-> e.office, small |-> <<>>, others |-> <<>>, years |-> {}, score |-> 0,
   signed |-> {}]

\* "signed" keeps, for the properties, the names the filed endorsements were signed under.
ReadEntry(e) ==
  LET at == Filed(KeyAmong(e))
      signs(rec) == [rec EXCEPT !.signed = @ \union {[last |-> e.last, first |-> e.first, sex |-> e.sex]}]
  IN /\ stage = e.year /\ next < MaxEntries
     /\ next' = next + 1
     /\ persons' = IF at = {} THEN Append(persons, FileEntry(signs(NewPerson(e)), e))
                   ELSE [persons EXCEPT ![Max(at)] = FileEntry(signs(@), e)]
     /\ UNCHANGED <<stage, register, cards, still, former, unmatched, kept, merged, base>>

\* The files are read in the order of YEARS.
NextFile ==
  /\ stage = "2022" /\ stage' = "2017"
  /\ UNCHANGED <<register, cards, persons, next, still, former, unmatched, kept, merged, base>>

\* Two years are worth a point more.
Bonus(years) == IF Cardinality(years) >= 2 THEN 1 ELSE 0

EndRead ==
  /\ stage = "2017" /\ next > 0
  /\ stage' = "match" /\ next' = 1
  /\ persons' = [i \in DOMAIN persons |-> [persons[i] EXCEPT !.score = @ + Bonus(persons[i].years)]]
  /\ UNCHANGED <<register, cards, still, former, unmatched, kept, merged, base>>

\* Those who endorsed a small candidate: the others are passed over.
Target(rec) == rec.small # <<>>

----------------------------------------------------------------------------
(* Matching a person with the mayors in office *)

\* The row of the commune that was signed: by its name, by its tight form when one commune
\* has it, by likeness otherwise.
RowFor(rec) ==
  LET communes == CommunesOf(rec.dept)
      tight == {n \in communes : Tight[n] = Tight[rec.commune]}
      close == Near[rec.commune] \intersect communes
      found(n, a) == [some |-> TRUE, row |-> MayorOf(rec.dept, n), approx |-> a]
  IN CASE rec.commune \in communes -> found(rec.commune, FALSE)
       [] rec.commune \notin communes /\ Cardinality(tight) = 1 -> found(CHOOSE n \in tight : TRUE, FALSE)
       [] rec.commune \notin communes /\ Cardinality(tight) # 1 /\ close # {} ->
            found(CHOOSE n \in close : TRUE, TRUE)
       [] OTHER -> [some |-> FALSE, row |-> None, approx |-> FALSE]

Namesakes(rec) ==
  {i \in DOMAIN register : register[i].dept = rec.dept /\ CompareIdentity(rec, register[i]) = "ok"}

\* Bug: a namesake is enough.
AnyNamesake(rec, row) == FALSE

\* The signed commune has a town hall of its own, and it is not the namesake's.
OtherCommune(rec, row) ==
  /\ ~RowFor(rec).some /\ SignedInsee(rec) # None
  /\ SignedInsee(rec) # row.insee

Verdict(rec) == IF RowFor(rec).some THEN CompareIdentity(rec, RowFor(rec).row) ELSE "none"

\* The commune is in the register, by its own name, under somebody else.
CounterProof(rec) == Verdict(rec) = "different" /\ ~RowFor(rec).approx

Hits(rec) == IF CounterProof(rec) THEN {} ELSE Namesakes(rec)
Hit(rec) == register[CHOOSE i \in Hits(rec) : TRUE]
ByName(rec) == Cardinality(Hits(rec)) = 1 /\ ~OtherCommune(rec, Hit(rec))

Outcome(rec) ==
  LET at == RowFor(rec)
      as(to, row, conf) == [to |-> to, row |-> row, conf |-> conf]
  IN CASE Verdict(rec) = "ok" -> as("still", at.row, IF at.approx THEN "near" ELSE "exact")
       [] Verdict(rec) # "ok" /\ ByName(rec) -> as("still", Hit(rec), "byName")
       [] CounterProof(rec) -> as("former", at.row, "")
       [] Verdict(rec) # "ok" /\ ~ByName(rec) /\ ~CounterProof(rec) -> as("unmatched", None, "")

MatchNext ==
  LET rec == persons[next]
      out == Outcome(rec)
      goes(to) == Target(rec) /\ out.to = to
  IN /\ stage = "match" /\ next <= Len(persons)
     /\ next' = next + 1
     /\ still' = IF goes("still") THEN Append(still, [rec |-> rec, row |-> out.row, conf |-> out.conf])
                 ELSE still
     /\ former' = IF goes("former") THEN Append(former, [rec |-> rec, row |-> out.row]) ELSE former
     /\ unmatched' = IF goes("unmatched") THEN Append(unmatched, rec) ELSE unmatched
     /\ UNCHANGED <<stage, register, cards, persons, kept, merged, base>>

----------------------------------------------------------------------------
(* One row per INSEE *)

ConfidenceRank(conf) == CASE conf = "exact" -> 1 [] conf = "near" -> 2 [] OTHER -> 3

SetOf(a, b) == SetToSeq(ToSet(a) \union ToSet(b))

OfTier(small, tier) == {i \in DOMAIN small : small[i].tier = tier}
Score(small, years) ==
  2 * Cardinality(OfTier(small, "A")) + Cardinality(OfTier(small, "B")) + Bonus(years)

\* Bug: the first row read is the one that is shown.
MergeRowFirst(target, r) ==
  LET small == SetOf(target.rec.small, r.rec.small)
      years == target.rec.years \union r.rec.years
  IN [target EXCEPT !.rec.small = small, !.rec.others = SetOf(@, r.rec.others),
                    !.rec.years = years, !.rec.score = Score(small, years),
                    !.rec.signed = @ \union r.rec.signed]

\* Two rows of one INSEE code: the survivor keeps the better established match.
MergeRow(target, r) ==
  LET better == ConfidenceRank(r.conf) < ConfidenceRank(target.conf)
      small == SetOf(target.rec.small, r.rec.small)
      years == target.rec.years \union r.rec.years
  IN [target EXCEPT !.conf = IF better THEN r.conf ELSE @,
                    !.rec.commune = IF better THEN r.rec.commune ELSE @,
                    !.rec.small = small, !.rec.others = SetOf(@, r.rec.others),
                    !.rec.years = years, !.rec.score = Score(small, years),
                    !.rec.signed = @ \union r.rec.signed]

KeptFor(insee) == {i \in DOMAIN kept : kept[i].row.insee = insee}

\* Two different people at one INSEE code stop the build, before anything is written.
Contradicts(r) ==
  \E i \in KeptFor(r.row.insee) : CompareFirstNames(kept[i].rec.first, r.rec.first) = "different"

StartDedupe ==
  /\ stage = "match" /\ next > Len(persons)
  /\ stage' = "dedupe" /\ next' = 1
  /\ UNCHANGED <<register, cards, persons, still, former, unmatched, kept, merged, base>>

DedupeNext ==
  LET r == still[next]
      at == KeptFor(r.row.insee)
  IN /\ stage = "dedupe" /\ next <= Len(still)
     /\ IF Contradicts(r) THEN /\ stage' = "refused" /\ UNCHANGED <<next, kept, merged>>
        ELSE /\ next' = next + 1 /\ UNCHANGED stage
             /\ IF at = {} THEN kept' = Append(kept, r) /\ UNCHANGED merged
                ELSE /\ kept' = [kept EXCEPT ![Max(at)] = MergeRow(@, r)]
                     /\ merged' = merged + 1
     /\ UNCHANGED <<register, cards, persons, still, former, unmatched, base>>

----------------------------------------------------------------------------
(* The full base: every mayor, with the rank their message goes by *)

\* The predecessor shown for a commune: the best score, the first of equals.
PredecessorAt(insee) ==
  LET past == {i \in DOMAIN former : former[i].row.insee = insee}
      best == {i \in past : \A j \in past : former[j].rec.score <= former[i].rec.score}
  IN IF past = {} THEN None ELSE former[Min(best)].rec

BaseRow(row) ==
  LET past == PredecessorAt(row.insee)
      mayorThen == past.office = "Maire" /\ past.years = {"2022"}
      as(rank, hist, then) == [insee |-> row.insee, rank |-> rank, history |-> hist, predecessorMayor |-> then]
  IN IF KeptFor(row.insee) # {}
     THEN as("has_endorsed", kept[Max(KeptFor(row.insee))].rec.small, FALSE)
     ELSE IF past # None THEN as("commune_has_endorsed", past.small, mayorThen)
     ELSE as("no_signal", <<>>, FALSE)

WriteBase ==
  /\ stage = "dedupe" /\ next > Len(still)
  /\ stage' = "done"
  /\ base' = [i \in DOMAIN register |-> BaseRow(register[i])]
  /\ UNCHANGED <<register, cards, persons, next, still, former, unmatched, kept, merged>>

----------------------------------------------------------------------------

CrossingInit ==
  /\ stage = "2022" /\ next = 0 /\ merged = 0
  /\ register \in Registers /\ cards \in Directories
  /\ persons = <<>> /\ still = <<>> /\ former = <<>> /\ unmatched = <<>>
  /\ kept = <<>> /\ base = <<>>

CrossingNext ==
  \/ \E e \in Entries : ReadEntry(e)
  \/ NextFile \/ EndRead \/ MatchNext \/ StartDedupe \/ DedupeNext \/ WriteBase

CrossingSpec == CrossingInit /\ [][CrossingNext]_crossingVars

----------------------------------------------------------------------------
(* Properties *)

\* Nobody is lost between two files: the people who endorsed a small candidate are those
\* kept, merged with another spelling, gone or left to check by hand (the control line of
\* the report, build.ts:689); a row shows the best established of the matches merged into
\* it and the score of the endorsements it lists, whatever order the files were read in.
EveryTargetIsAccountedFor ==
  stage = "done" =>
    /\ Len(kept) + merged + Len(former) + Len(unmatched)
         = Cardinality({i \in DOMAIN persons : Target(persons[i])})
    /\ \A i \in DOMAIN kept :
         LET rows == {j \in DOMAIN still : still[j].row.insee = kept[i].row.insee}
         IN /\ ConfidenceRank(kept[i].conf) = Min({ConfidenceRank(still[j].conf) : j \in rows})
            /\ kept[i].rec.score = Score(kept[i].rec.small, kept[i].rec.years)

\* A mayor found by name alone was not contradicted by the commune that was signed: its
\* mayor in office is not somebody else, and its own town hall is not of another commune
\* (build.ts, the fallback of a renamed or merged commune); and of the three ranks,
\* "you presented X" goes only to a mayor no rule tells from the name filed first under the
\* key (not from every name filed there: CreditedNamesAgree), "your commune has" never to
\* the person filed.
NobodyIsThankedAgainstTheSources ==
  stage = "done" =>
    /\ \A i \in DOMAIN still : still[i].conf = "byName" =>
         LET rec == still[i].rec
             signed == {j \in DOMAIN register : register[j].dept = rec.dept /\ register[j].commune = rec.commune}
             halls == {c.insee : c \in {d \in Contacts : ~d.delegate /\ rec.commune \in {d.label, d.city}
                                                         /\ DeptOf[d.insee] = DeptCode(rec.dept)}}
         IN /\ \A j \in signed : CompareIdentity(rec, register[j]) # "different"
            /\ signed = {} /\ ~RowFor(rec).some /\ halls # {} => still[i].row.insee \in halls
    /\ \A i \in DOMAIN base :
         LET rec == kept[Max(KeptFor(base[i].insee))].rec
             here == {f \in ToSet(former) : f.row.insee = base[i].insee}
         IN /\ base[i].rank = "has_endorsed" =>
                 SameSurname(rec.last, register[i].last) /\ CompareIdentity(rec, register[i]) = "ok"
            /\ base[i].rank = "commune_has_endorsed" =>
                 \A f \in here : CompareIdentity(f.rec, register[i]) = "different"

\* A mayor is only credited with endorsements signed under a name their own does not
\* contradict (invariants.test.ts:5, "a mayor is only ever thanked for an endorsement they
\* made"). Refuted: the endorsements of one key are compared with the name filed first.
CreditedNamesAgree ==
  stage = "done" =>
    \A i \in DOMAIN kept : \A s \in kept[i].rec.signed : CompareIdentity(s, kept[i].row) # "different"
=============================================================================
