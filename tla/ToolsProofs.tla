---------------------------- MODULE ToolsProofs ----------------------------
(***************************************************************************)
(* Proofs about the tools: Mailing, for any texts, layers of them and      *)
(* mayors; Crossing, for any register, directory and lists of endorsements;*)
(* Csv, for any cells, columns and rows; Texte, for any strings. The four  *)
(* hold nothing in common, and each is proved of its own specification.    *)
(* What they need of numbers and lists comes first.                        *)
(***************************************************************************)
EXTENDS Crossing, Mailing, Csv, Texte, FiniteSetTheorems, FunctionTheorems, SequenceTheorems,
        WellFoundedInduction, TLAPS

-----------------------------------------------------------------------------
\* Facts about numbers

\* A set of natural numbers has a least one; one that is bounded, a greatest one.
LEMMA LeastOf ==
  ASSUME NEW S, S \subseteq Nat, S # {}
  PROVE  /\ Min(S) \in S
         /\ \A n \in S : Min(S) <= n
<1> DEFINE R == {p \in Nat \X Nat : p[1] < p[2]}
<1>1. IsWellFoundedOn(R, Nat)
  BY NatLessThanWellFounded DEF OpToRel
<1>2. PICK m \in S : \A n \in S : <<n, m>> \notin R
  <2> HIDE DEF R
  <2> QED  BY <1>1, WFMin
<1>3. \A n \in S : m <= n
  <2> TAKE n \in S
  <2>1. m \in Nat /\ n \in Nat /\ <<n, m>> \notin R
    BY <1>2
  <2>2. <<n, m>> \in Nat \X Nat /\ <<n, m>>[1] = n /\ <<n, m>>[2] = m
    BY <2>1
  <2>3. ~(n < m)
    BY <2>1, <2>2
  <2> QED  BY <2>1, <2>3
<1> QED  BY <1>3 DEF Min

LEMMA GreatestOf ==
  ASSUME NEW k \in Nat, NEW S, S \subseteq 1..k, S # {}
  PROVE  /\ Max(S) \in S
         /\ \A n \in S : n <= Max(S)
<1> DEFINE T == {k - n : n \in S}
<1>1. T \subseteq Nat /\ T # {}
  <2>1. \A n \in S : k - n \in Nat
    OBVIOUS
  <2> QED  BY <2>1
<1> HIDE DEF T
<1>2. Min(T) \in T /\ \A n \in T : Min(T) <= n
  BY <1>1, LeastOf
<1>3. PICK m \in S : Min(T) = k - m
  BY <1>2 DEF T
<1>4. \A n \in S : n <= m
  <2> TAKE n \in S
  <2>1. k - n \in T
    BY DEF T
  <2> QED  BY <1>2, <1>3, <2>1
<1> QED  BY <1>3, <1>4 DEF Max

LEMMA LeastIs ==
  ASSUME NEW S, S \subseteq Nat, NEW m \in S, \A n \in S : m <= n
  PROVE  Min(S) = m
<1>1. Min(S) \in S /\ Min(S) <= m
  BY LeastOf
<1>2. m \in Nat /\ Min(S) \in Nat /\ m <= Min(S)
  BY <1>1
<1> QED  BY <1>1, <1>2

\* What holds of 0, and of n + 1 when it holds of n, holds up to k.
LEMMA UpTo ==
  ASSUME NEW k \in Nat, NEW S, 0 \in S, \A n \in 0..(k - 1) : n \in S => n + 1 \in S
  PROVE  \A n \in 0..k : n \in S
<1> DEFINE left == {n \in 0..k : n \notin S}
<1> SUFFICES ASSUME left # {} PROVE FALSE
  OBVIOUS
<1>1. PICK m \in left : \A n \in left : m <= n
  <2>1. left \subseteq Nat
    OBVIOUS
  <2> HIDE DEF left
  <2> QED  BY <2>1, LeastOf
<1>2. m \in 1..k /\ m - 1 \in 0..(k - 1)
  BY <1>1
<1>3. m - 1 \in S
  BY <1>1, <1>2
<1>4. (m - 1) + 1 \in S
  BY <1>2, <1>3
<1> QED  BY <1>1, <1>2, <1>4

-----------------------------------------------------------------------------
\* Facts about lists, whatever they hold

IsList(s) == \E S : s \in Seq(S)

LEMMA ListIs ==
  ASSUME NEW s, IsList(s)
  PROVE  Len(s) \in Nat /\ DOMAIN s = 1..Len(s)
BY DEF IsList

LEMMA NoList == IsList(<<>>) /\ Len(<<>>) = 0 /\ DOMAIN <<>> = {}
<1>1. <<>> \in Seq({})
  OBVIOUS
<1> QED  BY <1>1 DEF IsList

LEMMA ListWith ==
  ASSUME NEW s, IsList(s), NEW x
  PROVE  /\ IsList(Append(s, x)) /\ Len(Append(s, x)) = Len(s) + 1
         /\ DOMAIN Append(s, x) = DOMAIN s \union {Len(s) + 1} /\ Len(s) + 1 \notin DOMAIN s
         /\ Append(s, x)[Len(s) + 1] = x
         /\ \A i \in DOMAIN s : Append(s, x)[i] = s[i]
<1>1. PICK S : s \in Seq(S)
  BY DEF IsList
<1> DEFINE T == S \union {x}
<1>2. s \in Seq(T)
  BY <1>1, SeqMonotonic
<1>3. Append(s, x) \in Seq(T)
  BY <1>2
<1> HIDE DEF T
<1>4. x \in T
  BY DEF T
<1>5. Len(s) \in Nat /\ DOMAIN s = 1..Len(s)
  BY <1>2
<1>6. Len(Append(s, x)) = Len(s) + 1
  BY <1>2, <1>4
<1>7. Append(s, x)[Len(s) + 1] = x /\ \A i \in 1..Len(s) : Append(s, x)[i] = s[i]
  BY <1>2, <1>4
<1>8. DOMAIN Append(s, x) = 1..(Len(s) + 1)
  BY <1>3, <1>6
<1>9. 1..(Len(s) + 1) = (1..Len(s)) \union {Len(s) + 1} /\ Len(s) + 1 \notin 1..Len(s)
  BY <1>5
<1> QED  BY <1>3, <1>5, <1>6, <1>7, <1>8, <1>9 DEF IsList

LEMMA ListOver ==
  ASSUME NEW n \in Nat, NEW s, DOMAIN s = 1..n, s = [i \in 1..n |-> s[i]]
  PROVE  IsList(s) /\ Len(s) = n
<1>1. s \in [1..n -> {s[i] : i \in 1..n}]
  BY Zenon
<1>2. s \in Seq({s[i] : i \in 1..n})
  BY <1>1
<1>3. DOMAIN s = 1..Len(s) /\ Len(s) \in Nat
  BY <1>2
<1>4. ASSUME NEW k \in Nat, 1..k = 1..n  PROVE k = n
  <2>1. k < n => n \in 1..n /\ n \notin 1..k
    OBVIOUS
  <2>2. n < k => k \in 1..k /\ k \notin 1..n
    OBVIOUS
  <2> QED  BY <1>4, <2>1, <2>2
<1>5. Len(s) = n
  BY <1>3, <1>4
<1> QED  BY <1>2, <1>5 DEF IsList

LEMMA ListEdited ==
  ASSUME NEW s, IsList(s), NEW k \in DOMAIN s, NEW x
  PROVE  LET t == [s EXCEPT ![k] = x] IN
         /\ IsList(t) /\ Len(t) = Len(s) /\ DOMAIN t = DOMAIN s
         /\ t[k] = x /\ \A i \in DOMAIN s : i # k => t[i] = s[i]
<1> DEFINE t == [s EXCEPT ![k] = x]
<1>1. DOMAIN t = DOMAIN s /\ t[k] = x /\ \A i \in DOMAIN s : i # k => t[i] = s[i]
  OBVIOUS
<1>2. Len(s) \in Nat /\ DOMAIN s = 1..Len(s)
  BY ListIs
<1>3. t = [i \in 1..Len(s) |-> t[i]]
  BY <1>2
<1> HIDE DEF t
<1>4. IsList(t) /\ Len(t) = Len(s)
  BY <1>1, <1>2, <1>3, ListOver
<1> QED  BY <1>1, <1>4 DEF t

-----------------------------------------------------------------------------
\* The texts

\* A set of texts is one that was shipped, rewritten file by file.
AllTexts(set) == \A f \in DOMAIN set : IsText(set[f])

LEMMA MergedAreTexts ==
  ASSUME NEW layers \in Layers
  PROVE  AllTexts(MergeTemplates(Base, layers))
<1> DEFINE saying(f) == {i \in DOMAIN layers : Says(layers[i], f)}
<1>1. layers \in Seq(ToSet(layers)) /\ Len(layers) \in Nat /\ DOMAIN layers = 1..Len(layers)
  BY MailingAssumption
<1>2. ASSUME NEW f, saying(f) # {}
      PROVE  IsText(layers[Max(saying(f))][f])
  <2>1. Max(saying(f)) \in saying(f)
    BY <1>1, <1>2, GreatestOf
  <2> QED  BY <2>1, MailingAssumption DEF ToSet, Says
<1>3. ASSUME NEW f \in DOMAIN Base \union UNION {{g \in DOMAIN l : Says(l, g)} : l \in ToSet(layers)},
             saying(f) = {}
      PROVE  f \in DOMAIN Base
  BY <1>3 DEF ToSet
<1> QED  BY <1>2, <1>3, MailingAssumption DEF AllTexts, MergeTemplates

-----------------------------------------------------------------------------
\* The message engine

\* A behaviour of the mailing keeps the texts it was given.
MailingInv == AllTexts(templates)

LEMMA TextsStay == MailingSpec => []MailingInv
<1>1. MailingInit => MailingInv
  BY MergedAreTexts DEF MailingInit, MailingInv
<1>2. MailingInv /\ [MailingNext]_mailingVars => MailingInv'
  <2>1. [MailingNext]_mailingVars => UNCHANGED templates
    BY DEF MailingNext, Start, MailOne, WriteFile, Finish, mailingVars
  <2> QED  BY <2>1 DEF MailingInv, AllTexts
<1> QED  BY <1>1, <1>2, PTL DEF MailingSpec

\* What a mayor has fields for is decided by their audience alone.
LEMMA FieldsAre ==
  ASSUME NEW m, NEW n, NEW p
  PROVE  /\ DOMAIN Fields(m, n, p) = ByRank(m) \union {"commune", "argument_personnel", "proposition_telephone"}
         /\ \A k \in DOMAIN Fields(m, n, p) : Fields(m, n, p)[k] \in {"", k}
BY DEF Fields

LEMMA AudienceOf ==
  ASSUME NEW m
  PROVE  /\ Rank(m) \in Ranks
         /\ m.rank \notin {"", "has_endorsed"} => Rank(m) # "has_endorsed"
<1>1. CASE m.rank = ""
  BY <1>1 DEF Rank, Ranks
<1>2. CASE m.rank # "" /\ m.rank \in Ranks
  BY <1>2 DEF Rank
<1>3. CASE m.rank # "" /\ m.rank \notin Ranks
  BY <1>3 DEF Rank, Ranks
<1> QED  BY <1>1, <1>2, <1>3

\* What a message says is what its literals say and what the mayor has fields for.
LEMMA SaysNothingElse ==
  ASSUME NEW text, NEW ch, NEW w \in Parts(Rendered(text, ch)), KeysOf(text) \subseteq DOMAIN ch
  PROVE  \/ \E k \in KeysOf(text) : w = ch[k]
         \/ \E q \in Parts(text) : q[1] # "key" /\ w = q[2]
<1> DEFINE out == Rendered(text, ch)
           value(q) == IF q[1] = "key" THEN ch[q[2]] ELSE q[2]
<1>1. PICK i \in DOMAIN out : \E j \in DOMAIN out[i] : w = out[i][j]
  BY DEF Parts, ToSet
<1>2. PICK j \in DOMAIN out[i] : w = out[i][j]
  BY <1>1
<1>3. i \in DOMAIN text /\ j \in DOMAIN text[i] /\ w = value(text[i][j])
  BY <1>2 DEF Rendered
<1>4. text[i][j] \in Parts(text)
  BY <1>3 DEF Parts, ToSet
<1>5. CASE text[i][j][1] = "key"
  BY <1>3, <1>4, <1>5 DEF KeysOf
<1>6. CASE text[i][j][1] # "key"
  BY <1>3, <1>4, <1>6
<1> QED  BY <1>5, <1>6

\* A message that renders is its file's, under keys the mayor has.
LEMMA RenderedFrom ==
  ASSUME NEW set, NEW channel, NEW m, NEW n, NEW p,
         Render(set, channel, m, n, p).ok
  PROVE  /\ FileName(channel, m) \in DOMAIN set
         /\ KeysOf(set[FileName(channel, m)]) \subseteq DOMAIN Fields(m, n, p)
         /\ Render(set, channel, m, n, p).text = Rendered(set[FileName(channel, m)], Fields(m, n, p))
<1> DEFINE f == FileName(channel, m)
           ch == Fields(m, n, p)
           bad == f \notin DOMAIN set \/ ~(KeysOf(set[f]) \subseteq DOMAIN ch)
           text == Rendered(set[f], ch)
<1>1. ~Throws("MissingField").ok /\ ~Throws("InvalidTemplate").ok
  BY DEF Throws
<1>2. ~Missing(m)
  BY <1>1 DEF Render
<1>3. ~bad
  BY <1>1, <1>2 DEF Render
<1>4. Render(set, channel, m, n, p) \in {Throws("InvalidTemplate"), [ok |-> TRUE, why |-> "", text |-> text]}
  BY <1>2, <1>3 DEF Render
<1>5. Render(set, channel, m, n, p) = [ok |-> TRUE, why |-> "", text |-> text]
  BY <1>1, <1>4
<1>6. f \in DOMAIN set /\ KeysOf(set[f]) \subseteq DOMAIN ch
  BY <1>3
<1>7. Render(set, channel, m, n, p).text = text
  <2> DEFINE out == Render(set, channel, m, n, p)
  <2>1. out = [ok |-> TRUE, why |-> "", text |-> text]
    BY <1>5
  <2> HIDE DEF out, text
  <2>2. out.text = text
    BY <2>1
  <2> QED  BY <2>2 DEF out
<1> QED  BY <1>6, <1>7

LEMMA TheProvenOnly ==
  ASSUME MailingInv
  PROVE  OnlyTheProvenAreThanked
<1> SUFFICES ASSUME NEW m \in Mayors, NEW channel \in Channels, NEW n \in BOOLEAN, NEW p \in BOOLEAN
    PROVE  /\ Render(templates, channel, m, n, p).ok /\ m.rank \notin {"", "has_endorsed"} =>
                Parts(Render(templates, channel, m, n, p).text) \intersect EndorserWords = {}
           /\ \A discovery \in BOOLEAN :
                FileName(channel, m).discovery = discovery /\ ~Missing(m) =>
                  PlaceholderNames(channel, discovery) = DOMAIN Fields(m, n, p)
  BY DEF OnlyTheProvenAreThanked
<1> DEFINE f == FileName(channel, m)
           ch == Fields(m, n, p)
<1>1. ASSUME Render(templates, channel, m, n, p).ok, m.rank \notin {"", "has_endorsed"},
             NEW w \in Parts(Render(templates, channel, m, n, p).text)
      PROVE  w \notin EndorserWords
  <2>1. /\ f \in DOMAIN templates /\ KeysOf(templates[f]) \subseteq DOMAIN ch
        /\ w \in Parts(Rendered(templates[f], ch))
    BY <1>1, RenderedFrom, ZenonT(30)
  <2>2. DOMAIN ch = {"contexte", "commune", "argument_personnel", "proposition_telephone"}
    <3>1. ByRank(m) = {"contexte"}
      BY <1>1, AudienceOf DEF ByRank
    <3> QED  BY <3>1, FieldsAre, ZenonT(30)
  <2>3. \A k \in DOMAIN ch : ch[k] \notin EndorserWords
    BY <2>2, FieldsAre DEF EndorserWords
  <2>4. \A q \in Parts(templates[f]) : q[1] = "key" \/ q[2] \notin EndorserWords
    BY <2>1 DEF MailingInv, AllTexts, IsText
  <2> HIDE DEF ch, f
  <2> QED  BY <2>1, <2>3, <2>4, SaysNothingElse
<1>2. ASSUME NEW discovery \in BOOLEAN, f.discovery = discovery
      PROVE  PlaceholderNames(channel, discovery) = DOMAIN ch
  <2> DEFINE of == Sample(IF discovery THEN "no_signal" ELSE "has_endorsed")
  <2>1. discovery <=> Rank(m) # "has_endorsed"
    BY <1>2 DEF FileName
  <2>2. Rank(of) = IF discovery THEN "no_signal" ELSE "has_endorsed"
    BY DEF Rank, Sample, Ranks
  <2>3. ByRank(of) = ByRank(m)
    BY <2>1, <2>2 DEF ByRank
  <2> QED  BY <2>3, FieldsAre DEF PlaceholderNames
<1> QED  BY <1>1, <1>2

\* Whatever anybody wrote in whatever file, the words of an endorsement are said to a
\* proven endorser only, and the screen's placeholders are those of the file
\* (noyau/messages.ts, the ranks, the fields and the render).
THEOREM TheProvenAreThanked == MailingSpec => []OnlyTheProvenAreThanked
BY TextsStay, TheProvenOnly, PTL

\* Who tries a set of texts has the fields of the mayors of their audience.
TriedAs(m) == IF Rank(m) = "has_endorsed" THEN "has_endorsed" ELSE "no_signal"

LEMMA SampleHasTheFields ==
  ASSUME NEW m, NEW n, NEW p, NEW channel
  PROVE  /\ TriedAs(m) \in SampleRanks
         /\ ~Missing(Sample(TriedAs(m)))
         /\ FileName(channel, Sample(TriedAs(m))) = FileName(channel, m)
         /\ DOMAIN Fields(Sample(TriedAs(m)), FALSE, FALSE) = DOMAIN Fields(m, n, p)
<1> DEFINE rank == TriedAs(m)
           of == Sample(rank)
<1> USE DEF TriedAs
<1>1. rank \in SampleRanks
  BY DEF SampleRanks
<1>2. Rank(of) = rank
  BY DEF Rank, Sample, Ranks
<1>3. ByRank(of) = ByRank(m)
  BY <1>2 DEF ByRank
<1>4. FileName(channel, of) = FileName(channel, m)
  BY <1>2 DEF FileName
<1>5. DOMAIN Fields(of, FALSE, FALSE) = DOMAIN Fields(m, n, p)
  BY <1>3, FieldsAre
<1>6. ~Missing(of)
  BY DEF Missing, Required, Sample
<1> QED  BY <1>1, <1>4, <1>5, <1>6

\* One way to fill a text in says all that another says, and besides only what
\* an occasional placeholder says.
SaysMore(text, ch1, ch2) ==
  \A k \in KeysOf(text) :
    /\ ch1[k] # "" => ch2[k] = ch1[k]
    /\ ch1[k] = "" /\ ch2[k] # "" => k \in Occasional /\ ch2[k] = k

\* A placeholder that speaks for the sample says the same for every mayor; one
\* that does not is an occasional one, and says its own value or nothing.
LEMMA SampleSpeaks ==
  ASSUME NEW m, NEW n, NEW p, NEW text, KeysOf(text) \subseteq DOMAIN Fields(m, n, p)
  PROVE  SaysMore(text, Fields(Sample(TriedAs(m)), FALSE, FALSE), Fields(m, n, p))
<1> DEFINE of == Sample(TriedAs(m))
           ch == Fields(m, n, p)
           ch1 == Fields(of, FALSE, FALSE)
<1>1. DOMAIN ch1 = DOMAIN ch
  BY SampleHasTheFields
<1>2. \A k \in DOMAIN ch : /\ ch[k] = (IF k \in Silent(m, n, p) THEN "" ELSE k)
                          /\ ch1[k] = (IF k \in Silent(of, FALSE, FALSE) THEN "" ELSE k)
  BY <1>1 DEF Fields
<1>3. Silent(m, n, p) \subseteq Occasional /\ Silent(of, FALSE, FALSE) \subseteq Occasional
  BY DEF Silent
<1>4. ~Cites(of)
  BY DEF Cites, Rank, Sample, TriedAs, Ranks
<1>5. Occasional \subseteq Silent(of, FALSE, FALSE)
  BY <1>4 DEF Silent, Occasional
<1> HIDE DEF ch, ch1, of
<1>6. SaysMore(text, ch1, ch)
  <2>1. KeysOf(text) \subseteq DOMAIN ch
    BY DEF ch
  <2> QED  BY <1>2, <1>3, <1>5, <2>1 DEF SaysMore
<1> QED  BY <1>6 DEF ch, ch1, of

LEMMA SameNumber ==
  ASSUME NEW a \in Nat, NEW b \in Nat, a <= b, b <= a
  PROVE  a = b
OBVIOUS

\* Lines and parts are numbered.
LEMMA LinesOf ==
  ASSUME NEW X, NEW text \in Seq(Seq(X))
  PROVE  DOMAIN text \subseteq Nat /\ \A i \in DOMAIN text : DOMAIN text[i] \subseteq Nat
<1>1. /\ DOMAIN text = 1..Len(text) /\ Len(text) \in Nat
      /\ \A i \in 1..Len(text) : text[i] \in Seq(X)
  OBVIOUS
<1>2. ASSUME NEW i \in DOMAIN text PROVE DOMAIN text[i] \subseteq Nat
  <2>1. text[i] \in Seq(X)
    BY <1>1
  <2> QED  BY <2>1
<1> QED  BY <1>1, <1>2

\* Of two ways to fill a text in, the second saying all that the first says: it
\* opens on the same thing, or on a placeholder only the second makes speak.
LEMMA OpensOrSpeaks ==
  ASSUME NEW text, IsText(text), NEW ch1, NEW ch2, NEW t, Opens(Rendered(text, ch1), t),
         SaysMore(text, ch1, ch2)
  PROVE  Opens(Rendered(text, ch2), t) \/ \E k \in Occasional : Opens(Rendered(text, ch2), k)
<1> DEFINE v1(q) == IF q[1] = "key" THEN ch1[q[2]] ELSE q[2]
           v2(q) == IF q[1] = "key" THEN ch2[q[2]] ELSE q[2]
           left1(i) == {j \in DOMAIN text[i] : v1(text[i][j]) # ""}
           left2(i) == {j \in DOMAIN text[i] : v2(text[i][j]) # ""}
           lines1 == {i \in DOMAIN text : left1(i) # {}}
           lines2 == {i \in DOMAIN text : left2(i) # {}}
           out1 == Rendered(text, ch1)
           out2 == Rendered(text, ch2)
<1>1. DOMAIN text \subseteq Nat /\ \A i \in DOMAIN text : DOMAIN text[i] \subseteq Nat
  BY LinesOf DEF IsText
<1>2. \A i \in DOMAIN text, j \in Nat : j \in DOMAIN text[i] =>
        (text[i][j][1] = "key" => text[i][j][2] \in KeysOf(text))
  <2>1. ASSUME NEW i \in DOMAIN text, NEW j \in DOMAIN text[i]
        PROVE  text[i][j] \in Parts(text)
    <3>1. text[i] \in ToSet(text) /\ text[i][j] \in ToSet(text[i])
      BY Zenon DEF ToSet
    <3> QED  BY <3>1, Zenon DEF Parts
  <2>2. \A q \in Parts(text) : q[1] = "key" => q[2] \in KeysOf(text)
    BY DEF KeysOf
  <2> QED  BY <2>1, <2>2
<1>3. \A i \in DOMAIN text, j \in Nat : j \in DOMAIN text[i] =>
        LET q == text[i][j]
        IN  /\ v1(q) # "" => v2(q) = v1(q)
            /\ v1(q) = "" /\ v2(q) # "" => v2(q) \in Occasional
  BY <1>2 DEF SaysMore
<1>4. /\ DOMAIN out1 = lines1 /\ \A i \in lines1 : DOMAIN out1[i] = left1(i)
      /\ DOMAIN out2 = lines2 /\ \A i \in lines2 : DOMAIN out2[i] = left2(i)
      /\ \A i \in lines1 : \A j \in left1(i) : out1[i][j] = v1(text[i][j])
      /\ \A i \in lines2 : \A j \in left2(i) : out2[i][j] = v2(text[i][j])
  BY DEF Rendered
<1>5. /\ \A i \in DOMAIN text : left1(i) \subseteq left2(i) /\ left2(i) \subseteq Nat
      /\ lines1 \subseteq lines2 /\ lines2 \subseteq DOMAIN text /\ lines2 \subseteq Nat
  <2>1. \A i \in DOMAIN text : left1(i) \subseteq left2(i) /\ left2(i) \subseteq Nat
    BY <1>1, <1>3
  <2> QED  BY <1>1, <2>1
<1>6. /\ \A q : q \in lines1 <=> (q \in DOMAIN text /\ left1(q) # {})
      /\ \A i, j : j \in left1(i) <=> (j \in DOMAIN text[i] /\ v1(text[i][j]) # "")
      /\ \A q : q \in lines2 <=> (q \in DOMAIN text /\ left2(q) # {})
      /\ \A i, j : j \in left2(i) <=> (j \in DOMAIN text[i] /\ v2(text[i][j]) # "")
  OBVIOUS
<1>7. PICK i1 \in lines1 : i1 = Min(lines1) /\ \A i \in lines1 : i1 <= i
  <2>1. lines1 # {} /\ lines1 \subseteq Nat
    BY <1>4, <1>5 DEF Opens
  <2> HIDE DEF lines1
  <2> QED  BY <2>1, LeastOf
<1>8. PICK j1 \in left1(i1) : j1 = Min(left1(i1)) /\ \A j \in left1(i1) : j1 <= j
  <2>1. left1(i1) # {} /\ left1(i1) \subseteq Nat
    BY <1>5, <1>6, <1>7
  <2> HIDE DEF left1
  <2> QED  BY <2>1, LeastOf
<1>9. v1(text[i1][j1]) = t
  <2>1. out1[Min(DOMAIN out1)][Min(DOMAIN out1[Min(DOMAIN out1)])] = t
    BY DEF Opens
  <2> HIDE DEF out1, lines1, left1, v1, out2, lines2, left2, v2
  <2>2. DOMAIN out1 = lines1 /\ DOMAIN out1[i1] = left1(i1) /\ out1[i1][j1] = v1(text[i1][j1])
    BY <1>4, <1>7, <1>8, Zenon
  <2> QED  BY <1>7, <1>8, <2>1, <2>2
<1>10. PICK i2 \in lines2 : i2 = Min(lines2) /\ \A i \in lines2 : i2 <= i
  <2>1. lines2 # {} /\ lines2 \subseteq Nat
    BY <1>5, <1>7
  <2> HIDE DEF lines2
  <2> QED  BY <2>1, LeastOf
<1>11. PICK j2 \in left2(i2) : j2 = Min(left2(i2)) /\ \A j \in left2(i2) : j2 <= j
  <2>1. left2(i2) # {} /\ left2(i2) \subseteq Nat
    BY <1>5, <1>6, <1>10
  <2> HIDE DEF left2
  <2> QED  BY <2>1, LeastOf
<1>12. Opens(out2, v2(text[i2][j2]))
  <2> HIDE DEF out1, lines1, left1, v1, out2, lines2, left2, v2
  <2>1. DOMAIN out2 = lines2 /\ DOMAIN out2[i2] = left2(i2) /\ out2[i2][j2] = v2(text[i2][j2])
    BY <1>4, <1>10, <1>11, Zenon
  <2>2. DOMAIN out2 # {}
    BY <1>10, <2>1
  <2> QED  BY <1>10, <1>11, <2>1, <2>2 DEF Opens
<1>13. /\ i2 \in DOMAIN text /\ j2 \in DOMAIN text[i2] /\ v2(text[i2][j2]) # ""
       /\ i1 \in Nat /\ i2 \in Nat /\ j1 \in Nat /\ j2 \in Nat
       /\ i1 \in lines2 /\ j1 \in left2(i1)
  BY <1>1, <1>5, <1>6, <1>7, <1>8, <1>10, <1>11
\* A part the first way leaves out.
<1>14. CASE v1(text[i2][j2]) = ""
  BY <1>3, <1>12, <1>13, <1>14
\* A part both ways keep: it is the first of both.
<1>15. CASE v1(text[i2][j2]) # ""
  <2>1. v2(text[i2][j2]) = v1(text[i2][j2])
    BY <1>3, <1>13, <1>15
  <2> HIDE DEF lines1, lines2, left1, left2, v1, v2, out1, out2
  <2>2. j2 \in left1(i2) /\ i2 \in lines1
    BY <1>6, <1>13, <1>15
  <2>3. i1 = i2
    <3>1. i1 <= i2 /\ i2 <= i1
      BY <1>7, <1>10, <1>13, <2>2, Zenon
    <3> QED  BY <1>13, <3>1, SameNumber, Zenon
  <2>4. j1 = j2
    <3>1. j1 <= j2 /\ j2 <= j1
      BY <1>8, <1>11, <1>13, <2>2, <2>3, Zenon
    <3> QED  BY <1>13, <3>1, SameNumber, Zenon
  <2>5. v1(text[i2][j2]) = t
    BY <1>9, <2>3, <2>4, Zenon
  <2>6. Opens(out2, t)
    BY <1>12, <2>1, <2>5, Zenon
  <2> QED  BY <2>6 DEF out2
<1> QED  BY <1>14, <1>15

LEMMA Answers ==
  ASSUME NEW r, NEW text, r = [ok |-> TRUE, why |-> "", text |-> text]
  PROVE  r.ok /\ r.why # "InvalidTemplate" /\ r.text = text
OBVIOUS

\* Whoever the mayor is.
LEMMA AcceptedRenderFor ==
  ASSUME MailingInv, ~InvalidTemplate(templates),
         NEW m, NEW channel \in Channels, NEW n, NEW p
  PROVE  Render(templates, channel, m, n, p).why = "InvalidTemplate" =>
           channel = "email" /\ OpensOnAnOccasion(templates, m, n, p)
<1> DEFINE f == FileName(channel, m)
           ch == Fields(m, n, p)
           text == Rendered(templates[f], ch)
           bad == f \notin DOMAIN templates \/ ~(KeysOf(templates[f]) \subseteq DOMAIN ch)
<1>1. Throws("MissingField").why = "MissingField" /\ Throws("InvalidTemplate").why = "InvalidTemplate"
  BY DEF Throws
<1>2. CASE Missing(m)
  BY <1>1, <1>2 DEF Render
<1>3. ~bad
  <2> DEFINE rank == TriedAs(m)
  <2>1. /\ rank \in SampleRanks
        /\ ~Missing(Sample(rank))
        /\ FileName(channel, Sample(rank)) = f
        /\ DOMAIN Fields(Sample(rank), FALSE, FALSE) = DOMAIN ch
    BY SampleHasTheFields
  <2>2. Render(templates, channel, Sample(rank), FALSE, FALSE).why # "InvalidTemplate"
    <3>1. \A r \in SampleRanks, c \in Channels :
            Render(templates, c, Sample(r), FALSE, FALSE).why # "InvalidTemplate"
      BY DEF InvalidTemplate
    <3> HIDE DEF rank
    <3> QED  BY <2>1, <3>1
  <2>3. bad => Render(templates, channel, Sample(rank), FALSE, FALSE) = Throws("InvalidTemplate")
    BY <2>1 DEF Render
  <2> QED  BY <1>1, <2>2, <2>3
<1>4. CASE ~Missing(m) /\ channel # "email"
  <2>1. Render(templates, channel, m, n, p) = [ok |-> TRUE, why |-> "", text |-> text]
    BY <1>3, <1>4 DEF Render
  <2> QED  BY <2>1, Answers
<1>5. CASE ~Missing(m) /\ channel = "email"
  <2> DEFINE of == Sample(TriedAs(m))
             ch1 == Fields(of, FALSE, FALSE)
             tried == Rendered(templates[f], ch1)
  <2>1. IsText(templates[f]) /\ KeysOf(templates[f]) \subseteq DOMAIN ch
    BY <1>3 DEF MailingInv, AllTexts
  <2>2. TriedAs(m) \in SampleRanks /\ ~Missing(of) /\ FileName("email", of) = f /\ DOMAIN ch1 = DOMAIN ch
    BY <1>5, SampleHasTheFields
  <2>3. Opens(tried, "OBJET:")
    <3>1. Render(templates, "email", of, FALSE, FALSE).why # "InvalidTemplate"
      <4>1. \A r \in SampleRanks, c \in Channels :
              Render(templates, c, Sample(r), FALSE, FALSE).why # "InvalidTemplate"
        BY DEF InvalidTemplate
      <4> QED  BY <2>2, <4>1 DEF Channels
    <3>2. ~Opens(tried, "OBJET:") =>
            Render(templates, "email", of, FALSE, FALSE) = Throws("InvalidTemplate")
      BY <1>3, <2>2 DEF Render
    <3> QED  BY <1>1, <3>1, <3>2
  <2>4. SaysMore(templates[f], ch1, ch)
    <3> HIDE DEF f
    <3> QED  BY <2>1, SampleSpeaks
  <2>5. Opens(text, "OBJET:") \/ \E k \in Occasional : Opens(text, k)
    <3> HIDE DEF ch, ch1, f
    <3> QED  BY <2>1, <2>3, <2>4, OpensOrSpeaks
  <2>6. CASE Opens(text, "OBJET:")
    <3>1. Render(templates, channel, m, n, p) = [ok |-> TRUE, why |-> "", text |-> text]
      BY <1>3, <1>5, <2>6 DEF Render
    <3> QED  BY <3>1, Answers
  <2>7. CASE \E k \in Occasional : Opens(text, k)
    BY <1>5, <2>1, <2>7 DEF OpensOnAnOccasion
  <2> QED  BY <2>5, <2>6, <2>7
<1> QED  BY <1>2, <1>4, <1>5

LEMMA AcceptedRender ==
  ASSUME MailingInv
  PROVE  AcceptedTextsRender
BY AcceptedRenderFor DEF AcceptedTextsRender

\* A set of texts the engine accepted for nobody in particular (noyau/messages.ts,
\* invalidTemplate) is refused by no mayor, whatever the layers say and whoever the mayor is,
\* but in one way: an email that a placeholder silent for the samples opens.
THEOREM AcceptedTextsAlwaysRender == MailingSpec => []AcceptedTextsRender
BY TextsStay, AcceptedRender, PTL

-----------------------------------------------------------------------------
\* The crossing: filing the endorsements

PersonFields == {"key", "sex", "last", "first", "commune", "dept", "office", "small", "others",
                 "years", "score", "signed"}

\* What the endorsements of the small candidates are worth, one year or more.
PointsOf(small) == 2 * Cardinality(OfTier(small, "A")) + Cardinality(OfTier(small, "B"))

\* A person while the files are read: the score is the one of the endorsements filed.
Filing(rec) ==
  /\ DOMAIN rec = PersonFields
  /\ IsList(rec.small) /\ rec.score = PointsOf(rec.small)

LEMMA PointsAre ==
  ASSUME NEW small, IsList(small)
  PROVE  /\ PointsOf(small) \in Nat
         /\ \A t : IsFiniteSet(OfTier(small, t)) /\ Cardinality(OfTier(small, t)) \in Nat
<1>1. \A t : OfTier(small, t) \subseteq 1..Len(small)
  BY ListIs DEF OfTier
<1>2. IsFiniteSet(1..Len(small))
  BY ListIs, FS_Interval
<1>3. \A t : IsFiniteSet(OfTier(small, t))
  BY <1>1, <1>2, FS_Subset
<1>4. \A t : Cardinality(OfTier(small, t)) \in Nat
  BY <1>3, FS_CardinalityType
<1> QED  BY <1>3, <1>4 DEF PointsOf

LEMMA PointsWith ==
  ASSUME NEW small, IsList(small), NEW tag, tag.tier \in {"A", "B"}
  PROVE  PointsOf(Append(small, tag)) = PointsOf(small) + Points(tag.tier)
<1> DEFINE more == Append(small, tag)
           k == Len(small) + 1
<1>1. /\ DOMAIN more = DOMAIN small \union {k} /\ k \notin DOMAIN small
      /\ more[k] = tag /\ \A i \in DOMAIN small : more[i] = small[i]
  BY ListWith
<1> HIDE DEF more, k
<1>2. \A t : OfTier(more, t) = OfTier(small, t) \union (IF tag.tier = t THEN {k} ELSE {})
  BY <1>1 DEF OfTier
<1>3. \A t : k \notin OfTier(small, t)
  BY <1>1 DEF OfTier
<1>4. ASSUME NEW t
      PROVE  Cardinality(OfTier(more, t)) = Cardinality(OfTier(small, t)) + (IF tag.tier = t THEN 1 ELSE 0)
  <2> DEFINE S == OfTier(small, t)
  <2>1. IsFiniteSet(S) /\ Cardinality(S) \in Nat /\ k \notin S
    BY <1>3, PointsAre
  <2>2. OfTier(more, t) = S \union (IF tag.tier = t THEN {k} ELSE {})
    BY <1>2
  <2> HIDE DEF S
  <2>3. Cardinality(S \union {k}) = Cardinality(S) + 1
    BY <2>1, FS_AddElement
  <2>4. CASE tag.tier = t
    BY <2>2, <2>3, <2>4 DEF S
  <2>5. CASE tag.tier # t
    <3>1. OfTier(more, t) = S
      BY <2>2, <2>5
    <3> QED  BY <2>1, <2>5, <3>1 DEF S
  <2> QED  BY <2>4, <2>5
<1>5. Cardinality(OfTier(small, "A")) \in Nat /\ Cardinality(OfTier(small, "B")) \in Nat
  BY PointsAre
<1>6. CASE tag.tier = "A"
  BY <1>4, <1>5, <1>6 DEF PointsOf, Points, more
<1>7. CASE tag.tier = "B"
  BY <1>4, <1>5, <1>7 DEF PointsOf, Points, more
<1> QED  BY <1>6, <1>7

LEMMA FilingAnEntry ==
  ASSUME NEW rec, Filing(rec), NEW e \in Entries
  PROVE  Filing(FileEntry(rec, e))
<1>1. Tag(e).tier = e.tier /\ e.tier \in {"A", "B", "none"}
  BY CrossingAssumption DEF Tag
<1>2. CASE e.tier = "none"
  <2> DEFINE r == [rec EXCEPT !.others = Append(@, Tag(e))]
  <2>1. DOMAIN r = PersonFields /\ r.small = rec.small /\ r.score = rec.score
    BY DEF Filing, PersonFields
  <2>2. FileEntry(rec, e) = r
    BY <1>2 DEF FileEntry
  <2> HIDE DEF r
  <2> QED  BY <2>1, <2>2 DEF Filing
<1>3. CASE e.tier # "none"
  <2> DEFINE more == Append(rec.small, Tag(e))
             r == [rec EXCEPT !.small = Append(@, Tag(e)), !.years = @ \union {e.year},
                              !.score = @ + Points(e.tier)]
  <2>1. DOMAIN r = PersonFields /\ r.small = more /\ r.score = rec.score + Points(e.tier)
    BY DEF Filing, PersonFields
  <2>2. FileEntry(rec, e) = r
    BY <1>3 DEF FileEntry
  <2>3. IsList(more)
    BY ListWith DEF Filing
  <2>4. PointsOf(more) = PointsOf(rec.small) + Points(e.tier)
    <3>1. IsList(rec.small)
      BY DEF Filing
    <3> DEFINE tag == Tag(e)
    <3>2. tag.tier = e.tier /\ tag.tier \in {"A", "B"}
      BY <1>1, <1>3
    <3> HIDE DEF tag
    <3>3. PointsOf(Append(rec.small, tag)) = PointsOf(rec.small) + Points(tag.tier)
      BY <3>1, <3>2, PointsWith
    <3> QED  BY <3>2, <3>3 DEF tag
  <2> HIDE DEF r, more
  <2>5. r.score = PointsOf(r.small)
    BY <2>1, <2>4 DEF Filing
  <2> QED  BY <2>1, <2>2, <2>3, <2>5 DEF Filing
<1> QED  BY <1>2, <1>3

\* ReadEntry notes the name an endorsement was signed under beside filing it.
Signs(rec, e) == [rec EXCEPT !.signed = @ \union {[last |-> e.last, first |-> e.first, sex |-> e.sex]}]

LEMMA FilingASignature ==
  ASSUME NEW rec, Filing(rec), NEW e
  PROVE  Filing(Signs(rec, e))
<1> DEFINE name == [last |-> e.last, first |-> e.first, sex |-> e.sex]
           r == [rec EXCEPT !.signed = @ \union {name}]
<1> HIDE DEF name
<1>1. DOMAIN r = PersonFields /\ r.small = rec.small /\ r.score = rec.score
  BY DEF Filing, PersonFields
<1>2. Signs(rec, e) = r
  BY DEF Signs, name
<1> HIDE DEF r
<1> QED  BY <1>1, <1>2 DEF Filing

LEMMA FilingSomebodyNew ==
  ASSUME NEW e
  PROVE  Filing(NewPerson(e))
<1> DEFINE r == NewPerson(e)
<1>1. DOMAIN r = PersonFields /\ r.small = <<>> /\ r.score = 0
  BY DEF NewPerson, PersonFields
<1>2. OfTier(<<>>, "A") = {} /\ OfTier(<<>>, "B") = {}
  BY NoList DEF OfTier
<1>3. PointsOf(<<>>) = 0
  <2>1. Cardinality(OfTier(<<>>, "A")) = 0 /\ Cardinality(OfTier(<<>>, "B")) = 0
    BY <1>2, FS_EmptySet
  <2> QED  BY <2>1 DEF PointsOf
<1> HIDE DEF r
<1>4. Filing(r)
  BY <1>1, <1>3, NoList DEF Filing
<1> QED  BY <1>4 DEF r

-----------------------------------------------------------------------------
\* The crossing: what the match of a person establishes

GivenSources == register \in Registers /\ cards \in Directories

InOffice(row) == \E k \in DOMAIN register : row = register[k]

LEMMA RegisterIs ==
  ASSUME GivenSources
  PROVE  /\ DOMAIN register = 1..Len(register) /\ Len(register) \in Nat
         /\ \A i, j \in DOMAIN register :
              \/ register[i].insee = register[j].insee
              \/ register[i].dept = register[j].dept /\ register[i].commune = register[j].commune
              => i = j
<1>1. register \in Seq(ToSet(register))
  BY CrossingAssumption DEF GivenSources
<1>2. DOMAIN register = 1..Len(register) /\ Len(register) \in Nat
  BY <1>1
<1> QED  BY <1>2, CrossingAssumption DEF GivenSources

LEMMA MayorIs ==
  ASSUME GivenSources, NEW dept, NEW name \in CommunesOf(dept)
  PROVE  \E k \in DOMAIN register :
           /\ MayorOf(dept, name) = register[k]
           /\ register[k].dept = dept /\ register[k].commune = name
<1> DEFINE S == {i \in DOMAIN register : register[i].dept = dept /\ register[i].commune = name}
<1>1. S \subseteq 1..Len(register) /\ Len(register) \in Nat
  BY RegisterIs
<1>2. S # {}
  BY DEF CommunesOf
<1>3. MayorOf(dept, name) = register[Max(S)]
  BY DEF MayorOf
<1>4. Max(S) \in S
  <2> HIDE DEF S
  <2> QED  BY <1>1, <1>2, GreatestOf
<1> QED  BY <1>3, <1>4

LEMMA RowIs ==
  ASSUME GivenSources, NEW rec
  PROVE  LET found == RowFor(rec) IN
         /\ found.some => InOffice(found.row)
         /\ rec.commune \in CommunesOf(rec.dept) =>
              found = [some |-> TRUE, row |-> MayorOf(rec.dept, rec.commune), approx |-> FALSE]
<1> DEFINE communes == CommunesOf(rec.dept)
           tight == {n \in communes : Tight[n] = Tight[rec.commune]}
           close == Near[rec.commune] \intersect communes
           rowOf(n, a) == [some |-> TRUE, row |-> MayorOf(rec.dept, n), approx |-> a]
           none == [some |-> FALSE, row |-> None, approx |-> FALSE]
           found == RowFor(rec)
<1>0. \A n \in communes : InOffice(MayorOf(rec.dept, n))
  BY MayorIs DEF InOffice
<1>1. CASE rec.commune \in communes
  <2>1. found = rowOf(rec.commune, FALSE)
    BY <1>1 DEF RowFor
  <2>2. InOffice(MayorOf(rec.dept, rec.commune))
    BY <1>0, <1>1
  <2>3. found.row = MayorOf(rec.dept, rec.commune)
    <3> HIDE DEF found
    <3> QED  BY <2>1
  <2> QED  BY <2>1, <2>2, <2>3
<1>2. CASE rec.commune \notin communes /\ Cardinality(tight) = 1
  <2>1. tight # {}
    <3>1. Cardinality({}) = 0
      BY FS_EmptySet
    <3> HIDE DEF tight
    <3> QED  BY <1>2, <3>1
  <2>2. (CHOOSE n \in tight : TRUE) \in communes
    BY <2>1
  <2>3. found = rowOf(CHOOSE n \in tight : TRUE, FALSE)
    BY <1>2 DEF RowFor
  <2>4. InOffice(MayorOf(rec.dept, CHOOSE n \in tight : TRUE))
    <3> HIDE DEF communes, tight
    <3> QED  BY <1>0, <2>2
  <2>5. found.row = MayorOf(rec.dept, CHOOSE n \in tight : TRUE)
    <3> HIDE DEF found, tight
    <3> QED  BY <2>3
  <2> QED  BY <1>2, <2>4, <2>5
<1>3. CASE rec.commune \notin communes /\ Cardinality(tight) # 1 /\ close # {}
  <2>1. (CHOOSE n \in close : TRUE) \in communes
    BY <1>3
  <2>2. found = rowOf(CHOOSE n \in close : TRUE, TRUE)
    BY <1>3 DEF RowFor
  <2>3. InOffice(MayorOf(rec.dept, CHOOSE n \in close : TRUE))
    <3> HIDE DEF communes, close
    <3> QED  BY <1>0, <2>1
  <2>4. found.row = MayorOf(rec.dept, CHOOSE n \in close : TRUE)
    <3> HIDE DEF found, close
    <3> QED  BY <2>2
  <2> QED  BY <1>3, <2>3, <2>4
<1>4. CASE rec.commune \notin communes /\ Cardinality(tight) # 1 /\ close = {}
  <2>1. found = none
    BY <1>4 DEF RowFor
  <2>2. ~found.some
    <3> HIDE DEF found
    <3> QED  BY <2>1
  <2> QED  BY <1>4, <2>2
<1> QED  BY <1>1, <1>2, <1>3, <1>4

\* The card that stands for a commune is one of the directory's, of that commune.
LEMMA ContactIs ==
  ASSUME GivenSources, NEW d \in Contacts
  PROVE  \E k \in DOMAIN cards : cards[k].insee = d.insee
<1>1. PICK c \in ToSet(cards) :
        d = cards[Min({i \in {j \in DOMAIN cards : cards[j].insee = c.insee} :
                         \A j \in {k \in DOMAIN cards : cards[k].insee = c.insee} :
                           BeforeOrEqual(cards[i], cards[j])})]
  BY DEF Contacts
<1> DEFINE here == {i \in DOMAIN cards : cards[i].insee = c.insee}
           main == {i \in here : ~cards[i].delegate}
           pool == IF main # {} THEN main ELSE here
           sizes == {cards[i].size : i \in pool}
           best == {i \in here : \A j \in here : BeforeOrEqual(cards[i], cards[j])}
<1>2. /\ cards \in Seq(ToSet(cards))
      /\ \A x \in ToSet(cards) : x.size \in Nat /\ x.delegate \in BOOLEAN
  BY CrossingAssumption DEF GivenSources
<1>3. DOMAIN cards \subseteq Nat /\ \A i \in DOMAIN cards : cards[i] \in ToSet(cards)
  BY <1>2
<1>4. \A i \in DOMAIN cards : cards[i].size \in Nat /\ cards[i].delegate \in BOOLEAN
  BY <1>2, <1>3
<1>5. here # {} /\ pool # {} /\ pool \subseteq here
  BY DEF ToSet
<1>6. sizes # {} /\ sizes \subseteq Nat
  BY <1>4, <1>5
<1>7. Min(sizes) \in sizes /\ \A n \in sizes : Min(sizes) <= n
  <2> HIDE DEF sizes
  <2> QED  BY <1>6, LeastOf
<1>8. PICK i \in pool : Min(sizes) = cards[i].size
  BY <1>7
<1>9. \A j \in pool : cards[i].size <= cards[j].size
  <2>1. \A j \in pool : cards[j].size \in sizes
    OBVIOUS
  <2> HIDE DEF sizes
  <2> QED  BY <1>7, <1>8, <2>1
\* The main town hall first, and the shorter name of two alike.
<1>10. \A j \in here : BeforeOrEqual(cards[i], cards[j])
  <2>1. CASE main # {}
    BY <1>4, <1>8, <1>9, <2>1 DEF BeforeOrEqual
  <2>2. CASE main = {}
    BY <1>4, <1>8, <1>9, <2>2 DEF BeforeOrEqual
  <2> QED  BY <2>1, <2>2
<1>11. best # {} /\ best \subseteq Nat
  BY <1>3, <1>5, <1>8, <1>10
<1>12. Min(best) \in best
  <2> HIDE DEF best
  <2> QED  BY <1>11, LeastOf
<1>13. d = cards[Min(best)]
  BY <1>1
<1> HIDE DEF best
<1>14. Min(best) \in DOMAIN cards
  BY <1>12 DEF best
<1> QED  BY <1>13, <1>14

\* The town halls of the communes a label names, in the department that was signed.
HallsOf(rec) ==
  {c.insee : c \in {d \in Contacts : ~d.delegate /\ rec.commune \in {d.label, d.city}
                                    /\ DeptOf[d.insee] = DeptCode(rec.dept)}}

LEMMA SignedIs ==
  ASSUME GivenSources, NEW rec, HallsOf(rec) # {}
  PROVE  SignedInsee(rec) \in HallsOf(rec) /\ SignedInsee(rec) # None
<1> DEFINE here == {i \in CommunesByLabel(rec.commune) : DeptOf[i] = DeptCode(rec.dept)}
           cardsOf(insee) == {i \in DOMAIN cards : cards[i].insee = insee}
           first(insee) == Min(cardsOf(insee))
           firsts == {first(i) : i \in here}
<1>1. here = HallsOf(rec)
  BY DEF HallsOf, CommunesByLabel
<1>2. cards \in Seq(ToSet(cards)) /\ \A x \in ToSet(cards) : x.insee # None
  BY CrossingAssumption DEF GivenSources
<1>3. DOMAIN cards \subseteq Nat /\ \A i \in DOMAIN cards : cards[i] \in ToSet(cards)
  BY <1>2
<1>4. \A i \in here : cardsOf(i) # {} /\ i # None
  <2> TAKE i \in here
  <2>1. PICK d \in Contacts : i = d.insee
    BY DEF CommunesByLabel
  <2>2. PICK k \in DOMAIN cards : cards[k].insee = i
    BY <2>1, ContactIs
  <2> QED  BY <1>2, <1>3, <2>2
<1>5. \A i \in here : first(i) \in Nat
  <2> TAKE i \in here
  <2>1. cardsOf(i) # {} /\ cardsOf(i) \subseteq Nat
    BY <1>3, <1>4
  <2> HIDE DEF cardsOf
  <2>2. Min(cardsOf(i)) \in cardsOf(i)
    BY <2>1, LeastOf
  <2> QED  BY <2>1, <2>2
<1> HIDE DEF cardsOf
<1>6. firsts # {} /\ firsts \subseteq Nat
  BY <1>1, <1>5
<1>7. Min(firsts) \in firsts /\ \A n \in firsts : Min(firsts) <= n
  <2> HIDE DEF firsts
  <2> QED  BY <1>6, LeastOf
<1>8. PICK i \in here : Min(firsts) = first(i)
  BY <1>7
<1>9. \A j \in here : first(j) \in firsts
  OBVIOUS
<1>10. \A j \in here : first(i) <= first(j)
  <2> HIDE DEF firsts, first
  <2> QED  BY <1>7, <1>8, <1>9
<1>11. here # {}
  BY <1>1
<1>12. SignedInsee(rec) = CHOOSE x \in here : \A j \in here : first(x) <= first(j)
  BY <1>11 DEF SignedInsee, cardsOf
<1> HIDE DEF here, first
<1>13. SignedInsee(rec) \in here
  BY <1>10, <1>12
<1> QED  BY <1>1, <1>4, <1>13

\* A mayor found by their name was not contradicted by the commune that was signed.
StandsByName(rec, row) ==
  LET signed == {j \in DOMAIN register : register[j].dept = rec.dept /\ register[j].commune = rec.commune}
  IN /\ \A j \in signed : CompareIdentity(rec, register[j]) # "different"
     /\ signed = {} /\ ~RowFor(rec).some /\ HallsOf(rec) # {} => row.insee \in HallsOf(rec)

StillThere(rec, row, conf) ==
  /\ InOffice(row) /\ CompareIdentity(rec, row) = "ok"
  /\ conf \in {"exact", "near", "byName"}
  /\ conf = "byName" => StandsByName(rec, row)

LEMMA ByNameStands ==
  ASSUME GivenSources, NEW rec, NEW row,
         ~(RowFor(rec).some /\ CompareIdentity(rec, RowFor(rec).row) = "different" /\ ~RowFor(rec).approx),
         ~OtherCommune(rec, row)
  PROVE  StandsByName(rec, row)
<1> DEFINE signed == {j \in DOMAIN register : register[j].dept = rec.dept /\ register[j].commune = rec.commune}
<1>1. ASSUME NEW j \in signed
      PROVE  CompareIdentity(rec, register[j]) # "different"
  <2>1. rec.commune \in CommunesOf(rec.dept)
    BY <1>1 DEF CommunesOf
  <2>2. PICK k \in DOMAIN register :
          /\ MayorOf(rec.dept, rec.commune) = register[k]
          /\ register[k].dept = rec.dept /\ register[k].commune = rec.commune
    BY <2>1, MayorIs
  <2>3. k = j
    BY <2>2, RegisterIs
  <2> DEFINE found == RowFor(rec)
  <2>4. found = [some |-> TRUE, row |-> register[j], approx |-> FALSE]
    BY <2>1, <2>2, <2>3, RowIs
  <2> HIDE DEF found
  <2>5. found.some /\ found.row = register[j] /\ ~found.approx
    BY <2>4
  <2> QED  BY <2>5 DEF found
<1>2. ASSUME ~RowFor(rec).some, HallsOf(rec) # {}
      PROVE  row.insee \in HallsOf(rec)
  <2>1. SignedInsee(rec) \in HallsOf(rec) /\ SignedInsee(rec) # None
    BY <1>2, SignedIs
  <2>2. SignedInsee(rec) = row.insee
    BY <1>2, <2>1 DEF OtherCommune
  <2> QED  BY <2>1, <2>2
<1> QED  BY <1>1, <1>2 DEF StandsByName

LEMMA OutcomeIs ==
  ASSUME GivenSources, NEW rec
  PROVE  LET out == Outcome(rec) IN
         /\ out.to \in {"still", "former", "unmatched"}
         /\ out.to = "still" => StillThere(rec, out.row, out.conf)
         /\ out.to = "former" => InOffice(out.row) /\ CompareIdentity(rec, out.row) = "different"
<1> DEFINE found == RowFor(rec)
           hit == Hit(rec)
           as(to, row, conf) == [to |-> to, row |-> row, conf |-> conf]
           out == Outcome(rec)
<1>1. found.some => InOffice(found.row)
  BY RowIs
<1>2. ASSUME NEW to, NEW row, NEW conf, out = as(to, row, conf)
      PROVE  out.to = to /\ out.row = row /\ out.conf = conf
  <2> HIDE DEF out
  <2> QED  BY <1>2
<1>3. CASE Verdict(rec) = "ok"
  <2> DEFINE conf == IF found.approx THEN "near" ELSE "exact"
  <2>1. out = as("still", found.row, conf)
    <3>1. ~CounterProof(rec)
      BY <1>3 DEF CounterProof
    <3> QED  BY <1>3, <3>1 DEF Outcome
  <2>2. out.to = "still" /\ out.row = found.row /\ out.conf = conf
    BY <1>2, <2>1
  <2>3. found.some /\ CompareIdentity(rec, found.row) = "ok"
    BY <1>3 DEF Verdict
  <2>4. conf \in {"exact", "near", "byName"} /\ conf # "byName"
    OBVIOUS
  <2>5. StillThere(rec, out.row, out.conf)
    <3> HIDE DEF out, found, conf
    <3> QED  BY <1>1, <2>2, <2>3, <2>4 DEF StillThere
  <2> QED  BY <2>2, <2>5
<1>4. CASE Verdict(rec) # "ok" /\ ByName(rec)
  <2>1. Hits(rec) # {}
    BY <1>4, FS_EmptySet DEF ByName
  <2>2. (CHOOSE i \in Hits(rec) : TRUE) \in Hits(rec)
    BY <2>1
  <2>3. ~CounterProof(rec) /\ Hits(rec) = Namesakes(rec)
    BY <2>1 DEF Hits
  <2>4. InOffice(hit) /\ CompareIdentity(rec, hit) = "ok"
    <3> DEFINE i == CHOOSE x \in Hits(rec) : TRUE
    <3>1. i \in Namesakes(rec)
      BY <2>2, <2>3
    <3> HIDE DEF i
    <3>2. i \in DOMAIN register /\ CompareIdentity(rec, register[i]) = "ok"
      BY <3>1 DEF Namesakes
    <3>3. InOffice(register[i])
      BY <3>2 DEF InOffice
    <3> QED  BY <3>2, <3>3 DEF i, Hit
  <2>5. ~(found.some /\ CompareIdentity(rec, found.row) = "different" /\ ~found.approx)
    BY <2>3 DEF CounterProof, Verdict
  <2>6. out = as("still", hit, "byName")
    BY <1>4, <2>3 DEF Outcome
  <2>7. out.to = "still" /\ out.row = hit /\ out.conf = "byName"
    BY <1>2, <2>6
  <2>8. StandsByName(rec, hit)
    BY <1>4, <2>5, ByNameStands DEF ByName
  <2>9. StillThere(rec, out.row, out.conf)
    <3> HIDE DEF out, hit
    <3> QED  BY <2>4, <2>7, <2>8 DEF StillThere
  <2> QED  BY <2>7, <2>9
<1>5. CASE CounterProof(rec)
  <2>1. Hits(rec) = {} /\ Verdict(rec) # "ok"
    BY <1>5 DEF Hits, CounterProof
  <2>2. ~ByName(rec)
    BY <2>1, FS_EmptySet DEF ByName
  <2>3. out = as("former", found.row, "")
    BY <1>5, <2>1, <2>2 DEF Outcome
  <2>4. out.to = "former" /\ out.row = found.row
    BY <1>2, <2>3
  <2>5. found.some /\ CompareIdentity(rec, found.row) = "different"
    BY <1>5 DEF CounterProof, Verdict
  <2>6. InOffice(out.row) /\ CompareIdentity(rec, out.row) = "different"
    <3> HIDE DEF out, found
    <3> QED  BY <1>1, <2>4, <2>5
  <2> QED  BY <2>4, <2>6
<1>6. CASE Verdict(rec) # "ok" /\ ~ByName(rec) /\ ~CounterProof(rec)
  <2>1. out = as("unmatched", None, "")
    BY <1>6 DEF Outcome
  <2>2. out.to = "unmatched"
    BY <1>2, <2>1
  <2> QED  BY <2>2
<1> QED  BY <1>3, <1>4, <1>5, <1>6

-----------------------------------------------------------------------------
\* The crossing: its inductive invariant

Reading == {"2022", "2017"}
Late == {"dedupe", "refused", "done"}

PersonsInv ==
  /\ IsList(persons)
  /\ \A i \in DOMAIN persons :
       /\ DOMAIN persons[i] = PersonFields
       /\ stage \in Reading => Filing(persons[i])
       /\ stage \notin Reading => persons[i].score = Score(persons[i].small, persons[i].years)

\* The persons the match has been through, and the rows the deduplication has.
Seen == IF stage \in Reading THEN {} ELSE IF stage = "match" THEN 1..(next - 1) ELSE DOMAIN persons
Done == IF stage \in Late THEN 1..(next - 1) ELSE {}

StageInv ==
  /\ stage \in Reading \union {"match"} \union Late
  /\ next \in Nat
  /\ stage = "match" => next \in 1..(Len(persons) + 1)
  /\ stage \in Late => next \in 1..(Len(still) + 1)
  /\ stage = "done" => next = Len(still) + 1

\* Every target the match has been through is in one list and no other.
Sorted == {i \in Seen : Target(persons[i])}
CountInv == Len(still) + Len(former) + Len(unmatched) = Cardinality(Sorted)

\* A row of file 01: the score of what it lists, a mayor no rule tells from the endorser.
GoodRow(r) ==
  /\ DOMAIN r = {"rec", "row", "conf"} /\ DOMAIN r.rec = PersonFields
  /\ r.rec.score = Score(r.rec.small, r.rec.years)
  /\ InOffice(r.row) /\ CompareIdentity(r.rec, r.row) = "ok"
  /\ r.conf \in {"exact", "near", "byName"}
Gone(r) == InOffice(r.row) /\ CompareIdentity(r.rec, r.row) = "different"

MatchInv ==
  /\ IsList(still) /\ IsList(former) /\ IsList(unmatched)
  /\ \A i \in DOMAIN still :
       GoodRow(still[i]) /\ (still[i].conf = "byName" => StandsByName(still[i].rec, still[i].row))
  /\ \A i \in DOMAIN former : Gone(former[i])

KeptInv ==
  /\ IsList(kept) /\ merged \in Nat
  /\ Len(kept) + merged = IF stage \in Late THEN next - 1 ELSE 0
  /\ \A i \in DOMAIN kept : GoodRow(kept[i])
  /\ \A i, j \in DOMAIN kept : kept[i].row.insee = kept[j].row.insee => i = j

\* One row per INSEE code met so far, at the best confidence met for it.
BestOf(r) ==
  /\ \E j \in Done : still[j].row.insee = r.row.insee /\ ConfidenceRank(still[j].conf) = ConfidenceRank(r.conf)
  /\ \A j \in Done : still[j].row.insee = r.row.insee => ConfidenceRank(r.conf) <= ConfidenceRank(still[j].conf)
BestInv ==
  /\ \A j \in Done : \E i \in DOMAIN kept : kept[i].row.insee = still[j].row.insee
  /\ \A i \in DOMAIN kept : BestOf(kept[i])

BaseInv == stage = "done" => base = [i \in DOMAIN register |-> BaseRow(register[i])]

CrossingInv ==
  /\ GivenSources /\ PersonsInv /\ StageInv /\ CountInv /\ MatchInv /\ KeptInv /\ BestInv /\ BaseInv

LEMMA CrossingStart == CrossingInit => CrossingInv
<1> SUFFICES ASSUME CrossingInit PROVE CrossingInv
  OBVIOUS
<1> USE DEF CrossingInit
<1>1. GivenSources
  BY DEF GivenSources
<1>2. PersonsInv
  BY NoList DEF PersonsInv
<1>3. StageInv
  BY DEF StageInv, Reading, Late
<1>4. CountInv
  <2>1. Sorted = {}
    BY DEF Sorted, Seen, Reading
  <2> QED  BY <2>1, NoList, FS_EmptySet DEF CountInv
<1>5. MatchInv
  BY NoList DEF MatchInv
<1>6. KeptInv
  BY NoList DEF KeptInv, Late
<1>7. BestInv
  BY NoList DEF BestInv, Done, Late
<1>8. BaseInv
  BY DEF BaseInv
<1> QED  BY <1>1, <1>2, <1>3, <1>4, <1>5, <1>6, <1>7, <1>8 DEF CrossingInv

\* What is said of rows keeps as long as the two sources do, which is always.
LEMMA RowsKeep ==
  ASSUME UNCHANGED <<register, cards>>
  PROVE  /\ \A row : InOffice(row) => InOffice(row)'
         /\ \A r : GoodRow(r) => GoodRow(r)'
         /\ \A r : Gone(r) => Gone(r)'
         /\ \A rec, row : StandsByName(rec, row) => StandsByName(rec, row)'
<1>1. \A row : InOffice(row) => InOffice(row)'
  BY DEF InOffice
<1>2. \A r : GoodRow(r) => GoodRow(r)'
  BY <1>1 DEF GoodRow
<1>3. \A r : Gone(r) => Gone(r)'
  BY <1>1 DEF Gone
<1>4. \A rec, row : StandsByName(rec, row) => StandsByName(rec, row)'
  <2>1. \A dept : CommunesOf(dept)' = CommunesOf(dept)
    BY DEF CommunesOf
  <2>2. \A dept, name : MayorOf(dept, name)' = MayorOf(dept, name)
    BY DEF MayorOf
  <2>3. \A rec : RowFor(rec)' = RowFor(rec)
    BY <2>1, <2>2 DEF RowFor
  <2>4. Contacts' = Contacts
    BY DEF Contacts
  <2>5. \A dept : DeptCode(dept)' = DeptCode(dept)
    BY <2>1 DEF DeptCode
  <2>6. \A rec : HallsOf(rec)' = HallsOf(rec)
    BY <2>4, <2>5 DEF HallsOf
  <2> QED  BY <2>3, <2>6 DEF StandsByName
<1> QED  BY <1>1, <1>2, <1>3, <1>4

LEMMA RowsStay ==
  ASSUME MatchInv, UNCHANGED <<register, cards, still, former, unmatched>>
  PROVE  MatchInv'
BY RowsKeep DEF MatchInv

\* A step that is not the deduplication's leaves what it keeps.
LEMMA KeptStays ==
  ASSUME KeptInv, BestInv, UNCHANGED <<register, cards, still, kept, merged>>,
         Done' = Done, (IF stage \in Late THEN next - 1 ELSE 0)' = IF stage \in Late THEN next - 1 ELSE 0
  PROVE  KeptInv' /\ BestInv'
<1>1. KeptInv'
  BY RowsKeep DEF KeptInv
<1>2. \A r : BestOf(r) => BestOf(r)'
  BY DEF BestOf
<1>3. BestInv'
  BY <1>2 DEF BestInv
<1> QED  BY <1>1, <1>3

\* Max of a person's places is one of them.
LEMMA FiledIs ==
  ASSUME PersonsInv, NEW key, Filed(key) # {}
  PROVE  Max(Filed(key)) \in DOMAIN persons
<1>1. Filed(key) \subseteq 1..Len(persons) /\ Len(persons) \in Nat
  BY ListIs DEF PersonsInv, Filed
<1>2. Max(Filed(key)) \in Filed(key)
  BY <1>1, GreatestOf
<1> QED  BY <1>2 DEF Filed

LEMMA ReadEntryKeeps ==
  ASSUME CrossingInv, NEW e \in Entries, ReadEntry(e)
  PROVE  CrossingInv'
<1> DEFINE found == Filed(KeyAmong(e))
<1>0. /\ stage \in Reading /\ stage' = stage /\ next' = next + 1
      /\ UNCHANGED <<register, cards, still, former, unmatched, kept, merged, base>>
      /\ persons' = IF found = {} THEN Append(persons, FileEntry(Signs(NewPerson(e), e), e))
                     ELSE [persons EXCEPT ![Max(found)] = FileEntry(Signs(persons[Max(found)], e), e)]
  <2>1. e.year \in Reading
    BY CrossingAssumption DEF Reading
  <2> QED  BY <2>1 DEF ReadEntry, Signs
<1>1. stage # "match" /\ stage \notin Late
  BY <1>0 DEF Reading, Late
<1>2. GivenSources' /\ BaseInv'
  BY <1>0, <1>1 DEF GivenSources, CrossingInv, BaseInv, Late
<1>3. PersonsInv'
  <2>0. PersonsInv /\ IsList(persons) /\ \A i \in DOMAIN persons : Filing(persons[i])
    BY <1>0 DEF CrossingInv, PersonsInv
  <2>1. ASSUME IsList(persons'), \A i \in DOMAIN persons' : Filing(persons'[i])
        PROVE  PersonsInv'
    BY <1>0, <2>1 DEF PersonsInv, Filing
  <2>2. CASE found = {}
    <3> DEFINE rec == FileEntry(Signs(NewPerson(e), e), e)
    <3>1. Filing(rec)
      BY FilingSomebodyNew, FilingASignature, FilingAnEntry
    <3>2. persons' = Append(persons, rec)
      BY <1>0, <2>2
    <3> HIDE DEF rec
    <3> QED  BY <2>0, <2>1, <3>1, <3>2, ListWith
  <2>3. CASE found # {}
    <3> DEFINE k == Max(found)
               rec == FileEntry(Signs(persons[k], e), e)
    <3>1. k \in DOMAIN persons
      BY <2>0, <2>3, FiledIs
    <3>2. Filing(rec)
      <4> HIDE DEF k
      <4> QED  BY <2>0, <3>1, FilingASignature, FilingAnEntry
    <3>3. persons' = [persons EXCEPT ![k] = rec]
      BY <1>0, <2>3
    <3> HIDE DEF k, rec
    <3> QED  BY <2>0, <2>1, <3>1, <3>2, <3>3, ListEdited
  <2> QED  BY <2>2, <2>3
<1>4. StageInv'
  BY <1>0, <1>1 DEF CrossingInv, StageInv, Late
<1>5. CountInv'
  <2>1. Sorted = {} /\ Sorted' = {}
    BY <1>0 DEF Sorted, Seen
  <2> QED  BY <1>0, <2>1 DEF CrossingInv, CountInv
<1>6. MatchInv'
  BY <1>0, RowsStay DEF CrossingInv
<1>7. KeptInv' /\ BestInv'
  <2>1. Done' = Done /\ (IF stage \in Late THEN next - 1 ELSE 0)' = IF stage \in Late THEN next - 1 ELSE 0
    BY <1>0, <1>1 DEF Done
  <2> QED  BY <1>0, <2>1, KeptStays DEF CrossingInv
<1> QED  BY <1>2, <1>3, <1>4, <1>5, <1>6, <1>7 DEF CrossingInv

LEMMA NextFileKeeps ==
  ASSUME CrossingInv, NextFile
  PROVE  CrossingInv'
<1>0. /\ stage \in Reading /\ stage' \in Reading
      /\ UNCHANGED <<register, cards, persons, next, still, former, unmatched, kept, merged, base>>
  BY DEF NextFile, Reading
<1>1. /\ stage # "match" /\ stage \notin Late
      /\ stage' # "match" /\ stage' \notin Late
  BY <1>0 DEF Reading, Late
<1>2. GivenSources' /\ BaseInv' /\ PersonsInv' /\ StageInv'
  BY <1>0, <1>1 DEF GivenSources, CrossingInv, BaseInv, PersonsInv, StageInv, Late
<1>5. CountInv'
  <2>1. Sorted = {} /\ Sorted' = {}
    BY <1>0 DEF Sorted, Seen
  <2> QED  BY <1>0, <2>1 DEF CrossingInv, CountInv
<1>6. MatchInv'
  BY <1>0, RowsStay DEF CrossingInv
<1>7. KeptInv' /\ BestInv'
  <2>1. Done' = Done /\ (IF stage \in Late THEN next - 1 ELSE 0)' = IF stage \in Late THEN next - 1 ELSE 0
    BY <1>0, <1>1 DEF Done
  <2> QED  BY <1>0, <2>1, KeptStays DEF CrossingInv
<1> QED  BY <1>2, <1>5, <1>6, <1>7 DEF CrossingInv

LEMMA EndReadKeeps ==
  ASSUME CrossingInv, EndRead
  PROVE  CrossingInv'
<1> DEFINE scored(rec) == [rec EXCEPT !.score = @ + Bonus(rec.years)]
<1>0. /\ stage \in Reading /\ stage' = "match" /\ next' = 1
      /\ UNCHANGED <<register, cards, still, former, unmatched, kept, merged, base>>
      /\ persons' = [i \in DOMAIN persons |-> scored(persons[i])]
  BY DEF EndRead, Reading
<1>1. stage # "match" /\ stage \notin Late /\ stage' \notin Late /\ stage' \notin Reading
  BY <1>0 DEF Reading, Late
<1>2. GivenSources' /\ BaseInv'
  BY <1>0, <1>1 DEF GivenSources, CrossingInv, BaseInv
<1>3. IsList(persons) /\ Len(persons) \in Nat /\ DOMAIN persons = 1..Len(persons)
  BY ListIs DEF CrossingInv, PersonsInv
<1>4. IsList(persons') /\ Len(persons') = Len(persons)
  <2> HIDE DEF scored
  <2>1. DOMAIN persons' = 1..Len(persons) /\ persons' = [i \in 1..Len(persons) |-> persons'[i]]
    BY <1>0, <1>3
  <2> QED  BY <1>3, <2>1, ListOver
<1>5. PersonsInv'
  <2>1. ASSUME NEW i \in DOMAIN persons
        PROVE  DOMAIN scored(persons[i]) = PersonFields
               /\ scored(persons[i]).score = Score(scored(persons[i]).small, scored(persons[i]).years)
    <3> DEFINE rec == persons[i]
               r == scored(rec)
    <3>1. Filing(rec)
      BY <1>0 DEF CrossingInv, PersonsInv
    <3> HIDE DEF rec
    <3>2. DOMAIN r = PersonFields /\ r.small = rec.small /\ r.years = rec.years
          /\ r.score = rec.score + Bonus(rec.years)
      BY <3>1 DEF Filing, PersonFields
    <3>3. r.score = PointsOf(rec.small) + Bonus(rec.years)
      BY <3>1, <3>2 DEF Filing
    <3> HIDE DEF r
    <3>4. r.score = Score(r.small, r.years)
      BY <3>2, <3>3 DEF Score, PointsOf
    <3> QED  BY <3>2, <3>4 DEF r, rec
  <2> HIDE DEF scored
  <2> QED  BY <1>0, <1>1, <1>4, <2>1 DEF PersonsInv
<1>6. StageInv'
  BY <1>0, <1>1, <1>3, <1>4 DEF StageInv
<1>7. CountInv'
  <2>1. Sorted = {} /\ Sorted' = {}
    BY <1>0, <1>1 DEF Sorted, Seen
  <2> QED  BY <1>0, <2>1 DEF CrossingInv, CountInv
<1>8. MatchInv'
  BY <1>0, RowsStay DEF CrossingInv
<1>9. KeptInv' /\ BestInv'
  <2>1. Done' = Done /\ (IF stage \in Late THEN next - 1 ELSE 0)' = IF stage \in Late THEN next - 1 ELSE 0
    BY <1>0, <1>1 DEF Done
  <2> QED  BY <1>0, <2>1, KeptStays DEF CrossingInv
<1> QED  BY <1>2, <1>5, <1>6, <1>7, <1>8, <1>9 DEF CrossingInv

\* One more person gone through: they are in the list the outcome says, if they are a target.
LEMMA MatchNextKeeps ==
  ASSUME CrossingInv, MatchNext
  PROVE  CrossingInv'
<1> DEFINE rec == persons[next]
           out == Outcome(rec)
           row == [rec |-> rec, row |-> out.row, conf |-> out.conf]
           past == [rec |-> rec, row |-> out.row]
<1>0. /\ stage = "match" /\ next \in 1..Len(persons) /\ next' = next + 1
      /\ UNCHANGED <<stage, register, cards, persons, kept, merged, base>>
      /\ still' = IF Target(rec) /\ out.to = "still" THEN Append(still, row) ELSE still
      /\ former' = IF Target(rec) /\ out.to = "former" THEN Append(former, past) ELSE former
      /\ unmatched' = IF Target(rec) /\ out.to = "unmatched" THEN Append(unmatched, rec) ELSE unmatched
  BY DEF MatchNext, CrossingInv, StageInv
<1>1. stage \notin Late /\ stage \notin Reading /\ stage' \notin Late /\ stage' \notin Reading
  BY <1>0 DEF Reading, Late
<1>2. GivenSources' /\ BaseInv' /\ PersonsInv'
  BY <1>0, <1>1 DEF GivenSources, CrossingInv, BaseInv, PersonsInv
<1>3. IsList(persons) /\ Len(persons) \in Nat /\ DOMAIN persons = 1..Len(persons)
  BY ListIs DEF CrossingInv, PersonsInv
<1>4. StageInv'
  BY <1>0, <1>1, <1>3 DEF StageInv, CrossingInv
<1>5. /\ out.to \in {"still", "former", "unmatched"}
      /\ out.to = "still" => StillThere(rec, out.row, out.conf)
      /\ out.to = "former" => InOffice(out.row) /\ CompareIdentity(rec, out.row) = "different"
  <2> HIDE DEF rec
  <2> QED  BY OutcomeIs DEF CrossingInv
<1>6. DOMAIN rec = PersonFields /\ rec.score = Score(rec.small, rec.years)
  BY <1>0, <1>1, <1>3 DEF CrossingInv, PersonsInv
<1>7. out.to = "still" =>
        GoodRow(row) /\ (row.conf = "byName" => StandsByName(row.rec, row.row))
  <2> HIDE DEF rec, out
  <2>1. DOMAIN row = {"rec", "row", "conf"} /\ row.rec = rec /\ row.row = out.row /\ row.conf = out.conf
    OBVIOUS
  <2> HIDE DEF row
  <2> QED  BY <1>5, <1>6, <2>1 DEF GoodRow, StillThere
<1>8. out.to = "former" => Gone(past)
  <2> HIDE DEF rec, out
  <2>1. past.rec = rec /\ past.row = out.row
    OBVIOUS
  <2> HIDE DEF past
  <2> QED  BY <1>5, <2>1 DEF Gone
<1>9. Sorted' = IF Target(rec) THEN Sorted \union {next} ELSE Sorted
  <2>1. Seen = 1..(next - 1) /\ Seen' = 1..next
    <3>1. (next + 1) - 1 = next
      BY <1>0, <1>3
    <3> QED  BY <1>0, <1>1, <3>1 DEF Seen
  <2>2. 1..next = (1..(next - 1)) \union {next}
    BY <1>0, <1>3
  <2> QED  BY <1>0, <2>1, <2>2 DEF Sorted
<1>10. IsFiniteSet(Sorted) /\ Cardinality(Sorted) \in Nat /\ next \notin Sorted
  <2>1. Seen = 1..(next - 1) /\ next - 1 \in Int
    BY <1>0, <1>1, <1>3 DEF Seen
  <2>2. IsFiniteSet(Seen) /\ Sorted \subseteq Seen
    BY <2>1, FS_Interval DEF Sorted
  <2>3. next \notin Seen
    BY <1>0, <1>3, <2>1
  <2> QED  BY <2>2, <2>3, FS_Subset, FS_CardinalityType
<1>11. Cardinality(Sorted') = Cardinality(Sorted) + (IF Target(rec) THEN 1 ELSE 0)
  <2> DEFINE S == Sorted
  <2>1. IsFiniteSet(S) /\ next \notin S
    BY <1>10
  <2> HIDE DEF S
  <2>2. Cardinality(S \union {next}) = Cardinality(S) + 1
    BY <2>1, FS_AddElement
  <2>3. CASE Target(rec)
    BY <1>9, <2>2, <2>3 DEF S
  <2>4. CASE ~Target(rec)
    BY <1>9, <1>10, <2>4
  <2> QED  BY <2>3, <2>4
<1>12. IsList(still) /\ IsList(former) /\ IsList(unmatched)
  BY DEF CrossingInv, MatchInv
<1>13. Len(still) \in Nat /\ Len(former) \in Nat /\ Len(unmatched) \in Nat
  BY <1>12, ListIs
<1> HIDE DEF rec, out, row, past
<1>14. CountInv'
  <2>1. Len(still) + Len(former) + Len(unmatched) = Cardinality(Sorted)
    BY DEF CrossingInv, CountInv
  <2>2. Len(still') = Len(still) + (IF Target(rec) /\ out.to = "still" THEN 1 ELSE 0)
    BY <1>0, <1>12, <1>13, ListWith
  <2>3. Len(former') = Len(former) + (IF Target(rec) /\ out.to = "former" THEN 1 ELSE 0)
    BY <1>0, <1>12, <1>13, ListWith
  <2>4. Len(unmatched') = Len(unmatched) + (IF Target(rec) /\ out.to = "unmatched" THEN 1 ELSE 0)
    BY <1>0, <1>12, <1>13, ListWith
  <2>5. Len(still') + Len(former') + Len(unmatched') = Cardinality(Sorted')
    <3>1. CASE ~Target(rec)
      BY <1>10, <1>11, <1>13, <2>1, <2>2, <2>3, <2>4, <3>1
    <3>2. CASE Target(rec) /\ out.to = "still"
      BY <1>10, <1>11, <1>13, <2>1, <2>2, <2>3, <2>4, <3>2
    <3>3. CASE Target(rec) /\ out.to = "former"
      BY <1>10, <1>11, <1>13, <2>1, <2>2, <2>3, <2>4, <3>3
    <3>4. CASE Target(rec) /\ out.to = "unmatched"
      BY <1>10, <1>11, <1>13, <2>1, <2>2, <2>3, <2>4, <3>4
    <3> QED  BY <1>5, <3>1, <3>2, <3>3, <3>4
  <2> QED  BY <2>5 DEF CountInv
<1>15. MatchInv'
  <2>1. /\ \A i \in DOMAIN still :
             GoodRow(still[i]) /\ (still[i].conf = "byName" => StandsByName(still[i].rec, still[i].row))
        /\ \A i \in DOMAIN former : Gone(former[i])
    BY DEF CrossingInv, MatchInv
  <2>2. /\ IsList(still')
        /\ \A i \in DOMAIN still' :
             GoodRow(still'[i]) /\ (still'[i].conf = "byName" => StandsByName(still'[i].rec, still'[i].row))
    <3>1. CASE Target(rec) /\ out.to = "still"
      BY <1>0, <1>7, <1>12, <2>1, <3>1, ListWith
    <3>2. CASE ~(Target(rec) /\ out.to = "still")
      BY <1>0, <1>12, <2>1, <3>2
    <3> QED  BY <3>1, <3>2
  <2>3. IsList(former') /\ \A i \in DOMAIN former' : Gone(former'[i])
    <3>1. CASE Target(rec) /\ out.to = "former"
      BY <1>0, <1>8, <1>12, <2>1, <3>1, ListWith
    <3>2. CASE ~(Target(rec) /\ out.to = "former")
      BY <1>0, <1>12, <2>1, <3>2
    <3> QED  BY <3>1, <3>2
  <2>4. IsList(unmatched')
    BY <1>0, <1>12, ListWith
  <2> QED  BY <1>0, <2>2, <2>3, <2>4, RowsKeep DEF MatchInv
<1>16. KeptInv' /\ BestInv'
  <2>1. Done = {} /\ Done' = {}
    BY <1>1 DEF Done
  <2>2. DOMAIN kept = {}
    BY <2>1 DEF CrossingInv, BestInv, BestOf
  <2>3. BestInv'
    BY <1>0, <2>1, <2>2 DEF BestInv
  <2>4. KeptInv'
    BY <1>0, <1>1, <2>2 DEF CrossingInv, KeptInv
  <2> QED  BY <2>3, <2>4
<1> QED  BY <1>2, <1>4, <1>14, <1>15, <1>16 DEF CrossingInv

LEMMA StartDedupeKeeps ==
  ASSUME CrossingInv, StartDedupe
  PROVE  CrossingInv'
<1>0. /\ stage = "match" /\ next > Len(persons) /\ stage' = "dedupe" /\ next' = 1
      /\ UNCHANGED <<register, cards, persons, still, former, unmatched, kept, merged, base>>
  BY DEF StartDedupe
<1>1. stage \notin Late /\ stage \notin Reading /\ stage' \in Late /\ stage' \notin Reading
  BY <1>0 DEF Reading, Late
<1>2. GivenSources' /\ BaseInv' /\ PersonsInv'
  BY <1>0, <1>1 DEF GivenSources, CrossingInv, BaseInv, PersonsInv
<1>3. /\ Len(persons) \in Nat /\ DOMAIN persons = 1..Len(persons)
      /\ Len(still) \in Nat /\ next = Len(persons) + 1
  <2>1. Len(persons) \in Nat /\ DOMAIN persons = 1..Len(persons) /\ Len(still) \in Nat
    BY ListIs DEF CrossingInv, PersonsInv, MatchInv
  <2> QED  BY <1>0, <2>1 DEF CrossingInv, StageInv
<1>4. StageInv'
  BY <1>0, <1>1, <1>3 DEF StageInv
<1>5. CountInv'
  <2>1. Seen = DOMAIN persons /\ Seen' = DOMAIN persons
    BY <1>0, <1>1, <1>3 DEF Seen
  <2>2. Sorted' = Sorted
    BY <1>0, <2>1 DEF Sorted
  <2> QED  BY <1>0, <2>2 DEF CrossingInv, CountInv
<1>6. MatchInv'
  BY <1>0, RowsStay DEF CrossingInv
<1>7. KeptInv' /\ BestInv'
  <2>1. Done' = Done /\ (IF stage \in Late THEN next - 1 ELSE 0)' = IF stage \in Late THEN next - 1 ELSE 0
    <3>1. Done = {}
      BY <1>1 DEF Done
    <3>2. Done' = 1..0 /\ 1..0 = {}
      BY <1>0, <1>1 DEF Done
    <3>3. (IF stage \in Late THEN next - 1 ELSE 0)' = 0
      BY <1>0, <1>1
    <3> QED  BY <1>1, <3>1, <3>2, <3>3
  <2> QED  BY <1>0, <2>1, KeptStays DEF CrossingInv
<1> QED  BY <1>2, <1>4, <1>5, <1>6, <1>7 DEF CrossingInv

-----------------------------------------------------------------------------
\* The crossing: one row per INSEE code

\* A merged row is still one of its mayor, at the better of the two confidences.
LEMMA MergedRow ==
  ASSUME NEW target, GoodRow(target), NEW r, GoodRow(r)
  PROVE  LET m == MergeRow(target, r) IN
         /\ GoodRow(m) /\ m.row = target.row
         /\ ConfidenceRank(m.conf) <= ConfidenceRank(target.conf)
         /\ ConfidenceRank(m.conf) <= ConfidenceRank(r.conf)
         /\ ConfidenceRank(m.conf) \in {ConfidenceRank(target.conf), ConfidenceRank(r.conf)}
<1> DEFINE m == MergeRow(target, r)
           better == ConfidenceRank(r.conf) < ConfidenceRank(target.conf)
           small == SetOf(target.rec.small, r.rec.small)
           years == target.rec.years \union r.rec.years
<1>1. DOMAIN target = {"rec", "row", "conf"} /\ DOMAIN target.rec = PersonFields
  BY DEF GoodRow
<1>2. /\ DOMAIN m = {"rec", "row", "conf"} /\ m.row = target.row
      /\ m.conf = IF better THEN r.conf ELSE target.conf
  BY <1>1 DEF MergeRow
<1>3. /\ DOMAIN m.rec = PersonFields
      /\ m.rec.small = small /\ m.rec.years = years /\ m.rec.score = Score(small, years)
  <2>1. DOMAIN m.rec = PersonFields
    BY <1>1 DEF MergeRow
  <2>2. m.rec.small = small
    BY <1>1, ZenonT(30) DEF MergeRow, PersonFields
  <2>3. m.rec.years = years
    BY <1>1, ZenonT(30) DEF MergeRow, PersonFields
  <2>4. m.rec.score = Score(small, years)
    BY <1>1, ZenonT(30) DEF MergeRow, PersonFields
  <2> QED  BY <2>1, <2>2, <2>3, <2>4
<1>4. m.rec.last = target.rec.last /\ m.rec.first = target.rec.first /\ m.rec.sex = target.rec.sex
  <2>1. m.rec.last = target.rec.last
    BY <1>1, ZenonT(30) DEF MergeRow, PersonFields
  <2>2. m.rec.first = target.rec.first
    BY <1>1, ZenonT(30) DEF MergeRow, PersonFields
  <2>3. m.rec.sex = target.rec.sex
    BY <1>1, ZenonT(30) DEF MergeRow, PersonFields
  <2> QED  BY <2>1, <2>2, <2>3
<1> HIDE DEF m
<1>5. CompareIdentity(m.rec, m.row) = CompareIdentity(target.rec, target.row)
  BY <1>2, <1>4 DEF CompareIdentity
<1>6. ConfidenceRank(r.conf) \in 1..3 /\ ConfidenceRank(target.conf) \in 1..3
  BY DEF GoodRow, ConfidenceRank
<1>7. /\ ConfidenceRank(m.conf) <= ConfidenceRank(target.conf)
      /\ ConfidenceRank(m.conf) <= ConfidenceRank(r.conf)
      /\ ConfidenceRank(m.conf) \in {ConfidenceRank(target.conf), ConfidenceRank(r.conf)}
  <2>1. CASE better
    BY <1>2, <1>6, <2>1
  <2>2. CASE ~better
    BY <1>2, <1>6, <2>2
  <2> QED  BY <2>1, <2>2
<1>8. m.conf \in {"exact", "near", "byName"}
  BY <1>2 DEF GoodRow
<1>9. m.rec.score = Score(m.rec.small, m.rec.years)
  <2> HIDE DEF small, years
  <2> QED  BY <1>3
<1>10. GoodRow(m)
  BY <1>2, <1>3, <1>5, <1>8, <1>9 DEF GoodRow
<1> QED  BY <1>2, <1>7, <1>10 DEF m

LEMMA DedupeNextKeeps ==
  ASSUME CrossingInv, DedupeNext
  PROVE  CrossingInv'
<1> DEFINE r == still[next]
           found == KeptFor(r.row.insee)
           k == Max(found)
           m == MergeRow(kept[k], r)
<1>0. /\ stage = "dedupe" /\ next \in 1..Len(still)
      /\ UNCHANGED <<register, cards, persons, still, former, unmatched, base>>
  BY DEF DedupeNext, CrossingInv, StageInv, Late
<1>1. stage \in Late /\ stage \notin Reading
  BY <1>0 DEF Late, Reading
<1>2. /\ Len(still) \in Nat /\ DOMAIN still = 1..Len(still)
      /\ IsList(kept) /\ Len(kept) \in Nat /\ DOMAIN kept = 1..Len(kept)
  BY ListIs DEF CrossingInv, MatchInv, KeptInv
<1>3. ASSUME stage' \in {"dedupe", "refused"}
      PROVE  GivenSources' /\ BaseInv' /\ PersonsInv' /\ CountInv' /\ MatchInv'
  <2>1. stage' \in Late /\ stage' \notin Reading /\ stage' # "match" /\ stage # "match" /\ stage' # "done"
    BY <1>0, <1>3 DEF Late, Reading
  <2>2. GivenSources' /\ BaseInv' /\ PersonsInv'
    BY <1>0, <1>1, <2>1 DEF GivenSources, CrossingInv, BaseInv, PersonsInv
  <2>3. Sorted' = Sorted
    BY <1>0, <1>1, <2>1 DEF Sorted, Seen
  <2>4. CountInv'
    BY <1>0, <2>3 DEF CountInv, CrossingInv
  <2>5. MatchInv'
    BY <1>0, RowsStay DEF CrossingInv
  <2> QED  BY <2>2, <2>4, <2>5
<1>4. CASE Contradicts(r)
  <2>1. stage' = "refused" /\ UNCHANGED <<next, kept, merged>>
    BY <1>4 DEF DedupeNext
  <2>2. stage' \in Late
    BY <2>1 DEF Late
  <2>3. StageInv'
    BY <1>0, <1>1, <2>1, <2>2 DEF StageInv, CrossingInv
  <2>4. KeptInv' /\ BestInv'
    <3>1. Done' = Done /\ (IF stage \in Late THEN next - 1 ELSE 0)' = IF stage \in Late THEN next - 1 ELSE 0
      BY <1>1, <2>1, <2>2 DEF Done
    <3> QED  BY <1>0, <2>1, <3>1, KeptStays DEF CrossingInv
  <2> QED  BY <1>3, <2>1, <2>3, <2>4 DEF CrossingInv
<1>5. CASE ~Contradicts(r)
  <2>1. /\ stage' = "dedupe" /\ next' = next + 1
        /\ IF found = {} THEN kept' = Append(kept, r) /\ UNCHANGED merged
           ELSE kept' = [kept EXCEPT ![k] = m] /\ merged' = merged + 1
    BY <1>0, <1>5 DEF DedupeNext
  <2>2. stage' \in Late
    BY <2>1 DEF Late
  <2>3. StageInv'
    BY <1>0, <1>2, <2>1, <2>2 DEF StageInv, Reading, Late
  <2>4. Done = 1..(next - 1) /\ Done' = Done \union {next} /\ next \notin Done
    <3>1. (next + 1) - 1 = next /\ next \in Nat
      BY <1>0, <1>2
    <3>2. Done' = 1..next /\ Done = 1..(next - 1)
      BY <1>1, <2>1, <2>2, <3>1 DEF Done
    <3>3. 1..next = (1..(next - 1)) \union {next} /\ next \notin 1..(next - 1)
      BY <1>0, <1>2
    <3> QED  BY <3>2, <3>3
  <2>5. /\ \A i \in DOMAIN kept : GoodRow(kept[i]) /\ BestOf(kept[i])
        /\ \A i, j \in DOMAIN kept : kept[i].row.insee = kept[j].row.insee => i = j
        /\ \A j \in Done : \E i \in DOMAIN kept : kept[i].row.insee = still[j].row.insee
        /\ merged \in Nat /\ Len(kept) + merged = next - 1
    BY <1>1 DEF CrossingInv, KeptInv, BestInv
  <2>6. GoodRow(r)
    BY <1>0, <1>2 DEF CrossingInv, MatchInv
  <2>7. ConfidenceRank(r.conf) \in 1..3
    <3> HIDE DEF r
    <3> QED  BY <2>6 DEF GoodRow, ConfidenceRank
  <2>8. \A i \in DOMAIN kept : i \in found <=> kept[i].row.insee = r.row.insee
    BY DEF KeptFor
  <2>9. still'[next] = r /\ \A j \in Done : still'[j] = still[j]
    BY <1>0
  <2>10. CASE found = {}
    <3>1. /\ IsList(kept') /\ Len(kept') = Len(kept) + 1 /\ merged' = merged
          /\ DOMAIN kept' = DOMAIN kept \union {Len(kept) + 1} /\ Len(kept) + 1 \notin DOMAIN kept
          /\ kept'[Len(kept) + 1] = r /\ \A i \in DOMAIN kept : kept'[i] = kept[i]
      <4>1. kept' = Append(kept, r) /\ merged' = merged
        BY <2>1, <2>10
      <4> HIDE DEF r
      <4> QED  BY <1>2, <4>1, ListWith
    <3>2. \A i \in DOMAIN kept : kept[i].row.insee # r.row.insee
      BY <2>8, <2>10
    <3> DEFINE n == Len(kept) + 1
    <3> HIDE DEF r, found, n
    <3>3. KeptInv'
      <4>1. \A i \in DOMAIN kept' : GoodRow(kept'[i])
        BY <2>5, <2>6, <3>1
      <4>2. \A i \in DOMAIN kept' : GoodRow(kept[i])' 
        BY <1>0, <4>1, RowsKeep
      <4>3. \A i, j \in DOMAIN kept' : kept'[i].row.insee = kept'[j].row.insee => i = j
        BY <2>5, <3>1, <3>2
      <4>4. Len(kept') + merged' = (IF stage \in Late THEN next - 1 ELSE 0)'
        <5>1. (IF stage \in Late THEN next - 1 ELSE 0)' = next' - 1
          BY <2>2
        <5>2. Len(kept') + merged' = next /\ next' - 1 = next
          <6>1. next' = next + 1 /\ next \in Nat /\ merged \in Nat /\ Len(kept) + merged = next - 1
            BY <1>0, <1>2, <2>1, <2>5
          <6>2. Len(kept') + merged' = (Len(kept) + merged) + 1
            BY <1>2, <2>5, <3>1
          <6> QED  BY <1>2, <6>1, <6>2
        <5> QED  BY <5>1, <5>2
      <4> QED  BY <2>5, <3>1, <4>2, <4>3, <4>4 DEF KeptInv
    <3>4. \A j \in Done' : \E i \in DOMAIN kept' : kept'[i].row.insee = still'[j].row.insee
      BY <2>4, <2>5, <2>9, <3>1, SMTT(60)
    <3>5. ASSUME NEW i \in DOMAIN kept'
          PROVE  BestOf(kept[i])'
      <4>1. CASE i = Len(kept) + 1
        <5>1. kept'[i] = r
          BY <3>1, <4>1
        <5>2. \A j \in Done : still'[j].row.insee # r.row.insee
          BY <2>5, <2>9, <3>2
        <5>3. \A j \in Done' : still'[j].row.insee = r.row.insee => still'[j] = r
          BY <2>4, <2>9, <5>2
        <5>4. next \in Done' /\ still'[next] = r
          BY <2>4, <2>9
        <5> QED  BY <2>7, <5>1, <5>3, <5>4 DEF BestOf
      <4>2. CASE i \in DOMAIN kept
        <5>1. kept'[i] = kept[i] /\ BestOf(kept[i]) /\ kept[i].row.insee # r.row.insee
          BY <2>5, <3>1, <3>2, <4>2
        <5> QED  BY <2>4, <2>9, <5>1 DEF BestOf
      <4> QED  BY <3>1, <4>1, <4>2
    <3>6. BestInv'
      BY <3>4, <3>5 DEF BestInv
    <3> QED  BY <1>3, <2>1, <2>3, <3>3, <3>6 DEF CrossingInv
  <2>11. CASE found # {}
    <3>1. k \in found /\ k \in DOMAIN kept
      <4>1. found \subseteq 1..Len(kept)
        BY <1>2 DEF KeptFor
      <4> HIDE DEF found
      <4> QED  BY <1>2, <2>11, <4>1, GreatestOf
    <3>2. kept[k].row.insee = r.row.insee
      BY <2>8, <3>1
    <3>3. GoodRow(kept[k]) /\ BestOf(kept[k])
      BY <2>5, <3>1
    <3>4. /\ GoodRow(m) /\ m.row = kept[k].row
          /\ ConfidenceRank(m.conf) <= ConfidenceRank(kept[k].conf)
          /\ ConfidenceRank(m.conf) <= ConfidenceRank(r.conf)
          /\ ConfidenceRank(m.conf) \in {ConfidenceRank(kept[k].conf), ConfidenceRank(r.conf)}
      <4> HIDE DEF k, r
      <4> QED  BY <2>6, <3>3, MergedRow
    <3>0. kept' = [kept EXCEPT ![k] = m] /\ merged' = merged + 1
      BY <2>1, <2>11
    <3> HIDE DEF r, found, k, m
    <3>5. /\ IsList(kept') /\ Len(kept') = Len(kept) /\ merged' = merged + 1 /\ DOMAIN kept' = DOMAIN kept
          /\ kept'[k] = m /\ \A i \in DOMAIN kept : i # k => kept'[i] = kept[i]
      BY <1>2, <3>0, <3>1, ListEdited
    <3>6. \A i \in DOMAIN kept : kept'[i].row = kept[i].row
      BY <3>4, <3>5
    <3>7. KeptInv'
      <4>1. \A i \in DOMAIN kept' : GoodRow(kept'[i])
        BY <2>5, <3>4, <3>5
      <4>2. \A i \in DOMAIN kept' : GoodRow(kept[i])'
        BY <1>0, <4>1, RowsKeep
      <4>3. \A i, j \in DOMAIN kept' : kept'[i].row.insee = kept'[j].row.insee => i = j
        BY <2>5, <3>5, <3>6
      <4>4. Len(kept') + merged' = (IF stage \in Late THEN next - 1 ELSE 0)'
        <5>1. (IF stage \in Late THEN next - 1 ELSE 0)' = next' - 1
          BY <2>2
        <5>2. Len(kept') + merged' = next /\ next' - 1 = next
          <6>1. next' = next + 1 /\ next \in Nat /\ merged \in Nat /\ Len(kept) + merged = next - 1
            BY <1>0, <1>2, <2>1, <2>5
          <6>2. Len(kept') + merged' = (Len(kept) + merged) + 1
            BY <1>2, <2>5, <3>5
          <6> QED  BY <1>2, <6>1, <6>2
        <5> QED  BY <5>1, <5>2
      <4> QED  BY <2>5, <3>5, <4>2, <4>3, <4>4 DEF KeptInv
    <3>8. \A j \in Done' : \E i \in DOMAIN kept' : kept'[i].row.insee = still'[j].row.insee
      BY <2>4, <2>5, <2>9, <3>1, <3>2, <3>5, <3>6, SMTT(30)
    <3>9. ASSUME NEW i \in DOMAIN kept'
          PROVE  BestOf(kept[i])'
      <4>1. CASE i = k
        <5>1. kept'[i] = m /\ m.row.insee = r.row.insee
          BY <3>2, <3>4, <3>5, <4>1
        <5>2. /\ \E j \in Done : still[j].row.insee = r.row.insee
                               /\ ConfidenceRank(still[j].conf) = ConfidenceRank(kept[k].conf)
              /\ \A j \in Done : still[j].row.insee = r.row.insee =>
                               ConfidenceRank(kept[k].conf) <= ConfidenceRank(still[j].conf)
          BY <3>2, <3>3 DEF BestOf
        <5>3. \A c : ConfidenceRank(c) \in 1..3
          BY DEF ConfidenceRank
        <5>4. \A j \in Done' : still'[j].row.insee = r.row.insee =>
                               ConfidenceRank(m.conf) <= ConfidenceRank(still'[j].conf)
          <6> TAKE j \in Done'
          <6> HAVE still'[j].row.insee = r.row.insee
          <6>1. CASE j = next
            BY <2>9, <3>4, <6>1
          <6>2. CASE j \in Done
            <7>1. ConfidenceRank(kept[k].conf) <= ConfidenceRank(still[j].conf)
              BY <2>9, <5>2, <6>2
            <7>2. /\ ConfidenceRank(m.conf) \in Int /\ ConfidenceRank(kept[k].conf) \in Int
                  /\ ConfidenceRank(still[j].conf) \in Int
              BY <5>3
            <7>3. ConfidenceRank(m.conf) <= ConfidenceRank(still[j].conf)
              BY <3>4, <7>1, <7>2
            <7> QED  BY <2>9, <6>2, <7>3
          <6> QED  BY <2>4, <6>1, <6>2
        <5>5. \E j \in Done' : still'[j].row.insee = r.row.insee
                              /\ ConfidenceRank(still'[j].conf) = ConfidenceRank(m.conf)
          <6>1. CASE ConfidenceRank(m.conf) = ConfidenceRank(r.conf)
            BY <2>4, <2>9, <6>1
          <6>2. CASE ConfidenceRank(m.conf) = ConfidenceRank(kept[k].conf)
            BY <2>4, <2>9, <5>2, <6>2
          <6> QED  BY <3>4, <6>1, <6>2
        <5> QED  BY <5>1, <5>4, <5>5 DEF BestOf
      <4>2. CASE i # k
        <5>1. i \in DOMAIN kept /\ kept'[i] = kept[i] /\ BestOf(kept[i]) /\ kept[i].row.insee # r.row.insee
          BY <2>5, <3>1, <3>2, <3>5, <4>2
        <5> QED  BY <2>4, <2>9, <5>1 DEF BestOf
      <4> QED  BY <4>1, <4>2
    <3>10. BestInv'
      BY <3>8, <3>9 DEF BestInv
    <3> QED  BY <1>3, <2>1, <2>3, <3>7, <3>10 DEF CrossingInv
  <2> QED  BY <2>10, <2>11
<1> QED  BY <1>4, <1>5

LEMMA WriteBaseKeeps ==
  ASSUME CrossingInv, WriteBase
  PROVE  CrossingInv'
<1>0. /\ stage = "dedupe" /\ next > Len(still) /\ stage' = "done"
      /\ base' = [i \in DOMAIN register |-> BaseRow(register[i])]
      /\ UNCHANGED <<register, cards, persons, next, still, former, unmatched, kept, merged>>
  BY DEF WriteBase
<1>1. stage \in Late /\ stage' \in Late /\ stage \notin Reading /\ stage' \notin Reading
  BY <1>0 DEF Late, Reading
<1>2. GivenSources' /\ PersonsInv'
  BY <1>0, <1>1 DEF GivenSources, CrossingInv, PersonsInv
<1>3. StageInv'
  <2>1. Len(still) \in Nat
    BY ListIs DEF CrossingInv, MatchInv
  <2>2. next = Len(still) + 1
    BY <1>0, <1>1, <2>1 DEF CrossingInv, StageInv
  <2> QED  BY <1>0, <1>1, <2>1, <2>2 DEF StageInv
<1>4. CountInv'
  <2>1. Sorted' = Sorted
    BY <1>0, <1>1 DEF Sorted, Seen
  <2> QED  BY <1>0, <2>1 DEF CrossingInv, CountInv
<1>5. MatchInv'
  BY <1>0, RowsStay DEF CrossingInv
<1>6. KeptInv' /\ BestInv'
  <2>1. Done' = Done /\ (IF stage \in Late THEN next - 1 ELSE 0)' = IF stage \in Late THEN next - 1 ELSE 0
    BY <1>0, <1>1 DEF Done
  <2> QED  BY <1>0, <2>1, KeptStays DEF CrossingInv
<1>7. BaseInv'
  <2>1. \A row : BaseRow(row)' = BaseRow(row)
    <3>1. \A insee : PredecessorAt(insee)' = PredecessorAt(insee)
      BY <1>0 DEF PredecessorAt
    <3>2. \A insee : KeptFor(insee)' = KeptFor(insee)
      BY <1>0 DEF KeptFor
    <3> QED  BY <1>0, <3>1, <3>2 DEF BaseRow
  <2> QED  BY <1>0, <2>1 DEF BaseInv
<1> QED  BY <1>2, <1>3, <1>4, <1>5, <1>6, <1>7 DEF CrossingInv

LEMMA CrossingStutters ==
  ASSUME CrossingInv, UNCHANGED crossingVars
  PROVE  CrossingInv'
<1>0. UNCHANGED <<stage, register, cards, persons, next, still, former, unmatched, kept, merged, base>>
  BY DEF crossingVars
<1>1. GivenSources' /\ PersonsInv' /\ StageInv'
  BY <1>0 DEF GivenSources, CrossingInv, PersonsInv, StageInv
<1>2. CountInv'
  <2>1. Sorted' = Sorted
    BY <1>0 DEF Sorted, Seen
  <2> QED  BY <1>0, <2>1 DEF CrossingInv, CountInv
<1>3. MatchInv'
  BY <1>0, RowsStay DEF CrossingInv
<1>4. KeptInv' /\ BestInv'
  <2>1. Done' = Done /\ (IF stage \in Late THEN next - 1 ELSE 0)' = IF stage \in Late THEN next - 1 ELSE 0
    BY <1>0 DEF Done
  <2> QED  BY <1>0, <2>1, KeptStays DEF CrossingInv
<1>5. BaseInv'
  <2>1. \A row : BaseRow(row)' = BaseRow(row)
    <3>1. \A insee : PredecessorAt(insee)' = PredecessorAt(insee)
      BY <1>0 DEF PredecessorAt
    <3>2. \A insee : KeptFor(insee)' = KeptFor(insee)
      BY <1>0 DEF KeptFor
    <3> QED  BY <1>0, <3>1, <3>2 DEF BaseRow
  <2> QED  BY <1>0, <2>1 DEF CrossingInv, BaseInv
<1> QED  BY <1>1, <1>2, <1>3, <1>4, <1>5 DEF CrossingInv

THEOREM CrossingIsSound == CrossingSpec => []CrossingInv
<1>1. CrossingInv /\ [CrossingNext]_crossingVars => CrossingInv'
  <2> SUFFICES ASSUME CrossingInv, [CrossingNext]_crossingVars PROVE CrossingInv'
    OBVIOUS
  <2>1. ASSUME NEW e \in Entries, ReadEntry(e)  PROVE CrossingInv'
    BY <2>1, ReadEntryKeeps
  <2>2. CASE NextFile
    BY <2>2, NextFileKeeps
  <2>3. CASE EndRead
    BY <2>3, EndReadKeeps
  <2>4. CASE MatchNext
    BY <2>4, MatchNextKeeps
  <2>5. CASE StartDedupe
    BY <2>5, StartDedupeKeeps
  <2>6. CASE DedupeNext
    BY <2>6, DedupeNextKeeps
  <2>7. CASE WriteBase
    BY <2>7, WriteBaseKeeps
  <2>8. CASE UNCHANGED crossingVars
    BY <2>8, CrossingStutters
  <2> QED  BY <2>1, <2>2, <2>3, <2>4, <2>5, <2>6, <2>7, <2>8 DEF CrossingNext
<1> QED  BY CrossingStart, <1>1, PTL DEF CrossingSpec

-----------------------------------------------------------------------------
\* The crossing: its two promises

LEMMA TargetsAddUp ==
  ASSUME CrossingInv
  PROVE  EveryTargetIsAccountedFor
<1> SUFFICES ASSUME stage = "done" PROVE
      /\ Len(kept) + merged + Len(former) + Len(unmatched)
           = Cardinality({i \in DOMAIN persons : Target(persons[i])})
      /\ \A i \in DOMAIN kept :
           LET rows == {j \in DOMAIN still : still[j].row.insee = kept[i].row.insee}
           IN /\ ConfidenceRank(kept[i].conf) = Min({ConfidenceRank(still[j].conf) : j \in rows})
              /\ kept[i].rec.score = Score(kept[i].rec.small, kept[i].rec.years)
  BY DEF EveryTargetIsAccountedFor
<1>1. stage \in Late /\ stage \notin Reading /\ stage # "match"
  BY DEF Late, Reading
<1>2. /\ Len(still) \in Nat /\ DOMAIN still = 1..Len(still) /\ Len(former) \in Nat /\ Len(unmatched) \in Nat
      /\ Len(kept) \in Nat /\ merged \in Nat
  BY ListIs DEF CrossingInv, MatchInv, KeptInv
<1>3. next = Len(still) + 1 /\ Done = DOMAIN still
  <2>1. next = Len(still) + 1
    BY DEF CrossingInv, StageInv
  <2> QED  BY <1>1, <1>2, <2>1 DEF Done
<1>4. Len(kept) + merged + Len(former) + Len(unmatched)
        = Cardinality({i \in DOMAIN persons : Target(persons[i])})
  <2>1. Len(kept) + merged = Len(still)
    BY <1>1, <1>2, <1>3 DEF CrossingInv, KeptInv
  <2>2. Sorted = {i \in DOMAIN persons : Target(persons[i])}
    BY <1>1 DEF Sorted, Seen
  <2>3. Len(still) + Len(former) + Len(unmatched) = Cardinality(Sorted)
    BY DEF CrossingInv, CountInv
  <2> QED  BY <1>2, <2>1, <2>2, <2>3
<1>5. ASSUME NEW i \in DOMAIN kept
      PROVE  /\ ConfidenceRank(kept[i].conf)
                  = Min({ConfidenceRank(still[j].conf) : j \in {n \in DOMAIN still : still[n].row.insee = kept[i].row.insee}})
             /\ kept[i].rec.score = Score(kept[i].rec.small, kept[i].rec.years)
  <2> DEFINE ranks == {ConfidenceRank(still[j].conf) :
                         j \in {n \in DOMAIN still : still[n].row.insee = kept[i].row.insee}}
             c == ConfidenceRank(kept[i].conf)
  <2>1. GoodRow(kept[i]) /\ BestOf(kept[i])
    BY DEF CrossingInv, KeptInv, BestInv
  <2>2. \A d : ConfidenceRank(d) \in Nat
    BY DEF ConfidenceRank
  <2>3. ranks \subseteq Nat
    BY <2>2
  <2>4. c \in ranks /\ \A d \in ranks : c <= d
    BY <1>3, <2>1 DEF BestOf
  <2>5. Min(ranks) = c
    <3> HIDE DEF ranks, c
    <3> QED  BY <2>3, <2>4, LeastIs
  <2> QED  BY <2>1, <2>5 DEF GoodRow
<1> QED  BY <1>4, <1>5

LEMMA NobodyElseIsThanked ==
  ASSUME CrossingInv
  PROVE  NobodyIsThankedAgainstTheSources
<1> SUFFICES ASSUME stage = "done" PROVE
      /\ \A i \in DOMAIN still : still[i].conf = "byName" =>
           LET rec == still[i].rec
               signed == {j \in DOMAIN register : register[j].dept = rec.dept /\ register[j].commune = rec.commune}
               halls == {c.insee : c \in {d \in Contacts : ~d.delegate /\ rec.commune \in {d.label, d.city}
                                                           /\ DeptOf[d.insee] = DeptCode(rec.dept)}}
           IN /\ \A j \in signed : CompareIdentity(rec, register[j]) # "different"
              /\ signed = {} /\ ~RowFor(rec).some /\ halls # {} => still[i].row.insee \in halls
      /\ \A i \in DOMAIN base :
           LET rec == kept[Max(KeptFor(base[i].insee))].rec
               here == {f \in ToSet(former) : f.row.insee = base[i].insee}
           IN /\ base[i].rank = "has_endorsed" =>
                   SameSurname(rec.last, register[i].last) /\ CompareIdentity(rec, register[i]) = "ok"
              /\ base[i].rank = "commune_has_endorsed" =>
                   \A f \in here : CompareIdentity(f.rec, register[i]) = "different"
  BY DEF NobodyIsThankedAgainstTheSources
<1>1. \A i \in DOMAIN still : still[i].conf = "byName" => StandsByName(still[i].rec, still[i].row)
  BY DEF CrossingInv, MatchInv
<1>2. DOMAIN base = DOMAIN register /\ \A i \in DOMAIN register : base[i] = BaseRow(register[i])
  BY DEF CrossingInv, BaseInv
<1>3. ASSUME NEW i \in DOMAIN register, NEW row, InOffice(row), row.insee = register[i].insee
      PROVE  row = register[i]
  <2>1. PICK k \in DOMAIN register : row = register[k]
    BY <1>3 DEF InOffice
  <2>2. k = i
    BY <1>3, <2>1, RegisterIs DEF CrossingInv
  <2> QED  BY <2>1, <2>2
<1>4. ASSUME NEW i \in DOMAIN register
      PROVE  /\ base[i].insee = register[i].insee
             /\ base[i].rank = "has_endorsed" => KeptFor(register[i].insee) # {}
  <2> DEFINE b == BaseRow(register[i])
             insee == register[i].insee
  <2>1. CASE KeptFor(insee) # {}
    <3>1. b.insee = insee
      BY <2>1 DEF BaseRow
    <3> QED  BY <1>2, <2>1, <3>1
  <2>2. CASE KeptFor(insee) = {}
    <3>1. b.insee = insee /\ b.rank # "has_endorsed"
      BY <2>2 DEF BaseRow
    <3> QED  BY <1>2, <3>1
  <2> QED  BY <2>1, <2>2
<1>5. ASSUME NEW i \in DOMAIN register, base[i].rank = "has_endorsed"
      PROVE  LET rec == kept[Max(KeptFor(base[i].insee))].rec IN
             SameSurname(rec.last, register[i].last) /\ CompareIdentity(rec, register[i]) = "ok"
  <2> DEFINE found == KeptFor(register[i].insee)
             k == Max(found)
  <2>1. base[i].insee = register[i].insee /\ found # {}
    BY <1>4, <1>5
  <2>2. Len(kept) \in Nat /\ found \subseteq 1..Len(kept)
    BY ListIs DEF KeptFor, CrossingInv, KeptInv
  <2>3. k \in found
    <3> HIDE DEF found
    <3> QED  BY <2>1, <2>2, GreatestOf
  <2>4. k \in DOMAIN kept /\ kept[k].row.insee = register[i].insee
    <3> HIDE DEF k
    <3> QED  BY <2>3 DEF KeptFor
  <2> HIDE DEF k
  <2>5. GoodRow(kept[k])
    BY <2>4 DEF CrossingInv, KeptInv
  <2>6. kept[k].row = register[i]
    BY <1>3, <2>4, <2>5 DEF GoodRow
  <2>7. CompareIdentity(kept[k].rec, register[i]) = "ok"
    BY <2>5, <2>6 DEF GoodRow
  <2>8. SameSurname(kept[k].rec.last, register[i].last)
    BY <2>7 DEF CompareIdentity
  <2> QED  BY <2>1, <2>7, <2>8 DEF k
<1>6. ASSUME NEW i \in DOMAIN register, NEW f \in ToSet(former), f.row.insee = base[i].insee
      PROVE  CompareIdentity(f.rec, register[i]) = "different"
  <2>1. Gone(f)
    BY DEF ToSet, CrossingInv, MatchInv
  <2>2. f.row = register[i]
    BY <1>3, <1>4, <1>6, <2>1 DEF Gone
  <2> QED  BY <2>1, <2>2 DEF Gone
<1>7. \A i \in DOMAIN still : still[i].conf = "byName" =>
        LET rec == still[i].rec
            signed == {j \in DOMAIN register : register[j].dept = rec.dept /\ register[j].commune = rec.commune}
            halls == {c.insee : c \in {d \in Contacts : ~d.delegate /\ rec.commune \in {d.label, d.city}
                                                        /\ DeptOf[d.insee] = DeptCode(rec.dept)}}
        IN /\ \A j \in signed : CompareIdentity(rec, register[j]) # "different"
           /\ signed = {} /\ ~RowFor(rec).some /\ halls # {} => still[i].row.insee \in halls
  BY <1>1 DEF StandsByName, HallsOf
<1> QED  BY <1>2, <1>5, <1>6, <1>7

\* The control line of the report (build.ts:689), for every register and list of endorsements:
\* the targets are those kept, merged, gone and left to check; a row shows the best established
\* of its matches and the score of the endorsements it lists.
THEOREM TargetsAreAccountedFor == CrossingSpec => []EveryTargetIsAccountedFor
BY CrossingIsSound, TargetsAddUp, PTL

\* Whatever the sources say, a mayor found by name alone is contradicted by none of them, and
\* "you presented X" goes to nobody a rule tells from the endorser (build.ts, the crossing and
\* the ranks of the full base).
THEOREM TheSourcesAreHeard == CrossingSpec => []NobodyIsThankedAgainstTheSources
BY CrossingIsSound, NobodyElseIsThanked, PTL

-----------------------------------------------------------------------------
\* Reading and writing lists: what is laid out, and where

\* The reader is where ReadChar leaves it, at each position of the text.
LEMMA AfterIs ==
  ASSUME NEW text, Len(text) \in Nat
  PROVE  /\ After(text)[0] = Blank
         /\ \A i \in 1..Len(text) :
              After(text)[i] = ReadChar(After(text)[i - 1], text[i], Following(text, i))
<1> DEFINE k == Len(text)
           turn(p, i) == ReadChar(p, text[i], Following(text, i))
           body(g, n) == [i \in 0..n |-> IF i = 0 THEN Blank ELSE turn(g[i - 1], i)]
           there == {n \in 0..k : \E g : g = body(g, n)}
<1>1. 0 \in there
  <2> DEFINE g == [i \in 0..0 |-> Blank]
  <2>1. \A i \in 0..0 : i = 0
    OBVIOUS
  <2> HIDE DEF turn
  <2>2. g = body(g, 0)
    BY <2>1
  <2> HIDE DEF body, g
  <2> QED  BY <2>2
<1>2. ASSUME NEW n \in 0..(k - 1), n \in there
      PROVE  n + 1 \in there
  <2>1. PICK g : g = body(g, n)
    BY <1>2
  <2> HIDE DEF turn
  <2> DEFINE h == [i \in 0..(n + 1) |-> IF i = n + 1 THEN turn(g[n], n + 1) ELSE g[i]]
  <2>2. ASSUME NEW i \in 0..(n + 1)
        PROVE  h[i] = body(h, n + 1)[i]
    <3>1. CASE i = n + 1
      BY <3>1
    <3>2. CASE i \in 0..n
      <4>1. h[i] = g[i] /\ g[i] = body(g, n)[i]
        BY <2>1, <3>2
      <4>2. i # 0 => h[i - 1] = g[i - 1]
        BY <3>2
      <4> QED  BY <3>2, <4>1, <4>2
    <3> QED  BY <3>1, <3>2
  <2>3. h = body(h, n + 1)
    BY <2>2
  <2> HIDE DEF body, h
  <2> QED  BY <1>2, <2>3
<1>3. k \in there
  <2> HIDE DEF there
  <2>1. k \in Nat
    OBVIOUS
  <2> HIDE DEF k
  <2>2. \A n \in 0..k : n \in there
    BY <1>1, <1>2, <2>1, UpTo
  <2> QED  BY <2>1, <2>2
<1>4. After(text) = body(After(text), k)
  BY <1>3 DEF After
<1> HIDE DEF turn
<1>5. \A i \in 0..k : After(text)[i] = IF i = 0 THEN Blank ELSE turn(After(text)[i - 1], i)
  <2> DEFINE f == After(text)
  <2> HIDE DEF f
  <2>1. f = body(f, k)
    BY <1>4 DEF f
  <2> QED  BY <2>1 DEF f
<1> QED  BY <1>5 DEF turn

\* What a sequence of sequences gives when they are joined one after the other.
LEMMA JoinsAre ==
  ASSUME NEW seqs, NEW k \in Nat \ {0}
  PROVE  LET f == CHOOSE g : g = [i \in 1..k |-> IF i = 1 THEN seqs[i] ELSE g[i - 1] \o seqs[i]]
         IN /\ f[1] = seqs[1]
            /\ \A i \in 1..(k - 1) : f[i + 1] = f[i] \o seqs[i + 1]
<1> DEFINE body(g, n) == [i \in 1..n |-> IF i = 1 THEN seqs[i] ELSE g[i - 1] \o seqs[i]]
           there == {n \in 0..k : \E g : g = body(g, n)}
           f == CHOOSE g : g = body(g, k)
<1>1. 0 \in there
  <2> DEFINE g == [i \in 1..0 |-> <<>>]
  <2>1. g = body(g, 0)
    OBVIOUS
  <2> HIDE DEF body, g
  <2> QED  BY <2>1
<1>2. ASSUME NEW n \in 0..(k - 1), n \in there
      PROVE  n + 1 \in there
  <2>1. PICK g : g = body(g, n)
    BY <1>2
  <2> DEFINE new == IF n = 0 THEN seqs[1] ELSE g[n] \o seqs[n + 1]
             h == [i \in 1..(n + 1) |-> IF i = n + 1 THEN new ELSE g[i]]
  <2>2. ASSUME NEW i \in 1..(n + 1)
        PROVE  h[i] = body(h, n + 1)[i]
    <3>1. CASE i = n + 1
      BY <3>1
    <3>2. CASE i \in 1..n
      <4>1. h[i] = g[i]
        <5> HIDE DEF new
        <5> QED  BY <3>2
      <4>2. g[i] = body(g, n)[i]
        BY <2>1, <3>2
      <4>3. i # 1 => h[i - 1] = g[i - 1]
        <5> HIDE DEF new
        <5> QED  BY <3>2
      <4> QED  BY <3>2, <4>1, <4>2, <4>3
    <3> QED  BY <3>1, <3>2
  <2>3. h = body(h, n + 1)
    BY <2>2
  <2> HIDE DEF body, h
  <2> QED  BY <1>2, <2>3
<1>3. k \in there
  <2> HIDE DEF there
  <2>1. \A n \in 0..k : n \in there
    BY <1>1, <1>2, UpTo
  <2> QED  BY <2>1
<1>4. f = body(f, k)
  BY <1>3
<1>5. \A i \in 1..k : f[i] = IF i = 1 THEN seqs[i] ELSE f[i - 1] \o seqs[i]
  <2> HIDE DEF f
  <2> QED  BY <1>4
<1> HIDE DEF f
<1>6. f[1] = seqs[1]
  BY <1>5
<1>7. ASSUME NEW i \in 1..(k - 1)
      PROVE  f[i + 1] = f[i] \o seqs[i + 1]
  <2>1. i + 1 \in 1..k /\ i + 1 # 1 /\ (i + 1) - 1 = i
    OBVIOUS
  <2> QED  BY <1>5, <2>1
<1> QED  BY <1>6, <1>7 DEF f

\* Each of them stays where those before it ended.
JoinsOf(X, seqs, k, f) ==
  /\ \A i \in 1..k : seqs[i] \in Seq(X)
  /\ f[1] = seqs[1]
  /\ \A i \in 1..(k - 1) : f[i + 1] = f[i] \o seqs[i + 1]
LaidOut(X, seqs, k, f) ==
  /\ f[k] \in Seq(X)
  /\ \A n \in 1..(k - 1) : Len(f[n + 1]) = Len(f[n]) + Len(seqs[n + 1])
  /\ \A n \in 1..k :
       /\ Len(f[n]) \in Nat /\ Len(f[n]) <= Len(f[k]) /\ Len(seqs[n]) <= Len(f[n])
       /\ \A i \in 1..Len(seqs[n]) : f[k][(Len(f[n]) - Len(seqs[n])) + i] = seqs[n][i]

\* Parts joined one after the other keep their characters, each where the part before ends.
LEMMA JoinsLayOut ==
  ASSUME NEW X, NEW seqs, NEW k \in Nat \ {0}, NEW f, JoinsOf(X, seqs, k, f)
  PROVE  LaidOut(X, seqs, k, f)
<1>0. /\ \A i \in 1..k : seqs[i] \in Seq(X)
      /\ f[1] = seqs[1]
      /\ \A i \in 1..(k - 1) : f[i + 1] = f[i] \o seqs[i + 1]
  BY DEF JoinsOf
<1> DEFINE last(n) == Len(f[n]) - Len(seqs[n])
           laid(j, n) == /\ Len(seqs[j]) <= Len(f[j]) /\ Len(f[j]) <= Len(f[n])
                         /\ \A i \in 1..Len(seqs[j]) : f[n][last(j) + i] = seqs[j][i]
           right(n) == f[n] \in Seq(X) /\ \A j \in 1..n : laid(j, n)
           there == {0} \union {n \in 1..k : right(n)}
<1>1. 1 \in there
  <2>1. f[1] \in Seq(X) /\ Len(f[1]) \in Nat /\ 1 \in 1..k
    BY <1>0
  <2>2. laid(1, 1)
    BY <1>0, <2>1
  <2> HIDE DEF laid
  <2>3. \A j \in 1..1 : j = 1
    OBVIOUS
  <2> QED  BY <2>1, <2>2, <2>3
<1>2. ASSUME NEW n \in 1..(k - 1), n \in there
      PROVE  n + 1 \in there /\ Len(f[n + 1]) = Len(f[n]) + Len(seqs[n + 1])
  <2> DEFINE a == f[n]
             b == seqs[n + 1]
             c == f[n + 1]
  <2>1. n + 1 \in 1..k /\ n # 0
    OBVIOUS
  <2>2. right(n)
    BY <1>2, <2>1
  <2>3. a \in Seq(X) /\ b \in Seq(X) /\ c = a \o b
    BY <1>0, <2>1, <2>2
  <2>4. /\ c \in Seq(X) /\ Len(c) = Len(a) + Len(b) /\ Len(a) \in Nat /\ Len(b) \in Nat
        /\ \A i \in 1..Len(a) : c[i] = a[i]
        /\ \A i \in 1..Len(b) : c[Len(a) + i] = b[i]
    <3> HIDE DEF a, b, c
    <3> QED  BY <2>3
  <2>5. laid(n + 1, n + 1)
    <3>1. last(n + 1) = Len(a)
      BY <2>4
    <3>2. /\ Len(seqs[n + 1]) <= Len(f[n + 1]) /\ Len(f[n + 1]) <= Len(f[n + 1])
          /\ \A i \in 1..Len(seqs[n + 1]) : f[n + 1][Len(a) + i] = seqs[n + 1][i]
      <4>1. Len(b) <= Len(c) /\ Len(c) <= Len(c) /\ \A i \in 1..Len(b) : c[Len(a) + i] = b[i]
        <5> HIDE DEF a, b, c
        <5> QED  BY <2>4
      <4> QED  BY <4>1
    <3> HIDE DEF last, a
    <3> QED  BY <3>1, <3>2
  <2>6. ASSUME NEW j \in 1..n
        PROVE  laid(j, n + 1)
    <3> DEFINE w == seqs[j]
    <3>1. laid(j, n) /\ j \in 1..k
      <4> HIDE DEF laid
      <4> QED  BY <2>1, <2>2
    <3>2. w \in Seq(X) /\ Len(w) \in Nat /\ Len(f[j]) \in Int
      <4>1. Len(w) <= Len(f[j])
        BY <3>1
      <4> QED  BY <1>0, <3>1, <2>2
    <3>3. ASSUME NEW i \in 1..Len(w)
          PROVE  f[n + 1][last(j) + i] = w[i]
      <4>1. Len(w) <= Len(f[j]) /\ Len(f[j]) <= Len(a) /\ a[last(j) + i] = w[i]
        BY <3>1
      <4>2. last(j) + i \in 1..Len(a)
        <5>1. last(j) = Len(f[j]) - Len(w)
          OBVIOUS
        <5> HIDE DEF a, w, last
        <5> QED  BY <2>4, <3>2, <4>1, <5>1, SMTT(30)
      <4>3. c[last(j) + i] = a[last(j) + i]
        <5> HIDE DEF last, a, c
        <5> QED  BY <2>4, <4>2
      <4> QED  BY <4>1, <4>3
    <3>4. Len(w) <= Len(f[j]) /\ Len(f[j]) <= Len(c)
      <4>1. Len(w) <= Len(f[j]) /\ Len(f[j]) <= Len(a)
        BY <3>1
      <4> HIDE DEF a, b, c, w
      <4> QED  BY <2>4, <3>2, <4>1
    <3> HIDE DEF last
    <3> QED  BY <3>3, <3>4
  <2> HIDE DEF laid
  <2>7. \A j \in 1..(n + 1) : laid(j, n + 1)
    BY <2>5, <2>6
  <2> QED  BY <2>1, <2>4, <2>7
<1> HIDE DEF there
<1>3. \A n \in 0..k : n \in there
  <2>1. 0 \in there
    BY DEF there
  <2>2. ASSUME NEW n \in 0..(k - 1), n \in there
        PROVE  n + 1 \in there
    <3>1. CASE n = 0
      <4>1. n + 1 = 1
        BY <3>1
      <4> QED  BY <1>1, <4>1
    <3>2. CASE n # 0
      <4>1. n \in 1..(k - 1)
        BY <3>2
      <4> QED  BY <1>2, <2>2, <4>1
    <3> QED  BY <3>1, <3>2
  <2> QED  BY <2>1, <2>2, UpTo
<1>4. ASSUME NEW n \in 1..k
      PROVE  right(n)
  <2>1. n \in there /\ n # 0
    BY <1>3
  <2> HIDE DEF right
  <2> QED  BY <2>1 DEF there
<1>5. \A n \in 1..k : Len(f[n]) \in Nat /\ laid(n, k)
  <2>1. \A n \in 1..k : f[n] \in Seq(X)
    <3> HIDE DEF laid
    <3> QED  BY <1>4
  <2>2. right(k)
    <3> HIDE DEF right
    <3> QED  BY <1>4
  <2>3. \A n \in 1..k : laid(n, k)
    <3> HIDE DEF laid
    <3> QED  BY <2>2
  <2> HIDE DEF laid
  <2> QED  BY <2>1, <2>3
<1>6. ASSUME NEW n \in 1..(k - 1)
      PROVE  Len(f[n + 1]) = Len(f[n]) + Len(seqs[n + 1])
  <2>1. n \in there
    BY <1>3
  <2> QED  BY <1>2, <2>1
<1>7. f[k] \in Seq(X)
  <2>1. k \in 1..k
    OBVIOUS
  <2> HIDE DEF laid
  <2> QED  BY <1>4, <2>1
<1> QED  BY <1>5, <1>6, <1>7 DEF LaidOut

\* A text holds w after its first k characters.
Holds(text, k, w) ==
  /\ k + Len(w) <= Len(text)
  /\ \A i \in 1..Len(w) : text[k + i] = w[i]

\* w is u then v.
Both(X, w, u, v) == u \in Seq(X) /\ v \in Seq(X) /\ w = u \o v

\* A text that holds two parts joined holds the first, and the second where it ends.
LEMMA HoldsBoth ==
  ASSUME NEW X, NEW text \in Seq(X), NEW k \in Nat, NEW w, NEW u, NEW v, Both(X, w, u, v),
         Holds(text, k, w)
  PROVE  Holds(text, k, u) /\ Holds(text, k + Len(u), v) /\ Len(w) = Len(u) + Len(v)
<1>1. /\ Len(w) = Len(u) + Len(v) /\ Len(u) \in Nat /\ Len(v) \in Nat /\ Len(text) \in Nat
      /\ \A i \in 1..Len(u) : i \in 1..Len(w) /\ w[i] = u[i]
      /\ \A i \in 1..Len(v) : Len(u) + i \in 1..Len(w) /\ w[Len(u) + i] = v[i]
  BY DEF Both
<1>2. Holds(text, k, u)
  BY <1>1 DEF Holds
<1>3. ASSUME NEW i \in 1..Len(v)
      PROVE  text[(k + Len(u)) + i] = v[i]
  <2>1. text[k + (Len(u) + i)] = v[i]
    BY <1>1 DEF Holds
  <2>2. k + (Len(u) + i) = (k + Len(u)) + i
    BY <1>1
  <2> QED  BY <2>1, <2>2
<1>4. (k + Len(u)) + Len(v) <= Len(text)
  BY <1>1 DEF Holds
<1> QED  BY <1>1, <1>2, <1>3, <1>4 DEF Holds

\* What FlattenSeq gives is laid out, or nothing.
LEMMA FlatIs ==
  ASSUME NEW X, NEW seqs \in Seq(Seq(X))
  PROVE  /\ FlattenSeq(seqs) \in Seq(X)
         /\ Len(seqs) = 0 => FlattenSeq(seqs) = <<>>
         /\ Len(seqs) # 0 =>
              \E f : /\ FlattenSeq(seqs) = f[Len(seqs)]
                     /\ JoinsOf(X, seqs, Len(seqs), f) /\ LaidOut(X, seqs, Len(seqs), f)
<1>1. Len(seqs) = 0 => FlattenSeq(seqs) = <<>>
  BY DEF FlattenSeq
<1>2. ASSUME Len(seqs) # 0
      PROVE  \E f : /\ FlattenSeq(seqs) = f[Len(seqs)]
                    /\ JoinsOf(X, seqs, Len(seqs), f) /\ LaidOut(X, seqs, Len(seqs), f)
  <2> DEFINE n == Len(seqs)
             f == CHOOSE g : g = [i \in 1..n |-> IF i = 1 THEN seqs[i] ELSE g[i - 1] \o seqs[i]]
  <2>1. n \in Nat \ {0} /\ \A i \in 1..n : seqs[i] \in Seq(X)
    BY <1>2
  <2>2. FlattenSeq(seqs) = f[n]
    BY <1>2 DEF FlattenSeq
  <2>3. f[1] = seqs[1] /\ \A i \in 1..(n - 1) : f[i + 1] = f[i] \o seqs[i + 1]
    <3> HIDE DEF n
    <3> QED  BY <2>1, JoinsAre
  <2> HIDE DEF n, f
  <2>4. JoinsOf(X, seqs, n, f)
    BY <2>1, <2>3 DEF JoinsOf
  <2>5. LaidOut(X, seqs, n, f)
    BY <2>1, <2>4, JoinsLayOut
  <2> QED  BY <2>2, <2>4, <2>5 DEF n
<1>3. FlattenSeq(seqs) \in Seq(X)
  <2>1. Len(seqs) # 0 => FlattenSeq(seqs) \in Seq(X)
    BY <1>2 DEF LaidOut
  <2> QED  BY <1>1, <2>1
<1> QED  BY <1>1, <1>2, <1>3

\* A text that holds a flattened sequence holds its parts, one after the other.
Starts(text, k, seqs, o) ==
  /\ o \in [0..Len(seqs) -> Nat]
  /\ o[0] = k /\ o[Len(seqs)] = k + Len(FlattenSeq(seqs))
  /\ \A j \in 0..(Len(seqs) - 1) :
       o[j + 1] = o[j] + Len(seqs[j + 1]) /\ Holds(text, o[j], seqs[j + 1])

\* A text that holds parts joined holds each of them, where the part before ends.
LEMMA HoldsParts ==
  ASSUME NEW X, NEW text \in Seq(X), NEW k \in Nat, NEW seqs \in Seq(Seq(X)),
         Holds(text, k, FlattenSeq(seqs))
  PROVE  \E o : Starts(text, k, seqs, o)
<1>1. CASE Len(seqs) = 0
  <2>1. FlattenSeq(seqs) = <<>> /\ Len(<<>>) = 0
    BY <1>1, FlatIs
  <2> DEFINE o == [n \in 0..0 |-> k]
  <2>2. o \in [0..0 -> Nat] /\ o[0] = k /\ 0..(0 - 1) = {} /\ k = k + 0
    OBVIOUS
  <2> HIDE DEF o
  <2>3. Starts(text, k, seqs, o)
    BY <1>1, <2>1, <2>2 DEF Starts
  <2> QED  BY <2>3
<1>2. CASE Len(seqs) # 0
  <2> DEFINE n == Len(seqs)
  <2>1. n \in Nat \ {0} /\ \A i \in 1..n : seqs[i] \in Seq(X)
    BY <1>2
  <2>2. PICK f : FlattenSeq(seqs) = f[n] /\ JoinsOf(X, seqs, n, f) /\ LaidOut(X, seqs, n, f)
    BY <1>2, FlatIs
  <2> DEFINE o == [j \in 0..n |-> IF j = 0 THEN k ELSE k + Len(f[j])]
  <2> HIDE DEF n
  <2>3. f[1] = seqs[1]
    BY <2>2 DEF JoinsOf
  <2>4. /\ f[n] \in Seq(X)
        /\ \A j \in 1..(n - 1) : Len(f[j + 1]) = Len(f[j]) + Len(seqs[j + 1])
        /\ \A j \in 1..n :
             /\ Len(f[j]) \in Nat /\ Len(f[j]) <= Len(f[n]) /\ Len(seqs[j]) <= Len(f[j])
             /\ \A i \in 1..Len(seqs[j]) : f[n][(Len(f[j]) - Len(seqs[j])) + i] = seqs[j][i]
    BY <2>2 DEF LaidOut
  <2>5. o \in [0..n -> Nat] /\ o[0] = k /\ o[n] = k + Len(f[n])
    BY <2>1, <2>4
  <2>6. ASSUME NEW j \in 0..(n - 1)
        PROVE  o[j + 1] = o[j] + Len(seqs[j + 1]) /\ Holds(text, o[j], seqs[j + 1])
    <3> DEFINE w == seqs[j + 1]
    <3>1. j + 1 \in 1..n /\ Len(w) \in Nat
      BY <2>1
    <3>2. o[j + 1] = k + Len(f[j + 1])
      BY <2>1, <3>1
    <3>3. o[j] = k + (Len(f[j + 1]) - Len(w))
      <4>1. CASE j = 0
        <5>1. j + 1 = 1 /\ f[j + 1] = w
          BY <2>3, <4>1
        <5>2. o[j] = k
          BY <2>5, <4>1
        <5> HIDE DEF w, o
        <5> QED  BY <3>1, <5>1, <5>2
      <4>2. CASE j # 0
        <5>1. j \in 1..(n - 1) /\ j \in 0..n /\ j \in 1..n
          BY <2>1, <4>2
        <5>2. o[j] = k + Len(f[j]) /\ Len(f[j + 1]) = Len(f[j]) + Len(w) /\ Len(f[j]) \in Nat
          BY <2>4, <4>2, <5>1
        <5> HIDE DEF w, o
        <5> QED  BY <3>1, <5>2
      <4> QED  BY <4>1, <4>2
    <3>4. /\ Len(f[j + 1]) \in Nat /\ Len(f[j + 1]) <= Len(f[n]) /\ Len(w) <= Len(f[j + 1])
          /\ \A i \in 1..Len(w) : f[n][(Len(f[j + 1]) - Len(w)) + i] = w[i]
      BY <2>4, <3>1
    <3>5. k + Len(f[n]) <= Len(text) /\ \A i \in 1..Len(f[n]) : text[k + i] = f[n][i]
      BY <2>2 DEF Holds
    <3> HIDE DEF w, o
    <3>6. ASSUME NEW i \in 1..Len(w)
          PROVE  text[o[j] + i] = w[i]
      <4>1. (Len(f[j + 1]) - Len(w)) + i \in 1..Len(f[n])
        BY <2>4, <3>1, <3>4, SMTT(30)
      <4>2. o[j] + i = k + ((Len(f[j + 1]) - Len(w)) + i)
        BY <3>1, <3>3, <3>4
      <4> QED  BY <3>4, <3>5, <4>1, <4>2
    <3>7. o[j] + Len(w) <= Len(text)
      BY <2>4, <3>1, <3>3, <3>4, <3>5
    <3>8. Holds(text, o[j], w)
      BY <3>6, <3>7 DEF Holds
    <3>9. o[j + 1] = o[j] + Len(w)
      BY <3>1, <3>2, <3>3, <3>4
    <3> QED  BY <3>8, <3>9 DEF w
  <2> HIDE DEF o
  <2>7. Starts(text, k, seqs, o)
    BY <2>2, <2>4, <2>5, <2>6 DEF Starts, n
  <2> QED  BY <2>7
<1> QED  BY <1>1, <1>2

\* Where the reader is: in a field, in a quoted one, on the second quote of a pair, or between
\* the two characters that end a row.
At(rows, fields, current, inQuotes, started, skip) ==
  [rows |-> rows, fields |-> fields, current |-> current, inQuotes |-> inQuotes, started |-> started,
   skip |-> skip]
InField(p, rows, fields, current) ==
  \E started : p = At(rows, fields, current, FALSE, started, FALSE)
InQuotes(rows, fields, current) == At(rows, fields, current, TRUE, TRUE, FALSE)
OnPair(rows, fields, current) == At(rows, fields, current, TRUE, TRUE, TRUE)
OnEnd(rows) == At(rows, <<>>, <<>>, FALSE, FALSE, TRUE)
RowStart(rows) == At(rows, <<>>, <<>>, FALSE, FALSE, FALSE)

\* One character of each kind, from each state it may be read in: a plain one is kept;
LEMMA ReadsPlain ==
  ASSUME NEW p, NEW rows, NEW fields, NEW current, InField(p, rows, fields, current),
         NEW c, c \notin {Sep, Quote, CR, LF}, NEW d
  PROVE  InField(ReadChar(p, c, d), rows, fields, Append(current, c))
<1>1. PICK started : p = At(rows, fields, current, FALSE, started, FALSE)
  BY DEF InField
<1>2. ReadChar(p, c, d) = At(rows, fields, Append(current, c), FALSE, TRUE, FALSE)
  BY <1>1 DEF ReadChar, At, Sep, Quote, CR, LF
<1> QED  BY <1>2 DEF InField

\* a quote at the start of a field opens the quotes;
LEMMA ReadsOpening ==
  ASSUME NEW p, NEW rows, NEW fields, InField(p, rows, fields, <<>>), NEW d
  PROVE  ReadChar(p, Quote, d) = InQuotes(rows, fields, <<>>)
<1>1. PICK started : p = At(rows, fields, <<>>, FALSE, started, FALSE)
  BY DEF InField
<1> QED  BY <1>1 DEF ReadChar, At, InQuotes, Sep, Quote, CR, LF

\* between quotes, all but a quote is kept;
LEMMA ReadsQuoted ==
  ASSUME NEW rows, NEW fields, NEW current, NEW c, c # Quote, NEW d
  PROVE  ReadChar(InQuotes(rows, fields, current), c, d) = InQuotes(rows, fields, Append(current, c))
BY DEF ReadChar, At, InQuotes

\* a doubled quote is one quote kept, in two characters;
LEMMA ReadsPair ==
  ASSUME NEW rows, NEW fields, NEW current, NEW d
  PROVE  /\ ReadChar(InQuotes(rows, fields, current), Quote, Quote)
              = OnPair(rows, fields, Append(current, Quote))
         /\ ReadChar(OnPair(rows, fields, current), Quote, d) = InQuotes(rows, fields, current)
<1>1. ReadChar(InQuotes(rows, fields, current), Quote, Quote)
        = OnPair(rows, fields, Append(current, Quote))
  BY DEF ReadChar, At, InQuotes, OnPair
<1>2. ReadChar(OnPair(rows, fields, current), Quote, d) = InQuotes(rows, fields, current)
  BY DEF ReadChar, At, InQuotes, OnPair
<1> QED  BY <1>1, <1>2

\* a quote that is not doubled closes them;
LEMMA ReadsClosing ==
  ASSUME NEW rows, NEW fields, NEW current, NEW d, d # Quote
  PROVE  InField(ReadChar(InQuotes(rows, fields, current), Quote, d), rows, fields, current)
<1>1. ReadChar(InQuotes(rows, fields, current), Quote, d) = At(rows, fields, current, FALSE, TRUE, FALSE)
  BY DEF ReadChar, At, InQuotes
<1> QED  BY <1>1 DEF InField

\* a separator ends the field;
LEMMA ReadsSeparator ==
  ASSUME NEW p, NEW rows, NEW fields, NEW current, InField(p, rows, fields, current), NEW d
  PROVE  InField(ReadChar(p, Sep, d), rows, Append(fields, current), <<>>)
<1>1. PICK started : p = At(rows, fields, current, FALSE, started, FALSE)
  BY DEF InField
<1>2. ReadChar(p, Sep, d) = At(rows, Append(fields, current), <<>>, FALSE, TRUE, FALSE)
  BY <1>1 DEF ReadChar, At, Sep, Quote, CR, LF
<1> QED  BY <1>2 DEF InField

\* a line ending ends the row, when a field came before;
LEMMA ReadsEnd ==
  ASSUME NEW p, NEW rows, NEW fields, fields # <<>>, NEW current, InField(p, rows, fields, current)
  PROVE  ReadChar(p, CR, LF) = OnEnd(Append(rows, Append(fields, current)))
<1>1. PICK started : p = At(rows, fields, current, FALSE, started, FALSE)
  BY DEF InField
<1> QED  BY <1>1 DEF ReadChar, EndRow, At, OnEnd, Sep, Quote, CR, LF

\* and its second character is passed over.
LEMMA ReadsNextRow ==
  ASSUME NEW rows, NEW d
  PROVE  /\ ReadChar(OnEnd(rows), LF, d) = RowStart(rows)
         /\ InField(RowStart(rows), rows, <<>>, <<>>)
<1>1. ReadChar(OnEnd(rows), LF, d) = RowStart(rows)
  BY DEF ReadChar, At, OnEnd, RowStart
<1> QED  BY <1>1 DEF RowStart, InField

\* The beginnings of a list, one more of its elements at a time.
LEMMA GrowsBy ==
  ASSUME NEW X, NEW s \in Seq(X)
  PROVE  /\ SubSeq(s, 1, 0) = <<>> /\ SubSeq(s, 1, Len(s)) = s
         /\ \A j \in 0..(Len(s) - 1) : SubSeq(s, 1, j + 1) = Append(SubSeq(s, 1, j), s[j + 1])
<1>1. SubSeq(s, 1, 0) = <<>> /\ SubSeq(s, 1, Len(s)) = s
  OBVIOUS
<1>2. ASSUME NEW j \in 0..(Len(s) - 1)
      PROVE  SubSeq(s, 1, j + 1) = Append(SubSeq(s, 1, j), s[j + 1])
  OBVIOUS
<1> QED  BY <1>1, <1>2

\* The one character a text holds at a place.
LEMMA HoldsOne ==
  ASSUME NEW X, NEW text \in Seq(X), NEW k \in Nat, NEW c, Holds(text, k, <<c>>)
  PROVE  k < Len(text) /\ text[k + 1] = c
BY DEF Holds

\* The two characters a text holds at a place.
LEMMA HoldsTwo ==
  ASSUME NEW X, NEW text \in Seq(X), NEW k \in Nat, NEW c, NEW d, Holds(text, k, <<c, d>>)
  PROVE  k + 1 < Len(text) /\ text[k + 1] = c /\ text[(k + 1) + 1] = d /\ Len(<<c, d>>) = 2
BY DEF Holds

\* Where the reader is after one more character of a text.
LEMMA NextChar ==
  ASSUME NEW X, NEW text \in Seq(X), NEW i \in Nat, i < Len(text)
  PROVE  After(text)[i + 1] = ReadChar(After(text)[i], text[i + 1], Following(text, i + 1))
<1>1. Len(text) \in Nat /\ i + 1 \in 1..Len(text) /\ (i + 1) - 1 = i
  OBVIOUS
<1> QED  BY <1>1, AfterIs

Specials == {Sep, Quote, CR, LF}

\* A field without quotes is read as it is.
LEMMA PlainRead ==
  ASSUME NEW X, NEW text \in Seq(X), NEW k \in Nat, NEW s \in Seq(X), ToSet(s) \intersect Specials = {},
         Holds(text, k, s), NEW rows, NEW fields, InField(After(text)[k], rows, fields, <<>>)
  PROVE  InField(After(text)[k + Len(s)], rows, fields, s)
<1> DEFINE there == {j \in 0..Len(s) : InField(After(text)[k + j], rows, fields, SubSeq(s, 1, j))}
<1>1. Len(s) \in Nat /\ k + 0 = k
  OBVIOUS
<1>2. 0 \in there
  <2>1. InField(After(text)[k + 0], rows, fields, SubSeq(s, 1, 0))
    BY <1>1, GrowsBy
  <2> QED  BY <1>1, <2>1
<1>3. ASSUME NEW j \in 0..(Len(s) - 1), j \in there
      PROVE  j + 1 \in there
  <2> DEFINE c == s[j + 1]
             current == SubSeq(s, 1, j)
  <2>1. /\ k + j \in Nat /\ k + j < Len(text) /\ (k + j) + 1 = k + (j + 1)
        /\ j + 1 \in 1..Len(s) /\ j + 1 \in 0..Len(s)
    BY <1>1 DEF Holds
  <2>2. text[k + (j + 1)] = c /\ c \in ToSet(s)
    BY <2>1 DEF Holds, ToSet
  <2>3. SubSeq(s, 1, j + 1) = Append(current, c)
    BY GrowsBy
  <2>4. InField(After(text)[k + j], rows, fields, current)
    BY <1>3
  <2> HIDE DEF c, current
  <2>5. After(text)[(k + j) + 1] = ReadChar(After(text)[k + j], c, Following(text, (k + j) + 1))
    BY <2>1, <2>2, NextChar
  <2>6. InField(After(text)[k + (j + 1)], rows, fields, Append(current, c))
    <3>1. c \notin {Sep, Quote, CR, LF}
      BY <2>2 DEF Specials
    <3> QED  BY <2>1, <2>4, <2>5, <3>1, ReadsPlain
  <2> QED  BY <2>1, <2>3, <2>6
<1> HIDE DEF there
<1>4. \A n \in 0..Len(s) : n \in there
  BY <1>1, <1>2, <1>3, UpTo
<1>5. Len(s) \in there
  BY <1>1, <1>4
<1> QED  BY <1>5, GrowsBy DEF there

\* What doubling puts for one character.
Twin(c) == IF c = Quote THEN <<Quote, Quote>> ELSE <<c>>

\* Doubling the quotes of a text puts one or two characters for each of its own.
LEMMA TwinsAre ==
  ASSUME NEW X, Specials \subseteq X, NEW s \in Seq(X)
  PROVE  LET twins == [i \in DOMAIN s |-> IF s[i] = Quote THEN <<Quote, Quote>> ELSE <<s[i]>>]
         IN /\ Len(s) \in Nat /\ twins \in Seq(Seq(X)) /\ Len(twins) = Len(s)
            /\ \A i \in 1..Len(s) : twins[i] = Twin(s[i])
<1> DEFINE twins == [i \in DOMAIN s |-> IF s[i] = Quote THEN <<Quote, Quote>> ELSE <<s[i]>>]
           n == Len(s)
<1>1. n \in Nat /\ DOMAIN s = 1..n /\ \A i \in 1..n : s[i] \in X
  OBVIOUS
<1>2. \A i \in 1..n : twins[i] = Twin(s[i])
  BY <1>1 DEF Twin
<1>3. Quote \in X
  BY DEF Specials
<1>4. twins \in [1..n -> Seq(X)]
  BY <1>1, <1>3
<1> HIDE DEF twins
<1>5. twins \in Seq(Seq(X)) /\ Len(twins) = n
  BY <1>1, <1>4
<1> QED  BY <1>1, <1>2, <1>5 DEF twins

\* A field between quotes is read back, each doubled quote as one.
LEMMA QuotedRead ==
  ASSUME NEW X, Specials \subseteq X, NEW text \in Seq(X), NEW k \in Nat, NEW s \in Seq(X),
         Holds(text, k, Quoted(s)), NEW rows, NEW fields,
         InField(After(text)[k], rows, fields, <<>>),
         Following(text, k + Len(Quoted(s))) # Quote
  PROVE  /\ Quoted(s) \in Seq(X)
         /\ InField(After(text)[k + Len(Quoted(s))], rows, fields, s)
<1> DEFINE twins == [i \in DOMAIN s |-> IF s[i] = Quote THEN <<Quote, Quote>> ELSE <<s[i]>>]
           n == Len(s)
<1>1. /\ n \in Nat /\ twins \in Seq(Seq(X)) /\ Len(twins) = n
      /\ \A i \in 1..n : twins[i] = Twin(s[i])
  BY TwinsAre
<1>2. Doubled(s) = FlattenSeq(twins)
  BY DEF Doubled
<1> HIDE DEF twins
<1>3. <<Quote>> \in Seq(X) /\ Len(<<Quote>>) = 1 /\ <<Quote>>[1] = Quote
  BY DEF Specials
<1>4. Doubled(s) \in Seq(X)
  <2>1. FlattenSeq(twins) \in Seq(X)
    BY <1>1, FlatIs
  <2> QED  BY <1>2, <2>1
<1>5. /\ Holds(text, k, <<Quote>>) /\ Holds(text, k + 1, Doubled(s))
      /\ Holds(text, (k + 1) + Len(Doubled(s)), <<Quote>>)
      /\ Len(Quoted(s)) = Len(Doubled(s)) + 2 /\ Quoted(s) \in Seq(X) /\ Len(Doubled(s)) \in Nat
  <2> DEFINE d == Doubled(s)
             q == <<Quote>>
  <2>1. d \in Seq(X) /\ q \in Seq(X) /\ Len(q) = 1 /\ Quoted(s) = (q \o d) \o q
    BY <1>3, <1>4 DEF Quoted
  <2> HIDE DEF d, q
  <2>2. q \o d \in Seq(X) /\ (q \o d) \o q \in Seq(X) /\ Len(d) \in Nat
    BY <2>1
  <2>3. /\ Holds(text, k, q \o d) /\ Holds(text, k + Len(q \o d), q)
        /\ Len((q \o d) \o q) = Len(q \o d) + Len(q)
    <3> DEFINE u == q \o d
               w == u \o q
    <3>1. Holds(text, k, w) /\ Both(X, w, u, q)
      BY <2>1, <2>2 DEF Both
    <3> HIDE DEF u, w
    <3>2. Holds(text, k, u) /\ Holds(text, k + Len(u), q) /\ Len(w) = Len(u) + Len(q)
      BY <3>1, HoldsBoth
    <3> QED  BY <3>2 DEF u, w
  <2>4. Holds(text, k, q) /\ Holds(text, k + Len(q), d) /\ Len(q \o d) = Len(q) + Len(d)
    <3>1. Both(X, q \o d, q, d)
      BY <2>1 DEF Both
    <3> QED  BY <2>3, <3>1, HoldsBoth
  <2>5. k + Len(q \o d) = (k + 1) + Len(d) /\ Len(Quoted(s)) = Len(d) + 2 /\ k + Len(q) = k + 1
    BY <2>1, <2>2, <2>3, <2>4
  <2> QED  BY <2>1, <2>2, <2>3, <2>4, <2>5 DEF d, q
<1>6. PICK o \in [0..n -> Nat] :
        /\ o[0] = k + 1 /\ o[n] = (k + 1) + Len(Doubled(s))
        /\ \A j \in 0..(n - 1) : o[j + 1] = o[j] + Len(twins[j + 1]) /\ Holds(text, o[j], twins[j + 1])
  <2>1. Holds(text, k + 1, FlattenSeq(twins)) /\ k + 1 \in Nat
    BY <1>2, <1>5
  <2>2. PICK o : Starts(text, k + 1, twins, o)
    BY <1>1, <2>1, HoldsParts
  <2>3. Len(twins) = n
    BY <1>1
  <2> HIDE DEF n
  <2> QED  BY <1>2, <2>2, <2>3 DEF Starts
<1> HIDE DEF n
<1>7. After(text)[k + 1] = InQuotes(rows, fields, <<>>)
  <2>1. k < Len(text) /\ text[k + 1] = Quote
    BY <1>3, <1>5, HoldsOne
  <2> QED  BY <2>1, NextChar, ReadsOpening
<1> DEFINE there == {j \in 0..n : After(text)[o[j]] = InQuotes(rows, fields, SubSeq(s, 1, j))}
<1>8. 0 \in there
  <2>1. o[0] = k + 1 /\ SubSeq(s, 1, 0) = <<>> /\ 0 \in 0..n
    BY <1>1, <1>6, GrowsBy
  <2>2. After(text)[o[0]] = InQuotes(rows, fields, SubSeq(s, 1, 0))
    BY <1>7, <2>1
  <2> QED  BY <2>1, <2>2
<1>9. ASSUME NEW j \in 0..(n - 1), j \in there
      PROVE  j + 1 \in there
  <2> DEFINE c == s[j + 1]
             current == SubSeq(s, 1, j)
             here == o[j]
  <2>1. here \in Nat /\ j + 1 \in 0..n /\ j + 1 \in 1..n
    BY <1>1, <1>6
  <2>2. Holds(text, here, Twin(c)) /\ o[j + 1] = here + Len(Twin(c))
    BY <1>1, <1>6, <2>1
  <2>3. After(text)[here] = InQuotes(rows, fields, current)
    BY <1>9
  <2>4. SubSeq(s, 1, j + 1) = Append(current, c)
    BY GrowsBy DEF n
  <2> HIDE DEF c, current, here
  <2>5. CASE c # Quote
    <3>1. here < Len(text) /\ text[here + 1] = c /\ o[j + 1] = here + 1
      BY <2>1, <2>2, <2>5, HoldsOne DEF Twin
    <3>2. After(text)[here + 1] = ReadChar(InQuotes(rows, fields, current), c, Following(text, here + 1))
      BY <2>1, <2>3, <3>1, NextChar
    <3>3. After(text)[o[j + 1]] = InQuotes(rows, fields, Append(current, c))
      BY <2>5, <3>1, <3>2, ReadsQuoted
    <3> QED  BY <2>1, <2>4, <3>3
  <2>6. CASE c = Quote
    <3>1. /\ here + 1 < Len(text) /\ text[here + 1] = Quote /\ text[(here + 1) + 1] = Quote
          /\ o[j + 1] = (here + 1) + 1
      BY <2>1, <2>2, <2>6, HoldsTwo DEF Twin
    <3>2. Following(text, here + 1) = Quote
      BY <3>1 DEF Following
    <3>3. After(text)[here + 1] = ReadChar(InQuotes(rows, fields, current), Quote, Quote)
      <4>1. here < Len(text)
        BY <2>1, <3>1
      <4> QED  BY <2>1, <2>3, <3>1, <3>2, <4>1, NextChar
    <3>4. After(text)[here + 1] = OnPair(rows, fields, Append(current, c))
      BY <2>6, <3>3, ReadsPair
    <3>5. After(text)[(here + 1) + 1]
            = ReadChar(OnPair(rows, fields, Append(current, c)), Quote, Following(text, (here + 1) + 1))
      <4>1. here + 1 \in Nat
        BY <2>1
      <4> QED  BY <3>1, <3>4, <4>1, NextChar
    <3>6. After(text)[o[j + 1]] = InQuotes(rows, fields, Append(current, c))
      BY <3>1, <3>5, ReadsPair
    <3> QED  BY <2>1, <2>4, <3>6
  <2> QED  BY <2>5, <2>6
<1>10. After(text)[o[n]] = InQuotes(rows, fields, s)
  <2> HIDE DEF there
  <2>1. \A j \in 0..n : j \in there
    BY <1>1, <1>8, <1>9, UpTo
  <2>2. n \in there
    BY <1>1, <2>1
  <2> QED  BY <2>2, GrowsBy DEF there, n
<1>11. o[n] \in Nat /\ o[n] < Len(text) /\ text[o[n] + 1] = Quote /\ o[n] + 1 = k + Len(Quoted(s))
  <2>1. o[n] \in Nat /\ o[n] = (k + 1) + Len(Doubled(s))
    BY <1>1, <1>6
  <2>2. o[n] < Len(text) /\ text[o[n] + 1] = Quote
    BY <1>5, <2>1, HoldsOne
  <2> QED  BY <1>5, <2>1, <2>2
<1>12. After(text)[o[n] + 1] = ReadChar(InQuotes(rows, fields, s), Quote, Following(text, o[n] + 1))
  BY <1>10, <1>11, NextChar
<1>13. Following(text, o[n] + 1) # Quote
  BY <1>11
<1>14. InField(After(text)[o[n] + 1], rows, fields, s)
  BY <1>12, <1>13, ReadsClosing
<1> QED  BY <1>5, <1>11, <1>14

\* A field is read back, whether it was quoted or not, as long as no quote follows it.
LEMMA FieldRead ==
  ASSUME NEW X, Specials \subseteq X, NEW text \in Seq(X), NEW k \in Nat, NEW s \in Seq(X),
         Holds(text, k, EscapeField(s)), NEW rows, NEW fields,
         InField(After(text)[k], rows, fields, <<>>),
         Following(text, k + Len(EscapeField(s))) # Quote
  PROVE  /\ EscapeField(s) \in Seq(X)
         /\ InField(After(text)[k + Len(EscapeField(s))], rows, fields, s)
<1>1. CASE ToSet(s) \intersect Specials = {}
  <2>1. EscapeField(s) = s
    BY <1>1 DEF EscapeField, Specials
  <2> QED  BY <1>1, <2>1, PlainRead
<1>2. CASE ToSet(s) \intersect Specials # {}
  <2>1. EscapeField(s) = Quoted(s)
    BY <1>2 DEF EscapeField, Specials
  <2>2. /\ Quoted(s) \in Seq(X)
        /\ InField(After(text)[k + Len(Quoted(s))], rows, fields, s)
    BY <2>1, QuotedRead
  <2> QED  BY <2>1, <2>2
<1> QED  BY <1>1, <1>2

\* An escaped field is a text.
LEMMA EscapesAreTexts ==
  ASSUME NEW X, Specials \subseteq X, NEW s \in Seq(X)
  PROVE  EscapeField(s) \in Seq(X)
<1> DEFINE twins == [i \in DOMAIN s |-> IF s[i] = Quote THEN <<Quote, Quote>> ELSE <<s[i]>>]
<1>1. CASE ToSet(s) \intersect Specials = {}
  BY <1>1 DEF EscapeField, Specials
<1>2. CASE ToSet(s) \intersect Specials # {}
  <2>1. twins \in Seq(Seq(X)) /\ Doubled(s) = FlattenSeq(twins)
    BY TwinsAre DEF Doubled
  <2> HIDE DEF twins
  <2>2. Doubled(s) \in Seq(X)
    BY <2>1, FlatIs
  <2> QED  BY <1>2, <2>2 DEF EscapeField, Quoted, Specials
<1> QED  BY <1>1, <1>2

\* The fields of a row with what joins them, as they are written.
LEMMA FieldsAreTexts ==
  ASSUME NEW X, Specials \subseteq X, NEW row \in Seq(Seq(X))
  PROVE  LET fields == [i \in DOMAIN row |-> JoinField(row[i], i)]
         IN /\ Len(row) \in Nat /\ fields \in Seq(Seq(X)) /\ Len(fields) = Len(row)
            /\ \A i \in 1..Len(row) : fields[i] = JoinField(row[i], i) /\ row[i] \in Seq(X)
            /\ FlattenSeq(fields) \in Seq(X) /\ WriteRow(row) \in Seq(X)
<1> DEFINE fields == [i \in DOMAIN row |-> JoinField(row[i], i)]
           n == Len(row)
<1>1. n \in Nat /\ DOMAIN row = 1..n /\ \A i \in 1..n : row[i] \in Seq(X)
  OBVIOUS
<1>2. \A i \in 1..n : fields[i] = JoinField(row[i], i)
  BY <1>1
<1>3. ASSUME NEW i \in 1..n
      PROVE  JoinField(row[i], i) \in Seq(X)
  <2> DEFINE e == EscapeField(row[i])
  <2>1. e \in Seq(X) /\ <<Sep>> \in Seq(X)
    BY <1>1, EscapesAreTexts DEF Specials
  <2> HIDE DEF e
  <2>2. <<Sep>> \o e \in Seq(X)
    BY <2>1
  <2> QED  BY <2>1, <2>2 DEF JoinField, e
<1>4. fields \in [1..n -> Seq(X)]
  BY <1>1, <1>3
<1> HIDE DEF fields, n
<1>5. fields \in Seq(Seq(X)) /\ Len(fields) = n
  BY <1>1, <1>4
<1>6. FlattenSeq(fields) \in Seq(X)
  BY <1>5, FlatIs
<1>7. <<CR, LF>> \in Seq(X)
  BY DEF Specials
<1>8. WriteRow(row) \in Seq(X)
  BY <1>6, <1>7 DEF WriteRow, fields
<1> QED  BY <1>1, <1>2, <1>5, <1>6, <1>8 DEF fields, n

\* A written row is a text.
LEMMA RowsAreTexts ==
  ASSUME NEW X, Specials \subseteq X, NEW row \in Seq(Seq(X))
  PROVE  WriteRow(row) \in Seq(X)
BY FieldsAreTexts

\* A row of two columns or more, about to be read.
RowAhead(X, text, k, row, rows) ==
  /\ row \in Seq(Seq(X)) /\ Len(row) >= 2
  /\ Holds(text, k, WriteRow(row)) /\ After(text)[k] = RowStart(rows)

\* A row that is read from its start is added to the rows, and the next one starts.
LEMMA RowRead ==
  ASSUME NEW X, Specials \subseteq X, NEW text \in Seq(X), NEW k \in Nat, NEW row, NEW rows,
         RowAhead(X, text, k, row, rows)
  PROVE  After(text)[k + Len(WriteRow(row))] = RowStart(Append(rows, row))
<1>0. /\ row \in Seq(Seq(X)) /\ Len(row) >= 2
      /\ Holds(text, k, WriteRow(row)) /\ After(text)[k] = RowStart(rows)
  BY DEF RowAhead
<1> DEFINE fields == [i \in DOMAIN row |-> JoinField(row[i], i)]
           n == Len(row)
           line == FlattenSeq(fields)
           end == <<CR, LF>>
<1>1. /\ n \in Nat /\ n >= 2 /\ fields \in Seq(Seq(X)) /\ Len(fields) = n
      /\ \A i \in 1..n : fields[i] = JoinField(row[i], i) /\ row[i] \in Seq(X)
  BY <1>0, FieldsAreTexts
<1> HIDE DEF fields, n
<1>2. line \in Seq(X) /\ end \in Seq(X) /\ Len(end) = 2 /\ WriteRow(row) = line \o end
  <2>1. line \in Seq(X)
    BY <1>1, FlatIs
  <2>2. end \in Seq(X) /\ Len(end) = 2
    BY DEF Specials
  <2>3. WriteRow(row) = line \o end
    BY DEF WriteRow, fields
  <2> QED  BY <2>1, <2>2, <2>3
<1> HIDE DEF line, end
<1>3. /\ Holds(text, k, line) /\ Holds(text, k + Len(line), end)
      /\ Len(WriteRow(row)) = Len(line) + 2 /\ WriteRow(row) \in Seq(X) /\ Len(line) \in Nat
  <2> DEFINE w == WriteRow(row)
  <2>1. Holds(text, k, w) /\ w = line \o end /\ line \in Seq(X) /\ Both(X, w, line, end)
    BY <1>0, <1>2 DEF Both
  <2> HIDE DEF w
  <2>2. Holds(text, k, line) /\ Holds(text, k + Len(line), end) /\ Len(w) = Len(line) + Len(end)
    BY <2>1, HoldsBoth
  <2>3. w \in Seq(X) /\ Len(line) \in Nat
    BY <1>2, <2>1
  <2> QED  BY <1>2, <2>2, <2>3 DEF w
<1>4. PICK o \in [0..n -> Nat] :
        /\ o[0] = k /\ o[n] = k + Len(line)
        /\ \A j \in 0..(n - 1) : o[j + 1] = o[j] + Len(fields[j + 1]) /\ Holds(text, o[j], fields[j + 1])
  <2>1. PICK o : Starts(text, k, fields, o)
    BY <1>1, <1>3, HoldsParts DEF line
  <2> QED  BY <1>1, <2>1 DEF Starts, line

\* The next field comes after a separator, the first where the row starts.
<1>5. ASSUME NEW j \in 1..(n - 1)
      PROVE  /\ Holds(text, o[j], <<Sep>>) /\ Holds(text, o[j] + 1, EscapeField(row[j + 1]))
             /\ o[j] \in Nat /\ o[j + 1] = (o[j] + 1) + Len(EscapeField(row[j + 1]))
  <2> DEFINE e == EscapeField(row[j + 1])
             z == <<Sep>>
             here == o[j]
  <2>1. j + 1 \in 1..n /\ j \in 0..(n - 1) /\ j \in 0..n /\ j + 1 # 1
    BY <1>1
  <2>2. e \in Seq(X) /\ z \in Seq(X) /\ Len(z) = 1 /\ here \in Nat
    <3>1. row[j + 1] \in Seq(X)
      BY <1>1, <2>1
    <3>2. e \in Seq(X)
      BY <3>1, EscapesAreTexts
    <3>3. z \in Seq(X) /\ Len(z) = 1
      BY DEF Specials
    <3>4. here \in Nat
      BY <1>4, <2>1
    <3> QED  BY <3>2, <3>3, <3>4
  <2>3. fields[j + 1] = z \o e
    BY <1>1, <2>1 DEF JoinField
  <2> DEFINE w == fields[j + 1]
  <2>4. o[j + 1] = here + Len(w) /\ Holds(text, here, w) /\ w = z \o e
    BY <1>4, <2>1, <2>3
  <2> HIDE DEF e, z, here, w
  <2>5. Holds(text, here, z) /\ Holds(text, here + Len(z), e) /\ Len(w) = Len(z) + Len(e)
    <3>1. Both(X, w, z, e) /\ here \in Nat /\ Holds(text, here, w)
      BY <2>2, <2>4 DEF Both
    <3> QED  BY <3>1, HoldsBoth
  <2>6. o[j + 1] = (here + 1) + Len(e)
    <3>1. Len(e) \in Nat
      BY <2>2
    <3> QED  BY <2>2, <2>4, <2>5, <3>1
  <2> QED  BY <2>2, <2>5, <2>6 DEF e, z, here
<1>6. /\ Holds(text, o[0], EscapeField(row[1])) /\ o[0] = k
      /\ o[1] = k + Len(EscapeField(row[1]))
  <2>1. 0 \in 0..(n - 1) /\ 1 \in 1..n /\ 0 + 1 = 1
    BY <1>1
  <2>2. fields[1] = EscapeField(row[1])
    BY <1>1, <2>1 DEF JoinField
  <2> QED  BY <1>4, <2>1, <2>2
\* What follows a field is a separator or the end of the row.
<1>7. ASSUME NEW j \in 1..n
      PROVE  o[j] \in Nat /\ Following(text, o[j]) # Quote
  <2>1. o[j] \in Nat
    <3>1. j \in 0..n
      BY <1>1
    <3> QED  BY <1>4, <3>1
  <2>2. CASE j = n
    <3>1. Holds(text, o[j], <<CR, LF>>)
      BY <1>3, <1>4, <2>2 DEF end
    <3>2. o[j] + 1 < Len(text) /\ text[o[j] + 1] = CR
      BY <2>1, <3>1, HoldsTwo
    <3> QED  BY <2>1, <3>2 DEF Following, CR, Quote
  <2>3. CASE j # n
    <3>1. j \in 1..(n - 1)
      BY <1>1, <2>3
    <3>2. o[j] < Len(text) /\ text[o[j] + 1] = Sep
      BY <1>5, <2>1, <3>1, HoldsOne
    <3> QED  BY <2>1, <3>2 DEF Following, Sep, Quote
  <2> QED  BY <2>2, <2>3
<1> DEFINE there == {0} \union {j \in 1..n :
                      InField(After(text)[o[j]], rows, SubSeq(row, 1, j - 1), row[j])}
<1>8. 1 \in there
  <2>1. Following(text, k + Len(EscapeField(row[1]))) # Quote /\ row[1] \in Seq(X) /\ 1 \in 1..n
    BY <1>1, <1>6, <1>7
  <2>2. InField(After(text)[k], rows, <<>>, <<>>) /\ Holds(text, k, EscapeField(row[1]))
    BY <1>0, <1>6 DEF RowStart, InField
  <2>3. InField(After(text)[k + Len(EscapeField(row[1]))], rows, <<>>, row[1])
    <3> DEFINE cell == row[1]
    <3> HIDE DEF cell
    <3> QED  BY <2>1, <2>2, FieldRead DEF cell
  <2>4. SubSeq(row, 1, 1 - 1) = <<>>
    BY <1>0, GrowsBy
  <2> QED  BY <1>6, <2>1, <2>3, <2>4
<1>9. ASSUME NEW j \in 1..(n - 1), j \in there
      PROVE  j + 1 \in there
  <2> DEFINE here == o[j]
             before == SubSeq(row, 1, j - 1)
             now == SubSeq(row, 1, j)
             cell == row[j + 1]
  <2>1. InField(After(text)[here], rows, before, row[j])
    BY <1>9
  <2>2. /\ here \in Nat /\ cell \in Seq(X) /\ j + 1 \in 1..n
        /\ Holds(text, here, <<Sep>>) /\ Holds(text, here + 1, EscapeField(cell))
        /\ o[j + 1] = (here + 1) + Len(EscapeField(cell))
    <3>1. j + 1 \in 1..n
      BY <1>1
    <3> QED  BY <1>1, <1>5, <3>1
  <2>3. now = Append(before, row[j])
    <3>1. j - 1 \in 0..(Len(row) - 1) /\ (j - 1) + 1 = j
      BY <1>1 DEF n
    <3> QED  BY <1>0, <3>1, GrowsBy
  <2>4. Following(text, o[j + 1]) # Quote
    BY <1>7, <2>2
  <2> HIDE DEF here, before, now, cell
  <2>5. here < Len(text) /\ text[here + 1] = Sep
    BY <2>2, HoldsOne
  <2>6. InField(After(text)[here + 1], rows, now, <<>>)
    BY <2>1, <2>2, <2>3, <2>5, NextChar, ReadsSeparator
  <2>7. here + 1 \in Nat
    BY <2>2
  <2>8. InField(After(text)[(here + 1) + Len(EscapeField(cell))], rows, now, cell)
    BY <2>2, <2>4, <2>6, <2>7, FieldRead
  <2>9. (j + 1) - 1 = j
    OBVIOUS
  <2> QED  BY <2>2, <2>8, <2>9 DEF now, cell
<1>10. n \in there
  <2>1. ASSUME NEW j \in 0..(n - 1), j \in there
        PROVE  j + 1 \in there
    <3>1. CASE j = 0
      <4>1. j + 1 = 1
        BY <3>1
      <4> HIDE DEF there
      <4> QED  BY <1>8, <4>1
    <3>2. CASE j # 0
      <4>1. j \in 1..(n - 1)
        BY <1>1, <3>2
      <4> HIDE DEF there
      <4> QED  BY <1>9, <2>1, <4>1
    <3> QED  BY <3>1, <3>2
  <2>2. 0 \in there
    OBVIOUS
  <2> HIDE DEF there
  <2>3. \A j \in 0..n : j \in there
    BY <1>1, <2>1, <2>2, UpTo
  <2> QED  BY <1>1, <2>3
<1>11. InField(After(text)[o[n]], rows, SubSeq(row, 1, n - 1), row[n])
  <2>1. n # 0
    BY <1>1
  <2> QED  BY <1>10, <2>1
<1> DEFINE before == SubSeq(row, 1, n - 1)
           last == row[n]
           here == o[n]
<1>12. before # <<>> /\ Append(before, last) = row
  <2>1. n - 1 \in 0..(Len(row) - 1) /\ (n - 1) + 1 = n
    BY <1>1 DEF n
  <2>2. SubSeq(row, 1, (n - 1) + 1) = Append(before, row[(n - 1) + 1]) /\ SubSeq(row, 1, n) = row
    BY <1>0, <2>1, GrowsBy DEF n
  <2>3. Len(before) = n - 1
    BY <1>0, <2>1
  <2>4. before # <<>>
    <3> HIDE DEF before
    <3> QED  BY <1>1, <2>3
  <2> QED  BY <2>1, <2>2, <2>4
<1>13. /\ here \in Nat /\ here + 1 < Len(text) /\ text[here + 1] = CR /\ text[(here + 1) + 1] = LF
       /\ (here + 1) + 1 = k + Len(WriteRow(row))
  <2>1. here = k + Len(line) /\ here \in Nat
    BY <1>1, <1>4
  <2>2. Holds(text, here, <<CR, LF>>)
    BY <1>3, <2>1 DEF end
  <2> HIDE DEF here
  <2>3. here + 1 < Len(text) /\ text[here + 1] = CR /\ text[(here + 1) + 1] = LF
    BY <2>1, <2>2, HoldsTwo
  <2> QED  BY <1>3, <2>1, <2>3
<1>14. InField(After(text)[here], rows, before, last)
  BY <1>11
<1> HIDE DEF here, before, last, there
<1>15. After(text)[here + 1] = OnEnd(Append(rows, row))
  <2>1. Following(text, here + 1) = LF /\ here < Len(text)
    BY <1>13 DEF Following
  <2>2. After(text)[here + 1] = ReadChar(After(text)[here], CR, LF)
    BY <1>13, <1>14, <2>1, NextChar
  <2>3. ReadChar(After(text)[here], CR, LF) = OnEnd(Append(rows, Append(before, last)))
    <3> DEFINE p == After(text)[here]
    <3>1. before # <<>> /\ InField(p, rows, before, last)
      BY <1>12, <1>14
    <3> HIDE DEF p
    <3>2. ReadChar(p, CR, LF) = OnEnd(Append(rows, Append(before, last)))
      BY ONLY <3>1, ReadsEnd
    <3> QED  BY <3>2 DEF p
  <2> QED  BY <1>12, <2>2, <2>3
<1>16. After(text)[(here + 1) + 1] = RowStart(Append(rows, row))
  <2>1. here + 1 \in Nat
    BY <1>13
  <2> QED  BY <1>13, <1>15, <2>1, NextChar, ReadsNextRow
<1> QED  BY <1>3, <1>13, <1>16

\* What writeCsv makes of any rows, parseRows reads back as those rows, whatever separators,
\* quotes and line endings their cells hold, when no row is a single cell (csv.ts:13, :126).
THEOREM TableRead ==
  ASSUME NEW X, Specials \subseteq X, NEW rows \in Seq(Seq(Seq(X))),
         \A i \in 1..Len(rows) : Len(rows[i]) >= 2
  PROVE  ParseRows(WriteCsv(rows)) = rows
<1> DEFINE lines == [i \in DOMAIN rows |-> WriteRow(rows[i])]
           n == Len(rows)
           text == WriteCsv(rows)
<1>1. /\ n \in Nat /\ lines \in Seq(Seq(X)) /\ Len(lines) = n
      /\ \A i \in 1..n : lines[i] = WriteRow(rows[i]) /\ rows[i] \in Seq(Seq(X))
  <2>1. n \in Nat /\ DOMAIN rows = 1..n /\ \A i \in 1..n : rows[i] \in Seq(Seq(X))
    OBVIOUS
  <2>2. \A i \in 1..n : lines[i] = WriteRow(rows[i])
    BY <2>1
  <2>3. ASSUME NEW i \in 1..n
        PROVE  WriteRow(rows[i]) \in Seq(X)
    <3> DEFINE row == rows[i]
    <3>1. row \in Seq(Seq(X))
      BY <2>1
    <3> HIDE DEF row
    <3> QED  BY <3>1, RowsAreTexts DEF row
  <2>4. lines \in [1..n -> Seq(X)]
    BY <2>1, <2>3
  <2> HIDE DEF lines, n
  <2>5. lines \in Seq(Seq(X)) /\ Len(lines) = n
    BY <2>1, <2>4
  <2> QED  BY <2>1, <2>2, <2>5
<1>2. text = FlattenSeq(lines)
  BY DEF WriteCsv
<1> HIDE DEF lines, n, text
<1>3. text \in Seq(X) /\ Len(text) \in Nat /\ Holds(text, 0, FlattenSeq(lines))
  <2>1. text \in Seq(X)
    BY <1>1, <1>2, FlatIs
  <2>2. Holds(text, 0, text) /\ Len(text) \in Nat
    BY <2>1 DEF Holds
  <2> QED  BY <1>2, <2>1, <2>2
<1>4. PICK o \in [0..n -> Nat] :
        /\ o[0] = 0 /\ o[n] = Len(text)
        /\ \A j \in 0..(n - 1) : o[j + 1] = o[j] + Len(lines[j + 1]) /\ Holds(text, o[j], lines[j + 1])
  <2>1. PICK o : Starts(text, 0, lines, o)
    BY <1>1, <1>3, HoldsParts
  <2>2. /\ o \in [0..n -> Nat] /\ o[0] = 0 /\ o[n] = 0 + Len(text)
        /\ \A j \in 0..(n - 1) : o[j + 1] = o[j] + Len(lines[j + 1]) /\ Holds(text, o[j], lines[j + 1])
    BY <1>1, <1>2, <2>1 DEF Starts
  <2>3. 0 + Len(text) = Len(text)
    BY <1>3
  <2> QED  BY <2>2, <2>3
<1> DEFINE there == {j \in 0..n : After(text)[o[j]] = RowStart(SubSeq(rows, 1, j))}
<1>5. 0 \in there
  <2>1. After(text)[0] = RowStart(<<>>)
    BY <1>3, AfterIs DEF Blank, RowStart, At
  <2>2. After(text)[o[0]] = RowStart(SubSeq(rows, 1, 0))
    BY <1>4, <2>1, GrowsBy
  <2> QED  BY <1>1, <2>2
<1>6. ASSUME NEW j \in 0..(n - 1), j \in there
      PROVE  j + 1 \in there
  <2> DEFINE here == o[j]
             row == rows[j + 1]
             before == SubSeq(rows, 1, j)
  <2>1. j + 1 \in 1..n /\ j + 1 \in 0..n /\ here \in Nat
    <3>1. j \in 0..n
      BY <1>1
    <3> QED  BY <1>1, <1>4, <3>1
  <2>2. row \in Seq(Seq(X)) /\ Len(row) >= 2
    BY <1>1, <2>1 DEF n
  <2>3. Holds(text, here, WriteRow(row)) /\ o[j + 1] = here + Len(WriteRow(row))
    BY <1>1, <1>4, <2>1
  <2>4. After(text)[here] = RowStart(before) /\ SubSeq(rows, 1, j + 1) = Append(before, row)
    BY <1>6, GrowsBy DEF n
  <2> HIDE DEF here, row, before
  <2>5. After(text)[o[j + 1]] = RowStart(Append(before, row))
    <3>1. After(text)[here + Len(WriteRow(row))] = RowStart(Append(before, row))
      <4>1. RowAhead(X, text, here, row, before)
        BY <2>2, <2>3, <2>4 DEF RowAhead
      <4> QED  BY <1>3, <2>1, <4>1, RowRead, SMTT(30)
    <3> QED  BY <2>3, <3>1
  <2> QED  BY <2>1, <2>4, <2>5
<1>7. After(text)[Len(text)] = RowStart(rows)
  <2> HIDE DEF there
  <2>1. \A j \in 0..n : j \in there
    BY <1>1, <1>5, <1>6, UpTo
  <2>2. n \in there
    BY <1>1, <2>1
  <2> QED  BY <1>4, <2>2, GrowsBy DEF there, n
<1>8. EndRow(RowStart(rows)).rows = rows
  BY DEF EndRow, RowStart, At
<1> QED  BY <1>7, <1>8 DEF ParseRows, text

-----------------------------------------------------------------------------
\* Every list comes back

Chars == Specials \union (UNION {ToSet(c) : c \in Cells}) \union {"a"}

\* The lists of an instance are rows of two texts and more.
LEMMA TablesAre ==
  ASSUME NEW t \in Tables
  PROVE  t \in Seq(Seq(Seq(Chars))) /\ \A i \in 1..Len(t) : Len(t[i]) >= 2
<1> DEFINE listed(w, h) == {<<[i \in 1..w |-> <<"a">>]>> \o rows : rows \in [1..h -> [1..w -> Cells]]}
<1>1. PICK w \in Widths, h \in Heights : t \in listed(w, h)
  <2>1. Tables = UNION {listed(w, h) : w \in Widths, h \in Heights}
    BY DEF Tables
  <2> HIDE DEF listed
  <2> QED  BY <2>1
<1>2. PICK rows \in [1..h -> [1..w -> Cells]] : t = <<[i \in 1..w |-> <<"a">>]>> \o rows
  BY <1>1
<1>3. w \in Nat /\ w >= 2 /\ h \in Nat /\ \A c \in Cells : c \in Seq(ToSet(c))
  BY CsvAssumption
<1>4. \A c \in Cells : c \in Seq(Chars)
  <2> TAKE c \in Cells
  <2>1. c \in Seq(ToSet(c)) /\ ToSet(c) \subseteq Chars
    BY <1>3 DEF Chars
  <2> QED  BY <2>1
<1>5. \A row \in [1..w -> Seq(Chars)] : row \in Seq(Seq(Chars)) /\ Len(row) = w
  BY <1>3
<1> DEFINE header == [i \in 1..w |-> <<"a">>]
<1>6. header \in [1..w -> Seq(Chars)]
  <2>1. "a" \in Chars
    BY DEF Chars
  <2>2. <<"a">> \in Seq(Chars)
    BY <2>1
  <2> QED  BY <2>2
<1>7. \A i \in 1..h : rows[i] \in [1..w -> Seq(Chars)]
  BY <1>2, <1>4
<1> DEFINE wide == {row \in Seq(Seq(Chars)) : Len(row) = w}
<1>8. header \in wide /\ rows \in [1..h -> wide]
  BY <1>2, <1>5, <1>6, <1>7
<1> HIDE DEF header, wide
<1>9. <<header>> \in Seq(wide) /\ rows \in Seq(wide)
  BY <1>3, <1>8
<1>10. t \in Seq(wide)
  BY <1>2, <1>9 DEF header
<1>11. wide \subseteq Seq(Seq(Chars)) /\ \A row \in wide : Len(row) >= 2
  BY <1>3 DEF wide
<1> QED  BY <1>10, <1>11

CsvInv == table \in Tables /\ ListsComeBack

\* A list that is written and read again is the same list, of any cells, columns and rows.
THEOREM ListsAlwaysComeBack == CsvSpec => []ListsComeBack
<1>1. CsvInit => CsvInv
  BY DEF CsvInit, CsvInv, ListsComeBack
<1>2. CsvInv /\ [Exchange]_csvVars => CsvInv'
  <2> SUFFICES ASSUME CsvInv, [Exchange]_csvVars
               PROVE  CsvInv'
    OBVIOUS
  <2>1. CASE Exchange
    <3>1. table' = table /\ read' = ParseRows(WriteCsv(table))
      BY <2>1 DEF Exchange
    <3>2. /\ Specials \subseteq Chars /\ table \in Seq(Seq(Seq(Chars)))
          /\ \A i \in 1..Len(table) : Len(table[i]) >= 2
      <4>1. table \in Tables
        BY DEF CsvInv
      <4>2. Specials \subseteq Chars
        BY DEF Chars
      <4> QED  BY <4>1, <4>2, TablesAre
    <3>3. ParseRows(WriteCsv(table)) = table
      BY <3>2, TableRead
    <3> QED  BY <3>1, <3>3 DEF CsvInv, ListsComeBack
  <2>2. CASE UNCHANGED csvVars
    BY <2>2 DEF CsvInv, ListsComeBack, csvVars
  <2> QED  BY <2>1, <2>2
<1>3. CsvInv => ListsComeBack
  BY DEF CsvInv
<1> QED  BY <1>1, <1>2, <1>3, PTL DEF CsvSpec

-----------------------------------------------------------------------------
\* The likeness of two names: functions defined one value after the other

\* What a function over the numbers is defined by, each value from the one before.
Steps(k, V, v0, turn) == k \in Nat /\ v0 \in V /\ turn \in [1..k -> [V -> V]]
Stepped(f, k, V, v0, turn) ==
  f \in [0..k -> V] /\ f[0] = v0 /\ \A i \in 1..k : f[i] = turn[i][f[i - 1]]

\* Such a function exists.
LEMMA StepByStep ==
  ASSUME NEW k, NEW V, NEW v0, NEW turn, Steps(k, V, v0, turn)
  PROVE  \E f : Stepped(f, k, V, v0, turn)
<1>0. k \in Nat /\ v0 \in V /\ turn \in [1..k -> [V -> V]]
  BY DEF Steps
<1> DEFINE good(f, n) == f[0] = v0 /\ \A i \in 1..n : f[i] = turn[i][f[i - 1]]
           there == {n \in 0..k : \E f \in [0..n -> V] : good(f, n)}
<1>1. 0 \in there
  <2>1. good([i \in 0..0 |-> v0], 0) /\ [i \in 0..0 |-> v0] \in [0..0 -> V]
    BY <1>0
  <2> HIDE DEF good
  <2> QED  BY <1>0, <2>1
<1>2. ASSUME NEW n \in 0..(k - 1), n \in there
      PROVE  n + 1 \in there
  <2>1. PICK f \in [0..n -> V] : good(f, n)
    BY <1>2
  <2> DEFINE g == [i \in 0..(n + 1) |-> IF i = n + 1 THEN turn[n + 1][f[n]] ELSE f[i]]
  <2>2. n \in Nat /\ n + 1 \in 1..k /\ f[n] \in V /\ turn[n + 1] \in [V -> V]
    BY <1>0
  <2>3. turn[n + 1][f[n]] \in V
    BY <2>2
  <2>4. g \in [0..(n + 1) -> V]
    BY <2>2, <2>3
  <2>5. g[n + 1] = turn[n + 1][f[n]] /\ \A i \in 0..n : g[i] = f[i]
    BY <2>2
  <2> HIDE DEF g
  <2>6. g[0] = v0
    BY <2>1, <2>2, <2>5
  <2>7. ASSUME NEW i \in 1..(n + 1)
        PROVE  g[i] = turn[i][g[i - 1]]
    <3>1. CASE i = n + 1
      <4>1. i - 1 = n /\ n \in 0..n
        BY <2>2, <3>1
      <4> QED  BY <2>5, <3>1, <4>1
    <3>2. CASE i \in 1..n
      <4>1. i - 1 \in 0..n /\ i \in 0..n
        BY <2>2, <3>2
      <4> QED  BY <2>1, <2>5, <3>2, <4>1
    <3> QED  BY <2>2, <3>1, <3>2
  <2>8. good(g, n + 1)
    BY <2>6, <2>7
  <2> HIDE DEF good
  <2> QED  BY <2>2, <2>4, <2>8
<1>3. \A n \in 0..k : n \in there
  <2> HIDE DEF there
  <2> QED  BY <1>0, <1>1, <1>2, UpTo
<1>4. k \in there
  BY <1>0, <1>3
<1> QED  BY <1>4 DEF Stepped

-----------------------------------------------------------------------------
\* The blocks of a window

Win(a, b, alo, ahi, blo, bhi) ==
  /\ a \in Seq(Nat) /\ b \in Seq(Nat)
  /\ alo \in 1..Len(a)+1 /\ ahi \in 0..Len(a) /\ blo \in 1..Len(b)+1 /\ bhi \in 0..Len(b)

\* Row after row, the lengths are those of the blocks that end a character before, and one.
LEMMA LengthsAre ==
  ASSUME NEW a, NEW b, NEW alo, NEW ahi, NEW blo, NEW bhi, Win(a, b, alo, ahi, blo, bhi)
  PROVE  LET row == BlockLengths(a, b, alo, ahi, blo, bhi) IN
         \A i \in 0..ahi, j \in 0..bhi :
           /\ row[i][j] \in Nat
           /\ row[i][j] = IF i < alo \/ j < blo \/ a[i] # b[j] THEN 0 ELSE 1 + row[i - 1][j - 1]
<1> DEFINE V == [0..bhi -> Nat]
           follow(v, i) == [j \in 0..bhi |-> IF i < alo \/ j < blo \/ a[i] # b[j] THEN 0 ELSE 1 + v[j - 1]]
           turn == [i \in 1..ahi |-> [v \in V |-> follow(v, i)]]
           body(f) == [i \in 0..ahi |-> follow(f[i - 1], i)]
           zero == [j \in 0..bhi |-> 0]
<1>1. alo \in Nat \ {0} /\ blo \in Nat \ {0} /\ ahi \in Nat /\ bhi \in Nat
  BY DEF Win
<1>2. \A v \in V, i \in 1..ahi : follow(v, i) \in V
  <2> TAKE v \in V, i \in 1..ahi
  <2>1. ASSUME NEW j \in 0..bhi
        PROVE  (IF i < alo \/ j < blo \/ a[i] # b[j] THEN 0 ELSE 1 + v[j - 1]) \in Nat
    <3>1. CASE i < alo \/ j < blo \/ a[i] # b[j]
      BY <3>1
    <3>2. CASE ~(i < alo \/ j < blo \/ a[i] # b[j])
      <4>1. j - 1 \in 0..bhi
        BY <1>1, <3>2
      <4>2. v[j - 1] \in Nat
        BY <4>1
      <4> QED  BY <3>2, <4>2
    <3> QED  BY <3>1, <3>2
  <2> QED  BY <2>1
<1>3. \A v : follow(v, 0) = zero
  BY <1>1
<1>4. zero \in V
  OBVIOUS
<1> HIDE DEF follow, V, zero
<1>5. turn \in [1..ahi -> [V -> V]]
  BY <1>2
<1>6. PICK f : f \in [0..ahi -> V] /\ f[0] = zero /\ \A i \in 1..ahi : f[i] = turn[i][f[i - 1]]
  <2>1. Steps(ahi, V, zero, turn)
    BY <1>1, <1>4, <1>5 DEF Steps
  <2> HIDE DEF turn
  <2>2. \E f : Stepped(f, ahi, V, zero, turn)
    BY <2>1, StepByStep
  <2> QED  BY <2>2 DEF Stepped
<1>7. f = body(f)
  <2>1. ASSUME NEW i \in 0..ahi
        PROVE  f[i] = follow(f[i - 1], i)
    <3>1. CASE i = 0
      BY <1>3, <1>6, <3>1
    <3>2. CASE i \in 1..ahi
      <4>1. i - 1 \in 0..ahi
        BY <1>1, <3>2
      <4>2. f[i - 1] \in V
        BY <1>6, <4>1
      <4> QED  BY <1>6, <3>2, <4>2
    <3> QED  BY <1>1, <3>1, <3>2
  <2> QED  BY <1>6, <2>1
<1> DEFINE row == BlockLengths(a, b, alo, ahi, blo, bhi)
<1>8. row = body(row)
  BY <1>7 DEF BlockLengths, follow
<1> HIDE DEF row
<1>9. \A i \in 0..ahi : row[i] = follow(row[i - 1], i)
  BY <1>8
<1> DEFINE typed == {i \in 0..ahi : row[i] \in V}
<1>10. \A i \in 0..ahi : i \in typed
  <2>1. 0 \in typed
    BY <1>1, <1>3, <1>4, <1>9
  <2>2. ASSUME NEW n \in 0..(ahi - 1), n \in typed
        PROVE  n + 1 \in typed
    <3>1. n + 1 \in 1..ahi /\ n + 1 \in 0..ahi /\ (n + 1) - 1 = n /\ row[n] \in V
      BY <1>1, <2>2
    <3>2. row[n + 1] = follow(row[n], n + 1)
      BY <1>9, <3>1
    <3> QED  BY <1>2, <3>1, <3>2
  <2> HIDE DEF typed
  <2> QED  BY <1>1, <2>1, <2>2, UpTo
<1> SUFFICES ASSUME NEW i \in 0..ahi, NEW j \in 0..bhi
             PROVE  /\ row[i][j] \in Nat
                    /\ row[i][j] = IF i < alo \/ j < blo \/ a[i] # b[j] THEN 0 ELSE 1 + row[i - 1][j - 1]
  BY DEF row
<1>11. row[i] \in V
  BY <1>10
<1> QED  BY <1>9, <1>11 DEF V, follow

\* A set of numbers up to k has a greatest one.
LEMMA GreatestUpTo ==
  ASSUME NEW k \in Nat, NEW S, S \subseteq 0..k, S # {}
  PROVE  /\ Max(S) \in S
         /\ \A n \in S : n <= Max(S)
<1> DEFINE T == {k - n : n \in S}
<1>1. T \subseteq Nat /\ T # {}
  <2>1. \A n \in S : k - n \in Nat
    OBVIOUS
  <2> QED  BY <2>1
<1> HIDE DEF T
<1>2. Min(T) \in T /\ \A n \in T : Min(T) <= n
  BY <1>1, LeastOf
<1>3. PICK m \in S : Min(T) = k - m
  BY <1>2 DEF T
<1>4. \A n \in S : n <= m
  <2> TAKE n \in S
  <2>1. k - n \in T
    BY DEF T
  <2> QED  BY <1>2, <1>3, <2>1
<1> QED  BY <1>3, <1>4 DEF Max

\* One pair of numbers before or at another, the first ones first.
Before(e, f) == e[1] < f[1] \/ (e[1] = f[1] /\ e[2] <= f[2])

\* A set of pairs has a first one, and only one.
LEMMA FirstOf ==
  ASSUME NEW S, S \subseteq Nat \X Nat, S # {}
  PROVE  \E e \in S : \A f \in S : Before(e, f)
<1> DEFINE X == {e[1] : e \in S}
<1>1. X \subseteq Nat /\ X # {}
  OBVIOUS
<1> HIDE DEF X
<1>2. Min(X) \in X /\ \A n \in X : Min(X) <= n
  BY <1>1, LeastOf
<1>3. PICK e1 \in S : e1[1] = Min(X)
  BY <1>2 DEF X
<1> DEFINE Y == {e[2] : e \in {f \in S : f[1] = Min(X)}}
<1>4. Y \subseteq Nat /\ Y # {}
  BY <1>3
<1> HIDE DEF Y
<1>5. Min(Y) \in Y /\ \A n \in Y : Min(Y) <= n
  BY <1>4, LeastOf
<1>6. PICK e \in S : e[1] = Min(X) /\ e[2] = Min(Y)
  BY <1>5 DEF Y
<1>7. ASSUME NEW f \in S
      PROVE  Before(e, f)
  <2>1. f[1] \in Nat /\ f[2] \in Nat /\ f[1] \in X /\ e[1] \in Nat /\ e[2] \in Nat
    BY DEF X
  <2>2. e[1] <= f[1]
    BY <1>2, <1>6, <2>1
  <2>3. CASE f[1] = e[1]
    <3>1. f[2] \in Y
      BY <1>6, <2>3 DEF Y
    <3>2. e[2] <= f[2]
      BY <1>5, <1>6, <3>1
    <3> QED  BY <2>3, <3>2 DEF Before
  <2> QED  BY <2>1, <2>2, <2>3 DEF Before
<1> QED  BY <1>7

\* The k characters that end at i and at j, and those that start there, are the same.
EndRun(a, b, i, j, k) == \A d \in 0..(k - 1) : a[i - d] = b[j - d]
Run(a, b, i, j, k) == \A d \in 0..(k - 1) : a[i + d] = b[j + d]

LEMMA RunsEnd ==
  ASSUME NEW a, NEW b, NEW i \in Int, NEW j \in Int, NEW k \in Nat
  PROVE  EndRun(a, b, i, j, k) <=> Run(a, b, (i - k) + 1, (j - k) + 1, k)
<1>1. ASSUME EndRun(a, b, i, j, k), NEW d \in 0..(k - 1)
      PROVE  a[((i - k) + 1) + d] = b[((j - k) + 1) + d]
  <2>1. (k - 1) - d \in 0..(k - 1)
    OBVIOUS
  <2>2. a[i - ((k - 1) - d)] = b[j - ((k - 1) - d)]
    BY <1>1, <2>1 DEF EndRun
  <2>3. i - ((k - 1) - d) = ((i - k) + 1) + d /\ j - ((k - 1) - d) = ((j - k) + 1) + d
    OBVIOUS
  <2> QED  BY <2>2, <2>3
<1>2. ASSUME Run(a, b, (i - k) + 1, (j - k) + 1, k), NEW d \in 0..(k - 1)
      PROVE  a[i - d] = b[j - d]
  <2>1. (k - 1) - d \in 0..(k - 1)
    OBVIOUS
  <2>2. a[((i - k) + 1) + ((k - 1) - d)] = b[((j - k) + 1) + ((k - 1) - d)]
    BY <1>2, <2>1 DEF Run
  <2>3. ((i - k) + 1) + ((k - 1) - d) = i - d /\ ((j - k) + 1) + ((k - 1) - d) = j - d
    OBVIOUS
  <2> QED  BY <2>2, <2>3
<1> QED  BY <1>1, <1>2 DEF EndRun, Run

\* How long the longest block of the window is that ends at i and j.
Longest(a, b, alo, blo, i, j, n) ==
  /\ n \in Nat /\ EndRun(a, b, i, j, n)
  /\ n # 0 => n <= (i - alo) + 1 /\ n <= (j - blo) + 1
  /\ \A k \in Nat \ {0} : k <= (i - alo) + 1 /\ k <= (j - blo) + 1 /\ EndRun(a, b, i, j, k) => k <= n

LEMMA LengthsAreLongest ==
  ASSUME NEW a, NEW b, NEW alo, NEW ahi, NEW blo, NEW bhi, Win(a, b, alo, ahi, blo, bhi),
         NEW i \in 0..ahi, NEW j \in 0..bhi
  PROVE  Longest(a, b, alo, blo, i, j, BlockLengths(a, b, alo, ahi, blo, bhi)[i][j])
<1> DEFINE row == BlockLengths(a, b, alo, ahi, blo, bhi)
           good == {x \in 0..ahi : \A y \in 0..bhi : Longest(a, b, alo, blo, x, y, row[x][y])}
<1>1. /\ alo \in Nat \ {0} /\ blo \in Nat \ {0} /\ ahi \in Nat /\ bhi \in Nat
  BY DEF Win
<1>2. \A x \in 0..ahi, y \in 0..bhi :
        /\ row[x][y] \in Nat
        /\ row[x][y] = IF x < alo \/ y < blo \/ a[x] # b[y] THEN 0 ELSE 1 + row[x - 1][y - 1]
  BY LengthsAre
<1> HIDE DEF row
<1>3. ASSUME NEW x \in 0..ahi, NEW y \in 0..bhi, x < alo \/ y < blo \/ a[x] # b[y]
      PROVE  Longest(a, b, alo, blo, x, y, row[x][y])
  <2>1. row[x][y] = 0
    BY <1>2, <1>3
  <2>2. EndRun(a, b, x, y, 0)
    BY DEF EndRun
  <2>3. ASSUME NEW k \in Nat \ {0}, k <= (x - alo) + 1, k <= (y - blo) + 1, EndRun(a, b, x, y, k)
        PROVE  FALSE
    <3>1. 0 \in 0..(k - 1) /\ x - 0 = x /\ y - 0 = y
      OBVIOUS
    <3>2. a[x] = b[y]
      BY <2>3, <3>1 DEF EndRun
    <3>3. ~(x < alo) /\ ~(y < blo)
      BY <1>1, <2>3
    <3> QED  BY <1>3, <3>2, <3>3
  <2> QED  BY <2>1, <2>2, <2>3 DEF Longest
<1>4. ASSUME NEW x \in 0..ahi, NEW y \in 0..bhi, ~(x < alo \/ y < blo \/ a[x] # b[y]),
             Longest(a, b, alo, blo, x - 1, y - 1, row[x - 1][y - 1])
      PROVE  Longest(a, b, alo, blo, x, y, row[x][y])
  <2> DEFINE n == row[x - 1][y - 1]
  <2>1. row[x][y] = 1 + n /\ a[x] = b[y] /\ alo <= x /\ blo <= y
    BY <1>1, <1>2, <1>4
  <2>0. Longest(a, b, alo, blo, x - 1, y - 1, n)
    BY <1>4
  <2> HIDE DEF n
  <2>2. /\ n \in Nat /\ EndRun(a, b, x - 1, y - 1, n)
        /\ n # 0 => n <= ((x - 1) - alo) + 1 /\ n <= ((y - 1) - blo) + 1
        /\ \A k \in Nat \ {0} :
             k <= ((x - 1) - alo) + 1 /\ k <= ((y - 1) - blo) + 1 /\ EndRun(a, b, x - 1, y - 1, k) => k <= n
    BY <2>0 DEF Longest
  <2>3. EndRun(a, b, x, y, 1 + n)
    <3> SUFFICES ASSUME NEW d \in 0..n PROVE a[x - d] = b[y - d]
      BY <2>2 DEF EndRun
    <3>1. CASE d = 0
      BY <2>1, <3>1
    <3>2. CASE d \in 1..n
      <4>1. d - 1 \in 0..(n - 1) /\ (x - 1) - (d - 1) = x - d /\ (y - 1) - (d - 1) = y - d
        BY <2>2, <3>2
      <4>2. a[(x - 1) - (d - 1)] = b[(y - 1) - (d - 1)]
        BY <2>2, <4>1 DEF EndRun
      <4> QED  BY <4>1, <4>2
    <3> QED  BY <2>2, <3>1, <3>2
  <2>4. 1 + n <= (x - alo) + 1 /\ 1 + n <= (y - blo) + 1
    BY <1>1, <2>1, <2>2
  <2>5. ASSUME NEW k \in Nat \ {0}, k <= (x - alo) + 1, k <= (y - blo) + 1, EndRun(a, b, x, y, k)
        PROVE  k <= 1 + n
    <3>1. CASE k = 1
      BY <2>2, <3>1
    <3>2. CASE k # 1
      <4>1. k - 1 \in Nat \ {0} /\ k - 1 <= ((x - 1) - alo) + 1 /\ k - 1 <= ((y - 1) - blo) + 1
        BY <1>1, <2>5, <3>2
      <4>2. EndRun(a, b, x - 1, y - 1, k - 1)
        <5> SUFFICES ASSUME NEW d \in 0..((k - 1) - 1) PROVE a[(x - 1) - d] = b[(y - 1) - d]
          BY DEF EndRun
        <5>1. d + 1 \in 0..(k - 1) /\ x - (d + 1) = (x - 1) - d /\ y - (d + 1) = (y - 1) - d
          BY <4>1
        <5>2. a[x - (d + 1)] = b[y - (d + 1)]
          BY <2>5, <5>1 DEF EndRun
        <5> QED  BY <5>1, <5>2
      <4>3. k - 1 <= n
        BY <2>2, <4>1, <4>2
      <4> QED  BY <2>2, <4>3
    <3> QED  BY <3>1, <3>2
  <2> QED  BY <2>1, <2>2, <2>3, <2>4, <2>5 DEF Longest
<1>5. \A x \in 0..ahi : x \in good
  <2>1. 0 \in good
    <3>1. 0 \in 0..ahi /\ 0 < alo
      BY <1>1
    <3> QED  BY <1>3, <3>1
  <2>2. ASSUME NEW n \in 0..(ahi - 1), n \in good
        PROVE  n + 1 \in good
    <3>1. n + 1 \in 0..ahi /\ (n + 1) - 1 = n
      BY <1>1
    <3>2. ASSUME NEW y \in 0..bhi
          PROVE  Longest(a, b, alo, blo, n + 1, y, row[n + 1][y])
      <4>1. CASE n + 1 < alo \/ y < blo \/ a[n + 1] # b[y]
        BY <1>3, <3>1, <4>1
      <4>2. CASE ~(n + 1 < alo \/ y < blo \/ a[n + 1] # b[y])
        <5>1. y - 1 \in 0..bhi
          BY <1>1, <4>2
        <5>2. Longest(a, b, alo, blo, n, y - 1, row[n][y - 1])
          BY <2>2, <5>1
        <5> QED  BY <1>4, <3>1, <4>2, <5>2
      <4> QED  BY <4>1, <4>2
    <3> QED  BY <3>1, <3>2
  <2> HIDE DEF good
  <2> QED  BY <1>1, <2>1, <2>2, UpTo
<1> QED  BY <1>5 DEF row

\* A block of the window: k characters of a from i on that are those of b from j on.
Block(a, b, alo, ahi, blo, bhi, i, j, k) ==
  /\ i \in Nat /\ j \in Nat /\ k \in Nat \ {0}
  /\ alo <= i /\ (i + k) - 1 <= ahi /\ blo <= j /\ (j + k) - 1 <= bhi
  /\ Run(a, b, i, j, k)

\* The block that counts: none is longer, and none as long comes before.
TheBlock(a, b, alo, ahi, blo, bhi, i, j, k) ==
  /\ Block(a, b, alo, ahi, blo, bhi, i, j, k)
  /\ \A x, y, l : Block(a, b, alo, ahi, blo, bhi, x, y, l) =>
                    l <= k /\ (l = k => i < x \/ (i = x /\ j <= y))

\* A block is no longer than the longest that ends where it does.
LEMMA BlocksEnd ==
  ASSUME NEW a, NEW b, NEW alo, NEW ahi, NEW blo, NEW bhi, Win(a, b, alo, ahi, blo, bhi),
         NEW i, NEW j, NEW k, Block(a, b, alo, ahi, blo, bhi, i, j, k)
  PROVE  /\ (i + k) - 1 \in alo..ahi /\ (j + k) - 1 \in blo..bhi
         /\ k <= BlockLengths(a, b, alo, ahi, blo, bhi)[(i + k) - 1][(j + k) - 1]
<1> DEFINE x == (i + k) - 1
           y == (j + k) - 1
           n == BlockLengths(a, b, alo, ahi, blo, bhi)[x][y]
<1>1. /\ alo \in Nat \ {0} /\ blo \in Nat \ {0} /\ ahi \in Nat /\ bhi \in Nat
      /\ i \in Nat /\ j \in Nat /\ k \in Nat \ {0}
      /\ alo <= i /\ (i + k) - 1 <= ahi /\ blo <= j /\ (j + k) - 1 <= bhi
  <2>1. alo \in Nat \ {0} /\ blo \in Nat \ {0} /\ ahi \in Nat /\ bhi \in Nat
    BY DEF Win
  <2> QED  BY <2>1 DEF Block
<1>2. x \in alo..ahi /\ y \in blo..bhi /\ x \in 0..ahi /\ y \in 0..bhi
  BY <1>1
<1>3. Longest(a, b, alo, blo, x, y, n)
  BY <1>2, LengthsAreLongest
<1>4. EndRun(a, b, x, y, k)
  <2>1. (x - k) + 1 = i /\ (y - k) + 1 = j /\ x \in Int /\ y \in Int /\ k \in Nat
    BY <1>1
  <2>2. Run(a, b, (x - k) + 1, (y - k) + 1, k)
    BY <2>1 DEF Block
  <2> HIDE DEF x, y
  <2> QED  BY <2>1, <2>2, RunsEnd
<1>5. k <= (x - alo) + 1 /\ k <= (y - blo) + 1
  BY <1>1
<1> HIDE DEF n
<1>6. k <= n
  <2> HIDE DEF x, y
  <2> QED  BY <1>1, <1>3, <1>4, <1>5 DEF Longest
<1> QED  BY <1>2, <1>6 DEF n

\* longestMatch finds it, when the window has a block.
LEMMA HitIs ==
  ASSUME NEW a, NEW b, NEW alo, NEW ahi, NEW blo, NEW bhi, Win(a, b, alo, ahi, blo, bhi)
  PROVE  LET h == LongestMatch(a, b, alo, ahi, blo, bhi) IN
         \/ h.k = 0 /\ \A i, j, k : ~Block(a, b, alo, ahi, blo, bhi, i, j, k)
         \/ h.k # 0 /\ TheBlock(a, b, alo, ahi, blo, bhi, h.i, h.j, h.k)
<1> DEFINE row == BlockLengths(a, b, alo, ahi, blo, bhi)
           ends == (alo..ahi) \X (blo..bhi)
           sizes == {0} \union {row[e[1]][e[2]] : e \in ends}
           best == Max(sizes)
           firsts == {f \in ends : row[f[1]][f[2]] = best}
           first == CHOOSE e \in firsts :
                      \A f \in firsts : e[1] < f[1] \/ (e[1] = f[1] /\ e[2] <= f[2])
           h == LongestMatch(a, b, alo, ahi, blo, bhi)
<1>1. alo \in Nat \ {0} /\ blo \in Nat \ {0} /\ ahi \in Nat /\ bhi \in Nat
  BY DEF Win
<1>2. h = IF best = 0 THEN [i |-> alo, j |-> blo, k |-> 0]
          ELSE [i |-> first[1] - best + 1, j |-> first[2] - best + 1, k |-> best]
  BY DEF LongestMatch
<1>3. \A x \in alo..ahi, y \in blo..bhi : Longest(a, b, alo, blo, x, y, row[x][y])
  <2>1. \A x \in alo..ahi, y \in blo..bhi : x \in 0..ahi /\ y \in 0..bhi
    BY <1>1
  <2> QED  BY <2>1, LengthsAreLongest
<1>4. \A i, j, k : Block(a, b, alo, ahi, blo, bhi, i, j, k) =>
        /\ (i + k) - 1 \in alo..ahi /\ (j + k) - 1 \in blo..bhi
        /\ k <= row[(i + k) - 1][(j + k) - 1]
  BY BlocksEnd
<1> HIDE DEF row, h
<1>5. \A x \in alo..ahi, y \in blo..bhi : row[x][y] \in 0..ahi
  <2> TAKE x \in alo..ahi, y \in blo..bhi
  <2>1. row[x][y] \in Nat /\ (row[x][y] # 0 => row[x][y] <= (x - alo) + 1)
    BY <1>3 DEF Longest
  <2> QED  BY <1>1, <2>1
<1>6. best \in sizes /\ \A n \in sizes : n <= best
  <2>1. sizes \subseteq 0..ahi /\ sizes # {}
    BY <1>1, <1>5
  <2> HIDE DEF sizes
  <2> QED  BY <1>1, <2>1, GreatestUpTo
<1>7. best \in Nat /\ \A x \in alo..ahi, y \in blo..bhi : row[x][y] <= best
  <2>1. \A x \in alo..ahi, y \in blo..bhi : <<x, y>> \in ends /\ <<x, y>>[1] = x /\ <<x, y>>[2] = y
    OBVIOUS
  <2>2. \A x \in alo..ahi, y \in blo..bhi : row[x][y] \in sizes
    <3> TAKE x \in alo..ahi, y \in blo..bhi
    <3> DEFINE e == <<x, y>>
    <3>1. e \in ends /\ e[1] = x /\ e[2] = y
      OBVIOUS
    <3> HIDE DEF ends, e
    <3>2. row[e[1]][e[2]] \in sizes
      BY <3>1
    <3> QED  BY <3>1, <3>2
  <2> HIDE DEF best
  <2>3. best \in Nat
    BY <1>1, <1>5, <1>6
  <2> HIDE DEF sizes
  <2> QED  BY <1>6, <2>2, <2>3
<1>8. best # 0 => firsts # {}
  <2> HIDE DEF best
  <2> QED  BY <1>6
<1> HIDE DEF best
<1>9. CASE best = 0
  <2>1. h.k = 0
    BY <1>2, <1>9
  <2>2. ASSUME NEW i, NEW j, NEW k, Block(a, b, alo, ahi, blo, bhi, i, j, k)
        PROVE  FALSE
    <3>1. k \in Nat \ {0}
      BY <2>2 DEF Block
    <3>2. k <= row[(i + k) - 1][(j + k) - 1] /\ row[(i + k) - 1][(j + k) - 1] <= 0
          /\ row[(i + k) - 1][(j + k) - 1] \in Nat
      BY <1>4, <1>5, <1>7, <1>9, <2>2
    <3> QED  BY <3>1, <3>2
  <2> QED  BY <2>1, <2>2 DEF h
<1>10. CASE best # 0
  <2>1. firsts \subseteq Nat \X Nat /\ firsts # {}
    BY <1>1, <1>8, <1>10
  <2> HIDE DEF firsts
  <2>2. \E e \in firsts : \A f \in firsts : e[1] < f[1] \/ (e[1] = f[1] /\ e[2] <= f[2])
    BY <2>1, FirstOf DEF Before
  <2>3. first \in firsts /\ \A f \in firsts : first[1] < f[1] \/ (first[1] = f[1] /\ first[2] <= f[2])
    BY <2>2
  <2> HIDE DEF first
  <2>4. /\ first[1] \in alo..ahi /\ first[2] \in blo..bhi
        /\ row[first[1]][first[2]] = best
    BY <2>3 DEF firsts
  <2> DEFINE i == first[1] - best + 1
             j == first[2] - best + 1
  <2>5. h.i = i /\ h.j = j /\ h.k = best
    BY <1>2, <1>10
  <2>6. Longest(a, b, alo, blo, first[1], first[2], best)
    BY <1>3, <2>4
  <2>7. /\ best \in Nat \ {0} /\ best <= (first[1] - alo) + 1 /\ best <= (first[2] - blo) + 1
        /\ EndRun(a, b, first[1], first[2], best)
    BY <1>10, <2>6 DEF Longest
  <2>8. Run(a, b, i, j, best)
    <3>1. first[1] \in Int /\ first[2] \in Int /\ best \in Nat
      BY <1>1, <2>4, <2>7
    <3> QED  BY <2>7, <3>1, RunsEnd
  <2>9. Block(a, b, alo, ahi, blo, bhi, i, j, best)
    <3>1. i \in Nat /\ j \in Nat /\ alo <= i /\ (i + best) - 1 <= ahi /\ blo <= j /\ (j + best) - 1 <= bhi
      BY <1>1, <2>4, <2>7
    <3> QED  BY <2>7, <2>8, <3>1 DEF Block
  <2>10. ASSUME NEW x, NEW y, NEW l, Block(a, b, alo, ahi, blo, bhi, x, y, l)
         PROVE  l <= best /\ (l = best => i < x \/ (i = x /\ j <= y))
    <3>1. l \in Nat /\ x \in Nat /\ y \in Nat
      BY <2>10 DEF Block
    <3> DEFINE u == (x + l) - 1
               v == (y + l) - 1
    <3>2. u \in alo..ahi /\ v \in blo..bhi /\ l <= row[u][v] /\ row[u][v] <= best
          /\ row[u][v] \in Nat
      BY <1>4, <1>5, <1>7, <2>10
    <3>3. l <= best
      BY <2>7, <3>1, <3>2
    <3>4. ASSUME l = best
          PROVE  i < x \/ (i = x /\ j <= y)
      <4>1. row[u][v] = best
        BY <2>7, <3>1, <3>2, <3>4
      <4>2. <<u, v>> \in firsts /\ <<u, v>>[1] = u /\ <<u, v>>[2] = v
        BY <3>2, <4>1 DEF firsts
      <4>3. first[1] < u \/ (first[1] = u /\ first[2] <= v)
        BY <2>3, <4>2
      <4> QED  BY <1>1, <2>4, <2>7, <3>1, <3>4, <4>3
    <3> QED  BY <3>3, <3>4
  <2>11. TheBlock(a, b, alo, ahi, blo, bhi, i, j, best)
    BY <2>9, <2>10 DEF TheBlock
  <2> HIDE DEF i, j
  <2> QED  BY <1>10, <2>5, <2>11 DEF h
<1> QED  BY <1>9, <1>10

\* There is only one.
LEMMA OneHit ==
  ASSUME NEW a, NEW b, NEW alo, NEW ahi, NEW blo, NEW bhi, NEW i, NEW j, NEW k, NEW x, NEW y, NEW l,
         TheBlock(a, b, alo, ahi, blo, bhi, i, j, k), TheBlock(a, b, alo, ahi, blo, bhi, x, y, l)
  PROVE  i = x /\ j = y /\ k = l
<1>1. /\ l <= k /\ (l = k => i < x \/ (i = x /\ j <= y))
      /\ k <= l /\ (k = l => x < i \/ (x = i /\ y <= j))
  BY DEF TheBlock
<1>2. i \in Nat /\ j \in Nat /\ k \in Nat /\ x \in Nat /\ y \in Nat /\ l \in Nat
  BY DEF TheBlock, Block
<1> QED  BY <1>1, <1>2

-----------------------------------------------------------------------------
\* What matched adds up

LEMMA WindowIs ==
  ASSUME NEW a \in Seq(Nat), NEW b \in Seq(Nat), NEW w \in Windows(a, b)
  PROVE  Win(a, b, w.alo, w.ahi, w.blo, w.bhi)
BY DEF Win, Windows

\* What is left on both sides of a block is a window too.
LEMMA SidesAre ==
  ASSUME NEW a \in Seq(Nat), NEW b \in Seq(Nat), NEW w \in Windows(a, b),
         NEW i, NEW j, NEW k, TheBlock(a, b, w.alo, w.ahi, w.blo, w.bhi, i, j, k)
  PROVE  /\ Window(w.alo, i - 1, w.blo, j - 1) \in Windows(a, b)
         /\ Window(i + k, w.ahi, j + k, w.bhi) \in Windows(a, b)
         /\ i \in Nat /\ j \in Nat /\ k \in Nat
<1>1. /\ w.alo \in 1..(Len(a) + 1) /\ w.ahi \in 0..Len(a)
      /\ w.blo \in 1..(Len(b) + 1) /\ w.bhi \in 0..Len(b) /\ Len(a) \in Nat /\ Len(b) \in Nat
  BY DEF Windows
<1>2. /\ i \in Nat /\ j \in Nat /\ k \in Nat \ {0}
      /\ w.alo <= i /\ (i + k) - 1 <= w.ahi /\ w.blo <= j /\ (j + k) - 1 <= w.bhi
  BY DEF TheBlock, Block
<1>3. /\ i - 1 \in 0..Len(a) /\ j - 1 \in 0..Len(b)
      /\ i + k \in 1..(Len(a) + 1) /\ j + k \in 1..(Len(b) + 1)
  <2> DEFINE alo == w.alo
             ahi == w.ahi
             blo == w.blo
             bhi == w.bhi
             n == Len(a)
             p == Len(b)
  <2>1. /\ alo \in 1..(n + 1) /\ ahi \in 0..n /\ blo \in 1..(p + 1) /\ bhi \in 0..p /\ n \in Nat /\ p \in Nat
        /\ alo <= i /\ (i + k) - 1 <= ahi /\ blo <= j /\ (j + k) - 1 <= bhi
    BY <1>1, <1>2
  <2> HIDE DEF alo, ahi, blo, bhi, n, p
  <2>2. i - 1 \in 0..n /\ i + k \in 1..(n + 1)
    BY <1>2, <2>1
  <2>3. j - 1 \in 0..p /\ j + k \in 1..(p + 1)
    BY <1>2, <2>1
  <2> QED  BY <2>2, <2>3 DEF n, p
<1> QED  BY <1>1, <1>2, <1>3 DEF Window, Windows

LEMMA WithinIs ==
  ASSUME NEW a \in Seq(Nat), NEW b \in Seq(Nat), NEW depth \in Nat
  PROVE  LET m == MatchedWithin(a, b, depth) IN
         \A d \in 0..depth, w \in Windows(a, b) :
           LET hit == LongestMatch(a, b, w.alo, w.ahi, w.blo, w.bhi) IN
           /\ m[d][w] \in Nat
           /\ m[d][w] = IF d = 0 \/ hit.k = 0 THEN 0
                        ELSE hit.k + m[d - 1][Window(w.alo, hit.i - 1, w.blo, hit.j - 1)]
                                   + m[d - 1][Window(hit.i + hit.k, w.ahi, hit.j + hit.k, w.bhi)]
<1> DEFINE W == Windows(a, b)
           V == [W -> Nat]
           hit(w) == LongestMatch(a, b, w.alo, w.ahi, w.blo, w.bhi)
           left(w) == Window(w.alo, hit(w).i - 1, w.blo, hit(w).j - 1)
           right(w) == Window(hit(w).i + hit(w).k, w.ahi, hit(w).j + hit(w).k, w.bhi)
           sum(v, d, w) == IF d = 0 \/ hit(w).k = 0 THEN 0 ELSE hit(w).k + v[left(w)] + v[right(w)]
           follow(v, d) == [w \in W |-> sum(v, d, w)]
           turn == [d \in 1..depth |-> [v \in V |-> follow(v, d)]]
           body(f) == [d \in 0..depth |-> follow(f[d - 1], d)]
           zero == [w \in W |-> 0]
<1>1. \A w \in W : hit(w).k # 0 => left(w) \in W /\ right(w) \in W /\ hit(w).k \in Nat
  <2> TAKE w \in W
  <2>1. Win(a, b, w.alo, w.ahi, w.blo, w.bhi)
    BY WindowIs
  <2> SUFFICES ASSUME hit(w).k # 0 PROVE left(w) \in W /\ right(w) \in W /\ hit(w).k \in Nat
    OBVIOUS
  <2>2. TheBlock(a, b, w.alo, w.ahi, w.blo, w.bhi, hit(w).i, hit(w).j, hit(w).k)
    BY <2>1, HitIs
  <2> HIDE DEF hit
  <2> QED  BY <2>2, SidesAre
<1>2. MatchedWithin(a, b, depth) = CHOOSE f : f = body(f)
  BY DEF MatchedWithin
<1> HIDE DEF hit, left, right, W
<1>3. \A v \in V, d \in 1..depth : follow(v, d) \in V
  <2> TAKE v \in V, d \in 1..depth
  <2>1. ASSUME NEW w \in W
        PROVE  sum(v, d, w) \in Nat
    <3>1. CASE hit(w).k = 0
      BY <3>1
    <3>2. CASE hit(w).k # 0
      <4>1. v[left(w)] \in Nat /\ v[right(w)] \in Nat /\ hit(w).k \in Nat
        BY <1>1, <3>2
      <4> QED  BY <4>1
    <3> QED  BY <3>1, <3>2
  <2> HIDE DEF sum
  <2> QED  BY <2>1
<1>4. \A v : follow(v, 0) = zero
  OBVIOUS
<1>5. zero \in V
  OBVIOUS
<1> HIDE DEF follow, V, zero
<1>6. turn \in [1..depth -> [V -> V]]
  BY <1>3
<1>7. PICK f : f \in [0..depth -> V] /\ f[0] = zero /\ \A d \in 1..depth : f[d] = turn[d][f[d - 1]]
  <2>1. Steps(depth, V, zero, turn)
    BY <1>5, <1>6 DEF Steps
  <2> HIDE DEF turn
  <2>2. \E f : Stepped(f, depth, V, zero, turn)
    BY <2>1, StepByStep
  <2> QED  BY <2>2 DEF Stepped
<1>8. f = body(f)
  <2>1. ASSUME NEW d \in 0..depth
        PROVE  f[d] = follow(f[d - 1], d)
    <3>1. CASE d = 0
      BY <1>4, <1>7, <3>1
    <3>2. CASE d \in 1..depth
      <4>1. d - 1 \in 0..depth
        BY <3>2
      <4>2. f[d - 1] \in V
        BY <1>7, <4>1
      <4> QED  BY <1>7, <3>2, <4>2
    <3> QED  BY <3>1, <3>2
  <2> QED  BY <1>7, <2>1
<1> DEFINE m == MatchedWithin(a, b, depth)
<1>9. m = body(m)
  <2> HIDE DEF body
  <2> QED  BY <1>2, <1>8
<1> HIDE DEF m
<1>10. \A d \in 0..depth : m[d] = follow(m[d - 1], d)
  BY <1>9
<1> DEFINE typed == {d \in 0..depth : m[d] \in V}
<1>11. \A d \in 0..depth : d \in typed
  <2>1. 0 \in typed
    BY <1>4, <1>5, <1>10
  <2>2. ASSUME NEW n \in 0..(depth - 1), n \in typed
        PROVE  n + 1 \in typed
    <3>1. n + 1 \in 1..depth /\ n + 1 \in 0..depth /\ (n + 1) - 1 = n /\ m[n] \in V
      BY <2>2
    <3>2. m[n + 1] = follow(m[n], n + 1)
      BY <1>10, <3>1
    <3> QED  BY <1>3, <3>1, <3>2
  <2> HIDE DEF typed
  <2> QED  BY <2>1, <2>2, UpTo
<1>12. ASSUME NEW d \in 0..depth, NEW w \in W
       PROVE  m[d][w] \in Nat /\ m[d][w] = sum(m[d - 1], d, w)
  <2>1. m[d] \in V /\ m[d] = follow(m[d - 1], d)
    BY <1>10, <1>11
  <2> HIDE DEF sum
  <2> QED  BY <2>1 DEF V, follow
<1> QED  BY <1>12 DEF m, W, hit, left, right

-----------------------------------------------------------------------------
\* What the reference adds up

LEMMA CommonBlock ==
  ASSUME NEW x \in Seq(Nat), NEW y \in Seq(Nat)
  PROVE  /\ InCommon(x, y) => \E i, j, k : Block(x, y, 1, Len(x), 1, Len(y), i, j, k)
         /\ ~InCommon(x, y) => \A i, j, k : ~Block(x, y, 1, Len(x), 1, Len(y), i, j, k)
<1>1. ASSUME InCommon(x, y)
      PROVE  \E i, j, k : Block(x, y, 1, Len(x), 1, Len(y), i, j, k)
  <2>1. PICK c : c \in ToSet(x) /\ c \in ToSet(y)
    BY <1>1 DEF InCommon
  <2>2. PICK i \in 1..Len(x), j \in 1..Len(y) : x[i] = c /\ y[j] = c
    <3>1. DOMAIN x = 1..Len(x) /\ DOMAIN y = 1..Len(y)
      OBVIOUS
    <3> QED  BY <2>1, <3>1 DEF ToSet
  <2>3. Run(x, y, i, j, 1)
    <3>1. \A d \in 0..(1 - 1) : i + d = i /\ j + d = j
      OBVIOUS
    <3> QED  BY <2>2, <3>1 DEF Run
  <2>4. Block(x, y, 1, Len(x), 1, Len(y), i, j, 1)
    BY <2>3 DEF Block
  <2> QED  BY <2>4
<1>2. ASSUME NEW i, NEW j, NEW k, Block(x, y, 1, Len(x), 1, Len(y), i, j, k)
      PROVE  InCommon(x, y)
  <2>1. /\ i \in 1..Len(x) /\ j \in 1..Len(y) /\ 0 \in 0..(k - 1) /\ i + 0 = i /\ j + 0 = j
    BY <1>2, SMTT(30) DEF Block
  <2>2. x[i] = y[j]
    BY <1>2, <2>1 DEF Block, Run
  <2>3. x[i] \in ToSet(x) /\ y[j] \in ToSet(y)
    <3>1. DOMAIN x = 1..Len(x) /\ DOMAIN y = 1..Len(y)
      OBVIOUS
    <3> QED  BY <2>1, <3>1 DEF ToSet
  <2> QED  BY <2>2, <2>3 DEF InCommon
<1> QED  BY <1>1, <1>2

\* Of two strings with a character in common, Leftmost is the block that counts.
LEMMA LeftmostIs ==
  ASSUME NEW x \in Seq(Nat), NEW y \in Seq(Nat), InCommon(x, y)
  PROVE  LET t == Leftmost(x, y) IN TheBlock(x, y, 1, Len(x), 1, Len(y), t[1], t[2], t[3])
<1> DEFINE triples == (1..Len(x)) \X (1..Len(y)) \X (1..Len(x))
           blocks == {t \in triples : IsBlock(x, y, t[1], t[2], t[3])}
           longest == {t \in blocks : \A u \in blocks : u[3] <= t[3]}
           first(t) == t \in longest /\ \A u \in longest : t[1] < u[1] \/ (t[1] = u[1] /\ t[2] <= u[2])
           block(t) == Block(x, y, 1, Len(x), 1, Len(y), t[1], t[2], t[3])
           hit(t) == TheBlock(x, y, 1, Len(x), 1, Len(y), t[1], t[2], t[3])
<1>1. Len(x) \in Nat /\ Len(y) \in Nat
  OBVIOUS
<1>2. \A t \in triples : t[1] \in 1..Len(x) /\ t[2] \in 1..Len(y) /\ t[3] \in 1..Len(x)
  OBVIOUS
<1>3. \A t \in blocks : block(t) /\ t \in triples
  <2> TAKE t \in blocks
  <2>1. t \in triples /\ IsBlock(x, y, t[1], t[2], t[3])
    OBVIOUS
  <2> DEFINE i == t[1]
             j == t[2]
             k == t[3]
  <2>2. i \in 1..Len(x) /\ j \in 1..Len(y) /\ k \in 1..Len(x) /\ IsBlock(x, y, i, j, k)
    BY <1>2, <2>1
  <2> HIDE DEF i, j, k, triples
  <2>3. Block(x, y, 1, Len(x), 1, Len(y), i, j, k)
    BY <1>1, <2>2 DEF IsBlock, Block, Run
  <2> QED  BY <2>1, <2>3 DEF i, j, k
<1>4. ASSUME NEW i, NEW j, NEW k, Block(x, y, 1, Len(x), 1, Len(y), i, j, k)
      PROVE  <<i, j, k>> \in blocks
  <2>1. /\ i \in 1..Len(x) /\ j \in 1..Len(y) /\ k \in 1..Len(x)
        /\ (i + k) - 1 <= Len(x) /\ (j + k) - 1 <= Len(y) /\ Run(x, y, i, j, k)
    BY <1>1, <1>4, SMTT(30) DEF Block
  <2>2. IsBlock(x, y, i, j, k)
    <3>1. \A d \in 0..(k - 1) : x[i + d] = y[j + d]
      BY <2>1 DEF Run
    <3>2. i + k - 1 <= Len(x) /\ j + k - 1 <= Len(y)
      BY <2>1
    <3> QED  BY <3>1, <3>2 DEF IsBlock
  <2>3. <<i, j, k>> \in triples
    BY <2>1
  <2> QED  BY <2>2, <2>3
<1>5. Leftmost(x, y) = CHOOSE t \in longest : \A u \in longest : t[1] < u[1] \/ (t[1] = u[1] /\ t[2] <= u[2])
  BY DEF Leftmost
<1> HIDE DEF blocks, triples
<1>6. \E t : first(t)
  <2> DEFINE h == LongestMatch(x, y, 1, Len(x), 1, Len(y))
  <2>1. TheBlock(x, y, 1, Len(x), 1, Len(y), h.i, h.j, h.k)
    <3>1. Win(x, y, 1, Len(x), 1, Len(y))
      BY <1>1 DEF Win
    <3>2. \E i, j, k : Block(x, y, 1, Len(x), 1, Len(y), i, j, k)
      BY CommonBlock
    <3> QED  BY <3>1, <3>2, HitIs
  <2> HIDE DEF h
  <2> DEFINE t == <<h.i, h.j, h.k>>
  <2>2. t \in blocks
    BY <1>4, <2>1 DEF TheBlock
  <2>3. \A u \in blocks : u[3] <= t[3] /\ (u[3] = t[3] => t[1] < u[1] \/ (t[1] = u[1] /\ t[2] <= u[2]))
    BY <1>3, <2>1 DEF TheBlock
  <2> HIDE DEF t
  <2>4. t \in longest
    BY <2>2, <2>3
  <2>5. \A u \in longest : u[3] = t[3]
    <3> TAKE u \in longest
    <3>1. u \in blocks /\ t[3] <= u[3] /\ u[3] <= t[3]
      BY <2>2, <2>3
    <3>2. u[3] \in Nat /\ t[3] \in Nat
      BY <1>2, <1>3, <2>2, <3>1
    <3> QED  BY <3>1, <3>2
  <2> QED  BY <2>3, <2>4, <2>5
<1> DEFINE s == Leftmost(x, y)
<1>7. first(s)
  BY <1>5, <1>6
<1> HIDE DEF s
<1>8. s \in blocks /\ block(s)
  BY <1>3, <1>7
<1>9. ASSUME NEW i, NEW j, NEW k, Block(x, y, 1, Len(x), 1, Len(y), i, j, k)
      PROVE  k <= s[3] /\ (k = s[3] => s[1] < i \/ (s[1] = i /\ s[2] <= j))
  <2> DEFINE u == <<i, j, k>>
  <2>1. u \in blocks /\ u[1] = i /\ u[2] = j /\ u[3] = k
    BY <1>4, <1>9
  <2> HIDE DEF u
  <2>2. k <= s[3]
    BY <1>7, <2>1
  <2>3. ASSUME k = s[3]
        PROVE  u \in longest
    BY <1>7, <2>1, <2>3
  <2> QED  BY <1>7, <2>1, <2>2, <2>3
<1>10. hit(s)
  BY <1>8, <1>9 DEF TheBlock
<1> QED  BY <1>10 DEF s

LEMMA PartsAre ==
  ASSUME NEW x \in Seq(Nat), NEW y \in Seq(Nat), InCommon(x, y)
  PROVE  LET t == Leftmost(x, y) IN
         /\ t[3] \in Nat
         /\ <<SubSeq(x, 1, t[1] - 1), SubSeq(y, 1, t[2] - 1)>> \in Seq(Nat) \X Seq(Nat)
         /\ <<SubSeq(x, t[1] + t[3], Len(x)), SubSeq(y, t[2] + t[3], Len(y))>> \in Seq(Nat) \X Seq(Nat)
<1> DEFINE t == Leftmost(x, y)
           i == t[1]
           j == t[2]
           k == t[3]
<1>1. TheBlock(x, y, 1, Len(x), 1, Len(y), i, j, k)
  BY LeftmostIs
<1> HIDE DEF i, j, k
<1>2. /\ i \in Nat /\ j \in Nat /\ k \in Nat /\ Len(x) \in Nat /\ Len(y) \in Nat
      /\ 1 <= i /\ (i + k) - 1 <= Len(x) /\ 1 <= j /\ (j + k) - 1 <= Len(y) /\ k # 0
  BY <1>1 DEF TheBlock, Block
<1>3. SubSeq(x, 1, i - 1) \in Seq(Nat) /\ SubSeq(x, i + k, Len(x)) \in Seq(Nat)
  BY <1>2, SMTT(30)
<1>4. SubSeq(y, 1, j - 1) \in Seq(Nat) /\ SubSeq(y, j + k, Len(y)) \in Seq(Nat)
  BY <1>2, SMTT(30)
<1> QED  BY <1>2, <1>3, <1>4 DEF i, j, k

LEMMA InCommonIs ==
  ASSUME NEW depth \in Nat
  PROVE  LET r == InCommonAt(depth) IN
         \A d \in 0..depth, x \in Seq(Nat), y \in Seq(Nat) :
           LET t == Leftmost(x, y) IN
           /\ r[d][<<x, y>>] \in Nat
           /\ r[d][<<x, y>>] =
                IF d = 0 \/ ~InCommon(x, y) THEN 0
                ELSE t[3] + r[d - 1][<<SubSeq(x, 1, t[1] - 1), SubSeq(y, 1, t[2] - 1)>>]
                          + r[d - 1][<<SubSeq(x, t[1] + t[3], Len(x)), SubSeq(y, t[2] + t[3], Len(y))>>]
<1> DEFINE W == Seq(Nat) \X Seq(Nat)
           V == [W -> Nat]
           common(p) == InCommon(p[1], p[2])
           size(p) == Leftmost(p[1], p[2])[3]
           left(p) == <<SubSeq(p[1], 1, Leftmost(p[1], p[2])[1] - 1), SubSeq(p[2], 1, Leftmost(p[1], p[2])[2] - 1)>>
           right(p) == <<SubSeq(p[1], Leftmost(p[1], p[2])[1] + Leftmost(p[1], p[2])[3], Len(p[1])),
                         SubSeq(p[2], Leftmost(p[1], p[2])[2] + Leftmost(p[1], p[2])[3], Len(p[2]))>>
           sum(v, d, p) == IF d = 0 \/ ~common(p) THEN 0 ELSE size(p) + v[left(p)] + v[right(p)]
           follow(v, d) == [p \in W |-> sum(v, d, p)]
           turn == [d \in 1..depth |-> [v \in V |-> follow(v, d)]]
           body(f) == [d \in 0..depth |-> follow(f[d - 1], d)]
           zero == [p \in W |-> 0]
<1>1. \A p \in W : common(p) => left(p) \in W /\ right(p) \in W /\ size(p) \in Nat
  BY PartsAre
<1>2. InCommonAt(depth) = CHOOSE f : f = body(f)
  BY DEF InCommonAt
<1> HIDE DEF common, size, left, right, W
<1>3. \A v \in V, d \in 1..depth : follow(v, d) \in V
  <2> TAKE v \in V, d \in 1..depth
  <2>1. ASSUME NEW p \in W
        PROVE  sum(v, d, p) \in Nat
    <3>1. CASE ~common(p)
      BY <3>1
    <3>2. CASE common(p)
      <4>1. v[left(p)] \in Nat /\ v[right(p)] \in Nat /\ size(p) \in Nat
        BY <1>1, <3>2
      <4> QED  BY <4>1
    <3> QED  BY <3>1, <3>2
  <2> HIDE DEF sum
  <2> QED  BY <2>1
<1>4. \A v : follow(v, 0) = zero
  OBVIOUS
<1>5. zero \in V
  OBVIOUS
<1> HIDE DEF follow, V, zero
<1>6. turn \in [1..depth -> [V -> V]]
  BY <1>3
<1>7. PICK f : f \in [0..depth -> V] /\ f[0] = zero /\ \A d \in 1..depth : f[d] = turn[d][f[d - 1]]
  <2>1. Steps(depth, V, zero, turn)
    BY <1>5, <1>6 DEF Steps
  <2> HIDE DEF turn
  <2>2. \E f : Stepped(f, depth, V, zero, turn)
    BY <2>1, StepByStep
  <2> QED  BY <2>2 DEF Stepped
<1>8. f = body(f)
  <2>1. ASSUME NEW d \in 0..depth
        PROVE  f[d] = follow(f[d - 1], d)
    <3>1. CASE d = 0
      BY <1>4, <1>7, <3>1
    <3>2. CASE d \in 1..depth
      <4>1. d - 1 \in 0..depth
        BY <3>2
      <4>2. f[d - 1] \in V
        BY <1>7, <4>1
      <4> QED  BY <1>7, <3>2, <4>2
    <3> QED  BY <3>1, <3>2
  <2> QED  BY <1>7, <2>1
<1> DEFINE r == InCommonAt(depth)
<1>9. r = body(r)
  <2> HIDE DEF body
  <2> QED  BY <1>2, <1>8
<1> HIDE DEF r
<1>10. \A d \in 0..depth : r[d] = follow(r[d - 1], d)
  BY <1>9
<1> DEFINE typed == {d \in 0..depth : r[d] \in V}
<1>11. \A d \in 0..depth : d \in typed
  <2>1. 0 \in typed
    BY <1>4, <1>5, <1>10
  <2>2. ASSUME NEW n \in 0..(depth - 1), n \in typed
        PROVE  n + 1 \in typed
    <3>1. n + 1 \in 1..depth /\ n + 1 \in 0..depth /\ (n + 1) - 1 = n /\ r[n] \in V
      BY <2>2
    <3>2. r[n + 1] = follow(r[n], n + 1)
      BY <1>10, <3>1
    <3> QED  BY <1>3, <3>1, <3>2
  <2> HIDE DEF typed
  <2> QED  BY <2>1, <2>2, UpTo
<1>12. ASSUME NEW d \in 0..depth, NEW p \in W
       PROVE  r[d][p] \in Nat /\ r[d][p] = sum(r[d - 1], d, p)
  <2>1. r[d] \in V /\ r[d] = follow(r[d - 1], d)
    BY <1>10, <1>11
  <2> HIDE DEF sum
  <2> QED  BY <2>1 DEF V, follow
<1>13. ASSUME NEW d \in 0..depth, NEW x \in Seq(Nat), NEW y \in Seq(Nat)
       PROVE  LET t == Leftmost(x, y) IN
              /\ r[d][<<x, y>>] \in Nat
              /\ r[d][<<x, y>>] =
                   IF d = 0 \/ ~InCommon(x, y) THEN 0
                   ELSE t[3] + r[d - 1][<<SubSeq(x, 1, t[1] - 1), SubSeq(y, 1, t[2] - 1)>>]
                             + r[d - 1][<<SubSeq(x, t[1] + t[3], Len(x)), SubSeq(y, t[2] + t[3], Len(y))>>]
  <2> DEFINE p == <<x, y>>
  <2>1. p \in W
    BY DEF W
  <2>2. p[1] = x /\ p[2] = y
    OBVIOUS
  <2> HIDE DEF p
  <2>3. r[d][p] \in Nat /\ r[d][p] = sum(r[d - 1], d, p)
    BY <1>12, <2>1
  <2> QED  BY <2>2, <2>3 DEF p, common, size, left, right
<1> QED  BY <1>13 DEF r

-----------------------------------------------------------------------------
\* Both add up the same

\* A part of a string, character by character.
LEMMA PartIs ==
  ASSUME NEW a \in Seq(Nat), NEW lo \in 1..(Len(a) + 1), NEW hi \in 0..Len(a)
  PROVE  /\ SubSeq(a, lo, hi) \in Seq(Nat)
         /\ Len(SubSeq(a, lo, hi)) = IF lo <= hi THEN (hi - lo) + 1 ELSE 0
         /\ \A n \in 1..Len(SubSeq(a, lo, hi)) : SubSeq(a, lo, hi)[n] = a[(lo + n) - 1]
<1>1. SubSeq(a, lo, hi) \in Seq(Nat)
  OBVIOUS
<1>2. Len(SubSeq(a, lo, hi)) = IF lo <= hi THEN (hi - lo) + 1 ELSE 0
  OBVIOUS
<1>3. \A n \in 1..Len(SubSeq(a, lo, hi)) : SubSeq(a, lo, hi)[n] = a[(lo + n) - 1]
  BY <1>2
<1> QED  BY <1>1, <1>2, <1>3

\* A part of a part.
LEMMA PartOfPart ==
  ASSUME NEW a \in Seq(Nat), NEW lo \in 1..(Len(a) + 1), NEW hi \in 0..Len(a),
         NEW p \in Nat \ {0}, NEW q \in Nat, p <= q + 1, q <= Len(SubSeq(a, lo, hi))
  PROVE  /\ (lo + p) - 1 \in 1..(Len(a) + 1) /\ (lo + q) - 1 \in 0..Len(a)
         /\ SubSeq(SubSeq(a, lo, hi), p, q) = SubSeq(a, (lo + p) - 1, (lo + q) - 1)
<1> DEFINE x == SubSeq(a, lo, hi)
           n == Len(a)
<1>1. /\ x \in Seq(Nat) /\ Len(x) = (IF lo <= hi THEN (hi - lo) + 1 ELSE 0)
      /\ \A i \in 1..Len(x) : x[i] = a[(lo + i) - 1]
  BY PartIs
<1>2. n \in Nat /\ lo \in 1..(n + 1) /\ hi \in 0..n
  OBVIOUS
<1> HIDE DEF x
<1>3. /\ (lo + p) - 1 \in 1..(n + 1) /\ (lo + q) - 1 \in 0..n
      /\ p \in 1..(Len(x) + 1) /\ q \in 0..Len(x)
  <2>1. q <= Len(x)
    BY DEF x
  <2> HIDE DEF n
  <2> QED  BY <1>1, <1>2, <2>1
<1> DEFINE u == SubSeq(x, p, q)
           v == SubSeq(a, (lo + p) - 1, (lo + q) - 1)
<1>4. /\ u \in Seq(Nat) /\ Len(u) = (IF p <= q THEN (q - p) + 1 ELSE 0)
      /\ \A i \in 1..Len(u) : u[i] = x[(p + i) - 1]
  BY <1>1, <1>3, PartIs
<1>5. /\ v \in Seq(Nat)
      /\ Len(v) = (IF (lo + p) - 1 <= (lo + q) - 1 THEN (((lo + q) - 1) - ((lo + p) - 1)) + 1 ELSE 0)
      /\ \A i \in 1..Len(v) : v[i] = a[(((lo + p) - 1) + i) - 1]
  BY <1>3, PartIs
<1> HIDE DEF u, v
<1>6. Len(u) = Len(v)
  BY <1>2, <1>4, <1>5
<1>7. ASSUME NEW i \in 1..Len(u)
      PROVE  u[i] = v[i]
  <2>1. (p + i) - 1 \in 1..Len(x)
    BY <1>1, <1>2, <1>3, <1>4
  <2>2. u[i] = a[(lo + ((p + i) - 1)) - 1]
    BY <1>1, <1>4, <2>1
  <2>3. v[i] = a[(((lo + p) - 1) + i) - 1]
    BY <1>5, <1>6
  <2>4. (lo + ((p + i) - 1)) - 1 = (((lo + p) - 1) + i) - 1
    BY <1>2, <1>4
  <2> QED  BY <2>2, <2>3, <2>4
<1>8. u = v
  <2>1. u \in Seq(Nat) /\ v \in Seq(Nat)
    BY <1>4, <1>5
  <2>2. \A i \in 1..Len(u) : u[i] = v[i]
    BY <1>7
  <2> QED  BY <1>6, <2>1, <2>2, SeqEqual
<1> QED  BY <1>3, <1>8 DEF u, v, x

\* The blocks of a window are those of the two parts it is made of.
LEMMA BlocksOfParts ==
  ASSUME NEW a, NEW b, NEW alo, NEW ahi, NEW blo, NEW bhi, Win(a, b, alo, ahi, blo, bhi)
  PROVE  LET x == SubSeq(a, alo, ahi)
             y == SubSeq(b, blo, bhi)
         IN /\ \A i, j, k : Block(a, b, alo, ahi, blo, bhi, i, j, k) =>
                              Block(x, y, 1, Len(x), 1, Len(y), (i - alo) + 1, (j - blo) + 1, k)
            /\ \A i, j, k : Block(x, y, 1, Len(x), 1, Len(y), i, j, k) =>
                              Block(a, b, alo, ahi, blo, bhi, (alo + i) - 1, (blo + j) - 1, k)
<1> DEFINE x == SubSeq(a, alo, ahi)
           y == SubSeq(b, blo, bhi)
<1>1. /\ a \in Seq(Nat) /\ b \in Seq(Nat)
      /\ alo \in 1..Len(a)+1 /\ ahi \in 0..Len(a) /\ blo \in 1..Len(b)+1 /\ bhi \in 0..Len(b)
  BY DEF Win
<1>2. /\ Len(x) = (IF alo <= ahi THEN (ahi - alo) + 1 ELSE 0)
      /\ \A n \in 1..Len(x) : x[n] = a[(alo + n) - 1]
  BY <1>1, PartIs
<1>3. /\ Len(y) = (IF blo <= bhi THEN (bhi - blo) + 1 ELSE 0)
      /\ \A n \in 1..Len(y) : y[n] = b[(blo + n) - 1]
  BY <1>1, PartIs
<1>4. alo \in Nat \ {0} /\ ahi \in Nat /\ blo \in Nat \ {0} /\ bhi \in Nat
  BY <1>1
<1> HIDE DEF x, y
<1>5. ASSUME NEW i, NEW j, NEW k, Block(a, b, alo, ahi, blo, bhi, i, j, k)
      PROVE  Block(x, y, 1, Len(x), 1, Len(y), (i - alo) + 1, (j - blo) + 1, k)
  <2> DEFINE u == (i - alo) + 1
             v == (j - blo) + 1
  <2>1. /\ i \in Nat /\ j \in Nat /\ k \in Nat \ {0}
        /\ alo <= i /\ (i + k) - 1 <= ahi /\ blo <= j /\ (j + k) - 1 <= bhi
        /\ Run(a, b, i, j, k)
    BY <1>5 DEF Block
  <2>2. /\ u \in Nat /\ v \in Nat /\ 1 <= u /\ 1 <= v /\ (u + k) - 1 <= Len(x) /\ (v + k) - 1 <= Len(y)
    BY <1>2, <1>3, <1>4, <2>1
  <2>3. ASSUME NEW d \in 0..(k - 1)
        PROVE  x[u + d] = y[v + d]
    <3>1. u + d \in 1..Len(x) /\ v + d \in 1..Len(y)
      <4>1. Len(x) \in Nat /\ Len(y) \in Nat
        BY <1>2, <1>3, <1>4
      <4> HIDE DEF u, v
      <4> QED  BY <2>1, <2>2, <4>1
    <3>2. (alo + (u + d)) - 1 = i + d /\ (blo + (v + d)) - 1 = j + d
      BY <1>4, <2>1
    <3>3. a[i + d] = b[j + d]
      BY <2>1 DEF Run
    <3> HIDE DEF u, v
    <3> QED  BY <1>2, <1>3, <3>1, <3>2, <3>3
  <2> HIDE DEF u, v
  <2>4. Block(x, y, 1, Len(x), 1, Len(y), u, v, k)
    BY <2>1, <2>2, <2>3 DEF Block, Run
  <2> QED  BY <2>4 DEF u, v
<1>6. ASSUME NEW i, NEW j, NEW k, Block(x, y, 1, Len(x), 1, Len(y), i, j, k)
      PROVE  Block(a, b, alo, ahi, blo, bhi, (alo + i) - 1, (blo + j) - 1, k)
  <2> DEFINE u == (alo + i) - 1
             v == (blo + j) - 1
  <2>1. /\ i \in Nat /\ j \in Nat /\ k \in Nat \ {0}
        /\ 1 <= i /\ (i + k) - 1 <= Len(x) /\ 1 <= j /\ (j + k) - 1 <= Len(y)
        /\ Run(x, y, i, j, k)
    BY <1>6 DEF Block
  <2>2. /\ u \in Nat /\ v \in Nat /\ alo <= u /\ blo <= v /\ (u + k) - 1 <= ahi /\ (v + k) - 1 <= bhi
    BY <1>2, <1>3, <1>4, <2>1
  <2>3. ASSUME NEW d \in 0..(k - 1)
        PROVE  a[u + d] = b[v + d]
    <3>1. i + d \in 1..Len(x) /\ j + d \in 1..Len(y)
      <4>1. Len(x) \in Nat /\ Len(y) \in Nat
        BY <1>2, <1>3, <1>4
      <4> QED  BY <2>1, <4>1
    <3>2. (alo + (i + d)) - 1 = u + d /\ (blo + (j + d)) - 1 = v + d
      BY <1>4, <2>1
    <3>3. x[i + d] = y[j + d]
      BY <2>1 DEF Run
    <3> HIDE DEF u, v
    <3> QED  BY <1>2, <1>3, <3>1, <3>2, <3>3
  <2> HIDE DEF u, v
  <2>4. Block(a, b, alo, ahi, blo, bhi, u, v, k)
    BY <2>1, <2>2, <2>3 DEF Block, Run
  <2> QED  BY <2>4 DEF u, v
<1> QED  BY <1>5, <1>6 DEF x, y

LEMMA HitOfParts ==
  ASSUME NEW a, NEW b, NEW alo, NEW ahi, NEW blo, NEW bhi, Win(a, b, alo, ahi, blo, bhi),
         NEW i, NEW j, NEW k, TheBlock(a, b, alo, ahi, blo, bhi, i, j, k)
  PROVE  LET x == SubSeq(a, alo, ahi)
             y == SubSeq(b, blo, bhi)
         IN TheBlock(x, y, 1, Len(x), 1, Len(y), (i - alo) + 1, (j - blo) + 1, k)
<1> DEFINE x == SubSeq(a, alo, ahi)
           y == SubSeq(b, blo, bhi)
           p == (i - alo) + 1
           q == (j - blo) + 1
<1>1. /\ Block(a, b, alo, ahi, blo, bhi, i, j, k)
      /\ \A u, v, l : Block(a, b, alo, ahi, blo, bhi, u, v, l) =>
                        l <= k /\ (l = k => i < u \/ (i = u /\ j <= v))
  BY DEF TheBlock
<1>2. alo \in Nat /\ blo \in Nat /\ i \in Nat /\ j \in Nat
  <2>1. alo \in Nat /\ blo \in Nat
    BY DEF Win
  <2> QED  BY <1>1, <2>1 DEF Block
<1>3. Block(x, y, 1, Len(x), 1, Len(y), p, q, k)
  BY <1>1, BlocksOfParts
<1>4. ASSUME NEW u, NEW v, NEW l, Block(x, y, 1, Len(x), 1, Len(y), u, v, l)
      PROVE  l <= k /\ (l = k => p < u \/ (p = u /\ q <= v))
  <2>1. Block(a, b, alo, ahi, blo, bhi, (alo + u) - 1, (blo + v) - 1, l)
    BY <1>4, BlocksOfParts
  <2>2. l <= k /\ (l = k => i < (alo + u) - 1 \/ (i = (alo + u) - 1 /\ j <= (blo + v) - 1))
    BY <1>1, <2>1
  <2>3. u \in Nat /\ v \in Nat
    BY <1>4 DEF Block
  <2> QED  BY <1>2, <2>2, <2>3
<1> HIDE DEF x, y, p, q
<1>5. TheBlock(x, y, 1, Len(x), 1, Len(y), p, q, k)
  BY <1>3, <1>4 DEF TheBlock
<1> QED  BY <1>5 DEF x, y, p, q

\* The k characters from i on are within x, the part from alo to ahi, from its p-th on.
Inside(a, alo, ahi, i, k, x, p) ==
  /\ a \in Seq(Nat) /\ alo \in 1..(Len(a) + 1) /\ ahi \in 0..Len(a)
  /\ i \in Nat /\ k \in Nat \ {0} /\ alo <= i /\ (i + k) - 1 <= ahi
  /\ x = SubSeq(a, alo, ahi) /\ p = (i - alo) + 1

\* What is left of x is what is left of the part.
SameSides(a, alo, ahi, i, k, x, p) ==
  /\ SubSeq(x, 1, p - 1) = SubSeq(a, alo, i - 1)
  /\ SubSeq(x, p + k, Len(x)) = SubSeq(a, i + k, ahi)

LEMMA SidesOfParts ==
  ASSUME NEW a, NEW alo, NEW ahi, NEW i, NEW k, NEW x, NEW p, Inside(a, alo, ahi, i, k, x, p)
  PROVE  SameSides(a, alo, ahi, i, k, x, p)
<1>0. /\ a \in Seq(Nat) /\ alo \in 1..(Len(a) + 1) /\ ahi \in 0..Len(a)
      /\ i \in Nat /\ k \in Nat \ {0} /\ alo <= i /\ (i + k) - 1 <= ahi
      /\ x = SubSeq(a, alo, ahi) /\ p = (i - alo) + 1
  BY DEF Inside
<1>1. alo \in Nat \ {0} /\ ahi \in Nat /\ alo <= ahi
  BY <1>0
<1>2. x \in Seq(Nat) /\ Len(x) = (ahi - alo) + 1
  BY <1>0, <1>1, PartIs
<1>3. /\ p \in Nat /\ p - 1 \in Nat /\ 1 <= (p - 1) + 1 /\ p - 1 <= Len(x)
      /\ p + k \in Nat \ {0} /\ Len(x) \in Nat /\ p + k <= Len(x) + 1
  BY <1>0, <1>1, <1>2
<1>4. SubSeq(x, 1, p - 1) = SubSeq(a, (alo + 1) - 1, (alo + (p - 1)) - 1)
  <2> DEFINE q == p - 1
  <2>0. q \in Nat /\ 1 <= q + 1 /\ q <= Len(x) /\ 1 \in Nat \ {0}
    BY <1>3
  <2> HIDE DEF q
  <2>1. q <= Len(SubSeq(a, alo, ahi))
    BY <1>0, <2>0
  <2>2. SubSeq(SubSeq(a, alo, ahi), 1, q) = SubSeq(a, (alo + 1) - 1, (alo + q) - 1)
    BY <1>0, <2>0, <2>1, PartOfPart
  <2> QED  BY <1>0, <2>2 DEF q
<1>5. SubSeq(x, p + k, Len(x)) = SubSeq(a, (alo + (p + k)) - 1, (alo + Len(x)) - 1)
  <2> DEFINE q == p + k
             l == Len(x)
  <2>0. q \in Nat \ {0} /\ l \in Nat /\ q <= l + 1 /\ l <= Len(x)
    BY <1>3
  <2>1. l <= Len(SubSeq(a, alo, ahi))
    BY <1>0, <2>0
  <2> HIDE DEF q, l
  <2>2. SubSeq(SubSeq(a, alo, ahi), q, l) = SubSeq(a, (alo + q) - 1, (alo + l) - 1)
    BY <1>0, <2>0, <2>1, PartOfPart
  <2> QED  BY <1>0, <2>2 DEF q, l
<1>6. /\ (alo + 1) - 1 = alo /\ (alo + (p - 1)) - 1 = i - 1
      /\ (alo + (p + k)) - 1 = i + k /\ (alo + Len(x)) - 1 = ahi
  BY <1>0, <1>1, <1>2
<1> QED  BY <1>4, <1>5, <1>6 DEF SameSides

\* At any depth, what matched finds in a window is what the reference finds in its parts.
LEMMA SameWithin ==
  ASSUME NEW a \in Seq(Nat), NEW b \in Seq(Nat), NEW depth \in Nat
  PROVE  \A d \in 0..depth, w \in Windows(a, b) :
           MatchedWithin(a, b, depth)[d][w]
             = InCommonAt(depth)[d][<<SubSeq(a, w.alo, w.ahi), SubSeq(b, w.blo, w.bhi)>>]
<1> DEFINE m == MatchedWithin(a, b, depth)
           r == InCommonAt(depth)
           parts(w) == <<SubSeq(a, w.alo, w.ahi), SubSeq(b, w.blo, w.bhi)>>
           same == {d \in 0..depth : \A w \in Windows(a, b) : m[d][w] = r[d][parts(w)]}
<1>1. ASSUME NEW w \in Windows(a, b)
      PROVE  /\ Win(a, b, w.alo, w.ahi, w.blo, w.bhi)
             /\ SubSeq(a, w.alo, w.ahi) \in Seq(Nat) /\ SubSeq(b, w.blo, w.bhi) \in Seq(Nat)
  <2>1. Win(a, b, w.alo, w.ahi, w.blo, w.bhi)
    BY WindowIs
  <2> QED  BY <2>1, PartIs DEF Win
<1>2. ASSUME NEW w \in Windows(a, b)
      PROVE  m[0][w] = r[0][parts(w)]
  <2>1. m[0][w] = 0
    BY WithinIs
  <2>2. r[0][parts(w)] = 0
    <3> DEFINE x == SubSeq(a, w.alo, w.ahi)
               y == SubSeq(b, w.blo, w.bhi)
    <3>1. x \in Seq(Nat) /\ y \in Seq(Nat)
      BY <1>1
    <3> HIDE DEF x, y
    <3>2. ASSUME NEW d \in 0..depth, d = 0
          PROVE  r[d][<<x, y>>] = 0
      BY <3>1, <3>2, InCommonIs
    <3>3. r[0][<<x, y>>] = 0
      <4> HIDE DEF r
      <4> QED  BY <3>2
    <3> QED  BY <3>3 DEF x, y
  <2> QED  BY <2>1, <2>2
<1>3. ASSUME NEW n \in 0..(depth - 1), n \in same
      PROVE  n + 1 \in same
  <2> SUFFICES ASSUME NEW w \in Windows(a, b)
               PROVE  m[n + 1][w] = r[n + 1][parts(w)]
    <3> HIDE DEF m, r, parts
    <3> QED  OBVIOUS
  <2> DEFINE x == SubSeq(a, w.alo, w.ahi)
             y == SubSeq(b, w.blo, w.bhi)
             hit == LongestMatch(a, b, w.alo, w.ahi, w.blo, w.bhi)
             t == Leftmost(x, y)
             left == Window(w.alo, hit.i - 1, w.blo, hit.j - 1)
             right == Window(hit.i + hit.k, w.ahi, hit.j + hit.k, w.bhi)
             xy1 == <<SubSeq(x, 1, t[1] - 1), SubSeq(y, 1, t[2] - 1)>>
             xy2 == <<SubSeq(x, t[1] + t[3], Len(x)), SubSeq(y, t[2] + t[3], Len(y))>>
  <2>1. n + 1 \in 0..depth /\ n + 1 # 0 /\ (n + 1) - 1 = n
    OBVIOUS
  <2>2. m[n + 1][w] = IF hit.k = 0 THEN 0 ELSE hit.k + m[n][left] + m[n][right]
    <3>1. ASSUME NEW d \in 0..depth
          PROVE  m[d][w] = IF d = 0 \/ hit.k = 0 THEN 0 ELSE hit.k + m[d - 1][left] + m[d - 1][right]
      BY WithinIs
    <3> HIDE DEF m, left, right, hit
    <3> QED  BY <2>1, <3>1
  <2>3. r[n + 1][<<x, y>>] = IF ~InCommon(x, y) THEN 0 ELSE t[3] + r[n][xy1] + r[n][xy2]
    <3>1. x \in Seq(Nat) /\ y \in Seq(Nat)
      BY <1>1
    <3> HIDE DEF r, x, y, t, xy1, xy2
    <3>2. ASSUME NEW d \in 0..depth
          PROVE  r[d][<<x, y>>] = IF d = 0 \/ ~InCommon(x, y) THEN 0 ELSE t[3] + r[d - 1][xy1] + r[d - 1][xy2]
      BY <3>1, InCommonIs, ZenonT(30) DEF r, t, xy1, xy2
    <3> QED  BY <2>1, <3>2
  <2>4. Win(a, b, w.alo, w.ahi, w.blo, w.bhi) /\ x \in Seq(Nat) /\ y \in Seq(Nat)
    BY <1>1
  <2>5. CASE hit.k = 0
    <3>1. \A i, j, k : ~Block(a, b, w.alo, w.ahi, w.blo, w.bhi, i, j, k)
      BY <2>4, <2>5, HitIs
    <3>2. \A i, j, k : ~Block(x, y, 1, Len(x), 1, Len(y), i, j, k)
      BY <2>4, <3>1, BlocksOfParts
    <3>3. ~InCommon(x, y)
      <4> HIDE DEF x, y
      <4> QED  BY <2>4, <3>2, CommonBlock
    <3> QED  BY <2>2, <2>3, <2>5, <3>3
  <2>6. CASE hit.k # 0
    <3> DEFINE i == hit.i
               j == hit.j
               k == hit.k
               p == (i - w.alo) + 1
               q == (j - w.blo) + 1
    <3>1. TheBlock(a, b, w.alo, w.ahi, w.blo, w.bhi, i, j, k)
      BY <2>4, <2>6, HitIs
    <3> HIDE DEF hit, i, j, k
    <3>2. left \in Windows(a, b) /\ right \in Windows(a, b)
      BY <3>1, SidesAre DEF i, j, k
    <3>3. TheBlock(x, y, 1, Len(x), 1, Len(y), p, q, k)
      BY <2>4, <3>1, HitOfParts
    <3>4. InCommon(x, y)
      <4> HIDE DEF x, y, p, q
      <4>1. Block(x, y, 1, Len(x), 1, Len(y), p, q, k)
        BY <3>3 DEF TheBlock
      <4> QED  BY <2>4, <4>1, CommonBlock
    <3>5. t[1] = p /\ t[2] = q /\ t[3] = k
      <4> HIDE DEF x, y, p, q
      <4>1. TheBlock(x, y, 1, Len(x), 1, Len(y), t[1], t[2], t[3])
        BY <2>4, <3>4, LeftmostIs
      <4> HIDE DEF t
      <4> QED  BY <3>3, <4>1, OneHit
    <3>6. /\ w.alo \in 1..(Len(a) + 1) /\ w.ahi \in 0..Len(a)
          /\ w.blo \in 1..(Len(b) + 1) /\ w.bhi \in 0..Len(b)
      BY <2>4 DEF Win
    <3>7. /\ i \in Nat /\ j \in Nat /\ k \in Nat \ {0}
          /\ w.alo <= i /\ (i + k) - 1 <= w.ahi /\ w.blo <= j /\ (j + k) - 1 <= w.bhi
      BY <3>1 DEF TheBlock, Block
    <3>8. Inside(a, w.alo, w.ahi, i, k, x, p) /\ Inside(b, w.blo, w.bhi, j, k, y, q)
      BY <3>6, <3>7 DEF Inside
    <3> HIDE DEF t, left, right, xy1, xy2, m, r, parts, same, x, y, p, q
    <3>9. /\ SubSeq(x, 1, p - 1) = SubSeq(a, w.alo, i - 1)
          /\ SubSeq(x, p + k, Len(x)) = SubSeq(a, i + k, w.ahi)
          /\ SubSeq(y, 1, q - 1) = SubSeq(b, w.blo, j - 1)
          /\ SubSeq(y, q + k, Len(y)) = SubSeq(b, j + k, w.bhi)
      <4>1. SameSides(a, w.alo, w.ahi, i, k, x, p)
        BY <3>8, SidesOfParts
      <4>2. SameSides(b, w.blo, w.bhi, j, k, y, q)
        BY <3>8, SidesOfParts
      <4> QED  BY <4>1, <4>2 DEF SameSides
    <3>10. xy1 = parts(left) /\ xy2 = parts(right)
      <4>1. xy1 = <<SubSeq(x, 1, p - 1), SubSeq(y, 1, q - 1)>>
            /\ xy2 = <<SubSeq(x, p + k, Len(x)), SubSeq(y, q + k, Len(y))>>
        BY <3>5 DEF xy1, xy2
      <4>2. /\ left.alo = w.alo /\ left.ahi = i - 1 /\ left.blo = w.blo /\ left.bhi = j - 1
            /\ right.alo = i + k /\ right.ahi = w.ahi /\ right.blo = j + k /\ right.bhi = w.bhi
        BY DEF Window, i, j, k, left, right
      <4> QED  BY <3>9, <4>1, <4>2 DEF parts
    <3>11. m[n][left] = r[n][parts(left)] /\ m[n][right] = r[n][parts(right)]
      <4> QED  BY <1>3, <3>2 DEF same
    <3>12. m[n + 1][w] = k + m[n][left] + m[n][right]
      <4> HIDE DEF m, left, right
      <4> QED  BY <2>2, <2>6 DEF k
    <3>13. r[n + 1][<<x, y>>] = k + r[n][xy1] + r[n][xy2]
      <4> HIDE DEF r, xy1, xy2, x, y, t
      <4> QED  BY <2>3, <3>4, <3>5
    <3> HIDE DEF m, r, left, right, xy1, xy2, x, y, parts
    <3> QED  BY <3>10, <3>11, <3>12, <3>13 DEF parts, x, y
  <2> QED  BY <2>5, <2>6
<1>4. 0 \in same
  BY <1>2
<1>5. \A d \in 0..depth : d \in same
  <2> HIDE DEF same
  <2> QED  BY <1>3, <1>4, UpTo
<1> QED  BY <1>5

\* Of all of both strings: matched is the reference.
LEMMA MatchedIsTheReference ==
  ASSUME NEW a \in Seq(Nat), NEW b \in Seq(Nat)
  PROVE  Matched(a, b) = RatcliffObershelp(a, b) /\ Matched(a, b) \in Nat
<1> DEFINE w == Window(1, Len(a), 1, Len(b))
<1>1. /\ w \in Windows(a, b)
      /\ w.alo = 1 /\ w.ahi = Len(a) /\ w.blo = 1 /\ w.bhi = Len(b)
  BY DEF Window, Windows
<1> HIDE DEF w
<1>2. Len(a) \in Nat /\ Len(a) \in 0..Len(a)
  OBVIOUS
<1>3. Matched(a, b) = InCommonAt(Len(a))[Len(a)][<<SubSeq(a, w.alo, w.ahi), SubSeq(b, w.blo, w.bhi)>>]
  BY <1>1, <1>2, SameWithin DEF Matched, w
<1>4. SubSeq(a, 1, Len(a)) = a /\ SubSeq(b, 1, Len(b)) = b
  OBVIOUS
<1>5. Matched(a, b) \in Nat
  BY <1>1, <1>2, WithinIs DEF Matched, w
<1> QED  BY <1>1, <1>3, <1>4, <1>5 DEF RatcliffObershelp

-----------------------------------------------------------------------------
\* The cheaper tests drop nothing that counts

\* What goes one to one into a finite set is no larger than it.
LEMMA OneToOne ==
  ASSUME NEW S, NEW T, IsFiniteSet(T), NEW f, f \in [S -> T],
         \A x \in S, y \in S : f[x] = f[y] => x = y
  PROVE  IsFiniteSet(S) /\ Cardinality(S) <= Cardinality(T)
<1>1. f \in Injection(S, T)
  BY Fun_IsInj
<1> QED  BY <1>1, FS_Injection

\* Characters of a window of a, each with one of its own in b.
Pairing(a, b, alo, ahi, blo, bhi, I, f) ==
  /\ I \subseteq alo..ahi /\ f \in [I -> blo..bhi]
  /\ \A x \in I : a[x] = b[f[x]]
  /\ \A x \in I, y \in I : f[x] = f[y] => x = y

\* The pairs of the two sides and those of the block together.
LEMMA PairsAddUp ==
  ASSUME NEW a, NEW b, NEW alo, NEW ahi, NEW blo, NEW bhi, Win(a, b, alo, ahi, blo, bhi),
         NEW i, NEW j, NEW k, Block(a, b, alo, ahi, blo, bhi, i, j, k),
         NEW ahi1, NEW bhi1, ahi1 = i - 1, bhi1 = j - 1,
         NEW alo2, NEW blo2, alo2 = i + k, blo2 = j + k,
         NEW I1, NEW f1, Pairing(a, b, alo, ahi1, blo, bhi1, I1, f1),
         NEW I2, NEW f2, Pairing(a, b, alo2, ahi, blo2, bhi, I2, f2)
  PROVE  \E I, f : /\ Pairing(a, b, alo, ahi, blo, bhi, I, f)
                   /\ Cardinality(I) = (k + Cardinality(I1)) + Cardinality(I2)
<1> DEFINE B == i..((i + k) - 1)
           I == I1 \union B \union I2
           f == [x \in I |-> IF x \in I1 THEN f1[x] ELSE IF x \in I2 THEN f2[x] ELSE (x - i) + j]
<1>1. alo \in Nat \ {0} /\ ahi \in Nat /\ blo \in Nat \ {0} /\ bhi \in Nat
  BY DEF Win
<1>2. /\ i \in Nat /\ j \in Nat /\ k \in Nat \ {0}
      /\ alo <= i /\ (i + k) - 1 <= ahi /\ blo <= j /\ (j + k) - 1 <= bhi
      /\ \A d \in 0..(k - 1) : a[i + d] = b[j + d]
  BY DEF Block, Run
<1>3. /\ I1 \subseteq alo..(i - 1) /\ f1 \in [I1 -> blo..(j - 1)]
      /\ \A x \in I1 : a[x] = b[f1[x]]
      /\ \A x \in I1, y \in I1 : f1[x] = f1[y] => x = y
  BY DEF Pairing
<1>4. /\ I2 \subseteq (i + k)..ahi /\ f2 \in [I2 -> (j + k)..bhi]
      /\ \A x \in I2 : a[x] = b[f2[x]]
      /\ \A x \in I2, y \in I2 : f2[x] = f2[y] => x = y
  BY DEF Pairing
<1>5. /\ \A x \in I1 : x \in Int /\ alo <= x /\ x < i
      /\ \A x \in I2 : x \in Int /\ i + k <= x /\ x <= ahi
      /\ \A x \in B : x \in Int /\ i <= x /\ x < i + k
  BY <1>1, <1>2, <1>3, <1>4
<1>6. \A x \in I1 : x \notin I2 /\ x \notin B
  BY <1>1, <1>2, <1>5
<1>7. \A x \in I2 : x \notin B
  BY <1>1, <1>2, <1>5
<1>8. /\ \A x \in I1 : f[x] = f1[x] /\ f[x] \in Int /\ blo <= f[x] /\ f[x] < j
      /\ \A x \in I2 : f[x] = f2[x] /\ f[x] \in Int /\ j + k <= f[x] /\ f[x] <= bhi
      /\ \A x \in B : f[x] = (x - i) + j /\ f[x] \in Int /\ j <= f[x] /\ f[x] < j + k
  <2>1. ASSUME NEW x \in I1
        PROVE  f[x] = f1[x] /\ f[x] \in Int /\ blo <= f[x] /\ f[x] < j
    <3>1. f[x] = f1[x] /\ f1[x] \in blo..(j - 1)
      BY <1>3
    <3> QED  BY <1>1, <1>2, <3>1
  <2>2. ASSUME NEW x \in I2
        PROVE  f[x] = f2[x] /\ f[x] \in Int /\ j + k <= f[x] /\ f[x] <= bhi
    <3>1. f[x] = f2[x] /\ f2[x] \in (j + k)..bhi
      BY <1>4, <1>6
    <3> QED  BY <1>1, <1>2, <3>1
  <2>3. ASSUME NEW x \in B
        PROVE  f[x] = (x - i) + j /\ f[x] \in Int /\ j <= f[x] /\ f[x] < j + k
    <3>1. f[x] = (x - i) + j
      BY <1>6, <1>7
    <3> QED  BY <1>2, <1>5, <3>1
  <2> HIDE DEF f, B
  <2> QED  BY <2>1, <2>2, <2>3
<1>9. DOMAIN f = I /\ f = [x \in I |-> f[x]]
  OBVIOUS
<1> HIDE DEF f
<1>10. I \subseteq alo..ahi
  BY <1>1, <1>2, <1>5
<1>11. ASSUME NEW x \in I
       PROVE  f[x] \in blo..bhi /\ a[x] = b[f[x]]
  <2>1. CASE x \in I1
    <3>1. f[x] \in blo..bhi
      BY <1>1, <1>2, <1>8, <2>1
    <3> QED  BY <1>3, <1>8, <2>1, <3>1
  <2>2. CASE x \in I2
    <3>1. f[x] \in blo..bhi
      BY <1>1, <1>2, <1>8, <2>2
    <3> QED  BY <1>4, <1>8, <2>2, <3>1
  <2>3. CASE x \in B
    <3>1. f[x] \in blo..bhi
      BY <1>1, <1>2, <1>8, <2>3
    <3>2. x - i \in 0..(k - 1) /\ i + (x - i) = x /\ j + (x - i) = f[x]
      BY <1>2, <1>5, <1>8, <2>3
    <3> QED  BY <1>2, <3>1, <3>2
  <2> QED  BY <2>1, <2>2, <2>3
<1>12. ASSUME NEW x \in I, NEW y \in I, f[x] = f[y]
       PROVE  x = y
  <2>1. CASE x \in I1
    <3>1. y \in I1
      BY <1>1, <1>2, <1>8, <1>12, <2>1
    <3> QED  BY <1>3, <1>8, <1>12, <2>1, <3>1
  <2>2. CASE x \in I2
    <3>1. y \in I2
      BY <1>1, <1>2, <1>8, <1>12, <2>2
    <3> QED  BY <1>4, <1>8, <1>12, <2>2, <3>1
  <2>3. CASE x \in B
    <3>1. y \in B
      BY <1>1, <1>2, <1>8, <1>12, <2>3
    <3>2. f[x] = (x - i) + j /\ f[y] = (y - i) + j /\ x \in Int /\ y \in Int
      BY <1>5, <1>8, <2>3, <3>1
    <3>3. (x - i) + j = (y - i) + j
      BY <1>12, <3>2
    <3>4. x \in Int /\ y \in Int /\ i \in Nat /\ j \in Nat
      BY <1>2, <3>2
    <3> QED  BY <3>3, <3>4
  <2> QED  BY <2>1, <2>2, <2>3
<1> HIDE DEF I
<1>13. Pairing(a, b, alo, ahi, blo, bhi, I, f)
  <2>1. f \in [I -> blo..bhi]
    BY <1>9, <1>11
  <2> QED  BY <1>10, <1>11, <1>12, <2>1 DEF Pairing
<1>14. IsFiniteSet(I1) /\ IsFiniteSet(I2) /\ IsFiniteSet(B) /\ Cardinality(B) = k
  <2>1. IsFiniteSet(alo..(i - 1)) /\ IsFiniteSet((i + k)..ahi)
    BY <1>1, <1>2, FS_Interval
  <2>2. IsFiniteSet(I1) /\ IsFiniteSet(I2)
    BY <1>3, <1>4, <2>1, FS_Subset
  <2>3. i \in Int /\ (i + k) - 1 \in Int /\ ~(i > (i + k) - 1) /\ (((i + k) - 1) - i) + 1 = k
    BY <1>2
  <2>4. IsFiniteSet(B) /\ Cardinality(B) = k
    <3> DEFINE l == (i + k) - 1
    <3>1. l \in Int /\ ~(i > l) /\ (l - i) + 1 = k /\ i \in Int
      BY <2>3
    <3> HIDE DEF l
    <3>2. IsFiniteSet(i..l) /\ Cardinality(i..l) = k
      BY <3>1, FS_Interval
    <3> QED  BY <3>2 DEF l
  <2> QED  BY <2>2, <2>4
<1> HIDE DEF B
<1>15. IsFiniteSet(I1 \union B) /\ Cardinality(I1 \union B) = Cardinality(I1) + k
  <2>1. I1 \intersect B = {}
    BY <1>6
  <2>2. Cardinality(I1 \intersect B) = 0
    BY <2>1, FS_EmptySet
  <2>3. Cardinality(I1) \in Nat
    BY <1>14, FS_CardinalityType
  <2>4. /\ IsFiniteSet(I1 \union B)
        /\ Cardinality(I1 \union B) = Cardinality(I1) + Cardinality(B) - Cardinality(I1 \intersect B)
    BY <1>14, FS_Union
  <2> QED  BY <1>2, <1>14, <2>2, <2>3, <2>4
<1>16. Cardinality(I) = (k + Cardinality(I1)) + Cardinality(I2)
  <2> DEFINE J == I1 \union B
  <2>1. J \intersect I2 = {}
    BY <1>6, <1>7
  <2>2. Cardinality(J \intersect I2) = 0
    BY <2>1, FS_EmptySet
  <2>3. Cardinality(I1) \in Nat /\ Cardinality(I2) \in Nat
    BY <1>14, FS_CardinalityType
  <2>4. IsFiniteSet(J) /\ Cardinality(J) = Cardinality(I1) + k
    BY <1>15
  <2> HIDE DEF J
  <2>5. Cardinality(J \union I2) = Cardinality(J) + Cardinality(I2) - Cardinality(J \intersect I2)
    BY <1>14, <2>4, FS_Union
  <2>6. Cardinality(J \union I2) = (k + Cardinality(I1)) + Cardinality(I2)
    BY <1>2, <2>2, <2>3, <2>4, <2>5
  <2> QED  BY <2>6 DEF J, I
<1> QED  BY <1>13, <1>16

\* Matched counts pairs of characters.
LEMMA MatchedPairs ==
  ASSUME NEW a \in Seq(Nat), NEW b \in Seq(Nat), NEW depth \in Nat
  PROVE  \A d \in 0..depth, w \in Windows(a, b) :
           \E I, f : /\ Pairing(a, b, w.alo, w.ahi, w.blo, w.bhi, I, f)
                     /\ Cardinality(I) = MatchedWithin(a, b, depth)[d][w]
<1> DEFINE m == MatchedWithin(a, b, depth)
           paired(d, w) == \E I, f : /\ Pairing(a, b, w.alo, w.ahi, w.blo, w.bhi, I, f)
                                     /\ Cardinality(I) = m[d][w]
           good == {d \in 0..depth : \A w \in Windows(a, b) : paired(d, w)}
<1>1. ASSUME NEW d \in 0..depth, NEW w \in Windows(a, b), m[d][w] = 0
      PROVE  paired(d, w)
  <2>1. Pairing(a, b, w.alo, w.ahi, w.blo, w.bhi, {}, [x \in {} |-> x])
    BY DEF Pairing
  <2>2. Cardinality({}) = m[d][w]
    BY <1>1, FS_EmptySet
  <2> QED  BY <2>1, <2>2
<1>2. \A w \in Windows(a, b) : m[0][w] = 0
  BY WithinIs
<1>3. 0 \in good
  <2> HIDE DEF paired, m
  <2> QED  BY <1>1, <1>2
<1>4. ASSUME NEW n \in 0..(depth - 1), n \in good
      PROVE  n + 1 \in good
  <2> SUFFICES ASSUME NEW w \in Windows(a, b)
               PROVE  paired(n + 1, w)
    <3> HIDE DEF m, paired
    <3> QED  OBVIOUS
  <2> DEFINE hit == LongestMatch(a, b, w.alo, w.ahi, w.blo, w.bhi)
             i == hit.i
             j == hit.j
             k == hit.k
             left == Window(w.alo, i - 1, w.blo, j - 1)
             right == Window(i + k, w.ahi, j + k, w.bhi)
  <2>1. n + 1 \in 0..depth /\ n + 1 # 0 /\ (n + 1) - 1 = n /\ n \in 0..depth
    OBVIOUS
  <2>2. m[n + 1][w] = IF k = 0 THEN 0 ELSE k + m[n][left] + m[n][right]
    <3>1. ASSUME NEW d \in 0..depth
          PROVE  m[d][w] = IF d = 0 \/ hit.k = 0 THEN 0 ELSE k + m[d - 1][left] + m[d - 1][right]
      BY WithinIs
    <3> HIDE DEF m, left, right, hit, k
    <3> QED  BY <2>1, <3>1 DEF k
  <2>3. Win(a, b, w.alo, w.ahi, w.blo, w.bhi)
    BY WindowIs
  <2>4. CASE k = 0
    <3>1. m[n + 1][w] = 0
      BY <2>2, <2>4
    <3> HIDE DEF m, paired
    <3> QED  BY <1>1, <2>1, <3>1
  <2>5. CASE k # 0
    <3>1. TheBlock(a, b, w.alo, w.ahi, w.blo, w.bhi, i, j, k)
      BY <2>3, <2>5, HitIs
    <3> HIDE DEF hit, i, j, k
    <3>2. left \in Windows(a, b) /\ right \in Windows(a, b)
      BY <3>1, SidesAre
    <3>3. /\ left.alo = w.alo /\ left.ahi = i - 1 /\ left.blo = w.blo /\ left.bhi = j - 1
          /\ right.alo = i + k /\ right.ahi = w.ahi /\ right.blo = j + k /\ right.bhi = w.bhi
      BY DEF Window
    <3> HIDE DEF left, right
    <3>4. paired(n, left) /\ paired(n, right)
      <4> HIDE DEF paired, m
      <4> QED  BY <1>4, <3>2
    <3>5. PICK I1, f1 : /\ Pairing(a, b, left.alo, left.ahi, left.blo, left.bhi, I1, f1)
                        /\ Cardinality(I1) = m[n][left]
      <4> HIDE DEF m
      <4> QED  BY <3>4
    <3>6. PICK I2, f2 : /\ Pairing(a, b, right.alo, right.ahi, right.blo, right.bhi, I2, f2)
                        /\ Cardinality(I2) = m[n][right]
      <4> HIDE DEF m
      <4> QED  BY <3>4
    <3>7. Block(a, b, w.alo, w.ahi, w.blo, w.bhi, i, j, k)
      BY <3>1 DEF TheBlock
    <3> HIDE DEF m
    <3>8. \E I, f : /\ Pairing(a, b, w.alo, w.ahi, w.blo, w.bhi, I, f)
                    /\ Cardinality(I) = (k + Cardinality(I1)) + Cardinality(I2)
      <4>1. Pairing(a, b, w.alo, left.ahi, w.blo, left.bhi, I1, f1)
        BY <3>3, <3>5
      <4>2. Pairing(a, b, right.alo, w.ahi, right.blo, w.bhi, I2, f2)
        BY <3>3, <3>6
      <4> QED  BY <2>3, <3>3, <3>7, <4>1, <4>2, PairsAddUp
    <3>9. m[n + 1][w] = k + m[n][left] + m[n][right]
      BY <2>2, <2>5
    <3>10. m[n + 1][w] = (k + Cardinality(I1)) + Cardinality(I2)
      BY <3>5, <3>6, <3>9
    <3> QED  BY <3>8, <3>10
  <2> QED  BY <2>4, <2>5
<1>5. \A d \in 0..depth : d \in good
  <2> HIDE DEF good
  <2> QED  BY <1>3, <1>4, UpTo
<1> QED  BY <1>5

\* Where the character c is among the first n of s.
Occurrences(s, c, n) == {h \in 1..n : s[h] = c}

\* The first n are finitely many, one more at each place the character is at.
LEMMA OneMore ==
  ASSUME NEW s, NEW c, NEW n \in Nat, NEW I
  PROVE  LET T == Occurrences(s, c, n) \intersect I
             U == Occurrences(s, c, n + 1) \intersect I
         IN /\ IsFiniteSet(T) /\ Cardinality(T) \in Nat /\ IsFiniteSet(U)
            /\ Cardinality(U) = IF s[n + 1] = c /\ n + 1 \in I THEN Cardinality(T) + 1 ELSE Cardinality(T)
<1> DEFINE T == Occurrences(s, c, n) \intersect I
           U == Occurrences(s, c, n + 1) \intersect I
<1>1. IsFiniteSet(1..n)
  BY FS_Interval
<1>2. IsFiniteSet(T)
  BY <1>1, FS_Subset DEF Occurrences
<1>3. Cardinality(T) \in Nat
  BY <1>2, FS_CardinalityType
<1>4. n + 1 \notin T
  BY DEF Occurrences
<1>5. CASE s[n + 1] = c /\ n + 1 \in I
  <2>1. U = T \union {n + 1}
    BY <1>5 DEF Occurrences
  <2> HIDE DEF T, U
  <2>2. IsFiniteSet(U) /\ Cardinality(U) = Cardinality(T) + 1
    BY <1>2, <1>4, <2>1, FS_AddElement
  <2> QED  BY <1>2, <1>3, <1>5, <2>2 DEF T, U
<1>6. CASE ~(s[n + 1] = c /\ n + 1 \in I)
  <2>1. U = T
    BY <1>6 DEF Occurrences
  <2> HIDE DEF T, U
  <2> QED  BY <1>2, <1>3, <1>6, <2>1 DEF T, U
<1> QED  BY <1>5, <1>6

LEMMA MoreFurther ==
  ASSUME NEW s, NEW c, NEW n \in Nat, NEW k \in Nat, n <= k, NEW I
  PROVE  Cardinality(Occurrences(s, c, n) \intersect I) <= Cardinality(Occurrences(s, c, k) \intersect I)
<1>1. IsFiniteSet(Occurrences(s, c, k) \intersect I)
  BY OneMore
<1>2. Occurrences(s, c, n) \intersect I \subseteq Occurrences(s, c, k) \intersect I
  BY DEF Occurrences
<1> HIDE DEF Occurrences
<1> QED  BY <1>1, <1>2, FS_Subset

\* Of more than r occurrences, one has r before it.
LEMMA RankIsMet ==
  ASSUME NEW s, NEW c, NEW n \in Nat, NEW r \in Nat, r < Cardinality(Occurrences(s, c, n))
  PROVE  \E y \in 1..n : s[y] = c /\ Cardinality(Occurrences(s, c, y - 1)) = r
<1> DEFINE size(k) == Cardinality(Occurrences(s, c, k))
           S == {k \in 0..n : r < size(k)}
<1>1. \A k \in Nat : /\ size(k) \in Nat
                     /\ size(k + 1) = IF s[k + 1] = c THEN size(k) + 1 ELSE size(k)
  <2> TAKE k \in Nat
  <2> DEFINE all == 1..(k + 1)
  <2>1. /\ Occurrences(s, c, k) \intersect all = Occurrences(s, c, k)
        /\ Occurrences(s, c, k + 1) \intersect all = Occurrences(s, c, k + 1)
        /\ k + 1 \in all
    BY SMTT(30) DEF Occurrences
  <2> HIDE DEF all
  <2> QED  BY <2>1, OneMore
<1>2. size(0) = 0
  <2>1. Occurrences(s, c, 0) = {}
    BY DEF Occurrences
  <2> QED  BY <2>1, FS_EmptySet
<1> HIDE DEF size
<1>3. n \in S /\ S \subseteq Nat
  BY DEF size
<1>4. PICK y \in S : \A k \in S : y <= k
  <2> HIDE DEF S
  <2> QED  BY <1>3, LeastOf
<1>5. y \in 1..n /\ r < size(y)
  BY <1>2, <1>4
<1>6. y - 1 \in Nat /\ (y - 1) + 1 = y /\ ~(r < size(y - 1))
  BY <1>4, <1>5
<1>7. s[y] = c /\ size(y - 1) = r
  <2> DEFINE x == y - 1
  <2>1. x \in Nat /\ x + 1 = y /\ ~(r < size(x))
    BY <1>6
  <2> HIDE DEF x
  <2>2. size(x) \in Nat /\ size(y) = IF s[y] = c THEN size(x) + 1 ELSE size(x)
    BY <1>1, <2>1
  <2>3. s[y] = c /\ size(x) = r
    BY <1>5, <2>1, <2>2
  <2> QED  BY <2>3 DEF x
<1> QED  BY <1>5, <1>7 DEF size

\* The characters quickRatio counts: as many before, at most, as b has of them.
Counted(a, n, b, k) ==
  {i \in 1..n : Cardinality(Occurrences(a, a[i], i - 1)) < Cardinality(Occurrences(b, a[i], k))}

\* Each character paired has its own among those counted: the one its rank is met at.
LEMMA PairsAreCounted ==
  ASSUME NEW a, NEW b, NEW n \in Nat, NEW k \in Nat, NEW I, NEW f, Pairing(a, b, 1, n, 1, k, I, f)
  PROVE  /\ Cardinality(I) <= Cardinality(Counted(a, n, b, k))
         /\ Cardinality(I) <= n /\ Cardinality(I) <= k
         /\ Cardinality(Counted(a, n, b, k)) \in Nat
<1> DEFINE rank(x) == Cardinality(Occurrences(a, a[x], x - 1) \intersect I)
           C == Counted(a, n, b, k)
<1>1. /\ I \subseteq 1..n /\ f \in [I -> 1..k]
      /\ \A x \in I : a[x] = b[f[x]]
      /\ \A x \in I, y \in I : f[x] = f[y] => x = y
  BY DEF Pairing
<1>5. \A x \in I : x \in 1..n
  BY <1>1, Zenon
<1>15. f \in [I -> 1..k] /\ \A x \in I, y \in I : f[x] = f[y] => x = y
  BY <1>1, Zenon
<1>2. /\ IsFiniteSet(1..n) /\ Cardinality(1..n) = n
      /\ IsFiniteSet(1..k) /\ Cardinality(1..k) = k
  BY FS_Interval
<1>3. Cardinality(I) <= n /\ IsFiniteSet(I)
  BY <1>2, <1>5, FS_Subset
<1>4. Cardinality(I) <= k
  <2> DEFINE T == 1..k
  <2>1. IsFiniteSet(T) /\ f \in [I -> T] /\ Cardinality(T) = k
    BY <1>2, <1>15
  <2> HIDE DEF T
  <2>2. Cardinality(I) <= Cardinality(T)
    BY <1>15, <2>1, OneToOne
  <2> QED  BY <2>1, <2>2
<1>6. IsFiniteSet(C) /\ Cardinality(C) \in Nat
  <2>1. C \subseteq 1..n
    BY DEF Counted
  <2> HIDE DEF C
  <2> QED  BY <1>2, <2>1, FS_Subset, FS_CardinalityType
<1> HIDE DEF C, rank
<1>7. ASSUME NEW x \in I
      PROVE  /\ x \in Nat \ {0} /\ x <= n /\ rank(x) \in Nat
             /\ rank(x) + 1 = Cardinality(Occurrences(a, a[x], x) \intersect I)
  <2>1. x \in Nat \ {0} /\ x <= n
    BY <1>5
  <2> DEFINE y == x - 1
  <2>2. y \in Nat /\ y + 1 = x
    BY <2>1
  <2> HIDE DEF y
  <2>3. /\ Cardinality(Occurrences(a, a[x], y) \intersect I) \in Nat
        /\ Cardinality(Occurrences(a, a[x], y + 1) \intersect I) =
             IF a[y + 1] = a[x] /\ y + 1 \in I THEN Cardinality(Occurrences(a, a[x], y) \intersect I) + 1
             ELSE Cardinality(Occurrences(a, a[x], y) \intersect I)
    BY <2>2, OneMore
  <2>4. Cardinality(Occurrences(a, a[x], y) \intersect I) = rank(x)
    BY DEF rank, y
  <2> QED  BY <2>1, <2>2, <2>3, <2>4
<1>16. \A x \in I : x \in Nat \ {0} /\ x <= n /\ rank(x) \in Nat
  BY <1>7
<1>8. ASSUME NEW x \in I
      PROVE  rank(x) < Cardinality(Occurrences(b, a[x], k))
  <2> DEFINE S == Occurrences(a, a[x], n) \intersect I
             T == Occurrences(b, a[x], k)
             g == [h \in S |-> f[h]]
  <2>1. T \subseteq 1..k /\ IsFiniteSet(T) /\ Cardinality(T) \in Nat
    <3>1. T \subseteq 1..k
      BY DEF Occurrences
    <3> HIDE DEF T
    <3> QED  BY <1>2, <3>1, FS_Subset, FS_CardinalityType
  <2>2. \A h \in S : h \in I /\ a[h] = a[x]
    BY DEF Occurrences
  <2>3. g \in [S -> T] /\ \A h \in S : g[h] = f[h]
    <3>1. \A h \in S : f[h] \in T
      <4> TAKE h \in S
      <4>1. h \in I /\ a[h] = a[x] /\ a[h] = b[f[h]] /\ f[h] \in 1..k
        BY <1>1, <2>2
      <4> QED  BY <4>1 DEF Occurrences
    <3> HIDE DEF S, T
    <3> QED  BY <3>1
  <2> HIDE DEF S, T, g
  <2>4. IsFiniteSet(S) /\ Cardinality(S) <= Cardinality(T)
    <3>1. \A h \in S, i \in S : g[h] = g[i] => h = i
      BY <1>1, <2>2, <2>3
    <3> QED  BY <2>1, <2>3, <3>1, OneToOne
  <2>5. Cardinality(S) \in Nat
    BY <2>4, FS_CardinalityType
  <2>6. rank(x) + 1 <= Cardinality(S)
    <3>1. x \in Nat /\ x <= n
      BY <1>16
    <3>2. Cardinality(Occurrences(a, a[x], x) \intersect I) <= Cardinality(S)
      BY <3>1, MoreFurther DEF S
    <3> QED  BY <1>7, <3>2
  <2> QED  BY <1>16, <2>1, <2>4, <2>5, <2>6 DEF T
<1>9. ASSUME NEW x \in I
      PROVE  \E y \in C : a[y] = a[x] /\ Cardinality(Occurrences(a, a[x], y - 1)) = rank(x)
  <2>1. rank(x) < Cardinality(Occurrences(a, a[x], n))
    <3>1. rank(x) + 1 <= Cardinality(Occurrences(a, a[x], n) \intersect I)
      <4>1. x \in Nat /\ x <= n
        BY <1>16
      <4>2. Cardinality(Occurrences(a, a[x], x) \intersect I) <= Cardinality(Occurrences(a, a[x], n) \intersect I)
        BY <4>1, MoreFurther
      <4> QED  BY <1>7, <4>2
    <3>2. Occurrences(a, a[x], n) \subseteq 1..n
      BY DEF Occurrences
    <3>3. IsFiniteSet(Occurrences(a, a[x], n))
      BY <1>2, <3>2, FS_Subset
    <3> DEFINE all == Occurrences(a, a[x], n)
    <3> HIDE DEF all
    <3>4. Cardinality(all \intersect I) <= Cardinality(all) /\ IsFiniteSet(all \intersect I)
      BY <3>3, FS_Subset DEF all
    <3>5. Cardinality(all) \in Nat /\ Cardinality(all \intersect I) \in Nat
      BY <3>3, <3>4, FS_CardinalityType DEF all
    <3> QED  BY <1>16, <3>1, <3>4, <3>5 DEF all
  <2>2. PICK y \in 1..n : a[y] = a[x] /\ Cardinality(Occurrences(a, a[x], y - 1)) = rank(x)
    BY <1>16, <2>1, RankIsMet
  <2>3. y \in C
    BY <1>8, <2>2 DEF C, Counted
  <2> QED  BY <2>2, <2>3
<1> DEFINE here(x, y) == a[y] = a[x] /\ Cardinality(Occurrences(a, a[x], y - 1)) = rank(x)
           g == [x \in I |-> CHOOSE y \in C : here(x, y)]
<1>10. \A x \in I : g[x] \in C /\ a[g[x]] = a[x] /\ Cardinality(Occurrences(a, a[x], g[x] - 1)) = rank(x)
  <2> TAKE x \in I
  <2>1. \E y \in C : here(x, y)
    BY <1>9
  <2> HIDE DEF here
  <2>2. g[x] \in C /\ here(x, g[x])
    BY <2>1
  <2> QED  BY <2>2 DEF here
<1>11. g \in [I -> C]
  <2>1. \A x \in I : g[x] \in C
    BY <1>10
  <2> HIDE DEF here
  <2> QED  BY <2>1
<1> HIDE DEF g
<1>12. ASSUME NEW x \in I, NEW y \in I, a[x] = a[y], x < y
       PROVE  rank(x) < rank(y)
  <2>1. x \in Nat /\ y - 1 \in Nat /\ x <= y - 1
    BY <1>12, <1>16
  <2>2. rank(x) + 1 <= rank(y)
    <3> DEFINE z == y - 1
    <3>1. z \in Nat /\ x <= z
      BY <2>1
    <3> HIDE DEF z
    <3>2. Cardinality(Occurrences(a, a[x], x) \intersect I) <= Cardinality(Occurrences(a, a[x], z) \intersect I)
      BY <2>1, <3>1, MoreFurther
    <3>3. rank(y) = Cardinality(Occurrences(a, a[x], z) \intersect I)
      BY <1>12 DEF rank, z
    <3> QED  BY <1>7, <3>2, <3>3
  <2> QED  BY <1>16, <2>2
<1>13. \A x \in I, y \in I : g[x] = g[y] => x = y
  <2> SUFFICES ASSUME NEW x \in I, NEW y \in I, g[x] = g[y]
               PROVE  x = y
    OBVIOUS
  <2>1. a[x] = a[y] /\ rank(x) = rank(y)
    BY <1>10
  <2>2. x \in Nat /\ y \in Nat /\ rank(x) \in Nat /\ rank(y) \in Nat
    BY <1>16
  <2>3. ~(x < y)
    BY <1>12, <2>1, <2>2
  <2>4. ~(y < x)
    BY <1>12, <2>1, <2>2
  <2> QED  BY <2>2, <2>3, <2>4
<1>14. Cardinality(I) <= Cardinality(C)
  BY <1>6, <1>11, <1>13, OneToOne
<1> QED  BY <1>3, <1>4, <1>6, <1>14 DEF C

\* The cheap tests bound what matched finds.
LEMMA MatchedIsBounded ==
  ASSUME NEW a \in Seq(Nat), NEW b \in Seq(Nat)
  PROVE  /\ Matched(a, b) \in Nat /\ QuickMatched(a, b) \in Nat
         /\ Matched(a, b) <= QuickMatched(a, b)
         /\ Matched(a, b) <= Len(a) /\ Matched(a, b) <= Len(b)
<1> DEFINE w == Window(1, Len(a), 1, Len(b))
<1>1. /\ w \in Windows(a, b)
      /\ w.alo = 1 /\ w.ahi = Len(a) /\ w.blo = 1 /\ w.bhi = Len(b)
  BY DEF Window, Windows
<1> HIDE DEF w
<1>2. Len(a) \in Nat /\ Len(a) \in 0..Len(a)
  OBVIOUS
<1>3. PICK I, f : /\ Pairing(a, b, w.alo, w.ahi, w.blo, w.bhi, I, f)
                  /\ Cardinality(I) = MatchedWithin(a, b, Len(a))[Len(a)][w]
  BY <1>1, <1>2, MatchedPairs
<1>4. Cardinality(I) = Matched(a, b)
  BY <1>3 DEF Matched, w
<1>5. Pairing(a, b, 1, Len(a), 1, Len(b), I, f)
  BY <1>1, <1>3
<1> DEFINE n == Len(a)
           k == Len(b)
<1>6. n \in Nat /\ k \in Nat
  OBVIOUS
<1>7. QuickMatched(a, b) = Cardinality(Counted(a, n, b, k))
  <2>1. DOMAIN a = 1..n /\ DOMAIN b = 1..k
    OBVIOUS
  <2> HIDE DEF n, k
  <2> QED  BY <2>1, Zenon DEF QuickMatched, Counted, Occurrences, Count
<1>8. Pairing(a, b, 1, n, 1, k, I, f)
  BY <1>5
<1>9. Matched(a, b) \in Nat
  BY MatchedIsTheReference
<1> HIDE DEF n, k
<1>10. /\ Matched(a, b) <= QuickMatched(a, b) /\ QuickMatched(a, b) \in Nat
       /\ Matched(a, b) <= n /\ Matched(a, b) <= k
  BY <1>4, <1>6, <1>7, <1>8, PairsAreCounted
<1> QED  BY <1>9, <1>10 DEF n, k

-----------------------------------------------------------------------------
\* Strings are in an order

\* The i-th character, and 0 past the end.
Char(x, i) == IF i <= Len(x) THEN x[i] + 1 ELSE 0
FirstAt(x, y, i) == /\ i \in Nat \ {0} /\ Char(x, i) > Char(y, i)
                    /\ \A j \in 1..(i - 1) : Char(x, j) = Char(y, j)

LEMMA CharIs ==
  ASSUME NEW x \in Seq(Nat), NEW i \in Nat \ {0}
  PROVE  /\ Char(x, i) \in Nat /\ Len(x) \in Nat
         /\ i <= Len(x) => x[i] \in Nat /\ Char(x, i) = x[i] + 1
         /\ ~(i <= Len(x)) => Char(x, i) = 0
<1>1. Len(x) \in Nat
  OBVIOUS
<1>2. i <= Len(x) => x[i] \in Nat
  <2> SUFFICES ASSUME i <= Len(x)
               PROVE  x[i] \in Nat
    OBVIOUS
  <2>1. i \in 1..Len(x)
    BY <1>1
  <2> QED  BY <2>1
<1> QED  BY <1>1, <1>2 DEF Char

\* Greater is what the first character that differs says.
LEMMA GreaterIs ==
  ASSUME NEW x \in Seq(Nat), NEW y \in Seq(Nat)
  PROVE  Greater(x, y) <=> \E i : FirstAt(x, y, i)
<1> DEFINE n == Len(x)
           k == Len(y)
           both == Min({n, k})
<1>1. n \in Nat /\ k \in Nat
  OBVIOUS
<1>2. Greater(x, y) <=> \/ \E i \in 1..both : x[i] > y[i] /\ \A j \in 1..(i - 1) : x[j] = y[j]
                        \/ n > k /\ SubSeq(x, 1, k) = y
  BY Zenon DEF Greater
<1>3. both \in Nat /\ both <= n /\ both <= k /\ (both = n \/ both = k)
  <2> HIDE DEF n, k
  <2>1. {n, k} \subseteq Nat /\ {n, k} # {}
    BY <1>1
  <2>2. both \in {n, k} /\ \A m \in {n, k} : both <= m
    BY <2>1, LeastOf
  <2> QED  BY <1>1, <2>2
<1> HIDE DEF both
<1>4. \A i \in Nat \ {0} : /\ Char(x, i) \in Nat /\ Char(y, i) \in Nat
                           /\ i <= n => x[i] \in Nat /\ Char(x, i) = x[i] + 1
                           /\ ~(i <= n) => Char(x, i) = 0
                           /\ i <= k => y[i] \in Nat /\ Char(y, i) = y[i] + 1
                           /\ ~(i <= k) => Char(y, i) = 0
  BY CharIs
<1> DEFINE p == SubSeq(x, 1, k)
<1>5. k <= n => /\ p \in Seq(Nat) /\ Len(p) = k
                /\ \A j \in 1..k : p[j] = x[j]
  <2> SUFFICES ASSUME k <= n
               PROVE  /\ p \in Seq(Nat) /\ Len(p) = k
                      /\ \A j \in 1..k : p[j] = x[j]
    OBVIOUS
  <2>1. /\ p \in Seq(Nat) /\ Len(p) = IF 1 <= k THEN (k - 1) + 1 ELSE 0
        /\ \A j \in 1..Len(p) : p[j] = x[(1 + j) - 1]
    <3>1. 1 \in 1..(Len(x) + 1) /\ k \in 0..Len(x)
      BY <1>1
    <3> HIDE DEF k
    <3> QED  BY <3>1, PartIs
  <2> HIDE DEF p, n, k
  <2>2. Len(p) = k
    BY <1>1, <2>1
  <2>3. \A j \in 1..k : (1 + j) - 1 = j
    BY <1>1
  <2> QED  BY <2>1, <2>2, <2>3
<1> HIDE DEF p
<1>7. k <= n => (p = y <=> \A j \in 1..k : x[j] = y[j])
  <2> SUFFICES ASSUME k <= n
               PROVE  p = y <=> \A j \in 1..k : x[j] = y[j]
    OBVIOUS
  <2>1. p \in Seq(Nat) /\ y \in Seq(Nat) /\ Len(p) = Len(y) /\ \A j \in 1..Len(p) : p[j] = x[j]
    BY <1>5
  <2>2. (\A j \in 1..k : x[j] = y[j]) => p = y
    <3> SUFFICES ASSUME \A j \in 1..k : x[j] = y[j]
                 PROVE  p = y
      OBVIOUS
    <3>1. \A j \in 1..Len(p) : p[j] = y[j]
      BY <2>1
    <3> QED  BY <2>1, <3>1, SeqEqual
  <2>3. p = y => \A j \in 1..k : x[j] = y[j]
    BY <2>1
  <2> QED  BY <2>2, <2>3
<1> HIDE DEF n, k
<1>8. ASSUME Greater(x, y)
      PROVE  \E i : FirstAt(x, y, i)
  <2>1. CASE \E i \in 1..both : x[i] > y[i] /\ \A j \in 1..(i - 1) : x[j] = y[j]
    <3>1. PICK i \in 1..both : x[i] > y[i] /\ \A j \in 1..(i - 1) : x[j] = y[j]
      BY <2>1
    <3>2. i \in Nat \ {0} /\ i <= n /\ i <= k
      BY <1>1, <1>3
    <3>3. Char(x, i) > Char(y, i)
      <4>1. x[i] > y[i]
        BY <3>1
      <4>2. x[i] \in Nat /\ Char(x, i) = x[i] + 1 /\ y[i] \in Nat /\ Char(y, i) = y[i] + 1
        BY <1>4, <3>2
      <4> QED  BY <4>1, <4>2
    <3>4. ASSUME NEW j \in 1..(i - 1)
          PROVE  Char(x, j) = Char(y, j)
      <4>1. j \in Nat \ {0} /\ j <= n /\ j <= k
        BY <1>1, <3>2
      <4> QED  BY <1>4, <3>1, <4>1
    <3> QED  BY <3>2, <3>3, <3>4 DEF FirstAt
  <2>2. CASE n > k /\ p = y
    <3>1. k + 1 \in Nat \ {0} /\ k + 1 <= n /\ ~(k + 1 <= k) /\ k <= n
      BY <1>1, <2>2
    <3>2. Char(x, k + 1) > Char(y, k + 1)
      BY <1>4, <3>1
    <3>3. ASSUME NEW j \in 1..((k + 1) - 1)
          PROVE  Char(x, j) = Char(y, j)
      <4>1. j \in Nat \ {0} /\ j <= n /\ j <= k /\ j \in 1..k
        BY <1>1, <3>1
      <4>2. x[j] = y[j]
        BY <1>7, <2>2, <3>1, <4>1
      <4> QED  BY <1>4, <4>1, <4>2
    <3> QED  BY <3>1, <3>2, <3>3 DEF FirstAt
  <2> QED  BY <1>2, <1>8, <2>1, <2>2 DEF p
<1>9. ASSUME NEW i, FirstAt(x, y, i)
      PROVE  Greater(x, y)
  <2>1. /\ i \in Nat \ {0} /\ Char(x, i) > Char(y, i)
        /\ \A j \in 1..(i - 1) : Char(x, j) = Char(y, j)
    BY <1>9 DEF FirstAt
  <2>2. i <= n
    BY <1>1, <1>4, <2>1
  <2>3. i <= k + 1
    <3> SUFFICES ASSUME ~(i <= k + 1)
                 PROVE  FALSE
      OBVIOUS
    <3>1. k + 1 \in 1..(i - 1) /\ k + 1 \in Nat \ {0} /\ k + 1 <= n /\ ~(k + 1 <= k)
      BY <1>1, <2>1, <2>2
    <3>2. Char(x, k + 1) = Char(y, k + 1)
      BY <2>1, <3>1
    <3> QED  BY <1>4, <3>1, <3>2
  <2>4. ASSUME NEW j \in 1..(i - 1)
        PROVE  x[j] = y[j]
    <3>1. j \in Nat \ {0} /\ j <= n /\ j <= k
      BY <1>1, <2>1, <2>2, <2>3
    <3>2. Char(x, j) = Char(y, j)
      BY <2>1
    <3>3. x[j] \in Nat /\ Char(x, j) = x[j] + 1 /\ y[j] \in Nat /\ Char(y, j) = y[j] + 1
      BY <1>4, <3>1
    <3>4. x[j] + 1 = y[j] + 1
      BY <3>2, <3>3
    <3>5. x[j] \in Nat /\ y[j] \in Nat
      BY <3>3
    <3> QED  BY <3>4, <3>5
  <2>5. CASE i <= k
    <3>1. i \in 1..both
      BY <1>1, <1>3, <2>1, <2>2, <2>5
    <3>2. x[i] > y[i]
      <4>1. Char(x, i) > Char(y, i)
        BY <2>1
      <4>2. x[i] \in Nat /\ Char(x, i) = x[i] + 1 /\ y[i] \in Nat /\ Char(y, i) = y[i] + 1
        BY <1>4, <2>1, <2>2, <2>5
      <4> QED  BY <4>1, <4>2
    <3> QED  BY <1>2, <2>4, <3>1, <3>2
  <2>6. CASE i = k + 1
    <3>1. n > k /\ k <= n /\ i - 1 = k
      BY <1>1, <2>2, <2>6
    <3>2. p = y
      BY <1>7, <2>4, <3>1
    <3> QED  BY <1>2, <3>1, <3>2 DEF p
  <2> QED  BY <1>1, <2>1, <2>3, <2>5, <2>6
<1> QED  BY <1>8, <1>9

\* One string is not both greater than another and less, of two one is greater, and it is
\* greater than what the other is.
LEMMA GreaterIsAnOrder ==
  ASSUME NEW x \in Seq(Nat), NEW y \in Seq(Nat), NEW z \in Seq(Nat)
  PROVE  /\ ~(Greater(x, y) /\ Greater(y, x))
         /\ x # y => Greater(x, y) \/ Greater(y, x)
         /\ Greater(x, y) /\ Greater(y, z) => Greater(x, z)
<1>1. \A i \in Nat \ {0} : Char(x, i) \in Nat /\ Char(y, i) \in Nat /\ Char(z, i) \in Nat
  BY CharIs
<1>2. ASSUME NEW i, NEW j, FirstAt(x, y, i), FirstAt(y, x, j)
      PROVE  FALSE
  <2>1. i \in Nat \ {0} /\ j \in Nat \ {0}
    BY <1>2 DEF FirstAt
  <2>2. CASE i < j
    <3>1. i \in 1..(j - 1)
      BY <2>1, <2>2
    <3>2. Char(y, i) = Char(x, i) /\ Char(x, i) > Char(y, i)
      BY <1>2, <3>1 DEF FirstAt
    <3> QED  BY <1>1, <2>1, <3>2
  <2>3. CASE j < i
    <3>1. j \in 1..(i - 1)
      BY <2>1, <2>3
    <3>2. Char(x, j) = Char(y, j) /\ Char(y, j) > Char(x, j)
      BY <1>2, <3>1 DEF FirstAt
    <3> QED  BY <1>1, <2>1, <3>2
  <2>4. CASE i = j
    <3>1. Char(x, i) > Char(y, i) /\ Char(y, i) > Char(x, i)
      BY <1>2, <2>4 DEF FirstAt
    <3> QED  BY <1>1, <2>1, <3>1
  <2> QED  BY <2>1, <2>2, <2>3, <2>4
<1>3. ASSUME x # y
      PROVE  \E i : FirstAt(x, y, i) \/ FirstAt(y, x, i)
  <2> DEFINE S == {i \in Nat \ {0} : Char(x, i) # Char(y, i)}
  <2>1. S # {}
    <3> SUFFICES ASSUME S = {}
                 PROVE  x = y
      BY <1>3
    <3>1. \A i \in Nat \ {0} : Char(x, i) = Char(y, i)
      OBVIOUS
    <3> DEFINE n == Len(x)
               k == Len(y)
    <3>2. \A i \in Nat \ {0} : /\ i <= n => x[i] \in Nat /\ Char(x, i) = x[i] + 1
                               /\ ~(i <= n) => Char(x, i) = 0
                               /\ i <= k => y[i] \in Nat /\ Char(y, i) = y[i] + 1
                               /\ ~(i <= k) => Char(y, i) = 0
      BY CharIs
    <3>3. n \in Nat /\ k \in Nat
      OBVIOUS
    <3> HIDE DEF n, k, S
    <3>4. ~(n < k)
      <4> SUFFICES ASSUME n < k
                   PROVE  FALSE
        OBVIOUS
      <4> DEFINE i == n + 1
      <4>1. i \in Nat \ {0} /\ ~(i <= n) /\ i <= k
        BY <3>3
      <4> HIDE DEF i
      <4>2. Char(x, i) = 0 /\ y[i] \in Nat /\ Char(y, i) = y[i] + 1
        BY <3>2, <4>1
      <4>3. Char(x, i) = Char(y, i)
        BY <3>1, <4>1
      <4> QED  BY <4>2, <4>3
    <3>5. ~(k < n)
      <4> SUFFICES ASSUME k < n
                   PROVE  FALSE
        OBVIOUS
      <4> DEFINE i == k + 1
      <4>1. i \in Nat \ {0} /\ ~(i <= k) /\ i <= n
        BY <3>3
      <4> HIDE DEF i
      <4>2. Char(y, i) = 0 /\ x[i] \in Nat /\ Char(x, i) = x[i] + 1
        BY <3>2, <4>1
      <4>3. Char(y, i) = Char(x, i)
        BY <3>1, <4>1
      <4> QED  BY <4>2, <4>3
    <3>6. n = k
      BY <3>3, <3>4, <3>5
    <3>7. ASSUME NEW i \in 1..n
          PROVE  x[i] = y[i]
      <4>1. i \in Nat \ {0} /\ i <= n /\ i <= k
        BY <3>3, <3>6
      <4> QED  BY <3>1, <3>2, <4>1, SMTT(30)
    <3> QED  BY <3>6, <3>7, SeqEqual DEF n, k
  <2>2. S \subseteq Nat
    OBVIOUS
  <2>3. PICK i \in S : \A j \in S : i <= j
    <3> HIDE DEF S
    <3> QED  BY <2>1, <2>2, LeastOf
  <2>4. ASSUME NEW j \in 1..(i - 1)
        PROVE  Char(x, j) = Char(y, j)
    <3>1. j \in Nat \ {0} /\ ~(i <= j)
      BY <2>3
    <3> QED  BY <2>3, <3>1
  <2>5. i \in Nat \ {0} /\ (Char(x, i) > Char(y, i) \/ Char(y, i) > Char(x, i))
    BY <1>1, <2>3
  <2>6. FirstAt(x, y, i) \/ FirstAt(y, x, i)
    BY <2>4, <2>5 DEF FirstAt
  <2> QED  BY <2>6
<1>4. ASSUME NEW i, NEW j, FirstAt(x, y, i), FirstAt(y, z, j)
      PROVE  FirstAt(x, z, i) \/ FirstAt(x, z, j)
  <2>1. i \in Nat \ {0} /\ j \in Nat \ {0}
    BY <1>4 DEF FirstAt
  <2>2. /\ Char(x, i) > Char(y, i) /\ \A h \in 1..(i - 1) : Char(x, h) = Char(y, h)
        /\ Char(y, j) > Char(z, j) /\ \A h \in 1..(j - 1) : Char(y, h) = Char(z, h)
    BY <1>4 DEF FirstAt
  <2>3. CASE i < j
    <3>1. i \in 1..(j - 1) /\ \A h \in 1..(i - 1) : h \in 1..(j - 1)
      BY <2>1, <2>3
    <3> QED  BY <1>1, <2>1, <2>2, <3>1 DEF FirstAt
  <2>4. CASE j < i
    <3>1. j \in 1..(i - 1) /\ \A h \in 1..(j - 1) : h \in 1..(i - 1)
      BY <2>1, <2>4
    <3> QED  BY <1>1, <2>1, <2>2, <3>1 DEF FirstAt
  <2>5. CASE i = j
    <3>1. Char(x, i) > Char(z, i)
      BY <1>1, <2>1, <2>2, <2>5
    <3> QED  BY <2>1, <2>2, <2>5, <3>1 DEF FirstAt
  <2> QED  BY <2>1, <2>3, <2>4, <2>5
<1>5. ~(Greater(x, y) /\ Greater(y, x))
  BY <1>2, GreaterIs
<1>6. x # y => Greater(x, y) \/ Greater(y, x)
  BY <1>3, GreaterIs
<1>7. Greater(x, y) /\ Greater(y, z) => Greater(x, z)
  BY <1>4, GreaterIs
<1> QED  BY <1>5, <1>6, <1>7

-----------------------------------------------------------------------------
\* Likenesses are in an order

LEMMA Scaled ==
  ASSUME NEW m \in Nat, NEW n \in Nat, NEW k \in Nat \ {0}
  PROVE  /\ m >= n <=> m * k >= n * k
         /\ m > n <=> m * k > n * k
<1>1. m >= n => m * k >= n * k
  OBVIOUS
<1>2. m > n => m * k > n * k
  OBVIOUS
<1>3. n > m => n * k > m * k
  OBVIOUS
<1>4. n >= m => n * k >= m * k
  OBVIOUS
<1>5. m * k \in Nat /\ n * k \in Nat
  OBVIOUS
<1> QED  BY <1>1, <1>2, <1>3, <1>4, <1>5

\* Of fractions, compared crosswise.
LEMMA Crosswise ==
  ASSUME NEW a \in Nat, NEW b \in Nat, NEW c \in Nat,
         NEW p \in Nat \ {0}, NEW q \in Nat \ {0}, NEW r \in Nat \ {0},
         a * q >= b * p, b * r >= c * q
  PROVE  /\ a * r >= c * p
         /\ a * q > b * p \/ b * r > c * q => a * r > c * p
<1> DEFINE u == a * q
           v == b * p
           w == b * r
           x == c * q
           y == a * r
           z == c * p
<1>1. u \in Nat /\ v \in Nat /\ w \in Nat /\ x \in Nat /\ y \in Nat /\ z \in Nat
  OBVIOUS
<1>2. u * r = y * q /\ v * r = w * p /\ x * p = z * q
  OBVIOUS
<1>3. u >= v /\ w >= x
  OBVIOUS
<1> HIDE DEF u, v, w, x, y, z
<1>4. u * r >= v * r /\ (u > v => u * r > v * r)
  BY <1>1, <1>3, Scaled
<1>5. w * p >= x * p /\ (w > x => w * p > x * p)
  BY <1>1, <1>3, Scaled
<1>6. u * r \in Nat /\ v * r \in Nat /\ w * p \in Nat /\ x * p \in Nat
  BY <1>1
<1>7. y * q >= z * q /\ (u > v \/ w > x => y * q > z * q)
  <2> DEFINE ur == u * r
             vr == v * r
             wp == w * p
             xp == x * p
             yq == y * q
             zq == z * q
  <2>1. /\ ur \in Nat /\ vr \in Nat /\ wp \in Nat /\ xp \in Nat
        /\ ur = yq /\ vr = wp /\ xp = zq
        /\ ur >= vr /\ (u > v => ur > vr) /\ wp >= xp /\ (w > x => wp > xp)
    BY <1>2, <1>4, <1>5, <1>6
  <2> HIDE DEF ur, vr, wp, xp, yq, zq
  <2>2. yq >= zq /\ (u > v \/ w > x => yq > zq)
    BY <2>1
  <2> QED  BY <2>2 DEF yq, zq
<1>8. y >= z /\ (u > v \/ w > x => y > z)
  BY <1>1, <1>7, Scaled
<1> QED  BY <1>8 DEF u, v, w, x, y, z

\* How much of both a string has in common with b, of how much in all.
Like(b, x) == Matched(x, b)
InAll(b, x) == Len(x) + Len(b)

\* A possibility that is close to b, and one that is before another.
Close(b, x) == x \in Seq(Nat) /\ Reaches(Like(b, x), x, b)
Beats(b, x, y) ==
  \/ Above(Like(b, x), x, Like(b, y), y, b)
  \/ ~Above(Like(b, y), y, Like(b, x), x, b) /\ Greater(x, y)

LEMMA LikenessIs ==
  ASSUME NEW b \in Seq(Nat), NEW x \in Seq(Nat)
  PROVE  /\ Like(b, x) \in Nat /\ InAll(b, x) \in Nat
         /\ \A y : Above(Like(b, x), x, Like(b, y), y, b) <=> Like(b, x) * InAll(b, y) > Like(b, y) * InAll(b, x)
<1>1. Like(b, x) \in Nat
  BY MatchedIsBounded DEF Like
<1>2. InAll(b, x) \in Nat
  BY DEF InAll
<1>3. \A y : Above(Like(b, x), x, Like(b, y), y, b) <=> Like(b, x) * InAll(b, y) > Like(b, y) * InAll(b, x)
  BY DEF Above, InAll
<1> QED  BY <1>1, <1>2, <1>3

\* A string that is close is not compared to nothing, but when both are empty.
LEMMA CloseIsNotEmpty ==
  ASSUME NEW b \in Seq(Nat), NEW x, Close(b, x)
  PROVE  InAll(b, x) # 0 \/ (x = <<>> /\ b = <<>>)
<1>1. x \in Seq(Nat) /\ Len(x) \in Nat /\ Len(b) \in Nat
  BY DEF Close
<1> SUFFICES ASSUME InAll(b, x) = 0
             PROVE  x = <<>> /\ b = <<>>
  OBVIOUS
<1>2. Len(x) = 0 /\ Len(b) = 0
  BY <1>1 DEF InAll
<1> QED  BY <1>1, <1>2

LEMMA EmptyIsAlone ==
  ASSUME NEW x, Close(<<>>, x)
  PROVE  x = <<>>
<1>1. x \in Seq(Nat) /\ Reaches(Like(<<>>, x), x, <<>>) /\ <<>> \in Seq(Nat)
  BY DEF Close
<1>2. Like(<<>>, x) \in Nat /\ Like(<<>>, x) <= Len(<<>>)
  BY <1>1, MatchedIsBounded DEF Like
<1>3. Like(<<>>, x) = 0
  <2>1. Len(<<>>) = 0
    OBVIOUS
  <2> QED  BY <1>2, <2>1
<1>4. Cutoff \in Nat \ {0}
  BY TexteAssumption
<1>5. x \o <<>> = x
  BY <1>1
<1>6. CASE 200 * Like(<<>>, x) >= Cutoff * (Len(x) + Len(<<>>))
  <2> DEFINE n == Len(x)
  <2>1. n \in Nat /\ Len(<<>>) = 0
    BY <1>1
  <2>2. 200 * 0 >= Cutoff * (n + 0)
    BY <1>3, <1>6, <2>1
  <2> HIDE DEF n
  <2>3. n = 0
    <3> SUFFICES ASSUME n # 0
                 PROVE  FALSE
      OBVIOUS
    <3>1. Cutoff * n > 0
      BY <1>4, <2>1
    <3>2. n + 0 = n /\ 200 * 0 = 0
      BY <2>1
    <3> QED  BY <1>4, <2>1, <2>2, <3>1, <3>2
  <2> QED  BY <1>1, <2>3 DEF n
<1> QED  BY <1>1, <1>5, <1>6 DEF Reaches

\* Of possibilities that are close, one is before another when it is not after, and not both.
LEMMA BeatsIsAnOrder ==
  ASSUME NEW b \in Seq(Nat), NEW x, Close(b, x), NEW y, Close(b, y), NEW z, Close(b, z)
  PROVE  /\ ~(Beats(b, x, y) /\ Beats(b, y, x))
         /\ x # y => Beats(b, x, y) \/ Beats(b, y, x)
         /\ Beats(b, x, y) /\ Beats(b, y, z) => Beats(b, x, z)
<1>1. x \in Seq(Nat) /\ y \in Seq(Nat) /\ z \in Seq(Nat)
  BY DEF Close
<1> DEFINE i == Like(b, x)
           j == Like(b, y)
           k == Like(b, z)
           p == InAll(b, x)
           q == InAll(b, y)
           r == InAll(b, z)
<1>2. i \in Nat /\ j \in Nat /\ k \in Nat /\ p \in Nat /\ q \in Nat /\ r \in Nat
  BY <1>1, LikenessIs
<1>3. /\ Beats(b, x, y) <=> i * q > j * p \/ (~(j * p > i * q) /\ Greater(x, y))
      /\ Beats(b, y, x) <=> j * p > i * q \/ (~(i * q > j * p) /\ Greater(y, x))
      /\ Beats(b, y, z) <=> j * r > k * q \/ (~(k * q > j * r) /\ Greater(y, z))
      /\ Beats(b, x, z) <=> i * r > k * p \/ (~(k * p > i * r) /\ Greater(x, z))
  BY DEF Beats, Above, InAll
<1> HIDE DEF i, j, k, p, q, r
<1>4. /\ i * q \in Nat /\ j * p \in Nat /\ j * r \in Nat /\ k * q \in Nat
      /\ i * r \in Nat /\ k * p \in Nat
  BY <1>2
<1> DEFINE iq == i * q
           jp == j * p
           jr == j * r
           kq == k * q
           ir == i * r
           kp == k * p
<1>5. iq \in Nat /\ jp \in Nat /\ jr \in Nat /\ kq \in Nat /\ ir \in Nat /\ kp \in Nat
  BY <1>4
<1>6. /\ Beats(b, x, y) <=> iq > jp \/ (~(jp > iq) /\ Greater(x, y))
      /\ Beats(b, y, x) <=> jp > iq \/ (~(iq > jp) /\ Greater(y, x))
      /\ Beats(b, y, z) <=> jr > kq \/ (~(kq > jr) /\ Greater(y, z))
      /\ Beats(b, x, z) <=> ir > kp \/ (~(kp > ir) /\ Greater(x, z))
  BY <1>3
<1>7. /\ ~(Greater(x, y) /\ Greater(y, x))
      /\ x # y => Greater(x, y) \/ Greater(y, x)
      /\ Greater(x, y) /\ Greater(y, z) => Greater(x, z)
  BY <1>1, GreaterIsAnOrder
<1>8. p # 0 /\ q # 0 /\ r # 0 /\ iq >= jp /\ jr >= kq => ir >= kp /\ (iq > jp \/ jr > kq => ir > kp)
  BY <1>2, Crosswise
<1>9. b = <<>> => x = <<>> /\ y = <<>> /\ z = <<>>
  BY EmptyIsAlone
<1>10. (p # 0 /\ q # 0 /\ r # 0) \/ (x = y /\ y = z)
  BY <1>9, CloseIsNotEmpty DEF p, q, r
<1> HIDE DEF iq, jp, jr, kq, ir, kp
<1>11. ~(Beats(b, x, y) /\ Beats(b, y, x))
  BY <1>5, <1>6, <1>7
<1>12. x # y => Beats(b, x, y) \/ Beats(b, y, x)
  BY <1>5, <1>6, <1>7
<1>13. Beats(b, x, y) /\ Beats(b, y, z) => Beats(b, x, z)
  <2>1. CASE x = y
    BY <2>1
  <2>2. CASE p # 0 /\ q # 0 /\ r # 0
    BY <1>5, <1>6, <1>7, <1>8, <2>2
  <2> QED  BY <1>10, <2>1, <2>2
<1> QED  BY <1>11, <1>12, <1>13

-----------------------------------------------------------------------------
\* The depth is never met

Width(w) == (w.ahi - w.alo) + 1

\* What is left on each side of a block is narrower, and a window of no width has none.
LEMMA SidesAreNarrower ==
  ASSUME NEW a \in Seq(Nat), NEW b \in Seq(Nat), NEW w \in Windows(a, b)
  PROVE  LET hit == LongestMatch(a, b, w.alo, w.ahi, w.blo, w.bhi)
             left == Window(w.alo, hit.i - 1, w.blo, hit.j - 1)
             right == Window(hit.i + hit.k, w.ahi, hit.j + hit.k, w.bhi)
         IN /\ Width(w) \in Int /\ Width(w) <= Len(a)
            /\ hit.k # 0 => /\ left \in Windows(a, b) /\ right \in Windows(a, b)
                            /\ Width(w) > 0 /\ Width(left) < Width(w) /\ Width(right) < Width(w)
<1> DEFINE hit == LongestMatch(a, b, w.alo, w.ahi, w.blo, w.bhi)
           i == hit.i
           j == hit.j
           k == hit.k
           left == Window(w.alo, i - 1, w.blo, j - 1)
           right == Window(i + k, w.ahi, j + k, w.bhi)
           alo == w.alo
           ahi == w.ahi
           n == Len(a)
<1>1. Win(a, b, w.alo, w.ahi, w.blo, w.bhi)
  BY WindowIs
<1>2. n \in Nat /\ alo \in 1..(n + 1) /\ ahi \in 0..n
  BY <1>1 DEF Win
<1>3. Width(w) = (ahi - alo) + 1
  BY DEF Width
<1>4. k # 0 => TheBlock(a, b, w.alo, w.ahi, w.blo, w.bhi, i, j, k)
  BY <1>1, HitIs
<1> HIDE DEF hit, i, j, k
<1>5. k # 0 => /\ i \in Nat /\ k \in Nat \ {0} /\ alo <= i /\ (i + k) - 1 <= ahi
  BY <1>4 DEF TheBlock, Block
<1>6. k # 0 => left \in Windows(a, b) /\ right \in Windows(a, b)
  BY <1>4, SidesAre
<1>7. Width(left) = ((i - 1) - alo) + 1 /\ Width(right) = (ahi - (i + k)) + 1
  BY DEF Window, Width
<1> HIDE DEF left, right, alo, ahi, n
<1>8. Width(w) \in Int /\ Width(w) <= n
  BY <1>2, <1>3
<1>9. k # 0 => Width(w) > 0 /\ Width(left) < Width(w) /\ Width(right) < Width(w)
  BY <1>2, <1>3, <1>5, <1>7
<1> QED  BY <1>6, <1>8, <1>9 DEF hit, i, j, k, left, right, n

\* Two depths find the same in a window neither is less than the width of.
LEMMA DepthsAgree ==
  ASSUME NEW a \in Seq(Nat), NEW b \in Seq(Nat), NEW depth \in Nat
  PROVE  \A d \in 0..depth, e \in 0..depth, w \in Windows(a, b) :
           Width(w) <= d /\ Width(w) <= e =>
             MatchedWithin(a, b, depth)[d][w] = MatchedWithin(a, b, depth)[e][w]
<1> DEFINE m == MatchedWithin(a, b, depth)
           hit(w) == LongestMatch(a, b, w.alo, w.ahi, w.blo, w.bhi)
           left(w) == Window(w.alo, hit(w).i - 1, w.blo, hit(w).j - 1)
           right(w) == Window(hit(w).i + hit(w).k, w.ahi, hit(w).j + hit(w).k, w.bhi)
           W == Windows(a, b)
           good == {d \in 0..depth : \A e \in 0..depth, w \in W :
                                       Width(w) <= d /\ Width(w) <= e => m[d][w] = m[e][w]}
<1>1. \A d \in 0..depth, w \in W :
        m[d][w] = IF d = 0 \/ hit(w).k = 0 THEN 0 ELSE hit(w).k + m[d - 1][left(w)] + m[d - 1][right(w)]
  BY WithinIs
<1>2. \A w \in W :
        /\ Width(w) \in Int
        /\ hit(w).k # 0 => /\ left(w) \in W /\ right(w) \in W
                           /\ Width(w) > 0 /\ Width(left(w)) < Width(w) /\ Width(right(w)) < Width(w)
  BY SidesAreNarrower
<1> HIDE DEF m, hit, left, right, W
<1>3. \A d \in 0..depth, w \in W : hit(w).k = 0 => m[d][w] = 0
  BY <1>1
<1>4. \A d \in 0..depth, w \in W : Width(w) <= d /\ hit(w).k # 0 =>
        /\ d - 1 \in 0..depth
        /\ m[d][w] = hit(w).k + m[d - 1][left(w)] + m[d - 1][right(w)]
        /\ left(w) \in W /\ right(w) \in W
        /\ Width(left(w)) <= d - 1 /\ Width(right(w)) <= d - 1
  <2> SUFFICES ASSUME NEW d \in 0..depth, NEW w \in W, Width(w) <= d, hit(w).k # 0
               PROVE  /\ d - 1 \in 0..depth
                      /\ m[d][w] = hit(w).k + m[d - 1][left(w)] + m[d - 1][right(w)]
                      /\ left(w) \in W /\ right(w) \in W
                      /\ Width(left(w)) <= d - 1 /\ Width(right(w)) <= d - 1
    OBVIOUS
  <2>1. /\ Width(w) \in Int /\ Width(w) > 0 /\ Width(left(w)) < Width(w) /\ Width(right(w)) < Width(w)
        /\ left(w) \in W /\ right(w) \in W
    BY <1>2
  <2>2. Width(left(w)) \in Int /\ Width(right(w)) \in Int
    BY <1>2, <2>1
  <2>3. d # 0 /\ d - 1 \in 0..depth /\ Width(left(w)) <= d - 1 /\ Width(right(w)) <= d - 1
    BY <2>1, <2>2
  <2>4. m[d][w] = hit(w).k + m[d - 1][left(w)] + m[d - 1][right(w)]
    BY <1>1, <2>3
  <2> QED  BY <2>1, <2>3, <2>4
<1>5. 0 \in good
  <2> SUFFICES ASSUME NEW e \in 0..depth, NEW w \in W, Width(w) <= 0
               PROVE  m[0][w] = m[e][w]
    OBVIOUS
  <2>1. hit(w).k = 0
    BY <1>2
  <2> QED  BY <1>3, <2>1
<1>6. ASSUME NEW n \in 0..(depth - 1), n \in good
      PROVE  n + 1 \in good
  <2>1. n + 1 \in 0..depth /\ (n + 1) - 1 = n
    OBVIOUS
  <2> SUFFICES ASSUME NEW e \in 0..depth, NEW w \in W, Width(w) <= n + 1, Width(w) <= e
               PROVE  m[n + 1][w] = m[e][w]
    BY <2>1
  <2>2. CASE hit(w).k = 0
    BY <1>3, <2>1, <2>2
  <2>3. CASE hit(w).k # 0
    <3> DEFINE d == n + 1
               l == left(w)
               r == right(w)
    <3>1. d \in 0..depth /\ d - 1 = n
      BY <2>1
    <3>2. /\ m[d][w] = hit(w).k + m[d - 1][l] + m[d - 1][r]
          /\ l \in W /\ r \in W /\ Width(l) <= d - 1 /\ Width(r) <= d - 1
      BY <1>4, <2>1, <2>3
    <3>3. /\ e - 1 \in 0..depth
          /\ m[e][w] = hit(w).k + m[e - 1][l] + m[e - 1][r]
          /\ Width(l) <= e - 1 /\ Width(r) <= e - 1
      BY <1>4, <2>3
    <3> HIDE DEF d, l, r
    <3> DEFINE f == e - 1
    <3>4. f \in 0..depth /\ Width(l) <= f /\ Width(r) <= f /\ Width(l) <= n /\ Width(r) <= n
      BY <3>1, <3>2, <3>3
    <3> HIDE DEF f
    <3>5. m[n][l] = m[f][l] /\ m[n][r] = m[f][r]
      BY <1>6, <3>2, <3>4
    <3>6. m[d][w] = m[e][w]
      BY <3>1, <3>2, <3>3, <3>5 DEF f
    <3> QED  BY <3>6 DEF d
  <2> QED  BY <2>2, <2>3
<1>7. \A d \in 0..depth : d \in good
  <2> HIDE DEF good
  <2> QED  BY <1>5, <1>6, UpTo
<1> QED  BY <1>7 DEF m, W

\* So that the stack of matched adds up what it finds in each window, with no depth.
LEMMA MatchedHasNoDepth ==
  ASSUME NEW a \in Seq(Nat), NEW b \in Seq(Nat), NEW w \in Windows(a, b)
  PROVE  LET m == MatchedWithin(a, b, Len(a))[Len(a)]
             hit == LongestMatch(a, b, w.alo, w.ahi, w.blo, w.bhi)
         IN m[w] = IF hit.k = 0 THEN 0
                   ELSE hit.k + m[Window(w.alo, hit.i - 1, w.blo, hit.j - 1)]
                              + m[Window(hit.i + hit.k, w.ahi, hit.j + hit.k, w.bhi)]
<1> DEFINE n == Len(a)
           m == MatchedWithin(a, b, n)
           hit == LongestMatch(a, b, w.alo, w.ahi, w.blo, w.bhi)
           l == Window(w.alo, hit.i - 1, w.blo, hit.j - 1)
           r == Window(hit.i + hit.k, w.ahi, hit.j + hit.k, w.bhi)
<1>1. n \in Nat /\ n \in 0..n
  OBVIOUS
<1>2. m[n][w] = IF n = 0 \/ hit.k = 0 THEN 0 ELSE hit.k + m[n - 1][l] + m[n - 1][r]
  <2> HIDE DEF n
  <2>1. ASSUME NEW d \in 0..n
        PROVE  m[d][w] = IF d = 0 \/ hit.k = 0 THEN 0 ELSE hit.k + m[d - 1][l] + m[d - 1][r]
    BY <1>1, WithinIs
  <2> HIDE DEF m, hit, l, r
  <2> QED  BY <1>1, <2>1
<1>3. /\ Width(w) \in Int /\ Width(w) <= n
      /\ hit.k # 0 => /\ l \in Windows(a, b) /\ r \in Windows(a, b)
                      /\ Width(w) > 0 /\ Width(l) < Width(w) /\ Width(r) < Width(w)
  BY SidesAreNarrower
<1> HIDE DEF hit, l, r
<1>4. CASE hit.k = 0
  BY <1>2, <1>4 DEF hit
<1>5. CASE hit.k # 0
  <2> HIDE DEF n
  <2>1. Width(l) \in Int /\ Width(r) \in Int
    BY <1>3, <1>5, SidesAreNarrower
  <2>2. n # 0 /\ n - 1 \in 0..n /\ Width(l) <= n - 1 /\ Width(r) <= n - 1 /\ Width(l) <= n /\ Width(r) <= n
    BY <1>1, <1>3, <1>5, <2>1
  <2> DEFINE f == n - 1
  <2>3. f \in 0..n /\ Width(l) <= f /\ Width(r) <= f /\ Width(l) <= n /\ Width(r) <= n
    BY <2>2
  <2>4. m[n][w] = hit.k + m[f][l] + m[f][r]
    BY <1>2, <1>5, <2>2
  <2> HIDE DEF f
  <2>5. m[f][l] = m[n][l] /\ m[f][r] = m[n][r]
    BY <1>1, <1>3, <1>5, <2>3, DepthsAgree
  <2>6. m[n][w] = hit.k + m[n][l] + m[n][r]
    BY <2>4, <2>5
  <2> QED  BY <1>5, <2>6 DEF n, hit, l, r
<1> QED  BY <1>4, <1>5

-----------------------------------------------------------------------------
\* One possibility after the other

\* The cheap tests keep what the likeness keeps.
LEMMA CheapTestsKeep ==
  ASSUME NEW b \in Seq(Nat), NEW x \in Seq(Nat), Reaches(Matched(x, b), x, b)
  PROVE  Reaches(Min({Len(x), Len(b)}), x, b) /\ Reaches(QuickMatched(x, b), x, b)
<1> DEFINE n == Len(x)
           k == Len(b)
           least == Min({n, k})
           m == Matched(x, b)
           quick == QuickMatched(x, b)
           all == Cutoff * (n + k)
<1>1. n \in Nat /\ k \in Nat
  OBVIOUS
<1>2. m \in Nat /\ quick \in Nat /\ m <= quick /\ m <= n /\ m <= k
  BY MatchedIsBounded
<1>3. \A c : Reaches(c, x, b) <=> x \o b = <<>> \/ 200 * c >= all
  BY DEF Reaches
<1>4. x \o b = <<>> \/ 200 * m >= all
  BY <1>3
<1> HIDE DEF n, k, m, quick
<1>5. least \in {n, k}
  <2>1. {n, k} \subseteq Nat /\ {n, k} # {}
    BY <1>1
  <2> QED  BY <2>1, LeastOf
<1>6. all \in Nat
  <2>1. Cutoff \in Nat
    BY TexteAssumption
  <2> QED  BY <1>1, <2>1
<1> HIDE DEF all, least
<1>7. x \o b = <<>> \/ (200 * least >= all /\ 200 * quick >= all)
  <2>1. least \in Nat /\ m <= least
    BY <1>1, <1>2, <1>5
  <2>2. 200 * m >= all => 200 * least >= all /\ 200 * quick >= all
    BY <1>2, <1>6, <2>1
  <2> QED  BY <1>4, <2>2
<1> QED  BY <1>3, <1>7 DEF least, quick, n, k

LEMMA ConsiderIs ==
  ASSUME NEW b \in Seq(Nat), NEW best, NEW x \in Seq(Nat)
  PROVE  /\ ~Close(b, x) => Consider(b, best, x) = best
         /\ Close(b, x) /\ best = NoWord => Consider(b, best, x) = x
         /\ Close(b, x) /\ best # NoWord /\ Beats(b, x, best) => Consider(b, best, x) = x
         /\ Close(b, x) /\ best # NoWord /\ ~Beats(b, x, best) => Consider(b, best, x) = best
<1> DEFINE n == Matched(x, b)
           m == IF best = NoWord THEN 0 ELSE Matched(best, b)
           dropped == \/ ~Reaches(Min({Len(x), Len(b)}), x, b)
                      \/ ~Reaches(QuickMatched(x, b), x, b)
                      \/ ~Reaches(n, x, b)
           taken == \/ best = NoWord \/ Above(n, x, m, best, b)
                    \/ (~Above(m, best, n, x, b) /\ Greater(x, best))
<1>1. Consider(b, best, x) = IF dropped THEN best ELSE IF taken THEN x ELSE best
  BY DEF Consider
<1>2. dropped <=> ~Close(b, x)
  BY CheapTestsKeep DEF Close, Like
<1>3. best # NoWord => (taken <=> Beats(b, x, best))
  BY DEF Beats, Like
<1>4. best = NoWord => taken
  OBVIOUS
<1> HIDE DEF dropped, taken
<1> QED  BY <1>1, <1>2, <1>3, <1>4

LEMMA BestAfterIs ==
  ASSUME NEW b \in Seq(Nat), NEW p \in Seq(Seq(Nat))
  PROVE  /\ BestAfter(b, p)[0] = NoWord
         /\ \A i \in 1..Len(p) : BestAfter(b, p)[i] = Consider(b, BestAfter(b, p)[i - 1], p[i])
<1> DEFINE n == Len(p)
           V == {NoWord} \union Seq(Nat)
           follow(v, i) == Consider(b, v, p[i])
           turn == [i \in 1..n |-> [v \in V |-> follow(v, i)]]
           body(f) == [i \in 0..n |-> IF i = 0 THEN NoWord ELSE follow(f[i - 1], i)]
<1>1. n \in Nat /\ \A i \in 1..n : p[i] \in Seq(Nat)
  OBVIOUS
<1>2. BestAfter(b, p) = CHOOSE f : f = body(f)
  BY DEF BestAfter
<1>3. \A v \in V, i \in 1..n : follow(v, i) \in V
  <2> TAKE v \in V, i \in 1..n
  <2>1. p[i] \in Seq(Nat)
    BY <1>1
  <2>2. follow(v, i) = v \/ follow(v, i) = p[i]
    BY <2>1, ConsiderIs
  <2> HIDE DEF follow
  <2> QED  BY <2>1, <2>2
<1>4. NoWord \in V
  OBVIOUS
<1> HIDE DEF follow, V, n
<1>5. turn \in [1..n -> [V -> V]]
  BY <1>3
<1>6. PICK f : f \in [0..n -> V] /\ f[0] = NoWord /\ \A i \in 1..n : f[i] = turn[i][f[i - 1]]
  <2>1. Steps(n, V, NoWord, turn)
    BY <1>1, <1>4, <1>5 DEF Steps
  <2> HIDE DEF turn
  <2>2. \E f : Stepped(f, n, V, NoWord, turn)
    BY <2>1, StepByStep
  <2> QED  BY <2>2 DEF Stepped
<1>7. f = body(f)
  <2>1. ASSUME NEW i \in 0..n
        PROVE  f[i] = IF i = 0 THEN NoWord ELSE follow(f[i - 1], i)
    <3>1. CASE i = 0
      BY <1>6, <3>1
    <3>2. CASE i \in 1..n
      <4>1. i - 1 \in 0..n /\ i # 0
        BY <1>1, <3>2
      <4>2. f[i - 1] \in V
        BY <1>6, <4>1
      <4> QED  BY <1>6, <3>2, <4>1, <4>2
    <3> QED  BY <1>1, <3>1, <3>2
  <2> QED  BY <1>6, <2>1
<1> DEFINE g == BestAfter(b, p)
<1>8. g = body(g)
  <2> HIDE DEF body
  <2> QED  BY <1>2, <1>7
<1> HIDE DEF g
<1>9. g[0] = NoWord /\ \A i \in 1..n : g[i] = follow(g[i - 1], i)
  <2>1. \A i \in 0..n : g[i] = IF i = 0 THEN NoWord ELSE follow(g[i - 1], i)
    BY <1>8
  <2>2. 0 \in 0..n /\ \A i \in 1..n : i \in 0..n /\ i # 0
    BY <1>1
  <2> QED  BY <2>1, <2>2
<1> QED  BY <1>9 DEF g, follow, n

\* After i possibilities: none is close, or the one kept is and no other one before.
Best(b, p, i, v) ==
  \/ v = NoWord /\ \A h \in 1..i : ~Close(b, p[h])
  \/ /\ \E h \in 1..i : v = p[h]
     /\ v # NoWord /\ Close(b, v)
     /\ \A h \in 1..i : Close(b, p[h]) /\ p[h] # v => Beats(b, v, p[h])

LEMMA ClosestIsBest ==
  ASSUME NEW b \in Seq(Nat), NEW p \in Seq(Seq(Nat)), NoWord \notin ToSet(p)
  PROVE  Best(b, p, Len(p), ClosestMatch(b, p))
<1> DEFINE n == Len(p)
           best == BestAfter(b, p)
           good == {i \in 0..n : Best(b, p, i, best[i])}
<1>1. n \in Nat /\ \A i \in 1..n : p[i] \in Seq(Nat) /\ p[i] # NoWord
  <2>1. \A i \in 1..n : p[i] \in ToSet(p)
    BY DEF ToSet
  <2> QED  BY <2>1
<1>2. best[0] = NoWord /\ \A i \in 1..n : best[i] = Consider(b, best[i - 1], p[i])
  BY BestAfterIs
<1> HIDE DEF n, best
<1>3. 0 \in good
  BY <1>1, <1>2 DEF Best
<1>4. ASSUME NEW i \in 0..(n - 1), i \in good
      PROVE  i + 1 \in good
  <2> DEFINE v == best[i]
             x == p[i + 1]
             u == best[i + 1]
  <2>1. i + 1 \in 1..n /\ i + 1 \in 0..n /\ (i + 1) - 1 = i /\ i \in Nat
    BY <1>1
  <2>2. u = Consider(b, v, x) /\ x \in Seq(Nat) /\ x # NoWord
    BY <1>1, <1>2, <2>1
  <2>3. \A h \in 1..(i + 1) : h \in 1..i \/ h = i + 1
    BY <2>1
  <2>4. \A h \in 1..i : h \in 1..(i + 1) /\ h \in 1..n
    BY <1>1, <2>1
  <2>5. i + 1 \in 1..(i + 1)
    BY <2>1
  <2>6. Best(b, p, i, v)
    BY <1>4
  <2> HIDE DEF v, u
  <2>7. CASE ~Close(b, x)
    <3>1. u = v
      BY <2>2, <2>7, ConsiderIs
    <3> QED  BY <2>1, <2>3, <2>4, <2>6, <2>7, <3>1 DEF Best, u
  <2>8. CASE Close(b, x) /\ v = NoWord
    <3>1. u = x
      BY <2>2, <2>8, ConsiderIs
    <3>2. \A h \in 1..i : ~Close(b, p[h])
      BY <1>1, <2>4, <2>6, <2>8 DEF Best
    <3> QED  BY <2>1, <2>2, <2>3, <2>5, <2>8, <3>1, <3>2 DEF Best, u
  <2>9. CASE Close(b, x) /\ v # NoWord
    <3>1. /\ \E h \in 1..i : v = p[h]
          /\ Close(b, v)
          /\ \A h \in 1..i : Close(b, p[h]) /\ p[h] # v => Beats(b, v, p[h])
      BY <2>6, <2>9 DEF Best
    <3>2. CASE Beats(b, x, v)
      <4>1. u = x
        BY <2>2, <2>9, <3>2, ConsiderIs
      <4>2. ASSUME NEW h \in 1..i, Close(b, p[h]), p[h] # x
            PROVE  Beats(b, x, p[h])
        <5>1. CASE p[h] = v
          BY <3>2, <5>1
        <5>2. CASE p[h] # v
          <6>1. Beats(b, v, p[h])
            BY <3>1, <4>2, <5>2
          <6> QED  BY <2>9, <3>1, <3>2, <4>2, <6>1, BeatsIsAnOrder
        <5> QED  BY <5>1, <5>2
      <4> QED  BY <2>1, <2>2, <2>3, <2>5, <2>9, <4>1, <4>2 DEF Best, u
    <3>3. CASE ~Beats(b, x, v)
      <4>1. u = v
        BY <2>2, <2>9, <3>3, ConsiderIs
      <4>2. x # v => Beats(b, v, x)
        BY <2>9, <3>1, <3>3, BeatsIsAnOrder
      <4> QED  BY <2>1, <2>3, <2>4, <2>9, <3>1, <4>1, <4>2 DEF Best, u
    <3> QED  BY <3>2, <3>3
  <2> QED  BY <2>7, <2>8, <2>9
<1>5. \A i \in 0..n : i \in good
  <2> HIDE DEF good
  <2> QED  BY <1>1, <1>3, <1>4, UpTo
<1>6. Best(b, p, n, best[n])
  BY <1>1, <1>5
<1> QED  BY <1>6 DEF ClosestMatch, n, best

\* What the runs ask of the closest one.
LEMMA ClosestMatchIs ==
  ASSUME NEW b \in Seq(Nat), NEW p \in Seq(Seq(Nat)), NoWord \notin ToSet(p)
  PROVE  LET n(x) == RatcliffObershelp(x, b)
             close == {x \in ToSet(p) : Reaches(n(x), x, b)}
             best == {x \in close : \A y \in close \ {x} :
                        Above(n(x), x, n(y), y, b) \/ (~Above(n(y), y, n(x), x, b) /\ Greater(x, y))}
         IN IF close = {} THEN ClosestMatch(b, p) = NoWord ELSE best = {ClosestMatch(b, p)}
<1> DEFINE n(x) == RatcliffObershelp(x, b)
           close == {x \in ToSet(p) : Reaches(n(x), x, b)}
           beats(x, y) == Above(n(x), x, n(y), y, b) \/ (~Above(n(y), y, n(x), x, b) /\ Greater(x, y))
           best == {x \in close : \A y \in close \ {x} : beats(x, y)}
           v == ClosestMatch(b, p)
<1>1. \A x \in ToSet(p) : x \in Seq(Nat) /\ \E h \in 1..Len(p) : x = p[h]
  BY DEF ToSet
<1>2. \A h \in 1..Len(p) : p[h] \in ToSet(p)
  BY DEF ToSet
<1>3. \A x \in ToSet(p) : n(x) = Like(b, x)
  BY <1>1, MatchedIsTheReference DEF Like
<1> HIDE DEF n
<1>4. \A x \in ToSet(p) : x \in close <=> Close(b, x)
  BY <1>1, <1>3 DEF Close
<1>5. \A x \in ToSet(p), y \in ToSet(p) : beats(x, y) <=> Beats(b, x, y)
  BY <1>3 DEF Beats
<1>6. Best(b, p, Len(p), v)
  BY ClosestIsBest
<1>7. close \subseteq ToSet(p)
  OBVIOUS
<1> HIDE DEF close, beats, v
<1>8. CASE close = {}
  <2>1. v = NoWord
    BY <1>2, <1>4, <1>6, <1>8 DEF Best
  <2> QED  BY <1>8, <2>1 DEF v, close, n
<1>9. CASE close # {}
  <2>1. PICK x \in close : TRUE
    BY <1>9
  <2>2. ~\A h \in 1..Len(p) : ~Close(b, p[h])
    BY <1>1, <1>4, <1>7, <2>1
  <2>3. /\ \E h \in 1..Len(p) : v = p[h]
        /\ v # NoWord /\ Close(b, v)
        /\ \A h \in 1..Len(p) : Close(b, p[h]) /\ p[h] # v => Beats(b, v, p[h])
    BY <1>6, <2>2 DEF Best
  <2>4. v \in close
    BY <1>2, <1>4, <2>3
  <2>5. ASSUME NEW y \in close \ {v}
        PROVE  beats(v, y)
    <3>1. PICK h \in 1..Len(p) : y = p[h]
      BY <1>1, <1>7, <2>5
    <3>2. Close(b, y)
      BY <1>4, <1>7, <2>5
    <3>3. Beats(b, v, y)
      BY <2>3, <2>5, <3>1, <3>2
    <3> QED  BY <1>5, <1>7, <2>4, <2>5, <3>3
  <2>6. ASSUME NEW y \in best
        PROVE  y = v
    <3> SUFFICES ASSUME y # v
                 PROVE  FALSE
      OBVIOUS
    <3>1. y \in close /\ beats(y, v) /\ beats(v, y)
      BY <2>4, <2>5, <2>6
    <3>2. Beats(b, y, v) /\ Beats(b, v, y) /\ Close(b, y)
      BY <1>4, <1>5, <1>7, <2>4, <3>1
    <3> QED  BY <2>3, <3>2, BeatsIsAnOrder
  <2>7. best = {v}
    BY <2>4, <2>5, <2>6
  <2> QED  BY <1>9, <2>7 DEF v, close, n, beats
<1> QED  BY <1>8, <1>9

\* What has been compared, and what came out.
TexteInv == /\ word \in Words /\ among \in Possibilities
            /\ closest \in {<<-1>>, ClosestMatch(word, among)}

\* Matched, from its windows and its tables of lengths, is the likeness Ratcliff and Obershelp
\* define, of any two strings: the stack, which cuts no string, ends where the definition does,
\* and adds up what each window holds whatever its depth.
THEOREM MatchedIsAlwaysRatcliffObershelp ==
  \A a \in Seq(Nat), b \in Seq(Nat) :
    /\ Matched(a, b) = RatcliffObershelp(a, b)
    /\ \A w \in Windows(a, b) :
         LET m == MatchedWithin(a, b, Len(a))[Len(a)]
             hit == LongestMatch(a, b, w.alo, w.ahi, w.blo, w.bhi)
         IN m[w] = IF hit.k = 0 THEN 0
                   ELSE hit.k + m[Window(w.alo, hit.i - 1, w.blo, hit.j - 1)]
                              + m[Window(hit.i + hit.k, w.ahi, hit.j + hit.k, w.bhi)]
<1> TAKE a \in Seq(Nat), b \in Seq(Nat)
<1>1. Matched(a, b) = RatcliffObershelp(a, b)
  BY MatchedIsTheReference
<1>2. \A w \in Windows(a, b) :
        LET m == MatchedWithin(a, b, Len(a))[Len(a)]
            hit == LongestMatch(a, b, w.alo, w.ahi, w.blo, w.bhi)
        IN m[w] = IF hit.k = 0 THEN 0
                  ELSE hit.k + m[Window(w.alo, hit.i - 1, w.blo, hit.j - 1)]
                             + m[Window(hit.i + hit.k, w.ahi, hit.j + hit.k, w.bhi)]
  BY MatchedHasNoDepth
<1> QED  BY <1>1, <1>2

\* closestMatch finds what get_close_matches does, whatever the strings: the three tests drop
\* nothing that counts, the one before stays until a better one comes, and there is only one.
THEOREM TheClosestIsAlwaysTheReference == TexteSpec => []ClosestIsTheReference
<1>1. TexteInit => TexteInv
  BY DEF TexteInit, TexteInv
<1>2. TexteInv /\ [Compare]_texteVars => TexteInv'
  BY DEF TexteInv, Compare, texteVars
<1>3. TexteInv => ClosestIsTheReference
  <2> SUFFICES ASSUME TexteInv, closest # <<-1>>
               PROVE  ClosestIsTheReference
    BY DEF ClosestIsTheReference
  <2>1. word \in Seq(Nat) /\ among \in Seq(Seq(Nat)) /\ NoWord \notin ToSet(among)
    BY TexteAssumption DEF TexteInv
  <2>2. closest = ClosestMatch(word, among)
    BY DEF TexteInv
  <2> QED  BY <2>1, <2>2, ClosestMatchIs DEF ClosestIsTheReference
<1> QED  BY <1>1, <1>2, <1>3, PTL DEF TexteSpec
=============================================================================
