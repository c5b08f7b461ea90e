------------------------------ MODULE Mailing ------------------------------
(* The message engine (noyau/messages.ts) and the mass mailing that drives it   *)
(* over a list (outils/messages-masse.ts). A text is a sequence of lines, a     *)
(* line a sequence of parts joined by a dash, a part a literal or a             *)
(* placeholder; a value is empty or the name of what it says.                   *)
EXTENDS Integers, SequencesExt, FiniteSets

CONSTANTS
  Base,      \* the texts shipped with the image: file |-> lines
  Layers,    \* what a campaign, then a team, may have rewritten of them
  Mayors,    \* the rows there may be in a list
  Lists,     \* the lists there are: the columns of each and its rows
  Configs    \* the configurations there are: the versioned file, the local one, the environment

VARIABLES step, templates, config, list, at, withEmail, withoutEmail, pages, setAside, disk

mailingVars == <<step, templates, config, list, at, withEmail, withoutEmail, pages, setAside, disk>>

Ranks == {"has_endorsed", "commune_has_endorsed", "no_signal"}
Channels == {"email", "courrier", "telephone"}
Outputs == <<"emails.csv", "courriers.html", "sans_email.csv", "a_verifier.csv">>

Lit(t) == <<"literal", t>>
Key(k) == <<"key", k>>
Parts(text) == UNION {ToSet(l) : l \in ToSet(text)}
EndorserWords == {"candidat_recent", "parrainages"}

\* Of any instance: a text is lines of parts, and what a literal says is no value of a key.
IsText(text) ==
  /\ text \in Seq(Seq(Parts(text)))
  /\ \A p \in Parts(text) : p[1] = "key" \/ p[2] \notin EndorserWords
ASSUME MailingAssumption ==
  /\ \A f \in DOMAIN Base : IsText(Base[f])
  /\ \A layers \in Layers :
       /\ layers \in Seq(ToSet(layers))
       /\ \A layer \in ToSet(layers) : \A f \in DOMAIN layer : IsText(layer[f])

----------------------------------------------------------------------------
(* The engine *)

\* Bug: what is not recognised falls on the wrong side.
RankFallingBack(m) == IF m.rank \in Ranks THEN m.rank ELSE "has_endorsed"

\* Absent: file 01 holds endorsers only. Present and unknown: never an endorser.
Rank(m) == CASE m.rank = "" -> "has_endorsed"
             [] m.rank \in Ranks -> m.rank
             [] OTHER -> "no_signal"

Required(m) == {"name"} \union (IF Rank(m) = "has_endorsed" THEN {"endorsement"} ELSE {})

\* MissingField: this mayor cannot be written to; says nothing of the text.
Missing(m) == ~m.title \/ ~(Required(m) \subseteq m.filled)

Cites(m) == Rank(m) = "commune_has_endorsed" /\ m.history

\* The keys of an endorser exist for an endorser only, those of a discovery for the others.
ByRank(m) ==
  IF Rank(m) = "has_endorsed" THEN {"candidat_recent", "parrainages"} ELSE {"contexte"}

\* The keys that may have nothing to say.
Occasional == {"contexte", "argument_personnel", "proposition_telephone"}

\* Those that have nothing to say of this mayor, with or without a note and the telephone.
Silent(m, n, p) ==
  {k \in Occasional :
     \/ k = "contexte" /\ ~Cites(m)
     \/ k = "argument_personnel" /\ ~n
     \/ k = "proposition_telephone" /\ ~p}

Fields(m, n, p) ==
  [k \in ByRank(m) \union {"commune", "argument_personnel", "proposition_telephone"} |->
     IF k \in Silent(m, n, p) THEN "" ELSE k]

\* One file per channel and per audience: the endorsers, or those who discover (_decouverte).
FileName(channel, m) == [channel |-> channel, discovery |-> Rank(m) # "has_endorsed"]

KeysOf(text) == {p[2] : p \in {q \in Parts(text) : q[1] = "key"}}

\* What is left of a text, under the places it had: a part that comes out empty goes with
\* its dash, and so does a line with no part left.
Rendered(text, ch) ==
  LET value(p) == IF p[1] = "key" THEN ch[p[2]] ELSE p[2]
      left(i) == {j \in DOMAIN text[i] : value(text[i][j]) # ""}
  IN [i \in {k \in DOMAIN text : left(k) # {}} |-> [j \in left(i) |-> value(text[i][j])]]

\* The first thing it says.
Opens(out, t) == DOMAIN out # {} /\ LET first == out[Min(DOMAIN out)] IN first[Min(DOMAIN first)] = t

Throws(why) == [ok |-> FALSE, why |-> why, text |-> <<>>]

Render(set, channel, m, n, p) ==
  LET f == FileName(channel, m)
      ch == Fields(m, n, p)
      text == Rendered(set[f], ch)
  IN CASE Missing(m) -> Throws("MissingField")
       [] ~Missing(m) /\ (f \notin DOMAIN set \/ ~(KeysOf(set[f]) \subseteq DOMAIN ch)) ->
            Throws("InvalidTemplate")
       [] OTHER -> IF channel = "email" /\ ~Opens(text, "OBJET:") THEN Throws("InvalidTemplate")
                   ELSE [ok |-> TRUE, why |-> "", text |-> text]

Sample(rank) == [rank |-> rank, title |-> TRUE, filled |-> {"name", "endorsement"}, history |-> TRUE]

\* Bug: one rank is tried, the other left to be discovered by a mayor.
SampleRanksOne == {"has_endorsed"}

SampleRanks == {"has_endorsed", "no_signal"}

\* The engine's own refusal of a set of texts, obtained by running it on nobody.
InvalidTemplate(set) ==
  \E rank \in SampleRanks, channel \in Channels :
    Render(set, channel, Sample(rank), FALSE, FALSE).why = "InvalidTemplate"

\* The placeholders a file may use, as the screen advertises them.
PlaceholderNames(channel, discovery) ==
  DOMAIN Fields(Sample(IF discovery THEN "no_signal" ELSE "has_endorsed"), FALSE, FALSE)

\* Layers over the shipped texts: the last one that says something wins, file by file.
Says(layer, f) == f \in DOMAIN layer /\ \E l \in ToSet(layer[f]) : l # <<>>
MergeTemplates(base, layers) ==
  LET saying(f) == {i \in DOMAIN layers : Says(layers[i], f)}
  IN [f \in DOMAIN base \union UNION {{g \in DOMAIN l : Says(l, g)} : l \in ToSet(layers)} |->
        IF saying(f) = {} THEN base[f] ELSE layers[Max(saying(f))][f]]

----------------------------------------------------------------------------
(* The mass mailing *)

\* File 01 and nothing else.
ShapeOf01(columns) ==
  /\ {"small_candidate_endorsements", "commune_2026"} \subseteq columns
  /\ "rank" \notin columns

OptionalCampaignKeys == {"contact_tel", "contact_email", "site", "ville_envoi"}

\* Three layers, the most specific last; an empty variable of the environment says nothing.
Campaign(c) ==
  [k \in {j \in DOMAIN c.env : c.env[j] # ""} |-> c.env[k]] @@ c.local @@ c.base

\* Values still those of the shipped template; an optional key may be left empty.
UnfilledKeys(campaign) ==
  {k \in DOMAIN campaign : IF campaign[k] = "" THEN k \notin OptionalCampaignKeys ELSE campaign[k] = "template"}

\* The command line refuses a key that is empty too, optional or not.
LoadConfig(c) ==
  LET campaign == Campaign(c)
  IN [ok |-> UnfilledKeys(campaign) = {} /\ \A k \in DOMAIN campaign : campaign[k] # "",
      phone |-> c.phone]

\* The configuration, the texts, the list: one that is refused writes nothing.
Start ==
  /\ step = "start"
  /\ \E c \in Configs, l \in Lists :
       /\ config' = LoadConfig(c) /\ list' = l
       /\ step' = IF LoadConfig(c).ok /\ ShapeOf01(l.columns) THEN "mail" ELSE "refused"
  /\ UNCHANGED <<templates, at, withEmail, withoutEmail, pages, setAside, disk>>

Aside(m, reasons) == setAside \o [i \in DOMAIN reasons |-> [mayor |-> at, channel |-> reasons[i]]]

\* A field of the directory may hold several addresses, sound or not.
Addresses(m) ==
  [valid |-> SelectSeq(m.emails, LAMBDA a : a = "sound"),
   rejected |-> SelectSeq(m.emails, LAMBDA a : a # "sound")]

\* Why a letter would not be delivered.
IncompleteAddress(m) == m.postalCode # "five digits"

\* Why a mayor is set aside, on top of what is produced.
Reasons(m) ==
  (IF Addresses(m).valid = <<>> /\ IncompleteAddress(m) THEN <<"aucun">> ELSE <<>>)
  \o (IF Addresses(m).rejected # <<>> THEN <<"email">> ELSE <<>>)
  \o (IF Addresses(m).valid # <<>> /\ IncompleteAddress(m) THEN <<"courrier">> ELSE <<>>)

MailOne ==
  LET m == list.rows[at]
      email == Render(templates, "email", m, FALSE, config.phone)
      letter == Render(templates, "courrier", m, FALSE, config.phone)
      why == IF email.why # "" THEN email.why ELSE letter.why
      valid == Addresses(m).valid
  IN /\ step = "mail" /\ at <= Len(list.rows)
     /\ IF why = "InvalidTemplate"
        THEN step' = "refused" /\ UNCHANGED <<at, withEmail, withoutEmail, pages, setAside>>
        ELSE /\ at' = at + 1 /\ UNCHANGED step
             /\ IF why = "MissingField"
                THEN /\ setAside' = Aside(m, <<"email+courrier">>)
                     /\ UNCHANGED <<withEmail, withoutEmail, pages>>
                ELSE /\ withEmail' = IF valid # <<>> THEN Append(withEmail, at) ELSE withEmail
                     /\ withoutEmail' = IF valid = <<>> /\ ~IncompleteAddress(m)
                                        THEN Append(withoutEmail, at) ELSE withoutEmail
                     /\ pages' = IF IncompleteAddress(m) THEN pages
                              ELSE Append(pages, [mayor |-> at, text |-> letter.text])
                     /\ setAside' = Aside(m, Reasons(m))
     /\ UNCHANGED <<templates, config, list, disk>>

\* The four files are replaced one after the other, once everything has been produced.
WriteFile ==
  LET left == {i \in DOMAIN Outputs : disk[Outputs[i]] = "previous"}
  IN /\ step = "mail" /\ at > Len(list.rows) /\ left # {}
     /\ disk' = [disk EXCEPT ![Outputs[CHOOSE i \in left : \A j \in left : i <= j]] = "new"]
     /\ UNCHANGED <<step, templates, config, list, at, withEmail, withoutEmail, pages, setAside>>

Finish ==
  /\ step = "mail" /\ at > Len(list.rows) /\ \A o \in ToSet(Outputs) : disk[o] = "new"
  /\ step' = IF withEmail = <<>> /\ pages = <<>> THEN "exit 1" ELSE "exit 0"
  /\ UNCHANGED <<templates, config, list, at, withEmail, withoutEmail, pages, setAside, disk>>

----------------------------------------------------------------------------

MailingInit ==
  /\ step = "start" /\ at = 1
  /\ templates \in {MergeTemplates(Base, l) : l \in Layers}
  /\ config = <<>> /\ list = <<>>
  /\ withEmail = <<>> /\ withoutEmail = <<>> /\ pages = <<>> /\ setAside = <<>>
  /\ disk = [o \in ToSet(Outputs) |-> "previous"]

MailingNext == Start \/ MailOne \/ WriteFile \/ Finish
MailingSpec == MailingInit /\ [][MailingNext]_mailingVars

----------------------------------------------------------------------------
(* Properties *)

\* "You presented X" is said only to a proven endorser (messages.ts:3): whatever anybody
\* wrote in whatever file, a message that renders for a mayor whose rank is another, or is
\* not one the engine knows, holds no word of an endorsement; and a text the screen
\* advertises for a file never makes that file throw.
OnlyTheProvenAreThanked ==
  step = "start" => \A m \in Mayors, channel \in Channels, n, p \in BOOLEAN :
    LET out == Render(templates, channel, m, n, p)
    IN /\ out.ok /\ m.rank \notin {"", "has_endorsed"} => Parts(out.text) \intersect EndorserWords = {}
       /\ \A discovery \in BOOLEAN :
            FileName(channel, m).discovery = discovery /\ ~Missing(m) =>
              PlaceholderNames(channel, discovery) = DOMAIN Fields(m, n, p)

\* What a message opens on is what this mayor alone makes a placeholder say.
OpensOnAnOccasion(set, m, n, p) ==
  LET f == FileName("email", m)
      ch == Fields(m, n, p)
  IN KeysOf(set[f]) \subseteq DOMAIN ch /\ \E k \in Occasional : Opens(Rendered(set[f], ch), k)

\* A set of texts the engine accepted for nobody in particular (invalidTemplate, what the
\* version without accounts asks in place of a server) is refused by no mayor afterwards, at
\* any rank, with or without a note and the telephone: a letter or a script never, an email
\* only when a placeholder that was silent for the samples speaks for this mayor in front of
\* the literal OBJET: (messages.ts:777 looks at what came out, not at the text).
AcceptedTextsRender ==
  step = "start" /\ ~InvalidTemplate(templates) =>
    \A m \in Mayors, channel \in Channels, n, p \in BOOLEAN :
      Render(templates, channel, m, n, p).why = "InvalidTemplate" =>
        channel = "email" /\ OpensOnAnOccasion(templates, m, n, p)
=============================================================================
