------------------------------ MODULE MCTools ------------------------------
(* One small instance for the tools that make and use the lists. They share no state: a     *)
(* behaviour runs one of them, the job, and leaves the others as they start.                *)
EXTENDS Crossing, Mailing, Csv, Texte

VARIABLE job

vars == <<crossingVars, mailingVars, csvVars, texteVars, job>>

----------------------------------------------------------------------------
(* The crossing: three communes of one department, and their spellings. *)

MCLikeness == (<<"jean", "jeanne">> :> 80) @@ (<<"jeanne", "jean">> :> 80)
Names == {"cram chaban", "cramchaban", "goncourt", "gonncourt", "vertus"}
MCTight == [n \in Names |-> IF n \in {"cram chaban", "cramchaban"} THEN "cramchaban" ELSE n]
MCNear == [n \in Names |-> IF n = "gonncourt" THEN {"goncourt"} ELSE {}]
MCDeptOf == [i \in 1..3 |-> "17"]

Person(first, sex) == [last |-> <<"martin">>, first |-> first, sex |-> sex]
Jean == Person(<<"jean">>, "M")
JeanLouis == Person(<<"jean", "louis">>, "M")
SexLeftOut == [JeanLouis EXCEPT !.sex = None]
JeanMarc == Person(<<"jean", "marc">>, "M")
Jeanne == Person(<<"jeanne">>, "F")

Official(p, insee, commune) ==
  [dept |-> "D", insee |-> insee, commune |-> commune, last |-> p.last, first |-> p.first, sex |-> p.sex]
Entry(p, year, tier, commune) ==
  [dept |-> "D", year |-> year, tier |-> tier, commune |-> commune, office |-> "Maire",
   last |-> p.last, first |-> p.first, sex |-> p.sex]

MCEntries ==
  {Entry(p, "2022", "A", c) : p \in {Jean, JeanLouis, JeanMarc}, c \in Names}
  \union {Entry(p, "2017", "A", c) : p \in {JeanMarc, Jeanne}, c \in Names \ {"gonncourt"}}
  \union {Entry(Jean, y, t, "cram chaban") : y \in {"2022", "2017"}, t \in {"B", "none"}}
MCRegisters ==
  {<<Official(p, 1, "cram chaban"), Official(q, 2, "goncourt")>> :
     p \in {Jean, JeanMarc, Jeanne}, q \in {Jean, SexLeftOut}}
Hall(insee, label, delegate, size) ==
  [insee |-> insee, label |-> label, city |-> label, delegate |-> delegate, size |-> size]
MCDirectories == {<<>>, <<Hall(3, "vertus", FALSE, 10), Hall(3, "vertus", TRUE, 5)>>,
                  <<Hall(2, "vertus", FALSE, 9)>>}

----------------------------------------------------------------------------
(* The mailing: the six files, one or two of them rewritten. *)

MCBase ==
  [f \in [channel : Channels, discovery : BOOLEAN] |->
     (IF f.channel = "email" THEN <<<<Lit("OBJET:")>>>> ELSE <<>>)
     \o <<<<Lit("Bonjour"), Key("commune")>>, <<Key("argument_personnel")>>>>]
MCTexts ==
  {<<<<Lit("OBJET:"), Key("contexte")>>, <<Lit("Bonjour")>>>>,
   <<<<Lit("OBJET:")>>, <<Key("candidat_recent")>>, <<Key("parrainages")>>>>,
   <<<<Key("contexte")>>, <<Lit("OBJET:")>>>>,
   <<<<Key("proposition_telephone")>>, <<Lit("OBJET:")>>>>,
   <<<<Lit("Bonjour")>>, <<Lit("OBJET:")>>>>,
   <<<<Lit("OBJET:")>>, <<Key("prenom du maire")>>>>,
   <<<<>>>>}
File(channel, discovery) == [channel |-> channel, discovery |-> discovery]
MCLayers ==
  {<<[f \in {file} |-> t], [g \in {other} |-> u]>> :
     file \in {File("email", FALSE), File("email", TRUE)}, t \in MCTexts,
     other \in {File("email", TRUE), File("courrier", FALSE), File("courrier", TRUE)}, u \in MCTexts}

Contact(emails, postalCode, filled) ==
  [rank |-> "", title |-> TRUE, filled |-> filled, history |-> FALSE, emails |-> emails,
   postalCode |-> postalCode]
Whole == {"name", "endorsement"}
Routed == "five digits"
MCMayors ==
  {Contact(<<"sound">>, Routed, Whole), Contact(<<"sound", "bad", "sound">>, "", Whole),
   Contact(<<"bad">>, Routed, Whole), Contact(<<>>, "", Whole), Contact(<<"sound">>, Routed, {"name"})}
  \union {[Contact(<<"sound">>, Routed, Whole) EXCEPT !.rank = r, !.history = h] :
            r \in {"has_endorsed", "commune_has_endorsed", "Has_endorsed"}, h \in BOOLEAN}
  \union {[Contact(<<"sound">>, Routed, {"name"}) EXCEPT !.rank = "no_signal"]}
Columns01 == {"small_candidate_endorsements", "commune_2026"}
MCLists ==
  [columns : {Columns01}, rows : UNION {[1..n -> {m \in MCMayors : m.rank = ""}] : n \in 1..2}]
  \union [columns : {Columns01 \ {"commune_2026"}, {"rank"}}, rows : {<<m>> : m \in MCMayors}]
\* The candidate's name and the telephone, of the template, filled or emptied.
MCConfigs ==
  {[base |-> [k \in {"candidat", "contact_tel"} |-> "template"], local |-> l,
    env |-> [k \in {"candidat", "contact_tel"} |-> IF k = "candidat" THEN e ELSE ""], phone |-> p] :
     l \in {[contact_tel |-> "value"], [contact_tel |-> ""]}, e \in {"", "value"}, p \in BOOLEAN}

----------------------------------------------------------------------------
(* Cells of two characters; words of two letters. *)

Chars == {Sep, Quote, CR, LF, "a"}
MCCells == UNION {[1..n -> Chars] : n \in 0..2}
MCWords == UNION {[1..n -> {1, 2}] : n \in 0..4}
MCPossibilities == {<<x, y>> : x \in UNION {[1..n -> {1, 2}] : n \in 2..3}, y \in UNION {[1..n -> {1, 2}] : n \in 3..4}}

----------------------------------------------------------------------------

CrossingIdle ==
  /\ stage = "idle" /\ next = 0 /\ merged = 0
  /\ register = <<>> /\ cards = <<>> /\ persons = <<>> /\ still = <<>> /\ former = <<>>
  /\ unmatched = <<>> /\ kept = <<>> /\ base = <<>>
MailingIdle ==
  /\ step = "idle" /\ at = 0 /\ templates = <<>> /\ config = <<>> /\ list = <<>> /\ disk = <<>>
  /\ withEmail = <<>> /\ withoutEmail = <<>> /\ pages = <<>> /\ setAside = <<>>
CsvIdle == table = <<>> /\ read = <<>>
TexteIdle == word = <<>> /\ among = <<>> /\ closest = <<-1>>

Init ==
  \/ job = "crossing" /\ CrossingInit /\ MailingIdle /\ CsvIdle /\ TexteIdle
  \/ job = "mailing" /\ CrossingIdle /\ MailingInit /\ CsvIdle /\ TexteIdle
  \/ job = "csv" /\ CrossingIdle /\ MailingIdle /\ CsvInit /\ TexteIdle
  \/ job = "texte" /\ CrossingIdle /\ MailingIdle /\ CsvIdle /\ TexteInit

Next ==
  /\ UNCHANGED job
  /\ \/ job = "crossing" /\ CrossingNext /\ UNCHANGED <<mailingVars, csvVars, texteVars>>
     \/ job = "mailing" /\ MailingNext /\ UNCHANGED <<crossingVars, csvVars, texteVars>>
     \/ job = "csv" /\ Exchange /\ UNCHANGED <<crossingVars, mailingVars, texteVars>>
     \/ job = "texte" /\ Compare /\ UNCHANGED <<crossingVars, mailingVars, csvVars>>

Spec == Init /\ [][Next]_vars
=============================================================================
