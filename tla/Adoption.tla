------------------------------ MODULE Adoption ------------------------------
(***************************************************************************)
(* The campaign of browser mode (src/web/src/Browser.tsx and prefill.ts):  *)
(* the settings kept in IndexedDB, the page that shows them, the campaign  *)
(* of the origin the page is served from, and the one a ?org= link names.  *)
(*                                                                         *)
(* A load reads every setting, shows the page, asks its origin which       *)
(* campaign it is, and then writes one setting at a time with what it read *)
(* at the start; the volunteer types and saves meanwhile.  Each element of *)
(* `todo` is one awaited write with the screen update that follows it.     *)
(*                                                                         *)
(* The nine fields are two values: the seven a campaign hands over         *)
(* (`fields`) and the two that name a person (`person`).  The six texts    *)
(* are one value.  "argument" and "appel_telephonique" are one `note`.     *)
(***************************************************************************)
EXTENDS Naturals, Sequences

CONSTANTS
  Own, Other,          \* the slugs: this origin's campaign, the link's
  OwnFields, OwnTexts, \* the versions the origin's campaign goes through
  LinkFields, LinkText, Typed, TypedText, Me,
  Blank, Unset, Nothing,
  Stores,              \* what the browser may hold before the first load
  Origins,             \* what the origin may be before anything happens
  Backup,              \* the settings of a backup file
  MaxEdits, MaxFaults, MaxVisits    \* bounds

Fields == OwnFields \cup {LinkFields, Typed, Blank}
AllTexts == OwnTexts \cup {LinkText, TypedText, Blank}
Campaigns == [fields : Fields, person : {Blank, Me}]
Slugs == {Own, Other}
Snapshots == [slug : Slugs, fields : Fields, texts : AllTexts]
OwnOffers == [slug : {Own}, fields : OwnFields \cup {Blank}, texts : OwnTexts \cup {Blank},
              logo : {Blank, "mark"}]
Keys == {"campagne", "note", "adoption", "overlay", "layer", "logo"}

\* A snapshot of this origin's campaign is of a version it went through, in every browser
\* that wrote these stores and this backup; nothing typed or linked is one of them.
OwnSnapshot(a) == a # Nothing /\ a.slug = Own => a.fields \in OwnFields \cup {Blank}

ASSUME AdoptionAssumption ==
  /\ Own # Other /\ Nothing \notin Slugs
  /\ Unset \notin Campaigns \cup Snapshots \cup AllTexts \cup {Nothing}
  /\ Typed \notin OwnFields \cup {Blank} /\ LinkFields \notin OwnFields \cup {Blank}
  /\ \A s \in Stores \cup {Backup} :
       /\ DOMAIN s = Keys /\ s["campagne"] \in Campaigns \cup {Unset}
       /\ s["adoption"] # Unset => OwnSnapshot(s["adoption"])
  /\ Origins \subseteq OwnOffers

EMPTY_CFG == [fields |-> Blank, person |-> Blank]

\* readSetting: what a key that was never written answers.
Fallback == [campagne |-> EMPTY_CFG, note |-> Blank, adoption |-> Nothing,
             overlay |-> Blank, layer |-> Blank, logo |-> Blank]
ReadSetting(s, k) == IF s[k] = Unset THEN Fallback[k] ELSE s[k]

VARIABLES
  settings,     \* the settings store
  page,      \* what the page shows, while it is open
  load,      \* what the load found, until it has done its work
  todo,      \* the writes each handler still has to do
  origin,    \* the campaign of this origin: its fields (Blank: none yet), its texts
  edits, faults, visits

adoptionVars == <<settings, page, load, todo, origin, edits, faults, visits>>

Handlers == {"load", "accept", "save", "import"}
Closed == [open |-> FALSE]
Quiet == [h \in Handlers |-> <<>>]

-----------------------------------------------------------------------------
\* prefill.ts: the conditions a load and a screen decide on.
Untouched(c) == c.fields = Blank /\ c.person = Blank
SameAdoptedFields(a, b) == a.fields = b.fields

\* One awaited write and its value.
Put(k, v) == <<[do |-> "put", key |-> k, value |-> v]>>
Say(what) == <<[do |-> what]>>
When(test, writes) == IF test THEN writes ELSE <<>>

\* Who signs does not travel: the two personal keys stay this browser's.
Handed(offer, current) == [fields |-> offer.fields, person |-> current.person]

SnapshotOf(offer) == [slug |-> offer.slug, fields |-> offer.fields, texts |-> Blank]

AdoptFields(offer, current) ==
  Put("campagne", Handed(offer, current))
  \o Put("adoption", SnapshotOf(offer))
  \o When(offer.logo # Blank, Put("logo", offer.logo))

Adopt(offer, current) ==
  AdoptFields(offer, current) \o Put("layer", offer.texts) \o Put("overlay", Blank)

\* The snapshot a load may follow: of the campaign that answers.
Followed(found, own) ==
  IF found.adoption # Nothing /\ found.adoption.slug = own.slug THEN found.adoption ELSE Nothing

\* Bug: a snapshot is enough, whatever the fields have become.
SnapshotIsEnough(found, own) ==
  /\ own.fields # Blank
  /\ found.campagne.fields = own.fields \/ found.adoption # Nothing

\* The volunteer typed none of the seven: they are the campaign's as it is, or
\* as this browser took it.
FieldsUntouched(found, own) ==
  /\ own.fields # Blank
  /\ \/ SameAdoptedFields(found.campagne, own)
     \/ /\ Followed(found, own) # Nothing
        /\ SameAdoptedFields(found.campagne, Followed(found, own))

\* An overlay from before the layer existed, which was never typed here.
Migrates(found, own) ==
  /\ found.layer = Blank /\ found.overlay # Blank
  /\ \/ found.overlay = own.texts
     \/ Followed(found, own) # Nothing /\ found.overlay = Followed(found, own).texts

\* Bug: the texts wait for the fields to be intact.
LayerWithTheFields(found, own) ==
  When(Migrates(found, own), Put("overlay", Blank))
  \o When(found.layer # own.texts /\ FieldsUntouched(found, own), Put("layer", own.texts))
  \o When(FieldsUntouched(found, own) /\ ~SameAdoptedFields(found.campagne, own),
          AdoptFields(own, found.campagne))

\* The campaign's own browser version follows its campaign: its texts always,
\* its fields while they are intact.
Follow(found, own) ==
  When(Migrates(found, own), Put("overlay", Blank))
  \o When(found.layer # own.texts, Put("layer", own.texts))
  \o When(FieldsUntouched(found, own),
          IF SameAdoptedFields(found.campagne, own) THEN Put("adoption", SnapshotOf(own))
          ELSE AdoptFields(own, found.campagne))

\* A link is offered on an untouched campaign, and only said otherwise.
OfferLink(found) ==
  When(found.slug # Nothing,
       Say(IF Untouched(found.campagne) THEN "pending" ELSE "offerError"))

\* A link naming another campaign keeps this origin's out of the load.
MayTake(found, own) == found.slug \in {Nothing, own.slug}

\* What a load does with the answer of its origin (Nothing: no campaign here,
\* or an answer refused).
Decide(found, own) ==
  IF own = Nothing \/ ~MayTake(found, own) THEN OfferLink(found)
  ELSE IF own.fields # Blank /\ Untouched(found.campagne) THEN Adopt(own, found.campagne)
  ELSE Follow(found, own)
       \o When(own.fields # Blank /\ ~FieldsUntouched(found, own), OfferLink(found))

-----------------------------------------------------------------------------
LinkOffer == [slug |-> Other, fields |-> LinkFields, texts |-> LinkText, logo |-> Blank]

Found == [slug : Slugs \cup {Nothing}, campagne : Campaigns, adoption : Snapshots \cup {Nothing},
          overlay : AllTexts, layer : AllTexts, at : {"asking", "writing"},
          own : OwnOffers \cup {Nothing}, alone : BOOLEAN]

AdoptionTypeOK ==
  /\ DOMAIN settings = Keys
  /\ ReadSetting(settings, "campagne") \in Campaigns
  /\ ReadSetting(settings, "adoption") \in Snapshots \cup {Nothing}
  /\ {ReadSetting(settings, "overlay"), ReadSetting(settings, "layer")} \subseteq AllTexts
  /\ page.open =>
       /\ {page.cfg, page.draft} \subseteq Campaigns
       /\ page.pending \in Slugs \cup {Nothing}
       /\ page.offer \in {Nothing, LinkOffer}
  /\ load \in Found \cup {Nothing}
  /\ load # Nothing => page.open
  /\ DOMAIN todo = Handlers
  /\ origin \in OwnOffers

AdoptionInit ==
  /\ settings \in Stores
  /\ page = Closed /\ load = Nothing /\ todo = Quiet
  /\ origin \in Origins
  /\ edits = 0 /\ faults = 0 /\ visits = 0

Visit == page.open /\ visits < MaxVisits /\ visits' = visits + 1

\* Another writer than the load has touched the store.
Disturbed == IF load = Nothing THEN Nothing ELSE [load EXCEPT !.alone = FALSE]

\* The page opens: every setting is read, shown, and kept by the load.
OpenPage(slug) ==
  /\ ~page.open /\ visits < MaxVisits /\ visits' = visits + 1
  /\ LET read == [k \in Keys |-> ReadSetting(settings, k)]
     IN /\ page' = [open |-> TRUE, cfg |-> read.campagne, draft |-> read.campagne, note |-> read.note,
                    overlay |-> read.overlay, layer |-> read.layer, logo |-> read.logo,
                    pending |-> Nothing, offer |-> Nothing, offerError |-> FALSE]
        /\ load' = [slug |-> slug, campagne |-> read.campagne, adoption |-> read.adoption,
                    overlay |-> read.overlay, layer |-> read.layer, at |-> "asking",
                    own |-> Nothing, alone |-> TRUE]
  /\ UNCHANGED <<settings, todo, origin, edits, faults>>

\* The campaign of the origin as it is now, or none: an apex, a static host, no
\* network, an answer the build refuses.
OwnCampaign == {Nothing, origin}

OriginAnswers ==
  /\ load # Nothing /\ load.at = "asking"
  /\ \E own \in OwnCampaign :
       /\ load' = [load EXCEPT !.at = "writing", !.own = own]
       /\ todo' = [todo EXCEPT !["load"] = Decide(load, own)]
       /\ \/ page' = page
          \/ own = Nothing /\ page' = [page EXCEPT !.offerError = TRUE]
  /\ UNCHANGED <<settings, origin, edits, faults, visits>>

\* setX after the await: what the page shows of a key the handler wrote.
Shown(h, k, v) ==
  CASE k = "campagne" /\ h = "save" -> page
    [] k = "campagne" /\ h # "save" -> [page EXCEPT !.cfg = v, !.draft = v]
    [] k \in {"overlay", "layer", "logo"} -> [page EXCEPT ![k] = v]
    [] OTHER -> page

\* The next awaited step of a handler.  An import shows nothing before its end.
Step(h) ==
  /\ todo[h] # <<>>
  /\ LET next == Head(todo[h])
     IN CASE next.do = "put" ->
               /\ settings' = [settings EXCEPT ![next.key] = next.value]
               /\ page' = IF h = "import" THEN page ELSE Shown(h, next.key, next.value)
          [] next.do = "saved" ->
               /\ page' = [page EXCEPT !.cfg = next.cfg, !.note = next.note]
               /\ UNCHANGED settings
          [] next.do = "pending" -> page' = [page EXCEPT !.pending = load.slug] /\ UNCHANGED settings
          [] next.do = "offerError" -> page' = [page EXCEPT !.offerError = TRUE] /\ UNCHANGED settings
          [] next.do = "taken" -> page' = [page EXCEPT !.offer = Nothing] /\ UNCHANGED settings
          [] next.do = "reread" ->
               /\ page' = [page EXCEPT !.cfg = ReadSetting(settings, "campagne"),
                                       !.draft = ReadSetting(settings, "campagne"),
                                       !.note = ReadSetting(settings, "note"),
                                       !.overlay = ReadSetting(settings, "overlay"),
                                       !.layer = ReadSetting(settings, "layer"),
                                       !.logo = ReadSetting(settings, "logo")]
               /\ UNCHANGED settings
  /\ todo' = [todo EXCEPT ![h] = Tail(@)]
  /\ load' = IF h = "load" THEN load ELSE Disturbed
  /\ UNCHANGED <<origin, edits, faults, visits>>

\* A write is refused (quota, blocked base): the handler says so and stops.
WriteRefused(h) ==
  /\ todo[h] # <<>> /\ Head(todo[h]).do = "put" /\ faults < MaxFaults
  /\ faults' = faults + 1
  /\ todo' = [todo EXCEPT ![h] = <<>>]
  /\ load' = Disturbed
  /\ UNCHANGED <<settings, page, origin, edits, visits>>

\* The logo is fetched before it is kept: a failure costs the picture only.
LogoUnavailable(h) ==
  /\ h \in {"load", "accept"} /\ todo[h] # <<>>
  /\ Head(todo[h]).do = "put" /\ Head(todo[h]).key = "logo"
  /\ page' = [page EXCEPT !.logo = Blank]
  /\ todo' = [todo EXCEPT ![h] = Tail(@)]
  /\ UNCHANGED <<settings, load, origin, edits, faults, visits>>

ClosePage ==
  /\ page.open
  /\ page' = Closed /\ load' = Nothing /\ todo' = Quiet
  /\ UNCHANGED <<settings, origin, edits, faults, visits>>

\* The coordination corrects its campaign.
OriginEdits ==
  /\ edits < MaxEdits /\ edits' = edits + 1
  /\ \E fields \in OwnFields, texts \in OwnTexts :
       origin' = [origin EXCEPT !.fields = fields, !.texts = texts]
  /\ UNCHANGED <<settings, page, load, todo, faults, visits>>

-----------------------------------------------------------------------------
\* "Ma campagne": the draft, and its save in three writes.
TypeDraft ==
  /\ Visit
  /\ \E fields \in {page.draft.fields, Typed}, person \in {page.draft.person, Me} :
       /\ page.draft # [fields |-> fields, person |-> person]
       /\ page' = [page EXCEPT !.draft = [fields |-> fields, person |-> person]]
  /\ UNCHANGED <<settings, load, todo, origin, edits, faults>>

SaveCampaign ==
  /\ Visit /\ todo["save"] = <<>>
  /\ todo' = [todo EXCEPT !["save"] =
                Put("campagne", page.draft) \o Put("note", "mine")
                \o <<[do |-> "saved", cfg |-> page.draft, note |-> "mine"]>>]
  /\ UNCHANGED <<settings, page, load, origin, edits, faults>>

\* A template set is written once the engine renders it (onTemplates).
SaveTemplates ==
  /\ Visit
  /\ \E text \in {TypedText, Blank} :
       /\ settings' = [settings EXCEPT !.overlay = text]
       /\ page' = [page EXCEPT !.overlay = text]
  /\ load' = Disturbed
  /\ UNCHANGED <<todo, origin, edits, faults>>

ChooseLogo ==
  /\ Visit
  /\ \E logo \in {"own", Blank} :
       /\ settings' = [settings EXCEPT !.logo = logo]
       /\ page' = [page EXCEPT !.logo = logo]
  /\ load' = Disturbed
  /\ UNCHANGED <<todo, origin, edits, faults>>

\* "Voir cette proposition": the only request to the link's campaign.
SeeOffer ==
  /\ Visit
  /\ page.pending # Nothing /\ page.offer = Nothing /\ Untouched(page.draft)
  /\ page' \in {[page EXCEPT !.offer = LinkOffer],
                [page EXCEPT !.offerError = TRUE, !.pending = Nothing]}
  /\ UNCHANGED <<settings, load, todo, origin, edits, faults>>

AcceptOffer ==
  /\ Visit /\ todo["accept"] = <<>>
  /\ page.offer # Nothing /\ Untouched(page.draft)
  /\ todo' = [todo EXCEPT !["accept"] = Adopt(page.offer, page.cfg) \o Say("taken")]
  /\ UNCHANGED <<settings, page, load, origin, edits, faults>>

RefuseOffer ==
  /\ Visit
  /\ page.offer # Nothing /\ Untouched(page.draft)
  /\ page' = [page EXCEPT !.offer = Nothing, !.pending = Nothing]
  /\ UNCHANGED <<settings, load, todo, origin, edits, faults>>

\* Everything is erased, in the store and on the screen.
EraseSettings ==
  /\ Visit
  /\ settings' = [k \in Keys |-> Unset]
  /\ page' = [page EXCEPT !.cfg = EMPTY_CFG, !.draft = EMPTY_CFG, !.note = Blank,
                          !.overlay = Blank, !.layer = Blank, !.logo = Blank]
  /\ load' = Disturbed
  /\ UNCHANGED <<todo, origin, edits, faults>>

\* A backup's settings, one write each: a merge keeps every key held.
Restored(merge) ==
  LET Takes(k) == Backup[k] # Unset /\ (merge => settings[k] = Unset)
      Restores(k) == When(Takes(k), Put(k, Backup[k]))
  IN Restores("campagne") \o Restores("note") \o Restores("adoption")
     \o Restores("overlay") \o Restores("layer") \o Restores("logo") \o Say("reread")

ImportBackup(merge) ==
  /\ Visit /\ todo["import"] = <<>>
  /\ todo' = [todo EXCEPT !["import"] = Restored(merge)]
  /\ UNCHANGED <<settings, page, load, origin, edits, faults>>

AdoptionNext ==
  \/ \E slug \in Slugs \cup {Nothing} : OpenPage(slug)
  \/ OriginAnswers
  \/ \E h \in Handlers : Step(h) \/ WriteRefused(h) \/ LogoUnavailable(h)
  \/ ClosePage \/ OriginEdits
  \/ TypeDraft \/ SaveCampaign \/ SaveTemplates \/ ChooseLogo
  \/ SeeOffer \/ AcceptOffer \/ RefuseOffer \/ EraseSettings
  \/ \E merge \in BOOLEAN : ImportBackup(merge)

AdoptionSpec == AdoptionInit /\ [][AdoptionNext]_adoptionVars

-----------------------------------------------------------------------------
Campagne == ReadSetting(settings, "campagne")

\* A step of the load itself: only it shortens the load's list.
LoadStep == todo["load"] # <<>> /\ todo'["load"] = Tail(todo["load"]) /\ page'.open

\* The nine fields the volunteer had saved, or of a campaign they chose by a
\* link, are there when a load reads them: that load leaves them alone, whatever
\* its origin has become (fieldsUntouched, the slug of the snapshot). And a page
\* opened by a link that names another campaign changes nothing at all here
\* before the volunteer has accepted it (requestedSlug, setPendingSlug). It is
\* about the fields only: a load replaces the campaign's texts and its logo, and
\* an adoption clears the texts written here (Browser.tsx, adopt).
WhatALoadFindsChosenStands ==
  [][LoadStep =>
       /\ load.campagne.fields \in {Typed, LinkFields} => Campagne' = Campagne
       /\ load.slug = Other => settings' = settings]_adoptionVars

\* A load whose origin answered, undisturbed, leaves the browser following it:
\* the layer says the campaign's texts, and fields nobody typed say the
\* campaign's with a snapshot to follow the next correction by.
ALoadLeavesItFollowing ==
  (load # Nothing /\ load.alone /\ load.at = "writing" /\ todo["load"] = <<>>
   /\ load.own # Nothing /\ load.slug \in {Nothing, Own}) =>
     /\ ReadSetting(settings, "layer") = load.own.texts
     /\ (load.own.fields # Blank /\ (Untouched(load.campagne) \/ FieldsUntouched(load, load.own)))
        => /\ Campagne.fields = load.own.fields
           /\ ReadSetting(settings, "adoption") = SnapshotOf(load.own)

\* "What the volunteer typed is theirs": a load never takes away the fields
\* they saved, were it while it waited for its origin's answer.
ALoadTakesNothingTyped ==
  [][LoadStep /\ Campagne.fields = Typed => Campagne'.fields = Typed]_adoptionVars
=============================================================================
