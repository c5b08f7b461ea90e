----------------------------- MODULE MCBrowser -----------------------------
(* One small instance for the browser version: its histories, its campaign, and the card it   *)
(* shares with the team mode. A behaviour runs one of the three and leaves the others as they *)
(* start.                                                                                     *)
EXTENDS LocalStore, Adoption, Fiche

VARIABLE part   \* which of the three runs

----------------------------------------------------------------------------
\* A colleague's export: the first mayor worked once, at the first minute.
MCReceived ==
  {[c \in Codes |-> IF c = 1 THEN [status |-> "called", updated_at |-> 1,
                                   notes |-> <<[ts |-> 1, status |-> "called",
                                                note |-> "his"]>>]
                    ELSE Unreadable]}

\* A first visit; a browser that adopted before the layer and the snapshot
\* existed; one that follows the campaign's first version.
MCNew == [k \in {"campagne", "note", "adoption", "overlay", "layer", "logo"} |-> Unset]
MCOld == [MCNew EXCEPT !.campagne = [fields |-> "o1", person |-> Me], !.overlay = "t1"]
MCFollowing ==
  [MCNew EXCEPT !.campagne = [fields |-> "o1", person |-> Me], !.layer = "t1",
                !.adoption = [slug |-> Own, fields |-> "o1", texts |-> Blank]]

MCStores == {MCNew, MCOld, MCFollowing}

\* A campaign with its mark; one whose fields are still the template's.
MCOrigins ==
  {[slug |-> Own, fields |-> "o1", texts |-> "t1", logo |-> "mark"],
   [slug |-> Own, fields |-> Blank, texts |-> "t1", logo |-> Blank]}

\* A colleague's file: another campaign, adopted by a link.
MCBackup ==
  [MCNew EXCEPT !.campagne = [fields |-> LinkFields, person |-> Me], !.layer = LinkText,
                !.adoption = [slug |-> Other, fields |-> LinkFields, texts |-> Blank]]

\* Two lines for the first mayor, of the same minute as every line to come.
MCAtFirst ==
  [m \in Mayors |-> IF m = "first" THEN <<[status |-> "called", note |-> "spoken"],
                                         [status |-> "to_contact", note |-> Empty]>>
                    ELSE <<>>]

----------------------------------------------------------------------------
Elsewhere ==
  /\ settings = MCNew /\ page = Closed /\ load = Nothing /\ todo = Quiet
  /\ origin = Nothing /\ edits = 0 /\ faults = 0 /\ visits = 0

AllInit ==
  \/ part = "histories" /\ Init /\ Elsewhere /\ FicheInit
  \/ part = "campaign" /\ Init /\ AdoptionInit /\ FicheInit
  \/ part = "card" /\ Init /\ Elsewhere /\ FicheInit

HistoriesStep == part = "histories" /\ Next /\ UNCHANGED <<part, adoptionVars, ficheVars>>
CampaignStep == part = "campaign" /\ AdoptionNext /\ UNCHANGED <<part, vars, ficheVars>>
CardStep == part = "card" /\ FicheNext /\ UNCHANGED <<part, vars, adoptionVars>>

AllNext == HistoriesStep \/ CampaignStep \/ CardStep

AllSpec == AllInit /\ [][AllNext]_<<part, vars, adoptionVars, ficheVars>>
=============================================================================
