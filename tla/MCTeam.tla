------------------------------- MODULE MCTeam -------------------------------
(* One small instance for the screens of the team mode. They hold nothing in common that      *)
(* these properties are about: a behaviour runs one of them, the one that is up, and leaves   *)
(* the others as they start.                                                                  *)
EXTENDS Doors, TeamCard, MayorsList, Management

VARIABLE up   \* the screen that runs

allVars == <<up, doorVars, cardVars, listVars, manageVars>>

\* Each screen as it stands while another runs.
DoorIdle ==
  /\ reader = Nobody /\ mode = "idle" /\ pending = Nobody /\ stale = FALSE /\ cookie = Nobody
  /\ boot = "asleep" /\ redeemed = Nobody /\ signedIn = Nobody /\ last = Nobody /\ unsent = {}
  /\ busy = Nobody /\ asked = {} /\ saving = {} /\ revived = FALSE
ListIdle ==
  /\ filter = NoFilter /\ rows = <<>> /\ next = FALSE /\ failed = NoFilter /\ listLoading = FALSE
  /\ latest = 0 /\ waiting = FALSE /\ questions = {} /\ interrupted = FALSE

Init ==
  \/ up = "doors" /\ DoorsInit /\ CardInit /\ ListIdle /\ ManageInit
  \/ up = "card" /\ DoorIdle /\ CardInit /\ ListIdle /\ ManageInit
  \/ up = "list" /\ DoorIdle /\ CardInit /\ ListInit /\ ManageInit
  \/ up = "management" /\ DoorIdle /\ CardInit /\ ListIdle /\ ManageInit

DoorStep ==
  up = "doors" /\ DoorsNext
  /\ UNCHANGED <<up, cardVars, listVars, manageVars>>
CardStep ==
  up = "card" /\ CardNext
  /\ UNCHANGED <<up, doorVars, listVars, manageVars>>
ListStep ==
  up = "list" /\ ListNext
  /\ UNCHANGED <<up, doorVars, cardVars, manageVars>>
ManageStep ==
  up = "management" /\ ManageNext
  /\ UNCHANGED <<up, doorVars, cardVars, listVars>>

Next == DoorStep \/ CardStep \/ ListStep \/ ManageStep

Spec == Init /\ [][Next]_allVars

=============================================================================
