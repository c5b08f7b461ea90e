\* The register: statuses, corrections and removals racing on one history.
SPECIFICATION Spec
CONSTANTS
  alice = alice
  bob = bob
  carol = carol
  North = North
  South = South
  National = National
  NoOne = NoOne
  NoTeam = NoTeam
  NoRow = NoRow
  NoRequest = NoRequest
  Requests = {r1, r2}
  Cards = {1}
  Accounts = {alice, bob, carol}
  Coordinators = {carol}
  Manages <- MCManages
  Teams <- MCTeams
  TeamOf <- MCTeamOf
  ToContact = "to_contact"
  Statuses = {"to_contact", "called"}
  Pools = {{1}}
  BatchSize = 1
  MaxBatchRounds = 1
  Doors = {"status", "edit", "delete"}
  MaxRequests = 4
SYMMETRY Symmetry
INVARIANTS
  HeadIsNewest
PROPERTIES
  HistoryGrowsAtTheHead
  NobodyOverwritesUnread
  ImplementsRegister
CHECK_DEADLOCK FALSE
