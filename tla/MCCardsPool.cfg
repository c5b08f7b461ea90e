\* The pool: batches, closings of accounts and statuses racing for the cards.
SPECIFICATION Spec
CONSTANTS
  alice = alice
  bob = bob
  carol = carol
  North = North
  South = South
  National = National
  NoOne = NoOne
  NoTeam = NoTeam
  NoRow = NoRow
  NoRequest = NoRequest
  Requests = {r1, r2}
  Cards = {1, 2}
  Accounts = {alice, carol}
  Coordinators = {carol}
  Manages <- MCManages
  Teams <- MCTeams
  TeamOf <- MCTeamOf
  ToContact = "to_contact"
  Statuses = {"to_contact", "called"}
  Pools = {{1, 2}, {1}}
  BatchSize = 2
  MaxBatchRounds = 2
  Doors = {"status", "batch", "toggle"}
  MaxRequests = 4
SYMMETRY Symmetry
INVARIANTS
  BatchKeepsItsPromise
PROPERTIES
  ReservationsMoveInTheOpen
  ImplementsRegister
CHECK_DEADLOCK FALSE
