\* Batches and closings waiting for each other's rows, with the fairness of the server.
SPECIFICATION FairSpec
CONSTANTS
  alice = alice
  bob = bob
  carol = carol
  North = North
  South = South
  National = National
  NoOne = NoOne
  NoTeam = NoTeam
  NoRow = NoRow
  NoRequest = NoRequest
  Requests = {r1, r2}
  Cards = {1, 2, 3}
  Accounts = {alice, carol}
  Coordinators = {carol}
  Manages <- MCManages
  Teams <- MCTeams
  TeamOf <- MCTeamOf
  ToContact = "to_contact"
  Statuses = {"to_contact", "called"}
  Pools = {{1, 2, 3}, {2}}
  BatchSize = 2
  MaxBatchRounds = 2
  Doors = {"batch", "toggle"}
  MaxRequests = 4
PROPERTY
  EveryRequestIsAnswered
CHECK_DEADLOCK FALSE
