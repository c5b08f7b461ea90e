\* Every door of the accounts, racing.
SPECIFICATION Spec
CONSTANTS
  NoTeam = NoTeam
  Absent = Absent
  NoRequest = NoRequest
  Accounts = {ada, bob, cy}
  Founders = {ada}
  Seeded = ada
  Teams = {North, South}
  Requests = {r1, r2}
  Doors = {"create", "grant", "toggle", "role", "seed"}
  RolesGiven = {"volunteer", "lead", "coordination"}
  MaxRequests = 4
SYMMETRY Symmetry
PROPERTIES
  LeadsReachTheirVolunteers
  CoordinationIsGiven
  TheLastLeavesOnlyUncounted
CHECK_DEADLOCK FALSE
