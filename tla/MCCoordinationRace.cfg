\* A coordinator reopened, or promoted, while another request counts the coordinators.
SPECIFICATION Spec
CONSTANTS
  NoTeam = NoTeam
  Absent = Absent
  NoRequest = NoRequest
  Accounts = {ada, cy}
  Founders = {ada, cy}
  Seeded = ada
  Teams = {North, South}
  Requests = {r1, r2, r3}
  Doors = {"role", "toggle"}
  RolesGiven = {"volunteer", "coordination"}
  MaxRequests = 5
SYMMETRY Symmetry
INVARIANTS
  SomebodyCoordinates
CHECK_DEADLOCK FALSE
