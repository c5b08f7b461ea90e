\* Both queues and the doors beside them, two requests in flight.
SPECIFICATION Spec
CONSTANTS
  Queues = {"team", "hosting"}
  Names = {north, south, east}
  Emails = {eve, fay}
  Requests = {r1, r2}
  MaxPending = 1
  MaxRows = 3
  MaxRequests = 4
  Doors = {"file", "accept", "refuse", "open", "account", "rename"}
  Nothing = Nothing
  Direct = Direct
SYMMETRY Symmetry
INVARIANTS
  DecisionsAreWhole
  CeilingSlack
PROPERTIES
  DecidedOnce
CHECK_DEADLOCK FALSE
