\* The card of the team mode, and the address it is under.
SPECIFICATION Spec
CONSTANTS
  Accounts = {a, b}
  Mayors = {m, n}
  Listed = {m, n}
  Filters = {f, g}
  Requests = {q, r}
  Teams = {t}
  None = None
  NoFilter = NoFilter
  Nothing = Nothing
  Nobody = Nobody
  MaxAsked = 4
  MaxProfiles = 2
  MaxOthers = 1
  MaxChanges = 3
  MaxRows = 2
  MaxCalls = 3
INVARIANTS
  UnderItsOwnAddress
CHECK_DEADLOCK FALSE
