\* Links asked for, minted with an account and presented, over two connections.
SPECIFICATION Spec
CONSTANTS
  Emails = {ann, bea}
  Members = {ann}
  Requests = {r1, r2, r3}
  PoolSize = 2
  Life <- MCLife
  MaxLinks = 2
  MaxClock = 1
  MaxRequests = 4
  Doors = {"ask", "invite", "redeem", "toggle"}
  NoLink = NoLink
  Untouched = Untouched
  NoRequest = NoRequest
SYMMETRY Symmetry
INVARIANTS
  SingleUse
  PresentedIsGone
  InvitedAccountsExist
  NobodyWaitsHolding
PROPERTIES
  InvitationsOutliveSignIns
CHECK_DEADLOCK FALSE
