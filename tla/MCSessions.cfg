\* Sign-ins, changes, resets and seeding racing on one account, two pods a tick apart.
SPECIFICATION Spec
CONSTANTS
  ann = ann
  r1 = r1
  r2 = r2
  one = one
  two = two
  Emails = {ann}
  Passwords = {one, two}
  First <- MCFirst
  OldScheme = {ann}
  Seeded = ann
  Requests = {r1, r2}
  Ahead <- MCAhead
  SecondTicks = 2
  Life = 2
  Skew = 1
  MaxClock = 3
  MaxRequests = 3
  Doors = {"signin", "link", "change", "reset", "seed", "toggle"}
  NoRequest = NoRequest
INVARIANTS
  AChangeSparesWhatFollows
PROPERTIES
  InstantsGoForward
CHECK_DEADLOCK FALSE
