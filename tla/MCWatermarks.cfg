CONSTANTS
  Page = {p1}
  DeleteAttempts = 2
  p1 = p1
  Challenge = {c1, c2}
  Call = {k1, k2}
  MaxAttempts = 2
  DeliverAttempts = 2
  NoChallenge = NoChallenge
  c1 = c1
  c2 = c2
  k1 = k1
  k2 = k2
  Viewer = {v1, v2}
  Grant = {g1, g2}
  To <- Named
  OnRoom = {g2}
  v1 = v1
  v2 = v2
  g1 = g1
  g2 = g2
  NoChange = NoChange
  Counterparty = Counterparty
SPECIFICATION AccessSpec
INVARIANTS TypesOK ActiveHasPage RevokedShowsNothing NothingOrphaned SignInSound ReviewsHold
PROPERTIES BegunEnds
CHECK_DEADLOCK FALSE
