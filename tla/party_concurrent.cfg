CONSTANTS
  s1 = s1
  s2 = s2
  u1 = u1
  u2 = u2
  x1 = x1
  p1 = p1
  p2 = p2
  k1 = k1
  w1 = w1
  w2 = w2
  None = None
  Slots <- TwoSlots
  UserIds = {u1, u2}
  ExternalIds = {x1}
  PartyIds = {p1, p2}
  Keys = {k1}
  WalletIds = {w1, w2}
  Faults = TRUE
SPECIFICATION Spec
SYMMETRY Symmetry
INVARIANTS
  IndexCoversParties
  ListedPartiesResolve
  WalletIndexResolves
PROPERTIES
  PrimaryPartyStays
  LoginReachesSameUser
