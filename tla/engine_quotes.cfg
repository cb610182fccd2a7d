CONSTANTS
  s1 = s1
  s2 = s2
  p1 = p1
  p2 = p2
  g1 = g1
  g2 = g2
  q1 = q1
  r1 = r1
  r2 = r2
  x1 = x1
  x2 = x2
  d1 = d1
  d2 = d2
  i1 = i1
  None = None
  Slots <- TwoSlots
  Parties = {p1, p2}
  Goods = {g1, g2}
  UnparsableGoods = {}
  RequestIds = {q1}
  ResponseIds = {r1, r2}
  DecisionIds = {x1, x2}
  DealIds = {d1, d2}
  InstrIds = {}
  Approvers = {}
  CallerEvents <- ConfirmOnly
  Verdicts = {}
  InstructableStates <- LiveStates
  Subscribed <- AcceptedHeard
  Faults = TRUE
SPECIFICATION Spec
SYMMETRY Symmetry
INVARIANTS
  TypeOK
  DealMatchesQuote
  DecisionBacksOneDeal
  AcceptFindsRequest
  AcceptedHeardInOrder
