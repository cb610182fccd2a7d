CONSTANTS
  s1 = s1
  s2 = s2
  p1 = p1
  p2 = p2
  g1 = g1
  g2 = g2
  q1 = q1
  r1 = r1
  r2 = r2
  x1 = x1
  x2 = x2
  d1 = d1
  d2 = d2
  i1 = i1
  None = None
  Slots <- OneSlot
  Parties = {p1}
  Goods = {g1, g2}
  UnparsableGoods = {}
  RequestIds = {q1}
  ResponseIds = {r1}
  DecisionIds = {x1}
  DealIds = {d1}
  InstrIds = {}
  Approvers = {}
  CallerEvents <- ConfirmOnly
  Verdicts = {}
  InstructableStates <- LiveStates
  Subscribed <- NothingHeard
  Faults = FALSE
SPECIFICATION Spec
INVARIANT
  DealHasAcceptedTerms
