CONSTANTS
  s1 = s1
  s2 = s2
  d1 = d1
  i1 = i1
  i2 = i2
  a1 = a1
  a2 = a2
  t1 = t1
  bad = bad
  None = None
  Slots <- TwoSlots
  DealIds = {d1}
  InstrIds = {i1, i2}
  Terms = {t1, bad}
  UnsettleableTerms = {bad}
  Approvers = {a1, a2}
  CallerEvents <- ConfirmOrCancel
  Verdicts = {TRUE, FALSE}
  InstructableStates <- AllStates
  Subscribed <- HeardEvents
  Faults = TRUE
SPECIFICATION Spec
SYMMETRY Symmetry
INVARIANTS
  FlagsEarned
  InstructionLinkResolves
  ReadyHasInstruction
  HeardIsBacked
PROPERTIES
  KeepsCommitments
