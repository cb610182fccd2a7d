CONSTANTS
  s1 = s1
  s2 = s2
  d1 = d1
  i1 = i1
  i2 = i2
  a1 = a1
  a2 = a2
  t1 = t1
  bad = bad
  None = None
  Slots <- OneSlot
  DealIds = {d1}
  InstrIds = {i1}
  Terms = {t1}
  UnsettleableTerms = {}
  Approvers = {}
  CallerEvents <- EngineEvents
  Verdicts = {}
  InstructableStates <- AllStates
  Subscribed <- NothingHeard
  Faults = FALSE
SPECIFICATION Spec
PROPERTY
  TerminalIsFinal
