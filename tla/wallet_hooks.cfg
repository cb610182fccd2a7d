SPECIFICATION Spec
CONSTANTS
    c1 = c1
    c2 = c2
    Components <- MCComponents
    Adapters <- MCAdapters
    Session = Session
    None = None
    MaxClicks = 6
CHECK_DEADLOCK FALSE
INVARIANTS
  ShownOrRefreshing
  ConnectionAgreesAlone
PROPERTIES
  LoadingEnds
