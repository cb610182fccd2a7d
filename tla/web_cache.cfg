SPECIFICATION Spec
CONSTANTS
    u1 = u1
    u2 = u2
    d1 = d1
    Users <- MCUsers
    Deals <- MCDeals
    Visits <- MCVisits
    None = None
CHECK_DEADLOCK FALSE
INVARIANTS
  TypeOK
  NeverBlank
  OwnChangeShown
PROPERTIES
  LateAnswersHarmless
  LoadingEnds
