SPECIFICATION Spec
CONSTANTS
    r1 = r1
    r2 = r2
    u1 = u1
    u2 = u2
    admin = admin
    other = other
    Requests <- MCRequests
    Users <- MCUsers
    Externals <- MCExternals
    AdminExternals <- MCAdminExternals
    Loads <- MCLoads
    None = None
    Capacity = 2
    MaxReceived = 3
CHECK_DEADLOCK FALSE
INVARIANTS
  ErrorsAreNewest
  CommandLogTellsSession
PROPERTIES
  AnswersAreAuthorised
  RequestsAnswered
