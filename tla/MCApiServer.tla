----------------------------- MODULE MCApiServer -----------------------------
(* Instance for TLC: two requests at a time, two users, one of the external *)
(* ids an administrator's.                                                  *)
EXTENDS ApiServer, TLC

CONSTANTS r1, r2, u1, u2, admin, other
MCRequests == {r1, r2}
MCUsers == {u1, u2}
MCExternals == {admin, other}
MCAdminExternals == {admin}

Offline(routes) == [routes |-> routes, validator |-> FALSE]
Online(routes) == [routes |-> routes, validator |-> TRUE]

MCLoads == {
    Offline({"login", "opsHealth", "connect", "disconnect"}),
    Offline({"login", "link", "opsErrors", "connect"}),
    Offline({"createUser", "opsSwaps", "opsCommands", "session"}),
    Offline({"createUser", "opsParties", "healthDetailed", "userParties"}),
    Online({"metadata", "config", "me"}),
    Offline({"metadata", "quote", "respond"}),
    Offline({"accept", "reject", "deal", "cancel"}),
    Offline({"allocate", "parties", "primary", "describe"}),
    Offline({"user", "permissions", "holdings", "balances"})}

=============================================================================
