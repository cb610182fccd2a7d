---------------------------- MODULE MCLedgerClient ----------------------------
(* Instance for TLC: a refused duplicate, a client error, a server error, and *)
(* the three statuses of DEFAULT_RETRYABLE_STATUSES.                          *)
EXTENDS LedgerClient

LedgerStatuses == {409, 400, 500, 429, 503, 504}

===============================================================================
