--------------------------- MODULE MCWalletSession ---------------------------
(* Instance for TLC: two components, both kinds of adapter.                *)
EXTENDS WalletSession

CONSTANTS c1, c2
MCComponents == {c1, c2}
MCAdapters == {"mock", "stub"}

=============================================================================
