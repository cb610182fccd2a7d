----------------------------- MODULE MCPartyIdentity -----------------------------
(***************************************************************************)
(* Instances of PartyIdentity for TLC.                                     *)
(***************************************************************************)
EXTENDS PartyIdentity, TLC

CONSTANTS s1, s2, u1, u2, x1, p1, p2, k1, w1, w2

TwoSlots == {s1, s2}

\* The identifiers of each kind are interchangeable.
Symmetry ==
  UNION {Permutations(S) : S \in {Slots, UserIds, PartyIds, Keys, WalletIds}}

===============================================================================
