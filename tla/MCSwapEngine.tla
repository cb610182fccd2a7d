------------------------------ MODULE MCSwapEngine ------------------------------
(***************************************************************************)
(* Instances of SwapEngine for TLC.                                        *)
(***************************************************************************)
EXTENDS SwapEngine, TLC

CONSTANTS s1, s2, p1, p2, g1, g2, q1, r1, r2, x1, x2, d1, d2, i1

OneSlot == {s1}

TwoSlots == {s1, s2}

States == INSTANCE DealStates

LiveStates == States!DealState \ States!TERMINAL_STATES

ConfirmOnly == {"settlement_confirmed"}

ConfirmOrCancel == {"cancel", "settlement_confirmed"}

NothingHeard == {}

AcceptedHeard == {"quote_accepted", "deal_state_changed"}

InstructionHeard == {"settlement_confirmed", "settlement_instruction_created"}

Symmetry ==
  UNION {Permutations(S) : S \in
    {Slots, Parties, Goods, ResponseIds, DecisionIds, DealIds}}

===============================================================================
