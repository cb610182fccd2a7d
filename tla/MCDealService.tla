----------------------------- MODULE MCDealService -----------------------------
(***************************************************************************)
(* Instances of DealService for TLC.                                       *)
(***************************************************************************)
EXTENDS DealService, TLC

CONSTANTS s1, s2, d1, i1, i2, a1, a2, t1, bad

OneSlot == {s1}
TwoSlots == {s1, s2}

\* The events the methods of SwapEngine pass to transition.
EngineEvents == {"cancel", "expire", "settlement_confirmed"}

\* Without expire, which moves a deal as cancel does.
ConfirmOrCancel == {"cancel", "settlement_confirmed"}

AllStates == DealState

NothingHeard == {}

HeardEvents == {"settlement_confirmed", "settlement_instruction_created"}

\* Slots are interchangeable, and so are approvers and
\* the identifiers of instructions.
Symmetry ==
  Permutations(Slots) \cup Permutations(Approvers) \cup Permutations(InstrIds)

===============================================================================
