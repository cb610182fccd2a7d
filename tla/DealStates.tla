------------------------------ MODULE DealStates ------------------------------
(***************************************************************************)
(* The deal state machine tables of                                        *)
(* packages/swap-engine/src/domain/state-machine.ts: which events a deal   *)
(* state admits and which state an event leads to.                         *)
(***************************************************************************)

DealState == {"quote_requested", "quote_responded", "accepted", "rejected",
              "pre_settlement", "approvals_pending", "settlement_ready",
              "settled", "cancelled", "expired"}

DealEvent == {"quote_received", "accepted", "rejected", "pre_checks_passed",
              "pre_checks_failed", "approvals_complete",
              "settlement_submitted", "settlement_confirmed",
              "cancel", "expire"}

STATE_TRANSITIONS ==
  [quote_requested   |-> {"quote_received", "cancel", "expire"},
   quote_responded   |-> {"accepted", "rejected", "cancel", "expire"},
   accepted          |-> {"pre_checks_passed", "pre_checks_failed", "cancel", "expire"},
   rejected          |-> {},
   pre_settlement    |-> {"pre_checks_passed", "pre_checks_failed", "cancel", "expire"},
   approvals_pending |-> {"approvals_complete", "cancel", "expire"},
   settlement_ready  |-> {"settlement_submitted", "settlement_confirmed", "cancel", "expire"},
   settled           |-> {},
   cancelled         |-> {},
   expired           |-> {}]

EVENT_TO_STATE ==
  [quote_received       |-> "quote_responded",
   accepted             |-> "accepted",
   rejected             |-> "rejected",
   pre_checks_passed    |-> "approvals_pending",
   pre_checks_failed    |-> "cancelled",
   approvals_complete   |-> "settlement_ready",
   settlement_submitted |-> "settlement_ready",
   settlement_confirmed |-> "settled",
   cancel               |-> "cancelled",
   expire               |-> "expired"]

TERMINAL_STATES == {"rejected", "settled", "cancelled", "expired"}

\* Seeded error: any event moves a deal that is not over.
CanTransition_NotOver(from, event) == from \notin TERMINAL_STATES

CanTransition(from, event) == event \in STATE_TRANSITIONS[from]

GetTargetState(event) == EVENT_TO_STATE[event]

===============================================================================
