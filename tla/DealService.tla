------------------------------ MODULE DealService ------------------------------
(***************************************************************************)
(* The deal lifecycle service of                                           *)
(* packages/swap-engine/src/services/DealService.ts over the store of      *)
(* packages/swap-engine/src/persistence.                                   *)
(*                                                                         *)
(* A method of the service is asynchronous: each `await store.f(...)`      *)
(* hands control back, and other calls run before it resumes.  A call in   *)
(* flight occupies a slot; calls[s] holds the point at which it will       *)
(* resume and the locals it took from the store before the await.  One     *)
(* action is one stretch of code that ends with a store operation or with  *)
(* the return of the method, so a write may use a copy that is stale.      *)
(***************************************************************************)
EXTENDS DealStates, FiniteSets, Naturals

CONSTANTS
  Slots,              \* calls that can be in flight at the same time
  DealIds,            \* identifiers generateId("deal") returns, each once
  InstrIds,           \* identifiers generateId("si") returns, each once
  Terms,              \* what the two parties exchange: the legs of a deal
  UnsettleableTerms,  \* terms with an amount BigInt cannot parse
  Approvers,          \* the (legId, party) pairs approvals are recorded for
  CallerEvents,       \* the events callers pass to transition
  Verdicts,           \* the verdicts callers record for pre-settlement checks
  InstructableStates, \* the states in which callers ask for an instruction
  Subscribed,         \* the event types that have a handler
  Faults,             \* TRUE when store operations and handlers may throw
  None                \* null, undefined, or a missing key

ASSUME DealServiceAssumption ==
  /\ UnsettleableTerms \subseteq Terms
  /\ CallerEvents \subseteq DealEvent
  /\ Verdicts \subseteq BOOLEAN
  /\ InstructableStates \subseteq DealState
  /\ Faults \in BOOLEAN
  /\ None \notin DealIds \cup InstrIds \cup Terms \cup DealEvent

Deal == [state : DealState, terms : Terms,
         settlementInstructionId : InstrIds \cup {None}]

Instruction == [deal : DealIds, terms : Terms,
                checksPassed : BOOLEAN, approvalsComplete : BOOLEAN]

ApprovalStatus == {"pending", "approved", "rejected"}

\* The statuses that recordApproval of SwapEngine passes on.
RecordedStatus == {"approved", "rejected"}

ASSUME NoneIsNoRecord ==
  /\ None \notin Deal /\ None \notin Instruction
  /\ None \notin ApprovalStatus \cup DealState

(***************************************************************************)
(* Where a call resumes.  The part before the dash is the method.          *)
(***************************************************************************)
ResumePoint ==
  {"idle", "create-emit",
   "transition-write", "transition-emit",
   "check-write", "check-emit", "approval-emit",
   "instruct-checks", "instruct-approvals", "instruct-save",
   "instruct-update", "instruct-emit"}

Call == [at : ResumePoint,
         deal : DealIds \cup {None},      \* the dealId argument
         event : DealEvent \cup {None},   \* the event argument of transition
         copy : Deal \cup {None},         \* the result of `await getDeal`
         passed : BOOLEAN,                \* the check recorded, or all checks read
         complete : BOOLEAN,              \* all approvals read are approved
         instr : InstrIds \cup {None}]    \* the id of the instruction saved

NoCall == [at |-> "idle", deal |-> None, event |-> None, copy |-> None,
           passed |-> FALSE, complete |-> FALSE, instr |-> None]

VARIABLES
  deals,         \* Map<string, Deal> of the store
  checks,        \* verdicts recorded per deal: the list, seen as a set
  approvals,     \* approval status per deal and (legId, party)
  instructions,  \* Map<string, SettlementInstruction> of the store
  calls,         \* the call in flight in each slot
  announced,     \* state in the last deal_state_changed heard, per deal
  heard          \* the other events that reached a handler

store == <<deals, checks, approvals, instructions>>
listener == <<announced, heard>>
vars == <<store, calls, listener>>

TypeOK ==
  /\ deals \in [DealIds -> Deal \cup {None}]
  /\ checks \in [DealIds -> SUBSET BOOLEAN]
  /\ approvals \in [DealIds -> [Approvers -> ApprovalStatus \cup {None}]]
  /\ instructions \in [InstrIds -> Instruction \cup {None}]
  /\ calls \in [Slots -> Call]
  /\ announced \in [DealIds -> DealState \cup {None}]
  /\ heard \subseteq (Subscribed \X (DealIds \cup InstrIds))

Init ==
  /\ deals = [d \in DealIds |-> None]
  /\ checks = [d \in DealIds |-> {}]
  /\ approvals = [d \in DealIds |-> [a \in Approvers |-> None]]
  /\ instructions = [i \in InstrIds |-> None]
  /\ calls = [s \in Slots |-> NoCall]
  /\ announced = [d \in DealIds |-> None]
  /\ heard = {}

-------------------------------------------------------------------------------
(***************************************************************************)
(* The store.  Every save and update replaces the whole record.            *)
(***************************************************************************)

SaveDeal(d, deal) == deals' = [deals EXCEPT ![d] = deal]

UpdateDeal(d, deal) == deals' = [deals EXCEPT ![d] = deal]

\* The service asks of the list only whether it is empty and whether every
\* check in it passed, so the set of verdicts stands for the list.
SavePreSettlementCheck(d, passed) ==
  checks' = [checks EXCEPT ![d] = @ \cup {passed}]

\* One entry per (legId, party): a second approval replaces the first.
SaveLegApproval(d, a, status) ==
  approvals' = [approvals EXCEPT ![d][a] = status]

\* Seeded error: the instruction is built but never stored.
SaveSettlementInstruction_Lost(i, instruction) == UNCHANGED instructions

SaveSettlementInstruction(i, instruction) ==
  instructions' = [instructions EXCEPT ![i] = instruction]

ChecksPassed(verdicts) == verdicts = {TRUE}

ApprovalsComplete(status) ==
  LET recorded == {a \in Approvers : status[a] # None}
  IN  /\ Cardinality(recorded) >= 2
      /\ \A a \in recorded : status[a] = "approved"

-------------------------------------------------------------------------------
(***************************************************************************)
(* Control.                                                                *)
(***************************************************************************)

At(s, point) == calls[s].at = point

Await(s, call) == calls' = [calls EXCEPT ![s] = call]

Return(s) == Await(s, NoCall)

\* emit calls the handlers of the type at once; with no handler it does nothing.
Emit(type, id) ==
  heard' = IF type \in Subscribed THEN heard \cup {<<type, id>>} ELSE heard

EmitStateChanged(d, state) ==
  announced' = IF "deal_state_changed" \in Subscribed
               THEN [announced EXCEPT ![d] = state]
               ELSE announced

-------------------------------------------------------------------------------
(***************************************************************************)
(* createDealFromAcceptance                                                *)
(***************************************************************************)

CreateDeal(s, d, terms) ==
  /\ At(s, "idle")
  /\ deals[d] = None
  /\ SaveDeal(d, [state |-> "accepted", terms |-> terms,
                  settlementInstructionId |-> None])
  /\ Await(s, [NoCall EXCEPT !.at = "create-emit", !.deal = d])
  /\ UNCHANGED <<checks, approvals, instructions, listener>>

CreateDealEmit(s) ==
  /\ At(s, "create-emit")
  /\ EmitStateChanged(calls[s].deal, "accepted")
  /\ Return(s)
  /\ UNCHANGED <<store, heard>>

(***************************************************************************)
(* transition, and through it cancelDeal and expireDeal                    *)
(***************************************************************************)

TransitionRead(s, d, event) ==
  /\ At(s, "idle")
  /\ Await(s, [NoCall EXCEPT !.at = "transition-write", !.deal = d,
                             !.event = event, !.copy = deals[d]])
  /\ UNCHANGED <<store, listener>>

Admitted(call) ==
  /\ call.copy # None
  /\ CanTransition(call.copy.state, call.event)

TransitionReject(s) ==
  /\ At(s, "transition-write")
  /\ ~Admitted(calls[s])
  /\ Return(s)
  /\ UNCHANGED <<store, listener>>

\* Seeded error: the record is rebuilt without its settlementInstructionId.
TransitionWrite_LinkDropped(s) ==
  LET updated == [calls[s].copy EXCEPT !.state = GetTargetState(calls[s].event),
                                       !.settlementInstructionId = None]
  IN  /\ At(s, "transition-write")
      /\ Admitted(calls[s])
      /\ UpdateDeal(calls[s].deal, updated)
      /\ Await(s, [calls[s] EXCEPT !.at = "transition-emit", !.copy = updated])
      /\ UNCHANGED <<checks, approvals, instructions, listener>>

\* The record written is the copy read before the await, with a new state.
TransitionWrite(s) ==
  LET updated == [calls[s].copy EXCEPT !.state = GetTargetState(calls[s].event)]
  IN  /\ At(s, "transition-write")
      /\ Admitted(calls[s])
      /\ UpdateDeal(calls[s].deal, updated)
      /\ Await(s, [calls[s] EXCEPT !.at = "transition-emit", !.copy = updated])
      /\ UNCHANGED <<checks, approvals, instructions, listener>>

\* Seeded error: the confirmation is not announced.
FollowUp_Unconfirmed(event) ==
  CASE event = "cancel" -> "deal_cancelled"
    [] event = "expire" -> "deal_expired"
    [] OTHER            -> "none"

\* The event transition emits after deal_state_changed, if any.
FollowUp(event) ==
  CASE event = "cancel"               -> "deal_cancelled"
    [] event = "expire"               -> "deal_expired"
    [] event = "settlement_confirmed" -> "settlement_confirmed"
    [] OTHER                          -> "none"

TransitionEmit(s) ==
  /\ At(s, "transition-emit")
  /\ EmitStateChanged(calls[s].deal, calls[s].copy.state)
  /\ Emit(FollowUp(calls[s].event), calls[s].deal)
  /\ Return(s)
  /\ UNCHANGED store

(***************************************************************************)
(* recordPreSettlementCheck                                                *)
(***************************************************************************)

CheckRead(s, d, passed) ==
  /\ At(s, "idle")
  /\ Await(s, [NoCall EXCEPT !.at = "check-write", !.deal = d,
                             !.copy = deals[d], !.passed = passed])
  /\ UNCHANGED <<store, listener>>

CheckReject(s) ==
  /\ At(s, "check-write")
  /\ calls[s].copy = None
  /\ Return(s)
  /\ UNCHANGED <<store, listener>>

CheckWrite(s) ==
  /\ At(s, "check-write")
  /\ calls[s].copy # None
  /\ SavePreSettlementCheck(calls[s].deal, calls[s].passed)
  /\ Await(s, [NoCall EXCEPT !.at = "check-emit", !.deal = calls[s].deal])
  /\ UNCHANGED <<deals, approvals, instructions, listener>>

CheckEmit(s) ==
  /\ At(s, "check-emit")
  /\ Emit("pre_settlement_check", calls[s].deal)
  /\ Return(s)
  /\ UNCHANGED <<store, announced>>

(***************************************************************************)
(* recordLegApproval, which does not look whether the deal exists          *)
(***************************************************************************)

ApprovalWrite(s, d, a, status) ==
  /\ At(s, "idle")
  /\ SaveLegApproval(d, a, status)
  /\ Await(s, [NoCall EXCEPT !.at = "approval-emit", !.deal = d])
  /\ UNCHANGED <<deals, checks, instructions, listener>>

ApprovalEmit(s) ==
  /\ At(s, "approval-emit")
  /\ Emit("leg_approval", calls[s].deal)
  /\ Return(s)
  /\ UNCHANGED <<store, announced>>

(***************************************************************************)
(* createSettlementInstruction                                             *)
(***************************************************************************)

\* Bound: a call starts only if an identifier will be left for it.
RoomForInstruction ==
  Cardinality({i \in InstrIds : instructions[i] = None}) >
  Cardinality({s \in Slots : calls[s].at \in
                 {"instruct-checks", "instruct-approvals", "instruct-save"}})

InstructRead(s, d) ==
  /\ At(s, "idle")
  /\ RoomForInstruction
  /\ deals[d] # None => deals[d].state \in InstructableStates
  /\ Await(s, [NoCall EXCEPT !.at = "instruct-checks", !.deal = d,
                             !.copy = deals[d]])
  /\ UNCHANGED <<store, listener>>

InstructNotFound(s) ==
  /\ At(s, "instruct-checks")
  /\ calls[s].copy = None
  /\ Return(s)
  /\ UNCHANGED <<store, listener>>

InstructReadChecks(s) ==
  /\ At(s, "instruct-checks")
  /\ calls[s].copy # None
  /\ Await(s, [calls[s] EXCEPT !.at = "instruct-approvals",
                               !.passed = ChecksPassed(checks[calls[s].deal])])
  /\ UNCHANGED <<store, listener>>

\* Seeded error: the deal is updated before the instruction is saved.
InstructReadApprovals_UpdateFirst(s) ==
  /\ At(s, "instruct-approvals")
  /\ Await(s, [calls[s] EXCEPT !.at = "instruct-update"])
  /\ UNCHANGED <<store, listener>>

\* Seeded error: one approval is taken for all.
InstructReadApprovals_Some(s) ==
  /\ At(s, "instruct-approvals")
  /\ Await(s, [calls[s] EXCEPT
                 !.at = "instruct-save",
                 !.complete = \E a \in Approvers :
                                  approvals[calls[s].deal][a] = "approved"])
  /\ UNCHANGED <<store, listener>>

InstructReadApprovals(s) ==
  /\ At(s, "instruct-approvals")
  /\ Await(s, [calls[s] EXCEPT
                 !.at = "instruct-save",
                 !.complete = ApprovalsComplete(approvals[calls[s].deal])])
  /\ UNCHANGED <<store, listener>>

\* BigInt throws on the amount while the legs are being balanced.
InstructUnsettleable(s) ==
  /\ At(s, "instruct-save")
  /\ calls[s].copy.terms \in UnsettleableTerms
  /\ Return(s)
  /\ UNCHANGED <<store, listener>>

InstructSave(s, i) ==
  /\ At(s, "instruct-save")
  /\ calls[s].copy.terms \notin UnsettleableTerms
  /\ instructions[i] = None
  /\ SaveSettlementInstruction(i, [deal |-> calls[s].deal,
                                   terms |-> calls[s].copy.terms,
                                   checksPassed |-> calls[s].passed,
                                   approvalsComplete |-> calls[s].complete])
  /\ Await(s, [calls[s] EXCEPT !.at = "instruct-update", !.instr = i])
  /\ UNCHANGED <<deals, checks, approvals, listener>>

\* No guard on the state, and the copy is older than four awaits.
InstructUpdateDeal(s) ==
  /\ At(s, "instruct-update")
  /\ UpdateDeal(calls[s].deal,
                [calls[s].copy EXCEPT
                   !.settlementInstructionId = calls[s].instr,
                   !.state = "settlement_ready"])
  /\ Await(s, [calls[s] EXCEPT !.at = "instruct-emit"])
  /\ UNCHANGED <<checks, approvals, instructions, listener>>

InstructEmit(s) ==
  /\ At(s, "instruct-emit")
  /\ Emit("settlement_instruction_created", calls[s].instr)
  /\ Return(s)
  /\ UNCHANGED <<store, announced>>

-------------------------------------------------------------------------------
(***************************************************************************)
(* Failures: a store operation rejects, or a handler throws inside emit.   *)
(* The method rejects where it stands; what it wrote before stays written. *)
(***************************************************************************)

CallFails(s) ==
  /\ Faults
  /\ ~At(s, "idle")
  /\ Return(s)
  /\ UNCHANGED <<store, listener>>

\* A handler of deal_state_changed throws: the second emit is never reached.
HandlerThrows(s) ==
  /\ Faults
  /\ At(s, "transition-emit")
  /\ EmitStateChanged(calls[s].deal, calls[s].copy.state)
  /\ Return(s)
  /\ UNCHANGED <<store, heard>>

-------------------------------------------------------------------------------
Begin(s) ==
  \/ \E d \in DealIds, event \in CallerEvents : TransitionRead(s, d, event)
  \/ \E d \in DealIds, passed \in Verdicts : CheckRead(s, d, passed)
  \/ \E d \in DealIds, a \in Approvers, status \in RecordedStatus :
       ApprovalWrite(s, d, a, status)
  \/ \E d \in DealIds : InstructRead(s, d)

Resume(s) ==
  \/ CreateDealEmit(s)
  \/ TransitionReject(s) \/ TransitionWrite(s) \/ TransitionEmit(s)
  \/ CheckReject(s) \/ CheckWrite(s) \/ CheckEmit(s)
  \/ ApprovalEmit(s)
  \/ InstructNotFound(s) \/ InstructReadChecks(s) \/ InstructReadApprovals(s)
  \/ InstructUnsettleable(s) \/ (\E i \in InstrIds : InstructSave(s, i))
  \/ InstructUpdateDeal(s) \/ InstructEmit(s)

Fail(s) == CallFails(s) \/ HandlerThrows(s)

Create(s) == \E d \in DealIds, terms \in Terms : CreateDeal(s, d, terms)

Next == \E s \in Slots : Create(s) \/ Begin(s) \/ Resume(s) \/ Fail(s)

Spec == Init /\ [][Next]_vars

(***************************************************************************)
(* Once its store operation has settled, the runtime resumes an async      *)
(* function; nothing in the service waits for another call.                *)
(***************************************************************************)
FairSpec == Spec /\ \A s \in Slots : WF_vars(Resume(s))

-------------------------------------------------------------------------------
(***************************************************************************)
(* Safety.                                                                 *)
(***************************************************************************)

\* Once a deal is saved it stays saved and its terms never change, although
\* transition and createSettlementInstruction write the whole record back from
\* a copy that other calls may have outdated.
DealTermsFixed ==
  [][\A d \in DealIds : deals[d] # None =>
       /\ deals'[d] # None
       /\ deals'[d].terms = deals[d].terms]_vars

\* Every settlement instruction belongs to a stored deal and carries the legs of
\* that deal, although it is built from a copy read three awaits earlier.
InstructionMatchesDeal ==
  \A i \in InstrIds : instructions[i] # None =>
    /\ deals[instructions[i].deal] # None
    /\ deals[instructions[i].deal].terms = instructions[i].terms

\* The settlementInstructionId of a deal, when it has one, is the key of an
\* instruction of that same deal: updateDeal never runs ahead of
\* saveSettlementInstruction, and no stale copy carries another deal's id.
InstructionLinkResolves ==
  \A d \in DealIds :
    (deals[d] # None /\ deals[d].settlementInstructionId # None) =>
      LET i == deals[d].settlementInstructionId
      IN  /\ instructions[i] # None
          /\ instructions[i].deal = d

\* When callers never pass approvals_complete (the methods of SwapEngine do not),
\* a deal that is ready for settlement or settled names its instruction: no
\* stale write-back makes a deal settled that nothing was instructed for.
ReadyHasInstruction ==
  \A d \in DealIds :
    (/\ "approvals_complete" \notin CallerEvents
     /\ deals[d] # None
     /\ deals[d].state \in {"settlement_ready", "settled"}) =>
    deals[d].settlementInstructionId # None

\* An instruction is marked checksPassed only for a deal that passed a check, and
\* approvalsComplete only for one with entries of two approvers, although the
\* lists are read at two awaits and the flags are written at a third, while other
\* calls record checks and replace approvals.
FlagsEarned ==
  \A i \in InstrIds : instructions[i] # None =>
    LET d == instructions[i].deal
    IN  /\ instructions[i].checksPassed => TRUE \in checks[d]
        /\ instructions[i].approvalsComplete =>
             \E a, b \in Approvers : /\ a # b
                                     /\ approvals[d][a] # None
                                     /\ approvals[d][b] # None

\* A handler is told of an instruction only when the store holds it, and of a
\* confirmed settlement only when the store holds an instruction for that deal
\* (with callers that never pass approvals_complete).
HeardIsBacked ==
  /\ \A i \in InstrIds :
       <<"settlement_instruction_created", i>> \in heard => instructions[i] # None
  /\ \A d \in DealIds :
       (/\ "approvals_complete" \notin CallerEvents
        /\ <<"settlement_confirmed", d>> \in heard) =>
       \E i \in InstrIds : instructions[i] # None /\ instructions[i].deal = d

(***************************************************************************)
(* Why they hold: an invariant about the copies in flight.  A copy may be  *)
(* outdated, but never in its terms, never in a link that does not         *)
(* resolve, and never in a readiness that nothing backs; and what is       *)
(* written back is such a copy.  ds and is are the maps of deals and of    *)
(* instructions.                                                           *)
(***************************************************************************)

LinkOf(deal) == deal.settlementInstructionId

IssuedFor(i, d, is) == i \in InstrIds /\ is[i] # None /\ is[i].deal = d

Backed(deal, d, is) ==
  /\ LinkOf(deal) # None => IssuedFor(LinkOf(deal), d, is)
  /\ (/\ "approvals_complete" \notin CallerEvents
      /\ deal.state \in {"settlement_ready", "settled"}) => LinkOf(deal) # None

CopyAgrees(call, ds, is) ==
  call.copy # None =>
    /\ call.deal \in DealIds
    /\ ds[call.deal] # None
    /\ ds[call.deal].terms = call.copy.terms
    /\ Backed(call.copy, call.deal, is)

CallAgrees(call, ds, is) ==
  /\ call.at # "idle" => call.deal \in DealIds
  /\ CopyAgrees(call, ds, is)
  /\ call.at \in {"transition-write", "transition-emit"} => call.event \in CallerEvents
  /\ call.at \in {"transition-emit", "instruct-approvals", "instruct-save",
                  "instruct-update", "instruct-emit"} => call.copy # None
  /\ call.at = "transition-emit" => call.copy.state = GetTargetState(call.event)
  /\ call.at \in {"instruct-update", "instruct-emit"} =>
       IssuedFor(call.instr, call.deal, is)

\* Inductive: every stored deal is backed, every call in flight agrees with the
\* store, instructions match their deals and handlers heard only what is backed.
DealInv ==
  /\ TypeOK
  /\ InstructionMatchesDeal
  /\ \A d \in DealIds : deals[d] # None => Backed(deals[d], d, instructions)
  /\ \A s \in Slots : CallAgrees(calls[s], deals, instructions)
  /\ HeardIsBacked

(***************************************************************************)
(* What the documentation says and a single call already breaks.           *)
(***************************************************************************)

\* A deal in a terminal state never changes state again.
TerminalIsFinal ==
  [][\A d \in DealIds :
       (deals[d] # None /\ deals[d].state \in TERMINAL_STATES) =>
       deals'[d].state = deals[d].state]_vars

(***************************************************************************)
(* Liveness, without failures.                                             *)
(***************************************************************************)

\* A deal that reached settled is, in the end, confirmed to the handlers.
SettledReachesHandler ==
  \A d \in DealIds :
    (deals[d] # None /\ deals[d].state = "settled") ~>
      <<"settlement_confirmed", d>> \in heard

(***************************************************************************)
(* The abstract specification the service implements.                      *)
(***************************************************************************)

PhaseOf(deal) ==
  IF deal = None THEN "none"
  ELSE CASE deal.state = "settlement_ready" -> "ready"
         [] deal.state = "settled"          -> "settled"
         [] deal.state \in {"cancelled", "expired"} -> "closed"
         [] OTHER                           -> "open"

TermsOf(deal) == IF deal = None THEN None ELSE deal.terms

Commitments == INSTANCE DealCommitments WITH
  terms  <- [d \in DealIds |-> TermsOf(deals[d])],
  issued <- [d \in DealIds |->
               {instructions[i].terms : i \in
                  {j \in InstrIds : instructions[j] # None /\ instructions[j].deal = d}}],
  phase  <- [d \in DealIds |-> PhaseOf(deals[d])]

\* However calls interleave and fail, the service keeps the promises of
\* DealCommitments (with callers that never pass approvals_complete).
KeepsCommitments == Commitments!Spec

===============================================================================
