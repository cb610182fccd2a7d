--------------------------- MODULE DealService_proofs ---------------------------
(***************************************************************************)
(* Proofs about DealService, for every number of slots, deals,             *)
(* instructions, terms and approvers, with or without failures.            *)
(***************************************************************************)
EXTENDS DealService, FiniteSetTheorems, TLAPS

-------------------------------------------------------------------------------
(***************************************************************************)
(* The tables.                                                             *)
(***************************************************************************)

\* Every event leads to a state of the machine.
LEMMA TargetIsState ==
  ASSUME NEW event \in DealEvent
  PROVE  GetTargetState(event) \in DealState
  BY DEF GetTargetState, EVENT_TO_STATE, DealEvent, DealState

\* Without approvals_complete, only a deal that is ready becomes or stays ready
\* or settled by an event.
LEMMA ReadyFromReady ==
  ASSUME NEW state \in DealState, NEW event \in DealEvent,
         CanTransition(state, event),
         event # "approvals_complete",
         GetTargetState(event) \in {"settlement_ready", "settled"}
  PROVE  state = "settlement_ready"
  BY DEF CanTransition, GetTargetState, STATE_TRANSITIONS, EVENT_TO_STATE,
         DealEvent, DealState

-------------------------------------------------------------------------------
(***************************************************************************)
(* Type correctness.                                                       *)
(***************************************************************************)

LEMMA EmitType ==
  ASSUME TypeOK, NEW type, NEW id \in DealIds \cup InstrIds, Emit(type, id)
  PROVE  heard' \subseteq (Subscribed \X (DealIds \cup InstrIds))
  BY DEF TypeOK, Emit

LEMMA EmitStateChangedType ==
  ASSUME TypeOK, NEW d \in DealIds, NEW state \in DealState, EmitStateChanged(d, state)
  PROVE  announced' \in [DealIds -> DealState \cup {None}]
  BY DEF TypeOK, EmitStateChanged

LEMMA AwaitType ==
  ASSUME TypeOK, NEW s \in Slots, NEW call \in Call, Await(s, call)
  PROVE  calls' \in [Slots -> Call]
  BY DEF TypeOK, Await

LEMMA NoCallType == NoCall \in Call
  BY DEF NoCall, Call, ResumePoint

LEMMA ReturnType ==
  ASSUME TypeOK, NEW s \in Slots, Return(s)
  PROVE  calls' \in [Slots -> Call]
  BY NoCallType, AwaitType DEF Return

LEMMA InitType == Init => TypeOK
  BY NoCallType DEF Init, TypeOK

LEMMA CreateDealType ==
  ASSUME TypeOK, NEW s \in Slots, NEW d \in DealIds, NEW terms \in Terms,
         CreateDeal(s, d, terms)
  PROVE  TypeOK'
  <1>1. [state |-> "accepted", terms |-> terms, settlementInstructionId |-> None] \in Deal
    BY DEF Deal, DealState
  <1>2. [NoCall EXCEPT !.at = "create-emit", !.deal = d] \in Call
    BY DEF NoCall, Call, ResumePoint
  <1>3. calls' \in [Slots -> Call]
    BY <1>2, AwaitType DEF CreateDeal
  <1>4. QED
    BY <1>1, <1>3 DEF CreateDeal, SaveDeal, TypeOK, listener

LEMMA BeginType ==
  ASSUME TypeOK, NEW s \in Slots, Begin(s)
  PROVE  TypeOK'
  <1>1. ASSUME NEW d \in DealIds, NEW event \in CallerEvents, TransitionRead(s, d, event)
        PROVE  TypeOK'
    <2>1. [NoCall EXCEPT !.at = "transition-write", !.deal = d,
                         !.event = event, !.copy = deals[d]] \in Call
      BY <1>1, DealServiceAssumption DEF NoCall, Call, ResumePoint, TypeOK
    <2>2. calls' \in [Slots -> Call]
      BY <1>1, <2>1, AwaitType DEF TransitionRead
    <2>3. QED
      BY <1>1, <2>2 DEF TransitionRead, TypeOK, store, listener
  <1>2. ASSUME NEW d \in DealIds, NEW passed \in Verdicts, CheckRead(s, d, passed)
        PROVE  TypeOK'
    <2>1. [NoCall EXCEPT !.at = "check-write", !.deal = d,
                         !.copy = deals[d], !.passed = passed] \in Call
      BY <1>2, DealServiceAssumption DEF NoCall, Call, ResumePoint, TypeOK
    <2>2. calls' \in [Slots -> Call]
      BY <1>2, <2>1, AwaitType DEF CheckRead
    <2>3. QED
      BY <1>2, <2>2 DEF CheckRead, TypeOK, store, listener
  <1>3. ASSUME NEW d \in DealIds, NEW a \in Approvers, NEW status \in RecordedStatus,
               ApprovalWrite(s, d, a, status)
        PROVE  TypeOK'
    <2>1. [NoCall EXCEPT !.at = "approval-emit", !.deal = d] \in Call
      BY DEF NoCall, Call, ResumePoint
    <2>2. calls' \in [Slots -> Call]
      BY <1>3, <2>1, AwaitType DEF ApprovalWrite
    <2>3. approvals' \in [DealIds -> [Approvers -> ApprovalStatus \cup {None}]]
      <3>1. status \in ApprovalStatus
        BY DEF RecordedStatus, ApprovalStatus
      <3>2. QED
        BY <1>3, <3>1 DEF ApprovalWrite, SaveLegApproval, TypeOK
    <2>4. QED
      BY <1>3, <2>2, <2>3 DEF ApprovalWrite, TypeOK, listener
  <1>4. ASSUME NEW d \in DealIds, InstructRead(s, d)
        PROVE  TypeOK'
    <2>1. [NoCall EXCEPT !.at = "instruct-checks", !.deal = d, !.copy = deals[d]] \in Call
      BY DEF NoCall, Call, ResumePoint, TypeOK
    <2>2. calls' \in [Slots -> Call]
      BY <1>4, <2>1, AwaitType DEF InstructRead
    <2>3. QED
      BY <1>4, <2>2 DEF InstructRead, TypeOK, store, listener
  <1>5. QED
    BY <1>1, <1>2, <1>3, <1>4 DEF Begin

\* TypeOK alone is not inductive: that a call resumed after a read has a deal at
\* hand is part of DealInv.
LEMMA ResumeType ==
  ASSUME DealInv, NEW s \in Slots, Resume(s)
  PROVE  TypeOK'
  <1> DEFINE c == calls[s]
  <1>1. /\ TypeOK
        /\ c \in Call
        /\ CallAgrees(c, deals, instructions)
    BY DEF DealInv, TypeOK
  <1>2. c.at # "idle" => c.deal \in DealIds
    BY <1>1 DEF CallAgrees
  <1>3. c.at = "transition-emit" => c.copy.state \in DealState
    BY <1>1 DEF CallAgrees, Call, Deal
  <1>4. CASE CreateDealEmit(s)
    <2>1. announced' \in [DealIds -> DealState \cup {None}]
      BY <1>1, <1>2, <1>4, EmitStateChangedType DEF CreateDealEmit, At, DealState
    <2>2. calls' \in [Slots -> Call]
      BY <1>1, <1>4, ReturnType DEF CreateDealEmit
    <2>3. QED
      BY <1>1, <1>4, <2>1, <2>2 DEF CreateDealEmit, TypeOK, store
  <1>5. CASE TransitionReject(s) \/ CheckReject(s) \/ InstructNotFound(s) \/ InstructUnsettleable(s)
    <2>1. Return(s) /\ UNCHANGED <<store, listener>>
      BY <1>5 DEF TransitionReject, CheckReject, InstructNotFound, InstructUnsettleable
    <2>2. calls' \in [Slots -> Call]
      BY <1>1, <2>1, ReturnType
    <2>3. QED
      BY <1>1, <2>1, <2>2 DEF TypeOK, store, listener
  <1>6. CASE TransitionWrite(s)
    <2> DEFINE updated == [c.copy EXCEPT !.state = GetTargetState(c.event)]
    <2>1. /\ c.deal \in DealIds
          /\ c.event \in DealEvent
          /\ c.copy \in Deal
      BY <1>1, <1>2, <1>6, DealServiceAssumption
      DEF TransitionWrite, At, Admitted, Call, CallAgrees
    <2>2. updated \in Deal
      BY <2>1, TargetIsState DEF Deal
    <2>3. [c EXCEPT !.at = "transition-emit", !.copy = updated] \in Call
      BY <1>1, <2>2 DEF Call, ResumePoint
    <2>4. calls' \in [Slots -> Call]
      BY <1>1, <1>6, <2>3, AwaitType DEF TransitionWrite
    <2>5. QED
      BY <1>1, <1>6, <2>1, <2>2, <2>4 DEF TransitionWrite, UpdateDeal, TypeOK, listener
  <1>7. CASE TransitionEmit(s)
    <2>1. c.deal \in DealIds /\ c.copy.state \in DealState
      BY <1>2, <1>3, <1>7 DEF TransitionEmit, At
    <2>2. announced' \in [DealIds -> DealState \cup {None}]
      BY <1>1, <1>7, <2>1, EmitStateChangedType DEF TransitionEmit
    <2>3. heard' \subseteq (Subscribed \X (DealIds \cup InstrIds))
      BY <1>1, <1>7, <2>1, EmitType DEF TransitionEmit
    <2>4. calls' \in [Slots -> Call]
      BY <1>1, <1>7, ReturnType DEF TransitionEmit
    <2>5. QED
      BY <1>1, <1>7, <2>2, <2>3, <2>4 DEF TransitionEmit, TypeOK, store
  <1>8. CASE CheckWrite(s)
    <2>1. c.deal \in DealIds /\ c.passed \in BOOLEAN
      BY <1>1, <1>2, <1>8 DEF CheckWrite, At, Call
    <2>2. [NoCall EXCEPT !.at = "check-emit", !.deal = c.deal] \in Call
      BY <2>1 DEF NoCall, Call, ResumePoint
    <2>3. calls' \in [Slots -> Call]
      BY <1>1, <1>8, <2>2, AwaitType DEF CheckWrite
    <2>4. checks' \in [DealIds -> SUBSET BOOLEAN]
      BY <1>1, <1>8, <2>1 DEF CheckWrite, SavePreSettlementCheck, TypeOK
    <2>5. QED
      BY <1>1, <1>8, <2>3, <2>4 DEF CheckWrite, TypeOK, listener
  <1>9. CASE CheckEmit(s) \/ ApprovalEmit(s)
    <2>1. /\ c.deal \in DealIds
          /\ Return(s)
          /\ UNCHANGED <<store, announced>>
      BY <1>2, <1>9 DEF CheckEmit, ApprovalEmit, At
    <2>2. heard' \subseteq (Subscribed \X (DealIds \cup InstrIds))
      BY <1>1, <1>9, <2>1, EmitType DEF CheckEmit, ApprovalEmit
    <2>3. calls' \in [Slots -> Call]
      BY <1>1, <2>1, ReturnType
    <2>4. QED
      BY <1>1, <2>1, <2>2, <2>3 DEF TypeOK, store
  <1>10. CASE InstructReadChecks(s)
    <2>1. [c EXCEPT !.at = "instruct-approvals",
                    !.passed = ChecksPassed(checks[c.deal])] \in Call
      BY <1>1 DEF Call, ResumePoint, ChecksPassed
    <2>2. calls' \in [Slots -> Call]
      BY <1>1, <1>10, <2>1, AwaitType DEF InstructReadChecks
    <2>3. QED
      BY <1>1, <1>10, <2>2 DEF InstructReadChecks, TypeOK, store, listener
  <1>11. CASE InstructReadApprovals(s)
    <2>1. ApprovalsComplete(approvals[c.deal]) \in BOOLEAN
      BY DEF ApprovalsComplete
    <2>2. [c EXCEPT !.at = "instruct-save",
                    !.complete = ApprovalsComplete(approvals[c.deal])] \in Call
      BY <1>1, <2>1 DEF Call, ResumePoint
    <2>3. calls' \in [Slots -> Call]
      BY <1>1, <1>11, <2>2, AwaitType DEF InstructReadApprovals
    <2>4. QED
      BY <1>1, <1>11, <2>3 DEF InstructReadApprovals, TypeOK, store, listener
  <1>12. ASSUME NEW i \in InstrIds, InstructSave(s, i)
         PROVE  TypeOK'
    <2>1. c.deal \in DealIds /\ c.copy \in Deal
      BY <1>1, <1>2, <1>12 DEF InstructSave, At, CallAgrees, Call
    <2>2. [deal |-> c.deal, terms |-> c.copy.terms, checksPassed |-> c.passed,
           approvalsComplete |-> c.complete] \in Instruction
      BY <1>1, <2>1 DEF Instruction, Call, Deal
    <2>3. [c EXCEPT !.at = "instruct-update", !.instr = i] \in Call
      BY <1>1 DEF Call, ResumePoint
    <2>4. calls' \in [Slots -> Call]
      BY <1>1, <1>12, <2>3, AwaitType DEF InstructSave
    <2>5. QED
      BY <1>1, <1>12, <2>2, <2>4
      DEF InstructSave, SaveSettlementInstruction, TypeOK, listener
  <1>13. CASE InstructUpdateDeal(s)
    <2>1. c.deal \in DealIds /\ c.copy \in Deal /\ c.instr \in InstrIds
      BY <1>1, <1>2, <1>13 DEF InstructUpdateDeal, At, CallAgrees, Call, IssuedFor
    <2>2. [c.copy EXCEPT !.settlementInstructionId = c.instr,
                         !.state = "settlement_ready"] \in Deal
      BY <2>1 DEF Deal, DealState
    <2>3. [c EXCEPT !.at = "instruct-emit"] \in Call
      BY <1>1 DEF Call, ResumePoint
    <2>4. calls' \in [Slots -> Call]
      BY <1>1, <1>13, <2>3, AwaitType DEF InstructUpdateDeal
    <2>5. QED
      BY <1>1, <1>13, <2>1, <2>2, <2>4 DEF InstructUpdateDeal, UpdateDeal, TypeOK, listener
  <1>14. CASE InstructEmit(s)
    <2>1. c.instr \in InstrIds
      BY <1>1, <1>14 DEF InstructEmit, At, CallAgrees, IssuedFor
    <2>2. heard' \subseteq (Subscribed \X (DealIds \cup InstrIds))
      BY <1>1, <1>14, <2>1, EmitType DEF InstructEmit
    <2>3. calls' \in [Slots -> Call]
      BY <1>1, <1>14, ReturnType DEF InstructEmit
    <2>4. QED
      BY <1>1, <1>14, <2>2, <2>3 DEF InstructEmit, TypeOK, store
  <1>15. QED
    BY <1>4, <1>5, <1>6, <1>7, <1>8, <1>9, <1>10, <1>11, <1>12, <1>13, <1>14 DEF Resume

LEMMA FailType ==
  ASSUME DealInv, NEW s \in Slots, Fail(s)
  PROVE  TypeOK'
  <1> DEFINE c == calls[s]
  <1>1. /\ TypeOK
        /\ c \in Call
        /\ CallAgrees(c, deals, instructions)
    BY DEF DealInv, TypeOK
  <1>2. calls' \in [Slots -> Call]
    BY <1>1, ReturnType DEF Fail, CallFails, HandlerThrows
  <1>3. CASE CallFails(s)
    BY <1>1, <1>2, <1>3 DEF CallFails, TypeOK, store, listener
  <1>4. CASE HandlerThrows(s)
    <2>1. c.deal \in DealIds /\ c.copy.state \in DealState
      BY <1>1, <1>4 DEF HandlerThrows, At, CallAgrees, Call, Deal
    <2>2. announced' \in [DealIds -> DealState \cup {None}]
      BY <1>1, <1>4, <2>1, EmitStateChangedType DEF HandlerThrows
    <2>3. QED
      BY <1>1, <1>2, <1>4, <2>2 DEF HandlerThrows, TypeOK, store
  <1>5. QED
    BY <1>3, <1>4 DEF Fail

-------------------------------------------------------------------------------
(***************************************************************************)
(* The store only grows: a step never removes a deal, changes its terms or *)
(* touches an instruction.  What DealInv says of a call or of a stored     *)
(* deal survives growth.                                                   *)
(***************************************************************************)

Grows(ds, is, newDs, newIs) ==
  /\ \A d \in DealIds : ds[d] # None => newDs[d] # None /\ newDs[d].terms = ds[d].terms
  /\ \A i \in InstrIds : is[i] # None => newIs[i] = is[i]

LEMMA BackedGrows ==
  ASSUME NEW deal, NEW d, NEW ds, NEW is, NEW newDs, NEW newIs,
         Grows(ds, is, newDs, newIs), Backed(deal, d, is)
  PROVE  Backed(deal, d, newIs)
  BY DEF Grows, Backed, IssuedFor

LEMMA CallAgreesGrows ==
  ASSUME NEW call, NEW ds, NEW is, NEW newDs, NEW newIs,
         Grows(ds, is, newDs, newIs), CallAgrees(call, ds, is)
  PROVE  CallAgrees(call, newDs, newIs)
  <1>1. CopyAgrees(call, newDs, newIs)
    <2> SUFFICES ASSUME call.copy # None
                 PROVE  /\ call.deal \in DealIds
                        /\ newDs[call.deal] # None
                        /\ newDs[call.deal].terms = call.copy.terms
                        /\ Backed(call.copy, call.deal, newIs)
      BY DEF CopyAgrees
    <2>1. call.deal \in DealIds
      BY DEF CallAgrees, CopyAgrees
    <2>2. /\ ds[call.deal] # None
          /\ ds[call.deal].terms = call.copy.terms
          /\ Backed(call.copy, call.deal, is)
      BY DEF CallAgrees, CopyAgrees
    <2>3. QED
      BY <2>1, <2>2, BackedGrows DEF Grows
  <1>2. call.at \in {"instruct-update", "instruct-emit"} =>
          IssuedFor(call.instr, call.deal, newIs)
    BY DEF CallAgrees, Grows, IssuedFor
  <1>3. QED
    BY <1>1, <1>2 DEF CallAgrees

\* The step of slot s leaves every other call as it was.
LEMMA OthersAgree ==
  ASSUME DealInv, NEW s \in Slots, NEW call, Await(s, call),
         Grows(deals, instructions, deals', instructions'),
         CallAgrees(call, deals', instructions')
  PROVE  \A t \in Slots : CallAgrees(calls'[t], deals', instructions')
  <1> SUFFICES ASSUME NEW t \in Slots
               PROVE  CallAgrees(calls'[t], deals', instructions')
    OBVIOUS
  <1>1. calls \in [Slots -> Call]
    BY DEF DealInv, TypeOK
  <1>2. CASE t = s
    BY <1>1, <1>2 DEF Await
  <1>3. CASE t # s
    <2>1. calls'[t] = calls[t] /\ CallAgrees(calls[t], deals, instructions)
      BY <1>1, <1>3 DEF Await, DealInv
    <2>2. QED
      BY <2>1, CallAgreesGrows
  <1>4. QED
    BY <1>2, <1>3

LEMMA NoCallAgrees ==
  ASSUME NEW ds, NEW is
  PROVE  CallAgrees(NoCall, ds, is)
  BY DEF NoCall, CallAgrees, CopyAgrees

\* What is left of DealInv once the deals are unchanged and no instruction is added.
LEMMA StoreKept ==
  ASSUME DealInv, TypeOK', UNCHANGED <<deals, instructions>>
  PROVE  /\ Grows(deals, instructions, deals', instructions')
         /\ InstructionMatchesDeal'
         /\ \A d \in DealIds : deals'[d] # None => Backed(deals'[d], d, instructions')
  BY DEF DealInv, InstructionMatchesDeal, Grows

-------------------------------------------------------------------------------
(***************************************************************************)
(* DealInv is inductive.                                                   *)
(***************************************************************************)

LEMMA InitInv == Init => DealInv
  <1> SUFFICES ASSUME Init
               PROVE  DealInv
    OBVIOUS
  <1>1. TypeOK
    BY InitType
  <1>2. \A s \in Slots : CallAgrees(calls[s], deals, instructions)
    BY NoCallAgrees DEF Init
  <1>3. QED
    BY <1>1, <1>2 DEF Init, DealInv, InstructionMatchesDeal, HeardIsBacked

\* Steps that only read the store, or add a check or an approval to it.
LEMMA QuietStepInv ==
  ASSUME DealInv, TypeOK', NEW s \in Slots, NEW call, Await(s, call),
         CallAgrees(call, deals, instructions),
         UNCHANGED <<deals, instructions, heard>>
  PROVE  DealInv'
  <1>1. /\ Grows(deals, instructions, deals', instructions')
        /\ InstructionMatchesDeal'
        /\ \A d \in DealIds : deals'[d] # None => Backed(deals'[d], d, instructions')
    BY StoreKept
  <1>2. CallAgrees(call, deals', instructions')
    OBVIOUS
  <1>3. \A t \in Slots : CallAgrees(calls'[t], deals', instructions')
    BY <1>1, <1>2, OthersAgree
  <1>4. HeardIsBacked'
    BY DEF DealInv, HeardIsBacked
  <1>5. QED
    BY <1>1, <1>3, <1>4 DEF DealInv

\* Steps that end a call and may tell a handler of it.
LEMMA EmitStepInv ==
  ASSUME DealInv, TypeOK', NEW s \in Slots, Return(s), UNCHANGED <<deals, instructions>>,
         HeardIsBacked'
  PROVE  DealInv'
  <1>1. /\ Grows(deals, instructions, deals', instructions')
        /\ InstructionMatchesDeal'
        /\ \A d \in DealIds : deals'[d] # None => Backed(deals'[d], d, instructions')
    BY StoreKept
  <1>2. \A t \in Slots : CallAgrees(calls'[t], deals', instructions')
    BY <1>1, NoCallAgrees, OthersAgree DEF Return
  <1>3. QED
    BY <1>1, <1>2 DEF DealInv

\* Steps that replace the record of one deal: the new record keeps the terms of
\* the old one, if there is one, and is backed.
LEMMA UpdateStepInv ==
  ASSUME DealInv, TypeOK', NEW s \in Slots, NEW d \in DealIds, NEW deal \in Deal,
         NEW call, Await(s, call), UpdateDeal(d, deal),
         UNCHANGED <<instructions, heard>>,
         deals[d] # None => deals[d].terms = deal.terms,
         Backed(deal, d, instructions),
         CallAgrees(call, deals', instructions)
  PROVE  DealInv'
  <1>1. deals \in [DealIds -> Deal \cup {None}] /\ deal # None
    BY NoneIsNoRecord DEF DealInv, TypeOK
  <1>2. deals' = [deals EXCEPT ![d] = deal]
    BY DEF UpdateDeal
  <1>3. Grows(deals, instructions, deals', instructions')
    BY <1>1, <1>2 DEF Grows
  <1>4. InstructionMatchesDeal'
    <2>1. \A i \in InstrIds : instructions[i] # None => instructions[i].deal \in DealIds
      BY DEF DealInv, TypeOK, Instruction
    <2>2. QED
      BY <1>3, <2>1 DEF DealInv, InstructionMatchesDeal, Grows
  <1>5. ASSUME NEW e \in DealIds, deals'[e] # None
        PROVE  Backed(deals'[e], e, instructions')
    <2>1. CASE e = d
      BY <1>1, <1>2, <2>1
    <2>2. CASE e # d
      BY <1>1, <1>2, <1>5, <2>2 DEF DealInv
    <2>3. QED
      BY <2>1, <2>2
  <1>6. \A t \in Slots : CallAgrees(calls'[t], deals', instructions')
    <2>1. CallAgrees(call, deals', instructions')
      OBVIOUS
    <2>2. QED
      BY <1>3, <2>1, OthersAgree
  <1>7. HeardIsBacked'
    BY DEF DealInv, HeardIsBacked
  <1>8. QED
    BY <1>4, <1>5, <1>6, <1>7 DEF DealInv

LEMMA BeginInv ==
  ASSUME DealInv, NEW s \in Slots, Begin(s)
  PROVE  DealInv'
  <1>1. TypeOK /\ TypeOK'
    BY BeginType DEF DealInv
  <1>2. \A d \in DealIds : deals[d] # None => Backed(deals[d], d, instructions)
    BY DEF DealInv
  <1>3. ASSUME NEW d \in DealIds, NEW event \in CallerEvents, TransitionRead(s, d, event)
        PROVE  DealInv'
    <2> DEFINE call == [NoCall EXCEPT !.at = "transition-write", !.deal = d,
                                      !.event = event, !.copy = deals[d]]
    <2>1. CallAgrees(call, deals, instructions)
      BY <1>2 DEF NoCall, CallAgrees, CopyAgrees
    <2>2. Await(s, call) /\ UNCHANGED <<deals, instructions, heard>>
      BY <1>3 DEF TransitionRead, store, listener
    <2> HIDE DEF call
    <2>3. QED
      BY <1>1, <2>1, <2>2, QuietStepInv
  <1>4. ASSUME NEW d \in DealIds, NEW passed \in Verdicts, CheckRead(s, d, passed)
        PROVE  DealInv'
    <2> DEFINE call == [NoCall EXCEPT !.at = "check-write", !.deal = d,
                                      !.copy = deals[d], !.passed = passed]
    <2>1. CallAgrees(call, deals, instructions)
      BY <1>2 DEF NoCall, CallAgrees, CopyAgrees
    <2>2. Await(s, call) /\ UNCHANGED <<deals, instructions, heard>>
      BY <1>4 DEF CheckRead, store, listener
    <2> HIDE DEF call
    <2>3. QED
      BY <1>1, <2>1, <2>2, QuietStepInv
  <1>5. ASSUME NEW d \in DealIds, NEW a \in Approvers, NEW status \in RecordedStatus,
               ApprovalWrite(s, d, a, status)
        PROVE  DealInv'
    <2> DEFINE call == [NoCall EXCEPT !.at = "approval-emit", !.deal = d]
    <2>1. CallAgrees(call, deals, instructions)
      BY DEF NoCall, CallAgrees, CopyAgrees
    <2>2. Await(s, call) /\ UNCHANGED <<deals, instructions, heard>>
      BY <1>5 DEF ApprovalWrite, listener
    <2> HIDE DEF call
    <2>3. QED
      BY <1>1, <2>1, <2>2, QuietStepInv
  <1>6. ASSUME NEW d \in DealIds, InstructRead(s, d)
        PROVE  DealInv'
    <2> DEFINE call == [NoCall EXCEPT !.at = "instruct-checks", !.deal = d,
                                      !.copy = deals[d]]
    <2>1. CallAgrees(call, deals, instructions)
      BY <1>2 DEF NoCall, CallAgrees, CopyAgrees
    <2>2. Await(s, call) /\ UNCHANGED <<deals, instructions, heard>>
      BY <1>6 DEF InstructRead, store, listener
    <2> HIDE DEF call
    <2>3. QED
      BY <1>1, <2>1, <2>2, QuietStepInv
  <1>7. QED
    BY <1>3, <1>4, <1>5, <1>6 DEF Begin

\* A deal opens: nothing else is at its identifier.
LEMMA CreateInv ==
  ASSUME DealInv, NEW s \in Slots, Create(s)
  PROVE  DealInv'
  <1>1. PICK d \in DealIds, terms \in Terms : CreateDeal(s, d, terms)
    BY DEF Create
  <1> DEFINE call == [NoCall EXCEPT !.at = "create-emit", !.deal = d]
             deal == [state |-> "accepted", terms |-> terms, settlementInstructionId |-> None]
  <1>2. TypeOK'
    BY <1>1, CreateDealType DEF DealInv
  <1>3. deal \in Deal
    BY DEF Deal, DealState
  <1>4. /\ Await(s, call)
        /\ UpdateDeal(d, deal)
        /\ deals[d] = None
        /\ UNCHANGED <<instructions, heard>>
    BY <1>1 DEF CreateDeal, SaveDeal, UpdateDeal, listener
  <1>5. Backed(deal, d, instructions)
    BY DEF Backed, LinkOf
  <1>6. CallAgrees(call, deals', instructions)
    BY DEF NoCall, CallAgrees, CopyAgrees
  <1> HIDE DEF call, deal
  <1>7. QED
    BY <1>2, <1>3, <1>4, <1>5, <1>6, UpdateStepInv

LEMMA TransitionWriteInv ==
  ASSUME DealInv, NEW s \in Slots, TransitionWrite(s)
  PROVE  DealInv'
  <1> DEFINE c == calls[s]
             updated == [c.copy EXCEPT !.state = GetTargetState(c.event)]
             call == [c EXCEPT !.at = "transition-emit", !.copy = updated]
  <1>1. /\ TypeOK'
        /\ c \in Call
        /\ CallAgrees(c, deals, instructions)
    BY ResumeType DEF Resume, DealInv, TypeOK
  <1>2. /\ c.copy # None
        /\ c.copy \in Deal
        /\ c.event \in CallerEvents
        /\ c.event \in DealEvent
        /\ CanTransition(c.copy.state, c.event)
        /\ c.deal \in DealIds
        /\ deals[c.deal] # None
        /\ deals[c.deal].terms = c.copy.terms
        /\ Backed(c.copy, c.deal, instructions)
    BY <1>1, DealServiceAssumption
    DEF TransitionWrite, At, Admitted, CallAgrees, CopyAgrees, Call
  <1>3. /\ updated \in Deal
        /\ updated.terms = c.copy.terms
        /\ updated.state = GetTargetState(c.event)
        /\ LinkOf(updated) = LinkOf(c.copy)
    BY <1>2, TargetIsState DEF Deal, LinkOf
  <1>4. Backed(updated, c.deal, instructions)
    <2>1. ASSUME "approvals_complete" \notin CallerEvents,
                 updated.state \in {"settlement_ready", "settled"}
          PROVE  LinkOf(updated) # None
      <3>1. c.copy.state = "settlement_ready"
        BY <1>2, <1>3, <2>1, ReadyFromReady DEF Deal
      <3>2. QED
        BY <1>2, <1>3, <2>1, <3>1 DEF Backed
    <2>2. QED
      BY <1>2, <1>3, <2>1 DEF Backed
  <1>5. /\ Await(s, call)
        /\ UpdateDeal(c.deal, updated)
        /\ UNCHANGED <<instructions, heard>>
    BY DEF TransitionWrite, listener
  <1>6. CallAgrees(call, deals', instructions)
    <2>1. deals'[c.deal] = updated
      BY <1>2, <1>5 DEF UpdateDeal, DealInv, TypeOK
    <2>2. /\ call.at = "transition-emit"
          /\ call.deal = c.deal
          /\ call.event = c.event
          /\ call.copy = updated
      BY <1>1 DEF Call
    <2>3. updated # None
      BY <1>3, NoneIsNoRecord
    <2> HIDE DEF updated, call
    <2>4. QED
      BY <1>2, <1>3, <1>4, <2>1, <2>2, <2>3 DEF CallAgrees, CopyAgrees
  <1> HIDE DEF updated, call
  <1>7. QED
    BY <1>1, <1>2, <1>3, <1>4, <1>5, <1>6, UpdateStepInv

\* An instruction is added at a fresh identifier, with the terms of the copy,
\* which are the terms of the deal.
LEMMA InstructSaveInv ==
  ASSUME DealInv, NEW s \in Slots, NEW i \in InstrIds, InstructSave(s, i)
  PROVE  DealInv'
  <1> DEFINE c == calls[s]
             instruction == [deal |-> c.deal, terms |-> c.copy.terms,
                             checksPassed |-> c.passed, approvalsComplete |-> c.complete]
             call == [c EXCEPT !.at = "instruct-update", !.instr = i]
  <1>1. /\ TypeOK'
        /\ c \in Call
        /\ CallAgrees(c, deals, instructions)
    BY ResumeType DEF Resume, DealInv, TypeOK
  <1>2. /\ c.at = "instruct-save"
        /\ c.copy # None
        /\ c.copy \in Deal
        /\ c.deal \in DealIds
        /\ deals[c.deal] # None
        /\ deals[c.deal].terms = c.copy.terms
        /\ Backed(c.copy, c.deal, instructions)
    BY <1>1 DEF InstructSave, At, CallAgrees, CopyAgrees, Call
  <1>3. /\ Await(s, call)
        /\ instructions[i] = None
        /\ instructions' = [instructions EXCEPT ![i] = instruction]
        /\ UNCHANGED <<deals, heard>>
    BY DEF InstructSave, SaveSettlementInstruction, listener
  <1>4. instructions \in [InstrIds -> Instruction \cup {None}] /\ instruction # None
    BY <1>1, <1>2, NoneIsNoRecord DEF DealInv, TypeOK, Instruction, Call, Deal
  <1>5. Grows(deals, instructions, deals', instructions')
    BY <1>3, <1>4 DEF Grows
  <1>6. InstructionMatchesDeal'
    BY <1>2, <1>3, <1>4 DEF DealInv, InstructionMatchesDeal
  <1>7. ASSUME NEW d \in DealIds, deals'[d] # None
        PROVE  Backed(deals'[d], d, instructions')
    <2>1. deals'[d] = deals[d] /\ Backed(deals[d], d, instructions)
      BY <1>3, <1>7 DEF DealInv
    <2>2. QED
      BY <1>5, <2>1, BackedGrows
  <1>8. CallAgrees(call, deals', instructions')
    <2>1. /\ call.at = "instruct-update"
          /\ call.deal = c.deal
          /\ call.copy = c.copy
          /\ call.instr = i
      BY <1>1 DEF Call
    <2>2. IssuedFor(i, c.deal, instructions')
      BY <1>3, <1>4 DEF IssuedFor
    <2>3. CopyAgrees(c, deals', instructions')
      BY <1>1, <1>5, CallAgreesGrows DEF CallAgrees
    <2> HIDE DEF call
    <2>4. QED
      BY <1>2, <2>1, <2>2, <2>3 DEF CallAgrees, CopyAgrees
  <1>9. \A t \in Slots : CallAgrees(calls'[t], deals', instructions')
    <2> HIDE DEF call
    <2>1. QED
      BY <1>3, <1>5, <1>8, OthersAgree
  <1>10. HeardIsBacked'
    <2>1. \A j \in InstrIds :
            <<"settlement_instruction_created", j>> \in heard' => instructions'[j] # None
      BY <1>3, <1>4 DEF DealInv, HeardIsBacked
    <2>2. ASSUME NEW d \in DealIds, "approvals_complete" \notin CallerEvents,
                 <<"settlement_confirmed", d>> \in heard'
          PROVE  \E j \in InstrIds : instructions'[j] # None /\ instructions'[j].deal = d
      <3>1. PICK j \in InstrIds : instructions[j] # None /\ instructions[j].deal = d
        BY <1>3, <2>2 DEF DealInv, HeardIsBacked
      <3>2. instructions'[j] = instructions[j]
        BY <1>5, <3>1 DEF Grows
      <3>3. QED
        BY <3>1, <3>2
    <2>3. QED
      BY <2>1, <2>2 DEF HeardIsBacked
  <1>11. QED
    BY <1>1, <1>6, <1>7, <1>9, <1>10 DEF DealInv

LEMMA InstructUpdateInv ==
  ASSUME DealInv, NEW s \in Slots, InstructUpdateDeal(s)
  PROVE  DealInv'
  <1> DEFINE c == calls[s]
             updated == [c.copy EXCEPT !.settlementInstructionId = c.instr,
                                       !.state = "settlement_ready"]
             call == [c EXCEPT !.at = "instruct-emit"]
  <1>1. /\ TypeOK'
        /\ c \in Call
        /\ CallAgrees(c, deals, instructions)
    BY ResumeType DEF Resume, DealInv, TypeOK
  <1>2. /\ c.at = "instruct-update"
        /\ c.copy # None
        /\ c.copy \in Deal
        /\ c.deal \in DealIds
        /\ deals[c.deal] # None
        /\ deals[c.deal].terms = c.copy.terms
        /\ Backed(c.copy, c.deal, instructions)
        /\ IssuedFor(c.instr, c.deal, instructions)
    BY <1>1 DEF InstructUpdateDeal, At, CallAgrees, CopyAgrees, Call
  <1>3. /\ c.instr \in InstrIds
        /\ c.instr # None
    BY <1>2, DealServiceAssumption DEF IssuedFor
  <1>4. /\ updated \in Deal
        /\ updated.terms = c.copy.terms
        /\ LinkOf(updated) = c.instr
    BY <1>2, <1>3 DEF Deal, DealState, LinkOf
  <1>5. Backed(updated, c.deal, instructions)
    BY <1>2, <1>3, <1>4 DEF Backed
  <1>6. /\ Await(s, call)
        /\ UpdateDeal(c.deal, updated)
        /\ UNCHANGED <<instructions, heard>>
    BY DEF InstructUpdateDeal, listener
  <1>7. CallAgrees(call, deals', instructions)
    <2>1. /\ deals'[c.deal] = updated
          /\ updated # None
      BY <1>2, <1>4, <1>6, NoneIsNoRecord DEF UpdateDeal, DealInv, TypeOK
    <2>2. /\ call.at = "instruct-emit"
          /\ call.deal = c.deal
          /\ call.copy = c.copy
          /\ call.instr = c.instr
      BY <1>1 DEF Call
    <2> HIDE DEF updated, call
    <2>3. QED
      BY <1>2, <1>4, <2>1, <2>2 DEF CallAgrees, CopyAgrees
  <1> HIDE DEF updated, call
  <1>8. QED
    BY <1>1, <1>2, <1>4, <1>5, <1>6, <1>7, UpdateStepInv

\* What a handler hears at the end of a transition: a confirmation only of a
\* deal that was written as settled, from a copy that was ready.
LEMMA TransitionEmitInv ==
  ASSUME DealInv, NEW s \in Slots, TransitionEmit(s)
  PROVE  DealInv'
  <1> DEFINE c == calls[s]
  <1>1. /\ TypeOK'
        /\ CallAgrees(c, deals, instructions)
    BY ResumeType DEF Resume, DealInv
  <1>2. /\ c.copy # None
        /\ c.copy.state = GetTargetState(c.event)
        /\ Backed(c.copy, c.deal, instructions)
    BY <1>1 DEF TransitionEmit, At, CallAgrees, CopyAgrees
  <1>3. heard' \subseteq heard \cup {<<FollowUp(c.event), c.deal>>}
    BY DEF TransitionEmit, Emit
  <1>4. UNCHANGED <<deals, instructions>> /\ Return(s)
    BY DEF TransitionEmit, store
  <1>5. FollowUp(c.event) # "settlement_instruction_created"
    BY DEF FollowUp
  <1>6. FollowUp(c.event) = "settlement_confirmed" => c.copy.state = "settled"
    BY <1>2 DEF FollowUp, GetTargetState, EVENT_TO_STATE
  <1>7. HeardIsBacked'
    <2>1. \A i \in InstrIds :
            <<"settlement_instruction_created", i>> \in heard' => instructions'[i] # None
      BY <1>3, <1>4, <1>5 DEF DealInv, HeardIsBacked
    <2>2. ASSUME NEW d \in DealIds, "approvals_complete" \notin CallerEvents,
                 <<"settlement_confirmed", d>> \in heard'
          PROVE  \E i \in InstrIds : instructions'[i] # None /\ instructions'[i].deal = d
      <3>1. CASE <<"settlement_confirmed", d>> \in heard
        BY <1>4, <2>2, <3>1 DEF DealInv, HeardIsBacked
      <3>2. CASE <<"settlement_confirmed", d>> \notin heard
        <4>1. FollowUp(c.event) = "settlement_confirmed" /\ c.deal = d
          BY <1>3, <2>2, <3>2
        <4>2. IssuedFor(LinkOf(c.copy), d, instructions)
          BY <1>2, <1>6, <2>2, <4>1 DEF Backed
        <4>3. QED
          BY <1>4, <4>2 DEF IssuedFor
      <3>3. QED
        BY <3>1, <3>2
    <2>3. QED
      BY <2>1, <2>2 DEF HeardIsBacked
  <1>8. QED
    BY <1>1, <1>4, <1>7, EmitStepInv

LEMMA ResumeInv ==
  ASSUME DealInv, NEW s \in Slots, Resume(s)
  PROVE  DealInv'
  <1> DEFINE c == calls[s]
  <1>1. /\ TypeOK /\ TypeOK'
        /\ c \in Call
        /\ CallAgrees(c, deals, instructions)
        /\ HeardIsBacked
    BY ResumeType DEF DealInv, TypeOK
  <1>2. CASE CreateDealEmit(s) \/ TransitionReject(s) \/ CheckReject(s)
             \/ InstructNotFound(s) \/ InstructUnsettleable(s)
    <2>1. Return(s) /\ UNCHANGED <<deals, instructions, heard>>
      BY <1>2 DEF CreateDealEmit, TransitionReject, CheckReject, InstructNotFound,
                  InstructUnsettleable, store, listener
    <2>2. HeardIsBacked'
      BY <1>1, <2>1 DEF HeardIsBacked
    <2>3. QED
      BY <1>1, <2>1, <2>2, EmitStepInv
  <1>3. CASE CheckEmit(s) \/ ApprovalEmit(s)
    <2>1. /\ Return(s)
          /\ UNCHANGED <<deals, instructions>>
          /\ \E type \in {"pre_settlement_check", "leg_approval"} :
               heard' \subseteq heard \cup {<<type, c.deal>>}
      BY <1>3 DEF CheckEmit, ApprovalEmit, Emit, store
    <2>2. HeardIsBacked'
      BY <1>1, <2>1 DEF HeardIsBacked
    <2>3. QED
      BY <1>1, <2>1, <2>2, EmitStepInv
  <1>4. CASE InstructEmit(s)
    <2>1. /\ Return(s)
          /\ UNCHANGED <<deals, instructions>>
          /\ heard' \subseteq heard \cup {<<"settlement_instruction_created", c.instr>>}
      BY <1>4 DEF InstructEmit, Emit, store
    <2>2. instructions[c.instr] # None
      BY <1>1, <1>4 DEF InstructEmit, At, CallAgrees, IssuedFor
    <2>3. HeardIsBacked'
      BY <1>1, <2>1, <2>2 DEF HeardIsBacked
    <2>4. QED
      BY <1>1, <2>1, <2>3, EmitStepInv
  <1>5. CASE CheckWrite(s)
    <2> DEFINE call == [NoCall EXCEPT !.at = "check-emit", !.deal = c.deal]
    <2>1. c.deal \in DealIds
      BY <1>1, <1>5 DEF CheckWrite, At, CallAgrees
    <2>2. CallAgrees(call, deals, instructions)
      BY <2>1 DEF NoCall, CallAgrees, CopyAgrees
    <2>3. Await(s, call) /\ UNCHANGED <<deals, instructions, heard>>
      BY <1>5 DEF CheckWrite, listener
    <2> HIDE DEF call
    <2>4. QED
      BY <1>1, <2>2, <2>3, QuietStepInv
  <1>6. CASE InstructReadChecks(s)
    <2> DEFINE call == [c EXCEPT !.at = "instruct-approvals",
                                 !.passed = ChecksPassed(checks[c.deal])]
    <2>1. c.copy # None
      BY <1>6 DEF InstructReadChecks
    <2>2. call.at = "instruct-approvals" /\ call.deal = c.deal /\ call.copy = c.copy
      BY <1>1 DEF Call
    <2>3. Await(s, call) /\ UNCHANGED <<deals, instructions, heard>>
      BY <1>6 DEF InstructReadChecks, store, listener
    <2> HIDE DEF call
    <2>4. CallAgrees(call, deals, instructions)
      BY <1>1, <2>1, <2>2 DEF CallAgrees, CopyAgrees
    <2>5. QED
      BY <1>1, <2>3, <2>4, QuietStepInv
  <1>7. CASE InstructReadApprovals(s)
    <2> DEFINE call == [c EXCEPT !.at = "instruct-save",
                                 !.complete = ApprovalsComplete(approvals[c.deal])]
    <2>1. c.copy # None
      BY <1>1, <1>7 DEF InstructReadApprovals, At, CallAgrees
    <2>2. call.at = "instruct-save" /\ call.deal = c.deal /\ call.copy = c.copy
      BY <1>1 DEF Call
    <2>3. Await(s, call) /\ UNCHANGED <<deals, instructions, heard>>
      BY <1>7 DEF InstructReadApprovals, store, listener
    <2> HIDE DEF call
    <2>4. CallAgrees(call, deals, instructions)
      BY <1>1, <2>1, <2>2 DEF CallAgrees, CopyAgrees
    <2>5. QED
      BY <1>1, <2>3, <2>4, QuietStepInv
  <1>8. QED
    BY <1>2, <1>3, <1>4, <1>5, <1>6, <1>7, TransitionWriteInv, TransitionEmitInv,
       InstructSaveInv, InstructUpdateInv DEF Resume

LEMMA FailInv ==
  ASSUME DealInv, NEW s \in Slots, Fail(s)
  PROVE  DealInv'
  <1>1. Return(s) /\ UNCHANGED <<deals, instructions, heard>>
    BY DEF Fail, CallFails, HandlerThrows, store, listener
  <1>2. HeardIsBacked'
    BY <1>1 DEF DealInv, HeardIsBacked
  <1>3. QED
    BY <1>1, <1>2, FailType, EmitStepInv

-------------------------------------------------------------------------------
(***************************************************************************)
(* The invariant, and what follows from it.                                *)
(***************************************************************************)

LEMMA NextInv ==
  ASSUME DealInv, [Next]_vars
  PROVE  DealInv'
  <1>1. CASE UNCHANGED vars
    BY <1>1 DEF vars, store, listener, DealInv, TypeOK, InstructionMatchesDeal, HeardIsBacked
  <1>2. CASE Next
    <2>1. PICK s \in Slots : Create(s) \/ Begin(s) \/ Resume(s) \/ Fail(s)
      BY <1>2 DEF Next
    <2>2. QED
      BY <2>1, CreateInv, BeginInv, ResumeInv, FailInv
  <1>3. QED
    BY <1>1, <1>2

\* DealInv is an invariant: however many calls interleave or fail, every stored
\* deal is backed by its instruction, and every copy in flight agrees with the
\* store in all that a write-back of it could damage.
THEOREM DealInvariant == Spec => []DealInv
  BY InitInv, NextInv, PTL DEF Spec

\* Every variable keeps its type: in particular a call that resumes after
\* `await getDeal` writes a whole deal and emits the id of a saved instruction.
THEOREM TypeCorrect == Spec => []TypeOK
  <1>1. DealInv => TypeOK
    BY DEF DealInv
  <1>2. QED
    BY <1>1, DealInvariant, PTL

\* An instruction built from a copy read three awaits earlier still carries the
\* legs of its deal, for any number of calls.
THEOREM InstructionsMatchDeals == Spec => []InstructionMatchesDeal
  <1>1. DealInv => InstructionMatchesDeal
    BY DEF DealInv
  <1>2. QED
    BY <1>1, DealInvariant, PTL

\* No write-back of a stale copy leaves a deal with a settlementInstructionId
\* that is missing from the store or another deal's.
THEOREM LinksResolve == Spec => []InstructionLinkResolves
  <1>1. DealInv => InstructionLinkResolves
    BY DEF DealInv, InstructionLinkResolves, Backed, IssuedFor, LinkOf
  <1>2. QED
    BY <1>1, DealInvariant, PTL

\* With callers that never pass approvals_complete, a deal is ready or settled
\* only with an instruction, whatever cancel, expire and confirm race it.
THEOREM ReadyDealsAreInstructed == Spec => []ReadyHasInstruction
  <1>1. DealInv => ReadyHasInstruction
    BY DEF DealInv, ReadyHasInstruction, Backed, LinkOf
  <1>2. QED
    BY <1>1, DealInvariant, PTL

\* Handlers hear only of stored instructions and of settlements instructed for.
THEOREM EventsAreBacked == Spec => []HeardIsBacked
  <1>1. DealInv => HeardIsBacked
    BY DEF DealInv
  <1>2. QED
    BY <1>1, DealInvariant, PTL

-------------------------------------------------------------------------------
(***************************************************************************)
(* The flags of an instruction.  They are computed from two lists read at  *)
(* two different awaits, and written at a third; the lists only grow, so   *)
(* what was once found in them is still there.                             *)
(***************************************************************************)

TwoRecorded(status) ==
  \E a, b \in Approvers : a # b /\ status[a] # None /\ status[b] # None

\* A call that has read the lists of its deal found in them what it remembers.
CallEarned(call, cs, as) ==
  /\ (call.at \in {"instruct-approvals", "instruct-save"} /\ call.passed) =>
       TRUE \in cs[call.deal]
  /\ (call.at = "instruct-save" /\ call.complete) => TwoRecorded(as[call.deal])

FlagsInv == FlagsEarned /\ \A s \in Slots : CallEarned(calls[s], checks, approvals)

ListsGrow ==
  \A d \in DealIds :
    /\ checks[d] \subseteq checks'[d]
    /\ \A a \in Approvers : approvals[d][a] # None => approvals'[d][a] # None

LEMMA CompleteNeedsTwo ==
  ASSUME NEW status, ApprovalsComplete(status)
  PROVE  TwoRecorded(status)
  <1> DEFINE recorded == {a \in Approvers : status[a] # None}
  <1>1. Cardinality(recorded) >= 2
    BY DEF ApprovalsComplete
  <1>2. Cardinality({}) = 0 /\ \A a : Cardinality({a}) = 1
    BY FS_EmptySet, FS_Singleton
  <1>3. PICK a \in recorded : TRUE
    BY <1>1, <1>2
  <1>4. PICK b \in recorded : b # a
    <2>1. recorded # {a}
      BY <1>1, <1>2
    <2>2. QED
      BY <1>3, <2>1
  <1>5. QED
    BY <1>3, <1>4 DEF TwoRecorded

LEMMA ListsOnlyGrow ==
  ASSUME TypeOK, Next
  PROVE  ListsGrow
  <1>1. PICK s \in Slots : Create(s) \/ Begin(s) \/ Resume(s) \/ Fail(s)
    BY DEF Next
  <1>2. CASE CheckWrite(s)
    <2>1. /\ checks' = [checks EXCEPT ![calls[s].deal] = @ \cup {calls[s].passed}]
          /\ UNCHANGED approvals
      BY <1>2 DEF CheckWrite, SavePreSettlementCheck
    <2>2. QED
      BY <2>1 DEF ListsGrow, TypeOK
  <1>3. ASSUME NEW d \in DealIds, NEW a \in Approvers, NEW status \in RecordedStatus,
               ApprovalWrite(s, d, a, status)
        PROVE  ListsGrow
    <2>1. approvals' = [approvals EXCEPT ![d][a] = status] /\ UNCHANGED checks
      BY <1>3 DEF ApprovalWrite, SaveLegApproval
    <2>2. status # None
      BY NoneIsNoRecord DEF RecordedStatus, ApprovalStatus
    <2>3. QED
      BY <2>1, <2>2 DEF ListsGrow, TypeOK
  <1>4. CASE UNCHANGED <<checks, approvals>>
    BY <1>4 DEF ListsGrow
  <1>5. CASE Create(s) \/ Fail(s)
    BY <1>4, <1>5, Zenon DEF Create, CreateDeal, Fail, CallFails, HandlerThrows, store
  <1>6. CASE Begin(s)
    <2>1. /\ \A d, event : TransitionRead(s, d, event) => UNCHANGED <<checks, approvals>>
          /\ \A d, passed : CheckRead(s, d, passed) => UNCHANGED <<checks, approvals>>
          /\ \A d : InstructRead(s, d) => UNCHANGED <<checks, approvals>>
      BY Zenon DEF TransitionRead, CheckRead, InstructRead, store
    <2>2. QED
      BY <1>3, <1>4, <1>6, <2>1, Zenon DEF Begin
  <1>7. CASE Resume(s)
    <2>1. TransitionWrite(s) \/ InstructUpdateDeal(s) => UNCHANGED <<checks, approvals>>
      BY Zenon DEF TransitionWrite, InstructUpdateDeal
    <2>2. \A i : InstructSave(s, i) => UNCHANGED <<checks, approvals>>
      BY Zenon DEF InstructSave
    <2>3. CreateDealEmit(s) \/ TransitionReject(s) \/ TransitionEmit(s) \/ CheckReject(s)
          \/ CheckEmit(s) \/ ApprovalEmit(s) \/ InstructNotFound(s) \/ InstructReadChecks(s)
          \/ InstructReadApprovals(s) \/ InstructUnsettleable(s) \/ InstructEmit(s)
            => UNCHANGED <<checks, approvals>>
      BY Zenon DEF CreateDealEmit, TransitionReject, TransitionEmit, CheckReject, CheckEmit,
         ApprovalEmit, InstructNotFound, InstructReadChecks, InstructReadApprovals,
         InstructUnsettleable, InstructEmit, store
    <2>4. QED
      BY <1>2, <1>4, <1>7, <2>1, <2>2, <2>3, Zenon DEF Resume
  <1>8. QED
    BY <1>1, <1>5, <1>6, <1>7

LEMMA EarnedGrows ==
  ASSUME ListsGrow, NEW call, call.at # "idle" => call.deal \in DealIds,
         CallEarned(call, checks, approvals)
  PROVE  CallEarned(call, checks', approvals')
  BY DEF ListsGrow, CallEarned, TwoRecorded

\* Only two steps leave a call with a flag to answer for, and both take it from
\* the list of the call's own deal.
LEMMA OwnCallEarned ==
  ASSUME DealInv, FlagsInv, NEW s \in Slots,
         Create(s) \/ Begin(s) \/ Resume(s) \/ Fail(s)
  PROVE  CallEarned(calls'[s], checks', approvals')
  <1> DEFINE c == calls[s]
  <1>1. /\ calls \in [Slots -> Call]
        /\ c \in Call
        /\ CallAgrees(c, deals, instructions)
        /\ CallEarned(c, checks, approvals)
    BY DEF DealInv, TypeOK, FlagsInv
  <1>2. \A call : Await(s, call) => calls'[s] = call
    BY <1>1 DEF Await
  <1>3. CASE InstructReadChecks(s)
    <2>1. /\ calls'[s] = [c EXCEPT !.at = "instruct-approvals",
                                   !.passed = ChecksPassed(checks[c.deal])]
          /\ UNCHANGED <<checks, approvals>>
      BY <1>2, <1>3 DEF InstructReadChecks, store
    <2>2. /\ calls'[s].at = "instruct-approvals"
          /\ calls'[s].deal = c.deal
          /\ calls'[s].passed = ChecksPassed(checks[c.deal])
      BY <1>1, <2>1, Zenon DEF Call
    <2>3. ChecksPassed(checks[c.deal]) => TRUE \in checks[c.deal]
      BY DEF ChecksPassed
    <2>4. QED
      BY <2>1, <2>2, <2>3 DEF CallEarned
  <1>4. CASE InstructReadApprovals(s)
    <2>1. /\ calls'[s] = [c EXCEPT !.at = "instruct-save",
                                   !.complete = ApprovalsComplete(approvals[c.deal])]
          /\ UNCHANGED <<checks, approvals>>
          /\ c.at = "instruct-approvals"
      BY <1>2, <1>4 DEF InstructReadApprovals, At, store
    <2>2. /\ calls'[s].at = "instruct-save"
          /\ calls'[s].deal = c.deal
          /\ calls'[s].passed = c.passed
          /\ calls'[s].complete = ApprovalsComplete(approvals[c.deal])
      BY <1>1, <2>1, Zenon DEF Call
    <2>3. ApprovalsComplete(approvals[c.deal]) => TwoRecorded(approvals[c.deal])
      BY CompleteNeedsTwo
    <2>4. c.passed => TRUE \in checks[c.deal]
      BY <1>1, <2>1 DEF CallEarned
    <2>5. QED
      BY <2>1, <2>2, <2>3, <2>4 DEF CallEarned
  <1>5. CASE calls'[s].at \notin {"instruct-approvals", "instruct-save"}
    BY <1>5 DEF CallEarned
  <1>6. CASE Create(s) \/ Begin(s) \/ Fail(s)
    <2>1. CASE Create(s)
      <3>1. PICK d : Await(s, [NoCall EXCEPT !.at = "create-emit", !.deal = d])
        BY <2>1, Zenon DEF Create, CreateDeal
      <3>2. QED
        BY <1>2, <1>5, <3>1 DEF NoCall
    <2>2. CASE Begin(s)
      <3>1. ASSUME NEW d, NEW event, TransitionRead(s, d, event)
            PROVE  calls'[s].at = "transition-write"
        BY <1>2, <3>1 DEF TransitionRead, NoCall
      <3>2. ASSUME NEW d, NEW passed, CheckRead(s, d, passed)
            PROVE  calls'[s].at = "check-write"
        BY <1>2, <3>2 DEF CheckRead, NoCall
      <3>3. ASSUME NEW d, NEW a, NEW status, ApprovalWrite(s, d, a, status)
            PROVE  calls'[s].at = "approval-emit"
        BY <1>2, <3>3 DEF ApprovalWrite, NoCall
      <3>4. ASSUME NEW d, InstructRead(s, d)
            PROVE  calls'[s].at = "instruct-checks"
        BY <1>2, <3>4 DEF InstructRead, NoCall
      <3>5. calls'[s].at \in {"transition-write", "check-write",
                              "approval-emit", "instruct-checks"}
        BY <2>2, <3>1, <3>2, <3>3, <3>4, Zenon DEF Begin
      <3>6. QED
        BY <1>5, <3>5
    <2>3. CASE Fail(s)
      <3>1. Await(s, NoCall)
        BY <2>3, Zenon DEF Fail, CallFails, HandlerThrows, Return
      <3>2. QED
        BY <1>2, <1>5, <3>1 DEF NoCall
    <2>4. QED
      BY <1>6, <2>1, <2>2, <2>3
  <1>7. CASE /\ Resume(s)
             /\ ~InstructReadChecks(s)
             /\ ~InstructReadApprovals(s)
    <2>1. CASE Return(s)
      BY <1>2, <1>5, <2>1 DEF Return, NoCall
    <2>2. CASE TransitionWrite(s)
      <3>1. PICK record : calls'[s] = [c EXCEPT !.at = "transition-emit", !.copy = record]
        BY <1>2, <2>2, Zenon DEF TransitionWrite
      <3>2. QED
        BY <1>1, <1>5, <3>1 DEF Call
    <2>3. CASE CheckWrite(s)
      BY <1>2, <1>5, <2>3 DEF CheckWrite, NoCall
    <2>4. CASE \E i \in InstrIds : InstructSave(s, i)
      <3>1. PICK i \in InstrIds : calls'[s] = [c EXCEPT !.at = "instruct-update", !.instr = i]
        BY <1>2, <2>4, Zenon DEF InstructSave
      <3>2. QED
        BY <1>1, <1>5, <3>1 DEF Call
    <2>5. CASE InstructUpdateDeal(s)
      <3>1. calls'[s] = [c EXCEPT !.at = "instruct-emit"]
        BY <1>2, <2>5 DEF InstructUpdateDeal
      <3>2. QED
        BY <1>1, <1>5, <3>1 DEF Call
    <2>6. CreateDealEmit(s) \/ TransitionReject(s) \/ TransitionEmit(s) \/ CheckReject(s)
          \/ CheckEmit(s) \/ ApprovalEmit(s) \/ InstructNotFound(s)
          \/ InstructUnsettleable(s) \/ InstructEmit(s) => Return(s)
      BY Zenon DEF CreateDealEmit, TransitionReject, TransitionEmit, CheckReject, CheckEmit,
         ApprovalEmit, InstructNotFound, InstructUnsettleable, InstructEmit
    <2>7. QED
      BY <1>7, <2>1, <2>2, <2>3, <2>4, <2>5, <2>6, Zenon DEF Resume
  <1>8. QED
    BY <1>3, <1>4, <1>6, <1>7

LEMMA OtherCallsKept ==
  ASSUME TypeOK, NEW s \in Slots, Create(s) \/ Begin(s) \/ Resume(s) \/ Fail(s),
         NEW t \in Slots, t # s
  PROVE  calls'[t] = calls[t]
  <1>1. \E call : Await(s, call)
    <2>1. Create(s) \/ Fail(s) => \E call : Await(s, call)
      BY Zenon DEF Create, CreateDeal, Fail, CallFails, HandlerThrows, Return
    <2>2. Begin(s) => \E call : Await(s, call)
      BY Zenon DEF Begin, TransitionRead, CheckRead, ApprovalWrite, InstructRead
    <2>3. Resume(s) => \E call : Await(s, call)
      BY Zenon DEF Resume, CreateDealEmit, TransitionReject, TransitionWrite, TransitionEmit,
         CheckReject, CheckWrite, CheckEmit, ApprovalEmit, InstructNotFound,
         InstructReadChecks, InstructReadApprovals, InstructUnsettleable, InstructSave,
         InstructUpdateDeal, InstructEmit, Return
    <2>4. QED
      BY <2>1, <2>2, <2>3
  <1>2. QED
    BY <1>1 DEF Await, TypeOK

LEMMA FlagsStep ==
  ASSUME DealInv, FlagsInv, [Next]_vars
  PROVE  FlagsInv'
  <1>1. CASE UNCHANGED vars
    BY <1>1 DEF vars, store, FlagsInv, FlagsEarned, CallEarned
  <1>2. CASE Next
    <2>1. PICK s \in Slots : Create(s) \/ Begin(s) \/ Resume(s) \/ Fail(s)
      BY <1>2 DEF Next
    <2>2. ListsGrow
      BY <1>2, ListsOnlyGrow DEF DealInv
    <2>3. ASSUME NEW t \in Slots
          PROVE  CallEarned(calls'[t], checks', approvals')
      <3>1. CASE t = s
        BY <2>1, <3>1, OwnCallEarned
      <3>2. CASE t # s
        <4>1. calls'[t] = calls[t]
          BY <2>1, <3>2, OtherCallsKept DEF DealInv
        <4>2. /\ CallEarned(calls[t], checks, approvals)
              /\ calls[t].at # "idle" => calls[t].deal \in DealIds
          BY DEF FlagsInv, DealInv, CallAgrees
        <4>3. QED
          BY <2>2, <4>1, <4>2, EarnedGrows
      <3>3. QED
        BY <3>1, <3>2
    <2>4. ASSUME NEW i \in InstrIds, instructions'[i] # None
          PROVE  /\ instructions'[i].checksPassed => TRUE \in checks'[instructions'[i].deal]
                 /\ instructions'[i].approvalsComplete =>
                      TwoRecorded(approvals'[instructions'[i].deal])
      <3>1. instructions \in [InstrIds -> Instruction \cup {None}]
        BY DEF DealInv, TypeOK
      <3>2. CASE instructions'[i] = instructions[i]
        <4>1. instructions[i].deal \in DealIds
          BY <2>4, <3>1, <3>2 DEF Instruction
        <4>2. /\ instructions[i].checksPassed => TRUE \in checks[instructions[i].deal]
              /\ instructions[i].approvalsComplete =>
                   TwoRecorded(approvals[instructions[i].deal])
          BY <2>4, <3>2 DEF FlagsInv, FlagsEarned, TwoRecorded
        <4>3. QED
          BY <2>2, <3>2, <4>1, <4>2 DEF ListsGrow, TwoRecorded
      <3>3. CASE instructions'[i] # instructions[i]
        <4> DEFINE c == calls[s]
        <4>1. PICK j \in InstrIds : InstructSave(s, j)
          <5>1. Create(s) \/ Fail(s) => UNCHANGED instructions
            BY Zenon DEF Create, CreateDeal, Fail, CallFails, HandlerThrows, store
          <5>2. Begin(s) => UNCHANGED instructions
            BY Zenon DEF Begin, TransitionRead, CheckRead, ApprovalWrite, InstructRead, store
          <5>3. Resume(s) => UNCHANGED instructions \/ \E j \in InstrIds : InstructSave(s, j)
            BY Zenon DEF Resume, CreateDealEmit, TransitionReject, TransitionWrite,
               TransitionEmit, CheckReject, CheckWrite, CheckEmit, ApprovalEmit,
               InstructNotFound, InstructReadChecks, InstructReadApprovals,
               InstructUnsettleable, InstructUpdateDeal, InstructEmit, store
          <5>4. QED
            BY <2>1, <3>3, <5>1, <5>2, <5>3
        <4>2. /\ c.at = "instruct-save"
              /\ UNCHANGED <<checks, approvals>>
              /\ instructions' = [instructions EXCEPT ![j] =
                   [deal |-> c.deal, terms |-> c.copy.terms,
                    checksPassed |-> c.passed, approvalsComplete |-> c.complete]]
          BY <4>1 DEF InstructSave, At, SaveSettlementInstruction
        <4>3. /\ c.passed => TRUE \in checks[c.deal]
              /\ c.complete => TwoRecorded(approvals[c.deal])
          BY <4>2 DEF FlagsInv, CallEarned
        <4>4. /\ instructions'[i].deal = c.deal
              /\ instructions'[i].checksPassed = c.passed
              /\ instructions'[i].approvalsComplete = c.complete
          BY <3>1, <3>3, <4>2
        <4>5. QED
          BY <4>2, <4>3, <4>4
      <3>4. QED
        BY <3>2, <3>3
    <2>5. FlagsEarned'
      BY <2>4 DEF FlagsEarned, TwoRecorded
    <2>6. QED
      BY <2>3, <2>5 DEF FlagsInv
  <1>3. QED
    BY <1>1, <1>2

\* checksPassed and approvalsComplete are never claimed for a deal without a
\* passed check or without two recorded approvals, although the lists are read
\* two awaits before the instruction is saved and other calls write to them.
THEOREM FlagsAreEarned == Spec => []FlagsEarned
  <1>1. ASSUME Init
        PROVE  FlagsInv
    <2>1. \A i \in InstrIds : instructions[i] = None
      BY <1>1 DEF Init
    <2>2. \A s \in Slots : calls[s].at = "idle"
      BY <1>1 DEF Init, NoCall
    <2>3. QED
      BY <2>1, <2>2 DEF FlagsInv, FlagsEarned, CallEarned
  <1>2. FlagsInv => FlagsEarned
    BY DEF FlagsInv
  <1>3. QED
    BY <1>1, <1>2, FlagsStep, DealInvariant, PTL DEF Spec

-------------------------------------------------------------------------------
(***************************************************************************)
(* What a step does to the deals and the instructions: it replaces the     *)
(* record of one deal, adds one instruction, opens a deal, or neither.     *)
(***************************************************************************)

Opens == \E d \in DealIds, terms \in Terms :
  /\ deals[d] = None
  /\ deals' = [deals EXCEPT ![d] = [state |-> "accepted", terms |-> terms,
                                    settlementInstructionId |-> None]]
  /\ UNCHANGED instructions

Replaces == \E d \in DealIds, deal \in Deal :
  /\ deals[d] # None
  /\ deals[d].terms = deal.terms
  /\ Backed(deal, d, instructions)
  /\ deals' = [deals EXCEPT ![d] = deal]
  /\ UNCHANGED instructions

Issues == \E i \in InstrIds, instruction \in Instruction :
  /\ instructions[i] = None
  /\ deals[instruction.deal] # None
  /\ deals[instruction.deal].terms = instruction.terms
  /\ instructions' = [instructions EXCEPT ![i] = instruction]
  /\ UNCHANGED deals

LEMMA WriteReplaces ==
  ASSUME DealInv, NEW s \in Slots, TransitionWrite(s) \/ InstructUpdateDeal(s)
  PROVE  Replaces
  <1> DEFINE c == calls[s]
  <1>1. /\ TypeOK
        /\ DealInv'
        /\ c \in Call
        /\ CallAgrees(c, deals, instructions)
    BY ResumeInv DEF Resume, DealInv, TypeOK
  <1>2. /\ c.copy \in Deal
        /\ c.deal \in DealIds
        /\ deals[c.deal] # None
        /\ deals[c.deal].terms = c.copy.terms
    BY <1>1 DEF TransitionWrite, InstructUpdateDeal, At, Admitted, CallAgrees,
                CopyAgrees, Call
  <1>3. PICK deal \in Deal : /\ deals' = [deals EXCEPT ![c.deal] = deal]
                             /\ deal.terms = c.copy.terms
                             /\ UNCHANGED instructions
    <2>1. CASE TransitionWrite(s)
      <3> DEFINE updated == [c.copy EXCEPT !.state = GetTargetState(c.event)]
      <3>1. c.event \in DealEvent
        BY <1>1, <2>1, DealServiceAssumption DEF TransitionWrite, At, CallAgrees
      <3>2. updated \in Deal /\ updated.terms = c.copy.terms
        BY <1>2, <3>1, TargetIsState DEF Deal
      <3>3. QED
        BY <2>1, <3>2 DEF TransitionWrite, UpdateDeal
    <2>2. CASE InstructUpdateDeal(s)
      <3> DEFINE updated == [c.copy EXCEPT !.settlementInstructionId = c.instr,
                                           !.state = "settlement_ready"]
      <3>1. c.instr \in InstrIds
        BY <1>1, <2>2 DEF InstructUpdateDeal, At, CallAgrees, IssuedFor
      <3>2. updated \in Deal /\ updated.terms = c.copy.terms
        BY <1>2, <3>1 DEF Deal, DealState
      <3>3. QED
        BY <2>2, <3>2 DEF InstructUpdateDeal, UpdateDeal
    <2>3. QED
      BY <2>1, <2>2
  <1>4. Backed(deal, c.deal, instructions)
    <2>1. deals'[c.deal] = deal /\ deal # None
      BY <1>1, <1>2, <1>3, NoneIsNoRecord DEF TypeOK
    <2>2. Backed(deals'[c.deal], c.deal, instructions')
      BY <1>1, <1>2, <2>1 DEF DealInv
    <2>3. QED
      BY <1>3, <2>1, <2>2
  <1>5. QED
    BY <1>2, <1>3, <1>4 DEF Replaces

LEMMA SaveIssues ==
  ASSUME DealInv, NEW s \in Slots, NEW i \in InstrIds, InstructSave(s, i)
  PROVE  Issues
  <1> DEFINE c == calls[s]
             instruction == [deal |-> c.deal, terms |-> c.copy.terms,
                             checksPassed |-> c.passed, approvalsComplete |-> c.complete]
  <1>1. /\ c \in Call
        /\ CallAgrees(c, deals, instructions)
    BY DEF DealInv, TypeOK
  <1>2. /\ c.copy \in Deal
        /\ c.deal \in DealIds
        /\ deals[c.deal] # None
        /\ deals[c.deal].terms = c.copy.terms
    BY <1>1 DEF InstructSave, At, CallAgrees, CopyAgrees, Call
  <1>3. instruction \in Instruction
    BY <1>1, <1>2 DEF Instruction, Call, Deal
  <1>4. QED
    BY <1>2, <1>3 DEF InstructSave, SaveSettlementInstruction, Issues, listener

LEMMA StepEffect ==
  ASSUME DealInv, [Next]_vars
  PROVE  Opens \/ Replaces \/ Issues \/ UNCHANGED <<deals, instructions>>
  <1>1. CASE UNCHANGED vars
    BY <1>1 DEF vars, store
  <1>2. CASE Next
    <2>1. PICK s \in Slots : Create(s) \/ Begin(s) \/ Resume(s) \/ Fail(s)
      BY <1>2 DEF Next
    <2>2. CASE Create(s)
      BY <2>2 DEF Create, CreateDeal, SaveDeal, Opens
    <2>3. CASE Begin(s) \/ Fail(s)
      BY <2>3 DEF Begin, Fail, TransitionRead, CheckRead, ApprovalWrite, InstructRead,
                  CallFails, HandlerThrows, store, listener
    <2>4. CASE Resume(s)
      <3>1. CASE TransitionWrite(s) \/ InstructUpdateDeal(s)
        BY <3>1, WriteReplaces
      <3>2. CASE \E i \in InstrIds : InstructSave(s, i)
        BY <3>2, SaveIssues
      <3>3. CASE /\ ~(TransitionWrite(s) \/ InstructUpdateDeal(s))
                 /\ ~(\E i \in InstrIds : InstructSave(s, i))
        BY <2>4, <3>3 DEF Resume, CreateDealEmit, TransitionReject, TransitionEmit,
           CheckReject, CheckWrite, CheckEmit, ApprovalEmit, InstructNotFound,
           InstructReadChecks, InstructReadApprovals, InstructUnsettleable, InstructEmit,
           store, listener
      <3>4. QED
        BY <3>1, <3>2, <3>3
    <2>5. QED
      BY <2>1, <2>2, <2>3, <2>4
  <1>3. QED
    BY <1>1, <1>2

\* Only createDealFromAcceptance opens a deal: the other steps of a call keep
\* the deals there are, with their terms.
LEMMA OnlyCreateOpens ==
  ASSUME DealInv, NEW s \in Slots, Begin(s) \/ Resume(s) \/ Fail(s)
  PROVE  \A d \in DealIds : /\ deals'[d] # None <=> deals[d] # None
                            /\ deals[d] # None => deals'[d].terms = deals[d].terms
  <1>1. Replaces \/ UNCHANGED deals
    <2>1. Begin(s) => UNCHANGED deals
      BY Zenon DEF Begin, TransitionRead, CheckRead, ApprovalWrite, InstructRead, store
    <2>2. Fail(s) => UNCHANGED deals
      BY Zenon DEF Fail, CallFails, HandlerThrows, store
    <2>3. Resume(s) => \/ TransitionWrite(s) \/ InstructUpdateDeal(s)
                       \/ UNCHANGED deals
      BY Zenon DEF Resume, CreateDealEmit, TransitionReject, TransitionEmit, CheckReject,
         CheckWrite, CheckEmit, ApprovalEmit, InstructNotFound, InstructReadChecks,
         InstructReadApprovals, InstructUnsettleable, InstructSave, InstructEmit, store
    <2>4. QED
      BY <2>1, <2>2, <2>3, WriteReplaces
  <1>2. deals \in [DealIds -> Deal \cup {None}]
    BY DEF DealInv, TypeOK
  <1>3. QED
    BY <1>1, <1>2, NoneIsNoRecord DEF Replaces

\* What handlers of deal_state_changed have heard of a deal is never taken back.
LEMMA AnnouncedGrows ==
  ASSUME DealInv, [Next]_vars, NEW d \in DealIds, announced[d] # None
  PROVE  announced'[d] # None
  <1>1. announced \in [DealIds -> DealState \cup {None}]
    BY DEF DealInv, TypeOK
  <1>2. ASSUME NEW e, NEW state \in DealState, EmitStateChanged(e, state)
        PROVE  announced'[d] # None
    BY <1>1, <1>2, NoneIsNoRecord DEF EmitStateChanged
  <1>3. CASE UNCHANGED vars
    BY <1>3 DEF vars, listener
  <1>4. CASE Next
    <2>1. PICK s \in Slots : Create(s) \/ Begin(s) \/ Resume(s) \/ Fail(s)
      BY <1>4 DEF Next
    <2>2. CASE CreateDealEmit(s)
      BY <1>2, <2>2 DEF CreateDealEmit, DealState
    <2>3. CASE TransitionEmit(s) \/ HandlerThrows(s)
      <3>1. calls[s].at = "transition-emit" /\ EmitStateChanged(calls[s].deal, calls[s].copy.state)
        BY <2>3, Zenon DEF TransitionEmit, HandlerThrows, At
      <3>2. calls[s].copy.state \in DealState
        BY <3>1 DEF DealInv, TypeOK, CallAgrees, Call, Deal
      <3>3. QED
        BY <1>2, <3>1, <3>2
    <2>4. Create(s) \/ Begin(s) => UNCHANGED announced
      BY Zenon DEF Create, CreateDeal, Begin, TransitionRead, CheckRead, ApprovalWrite,
         InstructRead, listener
    <2>5. Fail(s) => HandlerThrows(s) \/ UNCHANGED announced
      BY Zenon DEF Fail, CallFails, listener
    <2>6. Resume(s) => CreateDealEmit(s) \/ TransitionEmit(s) \/ UNCHANGED announced
      BY Zenon DEF Resume, TransitionReject, TransitionWrite, CheckReject, CheckWrite,
         CheckEmit, ApprovalEmit, InstructNotFound, InstructReadChecks, InstructReadApprovals,
         InstructUnsettleable, InstructSave, InstructUpdateDeal, InstructEmit, listener
    <2>7. QED
      BY <2>1, <2>2, <2>3, <2>4, <2>5, <2>6
  <1>5. QED
    BY <1>3, <1>4

\* createDealFromAcceptance ends by announcing the deal it opened.
LEMMA OpeningIsAnnounced ==
  ASSUME DealInv, NEW s \in Slots, Resume(s), calls[s].at = "create-emit",
         "deal_state_changed" \in Subscribed
  PROVE  announced'[calls[s].deal] # None
  <1>1. CreateDealEmit(s)
    BY DEF Resume, At, TransitionReject, TransitionWrite, TransitionEmit, CheckReject,
       CheckWrite, CheckEmit, ApprovalEmit, InstructNotFound, InstructReadChecks,
       InstructReadApprovals, InstructUnsettleable, InstructSave, InstructUpdateDeal,
       InstructEmit
  <1>2. calls[s].deal \in DealIds /\ announced \in [DealIds -> DealState \cup {None}]
    BY DEF DealInv, TypeOK, CallAgrees
  <1>3. "accepted" # None
    BY NoneIsNoRecord DEF DealState
  <1>4. QED
    BY <1>1, <1>2, <1>3 DEF CreateDealEmit, EmitStateChanged

\* A deal that was saved stays saved with its terms: every write-back carries
\* the terms of the record it replaces.
THEOREM TermsAreFixed == Spec => DealTermsFixed
  <1> DEFINE Fixed == \A d \in DealIds : deals[d] # None =>
                        /\ deals'[d] # None
                        /\ deals'[d].terms = deals[d].terms
  <1>1. ASSUME DealInv, [Next]_vars
        PROVE  Fixed
    <2>1. deals \in [DealIds -> Deal \cup {None}]
      BY <1>1 DEF DealInv, TypeOK
    <2>2. CASE Opens
      BY <2>1, <2>2 DEF Opens
    <2>3. CASE Replaces
      BY <2>1, <2>3, NoneIsNoRecord DEF Replaces
    <2>4. CASE Issues
      BY <2>4 DEF Issues
    <2>5. QED
      BY <1>1, <2>2, <2>3, <2>4, StepEffect
  <1>2. QED
    BY <1>1, DealInvariant, PTL DEF Spec, DealTermsFixed

-------------------------------------------------------------------------------
(***************************************************************************)
(* The service implements DealCommitments: opening a deal is Open, adding  *)
(* an instruction is Issue, replacing a record is Move, and every other    *)
(* step is a stutter.                                                      *)
(***************************************************************************)

IssuedTerms(d, is) ==
  {is[i].terms : i \in {j \in InstrIds : is[j] # None /\ is[j].deal = d}}

AbsTerms == [d \in DealIds |-> TermsOf(deals[d])]
AbsIssued == [d \in DealIds |-> IssuedTerms(d, instructions)]
AbsPhase == [d \in DealIds |-> PhaseOf(deals[d])]

LEMMA PhaseOfDeal ==
  ASSUME NEW deal \in Deal
  PROVE  /\ PhaseOf(deal) \in {"open", "ready", "settled", "closed"}
         /\ PhaseOf(deal) \in {"ready", "settled"} =>
              deal.state \in {"settlement_ready", "settled"}
         /\ TermsOf(deal) = deal.terms
  BY NoneIsNoRecord DEF PhaseOf, TermsOf, Deal

LEMMA InitCommits == Init => Commitments!Init
  BY DEF Init, Commitments!Init, TermsOf, PhaseOf

LEMMA OpensCommits ==
  ASSUME DealInv, Opens
  PROVE  Commitments!Next
  <1>1. PICK d \in DealIds, terms \in Terms :
          /\ deals[d] = None
          /\ deals' = [deals EXCEPT ![d] = [state |-> "accepted", terms |-> terms,
                                            settlementInstructionId |-> None]]
          /\ UNCHANGED instructions
    BY DEF Opens
  <1> DEFINE deal == [state |-> "accepted", terms |-> terms, settlementInstructionId |-> None]
  <1>2. deals \in [DealIds -> Deal \cup {None}]
    BY DEF DealInv, TypeOK
  <1>3. deal \in Deal /\ deal.terms = terms
    BY DEF Deal, DealState
  <1>4. PhaseOf(deal) = "open" /\ TermsOf(deal) = terms
    BY <1>3, PhaseOfDeal, NoneIsNoRecord DEF PhaseOf
  <1>5. AbsPhase[d] = "none"
    <2>1. PhaseOf(None) = "none"
      BY DEF PhaseOf
    <2>2. QED
      BY <1>1, <2>1 DEF AbsPhase
  <1> HIDE DEF deal
  <1>6. AbsTerms' = [AbsTerms EXCEPT ![d] = terms]
    BY <1>1, <1>2, <1>4 DEF AbsTerms, deal
  <1>7. AbsPhase' = [AbsPhase EXCEPT ![d] = "open"]
    BY <1>1, <1>2, <1>4 DEF AbsPhase, deal
  <1>8. UNCHANGED AbsIssued
    BY <1>1 DEF AbsIssued
  <1>9. Commitments!Open(d, terms)
    BY <1>5, <1>6, <1>7, <1>8 DEF Commitments!Open, AbsTerms, AbsPhase, AbsIssued, IssuedTerms
  <1>10. QED
    BY <1>9 DEF Commitments!Next

LEMMA IssuesCommits ==
  ASSUME DealInv, Issues
  PROVE  Commitments!Next
  <1>1. PICK i \in InstrIds, instruction \in Instruction :
          /\ instructions[i] = None
          /\ deals[instruction.deal] # None
          /\ deals[instruction.deal].terms = instruction.terms
          /\ instructions' = [instructions EXCEPT ![i] = instruction]
          /\ UNCHANGED deals
    BY DEF Issues
  <1> DEFINE d == instruction.deal
  <1>2. /\ deals \in [DealIds -> Deal \cup {None}]
        /\ instructions \in [InstrIds -> Instruction \cup {None}]
        /\ instruction # None
        /\ d \in DealIds
    BY NoneIsNoRecord DEF DealInv, TypeOK, Instruction
  <1>3. AbsPhase[d] # "none" /\ AbsTerms[d] = instruction.terms
    BY <1>1, <1>2, PhaseOfDeal DEF AbsPhase, AbsTerms
  <1>4. UNCHANGED <<AbsTerms, AbsPhase>>
    BY <1>1 DEF AbsTerms, AbsPhase
  <1>5. ASSUME NEW e \in DealIds
        PROVE  IssuedTerms(e, instructions') =
                 IF e = d THEN IssuedTerms(e, instructions) \cup {instruction.terms}
                          ELSE IssuedTerms(e, instructions)
    <2>1. \A j \in InstrIds : instructions'[j] = IF j = i THEN instruction ELSE instructions[j]
      BY <1>1, <1>2
    <2>2. CASE e = d
      BY <1>1, <1>2, <2>1, <2>2 DEF IssuedTerms
    <2>3. CASE e # d
      BY <1>1, <1>2, <2>1, <2>3 DEF IssuedTerms
    <2>4. QED
      BY <2>2, <2>3
  <1>6. AbsIssued' = [AbsIssued EXCEPT ![d] = @ \cup {AbsTerms[d]}]
    BY <1>2, <1>3, <1>5 DEF AbsIssued
  <1>7. Commitments!Issue(d)
    BY <1>3, <1>4, <1>6 DEF Commitments!Issue, AbsTerms, AbsPhase, AbsIssued, IssuedTerms
  <1>8. QED
    BY <1>2, <1>7 DEF Commitments!Next

LEMMA ReplacesCommits ==
  ASSUME DealInv, Replaces, "approvals_complete" \notin CallerEvents
  PROVE  Commitments!Next
  <1>1. PICK d \in DealIds, deal \in Deal :
          /\ deals[d] # None
          /\ deals[d].terms = deal.terms
          /\ Backed(deal, d, instructions)
          /\ deals' = [deals EXCEPT ![d] = deal]
          /\ UNCHANGED instructions
    BY DEF Replaces
  <1>2. deals \in [DealIds -> Deal \cup {None}]
    BY DEF DealInv, TypeOK
  <1>3. AbsPhase[d] # "none"
    BY <1>1, <1>2, PhaseOfDeal DEF AbsPhase
  <1>4. AbsTerms' = AbsTerms
    BY <1>1, <1>2, PhaseOfDeal DEF AbsTerms
  <1>5. AbsIssued' = AbsIssued
    BY <1>1 DEF AbsIssued
  <1>6. AbsPhase' = [AbsPhase EXCEPT ![d] = PhaseOf(deal)]
    BY <1>1, <1>2 DEF AbsPhase
  <1>7. PhaseOf(deal) \in {"ready", "settled"} => AbsIssued[d] # {}
    <2>1. SUFFICES ASSUME deal.state \in {"settlement_ready", "settled"}
                   PROVE  IssuedTerms(d, instructions) # {}
      BY PhaseOfDeal DEF AbsIssued
    <2>2. IssuedFor(LinkOf(deal), d, instructions)
      BY <1>1, <2>1 DEF Backed
    <2>3. QED
      BY <2>2 DEF IssuedFor, IssuedTerms
  <1>8. Commitments!Move(d, PhaseOf(deal))
    BY <1>3, <1>4, <1>5, <1>6, <1>7
    DEF Commitments!Move, AbsTerms, AbsPhase, AbsIssued, IssuedTerms
  <1>9. PhaseOf(deal) \in Commitments!Phase
    BY PhaseOfDeal DEF Commitments!Phase
  <1>10. QED
    BY <1>8, <1>9 DEF Commitments!Next

\* With callers that never pass approvals_complete, whatever the calls and their
\* interleavings: deals keep their terms, settlements are issued for them alone,
\* and a deal is ready or settled only after one was issued.
THEOREM CommitmentsAreKept ==
  ASSUME "approvals_complete" \notin CallerEvents
  PROVE  Spec => KeepsCommitments
  <1>1. ASSUME DealInv, [Next]_vars
        PROVE  [Commitments!Next]_Commitments!cvars
    <2>1. CASE UNCHANGED <<deals, instructions>>
      BY <2>1 DEF Commitments!cvars
    <2>2. QED
      BY <1>1, <2>1, StepEffect, OpensCommits, IssuesCommits, ReplacesCommits
  <1>2. QED
    BY <1>1, InitCommits, DealInvariant, PTL DEF Spec, KeepsCommitments, Commitments!Spec

===============================================================================
