------------------------------- MODULE SwapEngine -------------------------------
(***************************************************************************)
(* The swap engine: the facade of packages/swap-engine/src/SwapEngine.ts   *)
(* with the quote lifecycle of services/QuoteService.ts, composed with the *)
(* deal lifecycle of DealService.                                          *)
(*                                                                         *)
(* A slot is one logical call into the engine.  qcalls[s] holds the quote  *)
(* part of it; calls[s] of DealService the deal part.  acceptQuote is the  *)
(* only method with both: it awaits createDealFromAcceptance, so its quote *)
(* part waits while calls[s] runs.                                         *)
(***************************************************************************)
EXTENDS FiniteSets, Naturals

CONSTANTS
  Parties,
  Goods,            \* what a leg carries: an instrument and an amount
  UnparsableGoods,  \* those whose amount BigInt cannot parse
  RequestIds, ResponseIds, DecisionIds,  \* identifiers, each generated once
  Slots, DealIds, InstrIds, Approvers, CallerEvents, Verdicts,
  InstructableStates, Subscribed, Faults, None

VARIABLES
  requests,   \* Map<string, QuoteRequest> of the store
  responses,  \* Map<string, QuoteResponse> of the store
  decisions,  \* Map<string, QuoteDecision>: by response, the last one wins
  decided,    \* history: every decision ever saved, by its own identifier
  qcalls,     \* the quote call in flight in each slot
  qheard,     \* the quote events that reached a handler
  deals, checks, approvals, instructions, calls, announced, heard

qstore == <<requests, responses, decisions, decided>>
qvars == <<qstore, qcalls, qheard>>
dvars == <<deals, checks, approvals, instructions, calls, announced, heard>>
vars == <<qvars, dvars>>

(***************************************************************************)
(* The terms of a deal: where they come from and its two legs.  As in Deal *)
(* of models.ts, give is what the requester gives and receive is what the  *)
(* counterparty gives.                                                     *)
(***************************************************************************)
DealTerms == [request : RequestIds, response : ResponseIds,
              decision : DecisionIds, give : Goods, receive : Goods]

DS == INSTANCE DealService WITH
        Terms <- DealTerms,
        UnsettleableTerms <- {t \in DealTerms : \/ t.give \in UnparsableGoods
                                                \/ t.receive \in UnparsableGoods}

Request == [requester : Parties, counterparty : Parties, give : Goods, receive : Goods]

Response == [request : RequestIds, counterparty : Parties, give : Goods, receive : Goods]

Decision == [id : DecisionIds, outcome : {"accepted", "rejected"}]

\* A decision as the history keeps it.
DecisionMade == [response : ResponseIds, outcome : {"accepted", "rejected"}]

ResumePoint ==
  {"idle", "request-emit", "respond-save", "respond-emit",
   "accept-response", "accept-decide", "accept-request", "accept-create", "accept-wait",
   "reject-decide", "reject-emit"}

QCall == [at : ResumePoint,
          request : RequestIds \cup {None},    \* the id of the request saved
          response : ResponseIds \cup {None},  \* the responseId argument
          req : Request \cup {None},           \* the result of `await getQuoteRequest`
          resp : Response \cup {None},         \* the response read, or to be saved
          decision : DecisionIds \cup {None},  \* the id of the decision saved
          deal : DealIds \cup {None}]          \* the id of the deal created

NoQCall == [at |-> "idle", request |-> None, response |-> None, req |-> None,
            resp |-> None, decision |-> None, deal |-> None]

ASSUME EngineAssumption ==
  /\ CallerEvents \subseteq DS!DealEvent
  /\ Verdicts \subseteq BOOLEAN
  /\ InstructableStates \subseteq DS!DealState
  /\ Faults \in BOOLEAN
  /\ None \notin RequestIds \cup ResponseIds \cup DecisionIds \cup DealIds \cup InstrIds
  /\ None \notin DealTerms \cup DS!DealEvent \cup DS!DealState \cup DS!ApprovalStatus
  /\ None \notin Request \cup Response \cup Decision \cup DecisionMade
  /\ None \notin DS!Deal /\ None \notin DS!Instruction

TypeOK ==
  /\ requests \in [RequestIds -> Request \cup {None}]
  /\ responses \in [ResponseIds -> Response \cup {None}]
  /\ decisions \in [ResponseIds -> Decision \cup {None}]
  /\ decided \in [DecisionIds -> DecisionMade \cup {None}]
  /\ qcalls \in [Slots -> QCall]
  /\ qheard \subseteq (Subscribed \X (RequestIds \cup ResponseIds \cup DecisionIds \cup DealIds))
  /\ DS!TypeOK

Init ==
  /\ requests = [q \in RequestIds |-> None]
  /\ responses = [r \in ResponseIds |-> None]
  /\ decisions = [r \in ResponseIds |-> None]
  /\ decided = [x \in DecisionIds |-> None]
  /\ qcalls = [s \in Slots |-> NoQCall]
  /\ qheard = {}
  /\ DS!Init

-------------------------------------------------------------------------------
(***************************************************************************)
(* The store and control.                                                  *)
(***************************************************************************)

SaveQuoteRequest(q, request) == requests' = [requests EXCEPT ![q] = request]

SaveQuoteResponse(r, response) == responses' = [responses EXCEPT ![r] = response]

\* The map is keyed by the response, so a decision replaces an earlier one.
SaveQuoteDecision(x, r, outcome) ==
  /\ decisions' = [decisions EXCEPT ![r] = [id |-> x, outcome |-> outcome]]
  /\ decided' = [decided EXCEPT ![x] = [response |-> r, outcome |-> outcome]]

At(s, point) == qcalls[s].at = point

Await(s, qcall) == qcalls' = [qcalls EXCEPT ![s] = qcall]

Return(s) == Await(s, NoQCall)

Free(s) == At(s, "idle") /\ DS!At(s, "idle")

Emit(type, id) ==
  qheard' = IF type \in Subscribed THEN qheard \cup {<<type, id>>} ELSE qheard

-------------------------------------------------------------------------------
(***************************************************************************)
(* requestQuote                                                            *)
(***************************************************************************)

RequestQuote(s, q, request) ==
  /\ Free(s)
  /\ requests[q] = None
  /\ SaveQuoteRequest(q, request)
  /\ Await(s, [NoQCall EXCEPT !.at = "request-emit", !.request = q])
  /\ UNCHANGED <<responses, decisions, decided, qheard, dvars>>

RequestEmit(s) ==
  /\ At(s, "request-emit")
  /\ Emit("quote_requested", qcalls[s].request)
  /\ Return(s)
  /\ UNCHANGED <<qstore, dvars>>

(***************************************************************************)
(* respondToQuote                                                          *)
(***************************************************************************)

\* Bound: a call starts only if an identifier will be left for it.
RoomForResponse ==
  Cardinality({r \in ResponseIds : responses[r] = None}) >
  Cardinality({s \in Slots : At(s, "respond-save")})

RespondRead(s, q, p, give, receive) ==
  /\ Free(s)
  /\ RoomForResponse
  /\ Await(s, [NoQCall EXCEPT
                 !.at = "respond-save", !.req = requests[q],
                 !.resp = [request |-> q, counterparty |-> p,
                           give |-> give, receive |-> receive]])
  /\ UNCHANGED <<qstore, qheard, dvars>>

\* Seeded error: a request that was not found is not refused.
Addressed_OrMissing(qcall) ==
  qcall.req # None => qcall.req.counterparty = qcall.resp.counterparty

Addressed(qcall) ==
  /\ qcall.req # None
  /\ qcall.req.counterparty = qcall.resp.counterparty

RespondReject(s) ==
  /\ At(s, "respond-save")
  /\ ~Addressed(qcalls[s])
  /\ Return(s)
  /\ UNCHANGED <<qstore, qheard, dvars>>

RespondSave(s, r) ==
  /\ At(s, "respond-save")
  /\ Addressed(qcalls[s])
  /\ responses[r] = None
  /\ SaveQuoteResponse(r, qcalls[s].resp)
  /\ Await(s, [NoQCall EXCEPT !.at = "respond-emit", !.response = r])
  /\ UNCHANGED <<requests, decisions, decided, qheard, dvars>>

RespondEmit(s) ==
  /\ At(s, "respond-emit")
  /\ Emit("quote_responded", qcalls[s].response)
  /\ Return(s)
  /\ UNCHANGED <<qstore, dvars>>

(***************************************************************************)
(* acceptQuote                                                             *)
(***************************************************************************)

\* Bounds: a call starts only if identifiers will be left for it.
RoomForDecision ==
  Cardinality({x \in DecisionIds : decided[x] = None}) >
  Cardinality({s \in Slots : qcalls[s].at \in
                 {"accept-response", "accept-decide", "reject-decide"}})

RoomForDeal ==
  Cardinality({d \in DealIds : deals[d] = None}) >
  Cardinality({s \in Slots : qcalls[s].at \in
                 {"accept-response", "accept-decide", "accept-request", "accept-create"}})

AcceptRead(s, r) ==
  /\ Free(s)
  /\ RoomForDecision
  /\ RoomForDeal
  /\ Await(s, [NoQCall EXCEPT !.at = "accept-response", !.response = r,
                              !.resp = responses[r]])
  /\ UNCHANGED <<qstore, qheard, dvars>>

AcceptNotFound(s) ==
  /\ At(s, "accept-response")
  /\ qcalls[s].resp = None
  /\ Return(s)
  /\ UNCHANGED <<qstore, qheard, dvars>>

\* QuoteService.acceptQuote reads the response a second time and looks only
\* whether it is there.  Responses are never removed, so it is.
AcceptReread(s) ==
  /\ At(s, "accept-response")
  /\ qcalls[s].resp # None
  /\ Await(s, [qcalls[s] EXCEPT !.at = "accept-decide"])
  /\ UNCHANGED <<qstore, qheard, dvars>>

\* Seeded error: a second acceptance takes up the decision that is stored.
AcceptDecide_Reuse(s, x) ==
  LET r == qcalls[s].response
      y == IF decisions[r] # None THEN decisions[r].id ELSE x
  IN  /\ At(s, "accept-decide")
      /\ decided[x] = None
      /\ SaveQuoteDecision(y, r, "accepted")
      /\ Await(s, [qcalls[s] EXCEPT !.at = "accept-request", !.decision = y])
      /\ UNCHANGED <<requests, responses, qheard, dvars>>

\* Seeded error: the method returns with the decision.
AcceptDecide_NoDeal(s, x) ==
  /\ At(s, "accept-decide")
  /\ decided[x] = None
  /\ SaveQuoteDecision(x, qcalls[s].response, "accepted")
  /\ Return(s)
  /\ UNCHANGED <<requests, responses, qheard, dvars>>

\* Neither an earlier decision nor validUntil is looked at.
AcceptDecide(s, x) ==
  /\ At(s, "accept-decide")
  /\ decided[x] = None
  /\ SaveQuoteDecision(x, qcalls[s].response, "accepted")
  /\ Await(s, [qcalls[s] EXCEPT !.at = "accept-request", !.decision = x])
  /\ UNCHANGED <<requests, responses, qheard, dvars>>

AcceptReadRequest(s) ==
  /\ At(s, "accept-request")
  /\ Await(s, [qcalls[s] EXCEPT !.at = "accept-create",
                                !.req = requests[qcalls[s].resp.request]])
  /\ UNCHANGED <<qstore, qheard, dvars>>

\* Seeded error: both legs are taken from the request.
AcceptedTerms_OfRequest(qcall) ==
  [request |-> qcall.resp.request, response |-> qcall.response,
   decision |-> qcall.decision,
   give |-> qcall.req.give, receive |-> qcall.req.receive]

\* Seeded error: two of the string arguments change places.
AcceptedTerms_Swapped(qcall) ==
  [request |-> qcall.response, response |-> qcall.resp.request,
   decision |-> qcall.decision,
   give |-> qcall.req.give, receive |-> qcall.resp.give]

\* What the two sides give, as acceptQuote passes it on.
AcceptedTerms(qcall) ==
  [request |-> qcall.resp.request, response |-> qcall.response,
   decision |-> qcall.decision,
   give |-> qcall.req.give, receive |-> qcall.resp.give]

AcceptCreateDeal(s, d) ==
  /\ At(s, "accept-create")
  /\ qcalls[s].req # None
  /\ DS!CreateDeal(s, d, AcceptedTerms(qcalls[s]))
  /\ Await(s, [qcalls[s] EXCEPT !.at = "accept-wait", !.deal = d])
  /\ UNCHANGED <<qstore, qheard>>

AcceptEmit(s) ==
  /\ At(s, "accept-wait")
  /\ DS!At(s, "idle")
  /\ Emit("quote_accepted", qcalls[s].deal)
  /\ Return(s)
  /\ UNCHANGED <<qstore, dvars>>

(***************************************************************************)
(* rejectQuote                                                             *)
(***************************************************************************)

RejectRead(s, r) ==
  /\ Free(s)
  /\ RoomForDecision
  /\ Await(s, [NoQCall EXCEPT !.at = "reject-decide", !.response = r,
                              !.resp = responses[r]])
  /\ UNCHANGED <<qstore, qheard, dvars>>

RejectNotFound(s) ==
  /\ At(s, "reject-decide")
  /\ qcalls[s].resp = None
  /\ Return(s)
  /\ UNCHANGED <<qstore, qheard, dvars>>

RejectDecide(s, x) ==
  /\ At(s, "reject-decide")
  /\ qcalls[s].resp # None
  /\ decided[x] = None
  /\ SaveQuoteDecision(x, qcalls[s].response, "rejected")
  /\ Await(s, [NoQCall EXCEPT !.at = "reject-emit", !.decision = x])
  /\ UNCHANGED <<requests, responses, qheard, dvars>>

RejectEmit(s) ==
  /\ At(s, "reject-emit")
  /\ Emit("quote_rejected", qcalls[s].decision)
  /\ Return(s)
  /\ UNCHANGED <<qstore, dvars>>

-------------------------------------------------------------------------------
(***************************************************************************)
(* Failures.  A quote call fails while it runs itself; acceptQuote also    *)
(* fails when the deal part it awaits does.                                *)
(***************************************************************************)

QuoteCallFails(s) ==
  /\ Faults
  /\ ~At(s, "idle")
  /\ DS!At(s, "idle")
  /\ Return(s)
  /\ UNCHANGED <<qstore, qheard, dvars>>

\* Seeded error: acceptQuote swallows the failure of the deal part.
DealCallFails_Swallowed(s) == DS!Fail(s) /\ UNCHANGED qvars

DealCallFails(s) ==
  /\ DS!Fail(s)
  /\ Return(s)
  /\ UNCHANGED <<qstore, qheard>>

-------------------------------------------------------------------------------
BeginQuote(s) ==
  \/ \E q \in RequestIds, request \in Request : RequestQuote(s, q, request)
  \/ \E q \in RequestIds, p \in Parties, give, receive \in Goods :
       RespondRead(s, q, p, give, receive)
  \/ \E r \in ResponseIds : AcceptRead(s, r) \/ RejectRead(s, r)

ResumeQuote(s) ==
  \/ RequestEmit(s)
  \/ RespondReject(s) \/ (\E r \in ResponseIds : RespondSave(s, r)) \/ RespondEmit(s)
  \/ AcceptNotFound(s) \/ AcceptReread(s) \/ (\E x \in DecisionIds : AcceptDecide(s, x))
  \/ AcceptReadRequest(s) \/ (\E d \in DealIds : AcceptCreateDeal(s, d)) \/ AcceptEmit(s)
  \/ RejectNotFound(s) \/ (\E x \in DecisionIds : RejectDecide(s, x)) \/ RejectEmit(s)

\* The methods that only pass their arguments on to DealService.
BeginDeal(s) == At(s, "idle") /\ DS!Begin(s) /\ UNCHANGED qvars

ResumeDeal(s) == DS!Resume(s) /\ UNCHANGED qvars

Next == \E s \in Slots :
          \/ BeginQuote(s) \/ ResumeQuote(s)
          \/ BeginDeal(s) \/ ResumeDeal(s)
          \/ QuoteCallFails(s) \/ DealCallFails(s)

Spec == Init /\ [][Next]_vars

\* As in DealService: a settled store operation resumes its caller.
FairSpec == Spec /\ \A s \in Slots : WF_vars(ResumeQuote(s)) /\ WF_vars(ResumeDeal(s))

-------------------------------------------------------------------------------
(***************************************************************************)
(* Safety.                                                                 *)
(***************************************************************************)

\* A deal is between the two sides of one quote, although acceptQuote collects
\* them over three awaits: its request and response are stored, the response
\* answers that request and comes from its counterparty, and what the counterparty
\* gives is what its response says.  When the response confirms what the requester
\* gives, the deal has both legs of the response; of a response that adjusts that
\* leg nothing is said here (DealHasAcceptedTerms).
DealMatchesQuote ==
  \A d \in DealIds : deals[d] # None =>
    LET t == deals[d].terms
        req == requests[t.request]
        resp == responses[t.response]
    IN  /\ req # None
        /\ resp # None
        /\ resp.request = t.request
        /\ resp.counterparty = req.counterparty
        /\ t.receive = resp.give
        /\ resp.receive = req.give => t.give = resp.receive

\* Every deal rests on a decision to accept its own response, and no two deals
\* rest on the same decision, even when calls to acceptQuote overlap.
DecisionBacksOneDeal ==
  \A d \in DealIds : deals[d] # None =>
    LET t == deals[d].terms
    IN  /\ decided[t.decision] = [response |-> t.response, outcome |-> "accepted"]
        /\ \A e \in DealIds : (deals[e] # None /\ deals[e].terms.decision = t.decision) => e = d

\* The check for a missing request at the end of acceptQuote never fails, so it
\* never leaves a saved decision without its deal.
AcceptFindsRequest ==
  \A s \in Slots : At(s, "accept-create") => qcalls[s].req # None

\* A handler hears quote_accepted only for a stored deal, and only after the
\* handlers of deal_state_changed heard that the deal was opened.
AcceptedHeardInOrder ==
  \A d \in DealIds : <<"quote_accepted", d>> \in qheard =>
    /\ deals[d] # None
    /\ "deal_state_changed" \in Subscribed => announced[d] # None

(***************************************************************************)
(* What the documentation says and a single call already breaks.           *)
(***************************************************************************)

\* A deal has the terms that were accepted: the legs of its response, confirmed
\* or adjusted.
DealHasAcceptedTerms ==
  \A d \in DealIds : deals[d] # None =>
    LET t == deals[d].terms
    IN  /\ t.give = responses[t.response].receive
        /\ t.receive = responses[t.response].give

(***************************************************************************)
(* Liveness, without failures.                                             *)
(***************************************************************************)

\* A deal that reached settled is, in the end, confirmed to the handlers.
SettledReachesHandler == DS!SettledReachesHandler

\* A saved decision to accept is followed by its deal.
DecisionLeadsToDeal ==
  \A x \in DecisionIds :
    (decided[x] # None /\ decided[x].outcome = "accepted") ~>
      \E d \in DealIds : deals[d] # None /\ deals[d].terms.decision = x

================================================================================
