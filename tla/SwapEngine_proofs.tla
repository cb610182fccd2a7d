---------------------------- MODULE SwapEngine_proofs ----------------------------
(***************************************************************************)
(* Proofs about SwapEngine, for every number of slots, parties, goods and  *)
(* identifiers, with or without failures.                                  *)
(*                                                                         *)
(* QInv is about the quote part alone.  From it follows that the engine    *)
(* takes only steps of DealService, so the theorems of DealService_proofs  *)
(* hold inside the engine, and with them the properties that join the two  *)
(* parts.                                                                  *)
(***************************************************************************)
EXTENDS SwapEngine, TLAPS

-------------------------------------------------------------------------------
(***************************************************************************)
(* The invariant of the quote part.  Requests, responses and decisions are *)
(* each written once, so what a call read of them before an await is still *)
(* what is stored; rq, rs and dc are the three maps.                       *)
(***************************************************************************)

\* acceptQuote has saved its decision and not yet opened the deal.
Opening(q) == q.at \in {"accept-request", "accept-create"}

CallFits(q, rq, rs, dc) ==
  /\ q.at = "request-emit" => q.request \in RequestIds
  /\ q.at \in {"respond-emit", "accept-response", "accept-decide", "accept-request",
               "accept-create", "accept-wait", "reject-decide"} => q.response \in ResponseIds
  /\ q.at = "respond-save" =>
       /\ q.resp \in Response
       /\ q.req # None => rq[q.resp.request] = q.req
  /\ (q.at \in {"accept-response", "accept-decide"} \/ Opening(q)) =>
       (q.resp # None => rs[q.response] = q.resp)
  /\ (q.at = "accept-decide" \/ Opening(q)) => q.resp # None
  /\ Opening(q) => /\ q.decision \in DecisionIds
                   /\ dc[q.decision] = [response |-> q.response, outcome |-> "accepted"]
  /\ q.at = "accept-create" => q.req # None /\ rq[q.resp.request] = q.req
  /\ q.at = "accept-wait" => q.deal \in DealIds
  /\ q.at = "reject-emit" => q.decision \in DecisionIds

\* Every stored response answers a stored request and comes from its counterparty.
ResponsesAnswer ==
  \A r \in ResponseIds : responses[r] # None =>
    /\ requests[responses[r].request] # None
    /\ responses[r].counterparty = requests[responses[r].request].counterparty

\* No two calls are about to open a deal on the same decision.
DecisionsApart ==
  \A s, t \in Slots :
    (Opening(qcalls[s]) /\ Opening(qcalls[t]) /\ qcalls[s].decision = qcalls[t].decision)
      => s = t

StoreTypes ==
  /\ requests \in [RequestIds -> Request \cup {None}]
  /\ responses \in [ResponseIds -> Response \cup {None}]
  /\ decisions \in [ResponseIds -> Decision \cup {None}]
  /\ decided \in [DecisionIds -> DecisionMade \cup {None}]

Ids == RequestIds \cup ResponseIds \cup DecisionIds \cup DealIds

QInv ==
  /\ StoreTypes
  /\ qcalls \in [Slots -> QCall]
  /\ qheard \subseteq (Subscribed \X Ids)
  /\ ResponsesAnswer
  /\ DecisionsApart
  /\ \A s \in Slots : CallFits(qcalls[s], requests, responses, decided)

\* The maps only grow.
Written(m, n) == \A k \in DOMAIN m : m[k] # None => n[k] = m[k]

QGrows == Written(requests, requests') /\ Written(responses, responses')
          /\ Written(decided, decided')

LEMMA NoQCallFits ==
  ASSUME NEW rq, NEW rs, NEW dc
  PROVE  NoQCall \in QCall /\ CallFits(NoQCall, rq, rs, dc) /\ ~Opening(NoQCall)
  BY DEF NoQCall, QCall, ResumePoint, CallFits, Opening

LEMMA QInit == Init => QInv
  <1> SUFFICES ASSUME Init  PROVE QInv
    OBVIOUS
  <1>1. \A s \in Slots : qcalls[s] = NoQCall
    BY DEF Init
  <1>2. qcalls \in [Slots -> QCall]
    BY NoQCallFits DEF Init
  <1>3. StoreTypes /\ ResponsesAnswer
    BY DEF Init, StoreTypes, ResponsesAnswer
  <1>4. DecisionsApart /\ \A s \in Slots : CallFits(qcalls[s], requests, responses, decided)
    BY <1>1, NoQCallFits DEF DecisionsApart
  <1>5. QED
    BY <1>2, <1>3, <1>4 DEF Init, QInv

\* What a call holds is still right when the maps have grown.
LEMMA FitsGrows ==
  ASSUME StoreTypes, QGrows, NEW q \in QCall, CallFits(q, requests, responses, decided)
  PROVE  CallFits(q, requests', responses', decided')
  <1> USE DEF StoreTypes, QGrows, Written
  <1>1. ASSUME q.at = "respond-save", q.req # None
        PROVE  requests'[q.resp.request] = q.req
    BY <1>1 DEF CallFits, Response
  <1>2. ASSUME q.at \in {"accept-response", "accept-decide"} \/ Opening(q), q.resp # None
        PROVE  responses'[q.response] = q.resp
    BY <1>2 DEF CallFits, Opening
  <1>3. ASSUME Opening(q)
        PROVE  decided'[q.decision] = decided[q.decision]
    <2>1. q.decision \in DecisionIds
          /\ decided[q.decision] = [response |-> q.response, outcome |-> "accepted"]
          /\ q.response \in ResponseIds
      BY <1>3 DEF CallFits, Opening
    <2>2. decided[q.decision] # None
      BY <2>1, EngineAssumption DEF DecisionMade
    <2>3. QED
      BY <2>1, <2>2
  <1>4. ASSUME q.at = "accept-create"
        PROVE  requests'[q.resp.request] = q.req
    <2>1. q.resp \in Response /\ q.req # None /\ requests[q.resp.request] = q.req
      BY <1>4 DEF CallFits, Opening, QCall
    <2>2. QED
      BY <2>1 DEF Response
  <1>5. QED
    BY <1>1, <1>2, <1>3, <1>4, Zenon DEF CallFits

\* A step of slot s that leaves the call q behind and lets the maps grow.
LEMMA QuoteStep ==
  ASSUME QInv, NEW s \in Slots, NEW q \in QCall, Await(s, q),
         StoreTypes', QGrows, ResponsesAnswer', qheard' \subseteq (Subscribed \X Ids),
         CallFits(q, requests', responses', decided'),
         Opening(q) => \/ Opening(qcalls[s]) /\ qcalls[s].decision = q.decision
                       \/ decided[q.decision] = None
  PROVE  QInv'
  <1>1. qcalls \in [Slots -> QCall] /\ qcalls' = [qcalls EXCEPT ![s] = q] /\ StoreTypes
    BY DEF QInv, Await
  <1>2. /\ qcalls' \in [Slots -> QCall]
        /\ qcalls'[s] = q
        /\ \A t \in Slots : t # s => qcalls'[t] = qcalls[t]
    BY <1>1
  <1>3. ASSUME NEW t \in Slots
        PROVE  CallFits(qcalls'[t], requests', responses', decided')
    <2>1. CASE t = s
      BY <1>2, <2>1
    <2>2. CASE t # s
      <3>1. qcalls[t] \in QCall /\ CallFits(qcalls[t], requests, responses, decided)
        BY <1>1 DEF QInv
      <3>2. CallFits(qcalls[t], requests', responses', decided')
        BY <1>1, <3>1, FitsGrows
      <3>3. QED
        BY <1>2, <2>2, <3>2
    <2>3. QED
      BY <2>1, <2>2
  <1>4. ASSUME NEW t \in Slots, t # s, Opening(q), Opening(qcalls[t])
        PROVE  q.decision # qcalls[t].decision
    <2>1. CASE Opening(qcalls[s]) /\ qcalls[s].decision = q.decision
      BY <1>4, <2>1 DEF QInv, DecisionsApart
    <2>2. CASE decided[q.decision] = None
      <3>1. decided[qcalls[t].decision] =
              [response |-> qcalls[t].response, outcome |-> "accepted"]
            /\ qcalls[t].decision \in DecisionIds /\ qcalls[t].response \in ResponseIds
        BY <1>4 DEF QInv, CallFits, Opening
      <3>2. decided[qcalls[t].decision] # None
        BY <1>1, <3>1, EngineAssumption DEF DecisionMade
      <3>3. QED
        BY <2>2, <3>2
    <2>3. QED
      BY <1>4, <2>1, <2>2
  <1>5. DecisionsApart'
    <2> SUFFICES ASSUME NEW t \in Slots, NEW v \in Slots,
                        Opening(qcalls'[t]), Opening(qcalls'[v]),
                        qcalls'[t].decision = qcalls'[v].decision
                 PROVE  t = v
      BY DEF DecisionsApart, Opening
    <2>1. CASE t = s /\ v # s
      BY <1>2, <1>4, <2>1
    <2>2. CASE t # s /\ v = s
      BY <1>2, <1>4, <2>2
    <2>3. CASE t # s /\ v # s
      BY <1>2, <2>3 DEF QInv, DecisionsApart
    <2>4. QED
      BY <2>1, <2>2, <2>3
  <1>6. QED
    BY <1>2, <1>3, <1>5 DEF QInv

\* The steps that change no map.
LEMMA QuietStep ==
  ASSUME QInv, NEW s \in Slots, NEW q \in QCall, Await(s, q), UNCHANGED qstore,
         qheard' \subseteq (Subscribed \X Ids),
         CallFits(q, requests, responses, decided),
         Opening(q) => Opening(qcalls[s]) /\ qcalls[s].decision = q.decision
  PROVE  QInv'
  <1>1. UNCHANGED <<requests, responses, decisions, decided>>
    BY DEF qstore
  <1>2. StoreTypes' /\ QGrows /\ ResponsesAnswer'
    BY <1>1 DEF QInv, StoreTypes, QGrows, Written, ResponsesAnswer
  <1>3. CallFits(q, requests', responses', decided')
    BY <1>1
  <1>4. QED
    BY <1>2, <1>3, QuoteStep

\* Steps after which the quote part of the call is over.
LEMMA ReturnStep ==
  ASSUME QInv, NEW s \in Slots, Return(s), UNCHANGED qstore,
         qheard' \subseteq (Subscribed \X Ids)
  PROVE  QInv'
  BY NoQCallFits, QuietStep DEF Return

LEMMA EmitKeepsType ==
  ASSUME QInv, NEW type, NEW id \in Ids, Emit(type, id)
  PROVE  qheard' \subseteq (Subscribed \X Ids)
  BY DEF QInv, Emit

-------------------------------------------------------------------------------
(***************************************************************************)
(* QInv is inductive: one lemma per kind of step.                          *)
(***************************************************************************)

\* The steps that begin a call by reading, and those that return or go on
\* without writing.
LEMMA ReadSteps ==
  ASSUME QInv, NEW s \in Slots,
         \/ \E q \in RequestIds, p \in Parties, give, receive \in Goods :
              RespondRead(s, q, p, give, receive)
         \/ \E r \in ResponseIds : AcceptRead(s, r) \/ RejectRead(s, r)
         \/ AcceptReread(s) \/ AcceptReadRequest(s)
  PROVE  QInv'
  <1> DEFINE c == qcalls[s]
  <1>1. /\ StoreTypes
        /\ c \in QCall
        /\ CallFits(c, requests, responses, decided)
        /\ qheard \subseteq (Subscribed \X Ids)
    BY DEF QInv
  <1>2. ASSUME NEW q \in RequestIds, NEW p \in Parties, NEW give \in Goods,
               NEW receive \in Goods, RespondRead(s, q, p, give, receive)
        PROVE  QInv'
    <2> DEFINE resp == [request |-> q, counterparty |-> p, give |-> give, receive |-> receive]
               call == [NoQCall EXCEPT !.at = "respond-save", !.req = requests[q],
                                       !.resp = resp]
    <2>1. resp \in Response /\ resp.request = q
      BY DEF Response
    <2>2. Await(s, call) /\ UNCHANGED qstore /\ qheard' = qheard
      BY <1>2 DEF RespondRead
    <2> HIDE DEF resp
    <2>3. /\ call \in QCall
          /\ call.at = "respond-save" /\ call.req = requests[q] /\ call.resp = resp
      BY <1>1, <2>1 DEF NoQCall, QCall, ResumePoint, StoreTypes
    <2> HIDE DEF call
    <2>4. CallFits(call, requests, responses, decided) /\ ~Opening(call)
      BY <2>1, <2>3 DEF CallFits, Opening
    <2>5. QED
      BY <1>1, <2>2, <2>3, <2>4, QuietStep
  <1>3. ASSUME NEW r \in ResponseIds, NEW point \in {"accept-response", "reject-decide"},
               Await(s, [NoQCall EXCEPT !.at = point, !.response = r, !.resp = responses[r]]),
               UNCHANGED <<qstore, qheard>>
        PROVE  QInv'
    <2> DEFINE call == [NoQCall EXCEPT !.at = point, !.response = r, !.resp = responses[r]]
    <2>1. call \in QCall /\ call.at = point /\ call.response = r /\ call.resp = responses[r]
      BY <1>1 DEF NoQCall, QCall, ResumePoint, StoreTypes
    <2>2. Await(s, call)
      BY <1>3
    <2> HIDE DEF call
    <2>3. CallFits(call, requests, responses, decided) /\ ~Opening(call)
      BY <2>1 DEF CallFits, Opening
    <2>4. QED
      BY <1>1, <1>3, <2>1, <2>2, <2>3, QuietStep
  <1>4. CASE AcceptReread(s)
    <2> DEFINE call == [c EXCEPT !.at = "accept-decide"]
    <2>1. /\ call \in QCall
          /\ call.at = "accept-decide" /\ call.response = c.response /\ call.resp = c.resp
      BY <1>1 DEF QCall, ResumePoint
    <2>2. /\ Await(s, call) /\ UNCHANGED qstore /\ qheard' = qheard
          /\ c.at = "accept-response" /\ c.resp # None
      BY <1>4 DEF AcceptReread, At
    <2> HIDE DEF call
    <2>3. CallFits(call, requests, responses, decided) /\ ~Opening(call)
      BY <1>1, <2>1, <2>2 DEF CallFits, Opening
    <2>4. QED
      BY <1>1, <2>1, <2>2, <2>3, QuietStep
  <1>5. CASE AcceptReadRequest(s)
    <2> DEFINE call == [c EXCEPT !.at = "accept-create", !.req = requests[c.resp.request]]
    <2>1. c.at = "accept-request" /\ Opening(c)
      BY <1>5 DEF AcceptReadRequest, At, Opening
    <2>2. /\ c.response \in ResponseIds
          /\ c.resp # None /\ c.resp \in Response /\ responses[c.response] = c.resp
          /\ c.decision \in DecisionIds
          /\ decided[c.decision] = [response |-> c.response, outcome |-> "accepted"]
      BY <1>1, <2>1 DEF CallFits, QCall
    <2>3. requests[c.resp.request] # None /\ requests[c.resp.request] \in Request
      BY <1>1, <2>2 DEF QInv, ResponsesAnswer, StoreTypes, Response
    <2>4. /\ call \in QCall
          /\ call.at = "accept-create" /\ call.response = c.response
          /\ call.resp = c.resp /\ call.decision = c.decision
          /\ call.req = requests[c.resp.request]
      BY <1>1, <2>3 DEF QCall, ResumePoint
    <2>5. Await(s, call) /\ UNCHANGED qstore /\ qheard' = qheard
      BY <1>5 DEF AcceptReadRequest
    <2> HIDE DEF call
    <2>6. CallFits(call, requests, responses, decided)
      BY <2>2, <2>3, <2>4 DEF CallFits, Opening
    <2>7. QED
      BY <1>1, <2>1, <2>4, <2>5, <2>6, QuietStep
  <1>6. QED
    <2>1. ASSUME NEW r \in ResponseIds, AcceptRead(s, r) \/ RejectRead(s, r)
          PROVE  QInv'
      BY <1>3, <2>1 DEF AcceptRead, RejectRead
    <2>2. QED
      BY <1>2, <1>4, <1>5, <2>1

LEMMA ReturnSteps ==
  ASSUME QInv, NEW s \in Slots,
         \/ RequestEmit(s) \/ RespondReject(s) \/ RespondEmit(s)
         \/ AcceptNotFound(s) \/ AcceptEmit(s) \/ RejectNotFound(s) \/ RejectEmit(s)
         \/ QuoteCallFails(s) \/ DealCallFails(s)
  PROVE  QInv'
  <1> DEFINE c == qcalls[s]
  <1>1. CallFits(c, requests, responses, decided) /\ qheard \subseteq (Subscribed \X Ids)
    BY DEF QInv
  <1>2. Return(s) /\ UNCHANGED qstore
    BY Zenon DEF RequestEmit, RespondReject, RespondEmit, AcceptNotFound, AcceptEmit,
       RejectNotFound, RejectEmit, QuoteCallFails, DealCallFails
  <1>3. CASE RequestEmit(s)
    <2>1. c.request \in Ids
      BY <1>1, <1>3 DEF RequestEmit, At, CallFits, Ids
    <2>2. QED
      BY <1>2, <1>3, <2>1, EmitKeepsType, ReturnStep DEF RequestEmit
  <1>4. CASE RespondEmit(s)
    <2>1. c.response \in Ids
      BY <1>1, <1>4 DEF RespondEmit, At, CallFits, Ids
    <2>2. QED
      BY <1>2, <1>4, <2>1, EmitKeepsType, ReturnStep DEF RespondEmit
  <1>5. CASE AcceptEmit(s)
    <2>1. c.deal \in Ids
      BY <1>1, <1>5 DEF AcceptEmit, At, CallFits, Ids
    <2>2. QED
      BY <1>2, <1>5, <2>1, EmitKeepsType, ReturnStep DEF AcceptEmit
  <1>6. CASE RejectEmit(s)
    <2>1. c.decision \in Ids
      BY <1>1, <1>6 DEF RejectEmit, At, CallFits, Ids
    <2>2. QED
      BY <1>2, <1>6, <2>1, EmitKeepsType, ReturnStep DEF RejectEmit
  <1>7. CASE UNCHANGED qheard
    <2>1. qheard' \subseteq (Subscribed \X Ids)
      BY <1>1, <1>7
    <2>2. QED
      BY <1>2, <2>1, ReturnStep
  <1>8. QED
    BY <1>3, <1>4, <1>5, <1>6, <1>7, Zenon DEF RespondReject, AcceptNotFound, RejectNotFound,
       QuoteCallFails, DealCallFails

LEMMA RequestSaved ==
  ASSUME QInv, NEW s \in Slots, NEW q \in RequestIds, NEW request \in Request,
         RequestQuote(s, q, request)
  PROVE  QInv'
  <1> DEFINE call == [NoQCall EXCEPT !.at = "request-emit", !.request = q]
  <1>1. /\ StoreTypes /\ request # None /\ requests[q] = None
        /\ requests' = [requests EXCEPT ![q] = request]
        /\ UNCHANGED <<responses, decisions, decided, qheard>>
        /\ Await(s, call)
    BY EngineAssumption DEF QInv, RequestQuote, SaveQuoteRequest
  <1>2. StoreTypes' /\ QGrows
    BY <1>1 DEF StoreTypes, QGrows, Written
  <1>3. ResponsesAnswer'
    <2>1. \A r \in ResponseIds : responses[r] # None => responses[r].request \in RequestIds
      BY <1>1 DEF StoreTypes, Response
    <2>2. QED
      BY <1>1, <1>2, <2>1 DEF QInv, ResponsesAnswer, QGrows, Written, StoreTypes
  <1>4. call \in QCall /\ call.at = "request-emit" /\ call.request = q
    BY DEF NoQCall, QCall, ResumePoint
  <1> HIDE DEF call
  <1>5. CallFits(call, requests', responses', decided') /\ ~Opening(call)
    BY <1>4 DEF CallFits, Opening
  <1>6. qheard' \subseteq (Subscribed \X Ids)
    BY <1>1 DEF QInv
  <1>7. QED
    BY <1>1, <1>2, <1>3, <1>4, <1>5, <1>6, QuoteStep

\* The request was read before the response is saved, and it is the request the
\* response names.
LEMMA ResponseSaved ==
  ASSUME QInv, NEW s \in Slots, NEW r \in ResponseIds, RespondSave(s, r)
  PROVE  QInv'
  <1> DEFINE c == qcalls[s]
             call == [NoQCall EXCEPT !.at = "respond-emit", !.response = r]
  <1>1. /\ StoreTypes /\ responses[r] = None
        /\ c.at = "respond-save" /\ Addressed(c)
        /\ responses' = [responses EXCEPT ![r] = c.resp]
        /\ UNCHANGED <<requests, decisions, decided, qheard>>
        /\ Await(s, call)
    BY DEF QInv, RespondSave, SaveQuoteResponse, At
  <1>2. /\ c.resp \in Response /\ c.resp # None
        /\ c.req # None /\ requests[c.resp.request] = c.req
        /\ c.req.counterparty = c.resp.counterparty
    BY <1>1, EngineAssumption DEF QInv, CallFits, Addressed
  <1>3. StoreTypes' /\ QGrows
    BY <1>1, <1>2 DEF StoreTypes, QGrows, Written
  <1>4. ResponsesAnswer'
    BY <1>1, <1>2 DEF QInv, ResponsesAnswer, StoreTypes
  <1>5. call \in QCall /\ call.at = "respond-emit" /\ call.response = r
    BY DEF NoQCall, QCall, ResumePoint
  <1> HIDE DEF call
  <1>6. CallFits(call, requests', responses', decided') /\ ~Opening(call)
    BY <1>5 DEF CallFits, Opening
  <1>7. qheard' \subseteq (Subscribed \X Ids)
    BY <1>1 DEF QInv
  <1>8. QED
    BY <1>1, <1>3, <1>4, <1>5, <1>6, <1>7, QuoteStep

\* A decision is saved at a fresh identifier, so no other call can hold it.
LEMMA DecisionSaved ==
  ASSUME QInv, NEW s \in Slots, NEW x \in DecisionIds, AcceptDecide(s, x) \/ RejectDecide(s, x)
  PROVE  QInv'
  <1> DEFINE c == qcalls[s]
  <1>1. PICK outcome \in {"accepted", "rejected"} :
          /\ decided[x] = None
          /\ decisions' = [decisions EXCEPT ![c.response] = [id |-> x, outcome |-> outcome]]
          /\ decided' = [decided EXCEPT ![x] = [response |-> c.response, outcome |-> outcome]]
          /\ UNCHANGED <<requests, responses, qheard>>
          /\ AcceptDecide(s, x) => outcome = "accepted"
    BY DEF AcceptDecide, RejectDecide, SaveQuoteDecision
  <1>2. /\ StoreTypes
        /\ c \in QCall
        /\ CallFits(c, requests, responses, decided)
        /\ c.at \in {"accept-decide", "reject-decide"}
        /\ c.response \in ResponseIds
    BY DEF QInv, AcceptDecide, RejectDecide, At, CallFits
  <1>3. StoreTypes' /\ QGrows
    BY <1>1, <1>2 DEF StoreTypes, QGrows, Written, Decision, DecisionMade
  <1>4. ResponsesAnswer' /\ qheard' \subseteq (Subscribed \X Ids)
    BY <1>1 DEF QInv, ResponsesAnswer
  <1>5. CASE AcceptDecide(s, x)
    <2> DEFINE call == [c EXCEPT !.at = "accept-request", !.decision = x]
    <2>1. /\ call \in QCall
          /\ call.at = "accept-request" /\ call.response = c.response
          /\ call.resp = c.resp /\ call.decision = x
      BY <1>2 DEF QCall, ResumePoint
    <2>2. Await(s, call) /\ c.at = "accept-decide"
      BY <1>5 DEF AcceptDecide, At
    <2>3. c.resp # None /\ responses[c.response] = c.resp
      BY <1>2, <2>2 DEF CallFits
    <2>4. decided'[x] = [response |-> c.response, outcome |-> "accepted"]
      BY <1>1, <1>2, <1>5 DEF StoreTypes
    <2> HIDE DEF call
    <2>5. CallFits(call, requests', responses', decided')
      BY <1>1, <1>2, <2>1, <2>3, <2>4 DEF CallFits, Opening
    <2>6. QED
      BY <1>1, <1>3, <1>4, <2>1, <2>2, <2>5, QuoteStep
  <1>6. CASE RejectDecide(s, x)
    <2> DEFINE call == [NoQCall EXCEPT !.at = "reject-emit", !.decision = x]
    <2>1. call \in QCall /\ call.at = "reject-emit" /\ call.decision = x
      BY DEF NoQCall, QCall, ResumePoint
    <2>2. Await(s, call)
      BY <1>6 DEF RejectDecide
    <2> HIDE DEF call
    <2>3. CallFits(call, requests', responses', decided') /\ ~Opening(call)
      BY <2>1 DEF CallFits, Opening
    <2>4. QED
      BY <1>3, <1>4, <2>1, <2>2, <2>3, QuoteStep
  <1>7. QED
    BY <1>5, <1>6

\* acceptQuote opens its deal: the quote part waits for the deal part.
LEMMA DealOpened ==
  ASSUME QInv, NEW s \in Slots, NEW d \in DealIds, AcceptCreateDeal(s, d)
  PROVE  QInv'
  <1> DEFINE c == qcalls[s]
             call == [c EXCEPT !.at = "accept-wait", !.deal = d]
  <1>1. /\ c \in QCall
        /\ c.at = "accept-create" /\ c.response \in ResponseIds
        /\ qheard \subseteq (Subscribed \X Ids)
    BY DEF QInv, AcceptCreateDeal, At, CallFits
  <1>2. Await(s, call) /\ UNCHANGED qstore /\ qheard' = qheard
    BY DEF AcceptCreateDeal
  <1>3. /\ call \in QCall
        /\ call.at = "accept-wait" /\ call.deal = d /\ call.response = c.response
    BY <1>1 DEF QCall, ResumePoint
  <1> HIDE DEF call
  <1>4. CallFits(call, requests, responses, decided) /\ ~Opening(call)
    BY <1>1, <1>3 DEF CallFits, Opening
  <1>5. QED
    BY <1>1, <1>2, <1>3, <1>4, QuietStep

LEMMA QNext ==
  ASSUME QInv, [Next]_vars
  PROVE  QInv'
  <1>1. CASE UNCHANGED qvars
    BY <1>1 DEF qvars, qstore, QInv, StoreTypes, ResponsesAnswer, DecisionsApart, Opening,
                CallFits
  <1>2. CASE Next
    <2>1. PICK s \in Slots :
            \/ BeginQuote(s) \/ ResumeQuote(s) \/ BeginDeal(s) \/ ResumeDeal(s)
            \/ QuoteCallFails(s) \/ DealCallFails(s)
      BY <1>2 DEF Next
    <2>2. CASE BeginQuote(s)
      BY <2>2, ReadSteps, RequestSaved DEF BeginQuote
    <2>3. CASE ResumeQuote(s)
      BY <2>3, ReadSteps, ReturnSteps, ResponseSaved, DecisionSaved, DealOpened, Zenon
         DEF ResumeQuote
    <2>4. CASE BeginDeal(s) \/ ResumeDeal(s)
      BY <1>1, <2>4, Zenon DEF BeginDeal, ResumeDeal
    <2>5. CASE QuoteCallFails(s) \/ DealCallFails(s)
      BY <2>5, ReturnSteps
    <2>6. QED
      BY <2>1, <2>2, <2>3, <2>4, <2>5
  <1>3. QED
    BY <1>1, <1>2 DEF vars

\* However calls interleave and fail, what acceptQuote and respondToQuote read
\* before an await is still what the store holds, every stored response answers a
\* stored request, and no decision is in the hands of two calls.
THEOREM EngineInvariant == Spec => []QInv
  BY QInit, QNext, PTL DEF Spec

\* acceptQuote always finds the request of the response it accepts.
THEOREM RequestIsFound == Spec => []AcceptFindsRequest
  <1>1. QInv => AcceptFindsRequest
    BY DEF QInv, CallFits, AcceptFindsRequest, At
  <1>2. QED
    BY <1>1, EngineInvariant, PTL

-------------------------------------------------------------------------------
(***************************************************************************)
(* The engine takes only steps of DealService.                             *)
(***************************************************************************)

\* The terms acceptQuote hands to createDealFromAcceptance are terms of a deal.
LEMMA AcceptedTermsType ==
  ASSUME QInv, NEW s \in Slots, qcalls[s].at = "accept-create"
  PROVE  AcceptedTerms(qcalls[s]) \in DealTerms
  <1> DEFINE c == qcalls[s]
  <1>1. /\ c \in QCall /\ CallFits(c, requests, responses, decided)
        /\ requests \in [RequestIds -> Request \cup {None}]
    BY DEF QInv, StoreTypes
  <1>2. /\ c.response \in ResponseIds /\ c.decision \in DecisionIds
        /\ c.resp \in Response /\ c.req # None
    BY <1>1 DEF CallFits, Opening, QCall
  <1>3. c.req \in Request
    BY <1>1, <1>2 DEF QCall
  <1>4. QED
    BY <1>2, <1>3 DEF AcceptedTerms, DealTerms, Request, Response

LEMMA StepOfDealService ==
  ASSUME QInv, [Next]_vars
  PROVE  [DS!Next]_dvars
  <1>1. CASE UNCHANGED vars
    BY <1>1 DEF vars
  <1>2. CASE Next
    <2>1. PICK s \in Slots :
            \/ BeginQuote(s) \/ ResumeQuote(s) \/ BeginDeal(s) \/ ResumeDeal(s)
            \/ QuoteCallFails(s) \/ DealCallFails(s)
      BY <1>2 DEF Next
    <2>2. CASE \E d \in DealIds : AcceptCreateDeal(s, d)
      <3>1. PICK d \in DealIds : AcceptCreateDeal(s, d)
        BY <2>2
      <3>2. AcceptedTerms(qcalls[s]) \in DealTerms
        BY <3>1, AcceptedTermsType DEF AcceptCreateDeal, At
      <3>3. DS!CreateDeal(s, d, AcceptedTerms(qcalls[s]))
        BY <3>1, Zenon DEF AcceptCreateDeal
      <3>4. DS!Create(s)
        BY <3>2, <3>3, Zenon DEF DS!Create
      <3>5. QED
        BY <3>4, Zenon DEF DS!Next
    <2>3. CASE BeginDeal(s) \/ ResumeDeal(s) \/ DealCallFails(s)
      BY <2>3, Zenon DEF BeginDeal, ResumeDeal, DealCallFails, DS!Next
    <2>4. CASE UNCHANGED dvars
      BY <2>4
    <2>5. BeginQuote(s) \/ QuoteCallFails(s) => UNCHANGED dvars
      BY Zenon DEF BeginQuote, QuoteCallFails, RequestQuote, RespondRead, AcceptRead, RejectRead
    <2>6. ResumeQuote(s) => UNCHANGED dvars \/ \E d \in DealIds : AcceptCreateDeal(s, d)
      BY Zenon DEF ResumeQuote, RequestEmit, RespondReject, RespondSave, RespondEmit,
         AcceptNotFound, AcceptReread, AcceptDecide, AcceptReadRequest, AcceptEmit,
         RejectNotFound, RejectDecide, RejectEmit
    <2>7. QED
      BY <2>1, <2>2, <2>3, <2>4, <2>5, <2>6
  <1>3. QED
    BY <1>1, <1>2

-------------------------------------------------------------------------------
(***************************************************************************)
(* The theorems of DealService_proofs, for the deal part of the engine.    *)
(* DS and DSP are two instances of DealService with the same arguments, so *)
(* every definition of one is the definition of the other.                 *)
(***************************************************************************)

DSP == INSTANCE DealService_proofs WITH
         Terms <- DealTerms,
         UnsettleableTerms <- {t \in DealTerms : \/ t.give \in UnparsableGoods
                                                 \/ t.receive \in UnparsableGoods}

LEMMA DealPartAssumption ==
  /\ {t \in DealTerms : t.give \in UnparsableGoods \/ t.receive \in UnparsableGoods}
       \subseteq DealTerms
  /\ CallerEvents \subseteq DSP!DealEvent
  /\ Verdicts \subseteq BOOLEAN
  /\ InstructableStates \subseteq DSP!DealState
  /\ Faults \in BOOLEAN
  /\ None \notin DealIds \cup InstrIds \cup DealTerms \cup DSP!DealEvent
  BY EngineAssumption DEF DS!DealEvent, DSP!DealEvent, DS!DealState, DSP!DealState

LEMMA DealPartNone ==
  /\ None \notin DSP!Deal /\ None \notin DSP!Instruction
  /\ None \notin DSP!ApprovalStatus \cup DSP!DealState
  BY EngineAssumption, Zenon DEF DS!Deal, DSP!Deal, DS!Instruction, DSP!Instruction,
     DS!DealState, DSP!DealState, DS!ApprovalStatus, DSP!ApprovalStatus

LEMMA SameCreate ==
  ASSUME NEW s, DS!Create(s)
  PROVE  DSP!Create(s)
  BY DEF DS!Create, DSP!Create, DS!CreateDeal, DSP!CreateDeal, DS!SaveDeal, DSP!SaveDeal,
     DS!At, DSP!At, DS!Await, DSP!Await, DS!NoCall, DSP!NoCall, DS!listener, DSP!listener

LEMMA SameBegin ==
  ASSUME NEW s, DS!Begin(s)
  PROVE  DSP!Begin(s)
  <1> USE DEF DS!At, DSP!At, DS!Await, DSP!Await, DS!NoCall, DSP!NoCall,
              DS!store, DSP!store, DS!listener, DSP!listener
  <1>1. \A d, event : DS!TransitionRead(s, d, event) => DSP!TransitionRead(s, d, event)
    BY DEF DS!TransitionRead, DSP!TransitionRead
  <1>2. \A d, passed : DS!CheckRead(s, d, passed) => DSP!CheckRead(s, d, passed)
    BY DEF DS!CheckRead, DSP!CheckRead
  <1>3. \A d, a, status : DS!ApprovalWrite(s, d, a, status) => DSP!ApprovalWrite(s, d, a, status)
    BY DEF DS!ApprovalWrite, DSP!ApprovalWrite, DS!SaveLegApproval, DSP!SaveLegApproval
  <1>4. ASSUME NEW d, DS!InstructRead(s, d)
        PROVE  DSP!InstructRead(s, d)
    BY <1>4 DEF DS!InstructRead, DSP!InstructRead, DS!RoomForInstruction,
       DSP!RoomForInstruction, DS!Cardinality, DSP!Cardinality
  <1>5. DS!RecordedStatus = DSP!RecordedStatus
    BY DEF DS!RecordedStatus, DSP!RecordedStatus
  <1> HIDE DEF DS!At, DSP!At, DS!Await, DSP!Await, DS!NoCall, DSP!NoCall,
               DS!store, DSP!store, DS!listener, DSP!listener
  <1>6. QED
    BY <1>1, <1>2, <1>3, <1>4, <1>5, Zenon DEF DS!Begin, DSP!Begin

LEMMA SameResume ==
  ASSUME NEW s, DS!Resume(s)
  PROVE  DSP!Resume(s)
  <1> USE DEF DS!At, DSP!At, DS!Await, DSP!Await, DS!Return, DSP!Return, DS!NoCall, DSP!NoCall,
              DS!store, DSP!store, DS!listener, DSP!listener
  <1>1. DS!CreateDealEmit(s) => DSP!CreateDealEmit(s)
    BY DEF DS!CreateDealEmit, DSP!CreateDealEmit, DS!EmitStateChanged, DSP!EmitStateChanged
  <1>2. /\ DS!TransitionReject(s) => DSP!TransitionReject(s)
        /\ DS!TransitionWrite(s) => DSP!TransitionWrite(s)
    BY DEF DS!TransitionReject, DSP!TransitionReject, DS!TransitionWrite, DSP!TransitionWrite,
       DS!Admitted, DSP!Admitted, DS!CanTransition, DSP!CanTransition,
       DS!STATE_TRANSITIONS, DSP!STATE_TRANSITIONS, DS!UpdateDeal, DSP!UpdateDeal,
       DS!GetTargetState, DSP!GetTargetState, DS!EVENT_TO_STATE, DSP!EVENT_TO_STATE
  <1>3. DS!TransitionEmit(s) => DSP!TransitionEmit(s)
    BY DEF DS!TransitionEmit, DSP!TransitionEmit, DS!Emit, DSP!Emit, DS!FollowUp, DSP!FollowUp,
       DS!EmitStateChanged, DSP!EmitStateChanged
  <1>4. /\ DS!CheckReject(s) => DSP!CheckReject(s)
        /\ DS!CheckWrite(s) => DSP!CheckWrite(s)
        /\ DS!CheckEmit(s) => DSP!CheckEmit(s)
    BY DEF DS!CheckReject, DSP!CheckReject, DS!CheckWrite, DSP!CheckWrite, DS!CheckEmit,
       DSP!CheckEmit, DS!SavePreSettlementCheck, DSP!SavePreSettlementCheck, DS!Emit, DSP!Emit
  <1>5. DS!ApprovalEmit(s) => DSP!ApprovalEmit(s)
    BY DEF DS!ApprovalEmit, DSP!ApprovalEmit, DS!Emit, DSP!Emit
  <1>6. /\ DS!InstructNotFound(s) => DSP!InstructNotFound(s)
        /\ DS!InstructReadChecks(s) => DSP!InstructReadChecks(s)
        /\ DS!InstructUnsettleable(s) => DSP!InstructUnsettleable(s)
    BY DEF DS!InstructNotFound, DSP!InstructNotFound, DS!InstructReadChecks,
       DSP!InstructReadChecks, DS!ChecksPassed, DSP!ChecksPassed,
       DS!InstructUnsettleable, DSP!InstructUnsettleable
  <1>7. DS!InstructReadApprovals(s) => DSP!InstructReadApprovals(s)
    BY DEF DS!InstructReadApprovals, DSP!InstructReadApprovals, DS!ApprovalsComplete,
       DSP!ApprovalsComplete, DS!Cardinality, DSP!Cardinality
  <1>8. \A i : DS!InstructSave(s, i) => DSP!InstructSave(s, i)
    BY DEF DS!InstructSave, DSP!InstructSave, DS!SaveSettlementInstruction,
       DSP!SaveSettlementInstruction
  <1>9. DS!InstructUpdateDeal(s) => DSP!InstructUpdateDeal(s)
    BY DEF DS!InstructUpdateDeal, DSP!InstructUpdateDeal, DS!UpdateDeal, DSP!UpdateDeal
  <1>10. DS!InstructEmit(s) => DSP!InstructEmit(s)
    BY DEF DS!InstructEmit, DSP!InstructEmit, DS!Emit, DSP!Emit
  <1> HIDE DEF DS!At, DSP!At, DS!Await, DSP!Await, DS!Return, DSP!Return, DS!NoCall, DSP!NoCall,
               DS!store, DSP!store, DS!listener, DSP!listener
  <1>11. QED
    BY <1>1, <1>2, <1>3, <1>4, <1>5, <1>6, <1>7, <1>8, <1>9, <1>10, Zenon
       DEF DS!Resume, DSP!Resume

LEMMA SameFail ==
  ASSUME NEW s, DS!Fail(s)
  PROVE  DSP!Fail(s)
  BY DEF DS!Fail, DSP!Fail, DS!CallFails, DSP!CallFails, DS!HandlerThrows, DSP!HandlerThrows,
     DS!At, DSP!At, DS!Await, DSP!Await, DS!Return, DSP!Return, DS!NoCall, DSP!NoCall,
     DS!store, DSP!store, DS!listener, DSP!listener, DS!EmitStateChanged, DSP!EmitStateChanged

LEMMA SameNext == [DS!Next]_dvars => [DSP!Next]_DSP!vars
  <1>1. DS!Next => DSP!Next
    BY SameCreate, SameBegin, SameResume, SameFail, Zenon DEF DS!Next, DSP!Next
  <1>2. UNCHANGED dvars => UNCHANGED DSP!vars
    BY DEF dvars, DSP!vars, DSP!store, DSP!listener
  <1>3. QED
    BY <1>1, <1>2

LEMMA SameInit == DS!Init => DSP!Init
  BY DEF DS!Init, DSP!Init, DS!NoCall, DSP!NoCall

LEMMA SameTypes == DSP!TypeOK => DS!TypeOK
  BY DEF DS!TypeOK, DSP!TypeOK, DS!Deal, DSP!Deal, DS!Instruction, DSP!Instruction,
     DS!ApprovalStatus, DSP!ApprovalStatus, DS!Call, DSP!Call, DS!ResumePoint, DSP!ResumePoint,
     DS!DealState, DSP!DealState, DS!DealEvent, DSP!DealEvent

\* Inside the engine the invariant of DealService holds.
LEMMA DealPartInvariant == Spec => []DSP!DealInv
  <1>1. Init => DSP!DealInv
    <2>1. Init => DSP!Init
      BY SameInit DEF Init
    <2>2. QED
      BY <2>1, DSP!InitInv, DealPartAssumption, DealPartNone
  <1>2. QInv /\ DSP!DealInv /\ [Next]_vars => DSP!DealInv'
    <2>1. QInv /\ [Next]_vars => [DSP!Next]_DSP!vars
      BY StepOfDealService, SameNext
    <2>2. QED
      BY <2>1, DSP!NextInv, DealPartAssumption, DealPartNone
  <1>3. QED
    BY <1>1, <1>2, EngineInvariant, PTL DEF Spec

\* Every variable keeps its type: a call that resumes finds what it has read.
THEOREM EngineTypes == Spec => []TypeOK
  <1>1. QInv /\ DSP!DealInv => TypeOK
    BY SameTypes DEF QInv, StoreTypes, Ids, TypeOK, DSP!DealInv
  <1>2. QED
    BY <1>1, EngineInvariant, DealPartInvariant, PTL

-------------------------------------------------------------------------------
(***************************************************************************)
(* The two parts together.                                                 *)
(***************************************************************************)

\* A decision that a call is about to open a deal on has no deal yet.
DecisionsUnused ==
  \A s \in Slots : Opening(qcalls[s]) =>
    \A d \in DealIds : deals[d] # None => deals[d].terms.decision # qcalls[s].decision

\* The deal a call of acceptQuote waits for is stored, and announced unless the
\* deal part is still about to do it.
Announces(an, call, d) ==
  "deal_state_changed" \in Subscribed =>
    \/ an[d] # None
    \/ call.at = "create-emit" /\ call.deal = d

WaitsForDeal ==
  \A s \in Slots : qcalls[s].at = "accept-wait" =>
    deals[qcalls[s].deal] # None /\ Announces(announced, calls[s], qcalls[s].deal)

\* DealMatchesQuote, and more: what the requester gives is always what it asked to.
DealFromQuote ==
  \A d \in DealIds : deals[d] # None =>
    LET t == deals[d].terms
    IN  /\ requests[t.request] # None
        /\ responses[t.response] # None
        /\ responses[t.response].request = t.request
        /\ responses[t.response].counterparty = requests[t.request].counterparty
        /\ t.give = requests[t.request].give
        /\ t.receive = responses[t.response].give

JointInv ==
  /\ DealFromQuote
  /\ DecisionBacksOneDeal
  /\ AcceptedHeardInOrder
  /\ DecisionsUnused
  /\ WaitsForDeal

\* What a step does to the deals: acceptQuote opens one at a fresh identifier,
\* or the deals stay with their terms.
OpensFor(s, d) ==
  /\ qcalls[s].at = "accept-create"
  /\ deals[d] = None
  /\ deals' = [deals EXCEPT ![d] = [state |-> "accepted", terms |-> AcceptedTerms(qcalls[s]),
                                    settlementInstructionId |-> None]]
  /\ calls'[s].at = "create-emit" /\ calls'[s].deal = d
  /\ qcalls'[s].at = "accept-wait" /\ qcalls'[s].deal = d
  /\ UNCHANGED <<requests, responses, decisions, decided, qheard>>

DealsKept ==
  \A d \in DealIds : /\ deals'[d] # None <=> deals[d] # None
                     /\ deals[d] # None => deals'[d].terms = deals[d].terms

LEMMA AcceptOpens ==
  ASSUME QInv, DSP!DealInv, NEW s \in Slots, NEW d \in DealIds, AcceptCreateDeal(s, d)
  PROVE  OpensFor(s, d)
  <1>1. calls \in [Slots -> DSP!Call] /\ qcalls \in [Slots -> QCall]
    BY DEF QInv, DSP!DealInv, DSP!TypeOK
  <1>2. /\ qcalls[s].at = "accept-create"
        /\ deals[d] = None
        /\ deals' = [deals EXCEPT ![d] = [state |-> "accepted",
                                          terms |-> AcceptedTerms(qcalls[s]),
                                          settlementInstructionId |-> None]]
        /\ calls' = [calls EXCEPT ![s] = [DS!NoCall EXCEPT !.at = "create-emit", !.deal = d]]
        /\ qcalls' = [qcalls EXCEPT ![s] = [qcalls[s] EXCEPT !.at = "accept-wait", !.deal = d]]
        /\ UNCHANGED <<requests, responses, decisions, decided, qheard>>
    BY Zenon DEF AcceptCreateDeal, At, Await, DS!CreateDeal, DS!SaveDeal, DS!Await, qstore
  <1>3. calls'[s].at = "create-emit" /\ calls'[s].deal = d
    BY <1>1, <1>2 DEF DS!NoCall
  <1>4. qcalls'[s].at = "accept-wait" /\ qcalls'[s].deal = d
    <2>1. qcalls'[s] = [qcalls[s] EXCEPT !.at = "accept-wait", !.deal = d]
          /\ qcalls[s] \in QCall
      BY <1>1, <1>2
    <2>2. QED
      BY <2>1 DEF QCall
  <1>5. QED
    BY <1>2, <1>3, <1>4 DEF OpensFor

LEMMA OtherStepsKeepDeals ==
  ASSUME DSP!DealInv, NEW s \in Slots,
         \/ BeginQuote(s) \/ ResumeQuote(s) \/ BeginDeal(s) \/ ResumeDeal(s)
         \/ QuoteCallFails(s) \/ DealCallFails(s),
         ~(\E d \in DealIds : AcceptCreateDeal(s, d))
  PROVE  DealsKept
  <1>1. \/ UNCHANGED dvars
        \/ DS!Begin(s) \/ DS!Resume(s) \/ DS!Fail(s)
    <2>1. BeginQuote(s) \/ QuoteCallFails(s) => UNCHANGED dvars
      BY Zenon DEF BeginQuote, QuoteCallFails, RequestQuote, RespondRead, AcceptRead, RejectRead
    <2>2. ResumeQuote(s) => UNCHANGED dvars
      BY Zenon DEF ResumeQuote, RequestEmit, RespondReject, RespondSave, RespondEmit,
         AcceptNotFound, AcceptReread, AcceptDecide, AcceptReadRequest, AcceptEmit,
         RejectNotFound, RejectDecide, RejectEmit
    <2>3. QED
      BY <2>1, <2>2, Zenon DEF BeginDeal, ResumeDeal, DealCallFails
  <1>2. CASE UNCHANGED dvars
    BY <1>2 DEF dvars, DealsKept
  <1>3. CASE DS!Begin(s) \/ DS!Resume(s) \/ DS!Fail(s)
    <2>1. DSP!Begin(s) \/ DSP!Resume(s) \/ DSP!Fail(s)
      BY <1>3, SameBegin, SameResume, SameFail
    <2>2. QED
      BY <2>1, DSP!OnlyCreateOpens, DealPartAssumption, DealPartNone DEF DealsKept
  <1>4. QED
    BY <1>1, <1>2, <1>3

\* A step leaves the calls in the other slots alone, both parts of them.
LEMMA OtherSlotsKept ==
  ASSUME QInv, DSP!DealInv, NEW s \in Slots, NEW t \in Slots, t # s,
         \/ BeginQuote(s) \/ ResumeQuote(s) \/ BeginDeal(s) \/ ResumeDeal(s)
         \/ QuoteCallFails(s) \/ DealCallFails(s)
  PROVE  qcalls'[t] = qcalls[t] /\ calls'[t] = calls[t]
  <1>1. (\E q : Await(s, q)) \/ UNCHANGED qcalls
    BY Zenon DEF BeginQuote, ResumeQuote, BeginDeal, ResumeDeal, QuoteCallFails, DealCallFails,
       RequestQuote, RespondRead, AcceptRead, RejectRead, RequestEmit, RespondReject,
       RespondSave, RespondEmit, AcceptNotFound, AcceptReread, AcceptDecide,
       AcceptReadRequest, AcceptCreateDeal, AcceptEmit, RejectNotFound, RejectDecide,
       RejectEmit, Return, qvars
  <1>2. qcalls'[t] = qcalls[t]
    BY <1>1 DEF QInv, Await
  <1>3. \/ UNCHANGED calls
        \/ DS!Create(s) \/ DS!Begin(s) \/ DS!Resume(s) \/ DS!Fail(s)
    <2>1. BeginQuote(s) \/ QuoteCallFails(s) => UNCHANGED calls
      BY Zenon DEF BeginQuote, QuoteCallFails, RequestQuote, RespondRead, AcceptRead,
         RejectRead, dvars
    <2>2. ResumeQuote(s) => UNCHANGED calls \/ DS!Create(s)
      <3>1. ASSUME NEW d \in DealIds, AcceptCreateDeal(s, d)
            PROVE  DS!Create(s)
        <4>1. AcceptedTerms(qcalls[s]) \in DealTerms
          BY <3>1, AcceptedTermsType DEF AcceptCreateDeal, At
        <4>2. QED
          BY <3>1, <4>1, Zenon DEF AcceptCreateDeal, DS!Create
      <3>2. QED
        BY <3>1, Zenon DEF ResumeQuote, RequestEmit, RespondReject, RespondSave, RespondEmit,
           AcceptNotFound, AcceptReread, AcceptDecide, AcceptReadRequest, AcceptEmit,
           RejectNotFound, RejectDecide, RejectEmit, dvars
    <2>3. QED
      BY <2>1, <2>2, Zenon DEF BeginDeal, ResumeDeal, DealCallFails
  <1>4. calls'[t] = calls[t]
    <2>1. CASE UNCHANGED calls
      BY <2>1
    <2>2. CASE DS!Create(s) \/ DS!Begin(s) \/ DS!Resume(s) \/ DS!Fail(s)
      <3>1. DSP!Create(s) \/ DSP!Begin(s) \/ DSP!Resume(s) \/ DSP!Fail(s)
        BY <2>2, SameCreate, SameBegin, SameResume, SameFail
      <3>2. DSP!TypeOK
        BY DEF DSP!DealInv
      <3>3. QED
        BY <3>1, <3>2, DSP!OtherCallsKept, DealPartAssumption, DealPartNone
    <2>3. QED
      BY <1>3, <2>1, <2>2
  <1>5. QED
    BY <1>2, <1>4

\* What was written of a quote stays as it was written.
LEMMA QuotesKept ==
  ASSUME QInv, NEW s \in Slots,
         \/ BeginQuote(s) \/ ResumeQuote(s) \/ BeginDeal(s) \/ ResumeDeal(s)
         \/ QuoteCallFails(s) \/ DealCallFails(s)
  PROVE  QGrows
  <1>1. StoreTypes
    BY DEF QInv
  <1>2. ASSUME NEW q \in RequestIds, NEW request, RequestQuote(s, q, request)
        PROVE  QGrows
    BY <1>1, <1>2 DEF RequestQuote, SaveQuoteRequest, StoreTypes, QGrows, Written
  <1>3. ASSUME NEW r \in ResponseIds, RespondSave(s, r)
        PROVE  QGrows
    BY <1>1, <1>3 DEF RespondSave, SaveQuoteResponse, StoreTypes, QGrows, Written
  <1>4. ASSUME NEW x \in DecisionIds, AcceptDecide(s, x) \/ RejectDecide(s, x)
        PROVE  QGrows
    <2>1. /\ decided[x] = None
          /\ \E made : decided' = [decided EXCEPT ![x] = made]
          /\ UNCHANGED <<requests, responses>>
      BY <1>4, Zenon DEF AcceptDecide, RejectDecide, SaveQuoteDecision
    <2>2. QED
      BY <1>1, <2>1 DEF StoreTypes, QGrows, Written
  <1>5. CASE UNCHANGED qstore
    BY <1>5 DEF qstore, QGrows, Written
  <1>6. BeginQuote(s) => UNCHANGED qstore \/ \E q \in RequestIds : \E request : RequestQuote(s, q, request)
    BY Zenon DEF BeginQuote, RespondRead, AcceptRead, RejectRead
  <1>7. ResumeQuote(s) => \/ UNCHANGED qstore
                          \/ \E r \in ResponseIds : RespondSave(s, r)
                          \/ \E x \in DecisionIds : AcceptDecide(s, x) \/ RejectDecide(s, x)
    BY Zenon DEF ResumeQuote, RequestEmit, RespondReject, RespondEmit, AcceptNotFound,
       AcceptReread, AcceptReadRequest, AcceptCreateDeal, AcceptEmit, RejectNotFound, RejectEmit
  <1>8. BeginDeal(s) \/ ResumeDeal(s) \/ QuoteCallFails(s) \/ DealCallFails(s) => UNCHANGED qstore
    BY Zenon DEF BeginDeal, ResumeDeal, QuoteCallFails, DealCallFails, qvars
  <1>9. QED
    BY <1>2, <1>3, <1>4, <1>5, <1>6, <1>7, <1>8

\* A call that is about to open a deal was so before the step, on the same
\* decision, or has just saved a decision at a fresh identifier.
LEMMA OpeningComesFrom ==
  ASSUME QInv, NEW s \in Slots, Opening(qcalls'[s]),
         \/ BeginQuote(s) \/ ResumeQuote(s) \/ BeginDeal(s) \/ ResumeDeal(s)
         \/ QuoteCallFails(s) \/ DealCallFails(s)
  PROVE  \/ Opening(qcalls[s]) /\ qcalls'[s].decision = qcalls[s].decision
         \/ decided[qcalls'[s].decision] = None
  <1> DEFINE c == qcalls[s]
  <1>1. qcalls \in [Slots -> QCall] /\ c \in QCall /\ \A q : Await(s, q) => qcalls'[s] = q
    BY DEF QInv, Await
  <1>2. ASSUME NEW x \in DecisionIds, AcceptDecide(s, x)
        PROVE  decided[qcalls'[s].decision] = None
    <2>1. decided[x] = None /\ qcalls'[s] = [c EXCEPT !.at = "accept-request", !.decision = x]
      BY <1>1, <1>2, Zenon DEF AcceptDecide
    <2>2. QED
      BY <1>1, <2>1 DEF QCall
  <1>3. ASSUME AcceptReadRequest(s)
        PROVE  Opening(c) /\ qcalls'[s].decision = c.decision
    <2>1. /\ c.at = "accept-request"
          /\ qcalls'[s] = [c EXCEPT !.at = "accept-create", !.req = requests[c.resp.request]]
      BY <1>1, <1>3, Zenon DEF AcceptReadRequest, At
    <2>2. QED
      BY <1>1, <2>1 DEF QCall, Opening
  <1>4. ~Return(s)
    BY <1>1, NoQCallFits, Zenon DEF Return
  <1>5. \A at \in {"request-emit", "respond-save", "respond-emit", "accept-response",
                   "accept-decide", "accept-wait", "reject-decide", "reject-emit"} :
          qcalls'[s].at # at
    BY DEF Opening
  <1>6. ~BeginQuote(s)
    <2>1. ASSUME NEW q, NEW request, RequestQuote(s, q, request)
          PROVE  FALSE
      BY <1>1, <1>5, <2>1 DEF RequestQuote, NoQCall
    <2>2. ASSUME NEW q, NEW p, NEW give, NEW receive, RespondRead(s, q, p, give, receive)
          PROVE  FALSE
      <3>1. PICK req, resp :
              qcalls'[s] = [NoQCall EXCEPT !.at = "respond-save", !.req = req, !.resp = resp]
        BY <1>1, <2>2, Zenon DEF RespondRead
      <3>2. QED
        BY <1>5, <3>1 DEF NoQCall
    <2>3. ASSUME NEW r, AcceptRead(s, r) \/ RejectRead(s, r)
          PROVE  FALSE
      BY <1>1, <1>5, <2>3 DEF AcceptRead, RejectRead, NoQCall
    <2>4. QED
      BY <2>1, <2>2, <2>3, Zenon DEF BeginQuote
  <1>7. ~(\E r : RespondSave(s, r))
    BY <1>1, <1>5 DEF RespondSave, NoQCall
  <1>8. ~AcceptReread(s)
    <2>1. AcceptReread(s) => qcalls'[s] = [c EXCEPT !.at = "accept-decide"]
      BY <1>1, Zenon DEF AcceptReread
    <2>2. QED
      BY <1>1, <1>5, <2>1 DEF QCall
  <1>9. ~(\E d : AcceptCreateDeal(s, d))
    <2>1. ASSUME NEW d, AcceptCreateDeal(s, d)
          PROVE  qcalls'[s] = [c EXCEPT !.at = "accept-wait", !.deal = d]
      BY <1>1, <2>1, Zenon DEF AcceptCreateDeal
    <2>2. QED
      BY <1>1, <1>5, <2>1 DEF QCall
  <1>10. ~(\E x : RejectDecide(s, x))
    BY <1>1, <1>5 DEF RejectDecide, NoQCall
  <1>11. ResumeQuote(s) => AcceptReadRequest(s) \/ \E x \in DecisionIds : AcceptDecide(s, x)
    BY <1>4, <1>7, <1>8, <1>9, <1>10, Zenon DEF ResumeQuote, RequestEmit, RespondReject,
       RespondEmit, AcceptNotFound, AcceptEmit, RejectNotFound, RejectEmit
  <1>12. ~QuoteCallFails(s) /\ ~DealCallFails(s)
    BY <1>4, Zenon DEF QuoteCallFails, DealCallFails
  <1>13. BeginDeal(s) \/ ResumeDeal(s) => qcalls'[s] = c
    BY Zenon DEF BeginDeal, ResumeDeal, qvars
  <1>14. QED
    BY <1>2, <1>3, <1>6, <1>11, <1>12, <1>13, Zenon

LEMMA JointInit == Init => JointInv
  <1> SUFFICES ASSUME Init  PROVE JointInv
    OBVIOUS
  <1>1. /\ \A d \in DealIds : deals[d] = None
        /\ \A s \in Slots : qcalls[s].at = "idle"
        /\ qheard = {}
    BY DEF Init, DS!Init, NoQCall
  <1>2. QED
    BY <1>1 DEF JointInv, DealFromQuote, DecisionBacksOneDeal, AcceptedHeardInOrder,
       DecisionsUnused, WaitsForDeal, Opening

\* acceptQuote opens a deal: its terms are those of the quote, its decision has
\* no deal yet and is in no other call's hands.
LEMMA OpeningStep ==
  ASSUME QInv, DSP!DealInv, JointInv, NEW s \in Slots, NEW d \in DealIds, OpensFor(s, d),
         \A t \in Slots : t # s => qcalls'[t] = qcalls[t] /\ calls'[t] = calls[t],
         \A e \in DealIds : announced[e] # None => announced'[e] # None
  PROVE  JointInv'
  <1> DEFINE c == qcalls[s]
             terms == AcceptedTerms(c)
             opened == [state |-> "accepted", terms |-> terms, settlementInstructionId |-> None]
  <1>1. /\ StoreTypes /\ c \in QCall /\ ResponsesAnswer
        /\ CallFits(c, requests, responses, decided)
        /\ deals \in [DealIds -> DSP!Deal \cup {None}]
    BY DEF QInv, DSP!DealInv, DSP!TypeOK
  <1>2. /\ c.at = "accept-create" /\ Opening(c)
        /\ deals[d] = None
        /\ deals' = [deals EXCEPT ![d] = opened]
        /\ UNCHANGED <<requests, responses, decisions, decided, qheard>>
    BY DEF OpensFor, Opening
  <1>3. /\ c.response \in ResponseIds /\ c.decision \in DecisionIds
        /\ c.resp # None /\ c.resp \in Response /\ responses[c.response] = c.resp
        /\ c.req # None /\ requests[c.resp.request] = c.req
        /\ decided[c.decision] = [response |-> c.response, outcome |-> "accepted"]
    BY <1>1, <1>2 DEF CallFits, QCall
  <1>4. /\ terms.request = c.resp.request /\ terms.response = c.response
        /\ terms.decision = c.decision
        /\ terms.give = c.req.give /\ terms.receive = c.resp.give
    BY DEF AcceptedTerms
  <1>5. opened # None
    <2>1. terms \in DealTerms
      BY <1>2, AcceptedTermsType
    <2>2. opened \in DSP!Deal
      BY <2>1 DEF DSP!Deal, DSP!DealState
    <2>3. QED
      BY <2>2, DealPartNone
  <1> HIDE DEF terms
  <1>6. deals'[d].terms = terms /\ deals'[d] # None
        /\ \A e \in DealIds : e # d => deals'[e] = deals[e]
    BY <1>1, <1>2, <1>5
  <1> HIDE DEF opened
  <1>7. DealFromQuote'
    <2>1. ASSUME NEW e \in DealIds, deals'[e] # None
          PROVE  LET t == deals'[e].terms
                 IN  /\ requests[t.request] # None
                     /\ responses[t.response] # None
                     /\ responses[t.response].request = t.request
                     /\ responses[t.response].counterparty = requests[t.request].counterparty
                     /\ t.give = requests[t.request].give
                     /\ t.receive = responses[t.response].give
      <3>1. CASE e = d
        <4>1. c.resp.counterparty = c.req.counterparty
          BY <1>1, <1>3 DEF ResponsesAnswer
        <4>2. QED
          BY <1>3, <1>4, <1>6, <3>1, <4>1
      <3>2. CASE e # d
        BY <1>6, <2>1, <3>2 DEF JointInv, DealFromQuote
      <3>3. QED
        BY <3>1, <3>2
    <2>2. QED
      BY <1>2, <2>1 DEF DealFromQuote
  <1>8. \A e \in DealIds : deals[e] # None => deals[e].terms.decision # c.decision
    BY <1>2 DEF JointInv, DecisionsUnused
  <1>9. DecisionBacksOneDeal'
    <2>1. ASSUME NEW e \in DealIds, deals'[e] # None
          PROVE  /\ decided[deals'[e].terms.decision]
                      = [response |-> deals'[e].terms.response, outcome |-> "accepted"]
                 /\ \A f \in DealIds : (deals'[f] # None
                      /\ deals'[f].terms.decision = deals'[e].terms.decision) => f = e
      <3>1. CASE e = d
        BY <1>3, <1>4, <1>6, <1>8, <3>1
      <3>2. CASE e # d
        <4>1. /\ decided[deals[e].terms.decision]
                   = [response |-> deals[e].terms.response, outcome |-> "accepted"]
              /\ \A f \in DealIds : (deals[f] # None
                   /\ deals[f].terms.decision = deals[e].terms.decision) => f = e
          BY <1>6, <2>1, <3>2 DEF JointInv, DecisionBacksOneDeal
        <4>2. deals[e] # None /\ deals'[e] = deals[e]
          BY <1>6, <2>1, <3>2
        <4>3. ASSUME NEW f \in DealIds, deals'[f] # None,
                     deals'[f].terms.decision = deals[e].terms.decision
              PROVE  f = e
          <5>1. CASE f = d
            BY <1>4, <1>6, <1>8, <4>2, <4>3, <5>1, Zenon
          <5>2. CASE f # d
            <6>1. deals'[f] = deals[f]
              BY <1>6, <5>2
            <6>2. QED
              BY <4>1, <4>3, <6>1, Zenon
          <5>3. QED
            BY <5>1, <5>2
        <4>4. QED
          BY <4>1, <4>2, <4>3, Zenon
      <3>3. QED
        BY <3>1, <3>2
    <2>2. QED
      BY <1>2, <2>1 DEF DecisionBacksOneDeal
  <1>10. AcceptedHeardInOrder'
    BY <1>2, <1>6 DEF JointInv, AcceptedHeardInOrder
  <1>11. DecisionsUnused'
    <2> SUFFICES ASSUME NEW t \in Slots, Opening(qcalls'[t]),
                        NEW e \in DealIds, deals'[e] # None
                 PROVE  deals'[e].terms.decision # qcalls'[t].decision
      BY DEF DecisionsUnused, Opening
    <2>1. t # s
      BY DEF OpensFor, Opening
    <2>2. qcalls'[t] = qcalls[t]
      BY <2>1
    <2>3. qcalls[t].decision # c.decision
      BY <1>2, <2>1, <2>2 DEF QInv, DecisionsApart
    <2>4. CASE e = d
      BY <1>4, <1>6, <2>2, <2>3, <2>4
    <2>5. CASE e # d
      BY <1>6, <2>2, <2>5 DEF JointInv, DecisionsUnused
    <2>6. QED
      BY <2>4, <2>5
  <1>12. WaitsForDeal'
    <2> SUFFICES ASSUME NEW t \in Slots, qcalls'[t].at = "accept-wait"
                 PROVE  /\ deals'[qcalls'[t].deal] # None
                        /\ Announces(announced', calls'[t], qcalls'[t].deal)
      BY DEF WaitsForDeal
    <2>1. CASE t = s
      BY <1>6, <2>1 DEF OpensFor, Announces
    <2>2. CASE t # s
      <3>1. qcalls'[t] = qcalls[t] /\ calls'[t] = calls[t] /\ qcalls[t].deal \in DealIds
        BY <2>2 DEF QInv, CallFits
      <3>2. deals[qcalls[t].deal] # None /\ Announces(announced, calls[t], qcalls[t].deal)
        BY <3>1 DEF JointInv, WaitsForDeal
      <3>3. QED
        BY <1>6, <3>1, <3>2 DEF Announces
    <2>3. QED
      BY <2>1, <2>2
  <1>13. QED
    BY <1>7, <1>9, <1>10, <1>11, <1>12 DEF JointInv

\* AcceptEmit tells handlers of the deal its own call has opened.
LEMMA AcceptedIsHeard ==
  ASSUME QInv, JointInv, NEW s \in Slots,
         \/ BeginQuote(s) \/ ResumeQuote(s) \/ BeginDeal(s) \/ ResumeDeal(s)
         \/ QuoteCallFails(s) \/ DealCallFails(s),
         NEW d \in DealIds, <<"quote_accepted", d>> \in qheard'
  PROVE  deals[d] # None /\ ("deal_state_changed" \in Subscribed => announced[d] # None)
  <1>1. CASE <<"quote_accepted", d>> \in qheard
    BY <1>1 DEF JointInv, AcceptedHeardInOrder
  <1>2. CASE AcceptEmit(s) /\ <<"quote_accepted", d>> \notin qheard
    <2>1. /\ qcalls[s].at = "accept-wait" /\ calls[s].at = "idle"
          /\ Emit("quote_accepted", qcalls[s].deal)
      BY <1>2, Zenon DEF AcceptEmit, At, DS!At
    <2>2. d = qcalls[s].deal
      BY <1>2, <2>1 DEF Emit
    <2>3. QED
      BY <2>1, <2>2 DEF JointInv, WaitsForDeal, Announces
  <1>3. CASE \E type \in {"quote_requested", "quote_responded", "quote_rejected"} : \E id :
               Emit(type, id)
    BY <1>1, <1>3 DEF Emit
  <1>4. CASE UNCHANGED qheard
    BY <1>1, <1>4
  <1>5. BeginQuote(s) => UNCHANGED qheard
    BY Zenon DEF BeginQuote, RequestQuote, RespondRead, AcceptRead, RejectRead
  <1>6. ResumeQuote(s) => \/ UNCHANGED qheard \/ AcceptEmit(s)
                          \/ \E type \in {"quote_requested", "quote_responded",
                                          "quote_rejected"} : \E id : Emit(type, id)
    <2>1. RequestEmit(s) => \E id : Emit("quote_requested", id)
      BY Zenon DEF RequestEmit
    <2>2. RespondEmit(s) => \E id : Emit("quote_responded", id)
      BY Zenon DEF RespondEmit
    <2>3. RejectEmit(s) => \E id : Emit("quote_rejected", id)
      BY Zenon DEF RejectEmit
    <2>4. ResumeQuote(s) => \/ UNCHANGED qheard \/ AcceptEmit(s)
                            \/ RequestEmit(s) \/ RespondEmit(s) \/ RejectEmit(s)
      BY Zenon DEF ResumeQuote, RespondReject, RespondSave, AcceptNotFound, AcceptReread,
         AcceptDecide, AcceptReadRequest, AcceptCreateDeal, RejectNotFound, RejectDecide
    <2>5. QED
      BY <2>1, <2>2, <2>3, <2>4
  <1>7. BeginDeal(s) \/ ResumeDeal(s) \/ QuoteCallFails(s) \/ DealCallFails(s)
          => UNCHANGED qheard
    BY Zenon DEF BeginDeal, ResumeDeal, QuoteCallFails, DealCallFails, qvars
  <1>8. QED
    BY <1>1, <1>2, <1>3, <1>4, <1>5, <1>6, <1>7

\* A call that waits for its deal has waited before the step, and the step is
\* another slot's, or it is the one with which the deal part goes on.
LEMMA WaitingStep ==
  ASSUME QInv, DSP!DealInv, NEW s \in Slots, qcalls'[s].at = "accept-wait",
         \/ BeginQuote(s) \/ ResumeQuote(s) \/ BeginDeal(s) \/ ResumeDeal(s)
         \/ QuoteCallFails(s) \/ DealCallFails(s),
         ~(\E d \in DealIds : AcceptCreateDeal(s, d))
  PROVE  qcalls'[s] = qcalls[s] /\ DSP!Resume(s)
  <1> DEFINE c == qcalls[s]
  <1>1. qcalls \in [Slots -> QCall] /\ c \in QCall /\ \A q : Await(s, q) => qcalls'[s] = q
    BY DEF QInv, Await
  <1>2. ~Return(s)
    BY <1>1 DEF Return, NoQCall
  <1>3. ~BeginQuote(s)
    <2>1. ASSUME NEW q, NEW request, RequestQuote(s, q, request)
          PROVE  FALSE
      BY <1>1, <2>1 DEF RequestQuote, NoQCall
    <2>2. ASSUME NEW q, NEW p, NEW give, NEW receive, RespondRead(s, q, p, give, receive)
          PROVE  FALSE
      <3>1. PICK req, resp :
              qcalls'[s] = [NoQCall EXCEPT !.at = "respond-save", !.req = req, !.resp = resp]
        BY <1>1, <2>2, Zenon DEF RespondRead
      <3>2. QED
        BY <3>1 DEF NoQCall
    <2>3. ASSUME NEW r, AcceptRead(s, r) \/ RejectRead(s, r)
          PROVE  FALSE
      BY <1>1, <2>3 DEF AcceptRead, RejectRead, NoQCall
    <2>4. QED
      BY <2>1, <2>2, <2>3, Zenon DEF BeginQuote
  <1>4. ~(\E r : RespondSave(s, r)) /\ ~(\E x : RejectDecide(s, x))
    BY <1>1 DEF RespondSave, RejectDecide, NoQCall
  <1>5. ~AcceptReread(s) /\ ~AcceptReadRequest(s) /\ ~(\E x : AcceptDecide(s, x))
    <2>1. /\ AcceptReread(s) => qcalls'[s] = [c EXCEPT !.at = "accept-decide"]
          /\ AcceptReadRequest(s) =>
               \E req : qcalls'[s] = [c EXCEPT !.at = "accept-create", !.req = req]
          /\ \A x : AcceptDecide(s, x) =>
               qcalls'[s] = [c EXCEPT !.at = "accept-request", !.decision = x]
      BY <1>1, Zenon DEF AcceptReread, AcceptReadRequest, AcceptDecide
    <2>2. QED
      BY <1>1, <2>1 DEF QCall
  <1>6. ~ResumeQuote(s)
    BY <1>2, <1>4, <1>5, Zenon DEF ResumeQuote, RequestEmit, RespondReject, RespondEmit,
       AcceptNotFound, AcceptEmit, RejectNotFound, RejectEmit
  <1>7. ~QuoteCallFails(s) /\ ~DealCallFails(s)
    BY <1>2, Zenon DEF QuoteCallFails, DealCallFails
  <1>8. ~BeginDeal(s)
    <2>1. BeginDeal(s) => qcalls'[s] = c /\ c.at = "idle"
      BY Zenon DEF BeginDeal, At, qvars
    <2>2. QED
      BY <2>1
  <1>9. ResumeDeal(s)
    BY <1>3, <1>6, <1>7, <1>8
  <1>10. QED
    BY <1>9, SameResume, Zenon DEF ResumeDeal, qvars

\* Every other step keeps the deals and what was written of the quotes.
LEMMA KeepingStep ==
  ASSUME QInv, DSP!DealInv, JointInv, NEW s \in Slots,
         \/ BeginQuote(s) \/ ResumeQuote(s) \/ BeginDeal(s) \/ ResumeDeal(s)
         \/ QuoteCallFails(s) \/ DealCallFails(s),
         ~(\E d \in DealIds : AcceptCreateDeal(s, d)),
         \A t \in Slots : t # s => qcalls'[t] = qcalls[t] /\ calls'[t] = calls[t],
         \A e \in DealIds : announced[e] # None => announced'[e] # None
  PROVE  JointInv'
  <1>1. DealsKept /\ QGrows
    BY OtherStepsKeepDeals, QuotesKept
  <1>2. /\ StoreTypes
        /\ \A d \in DealIds : deals[d] # None => deals[d].terms \in DealTerms
    <2>1. deals \in [DealIds -> DSP!Deal \cup {None}]
      BY DEF DSP!DealInv, DSP!TypeOK
    <2>2. QED
      BY <2>1 DEF QInv, DSP!Deal
  <1>3. DealFromQuote'
    <2>1. ASSUME NEW d \in DealIds, deals'[d] # None
          PROVE  LET t == deals'[d].terms
                 IN  /\ requests'[t.request] # None
                     /\ responses'[t.response] # None
                     /\ responses'[t.response].request = t.request
                     /\ responses'[t.response].counterparty = requests'[t.request].counterparty
                     /\ t.give = requests'[t.request].give
                     /\ t.receive = responses'[t.response].give
      <3> DEFINE t == deals[d].terms
      <3>1. deals[d] # None /\ deals'[d].terms = t
        BY <1>1, <2>1 DEF DealsKept
      <3>2. t.request \in RequestIds /\ t.response \in ResponseIds
        BY <1>2, <3>1 DEF DealTerms
      <3>3. /\ requests[t.request] # None
            /\ responses[t.response] # None
            /\ responses[t.response].request = t.request
            /\ responses[t.response].counterparty = requests[t.request].counterparty
            /\ t.give = requests[t.request].give
            /\ t.receive = responses[t.response].give
        BY <3>1 DEF JointInv, DealFromQuote
      <3>4. requests'[t.request] = requests[t.request]
            /\ responses'[t.response] = responses[t.response]
        BY <1>1, <1>2, <3>2, <3>3 DEF QGrows, Written, StoreTypes
      <3>5. QED
        BY <3>1, <3>3, <3>4
    <2>2. QED
      BY <2>1 DEF DealFromQuote
  <1>4. \A d \in DealIds : deals[d] # None => decided[deals[d].terms.decision] # None
    <2>1. ASSUME NEW d \in DealIds, deals[d] # None
          PROVE  decided[deals[d].terms.decision] # None
      <3>1. deals[d].terms.decision \in DecisionIds /\ deals[d].terms.response \in ResponseIds
        BY <1>2, <2>1 DEF DealTerms
      <3>2. decided[deals[d].terms.decision]
              = [response |-> deals[d].terms.response, outcome |-> "accepted"]
        BY <2>1 DEF JointInv, DecisionBacksOneDeal
      <3>3. QED
        BY <3>1, <3>2, EngineAssumption DEF DecisionMade
    <2>2. QED
      BY <2>1
  <1>5. DecisionBacksOneDeal'
    <2>1. ASSUME NEW d \in DealIds, deals'[d] # None
          PROVE  /\ decided'[deals'[d].terms.decision]
                      = [response |-> deals'[d].terms.response, outcome |-> "accepted"]
                 /\ \A e \in DealIds : (deals'[e] # None
                      /\ deals'[e].terms.decision = deals'[d].terms.decision) => e = d
      <3>1. deals[d] # None /\ deals'[d].terms = deals[d].terms
        BY <1>1, <2>1 DEF DealsKept
      <3>2. deals[d].terms.decision \in DecisionIds
        BY <1>2, <3>1 DEF DealTerms
      <3>3. decided'[deals[d].terms.decision] = decided[deals[d].terms.decision]
        BY <1>1, <1>2, <1>4, <3>1, <3>2 DEF QGrows, Written, StoreTypes
      <3>4. QED
        BY <1>1, <3>1, <3>3 DEF DealsKept, JointInv, DecisionBacksOneDeal
    <2>2. QED
      BY <2>1 DEF DecisionBacksOneDeal
  <1>6. AcceptedHeardInOrder'
    <2>1. ASSUME NEW d \in DealIds, <<"quote_accepted", d>> \in qheard'
          PROVE  deals'[d] # None /\ ("deal_state_changed" \in Subscribed => announced'[d] # None)
      <3>1. deals[d] # None /\ ("deal_state_changed" \in Subscribed => announced[d] # None)
        BY <2>1, AcceptedIsHeard
      <3>2. QED
        BY <1>1, <3>1 DEF DealsKept
    <2>2. QED
      BY <2>1 DEF AcceptedHeardInOrder
  <1>7. DecisionsUnused'
    <2> SUFFICES ASSUME NEW t \in Slots, Opening(qcalls'[t]),
                        NEW e \in DealIds, deals'[e] # None
                 PROVE  deals'[e].terms.decision # qcalls'[t].decision
      BY DEF DecisionsUnused, Opening
    <2>1. deals[e] # None /\ deals'[e].terms = deals[e].terms
      BY <1>1 DEF DealsKept
    <2>2. \/ Opening(qcalls[t]) /\ qcalls'[t].decision = qcalls[t].decision
          \/ decided[qcalls'[t].decision] = None
      BY OpeningComesFrom
    <2>3. QED
      BY <1>4, <2>1, <2>2 DEF JointInv, DecisionsUnused
  <1>8. WaitsForDeal'
    <2> SUFFICES ASSUME NEW t \in Slots, qcalls'[t].at = "accept-wait"
                 PROVE  /\ deals'[qcalls'[t].deal] # None
                        /\ Announces(announced', calls'[t], qcalls'[t].deal)
      BY DEF WaitsForDeal
    <2>1. qcalls'[t] = qcalls[t]
      BY WaitingStep
    <2>2. /\ qcalls[t].deal \in DealIds
          /\ deals[qcalls[t].deal] # None
          /\ Announces(announced, calls[t], qcalls[t].deal)
      BY <2>1 DEF QInv, CallFits, JointInv, WaitsForDeal
    <2>3. CASE t # s
      BY <1>1, <2>1, <2>2, <2>3 DEF DealsKept, Announces
    <2>4. CASE t = s
      <3>1. DSP!Resume(s)
        BY <2>4, WaitingStep
      <3>2. (/\ "deal_state_changed" \in Subscribed
             /\ calls[s].at = "create-emit") => announced'[calls[s].deal] # None
        BY <3>1, DSP!OpeningIsAnnounced, DealPartAssumption, DealPartNone
      <3>3. QED
        BY <1>1, <2>1, <2>2, <2>4, <3>2 DEF DealsKept, Announces
    <2>5. QED
      BY <2>3, <2>4
  <1>9. QED
    BY <1>3, <1>5, <1>6, <1>7, <1>8 DEF JointInv

LEMMA JointStep ==
  ASSUME QInv, DSP!DealInv, JointInv, [Next]_vars
  PROVE  JointInv'
  <1>1. CASE UNCHANGED vars
    BY <1>1 DEF vars, qvars, qstore, dvars, JointInv, DealFromQuote, DecisionBacksOneDeal,
       AcceptedHeardInOrder, DecisionsUnused, WaitsForDeal, Announces, Opening
  <1>2. CASE Next
    <2>1. PICK s \in Slots :
            \/ BeginQuote(s) \/ ResumeQuote(s) \/ BeginDeal(s) \/ ResumeDeal(s)
            \/ QuoteCallFails(s) \/ DealCallFails(s)
      BY <1>2 DEF Next
    <2>2. \A t \in Slots : t # s => qcalls'[t] = qcalls[t] /\ calls'[t] = calls[t]
      BY <2>1, OtherSlotsKept
    <2>3. \A e \in DealIds : announced[e] # None => announced'[e] # None
      <3>1. [DSP!Next]_DSP!vars
        BY StepOfDealService, SameNext
      <3>2. QED
        BY <3>1, DSP!AnnouncedGrows, DealPartAssumption, DealPartNone
    <2>4. CASE \E d \in DealIds : AcceptCreateDeal(s, d)
      BY <2>2, <2>3, <2>4, AcceptOpens, OpeningStep
    <2>5. CASE ~(\E d \in DealIds : AcceptCreateDeal(s, d))
      BY <2>1, <2>2, <2>3, <2>5, KeepingStep
    <2>6. QED
      BY <2>4, <2>5
  <1>3. QED
    BY <1>1, <1>2

LEMMA JointInvariant == Spec => []JointInv
  BY JointInit, JointStep, EngineInvariant, DealPartInvariant, PTL DEF Spec

\* A deal is between the two sides of one quote, and on the terms of the response
\* when that confirms the requester's leg, although acceptQuote collects the terms
\* over three awaits.
THEOREM DealsMatchQuotes == Spec => []DealMatchesQuote
  <1>1. JointInv => DealMatchesQuote
    BY DEF JointInv, DealFromQuote, DealMatchesQuote
  <1>2. QED
    BY <1>1, JointInvariant, PTL

\* No two deals rest on one decision, however calls of acceptQuote overlap.
THEOREM DecisionsBackOneDeal == Spec => []DecisionBacksOneDeal
  <1>1. JointInv => DecisionBacksOneDeal
    BY DEF JointInv
  <1>2. QED
    BY <1>1, JointInvariant, PTL

\* Handlers of quote_accepted hear of a deal only after those of
\* deal_state_changed, whatever else the event loop runs in between.
THEOREM AcceptedIsHeardInOrder == Spec => []AcceptedHeardInOrder
  <1>1. JointInv => AcceptedHeardInOrder
    BY DEF JointInv
  <1>2. QED
    BY <1>1, JointInvariant, PTL

-------------------------------------------------------------------------------
(***************************************************************************)
(* From a stored settlement back to the offers of the two sides.           *)
(***************************************************************************)

\* A stored settlement instruction belongs to a deal, and its terms come from a
\* stored request, a stored response of the counterparty to that request, and a
\* decision to accept it: what the counterparty gives is as in its response, and so
\* is what the requester gives, when the response confirmed that leg.  No other
\* deal has an instruction that rests on the same decision.
SettlementIsAgreed ==
  \A i \in InstrIds : instructions[i] # None =>
    LET t == instructions[i].terms
    IN  /\ deals[instructions[i].deal] # None
        /\ requests[t.request] # None
        /\ responses[t.response] # None
        /\ responses[t.response].request = t.request
        /\ responses[t.response].counterparty = requests[t.request].counterparty
        /\ t.receive = responses[t.response].give
        /\ responses[t.response].receive = requests[t.request].give =>
             t.give = responses[t.response].receive
        /\ decided[t.decision] = [response |-> t.response, outcome |-> "accepted"]
        /\ \A j \in InstrIds :
             (instructions[j] # None /\ instructions[j].terms.decision = t.decision)
               => instructions[j].deal = instructions[i].deal

\* Along the whole chain of calls, from requestQuote to createSettlementInstruction,
\* no instruction comes from anything but one accepted quote.
THEOREM SettlementsAreAgreed == Spec => []SettlementIsAgreed
  <1>1. ASSUME QInv, DSP!DealInv, JointInv
        PROVE  SettlementIsAgreed
    <2>1. \A i \in InstrIds : instructions[i] # None =>
            /\ instructions[i].deal \in DealIds
            /\ deals[instructions[i].deal] # None
            /\ deals[instructions[i].deal].terms = instructions[i].terms
      <3>1. instructions \in [InstrIds -> DSP!Instruction \cup {None}]
        BY <1>1 DEF DSP!DealInv, DSP!TypeOK
      <3>2. QED
        BY <1>1, <3>1 DEF DSP!DealInv, DSP!InstructionMatchesDeal, DSP!Instruction
    <2>2. DealFromQuote /\ DecisionBacksOneDeal
      BY <1>1 DEF JointInv
    <2>3. SUFFICES ASSUME NEW i \in InstrIds, instructions[i] # None
                   PROVE  LET t == instructions[i].terms
                          IN  /\ deals[instructions[i].deal] # None
                              /\ requests[t.request] # None
                              /\ responses[t.response] # None
                              /\ responses[t.response].request = t.request
                              /\ responses[t.response].counterparty
                                   = requests[t.request].counterparty
                              /\ t.receive = responses[t.response].give
                              /\ responses[t.response].receive = requests[t.request].give =>
                                   t.give = responses[t.response].receive
                              /\ decided[t.decision]
                                   = [response |-> t.response, outcome |-> "accepted"]
                              /\ \A j \in InstrIds :
                                   (/\ instructions[j] # None
                                    /\ instructions[j].terms.decision = t.decision)
                                     => instructions[j].deal = instructions[i].deal
      BY DEF SettlementIsAgreed
    <2>4. \A j \in InstrIds :
            (/\ instructions[j] # None
             /\ instructions[j].terms.decision = instructions[i].terms.decision)
              => instructions[j].deal = instructions[i].deal
      <3>1. ASSUME NEW j \in InstrIds, instructions[j] # None,
                   instructions[j].terms.decision = instructions[i].terms.decision
            PROVE  instructions[j].deal = instructions[i].deal
        <4> DEFINE d == instructions[i].deal
                   e == instructions[j].deal
        <4>1. /\ d \in DealIds /\ deals[d] # None
              /\ e \in DealIds /\ deals[e] # None
              /\ deals[d].terms.decision = deals[e].terms.decision
          BY <2>1, <2>3, <3>1
        <4> HIDE DEF d, e
        <4>2. d = e
          BY <2>2, <4>1 DEF DecisionBacksOneDeal
        <4>3. QED
          BY <4>2 DEF d, e
      <3>2. QED
        BY <3>1
    <2>5. /\ instructions[i].deal \in DealIds
          /\ deals[instructions[i].deal] # None
          /\ deals[instructions[i].deal].terms = instructions[i].terms
      BY <2>1, <2>3
    <2>6. decided[instructions[i].terms.decision]
            = [response |-> instructions[i].terms.response, outcome |-> "accepted"]
      BY <2>2, <2>5 DEF DecisionBacksOneDeal
    <2>7. QED
      BY <2>2, <2>4, <2>5, <2>6 DEF DealFromQuote
  <1>2. QED
    BY <1>1, EngineInvariant, DealPartInvariant, JointInvariant, PTL

\* Requests, responses and the history of decisions are written once: no call
\* replaces what another has saved, whatever it has read before.
THEOREM QuotesAreWrittenOnce == Spec => [][QGrows]_qstore
  <1>1. QInv /\ [Next]_vars => [QGrows]_qstore
    <2>1. UNCHANGED vars => UNCHANGED qstore
      BY DEF vars, qvars
    <2>2. QInv /\ Next => QGrows
      BY QuotesKept, Zenon DEF Next
    <2>3. QED
      BY <2>1, <2>2
  <1>2. QED
    BY <1>1, EngineInvariant, PTL DEF Spec

-------------------------------------------------------------------------------
(***************************************************************************)
(* What is proved of the deal service alone, inside the engine.            *)
(***************************************************************************)

LEMMA DealPartSpec == Spec => DSP!Spec
  <1>1. Init => DSP!Init
    BY SameInit DEF Init
  <1>2. QInv /\ [Next]_vars => [DSP!Next]_DSP!vars
    BY StepOfDealService, SameNext
  <1>3. QED
    BY <1>1, <1>2, EngineInvariant, PTL DEF Spec, DSP!Spec

\* The promises of DealService that need no discipline of its callers, kept
\* while quote calls open deals and fail between its steps.
THEOREM EngineKeepsPromises ==
  Spec => /\ []DSP!InstructionLinkResolves
          /\ []DSP!ReadyHasInstruction
          /\ []DSP!HeardIsBacked
          /\ []DSP!FlagsEarned
          /\ DSP!DealTermsFixed
  <1>1. DSP!Spec => []DSP!InstructionLinkResolves
    BY DSP!LinksResolve, DealPartAssumption, DealPartNone
  <1>2. DSP!Spec => []DSP!ReadyHasInstruction
    BY DSP!ReadyDealsAreInstructed, DealPartAssumption, DealPartNone
  <1>3. DSP!Spec => []DSP!HeardIsBacked
    BY DSP!EventsAreBacked, DealPartAssumption, DealPartNone
  <1>4. DSP!Spec => []DSP!FlagsEarned
    BY DSP!FlagsAreEarned, DealPartAssumption, DealPartNone
  <1>5. DSP!Spec => DSP!DealTermsFixed
    BY DSP!TermsAreFixed, DealPartAssumption, DealPartNone
  <1>6. QED
    BY <1>1, <1>2, <1>3, <1>4, <1>5, DealPartSpec, PTL

\* With callers that never pass approvals_complete the engine, seen through its
\* deals, keeps the commitments of DealCommitments.
THEOREM EngineKeepsCommitments ==
  ASSUME "approvals_complete" \notin CallerEvents
  PROVE  Spec => DSP!KeepsCommitments
  <1>1. DSP!Spec => DSP!KeepsCommitments
    BY DSP!CommitmentsAreKept, DealPartAssumption, DealPartNone
  <1>2. QED
    BY <1>1, DealPartSpec, PTL

===============================================================================
