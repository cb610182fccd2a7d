-------------------------- MODULE LedgerClient_proofs --------------------------
(***************************************************************************)
(* Proofs about LedgerClient: a value that a method returns is that of a   *)
(* command the ledger has executed, however late its copies arrive.        *)
(***************************************************************************)
EXTENDS LedgerClient, FetchWithRetry_proofs

\* A call that is over with a success was answered by a copy that was executed.
LedgerInv ==
  /\ LedgerTypeOK
  /\ \A n \in DOMAIN copies : copies[n] = "executed" => n \in effects
  /\ sent <= Retries + 1
  /\ outcome = Ok => effects # {}
  /\ returned = "value" => outcome = Ok /\ at = "done"

\* A step of the composition is one of the call, or leaves the call alone.
LEMMA CallSteps ==
  ASSUME [LedgerNext]_lvars
  PROVE  [Next]_vars
  BY DEF LedgerNext, lvars, vars, Attempt, SendCopy, Body, Throws, Arrives, Next, Client, Server

\* So the invariant of the call holds in the composition.
LEMMA LedgerImplementsFetch == LedgerSpec => Spec
  BY CallSteps, PTL DEF LedgerSpec, LedgerInit, Spec

LEMMA LedgerInitial == LedgerInit => LedgerInv
  BY FetchAssumption DEF LedgerInit, LedgerInv, LedgerTypeOK, Init, Pending, Ok, FetchAssumption

\* A call succeeds by taking a success.
LEMMA SuccessIsAnswerOk ==
  ASSUME [Next]_vars, outcome' = Ok
  PROVE  outcome = Ok \/ AnswerOk
  BY DEF Next, Client, Server, vars, RequestHookThrows, Send, SendAborted, Aborted, TimerFires,
     Wake, ConnectionFails, AnswerError, BodyRead, Fails, Finish, Ok, HookError, CantonTimeoutError,
     CantonNetworkError, FromResponse

\* A call that is over stays as it ended.
LEMMA DoneStays ==
  ASSUME [Next]_vars, at = "done"
  PROVE  at' = "done" /\ outcome' = outcome
  BY DEF Next, Client, Server, vars, RequestHookThrows, Send, SendAborted, Aborted, TimerFires,
     Wake, ConnectionFails, AnswerOk, AnswerError, BodyRead, Fails, Finish

\* Only Send sends.
LEMMA OnlySendSends ==
  ASSUME [Next]_vars
  PROVE  Send \/ sent' = sent
  BY DEF Next, Client, Server, vars, RequestHookThrows, SendAborted, Aborted, TimerFires,
     Wake, ConnectionFails, AnswerOk, AnswerError, BodyRead, Fails

LEMMA LedgerStep ==
  ASSUME FetchInv, LedgerInv, [LedgerNext]_lvars
  PROVE  LedgerInv'
  <1>1. [Next]_vars /\ Retries \in Nat /\ sent \in Nat /\ attempt \in 0..Retries
    BY CallSteps, FetchAssumption DEF FetchInv, TypeOK, FetchAssumption
  <1>2. sent' <= Retries + 1
    <2>1. CASE Send
      <3>1. sent <= attempt /\ sent' = sent + 1
        BY <2>1 DEF FetchInv, Send
      <3>2. QED
        BY <1>1, <3>1
    <2>2. QED
      BY <1>1, <2>1, OnlySendSends DEF LedgerInv
  <1>3. returned = "value" => outcome' = Ok /\ at' = "done"
    BY <1>1, DoneStays DEF LedgerInv
  <1>4. CASE UNCHANGED lvars
    BY <1>4 DEF lvars, vars, LedgerInv, LedgerTypeOK
  <1>5. CASE SendCopy /\ UNCHANGED returned
    <2>1. sent + 1 \in 1..(Retries + 1)
      BY <1>1, <1>5 DEF SendCopy, Send, FetchInv
    <2>2. LedgerTypeOK'
      BY <1>5, <2>1 DEF SendCopy, LedgerInv, LedgerTypeOK
    <2>3. outcome' = outcome
      BY <1>5 DEF SendCopy, Send
    <2>4. \A n \in DOMAIN copies' : copies'[n] = "executed" => n \in effects'
      BY <1>5, <2>1 DEF SendCopy, LedgerInv, LedgerTypeOK
    <2>5. QED
      BY <1>2, <1>3, <1>5, <2>2, <2>3, <2>4 DEF SendCopy, LedgerInv
  <1>6. CASE Attempt /\ ~SendCopy
    <2>1. UNCHANGED <<copies, effects, returned>>
      BY <1>6 DEF Attempt
    <2>2. outcome' = Ok => effects # {}
      <3>1. CASE AnswerOk /\ outcome' = Ok
        <4>1. copies[sent] = "executed" /\ at = "network"
          BY <1>6, <3>1 DEF Attempt, AnswerOk, RequestHookThrows, SendAborted, Aborted, TimerFires,
             Wake, Fails, Finish, ConnectionFails, AnswerError, BodyRead, Ok, HookError, Pending,
             CantonNetworkError, CantonTimeoutError, FetchInv
        <4>2. sent \in 1..(Retries + 1)
          BY <1>1, <4>1 DEF FetchInv, LedgerInv
        <4>3. QED
          BY <4>1, <4>2 DEF LedgerInv, LedgerTypeOK
      <3>2. QED
        BY <1>1, <3>1, SuccessIsAnswerOk DEF LedgerInv
    <2>3. QED
      BY <1>2, <1>3, <2>1, <2>2 DEF LedgerInv, LedgerTypeOK
  <1>7. CASE Body \/ Throws
    <2>1. UNCHANGED <<at, outcome, copies, effects>>
      BY <1>7 DEF Body, Throws, vars
    <2>2. returned' \in {"value", "error"} /\ (returned' = "value" => outcome = Ok /\ at = "done")
      BY <1>7 DEF Body, Throws
    <2>3. QED
      BY <1>2, <2>1, <2>2 DEF LedgerInv, LedgerTypeOK
  <1>8. ASSUME NEW n \in DOMAIN copies, Arrives(n)
        PROVE  LedgerInv'
    <2> DEFINE duplicate == effects # {}
    <2>1. PICK verdict \in {"executed", "rejected"} :
            /\ copies' = [copies EXCEPT ![n] = IF duplicate THEN "duplicate" ELSE verdict]
            /\ effects' = IF verdict = "executed" /\ ~duplicate THEN effects \cup {n} ELSE effects
      BY <1>8 DEF Arrives
    <2>2. UNCHANGED <<at, outcome, returned>>
      BY <1>8 DEF Arrives, vars
    <2>3. LedgerTypeOK'
      BY <2>1, <2>2 DEF LedgerInv, LedgerTypeOK
    <2>4. \A m \in DOMAIN copies' : copies'[m] = "executed" => m \in effects'
      BY <2>1 DEF LedgerInv, LedgerTypeOK
    <2>5. outcome' = Ok => effects' # {}
      BY <2>1, <2>2 DEF LedgerInv
    <2>6. QED
      BY <1>2, <2>2, <2>3, <2>4, <2>5 DEF LedgerInv
  <1>9. QED
    BY <1>4, <1>5, <1>6, <1>7, <1>8 DEF LedgerNext, Attempt

LEMMA LedgerInvariant == LedgerSpec => [](FetchInv /\ LedgerInv)
  <1>1. LedgerSpec => []FetchInv
    BY LedgerImplementsFetch, FetchInvariant, PTL
  <1>2. QED
    BY <1>1, LedgerInitial, LedgerStep, PTL DEF LedgerSpec

\* Type correctness.
THEOREM LedgerTypes == LedgerSpec => []LedgerTypeOK
  <1>1. LedgerInv => LedgerTypeOK
    BY DEF LedgerInv
  <1>2. QED
    BY <1>1, LedgerInvariant, PTL

\* A value comes from a command that was executed.
THEOREM ValuesAreOfExecuted == LedgerSpec => []ValueMeansExecuted
  <1>1. LedgerInv => ValueMeansExecuted
    BY DEF LedgerInv, ValueMeansExecuted
  <1>2. QED
    BY <1>1, LedgerInvariant, PTL

===============================================================================
