-------------------------- MODULE FetchWithRetry_proofs --------------------------
(***************************************************************************)
(* Proofs about FetchWithRetry, for every number of retries, every set of  *)
(* statuses, and hooks that may or may not throw.                          *)
(***************************************************************************)
EXTENDS FetchWithRetry, Integers, TLAPS

LEMMA OutcomeTypes ==
  /\ {Pending, Ok, HookError, CantonTimeoutError, CantonNetworkError} \subseteq Outcome
  /\ CantonNetworkError.code # "TIMEOUT"
  /\ \A a \in Answer : FromResponse(a) \in Outcome /\ FromResponse(a).code # "TIMEOUT"
  BY DEF Outcome, Code, Pending, Ok, HookError, CantonTimeoutError, CantonNetworkError,
         FromResponse, Retryable

\* What a failing attempt leaves behind, whatever the error.
LEMMA FailsInv ==
  ASSUME FetchInv, at \in {"send", "network", "body"}, NEW error \in Outcome, Fails(error),
         final' \in BOOLEAN,
         final' => ~error.retryable,
         error.code = "TIMEOUT" => timer = "fired"
  PROVE  FetchInv'
  <1>1. TypeOK /\ FetchAssumption
    BY FetchAssumption DEF FetchInv
  <1>2. timer' \in {"fired", "cleared"} /\ answer' = {}
    BY <1>1 DEF Fails, ClearTimer, TypeOK
  <1>3. UNCHANGED <<attempt, sent>>
    BY DEF Fails
  <1>a. /\ outcome = Pending /\ Pending.code = "none" /\ ~Pending.retryable
        /\ Pending # HookError
    BY DEF FetchInv, Pending, HookError
  <1>b. /\ timer' = "fired" => sent' = 1
        /\ timer = "fired" => timer' = "fired"
    BY <1>1, <1>3, <1>a DEF Fails, ClearTimer, FetchInv, TypeOK
  <1>4. CASE at' = "sleep"
    <2>1. MayRetry(error) /\ outcome' = Pending
      BY <1>4, <1>a DEF Fails, Finish
    <2>2. QED
      BY <1>1, <1>2, <1>3, <1>4, <1>a, <1>b, <2>1
      DEF FetchInv, TypeOK, MayRetry, FetchAssumption
  <1>5. CASE at' = "done"
    <2>1. \/ MayRetry(error) /\ HooksThrow /\ outcome' = HookError
          \/ ~MayRetry(error) /\ outcome' = error
      BY <1>5 DEF Fails, Finish
    <2>2. outcome' \in Outcome
      BY <2>1, OutcomeTypes
    <2>3. outcome'.retryable => attempt' = Retries
      BY <1>1, <1>3, <2>1 DEF MayRetry, HookError, TypeOK, FetchAssumption
    <2>4. outcome'.code = "TIMEOUT" => timer' = "fired"
      BY <1>b, <2>1 DEF HookError
    <2>5. QED
      BY <1>1, <1>2, <1>3, <1>5, <1>b, <2>2, <2>3, <2>4 DEF FetchInv, TypeOK
  <1>6. at' \in {"sleep", "done"}
    BY DEF Fails, Finish
  <1>7. QED
    BY <1>4, <1>5, <1>6

LEMMA FetchInit == Init => FetchInv
  <1> SUFFICES ASSUME Init
               PROVE  FetchInv
    OBVIOUS
  <1>1. outcome \in Outcome /\ ~outcome.retryable /\ outcome.code = "none"
    BY OutcomeTypes DEF Init, Pending
  <1>2. 0 \in 0..Retries
    BY FetchAssumption DEF FetchAssumption
  <1>3. TypeOK
    BY <1>1, <1>2 DEF Init, TypeOK
  <1>4. QED
    BY <1>1, <1>3 DEF Init, FetchInv

LEMMA FetchStep ==
  ASSUME FetchInv, [Next]_vars
  PROVE  FetchInv'
  <1>1. TypeOK /\ FetchAssumption
    BY FetchAssumption DEF FetchInv
  <1>2. CASE UNCHANGED vars
    BY <1>2 DEF vars, FetchInv, TypeOK
  <1>3. CASE RequestHookThrows
    BY <1>1, <1>3, OutcomeTypes DEF RequestHookThrows, Finish, FetchInv, TypeOK, HookError
  <1>4. CASE Send
    BY <1>1, <1>4 DEF Send, FetchInv, TypeOK
  <1>5. CASE SendAborted \/ Aborted
    <2>1. /\ at \in {"send", "network", "body"}
          /\ timer = "fired"
          /\ Fails(CantonTimeoutError)
          /\ UNCHANGED final
      BY <1>5 DEF SendAborted, Aborted
    <2>2. ~final' /\ final' \in BOOLEAN
      BY <1>1, <2>1 DEF FetchInv, TypeOK
    <2>3. QED
      BY <2>1, <2>2, FailsInv, OutcomeTypes
  <1>6. CASE AnswerOk
    <2>1. CASE ClearTimer /\ Finish(Ok) /\ UNCHANGED <<attempt, answer, sent>>
      BY <1>1, <1>6, <2>1, OutcomeTypes
      DEF AnswerOk, ClearTimer, Finish, FetchInv, TypeOK, Ok
    <2>2. CASE HooksThrow /\ Fails(CantonNetworkError) /\ UNCHANGED final
      <3>1. ~final' /\ final' \in BOOLEAN /\ at = "network"
        BY <1>1, <1>6, <2>2 DEF AnswerOk, FetchInv, TypeOK
      <3>2. QED
        BY <2>2, <3>1, FailsInv, OutcomeTypes
    <2>3. QED
      BY <1>6, <2>1, <2>2 DEF AnswerOk
  <1>7. ASSUME NEW a \in Answer, AnswerError(a)
        PROVE  FetchInv'
    <2>1. CASE at' = "body" /\ answer' = {a} /\ UNCHANGED <<attempt, timer, outcome, sent>>
      BY <1>1, <1>7, <2>1 DEF AnswerError, FetchInv, TypeOK
    <2>2. CASE HooksThrow /\ Fails(CantonNetworkError)
      <3>1. ~final' /\ final' \in BOOLEAN /\ at = "network"
        BY <1>1, <1>7 DEF AnswerError, FetchInv, TypeOK
      <3>2. QED
        BY <2>2, <3>1, FailsInv, OutcomeTypes
    <2>3. QED
      BY <1>7, <2>1, <2>2 DEF AnswerError
  <1>8. ASSUME NEW a \in Answer, BodyRead(a)
        PROVE  FetchInv'
    <2>1. /\ at = "body"
          /\ Fails(FromResponse(a))
          /\ final' = (final \/ ~Retryable(a))
          /\ FromResponse(a) \in Outcome /\ FromResponse(a).code # "TIMEOUT"
      BY <1>8, OutcomeTypes DEF BodyRead
    <2>2. final' => ~FromResponse(a).retryable
      BY <1>1, <2>1 DEF FetchInv, FromResponse
    <2>3. final' \in BOOLEAN
      BY <1>1, <2>1 DEF TypeOK, Retryable
    <2>4. QED
      BY <2>1, <2>2, <2>3, FailsInv
  <1>9. CASE ConnectionFails
    <2>1. /\ at \in {"send", "network", "body"}
          /\ Fails(CantonNetworkError)
          /\ UNCHANGED final
      BY <1>9 DEF ConnectionFails
    <2>2. ~final' /\ final' \in BOOLEAN
      BY <1>1, <2>1 DEF FetchInv, TypeOK
    <2>3. QED
      BY <2>1, <2>2, FailsInv, OutcomeTypes
  <1>10. CASE TimerFires
    BY <1>1, <1>10 DEF TimerFires, FetchInv, TypeOK
  <1>11. CASE Wake
    BY <1>1, <1>11 DEF Wake, FetchInv, TypeOK, FetchAssumption
  <1>12. QED
    BY <1>2, <1>3, <1>4, <1>5, <1>6, <1>7, <1>8, <1>9, <1>10, <1>11
    DEF Next, Client, Server

\* The invariant from which the bounds follow.
THEOREM FetchInvariant == Spec => []FetchInv
  BY FetchInit, FetchStep, PTL DEF Spec

\* Type correctness.
THEOREM FetchTypes == Spec => []TypeOK
  <1>1. FetchInv => TypeOK
    BY DEF FetchInv
  <1>2. QED
    BY <1>1, FetchInvariant, PTL

\* Whatever the server and the hooks do, at most retries + 1 requests are sent,
\* and a retryable error is reported only after the last attempt.
THEOREM AttemptsAreBounded == Spec => []GivesUpWhenExhausted
  <1>1. FetchInv => GivesUpWhenExhausted
    BY FetchAssumption DEF FetchInv, TypeOK, GivesUpWhenExhausted, FetchAssumption
  <1>2. QED
    BY <1>1, FetchInvariant, PTL

\* No call leaves its timer armed, except by an onRequest that throws.
THEOREM TimerIsReleased == Spec => []TimerReleased
  <1>1. FetchInv => TimerReleased
    BY DEF FetchInv, TimerReleased
  <1>2. QED
    BY <1>1, FetchInvariant, PTL

\* Nothing is sent after a success, or an error that is not retryable, was taken.
THEOREM FinalAnswersAreFinal == Spec => NoResendAfterFinalAnswer
  <1>1. ASSUME FetchInv, [Next]_vars
        PROVE  sent' > sent => ~final
    <2>1. CASE Send
      BY <1>1, <2>1 DEF Send, FetchInv
    <2>2. CASE ~Send
      <3>1. sent' = sent
        BY <1>1, <2>2 DEF Next, Client, Server, RequestHookThrows, SendAborted, Aborted,
           AnswerOk, AnswerError, BodyRead, ConnectionFails, TimerFires, Wake, Fails, vars
      <3>2. QED
        BY <1>1, <3>1 DEF FetchInv, TypeOK
    <2>3. QED
      BY <2>1, <2>2
  <1>2. QED
    BY <1>1, FetchInvariant, PTL DEF Spec, NoResendAfterFinalAnswer

-------------------------------------------------------------------------------
(***************************************************************************)
(* Termination, up to fairness: what a call may still do is a number that  *)
(* every step makes smaller, the answers of the server and the timer       *)
(* included.                                                               *)
(***************************************************************************)

Stage == CASE at = "send" -> 4
           [] at = "network" -> 3
           [] at = "body" -> 2
           [] at = "sleep" -> 1
           [] at = "done" -> 0

StepsLeft == 4 * (Retries - attempt) + Stage + (IF timer = "armed" THEN 1 ELSE 0)

\* A call takes at most 4 * Retries + 5 steps, whatever its retries meet: each
\* one leaves fewer to take.
BoundedWork == StepsLeft \in 0..(4 * Retries + 5)

EveryStepCounts == [][StepsLeft' < StepsLeft]_vars

\* A failing attempt sleeps or ends the call, and leaves the timer unarmed.
LEMMA FailsCounts ==
  ASSUME FetchInv, at \in {"send", "network", "body"}, NEW error, Fails(error)
  PROVE  StepsLeft' < StepsLeft
  <1>1. TypeOK /\ FetchAssumption
    BY FetchAssumption DEF FetchInv
  <1>2. attempt' = attempt /\ at' \in {"sleep", "done"} /\ timer' # "armed"
    BY <1>1 DEF Fails, Finish, ClearTimer, TypeOK
  <1>3. Stage \in 2..4 /\ Stage' \in 0..1
    BY <1>2 DEF Stage
  <1>4. attempt \in 0..Retries /\ Retries \in Nat
    BY <1>1 DEF TypeOK, FetchAssumption
  <1>5. \A n \in Int, a \in 2..4, b \in 0..1 : 4 * n + b < 4 * n + a
    OBVIOUS
  <1>6. \A n \in Int, a \in 2..4, b \in 0..1 : 4 * n + b < 4 * n + a + 1
    OBVIOUS
  <1>7. Retries - attempt \in Int
    BY <1>4
  <1>8. StepsLeft' = 4 * (Retries - attempt) + Stage'
    BY <1>2, <1>3, <1>4 DEF StepsLeft
  <1>9. \/ StepsLeft = 4 * (Retries - attempt) + Stage
        \/ StepsLeft = 4 * (Retries - attempt) + Stage + 1
    BY <1>3, <1>4 DEF StepsLeft
  <1>10. QED
    BY <1>3, <1>5, <1>6, <1>7, <1>8, <1>9

\* Retries are used up one by one, and no answer, failure or timeout gives back
\* what an attempt has used.
THEOREM StepsRunOut == Spec => []BoundedWork /\ EveryStepCounts
  <1>1. FetchInv => BoundedWork
    <2> SUFFICES ASSUME FetchInv
                 PROVE  BoundedWork
      OBVIOUS
    <2>1. attempt \in 0..Retries /\ Retries \in Nat /\ Stage \in 0..4
      BY FetchAssumption DEF FetchInv, TypeOK, FetchAssumption, Stage
    <2>2. QED
      BY <2>1 DEF BoundedWork, StepsLeft
  <1>2. ASSUME FetchInv, Next
        PROVE  StepsLeft' < StepsLeft
    <2>1. attempt \in 0..Retries /\ Retries \in Nat
      BY <1>2, FetchAssumption DEF FetchInv, TypeOK, FetchAssumption
    <2>2. CASE RequestHookThrows
      <3>1. Stage = 4 /\ Stage' = 0 /\ UNCHANGED <<attempt, timer>>
        BY <2>2 DEF RequestHookThrows, Finish, Stage
      <3>2. QED
        BY <2>1, <3>1 DEF StepsLeft
    <2>3. CASE Send
      <3>1. Stage = 4 /\ Stage' = 3 /\ UNCHANGED <<attempt, timer>>
        BY <2>3 DEF Send, Stage
      <3>2. QED
        BY <2>1, <3>1 DEF StepsLeft
    <2>4. CASE TimerFires
      <3>1. Stage' = Stage /\ Stage \in 0..4 /\ attempt' = attempt
        BY <1>2, <2>4 DEF TimerFires, FetchInv, TypeOK, Stage
      <3>2. QED
        BY <2>1, <2>4, <3>1 DEF TimerFires, StepsLeft
    <2>5. CASE Wake
      <3>1. Stage = 1 /\ Stage' = 4 /\ attempt' = attempt + 1 /\ timer' = timer
        BY <2>5 DEF Wake, Stage
      <3>2. QED
        BY <2>1, <3>1 DEF StepsLeft
    <2>6. CASE at = "network" /\ at' = "done" /\ ClearTimer /\ UNCHANGED attempt
      <3>1. Stage = 3 /\ Stage' = 0 /\ (timer' = "armed" => timer = "armed")
        BY <2>6 DEF ClearTimer, Stage
      <3>2. QED
        BY <2>1, <2>6, <3>1 DEF StepsLeft
    <2>7. CASE at = "network" /\ at' = "body" /\ UNCHANGED <<attempt, timer>>
      <3>1. Stage = 3 /\ Stage' = 2
        BY <2>7 DEF Stage
      <3>2. QED
        BY <2>1, <2>7, <3>1 DEF StepsLeft
    <2>8. CASE at \in {"send", "network", "body"} /\ \E error : Fails(error)
      BY <1>2, <2>8, FailsCounts
    <2>9. QED
      BY <1>2, <2>2, <2>3, <2>4, <2>5, <2>6, <2>7, <2>8
      DEF Next, Client, Server, SendAborted, Aborted, AnswerOk, Finish, ConnectionFails,
          AnswerError, BodyRead
  <1>3. QED
    BY <1>1, <1>2, FetchInvariant, PTL DEF Spec, EveryStepCounts

===============================================================================
