----------------------------- MODULE FetchWithRetry -----------------------------
(***************************************************************************)
(* One call of fetchWithRetry, packages/canton-client/src/fetch.ts, which  *)
(* the ledger, validator and scan clients send every request through.      *)
(*                                                                         *)
(* The call makes attempts; between attempts it sleeps.  One AbortController*)
(* and one timer are created before the first attempt, and the finally of  *)
(* every attempt clears that timer.  The network and the server answer, or *)
(* fail to, when they like.                                                *)
(***************************************************************************)
EXTENDS Naturals

CONSTANTS
  Retries,     \* options.retries
  Statuses,    \* the error statuses a server answers with
  HooksThrow   \* TRUE when onRequest, onResponse or onRetry may throw

ASSUME FetchAssumption ==
  /\ Retries \in Nat
  /\ Statuses \subseteq Nat
  /\ HooksThrow \in BOOLEAN

\* The body of an error answer: a JsCantonError with definiteAnswer true, false
\* or absent, or a text that is not JSON.
Payload == {"definite", "indefinite", "silent", "text"}

Answer == [status : Statuses, payload : Payload]

Code == {"none", "OK", "HTTP", "TIMEOUT", "NETWORK_ERROR", "HOOK"}

\* How the call ends.
Outcome == [code : Code, retryable : BOOLEAN]

Pending == [code |-> "none", retryable |-> FALSE]
Ok == [code |-> "OK", retryable |-> FALSE]
HookError == [code |-> "HOOK", retryable |-> FALSE]
CantonTimeoutError == [code |-> "TIMEOUT", retryable |-> TRUE]
CantonNetworkError == [code |-> "NETWORK_ERROR", retryable |-> TRUE]

VARIABLES
  at,       \* "send", "network", "body", "sleep" or "done"
  attempt,  \* the loop variable
  timer,    \* the timeout: "armed", "fired" (and the signal aborted) or "cleared"
  answer,   \* the error answer whose body is being read, as a set of at most one
  outcome,  \* how the call ended
  sent,     \* requests that reached the network
  final     \* history: a success or a non-retryable error was taken by the call

vars == <<at, attempt, timer, answer, outcome, sent, final>>

TypeOK ==
  /\ at \in {"send", "network", "body", "sleep", "done"}
  /\ attempt \in 0..Retries
  /\ timer \in {"armed", "fired", "cleared"}
  /\ answer \in SUBSET Answer
  /\ outcome \in Outcome
  /\ sent \in Nat
  /\ final \in BOOLEAN

Init ==
  /\ at = "send"
  /\ attempt = 0
  /\ timer = "armed"
  /\ answer = {}
  /\ outcome = Pending
  /\ sent = 0
  /\ final = FALSE

-------------------------------------------------------------------------------
(***************************************************************************)
(* Errors.                                                                 *)
(***************************************************************************)

\* fromResponse, and fromPayload when the body parses.
Retryable(a) == a.payload = "indefinite" \/ a.status \in {429, 503}

FromResponse(a) == [code |-> "HTTP", retryable |-> Retryable(a)]

\* Seeded error: the last attempt may be retried too.
MayRetry_OneMore(error) == error.retryable /\ attempt <= Retries

\* Seeded error: any error is retried.
MayRetry_AnyError(error) == attempt < Retries

MayRetry(error) == error.retryable /\ attempt < Retries

\* Seeded error: the timer is not cleared.
ClearTimer_Missing == UNCHANGED timer

ClearTimer == timer' = IF timer = "armed" THEN "cleared" ELSE timer

Finish(result) ==
  /\ at' = "done"
  /\ outcome' = result

\* The finally of the attempt, then the catch of the loop.
Fails(error) ==
  /\ ClearTimer
  /\ answer' = {}
  /\ \/ MayRetry(error) /\ at' = "sleep" /\ UNCHANGED outcome
     \/ MayRetry(error) /\ HooksThrow /\ Finish(HookError)
     \/ ~MayRetry(error) /\ Finish(error)
  /\ UNCHANGED <<attempt, sent>>

-------------------------------------------------------------------------------
(***************************************************************************)
(* An attempt.  A signal that is aborted rejects whatever waits for it, so *)
(* no answer is taken once the timer has fired.                            *)
(***************************************************************************)

\* onRequest is called before the try, so its failure skips the finally.
RequestHookThrows ==
  /\ at = "send"
  /\ HooksThrow
  /\ Finish(HookError)
  /\ UNCHANGED <<attempt, timer, answer, sent, final>>

Send ==
  /\ at = "send"
  /\ timer # "fired"
  /\ at' = "network"
  /\ sent' = sent + 1
  /\ UNCHANGED <<attempt, timer, answer, outcome, final>>

\* fetch rejects at once on an aborted signal: nothing is sent.
SendAborted ==
  /\ at = "send"
  /\ timer = "fired"
  /\ Fails(CantonTimeoutError)
  /\ UNCHANGED final

AnswerOk ==
  /\ at = "network"
  /\ timer # "fired"
  /\ \/ ClearTimer /\ Finish(Ok) /\ final' = TRUE /\ UNCHANGED <<attempt, answer, sent>>
     \/ HooksThrow /\ Fails(CantonNetworkError) /\ UNCHANGED final

AnswerError(a) ==
  /\ at = "network"
  /\ timer # "fired"
  /\ UNCHANGED final
  /\ \/ at' = "body" /\ answer' = {a} /\ UNCHANGED <<attempt, timer, outcome, sent>>
     \/ HooksThrow /\ Fails(CantonNetworkError)

BodyRead(a) ==
  /\ at = "body"
  /\ timer # "fired"
  /\ a \in answer
  /\ Fails(FromResponse(a))
  /\ final' = (final \/ ~Retryable(a))

ConnectionFails ==
  /\ at \in {"network", "body"}
  /\ timer # "fired"
  /\ Fails(CantonNetworkError)
  /\ UNCHANGED final

\* Seeded error: the signal does not reach the reading of the body.
Aborted_HeadersOnly ==
  /\ at = "network"
  /\ timer = "fired"
  /\ Fails(CantonTimeoutError)
  /\ UNCHANGED final

Aborted ==
  /\ at \in {"network", "body"}
  /\ timer = "fired"
  /\ Fails(CantonTimeoutError)
  /\ UNCHANGED final

\* Nothing yields between the creation of the timer and the first fetch.
TimerFires ==
  /\ timer = "armed"
  /\ at # "send"
  /\ timer' = "fired"
  /\ UNCHANGED <<at, attempt, answer, outcome, sent, final>>

\* Seeded error: the back-off listens to the signal, and never ends once aborted.
Wake_Aborted ==
  /\ at = "sleep"
  /\ timer # "fired"
  /\ at' = "send"
  /\ attempt' = attempt + 1
  /\ UNCHANGED <<timer, answer, outcome, sent, final>>

\* The back-off ends.
Wake ==
  /\ at = "sleep"
  /\ at' = "send"
  /\ attempt' = attempt + 1
  /\ UNCHANGED <<timer, answer, outcome, sent, final>>

-------------------------------------------------------------------------------
Client == RequestHookThrows \/ Send \/ SendAborted \/ Aborted \/ TimerFires \/ Wake

Server == \/ AnswerOk \/ ConnectionFails
          \/ \E a \in Answer : AnswerError(a) \/ BodyRead(a)

Next == Client \/ Server

Spec == Init /\ [][Next]_vars

\* The runtime runs what is ready and its timers fire; of the server nothing is
\* assumed, it may accept a request and never answer.
FairSpec == Spec /\ WF_vars(Client)

-------------------------------------------------------------------------------
(***************************************************************************)
(* Safety.                                                                 *)
(***************************************************************************)

\* The call never sends more than retries + 1 requests, and it gives up with an
\* error it calls retryable only when its attempts are used up.
GivesUpWhenExhausted ==
  /\ sent <= Retries + 1
  /\ (at = "done" /\ outcome.retryable) => attempt = Retries

\* Once the call has taken a success, or an error that is not retryable, nothing
\* is sent again.  (A success whose onResponse throws is not taken: the code turns
\* it into a network error, which is retried.)
NoResendAfterFinalAnswer ==
  [][sent' > sent => ~final]_vars

\* A call that is over leaves no timer behind to keep the process alive, unless
\* onRequest threw before the try.
TimerReleased ==
  (at = "done" /\ outcome # HookError) => timer # "armed"

\* Inductive: attempts sent are attempts counted, the timer belongs to the first
\* attempt, and a retryable error ends the call only at the last attempt.
FetchInv ==
  /\ TypeOK
  /\ sent <= attempt + 1
  /\ at = "send" => sent <= attempt
  /\ (timer = "armed" /\ outcome # HookError) =>
       attempt = 0 /\ at \in {"send", "network", "body"}
  /\ at # "done" => outcome = Pending
  /\ outcome.retryable => attempt = Retries
  /\ at = "sleep" => attempt < Retries
  /\ at \in {"network", "body"} => sent >= 1
  /\ (timer = "fired" /\ outcome # HookError) => sent = 1
  /\ outcome.code = "TIMEOUT" => timer = "fired"
  /\ final => at = "done"

(***************************************************************************)
(* What the documentation says and the code does not do.                   *)
(***************************************************************************)

\* A timeout is retried like every retryable error: a call that ends with one has
\* sent all its requests.
TimeoutsAreRetried ==
  (at = "done" /\ outcome.code = "TIMEOUT") => sent = Retries + 1

(***************************************************************************)
(* Liveness.                                                               *)
(***************************************************************************)

\* The timeout covers the first attempt, body included, whatever the server does.
FirstAttemptEnds == <>(at \in {"sleep", "done"})

===============================================================================
