----------------------------- MODULE LedgerClient -----------------------------
(***************************************************************************)
(* A method of CantonLedgerClient: fetchWithRetry, and then the body of the *)
(* answer; against a ledger that executes a command id once.                *)
(*                                                                         *)
(* Every attempt sends a copy of the same request.  A copy that has been    *)
(* sent is on its way whatever becomes of the attempt: it may be executed   *)
(* after the connection broke or the call timed out.                        *)
(***************************************************************************)
EXTENDS FetchWithRetry

VARIABLES
  copies,    \* ledger: what has become of the n-th request
  effects,   \* ledger: the requests whose command was executed
  returned   \* the method: "no", "value" or "error"

lvars == <<vars, copies, effects, returned>>

LedgerInit ==
  /\ Init
  /\ copies = [n \in 1..(Retries + 1) |-> "unsent"]
  /\ effects = {}
  /\ returned = "no"

\* A copy arrives: it is executed, rejected, or refused as a duplicate (409).  The
\* method builds and serialises its commands once, so that all copies carry one
\* command id, of which the ledger executes one.
Arrives(n) ==
  /\ copies[n] = "sent"
  /\ \E verdict \in {"executed", "rejected"} :
       LET duplicate == effects # {}
       IN  /\ copies' = [copies EXCEPT ![n] = IF duplicate THEN "duplicate" ELSE verdict]
           /\ effects' = IF verdict = "executed" /\ ~duplicate THEN effects \cup {n} ELSE effects
  /\ UNCHANGED <<vars, returned>>

SendCopy == Send /\ copies' = [copies EXCEPT ![sent + 1] = "sent"] /\ UNCHANGED effects

\* The status the ledger answers the current copy with; a proxy in front of it
\* may answer 503 or 504 at any time.
Answers(status) ==
  \/ status \in {503, 504}
  \/ status = 409 /\ copies[sent] = "duplicate"
  \/ status # 409 /\ copies[sent] = "rejected"

Attempt ==
  /\ \/ SendCopy
     \/ /\ \/ RequestHookThrows \/ SendAborted \/ Aborted \/ TimerFires \/ Wake
           \/ AnswerOk /\ copies[sent] = "executed"
           \/ ConnectionFails
           \/ \E a \in Answer : (AnswerError(a) /\ Answers(a.status)) \/ BodyRead(a)
        /\ UNCHANGED <<copies, effects>>
  /\ UNCHANGED returned

\* Seeded error: the body of any answer is taken as the value.
Body_AnyStatus ==
  /\ at = "done"
  /\ returned = "no"
  /\ returned' = "value"
  /\ UNCHANGED <<vars, copies, effects>>

\* res.json() of a success: no timer covers it.
Body ==
  /\ at = "done" /\ outcome = Ok
  /\ returned = "no"
  /\ returned' \in {"value", "error"}
  /\ UNCHANGED <<vars, copies, effects>>

\* The error of the call is that of the method.
Throws ==
  /\ at = "done" /\ outcome # Ok
  /\ returned = "no"
  /\ returned' = "error"
  /\ UNCHANGED <<vars, copies, effects>>

LedgerNext == Attempt \/ Body \/ Throws \/ \E n \in DOMAIN copies : Arrives(n)

\* The client's runtime is fair; the network and the ledger owe nothing.
LedgerSpec == LedgerInit /\ [][LedgerNext]_lvars /\ WF_vars(Client) /\ WF_lvars(Throws)

-------------------------------------------------------------------------------
\* Type invariant.
LedgerTypeOK ==
  /\ copies \in [1..(Retries + 1) ->
       {"unsent", "sent", "executed", "duplicate", "rejected"}]
  /\ effects \subseteq 1..(Retries + 1)
  /\ returned \in {"no", "value", "error"}

\* A method that returns a value returns that of a command that was executed.
ValueMeansExecuted == returned = "value" => effects # {}

\* A method ends if the call is answered or breaks, and the body comes: there
\* is nothing else it waits for.
MethodEnds == WF_vars(Server) /\ WF_lvars(Body) => <>(returned # "no")

===============================================================================
