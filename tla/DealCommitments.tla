---------------------------- MODULE DealCommitments ----------------------------
(***************************************************************************)
(* What the deal service promises however its calls interleave and         *)
(* whichever of them fail: the terms of a deal are fixed when it opens, a  *)
(* settlement is issued for an open deal and for its own terms only, and a *)
(* deal is ready or settled only after a settlement was issued for it.     *)
(* The order in which a deal visits its phases is not promised.            *)
(***************************************************************************)

CONSTANTS DealIds, Terms, None

VARIABLES
  terms,   \* the terms of each deal that is open
  issued,  \* the terms of the settlements issued for each deal
  phase    \* "none", "open", "ready", "settled" or "closed"

cvars == <<terms, issued, phase>>

Phase == {"open", "ready", "settled", "closed"}

Init ==
  /\ terms = [d \in DealIds |-> None]
  /\ issued = [d \in DealIds |-> {}]
  /\ phase = [d \in DealIds |-> "none"]

Open(d, t) ==
  /\ phase[d] = "none"
  /\ terms' = [terms EXCEPT ![d] = t]
  /\ phase' = [phase EXCEPT ![d] = "open"]
  /\ UNCHANGED issued

Issue(d) ==
  /\ phase[d] # "none"
  /\ issued' = [issued EXCEPT ![d] = @ \cup {terms[d]}]
  /\ UNCHANGED <<terms, phase>>

Move(d, p) ==
  /\ phase[d] # "none"
  /\ p \in {"ready", "settled"} => issued[d] # {}
  /\ phase' = [phase EXCEPT ![d] = p]
  /\ UNCHANGED <<terms, issued>>

Next == \E d \in DealIds :
          \/ \E t \in Terms : Open(d, t)
          \/ Issue(d)
          \/ \E p \in Phase : Move(d, p)

Spec == Init /\ [][Next]_cvars

===============================================================================
