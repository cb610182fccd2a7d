---------------------------- MODULE ApiServer_proofs ----------------------------
(***************************************************************************)
(* Proofs about ApiServer, for any number of requests, users and commands  *)
(* and any capacity of the ring buffers.                                   *)
(***************************************************************************)
EXTENDS ApiServer, SequenceTheorems, TLAPS

Request == [stage : Stages, route : Routes \cup {"none"},
            caller : Users \cup Externals \cup {None}, id : Nat]
Jobs == [kind : {"adapter", "handler"}, req : Requests]
Commands == {"wallet_connect", "wallet_disconnect"}
Results == {"open", "ok", "failed"}

\* A request q has passed what its stage asks for, when rl holds the roles.
Fits(q, rl) ==
  /\ q.stage = "login" => q.route = "login" /\ q.caller \in Externals
  /\ q.stage = "metadata" => q.route = "metadata"
  /\ q.stage = "admin" =>
       q.route \in Admin /\ q.caller \in Users /\ rl[q.caller] = "admin"
  /\ q.stage = "wallet" =>
       \/ q.route \in WalletRoutes /\ q.caller # None
       \/ q.route = "opsHealth" /\ q.caller \in Users /\ rl[q.caller] = "admin"

\* Queue q holds one job for each request of rq that waits for the wallet.
Queued(q, rq) ==
  /\ \A i \in DOMAIN q : rq[q[i].req].stage = "wallet"
  /\ \A i, j \in DOMAIN q : q[i].req = q[j].req => i = j

\* The jobs that will record a command, and the last of them.
Records(i, q, rq) ==
  i \in DOMAIN q /\ q[i].kind = "handler" /\ rq[q[i].req].route \in {"connect", "disconnect"}

Last(i, q, rq) == Records(i, q, rq) /\ \A j : Records(j, q, rq) => j <= i

\* What the log and the queue say of the session.
LogTells(q, rq, log, connected) ==
  \/ \E i : Last(i, q, rq) /\ connected = (rq[q[i].req].route = "connect")
  \/ /\ \A j : ~Records(j, q, rq)
     /\ connected = (log # << >> /\ log[1] = "wallet_connect")

ApiInv ==
  /\ TypeOK
  /\ ErrorsAreNewest
  /\ \A r \in Requests : Fits(req[r], role)
  /\ Queued(jobs, req)
  /\ LogTells(jobs, req, commands, session)

-----------------------------------------------------------------------------
(* Ring buffers.                                                           *)

LEMMA OneEntry == ASSUME NEW S, NEW x \in S, NEW s \in Seq(S)
  PROVE  /\ <<x>> \o s \in Seq(S)
         /\ Len(<<x>> \o s) = Len(s) + 1
         /\ (<<x>> \o s)[1] = x
         /\ \A i \in 1..Len(s) : (<<x>> \o s)[i + 1] = s[i]
  <1>1. <<x>> \in Seq(S) /\ Len(<<x>>) = 1 /\ <<x>>[1] = x
    OBVIOUS
  <1>2. /\ <<x>> \o s \in Seq(S)
        /\ Len(<<x>> \o s) = Len(<<x>>) + Len(s)
        /\ \A i \in 1..Len(<<x>>) + Len(s) : (<<x>> \o s)[i] =
             IF i <= Len(<<x>>) THEN <<x>>[i] ELSE s[i - Len(<<x>>)]
    BY <1>1, ConcatProperties
  <1>3. Len(s) \in Nat
    BY LenProperties
  <1>4. QED
    BY <1>1, <1>2, <1>3

LEMMA RecordedCases ==
  ASSUME NEW b, NEW x, NEW all, all = <<x>> \o b
  PROVE  Recorded(b, x) = IF Len(all) > Capacity THEN SubSeq(all, 1, Len(all) - 1) ELSE all
  BY DEF Recorded

\* Recording keeps the newest entries: those that fit of the longer history.
LEMMA NewestStay ==
  ASSUME NEW s \in Seq(Nat), NEW x \in Nat, ApiAssumption
  PROVE  Recorded(SubSeq(s, 1, Least(Len(s), Capacity)), x)
           = SubSeq(<<x>> \o s, 1, Least(Len(<<x>> \o s), Capacity))
  <1> DEFINE n == Len(s)
             c == Capacity
             m == Least(n, c)
             b == SubSeq(s, 1, m)
             t == <<x>> \o s
             all == <<x>> \o b
  <1>1. n \in Nat /\ c \in Nat \ {0} /\ \A i \in 1..n : s[i] \in Nat
    BY LenProperties, ElementOfSeq DEF ApiAssumption
  <1>2. m \in Nat /\ m <= n /\ m <= c /\ (m = n \/ m = c)
    BY <1>1 DEF Least
  <1> HIDE DEF m
  <1>3. /\ b \in Seq(Nat)
        /\ Len(b) = IF 1 <= m THEN m - 1 + 1 ELSE 0
        /\ \A i \in 1..m - 1 + 1 : b[i] = s[1 + i - 1]
    BY <1>1, <1>2, SubSeqProperties
  <1>4. Len(b) = m /\ \A i \in 1..m : b[i] = s[i]
    BY <1>2, <1>3
  <1> HIDE DEF b
  <1>5. t \in Seq(Nat) /\ Len(t) = n + 1 /\ t[1] = x /\ \A i \in 1..n : t[i + 1] = s[i]
    BY OneEntry
  <1>6. all \in Seq(Nat) /\ Len(all) = m + 1 /\ all[1] = x /\ \A i \in 1..m : all[i + 1] = b[i]
    BY <1>3, <1>4, OneEntry
  <1>7. Recorded(b, x) = IF m + 1 > c THEN SubSeq(all, 1, m + 1 - 1) ELSE all
    <2>1. Recorded(b, x) = IF Len(all) > c THEN SubSeq(all, 1, Len(all) - 1) ELSE all
      BY RecordedCases
    <2> HIDE DEF all
    <2>2. Len(all) = m + 1 /\ Len(all) - 1 = m + 1 - 1
      BY <1>2, <1>6
    <2>3. QED
      BY <2>1, <2>2, <1>1, <1>2
  <1> HIDE DEF t, all
  <1>8. ASSUME NEW k \in 0..m + 1
        PROVE  SubSeq(t, 1, k) = SubSeq(all, 1, k)
    <2>1. \A i \in 1..k : t[i] = all[i] /\ t[i] \in Nat
      <3>1. SUFFICES ASSUME NEW i \in 1..k PROVE t[i] = all[i] /\ t[i] \in Nat
        OBVIOUS
      <3>2. CASE i = 1
        BY <3>2, <1>5, <1>6
      <3>3. CASE i # 1
        <4>1. i - 1 \in 1..m /\ i - 1 \in 1..n /\ (i - 1) + 1 = i
          BY <3>3, <1>2, <1>1
        <4>2. t[(i - 1) + 1] = s[i - 1] /\ all[(i - 1) + 1] = b[i - 1] /\ b[i - 1] = s[i - 1]
          BY <4>1, <1>4, <1>5, <1>6
        <4>3. QED
          BY <4>1, <4>2, <1>1
      <3>4. QED
        BY <3>2, <3>3
    <2>2. k \in Int /\ 1 \in Int
      BY <1>2
    <2>3. /\ SubSeq(t, 1, k) \in Seq(Nat)
          /\ Len(SubSeq(t, 1, k)) = IF 1 <= k THEN k - 1 + 1 ELSE 0
          /\ \A i \in 1..k - 1 + 1 : SubSeq(t, 1, k)[i] = t[1 + i - 1]
      BY <2>1, <2>2, SubSeqProperties
    <2>4. \A i \in 1..k : all[i] \in Nat
      BY <2>1
    <2>5. /\ SubSeq(all, 1, k) \in Seq(Nat)
          /\ Len(SubSeq(all, 1, k)) = IF 1 <= k THEN k - 1 + 1 ELSE 0
          /\ \A i \in 1..k - 1 + 1 : SubSeq(all, 1, k)[i] = all[1 + i - 1]
      BY <2>4, <2>2, SubSeqProperties
    <2> DEFINE tk == SubSeq(t, 1, k)
               ak == SubSeq(all, 1, k)
    <2> HIDE DEF tk, ak
    <2>6. Len(tk) = Len(ak) /\ Len(tk) = k /\ \A i \in 1..k : tk[i] = t[i] /\ ak[i] = all[i]
      BY <2>2, <2>3, <2>5, <1>2 DEF tk, ak
    <2>7. tk \in Seq(Nat) /\ ak \in Seq(Nat)
      BY <2>3, <2>5 DEF tk, ak
    <2>8. \A i \in 1..Len(tk) : tk[i] = ak[i]
      BY <2>1, <2>6
    <2>9. tk = ak
      BY <2>6, <2>7, <2>8, SeqEqual
    <2>10. QED
      BY <2>9 DEF tk, ak
  <1>9. CASE m + 1 > c
    <2>1. m = c /\ Least(n + 1, c) = c /\ c \in 0..m + 1 /\ m + 1 - 1 = c
      BY <1>1, <1>2, <1>9 DEF Least
    <2>2. QED
      BY <2>1, <1>5, <1>7, <1>8, <1>9 DEF m, b, t
  <1>10. CASE ~(m + 1 > c)
    <2>1. m = n /\ Least(n + 1, c) = n + 1 /\ m + 1 \in 0..m + 1
      BY <1>1, <1>2, <1>10 DEF Least
    <2>2. SubSeq(t, 1, m + 1) = SubSeq(all, 1, m + 1)
      BY <2>1, <1>8
    <2>3. SubSeq(all, 1, Len(all)) = all
      BY <1>6, SubSeqFull
    <2>4. QED
      BY <2>1, <2>2, <2>3, <1>5, <1>6, <1>7, <1>10 DEF m, b, t
  <1>11. QED
    BY <1>9, <1>10

LEMMA RecordedIsBuffer ==
  ASSUME NEW S, NEW b \in Seq(S), NEW x \in S, ApiAssumption
  PROVE  /\ Recorded(b, x) \in Seq(S)
         /\ Recorded(b, x) # << >>
         /\ Recorded(b, x)[1] = x
  <1> DEFINE all == <<x>> \o b
  <1>1. all \in Seq(S) /\ Len(all) = Len(b) + 1 /\ all[1] = x
    BY OneEntry
  <1>2. Len(b) \in Nat /\ Capacity \in Nat \ {0}
    BY LenProperties DEF ApiAssumption
  <1>3. Recorded(b, x) = IF Len(b) + 1 > Capacity THEN SubSeq(all, 1, Len(b)) ELSE all
    <2>1. Recorded(b, x) = IF Len(all) > Capacity THEN SubSeq(all, 1, Len(all) - 1) ELSE all
      BY RecordedCases
    <2>2. Len(b) + 1 - 1 = Len(b)
      BY <1>2
    <2> HIDE DEF all
    <2>3. QED
      BY <2>1, <2>2, <1>1
  <1> HIDE DEF all
  <1>4. \A i \in 1..Len(b) : all[i] \in S
    <2>1. \A i \in 1..Len(all) : all[i] \in S
      BY <1>1, ElementOfSeq
    <2>2. QED
      BY <1>1, <1>2, <2>1
  <1>5. /\ SubSeq(all, 1, Len(b)) \in Seq(S)
        /\ Len(SubSeq(all, 1, Len(b))) = IF 1 <= Len(b) THEN Len(b) - 1 + 1 ELSE 0
        /\ \A i \in 1..Len(b) - 1 + 1 : SubSeq(all, 1, Len(b))[i] = all[1 + i - 1]
    BY <1>2, <1>4, SubSeqProperties
  <1>6. CASE Len(b) + 1 > Capacity
    <2>1. 1 <= Len(b) /\ 1 \in 1..Len(b) - 1 + 1 /\ 1 + 1 - 1 = 1
      BY <1>2, <1>6
    <2>2. Len(SubSeq(all, 1, Len(b))) > 0 /\ SubSeq(all, 1, Len(b))[1] = x
      BY <1>1, <1>2, <1>5, <2>1
    <2>3. SubSeq(all, 1, Len(b)) # << >>
      <3> DEFINE first == SubSeq(all, 1, Len(b))
      <3> HIDE DEF first
      <3>1. first \in Seq(S) /\ Len(first) > 0
        BY <1>5, <2>2 DEF first
      <3>2. first # << >>
        BY <3>1
      <3>3. QED
        BY <3>2 DEF first
    <2>4. QED
      BY <1>3, <1>5, <1>6, <2>2, <2>3
  <1>7. CASE ~(Len(b) + 1 > Capacity)
    <2>1. all # << >>
      BY <1>1, <1>2
    <2>2. QED
      BY <1>1, <1>3, <1>7, <2>1
  <1>8. QED
    BY <1>6, <1>7

-----------------------------------------------------------------------------
(* The queue of microtasks.                                                *)

LEMMA QueueElements ==
  ASSUME NEW q \in Seq(Jobs), NEW i \in DOMAIN q
  PROVE  i \in 1..Len(q) /\ q[i].req \in Requests /\ q[i].kind \in {"adapter", "handler"}
  <1>1. DOMAIN q = 1..Len(q)
    BY LenProperties
  <1>2. q[i] \in Jobs
    BY <1>1, ElementOfSeq
  <1>3. QED
    BY <1>1, <1>2 DEF Jobs

\* What happens to a request that waits for nothing leaves the queue alone.
LEMMA QueueKept ==
  ASSUME NEW q \in Seq(Jobs), NEW rq, NEW rq2, NEW log, NEW con, NEW r \in Requests,
         rq[r].stage # "wallet",
         \A x \in Requests \ {r} : rq2[x] = rq[x],
         Queued(q, rq), LogTells(q, rq, log, con)
  PROVE  Queued(q, rq2) /\ LogTells(q, rq2, log, con)
  <1>1. \A i \in DOMAIN q : q[i].req \in Requests \ {r}
    BY QueueElements DEF Queued
  <1>2. \A i \in DOMAIN q : rq2[q[i].req] = rq[q[i].req]
    BY <1>1
  <1>3. \A i : Records(i, q, rq2) <=> Records(i, q, rq)
    BY <1>2 DEF Records
  <1>4. \A i : Last(i, q, rq2) <=> Last(i, q, rq)
    BY <1>3 DEF Last
  <1>5. LogTells(q, rq2, log, con)
    <2>1. \A i : Last(i, q, rq) => rq2[q[i].req] = rq[q[i].req]
      BY <1>2 DEF Last, Records
    <2>2. QED
      BY <1>3, <1>4, <2>1 DEF LogTells
  <1>6. Queued(q, rq2)
    BY <1>2 DEF Queued
  <1>7. QED
    BY <1>5, <1>6

\* A request that calls the adapter joins the queue, and will record nothing yet.
LEMMA QueueJoined ==
  ASSUME NEW q \in Seq(Jobs), NEW rq, NEW rq2, NEW log, NEW con, NEW r \in Requests,
         rq[r].stage # "wallet", rq2[r].stage = "wallet",
         \A x \in Requests \ {r} : rq2[x] = rq[x],
         Queued(q, rq), LogTells(q, rq, log, con)
  PROVE  /\ Append(q, Job("adapter", r)) \in Seq(Jobs)
         /\ Queued(Append(q, Job("adapter", r)), rq2)
         /\ LogTells(Append(q, Job("adapter", r)), rq2, log, con)
  <1> DEFINE n == Len(q)
             q2 == Append(q, Job("adapter", r))
  <1>1. Job("adapter", r) \in Jobs /\ Job("adapter", r).req = r
        /\ Job("adapter", r).kind = "adapter"
    BY DEF Job, Jobs
  <1>2. /\ q2 \in Seq(Jobs) /\ Len(q2) = n + 1
        /\ \A i \in 1..n : q2[i] = q[i]
        /\ q2[n + 1] = Job("adapter", r)
    BY <1>1, AppendProperties
  <1>3. n \in Nat /\ DOMAIN q = 1..n /\ DOMAIN q2 = 1..n + 1
    BY <1>2, LenProperties
  <1> HIDE DEF q2, n
  <1>4. \A i \in DOMAIN q : q[i].req \in Requests \ {r}
    BY QueueElements DEF Queued
  <1>5. \A i \in DOMAIN q2 : \/ i \in DOMAIN q /\ q2[i] = q[i]
                             \/ i = n + 1 /\ i \notin DOMAIN q /\ q2[i] = Job("adapter", r)
    BY <1>2, <1>3
  <1>6. DOMAIN q \subseteq DOMAIN q2 /\ \A i \in DOMAIN q : q2[i] = q[i]
    BY <1>2, <1>3
  <1>7. Queued(q2, rq2)
    <2>1. \A i \in DOMAIN q2 : rq2[q2[i].req].stage = "wallet"
      BY <1>1, <1>4, <1>5 DEF Queued
    <2>2. ASSUME NEW i \in DOMAIN q2, NEW j \in DOMAIN q2, q2[i].req = q2[j].req
          PROVE  i = j
      BY <2>2, <1>1, <1>4, <1>5 DEF Queued
    <2>3. QED
      BY <2>1, <2>2 DEF Queued
  <1>8. \A i : Records(i, q2, rq2) <=> Records(i, q, rq)
    BY <1>1, <1>4, <1>5, <1>6 DEF Records
  <1>9. \A i : Last(i, q2, rq2) <=> Last(i, q, rq)
    BY <1>8 DEF Last
  <1>10. \A i : Last(i, q, rq) => rq2[q2[i].req] = rq[q[i].req]
    BY <1>4, <1>6 DEF Last, Records
  <1>11. LogTells(q2, rq2, log, con)
    BY <1>8, <1>9, <1>10 DEF LogTells
  <1>12. QED
    BY <1>2, <1>7, <1>11 DEF q2

LEMMA QueueTail ==
  ASSUME NEW q \in Seq(Jobs), q # << >>
  PROVE  /\ Tail(q) \in Seq(Jobs)
         /\ Len(q) \in Nat \ {0} /\ DOMAIN q = 1..Len(q) /\ DOMAIN Tail(q) = 1..Len(q) - 1
         /\ Head(q) = q[1]
         /\ \A i \in 1..Len(q) - 1 : Tail(q)[i] = q[i + 1]
  <1>1. /\ Tail(q) \in Seq(Jobs) /\ Len(Tail(q)) = Len(q) - 1
        /\ \A i \in 1..Len(Tail(q)) : Tail(q)[i] = q[i + 1]
    BY HeadTailProperties
  <1>2. Len(q) \in Nat \ {0}
    BY EmptySeq
  <1>3. DOMAIN q = 1..Len(q) /\ DOMAIN Tail(q) = 1..Len(Tail(q))
    BY <1>1, LenProperties
  <1>4. Head(q) = q[1]
    OBVIOUS
  <1>5. QED
    BY <1>1, <1>2, <1>3, <1>4

\* The adapter's part of a call is done: the rest of the handler comes last, and
\* if it will record a command, that command is the one the session is of.
LEMMA QueueServed ==
  ASSUME NEW q \in Seq(Jobs), NEW rq, NEW log, NEW con, NEW r \in Requests, NEW con2,
         q # << >>, Head(q) = Job("adapter", r),
         Queued(q, rq), LogTells(q, rq, log, con),
         con2 = CASE rq[r].route = "connect" -> TRUE
                  [] rq[r].route = "disconnect" -> FALSE
                  [] OTHER -> con
  PROVE  /\ Append(Tail(q), Job("handler", r)) \in Seq(Jobs)
         /\ Queued(Append(Tail(q), Job("handler", r)), rq)
         /\ LogTells(Append(Tail(q), Job("handler", r)), rq, log, con2)
  <1> DEFINE n == Len(q)
             t == Tail(q)
             q2 == Append(t, Job("handler", r))
  <1>1. Job("handler", r) \in Jobs /\ Job("handler", r).req = r
        /\ Job("handler", r).kind = "handler"
    BY DEF Job, Jobs
  <1>2. /\ t \in Seq(Jobs) /\ n \in Nat \ {0} /\ DOMAIN q = 1..n /\ DOMAIN t = 1..n - 1
        /\ q[1].req = r /\ q[1].kind = "adapter"
        /\ \A i \in 1..n - 1 : t[i] = q[i + 1]
    BY QueueTail DEF Job
  <1>3. Len(t) = n - 1
    BY <1>2, HeadTailProperties
  <1>4. /\ q2 \in Seq(Jobs) /\ Len(q2) = Len(t) + 1
        /\ \A i \in 1..Len(t) : q2[i] = t[i]
        /\ q2[Len(t) + 1] = Job("handler", r)
    BY <1>1, <1>2, AppendProperties
  <1>5. DOMAIN q2 = 1..n
    BY <1>2, <1>3, <1>4, LenProperties
  <1> HIDE DEF q2, t, n
  <1>6. \A i \in 1..n : \/ i < n /\ i + 1 \in 1..n /\ q2[i] = q[i + 1]
                        \/ i = n /\ q2[i] = Job("handler", r)
    BY <1>2, <1>3, <1>4
  <1>7. Queued(q2, rq)
    <2>1. \A i \in DOMAIN q2 : rq[q2[i].req].stage = "wallet"
      <3>1. rq[r].stage = "wallet"
        BY <1>2 DEF Queued
      <3>2. QED
        BY <3>1, <1>1, <1>2, <1>5, <1>6 DEF Queued
    <2>2. ASSUME NEW i \in DOMAIN q2, NEW j \in DOMAIN q2, q2[i].req = q2[j].req
          PROVE  i = j
      <3>1. i \in 1..n /\ j \in 1..n
        BY <1>5
      <3>2. ASSUME NEW k \in 1..n, k + 1 \in 1..n, q[k + 1].req = r PROVE FALSE
        <4>1. k + 1 = 1
          BY <3>2, <1>2 DEF Queued
        <4>2. QED
          BY <4>1
      <3>3. CASE i < n /\ j < n
        <4>1. q[i + 1].req = q[j + 1].req /\ i + 1 \in DOMAIN q /\ j + 1 \in DOMAIN q
          BY <2>2, <3>1, <3>3, <1>2, <1>6
        <4>2. i + 1 = j + 1
          BY <4>1 DEF Queued
        <4>3. QED
          BY <3>1, <4>2
      <3>4. CASE i = n \/ j = n
        BY <2>2, <3>1, <3>2, <3>4, <1>1, <1>6
      <3>5. QED
        BY <3>1, <3>3, <3>4, <1>2
    <2>3. QED
      BY <2>1, <2>2 DEF Queued
  <1>8. CASE rq[r].route \in {"connect", "disconnect"}
    <2>1. n \in DOMAIN q2 /\ q2[n] = Job("handler", r)
      BY <1>2, <1>3, <1>4, <1>5
    <2>2. Records(n, q2, rq)
      BY <1>1, <1>8, <2>1 DEF Records
    <2>3. \A j : Records(j, q2, rq) => j <= n
      BY <1>2, <1>5 DEF Records
    <2>4. Last(n, q2, rq) /\ con2 = (rq[q2[n].req].route = "connect")
      BY <1>1, <1>8, <2>1, <2>2, <2>3 DEF Last
    <2>5. LogTells(q2, rq, log, con2)
      BY <2>4 DEF LogTells
    <2>6. QED
      BY <1>4, <1>7, <2>5 DEF q2, t
  <1>9. CASE rq[r].route \notin {"connect", "disconnect"}
    <2>1. con2 = con
      BY <1>9
    <2>2. \A j : Records(j, q2, rq) => j \in 1..n - 1
      BY <1>1, <1>2, <1>5, <1>6, <1>9 DEF Records
    <2>3. \A j \in 1..n - 1 : q2[j] = q[j + 1] /\ j \in DOMAIN q2 /\ j + 1 \in DOMAIN q
      BY <1>2, <1>5, <1>6
    <2>4. \A j : Records(j, q, rq) => j \in 1..n /\ j # 1
      BY <1>2, <1>9 DEF Records
    <2>5. \A j \in 1..n - 1 : Records(j, q2, rq) <=> Records(j + 1, q, rq)
      BY <2>3 DEF Records
    <2>6. CASE \E i : Last(i, q, rq) /\ con = (rq[q[i].req].route = "connect")
      <3>1. PICK i : Last(i, q, rq) /\ con = (rq[q[i].req].route = "connect")
        BY <2>6
      <3>2. i \in 1..n /\ i # 1 /\ Records(i, q, rq)
        BY <3>1, <2>4 DEF Last
      <3>3. i - 1 \in 1..n - 1 /\ (i - 1) + 1 = i
        BY <3>2, <1>2
      <3>4. Records(i - 1, q2, rq) /\ q2[i - 1] = q[i]
        <4>1. Records(i - 1, q2, rq) <=> Records((i - 1) + 1, q, rq)
          BY <3>3, <2>5
        <4>2. q2[i - 1] = q[(i - 1) + 1]
          BY <3>3, <2>3
        <4>3. QED
          BY <4>1, <4>2, <3>2, <3>3
      <3>5. ASSUME NEW j, Records(j, q2, rq) PROVE j <= i - 1
        <4>1. j \in 1..n - 1 /\ Records(j + 1, q, rq)
          BY <3>5, <2>2, <2>5
        <4>2. j + 1 <= i
          BY <4>1, <3>1 DEF Last
        <4>3. QED
          BY <4>1, <4>2, <3>2
      <3>6. Last(i - 1, q2, rq)
        BY <3>4, <3>5 DEF Last
      <3>7. con2 = (rq[q2[i - 1].req].route = "connect")
        BY <3>1, <3>4, <2>1
      <3>8. QED
        BY <3>6, <3>7, <1>4, <1>7 DEF LogTells, q2, t
    <2>7. CASE /\ \A j : ~Records(j, q, rq)
               /\ con = (log # << >> /\ log[1] = "wallet_connect")
      <3>1. \A j : ~Records(j, q2, rq)
        BY <2>2, <2>5, <2>7
      <3>2. LogTells(q2, rq, log, con2)
        BY <3>1, <2>1, <2>7 DEF LogTells
      <3>3. QED
        BY <3>2, <1>4, <1>7 DEF q2, t
    <2>8. QED
      BY <2>6, <2>7 DEF LogTells
  <1>10. QED
    BY <1>8, <1>9

\* The rest of a handler runs: its request leaves the queue, and its command, if
\* it has one, is now the newest of the log.
LEMMA QueueAnswered ==
  ASSUME NEW q \in Seq(Jobs), NEW rq, NEW rq2, NEW log, NEW log2, NEW con, NEW r \in Requests,
         q # << >>, Head(q) = Job("handler", r),
         \A x \in Requests \ {r} : rq2[x] = rq[x],
         Queued(q, rq), LogTells(q, rq, log, con),
         rq[r].route \notin {"connect", "disconnect"} => log2 = log,
         rq[r].route = "connect" => log2 # << >> /\ log2[1] = "wallet_connect",
         rq[r].route = "disconnect" => log2 # << >> /\ log2[1] = "wallet_disconnect"
  PROVE  /\ Tail(q) \in Seq(Jobs)
         /\ Queued(Tail(q), rq2)
         /\ LogTells(Tail(q), rq2, log2, con)
  <1> DEFINE n == Len(q)
             t == Tail(q)
  <1>1. /\ t \in Seq(Jobs) /\ n \in Nat \ {0} /\ DOMAIN q = 1..n /\ DOMAIN t = 1..n - 1
        /\ q[1].req = r /\ q[1].kind = "handler"
        /\ \A i \in 1..n - 1 : t[i] = q[i + 1]
    BY QueueTail DEF Job
  <1> HIDE DEF t, n
  <1>2. \A i \in 1..n - 1 : /\ t[i] = q[i + 1] /\ i + 1 \in 1..n /\ i + 1 # 1
                            /\ t[i].req \in Requests \ {r}
    <2>1. SUFFICES ASSUME NEW i \in 1..n - 1
                   PROVE  /\ t[i] = q[i + 1] /\ i + 1 \in 1..n /\ i + 1 # 1
                          /\ t[i].req \in Requests \ {r}
      OBVIOUS
    <2>2. t[i] = q[i + 1] /\ i + 1 \in 1..n /\ i + 1 # 1 /\ 1 \in 1..n
      BY <1>1
    <2>3. q[i + 1].req \in Requests /\ q[i + 1].req # q[1].req
      BY <2>2, <1>1, QueueElements DEF Queued
    <2>4. QED
      BY <2>2, <2>3, <1>1
  <1>3. \A i \in 1..n - 1 : rq2[t[i].req] = rq[q[i + 1].req]
    BY <1>2
  <1>4. Queued(t, rq2)
    <2>1. \A i \in DOMAIN t : rq2[t[i].req].stage = "wallet"
      <3>1. SUFFICES ASSUME NEW i \in 1..n - 1 PROVE rq2[t[i].req].stage = "wallet"
        BY <1>1
      <3>2. i + 1 \in DOMAIN q /\ rq2[t[i].req] = rq[q[i + 1].req]
        BY <1>1, <1>2, <1>3
      <3>3. QED
        BY <3>2 DEF Queued
    <2>2. ASSUME NEW i \in DOMAIN t, NEW j \in DOMAIN t, t[i].req = t[j].req
          PROVE  i = j
      <3>1. i \in 1..n - 1 /\ j \in 1..n - 1 /\ q[i + 1].req = q[j + 1].req
        BY <2>2, <1>1, <1>2
      <3>2. i + 1 = j + 1
        BY <3>1, <1>1, <1>2 DEF Queued
      <3>3. QED
        BY <3>1, <3>2
    <2>3. QED
      BY <2>1, <2>2 DEF Queued
  <1>5. \A j : Records(j, t, rq2) => j \in 1..n - 1
    BY <1>1 DEF Records
  <1>6. \A j \in 1..n - 1 : Records(j, t, rq2) <=> Records(j + 1, q, rq)
    BY <1>1, <1>2, <1>3 DEF Records
  <1>7. CASE \E i : Last(i, q, rq) /\ i # 1 /\ con = (rq[q[i].req].route = "connect")
    <2>1. PICK i : Last(i, q, rq) /\ i # 1 /\ con = (rq[q[i].req].route = "connect")
      BY <1>7
    <2>2. i \in 1..n /\ Records(i, q, rq)
      BY <2>1, <1>1 DEF Last, Records
    <2>3. i - 1 \in 1..n - 1 /\ (i - 1) + 1 = i
      BY <2>1, <2>2, <1>1
    <2>4. Records(i - 1, t, rq2) /\ rq2[t[i - 1].req] = rq[q[i].req]
      <3>1. Records(i - 1, t, rq2) <=> Records((i - 1) + 1, q, rq)
        BY <2>3, <1>6
      <3>2. rq2[t[i - 1].req] = rq[q[(i - 1) + 1].req]
        BY <2>3, <1>3
      <3>3. QED
        BY <3>1, <3>2, <2>2, <2>3
    <2>5. ASSUME NEW j, Records(j, t, rq2) PROVE j <= i - 1
      <3>1. j \in 1..n - 1 /\ Records(j + 1, q, rq)
        BY <2>5, <1>5, <1>6
      <3>2. j + 1 <= i
        BY <3>1, <2>1 DEF Last
      <3>3. QED
        BY <3>1, <3>2, <2>2
    <2>6. Last(i - 1, t, rq2)
      BY <2>4, <2>5 DEF Last
    <2>7. con = (rq2[t[i - 1].req].route = "connect")
      BY <2>1, <2>4
    <2>8. QED
      BY <2>6, <2>7, <1>1, <1>4 DEF LogTells, t
  <1>8. CASE Last(1, q, rq) /\ con = (rq[q[1].req].route = "connect")
    <2>1. rq[r].route \in {"connect", "disconnect"} /\ con = (rq[r].route = "connect")
      BY <1>1, <1>8 DEF Last, Records
    <2>2. con = (log2 # << >> /\ log2[1] = "wallet_connect")
      BY <2>1
    <2>3. ASSUME NEW j, Records(j, t, rq2) PROVE FALSE
      <3>1. j \in 1..n - 1 /\ Records(j + 1, q, rq)
        BY <2>3, <1>5, <1>6
      <3>2. j + 1 <= 1
        BY <3>1, <1>8 DEF Last
      <3>3. QED
        BY <3>1, <3>2
    <2>4. QED
      BY <2>2, <2>3, <1>1, <1>4 DEF LogTells, t
  <1>9. CASE /\ \A j : ~Records(j, q, rq)
             /\ con = (log # << >> /\ log[1] = "wallet_connect")
    <2>1. ~Records(1, q, rq) /\ 1 \in DOMAIN q
      BY <1>1, <1>9
    <2>2. log2 = log
      BY <2>1, <1>1 DEF Records
    <2>3. \A j : ~Records(j, t, rq2)
      BY <1>5, <1>6, <1>9
    <2>4. QED
      BY <2>2, <2>3, <1>1, <1>4, <1>9 DEF LogTells, t
  <1>10. QED
    BY <1>7, <1>8, <1>9 DEF LogTells

\* The last recording job is the one LastCommand chooses.
LEMMA LogTellsSession ==
  ASSUME jobs \in Seq(Jobs), commands \in Seq(Commands), session \in BOOLEAN,
         LogTells(jobs, req, commands, session)
  PROVE  CommandLogTellsSession
  <1>1. \A i : i \in Recording <=> Records(i, jobs, req)
    BY DEF Recording, Records
  <1>2. \A i \in Recording : i \in Nat
    <2>1. DOMAIN jobs = 1..Len(jobs) /\ Len(jobs) \in Nat
      BY LenProperties
    <2>2. QED
      BY <2>1 DEF Recording
  <1>3. CASE \E i : Last(i, jobs, req) /\ session = (req[jobs[i].req].route = "connect")
    <2>1. PICK i : Last(i, jobs, req) /\ session = (req[jobs[i].req].route = "connect")
      BY <1>3
    <2> DEFINE chosen == CHOOSE k \in Recording : \A j \in Recording : j <= k
    <2>2. i \in Recording /\ \A j \in Recording : j <= i
      BY <2>1, <1>1 DEF Last
    <2>3. chosen \in Recording /\ \A j \in Recording : j <= chosen
      BY <2>2
    <2>4. chosen = i
      BY <2>2, <2>3, <1>2
    <2>5. LastCommand = req[jobs[chosen].req].route
      BY <2>2 DEF LastCommand
    <2>6. QED
      BY <2>1, <2>4, <2>5 DEF CommandLogTellsSession
  <1>4. CASE /\ \A j : ~Records(j, jobs, req)
             /\ session = (commands # << >> /\ commands[1] = "wallet_connect")
    <2>1. Recording = {}
      BY <1>1, <1>4
    <2>2. LastCommand = IF commands = << >> THEN "disconnect"
                        ELSE IF commands[1] = "wallet_connect" THEN "connect" ELSE "disconnect"
      BY <2>1 DEF LastCommand
    <2>3. QED
      BY <2>2, <1>4 DEF CommandLogTellsSession
  <1>5. QED
    BY <1>3, <1>4 DEF LogTells

-----------------------------------------------------------------------------
(* What a step can be.  Every action of Serve is of one of six kinds.       *)

Administrator(q) == q.caller \in Users /\ role[q.caller] = "admin"

\* The caller of q may have what its route answers.
Authorised(q) ==
  /\ q.route \in Admin => Administrator(q)
  /\ q.route \in WalletRoutes => q.caller # None

NewUser == \E u \in Users, r \in {"user", "admin"}, x \in Externals \cup {None} : Creates(u, r, x)

\* A reply or an error, from a request that does not wait for the wallet.
Finishes(r) ==
  /\ req[r].stage \notin {"idle", "wallet"}
  /\ \E status \in Statuses : Send(r, status) /\ (status = 200 => Authorised(req[r]))
  /\ \/ UNCHANGED ops
     \/ /\ errors' = Recorded(errors, req[r].id)
        /\ failures' = <<req[r].id>> \o failures
        /\ UNCHANGED commands
  /\ UNCHANGED identity \/ NewUser
  /\ UNCHANGED <<received, wallet, halves>>

\* A request goes on to an await of its own.
Proceeds(r) ==
  /\ req[r].stage = "received"
  /\ \E q \in Request : /\ q.stage \in {"login", "admin", "metadata"} /\ Fits(q, role)
                        /\ q.route = req[r].route
                        /\ req' = [req EXCEPT ![r] = q]
  /\ \/ UNCHANGED halves
     \/ halves' = [halves EXCEPT ![r] = <<"open", "open">>]
  /\ UNCHANGED <<answer, received, identity, wallet, ops>>

\* A request calls the adapter.
Enters(r) ==
  /\ req[r].stage \in {"received", "admin"}
  /\ \/ req[r].route \in WalletRoutes /\ req[r].caller # None
     \/ req[r].route = "opsHealth" /\ Administrator(req[r])
  /\ CallsAdapter(r)

\* The rest of a handler that called the adapter.
Leaves(r) ==
  /\ \E route \in {"session", "connect", "disconnect", "opsHealth"} :
       /\ Resumes(r, route)
       /\ CASE route = "connect" -> commands' = Recorded(commands, "wallet_connect")
            [] route = "disconnect" -> commands' = Recorded(commands, "wallet_disconnect")
            [] OTHER -> UNCHANGED commands

LEMMA RouteSets ==
  /\ WalletRoutes \subseteq Authenticated
  /\ "opsHealth" \in Admin
  /\ \A x \in Public \cup Network \cup WithBody \cup
        {"user", "permissions", "parties", "primary", "deal", "cancel", "holdings", "balances"} :
        x \notin Admin /\ x \notin WalletRoutes
  BY DEF WalletRoutes, Authenticated, Admin, Public, Network, WithBody, Parsed, Routes

LEMMA RequestFields ==
  ASSUME TypeOK, NEW r \in Requests
  PROVE  /\ req[r] \in Request
         /\ req[r].stage \in Stages
         /\ req[r].id \in Nat
  BY DEF TypeOK, Request

LEMMA HandlersFinish ==
  ASSUME NEW r \in Requests, NEW route, NEW status \in Statuses,
         route \notin Admin, route \notin WalletRoutes,
         Returns(r, route, status) \/ Throws(r, route, status)
  PROVE  Finishes(r)
  <1>1. req[r].stage = "received" /\ req[r].route = route
    BY DEF Returns, Throws, Handling, Admitted, At
  <1>2. Authorised(req[r])
    BY <1>1 DEF Authorised
  <1>3. /\ Send(r, status)
        /\ \/ UNCHANGED ops
           \/ /\ errors' = Recorded(errors, req[r].id)
              /\ failures' = <<req[r].id>> \o failures
              /\ UNCHANGED commands
        /\ UNCHANGED <<received, identity, wallet, halves>>
    BY Zenon DEF Returns, Throws, Replies, Fails, Quiet
  <1>4. UNCHANGED identity /\ UNCHANGED <<received, wallet, halves>>
    BY <1>3
  <1>5. req[r].stage \notin {"idle", "wallet"}
    BY <1>1
  <1>6. QED
    BY <1>2, <1>3, <1>4, <1>5, Zenon DEF Finishes

LEMMA ServicesFinish ==
  ASSUME NEW r \in Requests, Services(r)
  PROVE  Finishes(r)
  <1>1. \E route \in WithBody \cup {"me", "user", "permissions", "parties", "primary", "deal",
                                    "cancel", "holdings", "balances"},
          status \in Statuses : Returns(r, route, status) \/ Throws(r, route, status)
    BY DEF Services, GetUser, Permissions, AllocateParty, ListParties, PrimaryParty,
       AttachMetadata, Holdings, Balances, LinkWallet, RequestQuote, RespondToQuote, AcceptQuote,
       RejectQuote, GetDeal, CancelDeal, Me, Lookup, Command, Statuses, WithBody, Parsed
  <1>2. "me" \in Public
    BY DEF Public
  <1>3. QED
    BY <1>1, <1>2, HandlersFinish, RouteSets

LEMMA RefusalsFinish ==
  ASSUME NEW r \in Requests, SchemaRefused(r) \/ Unauthorized(r) \/ Forbidden(r)
  PROVE  Finishes(r)
  <1>1. req[r].stage = "received"
    BY DEF SchemaRefused, Unauthorized, Forbidden, Admitted, At
  <1>2. \E status \in {400, 401, 403} : Send(r, status)
    <2>1. SchemaRefused(r) => Send(r, 400)
      BY Zenon DEF SchemaRefused, Fails
    <2>2. Unauthorized(r) => Send(r, 401)
      BY Zenon DEF Unauthorized, Replies
    <2>3. Forbidden(r) => Send(r, 403)
      BY Zenon DEF Forbidden, Replies
    <2>4. QED
      BY <2>1, <2>2, <2>3
  <1>3. \E status \in Statuses : Send(r, status) /\ (status = 200 => Authorised(req[r]))
    <2>1. PICK status \in {400, 401, 403} : Send(r, status)
      BY <1>2, Zenon
    <2>2. status \in Statuses /\ status # 200
      BY <2>1 DEF Statuses
    <2>3. QED
      BY <2>1, <2>2
  <1>4. \/ UNCHANGED ops
        \/ /\ errors' = Recorded(errors, req[r].id)
           /\ failures' = <<req[r].id>> \o failures
           /\ UNCHANGED commands
    BY Zenon DEF SchemaRefused, Unauthorized, Forbidden, Replies, Fails
  <1>5. UNCHANGED <<received, identity, wallet, halves>>
    BY Zenon DEF SchemaRefused, Unauthorized, Forbidden, Quiet
  <1>6. req[r].stage \notin {"idle", "wallet"} /\ UNCHANGED identity
        /\ UNCHANGED <<received, wallet, halves>>
    BY <1>1, <1>5
  <1>7. QED
    BY <1>3, <1>4, <1>6, Zenon DEF Finishes

LEMMA StayingGoes ==
  ASSUME TypeOK, NEW r \in Requests, NEW stage \in {"admin", "metadata"},
         Goto(r, stage), Fits([req[r] EXCEPT !.stage = stage], role)
  PROVE  \E q \in Request : /\ q.stage \in {"login", "admin", "metadata"} /\ Fits(q, role)
                            /\ q.route = req[r].route
                            /\ req' = [req EXCEPT ![r] = q]
  <1> DEFINE q == [req[r] EXCEPT !.stage = stage]
  <1>1. req[r] \in Request
    BY RequestFields
  <1>2. q \in Request /\ q.stage = stage /\ q.route = req[r].route
    BY <1>1 DEF Request, Stages
  <1>3. req' = [req EXCEPT ![r] = q]
    BY DEF Goto
  <1> HIDE DEF q
  <1>4. Fits(q, role)
    BY DEF q
  <1>5. QED
    BY <1>2, <1>3, <1>4

LEMMA AccountsShape ==
  ASSUME TypeOK, ApiAssumption, NEW r \in Requests, Fits(req[r], role), Accounts(r)
  PROVE  Finishes(r) \/ Proceeds(r)
  <1>1. CASE CreateUser(r) \/ LoginCreates(r)
    <2>1. req[r].stage \in {"received", "login"} /\ req[r].route \in {"createUser", "login"}
      BY <1>1 DEF CreateUser, LoginCreates, Handling, Admitted, At, Fits
    <2>2. Authorised(req[r]) /\ req[r].stage \notin {"idle", "wallet"}
      BY <2>1, RouteSets DEF Authorised, WithBody
    <2>3. \E status \in {200, 201} : Send(r, status)
      BY <1>1, Zenon DEF CreateUser, LoginCreates, Replies
    <2>4. \E status \in Statuses : Send(r, status) /\ (status = 200 => Authorised(req[r]))
      <3>1. PICK status \in {200, 201} : Send(r, status)
        BY <2>3, Zenon
      <3>2. status \in Statuses
        BY <3>1 DEF Statuses
      <3>3. QED
        BY <2>2, <3>1, <3>2
    <2>5. UNCHANGED ops /\ UNCHANGED <<received, wallet, halves>>
      BY <1>1, Zenon DEF CreateUser, LoginCreates, Replies
    <2>6. NewUser
      <3>1. CASE CreateUser(r)
        BY <3>1, Zenon DEF CreateUser, NewUser
      <3>2. CASE LoginCreates(r)
        <4>1. PICK u \in Users : Creates(u, IF req[r].caller \in AdminExternals THEN "admin" ELSE "user", req[r].caller)
          BY <3>2, Zenon DEF LoginCreates
        <4>2. req[r].caller \in Externals \cup {None}
          BY <3>2 DEF LoginCreates, At, Fits
        <4>3. QED
          BY <4>1, <4>2, Zenon DEF NewUser
      <3>3. QED
        BY <1>1, <3>1, <3>2
    <2>7. QED
      BY <2>2, <2>4, <2>5, <2>6, Zenon DEF Finishes
  <1>2. CASE \E x \in Externals : LoginFound(r, x)
    <2>1. Returns(r, "login", 200) /\ "login" \in WithBody /\ 200 \in Statuses
      BY <1>2 DEF LoginFound, WithBody, Statuses
    <2>2. QED
      BY <2>1, HandlersFinish, RouteSets
  <1>3. CASE \E x \in Externals : LoginUnknown(r, x)
    <2>1. PICK x \in Externals : LoginUnknown(r, x)
      BY <1>3
    <2> DEFINE q == [req[r] EXCEPT !.stage = "login", !.caller = x]
    <2>2. q \in Request /\ q.stage = "login" /\ q.caller \in Externals /\ q.route = "login" /\ req[r].stage = "received"
          /\ req[r].route = "login"
      BY <2>1, RequestFields DEF LoginUnknown, Request, Stages, Handling, Admitted, At
    <2>3. req' = [req EXCEPT ![r] = q]
      BY <2>1 DEF LoginUnknown
    <2>4. UNCHANGED <<answer, received, identity, wallet, halves, ops>>
      BY <2>1 DEF LoginUnknown
    <2> HIDE DEF q
    <2>5. Fits(q, role)
      BY <2>2 DEF Fits
    <2>6. UNCHANGED <<answer, received, identity, wallet, ops>> /\ UNCHANGED halves
      BY <2>4
    <2>7. QED
      BY <2>2, <2>3, <2>5, <2>6 DEF Proceeds
  <1>4. QED
    BY <1>1, <1>2, <1>3 DEF Accounts

LEMMA WalletShape ==
  ASSUME NEW r \in Requests, Wallet(r)
  PROVE  Enters(r) \/ Adapter(r) \/ Leaves(r)
  <1>1. CASE UseWallet(r)
    <2>1. req[r].route \in Authenticated /\ req[r].caller # None
      BY <1>1, RouteSets DEF UseWallet, Admitted
    <2>2. QED
      BY <1>1, <2>1 DEF UseWallet, Admitted, At, Enters
  <1>2. CASE GetSession(r) \/ RecordConnect(r) \/ RecordDisconnect(r) \/ OpsHealthSent(r)
    <2>1. CASE GetSession(r)
      BY <2>1 DEF GetSession, Leaves
    <2>2. CASE RecordConnect(r)
      BY <2>2 DEF RecordConnect, Leaves
    <2>3. CASE RecordDisconnect(r)
      BY <2>3 DEF RecordDisconnect, Leaves
    <2>4. CASE OpsHealthSent(r)
      BY <2>4 DEF OpsHealthSent, Leaves
    <2>5. QED
      BY <1>2, <2>1, <2>2, <2>3, <2>4
  <1>3. QED
    BY <1>1, <1>2, Zenon DEF Wallet

LEMMA AdministrationShape ==
  ASSUME TypeOK, NEW r \in Requests, Fits(req[r], role), Administration(r)
  PROVE  Finishes(r) \/ Proceeds(r) \/ Enters(r)
  <1>1. CASE Forbidden(r)
    BY <1>1, RefusalsFinish
  <1>2. CASE Allowed(r)
    <2>1. req[r].stage = "received" /\ req[r].route \in Admin /\ Administrator(req[r])
      BY <1>2 DEF Allowed, Admitted, At, IsAdmin, Administrator
    <2> DEFINE q == [req[r] EXCEPT !.stage = "admin"]
    <2>2. q.stage = "admin" /\ q.route = req[r].route /\ q.caller = req[r].caller
      BY RequestFields DEF Request
    <2>3. Fits(q, role)
      BY <2>1, <2>2 DEF Fits, Administrator
    <2>4. Goto(r, "admin") /\ UNCHANGED <<answer, received, identity, wallet, halves, ops>>
      BY <1>2, Zenon DEF Allowed
    <2>5. UNCHANGED <<answer, received, identity, wallet, ops>> /\ UNCHANGED halves
      BY <2>4
    <2>6. \E new \in Request : /\ new.stage \in {"login", "admin", "metadata"} /\ Fits(new, role)
                               /\ new.route = req[r].route
                               /\ req' = [req EXCEPT ![r] = new]
      BY <2>3, <2>4, StayingGoes
    <2>7. QED
      BY <2>1, <2>5, <2>6 DEF Proceeds
  <1>3. CASE OpsHealth(r)
    BY <1>3 DEF OpsHealth, At, Fits, Administrator, Enters
  <1>4. CASE \E route \in Admin : Reads(r, route)
    <2>1. req[r].stage = "admin"
      BY <1>4 DEF Reads, At
    <2>2. Authorised(req[r])
      <3>1. Administrator(req[r]) /\ req[r].route \in Admin
        BY <2>1 DEF Fits, Administrator
      <3>2. \A x \in Admin : x \notin WalletRoutes
        BY DEF Admin, WalletRoutes
      <3>3. QED
        BY <3>1, <3>2 DEF Authorised
    <2>3. Send(r, 200) /\ UNCHANGED ops /\ UNCHANGED <<received, identity, wallet, halves>>
      BY <1>4, Zenon DEF Reads, Replies, Quiet
    <2>4. 200 \in Statuses /\ req[r].stage \notin {"idle", "wallet"}
      BY <2>1 DEF Statuses
    <2>5. UNCHANGED identity /\ UNCHANGED <<received, wallet, halves>>
      BY <2>3
    <2>6. QED
      BY <2>2, <2>3, <2>4, <2>5, Zenon DEF Finishes
  <1>5. {"opsErrors", "opsCommands", "opsSwaps", "opsParties", "healthDetailed", "userParties"}
          \subseteq Admin
    BY DEF Admin
  <1>6. QED
    BY <1>1, <1>2, <1>3, <1>4, <1>5 DEF Administration, OpsErrors, OpsCommands, OpsSwaps,
       OpsParties, HealthDetailed, UserParties

LEMMA MetadataShape ==
  ASSUME TypeOK, NEW r \in Requests, Fits(req[r], role), Metadata(r)
  PROVE  Finishes(r) \/ Proceeds(r)
  <1>1. "metadata" \in Network /\ "config" \in Network /\ 200 \in Statuses /\ 502 \in Statuses
    BY DEF Network, Statuses
  <1>2. CASE Config(r) \/ MetadataUnconfigured(r)
    <2>1. Returns(r, "config", 200) \/ Returns(r, "metadata", 200)
      BY <1>2, Zenon DEF Config, MetadataUnconfigured
    <2>2. QED
      BY <2>1, <1>1, HandlersFinish, RouteSets
  <1>3. CASE MetadataAsked(r)
    <2>1. req[r].stage = "received" /\ req[r].route = "metadata"
      BY <1>3 DEF MetadataAsked, Handling, Admitted, At
    <2> DEFINE q == [req[r] EXCEPT !.stage = "metadata"]
    <2>2. q.stage = "metadata" /\ q.route = "metadata"
      BY <2>1, RequestFields DEF Request
    <2>3. Fits(q, role)
      BY <2>2 DEF Fits
    <2>4. /\ Goto(r, "metadata") /\ halves' = [halves EXCEPT ![r] = <<"open", "open">>]
          /\ UNCHANGED <<answer, received, identity, wallet, ops>>
      BY <1>3, Zenon DEF MetadataAsked
    <2>5. \E new \in Request : /\ new.stage \in {"login", "admin", "metadata"} /\ Fits(new, role)
                               /\ new.route = req[r].route
                               /\ req' = [req EXCEPT ![r] = new]
      BY <2>3, <2>4, StayingGoes
    <2>6. QED
      BY <2>1, <2>4, <2>5, Zenon DEF Proceeds
  <1>4. CASE MetadataSent(r) \/ MetadataFailed(r)
    <2>1. req[r].stage = "metadata" /\ req[r].route = "metadata"
      BY <1>4 DEF MetadataSent, MetadataFailed, At, Fits
    <2>2. Authorised(req[r]) /\ req[r].stage \notin {"idle", "wallet"}
      BY <2>1, <1>1, RouteSets DEF Authorised
    <2>3. (Send(r, 200) \/ Send(r, 502)) /\ UNCHANGED ops /\ UNCHANGED <<received, identity, wallet, halves>>
      BY <1>4, Zenon DEF MetadataSent, MetadataFailed, Replies, Quiet
    <2>4. UNCHANGED identity /\ UNCHANGED <<received, wallet, halves>>
      BY <2>3
    <2>5. QED
      BY <1>1, <2>2, <2>3, <2>4, Zenon DEF Finishes
  <1>5. QED
    BY <1>2, <1>3, <1>4, Zenon DEF Metadata

LEMMA ServeShape ==
  ASSUME TypeOK, ApiAssumption, NEW r \in Requests, Fits(req[r], role), Serve(r)
  PROVE  Finishes(r) \/ Proceeds(r) \/ Enters(r) \/ Adapter(r) \/ Leaves(r)
  BY RefusalsFinish, ServicesFinish, AccountsShape, WalletShape, AdministrationShape,
     MetadataShape, Zenon DEF Serve

-----------------------------------------------------------------------------
(* The invariant is inductive.                                             *)

LEMMA UsersStay ==
  ASSUME TypeOK, UNCHANGED identity \/ NewUser
  PROVE  /\ role' \in [Users -> {"none", "user", "admin"}]
         /\ userOf' \in [Externals -> Users \cup {None}]
         /\ \A u \in Users : role[u] # "none" => role'[u] = role[u]
  <1>1. CASE UNCHANGED identity
    BY <1>1 DEF identity, TypeOK
  <1>2. CASE NewUser
    <2>1. PICK u \in Users, new \in {"user", "admin"}, x \in Externals \cup {None} : Creates(u, new, x)
      BY <1>2 DEF NewUser
    <2>2. role[u] = "none" /\ role' = [role EXCEPT ![u] = new]
          /\ userOf' = IF x = None \/ userOf[x] # None THEN userOf
                     ELSE [userOf EXCEPT ![x] = u]
      BY <2>1 DEF Creates
    <2>3. /\ role' \in [Users -> {"none", "user", "admin"}]
          /\ \A w \in Users : role[w] # "none" => role'[w] = role[w]
      BY <2>2 DEF TypeOK
    <2>4. userOf' \in [Externals -> Users \cup {None}]
      BY <2>1, <2>2 DEF TypeOK
    <2>5. QED
      BY <2>3, <2>4
  <1>3. QED
    BY <1>1, <1>2

LEMMA FitsStays ==
  ASSUME NEW q, NEW rl, NEW rl2, Fits(q, rl),
         \A u \in Users : rl[u] # "none" => rl2[u] = rl[u]
  PROVE  Fits(q, rl2)
  BY DEF Fits

LEMMA IdleFits == /\ Idle \in Request /\ \A rl : Fits(Idle, rl)
                  /\ Idle.stage # "wallet"
  BY DEF Idle, Request, Stages, Fits

LEMMA FinishesStep ==
  ASSUME ApiInv, ApiAssumption, NEW r \in Requests, Finishes(r), load' = load
  PROVE  ApiInv'
  <1>1. TypeOK /\ ErrorsAreNewest /\ req[r].stage # "wallet" /\ req[r].id \in Nat
    BY RequestFields DEF ApiInv, Finishes
  <1>2. PICK status \in Statuses : Send(r, status)
    BY DEF Finishes
  <1>3. req' = [req EXCEPT ![r] = Idle] /\ answer' = [answer EXCEPT ![r] = status]
    BY <1>2 DEF Send
  <1>4. /\ req' \in [Requests -> Request]
        /\ answer' \in [Requests -> {0} \cup Statuses]
        /\ req'[r] = Idle
        /\ \A x \in Requests \ {r} : req'[x] = req[x]
    BY <1>1, <1>3, IdleFits DEF TypeOK, Request
  <1>5. /\ role' \in [Users -> {"none", "user", "admin"}]
        /\ userOf' \in [Externals -> Users \cup {None}]
        /\ \A u \in Users : role[u] # "none" => role'[u] = role[u]
    BY <1>1, UsersStay DEF Finishes
  <1>6. UNCHANGED <<load, received, session, jobs, halves>>
    BY DEF Finishes, wallet
  <1>7. UNCHANGED <<errors, commands, failures>>
        \/ /\ errors' = Recorded(errors, req[r].id)
           /\ failures' = <<req[r].id>> \o failures
           /\ UNCHANGED commands
    BY DEF Finishes, ops
  <1>8. UNCHANGED commands /\ errors' \in Seq(Nat) /\ failures' \in Seq(Nat) /\ ErrorsAreNewest'
    <2>1. CASE UNCHANGED <<errors, commands, failures>>
      BY <2>1, <1>1 DEF ErrorsAreNewest, TypeOK
    <2>2. CASE /\ errors' = Recorded(errors, req[r].id)
               /\ failures' = <<req[r].id>> \o failures
               /\ UNCHANGED commands
      <3>1. errors' \in Seq(Nat) /\ failures' \in Seq(Nat)
        BY <2>2, <1>1, RecordedIsBuffer, OneEntry DEF TypeOK
      <3>2. failures \in Seq(Nat)
        BY <1>1 DEF TypeOK
      <3>3. Recorded(SubSeq(failures, 1, Least(Len(failures), Capacity)), req[r].id)
              = SubSeq(<<req[r].id>> \o failures, 1,
                       Least(Len(<<req[r].id>> \o failures), Capacity))
        BY <3>2, <1>1, NewestStay
      <3>4. errors = SubSeq(failures, 1, Least(Len(failures), Capacity))
        BY <1>1 DEF ErrorsAreNewest
      <3>5. errors' = SubSeq(failures', 1, Least(Len(failures'), Capacity))
        BY <3>3, <3>4, <2>2, Zenon
      <3>6. QED
        BY <3>1, <3>5, <2>2 DEF ErrorsAreNewest
    <2>3. QED
      BY <1>7, <2>1, <2>2
  <1>9. TypeOK'
    BY <1>1, <1>4, <1>5, <1>6, <1>8 DEF TypeOK, Request
  <1>10. \A x \in Requests : Fits(req'[x], role')
    <2>1. \A x \in Requests : Fits(req[x], role)
      BY DEF ApiInv
    <2>2. QED
      BY <1>4, <1>5, <2>1, IdleFits, FitsStays
  <1>11. Queued(jobs, req') /\ LogTells(jobs, req', commands, session)
    <2>1. Queued(jobs, req) /\ LogTells(jobs, req, commands, session) /\ jobs \in Seq(Jobs)
      BY DEF ApiInv, TypeOK, Jobs
    <2>2. QED
      BY <2>1, <1>1, <1>4, QueueKept
  <1>12. QED
    BY <1>6, <1>8, <1>9, <1>10, <1>11 DEF ApiInv

LEMMA HalvesAsked ==
  ASSUME TypeOK, NEW r \in Requests,
         UNCHANGED halves \/ halves' = [halves EXCEPT ![r] = <<"open", "open">>]
                          \/ halves' = [halves EXCEPT ![r] = << >>]
  PROVE  halves' \in [Requests -> {<< >>} \cup (Results \X Results)]
  <1>1. <<"open", "open">> \in Results \X Results
    BY DEF Results
  <1>2. halves \in [Requests -> {<< >>} \cup (Results \X Results)]
    BY DEF TypeOK, Results
  <1>3. QED
    BY <1>1, <1>2

LEMMA ProceedsStep ==
  ASSUME ApiInv, NEW r \in Requests, Proceeds(r), load' = load
  PROVE  ApiInv'
  <1>1. TypeOK /\ req[r].stage # "wallet"
    BY DEF ApiInv, Proceeds
  <1>2. PICK q \in Request : Fits(q, role) /\ req' = [req EXCEPT ![r] = q]
    BY Zenon DEF Proceeds
  <1>3. /\ req' \in [Requests -> Request]
        /\ req'[r] = q
        /\ \A x \in Requests \ {r} : req'[x] = req[x]
    BY <1>1, <1>2 DEF TypeOK, Request
  <1>4. UNCHANGED <<load, answer, received, role, userOf, session, jobs, errors, commands, failures>>
    BY DEF Proceeds, identity, wallet, ops
  <1>5. halves' \in [Requests -> {<< >>} \cup (Results \X Results)]
    BY <1>1, HalvesAsked DEF Proceeds
  <1>6. TypeOK' /\ ErrorsAreNewest'
    BY <1>1, <1>3, <1>4, <1>5 DEF TypeOK, Request, Results, ApiInv, ErrorsAreNewest
  <1>7. \A x \in Requests : Fits(req'[x], role')
    <2>1. \A x \in Requests : Fits(req[x], role)
      BY DEF ApiInv
    <2>2. QED
      BY <1>2, <1>3, <1>4, <2>1
  <1>8. Queued(jobs, req') /\ LogTells(jobs, req', commands, session)
    <2>1. Queued(jobs, req) /\ LogTells(jobs, req, commands, session) /\ jobs \in Seq(Jobs)
      BY DEF ApiInv, TypeOK, Jobs
    <2>2. QED
      BY <2>1, <1>1, <1>3, QueueKept
  <1>9. QED
    BY <1>4, <1>6, <1>7, <1>8 DEF ApiInv

LEMMA EntersStep ==
  ASSUME ApiInv, NEW r \in Requests, Enters(r), load' = load
  PROVE  ApiInv'
  <1>1. TypeOK /\ req[r].stage # "wallet" /\ CallsAdapter(r)
    BY DEF ApiInv, Enters
  <1>2. /\ req' = [req EXCEPT ![r].stage = "wallet"]
        /\ jobs' = Append(jobs, Job("adapter", r))
        /\ UNCHANGED <<load, answer, received, role, userOf, session, halves, errors, commands, failures>>
    BY <1>1 DEF CallsAdapter, Goto, identity, ops
  <1>3. /\ req' \in [Requests -> Request]
        /\ req'[r].stage = "wallet" /\ req'[r].route = req[r].route
        /\ req'[r].caller = req[r].caller
        /\ \A x \in Requests \ {r} : req'[x] = req[x]
    <2>1. req[r] \in Request /\ [req[r] EXCEPT !.stage = "wallet"] \in Request
      BY <1>1, RequestFields DEF Request, Stages
    <2>2. req' = [req EXCEPT ![r] = [req[r] EXCEPT !.stage = "wallet"]]
      BY <1>2
    <2>3. QED
      BY <1>1, <2>1, <2>2 DEF TypeOK, Request
  <1>4. Queued(jobs, req) /\ LogTells(jobs, req, commands, session) /\ jobs \in Seq(Jobs)
    BY DEF ApiInv, TypeOK, Jobs
  <1>5. /\ jobs' \in Seq(Jobs)
        /\ Queued(jobs', req')
        /\ LogTells(jobs', req', commands, session)
    BY <1>1, <1>2, <1>3, <1>4, QueueJoined
  <1>6. TypeOK' /\ ErrorsAreNewest'
    BY <1>1, <1>2, <1>3, <1>5 DEF TypeOK, Request, Jobs, ApiInv, ErrorsAreNewest
  <1>7. \A x \in Requests : Fits(req'[x], role')
    <2>1. \A x \in Requests : Fits(req[x], role)
      BY DEF ApiInv
    <2>2. Fits(req'[r], role)
      BY <1>3 DEF Enters, Administrator, Fits
    <2>3. QED
      BY <1>2, <1>3, <2>1, <2>2
  <1>8. QED
    BY <1>2, <1>5, <1>6, <1>7 DEF ApiInv

LEMMA AdapterStep ==
  ASSUME ApiInv, NEW r \in Requests, Adapter(r), load' = load
  PROVE  ApiInv'
  <1> DEFINE con2 == CASE req[r].route = "connect" -> TRUE
                       [] req[r].route = "disconnect" -> FALSE
                       [] OTHER -> session
  <1>1. /\ jobs # << >> /\ Head(jobs) = Job("adapter", r)
        /\ session' = con2
        /\ jobs' = Append(Tail(jobs), Job("handler", r))
        /\ UNCHANGED <<load, req, answer, received, role, userOf, halves, errors, commands, failures>>
    BY DEF Adapter, Due, identity, ops
  <1>2. Queued(jobs, req) /\ LogTells(jobs, req, commands, session) /\ jobs \in Seq(Jobs)
    BY DEF ApiInv, TypeOK, Jobs
  <1>3. /\ jobs' \in Seq(Jobs)
        /\ Queued(jobs', req)
        /\ LogTells(jobs', req, commands, session')
    BY <1>1, <1>2, QueueServed
  <1>4. session' \in BOOLEAN
    BY <1>1 DEF ApiInv, TypeOK
  <1>5. TypeOK' /\ ErrorsAreNewest' /\ \A x \in Requests : Fits(req[x], role)
    BY <1>1, <1>3, <1>4 DEF TypeOK, Jobs, ApiInv, ErrorsAreNewest
  <1>6. QED
    BY <1>1, <1>3, <1>5 DEF ApiInv

LEMMA LeavesStep ==
  ASSUME ApiInv, ApiAssumption, NEW r \in Requests, Leaves(r), load' = load
  PROVE  ApiInv'
  <1>1. PICK route \in {"session", "connect", "disconnect", "opsHealth"} :
          /\ Resumes(r, route)
          /\ CASE route = "connect" -> commands' = Recorded(commands, "wallet_connect")
               [] route = "disconnect" -> commands' = Recorded(commands, "wallet_disconnect")
               [] OTHER -> UNCHANGED commands
    BY DEF Leaves
  <1>2. /\ jobs # << >> /\ Head(jobs) = Job("handler", r)
        /\ req[r].route = route
        /\ jobs' = Tail(jobs)
        /\ req' = [req EXCEPT ![r] = Idle] /\ answer' = [answer EXCEPT ![r] = 200]
        /\ UNCHANGED <<load, received, role, userOf, session, halves, errors, failures>>
    BY <1>1 DEF Resumes, Due, Send, identity
  <1>3. Queued(jobs, req) /\ LogTells(jobs, req, commands, session) /\ jobs \in Seq(Jobs)
        /\ TypeOK
    BY DEF ApiInv, TypeOK, Jobs
  <1>4. /\ req' \in [Requests -> Request]
        /\ answer' \in [Requests -> {0} \cup Statuses]
        /\ req'[r] = Idle
        /\ \A x \in Requests \ {r} : req'[x] = req[x]
    <2>1. 200 \in Statuses /\ req \in [Requests -> Request]
          /\ answer \in [Requests -> {0} \cup Statuses]
      BY <1>3 DEF TypeOK, Request, Statuses
    <2>2. QED
      BY <1>2, <2>1, IdleFits
  <1>5. /\ commands' \in Seq(Commands)
        /\ req[r].route \notin {"connect", "disconnect"} => commands' = commands
        /\ req[r].route = "connect" => commands' # << >> /\ commands'[1] = "wallet_connect"
        /\ req[r].route = "disconnect" => commands' # << >> /\ commands'[1] = "wallet_disconnect"
    <2>1. commands \in Seq(Commands) /\ "wallet_connect" \in Commands /\ "wallet_disconnect" \in Commands
      BY <1>3 DEF TypeOK, Commands
    <2>2. CASE route = "connect"
      <3>1. LET new == Recorded(commands, "wallet_connect")
            IN  new \in Seq(Commands) /\ new # << >> /\ new[1] = "wallet_connect"
        BY <2>1, RecordedIsBuffer
      <3>2. commands' = Recorded(commands, "wallet_connect") /\ req[r].route = "connect"
        BY <2>2, <1>1, <1>2
      <3>3. QED
        BY <3>1, <3>2
    <2>3. CASE route = "disconnect"
      <3>1. LET new == Recorded(commands, "wallet_disconnect")
            IN  new \in Seq(Commands) /\ new # << >> /\ new[1] = "wallet_disconnect"
        BY <2>1, RecordedIsBuffer
      <3>2. commands' = Recorded(commands, "wallet_disconnect") /\ req[r].route = "disconnect"
        BY <2>3, <1>1, <1>2
      <3>3. QED
        BY <3>1, <3>2
    <2>4. CASE route \notin {"connect", "disconnect"}
      BY <2>1, <2>4, <1>1, <1>2
    <2>5. QED
      BY <2>2, <2>3, <2>4
  <1>6. /\ jobs' \in Seq(Jobs)
        /\ Queued(jobs', req')
        /\ LogTells(jobs', req', commands', session)
    BY <1>2, <1>3, <1>4, <1>5, QueueAnswered
  <1>7. TypeOK' /\ ErrorsAreNewest'
    <2>1. TypeOK'
      <3>1. /\ load' \in Loads /\ received' \in Nat /\ session' \in BOOLEAN
            /\ role' \in [Users -> {"none", "user", "admin"}]
            /\ userOf' \in [Externals -> Users \cup {None}]
            /\ halves' \in [Requests -> {<< >>} \cup (Results \X Results)]
            /\ errors' \in Seq(Nat) /\ failures' \in Seq(Nat)
        BY <1>2, <1>3 DEF TypeOK, Results
      <3>2. QED
        BY <3>1, <1>4, <1>5, <1>6 DEF TypeOK, Request, Jobs, Commands, Results
    <2>2. ErrorsAreNewest'
      BY <1>2 DEF ApiInv, ErrorsAreNewest
    <2>3. QED
      BY <2>1, <2>2
  <1>8. \A x \in Requests : Fits(req'[x], role')
    <2>1. \A x \in Requests : Fits(req[x], role)
      BY DEF ApiInv
    <2>2. QED
      BY <1>2, <1>4, <2>1, IdleFits
  <1>9. QED
    BY <1>2, <1>6, <1>7, <1>8 DEF ApiInv

LEMMA ReceiveStep ==
  ASSUME ApiInv, ApiAssumption, NEW r \in Requests, NEW route \in Routes,
         NEW header \in Users \cup {None}, Receive(r, route, header), load' = load
  PROVE  ApiInv'
  <1> DEFINE q == [stage |-> "received", route |-> route, caller |-> header, id |-> received + 1]
  <1>1. /\ TypeOK /\ req[r].stage = "idle"
        /\ received' = received + 1
        /\ req' = [req EXCEPT ![r] = q] /\ answer' = [answer EXCEPT ![r] = 0]
        /\ halves' = [halves EXCEPT ![r] = << >>]
        /\ UNCHANGED <<load, role, userOf, session, jobs, errors, commands, failures>>
    BY DEF ApiInv, Receive, At, identity, wallet, ops
  <1>2. q \in Request /\ received' \in Nat /\ Fits(q, role)
    BY <1>1 DEF TypeOK, Request, Stages, Fits
  <1> HIDE DEF q
  <1>3. /\ req' \in [Requests -> Request]
        /\ answer' \in [Requests -> {0} \cup Statuses]
        /\ req'[r] = q
        /\ \A x \in Requests \ {r} : req'[x] = req[x]
    BY <1>1, <1>2 DEF TypeOK, Request
  <1>4. halves' \in [Requests -> {<< >>} \cup (Results \X Results)]
    BY <1>1, HalvesAsked
  <1>5. TypeOK' /\ ErrorsAreNewest'
    BY <1>1, <1>2, <1>3, <1>4 DEF TypeOK, Request, Results, ApiInv, ErrorsAreNewest
  <1>6. \A x \in Requests : Fits(req'[x], role')
    <2>1. \A x \in Requests : Fits(req[x], role)
      BY DEF ApiInv
    <2>2. QED
      BY <1>1, <1>2, <1>3, <2>1
  <1>7. Queued(jobs, req') /\ LogTells(jobs, req', commands, session)
    <2>1. Queued(jobs, req) /\ LogTells(jobs, req, commands, session) /\ jobs \in Seq(Jobs)
      BY DEF ApiInv, TypeOK, Jobs
    <2>2. QED
      BY <2>1, <1>1, <1>3, QueueKept
  <1>8. QED
    BY <1>1, <1>5, <1>6, <1>7 DEF ApiInv

LEMMA HalfStep ==
  ASSUME ApiInv, NEW r \in Requests, NEW h \in {1, 2}, HalfSettles(r, h), load' = load
  PROVE  ApiInv'
  <1>1. PICK result \in {"ok", "failed"} : halves' = [halves EXCEPT ![r][h] = result]
    BY DEF HalfSettles
  <1>2. halves[r] # << >> /\ TypeOK
    BY DEF HalfSettles, ApiInv
  <1>3. halves \in [Requests -> {<< >>} \cup (Results \X Results)]
    BY <1>2 DEF TypeOK, Results
  <1>4. [halves[r] EXCEPT ![h] = result] \in Results \X Results
    <2>1. halves[r] \in Results \X Results
      BY <1>2, <1>3
    <2>2. PICK a \in Results, b \in Results : halves[r] = <<a, b>>
      BY <2>1
    <2>3. [<<a, b>> EXCEPT ![h] = result] = IF h = 1 THEN <<result, b>> ELSE <<a, result>>
      OBVIOUS
    <2>4. QED
      BY <2>2, <2>3 DEF Results
  <1>5. halves' \in [Requests -> {<< >>} \cup (Results \X Results)]
    <2>1. halves' = [halves EXCEPT ![r] = [halves[r] EXCEPT ![h] = result]]
      BY <1>1
    <2>2. QED
      BY <2>1, <1>3, <1>4
  <1>6. UNCHANGED <<load, req, answer, received, role, userOf, session, jobs, errors, commands, failures>>
    BY DEF HalfSettles, identity, wallet, ops
  <1>7. QED
    BY <1>5, <1>6 DEF ApiInv, TypeOK, Results, ErrorsAreNewest

LEMMA InitInv == ASSUME Init, ApiAssumption PROVE ApiInv
  <1>1. TypeOK
    <2>1. jobs \in Seq([kind : {"adapter", "handler"}, req : Requests])
          /\ errors \in Seq(Nat) /\ failures \in Seq(Nat)
          /\ commands \in Seq({"wallet_connect", "wallet_disconnect"})
      BY EmptySeq DEF Init
    <2>2. req \in [Requests -> Request]
      BY IdleFits DEF Init
    <2>3. QED
      BY <2>1, <2>2 DEF Init, TypeOK, Request
  <1>2. ErrorsAreNewest
    <2>1. Len(failures) = 0 /\ Least(0, Capacity) = 0
      BY EmptySeq DEF Init, ApiAssumption, Least
    <2>2. SubSeq(failures, 1, 0) = << >>
      BY SubSeqEmpty
    <2>3. QED
      BY <2>1, <2>2 DEF Init, ErrorsAreNewest
  <1>3. \A r \in Requests : Fits(req[r], role)
    BY IdleFits DEF Init
  <1>4. DOMAIN jobs = {}
    BY DEF Init
  <1>5. Queued(jobs, req)
    BY <1>4 DEF Queued
  <1>6. LogTells(jobs, req, commands, session)
    BY <1>4 DEF LogTells, Records, Init
  <1>7. QED
    BY <1>1, <1>2, <1>3, <1>5, <1>6 DEF ApiInv

LEMMA InvStep == ASSUME ApiInv, ApiAssumption, [Next]_vars PROVE ApiInv'
  <1>1. CASE UNCHANGED vars
    BY <1>1 DEF vars, ApiInv, TypeOK, ErrorsAreNewest
  <1>2. CASE Next
    <2>1. PICK r \in Requests :
            \/ \E route \in load.routes, header \in Users \cup {None} : Receive(r, route, header)
            \/ Serve(r)
            \/ \E h \in {1, 2} : HalfSettles(r, h)
      BY <1>2, Zenon DEF Next
    <2>2. load' = load
      BY <1>2 DEF Next
    <2>3. CASE Serve(r)
      <3>1. TypeOK /\ Fits(req[r], role)
        BY DEF ApiInv
      <3>2. Finishes(r) \/ Proceeds(r) \/ Enters(r) \/ Adapter(r) \/ Leaves(r)
        BY <2>3, <3>1, ServeShape
      <3>3. QED
        BY <2>2, <3>2, FinishesStep, ProceedsStep, EntersStep, AdapterStep, LeavesStep
    <2>4. CASE \E route \in load.routes, header \in Users \cup {None} : Receive(r, route, header)
      <3>1. load.routes \subseteq Routes
        BY DEF ApiInv, TypeOK, ApiAssumption
      <3>2. PICK route \in load.routes, header \in Users \cup {None} : Receive(r, route, header)
        BY <2>4, Zenon
      <3>3. route \in Routes
        BY <3>1, <3>2
      <3>4. QED
        BY <2>2, <3>2, <3>3, ReceiveStep
    <2>5. CASE \E h \in {1, 2} : HalfSettles(r, h)
      BY <2>2, <2>5, HalfStep
    <2>6. QED
      BY <2>1, <2>3, <2>4, <2>5
  <1>3. QED
    BY <1>1, <1>2

\* The inductive invariant: what a request has passed, and that the buffers and
\* the queue of microtasks are true to what was answered.
THEOREM ApiInvariant == Spec => []ApiInv
  <1>1. Init => ApiInv
    BY InitInv, ApiAssumption
  <1>2. ApiInv /\ [Next]_vars => ApiInv'
    BY InvStep, ApiAssumption
  <1>3. QED
    BY <1>1, <1>2, PTL DEF Spec

-----------------------------------------------------------------------------
(* The theorems.                                                           *)

\* Type correctness of the API.
THEOREM ApiTypes == Spec => []TypeOK
  <1>1. ApiInv => TypeOK
    BY DEF ApiInv
  <1>2. QED
    BY <1>1, ApiInvariant, PTL

\* The error buffer is the newest part of all errors, whatever its capacity.
THEOREM BufferHoldsTheNewest == Spec => []ErrorsAreNewest
  <1>1. ApiInv => ErrorsAreNewest
    BY DEF ApiInv
  <1>2. QED
    BY <1>1, ApiInvariant, PTL

\* However wallet requests overlap, the log of commands ends with the one that
\* made the session what it is.
THEOREM LogAgreesWithSession == Spec => []CommandLogTellsSession
  <1>1. ApiInv => CommandLogTellsSession
    BY LogTellsSession DEF ApiInv, TypeOK, Jobs, Commands
  <1>2. QED
    BY <1>1, ApiInvariant, PTL

LEMMA AnswersStep ==
  ASSUME ApiInv, ApiAssumption, [Next]_vars, NEW r \in Requests,
         answer'[r] = 200, answer[r] = 0
  PROVE  Authorised(req[r])
  <1>1. answer' # answer /\ answer \in [Requests -> {0} \cup Statuses] /\ TypeOK
    BY DEF ApiInv, TypeOK
  <1>2. PICK x \in Requests :
          \/ \E route \in load.routes, header \in Users \cup {None} : Receive(x, route, header)
          \/ Serve(x)
          \/ \E h \in {1, 2} : HalfSettles(x, h)
    BY <1>1, Zenon DEF Next, vars
  <1>3. ASSUME NEW status \in Statuses, Send(x, status)
        PROVE  x = r /\ status = 200
    <2>1. answer' = [answer EXCEPT ![x] = status]
      BY <1>3 DEF Send
    <2>2. QED
      BY <1>1, <2>1
  <1>4. CASE Serve(x)
    <2>1. Fits(req[x], role)
      BY DEF ApiInv
    <2>2. Finishes(x) \/ Proceeds(x) \/ Enters(x) \/ Adapter(x) \/ Leaves(x)
      BY <1>1, <1>4, <2>1, ServeShape
    <2>3. ~Proceeds(x) /\ ~Enters(x) /\ ~Adapter(x)
      BY <1>1 DEF Proceeds, Enters, CallsAdapter, Adapter
    <2>4. CASE Finishes(x)
      <3>1. PICK status \in Statuses : Send(x, status) /\ (status = 200 => Authorised(req[x]))
        BY <2>4 DEF Finishes
      <3>2. QED
        BY <3>1, <1>3
    <2>5. CASE Leaves(x)
      <3>1. Send(x, 200) /\ 200 \in Statuses /\ Due("handler", x)
        BY <2>5 DEF Leaves, Resumes, Statuses
      <3>2. x = r
        BY <3>1, <1>3
      <3>3. req[r].stage = "wallet"
        <4>1. jobs \in Seq(Jobs) /\ jobs # << >> /\ Head(jobs) = Job("handler", r)
          BY <3>1, <3>2 DEF ApiInv, TypeOK, Jobs, Due
        <4>2. 1 \in DOMAIN jobs /\ jobs[1].req = r
          BY <4>1, QueueTail DEF Job
        <4>3. QED
          BY <4>2 DEF ApiInv, Queued
      <3>4. \A w \in WalletRoutes : w \notin Admin
        BY DEF Admin, WalletRoutes
      <3>5. "opsHealth" \notin WalletRoutes
        BY DEF WalletRoutes
      <3>6. QED
        BY <3>2, <3>3, <3>4, <3>5, <2>1 DEF Fits, Authorised, Administrator
    <2>6. QED
      BY <2>2, <2>3, <2>4, <2>5
  <1>5. CASE \E route \in load.routes, header \in Users \cup {None} : Receive(x, route, header)
    <2>1. answer' = [answer EXCEPT ![x] = 0]
      BY <1>5 DEF Receive
    <2>2. QED
      BY <1>1, <2>1
  <1>6. CASE \E h \in {1, 2} : HalfSettles(x, h)
    BY <1>1, <1>6 DEF HalfSettles
  <1>7. QED
    BY <1>2, <1>4, <1>5, <1>6

\* A success is sent only to a caller that passed the hook of its route, and one
\* of an administration route only to an administrator, whatever requests overlap.
THEOREM OnlyTheAuthorisedAreAnswered == Spec => AnswersAreAuthorised
  <1>1. ApiInv /\ [Next]_vars =>
          [\A r \in Requests : answer'[r] = 200 /\ answer[r] = 0 =>
             /\ req[r].route \in Admin =>
                  req[r].caller \in Users /\ role[req[r].caller] = "admin"
             /\ req[r].route \in WalletRoutes => req[r].caller # None]_vars
    BY AnswersStep, ApiAssumption DEF Authorised, Administrator
  <1>2. QED
    BY <1>1, ApiInvariant, PTL DEF Spec, AnswersAreAuthorised

=============================================================================
