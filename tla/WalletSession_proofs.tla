-------------------------- MODULE WalletSession_proofs --------------------------
(***************************************************************************)
(* Proofs about WalletSession, for any number of components and clicks.    *)
(***************************************************************************)
EXTENDS WalletSession, SequenceTheorems, TLAPS

Calls == [op : Operations, by : Components \cup {None}]

\* No component subscribes twice, what is shown or loading is backed by a
\* refresh on its way, and a stub never has a session.
WalletInv ==
  /\ TypeOK
  /\ \A i, j \in DOMAIN mounted : mounted[i] = mounted[j] => i = j
  /\ ShownOrRefreshing
  /\ SpinnersHaveCalls
  /\ adapter = "stub" => session = None /\ \A c \in Components : ui[c].shown = None

-----------------------------------------------------------------------------
(* The queue of timers.  q is what it becomes.                             *)

Holds(q, op, c) == \E i \in DOMAIN q : q[i] = Call(op, c)

LEMMA WaitingHolds ==
  /\ \A op, c : Waiting(op, c) <=> Holds(timers, op, c)
  /\ \A op, c : Waiting(op, c)' <=> Holds(timers', op, c)
  BY DEF Waiting, Holds

\* Calls that are added come behind, and take nothing away.
LEMMA JoinKeeps ==
  ASSUME NEW q \in Seq(Calls), NEW more \in Seq(Calls)
  PROVE  /\ q \o more \in Seq(Calls)
         /\ \A op, c : Holds(q, op, c) => Holds(q \o more, op, c)
         /\ \A op, c : Holds(more, op, c) => Holds(q \o more, op, c)
  <1>1. /\ q \o more \in Seq(Calls)
        /\ Len(q \o more) = Len(q) + Len(more)
        /\ \A i \in 1..Len(q) : (q \o more)[i] = q[i]
        /\ \A i \in 1..Len(more) : (q \o more)[Len(q) + i] = more[i]
    BY ConcatProperties
  <1>2. \A i \in DOMAIN more : Len(q) + i \in DOMAIN (q \o more)
    BY <1>1
  <1>3. \A i \in DOMAIN q : i \in DOMAIN (q \o more)
    BY <1>1
  <1>4. QED
    BY <1>1, <1>2, <1>3 DEF Holds

LEMMA AppendKeeps ==
  ASSUME timers \in Seq(Calls), NEW call \in Calls
  PROVE  /\ Append(timers, call) \in Seq(Calls)
         /\ \A op, c : Waiting(op, c) \/ call = Call(op, c) => Holds(Append(timers, call), op, c)
  <1>1. /\ Append(timers, call) \in Seq(Calls)
        /\ Len(Append(timers, call)) = Len(timers) + 1
        /\ \A i \in 1..Len(timers) : Append(timers, call)[i] = timers[i]
        /\ Append(timers, call)[Len(timers) + 1] = call
    BY AppendProperties
  <1>2. DOMAIN Append(timers, call) = 1..(Len(timers) + 1) /\ DOMAIN timers = 1..Len(timers)
        /\ Len(timers) \in Nat
    BY <1>1
  <1>3. QED
    BY <1>1, <1>2 DEF Waiting, Holds

\* The answer to the oldest call takes that call away and no other.
LEMMA TailKeeps ==
  ASSUME timers \in Seq(Calls), timers # << >>
  PROVE  /\ Tail(timers) \in Seq(Calls)
         /\ Head(timers) \in Calls
         /\ \A op, c : Waiting(op, c) => Head(timers) = Call(op, c) \/ Holds(Tail(timers), op, c)
  <1>1. /\ Tail(timers) \in Seq(Calls) /\ Head(timers) \in Calls /\ Head(timers) = timers[1]
        /\ Len(Tail(timers)) = Len(timers) - 1
        /\ \A i \in 1..Len(Tail(timers)) : Tail(timers)[i] = timers[i + 1]
    BY HeadTailProperties
  <1>2. ASSUME NEW op, NEW c, NEW i \in DOMAIN timers, timers[i] = Call(op, c), i # 1
        PROVE  Holds(Tail(timers), op, c)
    <2>1. i - 1 \in DOMAIN Tail(timers) /\ Tail(timers)[i - 1] = timers[i]
      BY <1>1, <1>2
    <2>2. QED
      BY <1>2, <2>1 DEF Holds
  <1>3. QED
    BY <1>1, <1>2 DEF Waiting

\* Orphaned calls: those of other components stay.
LEMMA OrphanedKeeps ==
  ASSUME TypeOK, NEW c \in Components
  PROVE  LET q == [i \in DOMAIN timers |-> Orphaned(c, timers[i])]
         IN  /\ q \in Seq(Calls)
             /\ \A op : \A d \in Components \ {c} : Waiting(op, d) => Holds(q, op, d)
  <1> DEFINE q == [i \in DOMAIN timers |-> Orphaned(c, timers[i])]
  <1>1. timers \in Seq(Calls) /\ DOMAIN timers = 1..Len(timers) /\ Len(timers) \in Nat
    BY DEF TypeOK, Calls
  <1>2. ASSUME NEW i \in DOMAIN timers  PROVE Orphaned(c, timers[i]) \in Calls
    <2>1. timers[i] \in Calls
      BY <1>1
    <2>2. QED
      BY <2>1 DEF Orphaned, Calls
  <1>3. q \in Seq(Calls)
    BY <1>1, <1>2, IsASeq
  <1>4. ASSUME NEW op, NEW d \in Components \ {c}, NEW i \in DOMAIN timers, timers[i] = Call(op, d)
        PROVE  Holds(q, op, d)
    BY <1>4 DEF Holds, Orphaned, Call
  <1>5. QED
    BY <1>3, <1>4 DEF Waiting

\* Every mounted component is called on: the events of a connect.
LEMMA EventsReachMounted ==
  ASSUME TypeOK
  PROVE  LET more == [i \in DOMAIN mounted |-> Call("refresh", mounted[i])]
         IN  /\ more \in Seq(Calls)
             /\ \A c : IsMounted(c) => Holds(more, "refresh", c)
  <1>1. mounted \in Seq(Components) /\ DOMAIN mounted = 1..Len(mounted) /\ Len(mounted) \in Nat
    BY DEF TypeOK
  <1>2. \A i \in DOMAIN mounted : Call("refresh", mounted[i]) \in Calls
    BY <1>1 DEF Call, Calls, Operations
  <1>3. [i \in DOMAIN mounted |-> Call("refresh", mounted[i])] \in Seq(Calls)
    BY <1>1, <1>2, IsASeq
  <1>4. QED
    BY <1>3 DEF IsMounted, Holds

\* A component that appears is the last, and one that goes leaves the others.
LEMMA MountedGrows ==
  ASSUME TypeOK, NEW c \in Components, ~IsMounted(c),
         \A i, j \in DOMAIN mounted : mounted[i] = mounted[j] => i = j
  PROVE  LET m == Append(mounted, c)
         IN  /\ m \in Seq(Components)
             /\ \A i, j \in DOMAIN m : m[i] = m[j] => i = j
             /\ \A d : (\E i \in DOMAIN m : m[i] = d) <=> IsMounted(d) \/ d = c
  <1>1. mounted \in Seq(Components) /\ Append(mounted, c) \in Seq(Components)
        /\ Len(Append(mounted, c)) = Len(mounted) + 1
        /\ \A i \in 1..Len(mounted) : Append(mounted, c)[i] = mounted[i]
        /\ Append(mounted, c)[Len(mounted) + 1] = c
    BY AppendProperties DEF TypeOK
  <1>2. QED
    BY <1>1 DEF IsMounted

\* The places before a removed one.
LEMMA FirstHalf ==
  ASSUME NEW n \in Nat, NEW i \in Nat, NEW j \in 1..(n - 1), j < i
  PROVE  j \in 1..n /\ j # i
  OBVIOUS

\* The place in the second half of a sequence of n - 1 that has lost its i-th of n.
LEMMA SecondHalf ==
  ASSUME NEW n \in Nat, NEW i \in 1..n, NEW j \in 1..(n - 1), j >= i
  PROVE  /\ j - (i - 1) \in 1..(n - i)
         /\ i + (j - (i - 1)) = j + 1
         /\ ~(j <= i - 1)
         /\ j + 1 \in 1..n
         /\ j + 1 # i
  OBVIOUS

LEMMA MountedShrinks ==
  ASSUME TypeOK, NEW i \in DOMAIN mounted,
         \A j, k \in DOMAIN mounted : mounted[j] = mounted[k] => j = k,
         NEW m, m = SubSeq(mounted, 1, i - 1) \o SubSeq(mounted, i + 1, Len(mounted))
  PROVE  /\ m \in Seq(Components)
         /\ \A j, k \in DOMAIN m : m[j] = m[k] => j = k
         /\ \A d : (\E j \in DOMAIN m : m[j] = d) <=> IsMounted(d) /\ d # mounted[i]
  <1> DEFINE left == SubSeq(mounted, 1, i - 1)
             right == SubSeq(mounted, i + 1, Len(mounted))
             At(j) == IF j < i THEN j ELSE j + 1
  <1> DEFINE n == Len(mounted)
  <1>1. mounted \in Seq(Components) /\ i \in 1..n /\ n \in Nat /\ i \in Nat
        /\ DOMAIN mounted = 1..n
    BY DEF TypeOK
  <1>2. /\ left \in Seq(Components) /\ Len(left) = i - 1
        /\ \A j \in 1..(i - 1) : left[j] = mounted[j]
    <2>1. 1 \in Int /\ i - 1 \in Int /\ \A j \in 1..(i - 1) : mounted[j] \in Components
      BY <1>1
    <2>2. QED
      BY <1>1, <2>1, SubSeqProperties
  <1>3. /\ right \in Seq(Components) /\ Len(right) = n - i
        /\ \A j \in 1..(n - i) : right[j] = mounted[i + j]
    <2>1. i + 1 \in Int /\ n \in Int /\ \A j \in (i + 1)..n : mounted[j] \in Components
      BY <1>1
    <2>2. /\ right \in Seq(Components)
          /\ Len(right) = IF i + 1 <= n THEN n - (i + 1) + 1 ELSE 0
          /\ \A j \in 1..(n - (i + 1) + 1) : right[j] = mounted[(i + 1) + j - 1]
      BY <2>1, SubSeqProperties
    <2>3. n - (i + 1) + 1 = n - i /\ \A j \in 1..(n - i) : (i + 1) + j - 1 = i + j
      BY <1>1
    <2>4. Len(right) = n - i
      BY <1>1, <2>2
    <2>5. ASSUME NEW j \in 1..(n - i)
          PROVE  right[j] = mounted[i + j]
      <3>1. right[j] = mounted[(i + 1) + j - 1]
        BY <2>2, <2>3, <2>5
      <3>2. (i + 1) + j - 1 = i + j
        BY <2>3, <2>5
      <3>3. QED
        BY <3>1, <3>2, Zenon
    <2>6. QED
      BY <2>2, <2>4, <2>5, Zenon
  <1>4. /\ m \in Seq(Components) /\ Len(m) = n - 1 /\ DOMAIN m = 1..(n - 1)
        /\ \A j \in 1..(n - 1) : m[j] = IF j <= i - 1 THEN left[j] ELSE right[j - (i - 1)]
    <2> HIDE DEF left, right
    <2>1. m = left \o right
      BY DEF left, right
    <2>2. /\ m \in Seq(Components) /\ Len(m) = Len(left) + Len(right)
          /\ \A j \in 1..(Len(left) + Len(right)) :
                m[j] = IF j <= Len(left) THEN left[j] ELSE right[j - Len(left)]
      <3>1. /\ left \o right \in Seq(Components)
            /\ Len(left \o right) = Len(left) + Len(right)
            /\ \A j \in 1..(Len(left) + Len(right)) : (left \o right)[j] =
                    IF j <= Len(left) THEN left[j] ELSE right[j - Len(left)]
        <4>1. left \in Seq(Components) /\ right \in Seq(Components)
          BY <1>2, <1>3
        <4>2. QED
          BY <4>1, ConcatProperties, Zenon
      <3>2. QED
        BY <2>1, <3>1
    <2>3. Len(left) + Len(right) = n - 1
      BY <1>1, <1>2, <1>3
    <2>4. DOMAIN m = 1..Len(m)
      BY <2>2
    <2>5. QED
      BY <1>2, <2>2, <2>3, <2>4
  <1>5. ASSUME NEW j \in DOMAIN m
        PROVE  At(j) \in DOMAIN mounted /\ At(j) # i /\ m[j] = mounted[At(j)]
    <2> HIDE DEF left, right, n, At
    <2>1. j \in 1..(n - 1) /\ j \in Nat /\ (j < i \/ j >= i)
      <3>1. DOMAIN m = 1..(n - 1) /\ n \in Nat /\ i \in Nat
        BY <1>1, <1>4, Zenon
      <3>2. j \in 1..(n - 1)
        BY <3>1, <1>5, Zenon
      <3> HIDE DEF n
      <3>3. QED
        BY <3>1, <3>2
    <2> HIDE DEF n
    <2>2. CASE j < i
      <3>1. At(j) = j
        BY <2>2 DEF At
      <3>2. m[j] = left[j] /\ left[j] = mounted[j]
        BY <1>1, <1>2, <1>4, <2>1, <2>2
      <3>3. j \in 1..n /\ j # i
        <4>1. n \in Nat /\ i \in Nat
          BY <1>1, Zenon
        <4>2. QED
          BY <4>1, <2>1, <2>2, FirstHalf, Zenon
      <3>4. QED
        BY <1>1, <3>1, <3>2, <3>3
    <2>3. CASE j >= i
      <3>1. /\ j - (i - 1) \in 1..(n - i)
            /\ i + (j - (i - 1)) = j + 1
            /\ ~(j <= i - 1)
            /\ j + 1 \in 1..n
            /\ j + 1 # i
        <4>1. n \in Nat /\ i \in 1..n /\ j \in 1..(n - 1) /\ j >= i
          BY <1>1, <2>1, <2>3
        <4>2. QED
          BY <4>1, SecondHalf, Zenon
      <3>2. m[j] = right[j - (i - 1)]
        BY <1>4, <2>1, <3>1
      <3>3. right[j - (i - 1)] = mounted[j + 1]
        BY <1>3, <3>1
      <3>4. At(j) = j + 1
        BY <1>1, <2>1, <2>3 DEF At
      <3>5. QED
        BY <1>1, <3>1, <3>2, <3>3, <3>4
    <2>4. QED
      BY <2>1, <2>2, <2>3
  <1>6. ASSUME NEW j \in DOMAIN m, NEW k \in DOMAIN m, At(j) = At(k)
        PROVE  j = k
    <2>1. j \in Int /\ k \in Int /\ i \in Int
      BY <1>1, <1>4
    <2>2. QED
      BY <1>6, <2>1
  <1>7. ASSUME NEW j \in DOMAIN m, NEW k \in DOMAIN m, m[j] = m[k]
        PROVE  j = k
    <2> HIDE DEF At
    <2>1. QED
      BY <1>5, <1>6, <1>7
  <1>8. ASSUME NEW d, NEW j \in DOMAIN m, m[j] = d
        PROVE  IsMounted(d) /\ d # mounted[i]
    <2> HIDE DEF At
    <2>1. QED
      BY <1>1, <1>5, <1>8 DEF IsMounted
  <1>9. ASSUME NEW d, NEW j \in DOMAIN mounted, mounted[j] = d, j # i
        PROVE  \E k \in DOMAIN m : m[k] = d
    <2> DEFINE k == IF j < i THEN j ELSE j - 1
    <2>1. k \in 1..(n - 1) /\ At(k) = j
      <3>1. n \in Nat /\ i \in 1..n /\ j \in 1..n
        BY <1>1
      <3> HIDE DEF n
      <3>2. QED
        BY <1>9, <3>1
    <2> HIDE DEF At, k
    <2>2. QED
      BY <1>4, <1>5, <1>9, <2>1
  <1>10. QED
    <2> HIDE DEF At
    <2>1. QED
      BY <1>4, <1>7, <1>8, <1>9 DEF IsMounted

-----------------------------------------------------------------------------
(* WalletInv is inductive.                                                 *)

LEMMA WalletInit == Init => WalletInv
  <1> SUFFICES ASSUME Init  PROVE WalletInv
    OBVIOUS
  <1>1. \A c \in Components : ~IsMounted(c)
    <2>1. DOMAIN mounted = 1..0
      BY DEF Init
    <2>2. QED
      BY <2>1 DEF IsMounted
  <1>2. TypeOK
    BY WalletAssumption DEF Init, TypeOK, UiState, Sessions, Fresh, Calls
  <1>3. QED
    BY <1>1, <1>2 DEF Init, WalletInv, ShownOrRefreshing, SpinnersHaveCalls, Fresh

\* A call by a mounted component: it is put behind the others.
LEMMA AskStep ==
  ASSUME WalletInv, NEW c \in Components, Connect(c) \/ Disconnect(c) \/ Refresh(c)
  PROVE  WalletInv'
  <1> USE DEF WalletInv
  <1>1. PICK op \in Operations :
           /\ timers' = Append(timers, Call(op, c))
           /\ Click /\ UNCHANGED <<adapter, session, mounted, foreign>>
           /\ \/ op = "connect" /\ ui' = [ui EXCEPT ![c].isConnecting = TRUE, ![c].connectError = FALSE]
              \/ op = "disconnect" /\ ui' = [ui EXCEPT ![c].connectError = FALSE]
              \/ op = "refresh" /\ ui' = [ui EXCEPT ![c] = Loading(@)]
    BY DEF Connect, Disconnect, Refresh, Operations
  <1>2. Call(op, c) \in Calls /\ timers \in Seq(Calls)
    BY DEF Call, Calls, TypeOK
  <1>3. /\ timers' \in Seq(Calls)
        /\ \A o, d : Waiting(o, d) => Waiting(o, d)'
        /\ Waiting(op, c)'
    <2>1. /\ Append(timers, Call(op, c)) \in Seq(Calls)
          /\ \A o, d : Waiting(o, d) \/ Call(op, c) = Call(o, d)
                          => Holds(Append(timers, Call(op, c)), o, d)
      BY <1>2, AppendKeeps
    <2>2. QED
      BY <1>1, <2>1, WaitingHolds
  <1>4. /\ ui' \in [Components -> UiState]
        /\ \A d \in Components : ui'[d].shown = ui[d].shown
        /\ \A d \in Components : ui'[d].isConnecting => ui[d].isConnecting \/ (d = c /\ op = "connect")
        /\ \A d \in Components : ui'[d].isLoading => ui[d].isLoading \/ (d = c /\ op = "refresh")
    <2>1. ui \in [Components -> UiState]
      BY DEF TypeOK
    <2> DEFINE u == ui'[c]
    <2>2. u \in UiState /\ u.shown = ui[c].shown
          /\ (u.isConnecting => ui[c].isConnecting \/ op = "connect")
          /\ (u.isLoading => ui[c].isLoading \/ op = "refresh")
      <3>1. ui[c] \in UiState
        BY <2>1
      <3>2. CASE op = "connect"
        <4>1. u = [ui[c] EXCEPT !.isConnecting = TRUE, !.connectError = FALSE]
          BY <1>1, <2>1, <3>2, Zenon
        <4> HIDE DEF u
        <4>2. QED
          BY <3>1, <3>2, <4>1 DEF UiState
      <3>3. CASE op = "disconnect"
        <4>1. u = [ui[c] EXCEPT !.connectError = FALSE]
          BY <1>1, <2>1, <3>3
        <4> HIDE DEF u
        <4>2. QED
          BY <3>1, <3>3, <4>1 DEF UiState
      <3>4. CASE op = "refresh"
        <4>1. u = Loading(ui[c])
          BY <1>1, <2>1, <3>4
        <4> HIDE DEF u
        <4>2. QED
          BY <3>1, <3>4, <4>1 DEF UiState, Loading
      <3>5. QED
        BY <1>1, <3>2, <3>3, <3>4
    <2>3. DOMAIN ui' = Components /\ ui' = [d \in Components |-> ui'[d]]
      BY <1>1, <2>1
    <2>4. \A d \in Components : d # c => ui'[d] = ui[d]
      BY <1>1, <2>1
    <2> HIDE DEF u
    <2>5. \A d \in Components : ui'[d] \in UiState
      BY <2>1, <2>2, <2>4 DEF u
    <2>6. ui' \in [Components -> UiState]
      BY <2>3, <2>5
    <2>7. QED
      BY <2>2, <2>4, <2>6 DEF u
  <1>5. TypeOK'
    BY <1>1, <1>3, <1>4 DEF TypeOK, Click, Calls
  <1>6. \A d : IsMounted(d)' <=> IsMounted(d)
    BY <1>1 DEF IsMounted
  <1>7. ShownOrRefreshing' /\ SpinnersHaveCalls'
    BY <1>1, <1>3, <1>4, <1>6 DEF ShownOrRefreshing, SpinnersHaveCalls
  <1>8. QED
    BY <1>1, <1>4, <1>5, <1>7

LEMMA MountStep ==
  ASSUME WalletInv, NEW c \in Components, Mount(c)
  PROVE  WalletInv'
  <1> USE DEF WalletInv
  <1> DEFINE more == <<Call("detect", c), Call("refresh", c)>>
  <1>1. more \in Seq(Calls) /\ timers \in Seq(Calls) /\ Holds(more, "refresh", c)
    BY DEF Call, Calls, TypeOK, Holds, Operations
  <1>2. /\ timers' \in Seq(Calls)
        /\ \A o, d : Waiting(o, d) => Waiting(o, d)'
        /\ Waiting("refresh", c)'
    <2> HIDE DEF more
    <2>1. timers' = timers \o more
      BY DEF Mount, more
    <2>2. /\ timers \o more \in Seq(Calls)
          /\ \A o, d : Holds(timers, o, d) => Holds(timers \o more, o, d)
          /\ \A o, d : Holds(more, o, d) => Holds(timers \o more, o, d)
      BY <1>1, JoinKeeps
    <2>3. QED
      BY <1>1, <2>1, <2>2, WaitingHolds
  <1>3. /\ mounted' \in Seq(Components)
        /\ \A i, j \in DOMAIN mounted' : mounted'[i] = mounted'[j] => i = j
        /\ \A d : IsMounted(d)' <=> IsMounted(d) \/ d = c
    BY MountedGrows DEF Mount, IsMounted
  <1>4. /\ ui' \in [Components -> UiState] /\ foreign' \in [Components -> BOOLEAN]
        /\ \A d \in Components \ {c} : ui'[d] = ui[d]
        /\ ui'[c] = Fresh
    BY WalletAssumption DEF Mount, TypeOK, UiState, Fresh, Sessions
  <1>5. TypeOK'
    BY <1>2, <1>3, <1>4 DEF Mount, TypeOK, Click, Calls
  <1>6. ShownOrRefreshing' /\ SpinnersHaveCalls'
    BY <1>2, <1>3, <1>4 DEF Mount, ShownOrRefreshing, SpinnersHaveCalls, Fresh
  <1>7. QED
    BY <1>3, <1>4, <1>5, <1>6 DEF Mount, Fresh

LEMMA UnmountStep ==
  ASSUME WalletInv, NEW c \in Components, Unmount(c)
  PROVE  WalletInv'
  <1> USE DEF WalletInv
  <1>1. PICK i \in DOMAIN mounted :
           /\ mounted[i] = c
           /\ mounted' = SubSeq(mounted, 1, i - 1) \o SubSeq(mounted, i + 1, Len(mounted))
    BY DEF Unmount
  <1>2. /\ mounted' \in Seq(Components)
        /\ \A j, k \in DOMAIN mounted' : mounted'[j] = mounted'[k] => j = k
        /\ \A d : IsMounted(d)' => IsMounted(d) /\ d # c
    <2> DEFINE m == SubSeq(mounted, 1, i - 1) \o SubSeq(mounted, i + 1, Len(mounted))
    <2>1. /\ m \in Seq(Components)
          /\ \A j, k \in DOMAIN m : m[j] = m[k] => j = k
          /\ \A d : (\E j \in DOMAIN m : m[j] = d) <=> IsMounted(d) /\ d # mounted[i]
      BY MountedShrinks
    <2> HIDE DEF m
    <2>2. mounted' = m
      BY <1>1 DEF m
    <2>3. QED
      BY <1>1, <2>1, <2>2 DEF IsMounted
  <1>3. /\ timers' \in Seq(Calls)
        /\ \A op : \A d \in Components \ {c} : Waiting(op, d) => Waiting(op, d)'
    <2> DEFINE q == [j \in DOMAIN timers |-> Orphaned(c, timers[j])]
    <2>1. /\ q \in Seq(Calls)
          /\ \A op : \A d \in Components \ {c} : Waiting(op, d) => Holds(q, op, d)
      BY OrphanedKeeps
    <2>2. timers' = q
      BY DEF Unmount
    <2> HIDE DEF q
    <2>3. QED
      BY <2>1, <2>2, WaitingHolds
  <1>4. TypeOK'
    BY <1>2, <1>3 DEF Unmount, TypeOK, Click, Calls
  <1>5. ShownOrRefreshing' /\ SpinnersHaveCalls'
    BY <1>2, <1>3 DEF Unmount, ShownOrRefreshing, SpinnersHaveCalls
  <1>6. QED
    BY <1>2, <1>4, <1>5 DEF Unmount

\* The oldest call is answered.  Only a connect and a disconnect change the
\* session; a connect sends every mounted component to refresh, a disconnect
\* has every mounted component forget what it shows.
LEMMA ConnectStep ==
  ASSUME WalletInv, ConnectFires
  PROVE  WalletInv'
  <1> USE DEF WalletInv
  <1> DEFINE more == [i \in DOMAIN mounted |-> Call("refresh", mounted[i])]
  <1>1. /\ timers \in Seq(Calls) /\ timers # << >> /\ Head(timers).op = "connect"
        /\ ui \in [Components -> UiState] /\ adapter = "mock"
    BY DEF ConnectFires, Due, TypeOK, Calls
  <1>2. /\ Tail(timers) \in Seq(Calls) /\ Head(timers) \in Calls
        /\ \A op, c : Waiting(op, c) => Head(timers) = Call(op, c) \/ Holds(Tail(timers), op, c)
    BY <1>1, TailKeeps
  <1>3. /\ more \in Seq(Calls)
        /\ \A c : IsMounted(c) => Holds(more, "refresh", c)
    BY EventsReachMounted
  <1>4. timers' = Tail(timers) \o more
    BY DEF ConnectFires
  <1> HIDE DEF more
  <1>5. /\ timers' \in Seq(Calls)
        /\ \A op, c : Holds(Tail(timers), op, c) => Waiting(op, c)'
        /\ \A c : IsMounted(c) => Waiting("refresh", c)'
    <2>1. /\ Tail(timers) \o more \in Seq(Calls)
          /\ \A op, c : Holds(Tail(timers), op, c) => Holds(Tail(timers) \o more, op, c)
          /\ \A op, c : Holds(more, op, c) => Holds(Tail(timers) \o more, op, c)
      BY <1>2, <1>3, JoinKeeps
    <2>2. QED
      BY <1>3, <1>4, <2>1, WaitingHolds
  <1>6. \A c : IsMounted(c)' <=> IsMounted(c)
    BY DEF ConnectFires, IsMounted
  <1>7. /\ ui' \in [Components -> UiState]
        /\ \A c \in Components : ui'[c].isConnecting => ui[c].isConnecting /\ c # Caller
    <2>1. ASSUME NEW c \in Components
          PROVE  /\ ui'[c] \in UiState
                 /\ ui'[c].isConnecting => ui[c].isConnecting /\ c # Caller
      <3>1. ui'[c] = AfterConnect(c, IF IsMounted(c) THEN Loading(ui[c]) ELSE ui[c])
        BY DEF ConnectFires
      <3>2. QED
        BY <1>1, <3>1 DEF AfterConnect, Loading, UiState, Sessions
    <2>2. ui' = [c \in Components |-> ui'[c]]
      BY DEF ConnectFires
    <2>3. QED
      BY <2>1, <2>2
  <1>8. SpinnersHaveCalls'
    <2>1. ASSUME NEW c \in Components, IsMounted(c), ui'[c].isConnecting
          PROVE  Waiting("connect", c)'
      <3>1. ui[c].isConnecting /\ c # Caller
        BY <1>7, <2>1
      <3>2. Waiting("connect", c) /\ Head(timers) # Call("connect", c)
        BY <2>1, <3>1 DEF SpinnersHaveCalls, Call, Caller
      <3>3. QED
        BY <1>2, <1>5, <3>2
    <2>2. QED
      BY <1>5, <1>6, <2>1 DEF SpinnersHaveCalls
  <1>9. ShownOrRefreshing'
    BY <1>5, <1>6 DEF ShownOrRefreshing
  <1>10. TypeOK'
    BY <1>5, <1>7 DEF ConnectFires, TypeOK, Sessions, NoteForeign, Calls
  <1>11. QED
    BY <1>1, <1>8, <1>9, <1>10 DEF ConnectFires

LEMMA DisconnectStep ==
  ASSUME WalletInv, DisconnectFires
  PROVE  WalletInv'
  <1> USE DEF WalletInv
  <1>1. /\ timers \in Seq(Calls) /\ timers # << >> /\ Head(timers).op = "disconnect"
        /\ ui \in [Components -> UiState] /\ timers' = Tail(timers)
    BY DEF DisconnectFires, Due, TypeOK, Calls
  <1>2. /\ timers' \in Seq(Calls)
        /\ \A op, c : op # "disconnect" /\ Waiting(op, c) => Waiting(op, c)'
    BY <1>1, TailKeeps, WaitingHolds DEF Call
  <1>3. \A c : IsMounted(c)' <=> IsMounted(c)
    BY DEF DisconnectFires, IsMounted
  <1>4. /\ ui' \in [Components -> UiState]
        /\ \A c \in Components : ui'[c].isConnecting = ui[c].isConnecting
        /\ \A c \in Components : ui'[c].isLoading = ui[c].isLoading
        /\ \A c \in Components : ui'[c].shown = IF IsMounted(c) THEN None ELSE ui[c].shown
    <2>1. ASSUME NEW c \in Components
          PROVE  /\ ui'[c] \in UiState
                 /\ ui'[c].isConnecting = ui[c].isConnecting
                 /\ ui'[c].isLoading = ui[c].isLoading
                 /\ ui'[c].shown = IF IsMounted(c) THEN None ELSE ui[c].shown
      <3>1. ui'[c] = AfterDisconnect(c, IF IsMounted(c) THEN Forget(ui[c]) ELSE ui[c])
        BY DEF DisconnectFires
      <3>2. QED
        BY <1>1, <3>1 DEF AfterDisconnect, Forget, UiState, Sessions
    <2>2. ui' = [c \in Components |-> ui'[c]]
      BY DEF DisconnectFires
    <2>3. QED
      BY <2>1, <2>2
  <1>5. SpinnersHaveCalls' /\ ShownOrRefreshing'
    BY <1>2, <1>3, <1>4 DEF SpinnersHaveCalls, ShownOrRefreshing, DisconnectFires
  <1>6. TypeOK'
    BY <1>2, <1>4 DEF DisconnectFires, TypeOK, Sessions, NoteForeign, Calls
  <1>7. QED
    BY <1>4, <1>5, <1>6 DEF DisconnectFires

\* An answer that concerns its caller only.
LEMMA OwnAnswerStep ==
  ASSUME WalletInv, ConnectRejected \/ RefreshFires \/ DetectFires
  PROVE  WalletInv'
  <1> USE DEF WalletInv
  <1>1. /\ timers \in Seq(Calls) /\ timers # << >> /\ ui \in [Components -> UiState]
        /\ timers' = Tail(timers)
        /\ UNCHANGED <<adapter, session, mounted, clicks, foreign>>
    BY DEF ConnectRejected, RefreshFires, DetectFires, Due, TypeOK, Calls
  <1>2. /\ timers' \in Seq(Calls)
        /\ \A op, c : Waiting(op, c) => Head(timers) = Call(op, c) \/ Waiting(op, c)'
    BY <1>1, TailKeeps, WaitingHolds
  <1>3. \A c : IsMounted(c)' <=> IsMounted(c)
    BY <1>1 DEF IsMounted
  <1>4. ASSUME NEW c \in Components
        PROVE  /\ ui'[c] \in UiState
               /\ ui'[c].isConnecting => ui[c].isConnecting /\ Head(timers) # Call("connect", c)
               /\ ui'[c].isLoading => ui[c].isLoading /\ Head(timers) # Call("refresh", c)
               /\ adapter = "stub" => ui'[c].shown = None
               /\ ui'[c].shown = ui[c].shown \/ ui'[c].shown = session
               /\ Head(timers) = Call("refresh", c) => ui'[c].shown = session
    <2>1. ui[c] \in UiState /\ session \in Sessions /\ adapter \in {"mock", "stub"}
          /\ (adapter = "stub" => ui[c].shown = None /\ session = None)
      BY <1>1, WalletAssumption DEF TypeOK
    <2>0. \A op : Head(timers) = Call(op, c) => Caller = c /\ Head(timers).op = op
      BY DEF Call, Caller
    <2>2. CASE ConnectRejected
      <3>1. ui'[c] = IF c = Caller THEN [ui[c] EXCEPT !.connectError = TRUE, !.isConnecting = FALSE]
                     ELSE ui[c]
        BY <2>2 DEF ConnectRejected
      <3>2. Head(timers).op = "connect"
        BY <2>2 DEF ConnectRejected, Due
      <3>3. QED
        <4>1. CASE c = Caller
          <5>1. ui'[c] = [ui[c] EXCEPT !.connectError = TRUE, !.isConnecting = FALSE]
            BY <3>1, <4>1
          <5>2. ui'[c] \in UiState /\ ui'[c].shown = ui[c].shown
            BY <2>1, <5>1 DEF UiState
          <5>3. ui'[c].isConnecting = FALSE /\ ui'[c].isLoading = ui[c].isLoading
            BY <2>1, <5>1 DEF UiState
          <5>4. QED
            BY <2>1, <2>0, <3>2, <5>2, <5>3
        <4>2. CASE c # Caller
          BY <2>1, <2>0, <3>1, <3>2, <4>2
        <4>3. QED
          BY <4>1, <4>2
    <2>3. CASE RefreshFires
      <3>1. ui'[c] = IF c = Caller THEN Loaded(ui[c]) ELSE ui[c]
        BY <2>3 DEF RefreshFires
      <3>2. Head(timers).op = "refresh"
        BY <2>3 DEF RefreshFires, Due
      <3>3. QED
        <4>1. CASE c = Caller
          <5>1. ui'[c] = Loaded(ui[c])
            BY <3>1, <4>1
          <5>2. Loaded(ui[c]) \in UiState /\ ~Loaded(ui[c]).isLoading
            BY <2>1 DEF UiState, Loaded
          <5>3. /\ Loaded(ui[c]).isConnecting = ui[c].isConnecting
                /\ Loaded(ui[c]).shown = IF adapter = "mock" THEN session ELSE ui[c].shown
            BY <2>1 DEF UiState, Loaded
          <5>4. QED
            BY <2>1, <2>0, <3>2, <5>1, <5>2, <5>3
        <4>2. CASE c # Caller
          BY <2>1, <2>0, <3>1, <3>2, <4>2
        <4>3. QED
          BY <4>1, <4>2
    <2>4. CASE DetectFires
      <3>1. ui'[c] = IF c = Caller THEN Detected(ui[c]) ELSE ui[c]
        BY <2>4 DEF DetectFires
      <3>2. Head(timers).op = "detect"
        BY <2>4 DEF DetectFires, Due
      <3>3. QED
        BY <2>1, <3>1, <3>2 DEF UiState, Detected, Caller, Call
    <2>5. QED
      BY <2>2, <2>3, <2>4
  <1>5. ui' \in [Components -> UiState]
    <2>1. ui' = [c \in Components |-> ui'[c]]
      BY DEF ConnectRejected, RefreshFires, DetectFires
    <2>2. QED
      BY <1>4, <2>1
  <1>6. SpinnersHaveCalls'
    BY <1>2, <1>3, <1>4 DEF SpinnersHaveCalls
  <1>7. ShownOrRefreshing'
    BY <1>1, <1>2, <1>3, <1>4 DEF ShownOrRefreshing
  <1>8. TypeOK'
    BY <1>1, <1>2, <1>5 DEF TypeOK, Calls
  <1>9. QED
    BY <1>1, <1>4, <1>6, <1>7, <1>8

LEMMA WalletStep == WalletInv /\ [Next]_vars => WalletInv'
  <1> SUFFICES ASSUME WalletInv, [Next]_vars  PROVE WalletInv'
    OBVIOUS
  <1>1. CASE UNCHANGED vars
    BY <1>1 DEF vars, WalletInv, TypeOK, ShownOrRefreshing, SpinnersHaveCalls, IsMounted, Waiting
  <1>2. CASE Fire
    BY <1>2, ConnectStep, DisconnectStep, OwnAnswerStep DEF Fire
  <1>3. ASSUME NEW c \in Components, User(c)
        PROVE  WalletInv'
    BY <1>3, AskStep, MountStep, UnmountStep DEF User
  <1>4. QED
    BY <1>1, <1>2, <1>3 DEF Next

LEMMA WalletInductive == Spec => []WalletInv
  BY WalletInit, WalletStep, PTL DEF Spec

\* Every hook's state, and the queue of timers, keep their types.
THEOREM WalletTypes == Spec => []TypeOK
  <1>1. WalletInv => TypeOK
    BY DEF WalletInv
  <1>2. QED
    BY <1>1, WalletInductive, PTL

\* Whatever overlaps, a component shows the adapter's session or has a refresh
\* on its way.
THEOREM ShowsTheSession == Spec => []ShownOrRefreshing
  <1>1. WalletInv => ShownOrRefreshing
    BY DEF WalletInv
  <1>2. QED
    BY <1>1, WalletInductive, PTL

\* A busy hook has a call to wait for.
THEOREM BusyHooksWait == Spec => []SpinnersHaveCalls
  <1>1. WalletInv => SpinnersHaveCalls
    BY DEF WalletInv
  <1>2. QED
    BY <1>1, WalletInductive, PTL

-----------------------------------------------------------------------------
(* The connection of a component that connects and disconnects alone.      *)

\* Calls are those of mounted components or of nobody, and detectSession is the
\* first of a component's calls that wait.
ByMounted(q, m) == \A i \in DOMAIN q : q[i].by # None => \E j \in DOMAIN m : m[j] = q[i].by

DetectsFirst(q) ==
  \A i, j \in DOMAIN q :
    q[i].op = "detect" /\ q[i].by # None /\ q[j].by = q[i].by => i <= j

\* Until its detectSession is answered a component has no connection; after that
\* the connection follows the session.
ConnectionInv ==
  /\ ByMounted(timers, mounted)
  /\ DetectsFirst(timers)
  /\ \A c \in Components : IsMounted(c) /\ ~foreign[c] =>
       ui[c].connection = IF Waiting("detect", c) THEN None ELSE session

\* A queue r that grew from q at its end.
LEMMA GrownQueue ==
  ASSUME NEW q \in Seq(Calls), NEW r \in Seq(Calls), DetectsFirst(q),
         Len(q) <= Len(r), \A i \in 1..Len(q) : r[i] = q[i],
         \A i \in 1..Len(r) : i > Len(q) /\ r[i].op = "detect" =>
           \A j \in 1..Len(r) : r[j].by = r[i].by => i <= j
  PROVE  /\ DetectsFirst(r)
         /\ \A c : Holds(r, "detect", c) <=>
              \/ Holds(q, "detect", c)
              \/ \E i \in 1..Len(r) : i > Len(q) /\ r[i] = Call("detect", c)
  <1>1. /\ DOMAIN q = 1..Len(q) /\ DOMAIN r = 1..Len(r) /\ Len(q) \in Nat /\ Len(r) \in Nat
        /\ \A i \in DOMAIN q : i \in DOMAIN r
    OBVIOUS
  <1>2. ASSUME NEW i \in DOMAIN r, NEW j \in DOMAIN r,
               r[i].op = "detect", r[i].by # None, r[j].by = r[i].by
        PROVE  i <= j
    <2>1. CASE i > Len(q)
      BY <1>1, <1>2, <2>1
    <2>2. CASE i <= Len(q) /\ j <= Len(q)
      <3>1. i \in DOMAIN q /\ j \in DOMAIN q /\ r[i] = q[i] /\ r[j] = q[j]
        BY <1>1, <2>2
      <3>2. QED
        BY <1>2, <3>1 DEF DetectsFirst
    <2>3. CASE i <= Len(q) /\ j > Len(q)
      BY <1>1, <2>3
    <2>4. QED
      BY <1>1, <2>1, <2>2, <2>3
  <1>3. ASSUME NEW c, NEW i \in DOMAIN r, r[i] = Call("detect", c), ~(i > Len(q))
        PROVE  Holds(q, "detect", c)
    <2>1. i \in DOMAIN q /\ q[i] = Call("detect", c)
      BY <1>1, <1>3
    <2>2. QED
      BY <2>1 DEF Holds
  <1>4. ASSUME NEW c, NEW i \in DOMAIN q, q[i] = Call("detect", c)
        PROVE  Holds(r, "detect", c)
    <2>1. i \in DOMAIN r /\ r[i] = Call("detect", c)
      BY <1>1, <1>4
    <2>2. QED
      BY <2>1 DEF Holds
  <1>5. QED
    BY <1>1, <1>2, <1>3, <1>4 DEF DetectsFirst, Holds

\* Calls of which none is a detection: a mounted component's, or the events of a
\* connect.
LEMMA OthersJoin ==
  ASSUME NEW q \in Seq(Calls), NEW more \in Seq(Calls), DetectsFirst(q),
         \A i \in DOMAIN more : more[i].op # "detect"
  PROVE  /\ DetectsFirst(q \o more)
         /\ \A c : Holds(q \o more, "detect", c) <=> Holds(q, "detect", c)
  <1> DEFINE r == q \o more
  <1>1. /\ r \in Seq(Calls)
        /\ Len(r) = Len(q) + Len(more)
        /\ \A i \in 1..(Len(q) + Len(more)) :
             r[i] = IF i <= Len(q) THEN q[i] ELSE more[i - Len(q)]
    BY ConcatProperties
  <1>2. Len(q) \in Nat /\ Len(more) \in Nat /\ DOMAIN more = 1..Len(more)
    OBVIOUS
  <1> HIDE DEF r
  <1>3. ASSUME NEW i \in 1..Len(r), i > Len(q)
        PROVE  r[i].op # "detect"
    <2>1. i - Len(q) \in DOMAIN more /\ r[i] = more[i - Len(q)]
      BY <1>1, <1>2, <1>3
    <2>2. QED
      BY <2>1
  <1>4. Len(q) <= Len(r) /\ \A i \in 1..Len(q) : r[i] = q[i]
    BY <1>1, <1>2
  <1>5. \A c : Call("detect", c).op = "detect"
    BY DEF Call
  <1>6. DetectsFirst(r) /\ \A c : Holds(r, "detect", c) <=> Holds(q, "detect", c)
    BY <1>1, <1>3, <1>4, <1>5, GrownQueue
  <1>7. QED
    BY <1>6 DEF r

\* Joined queues hold the calls of both.
LEMMA JoinByMounted ==
  ASSUME NEW q \in Seq(Calls), NEW more \in Seq(Calls), NEW m,
         ByMounted(q, m), ByMounted(more, m)
  PROVE  ByMounted(q \o more, m)
  <1> DEFINE r == q \o more
  <1>1. /\ r \in Seq(Calls)
        /\ Len(r) = Len(q) + Len(more)
        /\ \A i \in 1..(Len(q) + Len(more)) :
             r[i] = IF i <= Len(q) THEN q[i] ELSE more[i - Len(q)]
    BY ConcatProperties
  <1>2. Len(q) \in Nat /\ Len(more) \in Nat /\ DOMAIN more = 1..Len(more)
        /\ DOMAIN q = 1..Len(q)
    OBVIOUS
  <1> HIDE DEF r
  <1>3. ASSUME NEW i \in DOMAIN r, r[i].by # None
        PROVE  \E j \in DOMAIN m : m[j] = r[i].by
    <2>1. i \in 1..(Len(q) + Len(more))
      BY <1>1
    <2>2. CASE i <= Len(q)
      <3>1. i \in DOMAIN q /\ r[i] = q[i]
        BY <1>1, <1>2, <2>1, <2>2
      <3>2. QED
        BY <1>3, <3>1 DEF ByMounted
    <2>3. CASE ~(i <= Len(q))
      <3>1. i - Len(q) \in DOMAIN more /\ r[i] = more[i - Len(q)]
        BY <1>1, <1>2, <2>1, <2>3
      <3>2. QED
        BY <1>3, <3>1 DEF ByMounted
    <2>4. QED
      BY <2>2, <2>3
  <1>4. QED
    BY <1>3 DEF ByMounted, r

\* The answer to the oldest call: if it is a detection there is no other of that
\* component, and if it is another call of a component, that one's detection
\* was answered before.
LEMMA OldestAnswered ==
  ASSUME NEW q \in Seq(Calls), q # << >>, DetectsFirst(q), NEW m, ByMounted(q, m)
  PROVE  /\ DetectsFirst(Tail(q)) /\ ByMounted(Tail(q), m)
         /\ \A c : Head(q).by # c => (Holds(Tail(q), "detect", c) <=> Holds(q, "detect", c))
         /\ \A c \in Components : Head(q).by = c => ~Holds(Tail(q), "detect", c)
         /\ \A c \in Components :
              Head(q).by = c => (Holds(q, "detect", c) <=> Head(q).op = "detect")
  <1>1. /\ Tail(q) \in Seq(Calls) /\ Head(q) = q[1] /\ Len(q) \in Nat /\ Len(q) >= 1
        /\ Len(Tail(q)) = Len(q) - 1
        /\ \A i \in 1..Len(Tail(q)) : Tail(q)[i] = q[i + 1]
        /\ DOMAIN q = 1..Len(q) /\ DOMAIN Tail(q) = 1..(Len(q) - 1)
    BY HeadTailProperties
  <1>2. ASSUME NEW i \in DOMAIN Tail(q)
        PROVE  i \in Int /\ i + 1 \in DOMAIN q /\ i + 1 > 1 /\ Tail(q)[i] = q[i + 1]
    BY <1>1
  <1>3. 1 \in DOMAIN q /\ None \notin Components
    BY <1>1, WalletAssumption
  <1>4. ASSUME NEW i \in DOMAIN Tail(q), NEW j \in DOMAIN Tail(q), Tail(q)[i].op = "detect",
               Tail(q)[i].by # None, Tail(q)[j].by = Tail(q)[i].by
        PROVE  i <= j
    <2>1. i + 1 <= j + 1
      BY <1>2, <1>4 DEF DetectsFirst
    <2>2. QED
      BY <1>2, <2>1
  <1>5. DetectsFirst(Tail(q))
    BY <1>4 DEF DetectsFirst
  <1>6. ByMounted(Tail(q), m)
    BY <1>2 DEF ByMounted
  <1>7. ASSUME NEW c, Holds(Tail(q), "detect", c)
        PROVE  \E i \in DOMAIN q : i > 1 /\ q[i] = Call("detect", c)
    BY <1>2, <1>7 DEF Holds
  <1>8. ASSUME NEW c, NEW i \in DOMAIN q, q[i] = Call("detect", c), i # 1
        PROVE  Holds(Tail(q), "detect", c)
    <2>1. i - 1 \in DOMAIN Tail(q) /\ Tail(q)[i - 1] = q[i]
      BY <1>1, <1>8
    <2>2. QED
      BY <1>8, <2>1 DEF Holds
  <1>9. ASSUME NEW c \in Components, Head(q).by = c, NEW i \in DOMAIN q, q[i] = Call("detect", c)
        PROVE  i = 1
    <2>1. q[i].op = "detect" /\ q[i].by = c /\ q[1].by = c /\ c # None
      BY <1>1, <1>3, <1>9 DEF Call
    <2>2. i <= 1
      BY <1>3, <2>1 DEF DetectsFirst
    <2>3. QED
      BY <1>1, <2>2
  <1>10. ASSUME NEW c, Head(q).by # c
         PROVE  Holds(Tail(q), "detect", c) <=> Holds(q, "detect", c)
    <2>1. q[1] # Call("detect", c)
      BY <1>1, <1>10 DEF Call
    <2>2. QED
      BY <1>7, <1>8, <2>1 DEF Holds
  <1>11. ASSUME NEW c \in Components, Head(q).by = c
         PROVE  /\ ~Holds(Tail(q), "detect", c)
                /\ Holds(q, "detect", c) <=> Head(q).op = "detect"
    <2>1. ~Holds(Tail(q), "detect", c)
      BY <1>7, <1>9, <1>11
    <2>2. q[1] \in Calls
      BY <1>3
    <2>3. Head(q).op = "detect" => q[1] = Call("detect", c)
      BY <1>1, <1>11, <2>2 DEF Calls, Call
    <2>4. Holds(q, "detect", c) => Head(q).op = "detect"
      BY <1>1, <1>9, <1>11 DEF Holds, Call
    <2>5. QED
      BY <1>3, <2>1, <2>3, <2>4 DEF Holds
  <1>12. QED
    BY <1>5, <1>6, <1>10, <1>11

LEMMA ConnectionInit == Init => ConnectionInv
  <1> SUFFICES ASSUME Init  PROVE ConnectionInv
    OBVIOUS
  <1>1. DOMAIN timers = {} /\ DOMAIN mounted = {}
    BY DEF Init
  <1>2. QED
    BY <1>1 DEF ConnectionInv, ByMounted, DetectsFirst, IsMounted

\* A call by a mounted component changes no connection.
LEMMA AskConnection ==
  ASSUME WalletInv, ConnectionInv, NEW c \in Components, Connect(c) \/ Disconnect(c) \/ Refresh(c)
  PROVE  ConnectionInv'
  <1>1. PICK op \in {"connect", "disconnect", "refresh"} :
           /\ timers' = Append(timers, Call(op, c))
           /\ UNCHANGED <<session, mounted, foreign>>
           /\ \/ ui' = [ui EXCEPT ![c].isConnecting = TRUE, ![c].connectError = FALSE]
              \/ ui' = [ui EXCEPT ![c].connectError = FALSE]
              \/ ui' = [ui EXCEPT ![c] = Loading(@)]
    BY DEF Connect, Disconnect, Refresh
  <1>2. IsMounted(c) /\ timers \in Seq(Calls) /\ ui \in [Components -> UiState]
    BY DEF Connect, Disconnect, Refresh, WalletInv, TypeOK, Calls
  <1> DEFINE more == <<Call(op, c)>>
  <1>3. /\ more \in Seq(Calls) /\ DOMAIN more = {1} /\ more[1] = Call(op, c)
        /\ Call(op, c).op # "detect" /\ Call(op, c).by = c
    BY DEF Call, Calls, Operations
  <1>4. timers' = timers \o more
    BY <1>1, <1>2, AppendIsConcat DEF Call, Calls, Operations
  <1> HIDE DEF more
  <1>5. ByMounted(more, mounted)
    BY <1>2, <1>3 DEF ByMounted, IsMounted
  <1>6. ByMounted(timers', mounted')
    BY <1>1, <1>2, <1>3, <1>4, <1>5, JoinByMounted DEF ConnectionInv
  <1>7. DetectsFirst(timers') /\ \A d : Waiting("detect", d)' <=> Waiting("detect", d)
    BY <1>2, <1>3, <1>4, OthersJoin, WaitingHolds DEF ConnectionInv
  <1>8. \A d \in Components : ui'[d].connection = ui[d].connection
    <2>1. ui[c] \in UiState /\ \A d \in Components : d # c => ui'[d] = ui[d]
      BY <1>1, <1>2
    <2>2. \/ ui'[c] = [ui[c] EXCEPT !.isConnecting = TRUE, !.connectError = FALSE]
          \/ ui'[c] = [ui[c] EXCEPT !.connectError = FALSE]
          \/ ui'[c] = Loading(ui[c])
      BY <1>1, <1>2
    <2>3. ui'[c].connection = ui[c].connection
      BY <2>1, <2>2 DEF UiState, Loading
    <2>4. QED
      BY <2>1, <2>3
  <1>9. \A d : IsMounted(d)' <=> IsMounted(d)
    BY <1>1 DEF IsMounted
  <1>10. QED
    BY <1>1, <1>6, <1>7, <1>8, <1>9 DEF ConnectionInv

LEMMA MountConnection ==
  ASSUME WalletInv, ConnectionInv, NEW c \in Components, Mount(c)
  PROVE  ConnectionInv'
  <1> DEFINE more == <<Call("detect", c), Call("refresh", c)>>
  <1>1. /\ timers \in Seq(Calls) /\ ui \in [Components -> UiState]
        /\ foreign \in [Components -> BOOLEAN] /\ None \notin Components
    BY WalletAssumption DEF WalletInv, TypeOK, Calls
  <1>2. /\ more \in Seq(Calls) /\ Len(more) = 2 /\ DOMAIN more = {1, 2}
        /\ more[1] = Call("detect", c) /\ more[2] = Call("refresh", c)
    BY DEF Call, Calls, Operations
  <1>3. timers' = timers \o more /\ ~IsMounted(c)
    BY DEF Mount
  <1> HIDE DEF more
  <1>4. \A d : IsMounted(d)' <=> IsMounted(d) \/ d = c
    BY MountedGrows DEF Mount, IsMounted, WalletInv
  <1>5. \A i \in DOMAIN timers : timers[i].by # c
    BY <1>1, <1>3 DEF ConnectionInv, ByMounted, IsMounted
  <1>6. ByMounted(timers', mounted')
    <2>1. ByMounted(timers, mounted')
      BY <1>4 DEF ConnectionInv, ByMounted, IsMounted
    <2>2. ByMounted(more, mounted')
      BY <1>2, <1>4 DEF ByMounted, IsMounted, Call
    <2>3. QED
      BY <1>1, <1>2, <1>3, <2>1, <2>2, JoinByMounted
  <1>7. /\ timers' \in Seq(Calls) /\ Len(timers') = Len(timers) + 2 /\ Len(timers) \in Nat
        /\ \A i \in 1..Len(timers) : timers'[i] = timers[i]
        /\ timers'[Len(timers) + 1] = Call("detect", c)
        /\ timers'[Len(timers) + 2] = Call("refresh", c)
    <2>1. /\ timers \o more \in Seq(Calls) /\ Len(timers \o more) = Len(timers) + Len(more)
          /\ \A i \in 1..Len(timers) : (timers \o more)[i] = timers[i]
          /\ \A i \in 1..Len(more) : (timers \o more)[Len(timers) + i] = more[i]
      <3>1. Len(timers) \in Nat /\ Len(more) \in Nat
        BY <1>1, <1>2
      <3>2. /\ timers \o more \in Seq(Calls)
            /\ Len(timers \o more) = Len(timers) + Len(more)
            /\ \A i \in 1..(Len(timers) + Len(more)) : (timers \o more)[i] =
                 IF i <= Len(timers) THEN timers[i] ELSE more[i - Len(timers)]
        <4>1. timers \in Seq(Calls) /\ more \in Seq(Calls)
          BY <1>1, <1>2
        <4>2. QED
          BY <4>1, ConcatProperties, Zenon
      <3>3. \A i \in 1..Len(timers) : i \in 1..(Len(timers) + Len(more)) /\ i <= Len(timers)
        BY <3>1
      <3>4. \A i \in 1..Len(more) :
              /\ Len(timers) + i \in 1..(Len(timers) + Len(more))
              /\ ~(Len(timers) + i <= Len(timers))
              /\ (Len(timers) + i) - Len(timers) = i
        BY <3>1
      <3>5. QED
        BY <3>2, <3>3, <3>4
    <2>2. Len(timers) \in Nat
      BY <1>1
    <2>3. QED
      BY <1>2, <1>3, <2>1, <2>2
  <1>8. \A i \in 1..Len(timers') : i > Len(timers) => i = Len(timers) + 1 \/ i = Len(timers) + 2
    BY <1>7
  <1>9. ASSUME NEW i \in 1..Len(timers'), i > Len(timers), timers'[i].op = "detect",
               NEW j \in 1..Len(timers'), timers'[j].by = timers'[i].by
        PROVE  i <= j
    <2>1. i = Len(timers) + 1 /\ timers'[i].by = c
      BY <1>7, <1>8, <1>9 DEF Call
    <2>2. ~(j <= Len(timers))
      <3>1. j \in 1..Len(timers) => timers'[j] = timers[j] /\ j \in DOMAIN timers
        BY <1>1, <1>7
      <3>2. QED
        BY <1>5, <1>7, <1>9, <2>1, <3>1
    <2>3. QED
      BY <1>7, <2>1, <2>2
  <1>10. /\ DetectsFirst(timers')
         /\ \A d : Waiting("detect", d)' <=> Waiting("detect", d) \/ d = c
    <2>1. /\ DetectsFirst(timers')
          /\ \A d : Holds(timers', "detect", d) <=>
               \/ Holds(timers, "detect", d)
               \/ \E i \in 1..Len(timers') : i > Len(timers) /\ timers'[i] = Call("detect", d)
      <3>1. DetectsFirst(timers) /\ Len(timers) <= Len(timers')
        BY <1>7 DEF ConnectionInv
      <3>2. \A i \in 1..Len(timers') : i > Len(timers) /\ timers'[i].op = "detect" =>
              \A j \in 1..Len(timers') : timers'[j].by = timers'[i].by => i <= j
        BY <1>9
      <3>3. QED
        BY <1>1, <1>7, <3>1, <3>2, GrownQueue
    <2>2. \A d : (\E i \in 1..Len(timers') : i > Len(timers) /\ timers'[i] = Call("detect", d))
                   <=> d = c
      BY <1>7, <1>8 DEF Call
    <2>3. QED
      BY <2>1, <2>2, WaitingHolds
  <1>11. /\ \A d \in Components \ {c} : ui'[d] = ui[d] /\ foreign'[d] = foreign[d]
         /\ ui'[c] = Fresh /\ Fresh.connection = None
         /\ session' = session
    BY <1>1 DEF Mount, Fresh
  <1>12. QED
    BY <1>4, <1>6, <1>10, <1>11 DEF ConnectionInv

LEMMA UnmountConnection ==
  ASSUME WalletInv, ConnectionInv, NEW c \in Components, Unmount(c)
  PROVE  ConnectionInv'
  <1>1. PICK i \in DOMAIN mounted :
           /\ mounted[i] = c
           /\ mounted' = SubSeq(mounted, 1, i - 1) \o SubSeq(mounted, i + 1, Len(mounted))
    BY DEF Unmount
  <1>2. /\ timers \in Seq(Calls) /\ mounted \in Seq(Components) /\ None \notin Components
        /\ timers' = [j \in DOMAIN timers |-> Orphaned(c, timers[j])]
        /\ UNCHANGED <<session, ui, foreign>>
    BY WalletAssumption DEF WalletInv, TypeOK, Calls, Unmount
  <1>3. \A d \in Components : IsMounted(d)' <=> IsMounted(d) /\ d # c
    <2> DEFINE m == SubSeq(mounted, 1, i - 1) \o SubSeq(mounted, i + 1, Len(mounted))
    <2>1. \A d : (\E j \in DOMAIN m : m[j] = d) <=> IsMounted(d) /\ d # mounted[i]
      BY MountedShrinks DEF WalletInv
    <2> HIDE DEF m
    <2>2. mounted' = m
      BY <1>1 DEF m
    <2>3. QED
      BY <1>1, <2>1, <2>2 DEF IsMounted
  <1>4. \A j \in DOMAIN timers :
          \/ timers[j].by = c /\ timers'[j].by = None
          \/ timers[j].by # c /\ timers'[j] = timers[j]
    <2>1. \A j \in DOMAIN timers : timers[j] \in Calls
      BY <1>2
    <2>2. QED
      BY <1>2, <2>1 DEF Orphaned, Calls
  <1>5. DOMAIN timers' = DOMAIN timers
    BY <1>2
  <1>6. ByMounted(timers', mounted')
    <2>1. ASSUME NEW j \in DOMAIN timers', timers'[j].by # None
          PROVE  \E k \in DOMAIN mounted' : mounted'[k] = timers'[j].by
      <3>1. timers[j].by # c /\ timers'[j] = timers[j] /\ timers[j] \in Calls
        BY <1>2, <1>4, <1>5, <2>1
      <3>2. IsMounted(timers[j].by) /\ timers[j].by \in Components
        BY <1>5, <2>1, <3>1 DEF ConnectionInv, ByMounted, IsMounted, Calls
      <3>3. QED
        BY <1>3, <3>1, <3>2 DEF IsMounted
    <2>2. QED
      BY <2>1 DEF ByMounted
  <1>7. DetectsFirst(timers')
    BY <1>4, <1>5 DEF ConnectionInv, DetectsFirst
  <1>8. \A d \in Components : d # c => (Waiting("detect", d)' <=> Waiting("detect", d))
    BY <1>2, <1>4, <1>5 DEF Waiting, Call
  <1>9. QED
    BY <1>2, <1>3, <1>6, <1>7, <1>8 DEF ConnectionInv

\* The oldest call is answered.
LEMMA FireConnection ==
  ASSUME WalletInv, ConnectionInv, Fire
  PROVE  ConnectionInv'
  <1> DEFINE rest == Tail(timers)
             more == [i \in DOMAIN mounted |-> Call("refresh", mounted[i])]
  <1>1. /\ timers \in Seq(Calls) /\ timers # << >> /\ ui \in [Components -> UiState]
        /\ session \in Sessions /\ foreign \in [Components -> BOOLEAN]
        /\ UNCHANGED mounted /\ adapter \in {"mock", "stub"} /\ None \notin Components
        /\ (adapter = "stub" => session = None)
    BY WalletAssumption DEF Fire, ConnectFires, ConnectRejected, DisconnectFires, RefreshFires,
       DetectFires, Due, WalletInv, TypeOK, Calls
  <1>2. /\ rest \in Seq(Calls) /\ DetectsFirst(rest) /\ ByMounted(rest, mounted)
        /\ \A c \in Components : Caller # c => (Holds(rest, "detect", c) <=> Waiting("detect", c))
        /\ \A c \in Components : Caller = c => ~Holds(rest, "detect", c)
        /\ \A c \in Components : Caller = c => (Waiting("detect", c) <=> Head(timers).op = "detect")
    BY <1>1, OldestAnswered, TailKeeps, WaitingHolds DEF ConnectionInv, Caller
  <1>3. /\ more \in Seq(Calls) /\ ByMounted(more, mounted)
        /\ \A i \in DOMAIN more : more[i].op # "detect"
    BY EventsReachMounted DEF WalletInv, ByMounted, Call
  <1>4. /\ DetectsFirst(timers') /\ ByMounted(timers', mounted')
        /\ \A c : Waiting("detect", c)' <=> Holds(rest, "detect", c)
    <2> HIDE DEF rest, more
    <2>1. CASE timers' = rest
      BY <1>1, <1>2, <2>1, WaitingHolds
    <2>2. CASE timers' = rest \o more
      BY <1>1, <1>2, <1>3, <2>2, OthersJoin, JoinByMounted, WaitingHolds
    <2>3. timers' = rest \/ timers' = rest \o more
      BY DEF Fire, ConnectFires, ConnectRejected, DisconnectFires, RefreshFires, DetectFires,
         rest, more
    <2>4. QED
      BY <2>1, <2>2, <2>3
  <1>5. ASSUME NEW c \in Components, IsMounted(c), ~foreign'[c]
        PROVE  ui'[c].connection = IF Holds(rest, "detect", c) THEN None ELSE session'
    <2> HIDE DEF rest, more
    <2>1. ~foreign[c] /\ ui[c] \in UiState
      BY <1>1, <1>5 DEF Fire, ConnectFires, ConnectRejected, DisconnectFires, RefreshFires,
         DetectFires, NoteForeign
    <2>2. ui[c].connection = IF Waiting("detect", c) THEN None ELSE session
      BY <1>5, <2>1 DEF ConnectionInv
    <2>3. CASE ConnectFires
      <3>1. c = Caller /\ Head(timers).op = "connect"
        BY <1>1, <1>5, <2>3 DEF ConnectFires, NoteForeign, Due
      <3>2. ui'[c] = [Loading(ui[c]) EXCEPT !.connection = Session, !.isConnecting = FALSE]
        BY <1>5, <2>3, <3>1 DEF ConnectFires, AfterConnect
      <3>3. ui'[c].connection = Session /\ session' = Session
        BY <2>1, <2>3, <3>2 DEF UiState, Loading, ConnectFires
      <3>4. QED
        BY <1>2, <3>1, <3>3
    <2>4. CASE DisconnectFires
      <3>1. c = Caller /\ Head(timers).op = "disconnect"
        BY <1>1, <1>5, <2>4 DEF DisconnectFires, NoteForeign, Due
      <3>2. ui'[c] = [Forget(ui[c]) EXCEPT !.connection = None]
        BY <1>5, <2>4, <3>1 DEF DisconnectFires, AfterDisconnect
      <3>3. ui'[c].connection = None /\ session' = None
        BY <2>1, <2>4, <3>2 DEF UiState, Forget, DisconnectFires
      <3>4. QED
        BY <3>3
    <2>5. CASE ConnectRejected \/ RefreshFires
      <3>1. Head(timers).op # "detect" /\ session' = session
        BY <2>5 DEF ConnectRejected, RefreshFires, Due
      <3>2. ui'[c].connection = ui[c].connection
        <4>1. \/ ui'[c] = ui[c]
              \/ ui'[c] = [ui[c] EXCEPT !.connectError = TRUE, !.isConnecting = FALSE]
              \/ ui'[c] = Loaded(ui[c])
          BY <2>5 DEF ConnectRejected, RefreshFires
        <4>2. QED
          BY <2>1, <4>1 DEF UiState, Loaded
      <3>3. QED
        BY <1>2, <2>2, <3>1, <3>2
    <2>6. CASE DetectFires
      <3>1. /\ Head(timers).op = "detect" /\ session' = session
            /\ ui'[c] = IF c = Caller THEN Detected(ui[c]) ELSE ui[c]
        BY <2>6 DEF DetectFires, Due
      <3>2. CASE c = Caller
        <4>1. ui[c].connection = None
          BY <1>2, <2>2, <3>1, <3>2
        <4>2. Detected(ui[c]).connection = session
          BY <1>1, <2>1, <4>1 DEF Detected, UiState
        <4>3. QED
          BY <1>2, <3>1, <3>2, <4>2
      <3>3. CASE c # Caller
        BY <1>2, <2>2, <3>1, <3>3
      <3>4. QED
        BY <3>2, <3>3
    <2>7. QED
      BY <2>3, <2>4, <2>5, <2>6 DEF Fire
  <1>6. \A c : IsMounted(c)' <=> IsMounted(c)
    BY <1>1 DEF IsMounted
  <1>7. QED
    BY <1>4, <1>5, <1>6 DEF ConnectionInv

LEMMA ConnectionStep == WalletInv /\ ConnectionInv /\ [Next]_vars => ConnectionInv'
  <1> SUFFICES ASSUME WalletInv, ConnectionInv, [Next]_vars  PROVE ConnectionInv'
    OBVIOUS
  <1>1. CASE UNCHANGED vars
    BY <1>1 DEF vars, ConnectionInv, IsMounted, Waiting
  <1>2. CASE Fire
    BY <1>2, FireConnection
  <1>3. ASSUME NEW c \in Components, User(c)
        PROVE  ConnectionInv'
    BY <1>3, AskConnection, MountConnection, UnmountConnection DEF User
  <1>4. QED
    BY <1>1, <1>2, <1>3 DEF Next

\* With nothing under way, a component that connected and disconnected alone has
\* the adapter's session for its connection, whatever its earlier lives left in
\* the queue.
THEOREM LoneConnectionAgrees == Spec => []ConnectionAgreesAlone
  <1>1. ConnectionInv => ConnectionAgreesAlone
    <2> SUFFICES ASSUME ConnectionInv, timers = << >>,
                        NEW c \in Components, IsMounted(c), ~foreign[c]
                 PROVE  ui[c].connection = session
      BY DEF ConnectionAgreesAlone
    <2>1. ~Waiting("detect", c)
      BY DEF Waiting
    <2>2. QED
      BY <2>1 DEF ConnectionInv
  <1>2. QED
    BY <1>1, ConnectionInit, ConnectionStep, WalletInductive, PTL DEF Spec

=============================================================================
