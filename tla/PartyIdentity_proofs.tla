-------------------------- MODULE PartyIdentity_proofs --------------------------
(***************************************************************************)
(* Proofs about PartyIdentity, for every number of slots, users, parties,  *)
(* metadata keys and wallets, with or without failures.                    *)
(***************************************************************************)
EXTENDS PartyIdentity, WellFoundedInduction, TLAPS

-------------------------------------------------------------------------------
(***************************************************************************)
(* Lists.                                                                  *)
(***************************************************************************)

\* A list that grows at its end keeps what it lists and what is in front.
LEMMA AppendKeeps ==
  ASSUME NEW list \in Seq(PartyIds), NEW p \in PartyIds
  PROVE  /\ Append(list, p) \in Seq(PartyIds)
         /\ Listed(p, Append(list, p))
         /\ \A q : Listed(q, list) => Listed(q, Append(list, p))
         /\ list # <<>> => Head(Append(list, p)) = Head(list)
         /\ Append(list, p) # <<>>
  <1>1. /\ Append(list, p) \in Seq(PartyIds)
        /\ Len(Append(list, p)) = Len(list) + 1
        /\ Append(list, p)[Len(list) + 1] = p
        /\ \A i \in 1..Len(list) : Append(list, p)[i] = list[i]
        /\ DOMAIN list = 1..Len(list)
        /\ DOMAIN Append(list, p) = 1..(Len(list) + 1)
        /\ Len(list) \in Nat
    OBVIOUS
  <1>2. Listed(p, Append(list, p))
    <2>1. Len(list) + 1 \in DOMAIN Append(list, p)
      BY <1>1
    <2>2. QED
      BY <1>1, <2>1 DEF Listed
  <1>3. ASSUME NEW q, Listed(q, list)
        PROVE  Listed(q, Append(list, p))
    <2>1. PICK i \in DOMAIN list : list[i] = q
      BY <1>3 DEF Listed
    <2>2. i \in DOMAIN Append(list, p) /\ Append(list, p)[i] = q
      BY <1>1, <2>1
    <2>3. QED
      BY <2>2 DEF Listed
  <1>4. list # <<>> => Head(Append(list, p)) = Head(list)
    OBVIOUS
  <1>5. Append(list, p) # <<>>
    BY <1>1
  <1>6. QED
    BY <1>1, <1>2, <1>3, <1>4, <1>5

\* How the lists of users change in any step that links a party.
Extended(lists, new) ==
  /\ new \in [UserIds -> Seq(PartyIds)]
  /\ \A u \in UserIds :
       /\ \A q : Listed(q, lists[u]) => Listed(q, new[u])
       /\ lists[u] # <<>> => new[u] # <<>> /\ Head(new[u]) = Head(lists[u])

LEMMA CreatePartyExtends ==
  ASSUME TypeOK, NEW p \in PartyIds, NEW party \in CantonParty, CreateParty(p, party)
  PROVE  /\ Extended(partiesByUser, partiesByUser')
         /\ Listed(p, partiesByUser'[party.userId])
  <1> DEFINE u == party.userId
             list == partiesByUser[u]
  <1>1. u \in UserIds /\ list \in Seq(PartyIds) /\ partiesByUser \in [UserIds -> Seq(PartyIds)]
    BY DEF TypeOK, CantonParty
  <1>2. CASE Listed(p, list)
    BY <1>1, <1>2 DEF CreateParty, Extended
  <1>3. CASE ~Listed(p, list)
    <2>1. partiesByUser' = [partiesByUser EXCEPT ![u] = Append(list, p)]
      BY <1>3 DEF CreateParty
    <2>2. partiesByUser' \in [UserIds -> Seq(PartyIds)] /\ partiesByUser'[u] = Append(list, p)
      BY <1>1, <2>1, AppendKeeps
    <2>3. Listed(p, partiesByUser'[u])
      BY <1>1, <2>2, AppendKeeps
    <2>4. ASSUME NEW v \in UserIds
          PROVE  /\ \A q : Listed(q, partiesByUser[v]) => Listed(q, partiesByUser'[v])
                 /\ partiesByUser[v] # <<>> =>
                      partiesByUser'[v] # <<>> /\ Head(partiesByUser'[v]) = Head(partiesByUser[v])
      <3>1. CASE v = u
        BY <1>1, <2>2, <3>1, AppendKeeps
      <3>2. CASE v # u
        <4>1. partiesByUser'[v] = partiesByUser[v]
          BY <1>1, <2>1, <3>2
        <4>2. QED
          BY <4>1
      <3>3. QED
        BY <3>1, <3>2
    <2>5. QED
      BY <2>2, <2>3, <2>4 DEF Extended
  <1>4. QED
    BY <1>2, <1>3

-------------------------------------------------------------------------------
(***************************************************************************)
(* Calls.                                                                  *)
(***************************************************************************)

LEMMA NoCallType == NoCall \in Call
  BY DEF NoCall, Call, ResumePoint

\* What a step must show of the calls: the one it moves agrees with the lists and
\* the history, and those only grow.
LEMMA CallsKeep ==
  ASSUME PartyInv, NEW s \in Slots, NEW call \in Call,
         Await(s, call), CallAgrees(call, partiesByUser)',
         Extended(partiesByUser, partiesByUser'), linked \subseteq linked'
  PROVE  /\ calls' \in [Slots -> Call]
         /\ \A t \in Slots : CallAgrees(calls[t], partiesByUser)'
  <1>1. calls \in [Slots -> Call] /\ calls' = [calls EXCEPT ![s] = call]
    BY DEF PartyInv, TypeOK, Await
  <1>2. ASSUME NEW t \in Slots
        PROVE  CallAgrees(calls[t], partiesByUser)'
    <2>1. CASE t = s
      <3>1. calls'[t] = call
        BY <1>1, <2>1
      <3>2. QED
        BY <3>1 DEF CallAgrees
    <2>2. CASE t # s
      <3>1. calls'[t] = calls[t] /\ calls[t] \in Call
        BY <1>1, <2>2
      <3>2. CallAgrees(calls[t], partiesByUser)
        BY DEF PartyInv
      <3>3. calls[t].copy # None => calls[t].copy.userId \in UserIds
        BY <3>1 DEF Call, CantonParty
      <3>4. QED
        BY <3>1, <3>2, <3>3 DEF CallAgrees, Extended
    <2>3. QED
      BY <2>1, <2>2
  <1>3. QED
    BY <1>1, <1>2

\* A call that returns leaves nothing to agree with.
LEMMA ReturnKeeps ==
  ASSUME PartyInv, NEW s \in Slots, Return(s),
         Extended(partiesByUser, partiesByUser'), linked \subseteq linked'
  PROVE  /\ calls' \in [Slots -> Call]
         /\ \A t \in Slots : CallAgrees(calls[t], partiesByUser)'
  <1>1. CallAgrees(NoCall, partiesByUser)'
    BY DEF CallAgrees, NoCall
  <1>2. QED
    BY <1>1, NoCallType, CallsKeep DEF Return

LEMMA Unchanged ==
  ASSUME PartyInv, UNCHANGED partiesByUser
  PROVE  Extended(partiesByUser, partiesByUser')
  BY DEF PartyInv, TypeOK, Extended

-------------------------------------------------------------------------------
(***************************************************************************)
(* The invariant.                                                          *)
(***************************************************************************)

LEMMA InitInv == Init => PartyInv
  <1> SUFFICES ASSUME Init PROVE PartyInv
    OBVIOUS
  <1>1. TypeOK
    BY NoCallType DEF Init, TypeOK
  <1>2. IndexCoversParties /\ ListedPartiesResolve /\ WalletIndexResolves
    BY DEF Init, IndexCoversParties, ListedPartiesResolve, WalletIndexResolves
  <1>3. \A s \in Slots : CallAgrees(calls[s], partiesByUser)
    BY DEF Init, CallAgrees, NoCall
  <1>4. QED
    BY <1>1, <1>2, <1>3 DEF PartyInv

\* A step that touches neither the parties nor the wallets nor the history.
LEMMA StoreUntouched ==
  ASSUME PartyInv, UNCHANGED <<partyStore, walletStore, linked>>,
         users' \in Seq(AppUser), calls' \in [Slots -> Call],
         \A t \in Slots : CallAgrees(calls[t], partiesByUser)'
  PROVE  PartyInv'
  <1>1. TypeOK'
    BY DEF PartyInv, TypeOK, partyStore, walletStore
  <1>2. IndexCoversParties' /\ ListedPartiesResolve' /\ WalletIndexResolves'
    BY DEF PartyInv, IndexCoversParties, ListedPartiesResolve, WalletIndexResolves,
           partyStore, walletStore
  <1>3. QED
    BY <1>1, <1>2 DEF PartyInv

LEMMA BeginInv ==
  ASSUME PartyInv, NEW s \in Slots, Begin(s)
  PROVE  PartyInv'
  <1>0. TypeOK /\ users \in Seq(AppUser)
    BY DEF PartyInv, TypeOK
  <1>1. ASSUME NEW u \in UserIds, NEW x \in ExternalIds \cup {None}, CreateUser(s, u, x)
        PROVE  PartyInv'
    <2>1. [id |-> u, externalId |-> x] \in AppUser
      BY DEF AppUser
    <2>2. users' \in Seq(AppUser)
      BY <1>0, <1>1, <2>1 DEF CreateUser, CreateUserRecord
    <2>3. calls' \in [Slots -> Call] /\ \A t \in Slots : CallAgrees(calls[t], partiesByUser)'
      BY <1>1 DEF CreateUser, PartyInv, TypeOK, CallAgrees, partyStore
    <2>4. QED
      BY <1>1, <2>2, <2>3, StoreUntouched DEF CreateUser
  <1>2. ASSUME NEW call \in Call, Await(s, call), CallAgrees(call, partiesByUser),
               UNCHANGED <<users, partyStore, walletStore, linked>>
        PROVE  PartyInv'
    <2>1. Extended(partiesByUser, partiesByUser') /\ linked \subseteq linked'
      BY <1>2, Unchanged DEF partyStore
    <2>2. CallAgrees(call, partiesByUser)'
      BY <1>2 DEF CallAgrees, partyStore
    <2>3. calls' \in [Slots -> Call] /\ \A t \in Slots : CallAgrees(calls[t], partiesByUser)'
      BY <1>2, <2>1, <2>2, CallsKeep
    <2>4. QED
      BY <1>0, <1>2, <2>3, StoreUntouched
  <1>3. \A p \in PartyIds : parties[p] # None =>
          /\ parties[p] \in CantonParty
          /\ Listed(p, partiesByUser[parties[p].userId])
          /\ <<parties[p].userId, p>> \in linked
    <2> SUFFICES ASSUME NEW p \in PartyIds, parties[p] # None
                 PROVE  /\ parties[p] \in CantonParty
                        /\ Listed(p, partiesByUser[parties[p].userId])
                        /\ <<parties[p].userId, p>> \in linked
      OBVIOUS
    <2>1. parties[p] \in CantonParty /\ parties[p].userId \in UserIds
      BY <1>0 DEF TypeOK, CantonParty
    <2>2. Listed(p, partiesByUser[parties[p].userId])
      BY DEF PartyInv, IndexCoversParties
    <2>3. PICK i \in DOMAIN partiesByUser[parties[p].userId] :
            partiesByUser[parties[p].userId][i] = p
      BY <2>2 DEF Listed
    <2>4. <<parties[p].userId, p>> \in linked
      BY <2>1, <2>3 DEF PartyInv, ListedPartiesResolve
    <2>5. QED
      BY <2>1, <2>2, <2>4
  <1>4. ASSUME NEW x \in ExternalIds, LoginRead(s, x)
        PROVE  PartyInv'
    <2> DEFINE call == [NoCall EXCEPT !.at = "login-create", !.externalId = x,
                                      !.found = GetUserByExternalId(x) # None]
    <2>1. call \in Call /\ CallAgrees(call, partiesByUser)
      BY DEF NoCall, Call, ResumePoint, CallAgrees
    <2>2. QED
      BY <1>2, <1>4, <2>1 DEF LoginRead
  <1>5. ASSUME NEW u \in UserIds, NEW p \in PartyIds, AllocateRead(s, u, p)
        PROVE  PartyInv'
    <2> DEFINE call == [NoCall EXCEPT !.at = "allocate-create", !.userId = u,
                                      !.partyId = p, !.copy = parties[p]]
    <2>1. call \in Call /\ CallAgrees(call, partiesByUser)
      BY <1>0, <1>3 DEF NoCall, Call, ResumePoint, CallAgrees, TypeOK
    <2>2. QED
      BY <1>2, <1>5, <2>1 DEF AllocateRead
  <1>6. ASSUME NEW u \in UserIds, NEW p \in PartyIds, WalletRead(s, u, p)
        PROVE  PartyInv'
    <2> DEFINE call == [NoCall EXCEPT !.at = "wallet-create", !.userId = u, !.partyId = p,
                                      !.found = walletByUserParty[<<u, p>>] # None]
    <2>1. call \in Call /\ CallAgrees(call, partiesByUser)
      BY DEF NoCall, Call, ResumePoint, CallAgrees
    <2>2. QED
      BY <1>2, <1>6, <2>1 DEF WalletRead
  <1>7. ASSUME NEW p \in PartyIds, NEW k \in Keys, AttachRead(s, p, k)
        PROVE  PartyInv'
    <2> DEFINE call == [NoCall EXCEPT !.at = "attach-write", !.partyId = p,
                                      !.metadata = {k}, !.copy = parties[p]]
    <2>1. call \in Call /\ CallAgrees(call, partiesByUser)
      BY <1>0, <1>3 DEF NoCall, Call, ResumePoint, CallAgrees, TypeOK
    <2>2. QED
      BY <1>2, <1>7, <2>1 DEF AttachRead
  <1>8. QED
    BY <1>1, <1>4, <1>5, <1>6, <1>7 DEF Begin

\* A step that ends a call and leaves the parties, the wallets and the history.
LEMMA ReturnsInv ==
  ASSUME PartyInv, NEW s \in Slots, Return(s), users' \in Seq(AppUser),
         UNCHANGED <<partyStore, walletStore, linked>>
  PROVE  PartyInv'
  <1>1. Extended(partiesByUser, partiesByUser') /\ linked \subseteq linked'
    BY Unchanged DEF partyStore
  <1>2. calls' \in [Slots -> Call] /\ \A t \in Slots : CallAgrees(calls[t], partiesByUser)'
    BY <1>1, ReturnKeeps
  <1>3. QED
    BY <1>2, StoreUntouched

LEMMA AllocateExistingInv ==
  ASSUME PartyInv, NEW s \in Slots, AllocateExisting(s)
  PROVE  PartyInv'
  <1> DEFINE c == calls[s]
  <1>1. TypeOK /\ c \in Call /\ CallAgrees(c, partiesByUser) /\ c.at = "allocate-create"
    BY DEF PartyInv, TypeOK, AllocateExisting, At
  <1>2. linked \subseteq linked' /\ linked' \subseteq UserIds \X PartyIds
    BY <1>1 DEF AllocateExisting, CallAgrees, TypeOK
  <1>3. Extended(partiesByUser, partiesByUser')
    BY Unchanged DEF AllocateExisting, partyStore
  <1>4. calls' \in [Slots -> Call] /\ \A t \in Slots : CallAgrees(calls[t], partiesByUser)'
    BY <1>2, <1>3, ReturnKeeps DEF AllocateExisting
  <1>5. TypeOK'
    BY <1>1, <1>2, <1>4 DEF AllocateExisting, TypeOK, partyStore, walletStore
  <1>6. IndexCoversParties' /\ WalletIndexResolves'
    BY DEF PartyInv, AllocateExisting, IndexCoversParties, WalletIndexResolves,
           partyStore, walletStore
  <1>7. ListedPartiesResolve'
    BY <1>2 DEF PartyInv, AllocateExisting, ListedPartiesResolve, partyStore
  <1>8. QED
    BY <1>4, <1>5, <1>6, <1>7 DEF PartyInv

LEMMA AllocateCreateInv ==
  ASSUME PartyInv, NEW s \in Slots, AllocateCreate(s)
  PROVE  PartyInv' /\ Extended(partiesByUser, partiesByUser')
  <1> DEFINE c == calls[s]
             p == c.partyId
             u == c.userId
             party == [userId |-> u, metadata |-> {}]
             list == partiesByUser[u]
  <1>1. TypeOK /\ c \in Call /\ CallAgrees(c, partiesByUser) /\ c.at = "allocate-create"
    BY DEF PartyInv, TypeOK, AllocateCreate, At
  <1>2. p \in PartyIds /\ u \in UserIds /\ party \in CantonParty /\ party # None
    BY <1>1, NoneIsNoRecord DEF CallAgrees, CantonParty
  <1>3. CreateParty(p, party) /\ linked' = linked \cup {<<u, p>>}
    BY DEF AllocateCreate
  <1>4. Extended(partiesByUser, partiesByUser') /\ Listed(p, partiesByUser'[u])
    BY <1>1, <1>2, <1>3, CreatePartyExtends
  <1>5. calls' \in [Slots -> Call] /\ \A t \in Slots : CallAgrees(calls[t], partiesByUser)'
    BY <1>3, <1>4, ReturnKeeps DEF AllocateCreate
  <1>6. parties' = [parties EXCEPT ![p] = party]
    BY <1>3 DEF CreateParty
  <1>7. TypeOK'
    <2>1. parties' \in [PartyIds -> CantonParty \cup {None}]
      BY <1>1, <1>2, <1>6 DEF TypeOK
    <2>2. partiesByUser' \in [UserIds -> Seq(PartyIds)] /\ linked' \subseteq UserIds \X PartyIds
      BY <1>1, <1>2, <1>3, <1>4 DEF TypeOK, Extended
    <2>3. QED
      BY <1>1, <1>5, <2>1, <2>2 DEF AllocateCreate, TypeOK, walletStore
  <1>8. IndexCoversParties'
    <2> SUFFICES ASSUME NEW q \in PartyIds, parties'[q] # None
                 PROVE  Listed(q, partiesByUser'[parties'[q].userId])
      BY DEF IndexCoversParties
    <2>1. CASE q = p
      BY <1>1, <1>2, <1>4, <1>6, <2>1 DEF TypeOK
    <2>2. CASE q # p
      <3>1. parties'[q] = parties[q] /\ parties[q].userId \in UserIds
        BY <1>1, <1>6, <2>2 DEF TypeOK, CantonParty
      <3>2. Listed(q, partiesByUser[parties[q].userId])
        BY <3>1 DEF PartyInv, IndexCoversParties
      <3>3. QED
        BY <1>4, <3>1, <3>2 DEF Extended
    <2>3. QED
      BY <2>1, <2>2
  <1>9. ListedPartiesResolve'
    <2>1. \A q \in PartyIds : parties[q] # None => parties'[q] # None
      BY <1>1, <1>2, <1>6 DEF TypeOK
    <2>2. parties'[p] # None
      BY <1>1, <1>2, <1>6 DEF TypeOK
    <2> SUFFICES ASSUME NEW v \in UserIds,
                        NEW i \in DOMAIN partiesByUser'[v], NEW j \in DOMAIN partiesByUser'[v]
                 PROVE  /\ parties'[partiesByUser'[v][i]] # None
                        /\ <<v, partiesByUser'[v][i]>> \in linked'
                        /\ partiesByUser'[v][i] = partiesByUser'[v][j] => i = j
      BY DEF ListedPartiesResolve
    <2>3. partiesByUser[v] \in Seq(PartyIds) /\ list \in Seq(PartyIds)
      BY <1>1, <1>2 DEF TypeOK
    <2>4. \A m, n \in DOMAIN partiesByUser[v] :
            /\ partiesByUser[v][m] \in PartyIds
            /\ parties[partiesByUser[v][m]] # None
            /\ <<v, partiesByUser[v][m]>> \in linked
            /\ partiesByUser[v][m] = partiesByUser[v][n] => m = n
      <3>1. \A m \in DOMAIN partiesByUser[v] : partiesByUser[v][m] \in PartyIds
        BY <2>3
      <3>2. ListedPartiesResolve
        BY DEF PartyInv
      <3>3. QED
        BY <3>1, <3>2, Zenon DEF ListedPartiesResolve
    <2>5. CASE partiesByUser'[v] = partiesByUser[v]
      BY <1>3, <2>1, <2>4, <2>5
    <2>6. CASE partiesByUser'[v] # partiesByUser[v]
      <3>1. v = u /\ ~Listed(p, list) /\ partiesByUser'[v] = Append(list, p)
        BY <1>1, <1>2, <1>3, <2>6 DEF CreateParty, TypeOK
      <3>2. /\ DOMAIN list = 1..Len(list) /\ Len(list) \in Nat
            /\ DOMAIN partiesByUser'[v] = 1..(Len(list) + 1)
            /\ partiesByUser'[v][Len(list) + 1] = p
            /\ \A m \in 1..Len(list) : partiesByUser'[v][m] = list[m]
        BY <1>2, <2>3, <3>1
      <3>3. \A m \in 1..Len(list) : list[m] # p
        BY <3>1, <3>2 DEF Listed
      <3> DEFINE new(m) == partiesByUser'[v][m]
                 Fine(q) == parties'[q] # None /\ <<v, q>> \in linked'
      <3>4. \A m \in 1..Len(list) :
              new(m) = list[m] /\ Fine(new(m)) /\ new(m) # p
        <4>1. list = partiesByUser[v]
          BY <3>1
        <4>2. \A m \in 1..Len(list) :
                list[m] \in PartyIds /\ parties[list[m]] # None /\ <<v, list[m]>> \in linked
          BY <2>4, <3>2, <4>1, Zenon
        <4>3. QED
          BY <1>3, <2>1, <3>2, <3>3, <4>2, Zenon
      <3>5. new(Len(list) + 1) = p /\ Fine(p)
        BY <1>3, <2>2, <3>1, <3>2
      <3>6. \A m, n \in 1..Len(list) : list[m] = list[n] => m = n
        <4>1. list = partiesByUser[v]
          BY <3>1
        <4>2. QED
          BY <2>4, <3>2, <4>1, Zenon
      <3> HIDE DEF new, Fine
      <3>7. Fine(new(i)) /\ (new(i) = new(j) => i = j)
        <4>1. \A m \in {i, j} : m \in 1..Len(list) \/ m = Len(list) + 1
          BY <3>2
        <4>2. CASE i \in 1..Len(list) /\ j \in 1..Len(list)
          BY <3>4, <3>6, <4>2, Zenon
        <4>3. CASE i = Len(list) + 1
          BY <3>4, <3>5, <4>1, <4>3, Zenon
        <4>4. CASE j = Len(list) + 1
          BY <3>4, <3>5, <4>1, <4>4, Zenon
        <4>5. QED
          BY <4>1, <4>2, <4>3, <4>4, Zenon
      <3>8. QED
        BY <3>7 DEF new, Fine
    <2>7. QED
      BY <2>5, <2>6
  <1>10. WalletIndexResolves'
    BY DEF PartyInv, AllocateCreate, WalletIndexResolves, walletStore
  <1>11. QED
    BY <1>4, <1>5, <1>7, <1>8, <1>9, <1>10 DEF PartyInv

LEMMA AttachWriteInv ==
  ASSUME PartyInv, NEW s \in Slots, AttachWrite(s)
  PROVE  PartyInv'
  <1> DEFINE c == calls[s]
             p == c.partyId
             party == [c.copy EXCEPT !.metadata = @ \cup c.metadata]
  <1>1. /\ TypeOK /\ c \in Call /\ CallAgrees(c, partiesByUser)
        /\ c.at = "attach-write" /\ c.copy # None
    BY DEF PartyInv, TypeOK, AttachWrite, At
  <1>2. /\ p \in PartyIds /\ c.copy \in CantonParty /\ c.metadata \subseteq Keys
        /\ Listed(p, partiesByUser[c.copy.userId])
    BY <1>1 DEF CallAgrees, Call
  <1>3. party \in CantonParty /\ party # None /\ party.userId = c.copy.userId
    BY <1>2, NoneIsNoRecord DEF CantonParty
  <1>4. parties' = [parties EXCEPT ![p] = party] /\ UNCHANGED partiesByUser
    BY DEF AttachWrite, UpdateParty
  <1>5. calls' \in [Slots -> Call] /\ \A t \in Slots : CallAgrees(calls[t], partiesByUser)'
    BY <1>4, Unchanged, ReturnKeeps DEF AttachWrite
  <1>6. TypeOK'
    <2>1. parties' \in [PartyIds -> CantonParty \cup {None}]
      BY <1>1, <1>2, <1>3, <1>4 DEF TypeOK
    <2>2. QED
      BY <1>1, <1>4, <1>5, <2>1 DEF AttachWrite, TypeOK, walletStore
  <1>7. IndexCoversParties'
    BY <1>1, <1>2, <1>3, <1>4 DEF PartyInv, IndexCoversParties, TypeOK
  <1>8. ListedPartiesResolve'
    <2>1. \A q \in PartyIds : parties[q] # None => parties'[q] # None
      BY <1>1, <1>2, <1>3, <1>4 DEF TypeOK
    <2>2. \A v \in UserIds : \A i \in DOMAIN partiesByUser[v] : partiesByUser[v][i] \in PartyIds
      BY <1>1 DEF TypeOK
    <2>3. QED
      BY <1>4, <2>1, <2>2 DEF PartyInv, ListedPartiesResolve, AttachWrite
  <1>9. WalletIndexResolves'
    BY DEF PartyInv, AttachWrite, WalletIndexResolves, walletStore
  <1>10. QED
    BY <1>5, <1>6, <1>7, <1>8, <1>9 DEF PartyInv

LEMMA WalletCreateInv ==
  ASSUME PartyInv, NEW s \in Slots, NEW w \in WalletIds, WalletCreate(s, w)
  PROVE  PartyInv'
  <1> DEFINE c == calls[s]
             p == c.partyId
             u == c.userId
             wallet == [userId |-> u, partyId |-> p]
  <1>1. TypeOK /\ c \in Call /\ CallAgrees(c, partiesByUser) /\ c.at = "wallet-create"
    BY DEF PartyInv, TypeOK, WalletCreate, At
  <1>2. p \in PartyIds /\ u \in UserIds /\ wallet \in WalletIdentity /\ walletIdentities[w] = None
    BY <1>1 DEF CallAgrees, WalletIdentity, WalletCreate
  <1>3. /\ walletIdentities' = [walletIdentities EXCEPT ![w] = wallet]
        /\ walletByUser' = [walletByUser EXCEPT ![u] = @ \cup {w}]
        /\ walletByUserParty' = [walletByUserParty EXCEPT ![<<u, p>>] = w]
    BY DEF WalletCreate, CreateWalletIdentity
  <1>4. calls' \in [Slots -> Call] /\ \A t \in Slots : CallAgrees(calls[t], partiesByUser)'
    BY Unchanged, ReturnKeeps DEF WalletCreate, partyStore
  <1>5. TypeOK'
    <2>1. /\ walletIdentities' \in [WalletIds -> WalletIdentity \cup {None}]
          /\ walletByUser' \in [UserIds -> SUBSET WalletIds]
          /\ walletByUserParty' \in [UserIds \X PartyIds -> WalletIds \cup {None}]
      BY <1>1, <1>2, <1>3 DEF TypeOK
    <2>2. QED
      BY <1>1, <1>4, <2>1 DEF WalletCreate, TypeOK, partyStore
  <1>6. IndexCoversParties' /\ ListedPartiesResolve'
    BY DEF PartyInv, WalletCreate, IndexCoversParties, ListedPartiesResolve, partyStore
  <1>7. WalletIndexResolves'
    <2> SUFFICES ASSUME NEW v \in UserIds, NEW q \in PartyIds, walletByUserParty'[<<v, q>>] # None
                 PROVE  /\ walletIdentities'[walletByUserParty'[<<v, q>>]] = [userId |-> v, partyId |-> q]
                        /\ walletByUserParty'[<<v, q>>] \in walletByUser'[v]
      BY DEF WalletIndexResolves
    <2>1. CASE v = u /\ q = p
      BY <1>1, <1>2, <1>3, <2>1 DEF TypeOK
    <2>2. CASE ~(v = u /\ q = p)
      <3> DEFINE x == walletByUserParty[<<v, q>>]
      <3>1. walletByUserParty'[<<v, q>>] = x /\ x \in WalletIds
        BY <1>1, <1>2, <1>3, <2>2 DEF TypeOK
      <3>2. walletIdentities[x] = [userId |-> v, partyId |-> q] /\ x \in walletByUser[v]
        BY <3>1 DEF PartyInv, WalletIndexResolves
      <3>3. x # w
        <4>1. [userId |-> v, partyId |-> q] \in WalletIdentity
          BY DEF WalletIdentity
        <4>2. QED
          BY <1>2, <3>2, <4>1, NoneIsNoRecord
      <3>4. QED
        BY <1>1, <1>2, <1>3, <3>1, <3>2, <3>3 DEF TypeOK
    <2>3. QED
      BY <2>1, <2>2
  <1>8. QED
    BY <1>4, <1>5, <1>6, <1>7 DEF PartyInv

LEMMA StepInv == PartyInv /\ [Next]_vars => PartyInv'
  <1> SUFFICES ASSUME PartyInv, [Next]_vars PROVE PartyInv'
    OBVIOUS
  <1>0. users \in Seq(AppUser) /\ calls \in [Slots -> Call]
    BY DEF PartyInv, TypeOK
  <1>1. ASSUME NEW s \in Slots, Begin(s)
        PROVE  PartyInv'
    BY <1>1, BeginInv
  <1>2. ASSUME NEW s \in Slots,
               \/ LoginExisting(s) \/ AttachNotFound(s) \/ WalletExisting(s) \/ CallFails(s)
        PROVE  PartyInv'
    BY <1>0, <1>2, ReturnsInv
    DEF LoginExisting, AttachNotFound, WalletExisting, CallFails
  <1>3. ASSUME NEW s \in Slots, NEW u \in UserIds, LoginCreate(s, u)
        PROVE  PartyInv'
    <2>1. calls[s] \in Call /\ calls[s].at = "login-create" /\ CallAgrees(calls[s], partiesByUser)
      BY <1>0, <1>3 DEF PartyInv, LoginCreate, At
    <2>2. [id |-> u, externalId |-> calls[s].externalId] \in AppUser
      BY <2>1 DEF CallAgrees, AppUser
    <2>3. users' \in Seq(AppUser)
      BY <1>0, <1>3, <2>2 DEF LoginCreate, CreateUserRecord
    <2>4. QED
      BY <1>3, <2>3, ReturnsInv DEF LoginCreate
  <1>4. ASSUME NEW s \in Slots, AllocateExisting(s) \/ AllocateCreate(s) \/ AttachWrite(s)
        PROVE  PartyInv'
    BY <1>4, AllocateExistingInv, AllocateCreateInv, AttachWriteInv
  <1>5. ASSUME NEW s \in Slots, NEW w \in WalletIds, WalletCreate(s, w)
        PROVE  PartyInv'
    BY <1>5, WalletCreateInv
  <1>6. CASE UNCHANGED vars
    <2>1. \A t \in Slots : CallAgrees(calls[t], partiesByUser)'
      BY <1>6 DEF PartyInv, CallAgrees, vars, partyStore
    <2>2. QED
      BY <1>0, <1>6, <2>1, StoreUntouched DEF vars
  <1>7. QED
    BY <1>1, <1>2, <1>3, <1>4, <1>5, <1>6 DEF Next, Resume

\* The indexes of the identity store agree with its records, and so does every
\* copy a call in flight will write back.
THEOREM PartyInvariant == Spec => []PartyInv
  BY InitInv, StepInv, PTL DEF Spec

\* Every stored party is listed for the user it names.
THEOREM PartiesAreListed == Spec => []IndexCoversParties
  <1>1. PartyInv => IndexCoversParties
    BY DEF PartyInv
  <1>2. QED
    BY <1>1, PartyInvariant, PTL

\* Every listed party is stored, was answered for, and is listed once.
THEOREM ListsResolve == Spec => []ListedPartiesResolve
  <1>1. PartyInv => ListedPartiesResolve
    BY DEF PartyInv
  <1>2. QED
    BY <1>1, PartyInvariant, PTL

\* The wallet found for a user and a party is theirs.
THEOREM WalletsResolve == Spec => []WalletIndexResolves
  <1>1. PartyInv => WalletIndexResolves
    BY DEF PartyInv
  <1>2. QED
    BY <1>1, PartyInvariant, PTL

\* The primary party of a user never changes.
THEOREM PrimaryPartyIsStable == Spec => PrimaryPartyStays
  <1> DEFINE Stays == \A u \in UserIds : partiesByUser[u] # <<>> =>
                        /\ partiesByUser'[u] # <<>>
                        /\ Head(partiesByUser'[u]) = Head(partiesByUser[u])
  <1>1. ASSUME PartyInv, [Next]_vars
        PROVE  Stays
    <2>1. ASSUME NEW s \in Slots, AllocateCreate(s)
          PROVE  Stays
      BY <1>1, <2>1, AllocateCreateInv DEF Extended
    <2>2. CASE UNCHANGED partiesByUser
      BY <2>2
    <2>3. CASE UNCHANGED vars
      BY <2>2, <2>3 DEF vars, partyStore
    <2>4. CASE Next
      <3>1. PICK s \in Slots : Begin(s) \/ Resume(s) \/ CallFails(s)
        BY <2>4 DEF Next
      <3>2. Begin(s) => UNCHANGED partiesByUser
        BY DEF Begin, CreateUser, LoginRead, AllocateRead, WalletRead, AttachRead, partyStore
      <3>3. Resume(s) => UNCHANGED partiesByUser \/ AllocateCreate(s)
        BY DEF Resume, LoginExisting, LoginCreate, AllocateExisting, AttachNotFound,
               AttachWrite, UpdateParty, WalletExisting, WalletCreate, partyStore
      <3>4. CallFails(s) => UNCHANGED partiesByUser
        BY DEF CallFails, partyStore
      <3>5. QED
        BY <2>1, <2>2, <3>1, <3>2, <3>3, <3>4
    <2>5. QED
      BY <1>1, <2>3, <2>4
  <1>2. PartyInv /\ [Next]_vars => [Stays]_vars
    BY <1>1
  <1>3. QED
    BY <1>2, PartyInvariant, PTL DEF Spec, PrimaryPartyStays

-------------------------------------------------------------------------------
(***************************************************************************)
(* Login.                                                                  *)
(***************************************************************************)

\* A set of positions that is not empty has a first one.
LEMMA FirstPosition ==
  ASSUME NEW T \in SUBSET Nat, T # {}
  PROVE  \E m \in T : \A k \in T : m <= k
  <1> DEFINE R == OpToRel(<, Nat)
  <1>1. IsWellFoundedOn(R, Nat)
    BY NatLessThanWellFounded
  <1>2. \A m, k \in Nat : k < m => <<k, m>> \in R
    BY DEF OpToRel
  <1> HIDE DEF R
  <1>3. PICK m \in T : \A k \in T : ~ (<<k, m>> \in R)
    BY <1>1, WFMin
  <1>4. \A k \in T : ~(k < m)
    BY <1>2, <1>3
  <1>5. QED
    BY <1>3, <1>4

\* What login looks up does not change when a user is added.
LEMMA AddedUserKeepsLogin ==
  ASSUME NEW x \in ExternalIds, NEW user \in AppUser, users \in Seq(AppUser),
         users' = Append(users, user), GetUserByExternalId(x) # None
  PROVE  GetUserByExternalId(x)' = GetUserByExternalId(x)
  <1> DEFINE old == Matching(x)
             new == Matching(x)'
             Least(T, m) == \A k \in T : m <= k
  <1>1. /\ DOMAIN users = 1..Len(users) /\ Len(users) \in Nat
        /\ DOMAIN users' = 1..(Len(users) + 1)
        /\ \A i \in 1..Len(users) : users'[i] = users[i]
    OBVIOUS
  <1>2. old # {}
    BY DEF GetUserByExternalId
  <1>3. old \subseteq 1..Len(users) /\ new \subseteq 1..(Len(users) + 1)
    BY <1>1 DEF Matching
  <1>4. \A i \in 1..Len(users) : i \in new <=> i \in old
    BY <1>1 DEF Matching
  <1>5. PICK m \in old : Least(old, m)
    BY <1>1, <1>2, <1>3, FirstPosition
  <1>6. m \in new /\ m \in 1..Len(users)
    BY <1>3, <1>4
  <1>7. Least(new, m)
    BY <1>1, <1>3, <1>4, <1>5, <1>6
  <1>8. ASSUME NEW T, T = old \/ T = new
        PROVE  (CHOOSE i \in T : \A j \in T : i <= j) = m
    <2>1. m \in T /\ \A j \in T : m <= j /\ T \subseteq Nat
      BY <1>1, <1>3, <1>5, <1>6, <1>7, <1>8
    <2> HIDE DEF old, new
    <2>2. \A i \in T : (\A j \in T : i <= j) => i = m
      BY <2>1
    <2>3. QED
      BY <2>1, <2>2
  <1>9. GetUserByExternalId(x) = users[m].id
    BY <1>2, <1>8 DEF GetUserByExternalId
  <1>10. GetUserByExternalId(x)' = users'[m].id
    BY <1>6, <1>8 DEF GetUserByExternalId
  <1>11. QED
    BY <1>1, <1>6, <1>9, <1>10

\* Once an externalId is known, login keeps reaching the user it reached, however
\* many records overlapping calls store for it.
THEOREM LoginIsStable == Spec => LoginReachesSameUser
  <1> DEFINE Stays == \A x \in ExternalIds :
                        GetUserByExternalId(x) # None =>
                          GetUserByExternalId(x)' = GetUserByExternalId(x)
  <1>1. ASSUME PartyInv, [Next]_vars
        PROVE  Stays
    <2>1. users \in Seq(AppUser)
      BY <1>1 DEF PartyInv, TypeOK
    <2>2. ASSUME NEW u \in UserIds, NEW x \in ExternalIds \cup {None}, CreateUserRecord(u, x)
          PROVE  Stays
      <3>1. [id |-> u, externalId |-> x] \in AppUser
        BY DEF AppUser
      <3>2. QED
        BY <2>1, <2>2, <3>1, AddedUserKeepsLogin DEF CreateUserRecord
    <2>3. CASE UNCHANGED users
      BY <2>3 DEF GetUserByExternalId, Matching
    <2>4. CASE Next
      <3>1. PICK s \in Slots : Begin(s) \/ Resume(s) \/ CallFails(s)
        BY <2>4 DEF Next
      <3>2. CASE Begin(s)
        BY <2>2, <2>3, <3>2 DEF Begin, CreateUser, LoginRead, AllocateRead, WalletRead, AttachRead
      <3>3. ASSUME NEW u \in UserIds, LoginCreate(s, u)
            PROVE  Stays
        <4>1. calls[s].externalId \in ExternalIds
          BY <1>1, <3>3 DEF PartyInv, CallAgrees, LoginCreate, At
        <4>2. QED
          BY <2>2, <3>3, <4>1 DEF LoginCreate
      <3>4. CASE Resume(s) \/ CallFails(s)
        BY <2>3, <3>3, <3>4
        DEF Resume, LoginExisting, AllocateExisting, AllocateCreate, AttachNotFound,
            AttachWrite, WalletExisting, WalletCreate, CallFails
      <3>5. QED
        BY <3>1, <3>2, <3>4
    <2>5. QED
      BY <1>1, <2>3, <2>4 DEF vars
  <1>2. PartyInv /\ [Next]_vars => [Stays]_vars
    BY <1>1
  <1>3. QED
    BY <1>2, PartyInvariant, PTL DEF Spec, LoginReachesSameUser

===============================================================================
