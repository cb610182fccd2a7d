------------------------------ MODULE PartyIdentity ------------------------------
(***************************************************************************)
(* The party identity service of packages/party-identity/src/service over  *)
(* its store, with the login route of apps/api/src/modules/auth that looks *)
(* a user up and creates it when it is missing.                            *)
(*                                                                         *)
(* As in DealService, a call hands control back at each `await store.f()`. *)
(* Every method here awaits one read and then one write, so calls[s] holds *)
(* what the read returned.  An action that ends with the write also        *)
(* returns: no code follows it.                                            *)
(***************************************************************************)
EXTENDS FiniteSets, Naturals, Sequences

CONSTANTS
  Slots,        \* calls that can be in flight at the same time
  UserIds,      \* user identifiers, known to the store or not
  ExternalIds,  \* what the authentication provider calls a user
  PartyIds,
  Keys,         \* metadata keys
  WalletIds,    \* identifiers generateId("wal") returns, each once
  Faults,       \* TRUE when store operations may reject
  None

ASSUME PartyIdentityAssumption ==
  /\ Faults \in BOOLEAN
  /\ None \notin UserIds \cup ExternalIds \cup PartyIds \cup WalletIds

AppUser == [id : UserIds, externalId : ExternalIds \cup {None}]

CantonParty == [userId : UserIds, metadata : SUBSET Keys]

WalletIdentity == [userId : UserIds, partyId : PartyIds]

ASSUME NoneIsNoRecord ==
  None \notin AppUser /\ None \notin CantonParty /\ None \notin WalletIdentity

ResumePoint == {"idle", "login-create", "allocate-create", "attach-write", "wallet-create"}

Call == [at : ResumePoint,
         userId : UserIds \cup {None},          \* the userId argument
         externalId : ExternalIds \cup {None},  \* the externalId argument
         partyId : PartyIds \cup {None},        \* the partyId argument
         metadata : SUBSET Keys,                \* the keys to attach
         found : BOOLEAN,                       \* the read of login or of a wallet
         copy : CantonParty \cup {None}]        \* the result of `await getParty`

NoCall == [at |-> "idle", userId |-> None, externalId |-> None, partyId |-> None,
           metadata |-> {}, found |-> FALSE, copy |-> None]

VARIABLES
  users,              \* Map<string, AppUser>: its values in insertion order
  parties,            \* Map<PartyId, CantonParty>
  partiesByUser,      \* Map<string, Set<PartyId>>: each set in insertion order
  walletIdentities,   \* Map<string, WalletIdentity>
  walletByUser,       \* Map<string, Set<string>>
  walletByUserParty,  \* Map<`${userId}::${partyId}`, string>
  calls,              \* the call in flight in each slot
  linked              \* history: the <<user, party>> allocateParty answered for

partyStore == <<parties, partiesByUser>>
walletStore == <<walletIdentities, walletByUser, walletByUserParty>>
vars == <<users, partyStore, walletStore, calls, linked>>

TypeOK ==
  /\ users \in Seq(AppUser)
  /\ parties \in [PartyIds -> CantonParty \cup {None}]
  /\ partiesByUser \in [UserIds -> Seq(PartyIds)]
  /\ walletIdentities \in [WalletIds -> WalletIdentity \cup {None}]
  /\ walletByUser \in [UserIds -> SUBSET WalletIds]
  /\ walletByUserParty \in [UserIds \X PartyIds -> WalletIds \cup {None}]
  /\ calls \in [Slots -> Call]
  /\ linked \subseteq UserIds \X PartyIds

Init ==
  /\ users = <<>>
  /\ parties = [p \in PartyIds |-> None]
  /\ partiesByUser = [u \in UserIds |-> <<>>]
  /\ walletIdentities = [w \in WalletIds |-> None]
  /\ walletByUser = [u \in UserIds |-> {}]
  /\ walletByUserParty = [up \in UserIds \X PartyIds |-> None]
  /\ calls = [s \in Slots |-> NoCall]
  /\ linked = {}

-------------------------------------------------------------------------------
(***************************************************************************)
(* The store.                                                              *)
(***************************************************************************)

Listed(p, list) == \E i \in DOMAIN list : list[i] = p

KnownIds == {users[i].id : i \in DOMAIN users}

\* No caller passes an id, so every user gets a new one and Map.set appends.
CreateUserRecord(u, x) == users' = Append(users, [id |-> u, externalId |-> x])

Matching(x) == {i \in DOMAIN users : users[i].externalId = x}

\* Seeded error: the last match wins.
GetUserByExternalId_Last(x) ==
  IF Matching(x) = {} THEN None
  ELSE users[CHOOSE i \in Matching(x) : \A j \in Matching(x) : j <= i].id

\* The first match in insertion order.
GetUserByExternalId(x) ==
  IF Matching(x) = {} THEN None
  ELSE users[CHOOSE i \in Matching(x) : \A j \in Matching(x) : i <= j].id

\* Seeded error: the party is put in front of the set.
CreateParty_InFront(p, party) ==
  LET list == partiesByUser[party.userId]
  IN  /\ parties' = [parties EXCEPT ![p] = party]
      /\ partiesByUser' = IF Listed(p, list) THEN partiesByUser
                          ELSE [partiesByUser EXCEPT ![party.userId] = <<p>> \o list]

\* Seeded error: the set is an array, and the party is pushed.
CreateParty_Array(p, party) ==
  /\ parties' = [parties EXCEPT ![p] = party]
  /\ partiesByUser' = [partiesByUser EXCEPT ![party.userId] = Append(@, p)]

\* Seeded error: a new set replaces the one of the user.
CreateParty_NewSet(p, party) ==
  /\ parties' = [parties EXCEPT ![p] = party]
  /\ partiesByUser' = [partiesByUser EXCEPT ![party.userId] = <<p>>]

\* Set.add keeps the place of an element that is there.
CreateParty(p, party) ==
  LET list == partiesByUser[party.userId]
  IN  /\ parties' = [parties EXCEPT ![p] = party]
      /\ partiesByUser' = IF Listed(p, list) THEN partiesByUser
                          ELSE [partiesByUser EXCEPT ![party.userId] = Append(list, p)]

UpdateParty(p, party) ==
  /\ parties' = [parties EXCEPT ![p] = party]
  /\ UNCHANGED partiesByUser

\* Seeded error: a wallet identity is indexed by user and party only.
CreateWalletIdentity_NotByUser(w, wallet) ==
  /\ walletIdentities' = [walletIdentities EXCEPT ![w] = wallet]
  /\ walletByUserParty' = [walletByUserParty EXCEPT ![<<wallet.userId, wallet.partyId>>] = w]
  /\ UNCHANGED walletByUser

CreateWalletIdentity(w, wallet) ==
  /\ walletIdentities' = [walletIdentities EXCEPT ![w] = wallet]
  /\ walletByUser' = [walletByUser EXCEPT ![wallet.userId] = @ \cup {w}]
  /\ walletByUserParty' = [walletByUserParty EXCEPT ![<<wallet.userId, wallet.partyId>>] = w]

-------------------------------------------------------------------------------
At(s, point) == calls[s].at = point

Await(s, call) == calls' = [calls EXCEPT ![s] = call]

Return(s) == Await(s, NoCall)

(***************************************************************************)
(* createUser, from the users route, and login                             *)
(***************************************************************************)

\* Bound: a call starts only if an identifier will be left for it.
RoomForUser ==
  Cardinality(UserIds \ KnownIds) > Cardinality({s \in Slots : At(s, "login-create")})

\* createUser does not look whether the externalId is taken.
CreateUser(s, u, x) ==
  /\ At(s, "idle")
  /\ RoomForUser
  /\ u \notin KnownIds
  /\ CreateUserRecord(u, x)
  /\ UNCHANGED <<partyStore, walletStore, calls, linked>>

LoginRead(s, x) ==
  /\ At(s, "idle")
  /\ RoomForUser
  /\ Await(s, [NoCall EXCEPT !.at = "login-create", !.externalId = x,
                             !.found = GetUserByExternalId(x) # None])
  /\ UNCHANGED <<users, partyStore, walletStore, linked>>

LoginExisting(s) ==
  /\ At(s, "login-create")
  /\ calls[s].found
  /\ Return(s)
  /\ UNCHANGED <<users, partyStore, walletStore, linked>>

LoginCreate(s, u) ==
  /\ At(s, "login-create")
  /\ ~calls[s].found
  /\ u \notin KnownIds
  /\ CreateUserRecord(u, calls[s].externalId)
  /\ Return(s)
  /\ UNCHANGED <<partyStore, walletStore, linked>>

(***************************************************************************)
(* allocateParty, and through it linkParty                                 *)
(***************************************************************************)

\* Whether the user exists is not looked at.
AllocateRead(s, u, p) ==
  /\ At(s, "idle")
  /\ Await(s, [NoCall EXCEPT !.at = "allocate-create", !.userId = u, !.partyId = p,
                             !.copy = parties[p]])
  /\ UNCHANGED <<users, partyStore, walletStore, linked>>

AllocateExisting(s) ==
  /\ At(s, "allocate-create")
  /\ calls[s].copy # None
  /\ linked' = IF calls[s].copy.userId = calls[s].userId
               THEN linked \cup {<<calls[s].userId, calls[s].partyId>>}
               ELSE linked
  /\ Return(s)
  /\ UNCHANGED <<users, partyStore, walletStore>>

AllocateCreate(s) ==
  /\ At(s, "allocate-create")
  /\ calls[s].copy = None
  /\ CreateParty(calls[s].partyId, [userId |-> calls[s].userId, metadata |-> {}])
  /\ linked' = linked \cup {<<calls[s].userId, calls[s].partyId>>}
  /\ Return(s)
  /\ UNCHANGED <<users, walletStore>>

(***************************************************************************)
(* attachMetadata                                                          *)
(***************************************************************************)

AttachRead(s, p, k) ==
  /\ At(s, "idle")
  /\ Await(s, [NoCall EXCEPT !.at = "attach-write", !.partyId = p,
                             !.metadata = {k}, !.copy = parties[p]])
  /\ UNCHANGED <<users, partyStore, walletStore, linked>>

AttachNotFound(s) ==
  /\ At(s, "attach-write")
  /\ calls[s].copy = None
  /\ Return(s)
  /\ UNCHANGED <<users, partyStore, walletStore, linked>>

\* The whole record is written back from the copy.
AttachWrite(s) ==
  /\ At(s, "attach-write")
  /\ calls[s].copy # None
  /\ UpdateParty(calls[s].partyId,
                 [calls[s].copy EXCEPT !.metadata = @ \cup calls[s].metadata])
  /\ Return(s)
  /\ UNCHANGED <<users, walletStore, linked>>

(***************************************************************************)
(* storeWalletLinkage                                                      *)
(***************************************************************************)

\* Bound: a call starts only if an identifier will be left for it.
RoomForWallet ==
  Cardinality({w \in WalletIds : walletIdentities[w] = None}) >
  Cardinality({s \in Slots : At(s, "wallet-create")})

WalletRead(s, u, p) ==
  /\ At(s, "idle")
  /\ RoomForWallet
  /\ Await(s, [NoCall EXCEPT !.at = "wallet-create", !.userId = u, !.partyId = p,
                             !.found = walletByUserParty[<<u, p>>] # None])
  /\ UNCHANGED <<users, partyStore, walletStore, linked>>

WalletExisting(s) ==
  /\ At(s, "wallet-create")
  /\ calls[s].found
  /\ Return(s)
  /\ UNCHANGED <<users, partyStore, walletStore, linked>>

WalletCreate(s, w) ==
  /\ At(s, "wallet-create")
  /\ ~calls[s].found
  /\ walletIdentities[w] = None
  /\ CreateWalletIdentity(w, [userId |-> calls[s].userId, partyId |-> calls[s].partyId])
  /\ Return(s)
  /\ UNCHANGED <<users, partyStore, linked>>

\* A store operation rejects.
CallFails(s) ==
  /\ Faults
  /\ ~At(s, "idle")
  /\ Return(s)
  /\ UNCHANGED <<users, partyStore, walletStore, linked>>

-------------------------------------------------------------------------------
Begin(s) ==
  \/ \E u \in UserIds, x \in ExternalIds \cup {None} : CreateUser(s, u, x)
  \/ \E x \in ExternalIds : LoginRead(s, x)
  \/ \E u \in UserIds, p \in PartyIds : AllocateRead(s, u, p) \/ WalletRead(s, u, p)
  \/ \E p \in PartyIds, k \in Keys : AttachRead(s, p, k)

Resume(s) ==
  \/ LoginExisting(s) \/ (\E u \in UserIds : LoginCreate(s, u))
  \/ AllocateExisting(s) \/ AllocateCreate(s)
  \/ AttachNotFound(s) \/ AttachWrite(s)
  \/ WalletExisting(s) \/ (\E w \in WalletIds : WalletCreate(s, w))

Next == \E s \in Slots : Begin(s) \/ Resume(s) \/ CallFails(s)

Spec == Init /\ [][Next]_vars

-------------------------------------------------------------------------------
(***************************************************************************)
(* Safety.                                                                 *)
(***************************************************************************)

\* A stored party is listed for the user it names, although allocateParty and
\* attachMetadata write records back that other calls may have replaced.
IndexCoversParties ==
  \A p \in PartyIds : parties[p] # None =>
    Listed(p, partiesByUser[parties[p].userId])

\* A party is listed only for users allocateParty answered for, every listed
\* party is stored, and no party is listed twice: what getPartiesByUserId drops
\* as missing, it never has to drop.
ListedPartiesResolve ==
  \A u \in UserIds : \A i, j \in DOMAIN partiesByUser[u] :
    /\ parties[partiesByUser[u][i]] # None
    /\ <<u, partiesByUser[u][i]>> \in linked
    /\ partiesByUser[u][i] = partiesByUser[u][j] => i = j

\* The wallet found for a user and a party is a stored one of that user and that
\* party, and is listed for the user, even when two calls created one each.
WalletIndexResolves ==
  \A u \in UserIds, p \in PartyIds :
    LET w == walletByUserParty[<<u, p>>]
    IN  w # None => /\ walletIdentities[w] = [userId |-> u, partyId |-> p]
                    /\ w \in walletByUser[u]

\* Once a user has a primary party, resolvePartyId keeps returning it.
PrimaryPartyStays ==
  [][\A u \in UserIds : partiesByUser[u] # <<>> =>
       /\ partiesByUser'[u] # <<>>
       /\ Head(partiesByUser'[u]) = Head(partiesByUser[u])]_vars

\* Once an externalId is known, every later login with it reaches the same user,
\* although overlapping logins and createUser may store it several times.
LoginReachesSameUser ==
  [][\A x \in ExternalIds :
       GetUserByExternalId(x) # None =>
         GetUserByExternalId(x)' = GetUserByExternalId(x)]_vars

\* Inductive: what a call will write back agrees with the indexes.
CallAgrees(call, lists) ==
  /\ call.at = "login-create" => call.externalId \in ExternalIds
  /\ call.at \in {"allocate-create", "wallet-create"} => call.userId \in UserIds
  /\ call.at \in {"allocate-create", "attach-write", "wallet-create"} =>
       call.partyId \in PartyIds
  /\ call.copy # None => /\ call.partyId \in PartyIds
                         /\ Listed(call.partyId, lists[call.copy.userId])
                         /\ <<call.copy.userId, call.partyId>> \in linked

PartyInv ==
  /\ TypeOK
  /\ IndexCoversParties
  /\ ListedPartiesResolve
  /\ WalletIndexResolves
  /\ \A s \in Slots : CallAgrees(calls[s], partiesByUser)

(***************************************************************************)
(* What the tests and the documentation say and interleaving breaks.       *)
(***************************************************************************)

\* allocateParty never answers two different users for one party.
PartyHasOneUser ==
  \A one, other \in linked : one[2] = other[2] => one[1] = other[1]

===============================================================================
