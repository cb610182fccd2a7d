------------------------------ MODULE ApiServer ------------------------------
(***************************************************************************)
(* The HTTP API, apps/api/src: concurrent requests that pass the hooks and *)
(* the handler of their route, over one context that all of them share.    *)
(*                                                                         *)
(* What the party and swap services do is the subject of PartyIdentity and *)
(* SwapEngine; here such a call answers, finds nothing, or throws.  The    *)
(* wallet adapter of the API waits for no timer: a call of it is one       *)
(* microtask and the rest of the handler that awaited it a later one, and  *)
(* microtasks run in the order in which they were queued (`jobs`).         *)
(***************************************************************************)
EXTENDS Naturals, Sequences, FiniteSets

CONSTANTS
    Requests,      \* slots: requests under way at the same time
    Users,         \* user ids
    Externals,     \* external ids, those of administrators among them
    AdminExternals,
    None,
    Capacity,      \* of the ring buffers
    Loads,         \* what a behaviour is about: whether a validator is configured
                   \* and, as a bound, the routes the clients use
    MaxReceived    \* bound: requests in a behaviour

VARIABLES
    load,          \* one of Loads
    req,           \* req[r]: stage, route and caller of the request in slot r
    answer,        \* answer[r]: the status last sent in slot r, 0 while it is handled
    received,      \* requests so far; a request's number stands for its correlation id
    role,          \* identity: role[u], "none" before u is created
    userOf,        \* identity: the user of an external id
    session,       \* the session of the one wallet adapter
    jobs,          \* microtasks of wallet routes
    halves,        \* halves[r]: the two requests of getValidatorPartyMetadata
    errors, commands,          \* the ring buffers, newest first
    failures                   \* history: every request the error handler answered

vars == <<load, req, answer, received, role, userOf, session, jobs, halves,
          errors, commands, failures>>

identity == <<role, userOf>>
ops == <<errors, commands, failures>>
wallet == <<session, jobs>>

-----------------------------------------------------------------------------
(* Routes: which plugin, and so which hook, they belong to.                *)

Public == {"login", "me"}
Network == {"metadata", "config"}
Admin == {"opsHealth", "opsErrors", "opsCommands", "opsSwaps", "opsParties",
          "healthDetailed", "userParties"}
WalletRoutes == {"session", "connect", "disconnect"}
\* Routes whose body the handler parses with a zod schema.
Parsed == {"link", "allocate", "describe", "quote", "respond", "accept", "reject"}
WithBody == Parsed \cup {"login", "createUser"}
\* What the framework itself may refuse: a body, if only for not being JSON, or a
\* query string that the route's own schema does not admit.
Validated == WithBody \cup {"connect", "disconnect", "cancel"} \cup
             {"opsErrors", "opsCommands", "opsSwaps", "opsParties"}
Routes == Public \cup Network \cup Admin \cup WalletRoutes \cup WithBody \cup
          {"user", "permissions", "parties", "primary", "deal", "cancel",
           "holdings", "balances"}

ASSUME ApiAssumption ==
    /\ Capacity \in Nat \ {0}
    /\ MaxReceived \in Nat
    /\ AdminExternals \subseteq Externals
    /\ Loads \subseteq [routes : SUBSET Routes, validator : BOOLEAN]
    /\ None \notin Users \cup Externals
    /\ Users \cap Externals = {}

\* The plugins that add authMiddleware as a hook.
Authenticated == Routes \ (Public \cup Network)

Idle == [stage |-> "idle", route |-> "none", caller |-> None, id |-> 0]

\* createAppContext and buildApp.
Init ==
    /\ load \in Loads
    /\ req = [r \in Requests |-> Idle]
    /\ answer = [r \in Requests |-> 0]
    /\ received = 0
    /\ role = [u \in Users |-> "none"]
    /\ userOf = [x \in Externals |-> None]
    /\ session = FALSE
    /\ jobs = << >>
    /\ halves = [r \in Requests |-> << >>]
    /\ errors = << >>
    /\ commands = << >>
    /\ failures = << >>

-----------------------------------------------------------------------------
(* The ring buffers.                                                       *)

\* Seeded error: the oldest entry stays.
Recorded_Full(buffer, entry) ==
    IF Len(buffer) < Capacity THEN <<entry>> \o buffer ELSE buffer

\* recordError, recordCommand: unshift, and pop when there are too many.
Recorded(buffer, entry) ==
    LET all == <<entry>> \o buffer
    IN  IF Len(all) > Capacity THEN SubSeq(all, 1, Len(all) - 1) ELSE all

-----------------------------------------------------------------------------
(* Answers.                                                                *)

At(r, stage) == req[r].stage = stage
Goto(r, stage) == req' = [req EXCEPT ![r].stage = stage]

\* reply.send, for a status chosen in the handler.
Send(r, status) ==
    /\ req' = [req EXCEPT ![r] = Idle]
    /\ answer' = [answer EXCEPT ![r] = status]

Replies(r, status) == Send(r, status) /\ UNCHANGED ops

\* An exception, reply.badRequest or reply.notFound: the error handler.
Fails(r, status) ==
    /\ Send(r, status)
    /\ errors' = Recorded(errors, req[r].id)
    /\ failures' = <<req[r].id>> \o failures
    /\ UNCHANGED commands

-----------------------------------------------------------------------------
(* Hooks.                                                                  *)

\* Bound: a request that creates a user starts only when an id is left for it.
Creating == {"login", "createUser"}
RoomForUser ==
    Cardinality({q \in Requests : req[q].route \in Creating})
        < Cardinality({u \in Users : role[u] = "none"})

\* onRequest: a correlation id; then the route's own schema is to be checked.
Receive(r, route, header) ==
    /\ At(r, "idle")
    /\ received < MaxReceived
    /\ route \in Creating => RoomForUser
    /\ received' = received + 1
    /\ req' = [req EXCEPT ![r] = [stage |-> "received", route |-> route,
                                  caller |-> header, id |-> received + 1]]
    /\ answer' = [answer EXCEPT ![r] = 0]
    /\ halves' = [halves EXCEPT ![r] = << >>]
    /\ UNCHANGED <<identity, wallet, ops>>

\* The framework reads and validates a request before it calls preHandler hooks.
SchemaRefused(r) ==
    /\ At(r, "received")
    /\ req[r].route \in Validated
    /\ Fails(r, 400)
    /\ UNCHANGED <<received, identity, wallet, halves>>

\* authMiddleware: no bearer token, or one the validator returns null for.
Unauthorized(r) ==
    /\ At(r, "received")
    /\ req[r].route \in Authenticated
    /\ req[r].caller = None
    /\ Replies(r, 401)
    /\ UNCHANGED <<received, identity, wallet, halves>>

\* authMiddleware lets the request pass, optionalAuthMiddleware always does.  No
\* other request runs between this and the first answer the handler awaits, or
\* its reply: in between it only resumes on values that are there.
Admitted(r) ==
    /\ At(r, "received")
    /\ req[r].route \in Authenticated => req[r].caller # None

Handling(r, route) == Admitted(r) /\ req[r].route = route

-----------------------------------------------------------------------------
(* Handlers that make one call of a service.                               *)

Quiet == UNCHANGED <<received, identity, wallet, halves>>

Returns(r, route, status) == Handling(r, route) /\ Replies(r, status) /\ Quiet
Throws(r, route, status) == Handling(r, route) /\ Fails(r, status) /\ Quiet
Lookup(r, route) == Returns(r, route, 200) \/ Throws(r, route, 404)
\* safeParse refuses, the service answers, or it throws.
Command(r, route, status) ==
    Throws(r, route, 400) \/ Returns(r, route, status) \/ Throws(r, route, 500)

GetUser(r) == Lookup(r, "user")
Permissions(r) == Returns(r, "permissions", 200)
AllocateParty(r) == Command(r, "allocate", 201)
ListParties(r) == Returns(r, "parties", 200)
PrimaryParty(r) == Lookup(r, "primary")
AttachMetadata(r) == Command(r, "describe", 200)
Holdings(r) == Returns(r, "holdings", 200)
Balances(r) == Returns(r, "balances", 200)
LinkWallet(r) == Throws(r, "link", 400) \/ Returns(r, "link", 201)
RequestQuote(r) == Throws(r, "quote", 400) \/ Returns(r, "quote", 201)
RespondToQuote(r) == Command(r, "respond", 201)
AcceptQuote(r) == Command(r, "accept", 200)
RejectQuote(r) == Command(r, "reject", 200)
GetDeal(r) == Lookup(r, "deal")
CancelDeal(r) == Returns(r, "cancel", 200) \/ Throws(r, "cancel", 500)
Me(r) == Returns(r, "me", 200)

Services(r) ==
    \/ GetUser(r) \/ Permissions(r) \/ AllocateParty(r) \/ ListParties(r)
    \/ PrimaryParty(r) \/ AttachMetadata(r) \/ Holdings(r) \/ Balances(r)
    \/ LinkWallet(r) \/ RequestQuote(r) \/ RespondToQuote(r) \/ AcceptQuote(r)
    \/ RejectQuote(r) \/ GetDeal(r) \/ CancelDeal(r) \/ Me(r)

-----------------------------------------------------------------------------
(* Users.                                                                  *)

\* A user of an external id; of several the store finds the first.
Creates(u, newRole, x) ==
    /\ role[u] = "none"
    /\ role' = [role EXCEPT ![u] = newRole]
    /\ userOf' = IF x = None \/ userOf[x] # None THEN userOf ELSE [userOf EXCEPT ![x] = u]

\* POST /users: the role is the body's.  None is the external id of a body without
\* one, the caller's own id, which no login asks for.
CreateUser(r) ==
    /\ Handling(r, "createUser")
    /\ \E u \in Users, newRole \in {"user", "admin"}, x \in Externals \cup {None} :
         Creates(u, newRole, x)
    /\ Replies(r, 201)
    /\ UNCHANGED <<received, wallet, halves>>

\* POST /login: look the external id up, then create the user if there is none.
LoginFound(r, x) ==
    /\ userOf[x] # None
    /\ Returns(r, "login", 200)

LoginUnknown(r, x) ==
    /\ Handling(r, "login")
    /\ userOf[x] = None
    /\ req' = [req EXCEPT ![r].stage = "login", ![r].caller = x]
    /\ UNCHANGED <<answer, received, identity, wallet, halves, ops>>

LoginCreates(r) ==
    /\ At(r, "login")
    /\ \E u \in Users :
         Creates(u, IF req[r].caller \in AdminExternals THEN "admin" ELSE "user", req[r].caller)
    /\ Replies(r, 200)
    /\ UNCHANGED <<received, wallet, halves>>

Accounts(r) == CreateUser(r) \/ LoginCreates(r) \/ \E x \in Externals : LoginFound(r, x) \/ LoginUnknown(r, x)

-----------------------------------------------------------------------------
(* The wallet: the adapter's part of a call, then the rest of the handler. *)

Job(kind, r) == [kind |-> kind, req |-> r]
Due(kind, r) == jobs # << >> /\ Head(jobs) = Job(kind, r)

CallsAdapter(r) ==
    /\ Goto(r, "wallet")
    /\ jobs' = Append(jobs, Job("adapter", r))
    /\ UNCHANGED <<answer, received, identity, session, halves, ops>>

UseWallet(r) == Admitted(r) /\ req[r].route \in WalletRoutes /\ CallsAdapter(r)

\* MockWalletAdapter with a delay of 0.
Adapter(r) ==
    /\ Due("adapter", r)
    /\ session' = CASE req[r].route = "connect" -> TRUE
                    [] req[r].route = "disconnect" -> FALSE
                    [] OTHER -> session
    /\ jobs' = Append(Tail(jobs), Job("handler", r))
    /\ UNCHANGED <<req, answer, received, identity, halves, ops>>

Resumes(r, route) ==
    /\ Due("handler", r)
    /\ req[r].route = route
    /\ jobs' = Tail(jobs)
    /\ Send(r, 200)
    /\ UNCHANGED <<received, identity, session, halves, errors, failures>>

GetSession(r) == Resumes(r, "session") /\ UNCHANGED commands

RecordConnect(r) == Resumes(r, "connect") /\ commands' = Recorded(commands, "wallet_connect")

\* Seeded error: only connections are recorded.
RecordDisconnect_Missing(r) == Resumes(r, "disconnect") /\ UNCHANGED commands

RecordDisconnect(r) ==
    Resumes(r, "disconnect") /\ commands' = Recorded(commands, "wallet_disconnect")

OpsHealthSent(r) == Resumes(r, "opsHealth") /\ UNCHANGED commands

Wallet(r) ==
    \/ UseWallet(r) \/ Adapter(r) \/ GetSession(r) \/ RecordConnect(r)
    \/ RecordDisconnect(r) \/ OpsHealthSent(r)

-----------------------------------------------------------------------------
(* Administration: the caller's permissions are read first.                *)

\* Seeded error: any known user is an administrator.
IsAdmin_Known(u) == u \in Users /\ role[u] # "none"

IsAdmin(u) == u \in Users /\ role[u] = "admin"

Forbidden(r) ==
    /\ Admitted(r)
    /\ req[r].route \in Admin
    /\ ~IsAdmin(req[r].caller)
    /\ Replies(r, 403)
    /\ Quiet

\* requireAdmin answers true: the handler goes on after the await.
Allowed(r) ==
    /\ Admitted(r)
    /\ req[r].route \in Admin
    /\ IsAdmin(req[r].caller)
    /\ Goto(r, "admin")
    /\ UNCHANGED <<answer, received, identity, wallet, halves, ops>>

Reads(r, route) == At(r, "admin") /\ req[r].route = route /\ Replies(r, 200) /\ Quiet

OpsHealth(r) == At(r, "admin") /\ req[r].route = "opsHealth" /\ CallsAdapter(r)
OpsErrors(r) == Reads(r, "opsErrors")
OpsCommands(r) == Reads(r, "opsCommands")
OpsSwaps(r) == Reads(r, "opsSwaps")
OpsParties(r) == Reads(r, "opsParties")
HealthDetailed(r) == Reads(r, "healthDetailed")
UserParties(r) == Reads(r, "userParties")

Administration(r) ==
    \/ Forbidden(r) \/ Allowed(r) \/ OpsHealth(r) \/ OpsErrors(r) \/ OpsCommands(r)
    \/ OpsSwaps(r) \/ OpsParties(r) \/ HealthDetailed(r) \/ UserParties(r)

-----------------------------------------------------------------------------
(* The network: two requests at once, each over fetchWithRetry.            *)

Config(r) == Returns(r, "config", 200)

MetadataUnconfigured(r) == ~load.validator /\ Returns(r, "metadata", 200)

\* getValidatorPartyMetadata: Promise.all.
MetadataAsked(r) ==
    /\ load.validator
    /\ Handling(r, "metadata")
    /\ Goto(r, "metadata")
    /\ halves' = [halves EXCEPT ![r] = <<"open", "open">>]
    /\ UNCHANGED <<answer, received, identity, wallet, ops>>

\* A half is answered or fails; it may do so after the request was answered.
HalfSettles(r, h) ==
    /\ halves[r] # << >>
    /\ halves[r][h] = "open"
    /\ \E result \in {"ok", "failed"} : halves' = [halves EXCEPT ![r][h] = result]
    /\ UNCHANGED <<req, answer, received, identity, wallet, ops>>

MetadataSent(r) ==
    /\ At(r, "metadata")
    /\ halves[r] = <<"ok", "ok">>
    /\ Replies(r, 200)
    /\ Quiet

\* Seeded error: the handler waits for both halves before it gives up.
MetadataFailed_AllSettled(r) ==
    /\ At(r, "metadata")
    /\ "failed" \in {halves[r][1], halves[r][2]} /\ "open" \notin {halves[r][1], halves[r][2]}
    /\ Replies(r, 502)
    /\ Quiet

MetadataFailed(r) ==
    /\ At(r, "metadata")
    /\ "failed" \in {halves[r][1], halves[r][2]}
    /\ Replies(r, 502)
    /\ Quiet

Metadata(r) ==
    Config(r) \/ MetadataUnconfigured(r) \/ MetadataAsked(r) \/ MetadataSent(r) \/ MetadataFailed(r)

-----------------------------------------------------------------------------
\* What the server does for the request in slot r.
Serve(r) ==
    \/ SchemaRefused(r) \/ Unauthorized(r) \/ Services(r) \/ Accounts(r)
    \/ Wallet(r) \/ Administration(r) \/ Metadata(r)

Next ==
    /\ UNCHANGED load
    /\ \E r \in Requests :
         \/ \E route \in load.routes, header \in Users \cup {None} : Receive(r, route, header)
         \/ Serve(r)
         \/ \E h \in {1, 2} : HalfSettles(r, h)

\* The runtime resumes what can go on.  Of the validator nothing is assumed.
Spec == Init /\ [][Next]_vars /\ \A r \in Requests : WF_vars(Serve(r) /\ UNCHANGED load)

-----------------------------------------------------------------------------
(* Properties.                                                             *)

Statuses == {200, 201, 400, 401, 403, 404, 500, 502}
Stages == {"idle", "received", "login", "wallet", "admin", "metadata"}

\* Type invariant.
TypeOK ==
    /\ load \in Loads
    /\ req \in [Requests -> [stage : Stages, route : Routes \cup {"none"},
                             caller : Users \cup Externals \cup {None}, id : Nat]]
    /\ answer \in [Requests -> {0} \cup Statuses]
    /\ received \in Nat
    /\ role \in [Users -> {"none", "user", "admin"}]
    /\ userOf \in [Externals -> Users \cup {None}]
    /\ session \in BOOLEAN
    /\ jobs \in Seq([kind : {"adapter", "handler"}, req : Requests])
    /\ halves \in [Requests -> {<< >>} \cup ({"open", "ok", "failed"} \X {"open", "ok", "failed"})]
    /\ errors \in Seq(Nat)
    /\ commands \in Seq({"wallet_connect", "wallet_disconnect"})
    /\ failures \in Seq(Nat)

Least(m, n) == IF m <= n THEN m ELSE n

\* The error buffer holds the newest failures, newest first, and as many as it
\* can: what the operations page lists is the end of what happened.
ErrorsAreNewest == errors = SubSeq(failures, 1, Least(Len(failures), Capacity))

\* The newest microtask that will record a command, or the newest command.
Recording == {i \in DOMAIN jobs :
    jobs[i].kind = "handler" /\ req[jobs[i].req].route \in {"connect", "disconnect"}}

LastCommand ==
    IF Recording # {} THEN req[jobs[CHOOSE i \in Recording : \A j \in Recording : j <= i].req].route
    ELSE IF commands = << >> THEN "disconnect"
    ELSE IF commands[1] = "wallet_connect" THEN "connect" ELSE "disconnect"

\* The log of commands and the wallet agree whatever requests overlap: the
\* command recorded last, once those under way are recorded, is the one the
\* session follows from.
CommandLogTellsSession == session = (LastCommand = "connect")

\* Who is answered 200 by a wallet route, whose answer comes two microtasks after
\* the hook, passed that hook; who is so answered by a route of administration is
\* an administrator when the answer is sent.
AnswersAreAuthorised ==
    [][\A r \in Requests : answer'[r] = 200 /\ answer[r] = 0 =>
         /\ req[r].route \in Admin =>
              req[r].caller \in Users /\ role[req[r].caller] = "admin"
         /\ req[r].route \in WalletRoutes => req[r].caller # None]_vars

\* A request is answered, unless it is one for metadata of which a half is open
\* and none has failed: one failed half is enough for an answer.
RequestsAnswered ==
    \A r \in Requests :
        (answer[r] = 0 /\ ~At(r, "idle")) ~>
            \/ answer[r] # 0
            \/ At(r, "metadata") /\ "open" \in {halves[r][1], halves[r][2]}
                 /\ "failed" \notin {halves[r][1], halves[r][2]}

=============================================================================
