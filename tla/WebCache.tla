------------------------------- MODULE WebCache -------------------------------
(***************************************************************************)
(* One browser tab of apps/web: who is signed in, the page shown, the      *)
(* query cache behind its hooks, and the calls the user has made.          *)
(*                                                                         *)
(* The cache is the library's; its rules are the part of it that the hooks *)
(* rely on.  Server data has two versions: before and after the one change *)
(* that a call of the user makes.  The primary party of a user stays       *)
(* (PartyIdentity), so queries about a party are named by its user.        *)
(* Queries of one page that have the same shape stand as one: holdings and *)
(* balances, the two of the network page, the five of the operations page. *)
(***************************************************************************)
EXTENDS Naturals, Sequences

CONSTANTS
    Users,        \* user ids; the token of a user is its id
    Deals,
    None,
    Visits        \* bound: what a behaviour is about: its pages, its users, and the
                  \* number of actions of the user

VARIABLES
    visit,        \* one of Visits
    page,         \* <<route, parameter>>
    user,         \* AuthContext: userId, and token
    stored,       \* localStorage
    cache,        \* cache[k]: the entry of query key k
    calls,        \* mutations under way, in the order they were made
    changed,      \* server: the keys whose data is "after"
    told,         \* history: changes that were answered to the page as it is shown
    moves

vars == <<visit, page, user, stored, cache, calls, changed, told, moves>>

-----------------------------------------------------------------------------
(* Query keys and the hooks that use them.                                 *)

Key(name, of) == <<name, of>>
WalletKey == Key("wallet", "")
NetworkKey == Key("network", "")
Keys == {WalletKey, NetworkKey} \cup {"user", "primary", "holdings", "ops"} \X Users
        \cup {"deal"} \X Deals

Plain == {<<name, "">> : name \in {"home", "connect", "dashboard", "wallet", "tokens",
                                   "swaps", "quote", "network", "ops"}}
Pages == Plain \cup {"deal"} \X Deals

ASSUME WebAssumption ==
    /\ None \notin Users \cup Deals \cup {"before", "after"}
    /\ "" \notin Users
    /\ \A v \in Visits : v.users \subseteq Users /\ v.pages \subseteq Pages /\ v.moves \in Nat

Missing == [data |-> None, old |-> FALSE, failed |-> FALSE, fetch |-> "idle"]

\* Each hook: the keys it watches while its query is enabled, for user u.
useUser(u) == IF u = None THEN {} ELSE {Key("user", u)}
usePrimaryParty(u) == IF u = None THEN {} ELSE {Key("primary", u)}
useTokens(u, c) ==
    IF u = None \/ c[Key("primary", u)].data = None THEN {} ELSE {Key("holdings", u)}
useWalletSession(u) == IF u = None THEN {} ELSE {WalletKey}
useOps(u) == IF u = None THEN {} ELSE {Key("ops", u)}
useDeal(p, u) == IF u = None THEN {} ELSE {p}
useNetwork == {NetworkKey}

\* The keys that page p watches when u is signed in.
Watched(p, u, c) ==
    CASE p[1] = "dashboard" -> useUser(u) \cup usePrimaryParty(u)
      [] p[1] = "wallet" -> useWalletSession(u)
      [] p[1] = "tokens" -> usePrimaryParty(u) \cup useTokens(u, c)
      [] p[1] = "deal" -> useDeal(p, u)
      [] p[1] = "network" -> useNetwork
      [] p[1] = "ops" -> useOps(u)
      [] OTHER -> {}

Watching == Watched(page, user, cache)

-----------------------------------------------------------------------------
(* The query cache.                                                        *)

Ask(e) == [e EXCEPT !.fetch = "asked", !.failed = @ /\ e.data # None]

\* A query that is under way is shared.
Begin(e) == IF e.fetch = "idle" THEN Ask(e) ELSE e

\* An observer of an enabled query appears.
Observe(e) == IF e.data = None \/ e.old THEN Begin(e) ELSE e

Observed(c, ks) == [k \in Keys |-> IF k \in ks THEN Observe(c[k]) ELSE c[k]]

\* Seeded error: a query that is enabled after its page has appeared is not.
Rendered_Mounted(was, new, c) == IF was = {} THEN Observed(c, new) ELSE c

\* What a render enables is observed; `new` may enable more than `was`.
Rendered(was, new, c) == Observed(c, new \ was)

\* Data that is there is asked for anew, and an answer under way is dropped.
Refetch(e) == IF e.data # None THEN Ask(e) ELSE Begin(e)

\* Seeded error: an answer under way is taken as the new data.
Invalidated_Shared(e, active) ==
    LET marked == [e EXCEPT !.old = TRUE] IN IF active THEN Begin(marked) ELSE marked

\* invalidateQueries: what a page watches is refetched at once.
Invalidated(e, active) ==
    LET marked == [e EXCEPT !.old = TRUE] IN IF active THEN Refetch(marked) ELSE marked

-----------------------------------------------------------------------------
(* Pages.                                                                  *)

IsLoading(k) == cache[k].data = None /\ ~cache[k].failed /\ cache[k].fetch # "idle"

\* What a page shows of its main query, in the order in which pages test it.
Shows(k) ==
    IF IsLoading(k) THEN "loading"
    ELSE IF cache[k].failed THEN "error"
    ELSE IF cache[k].data = None THEN "blank"
    ELSE "data"

DashboardPage == IF user = None THEN "signed out" ELSE Shows(Key("user", user))

WalletPage == IF user = None THEN "signed out" ELSE Shows(WalletKey)

TokensPage ==
    IF user = None THEN "signed out"
    ELSE IF cache[Key("primary", user)].data = None THEN "no party"
    ELSE Shows(Key("holdings", user))

OpsPage == IF user = None THEN "signed out" ELSE Shows(Key("ops", user))
NewQuotePage == IF user = None THEN "signed out" ELSE "static"
DealPage == Shows(page)
NetworkPage == Shows(NetworkKey)

View ==
    CASE page[1] = "dashboard" -> DashboardPage
      [] page[1] = "wallet" -> WalletPage
      [] page[1] = "tokens" -> TokensPage
      [] page[1] = "ops" -> OpsPage
      [] page[1] = "quote" -> NewQuotePage
      [] page[1] = "deal" -> DealPage
      [] page[1] = "network" -> NetworkPage
      [] OTHER -> "static"

\* ConnectPage: a user who is signed in goes to the dashboard.
Redirected(p, u) == IF p[1] = "connect" /\ u # None THEN <<"dashboard", "">> ELSE p

Abandon(s) == [i \in DOMAIN s |-> [s[i] EXCEPT !.here = FALSE]]

\* The page becomes p for user u.  What is mounted anew observes its queries;
\* the mutations of a page that goes, or of the quote form, which is there only
\* for a user, are no longer pending there.
Enter(p, u, c, left) ==
    LET q == Redirected(p, u)
        was == IF q = page THEN Watching ELSE {}
        stays == q = page /\ (page[1] = "quote" => u # None)
    IN  /\ page' = q
        /\ user' = u
        /\ cache' = Rendered(was, Watched(q, u, c), c)
        /\ calls' = IF stays THEN left ELSE Abandon(left)
        /\ told' = IF q = page /\ u = user THEN told ELSE {}

-----------------------------------------------------------------------------
(* The user.                                                               *)

\* The tab is loaded: AuthProvider takes the user u from localStorage.
LoadedCache(p, u) ==
    LET c == [k \in Keys |-> Missing] IN Observed(c, Watched(Redirected(p, u), u, c))

Init ==
    /\ visit \in Visits
    /\ stored \in visit.users \cup {None}
    /\ user = stored
    /\ \E p \in visit.pages : page = Redirected(p, user) /\ cache = LoadedCache(p, user)
    /\ calls = << >>
    /\ changed = {}
    /\ told = {}
    /\ moves = 0

Move == moves < visit.moves /\ moves' = moves + 1 /\ UNCHANGED visit

\* A Link of the shell or of a page.
Go(p) ==
    /\ Move
    /\ p # page
    /\ Enter(p, user, cache, calls)
    /\ UNCHANGED <<stored, changed>>

Reload ==
    /\ Move
    /\ user' = stored
    /\ page' = Redirected(page, stored)
    /\ cache' = LoadedCache(page, stored)
    /\ calls' = << >>
    /\ told' = {}
    /\ UNCHANGED <<stored, changed>>

\* clearAuth.
SignOut ==
    /\ Move
    /\ user # None
    /\ Enter(page, None, cache, calls)
    /\ stored' = None
    /\ UNCHANGED changed

Pending(op) == \E i \in DOMAIN calls : calls[i].op = op /\ calls[i].here

\* mutate, from a button that is disabled while its mutation is pending.
Submit(op, on) ==
    /\ Move
    /\ ~Pending(op)
    /\ calls' = Append(calls, [op |-> op, on |-> on, stage |-> "sent", here |-> TRUE])
    /\ UNCHANGED <<page, user, stored, cache, changed, told>>

Login == page[1] = "connect" /\ \E u \in visit.users : Submit("login", Key("user", u))

\* The wallet page offers it while it shows no session.
ConnectWallet ==
    /\ page[1] = "wallet" /\ View = "data"
    /\ cache[WalletKey].data = "before"
    /\ Submit("connect", WalletKey)

RequestQuote == page[1] = "quote" /\ View = "static" /\ Submit("quote", Key("quotes", ""))

\* The deal page offers it in the states that admit it.
CancelDeal ==
    /\ page[1] = "deal" /\ View = "data"
    /\ cache[page].data = "before"
    /\ Submit("cancel", page)

\* The query that an ErrorState of the page asks for anew: the main one, and on the
\* dashboard that of the primary party.
Retriable ==
    LET main == CASE page[1] = "dashboard" -> Key("user", user)
                  [] page[1] = "wallet" -> WalletKey
                  [] page[1] = "tokens" -> Key("holdings", user)
                  [] page[1] = "ops" -> Key("ops", user)
                  [] page[1] = "network" -> NetworkKey
                  [] OTHER -> page
    IN  {k \in Keys : \/ View = "error" /\ k = main
                      \/ /\ page[1] = "dashboard" /\ View = "data"
                         /\ k = Key("primary", user) /\ cache[k].failed}

Retry ==
    /\ Move
    /\ \E k \in Retriable : cache' = [cache EXCEPT ![k] = Refetch(@)]
    /\ UNCHANGED <<page, user, stored, calls, changed, told>>

\* The window gets the focus: what is old and watched is asked for.
Focus ==
    /\ Move
    /\ cache' = Observed(cache, Watching)
    /\ cache' # cache
    /\ UNCHANGED <<page, user, stored, calls, changed, told>>

Act ==
    \/ \E p \in visit.pages : Go(p)
    \/ Reload \/ SignOut \/ Login \/ ConnectWallet \/ RequestQuote \/ CancelDeal
    \/ Retry \/ Focus

-----------------------------------------------------------------------------
(* The API and the clock.                                                  *)

Outcomes == {"before", "after", "failed"}

\* A query is answered with what the server has then, or it fails.
Served(k) ==
    /\ cache[k].fetch = "asked"
    /\ \E result \in {IF k \in changed THEN "after" ELSE "before", "failed"} :
         cache' = [cache EXCEPT ![k].fetch = result]
    /\ UNCHANGED <<visit, page, user, stored, calls, changed, told, moves>>

\* Seeded error: a query that fails is asked again for ever.
Taken_Retried(k) ==
    /\ cache[k].fetch \in Outcomes
    /\ LET e == cache[k]
           c == [cache EXCEPT ![k] =
                   IF e.fetch = "failed" THEN [e EXCEPT !.fetch = "asked"]
                   ELSE [data |-> e.fetch, old |-> FALSE, failed |-> FALSE, fetch |-> "idle"]]
       IN  cache' = Rendered(Watching, Watched(page, user, c), c)
    /\ UNCHANGED <<visit, page, user, stored, calls, changed, told, moves>>

\* The answer is taken: data that comes is new, and may enable other queries.
Taken(k) ==
    /\ cache[k].fetch \in Outcomes
    /\ LET e == cache[k]
           c == [cache EXCEPT ![k] =
                   IF e.fetch = "failed" THEN [e EXCEPT !.failed = TRUE, !.fetch = "idle"]
                   ELSE [data |-> e.fetch, old |-> FALSE, failed |-> FALSE, fetch |-> "idle"]]
       IN  cache' = Rendered(Watching, Watched(page, user, c), c)
    /\ UNCHANGED <<visit, page, user, stored, calls, changed, told, moves>>

\* staleTime: thirty seconds, ten on the operations page.
Expires(k) ==
    /\ cache[k].data # None /\ ~cache[k].old
    /\ cache' = [cache EXCEPT ![k].old = TRUE]
    /\ UNCHANGED <<visit, page, user, stored, calls, changed, told, moves>>

\* The server executes a call, or refuses it.
Executed(i) ==
    /\ calls[i].stage = "sent"
    /\ \/ /\ calls' = [calls EXCEPT ![i].stage = "done"]
          /\ changed' = IF calls[i].op \in {"connect", "cancel"}
                        THEN changed \cup {calls[i].on} ELSE changed
       \/ /\ calls' = [calls EXCEPT ![i].stage = "failed"]
          /\ UNCHANGED changed
    /\ UNCHANGED <<visit, page, user, stored, cache, told, moves>>

Without(i) == [j \in 1..(Len(calls) - 1) |-> IF j < i THEN calls[j] ELSE calls[j + 1]]

\* Seeded error: the whole answer is stored, not the id in it.
LoginAnswered_Whole(i) ==
    /\ calls[i].op = "login"
    /\ Enter(page, calls[i].on[2], cache, Without(i))
    /\ stored' = calls[i].on

\* useLogin: setAuth, on whatever page the tab is by now.
LoginAnswered(i) ==
    /\ calls[i].op = "login"
    /\ Enter(page, calls[i].on[2], cache, Without(i))
    /\ stored' = calls[i].on[2]

\* useConnectWallet invalidates ["wallet"].
ConnectAnswered(i) ==
    /\ calls[i].op = "connect"
    /\ cache' = [cache EXCEPT ![WalletKey] = Invalidated(@, WalletKey \in Watching)]
    /\ calls' = Without(i)
    /\ told' = IF WalletKey \in Watching THEN told \cup {WalletKey} ELSE told
    /\ UNCHANGED <<page, user, stored>>

\* Seeded error: the form's callback is the mutation's own.
QuoteAnswered_Anywhere(i) ==
    /\ calls[i].op = "quote"
    /\ Enter(<<"swaps", "">>, user, cache, Without(i))
    /\ UNCHANGED stored

\* useRequestQuote invalidates ["quotes"], which no query has; a form that is
\* still there goes to the swaps.
QuoteAnswered(i) ==
    /\ calls[i].op = "quote"
    /\ Enter(IF calls[i].here THEN <<"swaps", "">> ELSE page, user, cache, Without(i))
    /\ UNCHANGED stored

\* useCancelDeal invalidates ["deals"], which no query has either.
CancelAnswered(i) ==
    /\ calls[i].op = "cancel"
    /\ calls' = Without(i)
    /\ UNCHANGED <<page, user, stored, cache, told>>

Refused(i) == calls' = Without(i) /\ UNCHANGED <<page, user, stored, cache, told>>

Answered(i) ==
    /\ \/ /\ calls[i].stage = "done"
          /\ \/ LoginAnswered(i) \/ ConnectAnswered(i)
             \/ QuoteAnswered(i) \/ CancelAnswered(i)
       \/ calls[i].stage = "failed" /\ Refused(i)
    /\ UNCHANGED <<visit, changed, moves>>

Next ==
    \/ Act
    \/ \E k \in Keys : Served(k) \/ Taken(k) \/ Expires(k)
    \/ \E i \in DOMAIN calls : Executed(i) \/ Answered(i)

\* The tab takes the answers that come.  The API answers (ApiServer), but for the
\* metadata of the network page: its validator may keep that open for ever.
Spec ==
    /\ Init /\ [][Next]_vars
    /\ \A k \in Keys \ {NetworkKey} : WF_vars(Served(k))
    /\ \A k \in Keys : WF_vars(Taken(k))

-----------------------------------------------------------------------------
(* Properties.                                                             *)

Call == [op : {"login", "connect", "quote", "cancel"}, on : Keys \cup {Key("quotes", "")},
         stage : {"sent", "done", "failed"}, here : BOOLEAN]

Entry == [data : {None, "before", "after"}, old : BOOLEAN, failed : BOOLEAN,
          fetch : {"idle", "asked"} \cup Outcomes]

\* Type invariant.
TypeOK ==
    /\ visit \in Visits
    /\ page \in Pages
    /\ user \in Users \cup {None}
    /\ stored \in Users \cup {None}
    /\ cache \in [Keys -> Entry]
    /\ calls \in Seq(Call)
    /\ changed \subseteq Keys
    /\ told \subseteq Keys
    /\ moves \in Nat

\* A page never stays empty: a query that becomes enabled late, because the
\* user or the party it is about is known only then, is asked for.
NeverBlank == user # None => View # "blank"

\* While the wallet page that heard of a new session stays, it is never shown the
\* time before as the present, whatever queries overlapped the call.
OwnChangeShown ==
    \A k \in told : cache[k].fetch = "idle" /\ ~cache[k].old => cache[k].data = "after"

\* Answers that come late neither take the user away from another page nor
\* replace the user; only a login whose form was left can do that.
LateAnswersHarmless ==
    [][\A i \in DOMAIN calls : Answered(i) =>
         /\ page' # page => page[1] \in {"connect", "quote"}
         /\ user \notin {None, user'} => ~calls[i].here]_vars

\* A page that is loading comes to show something else, or is left, whatever else
\* the user and the clock do to its queries; but not the network page, which waits
\* for as long as the validator does.
LoadingEnds ==
    \A p \in Pages \ {NetworkKey} :
        (page = p /\ View = "loading") ~> (page # p \/ View # "loading")

=============================================================================
