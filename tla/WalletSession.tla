---------------------------- MODULE WalletSession ----------------------------
(***************************************************************************)
(* A wallet adapter and the components of a page that use it through the   *)
(* hooks useWalletConnection and useWalletSession.                         *)
(*                                                                         *)
(* Every method of the adapter first waits for a timer of the same length. *)
(* Such timers run out in the order in which they were started, and the    *)
(* code that waits for an answer runs before the next timer does, so       *)
(* `timers` is a queue and one step is a whole turn of the event loop: the *)
(* body of the method, the event handlers it calls, and what the hook does *)
(* with the answer.  The two SDK adapters are stubs: they reject instead.  *)
(***************************************************************************)
EXTENDS Naturals, Sequences

CONSTANTS
    Components,   \* components that use both hooks
    Adapters,     \* which adapters the page may be given: {"mock", "stub"}
    Session,      \* the session a mock adapter creates
    None,
    MaxClicks     \* bound: mounts, unmounts and calls by the user

ASSUME WalletAssumption ==
    /\ Session # None
    /\ None \notin Components
    /\ Adapters \subseteq {"mock", "stub"}
    /\ MaxClicks \in Nat

VARIABLES
    adapter,      \* the adapter the page was given
    session,      \* the adapter's session
    timers,       \* method calls that wait, oldest first
    mounted,      \* mounted components, in the order they subscribed
    ui,           \* ui[c]: the state of c's two hooks
    clicks,
    foreign       \* history: another component has connected or disconnected
                  \* since c was mounted

vars == <<adapter, session, timers, mounted, ui, clicks, foreign>>

Operations == {"connect", "disconnect", "refresh", "detect"}
Call(op, c) == [op |-> op, by |-> c]
IsMounted(c) == \E i \in DOMAIN mounted : mounted[i] = c

\* useState of the two hooks.
Fresh == [connection |-> None, isConnecting |-> FALSE, connectError |-> FALSE,
          shown |-> None, isLoading |-> TRUE, loadError |-> FALSE]

Init ==
    /\ adapter \in Adapters
    /\ session = None
    /\ timers = << >>
    /\ mounted = << >>
    /\ ui = [c \in Components |-> Fresh]
    /\ clicks = 0
    /\ foreign = [c \in Components |-> FALSE]

Click == clicks < MaxClicks /\ clicks' = clicks + 1

-----------------------------------------------------------------------------
(* What the user and the page do.                                          *)

\* The effects of both hooks: detect, refresh, and two subscriptions.
Mount(c) ==
    /\ Click
    /\ ~IsMounted(c)
    /\ mounted' = Append(mounted, c)
    /\ ui' = [ui EXCEPT ![c] = Fresh]
    /\ foreign' = [foreign EXCEPT ![c] = FALSE]
    /\ timers' = timers \o <<Call("detect", c), Call("refresh", c)>>
    /\ UNCHANGED <<adapter, session>>

\* Subscriptions end; answers still to come set the state of nothing.
Orphaned(c, call) == IF call.by = c THEN [call EXCEPT !.by = None] ELSE call

Unmount(c) ==
    /\ Click
    /\ \E i \in DOMAIN mounted :
          /\ mounted[i] = c
          /\ mounted' = SubSeq(mounted, 1, i - 1) \o SubSeq(mounted, i + 1, Len(mounted))
    /\ timers' = [i \in DOMAIN timers |-> Orphaned(c, timers[i])]
    /\ UNCHANGED <<adapter, session, ui, foreign>>

Connect(c) ==
    /\ Click
    /\ IsMounted(c)
    /\ ui' = [ui EXCEPT ![c].isConnecting = TRUE, ![c].connectError = FALSE]
    /\ timers' = Append(timers, Call("connect", c))
    /\ UNCHANGED <<adapter, session, mounted, foreign>>

Disconnect(c) ==
    /\ Click
    /\ IsMounted(c)
    /\ ui' = [ui EXCEPT ![c].connectError = FALSE]
    /\ timers' = Append(timers, Call("disconnect", c))
    /\ UNCHANGED <<adapter, session, mounted, foreign>>

Loading(s) == [s EXCEPT !.isLoading = TRUE, !.loadError = FALSE]

Refresh(c) ==
    /\ Click
    /\ IsMounted(c)
    /\ ui' = [ui EXCEPT ![c] = Loading(@)]
    /\ timers' = Append(timers, Call("refresh", c))
    /\ UNCHANGED <<adapter, session, mounted, foreign>>

-----------------------------------------------------------------------------
(* The oldest call is answered.                                            *)

Caller == Head(timers).by
Due(op) == timers # << >> /\ Head(timers).op = op

\* Another component's connect or disconnect changes nothing in c's
\* useWalletConnection.
NoteForeign == [c \in Components |-> foreign[c] \/ (IsMounted(c) /\ c # Caller)]

\* connect: the session is set and every subscriber of "connect" refreshes,
\* then the caller stores the connection.
AfterConnect(c, s) ==
    IF c = Caller THEN [s EXCEPT !.connection = Session, !.isConnecting = FALSE] ELSE s

ConnectFires ==
    /\ adapter = "mock"
    /\ Due("connect")
    /\ session' = Session
    /\ timers' = Tail(timers) \o [i \in DOMAIN mounted |-> Call("refresh", mounted[i])]
    /\ ui' = [c \in Components |->
                AfterConnect(c, IF IsMounted(c) THEN Loading(ui[c]) ELSE ui[c])]
    /\ foreign' = NoteForeign
    /\ UNCHANGED <<adapter, mounted, clicks>>

ConnectRejected ==
    /\ adapter = "stub"
    /\ Due("connect")
    /\ timers' = Tail(timers)
    /\ ui' = [c \in Components |-> IF c = Caller
                THEN [ui[c] EXCEPT !.connectError = TRUE, !.isConnecting = FALSE]
                ELSE ui[c]]
    /\ UNCHANGED <<adapter, session, mounted, clicks, foreign>>

\* Seeded error: the caller keeps its connection.
AfterDisconnect_Kept(c, s) == s

\* disconnect: every subscriber of "disconnect" forgets the session, then the
\* caller forgets its connection.
AfterDisconnect(c, s) == IF c = Caller THEN [s EXCEPT !.connection = None] ELSE s

\* Seeded error: nothing is subscribed to "disconnect".
Forget_Missing(s) == s

Forget(s) == [s EXCEPT !.shown = None]

DisconnectFires ==
    /\ Due("disconnect")
    /\ session' = None
    /\ timers' = Tail(timers)
    /\ ui' = [c \in Components |->
                AfterDisconnect(c, IF IsMounted(c) THEN Forget(ui[c]) ELSE ui[c])]
    /\ foreign' = NoteForeign
    /\ UNCHANGED <<adapter, mounted, clicks>>

\* Seeded error: only a refresh that succeeds ends the loading.
Loaded_Busy(s) == [s EXCEPT !.isLoading = (adapter = "stub"),
                            !.shown = IF adapter = "mock" THEN session ELSE @,
                            !.loadError = (adapter = "stub")]

\* getSession for refresh: what the adapter has is shown; a rejection is an
\* error and leaves what was shown.
Loaded(s) == [s EXCEPT !.isLoading = FALSE,
                       !.shown = IF adapter = "mock" THEN session ELSE @,
                       !.loadError = (adapter = "stub")]

RefreshFires ==
    /\ Due("refresh")
    /\ timers' = Tail(timers)
    /\ ui' = [c \in Components |-> IF c = Caller THEN Loaded(ui[c]) ELSE ui[c]]
    /\ UNCHANGED <<adapter, session, mounted, clicks, foreign>>

\* detectSession for useWalletConnection: only a session that exists is stored,
\* a rejection is ignored.
Detected(s) == IF adapter = "mock" /\ session # None
               THEN [s EXCEPT !.connection = session] ELSE s

DetectFires ==
    /\ Due("detect")
    /\ timers' = Tail(timers)
    /\ ui' = [c \in Components |-> IF c = Caller THEN Detected(ui[c]) ELSE ui[c]]
    /\ UNCHANGED <<adapter, session, mounted, clicks, foreign>>

Fire == ConnectFires \/ ConnectRejected \/ DisconnectFires \/ RefreshFires \/ DetectFires

User(c) == Mount(c) \/ Unmount(c) \/ Connect(c) \/ Disconnect(c) \/ Refresh(c)

Next == Fire \/ \E c \in Components : User(c)

\* Timers run out.
Spec == Init /\ [][Next]_vars /\ WF_vars(Fire)

-----------------------------------------------------------------------------
(* Properties.                                                             *)

Sessions == {Session, None}

UiState == [connection : Sessions, isConnecting : BOOLEAN, connectError : BOOLEAN,
            shown : Sessions, isLoading : BOOLEAN, loadError : BOOLEAN]

\* Type invariant.
TypeOK ==
    /\ adapter \in Adapters
    /\ session \in Sessions
    /\ timers \in Seq([op : Operations, by : Components \cup {None}])
    /\ mounted \in Seq(Components)
    /\ ui \in [Components -> UiState]
    /\ clicks \in Nat
    /\ foreign \in [Components -> BOOLEAN]

Waiting(op, c) == \E i \in DOMAIN timers : timers[i] = Call(op, c)

\* What a component shows is what the adapter has, or a refresh of that
\* component is on its way.  (useWalletSession, whatever overlaps.)
ShownOrRefreshing ==
    \A c \in Components :
        IsMounted(c) => ui[c].shown = session \/ Waiting("refresh", c)

\* With nothing under way, the connection of a component that was the only one
\* to connect and disconnect since it was mounted is the adapter's session: a
\* call of an earlier life of the component, or its own detectSession, never
\* has the last word.  (useWalletConnection subscribes to no event, so what
\* others do it does not see.)
ConnectionAgreesAlone ==
    timers = << >> => \A c \in Components :
        IsMounted(c) /\ ~foreign[c] => ui[c].connection = session

\* A spinner has a call behind it: neither hook stays busy after its last call
\* was answered or rejected.
SpinnersHaveCalls ==
    \A c \in Components : IsMounted(c) =>
        /\ ui[c].isConnecting => Waiting("connect", c)
        /\ ui[c].isLoading => Waiting("refresh", c)

\* A component that loads comes to rest, showing what the adapter has at that
\* moment, or an error, or it is unmounted.
LoadingEnds ==
    \A c \in Components :
        (IsMounted(c) /\ ui[c].isLoading) ~>
            \/ ~IsMounted(c)
            \/ ~ui[c].isLoading /\ (ui[c].loadError \/ ui[c].shown = session)

=============================================================================
