---------------------------- MODULE WebCache_proofs ----------------------------
(***************************************************************************)
(* Proofs about WebCache, for any number of users, deals and actions.      *)
(***************************************************************************)
EXTENDS WebCache, SequenceTheorems, TLAPS

People == Users \cup {None}
Caches == [Keys -> Entry]

\* An entry that a page may show: it has data or an error, or it is asked for.
Asked(e) == e.data = None => e.failed \/ e.fetch # "idle"

\* Call x of the user, when pg is shown, c is cached and ch has changed.
CallFits(x, pg, c, ch) ==
  /\ x.op = "connect" =>
       /\ x.on = WalletKey
       /\ c[WalletKey].data # None
       /\ x.stage = "done" => WalletKey \in ch
  /\ x.op = "cancel" => x.on \in Keys
  /\ x.op = "login" => \E u \in Users : x.on = Key("user", u)
  /\ x.here => /\ x.op = "login" => pg[1] = "connect"
               /\ x.op = "quote" => pg[1] = "quote"

\* The page was told of a change of k: what is new in the cache is from after it,
\* and so is what comes.
ToldFits(k, c, ch) ==
  /\ k \in ch
  /\ c[k].data # None
  /\ c[k].fetch # "before"
  /\ ~c[k].old => c[k].data = "after"

WebInv ==
  /\ TypeOK
  /\ page[1] = "connect" => user = None
  /\ \A k \in Watching : Asked(cache[k])
  /\ \A i \in DOMAIN calls : CallFits(calls[i], page, cache, changed)
  /\ \A k \in told : ToldFits(k, cache, changed)

-----------------------------------------------------------------------------
(* Keys, pages and what they watch.                                        *)

LEMMA KeyMembers ==
  /\ WalletKey \in Keys /\ NetworkKey \in Keys
  /\ \A u \in Users : /\ Key("user", u) \in Keys /\ Key("primary", u) \in Keys
                      /\ Key("holdings", u) \in Keys /\ Key("ops", u) \in Keys
  /\ \A d \in Deals : Key("deal", d) \in Keys
  BY DEF Keys, Key

LEMMA DealPages == \A p \in Pages : p[1] = "deal" => p \in Keys
  <1>1. ASSUME NEW p \in Plain PROVE p[1] # "deal"
    <2>1. PICK name \in {"home", "connect", "dashboard", "wallet", "tokens", "swaps",
                         "quote", "network", "ops"} : p = <<name, "">>
      BY Zenon DEF Plain
    <2>2. p[1] = name
      BY <2>1
    <2>3. QED
      BY <2>1, <2>2
  <1>2. QED
    BY <1>1 DEF Pages, Keys

LEMMA Redirection ==
  ASSUME NEW p \in Pages, NEW u
  PROVE  /\ Redirected(p, u) \in Pages
         /\ Redirected(p, u)[1] = "connect" => u = None
         /\ Redirected(p, u) # p => p[1] = "connect"
  <1>1. <<"dashboard", "">> \in Pages
    BY DEF Pages, Plain
  <1>2. QED
    BY <1>1 DEF Redirected

LEMMA WatchedKeys ==
  ASSUME NEW p \in Pages, NEW u \in People, NEW c
  PROVE  Watched(p, u, c) \subseteq Keys
  BY KeyMembers, DealPages
     DEF Watched, useUser, usePrimaryParty, useTokens, useWalletSession, useOps, useDeal,
         useNetwork, People

\* What is watched depends on the data that is there and on nothing else.
LEMMA WatchedByData ==
  ASSUME NEW p, NEW u \in People, NEW c, NEW c2,
         \A k \in Keys : c2[k].data = c[k].data
  PROVE  Watched(p, u, c2) = Watched(p, u, c)
  <1>1. useTokens(u, c2) = useTokens(u, c)
    BY KeyMembers DEF useTokens, People
  <1>2. QED
    BY <1>1, Zenon DEF Watched

-----------------------------------------------------------------------------
(* The cache.                                                              *)

LEMMA MissingEntry == Missing \in Entry
  BY DEF Missing, Entry, Outcomes

\* Asking again changes no data, and ends with a query under way.
LEMMA Asking ==
  ASSUME NEW e \in Entry
  PROVE  /\ Ask(e) \in Entry /\ Ask(e).data = e.data /\ Ask(e).old = e.old
         /\ Ask(e).fetch = "asked"
         /\ Begin(e) \in Entry /\ Begin(e).data = e.data /\ Begin(e).old = e.old
         /\ Begin(e).fetch # "idle" /\ Begin(e).fetch \in {e.fetch, "asked"}
         /\ Refetch(e) \in Entry /\ Refetch(e).data = e.data /\ Refetch(e).old = e.old
         /\ Refetch(e).fetch # "idle" /\ Refetch(e).fetch \in {e.fetch, "asked"}
         /\ e.data # None => Refetch(e).fetch = "asked"
  <1>1. Ask(e) \in Entry /\ Ask(e).data = e.data /\ Ask(e).old = e.old /\ Ask(e).fetch = "asked"
    BY DEF Ask, Entry
  <1>2. Begin(e) \in {e, Ask(e)} /\ (e.fetch = "idle" => Begin(e) = Ask(e))
    BY DEF Begin
  <1>3. Refetch(e) = IF e.data # None THEN Ask(e) ELSE Begin(e)
    BY DEF Refetch
  <1>4. QED
    BY <1>1, <1>2, <1>3

LEMMA Observing ==
  ASSUME NEW e \in Entry
  PROVE  /\ Observe(e) \in Entry /\ Observe(e).data = e.data /\ Observe(e).old = e.old
         /\ Observe(e).fetch \in {e.fetch, "asked"}
         /\ Asked(Observe(e))
  <1>1. Observe(e) = IF e.data = None \/ e.old THEN Begin(e) ELSE e
    BY DEF Observe
  <1>2. QED
    BY <1>1, Asking DEF Asked

LEMMA Invalidating ==
  ASSUME NEW e \in Entry, NEW active \in BOOLEAN
  PROVE  /\ Invalidated(e, active) \in Entry
         /\ Invalidated(e, active).data = e.data /\ Invalidated(e, active).old
         /\ Invalidated(e, active).fetch \in {e.fetch, "asked"}
         /\ active /\ e.data # None => Invalidated(e, active).fetch = "asked"
         /\ active => Asked(Invalidated(e, active))
  <1> DEFINE marked == [e EXCEPT !.old = TRUE]
  <1>1. marked \in Entry /\ marked.data = e.data /\ marked.old /\ marked.fetch = e.fetch
    BY DEF Entry
  <1>2. Invalidated(e, active) = IF active THEN Refetch(marked) ELSE marked
    BY DEF Invalidated
  <1> HIDE DEF marked
  <1>3. QED
    BY <1>1, <1>2, Asking DEF Asked

LEMMA ObservedCache ==
  ASSUME NEW c \in Caches, NEW ks
  PROVE  /\ Observed(c, ks) \in Caches
         /\ \A k \in Keys : /\ Observed(c, ks)[k].data = c[k].data
                            /\ Observed(c, ks)[k].old = c[k].old
                            /\ Observed(c, ks)[k].fetch \in {c[k].fetch, "asked"}
                            /\ k \in ks \/ Asked(c[k]) => Asked(Observed(c, ks)[k])
  <1>1. \A k \in Keys : c[k] \in Entry
    BY DEF Caches
  <1>2. \A k \in Keys : Observed(c, ks)[k] = IF k \in ks THEN Observe(c[k]) ELSE c[k]
    BY DEF Observed
  <1>3. Observed(c, ks) \in Caches
    BY <1>1, Observing DEF Observed, Caches
  <1>4. QED
    BY <1>1, <1>2, <1>3, Observing

\* After a render, everything the page watches is asked for.
LEMMA RenderedCache ==
  ASSUME NEW c \in Caches, NEW was, NEW p \in Pages, NEW u \in People,
         \A k \in was \cap Watched(p, u, c) : Asked(c[k])
  PROVE  LET c2 == Rendered(was, Watched(p, u, c), c) IN
         /\ c2 \in Caches
         /\ \A k \in Keys : /\ c2[k].data = c[k].data
                            /\ c2[k].old = c[k].old
                            /\ c2[k].fetch \in {c[k].fetch, "asked"}
         /\ \A k \in Watched(p, u, c2) : Asked(c2[k])
  <1> DEFINE new == Watched(p, u, c)
             c2 == Rendered(was, new, c)
  <1>1. c2 = Observed(c, new \ was)
    BY DEF Rendered
  <1>2. /\ c2 \in Caches
        /\ \A k \in Keys : /\ c2[k].data = c[k].data
                           /\ c2[k].old = c[k].old
                           /\ c2[k].fetch \in {c[k].fetch, "asked"}
                           /\ k \in new \ was \/ Asked(c[k]) => Asked(c2[k])
    BY <1>1, ObservedCache
  <1> HIDE DEF c2
  <1>3. Watched(p, u, c2) = new
    BY <1>2, WatchedByData
  <1>4. \A k \in new : Asked(c2[k])
    BY <1>2, WatchedKeys
  <1>5. QED
    BY <1>2, <1>3, <1>4 DEF c2

LEMMA LoadedPages ==
  ASSUME NEW p \in Pages, NEW u \in People
  PROVE  LET q == Redirected(p, u) IN
         /\ LoadedCache(p, u) \in Caches
         /\ \A k \in Watched(q, u, LoadedCache(p, u)) : Asked(LoadedCache(p, u)[k])
  <1> DEFINE c == [k \in Keys |-> Missing]
             q == Redirected(p, u)
             loaded == Observed(c, Watched(q, u, c))
  <1>1. c \in Caches
    BY MissingEntry DEF Caches
  <1>2. q \in Pages
    BY Redirection
  <1>3. LoadedCache(p, u) = loaded
    BY DEF LoadedCache
  <1> HIDE DEF c, q
  <1>4. /\ loaded \in Caches
        /\ \A k \in Keys : /\ loaded[k].data = c[k].data
                           /\ k \in Watched(q, u, c) => Asked(loaded[k])
    BY <1>1, ObservedCache
  <1> HIDE DEF loaded
  <1>5. Watched(q, u, loaded) = Watched(q, u, c)
    BY <1>4, WatchedByData
  <1>6. \A k \in Watched(q, u, loaded) : Asked(loaded[k])
    BY <1>2, <1>4, <1>5, WatchedKeys
  <1>7. QED
    BY <1>3, <1>4, <1>6 DEF q

-----------------------------------------------------------------------------
(* The calls of the user.                                                  *)

LEMMA Calling ==
  ASSUME TypeOK, NEW i \in DOMAIN calls
  PROVE  calls[i] \in Call /\ i \in 1..Len(calls) /\ Len(calls) \in Nat \ {0}
  <1>1. DOMAIN calls = 1..Len(calls) /\ Len(calls) \in Nat
    BY LenProperties DEF TypeOK
  <1>2. QED
    BY <1>1, ElementOfSeq DEF TypeOK

LEMMA NoCalls == << >> \in Seq(Call) /\ DOMAIN << >> = {}
  <1>1. << >> \in Seq(Call)
    BY EmptySeq
  <1>2. DOMAIN << >> = {}
    OBVIOUS
  <1>3. QED
    BY <1>1, <1>2

LEMMA OneMore ==
  ASSUME NEW s \in Seq(Call), NEW x \in Call
  PROVE  /\ Append(s, x) \in Seq(Call)
         /\ \A i \in DOMAIN Append(s, x) :
              \/ i \in DOMAIN s /\ Append(s, x)[i] = s[i]
              \/ Append(s, x)[i] = x
  <1>1. /\ Append(s, x) \in Seq(Call) /\ Len(Append(s, x)) = Len(s) + 1
        /\ \A i \in 1..Len(s) : Append(s, x)[i] = s[i]
        /\ Append(s, x)[Len(s) + 1] = x
    BY AppendProperties
  <1>2. DOMAIN Append(s, x) = 1..Len(s) + 1 /\ DOMAIN s = 1..Len(s) /\ Len(s) \in Nat
    BY <1>1, LenProperties
  <1>3. QED
    BY <1>1, <1>2

\* What becomes of the entries, as long as data stays and so do the changes.
LEMMA CallsFitOn ==
  ASSUME NEW x, NEW pg, NEW c, NEW c2, NEW ch, NEW ch2,
         CallFits(x, pg, c, ch), c2[WalletKey].data = c[WalletKey].data, ch \subseteq ch2
  PROVE  CallFits(x, pg, c2, ch2)
  BY DEF CallFits

LEMMA AbandonedCalls ==
  ASSUME NEW s \in Seq(Call), NEW pg, NEW pg2, NEW c, NEW ch,
         \A i \in DOMAIN s : CallFits(s[i], pg, c, ch)
  PROVE  /\ Abandon(s) \in Seq(Call)
         /\ \A i \in DOMAIN Abandon(s) : CallFits(Abandon(s)[i], pg2, c, ch)
  <1>1. /\ Len(s) \in Nat /\ DOMAIN s = 1..Len(s)
        /\ \A i \in 1..Len(s) : s[i] \in Call
    BY LenProperties, ElementOfSeq
  <1>2. \A i \in 1..Len(s) : [s[i] EXCEPT !.here = FALSE] \in Call
    BY <1>1 DEF Call
  <1>3. Abandon(s) = [i \in 1..Len(s) |-> [s[i] EXCEPT !.here = FALSE]]
    BY <1>1 DEF Abandon
  <1>4. Abandon(s) \in Seq(Call)
    <2>1. Abandon(s) \in [1..Len(s) -> Call]
      BY <1>2, <1>3
    <2>2. QED
      BY <1>1, <2>1, SeqDef
  <1>5. ASSUME NEW i \in DOMAIN Abandon(s)
        PROVE  CallFits(Abandon(s)[i], pg2, c, ch)
    <2>1. i \in DOMAIN s /\ Abandon(s)[i] = [s[i] EXCEPT !.here = FALSE]
      BY <1>1, <1>3, <1>5
    <2>2. CallFits(s[i], pg, c, ch) /\ s[i] \in Call
      BY <1>1, <2>1
    <2> DEFINE x == [s[i] EXCEPT !.here = FALSE]
    <2>3. x.op = s[i].op /\ x.on = s[i].on /\ x.stage = s[i].stage /\ x.here = FALSE
      BY <2>2 DEF Call
    <2> HIDE DEF x
    <2>4. CallFits(x, pg2, c, ch)
      BY <2>2, <2>3 DEF CallFits
    <2>5. QED
      BY <2>1, <2>4 DEF x
  <1>6. QED
    BY <1>4, <1>5

\* One call is answered: the others are left as they are.
LEMMA OthersRemain ==
  ASSUME TypeOK, NEW i \in DOMAIN calls
  PROVE  /\ Without(i) \in Seq(Call)
         /\ \A j \in DOMAIN Without(i) : \E k \in DOMAIN calls : Without(i)[j] = calls[k]
  <1> DEFINE n == Len(calls)
  <1>1. /\ n \in Nat \ {0} /\ DOMAIN calls = 1..n /\ i \in 1..n
        /\ \A k \in 1..n : calls[k] \in Call
    BY Calling, LenProperties DEF TypeOK
  <1>2. Without(i) = [j \in 1..n - 1 |-> IF j < i THEN calls[j] ELSE calls[j + 1]]
    BY DEF Without
  <1> HIDE DEF n
  <1>3. \A j \in 1..n - 1 : j \in 1..n /\ j + 1 \in 1..n
    BY <1>1
  <1>4. \A j \in 1..n - 1 : (IF j < i THEN calls[j] ELSE calls[j + 1]) \in Call
    BY <1>1, <1>3
  <1>5. Without(i) \in [1..n - 1 -> Call]
    BY <1>2, <1>4
  <1>6. Without(i) \in Seq(Call)
    BY <1>1, <1>5, SeqDef
  <1>7. QED
    BY <1>1, <1>2, <1>3, <1>6

\* The page becomes p for user u, with the calls `left`.
LEMMA Entering ==
  ASSUME WebInv, NEW p \in Pages, NEW u \in People, NEW left \in Seq(Call),
         \A i \in DOMAIN left : \E j \in DOMAIN calls : left[i] = calls[j],
         Enter(p, u, cache, left), UNCHANGED <<visit, changed>>,
         stored' \in People, moves' \in Nat
  PROVE  WebInv'
  <1> DEFINE q == Redirected(p, u)
             was == IF q = page THEN Watching ELSE {}
             stays == q = page /\ (page[1] = "quote" => u # None)
  <1>1. /\ page' = q /\ user' = u
        /\ cache' = Rendered(was, Watched(q, u, cache), cache)
        /\ calls' = IF stays THEN left ELSE Abandon(left)
        /\ told' = IF q = page /\ u = user THEN told ELSE {}
    BY DEF Enter
  <1>2. TypeOK /\ cache \in Caches
    BY DEF WebInv, TypeOK, Caches
  <1>3. q \in Pages /\ (q[1] = "connect" => u = None)
    BY Redirection
  <1> HIDE DEF q
  <1>4. \A k \in was \cap Watched(q, u, cache) : Asked(cache[k])
    BY DEF WebInv
  <1> HIDE DEF was
  <1>5. /\ cache' \in Caches
        /\ \A k \in Keys : /\ cache'[k].data = cache[k].data
                           /\ cache'[k].old = cache[k].old
                           /\ cache'[k].fetch \in {cache[k].fetch, "asked"}
        /\ \A k \in Watched(q, u, cache') : Asked(cache'[k])
    <2> DEFINE c2 == Rendered(was, Watched(q, u, cache), cache)
    <2>1. /\ c2 \in Caches
          /\ \A k \in Keys : /\ c2[k].data = cache[k].data
                             /\ c2[k].old = cache[k].old
                             /\ c2[k].fetch \in {cache[k].fetch, "asked"}
          /\ \A k \in Watched(q, u, c2) : Asked(c2[k])
      BY <1>2, <1>3, <1>4, RenderedCache
    <2>2. cache' = c2
      BY <1>1
    <2> HIDE DEF c2
    <2>3. QED
      BY <2>1, <2>2
  <1>6. \A i \in DOMAIN left : CallFits(left[i], page, cache, changed)
    BY DEF WebInv
  <1>7. calls' \in Seq(Call) /\ \A i \in DOMAIN calls' : CallFits(calls'[i], page', cache, changed)
    <2>1. CASE stays
      BY <1>1, <1>6, <2>1
    <2>2. CASE ~stays
      BY <1>1, <1>6, <2>2, AbandonedCalls
    <2>3. QED
      BY <2>1, <2>2
  <1>8. \A i \in DOMAIN calls' : CallFits(calls'[i], page', cache', changed')
    BY <1>5, <1>7, KeyMembers, CallsFitOn
  <1>9. told' \subseteq told /\ told \subseteq Keys
    BY <1>1, <1>2 DEF TypeOK
  <1>10. \A k \in told' : ToldFits(k, cache', changed')
    BY <1>5, <1>9 DEF WebInv, ToldFits
  <1>11. TypeOK'
    BY <1>1, <1>2, <1>3, <1>5, <1>7, <1>9 DEF TypeOK, Caches, People
  <1>12. \A k \in Watching' : Asked(cache'[k])
    <2>1. Watching' = Watched(q, u, cache')
      BY <1>1 DEF Watching
    <2>2. QED
      BY <1>5, <2>1
  <1>13. QED
    BY <1>1, <1>3, <1>8, <1>10, <1>11, <1>12 DEF WebInv

-----------------------------------------------------------------------------
(* One step at a time.                                                     *)

\* A step that changes the cache alone, and no data in it.
LEMMA CacheMoves ==
  ASSUME WebInv, UNCHANGED <<visit, page, user, stored, calls, changed, told>>,
         moves' \in Nat, cache' \in Caches,
         \A k \in Keys : /\ cache'[k].data = cache[k].data
                         /\ cache[k].old => cache'[k].old
                         /\ Asked(cache[k]) => Asked(cache'[k])
                         /\ cache'[k].fetch = "before" =>
                              cache[k].fetch = "before" \/ k \notin changed
  PROVE  WebInv'
  <1>1. TypeOK /\ page \in Pages /\ user \in People /\ told \subseteq Keys
    BY DEF WebInv, TypeOK, People
  <1>2. TypeOK'
    BY <1>1 DEF TypeOK, Caches
  <1>3. Watching' = Watching
    <2>1. Watched(page, user, cache') = Watched(page, user, cache)
      BY <1>1, WatchedByData
    <2>2. QED
      BY <2>1 DEF Watching
  <1>4. \A k \in Watching' : Asked(cache'[k])
    BY <1>1, <1>3, WatchedKeys DEF WebInv, Watching
  <1>5. \A i \in DOMAIN calls' : CallFits(calls'[i], page', cache', changed')
    <2>1. \A i \in DOMAIN calls : CallFits(calls[i], page, cache, changed)
      BY DEF WebInv
    <2>2. QED
      BY <2>1, KeyMembers, CallsFitOn
  <1>6. \A k \in told' : ToldFits(k, cache', changed')
    <2>1. \A k \in told : ToldFits(k, cache, changed)
      BY DEF WebInv
    <2>2. QED
      BY <1>1, <2>1 DEF ToldFits
  <1>7. QED
    BY <1>2, <1>4, <1>5, <1>6 DEF WebInv

LEMMA ServedStep ==
  ASSUME WebInv, NEW k \in Keys, Served(k)
  PROVE  WebInv'
  <1>1. PICK result \in {IF k \in changed THEN "after" ELSE "before", "failed"} :
          cache' = [cache EXCEPT ![k].fetch = result]
    BY DEF Served
  <1>2. cache \in Caches /\ moves \in Nat /\ cache[k] \in Entry
    BY DEF WebInv, TypeOK, Caches
  <1> DEFINE e == [cache[k] EXCEPT !.fetch = result]
  <1>3. e \in Entry /\ e.data = cache[k].data /\ e.old = cache[k].old /\ e.fetch = result
    BY <1>1, <1>2 DEF Entry, Outcomes
  <1>4. cache' = [cache EXCEPT ![k] = e]
    BY <1>1
  <1> HIDE DEF e
  <1>5. cache' \in Caches /\ cache'[k] = e /\ \A j \in Keys \ {k} : cache'[j] = cache[j]
    BY <1>2, <1>3, <1>4 DEF Caches
  <1>6. Asked(e) /\ (e.fetch = "before" => k \notin changed)
    BY <1>1, <1>3 DEF Asked
  <1>7. \A j \in Keys : /\ cache'[j].data = cache[j].data
                        /\ cache[j].old => cache'[j].old
                        /\ Asked(cache[j]) => Asked(cache'[j])
                        /\ cache'[j].fetch = "before" =>
                             cache[j].fetch = "before" \/ j \notin changed
    BY <1>3, <1>5, <1>6
  <1>8. UNCHANGED <<visit, page, user, stored, calls, changed, told>> /\ moves' \in Nat
    BY <1>2 DEF Served
  <1>9. QED
    BY <1>5, <1>7, <1>8, CacheMoves

LEMMA ExpiresStep ==
  ASSUME WebInv, NEW k \in Keys, Expires(k)
  PROVE  WebInv'
  <1>1. cache' = [cache EXCEPT ![k].old = TRUE]
    BY DEF Expires
  <1>2. cache \in Caches /\ moves \in Nat /\ cache[k] \in Entry
    BY DEF WebInv, TypeOK, Caches
  <1> DEFINE e == [cache[k] EXCEPT !.old = TRUE]
  <1>3. e \in Entry /\ e.data = cache[k].data /\ e.old /\ e.fetch = cache[k].fetch
        /\ e.failed = cache[k].failed
    BY <1>2 DEF Entry
  <1>4. cache' = [cache EXCEPT ![k] = e]
    BY <1>1
  <1> HIDE DEF e
  <1>5. cache' \in Caches /\ cache'[k] = e /\ \A j \in Keys \ {k} : cache'[j] = cache[j]
    BY <1>2, <1>3, <1>4 DEF Caches
  <1>6. \A j \in Keys : /\ cache'[j].data = cache[j].data
                        /\ cache[j].old => cache'[j].old
                        /\ Asked(cache[j]) => Asked(cache'[j])
                        /\ cache'[j].fetch = "before" =>
                             cache[j].fetch = "before" \/ j \notin changed
    BY <1>3, <1>5 DEF Asked
  <1>7. UNCHANGED <<visit, page, user, stored, calls, changed, told>> /\ moves' \in Nat
    BY <1>2 DEF Expires
  <1>8. QED
    BY <1>5, <1>6, <1>7, CacheMoves

LEMMA MovesCount == ASSUME TypeOK, Move PROVE moves' \in Nat /\ visit' = visit
  BY DEF TypeOK, Move

LEMMA AskAgainStep ==
  ASSUME WebInv, Retry \/ Focus
  PROVE  WebInv'
  <1>1. cache \in Caches /\ moves' \in Nat
        /\ UNCHANGED <<visit, page, user, stored, calls, changed, told>>
    BY MovesCount DEF WebInv, TypeOK, Caches, Retry, Focus
  <1>2. \A k \in Keys : cache[k] \in Entry
    BY <1>1 DEF Caches
  <1>3. CASE Retry
    <2>1. PICK r \in Keys : cache' = [cache EXCEPT ![r] = Refetch(@)]
      BY <1>3 DEF Retry, Retriable
    <2>2. cache' \in Caches
      <3>1. cache[r] \in Entry /\ Refetch(cache[r]) \in Entry
        BY <1>2, Asking
      <3> DEFINE e == Refetch(cache[r])
      <3>2. cache' = [cache EXCEPT ![r] = e]
        BY <2>1
      <3> HIDE DEF e
      <3>3. e \in Entry
        BY <3>1 DEF e
      <3>4. QED
        BY <3>2, <3>3, <1>1 DEF Caches
    <2>3. \A k \in Keys : cache'[k] = cache[k] \/ cache'[k] = Refetch(cache[k])
      BY <2>1, <1>1 DEF Caches
    <2>4. \A k \in Keys : /\ cache'[k].data = cache[k].data
                          /\ cache[k].old => cache'[k].old
                          /\ Asked(cache[k]) => Asked(cache'[k])
                          /\ cache'[k].fetch = "before" =>
                               cache[k].fetch = "before" \/ k \notin changed
      BY <2>3, <1>2, Asking DEF Asked
    <2>5. QED
      BY <1>1, <2>2, <2>4, CacheMoves
  <1>4. CASE Focus
    <2>1. cache' = Observed(cache, Watching)
      BY <1>4 DEF Focus
    <2>2. /\ cache' \in Caches
          /\ \A k \in Keys : /\ cache'[k].data = cache[k].data
                             /\ cache'[k].old = cache[k].old
                             /\ cache'[k].fetch \in {cache[k].fetch, "asked"}
                             /\ Asked(cache[k]) => Asked(cache'[k])
      BY <2>1, <1>1, ObservedCache
    <2>3. QED
      BY <1>1, <2>2, CacheMoves
  <1>5. QED
    BY <1>3, <1>4

LEMMA TakenStep ==
  ASSUME WebInv, WebAssumption, NEW k \in Keys, Taken(k)
  PROVE  WebInv'
  <1> DEFINE e == cache[k]
             e2 == IF e.fetch = "failed" THEN [e EXCEPT !.failed = TRUE, !.fetch = "idle"]
                   ELSE [data |-> e.fetch, old |-> FALSE, failed |-> FALSE, fetch |-> "idle"]
             c == [cache EXCEPT ![k] = e2]
             c2 == Rendered(Watching, Watched(page, user, c), c)
  <1>1. e.fetch \in Outcomes /\ cache' = c2
        /\ UNCHANGED <<visit, page, user, stored, calls, changed, told, moves>>
    BY DEF Taken
  <1>2. /\ TypeOK /\ cache \in Caches /\ e \in Entry /\ page \in Pages /\ user \in People
        /\ told \subseteq Keys
    BY DEF WebInv, TypeOK, Caches, People
  <1>3. /\ e2 \in Entry /\ e2.fetch = "idle" /\ Asked(e2)
        /\ e.fetch = "failed" => e2.data = e.data /\ e2.old = e.old
        /\ e.fetch # "failed" => e2.data = e.fetch /\ e2.data # None /\ ~e2.old
    <2>1. CASE e.fetch = "failed"
      <3>1. e2 = [e EXCEPT !.failed = TRUE, !.fetch = "idle"]
        BY <2>1
      <3>2. QED
        BY <2>1, <3>1, <1>2 DEF Entry, Asked
    <2>2. CASE e.fetch # "failed"
      <3>1. e2 = [data |-> e.fetch, old |-> FALSE, failed |-> FALSE, fetch |-> "idle"]
        BY <2>2
      <3>2. e.fetch \in {"before", "after"} /\ e.fetch # None
        BY <2>2, <1>1 DEF Outcomes, WebAssumption
      <3>3. QED
        BY <2>2, <3>1, <3>2 DEF Entry, Asked
    <2>3. QED
      BY <2>1, <2>2
  <1> HIDE DEF e2
  <1>4. c \in Caches /\ c[k] = e2 /\ \A j \in Keys \ {k} : c[j] = cache[j]
    BY <1>2, <1>3 DEF Caches
  <1> HIDE DEF c
  <1>5. \A j \in Watching \cap Watched(page, user, c) : Asked(c[j])
    <2>1. \A j \in Watching : j \in Keys /\ Asked(cache[j])
      BY <1>2, WatchedKeys DEF WebInv, Watching
    <2>2. QED
      BY <1>3, <1>4, <2>1
  <1>6. /\ c2 \in Caches
        /\ \A j \in Keys : /\ c2[j].data = c[j].data
                           /\ c2[j].old = c[j].old
                           /\ c2[j].fetch \in {c[j].fetch, "asked"}
        /\ \A j \in Watched(page, user, c2) : Asked(c2[j])
    BY <1>2, <1>4, <1>5, RenderedCache
  <1> HIDE DEF c2
  <1>7. \A j \in Keys : cache[j].data # None => c[j].data # None
    BY <1>3, <1>4
  <1>8. \A i \in DOMAIN calls : CallFits(calls[i], page, c2, changed)
    <2>1. c2[WalletKey].data = c[WalletKey].data
          /\ (cache[WalletKey].data # None => c[WalletKey].data # None)
      BY <1>6, <1>7, KeyMembers
    <2>2. \A i \in DOMAIN calls : CallFits(calls[i], page, cache, changed)
      BY DEF WebInv
    <2>3. QED
      BY <2>1, <2>2 DEF CallFits
  <1>9. \A j \in told : ToldFits(j, c2, changed)
    <2>1. SUFFICES ASSUME NEW j \in told PROVE ToldFits(j, c2, changed)
      OBVIOUS
    <2>2. j \in Keys /\ ToldFits(j, cache, changed)
      BY <1>2 DEF WebInv
    <2>3. ToldFits(j, c, changed)
      <3>1. CASE j # k
        BY <2>2, <3>1, <1>4 DEF ToldFits
      <3>2. CASE j = k
        <4>1. e.fetch \in {"after", "failed"}
          BY <2>2, <3>2, <1>1 DEF ToldFits, Outcomes
        <4>2. QED
          BY <2>2, <3>2, <4>1, <1>3, <1>4 DEF ToldFits
      <3>3. QED
        BY <3>1, <3>2
    <2>4. QED
      BY <2>2, <2>3, <1>6 DEF ToldFits
  <1>10. TypeOK'
    BY <1>1, <1>2, <1>6 DEF TypeOK, Caches
  <1>11. \A j \in Watching' : Asked(cache'[j])
    <2>1. Watching' = Watched(page, user, c2)
      BY <1>1 DEF Watching
    <2>2. QED
      BY <1>1, <1>6, <2>1
  <1>12. QED
    BY <1>1, <1>8, <1>9, <1>10, <1>11 DEF WebInv

LEMMA GoStep ==
  ASSUME WebInv, WebAssumption, NEW p \in visit.pages, Go(p)
  PROVE  WebInv'
  <1>1. TypeOK /\ visit \in Visits /\ user \in People /\ stored \in People /\ calls \in Seq(Call)
    BY DEF WebInv, TypeOK, People
  <1>2. p \in Pages
    BY <1>1 DEF WebAssumption
  <1>3. Enter(p, user, cache, calls) /\ UNCHANGED <<stored, changed>>
    BY Zenon DEF Go
  <1>4. moves' \in Nat /\ visit' = visit
    BY <1>1, MovesCount DEF Go
  <1>5. UNCHANGED <<visit, changed>> /\ stored' \in People
    BY <1>1, <1>3, <1>4
  <1>6. \A i \in DOMAIN calls : \E j \in DOMAIN calls : calls[i] = calls[j]
    OBVIOUS
  <1>7. QED
    BY <1>1, <1>2, <1>3, <1>4, <1>5, <1>6, Entering

LEMMA SignOutStep ==
  ASSUME WebInv, SignOut
  PROVE  WebInv'
  <1>1. TypeOK /\ page \in Pages /\ calls \in Seq(Call) /\ None \in People
    BY DEF WebInv, TypeOK, People
  <1>2. Enter(page, None, cache, calls) /\ stored' = None /\ UNCHANGED changed
    BY Zenon DEF SignOut
  <1>3. moves' \in Nat /\ visit' = visit
    BY <1>1, MovesCount DEF SignOut
  <1>4. UNCHANGED <<visit, changed>> /\ stored' \in People
    BY <1>1, <1>2, <1>3
  <1>5. \A i \in DOMAIN calls : \E j \in DOMAIN calls : calls[i] = calls[j]
    OBVIOUS
  <1>6. QED
    BY <1>1, <1>2, <1>3, <1>4, <1>5, Entering

\* The tab is loaded for u.
LEMMA Loading ==
  ASSUME TypeOK', NEW p \in Pages, NEW u \in People,
         page' = Redirected(p, u), user' = u, cache' = LoadedCache(p, u),
         calls' = << >>, told' = {}
  PROVE  WebInv'
  <1>1. page'[1] = "connect" => user' = None
    BY Redirection
  <1>2. Watching' = Watched(Redirected(p, u), u, LoadedCache(p, u))
    BY DEF Watching
  <1>3. \A k \in Watching' : Asked(cache'[k])
    BY <1>2, LoadedPages
  <1>4. DOMAIN calls' = {}
    OBVIOUS
  <1>5. QED
    BY <1>1, <1>3, <1>4 DEF WebInv

LEMMA ReloadStep ==
  ASSUME WebInv, Reload
  PROVE  WebInv'
  <1>1. /\ TypeOK /\ page \in Pages /\ stored \in People
        /\ user' = stored /\ page' = Redirected(page, stored)
        /\ cache' = LoadedCache(page, stored) /\ calls' = << >> /\ told' = {}
        /\ UNCHANGED <<stored, changed>>
    BY DEF WebInv, TypeOK, People, Reload
  <1>2. moves' \in Nat /\ visit' = visit
    BY <1>1, MovesCount DEF Reload
  <1>3. Redirected(page, stored) \in Pages /\ LoadedCache(page, stored) \in Caches
    BY <1>1, Redirection, LoadedPages
  <1>4. calls' \in Seq(Call)
    BY <1>1, EmptySeq
  <1>5. TypeOK'
    BY <1>1, <1>2, <1>3, <1>4 DEF TypeOK, Caches, People
  <1>6. QED
    BY <1>1, <1>5, Loading

LEMMA InitInv == ASSUME Init, WebAssumption PROVE WebInv
  <1>1. PICK p \in visit.pages : page = Redirected(p, user) /\ cache = LoadedCache(p, user)
    BY DEF Init
  <1>2. visit \in Visits /\ user = stored /\ stored \in visit.users \cup {None}
        /\ calls = << >> /\ changed = {} /\ told = {} /\ moves = 0
    BY DEF Init
  <1>3. p \in Pages /\ user \in People
    BY <1>1, <1>2 DEF WebAssumption, People
  <1>4. page \in Pages /\ cache \in Caches /\ (page[1] = "connect" => user = None)
    BY <1>1, <1>3, Redirection, LoadedPages
  <1>5. calls \in Seq(Call) /\ DOMAIN calls = {}
    BY <1>2, NoCalls
  <1>6. TypeOK
    BY <1>2, <1>3, <1>4, <1>5 DEF TypeOK, Caches, People
  <1>7. \A k \in Watching : Asked(cache[k])
    BY <1>1, <1>3, LoadedPages DEF Watching
  <1>8. QED
    BY <1>2, <1>4, <1>5, <1>6, <1>7 DEF WebInv

LEMMA SubmitStep ==
  ASSUME WebInv, NEW op \in {"login", "connect", "quote", "cancel"},
         NEW on \in Keys \cup {Key("quotes", "")}, Submit(op, on),
         op = "login" => page[1] = "connect" /\ \E u \in Users : on = Key("user", u),
         op = "connect" => on = WalletKey /\ cache[WalletKey].data # None,
         op = "quote" => page[1] = "quote",
         op = "cancel" => on \in Keys
  PROVE  WebInv'
  <1> DEFINE x == [op |-> op, on |-> on, stage |-> "sent", here |-> TRUE]
  <1>1. /\ TypeOK /\ calls \in Seq(Call) /\ calls' = Append(calls, x)
        /\ UNCHANGED <<page, user, stored, cache, changed, told>>
    BY DEF WebInv, TypeOK, Submit
  <1>2. moves' \in Nat /\ visit' = visit
    BY <1>1, MovesCount DEF Submit
  <1>3. x \in Call /\ CallFits(x, page, cache, changed)
    BY DEF Call, CallFits
  <1> HIDE DEF x
  <1>4. calls' \in Seq(Call)
    BY <1>1, <1>3, OneMore
  <1>5. \A i \in DOMAIN calls' : (i \in DOMAIN calls /\ calls'[i] = calls[i]) \/ calls'[i] = x
    BY <1>1, <1>3, OneMore
  <1>6. \A i \in DOMAIN calls' : CallFits(calls'[i], page, cache, changed)
    <2>1. \A i \in DOMAIN calls : CallFits(calls[i], page, cache, changed)
      BY DEF WebInv
    <2>2. QED
      BY <2>1, <1>3, <1>5
  <1>7. TypeOK'
    BY <1>1, <1>2, <1>4 DEF TypeOK
  <1>8. Watching' = Watching
    BY <1>1 DEF Watching
  <1>9. QED
    BY <1>1, <1>6, <1>7, <1>8 DEF WebInv

LEMMA AskStep ==
  ASSUME WebInv, WebAssumption, Login \/ ConnectWallet \/ RequestQuote \/ CancelDeal
  PROVE  WebInv'
  <1>1. TypeOK /\ visit \in Visits /\ page \in Pages
    BY DEF WebInv, TypeOK
  <1>2. CASE Login
    <2>1. PICK u \in visit.users : Submit("login", Key("user", u)) /\ page[1] = "connect"
      BY <1>2, Zenon DEF Login
    <2>2. u \in Users
      BY <1>1, <2>1 DEF WebAssumption
    <2>3. Key("user", u) \in Keys
      BY <2>2, KeyMembers
    <2>4. QED
      BY <2>1, <2>2, <2>3, SubmitStep
  <1>3. CASE ConnectWallet
    <2>1. Submit("connect", WalletKey) /\ cache[WalletKey].data = "before"
      BY <1>3, Zenon DEF ConnectWallet
    <2>2. cache[WalletKey].data # None
      BY <2>1 DEF WebAssumption
    <2>3. QED
      BY <2>1, <2>2, KeyMembers, SubmitStep
  <1>4. CASE RequestQuote
    <2>1. Submit("quote", Key("quotes", "")) /\ page[1] = "quote"
      BY <1>4, Zenon DEF RequestQuote
    <2>2. QED
      BY <2>1, SubmitStep
  <1>5. CASE CancelDeal
    <2>1. Submit("cancel", page) /\ page[1] = "deal"
      BY <1>5, Zenon DEF CancelDeal
    <2>2. page \in Keys
      BY <1>1, <2>1, DealPages
    <2>3. QED
      BY <2>1, <2>2, SubmitStep
  <1>6. QED
    BY <1>2, <1>3, <1>4, <1>5

LEMMA ExecutedStep ==
  ASSUME WebInv, NEW i \in DOMAIN calls, Executed(i)
  PROVE  WebInv'
  <1>1. /\ TypeOK /\ calls \in Seq(Call) /\ calls[i] \in Call
        /\ i \in 1..Len(calls) /\ DOMAIN calls = 1..Len(calls)
        /\ UNCHANGED <<visit, page, user, stored, cache, told, moves>>
    BY Calling, LenProperties DEF WebInv, TypeOK, Executed
  <1>2. CallFits(calls[i], page, cache, changed)
    BY DEF WebInv
  <1>3. PICK stage \in {"done", "failed"} :
          /\ calls' = [calls EXCEPT ![i].stage = stage]
          /\ changed' = IF stage = "done" /\ calls[i].op \in {"connect", "cancel"}
                        THEN changed \cup {calls[i].on} ELSE changed
    BY DEF Executed
  <1> DEFINE x == [calls[i] EXCEPT !.stage = stage]
  <1>4. x \in Call /\ x.op = calls[i].op /\ x.on = calls[i].on /\ x.here = calls[i].here
        /\ x.stage = stage
    BY <1>1 DEF Call
  <1>5. calls' = [calls EXCEPT ![i] = x]
    BY <1>3
  <1> HIDE DEF x
  <1>6. /\ calls' \in Seq(Call) /\ Len(calls') = Len(calls)
        /\ \A j \in 1..Len(calls) : calls'[j] = IF j = i THEN x ELSE calls[j]
    BY <1>1, <1>4, <1>5, ExceptSeq
  <1>7. DOMAIN calls' = DOMAIN calls
    BY <1>5
  <1>8. changed \subseteq changed' /\ changed' \subseteq Keys
    BY <1>1, <1>2, <1>3, KeyMembers DEF CallFits, TypeOK
  <1>9. CallFits(x, page, cache, changed')
    BY <1>2, <1>3, <1>4 DEF CallFits
  <1>10. \A j \in DOMAIN calls' : CallFits(calls'[j], page', cache', changed')
    <2>1. SUFFICES ASSUME NEW j \in DOMAIN calls
                   PROVE  CallFits(calls'[j], page, cache, changed')
      BY <1>1, <1>7
    <2>2. CASE j = i
      BY <2>2, <1>1, <1>6, <1>9
    <2>3. CASE j # i
      <3>1. calls'[j] = calls[j]
        BY <2>3, <1>1, <1>6
      <3>2. CallFits(calls[j], page, cache, changed)
        BY DEF WebInv
      <3>3. QED
        BY <3>1, <3>2, <1>8, CallsFitOn
    <2>4. QED
      BY <2>2, <2>3
  <1>11. \A k \in told' : ToldFits(k, cache', changed')
    BY <1>1, <1>8 DEF WebInv, ToldFits
  <1>12. TypeOK' /\ Watching' = Watching
    BY <1>1, <1>6, <1>8 DEF TypeOK, Watching
  <1>13. QED
    BY <1>1, <1>10, <1>11, <1>12 DEF WebInv

\* An answer that changes neither the page nor, but for the wallet, the cache.
LEMMA StayingAnswered ==
  ASSUME WebInv, NEW i \in DOMAIN calls, Answered(i),
         (calls[i].stage = "done" /\ (ConnectAnswered(i) \/ CancelAnswered(i))) \/ Refused(i)
  PROVE  WebInv'
  <1>1. /\ TypeOK /\ cache \in Caches /\ page \in Pages /\ user \in People
        /\ calls' = Without(i) /\ UNCHANGED <<visit, page, user, stored, changed, moves>>
    BY DEF WebInv, TypeOK, Caches, People, Answered, ConnectAnswered, CancelAnswered, Refused
  <1>2. /\ calls' \in Seq(Call)
        /\ \A j \in DOMAIN calls' : \E k \in DOMAIN calls : calls'[j] = calls[k]
    BY <1>1, OthersRemain
  <1>3. \A j \in DOMAIN calls' : CallFits(calls'[j], page, cache, changed)
    <2>1. \A k \in DOMAIN calls : CallFits(calls[k], page, cache, changed)
      BY DEF WebInv
    <2>2. QED
      BY <1>2, <2>1
  <1>4. CASE UNCHANGED <<cache, told>>
    <2>1. TypeOK' /\ Watching' = Watching
      BY <1>1, <1>2, <1>4 DEF TypeOK, Watching
    <2>2. QED
      BY <1>1, <1>3, <1>4, <2>1 DEF WebInv
  <1>5. CASE ConnectAnswered(i) /\ calls[i].stage = "done"
    <2> DEFINE active == WalletKey \in Watching
               e == cache[WalletKey]
               e2 == Invalidated(e, active)
    <2>1. /\ calls[i].op = "connect"
          /\ cache' = [cache EXCEPT ![WalletKey] = e2]
          /\ told' = IF active THEN told \cup {WalletKey} ELSE told
      BY <1>5 DEF ConnectAnswered
    <2>2. e.data # None /\ WalletKey \in changed /\ e \in Entry /\ active \in BOOLEAN
      BY <1>1, <1>5, <2>1, KeyMembers DEF WebInv, CallFits, Caches
    <2>3. /\ e2 \in Entry /\ e2.data = e.data /\ e2.old
          /\ e2.fetch \in {e.fetch, "asked"}
          /\ active => e2.fetch = "asked"
      BY <2>2, Invalidating
    <2> HIDE DEF e2, active
    <2>4. cache' \in Caches /\ cache'[WalletKey] = e2
          /\ \A k \in Keys \ {WalletKey} : cache'[k] = cache[k]
      BY <1>1, <2>1, <2>3, KeyMembers DEF Caches
    <2>5. \A k \in Keys : cache'[k].data = cache[k].data
      BY <2>3, <2>4
    <2>6. \A j \in DOMAIN calls' : CallFits(calls'[j], page', cache', changed')
      BY <1>1, <1>3, <2>5, KeyMembers, CallsFitOn
    <2>7. told \subseteq Keys /\ told' \subseteq Keys
      BY <1>1, <2>1, KeyMembers DEF TypeOK
    <2>8. \A k \in told' : ToldFits(k, cache', changed')
      <3>1. SUFFICES ASSUME NEW k \in told' PROVE ToldFits(k, cache', changed)
        BY <1>1
      <3>2. CASE k # WalletKey
        <4>1. k \in told /\ k \in Keys
          BY <3>2, <2>1, <2>7
        <4>2. ToldFits(k, cache, changed)
          BY <4>1 DEF WebInv
        <4>3. QED
          BY <3>2, <4>1, <4>2, <2>4 DEF ToldFits
      <3>3. CASE k = WalletKey
        <4>1. e2.fetch # "before"
          <5>1. CASE active
            BY <5>1, <2>3
          <5>2. CASE ~active
            <6>1. ToldFits(k, cache, changed)
              BY <3>3, <5>2, <2>1 DEF WebInv
            <6>2. QED
              BY <6>1, <3>3, <2>3 DEF ToldFits
          <5>3. QED
            BY <5>1, <5>2
        <4>2. QED
          BY <3>3, <4>1, <2>2, <2>3, <2>4 DEF ToldFits
      <3>4. QED
        BY <3>2, <3>3
    <2>9. Watching' = Watching
      <3>1. Watched(page, user, cache') = Watched(page, user, cache)
        BY <1>1, <2>5, WatchedByData
      <3>2. QED
        BY <1>1, <3>1 DEF Watching
    <2>10. \A k \in Watching' : Asked(cache'[k])
      <3>1. \A k \in Watching : k \in Keys /\ Asked(cache[k])
        BY <1>1, WatchedKeys DEF WebInv, Watching
      <3>2. Asked(e2)
        BY <2>2, <2>3 DEF Asked
      <3>3. QED
        BY <2>4, <2>9, <3>1, <3>2
    <2>11. TypeOK'
      BY <1>1, <1>2, <2>4, <2>7 DEF TypeOK, Caches
    <2>12. QED
      BY <1>1, <2>6, <2>8, <2>10, <2>11 DEF WebInv
  <1>6. QED
    BY <1>4, <1>5 DEF CancelAnswered, Refused

LEMMA AnsweredKinds ==
  ASSUME NEW i \in DOMAIN calls, Answered(i)
  PROVE  \/ LoginAnswered(i)
         \/ QuoteAnswered(i)
         \/ (calls[i].stage = "done" /\ (ConnectAnswered(i) \/ CancelAnswered(i))) \/ Refused(i)
  BY Zenon DEF Answered

LEMMA AnsweredStep ==
  ASSUME WebInv, NEW i \in DOMAIN calls, Answered(i)
  PROVE  WebInv'
  <1>1. /\ TypeOK /\ page \in Pages /\ user \in People /\ stored \in People
        /\ CallFits(calls[i], page, cache, changed)
        /\ UNCHANGED <<visit, changed>> /\ moves' \in Nat
    BY DEF WebInv, TypeOK, People, Answered
  <1>2. /\ Without(i) \in Seq(Call)
        /\ \A j \in DOMAIN Without(i) : \E k \in DOMAIN calls : Without(i)[j] = calls[k]
    BY <1>1, OthersRemain
  <1>3. CASE LoginAnswered(i)
    <2> DEFINE u == calls[i].on[2]
    <2>1. calls[i].op = "login" /\ Enter(page, u, cache, Without(i)) /\ stored' = u
      BY <1>3, Zenon DEF LoginAnswered
    <2>2. u \in Users
      BY <1>1, <2>1 DEF CallFits, Key
    <2> HIDE DEF u
    <2>3. u \in People
      BY <2>2 DEF People
    <2>4. QED
      BY <1>1, <1>2, <2>1, <2>3, Entering
  <1>4. CASE QuoteAnswered(i)
    <2> DEFINE p == IF calls[i].here THEN <<"swaps", "">> ELSE page
    <2>1. Enter(p, user, cache, Without(i)) /\ stored' = stored
      BY <1>4, Zenon DEF QuoteAnswered
    <2>2. p \in Pages
      <3>1. <<"swaps", "">> \in Pages
        BY DEF Pages, Plain
      <3>2. QED
        BY <3>1, <1>1
    <2> HIDE DEF p
    <2>3. stored' \in People
      BY <1>1, <2>1
    <2>4. QED
      BY <1>1, <1>2, <2>1, <2>2, <2>3, Entering
  <1>5. QED
    BY <1>3, <1>4, AnsweredKinds, StayingAnswered

LEMMA InvStep == ASSUME WebInv, WebAssumption, [Next]_vars PROVE WebInv'
  <1>1. CASE UNCHANGED vars
    <2>1. UNCHANGED <<visit, page, user, stored, calls, changed, told>> /\ cache' = cache
          /\ moves' = moves
      BY <1>1 DEF vars
    <2>2. moves' \in Nat /\ cache' \in Caches
      BY <2>1 DEF WebInv, TypeOK, Caches
    <2>3. QED
      BY <2>1, <2>2, CacheMoves
  <1>2. CASE Act
    BY <1>2, GoStep, ReloadStep, SignOutStep, AskStep, AskAgainStep DEF Act
  <1>3. CASE \E k \in Keys : Served(k) \/ Taken(k) \/ Expires(k)
    BY <1>3, ServedStep, TakenStep, ExpiresStep
  <1>4. CASE \E i \in DOMAIN calls : Executed(i) \/ Answered(i)
    BY <1>4, ExecutedStep, AnsweredStep
  <1>5. QED
    BY <1>1, <1>2, <1>3, <1>4, Zenon DEF Next

\* The inductive invariant: everything watched is asked for, calls fit the page
\* they were made on, and what the page was told is in the cache or on its way.
THEOREM WebInvariant == Spec => []WebInv
  <1>1. Init => WebInv
    BY InitInv, WebAssumption
  <1>2. WebInv /\ [Next]_vars => WebInv'
    BY InvStep, WebAssumption
  <1>3. QED
    BY <1>1, <1>2, PTL DEF Spec

-----------------------------------------------------------------------------
(* The theorems.                                                           *)

\* Type correctness of the tab.
THEOREM WebTypes == Spec => []TypeOK
  <1>1. WebInv => TypeOK
    BY DEF WebInv
  <1>2. QED
    BY <1>1, WebInvariant, PTL

LEMMA AskedShows ==
  ASSUME NEW k, k \in Watching, WebInv
  PROVE  Shows(k) # "blank"
  BY DEF WebInv, Asked, Shows, IsLoading

\* A signed-in user never sees a page with neither data, nor an error, nor a
\* spinner, whatever order users, pages and answers come in.
THEOREM PagesAreNeverBlank == Spec => []NeverBlank
  <1>1. ASSUME WebInv, user # None
        PROVE  View # "blank"
    <2>1. CASE page[1] = "dashboard"
      <3>1. Key("user", user) \in Watching
        BY <1>1, <2>1 DEF Watching, Watched, useUser
      <3>2. QED
        BY <1>1, <2>1, <3>1, AskedShows DEF View, DashboardPage
    <2>2. CASE page[1] = "wallet"
      <3>1. WalletKey \in Watching
        BY <1>1, <2>2 DEF Watching, Watched, useWalletSession
      <3>2. QED
        BY <1>1, <2>2, <3>1, AskedShows DEF View, WalletPage
    <2>3. CASE page[1] = "tokens"
      <3>1. CASE cache[Key("primary", user)].data = None
        BY <1>1, <2>3, <3>1 DEF View, TokensPage
      <3>2. CASE cache[Key("primary", user)].data # None
        <4>1. Key("holdings", user) \in Watching
          BY <1>1, <2>3, <3>2 DEF Watching, Watched, useTokens
        <4>2. QED
          BY <1>1, <2>3, <3>2, <4>1, AskedShows DEF View, TokensPage
      <3>3. QED
        BY <3>1, <3>2
    <2>4. CASE page[1] = "ops"
      <3>1. Key("ops", user) \in Watching
        BY <1>1, <2>4 DEF Watching, Watched, useOps
      <3>2. QED
        BY <1>1, <2>4, <3>1, AskedShows DEF View, OpsPage
    <2>5. CASE page[1] = "deal"
      <3>1. page \in Watching
        BY <1>1, <2>5 DEF Watching, Watched, useDeal
      <3>2. QED
        BY <1>1, <2>5, <3>1, AskedShows DEF View, DealPage
    <2>6. CASE page[1] = "network"
      <3>1. NetworkKey \in Watching
        BY <1>1, <2>6 DEF Watching, Watched, useNetwork
      <3>2. QED
        BY <1>1, <2>6, <3>1, AskedShows DEF View, NetworkPage
    <2>7. CASE page[1] \notin {"dashboard", "wallet", "tokens", "ops", "deal", "network"}
      BY <1>1, <2>7 DEF View, NewQuotePage
    <2>8. QED
      BY <2>1, <2>2, <2>3, <2>4, <2>5, <2>6, <2>7
  <1>2. WebInv => NeverBlank
    BY <1>1 DEF NeverBlank
  <1>3. QED
    BY <1>2, WebInvariant, PTL

\* A wallet page that heard of a new session never shows the time before as the
\* present, although queries of before may still be under way.
THEOREM ChangesAreShown == Spec => []OwnChangeShown
  <1>1. WebInv => OwnChangeShown
    BY DEF WebInv, ToldFits, OwnChangeShown
  <1>2. QED
    BY <1>1, WebInvariant, PTL

LEMMA LateStep ==
  ASSUME WebInv, NEW i \in DOMAIN calls, Answered(i)
  PROVE  /\ page' # page => page[1] \in {"connect", "quote"}
         /\ user \notin {None, user'} => ~calls[i].here
  <1>1. page \in Pages /\ CallFits(calls[i], page, cache, changed)
        /\ (page[1] = "connect" => user = None)
    BY DEF WebInv, TypeOK
  <1>2. CASE LoginAnswered(i)
    <2>1. calls[i].op = "login" /\ page' = Redirected(page, calls[i].on[2])
      BY <1>2 DEF LoginAnswered, Enter
    <2>2. page' # page => page[1] = "connect"
      BY <2>1, <1>1, Redirection
    <2>3. calls[i].here => page[1] = "connect"
      BY <2>1, <1>1 DEF CallFits
    <2>4. QED
      BY <2>2, <2>3, <1>1
  <1>3. CASE QuoteAnswered(i)
    <2> DEFINE p == IF calls[i].here THEN <<"swaps", "">> ELSE page
    <2>1. calls[i].op = "quote" /\ page' = Redirected(p, user) /\ user' = user
      BY <1>3 DEF QuoteAnswered, Enter
    <2>2. CASE calls[i].here
      BY <2>1, <2>2, <1>1 DEF CallFits
    <2>3. CASE ~calls[i].here
      BY <2>1, <2>3, <1>1, Redirection
    <2>4. QED
      BY <2>2, <2>3
  <1>4. CASE (calls[i].stage = "done" /\ (ConnectAnswered(i) \/ CancelAnswered(i))) \/ Refused(i)
    BY <1>4 DEF ConnectAnswered, CancelAnswered, Refused
  <1>5. QED
    BY <1>2, <1>3, <1>4, AnsweredKinds

\* Answers that come late take nobody away from another page, and only a login
\* whose form was left can replace the user.
THEOREM LateAnswersAreHarmless == Spec => LateAnswersHarmless
  <1>1. WebInv /\ [Next]_vars =>
          [\A i \in DOMAIN calls : Answered(i) =>
             /\ page' # page => page[1] \in {"connect", "quote"}
             /\ user \notin {None, user'} => ~calls[i].here]_vars
    BY LateStep
  <1>2. QED
    BY <1>1, WebInvariant, PTL DEF Spec, LateAnswersHarmless

=============================================================================
