# Formal models of canton-mvp

TLA+ modules that model the stateful parts of this repository, TLC
configurations that check them on small instances, and TLAPS proofs of their
main properties for every instance. Paths below are relative to the root of the
repository; `PROJECT.json` gives, for every definition, the lines it models.

Check a run with `tlc -config deal_concurrent.cfg MCDealService`, a proof module
with `tlapm DealService_proofs.tla`.

## 1. The system

| Part | State | Operations | Interacts through |
|---|---|---|---|
| Deal service (`packages/swap-engine/src/services/DealService.ts`, `domain/state-machine.ts`) | none of its own; deals, checks, approvals and instructions are in the store | createDealFromAcceptance, transition (and cancelDeal, expireDeal, confirmSettlement over it), recordPreSettlementCheck, recordLegApproval, createSettlementInstruction | store calls (awaited), events (synchronous) |
| Quote service and engine (`services/QuoteService.ts`, `SwapEngine.ts`) | requests, responses, decisions in the store | requestQuote, respondToQuote, acceptQuote, rejectQuote; the deal methods are passed on | awaits its own store reads and both services |
| Swap store, emitter (`persistence/`, `events/`) | six maps; handlers per event | save/update/get; on, emit | the store replaces whole records, `emit` runs handlers in place and does not catch |
| Party identity (`packages/party-identity/src`) | users, parties, wallets, sessions and three indexes | createUser, allocateParty, attachMetadata, storeWalletLinkage, queries | store calls (awaited); called by the API routes |
| Ledger client (`packages/canton-client/src`) | per request: timer, abort signal, attempt | fetchWithRetry and the methods over it | network, timers, three hooks |
| Validator client (`packages/validator-client/src`) | none | two requests at once, each over fetchWithRetry | called by the network routes |
| API (`apps/api/src`) | one context: the services above, one wallet adapter, two ring buffers of operations | some thirty routes behind an authentication hook and an error handler | concurrent HTTP requests; every user shares the context |
| Wallet adapter (`packages/wallet-adapter/src`) | one session per adapter; state of two hooks in each component | connect, disconnect, getSession; hooks | timers, promises, events |
| Web app (`apps/web/src`) | who is signed in, the page, localStorage, the query cache, calls under way | pages, query hooks, mutations, forms | the API |
| Daml templates (`packages/daml-models/daml`) | contracts | choices | the ledger |
| Token standard (`packages/token-standard/src`) | none | pure functions on legs and holdings | called by the deal service |

What is hard here is not one algorithm but overlap. Service methods are `async`,
read from a store whose interface is meant for a database (`ISwapEngineStore`,
`IPartyIdentityStore`: "Implement with in-memory, SQL, or other persistence"), and
write back whole records after one to five awaits. Nothing is locked. Store
operations and event handlers can throw between two writes. Requests are retried
on timers, and a request that is given up may still arrive. In the browser,
answers come after the user has gone elsewhere. The property list follows:

- deals: terms never change, links name instructions of their own deal, the flags
  of an instruction were earned, nothing is ready or settled without an instruction,
  terminal states are final, events agree with the store;
- quotes: a deal is between the two sides of one quote, has the terms that were
  accepted, and rests on one decision of its own;
- parties: indexes agree with records, one owner per party, primary party and
  login are stable;
- ledger requests: bounded attempts, timeouts are retried, nothing is sent after a
  final answer, the timer is released, the call ends, a value is that of an executed
  command;
- API: administration and wallet answers go to who may have them, the logs of
  operations tell what happened, every request is answered;
- wallet: a shown session is the adapter's or about to be replaced, loading ends;
- web: no page stays empty or, but for a validator that hangs, loading; a change is shown to who made it, late
  answers harm nobody.

## 2. Modules

| Module | Models | Uses |
|---|---|---|
| `DealStates` | the tables of `state-machine.ts` | |
| `DealService` | the deal service over its store and emitter | `DealStates`, instance of `DealCommitments` |
| `DealCommitments` | abstract: what the deal service promises under any interleaving and failure | |
| `SwapEngine` | quote service and facade, composed with the deal service | instance of `DealService` |
| `PartyIdentity` | party identity service, its store, login | |
| `FetchWithRetry` | one call of `fetchWithRetry` | |
| `LedgerClient` | a method of the ledger client, its copies in the network, and a ledger that executes a command id once | extends `FetchWithRetry` |
| `WalletSession` | the wallet adapters and the two hooks of several components | |
| `ApiServer` | every route with its hook, refusals and answers, over the shared context | |
| `WebCache` | one tab: sign-in, pages, query cache, mutations | |
| `MC...` | instances for TLC | |
| `..._proofs` | theorems and proofs | TLAPS |

**How code becomes actions.**

- *Services.* In `DealService`, `SwapEngine` and `PartyIdentity` a call in flight
  occupies a *slot*. One action is the code from the point where the call resumes up
  to and including its next store operation, or up to its return; the locals that
  live across the await are in the slot. A read is an action (`TransitionRead`), the
  checks and the write after it are the next (`TransitionWrite`,
  `TransitionReject`), the emits after the write the last (`TransitionEmit`). Two
  slots give every order of reads and writes of two overlapping calls. `CallFails`
  rejects a call at any await; `HandlerThrows` is a handler that throws between the
  two emits of `transition`.
- *Ledger client.* One action per await of the attempt, one per event of the
  network, and one per copy that arrives at the ledger, which may be long after the
  attempt that sent it.
- *Wallet.* All methods of the mock adapter wait for a timer of one length, so the
  timers form a queue, and one action is one turn of the event loop: the method's
  body, the handlers it calls, and what the hook does with the answer. The two SDK
  adapters are stubs that reject.
- *API.* A request is received, passes schema, hook and validation, and runs its
  handler up to the next await. Wallet calls of the API wait for no timer: they are
  microtasks, run in the order they were queued (`jobs`). The number of a request
  stands for its correlation id. `getValidatorPartyMetadata` is two halves that
  settle in any order, or never. The services behind the routes, modelled above,
  here answer, find nothing or throw.
- *Web.* `cache` has one entry per query key: its data, whether it is old, whether
  the last query failed, and the query under way. Navigation, sign-in, sign-out,
  reload, focus, retry and the four mutations the pages make are the user's actions.
  The server's data has two versions, before and after the one change a call makes:
  that is all the properties tell apart. The cache is `@tanstack/react-query`'s; its
  rules are external and are those the hooks rely on (shared queries, refetch on
  invalidation while watched, on focus when old).

**What is abstracted.** A leg's instrument, amount and parties are one model
value (`Terms`, `Goods`); an amount BigInt cannot parse is a member of
`UnsettleableTerms`/`UnparsableGoods`. The list of pre-settlement checks is the
set of its verdicts, since the code asks only whether it is empty and whether
all passed. Timestamps, messages and result texts are left out. Identifiers
come from `generateId` and are taken to be unique. Metadata is the set of its
keys. An error answer is its status and kind of body. Queries of one page
that have the same shape stand as one, and the retries of a failing query are
part of the one query that fails.

**Histories** (variables the code does not have): `decided` in `SwapEngine`
(every decision ever saved; the store keeps the last per response), `linked` in
`PartyIdentity` (what `allocateParty` answered), `announced`, `heard` and `qheard`
(what reached handlers), `sent` and `final` in `FetchWithRetry`, `foreign` in
`WalletSession`, `failures` and `received` in `ApiServer`, `told` in `WebCache`.

Definitions whose comment begins "Seeded error" are plausible mistakes, each of
which must make one of the checked properties fail. They are not part of any
specification.

## 3. Runs

Passing runs (properties hold on the instance):

| Run | Question | Instance |
|---|---|---|
| `deal_concurrent` | Are the flags of an instruction earned by what was recorded, does the link of a deal resolve, is readiness backed by an instruction, do handlers hear of what is stored, is `DealCommitments` implemented? | 2 slots, 1 deal, 2 instructions, 2 sets of terms (one unparsable), 2 approvers, checks that pass and fail, `cancel` and `settlement_confirmed`, instructing in every state, failures, symmetry |
| `engine_quotes` | Does every deal match its quote and rest on its own decision, does accept find its request, is `quote_accepted` heard in order? | 2 slots, 1 request, 2 responses, 2 decisions, 2 deals, failures, symmetry |
| `engine_liveness` | Does an accepting decision lead to its deal, and a settled deal to the event that confirms it? | 2 slots, 1 request and response, 2 decisions and deals, 1 instruction, no failures |
| `party_concurrent` | Do the indexes and the stable look-ups survive overlap and failure? | 2 slots, 2 users, 1 external id, 2 parties, 1 key, 2 wallets, failures, symmetry |
| `fetch_call` | Attempts, reason for giving up, timer; nothing sent after a final answer; values of executed commands only; the end of the first attempt and of the method | 4 attempts, 6 statuses, hooks that throw |
| `wallet_hooks` | Is a shown session the adapter's or about to be replaced, does a lone user's connection agree, does loading end? | 2 components, mock and stub adapter, 6 clicks |
| `api_server` | Do buffers, log and authorisation hold when requests overlap, and is every request answered? | 2 requests at a time, 3 in all, capacity 2, 9 groups of routes, 2 users, validator present or not |
| `web_cache` | Does no page stay empty, does none but the network page stay loading, is a change shown to who made it, are late answers harmless? | 7 visits of at most two pages, with 2 to 4 actions of the user; 2 users, 1 deal |

Violation runs. Each states what a document or test of the repository says; TLC
finds a behaviour of the code that contradicts it, with one call at a time except
in `party_two_users`. `PROJECT.json` quotes the sentences under "findings".

| Run | What happens |
|---|---|
| `deal_terminal_reopened` | `createSettlementInstruction` on a cancelled deal makes it `settlement_ready`. By the same missing guard a deal becomes ready without approvals, which `docs/swap-state-machine.md:15` ties to "Approvals complete". |
| `party_two_users` | Two users are both told the party is theirs. |
| `quote_leg_dropped` | The counterparty adjusts both legs, the quote is accepted, and the deal has the requester's old leg (`SwapEngine.ts:96`), where `docs/swap-engine-overview.md:46,59` and `domain/models.ts:38` let a response adjust them. |
| `fetch_timeout_final` | The first attempt times out; the loop goes on, but every further attempt has the same aborted signal and sends nothing. `docs/client-error-model.md:99` calls timeouts "always retryable". |

**Bounds, and why they are enough.** Two slots: every anomaly of a
read-then-write of one record needs one other call. One deal in `deal_concurrent`,
where the calls that disturb one another are about one deal; that records of
different deals are not confused is part of what is proved for any number of them,
and `engine_quotes` has two. Two instructions, so that a link can be replaced by a
later one; two sets of terms so that a change of terms shows. Two approvers, because
the code counts two. `expire` is left out where `cancel` is there: both lead from the
same states to a terminal one. Two responses and two decisions, so that a quote can be answered and decided twice. The
deal calls of `engine_quotes` are confirmations, which are all refused there: its
question is about quotes, and the deals' own steps are in the other runs.
`engine_liveness` has one party and one good, because who trades what does not bear
on progress.
`RoomFor...` guards start a call only when an identifier is left for it, so that the
bound never blocks a call half-way. Four attempts (`retries` = 3, the default) and
six statuses: a duplicate, a client error, a server error and the three of
`DEFAULT_RETRYABLE_STATUSES`. Six clicks let a component be mounted, connect,
disconnect and be mounted again while another acts. Three requests are what it
takes to fill a buffer of two and drop its oldest entry; two at a time, to overlap.
`Loads` groups the routes that share state, so that each pair that can disturb one
another is together; `Visits` groups pages in the same way (the page of a mutation,
and the page its answer could disturb). Symmetry is used for slots and
identifiers, in runs without liveness only. The proofs below remove these bounds
for most of the properties.

**Deadlock** is checked except where the system may stop: a method that has
returned (`fetch_call`), a user who has used up the bound on clicks, requests or
moves (`wallet_hooks`, `api_server`, `web_cache`).

**Fairness.**

- `DealService`, `SwapEngine`: `WF` of resuming each call: when a store operation
  has settled, the runtime resumes the function, and no method waits for another
  caller. Assumed only with `Faults = FALSE`. Starting a call is never fair.
- `FetchWithRetry`, `LedgerClient`: `WF(Client)` and `WF(Throws)`: timers fire and ready
  code runs. Of the server nothing is assumed; `MethodEnds` has a server that
  answers and a body that arrives as its hypothesis.
- `WalletSession`: `WF(Fire)`: timers run out.
- `ApiServer`: `WF(Serve(r))` for each request. Of the validator nothing is assumed,
  and `RequestsAnswered` leaves out the metadata request whose halves are open.
- `WebCache`: `WF` of taking the answer of each query, and of answering each but that of
  the network page. That the API answers is `RequestsAnswered`; the metadata request,
  which that property leaves out, may wait for its validator for ever (`fetch.ts:85`
  leaves its later attempts without a timeout), so of the network page `LoadingEnds`
  says nothing.

**Behaviour met while modelling that no run is about.** Some of it shows in a
single action of the models, some is outside of them.

Deals and quotes:
- `createSettlementInstruction` changes the state of a deal without
  `deal_state_changed` (`InstructEmit`).
- The flags of an instruction may be outdated when it is saved: they are computed from
  lists read before two awaits (`FlagsEarned` is what remains true of them).
- `acceptQuote` after `rejectQuote` replaces the stored decision (`SaveQuoteDecision`).
- `cancel` and `expire` can overlap, and the later write replaces the terminal state
  of the earlier (`TransitionWrite`).

Parties: two overlapping `attachMetadata` calls lose one's keys (`AttachWrite`).

Requests:
- The timer of the call is cleared after the first attempt, so a later attempt
  has no timeout and may wait for ever (`fetch.ts:85`), where
  `docs/client-error-model.md:55` says "Thrown when the request exceeds `timeoutMs`".
- Status 504 is not retried and a definite 429 or 503 is (`Retryable`), contrary to
  that document.

API:
- All users share one wallet session. A route that answers 400 or 404 by throwing is
  recorded among the errors; 401, 403 and 502 are not. A body or query string is
  validated before the authentication hook of the route.

Web:
- `useCancelDeal` invalidates `["deals"]` and the page keeps the deal under
  `["deal", dealId]` (`useSwaps.ts:83`; `docs/frontend-state-model.md:32` says
  mutations "invalidate related queries on success"): the page shows the old state
  until it is old or refetched.
- Leaving the wallet page while its query is under way lets an answer from before
  the change count as fresh on return.
- A login whose form was left signs in when it is answered, and replaces who is
  signed in by then.
- The deal page does not test for a user and is blank without one; the tokens page
  says "No party linked" while the party is loading or its query failed; the
  dashboard compares the error with "No party linked" (`dashboard/page.tsx:65`),
  where the API says "Not Found".

## 4. Proofs

All for arbitrary constants; what is assumed is the named `ASSUME` of each module
(sets are what their comments say, `None` is not a member of them, bounds are
natural numbers). Each argument is an inductive invariant, stronger than the
properties that follow from it.

- **`DealService_proofs`.** `TypeOK` alone is not inductive: that a call resuming
  after its read has a deal at hand is a fact about the call. `DealInv` is about the
  copies in flight. A copy may be outdated, but its terms agree with the
  stored deal (terms never change), the link it carries resolves (instructions are
  never removed), and if it says ready or settled it carries such a link (`Backed`).
  Since what is written back is such a copy with its state moved along the table, the
  stored deal is backed as well; `ReadyFromReady` shows that without
  `approvals_complete` the table leads to readiness only from readiness. Proved from
  it: `TypeCorrect`, `InstructionsMatchDeals`, `LinksResolve`,
  `ReadyDealsAreInstructed`, `EventsAreBacked`, `TermsAreFixed`, and
  `CommitmentsAreKept`, the refinement of `DealCommitments` when callers do not pass
  `approvals_complete` (no method of `SwapEngine` does). `FlagsAreEarned` has an
  invariant of its own: what a call has read of checks and approvals is contained in
  what is stored, because the lists only grow.
- **`SwapEngine_proofs`.** `QInv` says what a quote call in flight knows: requests,
  responses and decisions are written once, so what was read before an await is
  still what is stored, and no two calls are about to open a deal on one decision.
  The joint invariant relates deals to their quotes; in it a deal has the
  requester's own leg and the counterparty's own leg (`DealFromQuote`), from which
  `DealMatchesQuote` follows for a response that confirms. Proved: `EngineTypes`, `RequestIsFound`, `DealsMatchQuotes`,
  `DecisionsBackOneDeal`, `AcceptedIsHeardInOrder`. Both invariants together give
  `SettlementsAreAgreed`, from a stored settlement back to the quote and the one
  acceptance it rests on, without the leg that `quote_leg_dropped` is about. `QuotesAreWrittenOnce` says why reading over several awaits
  is safe here. The engine reaches its deal part through the actions of `DealService`
  alone (`DealPartSpec`), so the theorems about `DealService` are theorems about the
  engine: `EngineKeepsPromises`, `EngineKeepsCommitments`.
- **`PartyIdentity_proofs`.** `PartyInv`: the copy `attachMetadata` writes back names
  a user whose list has the party, because lists only grow. Proved from it: the
  three index properties, and that the primary party stays. `LoginIsStable`: users are
  found by the first match in order of creation, a new user is put at the end, and no
  external identity is taken away, so the first match stays the first.
- **`FetchWithRetry_proofs`.** `FetchInv`: the timer belongs to the first attempt and
  a retryable error ends the call at the last one. Proved from it: `FetchTypes`,
  `AttemptsAreBounded`, `TimerIsReleased` and `FinalAnswersAreFinal`. `StepsRunOut` is the part of termination that needs no
  fairness: every step lowers a number that starts at `4 * Retries + 5` at most.
- **`LedgerClient_proofs`.** `LedgerInv`, over `FetchInv`: a copy that was executed is
  among the effects, and a success the call took is the answer to such a copy. Proved:
  `LedgerTypes`, `ValuesAreOfExecuted`. That the ledger executes a command id once is
  an assumption of the model about a service outside of the repository, not a result.
- **`WalletSession_proofs`.** `WalletInv`: whenever the session changes, every mounted
  component has a refresh in the queue; removing the head of the queue
  loses only the caller's own refresh, which has just been answered. Proved:
  `WalletTypes`, `ShowsTheSession`, `BusyHooksWait`. `LoneConnectionAgrees`, for a
  component alone on the page, rests on `ConnectionInv`: its detectSession is answered
  before its other calls, so until then it has no connection, and from then on the
  connection it shows is the session.
- **`ApiServer_proofs`.** `ApiInv`: what each request has passed stays true while it
  waits (`Fits`; roles are written once), each waiting wallet request has one
  job (`Queued`), and the last job that will record a command, or else the log,
  tells the session (`LogTells`). Proved: `ApiTypes`, `BufferHoldsTheNewest`,
  `LogAgreesWithSession`, `OnlyTheAuthorisedAreAnswered`.
- **`WebCache_proofs`.** `WebInv`: what is watched has data or an error or is asked
  for (`Asked`); a mutation whose form is still there is on that form's page
  (`CallFits`); once the page was told of a change, no answer from before it is
  under way (`ToldFits`). Proved: `WebTypes`, `PagesAreNeverBlank`, `ChangesAreShown`,
  `LateAnswersAreHarmless`.

Model-checked only: liveness, which is out of the prover's reach with the fairness it
needs (`SettledReachesHandler`, `DecisionLeadsToDeal`, `RequestsAnswered`,
`LoadingEnds`, `FirstAttemptEnds`, `MethodEnds`). Every other property of a passing run
has a theorem.

## 5. Not modelled, and why

- **Daml templates.** The package does not compile as it stands: `SwapIntent.daml`
  uses `SettlementInstruction` without importing it, `AppRegistry.daml:27` and
  `PartyProfile.daml:30` apply `fromOptional` to a Text. Where a consuming choice
  archives `self` in its body, the ledger would refuse it. There is no running
  program to be faithful to; with these repaired, signatories, controllers and
  at-most-once settlement are what to model.
- **Token standard.** `swapLegs` debits and credits each amount once, so the check of
  balance cannot fail on amounts that parse; that an amount may not parse is in
  `DealService`. Aggregation, mappers and schemas are conversions without state.
- **Identity**: sessions and `updateUser` (no caller), permission queries.
- **Wallet**: preparing, signing and submitting, `getHoldings`, `useWalletEvents`.
- **Clients**: normalisation of answers, the scan client, which nothing calls.
- **API**: reading of the configuration, signatures of tokens, rendering of answers.
- **Web**: hooks no page uses, a query that the library pauses while the browser is
  offline (neither loading nor failed: the deal page would then show nothing,
  `swaps/[dealId]/page.tsx:18`), failures of the second query of the tokens and network
  pages, which show the data of the first, several tabs over one localStorage, removal of unused
  cache entries. **Admin and documentation apps**: pages without state of their own.
- **Observability, shared types, examples, integrations, infrastructure**: no state.
- `validUntil` is stored and never read; expiry is an outside job and appears as the
  event `expire`. `decidedBy` is never checked.
- A restart loses the in-memory stores entirely, so no recovery exists to be
  modelled.

## 6. What is left

1. Safety parts of the liveness properties that are only model-checked: for each, a
   number that its steps lower, as `StepsRunOut` has it for `fetchWithRetry`.
2. The Daml workflow, once the package compiles.
3. Several tabs: `stored` shared, and a tab that reads it when it is reloaded.
