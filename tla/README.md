# mcp-gcp-observability: a TLA+ development

The program is an MCP server that answers observability questions (logs,
metrics, traces, errors, profiles) from Google Cloud. In its HTTP mode it is an
OAuth authorization server of its own, runs one set of Google clients per
signed-in user, and keeps its OAuth state in Firestore, so several instances may
serve the same client. This directory models the parts in which concurrency,
time and failure decide whether the program is right, and the computations whose
boundary cases decide whether an answer is.

Paths below are relative to `src/internal/` unless they start with `src/`.

## 1. Inventory

### Authorization server (`authsrv`)

| Part | State it keeps | Operations |
|---|---|---|
| Grant lifecycle (`grants.go`, `token.go`, `revoke.go`, `verifier.go`) | none in memory; documents `oauth_codes`, `oauth_grants` | exchange a code, prepare and rotate a refresh token, revoke (by access token, by refresh token, after a terminal answer of Google), verify a bearer token |
| Store (`store.go`, `firestore_store.go`) | the documents; per call, a transaction with attempts and a closure variable | reads, four grant/code transactions, one transaction that consumes an authorization state |
| Login (`authorize.go`, `callback.go`, `dcr.go`, `redirect.go`) | document `oauth_states`; the client id itself, signed, carries the registered URIs | register a client, store a state, show consent, consume the state at the callback, store a code |
| Sealing (`seal.go`, `keys.go`) | a key ring per release: the first key seals, all open | seal and open states, tokens, client ids |
| Metadata, configuration | none that changes | static documents, validation |

A request captures the time once and uses it in every store call. Between two
store calls, and during a call to Google, any other request, a tick of the clock
or the Firestore TTL policy may come in, from another instance too. A store call
may fail, or commit although its caller sees an error; the answer may not reach
the client, who then retries. Correctness: a code and a refresh token have at
most one successor; revocation is final; a replay is answered only when the
family is dead; a rotation never prolongs a family; a bearer token of a dead
family is refused; a spent token cannot revoke; no race locks a client out.

### Per-user assemblies (`server/userpool.go`, `gcpdata/profiler_cache.go`)

`userPool` maps a Google subject to an entry (clients, handler, token source,
inflight count, call slots). The first request builds the entry outside the lock
while others wait on a channel; a janitor evicts idle entries; a full pool evicts
its least recently used idle entry; `Close` takes all of them. Correctness: no
request on closed clients; no clients leaked or closed twice; one assembly and
one set of call slots per user; a failed or panicking build releases its waiters.

Every assembly owns a `ProfileCache`: an LRU list under its own mutex, drawing on
one process-wide atomic counter. Correctness: the counter and the lists agree up
to the calls in flight; neither budget is exceeded; an entry the caller needs is
not evicted; a closed cache stays empty.

### Server (`server`)

| Part | State it keeps | Operations |
|---|---|---|
| Tool limits (`server.go`) | a channel of call slots per instance, one of profiler slots per process | take one or both slots under one deadline, run, give back |
| Transport (`transport.go`) | two channels between `serveHTTP` and its stopper; the deferred closes | serve, signal, drain for five seconds, force, close pool and store |
| Completion (`completion.go`) | a list of services behind a mutex, the time of the next retry | discover once, cool down after a failure |
| Prompts, resources, variants | none | text, registration |

Hard there: waiting for one semaphore while holding another; a slot granted at
the deadline; shutdown racing an early exit of the listener; completions queueing
behind a slow scan. Correctness: slots are given back exactly once; the wait is
taken out of the scan's budget; nothing closes under a request that is drained;
everybody who waits is answered.

### Queries and tools (`gcpdata`, `metrics`, `tools`)

Stateless between calls, except for the profile cache: validation, calls to
Google's APIs, paging, aggregation, formatting. `gcpdata` reads profiles, logs,
metrics, traces and errors; `metrics` classifies a window against a baseline;
`tools` joins several queries into an answer. Hard there: a page cursor in the
middle of a scan limit; a budget that ends between two pages, or a limit within one; a cache that is full
or loses entries while a call uses it; recursive, inlined and unnamed frames;
series of different grids; windows with too little data; one of several parallel
queries failing, panicking or never starting. Correctness: paging neither skips nor
repeats; an answer is complete or says it is not; views of the same data agree; a
verdict is carried by the data it names.

### Interactions

`/mcp` request -> bearer check (`VerifyAccess`) -> `userPool.ServeHTTP` (entry,
call slot) -> MCP server of the entry -> tool limits -> tool -> querier -> Google;
profiler tools go through the entry's `ProfileCache`. `/token` and `/revoke` use
the store and Google's OAuth endpoints. At shutdown the listener drains for five
seconds, then the pool and the store are closed.

## 2. Modules

| Module | Models | Kind |
|---|---|---|
| `GrantRules` | records, decision functions and transaction bodies of grants and codes | operators |
| `GrantLifecycle` | the handlers over the store, one process per request | specification |
| `AtomicStore` | what the handlers expect of the store: one step per call | abstract specification |
| `FirestoreTx` | the transactions as attempts that abort and retry; refines `AtomicStore` | specification |
| `ProfileCache` | the byte-bounded caches and the shared counter | specification |
| `UserPool` | the pool of assemblies, its janitor and `Close` | specification |
| `AuthorizationFlow` | registration, authorization, consent and callback, with rollouts of the key ring | specification |
| `RedirectRules` | the redirect policy | operators |
| `ToolLimits` | the semaphores and the budget around a tool call | actions, without a specification of its own |
| `HTTPShutdown`, `ServiceLister` | serving and stopping; the services of the completions | specifications |
| `ServerRuntime` | extends `ToolLimits` with the other two, side by side, and fairness | composition |
| `ProfilePages`, `ProfileCosts`, `ProfileTrends` | listing profiles; the views of a profile; trends over the cache | specifications |
| `LogPages`, `LogScans` | paging of logs, traces and events; what is made of bounded scans | specifications |
| `TraceReports` | span trees, error groups and their trends | specification |
| `MetricSeries` | reading, reducing and folding series | specification |
| `SignalRules` | features of a window, its baseline, the classification | operators |
| `MetricSignals`, `MetricTools` | verdicts and comparisons; the tools that query in parallel | specifications |
| `MetricQueries` | the three modules on metrics, one at a time | actions, without a specification of its own |
| `Queries` | extends `MetricQueries` with the six on profiles, logs, traces and errors | composition |
| `GrantLifecycleProofs`, `FirestoreTxProofs`, `AuthorizationFlowProofs`, `UserPoolProofs`, `ProfileCacheProofs`, `ServerRuntimeProofs`, `QueryPartProofs`, `QueriesProofs` | theorems about the module of that name (section 5); `QueriesProofs` takes the parts on metrics from `QueryPartProofs` | proofs |
| `MC...` | symmetry sets and inputs for TLC; scalar constants are in the `.cfg` files | instances |

Operators called `X_Y` next to a definition `X`, introduced by "Variant", are
plausible defects of `X`. No specification uses them: substituted for `X`, each
makes TLC report one of the properties, which shows that the property depends on
the code it is about.

### GrantLifecycle

Actions carry the names of the Go functions. A handler is split exactly at its
store calls and calls to Google: e.g. a refresh is `StartRefresh`,
`PrepareRefresh` (GetGrant and the checks), then `ReplayGrant`, or `IdpRefresh`
followed by `RotateRefresh` and `Mint`. `req[r].now` is the captured time,
`req[r].rec` the record read before the call to Google.

Abstractions. Secrets are numbered in the order in which they are stored; 0 is
"no hash". Clients present only what they were given. All instances share one
clock. Client id, redirect, PKCE, resource, domain and blob checks are one
nondeterministic rejection; records that do not decode are left out. The 4xx
answers that no property distinguishes are one outcome. A store call ends in
`ack`, `fail` (no effect) or `lost_ack` (effect, error seen). A TTL deletion may
happen at any time after `expires_at`. `rotations`, `birth`, `lost` and `dead` are
history: no guard reads them.

### AtomicStore and FirestoreTx

`AtomicStore` performs a whole call in one step, with the transaction bodies of
`GrantRules`: the very operators `GrantLifecycle` uses. `FirestoreTx` describes
the closures once more, as attempts: `Attempt` reads and decides, `Commit` writes
if nothing the attempt read has been written since, `Abort` runs the closure again
until `RunTransaction`'s limit. The closure's `replayed`/`revoked` variable is
`flag`. The refinement maps an attempt in progress to a call that has had no
effect (`callView`); `ImplementsStore` is `AtomicStore`'s specification under that
mapping. `StaleAfter`, `Commit` and `Abort` describe the Firestore client from how
the code uses it: reads recorded, writes applied together or not at all.

### ProfileCache

A call that is not idle holds its cache's mutex, so `call[c]` doubles as the lock.
Everything a call does between two accesses to the shared counter is one action.
`Evictions` and `Freed` state the eviction loop declaratively: the least number of
oldest entries that makes room, the key's own old value counted as freed. The size
of a list is the sum over its set of entries, and a sum is the number of cells it
counts (`SumOf`), not a recursion, so that it can be reasoned about; a key never
comes twice (`UserBudget`), so the set loses nothing.

### UserPool

One action per critical section of `p.mu`, per channel operation and per atomic
update. The scan for the least recently used victim runs under the lock and is one
step. `age` is the time since `lastUsed`, capped one tick past the idle limit (two
entries past the limit tie). An entry id is used again when the entry is garbage,
so that behaviours are unbounded with a fixed set of ids. Tokens are the classes
of Google tokens by expiry. The builder is external: it succeeds, or fails or
panics, having closed what it opened.

### AuthorizationFlow

`/authorize` and `/authorize/confirm` make one store call each and are one step; a
callback is split at its transaction, its calls to Google and `PutCode`. `n` is the
release that serves a request: while traffic shifts, `oldest..newest` serve, each
with its own ring. `UseAuthorizationState` is one atomic step, as `FirestoreTx`
shows for the other transactions; the opening of the claims and the first answers
follow in it, since nothing in between is shared. A lost acknowledgement leaves the
state used and shows the error page. The verified email, domain, scopes and id
token are one nondeterministic rejection (`Exchange`). `codes`, `sent`, `refused`
are history.

### ServerRuntime

`HTTPShutdown` and `ServiceLister` share no variable with the calls of `ToolLimits` in
the code either: a behaviour moves one of them, chosen at the start, so that TLC does not
multiply what is independent. A channel used as a semaphore is the number of its
slots taken and the queue of its blocked senders, served in order of arrival; a
waiter whose context ends leaves the queue, or runs if the slot came first.
`HTTPShutdown` has `serveHTTP` (`Main`) and its goroutine (`Stopper`) with the
buffered `done` and the closed `exited`. `net/http` is modelled from its use:
`Shutdown` makes `ListenAndServe` return at once and waits for active connections,
`Close` cuts connections but handlers run until they notice.

### Queries

Calls share nothing but what `ToolLimits` and `ProfileCache` model, so `Queries`
moves one client's calls of one kind at a time. Each module has `input` (what the
API holds), `call` (local variables of the running call) and `answer` (what the
client has got).

* `ProfilePages`: a call examines profile by profile, within and across the pages
  of the API, until a match limit or the scan limit; a failure is answered with an
  error and the client repeats from its token. `LogPages` does the same for the
  listings that pass the API's tokens through, with the iterator's buffer; the API
  may answer pages with fewer entries than asked for, and none, that carry a token.
  `answer.from` and `short` are history: where the last call began, and whether a call
  has met a page with some but not all entries it could have had.
* `ProfileCosts`: a profile is a set of samples with leaf-first stacks of
  locations, a location being a sequence of inlined functions, 0 an unnamed one.
  Values are added exactly; percentages are basis points, rounded as in the code.
* `ProfileTrends`: the call lists, prefetches, loads and analyses profile by
  profile, while another call of the user inserts into the cache, the process
  budget refuses, downloads fail and the context ends. Its cache is what
  `ProfileCache` promises, with entries of one size. `sort.Slice` may put equal
  times, or functions of equal peaks, in any order: `Chronological` and `Ranked` are
  the sets of the orders and choices it may end with, as is `Rankings` in
  `MetricTools`.
* `LogScans` reads entry by entry, as the code does, and answers when it has enough;
  an entry's texts are numbers, and the sizes of its parts stand for its bytes. That
  the token of `QueryLogs` tells `FindTracesFromLogs` whether entries are left is taken
  as given (`LogPages` says when it does not).
* `TraceReports`, `MetricSeries`: one answer of the API and what is made of it.
* `SignalRules`: values are integers, ratios are pairs compared by
  cross-multiplication, deviations are compared by their squares: exact where the
  code uses floating point, so that rounding at a threshold is not modelled. What the
  code sorts is stated by ranks: the k-th of some values is the one with so many
  before it (`Smallest`, `Place`).
* `MetricTools`: `runParallel` with its semaphore, panics and tasks that are not
  started; every query brings points, points with a warning, nothing, nothing
  because all points were dropped, or an error. `answer.got` is history: what each
  query brought, which the properties compare with what the answer says.

Where the model follows the code and a reader may not expect it:

* `ComputeTrends` orders profiles by their RFC 3339 texts, in which a whole second
  sorts after its own fractions.
* The flame graph walks a location's inlined lines from the innermost outwards, so
  that each inlined line of the leaf has self cost; `peekFunction` counts a
  recursive function once per frame, the other views once per sample.
  `PeekAgrees` and the sums of the flame graph are stated for the cases in which
  the views define the same cost.
* `findMatchingFunctions` also finds functions of locations on no stack; in the
  model every location is on a stack.
* `buildSpanTree` leaves out spans in a cycle of parents, although the trace's
  count includes them.
* `FindRequests` and `ListServices` say they are truncated when exactly as many
  entries as may be examined were there.
* `GetErrorGroup` answers "no events" for a last page that turns out to be empty.
* The service lister treats a caller that went away as a failed scan: others get no
  names for 30 seconds.
* The carry-forward bound of `foldGroupSeries` counts buckets that occur in some
  series, not time.
* A `metrics_related` skip because the context ended alone does not make the answer
  partial.
* A step towards the better that still breaches the objective is a
  `step_regression`: step 6 of `classifyCore` tests no direction (see the end of
  section 4 for the case in which there is none).

## 3. Runs

| Run | Bounds | Shows |
|---|---|---|
| `grant_lifecycle` | 1 family, 2 requests, 2 secrets, clock to 3, all faults | type, `OneSuccessor`, `ZeroNeverStored`, `NoResurrection`, `ReplayedMeansRevoked`, `NoAcceptAfterRevocation`, `AcceptWithinLifetimes`, `SpentTokenRevokesNothing`, `LocalRevokeFirst`, `ActiveSecretReachable` |
| `grant_code_replay` | 1 secret, clock to 2, no faults | violation of `CodeReuseMeansRevoked` (finding 1) |
| `firestore_tx` | 2 callers, 2 secrets, 2 attempts, clock to 2 | `AnswerHonest`, refinement `ImplementsStore` |
| `profile_cache` | 2 caches, 2 calls, 3 keys, sizes 1 and 2, limits 3 and 4 | `AccountingExact`, `ProcessBudget`, `UserBudget`, `KeepHonoured`, `ClosedHoldsNothing` |
| `user_pool` | 2 users, 3 requests, pool of 1, 1 call slot, 3 entries | `NoUseAfterClose`, `ClosedOnce`, `NothingLeaks`, `OneAssemblyPerUser`, `UserConcurrency` |
| `user_pool_live` | 2 users, 2 requests, pool of 1, no shutdown | `NobodyIsForgotten` (`WaiterAnswered`, `IdleIsEvicted`) |
| `user_pool_close` | 1 user | violation of `CloseTearsDownAll` (finding 2) |
| `user_pool_token` | 1 user, 2 tokens | violation of `TokenAlwaysValid` (finding 3) |
| `authorization_flow` | 1 login, 2 callbacks, 1 client, 5 URIs, 4 key rings, clock to 2, all faults | `OneCodePerLogin`, `RedirectsTrusted`, `RotationKeepsLogins` |
| `server_runtime` | 3 calls on 2 instances with 1 slot each, 1 profiler slot; 2 requests; 2 completions | `SlotsExact`, `OneBudget`, `ClosedAfterDrain`, `ScansAreRare`, `NobodyWaitsForever` |
| `queries` | see below | `PagingExact`, `CostsAgree`, `TrendsComplete`, `ScansHonest`, `ReportsComplete`, `SeriesExact`, `VerdictsSound`, `VerdictsUnbiased`, `ToolsHonest` |
| `short_pages` | 4 log entries, limit 2, one page without entries at a time | violation of `PaginationIsFull` (finding 4) |

Why the bounds are enough. Families do not interact, so one suffices; two requests
are what every race needs (a reader and the one that overtakes it), and the
theorems of section 5 lift the result to any number. Clock 3 exceeds each lifetime
(code 1, access 1, family 2), so expiry, deletion and use of a captured time from
before it all occur; Google tokens live 0 or 2 ticks, shorter and longer than an
access token. `MaxSecrets` makes Google refuse once two secrets were stored, hence
every path after a first rotation is explored. In `firestore_tx` the second
attempt is both a retry and the last one. In `profile_cache` the two user limits
add up to more than the process limit, and three keys of two sizes fill a list
with evictable, kept and replaced entries. In `user_pool` a pool of one makes each
arrival of the other user an eviction or a refusal; three requests are a builder, a
waiter and a newcomer; three entries are a pooled, an evicted and a failed one; a
limit of one slot is reached by two requests.

In `authorization_flow` (693 312 states) logins do not interact; two callbacks are the
repeated one and its twin, and the clock passes the lifetime of a state. The rings
`old`; `old,new`; `new,old`; `new` are a rotation in which every key is known before
it seals, with each release promoted or rolled back. In `server_runtime` (24 495
states) two calls contend for the slots of an instance and, with the third, for the
process-wide one; a budget of one tick ends before, at and after a grant; a drain of
two ticks ends before and after the requests. In `queries` (259 268 states) the API
holds up to four profiles in three pages with a scan limit of 3 and match limits of 1
and 2, so that calls stop inside, at and between pages; stacks are empty, recursive,
inlined or unnamed; a cache of two holds fewer than the three profiles a call wants;
four log entries exceed a scan limit of 3; three spans make chains, orphans, equal ids
and cycles; series over five buckets outlive a
carry-forward of two; windows of twelve points are level, stepping, spiking or
drifting, whole or sampled, against one to four weeks; two related metrics run one at
a time with every outcome of each query. A property about one part is a conjunction of
facts that relate its answers to the whole input.

The listings of `queries` get pages of every length, from empty to full. In
`PagingExact` they satisfy `ListingSound`: a client that follows the tokens gets no
entry twice and each after those before it; a call answers consecutive entries, and one
that stops short of its limit a token that goes on right after them; and while every
page that has entries is full, nothing is skipped. What is skipped otherwise is
finding 4.

Deadlock is checked in every run: time, deletions, arrivals or another query remain
possible in every state of these models; a server that has stopped completely is
`Over` in `HTTPShutdown`.

### Fairness

`user_pool_live`: `Proceed(r)` is weakly fair: goroutines are
scheduled, a builder returns or panics, and Go channels release a waiter once
ready is closed. The janitor is weakly fair because of its ticker, `Tick` because
time passes. Arrivals, cancellations and the end of a handler have no fairness: a
handler may stream for ever.

`server_runtime`: goroutines run, timers fire and the clock ticks, all weakly fair.
A tool whose context has ended returns, and so does one without a deadline; a scan
need not return by itself. Requests and signals need not come to an end. Go's mutex
hands itself to a waiter that starves, hence strong fairness of `Lock`; a scan for
service names ends with its timeout at the latest.

## 4. Findings

1. `src/deploy/RUNBOOK.md:72` says that "replaying a consumed code or refresh token
   revokes the grant family". `codeRedemptionDecision` (`authsrv/grants.go:262`)
   tests the expiry before the status. A used code presented again after its sixty
   seconds is answered `authorization_code_reused` (the handler tests the status
   first) but the store call, whose error is ignored, writes nothing.
2. `server/userpool.go:359` says "Close tears down every pooled assembly". An entry
   whose build has not finished is taken out of the pool and skipped; when the
   build succeeds afterwards nobody closes its clients.
3. `authsrv/tokens.go:44-46` says the embedded Google token outlives the bearer
   token, "so a static per-request TokenSource is always valid". The pooled clients
   use the source of the user's latest request (`userpool.go:209`), so a running
   request whose own tokens are valid can call Google with another request's
   expired one.
4. `gcpdata/logs.go:410` recommends `logs_query` "for full results with pagination".
   `collectLogEntries` stops at its limit and answers the iterator's token
   (`logs.go:203`, `220`), which is that of the page after the buffered one. A short
   page makes the iterator fetch the next within the same call
   (`gcpdata/logs_test.go:121-132` has a page of one entry and a token at limit 10);
   if the limit is reached inside that one, its remaining entries are in no answer.
   `ListTraces` and `GetErrorGroup` do the same (`traces.go:110-123`,
   `errors.go:192-230`). The case in which all pages with entries are full is
   `WholeIfFull`, checked and proved.

Met while reading, and stated by no run:

* `src/deploy/RUNBOOK.md:91` introduces a new key by deploying `newKey,oldKey`; while
  traffic is split, the old release cannot open what the new one seals.
  `src/deploy/RUNBOOK.md:41` forbids to split traffic between such releases. The rings
  of `authorization_flow` deploy `old,new` first (`KeysAnnounced`: no release seals
  with a key that its predecessor does not know), and `RotationKeepsLogins` excuses no
  other loss than that of a dropped key.
* `metrics/classify.go:259-262` says that for a metric without a better direction the
  classifier detects "not sustained/step regressions", because "calling a change a
  "regression" would be misleading". Step 6 of `classifyCore` (line 187) asks for a
  step, little noise and a breached objective, and not for the direction: such a metric
  with an objective becomes `step_regression`, e.g. with 8 points of 4 and then 4 of 6
  against a baseline of 4 and an objective of 5.
* `metrics/classify.go:113-119` says that an unreliable window turns a verdict into
  noisy and an unreliable baseline into stable. `applyReliabilityDowngrade` (228-252)
  answers `insufficient_data` to both, and says why. The model follows the code, and
  `NeverHealthy` is what the code does: after the older comment a significant worsening
  against a thin baseline would be called stable, and the property would not hold.
* `gcpdata/metrics.go:230-233` says that a DELTA metric of distributions requires
  `ALIGN_MEAN`. `QueryTimeSeries` leaves the choice to `selectAligner` (778-793), which
  takes `ALIGN_DELTA` since the API rejects the mean there (761-767). The model follows
  the code.
* The in-memory store of the tests differs from Firestore's: `RedeemCode` leaves no
  revoked document for a family that is gone, and overwrites a grant that exists.

## 5. Proofs

The theorems hold for every value of the constants that the assumptions allow: any
families, requests, callers, users, clients, keys, rings, limits, lifetimes and
bounds. Each rests on an inductive invariant that is established by `Init`, kept by
every action, and implies the property.

| Module | Invariant | Theorem | Property |
|---|---|---|---|
| `GrantLifecycleProofs` | `Inductive`: `TypeOK /\ IndInv` | `TypeCorrect` | `TypeOK` |
| | | `RotationHasOneWinner` | `OneSuccessor` |
| | | `ReplayNeverErases` | `ZeroNeverStored` |
| | | `RevocationIsFinal` | `NoResurrection` |
| | | `ReplayedFamilyIsRevoked` | `ReplayedMeansRevoked` |
| | | `AcceptanceIsSound` | `NoAcceptAfterRevocation` |
| | | `LifetimesBound` | `AcceptWithinLifetimes` |
| | | `GoogleComesLast` | `LocalRevokeFirst` |
| | | `SpentTokenIsNoop` | `SpentTokenRevokesNothing` |
| | | `NobodyIsLockedOut` | `ActiveSecretReachable` |
| `FirestoreTxProofs` | `AttemptsAreFresh`: `TxInv` | `StoreIsImplemented` | `ImplementsStore` (refinement) |
| | | `VerdictsAreHonest` | `AnswerHonest` |
| `AuthorizationFlowProofs` | `FlowTyped`: `TypeInv` | `CodeIsSingle` | `OneCodePerLogin` |
| | | `RedirectsAreTrusted` | `RedirectsTrusted` |
| | | `RolloutKeepsLogins` | `RotationKeepsLogins`, if `KeysAnnounced` |
| `UserPoolProofs` | `PoolInductive`: `PoolInv` | `ServedByOpenClients` | `NoUseAfterClose` |
| | | `NobodyClosesTwice` | `ClosedOnce` |
| | | `NoClientsLeak` | `NothingLeaks` |
| | | `BuildIsShared` | `OneAssemblyPerUser` |
| | | `CallsAreBounded` | `UserConcurrency` |
| `ProfileCacheProofs` | `CacheInductive`: `CacheInv` | `CounterIsExact` | `AccountingExact` |
| | | `ProcessStaysInBudget` | `ProcessBudget` |
| | | `UsersStayInBudget` | `UserBudget` |
| | | `ClosedStaysEmpty` | `ClosedHoldsNothing` |
| | | `KeptEntriesSurvive` | `KeepHonoured` |
| `ServerRuntimeProofs` | `RuntimeInductive`: `RuntimeInv` | `SlotsAreExact` | `SlotsExact` |
| | | `BudgetIsShared` | `OneBudget` |
| | | `DrainComesFirst` | `ClosedAfterDrain` |
| | | `CompletionsScanRarely` | `ScansAreRare` |
| `QueriesProofs` | `PagesInv`, `ListingInv` | `PagingIsExact` | `PagingExact` |
| | `TrendInv` | `TrendsAreComplete` | `TrendsComplete` |
| | `SignalsInv` | `VerdictsAreSound` | `VerdictsSound` |
| | `ToolsInv` | `ToolsAreHonest` | `ToolsHonest` |
| | `SeriesRun` | `SeriesIsExact` | `SeriesExact` |
| | `ScansInv` | `ScansAreHonest` | `ScansHonest` |

### Assumptions

The named `ASSUME`s of the models say that bounds, lifetimes, sizes and capacities are
natural numbers (capacities, attempts and budgets of at least one), that faults are
among those modelled, that an absent id (`NoEntry`, `NoCaller`) is none, and that
every release has a key. Two say more. `ProfileCache` has finitely many users and
calls, without which the shared counter is no sum. `AuthorizationFlow` takes URIs to
be records of their parts (`IsURI`).

Some theorems have hypotheses of their own; the TLC instances meet them, and `ASSUME`s
of the `MC` modules have TLC evaluate them (`RingsAnnounced` and those of `MCQueries`). `KeysAnnounced`: no release seals with a key that its
predecessor cannot open; operators owe this to the runbook
(`src/deploy/RUNBOOK.md:41`), and without it a login between two releases is lost.

The hypotheses about queries say of the inputs what their shape in the code implies.
`PageConstants`, `ListingConstants`: a listing is a sequence of pages, and limits and
page sizes are at least one, as `clampLimit` makes them (`tools/tools.go:413`).
`TrendConstants`: profiles have names of their own and finitely many functions,
`MaxFunctions` is at least one, and the cache holds one entry at least.
`SignalConstants`: points and buckets are finite sequences, times are integers.
`ToolConstants`: a window spans no more than a week, which is what `parseWindow`
admits (and without which the windows of consecutive weeks would overlap the current
one), and each query brings finitely many points.
`SeriesConstants`: an answer of the API is finitely many series of finitely many points
with integer times and values, its metric is of one of the three kinds of the API, and
at least one series is kept. `ScanConstants`: log entries are a finite sequence of
records of numbers, a byte of text takes at most six when encoded, and at least one entry
may be read.

### Arguments

**Grants.** None of the properties is inductive: a step of one request relies on
what that request learned several steps earlier, while the others moved on.
`IndInv` says what remains true of it. A record with a secret holds the newest one,
its generation, and the expiry fixed at the exchange (`NewestIsActive`); nothing was
issued for a code that can still be redeemed (`CodeGuardsFirst`); successors are
numbered consecutively (`Chain`); clients hold only what was stored
(`HeldWereIssued`); and `Knows(r)` gives, per program point, what a request may still
conclude from an old read: e.g. a secret found spent is smaller than the newest, now
and later, which is why the empty record of the replay path can never match. The proof
first shows that each action only lets a family *evolve* (numbers grow, a dead family
stays dead); that knowledge is stable under another request's evolution; then, action
by action, that the acting request establishes its own next knowledge.
`SpentTokenIsNoop` follows from the knowledge of a request before its second store
call; `NobodyIsLockedOut` follows the newest secret from the transaction that stores
it to the client.

**Store.** `Fresh`: an attempt that may still commit has decided what its closure
would decide now, because every write marks the attempts that read the document as
stale. Under the mapping of section 2 every step of `FirestoreTx` is then a step of
`AtomicStore` or a stutter: a commit is the whole call, an attempt, an abort or a read
is nothing, and a lost answer is the abstract one.

**Login.** `OneCodeInv`: the callback that consumed a state is alone on its way to
Google and back, and no code of that login exists before it stores one. `TargetInv`:
stored states and redirects name good targets, and clients are never taken back; two
URIs that agree in all parts but the port are equal but for the port. `KeyInv`: a
state was sealed by a release at most one ahead of the oldest that serves, so that,
with `KeysAnnounced`, a key that a callback's release cannot open has been dropped.

**Pool.** `PoolInv` names the hands an entry is in. Whoever refers to an entry knows
its user (`Structure`); one request builds it, and where that request is tells how far
the build is (`Builds`); an entry to be closed has exactly one closer (`Custody`);
`inflight` is the number of the entry's holders and the calls that of its servers
(`Counts`); the requests of a user hold the pooled entry (`Shared`). An entry with a
holder has `inflight > 0` and so is no victim; a user's running calls are those of one
entry, whose slots bound them.

**Cache.** A plan made under the mutex still fits its list when it is carried out
(`PlansHold`), since nobody else touches the list, but other users move the counter.
`TotalExact` accounts for them: the counter is the sum of the lists, plus what calls
have reserved and not yet put, minus what they have removed and not yet given back.
`ProcessBudget` is inductive given that. A sum is the number of cells of a disjoint
union, so that replacing one summand needs facts about cardinalities and no induction.

**Server.** `LimitsInv`: each channel holds as many slots as there are calls at the
program points that own one, its queue holds each waiter once, and nobody queues at a
channel that is not full; the time a scan has left and its age make up the budget.
`RuntimeInv` adds `HTTPInv` (how far `serveHTTP` and its goroutine may be ahead of
each other) and `ListerInv` (who holds the mutex, and that what the two variables say
is how the last scan ended).

**Listings.** What the client has rises and ends at its token; during a call, the
entries taken and those buffered are consecutive, and the iterator's token is that of
the page after its buffer (`ReadingAt`). `WithinPage` says how far the buffer may reach:
without a short page, what was taken and what is buffered are together a whole page, or
the last one, so that a call that reaches its limit leaves nothing behind. The client
of `profiler_list` has, at the place of each match before its cursor, that match, and
as many entries as there are such matches: a match's place is the number of matches up
to it, so that appending one is a fact about cardinalities. `PagesInv` adds where a
running call would resume, which is behind what it examined last, not what it found
last.

**Trends.** `TrendInv` has, of the profiles the call listed, those before `i` divided
into the timeline and the failures, in the order of their times (`TrendOrdered`); each
readable one of them in the timeline or downloaded in vain (`TrendFound`); the points
of the tracked functions, which are those of the first profile with samples
(`TrendTracked`); and each prefetched profile in the cache, evicted by another call, or
analysed already (`TrendCached`), since an insert of the prefetch that would evict a
wanted profile is refused and a profile is dropped or loses its place only when it is
used.

**Verdicts.** `SignalsInv`: an answer is `Process` of the fetched points, buckets and
window; the rest is about that operator, for points in any order. Points are put in
order by their places (`InOrderSpans`): places are distinct and n in number, hence all
of 1..n, by the pigeonhole principle, and the first and the last of the ordered points
have the least and the greatest time, which is the span that data quality is measured
by. A class that compares survives `Downgrade` only with a reliable window and
baseline; the branches of `ClassifyCore` before the test of significance need no
reliability to be anything but healthy.

**Tools.** `ToolsInv`: a task that runs has results with points for the steps it took, and
one that has ended for all but the last (`TaskSound`), of which the causes of the skips
follow; as many tasks run as the semaphore has places. A verdict that compares needs a
baseline of which half is there, and what is expected counts every window, so that a
failed one makes it harder, not easier, to reach; the windows of a baseline lie in the
past because the current one is no longer than a week. What the answer names as failed,
fetched or without data partitions what the queries brought.

**Series.** `SeriesRun`: while series are read, those kept are the ones `Kept` decodes, and
the dropped counts are the cardinalities of the places read. While they are folded, with
the buckets done: the groups carried are those that have started, each with its last
point; a group's streak is its silence, or the bound if that is less, so that it has
departed exactly if it was silent for more buckets than the bound; the points and the
warnings are those of the buckets done. The induction over buckets is that of the call's
own steps, and every count is a cardinality, so nothing is summed. That a group has a
last point is that a finite set of numbers has a greatest: the member with the fewest
above it, by the order of the naturals.

**Scans.** `ScansInv`: after n entries, what a scan has found is what the first n entries
say: the requests among them in order, one service for each key, the tally of each value,
and for each trace figures of its entries that bound them and are met by one. The
induction over entries is that of the call's steps. The list of the greatest is right
because the places of distinct values, each the number of those before it, are all of
1..n, once again by the pigeonhole principle. Of an entry's size, what six bytes for each
of the bounded texts and the names of the parts come to is below 8 KiB.

The proofs changed the models. Guards of some `CASE`s overlapped (`openBlob`,
`SelectAligner`, the tools, `SignalRules` and the transactions), which TLA+ leaves open
although TLC takes the first; they are `IF`s now. `Leave` in `ToolLimits` and the sums
of `ProfileCache` were restated without recursion, and orders that were built by sorting
are stated by ranks, or as the set of the orders `sort.Slice` may produce, in
`SignalRules`, `MetricTools` and `ProfileTrends`, where the sorting operators had fixed
an order that the code leaves open. `MetricSeries` counts and folds sets, where it had
filtered and sorted sequences, and `LogScans` reads entry by entry, where it had
computed an answer from the list of them.

### Model-checked only

* Liveness under fairness (`NobodyIsForgotten`, `NobodyWaitsForever`),
  which is out of the prover's reach.
* `CostsAgree`, `ReportsComplete`: they compare what sums,
  sorts, filters and walks over the data of an answer compute (`Convert`, `Build`, the
  folds and `SelectSeq`), and what these compute for every input needs induction over
  data, also out of reach.
* `VerdictsUnbiased`: that a sum changes its sign with its summands is such an
  induction, and with it every ratio of a mirrored window; that the median lies between
  the other weeks needs the arithmetic of products of three unknowns.
* The findings: a counterexample is a behaviour of a small instance.

## 6. Not modelled

* Cryptography: blobs and tokens are unforgeable values. HTML, JSON, logging and the
  wording of answers, except where a property asks whether an answer says it is cut.
* `server.go`: the budget on the size of a response and the removal of a duplicated
  text (lines 190-295), registration of tools, prompts, resources and variants.
* `transport.go`: origin, header and body policies; the routing of paths.
* The metrics registry: loading, merging of overlays, `autoDetect`. `metrics_list`,
  `metrics_chart` and the tools that are one validated querier call.
* Floating-point rounding. The label and resource-label caches of `metrics.go`.
* Construction of clients (`gcpclient`), HTTP diagnostics, flags and process start.
* Google's services beyond the answers and failures the code handles.
* The in-memory store, which only tests use.

## 7. Plan

Done: the OAuth lifecycle, the store and its refinement, the login, the profile
cache, the pool, the running server, the queries and metric tools; theorems for every
safety property of the runs but `CostsAgree`, `ReportsComplete` and `VerdictsUnbiased`
(section 5).

Next, models: the response budget of `server.go`, the registry's overlays, the label
caches. Then a theorem of each: that a response stays within its budget, that an
overlay changes only what it names.
