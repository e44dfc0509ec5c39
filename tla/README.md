# TEAF in TLA+

TLA+ specifications of TEAF, the FastAPI framework under `src/teaf/_internal`
and its console under `src/frontend/src`, the TLC configurations that check
them, and TLAPS proofs about them. Each module says in its header what it
models and what it leaves out; `PROJECT.json` maps every definition to the
lines of code it was translated from, and lists the hazards of this code with
the properties that are about each.

## 1. Inventory

Paths are relative to `src/teaf/_internal` unless they start with `frontend`.

| Component | State | Operations | What is hard, and what makes it correct |
|---|---|---|---|
| API quotas (`api/quotas`, `api/middleware/quota.py`, `api/providers/memory.py`) | counters with an expiry per rule, scope key and window | consume, release, reset, sweep | several counters charged and undone per request, a request suspended in `call_next`, counters that expire; admitted consumption stays within quota, slots come back |
| API idempotency (`api/idempotency`, `api/middleware/idempotency.py`) | one record per key, in memory or Redis | begin, complete, sweep | retries that overlap the first attempt, replicas, restarts; an answered key is not executed again, answers are justified |
| API rate limiting (`api/ratelimit`, `api/middleware/rate_limit.py`) | counter, log or bucket per rule and client | acquire, inspect, reset, sweep | lazy refill, expiry, requests that overlap; what passes is bounded, Retry-After and Remaining are exact |
| API gateway (`api/gateway`, `api/audit`, `api/middleware`) | the chain of stages, and what each did for the requests inside it | the middleware stack, evaluate, release, audit | requests that leave by a response, a refusal or an exception at any stage; slots come back once, what was answered is what was audited |
| Decisions of a request (`api/cors`, `api/versioning`, `api/validation`, `api/compression`, `api/middleware/context.py`, `middleware`) | none | one function of a request each | precedence of the rules, chains of proxies, caches in between; clients are vouched for, grants stay with their origin |
| API module wiring (`api/module`, `config`) | configuration | from a mapping to rules, policies and gateway | a combination of fields nobody tried; what is built is what the other components assume |
| Stores shared by replicas (`api/providers/redis.py`, `providers/cache`) | values with a TTL | get, put, consume, release | read and write are separate awaits, replicas crash between them; what leaks is forgotten |
| Application and Runtime lifespan (`core/application.py`, `runtime/runtime.py`, `lifecycle.py`, `pipeline.py`, `dependency_graph.py`, `sdk/module_base.py`, `sdk/lifecycle.py`) | registry, module states, capabilities, pipelines | start-up, bootstrap, serve, shutdown, again | anything the application supplies may raise; what serves is complete, what ended holds nothing |
| Bundled modules (`modules`, `monitoring`, `observability/health`, `sdk/service_binder.py`, `sdk/capability_binder.py`) | configurations, registries, connections, the last health of each module | build, bootstrap, health, stop | orders and configurations nobody tried, stores that stop and return; modules fit together |
| SDK checks (`sdk/validator.py`, `certification.py`, `dependency_resolver.py`) | a search over the graph of manifests | validate, certify, resolve | cycles, pins, missing modules; the order respects every dependency |
| Service container (`runtime/container.py`) | registrations, singletons, scopes, the stack of the resolution in progress | register, resolve, scopes | factories that resolve further services, endpoints on several threads; one singleton, a stack that ends empty |
| Event bus, plugins, features, capabilities (`runtime/event_bus.py`, `plugin_loader.py`, `capabilities/`, `features/`) | handlers, inventories, the history | publish, subscribe, load, unload, register | handlers that act or raise inside a publication, a plugin that fails half-way; the history tells the state |
| Tokens and keys (`security/tokens`) | revoked identifiers, API keys | issue, refresh, revoke, rotate, authenticate | expiry with leeway, eviction, rotation; what was withdrawn stays refused |
| Identity (`security/identity_providers`, `security/middleware.py`, `authorization`) | discovery and key caches | authenticate, authorize | an issuer that rotates keys, late replies, several tenants; rotation refuses nobody, only the entitled call |
| Database (`providers/database`) | sessions, transactions, rows | units of work, repositories | exceptions, missing commits, a shared connection; a unit is whole |
| Observability (`observability`, `core/context.py`, `core/logging.py`) | spans, context variables, events | one request, with spans and jobs inside | tasks that copy the context, subscribers that raise; logs, spans and events agree |
| Console session (`frontend/src/services`, `frontend/src/store`) | tokens, user, one shared refresh | login, logout, restore, requests, 401 | promises that settle after the session has changed; the held pair is usable, nothing hangs |
| The rest: secrets, exporters, SDK generators, developer API, public packages, pages of the console, benchmarks, examples, scripts | configuration, or none | formatting and I/O | outside what a model checker adds to |

They meet as follows. `create_app` builds the Runtime, the registry and the
lifespan; `Application.add_module` and the lifespan start the modules, which
register services and capabilities in the Runtime. `ApiProtectionModule` builds
limiter, quota manager and idempotency manager from settings and installs the
middleware stack; a request passes CORS, audit, compression, versioning,
validation, rate limit, quota and idempotency in that order and its response
comes back through them. All of them run on one asyncio event loop, so code
between two awaits is atomic; synchronous endpoints run on threads. The console
talks to the API with the token pair its login obtained.

## 2. Modules

| Module | Models | Composition |
|---|---|---|
| `Quota` | `QuotaMiddleware`, `QuotaManager`, `InMemoryQuotaStore` | extended by `Admission` |
| `Idempotency` | `IdempotencyMiddleware`, `IdempotencyManager`, both stores, replicas | extended by `Responses` |
| `RateLimit` | `RateLimitMiddleware`, `RateLimiter`, the four algorithms, `InMemoryRateLimitStore` | instantiates `RateMeter`; `MCRateLimit`, `RateLimitProofs` |
| `RateMeter` | the abstract limiter: meters that drain by themselves and never forget | `RateLimit!ImplementsMeter` is the refinement |
| `SharedStores` | `RedisQuotaStore` and `RedisRateLimitStore` over a cache, used by several replicas | extended by `Infrastructure` |
| `Gateway` | `ApiGateway`: the eight stages of `MIDDLEWARE_ORDER` as requests pass them, `evaluate`, `release`, `ApiAudit` | instantiated by `Admission` |
| `Admission` | `Quota` beside `Gateway`, which share no state | `MCQuota`, `AdmissionProofs` |
| `Settings` | the fields of `Settings`, its environments, `jwt_policy` | extended by `Protection` |
| `Protection` | `ApiProtectionConfiguration`, the rules and the gateway built from it, its manifest | extends `Settings` |
| `Decisions` | CORS, addresses, versions, validation, encodings, headers, problems: functions of one request | extends `Protection` |
| `Certification` | `ModuleValidator`, `ModuleCertification` | extended by `Policies` and `Bundled` |
| `Policies` | an application from its configuration to its responses | extends `Decisions`, `Certification`; instantiated by `Responses` |
| `Responses` | `Idempotency` beside `Policies`, which share no state | `MCProtection`, `ProtectionProofs` |
| `Resolver` | `ModuleDependencyResolver` over `DependencyGraph` | instantiated by `Runtime` |
| `Lifespan` | `_lifespan`, `Runtime.startup/shutdown`, `ModuleBase.bootstrap/shutdown`, pipelines, registry, capabilities | `MCLifespan`, `LifespanProofs` |
| `Bundled` | configurations, manifests, stores and health of the modules that come with TEAF; versions | extends `Protection`, `Certification` |
| `Framework` | these modules in one runtime, from their construction to their stop, with `/health` and `/ready` | extends `Bundled`; instantiated by `Infrastructure`; `MCFramework` |
| `Platform` | the wrappers of `Runtime`, `EventBus`, `PluginLoader`, features, capabilities | instantiated by `Runtime` |
| `Container` | `ServiceContainer`, `ServiceScope` on several threads | extended by `Runtime` |
| `Runtime` | the registries of one Runtime: `Container`, `Platform` and `Resolver`, which share no state | `MCRuntime`, `RuntimeProofs` |
| `Tokens` | `JWTTokenProvider` with its revocations, `ApiKeyProvider` | instantiated by `Security` |
| `Identity` | `SecurityMiddleware`, the identity providers with their caches, roles, `@authorize` | extended by `Security` |
| `Security` | `Identity` and `Tokens` beside each other | `MCSecurity`, `SecurityProofs` |
| `Persistence` | units of work and repositories over a database | instantiated by `Infrastructure` |
| `Observability` | one request through the observability and request id middlewares | instantiated by `Infrastructure` |
| `Infrastructure` | `SharedStores` beside `Persistence`, `Observability` and `Framework`, which share no state | `MCInfrastructure`, `InfrastructureProofs` |
| `Session` | the console's `authStore`, `HttpClient`, `AuthService` and token storages, with the server's token pairs | `MCSession`, `SessionProofs` |

`Quota`, `Idempotency` and `RateLimit` are separate modules because each keeps a
store of its own under its own keys. `Gateway` is about what the stages do to
each other within one request: there the limiters other than concurrency admit
or deny as they like, and records do not expire. What they assume of the rules
they are given (distinct names, positive limits, the concurrency rule last) is
what `Policies!BuiltAsAssumed` shows of the code that builds them. `Identity`
takes what verifying a token of the application itself says from the
credential; `Tokens` is about that. `Session` assumes of the server what
`Tokens!ExchangedOnce` shows of it.

`Runtime`, `Security`, `Admission`, `Responses` and `Infrastructure` put modules
beside each other that share no state, so that one run checks them and one
module holds the proofs about them. In their runs a behaviour is about one of
the modules and leaves the others at their initial states.

### Grain of atomicity

* Python on one event loop: a step of a model is the code between two points
  where a coroutine can really suspend. The in-memory stores take an
  `asyncio.Lock` around bodies without an await, so the lock is never contended
  and `consume`, `acquire` or `begin` are one step each; `call_next` is what
  separates the steps of a request.
* Threads (`Container`): a step ends wherever another thread's step could be
  told from it: after the lookup, the check of the stack, the factory, the pop,
  the store.
* Redis: every command is a suspension point. The issuer of `Identity` answers
  with what it publishes at that moment; its replies may overtake each other.
* SQL (`Persistence`): every flush, commit and reset of a connection is a step,
  with row locks at read committed.
* JavaScript: a step is the code between two awaits. What one settled promise
  wakes runs in the same turn, so the end of a refresh and the calls that wait
  for it are one step.
* Algorithms (`Resolver`): a step is one iteration of a loop. `Settings`,
  `Protection`, `Decisions`, `Certification` and `Bundled` are operators:
  nothing happens between two lines of such code.
* Hooks, handlers, factories and endpoints are supplied by the application; they
  return or raise, as a nondeterministic choice.

### State and actions

* `Quota`: `entries` is `InMemoryQuotaStore._entries` with the total and expiry
  of a key, `writes` its count towards the sweep, `running` the request slots
  inside `call_next`; `admitted` is history. `Accept`, `Reject`, `Finish`,
  `Reset` and `Tick` are `consume` with all its rules, the denial with what it
  undoes, the `finally` of the middleware, `QuotaManager.reset` and the clock.
* `Idempotency`: `records` per store and key; the three steps of a request are
  the lookup, the endpoint and the remembering of its response. A replica in
  `Backed` uses the shared (Redis) store, another one a memory store of its own,
  which a restart empties.
* `RateLimit`: `entries` holds the count, log or level of a rule and client.
  Levels of buckets are integers in units of 1/Window of a request: the code's
  floats are exact rationals here, and rounding is not modelled.
* `SharedStores`: `entry` is what the cache holds under one key, `at[r]` which
  call of the provider request r makes next, `seen` and `left` what it read
  before. `Vanish` is a call that raises or a replica that stops.
* `Lifespan`: `pc` and `at` say what runs next. `held` is history: what start
  hooks and pipeline steps acquired and what has been released since.
* `Framework`: `pc` is the stage of the start or stop, `at` the module it is
  about; `registry`, `owner` and `provider` are `ModuleRegistry`,
  `CapabilityRegistry` and the contracts of the container, `known` the
  `last_known` of each module's health. `StoreStops` and `StoreReturns` are the
  database and Redis.
* `Gateway`: `flow[r]` is the stage a request is at, on its way down, up or
  unwinding with an exception; `Chain` lists the stages that are configured, in
  the order of `MIDDLEWARE_ORDER`. `slots` and `records` are
  the concurrency counter and the idempotency records, `response[r]` the response
  so far, `job[w]` a caller of `evaluate()` outside HTTP. `log[r]` is history:
  charged, executed, audited, announced. A subscriber of the event bus runs
  inside `publish`, and may raise.
* `Policies`: `values` is the mapping an application is configured with,
  `gateway` what is built from it; `Ask` answers one request, and keeps it
  with the reply.
* `Resolver`: `colour` and `path` are those of `detect_cycle`, `inDegree`,
  `ready` and `order` those of `topological_order`; the recursion of the code
  is the stack `path`.
* `Platform`: `stack` holds the publications in progress, each with the copy of
  the handlers that `publish` goes over and those it has called; `published` and
  `removed` are history. Each registry has names of its own in the code; here
  the sets of names are disjoint, so that a name tells its registry. A handler
  that is unsubscribed during a publication is still called by it, as in the
  code: `HandlersHeardOnce` says so.
* `Container`: `stack[t]` is thread t's calls of `_resolve`, `resolving` the one
  list `_resolving` they share; `Building(t)` are the calls of t that are in
  their factory, `Factories` those of all threads. `handed`, `contended` and
  `overlapped` are history.
* `Tokens`: `revoked` is `_revoked` with the expiry of each entry, evicted where
  the code does it; `Look` is a lookup, which evicts too. A token is named by
  its pair, so a copy is the same token.
* `Identity`: `published` and `retired` are the issuer's keys, `discovery` and
  `jwks` the caches, `req[r]` a request between two of its awaits.
* `Persistence`: `pending[c]` are the changes that were flushed on connection c
  and not committed, in order; `flushed`, `durable` and `crowded` are history. `shared` is the
  in-memory database with `StaticPool`.
* `Observability`: `task[t]` is the context of an asyncio task, what it started
  with, and its open spans.
* `Session`: `status`, `principal` and `tokens` are the auth store (the bridge's
  access token always changes with `tokens`), `storage` is the `TokenStorage`,
  `call[c]` is a call between two of its awaits, `renewal` is `refreshInFlight`.
  `owner`, `valid` and `live` are the server: to whom a pair was issued, whose
  access token and whose refresh token it accepts. `ended` and `stranded` record
  why a pair cannot be renewed: a logout, or an answer that was lost.

## 3. Runs

Every passing run fires all the actions of its specifications, and for each of
its properties `PROJECT.json` names a mutant of the mapped code that breaks it.

| Run | What it shows | Bounds, and why they are enough |
|---|---|---|
| `quota` | `Quota`: the rules of `build_quota_rules` in their order; two requests of a tenant and one of another that is reset: nothing admitted beyond a limit, denials undone, no phantom slots, sweeps drop expired counters only. `Gateway`: slots come back once, answers are audited as given | windows of 2 and 3 ticks in 3 ticks of clock: both end and reopen; each kind of rule is, in some state, the one that denies; a sweep every 5 writes falls within a sequence of rules; two requests and a worker at one slot of the gateway, five kinds of request, any event's subscriber may raise |
| `ratelimit` | the four algorithms in one chain: bounds, exact Retry-After and Remaining, refinement of the meter | windows of 3, 2, 5 and 1 ticks in 5 ticks; levels that are no multiple of a request occur; each rule is, in some state, the first to refuse |
| `lifespan` | everything the application supplies may raise, capabilities clash, names are taken: what serves is complete, what ended holds nothing, release is in reverse, every start and shutdown settles | two modules and a third added at any time, two steps per pipeline, two starts: every prefix of a start occurs, and so does a second lifespan |
| `session` | rotation never strands the console, no refresh token is sent twice, no call hangs | two calls at once, three pairs (a login and two renewals, or two logins and one), one reload with persistent storage |
| `runtime` | `Platform`: handlers hear events once, the history tells the state, loaded plugins are whole. `Container`: the resolution stack ends empty, singletons are one, scoped instances stay in their scope. `Resolver`: answers are right | three events at once, two handlers, a history of two, a plugin of two services; two threads and two contracts that need each other, are circular, or scoped, three registrations: two resolutions of one contract overlap at every step; all graphs of three modules, also with missing ones, and pins |
| `security` | `Identity`: a rotation of keys refuses nobody, only the entitled call, withdrawn keys stay refused. `Tokens`: so do withdrawn tokens and dead keys, a refresh token gives one pair | two requests and three keys: a rotation and a reply that is overtaken, twice; three pairs: a refresh, and the copy of its token; 3 ticks with lifetimes of 1 and 2 and a leeway of 2 |
| `protection` | `Idempotency`: replays and conflicts are justified, an answered key is not executed again where the store survives. `Policies`: built as assumed, addresses, versions, encodings, grants | four requests: a retry, another body, another key; one replica with its own store and one with Redis, which restarts; the TTL of 1 tick expires within the run; 166 deployments that vary one part of the configuration each, 288 requests that vary what the part decides by |
| `infrastructure` | `SharedStores`: in turns it counts as one process, leaks are forgotten. `Persistence`: units are whole, deletions last. `Observability`: traces are whole. `Framework`: modules compose | three requests, a limit of two, one crash at any point; three units of two operations on two rows, deadlocks and lost locks among them; four spans nested or in a job; every order of up to three bundled modules, under `create_app` or a `Runtime` built by hand with no version, 0.5.0 or 0.6.1, each of 40 configurations alone and beside a cache or a third party's module, stores that change twice |
| `placeholders`, `settings`, `correlation` | end in a counterexample: see Findings | the shortest instances that show it |

Clocks (`MaxTime`), refusals that a fixed window counts (`MaxRefused`), starts
(`MaxStarts`), token pairs and keys (`MaxPairs`, `MaxKeys`), reloads
(`MaxReloads`), events and subscriptions (`MaxEvents`, `MaxSubscribed`), changes
of registrations (`MaxChanges` of `Container`) and of stores (`MaxChanges` of
`Framework`), instances and nesting (`MaxBuilt`, `MaxDepth`), counters and
crashes of a shared store (`MaxCount`, `MaxLost`) and spans (`MaxSpans`) are
capped by guards. Deadlock is checked except where these bounds, or the end of
a request or a search, stop the system; in `session` it is checked. Symmetry is
used between requests, handlers or threads that nothing tells apart, in runs
whose properties are invariants or about single steps.

Fairness is assumed where a liveness property needs it and nowhere else.
`Lifespan` has weak fairness of `Running`: a hook, step or handler that was
called returns or raises; nothing makes a server start, stop or enter the
lifespan again. `Session` has weak fairness of what the network does with each
call, of each call's continuation and of the renewal: every `fetch` settles,
because the client aborts it at its timeout (`AbortSignal.timeout`), and a
settled promise runs what awaits it; nobody has to log in, click, query or
reload. The other specifications have none.

## 4. Proofs

| Theorem | For every value of the constants |
|---|---|
| `AdmissionProofs!TypeCorrect` | the types, with the write counter below the interval |
| `AdmissionProofs!QuotaHolds` | what is admitted of a tenant in a window stays within the quota |
| `AdmissionProofs!CountersHold` | no counter rests above its limit |
| `AdmissionProofs!ConcurrencyHoldsBeforeExpiry` | simultaneous requests of a tenant nobody resets stay within the limit during the first period |
| `AdmissionProofs!SlotsAreReturned` | a concurrency rule followed by no rule never shows phantom requests |
| `AdmissionProofs!DenialIsUndone` | the rule that denies shows afterwards what it showed before |
| `AdmissionProofs!PipelineTypeCorrect`, `SlotsCounted` | the slots of the gateway are the requests inside the quota stage and the jobs, however a request leaves |
| `AdmissionProofs!AnswersAreAudited` | what was answered was audited once, with its outcome, whoever raised |
| `ProtectionProofs!TypeCorrect`, `AnswersHold` | replays and conflicts are justified, for any replicas, wiring and restarts |
| `ProtectionProofs!AnsweredKeysAreNotExecuted` | a key answered from a store that survives is not executed again at the replicas of that store while its record lives |
| `ProtectionProofs!BuildHolds` | whatever values an application is configured with, what is built of them is what the other modules assume, and its manifest is certified |
| `ProtectionProofs!ClientHolds` | the client is the one the trusted proxies vouch for, for any chain written in front |
| `ProtectionProofs!NegotiationHolds` | versions and encodings are the ones asked for |
| `ProtectionProofs!GrantHolds` | a grant of CORS stays with its origin, in caches too, and what a preflight granted the request gets |
| `SessionProofs!TypeCorrect` | the types; who waits for a renewal waits for one in flight |
| `SessionProofs!HeldPairsAreUsable` | the pair in the store and in the storage can be renewed, or a logout or a lost answer explains why not |
| `SessionProofs!RotatedTokensAreNotResent` | no refresh token is sent after it was exchanged |
| `LifespanProofs!TypeCorrect`, `ServesWhatIsComplete` | an application that serves has all its modules ready and their capabilities registered as theirs |
| `LifespanProofs!EndsWithNothingHeld`, `ReleasesInReverse` | a lifespan that ended in order holds nothing, and what was acquired later is released earlier |
| `RateLimitProofs!TypeCorrect`, `AdmissionsStayWithinRate` | no algorithm lets more through than its rule says, for any rules, overlaps, expiries and sweeps |
| `RateLimitProofs!AnswersHold` | Retry-After and Remaining are exact: a client that waits as long passes, one that waits less does not |
| `RateLimitProofs!BehavesAsMeters` | the refinement: every step of the limiter is a step of `RateMeter` or none |
| `InfrastructureProofs!TypeCorrect`, `CountsRightInTurns` | while requests do not overlap, a store shared by replicas counts as one process does, but for what crashes took |
| `InfrastructureProofs!LeaksExpireUnlessRaced` | a counter without expiry comes only from a release that raced with the expiry |
| `InfrastructureProofs!UnitsCommitAsAWhole`, `DeletedEntitiesStayDeleted` | a unit is committed whole or not at all, unless others used its connection; no update brings a deleted row back |
| `InfrastructureProofs!TracesStayWhole` | spans, logs, events and metric of a request agree, whatever raises |
| `InfrastructureProofs!ModulesComposeHolds` | whatever modules an application is given, in any order and configuration: bundled ones never collide with each other, only a `Runtime` built by hand that is older than one asks refuses it, what serves is the module that declares it, readiness is that of the stores, a stop closes everything |
| `SecurityProofs!TypeCorrect`, `RotationIsNotFelt` | a rotation of the issuer's keys refuses no sound credential |
| `SecurityProofs!OnlyTheEntitledCall`, `PurgedKeysAreRefused` | the endpoint is called only by who may; a key that left the cache stays refused |
| `SecurityProofs!TokensTypeCorrect`, `WithdrawnTokensAreRefused` | a revoked or exchanged token is refused up to its expiry |
| `SecurityProofs!RefreshTokensGiveOnePair`, `DeadKeysAreNeverRevived` | a refresh token gives one pair; a dead API key stays dead |
| `RuntimeProofs!TypeCorrect`, `ResolutionsBalance` | `_resolving` has an entry for each running factory, and without overlap they are those of the one that resolves |
| `RuntimeProofs!SingletonsAreOne`, `ScopedInstancesStay` | one instance per singleton that is not contended; scopes share nothing |
| `RuntimeProofs!BusTypeCorrect`, `HandlersAreHeard` | a publication calls the handlers there were, in order, and all before it returns |
| `RuntimeProofs!HistoryIsRight`, `LoadedMeansWhole` | the history tells the state; a loaded plugin has registered everything |
| `RuntimeProofs!ResolutionIsRight` | a cycle is reported only if there is one and found if there is, and the order has every module after what it depends on, once |

The assumptions are those the modules declare about their constants, evaluated
by TLC on every instance. They give types and ranges, and these facts about the
code: the sets of names, requests or threads that are counted are finite; no
more rules than writes between two sweeps (`RateLimitAssumption`:
`_PURGE_INTERVAL_WRITES` is 512, the rules are a handful); the values that stand for nothing (`None`) are
none of the others; the names of different registries differ
(`BusAssumption`); the ids of modules are ordered as their names are
(`SdkAssumption`); requests are records of what the code reads of one
(`PoliciesAssumption`); no default is what cannot be parsed, the driver of the
default database is installed with TEAF (`pyproject.toml:42`), and the modules
given are bundled ones or bring a manifest that lists what it declares
(`FrameworkAssumption`). A module that is instantiated assumes nothing itself:
the module that instantiates it does (`IssuedAssumption`, `PipelineAssumption`
and the like).

Each theorem follows from an inductive invariant, which TLC has checked on the
instance of the run too, but for type conjuncts that it cannot enumerate. What the properties lack to be inductive:

* `Quota`: `WindowCovered`, an entry of an open window that holds consumption
  outlives that window, because its TTL is a whole period that began inside it;
  only then does a swept or expired entry mean that the window has closed.
* `Idempotency`: each fresh response has its record in its replica's store,
  where `Durable` says which stores survive: the memory store of a replica that
  restarts does not.
* `Session`: `LoggedIn` makes the store hold a pair that was under way, and
  `Renewed` one that the renewal brought. A pair under way to a login is usable
  and known to nobody else (`PendingPairsAreNew`), so no renewal can have
  exchanged it, and everything the console knows was issued (`KnownPairs`), so
  the next pair is none of them. Most steps bring no pair and take none away;
  `QuietStepKeepsInvariant` treats them together. That no token is sent twice
  follows: a renewal starts only when none is in flight, with what the store
  holds.
* `Lifespan`: what is held is the first k steps of the pipeline and then the
  first j modules, in the order they came up (`HeldInOrder`), where `StepsDone`
  and `ModulesUp` say what k and j are at each point of the program, also after
  a start that was aborted, whose modules are found up by the next one.
* `RateLimit`: each entry holds what its algorithm can have put there and lives
  long enough (`Fits`), and its load covers what was accepted in the window or
  has not drained yet (`Covered`); from this follows how far apart the
  acceptances are (`Spread`). Every action that changes an entry keeps the three
  for each algorithm, which is where the arithmetic of the proof is. For the
  refinement, a meter drains by the clock and by nothing else.
* `SharedStores`: until two requests overlap at most one is inside the store
  (`OneInside`), so what it read is still so when it writes (`QuotaCounts`,
  `RateCounts`); who is about to write a positive count without a TTL has raced
  (`RacedBefore`).
* `Identity`: the cached keys are published or retired and never purged ones
  (`Keys`), each request carries the keys of its reply with that restriction
  (`Good`), and the caches it relies on are filled (`Ready`).
* `Tokens`: a revocation is there as long as its token is not expired, and an
  exchange revokes (`Stored`); a second pair from one refresh token was issued
  after its expiry (`Once`); a rotated key was revoked and is an earlier one
  (`Rotated`).
* `Container`: below the top every call is in its factory (`Nested`); a contract
  that is not contended is resolved by one call at most, whose registration is
  the current one (`Sole`); an instance that was built and not returned is
  nowhere else (`Fresh`, by the numbering of `Numbered`).
* `Platform`: the history is the end of what was published (`Remembered`), what
  was last published is so (`Told`, about all that was published, so that it
  survives what the history drops), the handlers called are the first ones of
  the copy (`Heard`).
* `Resolver`: the path is one of the graph, its nodes are the ones on it, and
  what is finished needs finished nodes only, in no cycle (`OnPath`); so when
  everything is finished the graph is well-founded (`Founded`), some node that is
  not ordered yet has nothing left to wait for, and the order (`InOrder`) ends
  with every node in it.
* `Gateway`: `HoldsCount` counts by the stage each request is at, and which way
  it goes, who is inside the quota; `Fits` says what is known of the audit and
  the announcements of a request on its way down, up or unwinding, before and
  after it passes the audit (`Within`).
* `RateLimit`, answers: an entry that refuses accepts again exactly when what is
  missing has drained (`AcceptsFrom`), and `inspect` reads off an entry what it
  would still accept (`RoomLeft`).
* `Persistence`: no two connections have changes of one row pending
  (`OneWriter`), those of a connection are of who uses it (`OwnConnection`), and
  each unit that was not crowded is committed whole or not at all, by where it is
  (`UnitsStand`); entities are added only where none was deleted (`AddedAfresh`).
* `Observability`: the open spans of a task chain up to the one it started in
  (`TasksNest`); how far the request is tells what was published and what its
  span says (`RequestIsTraced`).
* `Policies`: the gateway is built of some configuration (`GatewayIsBuilt`), and
  a reply is one that a stage gives (`Told`). The rest is about functions of one
  request: the rules and services that are built are sequences that grow by one
  candidate at a time; the client is the last hop that is not trusted
  (`LastForeign`); an encoding is the first of the best choices
  (`FirstChoice`).

* `Framework`: while the modules start, the registry has the names of those that
  are registered, and of the placeholders (`Named`); each capability is of the
  one bound module that declares it (`Owned`), and each contract of none before
  the last that declares it (`Supplied`). So whoever finds a name or a
  capability taken finds it taken by a module that is known
  (`FailureExplained`). All of it rests on `Sound`: whatever a bundled module is
  configured with, its manifest has no errors, suits the SDK and the version
  `create_app` gives its runtime (`Suits`), and declares capabilities that no other bundled module does; and on
  `AsItComesWorks`: a module without configuration can be built and needs no
  database.

Only TLC checks `LifespanSettles` and `SessionSettles`: liveness under fairness
is out of the prover's reach, and so are ENABLED and what recursive definitions
and folds compute (induction over data).

## 5. Findings

Each of these is a run that ends in a counterexample; `PROJECT.json` quotes the
text it contradicts.

* `placeholders`: `create_app` registers the names `database`, `storage`, `ai`,
  `scheduler` and `notification` as placeholders (`core/application.py:79`), so
  `DatabaseModule` in an application never starts: its name is taken. The
  comment above says that a subsystem leaves the list when it has a module.
* `settings`: the settings have `jwt_access_token_ttl_seconds` and
  `observability_...`, but `SecurityConfiguration.from_mapping`
  (`modules/security/configuration.py:74`) and `ObservabilityConfiguration` read
  the names without the prefix; built from the settings as the comments say,
  these modules silently use their defaults.
* `correlation`: behind `ObservabilityMiddleware` the answer to an unhandled
  exception carries no correlation id: it was set in the task that `call_next`
  started (`middleware/request_id.py:29`), the handler runs outside of it.

The models also show, without a run of their own, where the code does less than
its documentation or than one may expect; the properties are stated so that
they hold, and say there what they leave out:

* Quotas: a concurrency counter has a TTL and expires while requests are in
  flight (`api/quotas/manager.py:163`; `docs/api/QUOTAS.md:28`). A later rule
  that denies leaves the slot an earlier concurrency rule took, which only the
  order of `build_quota_rules` prevents. A request that a later rule denies
  stays charged to the earlier ones. Retry-After is truncated
  (`api/middleware/quota.py:33`).
* Idempotency: two simultaneous requests with one key are both executed, with
  Redis too (`api/providers/redis.py:193`; `docs/api/IDEMPOTENCY.md:84`). The
  wiring leaves quotas and idempotency in memory when a cache provider is given
  (`api/module/module.py:116` and `:160`; the comment at `:100` says that all three stores are shared then).
* Shared stores: consume writes what it read before, so overlapping requests are
  lost, and each consumption restarts the TTL (`api/providers/redis.py:124`); a
  release that races with the expiry leaves a counter that never expires
  (`:140`).
* Rate limits: `inspect` counts one request too many in a sliding window, and an
  accepted response carries Retry-After when others were refused while it was
  computed.
* Lifespan: modules that are ready stay so when a later one fails to start
  (`core/application.py:143`), and a stop that raises leaves the modules before it
  and the Runtime up (`:168`): such a lifespan counts as aborted, and
  `EndHoldsNothing` speaks of those that ended. The dependency graph is checked
  before the modules are in it (`runtime/runtime.py:140`; `docs/runtime/RUNTIME.md:69`).
* Gateway: CORS replaces the `Vary` of the compression stage
  (`api/middleware/cors.py:56` and `compression.py:67`); a response to an origin
  that gets no grant carries no `Vary: Origin` (`api/cors/policy.py:140`). A 500
  of Starlette has no CORS headers.
* Decisions: `q=0` is dropped before `*` is looked at, so `*` brings back the
  encoding a client refused (`api/compression/providers.py:143`). A quality that
  is not a number counts as 1 (`:142`), which is not modelled. A list of
  trusted proxies none of which can be parsed counts as none, and forwarded
  headers are trusted by default (`api/middleware/context.py:85`, `:139`).
* Tokens: in the leeway after `exp` a revoked token is accepted again, its
  revocation being evicted at `exp` (`security/tokens/jwt_provider.py:69`).
  `rotate` drops the expiry of an API key and gives a revoked one a successor
  (`api_key_provider.py:175`).
* Identity: a key the issuer withdrew is accepted as long as it stays cached; a
  malformed reply of the issuer becomes a 500. `SecurityModule` registers the
  anonymous provider first, so a resolution without a scheme always picks it
  (`identity_providers/registry.py:39`).
* Container: two threads can build a singleton twice, and each can see the
  other's entries in `_resolving` (`runtime/container.py:261`, `:284`). A plugin
  whose `register()` raises leaves the services it had registered
  (`plugin_loader.py:118`). `history(limit=0)` returns all events
  (`event_bus.py:73`).
* Persistence: units over the in-memory database share one transaction, and a
  rollback of one undoes what the other flushed (`providers/database/engine.py:100`).
* Bundled modules: the generated secret (43 bytes) is too short for HS384 and
  HS512, so choosing one of them needs a secret too. `~=` pads versions
  (`sdk/module_base.py:88`). Health is what the start saw: a store that stops
  later goes unnoticed until the next refresh. A `Runtime` built without
  `framework_version` is 0.0.0 (`runtime/runtime.py:78`) and refuses every bundled
  module as incompatible (`sdk/module_base.py:188`); `create_app` passes its own.
* Observability: a subscriber that raises after the status of the span was set
  leaves it OK though the client gets a 500; requests that raise are missing
  from the histogram (`observability/middleware.py:64`).
* Session: a logout, or a renewal, that settles late is applied to the session
  of the next login (`authStore.ts:75`, `:116`).

## 6. Not modelled, and the plan

Left out for good: formatting, log files, telemetry export, the text of
documents, generators of the SDK, rendering of the console: pure I/O or text.
Cryptography, SQLAlchemy, PyJWT, httpx, Starlette and Redis itself are external,
modelled by what the code relies on. `PROJECT.json` lists every component with
its status, and for those modelled in part what is missing: mostly queries and
reports, which change nothing, and the pages of `list_filtered`.

The theorems cover every property of the passing runs but two,
`LifespanSettles` and `SessionSettles`, which are liveness. What one could add
next is the rest of `Framework` as a state
machine (the modules' own endpoints), and the reports that are left out above.
