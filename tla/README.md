# Verification of identity-mservice

TLA+ models of the identity service (`src/server`, `src/common/auth`) and of its
client package (`src/client`), the TLC runs that check them on small instances,
and TLAPS proofs about them.

## 1. The system

The service binds Clerk identities to internal users, keeps their profiles,
runs Singpass KYC for them, and resolves Clerk tokens for the gateway. It is one
Go process with an HTTP server (gin), a gRPC server, MySQL through gorm, an
optional Redis, an optional Kafka producer, and the HTTP services of Clerk and
Singpass.

| Part | State it keeps | Operations | Hard behaviour |
|---|---|---|---|
| Registration: `http/api/clerk_callback.go`, `service/user_mapping_service.go` | rows of `users` and `user_auth_mapping` | `ClerkCallback`, `CreateUser` | at-least-once webhooks, concurrent duplicates, commit and publish not atomic |
| DAOs and caches: `repository/dao` | tables; `user_auth_mapping:clerk:*` and `user_profile:id:*` in Redis | get, create, update; cache get/set/del | cache-aside races, best-effort Redis, unique index |
| Profiles: `service/user_profile_service.go` | none of its own | `GetUserProfile`, `GetProfile`, `UpdateProfile` | check-then-act on the market, stale fills |
| KYC state store: `service/kyc_state_store.go` | pending logins in memory | `Save`, `Consume` | one-time use, expiry, lost on restart |
| KYC flow: `service/kyc_service.go`, `http/api/kyc_login.go` | none of its own | `StartSingpassLogin`, `SingpassCallback` | repeated and late callbacks, partial failure, writes and events that cross |
| Singpass proxy: `proxy/` | a singleton with the keys it fetched | `GetSingpassProxy`, `GetAccessToken`, `GetUserInfo` | lazily built by concurrent callers, failures remembered |
| Forward auth: `http/api/auth_forward.go`, `auth/` | a key cache per request | `AuthForward`, `Authenticate` | key rotation, racing registration |
| Kafka producers: `kafka/producer` | a singleton client | two publish calls | failed but delivered |
| Middleware and handlers: `common/auth`, `http/router`, `http/api`, `log` | the request's context and its answer | the chains of `NewRouter`, the handlers, `GetUserProfile` over gRPC | what runs before, after and around the rest of a chain; refusals; panics |
| Lifecycle: `main.go`, the `Init` calls, `grpc`, `http`, `telemetry` | package variables, the two server goroutines | start in order, fail, exit on the first signal, flush | required and optional parts, one deadline for two flushes, nothing is drained |
| Client library: `client/init.go` | a singleton connection | dial, close | a panic inside a `sync.Once`, a closed connection that stays |
| Pure helpers | none | masking, topic prefixes, value lists | string formatting |

The parts meet in the shared stores: registration writes the mapping that
forward auth, profile reads and registration itself look up through one cache;
KYC and profile updates write different columns of one user row; all three
delete the cached profile; registration and KYC publish to Kafka after they
write. A restart takes the pending logins, the proxy and whatever runs.
`PROJECT.json` lists the components with their status, and under `hazards` what
can go wrong, each at its line.

What makes each part correct:

- registration: a Clerk id is bound once, to a fresh user, in one step; no event
  is repeated or invented; a message answered 200 has its effect; a message that
  failed can be redelivered;
- caches: the mapping cache never shows what was not committed; cached profiles
  end up telling what the tables say, and are stale only through races the model
  names;
- profiles: a market is never emptied, and replaced only by an update that was
  overtaken; an update never undoes what KYC wrote, nor the reverse;
- KYC: a login is used once, in time, for the user who started it; every write is
  told once, in the order of the writes unless they crossed, or has lost its event
  to a failure;
- proxy: one per process, usable or not for all alike, and nobody waits for ever;
- forward auth: the headers name the committed user of the subject, under keys
  Clerk serves;
- the edge: one answer, one closing line and one audit line per request, no
  service called for anybody but the verified caller, an answer that tells what
  became of the request;
- the process: it serves only when everything it needs is there, optional parts
  neither stop nor delay it, a signal ends it, its telemetry is flushed;
- the client: one connection for all goroutines, and every caller gets an answer.

## 2. Modules

    Registry <------ UserRegistration <------- AuthForward
    (abstract)             |
                     IdentityStore <---+------ UserProfile <---+
                                       |                       IdentityService
                                       +------ KycFlow <-------+
                                               |     |
                                    KycStateStore   OneTimeLogin (abstract)

    SingpassProxy        Lifecycle <---- ClientLibrary        Edge

- **`IdentityStore`**: the state every component shares: both tables, the
  auto-increment counter, both caches, both topics, and the count of faults. A
  row of an open transaction is not in the tables; the request that wrote it
  holds it. Redis needs no budget of faults: in the code every Redis error is
  dropped and the client may be nil, so that any `Get` may miss, any `Set` or
  `Del` may do nothing, and an entry may expire at any time.
- **`UserRegistration`**: one record per in-flight webhook request; its `pc`
  stands before the next call that leaves the process. The actions are, in the
  order of the code: `Receive` or `Dismiss` (the checks of `ClerkCallback`),
  `CacheHit`/`CacheMiss`, `FoundByClerk`/`NotFoundByClerk`, `FillCache`,
  `FoundByEmail`/`NotFoundByEmail`, then the transaction `InsertUser`,
  `DeleteCacheBefore`, `InsertMapping` or `DuplicateMapping`,
  `DeleteCacheAfter`, `Commit`, and after it `InvalidateProfile` and `Publish`.
  `IndexIsFree` is the wait on MySQL's unique index while another transaction
  holds the key. Failures: a database error before the commit, a COMMIT whose
  reply is lost, a publish that fails whether or not the broker has the record,
  a restart. A cancelled request context shows as one of the first three.
- **`Registry`**: what registration promises: `Register` a binding atomically,
  `Announce` a user once.
- **`UserProfile`**: readers (`GetUserProfile`) and updaters (`UpdateProfile`)
  on registered users. `ReadForUpdate` computes `buildProfileUpdate` on what it
  read; `WriteColumns` is gorm's `Updates` with a struct, which writes the
  non-zero fields only. `overtaken` is a history: the updaters whose row another
  update wrote since they read it.
- **`KycStateStore`**: the map of pending logins. A mutex makes each operation
  atomic, but it reads the clock twice; the second reading is a parameter.
- **`KycFlow`**: logins and callbacks over the store. `CarriesEmail` says
  whether the authenticated user of a login may have an email: the service's
  tests pass one, the middleware of the router never does. `issued`, `used`,
  `writes`, `crossed` and `lost` are histories for the properties: the last two
  hold the pairs of writes of which the second was made while the event of the
  first was pending, and the writes whose event a failure took.
- **`OneTimeLogin`**: what an OAuth state promises: new, pending, then used once
  or dropped, never again.
- **`IdentityService`**: the two writers of the `users` table in one process:
  `P == INSTANCE UserProfile` and `K == INSTANCE KycFlow` over one
  `IdentityStore`, with one restart that takes the calls and the pending logins
  of both. `excused` is a history: the users whose cached profile may be stale,
  through one of the three accidents `Excuses` names.
- **`AuthForward`**: extends `UserRegistration` and adds forward requests, so
  that both run on one cache and one table. The key set is fetched by every
  request, because `AuthForward` builds an `Authenticator` per request.
- **`SingpassProxy`**: the `sync.Once`, the two key loads inside it, and what a
  token or user info call can come to with the keys it got. A signed user info
  is verified with the key set of the build.
- **`Lifecycle`**: `main`, call by call (`StartOrder`); what each `Init` may come
  to; the server goroutines, which take requests, fail or panic; the lazily
  built services; the channel of capacity 1 that holds a signal; the shutdown of
  the metrics and then of the spans under one deadline. What the environment
  decides is a choice of the step that meets it; whether a collector is up, down
  or hangs is fixed at the start.
- **`ClientLibrary`**: extends `Lifecycle` with the process of a caller:
  goroutines in `GetIdentityServiceClient`, their calls and `Destroy`.
- **`Edge`**: one request through its middleware chain, run as gin runs it:
  `index` is the next function, `frames` the middlewares whose `Next` has not
  returned, a panic unwinds them. `Facets` lists, by route, what may hold of a
  request; every combination is tried. A handler ends in what its service
  returned and the status it makes of that; the services are in the other
  modules. `AuthForward` takes from `Authenticate` a user, or none because the
  token is not valid, is bound to nobody, or the keys or the binding could not be
  read: the last is a failure of this side, and is answered 200 like the others.
- **`*Proofs`** hold the theorems about the module they are named for
  (section 4); `AuthForwardProofs` extends `UserRegistrationProofs`,
  `ClientLibraryProofs` covers `Lifecycle`, and `IdentityServiceProofs`
  instantiates `UserProfileProofs` and `KycFlowProofs` to carry what they prove
  of one service over to both services in one process.
- **`MC*`** give the constants their values. Definitions whose comment says
  *Mutant* are faulty variants of a definition, in no specification: they are put
  in its place to see that a property notices.

## 3. Runs

| Run | Checks | Shows |
|---|---|---|
| `UserRegistration` | `TypeOK`, `TablesAgree`, `MappingCacheCoherent`, `AnnouncedOnce`, `AcceptedMeansBound`, `OnlyFaultsLoseEvents`, `ImplementsRegistry`, `EventuallyAccepted` | concurrent, redelivered and failing requests act as an atomic registry, and a redelivered message is at last answered 200 |
| `EmailBoundOnce` | violated | the address check is not atomic with the insert |
| `AcceptedMeansAnnounced` | violated | a retry after a lost event answers 200 and never publishes |
| `UserProfile` | `TypeOK`, `MarketKept`, `EventuallyCoherent` | overlapping updates never empty a market, only an overtaken one replaces it, and stale profiles are mended by expiry |
| `MarketSetOnce` | violated | two updates that overlap change the market |
| `KycFlow` | `TypeOK`, `OneWritePerLogin`, `EventsFollowWrites`, `CarriedEmailChecked`, `OnlyFaultsLoseKycEvents`, `ExpiredNeverUsed`, `ImplementsOneTimeLogin` | a login decides once, in time, for the address it carries; its write is told once, in order unless two crossed, or lost its event to a fault |
| `EmailChecked` | violated | with the user the middleware builds, any address decides |
| `SingpassProxy` | `TypeOK`, `OneProxyPerProcess`, `TokenReadable`, `EveryCallEnds` | the lazily built singleton is shared, whole and never a deadlock |
| `AuthForward` | `ForwardTypeOK`, `VerifiedKeysCurrent`, `IdentifiedIsBound`, `BoundIsIdentified` | tokens resolve to the committed user while registration, rotation and faults go on |
| `IdentityService` | `KycIsLastWrite`, `StaleOnlyIfExcused` | the two writers of a user row do not undo each other, and a stale cached profile has a named cause |
| `ClientLibrary` | `TypeOK`, `WholeOrNothing`, `FlushedOnReturn`, `OneConnection`, `EventuallyServes`, `SignalEnds`, `CallersReturn` | the process from start to end beside two goroutines that use the client package |
| `Edge` | `TypeOK`, `OneAnswerOneLine`, `AuditedOnce`, `ActsForVerified`, `AnswerTellsOutcome` | every route under every combination of what its middlewares and handler look at |

The four violated runs each quote, in `PROJECT.json`, what a comment or a test
says and show a behaviour of the code that does otherwise. In `EmailBoundOnce`
two requests pass the email lookup before either commits. In
`AcceptedMeansAnnounced` the event is lost with the fault and the retry returns
early. In `MarketSetOnce` both updaters read an empty market. In `EmailChecked`
the pending email is empty, which skips the comparison; `CarriedEmailChecked`
shows in `KycFlow` that the comparison holds when there is an email to compare.

Three properties say what is true where the stronger one is not. `MarketKept`
allows a change of market only to an update that another one overtook.
`EventsFollowWrites` has the events of a user in the order of its writes, except
that a write made while the event of an earlier one was pending may be told
before it (`crossed`, pair by pair). So the last event of a user is the status in
the table, unless the last write is still to be told, has lost its event to a
failed UPDATE, a failed publish or a restart (`lost`), or crossed the write that
was told last; a consumer that keeps the last event is behind the table in these
cases only, and in these the code does leave it behind. `StaleOnlyIfExcused` names the
accidents that may leave a profile stale for an hour: a row written under a
reader that holds the old one and then fills the cache, an UPDATE applied but
reported as an error, and a writer that goes on, or dies, without its `Del`.

Some things the models show and claim nothing against, because the code promises
nothing else. In `Edge`, a request that panics under the admin group is not
audited, the line of a panic has the status as it was before the 500, and a
request that CORS refuses leaves no line. `/auth/forward` answers 200 also when
the keys could not be fetched or the database not be read, as its comment says it
does, so that the gateway cannot tell this from a caller without a token; all that
`AnswerTellsOutcome` says of this route is that, and that the identity headers are
there if and only if a caller was authenticated. In `ClientLibrary`, a caller that
comes after `Destroy` is handed a client over the closed connection;
`OneConnection` permits that and says only that nobody dials twice.

### Bounds

- Faults: `MaxFaults = 1`, and 2 in `KycFlow`: one database error, Kafka error,
  lost reply or crash per behaviour. The faults are independent of each other in
  the code: none changes how a later one is handled, and the state after any one
  of them is met in every interleaving. Two matter where a restart follows a
  partial failure, as in `KycFlow`.
- Registration: two requests at a time, two Clerk ids that share an address, a
  message without one and a `user.updated`, each redelivered without limit. Every
  check of the code is about two requests that share an id or an address.
- Profiles: two updaters and a reader, a registered user and an unknown id, two
  markets, an unsupported one, two names, every kind of request. A race on a row
  needs two updates; a stale fill needs a reader and an update. `MarketSetOnce`
  has the registered user only.
- KYC: two logins, two users of whom one has a `+clerk_test` address, two
  callbacks, time to live 1 and a clock up to 3, so that a login may be used,
  expire before its callback, expire between the two clock readings, or outlive a
  restart. States are fresh random values in the code, so that each is issued
  once. `EmailChecked` has a clock up to 2.
- `IdentityService`: one updater, one reader and one callback at a time on one
  user, two logins, which do not expire here (in `KycFlow` they do). Each of the three accidents
  needs one call of two kinds. What only more calls at a time could show is
  covered by the theorems, which have no such bound.
- Forward auth: one registration request, two forwards, two keys of which any
  non-empty set may be served, four tokens: one subject under either key, a
  subject never bound, and a forgery.
- Proxy: a login and two callbacks, two Singpass keys, no bound on failures,
  rotations or restarts.
- Client and process: one process and two callers, with no bound on requests,
  signals, exports or calls. The states of `Lifecycle` are finite as they are;
  two callers are one that dials and one that waits.
- Edge: two user ids, so that the caller can be told from another user. Requests
  share nothing there, and the longest chain is all a request can do.

Forwards in `AuthForward`, and callbacks and OAuth states in `KycFlow` and
`EmailChecked`, are interchangeable, and these runs use that symmetry: the first
has no liveness property, and neither has the second. The runs with liveness
properties use none.

### Fairness

- `UserRegistration`: a running request is scheduled until it ends (weak
  fairness of its steps), and Svix redelivers a message until it is answered
  200, strongly fair because a free handler may come and go. Failures, restarts
  and the arrival of other messages are not fair; faults are bounded, so that
  the property says that what a fault leaves behind does no lasting harm.
- `UserProfile`: running calls are scheduled, and an entry that has outlived its
  hour expires. Expiry is per user and weakly fair: Redis does it unless the
  entry is replaced. The property asks for coherence once updates have stopped.
- `SingpassProxy`: a running caller is scheduled, and the HTTP client's timeouts
  end every call. Nothing says how: failing is always possible.
- `ClientLibrary`: the goroutine of `main` (`MainStep`), the two server
  goroutines on their way to serving, the clock of the shutdown context
  (`DeadlinePasses`) and a caller inside `GetIdentityServiceClient` go on.
  Nothing makes a signal, a request, an export, a failure or `Destroy` happen.
  `MainStep` includes a part that fails as one way for its `Init` to end, so that
  `EventuallyServes` has to allow for it; a start that hangs (in `gorm.Open` or
  `AutoMigrate`) is not in the model.

## 4. Proofs

Eight modules of theorems, for any values of the constants that meet their
assumptions: no bound on handlers, messages, users, readers, callbacks, logins,
forwards, keys, callers or faults.

| Module | Proves |
|---|---|
| `UserRegistrationProofs` | `TypeOK`, `TablesAgree`, `MappingCacheCoherent`, `AnnouncedOnce`, `AcceptedMeansBound`, `OnlyFaultsLoseEvents`, `ImplementsRegistry`; `OnlyCrossingBindsTwice`, `OnlyFaultsBreakAcceptance` |
| `AuthForwardProofs` | `ForwardTypeOK`, `VerifiedKeysCurrent`, `IdentifiedIsBound`, `BoundIsIdentified`, and `ImplementsRegistry` again, of registration beside forwards |
| `UserProfileProofs` | `TypeOK`, `MarketKept`; `OnlyCrossingReplacesMarket` |
| `KycFlowProofs` | `TypeOK`, `OneWritePerLogin`, `CarriedEmailChecked`, `EventsFollowWrites`, `OnlyFaultsLoseKycEvents`, `ExpiredNeverUsed`, `ImplementsOneTimeLogin`; `CarryingChecksEmail` |
| `IdentityServiceProofs` | `KycIsLastWrite`, `StaleOnlyIfExcused`; of both services in one process, `FlowKeepsItsWord`, `ExpiredStillNeverUsed`, `StillOneTimeLogin`, `MarketsStillKept` |
| `SingpassProxyProofs` | `TypeOK`, `OneProxyPerProcess`, `TokenReadable` |
| `ClientLibraryProofs` | `TypeOK`, `WholeOrNothing`, `FlushedOnReturn`, `OneConnection` |
| `EdgeProofs` | `TypeOK`, `OneAnswerOneLine`, `AuditedOnce`, `ActsForVerified`, `AnswerTellsOutcome` |

They rest on the assumptions the modules name: `None` is no identity, message or
key; messages, tokens, updates and user infos have the form of their sets;
accounts are numbered from 1, as an auto-increment key is; `KafkaEnabled` and
`CarriesEmail` are Booleans, the bounds natural numbers.

**Registration.** None of the invariants is inductive alone: that a commit does
not bind a Clerk id twice depends on what the request checked several steps
earlier and on what other requests have done since. The inductive invariant
`Safe` is their conjunction with `RequestsConsistent`, which says what each
program counter has earned: the user id of an open transaction is below the
counter, not committed and held by nobody else; a request past its `INSERT` into
the mapping table holds a Clerk id that no committed row and no other such
request has (the unique index); a request past its commit owns a committed
mapping whose user is not announced. A commit then adds one fresh row to both
tables (`TablesAgree`), a fill adds a committed row to the cache
(`MappingCacheCoherent`), and a publish adds a user not yet in the topic
(`AnnouncedOnce`). The proof goes action by action (`StepSafe`, `FailureSafe`,
`ReceiveSafe`, `OtherSafe`), on lemmas about moving a request (`GotoRequests`,
`AnswerRequests`), committing (`CommitTables`, `CommitRequests`) and appending to
the topic (`Announcing`). For the refinement, a commit is a `Register`, a publish
an `Announce`, and every other step leaves the mapped state alone
(`NextImplements`), given `Safe`.

**Forward auth.** `ForwardSafe` adds to `Safe` what a forward has earned: one that
runs has a token, of a subject bound since if it was when the request arrived;
one past its verification was verified with a key in `since`; one about to fill
the cache has a committed row of its subject. Registration only adds mappings,
and a forward writes nothing but committed rows into the cache, so that neither
side disturbs the other.

**Profiles.** What a step may do to a market depends on what its updater read.
The invariant adds `StillSees`: an updater about to write that nobody overtook
still sees the market of the row it read, and it changes a market only where it
read none.

**KYC.** `FlowInv` ties the four places a login leaves a trace in: a state is
issued once, and is pending only if it was issued and not used (`LoginsOK`); a
callback past `Consume` is the only one of its state and has its user
(`CallbacksOK`); a write was made for a used state by a callback that is past it
(`WritesOK`); an event was published for a write whose callback is past it, and
the events of a user are in the order of its writes but for pairs that crossed
(`EventsOK`), which a publish keeps because a write not yet told when a later one
was made is in `crossed` with it. `EventsFollowWrites` also compares with the
table, and for that `ToldInv` says where a write may be between the table and the
topic: the status of a user is that of its last write (`TablesOK`), and every write
is told, is held by a callback that has still to tell it, or is lost (`LossOK`,
which is `OnlyFaultsLoseKycEvents`). The last write of a user is then told,
telling or lost; if it is told, it is the last event or an event told after it
crossed it (`EventsMean`).
`ExpiredNeverUsed` and the refinement are step properties under it.

**The composition.** `IdentityServiceProofs` needs of each service only the shape
of its records, and that every step of either changes a row only in a writer that
has then to delete the cached profile, or under a fault (`Moves`). The invariant
is that what is cached or held is known and fresh unless it is excused, or a
writer of that user is still to delete (`CacheInv`), and that the status of a
user is that of its last write (`KycInv`).

What each service promises on its own survives the other one. The invariants of
`KycFlow` and `UserProfile` do not mention the table and topic that only the
other service writes, or only ask of them what its steps keep: `RestSteps` in
each proof module says what the rest of the process may do (leave the flow's
state and the KYC column alone; change no market), and `RestKeeps` that the invariant takes it. In
`IdentityServiceProofs` the steps of `P` are shown to be such steps for `K`
(`CallsKeep`), those of `K` for `P` (`FlowKeeps`), and a restart to be one of both
at once (`CrashKeeps`). So the five guarantees of the KYC flow, the one-time use
of a login among them as a refinement, and `MarketKept` hold of the whole process
(`FlowKeepsItsWord`, `ExpiredStillNeverUsed`, `StillOneTimeLogin`,
`MarketsStillKept`).

**The claims that fail.** Section 3 has four runs that refute what a comment or a
document of the repository says. For each of them a theorem says what it takes:
the claim holds in every behaviour without that one accident.

| Claim | Holds in every behaviour where | Theorem |
|---|---|---|
| `EmailBoundOnce` | of two requests of one address, only one at a time is between its look-up by address and its commit (`RequestsApart`) | `OnlyCrossingBindsTwice` |
| `AcceptedMeansAnnounced` | nothing has failed (`faults = 0`), state by state | `OnlyFaultsBreakAcceptance` |
| `MarketSetOnce` | of two updates of one user, only one at a time is between its read and its write (`UpdatesApart`) | `OnlyCrossingReplacesMarket` |
| `EmailChecked` | every login was started with an email address, state by state | `CarryingChecksEmail` |

The first and the third are about the code's order of reads and writes: the check
is right, and what is missing is that it be one step with the write.

**Proxy.** Only the caller that found `once` new builds (`OneBuilder`), and before
`once` is done nobody has a proxy; the two keys of the service are there together
and, as long as nothing went wrong in this process, so is the key Singpass signs
with (`ProxyWhole`).

**Process and client.** `LifeInv` says which parts `main` has behind it wherever
it stands, and that the servers and services only exist past that point; that
what a collector would take is gone when the call that shuts down its signal is
done, unless the deadline passed. `ClientInv` says that one caller at most is
inside `Do`, and what it has made when.

**Edge.** Where a request stands settles the rest. The route and the position
give the chain, and with it the middlewares whose `Next` has not returned
(`At`, `Held`, `Depth`) and, of the lines in the log, those that are due
(`LinesAt`: the one of the audit and that of the access log, once each has
returned). The invariant is this shape and one
clause for each way through: on its way in a request has passed what the
middlewares so far check (`Passed`), and on its way out, after a panic and after
a recovery the answer and the lines are those of the middlewares that have
unwound (`GoingIn`, `GoingOut`, `Panicking`, `Recovered`, `Crashed`). The five
invariants are read off the end of each.

Only model-checked: the liveness properties (`EventuallyAccepted`,
`EventuallyCoherent`, `EveryCallEnds`, `EventuallyServes`, `SignalEnds`,
`CallersReturn`), which need reasoning about fairness and enabledness. Every
safety property that a passing run checks has its theorem.

## 5. Not modelled, and why

- The webhook's checks are in `Edge`, up to the verified message that
  `UserRegistration` starts from; callbacks without code or state likewise.
  Tokens refused for their form or claims (issuer, `exp`, `nbf`) end a forward
  before anything is read, and the branch of `publicKey` that waits for the
  5 minutes of the key cache is never taken with one `Authenticator` per request.
- Corrupted cache entries (deleted and treated as a miss: a miss is always
  possible), and a disabled database: `ErrDatabaseDisabled`, and with it the 503
  of the handlers, cannot be met, because `repository.Init` panics rather than
  leave the handle nil.
- A language, which is validated and written as a name is but not cached, and
  `GetProfile`, which only reads.
- An UPDATE that a process sent before it died and that MySQL applies after the
  restart; a MySQL deadlock is a database error of `DatabaseFails`.
- Case and collation of addresses: `Emails` are equal up to the column's
  collation, `Untagged` is the removal of `+clerk_test`.
- The development seed (`2026-05-17_seed_users.sql`, which has users without a
  mapping): the tables start empty, or with registered accounts.
- The `role` of a mapping, constant after registration.
- Load: the models bound how many requests run, not what they cost. That a fresh
  `Authenticator` fetches the key set on every forward is a cost.
  That, and the client over a closed connection of section 3, are the two hazards
  of `PROJECT.json` without a property.
- `PermitAll` and `RequireAdmin`, which no route uses, `http/api/common.go`, which
  nothing uses, and the Swagger route, which serves generated files.
- A service that hangs in its start, and a second signal while the first is
  handled: the process is then ended by the platform.
- Pure helpers (masking, topic prefixes, value lists), span attributes, log
  levels and encoders: formatting that no property is about.
- The `kyc_updated_at` of a KYC event, which is read from the clock before the
  UPDATE: events are told apart by the login they came from.
- `SayHello`, which answers a greeting.
- Generated code (`common/identitypb`, `server/docs`), SQL files and CI.

## 6. Extending it

A change of the code shows first in the definition `PROJECT.json` maps to its
lines: change that definition, run the module's configuration, then the proofs
of its theorems. Worth adding, should the code come to need it: the key cache of
`jwks.go` with its expiry, when one `Authenticator` serves all requests; the
claims of a token, when they decide more than acceptance; a shared store of
pending logins, when more than one process serves callbacks; a conditional
UPDATE of the market and an outbox for the events, with which `MarketSetOnce` and
`AcceptedMeansAnnounced` would hold.
