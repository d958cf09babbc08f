# Formal models of admin-service

TLA+ specifications of the admin service of this repository (`src/`), the TLC
runs that check them on small instances, and TLAPS proofs of the invariants
that matter most for instances of any size.

The service is a Gin HTTP server over PostgreSQL (gorm) and Redis. It holds no
lock and opens no transaction around the flows modelled here: every request is
a goroutine, and between two calls to a store any other request may run, any
key may expire, and a call may fail before or after it was applied. That is
what the models are about.

## 1. Inventory

| Component | State | Operations | Talks to | What makes it hard | What makes it correct |
|---|---|---|---|---|---|
| Auth service (`internal/domain/auth/service.go`) | none of its own | `Login`, `Refresh`, `Logout` | users repository, session cache, refresh store, audit | up to eight store calls per request, no atomicity, errors partly ignored | a logged-out version is never accepted again after a bounded window; a removed refresh token stays removed |
| Session cache and loader (`session_cache.go`, `session_loader.go`) | `user:<id>` in Redis, with a TTL | load, four-step fill, save, delete | Redis, users repository | stale fill against delete, error read as a miss | a copy never runs ahead of the row; stale copies end |
| Refresh records (`auth/repository/redis_store.go`) | `refresh:<hash>` in Redis, with a TTL | set, get, delete | Redis | rotation writes the new record before deleting the old | never re-created under an issued token |
| Token manager (`pkg/auth/token.go`) | none | sign, parse | | expiry and leeway | claims carry the version of the session they were made from |
| Auth and permission middleware (`pkg/middleware/auth.go`, `permissions.go`) | request context | decide, gate | session loader | decides on copies only | accepts only an active session of the claim's version |
| Users service and repository (`internal/domain/users`) | `users`, `user_roles` | create, update, delete, list, role and permission queries, version increment | PostgreSQL, audit | read-modify-write of the whole row; several statements without a transaction | a deleted row stays deleted; concurrent writes do not undo each other |
| Audit service (`internal/domain/audit`) | bounded channel, worker pool | `Record`, worker loop, overflow write | PostgreSQL | full channel, failing insert, end of the process | each entry settled once; loss bounded |
| HTTP server (`pkg/server`, `cmd/server/main.go`) | phase of the process | start, signal, drain, time out | all handlers | drains handlers, not goroutines behind them | entries of answered requests are not lost |
| Threats service (`internal/domain/threats`) | `threats` | create, read, update, delete | PostgreSQL, audit | read-modify-write without a transaction, deletion during an update, statements that fail after taking effect | the trail says of a threat what happened, once; a deleted threat stays deleted |
| Example service (`internal/domain/example`) | in-memory map, atomic counter | insert, list | | the counter is read twice, separately | an insert no other overlaps is found under its id for good; ids of later requests are larger |
| Rate limiter (`pkg/middleware/ratelimit.go`) | map of limiters, one eviction goroutine each | allow, evict | | check-then-act, eviction by key | a race costs a bounded number of extra bursts; no limiter stays |
| Seeder (`pkg/init/seeder.go`) | permissions, roles, links, first user | idempotent seed at start | PostgreSQL | crash between statements, replicas seeding together, soft-deleted admin | the tables hold a prefix of the plan; a serving replica found all of it |
| Configuration (`pkg/config`) | | precedence of environment, file, default; secret providers | | precedence, fallbacks, environment names | a service in production signs with the Secret Manager's secret or does not serve |
| PostgreSQL connection (`pkg/postgres`) | | three attempts, migration | PostgreSQL | attempts of one start | never a fourth; restarts begin anew |
| Logging, tracing, metrics | | pass-through | | an unknown log level ends the start | not modelled but for that |

How they interact: a request passes the middleware (session cache, filled from
the users table on a miss), then the permission gate, then a handler; login,
refresh and logout share the same cache and table; the users handlers write the
table behind the cache's back; auth, users and threats handlers submit entries to
the audit channel; the server waits for handlers when it stops. Before any of
that each replica loads its configuration, connects, migrates and seeds tables
that all replicas share; the rate limiter stands before the `/auth` routes and,
behind the authentication middleware, before each group of `/api/v1`.

## 2. Modules

| Module | Models |
|---|---|
| `StoreCalls` | the outcomes of a call to a store |
| `UserTable` | `users` and `user_roles`, one operator per SQL statement |
| `AuthService` | login, refresh, logout, middleware, session cache, refresh records |
| `UsersService` | the writing handlers of the users service |
| `Directory` | abstract: what the user administration promises, one change at a time |
| `Accounts` | `AuthService` and `UsersService` over one table, behind the permission gate; implements `Directory` |
| `AuditTrail` | abstract: what `Record` promises |
| `AuditService` | channel, workers, overflow write, shutdown; implements `AuditTrail` |
| `Threats` | the `threats` table and its writing handlers |
| `ThreatServer` | `Threats` and `AuditService`: handlers, their entries, the process that ends; implements `AuditService` |
| `Requests` | the goroutines the next three modules share |
| `RateLimiter` | limiters, buckets, eviction goroutines |
| `ExampleRepository` | the counter and the map of `inmemory.go` |
| `Examples` | `ExampleRepository` behind `RateLimiter` |
| `Config` | `config.go` as operators on what a process finds |
| `Seeder` | `seeder.go`, run by several replicas |
| `Startup` | each replica from `main`'s first line to serving, and after a crash |
| `AuthServiceProofs`, `AuthEffectProofs`, `AccountsProofs`, `AuditServiceProofs`, `ThreatServerProofs`, `RateLimiterProofs`, `ExamplesProofs`, `StartupProofs` | the proofs |
| `MCAuth`, `MCAccounts`, `MCAudit`, `MCThreats`, `MCExamples`, `MCStartup` | instances for TLC |

A store call has an outcome: `ok`, `lost` (applied, an error came back) or
`failed`; the constant `Faults` says which stores may do the last two.

**AuthService.** `req[p]` is the local state of the goroutine `p`: the
operation, the program counter (the next store call), the user, the presented
and the new refresh token, `want` (the version the credential carries), `sess`
(the session being built or decided on), the answer and the status of the audit
entry it submits. One action is one store call with the code up to the next:

- `Login`, `LoadRecord`, `Authenticate`, `RejectBlank` start a request;
- `LoadSession`, `ReadUser`, `ReadRoles`, `ReadPerms`, `FillCache` are
  `LoadUserSession` and `BuildAndCacheSession`, shared by login (which enters
  at `ReadRoles` with the row it read), refresh and the middleware;
- `Decide` is what each caller does with the session it got;
- `SaveRecord`, `Rotate` are `rotateRefreshToken`; `DropOutdated`,
  `DropBanned`, `EvictBanned` are the refusals of `Refresh`;
- `BumpVersion`, `ClearSession`, `Revoke` are the three writes of `Logout`,
  each of whose errors is only logged;
- `ExpireSession`, `ExpireRecord` are the TTLs.

The row of a user has a status (absent, live, soft-deleted), an email, the
active flag and the token version. Passwords are not state: a comparison is an
unconstrained boolean. Emails, tokens, roles and permissions are model values.

**UsersService, Accounts.** `adm[p]` is the handler the same goroutine runs
once the middleware has let it through. `Create` is up to three statements,
`Update` a SELECT and an UPDATE of four columns from the copy, `Delete` one
UPDATE. `Accounts` adds the permission gate: a handler starts in a request the
middleware accepted, if the session it left in the context has the permission.
`Directory` has neither requests nor versions: a user is registered under an
email nobody has or had, given a role at most once, changed while not removed,
removed for good. The mapping takes the rows without their version, and
`user_roles` as it is.

**AuditService.** `queue` is the channel, `working` and `writing` the entry a
worker or an overflowing handler is inserting. The refinement mapping takes
`pending` to what is in the channel or in a goroutine, `kept` to the entries
with a row, `dropped` to those whose insert failed without storing one, and
`alive` to a process that is running or draining. The first `Insert` of an entry
fixes its id, the primary key, so a second one would store nothing.

**Threats, ThreatServer.** `thr[p]` is the handler of goroutine `p`. `Create` is
its checks and one INSERT, `Update` a SELECT (`LoadThreat`) and an UPDATE from
the copy (`WriteThreat`), `Delete` one DELETE. `title` stands for the required
texts; the severity keeps its conversion (`Lowered`, then the look-up), because
what is stored is the normal form. A handler that succeeds stops at `record`;
`Submit` is `recordThreatAction`, `Reply` the answer, which leaves after the
entry is submitted, or written when the channel is full. `about` remembers what
each entry says, `took` whether the request's own statement changed the row, and
`unheard` the creations and deletions (action and id) that took effect and answered
an error; all three are history. Handlers go on while the server drains.

**RateLimiter, ExampleRepository, Examples.** `lim[p]` is the middleware of `p`
(`getLimiter` is a load and, on a miss, a store), `ins[p]` its `Insert`: add,
load for the id, load for the key, store. `evictors[c]` counts the goroutines
that sleep ten minutes and then delete the key of client `c`. A limiter is a
pointer to a bucket; `New` takes one nothing refers to. `granted`, `answered`,
`lone`, `floor` and `alone` are history.

**Config, Seeder, Startup.** `world` is what a process finds: environment, `.env`,
`config.yaml`, Secret Manager. A variable may be absent or empty: `os.Getenv` does not
tell the two apart, but `.env` only sets the absent ones. `LoadConfig` is `Load` and
`logger.New`, which refuses an unknown level. `rep[r]` is the process of replica `r`: the stage it is
in, the position in the seed plan, the attempts to connect. The plan is one
sequence of permissions, roles and links in `seedAdmin`'s order; `FindItem` and
`InsertItem` are `FirstOrCreate`, `LinkItem` the INSERT that ignores conflicts;
`LookupAdmin` to `AssignAdmin` are the admin user. `stored` and `users` are the
shared tables; of a user, `named` says whether the row has the configured email
(at most one has: the unique index), `roled` whether it has the admin role, and
`rep[r].user` is the row `seedAdmin` goes on with, a copy that may be out of date
when `ActivateAdmin` writes it back, email included. `Crash` ends a process anywhere,
`Restart` is the platform's. `Administer` is what the users routes of a serving
replica may do, a statement at a time: delete a user, rename or deactivate one, give
one the email or take it away, create one under it, give it the role (nothing, when no
email is configured: then no row is of interest).

## 3. Runs

| Run | Question | Expected |
|---|---|---|
| `auth` | all interleavings of two requests with working stores, up to three logouts | pass |
| `auth_faults` | the same flows when any PostgreSQL or Redis call may fail either way, with fairness; also from a deactivated user who still holds a refresh token | pass |
| `logout_clears` | does a successful logout leave no session of the version it retired? | violated |
| `accounts` | sessions of a user who is being created and given a role while he logs in, with a failing database; refinement of `Directory` | pass |
| `barring` | deactivation and deletion against logins, refreshes, fills and other updates, with fairness | pass |
| `version_rollback` | does a successful logout move the row past the version it retired, when an update overlaps? | violated |
| `audit` | channel, pool and overflow write against the end of the process; refinement of `AuditTrail` | pass |
| `audit_stop` | is every submitted entry settled after a graceful stop? | violated |
| `threats` | creations, updates and deletions of a threat against each other, a failing database, the audit queue and a shutdown | pass |
| `examples` | requests racing for the limiter of their client, then for the example counter | pass |
| `startup` | two replicas of fourteen deployments that start, fail, crash and restart over shared tables, against the users routes of those that serve | pass |
| `optional_secret` | may an optional secret be missing in the Secret Manager? | violated |

The properties of authentication and accounts:

- `NoFutureVersions`: no copy of a version (cache, record, claim, request) is
  ahead of the row. Middleware and refresh compare copies with copies; a copy
  from the future would become valid at a later logout.
- `RetiredForGood`: once row, cache and all fills in flight are past a version,
  they stay past it and no request is decided in favour of it any more. This is
  what a logout really guarantees: it leaves a window (below) that closes once.
- `LogoutTakesEffect`: that window closes.
- `NoResurrection`: a removed refresh record is never written again under a
  token a client has.
- `SuccessLeavesEffect`: with working stores, a request that reports success
  has left its effect behind, whatever ran at the same time.
- `SessionsCoherent`: roles are read before permissions, so a role assigned
  between the two queries never leaves a session that names a role without its
  permissions, in the cache or with a request. Only a request that ended in an
  error may be left with a session half built, which nobody reads.
- `ImplementsDirectory`: creations and updates of several statements, with other
  requests and failures between them, amount to the single changes of `Directory`:
  no email is given twice, and the role a creation assigns in a statement of
  its own is the only one its user ever gets.
- `DeletedStaysDeleted`, `ShutOutHolds`, `BarringTakesEffect`: deletion is not
  undone by an update that read the row earlier; a deactivated or deleted user
  is in the end shut out, and stays so.

Of the audit service and the threats:

- `OnePlace`, `LossBounded`, `ImplementsTrail`, `ImplementsFairTrail`: each audit
  entry is in one place and is settled once; what the end of the process loses is
  at most the channel, one entry per worker and, if the shutdown timed out, one per
  handler it ended.
- `RecordedOnce`: no creation or deletion of a threat is claimed twice.
- `TrailMatchesTable`: every entry is backed by the statement of its own request,
  which created, updated or deleted the threat. The one exception, named in the
  property, is an update behind a deletion: it changes nothing, because `Update`
  discards the row count (`threats/service.go:205`), and is recorded as a success.
- `NothingUnrecorded`: every creation and deletion has its entry before it is
  answered and before a graceful stop. The one exception, named in the property,
  is a creation or deletion that took effect and was answered with an error.
- `StoredTrail`: both of the rows of `audit_logs`, across handlers and queue: they
  are accurate, and what they miss is in the process or was logged as failed.
- `DeletedForGood`: an update behind a deletion does not bring the threat back.
- `DrainEnds`: a shutdown ends although handlers are between their statements.

Of the example routes:

- `BurstBounded`: until a token is refilled or a limiter evicted, a client is
  admitted at most `Burst + 1` times per goroutine. The effective burst is thus
  larger than `RATE_LIMIT_BURST` when first requests race, and not unlimited.
- `LimiterEvicted`: a stored limiter is removed in the end, although the goroutine
  of another limiter of the client may remove one that is not its own.
- `LaterIdsGrow`, `StoredForGood`: requests share an id, or store an example under
  another one's key, only when they overlap.

Of the start-up:

- `StoredIsPrefix`: whoever crashed where, the seed is a prefix of its plan, so no link
  lacks its role or permission (there is no foreign key).
- `ServingSeeded`: a replica that serves found or made all of it, and a user under
  the configured email who has the admin role. A route may rename or delete that
  user afterwards; the role it keeps.
- `StartsInTheEnd`: once failures stop, every replica of a deployment that can start
  serves, although replicas that seed together make each other exit. It is promised
  while the email is not buried with a deleted user and the routes do not take it
  from users for ever: each time they do, a start may fail at its INSERT.
- `DeletedAdminStays`, `DeletedAdminBlocksStarts`: no start brings a deleted user
  back or writes to it; instead its email, which the unique index keeps, ends every
  later start.
- `SecretFromManager`: in production and staging the token secret is the Secret
  Manager's.

### What the violated runs show

- `logout_clears` (`LogoutClearsSession`): a request that read the row before
  the logout's increment (`service.go:220`) saves the session it built
  (`session_loader.go:57`) after the logout's delete (`service.go:223`). The
  retired version is accepted until the TTL ends. `service_test.go:136` asserts
  the session is deleted, which the sequential test cannot distinguish.
- `version_rollback` (`LogoutIncrements`): the users `Update` writes
  `token_version` back from the copy it read (`postgres.go:104-109`), which
  undoes an increment in between. `RetiredForGood` is a theorem of
  `AuthService`, not of `Accounts`, for this reason: a rolled back row makes the
  retired version current again.
- `audit_stop` (`StopKeepsEntries`): the server waits for its handlers, nothing
  waits for the channel or the workers.
- `optional_secret` (`OptionalSecretMayBeMissing`): `ResolveOptionalSecret` is
  documented to report a missing secret as absent (`config.go:246`), but the
  Secret Manager reports it as an error, which ends the start.

Observed while translating, without a run of their own: `README.md:114` and `:124`
name a fallback `dev-default-secret` the code does not have (`Load` ends with an
error); the fallback to the variable `TOKEN_SECRET` is off in `production` and
`staging` but not in `prod`, which also uses the Secret Manager; requests that fail
authentication never reach the rate limiter of `/api/v1`.

### Bounds and why they are enough

- Requests: two at a time. Every race above is between two requests; each
  goroutine serves any number of requests in sequence, so the sessions, records
  and claims of earlier requests stand for further parties.
- Tokens: two or three. `Fresh` gives a request a token nobody has (64 random
  bytes); `TokenBudget` lets a request that may need a token start only
  while one is left for it. Three allow a login, a rotation and a second login.
  Expired and revoked tokens are not reused.
- Versions: `VersionBudget` lets a logout start only while the version may grow
  to `MaxVersion` (three in `auth`), so a version is retired, and re-retired, with
  copies of two older ones around. No guard of the code is replaced by it.
- Users: one in the auth runs (`user:<id>` keys of different users never meet),
  two in `accounts` (the administrator and the one he creates); one who
  administers himself in `barring` and `version_rollback`.
- `auth_faults` has a second initial state (`DeactivatedInit`): a user deactivated
  after a login, still holding his refresh token and an access token, his session
  expired. `AuthService` alone deactivates nobody, so the refusal of inactive
  users (`DropBanned`, `EvictBanned`) needs it; `barring` shows the way there.
- `accounts` starts after a login, with the administrator's access token handed
  out and its refresh record expired, a state the flows reach; `MaxVersion = 0`
  leaves logout out of it, and the administrator may write users but not delete
  them, which keeps a failing PostgreSQL affordable. Deletions are in `barring`; that they
  are `Directory`'s is proved (`DirectoryImplemented`).
- `audit`: four entries over a channel of two and two workers, so the channel
  fills while both workers are busy and a handler overflows. The process may
  end (`CHECK_DEADLOCK FALSE` is for that, in `threats` too).
- `threats`: two goroutines, one threat (statements on different rows never meet),
  one allowed and one refused severity, three entries, which `EntryLeft` turns into
  a bound on requests: a creation, and an update and a deletion that race. A channel
  of one and one worker make the third entry overflow.
- `examples`: two goroutines, one client (limiters of different clients never
  meet), `Burst = 2`, four limiters (one more than can be in use), three
  eviction goroutines (`MaxEvictors`), so one stored by a race, one by a later miss
  and one after an eviction; three inserts (`MaxId = 5`).
- `startup`: two replicas; a plan of four items, a permission and two roles, the
  first of which has a link and the second none (the plan of `seeder.go` itself is checked
  against `GoodPlan` as an assumption); two user ids, one for the seeded user and one
  for another who takes the email, while `Administer` leaves a row with the email or an unused
  id for the next INSERT; three failures or crashes (`MaxTrouble`), enough for the last
  attempt to connect or for as many crashes in one seeding; fourteen worlds, among them
  every way the configuration ends a start. All replicas may serve with no failure left,
  and a deployment that cannot start only exits and restarts
  (`CHECK_DEADLOCK FALSE` is for the former).

The proofs lift the bounds on requests, tokens, users, threats, entries, clients,
limiters, replicas, the plan, the failures, workers and capacity for the
properties they cover.

### Fairness

- `WF(Continue(p))`: the Go scheduler runs each goroutine and each store call
  returns, at the latest with the context's error (modelled as an outcome). The
  arrival of requests is never fair.
- `WF(ExpireSession(u))`: a saved session has a TTL. A save restarts it, which
  the weak fairness of the expiry ignores; it is harmless because only a fill
  that read the row before the increment can save the old version, there are
  finitely many of them, and any other save overwrites the session with the
  current one.
- In `AuditService`, inserts return and goroutines are scheduled; requests,
  signals and the end of the process are not fair.
- `ThreatServer`: handlers are scheduled and `Shutdown`, which polls, notices that
  none is left. Workers need no fairness for `DrainEnds`, since a full channel makes
  the handler write the entry itself.
- `Examples`: goroutines that sleep ten minutes wake up. Nothing else is fair.
- `Startup`: calls return, and an exited container is started again (Kubernetes,
  `README.md:147`). Failures and crashes are finitely many, not fair.

## 4. Proofs

Each module's invariant joins its types and what its steps rely on; each action is
proved once to keep it, and the properties follow.

`AuthServiceProofs` proves for every value of the constants (any sets, any
`Faults`) `TypeCorrect`, `VersionsLag` (`NoFutureVersions`), `RetirementHolds`
(`RetiredForGood`) and `TokensStayDead` (`NoResurrection`).

`NoFutureVersions` and `TypeOK` are not inductive: a step dereferences the user,
the session and the tokens of its request. `IInv` adds `ReqControl`, what a
request has in hand at each control point (a running request has a user; from
`roles` on it has a session; from `rotate`, `drop`, `bump` on the presented
token), and which operations reach which tail. The argument: a version enters a
request from the row or from a copy of the row; the row only grows; so no copy
is ahead.

Each action is proved once, to keep `IInv` and to satisfy `Contract(p)`: the
rows' versions do not shrink; a request that goes on filling the cache has a
version it read from the row now or had already; it accepts its credential only
if the cached session, or the one it is saving, carries the same version; the
cache only gets that session; no record appears under an issued token.
`RetirementHolds` and `TokensStayDead` follow from the contract without looking
at the actions again.

`AuthEffectProofs` proves `SuccessesLast` (`SuccessLeavesEffect`, for `Faults = {}`) from
two statements that need less: `RecordsGo` (if Redis never fails, a request that
reported success has removed the record it presented) and `VersionsMove` (if
PostgreSQL never fails, a logout's row is past the record's version), each whatever
the other store does. `EInv` is `IInv` and, for every request, what it has left
behind so far: its token has reached a client, so that `SaveRecord` writes no record
under it again; a logout goes through `bump`, `clear`, `revoke` only, and from `clear` on the
row has moved. Rows and issued tokens only grow, so one request's step leaves
the others' effects in place; a step's own effects are shown action by action.

`AccountsProofs` proves `AccountsTypeCorrect`, `SessionsStayCoherent`
(`SessionsCoherent`), `EmailIdentifies` (what `GetByEmail` finds is one row),
`DeletionFinal` (`DeletedStaysDeleted`), `ShutOutKept` (`ShutOutHolds`), `TokensStayDeadHere`
(`NoResurrection` once more, as `Accounts` is no refinement of `AuthService`) and
`DirectoryImplemented` (`ImplementsDirectory`). The order of versions is lost here (an
update may roll a row back), so `AccInv` is not built on `IInv`: it joins the types, `ReqControl`,
`SessionSound` (between its two queries a session names roles of its user, after
them it is coherent), the same of the cache, `UniqueEmails` over all rows,
deleted ones too, and what a handler has in hand. Roles are only ever added, which is why
the later query finds at least the permissions of the earlier roles.
Each action is shown to keep `AccInv` and a `Promise`, the step form of the three
action properties; for the flows it suffices that a request is `Honest`, that is,
does not carry an active session of a shut-out user towards the cache. For the
refinement `Creations` is needed besides: nobody has roles before a row, a user being created has
none and one creator, and the copy an update writes back was made from a live row.

`AuditServiceProofs` proves `AuditTypeCorrect`, `EntriesInOnePlace`,
`StopLossBounded` and `TrailImplemented` (the refinement of `AuditTrail` without
fairness). `AInv` joins `TypeOK`, `OnePlace` and `WritesServed` (overflow writes happen
inside a request, and none is left at a graceful stop): an entry in hand is not
settled, so it has no row yet and its insert meets no key. That the pending entries
are no more than channel, workers and serving handlers is a counting lemma (`Covered`).

`ThreatServerProofs` proves `AuditImplemented` (every behaviour of the server is one
of `AuditService`, the handlers being the goroutines), `ServerTypeCorrect`,
`RecordedAtMostOnce`, `TrailTruthful`, `TrailComplete` and `ThreatStaysDeleted`. The
properties relate entries to rows; between the statement and the entry the
claim is with the goroutine. `TrailInv` therefore speaks of both: `Served`
(what a handler between two steps has done, and that it runs inside a request),
`Truthful` (an entry is `Accurate`; the table never goes back, so what `Served` says of a
handler when it submits stays true of its entry),
`Once` (at most one entry or one goroutine makes a claim) and `Complete` (some
one does, unless the statement answered an error). `Touched` is what all the
handlers' statements have in common; the invariant is shown for it once.
`AuditServiceProofs` is instantiated with the goroutines as its handlers, so that
its invariant is one of the server (`QueueInvariant`) without being proved again.
It says where each entry is, and `StoredTrailTruthful` (`StoredTrail`) combines the two: a
row is that of a submitted entry, and an entry without one is in the process or was logged.
`ServerKeepsTrail` composes the two refinements: the handlers' entries get what
`AuditTrail` promises.

`ExamplesProofs` proves `LaterIdsLarger`, `LoneExamplesKept` and
`ExamplesTypeCorrect`. `RInv` orders what an insert has read (`floor`, id,
key, counter), and says that a goroutine still marked `alone` is the only one
inserting and that its key is its id. The limiter's types need that one limiter is
always free (`New` would otherwise be undefined): `LimiterAssumptions` gives
more limiters than clients and goroutines, and a counting lemma does the rest.

`RateLimiterProofs` has the invariants of the limiter, and `BurstsBounded` in
`ExamplesProofs` is `BurstBounded` for the example routes. What a client was
admitted is spread over several limiters, and limiters are reused, so nothing
can be added up from the state. `BInv` therefore says there is a ledger for each
client: since the last eviction each goroutine has stored at most one limiter (a
second look-up would have found one). An admission is charged to the next token
of the limiter it came from, in the name of the goroutine that stored it, or,
if the map had lost that limiter before the count began, to the goroutine
admitted, once. The tokens still in a bucket have not been charged. Slots are
pairs of a goroutine and a number from 0 to `Burst`, and admissions are at most as
many as slots spent. The ledger is quantified in the invariant, not a
variable: no history is added for it.

`StartupProofs` proves `StartupTypeCorrect`, `PrefixStored`, `SeededBeforeServing`,
`ManagerSecretOnly`, `AdminStaysDeleted` and `DeletedAdminBlocks`, for any plan
without repetitions and any `world`. `SInv` adds to `StoredIsPrefix` what a
replica's stage and position say (`Progressed`): everything before it is stored.
Replicas only add to the tables, and an item a replica adds is in the prefix already or
the first one missing, so neither part is broken from outside. Of the users, `SInv` says that
one row at most has the email (`EmailOnce`), and that a replica past the look-up goes on with a
row that exists (`HasRow`) and, past the assignment, has the role; `UsersKept` is what no
step takes back, the routes' neither: a row stays, a role stays. `DeletedAdminBlocks` is a property of the rest of
a behaviour: its proof shows that `Blocked` (an admin email, a deleted row and a replica in
an early stage) is kept by every step from there on.

Assumptions on constants: `SentinelAssumption`, `MaxVersionAssumption`,
`RolePermsAssumption`, `EmailsAssumption`, `HandlerSentinels`, `NoEntryAssumption`,
`QueueSizeAssumption`, `FiniteAssumption`, `ThreatAssumptions`,
`ServerAssumptions`, `ProcsAssumption`, `LimiterAssumptions`, `MaxIdAssumption`,
`PlanAssumption`, `MaxTroubleAssumption`, `FaultsAssumption`. TLC evaluates each of them.

Only model-checked: what needs fairness (`LogoutTakesEffect`,
`BarringTakesEffect`, `ImplementsFairTrail`, `DrainEnds`, `LimiterEvicted`,
`StartsInTheEnd`), since liveness is out of the prover's reach. Every invariant and every
other action property of a passing run is a theorem.

## 5. Not modelled

- Contents: passwords and their hashes, signatures, JSON, logging, metrics,
  status codes and error texts. Random generation, token signing and
  JSON encoding of sessions cannot fail on the values the service gives them.
  The mapping of a duplicate email to an internal error (`users/service.go:224`)
  changes a status code and nothing else.
- Binding of payloads and path parameters: a request that fails it reaches no
  handler of the models.
- A corrupt Redis value (parse errors): nothing in the repository writes one.
- Redis and PostgreSQL themselves: atomic single-key commands, atomic
  statements. Failover and replication lag are outside the code; so is what
  `AutoMigrate` does to a schema.
- List and Get queries: they change nothing.
- Of updates of threats that race, which fields survive: a later UPDATE writes the
  columns of the copy it read, and nothing in the repository promises otherwise.
- In the seeder: the password and the token version that its activation writes back
  (`version_rollback` shows the effect of the latter; the email it writes back is
  modelled), and a password bcrypt refuses, which ends the start like an empty one.
- In `main`: errors of the listener, the Redis client (its constructor pings and
  ignores the answer), and the order of deferred closes.
- Time: buckets refill, limiters are evicted and keys expire at any moment.

## 6. Plan

1. Done: the modules of section 2 and the proofs of section 4.
2. Left to prove: under which updates `RetiredForGood` holds in `Accounts` too, as
   `LogoutIncrements` fails only through `Update`; that `RateLimiter`'s bound is
   reached, which only a run can show.
3. Left to model: the error mapping of the users handlers, once something in the
   repository says what a duplicate email should answer.
