# Verification of the hazardous waste transfer compliance system

This directory holds TLA+ specifications of the system, TLC configurations that
check them on small instances, and TLAPS proofs of their most important
properties. Paths below are relative to the repository (`src/`); `internal/`
stands for `backend/internal/`.

## 1. The system

A Go backend (Gin, GORM, PostgreSQL/MySQL/SQLite, Redis) keeps four kinds of
records: generators of waste with a permit, carriers with a licence, manifests
of transfers that name one generator and one carrier, and compliance checks
that name one manifest. An Angular page in the browser lists, creates and moves
them. Every record has a code, a status that follows a graph, and a version.

| component | state | operations | talks to | hard because | what makes it correct |
|---|---|---|---|---|---|
| status graphs, `constants/status.go` | none | `CanTransition` | every service | two copies, one in the browser | both copies agree |
| store, `repository/base.go` | four tables, `audit_logs` | `Get`, `FindByCode`, `CreateAudited`, `UpdateAudited`, `DeleteAudited` | the database | whole rows written back, guarded by a version the client sends; delete not guarded at all | no write is lost; row and audit entry go together |
| generator service, `service/waste_generator.go` | none of its own | create, update, transition, delete | store | expiry compared with a clock that runs on | an expired permit is not activated |
| carrier service, `service/carrier_profile.go` | none | same | store | same | an expired licence is not verified |
| manifest service, `service/transfer_manifest.go` | none | same, and `validateLinkedParties` | store, three tables | reads of three rows, then a write of one, in separate transactions | submissions and dispatches rely on parties in good standing; submitted manifests are kept as they are |
| check service, `service/compliance_check.go` | none | same | store, two tables | reads the manifest before it decides | a rejected manifest does not pass; decided checks are kept |
| audit trail, `service/security.go`, `repository/security.go` | `audit_logs` | append, list, summary, history | store | written beside each change; ordered by a time stamp taken earlier; a summary takes several queries | one entry per change, the statuses it names are the real ones, a history reads as the record's story |
| authentication and roles, `middleware/auth.go` | tokens held by clients | login, authenticate, require role | users table | a token outlives changes to its user | a lost role ends with the token at the latest; the browser offers what the routes allow |
| rate limiter, `middleware/ratelimit.go` | counters in Redis or in memory | count, reset at the minute, fall back | Redis | two places to count, a window that moves between two reads of the clock | at most `limit` requests of a key are served in a window |
| start-up, `cmd/server/main.go`, `database/database.go` | tables | open, migrate, seed, serve, stop | database, Redis | crash between two seedings, start over a used database | tables are seeded once and as a whole, and what clients did in between stays |
| workbench, `frontend/src/stores/factory.ts`, `components/entity-page.component.ts` | items, page, pending dialog | load, create, transition, page | the API | answers out of order or lost, stale rows confirmed, confirmed twice | what is shown was true, what is confirmed is what happens, the spinner goes away |
| browser session, `hooks/use-auth.ts`, `api/client.ts` | signal and stored session | restore, login, logout, 401 | the API, the other tabs | answers arrive late over a store that other tabs share; any 401 clears it | identities are not mixed, a logout lasts, no loading screen is stranded |
| configuration, request ids, logging, rendering, deployment | none that changes | | | | not a matter of behaviour over time |

Requests are goroutines that share nothing but the database, so the behaviour
that is hard to test is what happens *between the database calls of one
request*. That is what the core of this project models. The browser adds a
second kind: what happens *between a request and its answer*, when the user,
other tabs and other people go on.

## 2. Modules

```
StatusGraphs ── RecordStore ─┬─ WasteGeneratorService ─┐
      │                      ├─ CarrierProfileService ─┤
      │                      ├─ TransferManifestService┼─ Compliance ─┬─ WorkbenchStatus ── MCCompliance ─┐
      │                      └─ ComplianceCheckService ┘      │       ├─ AuditedTransactions ── AuditTrail ┴─ MCTransactions
      │                                 RecordLedger ─────────┤       └─ ComplianceProofs ─┬─ RecordProofs (and WorkbenchStatus)
      │                                     (INSTANCE: refinement)                         └─ TransactionsProofs (and AuditedTransactions)
      │
      └─ Workbench ─┬─ MCWorkbench
                    └─ WorkbenchProofs

RecordProofs, TransactionsProofs, AuditTrail ── TrailProofs

Access ── BrowserSession ─┬─ MCSessions
                          └─ SessionProofs

Startup ─────┬─ MCStartup                  RateLimiter ─┬─ MCRateLimiter
             └─ StartupProofs                           └─ RateLimiterProofs
```

The start-up ends before the first request comes in and the limiter stands in
front of the handlers without looking at a record, so neither is composed with
the services: `RecordStore` begins with any set of seeded rows, and a request
the limiter refuses is one that was never sent. Roles, too, only take requests
away from the services, so `Access` is composed with the browser, which goes by
roles as well, and not with `Compliance`. `Workbench` takes a write for one
step, which `AuditedTransactions` and `Compliance` justify.

* **StatusGraphs**: the four graphs as sets of edges, the initial statuses.
* **RecordStore**: the tables (`rows`), the audit entries of each record in
  commit order (`audit`), the requests in progress (`req`), the clock (`now`),
  and the steps every service is made of. A record is named by its code:
  codes never change and the unique index covers soft-deleted rows, so a code
  and the row's id stand for each other.
* **WasteGeneratorService**, **CarrierProfileService**,
  **TransferManifestService**, **ComplianceCheckService**: one action per
  operation of each service. An action stands for the handler up to and
  including its first read (`Get`) and its checks; queries for linked records
  are actions of their own (`FindGenerator`, `FindCarrier`, `FindManifest`).
* **Compliance**: the four services over one database, the properties.
* **AuditedTransactions**: the same services with their transactions taken
  apart: the stamp of the audit entry, the row statement with its lock, the
  audit insert, commit or roll-back. It implements `Compliance`, which is its
  abstract specification.
* **AuditTrail**: the histories and summaries read from the audit entries while
  those transactions go on.
* **RecordLedger**: what the services promise of one record, with no request in
  sight. `Compliance` instantiates it once per record.
* **WorkbenchStatus**: the browser's copy of the graphs.
* **Workbench**: the manifests page over its store: loads, creations,
  transitions with their dialogs, in front of a table others change as well.
  The others may send any version, also one that runs ahead of what they read
  (`Overwrite`), and a deletion may hit any status (`Remove`).
* **Access**: users, roles, tokens, and the role each route asks for.
* **BrowserSession**: the session in `localStorage` and in each tab, with
  restore, login, logout, work, and the answers to them.
* **Startup**: the server from `main` to `ListenAndServe` and down again, over
  a database that outlives it; each statement of `Open` and `Seed` is a step,
  and it may be stopped between any two. Requests appear only as what they do
  to the set of live rows.
* **RateLimiter**: the middleware with its two places to count, the clock, and
  the histories (`admitted`, `lost`) the properties speak about.
* **ComplianceProofs** (types and the lock), **RecordProofs** (what the records
  do), **TransactionsProofs** (the statements), **TrailProofs** (histories and
  summaries), **StartupProofs**, **RateLimiterProofs**, **WorkbenchProofs**,
  **SessionProofs**: the theorems.
* **MCCompliance**, **MCTransactions**, **MCStartup**, **MCRateLimiter**,
  **MCWorkbench**, **MCSessions**: small instances for TLC.

### State and code

| model | code |
|---|---|
| `rows[x]` | the row of code `x`; `phase` is `absent` (no row), `live`, or `deleted` (`deleted_at` set) |
| `.status`, `.version` | the columns of `BaseModel` |
| `.expiresAt` | `PermitExpiresAt` / `LicenseExpiresAt` |
| `.generator`, `.carrier`, `.manifest` | `GeneratorCode`, `CarrierCode`, `ManifestCode` |
| `audit[x]` | the `audit_logs` rows with that entity id, in commit order: action, before, after |
| `req[r].pc` | the next database call of the goroutine in slot `r` |
| `req[r].row` | the Go variable `current` (or `item`) it will write back whole |
| `req[r].expected` | `ExpectedVersion` of the request body |
| `req[r].before` | the status read, which goes into the audit entry |
| `now` | `time.Now()` |
| `AuditedTransactions`: `tx[r]` | how far the closure given to `Transaction` has come for the goroutine in slot `r`, and the `CreatedAt` its entry will have |
| `AuditedTransactions`: `stamps[x]` | `created_at` of the committed entries of `x`, beside `audit[x]` |
| `AuditTrail`: `summary` | the `AuditSummary` that `SummarizeAudits` has filled in so far |
| `Workbench`: `rows` | the manifests table: status and version |
| `Workbench`: `items`, `loading` | `EntityState` of the store |
| `Workbench`: `pending`, `showCreate` | the fields of the page that open its two dialogs; `pending` holds the row object it was opened with |
| `Workbench`: `call[c]` | a call of `load`, `createRecord` or `transition` that awaits an answer: `stage` says which of its two requests |
| `Workbench`: `past` | history: the status of a manifest at each version |
| `Access`: `account[u]` | `Role` and `Active` of a user; `lost` is history |
| `BrowserSession`: `stored` | the item `domain-control-session` of `localStorage` |
| `BrowserSession`: `session[t]`, `loading[t]` | the signals of `AuthService` in tab `t` |
| `BrowserSession`: `call[c]` | a `fetch` under way: who sent it, the token in its header, its outcome |
| `BrowserSession`: `foreign` | history: the tabs that have not looked at the store since another tab saved to it |
| `Startup`: `phase[c]` | whether code `c` has no row, a live row or a soft-deleted one |
| `Startup`: `pc`, `next`, `attempt` | where `main`, `Open` and `Seed` are, and the loop variable of `Open` |
| `RateLimiter`: `redis[k][m]` | the counter `rate:<minute>:<key>` |
| `RateLimiter`: `local[k]` | the `bucket` of a key in `Limiter.local` |
| `RateLimiter`: `req[r]` | a goroutine in the middleware: about to ask Redis, about to take the mutex, or writing its 429 |

`pc = "commit"` is the audited write. In `Compliance` a transaction is one
step; `AuditedTransactions` takes it apart and shows that this is right
(`CommitsAreOneStep`): the statement that changes the row carries its whole
condition (`id`, `version`, `deleted_at IS NULL`) in its `WHERE` clause and
locks the row, a second writer waits and then looks at the row as committed,
and neither row nor entry is seen before the commit. A request that is refused before it has written anything
changes nothing, so a refusal on the first read is the absence of a step. After
a successful update the service reads the record again for its answer; that
read is the action `Reply`.

`Abort` is the client going away (`c.Request.Context()` is cancelled), the
database refusing a statement (a second record with the same permit number, for
instance), or the death of the process: in all of them the transaction rolls
back and the goroutine is gone. Rows and audit entries survive it, requests do
not, so a restart is all requests aborting.

In `AuditedTransactions` a transaction takes its stamp (`Begin`: `newAuditLog`
is evaluated as an argument, before `Transaction` opens one), changes its row
(`ChangeRow`, waiting while another transaction has the row locked), inserts
its entry and commits; `RollBack` may end it at any point. Locks are those of
PostgreSQL at READ COMMITTED and of InnoDB; the one writer at a time of SQLite is a
special case. `AuditTrail` lets `SummarizeAudits` count between any two of
these steps, one query per step.

In `Workbench` and `BrowserSession` a JavaScript handler up to its next `await`
is one action, and what follows the `await` another. Requests and answers are
slots: the server serves a slot once, in any order, or `Fail` stands for a
refusal or a loss on the way there; a commit may also be answered with a
failure, which stands for a lost answer and for the `Get` after the commit
that fails. A page load drops the fetches of its tab. In
`BrowserSession` the user can do nothing in a tab that shows the loading screen
but load it anew. What the other tabs, other people and the administrator of
the users table do happens at any time.

The action that reads a record also reads the clock. The code takes the time a
little after the read; since a date that is still ahead of the later instant is
ahead of the earlier one too, every request the code lets through the model
lets through.

In `Startup`, the rows of one seeding are one `INSERT` and appear together or
not at all; a code that a live *or deleted* row has makes it fail, and with it
the start. `Exit` stands for everything that ends a process: a failing
statement, the start-up deadline, Redis not answering, a signal, a crash. A
delete may hit any live row although the services refuse some; that only adds
behaviours.

In `RateLimiter`, `INCR` and `EXPIRE` are one `MULTI` and one step, and the
answer to it may be lost after it took effect. Everything under the mutex is
one step. The counter of a minute is not expired: its two minutes are longer
than a goroutine that read the clock waits for Redis, whose client gives up
well within a minute (`minute <= window + 1` in `RedisCounts`). The headers of
the answer are not modelled.

Left out as data: names, texts, quantities, evidence, `DecisionBasis`,
`UpdatedAt`, the actor and request id of an entry; required-field checks (they
refuse a request before anything happens); list, get and count requests, which
only read. In `Compliance` every request may come from anyone: roles only take
behaviours away.

## 3. Properties

They speak about what several requests, or several lives of the server, do to
each other.

* `NoLostUpdate` (invariant): as long as the write of a request can still
  succeed, its row differs from the row on record only in what the request
  means to change. This is optimistic locking; the stale rows are there, but
  doomed.
* `KeepsLedger` (refinement): every record moves by the steps of
  `RecordLedger` only: created once in the initial status, edited without a
  change of status, advanced along an edge, deleted for good, each with exactly
  one audit entry that names the true statuses, and the version counted up by
  one per write. A deletion compares no version, so its entry may name an old
  status, but only one that the record has had.
* `FrozenLinks`: once a manifest has left draft or a check has been decided,
  no step changes whom or what it names, although `Update` looks at the status
  long before it writes.
* `RetentionHolds`: a submitted manifest or decided check for which no delete
  is under way stays on record, and no delete gets under way for it.
* `RevocationHolds`: once a party is expired or deleted and the submissions
  and dispatches that had already cleared it have left, it stays out and no manifest that names
  it is submitted or dispatched.
* `LapseHolds`: a generator or carrier out of date and out of good standing
  does not come back except through an update with a new date.
* `RejectionHolds`: once a manifest is rejected or deleted and the passes that
  had already read it have left, no check of it passes.
* `CommitsAreOneStep` (refinement): the statements of a transaction implement
  the step that `Compliance` makes of them.
* `HistoryInOrder`: the stamps of the entries of a record, taken before their
  transactions and before any waiting for a lock, still follow the order of the
  commits, except for deletions, which compare no version.
* `HistoryIsAStory`: what `EntityHistory` lists of a live record begins with
  its present status, and each entry starts where the next one down ended, as
  long as no two entries bear the same time (the query orders by time alone).
* `SummaryMissesNothing`: the figures of a summary are of different moments,
  but a later one never misses an entry that an earlier one counted.
* `EveryRequestIsAnswered` (liveness): every request in progress ends,
  conflicts and waits for a row lock included.
* `SeededAsAWhole`: no start that is cut short leaves a table half seeded;
  the next one would look at the count only and never add the rest.
* `SeedLinksResolve`: a row that a seeding adds finds the rows it names on
  record, although each table is seeded by a transaction of its own, perhaps by
  a later start, when rows it names could have been deleted.
* `StartsKeepRecords`: a start takes nothing back that clients did through an
  earlier one.
* `ServesAgain` (liveness): whatever interrupts it, the server serves again,
  or all rows of a table were deleted at some time.
* `AdmittedWithinLimit`: no place admits more than `limit` requests of a key in
  a window, however often Redis fails or its answer is lost, whatever memory
  forgets and the minute does; Redis itself is taken to keep its counts. What a
  process admitted by memory counts for its own life only: a restart forgets it.
* `RefusedOnlyWhenSpent`: who is refused has used up that window of that key.
* `LeftoversAreBounded`: memory holds more than 512 keys only as far as they
  all belong to one window.
* `StaleButTrue`: whatever the page shows, asks to be confirmed or has on its
  way was in the table at some time.
* `AppliedAsShown`: a transition that the server commits for the page takes the
  manifest from the status the dialog showed to the one it named, however often
  it was confirmed and whatever was loaded, lost or done by others meanwhile.
* `ReadYourWrites`: when a transition and its reload are over the page shows
  the manifest later than the dialog did, or not any more.
* `SpinnerMeansWaiting`, `SyncEnds` (liveness): the synchronising message is
  shown only while something is under way, and goes away.
* `IdentityIsTheTokens`: no session joins one user's token with another's
  name or role, although `restore` writes back what it read before its `await`.
* `OffersAreHonoured`: what a tab offers, the routes allow the token it would
  send, unless another tab has saved a session since the tab last looked.
* `RevokedWithinTTL`: nobody is served in a role lost `TOKEN_TTL` ago or longer.
* `LogoutLasts`: a logout clears the store too, and no tab that still shows the
  old session brings it back; only a restore or login already under way can.
* `LoadingIsAwaited`: the loading screen, which hides everything else, is shown
  exactly while the answer that ends it is on its way.

`RetentionHolds`, `RevocationHolds`, `LapseHolds` and `RejectionHolds` say
precisely how much of the plain promise survives the gap between check and
write: the requests that are already past the check are the only ones that can
break it. The plain promises are checked too, and fail (section 5).

## 4. Runs

The runs of the services use `MCCompliance` (`transactions` uses
`MCTransactions`) with two requests in flight, which is what every race of this
code needs: all properties speak about one request against the
rest, and a third request only repeats what a second may do at another time.

| run | instance | checks | shows |
|---|---|---|---|
| `manifests` | one draft manifest (4 versions: relink, submit, dispatch, receive or reject), two generators of which one is created meanwhile, one carrier, clock stopped | `TypeOK`, `NoLostUpdate`, `FrozenLinks`, `RetentionHolds`, `RevocationHolds` | edits, submissions, dispatches and deletes race, parties are deleted under them |
| `standing` | a restricted generator, a pending carrier and a draft that names both, each with a second version and a deletion, clock to the expiry date | `RevocationHolds`, `LapseHolds` | reinstatement, verification, expiry, renewal and deletion of both parties race with the submission of a manifest and with the clock |
| `reviews` | two submitted manifests, one check (3 versions: relink, decide, escalate) | `KeepsLedger`, `FrozenLinks`, `RetentionHolds`, `RejectionHolds` | decisions race with rejections, relinks and deletes |
| `transactions` | fair requests, statement by statement; one submitted manifest, one check that is created, then relinked or decided or deleted, a summary, clock to 1; no symmetry | `HistoryInOrder`, `HistoryIsAStory`, `SummaryMissesNothing`, `CommitsAreOneStep`, `EveryRequestIsAnswered` | two writers meet at a row lock, roll back or commit, with stamps from before the wait |
| `retention`, `rejection`, `running_ahead`, `mirror` | as small as their counterexamples need | one property each | expected violations, section 5 |
| `startup` | five tables, one of them with two seeded rows and one a client may add; seeded rows that name each other as those of the code do; fair starts | `TypeOK`, `SeededAsAWhole`, `SeedLinksResolve`, `StartsKeepRecords`, `ServesAgain` | starts are cut short anywhere and repeated over tables in any condition |
| `limiter` | three keys, two requests in flight, limit 1, memory cleaned from two keys on, two minutes, Redis that counts, fails or loses its answer | `TypeOK`, `AdmittedWithinLimit`, `RefusedOnlyWhenSpent`, `LeftoversAreBounded` | failover, the turn of the minute, the cleanup and restarts in any order |
| `sessions` | two tabs, two requests in flight, a reviewer who may be demoted or deactivated, a viewer; tokens that live for one instant, clock to 1 | `TypeOK`, `IdentityIsTheTokens`, `OffersAreHonoured`, `LoadingIsAwaited`, `RevokedWithinTTL`, `LogoutLasts` | restores, logins, logouts and 401s of two tabs overlap while tokens expire and roles are lost |
| `workbench` | one manifest, created by the page or by others (3 versions), two requests of the page in flight; fair answers; no symmetry | `TypeOK`, `StaleButTrue`, `SpinnerMeansWaiting`, `AppliedAsShown`, `ReadYourWrites`, `SyncEnds` | overlapping loads, a dialog confirmed twice or after a lost answer, dialogs opened while others are under way |

Bounds. `MaxVersion` bounds the expected versions a client sends and with them
the writes of a record; each run gives its records enough versions to walk the
longest path the properties speak about. `MaxTime = 1` with expiry dates 0..2
puts a date before, at and after the clock. A client sends any version up to
the current one (`Ahead = 0`); `running_ahead` lets it send later ones. Codes are created once, so
deleting and creating again is refused, as the unique index refuses it. Slots
of requests are interchangeable and no property names one, so they are a
symmetry set, except in the run with liveness.

In `startup`, `MaxAttempts = 2` stands for 20 attempts (one that is repeated
and one that gives up), and `MaxInterruptions = 3` lets three starts be cut
short, which reaches every combination of a stop before a seeding, one after
it, and one while serving. When a table was emptied the server can only start
and fail, and when interruptions are used up and every row is gone a serving
server may have nothing left to do, so deadlock is not checked there. In
`limiter`, two minutes give an old and a current window, three keys are one
more than the capacity, and a limit of 1 with three requests a minute lets one
request be admitted, one refused, and one be counted in the other place.

In `transactions` two writers of one row are what a lock is about, and a check
with its creation, one change and its deletion is the shortest record on which
they can meet; it gives histories of up to three entries. In `sessions` two tabs are one that acts and one that
interferes, and a token that lives for one instant is valid at the first and
expired at the second; only one request of a tab can be a restore or a login,
so a second slot lets the other tab, or older work, overlap with it. In
`workbench` every property is about one manifest, two requests overlap in every
way two can, and three versions put two writes, one of the page and one of
others, after the row that a dialog shows. What lies beyond these bounds is
covered by the theorems of section 6.

Fairness. `TxFairness` of `AuditedTransactions` asks weak fairness of `Work(r)`,
since the goroutine of a request in progress is scheduled and the database
answers its calls, and strong fairness of `ChangeRow(r)`: who waits for a row
lock gets it if the lock is free again and again, as the lock queues of the
databases see to. Nothing in the code waits for another request otherwise.
Nothing is assumed of clients, of the clock, or of roll-backs. `Fairness` of
`Workbench` asks weak fairness of `Serve(c)` and `Deliver(c)`: a `fetch` is
answered or fails, and the code after its `await` runs; nothing is assumed of
the user or of other people. `BrowserSession` has safety properties only. `FairSpec` of `Startup` asks weak fairness of `Boot`: the
container is started again (`docker-compose.yml` 63, `restart:
unless-stopped`) and a process that nothing interrupts goes on; interruptions
are finite in number, as `ServesAgain` could not hold otherwise.

## 5. Where the code and its documents disagree

1. `retention`: `Delete` checks the status and deletes by id in another
   transaction (`service/transfer_manifest.go:142-145`,
   `internal/repository/base.go:122`). A manifest submitted in between is
   deleted. README line 44 and the message "submitted manifests must be
   retained for compliance" say otherwise.
2. `rejection`: a pass may commit after its manifest was rejected
   (`service/compliance_check.go:112-127`); the router test says "a rejected
   manifest must not pass".
3. `running_ahead`: the expected version is compared with the row on record by
   the `UPDATE` only, never with the row that was read. A request that expects
   the *next* version validates its step against the old status and then
   commits over the new one (`service/transfer_manifest.go:129-131`), so a
   manifest leaves its graph (README line 43).
4. `mirror`: `frontend/src/types/status.ts` offers `pending -> expired` for
   carriers and `pending -> escalated` for checks; `constants/status.go`, which
   says the two are mirrored, has neither.

More that the models show and no document of the repository denies: a deployment in which all rows of a table were deleted does not start again,
because the count of `Seed` skips deleted rows and the unique index does not
(`Emptied` in `Startup`; `ServesAgain` is stated around it); and a client that
Redis fails in mid-window may be admitted up to the limit by Redis and once
more up to the limit by memory, since neither knows the other's count. Any 401
clears the stored session, also one that answers a request sent under an
earlier token, so a late answer may log out a session that another tab has just
begun (`DeliverWork`). After another tab has logged in as somebody else, a tab
offers by one role what it sends under the other's token, until it is loaded
anew; README line 41 says that middleware, guards and buttons agree, and
`OffersAreHonoured` is stated around this (`foreign`). The answer to an older
search may replace that to a newer one. A transition or creation that ends
closes whichever dialog of its kind is open by then, also one opened since. A
reload after a write asks for the first page and no search, whatever the page
was showing. A creation whose answer was lost is made again under a new code.

## 6. Proofs

For every set of codes, seeds, clients and keys, any number of requests in flight, and every bound:

| theorem | module | states |
|---|---|---|
| `Invariance` | ComplianceProofs | `Spec => []IInv`, the inductive invariant |
| `TypeCorrect` | ComplianceProofs | `Spec => []TypeOK` |
| `NoUpdateIsLost` | ComplianceProofs | `Ahead = 0` implies `Spec => []NoLostUpdate` |
| `TheHonestAreProtected` | RecordProofs | `Spec => LockProtectsTheHonest` |
| `WritesAreCounted` | RecordProofs | `Spec => EveryWriteIsCounted /\ []VersionsCountEntries` |
| `TheCopyIsOffByTwoSteps` | RecordProofs | what the browser offers, against what the services accept |
| `LinksAreFrozen` | RecordProofs | `Ahead = 0` implies `Spec => FrozenLinks` |
| `NoEntryInventsAStatus` | RecordProofs | `Spec => []EntriesStateThePast` |
| `RecordsKeepLedger` | RecordProofs | `Ahead = 0` implies `Spec => KeepsLedger` |
| `WhatIsFrozenIsRetained` | RecordProofs | `Ahead = 0` implies `Spec => RetentionHolds` |
| `RejectionIsFinal` | RecordProofs | `Ahead = 0` implies `Spec => RejectionHolds` |
| `RevocationIsFinal` | RecordProofs | `Ahead = 0` implies `Spec => RevocationHolds` |
| `LapseLasts` | RecordProofs | `Ahead = 0` implies `Spec => LapseHolds` |
| `StartupTypeCorrect` | StartupProofs | `Spec => []TypeOK` |
| `TablesAreSeededAsAWhole` | StartupProofs | `Spec => []SeededAsAWhole` |
| `SeedLinksAlwaysResolve` | StartupProofs | `Spec => SeedLinksResolve` |
| `StartsAlwaysKeepRecords` | StartupProofs | `Spec => StartsKeepRecords` |
| `TxInvariance` | TransactionsProofs | `TxSpec => [](IInv /\ TxInv)` |
| `TransactionsRefineCommits` | TransactionsProofs | `TxSpec => CommitsAreOneStep` |
| `HistoriesAreInOrder` | TransactionsProofs | `Ahead = 0` implies `TxSpec => []HistoryInOrder` |
| `HistoriesReadAsStories` | TrailProofs | `Ahead = 0` implies `TrailSpec => []HistoryIsAStory`, for every limit of the listing |
| `SummariesMissNothing` | TrailProofs | `TrailSpec => []SummaryMissesNothing` |
| `StatementsKeepThePromises` | TrailProofs | `Ahead = 0` implies that `TrailSpec` keeps `NoLostUpdate`, `KeepsLedger`, `FrozenLinks`, `RetentionHolds`, `RejectionHolds`, `RevocationHolds`, `LapseHolds` |
| `LimiterTypeCorrect` | RateLimiterProofs | `Spec => []TypeOK` |
| `LimitIsKept` | RateLimiterProofs | `Spec => []AdmittedWithinLimit` |
| `RefusalsAreJustified` | RateLimiterProofs | `Spec => []RefusedOnlyWhenSpent` |
| `LeftoversDoNotPileUp` | RateLimiterProofs | `Spec => []LeftoversAreBounded` |
| `Invariance`, `TypeCorrect` | WorkbenchProofs | `Spec => []IInv`, `Spec => []TypeOK` |
| `NothingShownIsWrong` | WorkbenchProofs | `Spec => []StaleButTrue` |
| `NoSpinnerIsLeftBehind` | WorkbenchProofs | `Spec => []SpinnerMeansWaiting` |
| `ConfirmedIsApplied` | WorkbenchProofs | `Spec => AppliedAsShown` |
| `WritesAreRead` | WorkbenchProofs | `Spec => ReadYourWrites` |
| `Invariance`, `TypeCorrect` | SessionProofs | `Spec => []IInv`, `Spec => []TypeOK` |
| `IdentitiesAreNotMixed` | SessionProofs | `Spec => []IdentityIsTheTokens` |
| `OffersHold` | SessionProofs | `Spec => []OffersAreHonoured` |
| `NoScreenIsStranded` | SessionProofs | `Spec => []LoadingIsAwaited` |
| `RevocationReachesEveryToken` | SessionProofs | `Spec => RevokedWithinTTL` |
| `LogoutIsFinal` | SessionProofs | `Spec => LogoutLasts` |

Assumptions on the constants: the code sets are disjoint (`CodesDisjoint`), the
bounds are natural numbers (`BoundsAreNaturals`), the seed consists of absent
rows and of live rows with version 1 (`SeedIsCommitted`). `Ahead = 0` is the
assumption that no client sends a version the record has not had; run
`running_ahead` shows that it cannot be dropped. What needs no such assumption
is said by `TheHonestAreProtected` (the requests that do not run ahead
themselves are safe from those that do), `WritesAreCounted`,
`NoEntryInventsAStatus` and `SummariesMissNothing`. The properties
`LockProtectsTheHonest`, `EveryWriteIsCounted`, `VersionsCountEntries` and
`EntriesStateThePast` are stated in `RecordProofs` and have no run: with
`Ahead = 0` they follow from `NoLostUpdate` and `KeepsLedger`, which have.

The argument. `TypeOK` is not inductive, because a commit writes what a request
carries. `IInv` adds `InOrder`, what a request in progress knows by itself (its
record exists, its row has the version it expects plus one, its step is an edge
of the graph, it read a draft or a pending check if it edits one), and `Locked`,
the heart of the matter: the version a request expects is never ahead of the
record, and *while it is level with it* the request's row was made from the row
on record. Versions only grow, so one foreign write puts a request behind for
good. `Locked` is what `NoLostUpdate` and both step theorems follow from. There
is one lemma per kind of step; the lemmas about commits carry the weight.
`RecordProofs` then classifies every step as an insert, an update or a deletion
of one record and maps each to `RecordLedger`. For what is checked before a
write and relied on after it, it needs one more invariant, `Placed` (only
requests for manifests look for parties, only those for checks for a manifest),
and a lemma, `Fate`, that says what a step can make of one request; the four
theorems about standing then ask of each step whether it is the commit that the
property forbids, and find that such a commit would need a request that the
property's premise excludes. `TheHonestAreProtected` is `Locked` once more, for
one request instead of all: it is established by the read, and another's write
either keeps it or puts the request behind, however far the writer ran ahead
(`LockStays`). `WritesAreCounted` reads the same classification as
a count. `Noted` says that the status of every record and the status that a
request in progress read are among those the record has had so far, a set that
only grows (`HadGrows`); `NoEntryInventsAStatus` and the deletions of
`RecordsKeepLedger` follow from it. `TheCopyIsOffByTwoSteps` compares the two copies of the graphs, edge by
edge: `mirror` shows that they differ, the theorem that they differ in the two
steps named in section 5 and in nothing else, and in the direction that only
offers in vain.

`TransactionsProofs` rests on the lock. `TxInv` says that the condition a row
statement found still holds as long as its transaction has the row locked, and
that two requests never have the same row locked; so the commit finds the row as
the statement did and is the commit of `Compliance`, and every other step is a
stutter or a step that `Compliance` has. All theorems about `Compliance` thus
hold of the statements. For `HistoriesAreInOrder`, `StampInv` says that a
request that can still write was stamped no earlier than any entry on
record: it read the row after the write before it, and the clock only goes on.

`TrailProofs` carries these results to the readers of the trail. `Linked` says
that each entry of a live record starts where the one before it ended and that
the last one ends at the row's status, which follows step by step from the
classification above; since the stamps follow the order of the commits, a
listing by time that is cut off anywhere, and that meets no two equal times, is
a tail of that chain read backwards. A history cut to any `limit` is covered, not
only the two entries of the run. For the summaries, each figure is the
cardinality of a finite set of entries that only grows while the window stays,
and `CountInv` says that no figure exceeds what its query would count now, so
the query for a later figure counts at least as much. `StatementsKeepThePromises` puts the theorems about
`Compliance` through the refinement.

`StartupProofs` assumes that codes are told apart (`TablesHaveCodes`), that a
seeded row names rows of earlier tables only (`LinksPointBack`), and that the
bounds are numbers (`AttemptsAreFinite`). `SInv` adds to the properties
`Untouched` (seeded rows are deleted only after every table was seeded) and
`Behind` (the tables before the one at hand have been seeded), which together
give `SeedLinksResolve`: the first seeding of a table is the last moment at
which nobody has served yet.

`RateLimiterProofs` assumes the limits are numbers (`LimitsAreNumbers`). Its
invariant `Counted` bounds what each place has admitted by the counter it
holds, and says that nothing has been admitted for a window still to come; the
cleanup keeps every bucket of the current window, so what it forgets is of the
past. `SpentInv` adds that a counter above the limit means the window is spent,
and `BucketsInv` that memory is finite, which the cardinalities in
`LeftoversAreBounded` need.

`WorkbenchProofs` assumes that seeded manifests are manifests
(`ManifestsOnRecord`), that versions are bounded by a positive number
(`VersionsAreBounded`) and that no row is `None` (`NoneIsNoRow`). The argument
is one fact about the table, `Grows`: versions only grow and a version never
changes its status. So what was true of the table stays true of its past
(`WasTrue`), wherever it travels; a compare-and-set that succeeds finds the
very version, and so the very row, that the dialog showed; and a list taken
after a commit is past it.
Nothing is assumed of the versions others send.

`SessionProofs` assumes that accounts have roles (`AccountsHaveRoles`), that
times are numbers (`TimesAreNatural`) and that `None` is no tab, user or token
(`NoneIsNothing`). Its invariant says of every token at rest or on its way that
its user still has the role or lost it only after the token was issued
(`Held`), that a tab no other has saved over shows what is stored
(`TabShowsTheStore`), and that a tab awaits one restore or login at a time
(`OneIsAwaited`), which is what keeps the loading screen and its request
together.

TLC only: the liveness properties `EveryRequestIsAnswered`, `ServesAgain` and
`SyncEnds`. They rest on fairness and so on `ENABLED`, which the prover does not
handle. Every other property of a passing run is a theorem. What the expected
violations show needs no proof.

## 7. Not modelled

* Of the audit trail: `ListAudits` and its search, the unique actors and entity
  types of a summary (counted like the rest), and windows that end: the clock
  of the instances is shorter than the shortest window, an hour.
* Of the workbench: the error text beside the dialog, leaving the page while a
  request is under way (the store outlives the page, so its answer is handled
  as if one had stayed), and the arithmetic of page numbers, which a load
  abstracts to the set of rows it asks for.
* Listings, counts and the overview: each is a query of its own that changes
  nothing.
* That a check can be decided at all is no property: every decision looks the
  manifest up, and a draft may be deleted while checks name it. A pending check
  of it can then only be relinked or deleted, and a failed one stays failed.
  The model does this; the repository promises nothing else.
* For good: configuration, request ids, logging, headers, rendering and
  deployment (no behaviour over time), the texts of records, passwords and
  signatures (taken as unforgeable), and the object store, which the compose
  file starts and no code calls.
