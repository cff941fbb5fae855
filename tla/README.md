# A verification project for jentic-mini

TLA+ modules that model the parts of jentic-mini where its own protocols live, TLC
configurations that check them on small instances, and TLAPS proofs of what matters
most for every instance. `PROJECT.json` ties every definition to the lines of source
it models, every property to a run, and every property of a passing run to a wrong
variant of the code that it refutes. Paths below are relative to `src/src/jentic_one/`.

## 1. The system

jentic-mini is one Python process or several, each serving some of five *surfaces*
over three databases (`registry`, `control`, `admin`; SQLite or PostgreSQL) and one
key-value state backend (in-process memory or Redis).

| component | state it keeps | operations | talks to |
|---|---|---|---|
| Access requests (`control/services/access_requests`) | `access_requests`, `access_request_items` | file, amend, withdraw, decide, reconcile | admin DB: bindings and grants; events |
| Toolkits and credentials (`control/services`) | toolkits, keys, credential bindings, permission rules, OAuth tokens, connect nonces | CRUD, bind, unbind, edit rules, connect flow | admin DB: purge of bindings; the broker reads the rules |
| Background jobs (`shared/jobs`, `admin/services/job_service.py`) | `jobs`, `job_results`, a worker loop a process | enqueue, claim, complete, fail, cancel, drain | import and execution handlers |
| Broker envelope (`broker/adapters/runners`, `shared/resilience/circuit.py`) | breaker counters and latch in the state backend | run, stream, retry, trip | upstreams |
| Broker request path (`broker/web`, `broker/services`) | the gate, token buckets, idempotency claims, three caches, execution records | admit, derive toolkit, evaluate rules, execute, record | all of the above |
| Credential refresh (`broker/services/credentials`) | `oauth_tokens` rows | refresh under a lock, expiry sweep | OAuth providers |
| Tokens (`auth/services`) | access and refresh tokens by family, authorization codes, used assertion ids | issue, rotate, revoke, exchange, mint | actors |
| Agents and service accounts (`auth/services`) | status, scope grants, toolkit bindings, API keys | register, approve, deny, disable, enable, archive, bind, replace scopes | tokens, access requests |
| Users (`admin/services`) | users, secrets, invitations, permission grants, the setup sentinel | set up, invite, redeem, log in, change password, grant | tokens |
| Registry (`registry`) | APIs, revisions, operations, URL index, overlays, notes, catalogue snapshot | import, promote, archive, delete, overlay, annotate, browse, search | import jobs; the broker's lookup |
| Records (`admin`, `shared/events`) | events, execution records, audit trail | emit, follow (SSE), list | every surface |
| Lists (`shared/pagination.py`, every repository) | none; a cursor at the client | page | databases |
| Migrations (`migrations`) | the schemas, `alembic_version` | upgrade, downgrade | databases |
| Sessions (`shared/db/session.py`) | none | transaction, commit with retry, run_in_transaction | databases |

What is hard about it:

- **Isolation.** On SQLite a write transaction starts with `BEGIN IMMEDIATE`, so
  transactions are serial. On PostgreSQL they run at READ COMMITTED, and most services
  read a row, decide, and write it back by primary key with no lock and no version.
- **Two databases, no common transaction.** Decisions are taken in the control DB and
  take effect in the admin DB; toolkit deletion spans both; an expiry is announced in one
  and marked in the other. Between the two commits a process may die.
- **Reads in a session of their own.** Handlers look first and open the transaction that
  writes later: logins, invitations, permission grants, conditional edits.
- **Work that outlives its process.** Jobs are claimed with a deadline, not a lock; keys
  are claimed with a time to live.
- **Shared state that expires.** Breaker counters, idempotency claims and cache entries
  vanish while somebody relies on them.
- **Cancellation.** Deadlines and disconnects cancel a request at any `await`.

What makes each component correct:

- *Access requests*: an item is decided once; the request's status is the aggregate of
  its items; an agent has only what an approved item gave it; a decision that reports
  success has been delivered, however often it was interrupted and repeated.
- *Jobs*: a job is processed by one worker at a time, ends, is not requeued beyond its
  budget, and keeps its result.
- *Envelope*: what is not safe to repeat is sent once; an open circuit admits nobody and
  opens again on time; every call ends.
- *Tokens*: one live refresh token a family; reuse kills the family; a code or an
  assertion buys one family.
- *Actors and users*: an archived agent has nothing and never comes back; administrators
  descend from the founder by grants of administrators; guesses are bounded.
- *Request path*: a key buys one upstream call while its claim lives and replays what was
  recorded; decisions are not staler than the cache allows; a bucket admits what its rate
  gives; no success of an execution is told that is not recorded, and what is recorded is told.
- *Credential refresh*: the stored refresh token is never lost by the code's own doing.
- *Registry*: one current revision an API, and it is the active one; no edit is lost.
- *Toolkits*: the broker decides as the editors' list says.
- *Lists*: a client that follows the cursor sees every row that was there all the while.
- *Migrations*: a database has the schema of its revision.

`PROJECT.json` lists the hazards behind these, each at its line.

## 2. Modules

| module | models | role |
|---|---|---|
| `Database` | `shared/db/session.py` as the services use it | the transactions under the identity, gateway and storage modules |
| `AccessRequests` | `service.py`, `effects.py`, the repositories and owner scoping; the toolkit operations that disturb them | detailed specification, one step a control transaction (SQLite), every step of phase 2 on its own |
| `AccessRequestsRC` | the same under PostgreSQL: each control transaction reads in one step and writes in another | extends `AccessRequests` |
| `ItemDecisions` | what access requests promise | abstract specification, refined by `AccessRequests` |
| `JobQueue` | `worker.py`, `enqueue.py`, `job_service.py`, start and stop of a worker in `app_factory.py` | specification |
| `JobLifecycles` | the life of a job, without deadlines, transactions and processes | abstract specification, refined by `JobQueue` |
| `UpstreamCalls` | deadline, retry, circuit breaker, HTTP outcomes, the atomic counters of the state backend | specification |
| `Actors`, `Tokens`, `Permissions`, `Users` | agents and service accounts; token families, codes, assertions, clients; the closure of permissions; people | parts of `Identity` |
| `Identity` | the admin database with all of them | composition |
| `Admission`, `LookupCaches`, `CredentialTokens`, `IdempotentCalls`, `Executions` | gate and rate limit; the three caches; OAuth tokens of a credential; idempotency keys; buffered, streamed and asynchronous calls with their records | parts of `Gateway` |
| `Revisions`, `Toolkits`, `Notes`, `EventStream` | revisions, pointer, URL index, overlay; keys, bindings and rules against the broker's evaluation; conditional edits; events and their followers | parts of `Records` |
| `IdempotencyKeys` | what an idempotency key promises, without its protocol | abstract specification, refined by `Gateway` |
| `Records`, `Gateway` | the records of the three databases; what a request of the broker goes through and rests on | compositions |
| `Listings` | the paged queries, their filters, services and routers | part of `Storage` |
| `MigrationScripts`, `SchemaMigrations` | the 58 scripts as statements; the runners that apply them | part of `Storage` |
| `Catalogue` | the cached manifest: reads that refresh it, lock, fetch, replacement, imports | part of `Storage` |
| `Sessions` | `transaction` and `run_in_transaction` of `shared/db/session.py`: begin, body, commit and its retry | part of `Storage` |
| `Storage` | schema, lists, catalogue and sessions | composition |
| `AccessRequestsProofs`, `JobQueueProofs`, `UpstreamCallsProofs`, `IdentityProofs`, `GatewayProofs`, `StorageProofs` | | theorems |
| `DatabaseProofs`, `RecordsProofs` | | lemmas the compositions share |
| `MC...` | | instances for TLC |

Definitions called "Wrong variant" are not part of a specification: each changes one
definition the way a plausible bug would, and a property must fail with it.

### Transactions

`tx[w]` is what worker `w` is doing: an operation, what it is on, what it read. `Look`
reads in a session of its own, `Begin` and `Open` start a transaction, which on SQLite
waits for the one writer (`MayBegin`), `Short` is a transaction of one step, `End` its
commit or rollback. Where PostgreSQL reads and writes in two statements without a lock,
the model has two steps; where the code locks the row (`FOR UPDATE`), the second waits
(`LockedByOther`).

### Access requests

`reqs` and `items` are the rows, `bindings` and `grants` the admin-DB rows of the one
agent, `serving` and `live` the catalogue a reference is resolved against. `decide()` is
the action `Decide` (its control transaction) followed by `List`, then for each un-acked
item `Resolve`, `WriteEffect`, `Ack` or `ItemFails`, then `EndPass` and `View`; `Crash`
may follow any of them. `DecideTxn`, `FileTxn`, `AmendTxn` and `WithdrawTxn` take the
snapshot the session has read, so that the same operator is one step in `AccessRequests`
and two (`Begin...`, `Commit`) in `AccessRequestsRC`. Toolkit items that name an API
instead of a toolkit (`ByRef`) resolve to whichever visible toolkit serves it at that
moment. Wording, names, rules on bindings and expiry are left out.

The refinement maps an item's status to a verdict, what it may resolve to into `asks`,
bindings and grants into `effects`, acknowledged items into `confirmed`. Every step of
`AccessRequests` is a step of `ItemDecisions` or leaves these unchanged; that verdicts are
final follows from it.

### Background jobs

A row is `status`, `visible` (the deadline: null, future, past) and `attempts`. `Claim`
is the single `UPDATE ... WHERE id = (SELECT ... LIMIT 1)` of `_claim_next`. Outcome
transactions read the row and write it by primary key: `ReadRow` separates the two when
`ReadCommitted`. `CompleteRaises` is the failed commit that `_tick` turns into a failure
of the job. Handlers are opaque: they return after their own transaction committed
(`performed`), or raise. `Drain`, `DrainReturns` and `Stop` are the shutdown of
`_stop_worker`. Parent and child jobs and retention are left out.

`JobLifecycles` has the same `status`, `attempts`, `results`, `performed` and `held`, and
neither deadlines nor `pc`: a job is taken by a worker only when it is in nobody's hands,
and delivered, returned, given up or let go of by the one who has it. That the deadlines,
counts and statuses of the rows are enough for it, through failed writes, crashes and
drains, is the refinement.

### Broker envelope

One upstream host, several calls. `pc` follows a call through the runners: `allow`
(breaker), `admitted` (bulkhead and connection), `flight`, the increments and the trip of
`record()`, `judge` (retry loop), `sleep`. Counters are a value and what is left of
their TTL; each operation of the state backend is one step, which is what the Lua
scripts of Redis and the single thread of the memory backend give. `Tick` passes one
unit of time. Backoff lengths, bodies and post-response stages are left out; a body over
the size cap is an outcome `lost`.

### Identity

`refresh` and `access` are the token rows in order of insertion, each of a family; a
rotation takes the row lock, consumes the row and inserts the next pair; a second use
revokes what the statement can see. `assertion` records lifetimes and uses against the
replay cache of one process (`Restart` empties it). `status`, `scopes`, `bound` are an
actor's; a verb is checked by a plain read and writes at the end of its transaction. Of a
user the model keeps whether it exists, is active, how many failures were counted, its
lock, its invitations and permissions.

### The broker's request

`Admission`: the requests an instance holds, and buckets that refill with time, where an
instance reads Redis' clock in a call before the one that spends; `admitted` is the history
of admissions up to each time. `LookupCaches`: one key
of one of three caches; a value is known by its age. `CredentialTokens`: refresh tokens
are pairs of the consent they come from and a number; the provider accepts the newest;
`spoiled` ones were rotated away by a refresh that could not be stored.
`IdempotentCalls`: a slot a caller and key, the claim, the runs made under it and which of
them are recorded. The refinement of `IdempotencyKeys` maps the runs to calls, what is
recorded to `kept`, the key's entry to the answer it would replay, the replays in hand to
`replies`, and the calls a key still allows to one more than its expiries less its runs. `Executions`: mode,
call, record, reply, job, events of one execution. The pipeline ends in a response, a
`BrokerError` (`broken`) or another error (`escaped`): `run_execution` records the first
two; the third rolls a buffered call back, and the handler of a job turns it into a failed
event and result without a record (`HandlerCatches`).

### Records

`Revisions`: the revisions of one API by digest, the pointer, the stored count, and the
URL index. `Toolkits`: an edit replaces or patches a list; rows keep sequence numbers;
`Permitted` is `evaluate_rules`. `EventStream`: an event has its time when it is flushed
and is visible when its transaction commits. `Notes`: a text is the set of its edits.

### Storage

`Listings`: a list is an order (by time, by time and id, by id, by rank) and whose rows it
holds; `ReadPage` returns some sequence in that order after the cursor. The 27 queries
differ in these two only, and each router, service and query has its own definition.
`SchemaMigrations`: a statement changes tables, parts of tables (columns, indexes,
restrictions) and references, needs what it refers to, and is refused by rows that break
what it adds. A migration is a transaction on PostgreSQL, except for an
`autocommit_block`; on SQLite each statement commits until the first that writes rows
opens a transaction. `torn` is the migration in the middle of which a run ended after a
part of it was committed. `Catalogue`: the snapshot is the time it was written; `excused`
marks a reader whose fetch failed, who left the refresh to another, or who was overtaken
between its two queries. `Sessions`: what services write is a version count, `landed`; a
call's body may fail, its commit be refused (a constraint), fail for a time, or be made and
its answer lost; the retry of a failed commit commits what the rollback before it left,
which is nothing.

## 3. Runs

| run | instance | states | shows |
|---|---|---|---|
| `access_requests` | one request, two items; either two reviewers, one toolkit, one catalogue change, or one reviewer, two toolkits (one bound before), two changes; unbounded failures and crashes | 1.1 M | `RequestCoherent`, `EffectsSound`, refinement of `ItemDecisions` |
| `access_requests_orphan` | one item, two toolkits, two catalogue changes | violation | an effect nobody accounts for |
| `access_requests_rc` | PostgreSQL, two items, three callers | violation | a verdict overwritten by the opposite one |
| `job_queue` | two workers, two jobs of two kinds, two claims, two faults, PostgreSQL | 165 k | safety, `EveryJobEnds`, refinement of `JobLifecycles` |
| `identity` | two workers; seven kinds of traffic; one agent, one service account, one code, one assertion, two families, three refresh rows, one restart; two people, threshold 2 | 484 k | families, codes, assertions, archival, administrators, guesses, invitations |
| `identity_reuse` | codes and rotations | violation | a family that outlives its revocation |
| `gateway` | two workers; nine kinds of traffic; three tokens of two consents, one key with two fingerprints and three runs, three lookups with TTL 3, one execution, two instances with one slot each and a burst of 2, two revisions sharing a URL, two credentials with two rules, one note, one follower | 600 k | everything the request path and the records promise, refinement of `IdempotencyKeys` |
| `gateway_index` | the registry | violation | the hot path answers from a draft |
| `upstream_calls` | a GET, a POST and a streamed GET, two at once, two attempts, window 1, cooldown 2 | 226 k | safety and `EveryCallEnds` |
| `upstream_calls_window` | one caller, window 3, up to five calls | violation | a ratio over two windows |
| `storage` | two transactions and a walk over three rows of two owners, pages of 1 or 2; every revision of every database, empty or in use, two runners, three starts, two completed migrations; two readers of the catalogue, three hours, maximal age 1; two callers of a transaction, two runs more of each, two commits | 1.6 M | `WalksComplete`, `SchemaOfRevision`, `CatalogueFresh`, `SessionsSound` |
| `storage_commit` | the callers of transactions | violation | a success that wrote nothing |

`MCIdentity`, `MCGateway` and `MCStorage` choose one *kind* of traffic for each behaviour.
The parts of a composition share the database and its write lock, but no row they both
decide on, so the states of the kinds add up instead of multiplying; an interleaving of
two kinds shows no part anything but waits. `clients` and `assertions` run together with
the actors whose status they depend on. What does not depend on the database (caches,
admission, toolkits) is explored on one; the lists on SQLite, where ranks of a search may
move.

Why the bounds are enough to be interesting. Two items are needed for a partial
decision and for a failure of one effect beside the success of another; two reviewers
for concurrent phase 2; one catalogue change for a reference that stops resolving, two for
one that means another toolkit than before, and a binding made by an operator because a
credential item is only accepted for a toolkit the agent is bound to. Two
workers and two claims a job give reclaims, the last claim, and an outcome that races a
cancellation; two faults let a crash follow a lost write. Two calls at once give two
concurrent trips, a retry that meets a circuit opened by the other, and a recovery
probe; a window shorter than the cooldown lets counters expire inside it. Three refresh
rows are a rotation of a rotation, which a late refresh can meet; two families show that
revoking one leaves the other. Two consents and three tokens let a connection race a
refresh and a sweep. Two fingerprints under one key with three runs give a conflict, a
lapse of the claim while it runs, and a replay of each. A TTL of 3 with loads of up to 2
lets a load begin before, and be stored after, the change it misses. Two revisions with a
shared URL are the smallest that can disagree in the index. Two rules and two sequence
numbers, with removal, make a number used twice possible. Three rows with pages of one or
two put a tie, a deletion and a late commit on every side of a cursor. Two completed
migrations are an upgrade and its downgrade, or two neighbours; every pair of neighbours
is explored because a behaviour may start at any revision. A maximal age of 1 in three
hours lets a snapshot be fresh, stale and refreshed again. Two runs more and one commit
more let a call be retried at both levels after another call committed. All the `Max...` constants are
guards of the actions they bound, and the only caps on counters. Deadlock is not checked
where the system may rest: everything decided, all jobs ended, all requests answered and
all keys expired.

**Fairness.** `JobQueue`: a worker loop keeps ticking, handlers return or raise because
their upstream calls have timeouts, deadlines pass, a stopped process is started again by
its supervisor; faults, cancellations and enqueues are not fair. `UpstreamCalls`: tasks
are scheduled, the upstream answers or its timeout fires, time passes; arrivals and
deadlines are not fair, so `EveryCallEnds` does not lean on the deadline. The others have
no liveness: nothing in the code retries a `decide()` that failed, and a request that ends
is not a promise of the others but of HTTP.

**Where a property is stated for SQLite only.** Some promises hold only because writes are
serial: `FamilyRevokedWholeSerial`, `ArchivedForGood`, `GuessesBounded`,
`InvitationsSingle`, `CurrentIsLive`, `EndStatesFinal`,
`FollowersSeeAll`, `NoEditLost`, `DecisionAsListed`; of `SessionsSound`, that what a session read
stays true until it commits.
On PostgreSQL the same interleavings are in the model and break them; no text of the
repository promises them there, except for reuse detection (`identity_reuse`).

### What the violations say

- `access_requests_orphan`: an item that names an API is bound to one toolkit, the
  acknowledgement is lost, the catalogue changes, and the next pass binds and
  acknowledges another toolkit. The first binding stays and no item names it, although
  `decide` promises "no orphaned admin-DB bindings/grants".
- `access_requests_rc`: two reviewers read a pending item, both commit; the second
  verdict replaces the first and nothing raises.
- `identity_reuse`: the UPDATE that revokes a family does not see the pair which a
  rotation in flight has inserted and not committed: the newest pair survives.
- `gateway_index`: the URL index is rebuilt for a draft that is imported, so an unpinned
  request is resolved against a revision that is not the current one.
- `upstream_calls_window`: the two counters are two keys with a TTL each, so failures of
  an earlier window are divided by the calls of the present one.
- `storage_commit`: the retry of a failed commit comes after a rollback, so it commits an
  empty transaction and reports success.

### What the models contain and no property forbids

Behaviours met while modelling that no run calls wrong, the first four although a
docstring says otherwise:

- The attempts of a job are compared with `max_attempts` only after its handler raised: a
  job whose worker dies, or whose failure cannot be recorded, is claimed again without
  limit (`worker.py:156`; "increments attempts so a poison job's retry budget is enforced").
- The event `drain` waits for is cleared only after a claim has returned a job: a worker
  whose claim is in flight is reported idle, and then processes it (`worker.py:106`).
- The pair for an assertion is issued by a second write transaction inside the one that
  locked the agent (`assertion_service.py:129`): on SQLite, which has one writer, the
  exchange waits for itself until the busy timeout, in every retry.
- An error of the pipeline that is no `BrokerError` is not recorded, and the handler of a
  job reports it as a failed execution (`execution_handler.py:156`): event and result say
  failed, the upstream may have answered 200, and there is no row in `executions`, or one
  of an earlier delivery that says completed (`executor.py:39`: each call runs through
  `run_execution`, which "persists the `executions` row"). `ExecutionsAccounted` allows failures of jobs so told, and no success.
- A buffered call's upstream request is made inside an open admin transaction, which on
  SQLite holds the write lock for its duration.
- A cancelled waiter cancels the load the other waiters share (`CancelWaiter`).
- Users, agents, service accounts and audit entries are paged by time alone: rows of one
  time that a page splits are lost. Operations of the live revision are paged against
  whichever revision is live at each page.
- A migration with an `autocommit_block`, and on SQLite any migration, leaves its first
  statements behind when it is killed, and its retry fails on them. The migration that
  adds `actor_id` to `execution_records` fails when there are rows.
- The advisory lock of a catalogue refresh is released before the fetch, so two clients
  may fetch, and the loser of the first insert gets an error.

## 4. Proofs

Every property of a passing run is a theorem checked by TLAPS, except for the two liveness
properties and `SchemaOfRevision`; so are the three refinements. Some theorems state what a
refinement implies and no run checks by itself: `QueueBudget` and `WorkPerformed` of a job,
`CallsExecutedOnce` of a key. A theorem holds for all values of the constants that satisfy
the named assumptions of its modules; TLC evaluates each of these on the runs.

| module | proves | lemmas |
|---|---|---|
| `AccessRequestsProofs` | `TypeCorrect`, `Coherence`, `Effectiveness`, `Refinement` | 31 |
| `JobQueueProofs` | `TypeCorrect`, `Exclusion`, `QueueBudget`, `WorkPerformed`, `ResultFinality`, `Cancellation`, `JobsLiveTheirLives` | 21 |
| `UpstreamCallsProofs` | `TypeCorrect`, `Sends`, `OpenCircuit`, `Cooldowns` | 9 |
| `IdentityProofs` | `TypeCorrect`, `ChainOfTokens`, `RevokedWhole`, `CodesBuyOnce`, `AssertionsHonoured`, `ArchivedStay`, `GuessesCounted`, `InvitationsOnce`, `AdministratorsDescend` | 133 |
| `GatewayProofs` | `GatewayInvariant`, `GatewayTyped`, `CallsExecutedOnce`, `ExecutionsRecorded`, `RefreshTokensKept`, `ExpiriesAnnouncedOnce`, `StalenessBounded`, `AdmissionLimited`, `CurrentServes`, `EndStatesStand`, `EditsKept`, `FollowersServed`, `ToolkitsDecide`, `KeysKeepTheirPromise` | 101 |
| `StorageProofs` | `ListsFollowed`, `CatalogueServed`, `SessionsHold` | 54 |
| `RecordsProofs` | the invariants of `Revisions`, `Notes`, `EventStream`, `Toolkits`, for `GatewayProofs` | 77 |
| `DatabaseProofs` | what `Look`, `Begin`, `Open`, `Short` and `End` do to the transactions, for the three compositions | 26 |

Each theorem rests on an inductive invariant: it holds initially, `[Next]_vars` keeps it
(one lemma per action or group of actions, below it one step per part an action can
disturb), and it implies the property. An action property is proved from the same
invariant, once for a step.

**Access requests.** `RequestCoherent` and `EffectsSound` speak of rows and effects; what
makes them true is in the reviewers' hands. `HeldWork` and `HeldEffect` say that whoever
is in phase 2 holds approved items of his request and, once resolved, an effect that item
may ask for. `Promised` says of an approval that a running call took or took over that it
is acknowledged, still to be driven, in hand, or the call has noted a failure, so that a
report without one means every effect was delivered. `EffectsAuthorised` traces each effect to the
approval that gave it, or to the bindings there were. With `AggregateMatchesItems` and
`EventsMatch` these make `IInv`; `Refinement` maps every step under it to a step of
`ItemDecisions` or a stutter.

**Job queue.** `TypeCorrect` and `Cancellation` hold without further assumption.
`Exclusion`, `QueueBudget`, `WorkPerformed`, `ResultFinality` and `JobsLiveTheirLives` assume
`SlowHandlers = FALSE`: a claim's deadline passes only once its worker is gone, which is the sizing `WorkerConfig`
asks for. The strengthening is `HeldJobs`: a job in a worker's hands is running or
cancelled, its deadline is in the future, it has no result, and the worker knows how often
it was claimed. From it no claim can take a job that is held (exclusion), an outcome is
written by the only worker that can (results, work), and the budget test is made on the
row's own count (budget). With it every step maps to one of `JobLifecycles` or to a
stutter: a claim to `Take`, because no hand holds what can be claimed; an outcome to
`Deliver`, `GiveBack` or `GiveUp`, or to `LetGo` when it finds a cancellation; a crash, a
lost write or a stop to `LetGo`.

**Envelope.** `Sends` rests on two facts about every reachable state: a repeatable call
has sent at most once per attempt, and not yet in an attempt that is still before its
send; any other call comes back to the breaker only after an attempt that was refused
before the send. `OpenCircuit` and `Cooldowns` follow from the types and the actions.

**Compositions.** The parts of `Identity`, `Gateway` and `Storage` share the database's
lock and `tx`. The operations that `tx[w]` can be in are disjoint sets, one a part, and the
invariant of a part speaks only of its variables and of transactions in its own operations.
A lemma a part says that a step elsewhere (variables unchanged, only transactions of other
operations touched) leaves its invariant standing; so a step of `Next` is proved once in its
own part, and the others come from these frame lemmas (`OthersStand` for the gateway).
`DatabaseInv` is common: a worker without a request has no open transaction, and where
transactions are serial at most one is open.

**Identity.**
- *Tokens*: a rotation in hand is of a row neither consumed nor revoked, no other refresh
  holds that row, and of a family one row at most is such (`RotationInv`, either database);
  where transactions are serial, a revocation has seen every row there is; a code is consumed
  under its lock and buys one family (`CodeInv`); an assertion identifier that was burned
  in this life of the process is remembered as long as the assertion lives (`ReplayInv`);
  the issuer stays active from the look to the issue, because that transaction locks it
  (`AssertHeld`).
- *Actors*: under serial transactions what a verb checked when it began still holds when
  it writes (`Checked`).
- *Users*: `GuessInv` bounds what `GuessesBounded` bounds together with what requests in
  flight may still add, those that looked before the account was locked; `InvitesInv` ties
  an open invitation to the transaction that may use it; `FoundersSingle` makes the
  sentinel decide the set-up.

**Gateway.**
- *Idempotency*: the runs under a key and the requests still to run under a claim are
  together no more than its expiries and the live claim (`ClaimsCounted`), which no
  property about runs alone would carry through a lapse. For the refinement of
  `IdempotencyKeys` it says that a claim which is still to run has a call left, and what a
  request in hand read of the claim says that its run is on record before the key remembers it
  and that a replay answers the fingerprint it was asked with.
- *Executions*: deliveries of a job are numbered by its attempts, other executions have the
  number 0, and a number has one worker (`SoleWorker`). So until the first delivery is
  accounted for nothing is stored or reported (`Untold`), and a later one may add a failure
  to what was reported but no success; what a worker accounted for was reported
  (`ExecutionHeld`), which bounds the result it may write.
- *Refresh*: `TokenKept` with `OneRefresher`: the stored token is accepted by the provider or
  spoiled, or the one request that has just rotated it holds its replacement. `EventsCounted` does for
  announcements what `ClaimsCounted` does for runs.
- *Caches*: an entry, a load in flight and a waiter each carry an age bounded by the stages
  they have gone through (`EntryTrue`, `FlightTrue`, `LookupTrue`).
- *Admission*: `BucketTrue`: for every earlier time, tokens left and requests admitted since
  are at most burst, refill and lag. The model keeps the admissions up to each time
  (`admitted`) so that a window is a difference; a count of one window would not be
  inductive.
- *Records*: the pointer and the count with the rows (`RevisionInv`); what an edit has read
  with the text (`NoteInv`); what a follower received with what is before its cursor
  (`FollowerTrue`); sequence numbers ascending along the list (`InOrder`). That a deletion
  keeps the order of the rules that are left is stated by `AreLeft`.

**Storage.** For lists: a row of the walk's range is returned, tied with a returned row
under an order by time alone, or after the cursor, and no returned row is after the cursor;
a row being inserted is not there yet. A page takes a prefix of what is after the cursor,
which keeps all of this for each of the 27 queries. For the catalogue: by the step a client
is at, what it knows of the snapshot it read (`ClientTrue`) and what its worker holds for it
(`ClientHeld`), unless it is excused. For sessions: by the
step a call is at, what was made of it so far (`CallTrue`), and on SQLite that the writer is
the one caller who is in a body or at his first commit, so that what he read is of the
present version (`LockTrue`).

**Assumptions.** `ParametersOK` (three modules), `ActorsOK`, `TokensOK`, `UsersOK`,
`EffectiveIsClosed`, `CallsOK`, `ExecutionsOK`, `GrantsOK`, `CachesOK`, `AdmissionOK`,
`RevisionsOK`, `NotesOK`, `EventsOK`, `RulesOK`, `ListingsOK`, `CatalogueOK`, `SessionsOK`: bounds are
natural numbers, sets counted in a property are finite, and `EffectiveIsClosed` says that
the permission hierarchy of the code, written out in `Permissions`, is closed under
implication. Theorems about properties stated for serial transactions have `Serial =>` in
the property, not as a hypothesis; they say nothing of PostgreSQL, where the runs have the
counterexamples.

**Only model-checked.** Liveness (`EveryJobEnds`, `EveryCallEnds`): fairness and ENABLED
are out of the prover's reach. `SchemaOfRevision`: the schemas are computed by a fold over
the 58 scripts, a finite fact about concrete data, which needs no proof for all constants
and would have to be unfolded statement by statement, with induction over the fold.
`AccessRequestsRC` and the other violation runs: what they say is false. Nothing is proved by
induction over data, and no module declares a recursive operator.

## 5. Plan

1. *Done*: the modules and runs above; a theorem for every safety property of a passing
   run but `SchemaOfRevision`, and the refinements of `ItemDecisions`, `JobLifecycles` and
   `IdempotencyKeys`.
2. *Left*:
   - for PostgreSQL, what remains of the properties stated for serial transactions: of
     `AccessRequestsRC`, that effects in place were approved by somebody; of
     `Tokens`, which rows a revocation reaches (all that were committed before it began);
     of `Users`, a bound on guesses with every request in flight counted;
   - an abstract specification of a single-flight cache, refined by `LookupCaches`;
   - two action properties: a row of refresh tokens once revoked stays revoked, and an
     execution record in an end state stays in it.

## 6. Not modelled

- Headers, bodies and the injection of credentials in the broker; which credential a call
  gets; parsing of specifications, scores of a search, embeddings, previews: data
  transformations of one request with no state of their own.
- Retention sweeps, parent and child jobs; acknowledgement of events; the usage queries;
  edits of names and descriptions: single statements nothing else depends on.
- The retry of a failed commit beneath the services: `Sessions` has it, the other models
  take a transaction as committed or raised, also where an error of a best-effort query in
  it was swallowed (`repeated_failure.py:81`).
- Of migrations: the offline mode, the PL/pgSQL function of a default, the legacy
  embedding columns, leftover `_alembic_tmp` tables.
- Configuration and wiring (their settings are constants), telemetry, encryption, the Go
  command-line clients, the React interface and deployment: see the notes in
  `PROJECT.json`. Security of tokens and keys against an adversary is not a subject of
  these models.
