# Verification of the network diagnostic tool

TLA+ models of the service in `src/app`, TLC runs that check them on small
instances, and TLAPS proofs that hold for every instance. Every definition is
translated from the code; `PROJECT.json` maps it to its lines ("map") and lists
the runs, the mutants that show each property can fail, the hazards each
property is aimed at, the findings and the theorems.

Contents: [the system](#the-system) · [modules](#modules) ·
[accounts](#accounts-and-sessions) · [password history](#password-history) ·
[rate limiter](#rate-limiter) · [diagnoses](#diagnoses) · [browser](#browser) ·
[deployment](#deployment) · [runs](#runs) · [findings](#findings) ·
[proofs](#proofs) · [what is left](#plan)

## The system

A FastAPI application (one process, one event loop, a pool of threads for
functions that are not `async`) in front of PostgreSQL. A browser page calls
three diagnoses (HTTP check, TCP port check, DNS lookup) and the routes for
login, sessions and the administration of accounts.

| Part | State it keeps | Operations | What is hard | What makes it correct |
|---|---|---|---|---|
| Accounts and sessions (`services/auth_service.py`, `core/auth_deps.py`, `api/auth.py`) | `user_accounts`, `user_sessions` | login, session check, CSRF check, logout, change of password | transactions at READ COMMITTED that overlap, clocks read before a lock is waited for, deadlocks | the cap on sessions, no session from an old password, deadlines that never pass the absolute one, a lock that stands |
| Password history (`change_password`, `reset_password`) | `user_password_history` | refuse a recent password, add a row, delete the old ones | rows dated by the start of their transactions, which wait for a lock; resets that do not trim | no recent password comes back, no recent one is forgotten |
| Administration (`api/admin_users.py`) | the same tables | create, patch, unlock, reset-password, revoke-sessions | an administrator acting on another who acts on them; logins under way | a disabled account has no session, an administrator is always left |
| Rate limiter (`core/security.py`, `core/deps.py`) | a global limiter, a window of times for each client address | `get_rate_limiter`, `check` | called from several threads without a lock | no more than N requests a minute, no refusal without cause |
| Diagnoses (`services/http_service.py`, `tcp_service.py`, `dns_service.py` and their routes) | none beyond the request, and a shared semaphore | validate, resolve, connect, follow redirects | error paths inside `async with`, the loop over the redirects | permits conserved, every hop checked, every diagnosis ends |
| Storage of the diagnoses (`services/persistence.py`, `api/history.py`) | `diagnostic_runs` and three tables of details | `persist_diagnostic`, the history routes | the database fails between two inserts; values longer than their columns | a run and its details stand or fall together |
| Audit and middleware (`main.py`, `services/audit.py`) | `audit_events`, the request on its way | session and CSRF checks, dispatch, one insert for each answer, readiness | exceptions that pass the middleware, the database failing at any of several uses | nobody unchecked gets past, answers leave an event that agrees with them, a known result is kept |
| Database pool (`db/session.py`) | the global pool, its connections | create, acquire, give back, close | creation by several requests across an `await`; statements that fail | each connection goes back where it came from; nobody waits for somebody who waits |
| Migrations (`db/migrations.py`, `cli.py`) | `schema_migrations` | apply in order under an advisory lock, `create-admin` | two that start together, a crash between two | the schema is that of the first scripts, each run once; what is reported is recorded |
| Front end (`static/js`) | panels, `localStorage` | submit, show, login, logout, list of recent results | answers out of order, aborts, reloads | a panel asks once and shows its last diagnosis, its button comes back, the list is the latest |
| Validation (`core/security.py`) | none | predicates on URLs, hosts, addresses | boundaries of address ranges | |
| Settings, schemas, client information | none | | | |

How they interact: every route but the login, the health check and the page
depends on `resolve_session`, which reads and refreshes a session; a mutating
route depends on `csrf_matches` and resolves the session once more. The
diagnoses then call the rate limiter (in the thread pool), the semaphore, the
network, and last `persist_diagnostic`. The administration works on the rows
that logins and session checks read. All of them share the database pool.

The hazards, each at its line, are in `PROJECT.json`; a hazard no property
covers yet has a note that says why or when.

## Modules

```
AuthDb ─── AuthService ─┐
     └──── AdminUsers ──┴─ Accounts ─┬─ AccountsMC      (constants for TLC)
                                     └─ AccountsProofs ── AccountsTimeProofs

SlidingWindow  <── implemented by (until calls overlap) ──  RateLimiter ── RateLimiterProofs

Diagnosis ─┬─ HttpCheck ─┐
           ├─ PortCheck ─┼─ Diagnostics ─┬─ DiagnosticsMC
           ├─ DnsLookup ─┤        │      └─ DiagnosticsProofs
           └─ Persistence┘        └── implements ──>  DiagnosticQueue

PasswordHistory ─┬─ PasswordHistoryMC
                 └─ PasswordHistoryProofs

DbPool ── Middleware ─┐
Migrations ───────────┴─ Deployment ─┐
     └── MigrationsProofs ───────────┴─ DeploymentProofs

Browser ── BrowserProofs
```

| Module | Models |
|---|---|
| `AuthDb` | the rows of accounts and sessions, the requests in flight, row locks, aborts and the deadlock detector of PostgreSQL |
| `AuthService` | `authenticate`, `resolve_session`, `csrf_matches`, `revoke_session`, `change_password`, with the dependencies that call them |
| `AdminUsers` | the handlers of `api/admin_users.py` that write |
| `Accounts` | both over the same tables; all properties of the accounts |
| `PasswordHistory` | the same two operations, for one account, as to which passwords they refuse and remember |
| `SlidingWindow` | the promise of the limiter, stated without windows, threads or a limiter |
| `RateLimiter` | `get_rate_limiter` and `RateLimiter.check` |
| `DiagnosticQueue` | the promise of the semaphore: at most N run, first come first served |
| `Diagnosis` | the requests for a diagnosis, `asyncio.Semaphore`, the ends of a diagnosis |
| `HttpCheck`, `PortCheck`, `DnsLookup` | the three services with their routes' error paths |
| `Persistence` | `persist_diagnostic` |
| `Diagnostics` | the composition, its properties, the refinement of `DiagnosticQueue` |
| `DbPool` | `get_pool`, the connections of `asyncpg.Pool`, `dispose_engine` |
| `Middleware` | `response_middleware`, the exception handlers, the dependencies, `persist_http_audit`, readiness: a request from its arrival to its answer |
| `Migrations` | `migrate`, for processes of several releases |
| `Deployment` | the server and the migrators over one database, with stops and crashes |
| `Browser` | `app.js` and `login.js` in one window |
| `AccountsProofs`, `AccountsTimeProofs`, `PasswordHistoryProofs`, `RateLimiterProofs`, `DiagnosticsProofs`, `BrowserProofs`, `MigrationsProofs`, `DeploymentProofs` | theorems about the modules they extend (all by TLAPS) |

Definitions whose comment begins "Mutant" are no part of the specifications.
Each is a plausible bug in the definition it precedes, and shows that the
property named with it in `PROJECT.json` can fail.

## Accounts and sessions

### State and steps

`account`, `session` are the two tables, `clock` is `utcnow()`, and `req` holds
the requests being served, each with its operation, where it is and what it has
read. A step is a statement that reads or takes a lock, or a statement together
with the commit behind it. Where one request is:

| `pc` | in the code |
|---|---|
| `lock`, `insert` | the two halves of `authenticate`: the `SELECT ... FOR UPDATE` with all that is decided on its row; the update of the evicted sessions, the insert and the commit |
| `resolve1`, `csrf`, `resolve2` | `get_current_session`, `csrf_matches`, and the second `resolve_session` FastAPI does for `require_csrf` |
| `handler` | the first statement of the handler |
| `sweep` | the handler's `UPDATE user_sessions` |
| `audit` | the insert of the audit event and the commit |

A transaction's writes appear when it commits. Row locks are not variables:
`LocksUser` and `LocksSession` say which rows a request has locked from where it
is. A statement that needs a locked row is not enabled until the lock is gone,
and then works on the row as it is by then (`SweepRows`: READ COMMITTED
evaluates the condition again), except `RevokeUserSessions`, which takes no lock
on the user and so misses sessions opened after its statement started. The audit
insert refers to the actor's and the target's rows; its `FOR KEY SHARE` waits for
`FOR UPDATE` and not for the plain update of `unlock_user` (`KeyShareFree`).
`Abort` is any failed statement; `Deadlocked` is PostgreSQL's detector.

`session[s].pw`, the password last proved from a session, is in no table: it is
a ghost that `CurrentCredential` needs. A password is a model value; hashes and
tokens are abstracted to what they stand for. A refusal by the policy or the
history is a nondeterministic outcome. `OPERATOR` stands for `VIEWER` too: these
routes do not tell them apart.

Not modelled: what `resolve_session` does with a user row it joined before it
waited for the session's lock (it may be older by that wait), unknown user
names, and the read-only routes.

### Bounds

`Ids` bounds how many sessions are ever opened (a login arrives only while a row
is left for it, so a run ends when the rows are used up: those runs do not check
for deadlock). `MaxTime` bounds the clock and `FailCap` the failure count. Two
slots of requests are enough for each property's hazard, which needs one
operation overtaking another; a slot serves one request after another, so longer
histories are covered. `sessions` has an administrator and an operator, whose
requests act on each other, `MaxSessions = 1` and two rows, so that each login
after the first meets a full cap; that its four invariants hold for larger caps,
more rows and more users is proved. In `time`, idle time 2, absolute
lifetimes 3 and 4, refresh after 1, and a clock up to 3 let a refresh reach the
absolute deadline, a lock run out, and requests commit in another order than
they read the clock in. The code compares times only with each other, so a longer
clock repeats the same comparisons.

### Fairness

`SF(Step(r))`: the event loop runs what can run, and PostgreSQL queues the
waiters of a row, so that a request whose row becomes free again and again gets
it; weak fairness would allow it to be overtaken for ever, which the queue does
not. `WF(Deadlocked(r) /\ Abort(r))`: `deadlock_timeout` makes the detector look
at a cycle that stays. Nothing is assumed of clients, and no other abort is
assumed to happen.

## Password history

`Accounts` treats a refusal by the history as something that may happen; here is
when. `password`, `mustChange` and `history` are the account's password, its
flag and its rows of `user_password_history`; `tx` are the transactions of
`change_password` and `reset_password`: `Begin` fixes `now()`, `Read` is the
`SELECT ... FOR UPDATE` with the checks (a reset has none), `CommitChange` and `CommitReset` are the writes and the commit,
a change with the `DELETE` of all but the newest rows. `starts` counts
transactions and serves as the clock of `now()`; `replaced` is a ghost, the
passwords replaced in the order of the commits.

The rows are ordered by `created_at`, the start of the transaction, and not by
the commit. A transaction that starts first, and asks for the account's row after
a later one has got it, writes an older date than the row that is already there. `InOrder` says that this
has not happened; without it TLC violates both `KeepsRecent` and
`RecentNotReused`: the row of the overtaken transaction is the first to be
deleted, though its password was replaced last. What holds with any order is
`OnlyResetsExceed`: more rows than the limit are left only by resets, up to the
next change.

Bounds: a history of two, four passwords (the current one, two remembered, one
free), five transactions, two at a time: a history overflows by changes and by
resets, and is trimmed after both. A run ends when the transactions are used up,
so it does not check for deadlock. Passwords and slots are interchangeable.

## Rate limiter

`enforce_rate_limit` is a plain function, so FastAPI runs it in its pool of
threads. `thread` is where each of them is; a label is a point where CPython
3.12 (`Dockerfile`: `python:3.12-slim`) may switch threads, at a call or a
backward jump. The bytecode between two labels is one step. `limiter` and
`windows` hold who made the limiter, or the window, that is stored: two threads
that find none each make one, and the later one replaces the earlier with all it
has counted. `hits` is the deque. `admitted`, when each client was let in, and
`overlapped`, whether a call has ever begun while another was under way, are history
variables that nothing reads but the properties.

`SlidingWindow` says what "N requests a minute" promises. As long as no two calls
have overlapped, whichever threads make them, the limiter keeps it:
`ImplementsWindow` says that it admits exactly what the promise admits,
`RefusalJustified` is the other direction, for a refusal, and `SerialWithinLimit`
counts the admitted requests in every minute. Once calls overlap the limit is
exceeded (`WithinLimit`, see the findings), and `OvershootBounded` is what remains
then: one hit for each further thread and window.

Bounds: two threads, which race for the limiter, for the window and for the last
place in it; one client (clients share nothing but the limiter, whose loss only
forgets hits, and the proofs are for any number); `Limit = 2`; a minute of one and
the clock up to three, so that windows slide over one another.

## Diagnoses

`task` is where each request is between two awaits; all of them run in one event
loop, so what lies between two awaits is one step. URLs, headers, bodies,
records and addresses are reduced to the decision the code takes on them: a
check passes or fails with one of the codes its `except` clauses give.
`Persistence` assumes that storage is enabled.

`asyncio.Semaphore` is not in `src/`; `permits`, `waiters` and `woken` follow
what the handlers rely on: whoever comes while others wait queues up behind
them; a release hands the permit to the first waiter that has none; a waiter
that resumes may pass further permits on (to one or to all, by patch release of
3.12). `ImplementsQueue` maps it to `DiagnosticQueue`: a waiter whose permit is
on its way counts as running. Those are the first in `waiters`, so the abstract
queue is the rest of it.

An HTTP check resolves a name twice. `_resolve_and_validate` checks every address of
its own `getaddrinfo` (`HttpResolve`); then httpx, which is given the URL, resolves
the name again and connects to an address nobody compares with those
(`HttpConnect`). `host` is what the name resolves to, and `NameChanges`, an action
of the environment, changes it at any time up to the connection: "allowed",
"blocked", or "moved" for an address that is not allowed and was not there when the
name was checked. `EveryHopChecked` therefore says two things of a connection: that
each URL of the chain, the later ones included, was checked before it, and that
what is reached is not "blocked". It may be "moved": the document asks for a check
of the actual target right before connecting, and there is none (see the findings).

`checked`, `cut` and `dbFailed` are ghosts. `dbFailed` is set when the database
fails and the rows are lost; a commit whose confirmation is lost leaves the
rows. `Answer` forgets the rows of the request, which nothing changes any more:
a bound that keeps the state small.

Bounds: three slots, one for each kind, and one permit, so that two requests
queue behind a third and new ones arrive while a permit is being handed over;
one redirect is enough for a chain to be followed, cut and refused at each hop.
This run checks for deadlock: a state in which everybody waits would be one.

Fairness: `WF(Step(r))` for each request. The awaits on the network have a timeout, a
statement is answered or fails, and the event loop runs what is ready.
`pool.acquire()` waits without a timeout; that its wait is not for ever is what
`SomebodyIsAnswered` of the deployment is about, and is assumed here. Nothing obliges
a client to call, and no name to change. Cancelled requests and the server's shutdown are not modelled.

## Browser

`page` is where the window is, `panel` the three forms and the client
information, `calls` what `callApi` waits for: the answer (`fetch`) or its body
(`json`). A handler runs from one await to the next undisturbed. `Handle` is all
a handler does with its envelope, `SaveHistoryEntry` included. The abort of an
earlier call is modelled as the code has it: the `fetch` it interrupts ends the
handler where it is, with the button still disabled, while an interrupted
`response.json()` is turned into an envelope like any other failure. That the
buttons are disabled while a call runs is what keeps both from happening;
`LatestShown` and its mutant show that the abort alone would not. `saved` and
`latest` are ghosts.

Bounds: four calls, one of them for the user, and a list of two: enough for a
list that overflows, two forms that overlap with a reload, and a call that is
overtaken while its body is read. One window: whether two windows take turns on
`localStorage` is the browser's choice. Fairness: every call is answered or
fails (`EveryDiagnosisEnds` and `EveryRequestEnds` for the service, the
browser's own limits for the network: `callApi` sets no timeout of its own), and a
page that is replaced goes.

## Deployment

What every request has in common: its way through the checks, the handler, the
storage and the audit, with a use of the database at each. `request[r].stage` is
where it is, `use[r]` what it is doing with the pool there, `event[r]` the code
of its row in `audit_events`.

| `stage` | in the code |
|---|---|
| `session`, `again` | `resolve_session` for `require_current_user` and for the second dependency that asks for it |
| `csrf` | `csrf_matches` in `require_csrf` |
| `work`, `store` | the diagnosis of `Diagnostics`, and `persist_diagnostic` |
| `read` | the history routes |
| `ready` | `database_ready` behind `/health/ready` |
| `audit` | `persist_http_audit` |
| `answer` | the response, on its way out |

`Unhandled` is an exception that passes the middleware: `call_next` raises, the
audit is skipped, and Starlette answers 500. Errors of the database at the checks
end so; at `store` and `audit` they are logged, at `ready` they become 503.

`DbPool` names a pool by the request that made it, and keeps the connections of
each open pool: two requests that find none each create one, and the later one
replaces the earlier, which nobody closes, but whose connections still come back
to it (`ConnectionsReturned`). `asyncpg.Pool` is outside `src/`: `Acquire` waits
without a limit, as `pool.acquire()` does here.

A migrator is where it is in `migrate` (`pc`), of a `release`, with the
versions it `known`s, the scripts it `ran` and the `rows` it inserted, neither
visible before the commit. `CREATE TABLE IF NOT EXISTS` is two steps outside
the transaction's lock, so that two which start together both create and one
fails. The commit's confirmation may be lost, and a process may die anywhere
(`MigrationFails`).

Bounds: two requests and a pool of one connection (requests wait for each
other's connection at every stage), two migrators of releases up to two (an old
one and a new one, a release of two scripts failing between them). Nobody
migrates while the server runs, as the guides have it; the server starts on any
schema, migrated or not. The row of an event is forgotten with its request,
nothing changes it. The settings enable the database, the login and the storage.
This run checks for deadlock.

Fairness: `WF(Serve(r))`: the event loop runs what is ready and a statement is
answered or times out. That asyncpg hands a connection to the request that has
waited longest is not assumed, as a newcomer may take it first, so what is
promised is that *somebody* is answered while requests wait
(`SomebodyIsAnswered`): no request keeps a connection while it waits for another.

## Runs

| Run | Configuration | Checks | Shows |
|---|---|---|---|
| `sessions` | an administrator and an operator, two passwords, a cap of one, two requests | `TypeOK`, `SessionCap`, `CurrentCredential`, `DisabledHasNoSession`, `RevocationFinal` | logins that overlap each other, changes, resets, logouts and what administrators do never exceed the cap, leave no session of an old password or of a disabled account, and bring no session back |
| `time` | one account, clock to 3 | `LeaseBounded`, `LeaseNeverShrinks`, `LockStands`, `NoEntryWhileBarred`, `RevocationFinal` | refreshes in any order keep the deadlines; a lock ends only by its time or by an administrator; a session that is found expired while a login evicts it stays revoked (in `sessions` no time passes, so this case is met here) |
| `liveness` | two administrators and a free name | `EveryRequestEnds` | no request waits for ever; the cycles of row locks it meets (two patches of each other, a login against the audit insert of a logout) are ended by the detector |
| `limiter` | two threads, one client | `TypeOK`, `SerialWithinLimit`, `OvershootBounded`, `RefusalJustified`, `ImplementsWindow` | until calls overlap the limiter is the sliding window it claims to be, boundary of the minute included; when they do, a window exceeds the limit by one hit at most |
| `diagnostics` | three kinds, one permit | `TypeOK`, `PermitsConserved`, `EveryHopChecked`, `HistoryAgrees`, `ImplementsQueue`, `EveryDiagnosisEnds` | error paths return the permit once, in order; redirect chains are checked before each connection and finite; history and answers agree |
| `browser` | four calls, a list of two | `TypeOK`, `OneAtATime`, `LatestShown`, `HistoryIsRecent`, `PanelComesBack` | no panel asks twice at once or shows an older result, whatever order answers, failures and reloads come in; every button comes back; the list is the latest |
| `password_history` | a history of two, four passwords, five transactions | `TypeOK`, `KeepsRecent`, `OnlyResetsExceed`, `RecentNotReused` | changes and resets together remember the last passwords and refuse them, unless a transaction overtakes another |
| `deployment` | two requests, one connection, two migrators, two scripts | `TypeOK`, `ConnectionsReturned`, `NobodyUnchecked`, `SchemaWhole`, `NoScriptTwice`, `ReportIsTrue`, `FailOpen`, `AnswersAudited`, `SomebodyIsAnswered` | wherever the database fails: checks are not passed, results are not lost, connections come back, answers leave their event; wherever a migrator fails: the schema is whole |
| `last_admin` | two requests | `LastAdminProtected` **violated** | finding 1 |
| `limiter_race` | | `WithinLimit` **violated** | finding 2 |
| `too_many_redirects` | | `TooManyRedirectsReported` **violated** | finding 3 |
| `not_stored` | | `EveryDiagnosisStored` **violated** | finding 4 |

Symmetry is used in the account runs without liveness: session rows and request
slots are interchangeable there (no property names one), and in
`password_history`.

## Findings

1. `update_user` counts the administrators without a lock: an administrator whose
   two requests, sent at once, demote the other administrator and himself is let
   through twice, as both count two, and none is left (`api/admin_users.py:65`; the
   documents promise transactions and row locks against it). Two administrators who
   demote *each other* do not get there: each one's audit event refers to the row the
   other has locked, PostgreSQL ends the deadlock, and one of them remains.
2. The limiter has no lock and runs in a thread pool: more than the limit gets
   in (`core/deps.py:34`, `core/security.py:167`).
3. The loop over the redirects stops following at the limit, so the error
   `TOO_MANY_REDIRECTS` is never raised; a longer chain is a success with the
   status of the last redirect (`services/http_service.py:104` and `:144`).
4. `persist_diagnostic` parses the URL again outside its `try` block: a URL
   that cannot be split leaves no run and ends in an unhandled exception
   (`services/persistence.py:45`). The same property also fails where a
   `connection_result` of 21 characters meets a column of 20, and where headers
   or a reason phrase are longer than their columns.

Noted, with no run. The name of an HTTP target is resolved twice, and the addresses
that are checked are not the ones connected to: `network-diagnostic-service-spec.md:376`
asks for a check of the actual target right before connecting, and after
`services/http_service.py:84` there is none; with "moved" excluded, `EveryHopChecked`
would fail as soon as a name changes between the two. The page
(`network-diagnostic-service-spec.md:340` and `:352`): the logout button is not disabled
while its call runs (`app.js:610`), so it can be clicked again, and no call is ended by
a timeout of the page's through its `AbortController`. Of the accounts: a promotion keeps the longer lifetime of the sessions that
are open (plain from `update_user`, no interleaving is needed); `PATCH` can lock
the only administrator, about which the documents say nothing; a lock, whether
by failed logins or by `PATCH`, leaves the account's sessions unrevoked, and they
work again after it, though `authentication-account-spec.md:244` names it among the
reasons to revoke. Of the password history: overtaken transactions (above), and
resets, which leave more than the five rows of
`authentication-account-spec.md:790`. Of the deployment: two pools together exceed
the documented number of connections (`postgresql-database-spec.md:536`); the
`timeout` given to `create_pool` limits connecting, while waiting for a connection
has no limit; a failing database at the session check is answered 500, where
`authentication-account-spec.md:873` has 503; an unhandled exception leaves no
`http_request` line (`logging-spec.md:57`) and no event; `SELECT 1` says ready on a
database nobody has migrated; of two first migrators that start together one may
fail at `CREATE TABLE IF NOT EXISTS`, and has to be run again; `cli.py` closes the
pool in a second event loop.

## Proofs

TLC shows a property on the instance of its run; the theorems below hold for any
users, rows, clients, requests, threads, connections, scripts and calls, and for
every value of the settings. Each safety invariant and each action property a
passing run checks is proved, and both refinements. The bounds of the runs
(`MaxTime`, `FailCap`, `MaxStarts`, `MaxCalls`) are constants in the theorems: a
run of any length is below some value of them. Each module assumes what is named
`...Assumption` in the module of its constants: settings are natural numbers,
positive where the code needs one at least, `None` and `Null` are none of the
values, and what is counted is finite. TLC evaluates them in the runs. `LeasesNeverShrink`
and `LastAdminAlone` have a hypothesis of their own, stated with them.

A note on how they are built: an operator of the library that is `CHOOSE` or a
fold is first given its effect by a lemma (`RemoveAtEffect`, `MinOfTwo`,
`NewestFirstEffect`); what an action does to a single request is a lemma
(`...Moves`, `...Goes`, `...Effect`); the preservation of the invariant uses those
lemmas and does not open the actions again.

### Accounts (`AccountsProofs`)

`TypeCorrect`, `CapHolds`, `CredentialHolds`, `DisabledHolds`: the invariants of
the run `sessions`. They follow from `Inductive` (`Spec => []IInv`). None of them
is inductive: each depends on what a request in flight has read. `IInv` adds

- `PcOK`: which operations are at which statement, and what they carry;
- `RowsExist`: sessions and row locks belong to accounts that exist;
- `Exclusive`: two requests never hold the same user's row;
- `LoginFresh`: what a login read of the account (its password, that it is not
  disabled, that after the evictions there is room) is still so when it inserts;
- `SweepComplete`: a reset or a disabling that waits for its commit has every
  unrevoked session of the user in its sweep.

A lock is taken only when nobody has the row (`NewLock`), and is kept until the
request ends (`OtherLocksKept`), so `Exclusive` is preserved. Hence, while one
request has a user's row, no other changes that account or opens a session for it
(`LockProtects`, with `OnlyLoginsOpen`): the only exceptions are steps that
revoke, which make room. `LoginFresh` and `SweepComplete` follow, and from them
the cap, the credential and the empty sessions of a disabled account.

### Accounts over time (`AccountsTimeProofs`)

| Theorem | Statement |
|---|---|
| `LeasesAreBounded` | `Spec => []LeaseBounded` |
| `LeasesNeverShrink` | `Spec => LeaseNeverShrinks`, if `IdleTtl <= AbsTtl` and `IdleTtl <= AdminAbsTtl` |
| `RevocationsAreFinal` | `Spec => RevocationFinal` |
| `NobodyEntersWhileBarred` | `Spec => NoEntryWhileBarred` |
| `LocksStand` | `Spec => LockStands` |
| `LastAdminAlone` | `Spec => LastAdminProtected`, if there is one request at a time |

They rest on `TimeInvariance` (`Spec => []TimeInv`), on top of `IInv`. Requests
read the clock before they wait, so what they work with may be old: `NotAhead`
says it is never ahead. `EntryOpen` carries the decision of a login, that the
account is open or its lock has run out, from the row lock to the insert.
`RowsHeld` and `SessionExclusive` are about the sessions: the rows an uncommitted
update has chosen are unrevoked and nobody else's, because an update waits for
the rows another one has (`NewSessionLock`, `HeldUntouched`); so the commit
revokes rows that are still unrevoked, and the first reason stays. Only the
evictions of a login work on rows they have listed and not locked. `RowsOfUser` says
what can have become of those meanwhile: they are sessions of the login's user, and
whoever revokes one of them needs that user's row, for an update of it or for the
foreign keys of the audit event, and waits for the login (`LoginProtects`). The one
exception is the session check that finds a session expired, which writes no event:
its reason, and no other, may be replaced, as `RevocationFinal` has it.

`LeaseNeverShrinks` needs the idle time to be no longer than the absolute
lifetimes, as with the defaults (30 minutes against hours). With a longer one a
login writes an idle deadline beyond the absolute one, and the first refresh
takes it back: nothing is lost by it, since the absolute deadline ends the
session, but the column does go back.

`LastAdminAlone` is the counterpart of finding 1: `GuardInv` says that a PATCH
which was let through has another administrator until it commits. Alone, nothing
falsifies it (`GuardStep`); the commit of another PATCH does. So the violation is
the doing of overlapping requests. Which PATCHes can overlap is up to the foreign keys
of the audit event; in the run the two have the same actor.

### Password history (`PasswordHistoryProofs`)

`RecentAreKept`, `ResetsAloneExceed`, `RecentAreNotReused` and
`HistoryTypeCorrect`, for a history of any length. `KeepsNewest` is the invariant
behind them: the rows in the table are rows that were replaced, and the newest
`Count` of all that ever were are among them, also when transactions overtake one
another. It is preserved because the newest of a part that contains the newest of
all are these (`NewestOfPart`), and because one more row leaves out of them at
most what it pushes out (`NewestOfMore`). `DatesDiffer` (two transactions do not
start together) makes "newest `Count`" be `Count` rows at most (`NewestCount`).
`OneWriter` and `ChangeChecked` carry the check of a change to its write. Last,
`NewestAreLast`: under `InOrder` the newest rows are those of the last passwords
replaced; only here is the order needed.

### Rate limiter (`RateLimiterProofs`)

For any number of threads, `LimiterTypeCorrect` and `OvershootIsBounded`. The
bound alone is not inductive: a thread that has found room is about to add its
hit. `Room` counts these with the hits: a window's hits and the threads that are
about to add one never exceed the limit and one for each further thread. A thread
that finds room finds fewer hits than the limit, and all others together are at
most the number of threads less one (`SomeThreads`, `FewerThreads`).

For any number of threads whose calls have not overlapped (which finding 2 shows to
be necessary): `SerialImplementsWindow`, the refinement of `SlidingWindow`,
`SerialKeepsLimit` and `SerialRefusesRightly`. Their invariant, `SerialInv`, says that
until then at most one thread is in the limiter (`OneCall`) and works on what is stored
(`Serves`), that what nobody has made yet is empty (`Fresh`), and that the stored deque
of each client agrees with the history (`Known`). `Tracks` relates the two: the hits are the last of the client's requests, and those
before them are older than a minute. So the length of the deque, after the loop
has dropped the old ones, is the number of requests of the last minute
(`CountIsExact`, `CountsMinute`), and the limiter admits when the promise does
(`AcceptAdmits`) and refuses when it has to. That the promise itself keeps the limit in
*every* minute, not only in those that end with a request, is `WindowKeepsLimit`,
proved of `SlidingWindow`; `SerialKeepsLimit` combines the two.

### Diagnoses (`DiagnosticsProofs`)

For any number of requests, permits and redirects: `PermitsAreConserved`,
`HopsAreChecked`, `HistoryAgreesWithAnswers`, `TypeCorrect`, and `LimitImplemented`,
the refinement of `DiagnosticQueue`. `IInv` has three parts. `SemaphoreInv`:
the waiters are the requests that wait, each once; those with a permit on its way
are the first ones (`WokenFirst`); permits that are free, in use and on their way
add up. `RequestInv`: what a request carries at each stage (how many hops, how
many of them checked, what the name of the next one may resolve to), and that its rows in the two tables agree with it or are
not there. `TablesInv`: types. `WokenFirst` is what the refinement rests on: the
queue of the abstract specification is the rest of the waiters, so a release
takes its head (`MappedEnd`), a waiter that resumes leaves it alone
(`MappedResume`), and whatever else a request does is a stutter (`MappedQuiet`).

### Browser (`BrowserProofs`)

`PanelsCallOnce`, `ShownIsLatest`, `ListIsRecent`, `TypeCorrect`, for any number of calls
and any length of the list. The invariant about the panels is `CallsOfPanels`:
a call from a panel is its only one and its last one, the panel is busy, and
nothing has aborted it. So the abort of an earlier call never has anything to
abort (`NothingToAbort`), which is why its missing clean-up does no harm.
`HistoryInv` has the list as the end of what was saved, backwards
(`NewestFirstEffect`, `SaveKeeps`).

### Deployment (`MigrationsProofs`, `DeploymentProofs`)

`MigrationsProofs` proves of `Migrations` alone, for any processes and any number
of scripts, `SchemaIsWhole`, `NoScriptMeetsItself`, `ReportIsAlwaysTrue` and
`MigrationsTypeCorrect`. The invariant adds to `SchemaWhole` that only one
process is in its transaction (`OneInTransaction`, from the advisory lock), and of
each process (`Good`) that what it knows is what is committed, as nobody else can
commit meanwhile, and that what it ran continues that without a gap. So the first
script that is pending is the one after the last (`NextScript`), and the commit
leaves the first scripts again. `DeploymentProofs` shows that every step of the
deployment is a step of these processes or leaves their variables alone
(`OnlyMigratorsMigrate`), so that all of it holds beside a server, too.

Of the server, for any number of requests and connections: `ConnectionsComeBack`,
`ChecksHold`, `ResultsStand`, `AnswersLeaveEvents` and `DeploymentTypeCorrect`, from
`ServerInvariance`. Its parts: what a request has passed at each stage (`Passes`),
that stages which do not use the database hold nothing of it, that a pool which is
stored or used is open and one about to be made is not (`PoolInv`), that a server
that is down or closed has nothing in memory (`DownInv`), and for each pool ever
made, the replaced ones included, that what is free and what is held add up to its
size (`Returned`). A connection is given back to the pool it came from, not to
the one that is stored; `LeaveInv` is where that counts.

### Only model-checked

`EveryRequestEnds`, `EveryDiagnosisEnds`, `PanelComesBack` and `SomebodyIsAnswered`:
liveness rests on fairness, whose `ENABLED` the prover does not handle. For the
same reason the absence of deadlocks is checked and not proved. The four
violations are counterexamples, which a run gives and a proof does not.

## Plan

Done: 1. accounts, 2. rate limiter, 3. diagnoses with semaphore and storage,
4. the browser, 5. password history, 6. the middleware, the audit and the pool,
7. migrations, 8. the deployment of them together, 9. the proofs of every safety
and action property and of both refinements.

To come: theorems that say more than the runs' properties, such as that of two
overlapping PATCHes the one that commits last is the one that breaks the guard
(what finding 1 needs at least), and that a pool which was replaced is empty of
requests once those that hold its connections have ended.

## Not modelled

- Target validation (`validate_url`, `validate_host`, `validate_domain`,
  `is_blocked_ip`): predicates on strings, most of them calls of `urlsplit`,
  `ipaddress` and the `idna` codec. They keep no state; where they are called, and
  what follows when they refuse, is in `HttpCheck`, `PortCheck` and `DnsLookup`.
- Settings, request schemas, `client_info`, the format of answers and logs: no
  state. The settings the behaviour depends on are the constants of the modules.
- The read-only routes of accounts and of administration.
- Cancelled requests: what a client that goes away interrupts.
- Tests, documents, Docker and compose files.
