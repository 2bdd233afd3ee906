# Verification of team-task-service

TLA+ models of the service in this repository, TLC configurations that check
them on small instances, and TLAPS proofs of every safety property they are
checked for, for every value of the constants. Paths without a directory are under `internal/`.

The service is one Go process, run in any number of instances that share a
MySQL database and a Redis server. It keeps almost no state in memory. What can
go wrong is therefore nearly always the same kind of thing: a request is a
sequence of separate database and Redis calls, other requests run in between,
and each call may fail, be applied without an answer, or be the last thing the
process does. The models have one step per call, and the properties say what
must hold however those steps interleave.

## Inventory

**Team membership** (`repository/team_repository.go`, `model/role.go`).
State: the tables `teams` and `team_members`. Operations: `CreateWithOwner`
(two INSERTs in one transaction), `AddMember` (one INSERT behind a unique key),
`GetRole`, `ListForUser`. Nothing updates or deletes a row: membership only grows, and much of
what follows rests on that. Correct if a team has exactly one owner.

**Team service** (`service/team_service.go`). No state. `Create` is one call;
`Invite` is four: the inviter's role, the invitee's account, the INSERT, the
mail, which is best effort. Hard: two invitations of one person at once, an
INSERT applied but not confirmed, a process that dies before the mail.

**Task service and audit trail** (`service/task_service.go`,
`service/task_history.go`, `repository/task_repository.go`). State: `tasks` and
`task_history`. `Update` reads the task, reads the role, reads the new
assignee's role, all without a lock, then opens a transaction that locks the row,
takes the diff again, updates, writes one history row per field and commits.
Hard: everything between the unlocked read and the lock, and the connections of
the pool that waiting transactions keep. Correct if the history is exactly what
happened, every write was authorised, assignees are members, answers are true,
and everybody is answered. `GetHistory` reads the history in pages.

**Task list cache** (`repository/task_cache.go`). A decorator around the task
repository. State, in Redis: a version counter per team, and lists under keys
that contain the version. A change increments the counter after its commit.
Hard: slow readers, torn pages, lost increments, a lost counter.

**Rate limiter** (`platform/middleware/ratelimit.go`). State, in Redis: a
counter per client and window. Hard: INCR and EXPIRE are two commands, requests
overlap on several instances, and the Redis client repeats commands.

**Invite circuit breaker** (`platform/breaker/notifier.go`, around
`sony/gobreaker`). State, in memory: the breaker. Hard: results that come after
the breaker has changed its state, and invitations competing for the one trial.

**HTTP server and shutdown** (`platform/httpserver/server.go`,
`cmd/api/main.go`). State: how far the start has come, the listener goroutine,
the connections, the closers. Hard: the signal, a failing listener, handlers at work, and the deadline race.

**Accounts and tokens** (`service/auth_service.go`, `platform/jwtauth`,
`repository/user_repository.go`). State: the table `users`; a token is kept by its
holder only. `Register` is an INSERT behind a unique key and a SELECT of the new
row, `Login` one SELECT. Hard: two registrations of one address in different
spellings, an INSERT that is applied while its client hears 500, and a token at
its expiry. Correct if answers are true and every actor is a registered user.

**Middleware chain** (`platform/middleware`, `router/router.go`). State: a
status recorder per request and layer, and the Prometheus counters. Hard: a panic,
before the header or after it. Correct if the log and the counters account for
every request.

**Reports** (`repository/analytics_repository.go`): three queries, no state. Hard:
the fan-out of a join, ties in a ranking, the edges of a month and of a week, and
rows whose time is that of a statement while they are seen from the COMMIT on.

**HTTP encoding and paging** (`platform/httpx`, `apperr`). No state. Hard: pages
of rows whose order is not total, and offsets that overflow.

**Configuration and connections** (`config`, `platform/db`, `platform/cache`)
are read and made once. Generated API documentation and a `task_comments` table
no code uses complete the list.

Who talks to whom: the router wraps every route in the middleware and the rate
limiter; handlers call the services; the team service calls the membership
tables and, through the breaker, the notifier; the task service calls the
membership tables (`GetRole`) and, through the cache, the task repository.

## Modules

| module | stands for | extends |
|---|---|---|
| `Membership` | `teams`, `team_members`, their statements and roles | |
| `TeamRoster` | abstract: who may admit whom | |
| `TeamService` | `POST /teams`, `POST /teams/{id}/invite` | `Membership`; implements `TeamRoster` |
| `TaskBoard` | abstract: indivisible, authorised, audited edits | |
| `TaskService` | `POST /tasks`, `PUT /tasks/{id}`, the orphan report, the pool | `Membership`; implements `TaskBoard` |
| `TaskListCache` | `GET /tasks` and the invalidation by changes | |
| `RateLimit` | the limiter in front of the routes | |
| `InviteBreaker` | the breaker behind `Invite` | |
| `Reads` | `GET /teams`, the reports, `GET /tasks/{id}/history` | `Membership` |
| `Middleware` | log, metrics and recoverer around any handler | |
| `Accounts` | `POST /register`, `POST /login`, `Auth` and the routes | `Middleware` |
| `GracefulShutdown` | `main` from its start to its end, `httpserver.Run` | |
| `TeamServiceProofs`, `TaskServiceProofs`, `TaskListCacheProofs`, `RateLimitProofs`, `InviteBreakerProofs`, `ReadsProofs`, `AccountsProofs`, `GracefulShutdownProofs` | the proofs | their modules |
| `MC...` | small instances for TLC | their modules |

`Membership` is shared: its variables are the tables, and both services and the
reads change or read them through its operators. In `TaskService` and `Reads`,
`MembershipGrows` is what the team service does meanwhile. The refinements are
instances of the abstract module: `Roster == INSTANCE TeamRoster WITH ...` in
`TeamService`, `Board == INSTANCE TaskBoard WITH ...` in `TaskService`; both map
the tables to the tables and forget the requests. `Middleware` has the variables
and the steps every request shares and no specification of its own; `Accounts`
composes it with the handlers of accounts. What `Accounts` shows of a request
past `Auth`, `ActorsAreRegistered`, is what the other modules take for granted
(`Authenticated` in `TeamService`). The cache is a module of its own because it
knows nothing of tasks: a team's tasks are the number of changes committed so
far, and a list is the number of changes its COUNT and its SELECT have seen.

Conventions. A request is an element of `Requests` and is handled once; a retry
is another element. `pc[r]` names the call it makes next, `job[r]` what it
asked for. Each action is one call with everything the code does until the next
one; `Fail` and `Drop` are a call that returns an error and a process or handler
that ends. A call that MySQL applied while its reply was lost is a step of its
own, or an alternative of the step, because it changes the tables and answers
500. History variables are marked where they are declared, and no step depends
on them. An operator named `...Loose` is a mistake the code does not make; no
specification uses one, and each property is known to fail when the operator
of the same name without the suffix is replaced by it.

### TeamService

`Start` (handler and `Auth`), `CommitTeam` (the transaction of
`CreateWithOwner`), then for `Invite` `CheckRole`, `FindInvitee`, `InsertMember`
or `InsertUnconfirmed`, `NotifyInvitee`. `CommitTeam` is one step because a
transaction shows nothing before its COMMIT; a crash or error inside it is `Fail`
or `Drop`. The invitation depends on the breaker only through whether a mail
goes out, which is left open here.

`OneOwner`, `InvitedOnce` (one winner, one mail), `AnswersHold` (an answer stays
true), `ImplementsRoster` (nobody can tell that the role check and the INSERT are
separate calls).

### TaskService

`Start`, `ReadTask`, `Authorize`, `CheckAssignee`, `Begin`, `LockRow`,
`CommitUpdate` for updates, and `InsertTask`, `Reread` for creations. UPDATE, history INSERTs and
the last SELECT run under the row lock and are visible at COMMIT only, hence
`CommitUpdate` is one step; any failure before it is `Fail`, which releases the
lock. A revision is the set of history rows one transaction writes. Titles,
descriptions and names are model values; `Junk` is what validation refuses, and
null is `None`. The pool has `MaxOpenConns` connections, 0 for any number as in
`database/sql`: a call takes one for its step only, a transaction keeps one from
`Begin` on, also while it waits for the row lock.

`NoOrphanedAssignee`, `AuditTrail`, `WritesAuthorised`, `AnswersAreCommitted`,
`ImplementsBoard`, and `EveryRequestAnswered` under fairness.
`OwnTasksOnly` is what the comment of `Update` says of members, and fails:
the assignee is checked on the unlocked read. `WritesAuthorised` and `TaskBoard`
state what does hold: she was the assignee in the row her request read.

### TaskListCache

Lists: `GetVersion`, `LookUp`, `CountTasks`, `SelectTasks`, `Store`. Changes:
`Commit` or `CommitUnconfirmed`, then `BumpVersion` or `BumpFails`. `Expire` is
the TTL. `Faults` says what may go wrong in an instance.

`EntriesAreFresh` is the design in a sentence: a list stored under the current
version holds every change whose bump took effect. It is so because the version
is read before the list, and INCR is after the COMMIT. `AnswersAreFresh` is what
a user sees of it; `FreshUnlessBumpLost` says how exact the cache is in a quiet
moment, and the hypothesis is needed: `ChangesAreBumped`, without it, fails.
`StaleEntriesGo` is what is left to limit the damage. `Forget` is Redis losing a
counter while lists of its old versions are still there: the counter starts again
from an earlier value and may come by versions it has had. After that, freshness
is not promised (`fell`), but `StaleEntriesGo` is.

### RateLimit

`Arrive` reads the clock, `Count` or `CountFails` is the INCR, `SetExpiry` the
EXPIRE, `Evict` and `Tick` are Redis and time. Time is counted in windows, and a
key with an expiry goes some time in the window after its EXPIRE, as the expiry
is as long as a window; Redis is assumed to be no later than that.

`WindowLimit`, `OwnRequestsOnly`, `CountersExpire`. The first speaks of the
requests whose INCR ran in the window they arrived in; one that stalls for
longer counts on a key that may have been reset.

### InviteBreaker

`LetOut` and `FailFast` are the two outcomes of entering the breaker, `Return`
is the notifier's result and its report, under gobreaker's mutex.
`TripsOnThreeFailures` compares the counter with the log of all results;
`OneTrialAtATime` is about the trials.

### GracefulShutdown

`LoadConfig`, `ConnectDatabase`, `ConnectRedis` are the start: each succeeds or
ends the process with 1. Then the select and what follows (`TakeError`,
`TakeSignal`, `Drained`, `DrainFails`, `Close`, `Return`), `Exit` for `main`, the
goroutine (`Listen`, `ListenFails`) and net/http's connections. A signal kills
the process until `NotifyContext` has been called, and ends `ctx` from then on.
`NoUseAfterClose`, `SignalEndsProcess`, and `ResourcesAreClosed`, which the
package comment promises and the timeout breaks. `SignalEndsProcess` has an
exception that the code earns: `sqlx.Connect` pings without a deadline.

### Middleware and Accounts

`Arrive` is a request at the router: it is answered 404, by the limiter (429), by
`Auth` (401), by the validation (400), or reaches its handler. A registration
takes `InsertUser` or `InsertUnconfirmed` and `Reread`, a login `Login`, and
`Handle` stands for any handler behind `Auth`. `Respond` writes the answer through
the two status recorders; `CountRequest`, `CountError` and `LogRequest` are what
Metrics and Logging do when the handler has returned, in that order, and `Panic`
is a panic and what Recoverer makes of it. As Recoverer is the innermost of the
three, a panic does not pass the others. Addresses are compared by `Fold`, the
collation of the column. The clock has `TicksPerSecond` ticks a second, since
`jwt.NumericDate` keeps whole seconds and `expires_at` more.

`RegistrationHolds` (one row per address, true 201s and 409s), `LoginIsExact`
(who has an account is not refused, also if her registration was answered 500;
nobody gets another's token), `ActorsAreRegistered`, `ExpiryIsHonest`, `LogIsTrue`
(one line per request, with the status the client saw unless the panic came after
the header) and `SeriesMatchTheLog` (the two counters and the log never drift
apart by more than what is in flight).

### Reads

The tables change by transactions. `InsertTask` or `UpdateRow` opens one and is
the INSERT or the UPDATE of a task, `InsertRevision` is one INSERT into the
history, `Commit` shows all of it to the others and `Rollback` undoes it. Each
statement takes its time from the clock, and `Tick` may come between any two, so
that a row can appear with the time of a second that is over, and the rows of one
transaction can have different times. `UpdateRow` waits while another
transaction has the row. `TaskService` has `CommitUpdate` as one step since
nothing it says is about times. What an endpoint may answer in a state is a set,
of several elements where the database may fail or SQL leaves an order open; each
read is one SELECT and takes no lock. `TeamRows` is the join of `TeamsSummary` with
its fan-out, `CountsOf` and `Rank` the two CTEs of `TopCreators`, `Orders` all
orders that `ORDER BY changed_at` allows. Ints are `MaxInt` wide and wrap. MySQL's
clock is taken not to step back.

`SummaryIsRight` compares the summary with tables and audit trail: members and
teams are exact, no task is counted that was not moved to done and changed in the
week, and a done task no older than the week is counted. Between the two bounds lie
tasks with an update at the edge of the week, and those that
`OnlyLatelyDoneCounted` is about: the comment of `TeamsSummary` and the API's
description count moves to done, the query counts edits of what is done, and that
property fails. `TopCreatorsAreRight` says that a ranking is
without gap and tie, cut only at its limit, fair, and that each task counts in
one month. `PagesCover`: the pages of a history are consecutive and complete, as
far as times tell; they cannot tell whether rows of one time are repeated or
missed. `FullPagesAreFinal`: a full page that is followed by a revision of a later
second stays as it is, ids and order. The later revision is needed. A page that
ends with the last second of the history may change even when that second is over,
by a transaction that stamped its rows in it and commits now; paging forward
during edits can miss or repeat such rows.

## Runs

| run | bounds | states | shows |
|---|---|---|---|
| `team_service` | 3 users, 2 teams, 3 requests | 28 559 | the team properties and the refinement |
| `task_service` | 3 users, 2 teams, 4 tasks, 3 requests of 7 kinds, pool of 2 | 270 922 | the task properties, the refinement, and that every request is answered |
| `task_own_only` | 2 requests | | `OwnTasksOnly` fails |
| `list_cache` | 1 team, 2 filters, 3 requests, all faults | 493 333 | freshness, and that stale lists expire |
| `list_cache_bump` | 1 filter, 3 requests, leaving clients only | | `ChangesAreBumped` fails |
| `accounts` | 3 requests, 2 addresses in 3 spellings, 2 passwords, 3 ticks | 1 855 528 | accounts, tokens, log and metrics |
| `reads` | 3 users, 2 teams, 3 tasks, 2 clients, 3 revisions, 3 seconds | 196 274 | reports and pages |
| `reads_done` | the same with 1 client | | `OnlyLatelyDoneCounted` fails |
| `rate_limit` | 2 clients, 4 requests, limit 2, 2 windows | 1 581 879 | the limiter's properties |
| `invite_breaker` | 6 calls | 2 401 | the breaker's properties |
| `shutdown` | 3 connections, 2 closers | 1 347 | the properties of the process |
| `shutdown_closers` | the same | | `ResourcesAreClosed` fails |

Why the bounds are enough. Each property relates at most two requests with a
third that comes between them, so three requests suffice where the tables are
only added to; that safety does not depend on the number is proved. The
inputs of `task_service` are chosen so that one task is read by a member,
reassigned by the owner and edited by both, an update turns into a no-op before
it gets the lock, and a task is created by one and edited by another. The pool
of two is full with two transactions, and the third request needs a connection.
The cache needs the slow list, the change, and the list that finds what the slow
one stored. In `accounts`, two
registrations of one address race, or a login in the other spelling meets a
registration, while the third request uses the token before, at and after its
expiry, which is half a second after `exp`. In `reads` the rankings have a tie
and a cut, a month ends, a task leaves the week, revisions share a second or not,
one client's transaction stays open over the commits of the other and over the end
of a second, and pages of one and two rows with ints up to 3 make offsets overflow. The limit of 2 has a request below, at and above
it; two windows let a stalled request meet an expired key. The breaker needs three
failures, a straggler, a trial and its rival. Symmetry is used in runs of
invariants and action properties over interchangeable elements only, never for
liveness. Deadlock is not checked: every instance stops when its
requests have been handled or its clock has stopped.

No state constraint is used. The bounds are the constants of the `MC` modules
and `LastWindow` (after which time goes on but no request arrives), `LastTick` of
`Accounts`, `LastSecond` and `MaxRows` of `Reads`.

## Fairness

`TaskService`: weak fairness of the steps of a request, because the runtime
schedules goroutines, the pool serves those who wait in their turn, and MySQL
answers what it can answer. Waiting for a row is
not such a step while the row is locked, nor waiting for a connection while there
is none, and the lock wait timeout is not
counted on. Nothing makes requests arrive or calls fail. Weak fairness is
enough as no request locks two rows, none needs a second connection, and each is
handled once.
`TaskListCache`: the same for requests, and entries with a TTL expire.
`GracefulShutdown`: the main goroutine runs, go-redis gives up by its time limits
and the timer of the shutdown context fires; nothing is assumed of handlers nor
of MySQL's answer to the first ping. The other modules are checked for safety
only.

## Proofs

Every safety and action property of a passing run, and both refinements, are
theorems of the specification. In each module an inductive invariant (`Inv`) is
shown to hold at first and to be kept by every action, and the properties follow
from it, or from it and one more step. The constants are any sets and numbers
that satisfy the `ASSUME`s of the modules: model values such as `None` differ from
what they stand apart from, inputs have their types, and numbers are numbers.

`TeamServiceProofs` assumes what `Membership` and `TeamService` assume of their
constants: `None` is no user, `NoJob` no job. `Typing` is the type invariant,
inductive as it stands. The other properties are not. `InvitedOnce` counts the
requests past the INSERT, and that a later INSERT cannot succeed follows only if
each of those has its invitee in the table; and a mail excludes another one
only if no request is left that could still send it. So `Inv` adds
`WinnersAreMembers`, `OneWinner` and `MailsAreForMembers`, and carries
`AnswersHold`, whose part about requests past the role check is what makes
`AddInvitee` an `Admit` of the roster. `Inv` is kept by every step because roles,
once there, are kept. The theorems are `OwnedOnce`, `InvitationsAreUnique`,
`AnswersStayTrue`, and `RosterImplemented`: each step is a step of `TeamRoster` or
leaves its variables alone.

`TaskServiceProofs` assumes that null is no title, no status and no row, and that
no request is `None`. What a request relies on between two of its calls is
`RequestHolds`: `Follows` (it makes the calls of what it asks for), `HasRead` (the
row it read is a committed version), `HoldsRow` (the row it is about to write is
locked by it and is the one it took the diff from), `Cleared` (the rights and the
assignee it checked still hold, because membership only grows) and `Answered`.
`Kept` numbers the rows, revisions and authors of a task alike. With these, a commit
appends a revision that is the difference of two consecutive rows
(`AuditTrailIsTrue`), by somebody with the rights she was checked for
(`WritesAreAuthorised`), and names no stranger (`AssigneesBelong`). `HoldsRow` is
what would break if the second diff under the lock were left out. `LocksAreHeld` and
`PoolIsKept`, for `Typing`, say who holds locks and connections, in a pool of any
size. `RequestsImplementTheBoard` maps `CommitUpdate` to an edit, `InsertTask` to a
creation and every other call to a stutter.

`TaskListCacheProofs` assumes that `NoKey` is no version and `NoJob` no job.
The invariant says what a list in flight knows: if it has counted and its key is
still current, its count has every bumped change (`CountsAreFresh`). That
covers what will be stored, not what will be found: for `AnswersAreFresh`, two
lists that hold the same version must agree (`SharersAgree`), and an entry must
serve every list that holds its version (`EntriesServe`), also when the version
is not current any more. `ChangesAreNumbered` and `KeysAreOld` order the
numbers, and `LastChangeAccounted` says where the last change is while the
counter lags: on its way to the bump, bumped, or lost. All of them are about
teams whose counter has not been forgotten (`fell`). The theorems are
`CacheFreshness`, `AnswerFreshness` and `QuietFreshness`.

`RateLimitProofs` assumes a limit of 1 or more. `WindowLimit` is about a set of
requests, the counter is a number: `LimitIsKept` says that the requests let
through in a window are at most `Limit`, and, until the window has passed, at most
its counter. That a key does not vanish before is `KeysOutliveTheirWindow`;
`OneSetter` says that one request alone, the one that found 1, is to give a key its
expiry. `CounterIsOwn` bounds the counter from above, by what the requests of its
client have added, an INCR that was repeated counted twice; a refusal is then the
client's own doing. The lemmas are about what one more request does to the size
of these sets.

`InviteBreakerProofs` is about a counter and a log. `ClosedCounts`: what a closed
breaker counts is the row of failures its log ends with, and no row of this
generation was longer than 2; `OpenHasReason` and `ClosedHasReason` keep the reason
for the last change of state, which the counters have forgotten. A call on trial is
one of the current half-open generation (`TrialsAreCurrent`), is counted
(`TrialsAreCounted`), and is alone (`TrialIsAlone`). It is the generation that keeps
the late results of earlier calls out.

`ReadsProofs` assumes that user ids are numbers and that the tables are finite,
without which a count means nothing. The invariant is about committed rows and
about what open transactions are going to commit. `HistoryIsOrdered`: a history is
in the order of its times. `UpdatesAreRecorded`: what is no longer `todo` has a
revision no earlier than its last update, and what is done one that says so.
`TransactionFits` says of an open transaction that its UPDATE is no earlier than all
that is committed for the task, its rows no earlier than the UPDATE
(`UpdateFollows`, `RowsFollow`), and that it is going to leave the revisions that
its row calls for (`WillRecord`). It is kept while others commit only by
`OneWriter`, the row lock. `SummaryCounts` takes the tasks done lately for the
audit trail's, in both directions (`DoneLatelyByTrail`). `RankingsAreFair`: a rank is one more
than the number of creators that come before, the order is total
(`RankFollowsOrder`), so the ranks are 1 .. n by counting (`RanksAreAll`); and a
month is an interval whichever moment it is found by (`RangeIsMonth`).
`PagesFollowEachOther` and `FullPagesStayTheSame` are about every order that
`ORDER BY changed_at` may give. The lemma behind both is `TimesAreInOrder`: all of
them read the same times, for else a set of positions would have to fit in a
smaller one; it takes the pigeonhole principle and no induction. For the second,
the orders of a history and those of a longer one agree on the rows before the
time of the UPDATE that made it longer (`OrdersGoOn`, `OrdersWereThere`), and a
page that a later revision follows has ended before it (`CommitExtends`).

`AccountsProofs` assumes that `Fold` is idempotent, that inputs are what they are
called, and a clock with at least one tick a second. `MiddlewareInv` is what all
requests share: `LoggingIsSound` relates the answer, the recorder and the log line,
`SeriesAreSound` the counters to the sets of logged requests and of those that are
counted but not yet as errors (`Pending`). `AccountsInv` says that the calls of a
request, its row, its refusal, its token, its use of one and its actor fit
(`JobFits` to `ActorFits`), and that no two rows have addresses that fold alike
(`OneRow`). `RefusalFits` speaks of the rows there were when the login came;
`RowFits` says that an INSERT that was applied stays the request's own although its
client may have heard 500. `TokenFits` bounds what is lost when `exp` is cut to
seconds, which gives `ExpiryIsKept`.

`GracefulShutdownProofs` assumes only that the closers can be counted.
`NoUseAfterClose` speaks of the moment after a closer ran; that it stays true
takes that no connection was left before the first one (`Drainedness`) and, from
the type invariant, that no listener is left to accept another. `CutAtExit` says
that requests are cut off only by the exit. The theorem is `NoHandlerOutlives`.

Only model-checked is liveness: `EveryRequestAnswered`, `StaleEntriesGo` and
`SignalEndsProcess` rest on fairness and so on ENABLED, which is out of reach of
the provers used here. The theorems of `Reads` are about its `Spec`, which starts
without teams; its run starts from a state that is reached from there when each member creates a
task in the first second (`MCInit`), to get further within its bounds.

## Where code and text differ

1. `task_own_only`: a member's change can be written to a task that is no longer
   hers (`service/task_service.go:78-81`).
2. `list_cache_bump`: a change can be committed without the counter being
   incremented (`docs/COVER_LETTER.md:28`). The five minutes' TTL limits it, as
   the log message of `bumpVersion` says.
3. `shutdown_closers`: at the deadline the resources are not closed
   (`platform/httpserver/server.go:1-4`). The process ends right after, which
   closes its sockets.
4. `reads_done`: a task that was moved to done before the week is counted as done
   in it once another of its fields is edited (`repository/analytics_repository.go:25-26`,
   and `README.md:107` of the repository).

## Not modelled

Generated documentation and `task_comments` have no behaviour. Of the
configuration and the connections only success or failure, their place in the
start, and the size of the pool are modelled.

Left out within modelled parts: JSON, headers, request ids, the duration
histogram, the wording of log lines and errors; how passwords are hashed and
tokens signed, taken to work, so that what bcrypt makes of a password of more than
72 bytes has no place; the 405 of the router; the role check in front of a list of
tasks, which happens before the cache is asked; time zones, so that the month of
`parseMonthParam`, local by default and UTC if given, is one calendar; the order
of rows in the reports; the total that comes with a page of history, from a COUNT
of its own; that go-redis repeats a command up to three times, where `RateLimit` has
an INCR counted twice at most; that Prometheus's counters start from 0 with the
process, where `SeriesMatchTheLog` adds them up; that a page of tasks, newest first, shifts when tasks are created
while somebody pages.

## Plan

Done, in this order: `Membership`, `TeamService` with its proofs, `TaskService`,
`TaskListCache` with its proofs, `RateLimit`, `GracefulShutdown` with its proofs,
`InviteBreaker`, `Reads`, `Middleware` and `Accounts`, the pool, the lost counter
and the start of the process; then the proofs of `TaskService` and its refinement,
`InviteBreaker`, `RateLimit`, `Accounts` and `Reads`. What is left:

1. Why nobody waits for ever, as far as it is safety: in `TaskService`, that
   whoever waits for a row or a connection waits for a request that needs neither.
2. What lies behind `StaleEntriesGo`: that a list under an old version stays out
   of reach as long as no counter is lost.
