# TimeSheetManagement: models and proofs

The repository is a time-keeping service: a FastAPI backend over PostgreSQL and
Redis (`src/backend/app`), two background workers for attendance and one for
GitHub, and a React front end (`src/frontend/src`). Users check in and out,
book time entries, and submit them as weekly timesheets that a manager
approves or rejects. This directory models the parts of the program where
several actors change the same state, on the server and in the browser, checks
them with TLC and proves the core invariants with TLAPS.

    tlc -workers 2 -config MCWeeks.cfg MCWorkforce     # any cfg of PROJECT.json
    tlapm WorkforceSafety.tla

## 1. The system

| component | state | operations | who else touches the state |
|---|---|---|---|
| time entries (`services/time_entry_service.py`) | `time_entry` rows | create (with a client key), update, delete, submit/approve/reject/reopen one entry | weeks move entries; every change recomputes the attendance day |
| weeks (`services/timesheet_service.py`) | `timesheet_period` rows | get or create, submit, approve, reject, reopen | reads and moves entries and days of the week |
| attendance (`services/attendance_service.py`, `session_service.py`) | `attendance_day`, `work_session` | check-in, check-out, recompute | weeks move days; entries feed `logged_seconds` |
| attendance workers (`workers/session_timeout_worker.py`, `attendance_reconcile_worker.py`) | none of their own | close idle sessions, close days of the past, prune idempotency keys | run beside all requests |
| status tables (`core/state_machines.py`) | none | the legal transitions | used by all of the above, bypassed by some |
| idempotency store (`core/idempotency.py`) | `idempotency_key` rows | run a handler once per key, prune | wraps check-in/out, week decisions, creates |
| locks (`core/locks.py`) | PostgreSQL advisory locks, row locks | `attendance:<user>`, `timesheet:...`, `github_project:...` | every service above, each in an order of its own |
| rate limiter (`core/rate_limit.py`) | Redis sorted sets | sliding window, fails open | |
| GitHub synchronisation (`services/github_*`, `workers/github_sync_worker.py`) | `sync_state` and the other sync columns of tasks, logs, links; the items on GitHub | pull, push, orphan, full resync; a push on request and the answers to a conflict, none of which gets past a `NameError` | task edits |
| authentication (`services/auth_service.py`, `core/oidc.py`) | Redis login states, `user_session`, a cache of the provider's document and keys | OIDC login, session, logout | provisioning of users and roles |
| users, roles, teams (`services/user_service.py`, `team_service.py`, `api/v1/admin/users.py`, `teams.py`) | `app_user`, `ims_identity`, `user_role`, `team`, `team_member` | provisioning at a login; grants, revocations, enabling, memberships by an admin | logins and admins change the same rows |
| embed settings (`api/v1/admin/sso.py`, `core/embed.py`) | one `sso_config` row, a cache of 30 s in each process | read, update, send as a header | every page reads the cache |
| reports, tasks, projects, other settings | plain rows | CRUD, read-only reports | |
| offline queue (`frontend/src/lib/offlineQueue.ts`, `useOfflineQueue.ts`) | a list in each tab, and one in `localStorage` | enqueue, flush with retries, retry, discard | several tabs; replays creates by key |

What is hard: requests run concurrently at READ COMMITTED. Locks are taken per
operation, but some reads are made before the lock (the clock in `check_in`,
every test of `create_entry`), several services write the same row with
different rules (a day is opened by check-in, closed by check-out, by the next
check-in or by a worker, moved by the week, and recomputed by entries), and
derived totals must survive every order of these. Outside the database nothing
is locked at all: Redis keys, caches in a process, the list in `localStorage`.
PROJECT.json lists the hazards at their lines with the properties that cover
them.

## 2. Modules

| module | code |
|---|---|
| `Records` | the rows all services share, the status tables, `_assert_week_is_editable`, `_recompute_totals`, the initial state and the type invariant |
| `TimeEntries` | `create_entry` (split), `update_entry`, `delete_entry`, `transition_entry` |
| `Timesheets` | `get_or_create_for_week`, `submit_week`, `_review`, `reopen_week` |
| `Attendance` | `check_in` (two branches), `check_out`, both workers, the clock |
| `PunchClock` | what attendance promises of worked time: one clock per person |
| `Workforce` | the composition, its specifications and the properties, with the mapping to `PunchClock` |
| `MCWorkforce` | model values and symmetry for TLC |
| `WorkforceProofs` | type correctness, with the lemmas on rows and days |
| `WorkforceSafety` | the inductive invariant of sessions and days, four consequences, and the refinement of `PunchClock` |
| `WeekSafety` | what may happen to an entry and to the status and logged time of a day, and what follows for entries, weeks and days |
| `IdempotentCall` | `idempotent_call` on one key of one scope, and `prune_expired` |
| `OnceStore` | what the store promises: execute once, replay or refuse |
| `MCIdempotentCall` | the bodies of the requests, for TLC |
| `IdempotentCallProofs` | the inductive invariant of the store and the refinement |
| `GithubSync` | the push worker, `push_task`, `pull_project`, `update_task` and `retry_task` on the items of one project |
| `MCGithubSync` | model values for TLC |
| `GithubSyncProofs` | type correctness of the synchronisation, three of its safety properties, and how far the finding of `v_push_settles` reaches |
| `Logins` | the login state, the callback from its two Redis commands to the commit of `provision_from_ims` and `_create_session`, `dev_login`, expiry |
| `Directory` | `Logins` composed with the requests of signed-in users: roles, status, teams, members, logout |
| `MCDirectory` | the seeded admins, tokens, operations and bounds for TLC |
| `DirectoryProofs` | type correctness of both, and their six safety properties |
| `OidcCache` | `core/oidc.py` behind its lock, with the requests that read it |
| `EmbedPolicy` | the `sso_config` row, its cache, and who reads and fills it |
| `LockOrder`, `MCLockOrder` | which operation takes which lock in which order |
| `LockProofs` | why requests of `LockOrder` may wait in a circle, and what a callback of `OidcCache` waits for |
| `OfflineQueue`, `MCOfflineQueue` | the tabs, the stored list, the sending loop, the server |
| `OfflineQueueProofs` | type correctness of the queue and its five safety properties |

The three services are modules of actions over the one set of variables in
`Records`, because the code has the same structure: services without state of
their own over shared tables.

**State.** `entry[e]`, `period[u][w]`, `day[u][d]`, `session[s]` are rows;
status `"none"` is a row that does not exist. `request[e]` is a create that
passed its tests and has not committed. `today` is the work date, dates being
numbered from a Monday. The two totals of a day are kept as the set of rows
they sum, with each row's duration: the column is the sum over that set, and a
total that omits a row, counts a deleted one or has an old duration is a
different set. `completed` says that `last_logout_at` is set.

**Atomicity.** A transaction that holds its locks from its first relevant read
to the commit is one action. This covers every operation on a week (row locks
on the period, its entries and days), `update_entry`, `delete_entry` and
`transition_entry` (row lock on the entry, which week operations also take) and
check-in, check-out and recompute (the advisory lock `attendance:<user>`).
What is read before a lock is split off:
- `create_entry` has no row to lock, so `CheckCreate` and `InsertEntry` are
  separate, and anything may commit between them; the unique constraint on
  (user, client key) is met at the insert (`ReplayCreate` when it is lost).
- `check_in` reads the clock before it waits for the lock: it works with any
  date of `RequestDates`, up to `Lag` dates old.

A request that is refused, rolled back or chosen as a deadlock victim changes
no row and is a stutter. So is one whose `expected_version` is stale:
`VersionCountsWrites` is what makes that test work.

`idempotent_call` commits between its steps, so each of its transactions is an
action of `IdempotentCall`: the insert of the row (`Claim`), the read after a
refused insert (`Refused`, `Replay`, `FindStale`), the conditional update that
takes over a lapsed lease (`Steal`, `LoseSteal`), and the handler with the
completion of the row (`Complete`) or the deletion after a rollback (`Fail`).
`Crash` may end a request anywhere, and `Prune` deletes the row by age. As in
the code, `now` is read once, on arrival, and every lease is compared with and
set from that reading; the completion names the key, not the row or the lease.
A row is identified by the request that inserted it. The handler is opaque: what
matters is whether its changes were committed (`executed`) and whose response a
request got (`answer`).

`GithubSync` has the items on GitHub (`item`), the rows made of them (`task`)
and the transactions that work on both. A push holds the advisory lock of its
project and the row of its task from its first read to its commit and calls
GitHub in between, so it is a transaction in progress (`push`) with one action
per answer: `BeginPush`, then `Fetch`, `Write`, `Refresh`. What waits for one of its locks is disabled meanwhile
(`Free`). A pull takes an advisory lock on the id of the link, not of the
project, so it runs beside the pushes; it reads a page of items (`ReadPage`),
then locks and rewrites the rows and commits (`EndPull`, which waits for the row
of a push). `Claim` is a committed transaction of the worker, after which a push
waits to start (`waiting`); `Crash` rolls everything in progress back and
forgets what waits. Four facts of the code decide most of what the model does:
- `api/v1/tasks.py` names `github_sync_service` and `github_conflict_service` and
  imports neither. Sync Now (line 247), the preview of a conflict (302) and its
  resolution (342) raise `NameError` before they push or commit anything, and
  are rolled back, so they are no actions of the model: only the worker pushes,
  and a task leaves the state `conflict` only by an edit (`UpdateTask`), a retry
  by an administrator (`RetryTask`), or when its item is archived.
- `models/enums.py` gives `SyncStatus` the members pending, running, succeeded
  and failed; the services log `success`, `conflict` and `skipped`. Each such
  line raises `AttributeError`. The worker catches it, sets the task to `error`
  and commits what the session holds. So a push that GitHub accepts ends in
  `error` with its attempts reset, and a conflict that a push records ends in
  `error` too; only a pull leaves a task in `conflict`. A pull goes on after an
  item that raised, and skips the final log line that would raise; so it commits only when some item
  raised, and never when the item of a task is missing from its page, since
  marking the task as gone raises outside that handler.
- A session that read a task before it waited for the row's lock keeps its
  copy: the locking read does not refresh it. `update_task` compares with and
  writes the columns that differ from that copy (`request`, `Updated`).
- The lease of a claimed task is five minutes from its claim, tested by the
  clock alone (`lapsed`). A stale task may be claimed
  again while its first push still waits, which is why `waiting` counts.

A description is a member of `Texts`, without the marker block that separates it
from the rest of the body on GitHub; titles, statuses and assignees, which a pull
also compares, are a set of items found changed (`others`). `unsent` is a history
variable: the tasks whose last edit neither GitHub accepted nor a pull replaced.

`Logins` and `Directory` follow a request through the reads and the commit of
its transaction, because nothing locks the rows in between. A callback
(`callback[c].at`) is `read` when it has found the login state, `consumed` when
it has deleted it (`ReadState` and `ConsumeState` are two Redis commands),
`verified` when the provider has exchanged its code and its token has passed,
`searched` when the identity was looked up, `loaded` when the account, its
status and roles were read, and commits as `EnterAccount` or `CreateAccount`,
where only the unique constraints are tested. A request of an admin is `begun`
when its roles were tested and `found` when it has read what it will change.
What it saw decides what it writes, as SQLAlchemy writes only the columns that
differ from the loaded copy: `absent` inserts, `differs` updates or deletes,
`same` writes nothing, and `gone` is a row that another request has deleted
since (an update of it fails, a deletion of it does nothing). FastAPI runs the
exit code of `get_db` before the answer is sent, so no answer precedes its
commit. `contended` is a history variable: two revocations of an admin role
have been under way at one time.

`OidcCache` is the lock of one process and what waits for it. A queue entry is
an await, not a request, which is what makes the lock not reentrant.
`EmbedPolicy` has one row, one cached list, and for each request what it has
written, read and may serve; the cache is filled over a second connection, which
sees committed rows only.

`LockOrder` forgets what the operations do and keeps which locks they take
and hold to their end, in the order of the code. A query that locks several rows
takes them in any order (`Take`, until `NextQuery`); the workers take only rows
that are free (`SKIP LOCKED`), and the timeout recomputes a day for those of its
sessions that are idle. Locks that a plain INSERT or UPDATE takes are left out:
an UPDATE comes after the lock of the list on the same row, and an INSERT waits only
for another one of the same unique key. What PostgreSQL does about a cycle is to abort one of its
members, so the time-keeping modules lose nothing by leaving cycles out: an
aborted request is a stutter.

In `OfflineQueue` a tab has its own list (`tab[t].items`), loaded once, and
`Change` writes it over `stored`, as `persist` does. A running loop is what it
has still to send (`todo`, a snapshot with the attempts of each item) and what
it sends (`sending`). The browser knows of a request that it was answered or
given up; given up, its key is in `late` and may reach the server at any later
time, or never (`Arrive`). The server is `made`, the keys it has an entry of:
`create_entry` answers a known key by that entry (that two creates of one key
leave one entry is `OneEntryPerKey` of `TimeEntries`).
An item found `syncing` when a tab loads the list (`adrift`) is not sent again:
no code makes it eligible. Nor does a discarded item leave the snapshot of a
loop that runs: it is still sent. Both are in the model as in the code. `load()`
also drops what was created more than seven days ago (`MAX_AGE_MS`), whatever
its status. Any time may pass between two loads, so each may find any items too
old (`OpenTab`, `Loaded`), which stay so (`old`); the stored list has such an
item until the tab first stores its own. A failed item may be due for its next
attempt or not. A write that `localStorage` refuses (`persist` swallows the
error) is left out.

**Abstractions.** Project, task, organisation and location validation only
refuse a request, and are left to nondeterminism (the request that would be
refused is not made). Audit rows, geo events and code links are written and
not read by these operations. Intervals are members of `Slots`, two of which
overlap when they are equal. In the time-keeping modules teams and roles
(`Manages`, `Managers`, `Admins`), zone and cutoff do not change during a
behaviour. Idleness, which
the heartbeat postpones, is nondeterministic: any active session may time out.
The batches of the workers are one action per session or day, as each row is
handled by itself. Two branches of `check_out` are not reachable and left out:
the creation of a missing day and the total it leaves unchanged when the
logout is not the latest; `CompletedDayIdle` and `CompletedDayExists` say why.

## 3. Runs

Runs that pass:

| run | instance | question |
|---|---|---|
| `weeks` | 1 user, 2 entries, 1 key, 1 session, 2 weeks of 1 day; 1.1 million states | do entries and weeks keep in step: types, `LoggedAccurate`, `OneEntryPerKey`, `ApprovedIsTerminal`, `VersionCountsWrites`, `SubmitSweepsWeek` |
| `attendance` | 1 user, 1 entry, 3 sessions, 2 weeks of 1 day, lag 1 | `OneActiveSession`, `TotalAccurate`, `CompletedDayIdle`, `CompletedTotalFinal`, the days' own status: `DayFollowsPeriod`, `DayStatusLegal`; `ApprovedDayFinal`: an approved day changes no more once nobody is at work on it; and `KeepsPunchClock`: sessions, totals and check-outs implement one punch clock per user |
| `team` | a member and an admin, 2 sessions, 3 dates in one week, lag 1, the reconcile worker fair; 520,000 states | `LockedWeekFrozen`: what a locked week says stays when another person edits and reviews; `PastDayCloses` |
| `idempotent` | 4 requests, one of them with another body, lease 2, retention 5, requests end within 1; 1.9 million states | `AtMostOnce`, `AnswersAgree`, and `OnceSpec`: the store implements the abstract one |
| `github` | 1 task, 2 descriptions, 2 attempts, 3 requests or restarts, 1 edit on GitHub; 656,000 states | `PushOwnsRow`, `ConflictIsNewer`, `PendingKept`: what the worker sends is what the row holds, and a waiting description is not overwritten; `LeaseEnds`, `EditsLeaveQueue`: no task stays claimed, and no edit waits for ever unseen |
| `accounts` | 3 accounts, 2 of them seeded admins, 2 persons, 3 addresses, 2 logins, 2 sessions, 2 callbacks, 2 requests, 1 team, at most 2 handlers at a time; 1.86 million states | `OneAccountPerPerson`, `SessionOfPerson`, `LoginCompletesOnce` over overlapping and repeated callbacks; `RolesLostByRevocation`, `AdminRemains`, `NoMembersOfGoneTeam` beside the admins |
| `offline` | 2 tabs with one entry each, 2 automatic attempts, one entry that grows too old; 997,000 states, deadlock checked | `SavedIsStored`, `KeptWhileOpen`, `SurvivesClosing`, `SyncingIsSent`: what the queue may drop; `DiscardedStaysAway`: what it may not bring back; `QueueDrains` |

Each property of a passing run has a mutant in PROJECT.json: a definition of
the code changed as a plausible mistake would change it, under which TLC finds
the property violated on the same instance.

Runs that TLC refutes, each a disagreement between the code and what its own
text says (quoted under `findings`):

| run | counterexample |
|---|---|
| `v_locked_week` | the week is submitted between a create's check and its insert; or an update moves an entry into a locked week, whose lock is not looked at. The draft is then stuck: nobody may edit or delete it until the week is rejected |
| `v_push_settles` | a claimed push is accepted by GitHub, the log line raises, and the task is in `error` instead of `synced` or `pending_push`, to be pushed again by the next tick |
| `v_login_answers` | a callback asks for the keys, which are not cached; `jwks()` calls `discovery()` with the lock in hand and waits for itself, and every later login and logout waits behind it |
| `v_embed_fresh` | the PATCH empties the cache, its own answer fills it again from the row that is still committed, and pages get the old list after the commit |
| `v_lock_order` | the timeout worker holds a session's row and asks for its user's lock, which a check-in holds that asks for the row; `update_entry` and `submit_week` meet in the same way |

Other things the models show or the reading met, which need no run:
- A day approved while a session of it is open grows by that session, whoever ends
  it, and so says something else than what was approved. `ApprovedDayFinal` says
  what does hold: after that one session nothing changes it. Entries may still
  change its `logged_seconds`, as `v_locked_week` shows.
- Sync Now, the preview of a conflict and its resolution end in a server error where
  their work would begin, as `tasks.py` lacks two imports; the repository has no
  test that calls them.
- An entry that waits in the browser for more than seven days is gone with the first
  list stored after a reload, without a word to the user (`SurvivesClosing` excepts
  the items of `old`).
- An item that the user discards while the loop runs may still be sent and become an
  entry: `DiscardedStaysAway` says only that it does not return to the list.
- `delete_entry` recomputes the day of the actor. An admin who deletes the entry
  of a member leaves the member's total wrong, so `weeks` has no admin.
  `OnlyForeignDeletesMislead` proves that this is the only step that does so.
- Two creates may pass the overlap test together, and a rejected entry's interval
  may be booked again before its week is reopened.
- `check_in` refuses every login on a day whose `last_logout_at` is set, although
  `state_machines.py` describes a user who checks out for lunch and back in
  (`MayLogin`).
- A single entry may be submitted or decided without its week; rejected in that
  way it has no route back to draft, as the `draft` target is always refused.
- A handler that runs longer than its lease is run a second time by a retry. The
  retry of an idempotent call whose insert was refused and who finds the row gone
  (`Refused`) ends in a server error.
- A pull replaces an edit whose push has failed: state `error` counts as synced.
- Since `jwks()` waits for itself, no callback of a process gets past the check
  of its token; in `Logins` that is a callback that stays `consumed`, and every
  other behaviour is that of the code with another lock. When some key of the
  provider is marked for signatures, `_select_jwk` always finds one, and the
  refresh meant for rotated keys is not reached.
- The timeout worker catches an error of the recompute and commits the closed
  session without it. With a zone that was valid at the check-in the recompute
  does not raise, so the model has no such step.
- Disabled admins count in the test for the last admin, and a `PATCH` of the user
  may disable the last one. `AdminRemains` is about the role alone.
- The list in `localStorage` is not tied to a user: what one saved is sent as
  whoever is signed in.

**Bounds.** `MaxVersion` bounds the writes of a row: with 6, a week can go
draft, submitted, rejected, draft, submitted, approved, so every status is
reached a second time and both reviews follow a reopening. `LastDate` and
`DaysPerWeek` give two weeks, so that a move changes the date and the week at
once; a third date is needed only by `PastDayCloses` (a day past the lag). Two
entries are enough for each pairwise property (key, interval, entry against
week), and an entry that was deleted or aborted leaves its key free for a
repeat. Three sessions allow a stale session, its replacement and a late one.
Durations `{0, 1}` tell a counted session from an uncounted one. In
`idempotent`, three requests with one body let two of them meet at the steal of
the lapsed lease of a third, the fourth reuses the key for another body; the clock runs
over two leases and past the retention, so that a row is pruned in the run.
In `accounts`, the two logins and three tokens make a person meet itself under
two addresses, under that of a seeded account, and a second person under its
own; three accounts leave one to be created. Two handlers at a time
(`TwoHandlers`) are what every hazard here needs, with the logins and requests
that ran before them; `TeamsFirst` keeps teams, which no login reads, from
multiplying the states of logins. Two seeded admins are the fewest with which a
revocation is not refused. Handlers, sessions and logins are interchangeable,
and the run checks no liveness, so the symmetry is sound.
In `offline`, each tab has its own entry, so one tab's list can miss the other's
entry, overwrite it, or load it and send it too. Two attempts make the ceiling
reachable, once by failures and again after a retry by hand. `LoopsApart` stops
the loops while both tabs are open with both entries made (two loops on one
key run beside each other before that, and both drawers after it); `OneAges` lets
one of the two entries grow too old, and only while no two tabs have been open.
In `github`, two requests are what it takes to edit a task that another request
has read, or to edit and retry one while it is pushed; the third may be a restart
between, before or after them. Two attempts make the
ceiling reachable both by failures and by a retry that resets it. `MaxForeign`
leaves one edit by others, after which the item changes only by the pushes
themselves: this is enough for a conflict and a second version newer than the one
recorded, and without such a bound no edit need ever be sent.
One task is enough for every property, each of which is about one task; a second
one would only compete for the project's lock, which the fairness of `BeginPush`
settles. Deadlock checking is off except in `offline`: with bounded rows every
behaviour ends, as when all sessions are used and all versions are spent.
The violation runs are as small as their counterexample: two requests, and one
user whose week has two entries in `v_lock_order`.

**Fairness.** In the time-keeping modules only the reconcile worker is fair, and only in `team`:
`run_forever` ticks every hour for as long as the process lives, catches the
errors of a tick and skips only rows that are locked at that moment. This is
weaker than it looks for one configuration, an account with an invalid time
zone, on which every tick raises (listed as a hazard). Requests, the clock
and the timeout worker have no fairness: a retry of a client that is refused
may be refused for ever.

`GithubSync` assumes that leases lapse (the clock), that the worker, which ticks
every 15 seconds, claims what it may claim for long enough, that a claimed push
gets the project's lock if it is free again and again (PostgreSQL queues its
waiters, `SF_vars(BeginPush(t))`), and that a push in progress takes its next
step, as a call to GitHub times out after 30 seconds. A batch of the worker
takes at most ten tasks, the oldest edits first; that a task behind them has its
turn is part of the assumption. Pulls, requests, crashes and GitHub have no
fairness.

`OidcCache` lets every request take its next step: the event loop runs what can
run, and the calls of the provider time out after 10 and 15 seconds. Under this
the lock is always handed on, except to the await that holds it.

In `OfflineQueue` the loop of a tab starts if it may start again and again
(`SF(Flush)`: the hook has an interval, and an effect when the browser comes
back online), sends its next item, and has its answer or its 20 seconds.
`QueueDrains` has two hypotheses that the code cannot provide: the browser is
online again and again, and the user does not press Retry for ever. Opening,
closing, discarding and the arrival of late requests have no fairness. In
`Logins` and `Directory` nothing is fair: a request may always be abandoned.

**Environment of the idempotency store.** `Tick` does not pass the end of a
request, which comes at most `RequestBound` after its arrival, and no request
arrives after `RetryUntil`. The code enforces neither: `AtMostOnce` and the
refinement hold under `Prompt` (a request ends within the lease, and before
its row can be pruned). The assumption is the condition under which the docstring's promise is true.

## 4. Proofs

`WorkforceProofs` proves `Spec => []TypeOK` for every set of people, entries,
sessions, dates and any week length, from the named assumptions of `Records`
and `Attendance` only. Each service is a lemma (`TimeEntriesType`,
`TimesheetsType`, `AttendanceType`); `RecomputedFacts` and its neighbours say
what the day helpers return and are cited by everything later.

`WorkforceSafety` proves the session and day invariants. None of them is
inductive alone: that the total of a completed day is final needs that no
session of it is active; that no session becomes active on it needs the tests
of `check_in`, which let a day without a row pass; and so that every completed
day has a row is part of the invariant, and that a user has one active session
is what lets the stale branch of a check-in close "the" session. The invariant is

    DayInv == OneActiveSession /\ CompletedDayIdle /\ TotalAccurate /\ CompletedDayExists

with `TypeOK`. Steps of entries and weeks leave sessions alone and change days
only through a recompute or a status (`EntryStepDays`, `WeekStepDays`); the
steps of attendance are taken one conjunct at a time. The theorems are
`SingleSession`, `IdleAfterCheckOut`, `TotalsAccurate` and, as an action
property from the same invariant, `CompletedTotalIsFinal`.

`ImplementsPunchClock` shows that `Workforce` implements `PunchClock`, an
abstract machine that knows nothing of entries, weeks, workers or stored rows: the
clock of a person runs on one date at a time; when it stops, one new stretch
counts on that date; a checked-out date takes no more. The running dates are those
of the active sessions, the stretches of a date are the column of its row, the
dates done are those with a last logout. Entries and weeks map to stutters: they
leave sessions, totals and check-outs alone, which for a recompute is
`TotalAccurate` (it writes the value that is there) and for a recompute of a
missing row `HaveDaysHolds` (a date without a row has no closed session). A login maps to
`ClockIn`, a stale check-in to `ClockOver`, a check-out to `ClockOut`, the timeout
to `RunOut`; the reconciliation of a day moves its status alone. `SessionMoves`
and `LoginRuns` say what each does to the sessions, `CountedSeconds` that a
session which closes counts exactly once.

`WeekSafety` starts from a case analysis, `EntryFate`: in every step of the
system an entry is left alone, inserted from its pending request, edited or
deleted while `MayEdit` allows it, or moved along the status table with its
content untouched, each write with the next version. `PeriodFate` and `DayFate` do
the same for weeks and for the status of days. Frozen weeks and terminal approval
(`LockedEntriesFrozen`, `ApprovalIsTerminal`), versions (`VersionsCount`), the status
table of days (`DayStatusesLegal`) and `KeysUnique` follow, with one auxiliary
invariant, `RequestsFresh`: a create that passed its tests has no row yet.
`DaysFollowWeeks` rests on two lemmas: a week takes with it every day that had
followed it (`WeekTakesDays`), and attendance moves only days that are absent, open
or closed (`AttendanceStatus`). `SubmissionSweeps` needs it in turn: a day that the
submission does not take must not exist, as it would follow another status of the
week. `ApprovedDaysAreFinal` puts the two modules together: the total of a day is
that of its closed sessions (`DayInv`), on an approved date without a running
session no step ends one and no login passes `check_in` (`IdleDateStep`), and the
status stays (`DayFate`). An approved entry or week never changes again; of an
approved day `ApprovalIsTerminal` says only that its status stays.
`OnlyForeignDeletesMislead` treats each operation as a write of entries, after which
the days of `RightBut` are wrong, followed by the recomputes that right them
(`Righted`, `OneWritten`). Its hypothesis is that nobody deletes an entry of
somebody else, the one case in which `LoggedAccurate` is false;
`LoggedTotalsAccurate` is its corollary for a system without admins.

`IdempotentCallProofs` proves, under `Prompt`, `ExecutedOnce`, `AnswersAreFaithful` and
`ImplementsOnce` for any requests, bodies, lease, retention and clock bound.
`AtMostOnce` is not inductive: a second execution has to be excluded for every
request that is still running. The invariant says that nobody is active past
its bound (`InTime`), that a running request has the row and its lease
(`Owned`), that two requests never run together (`OneRunner`), that the row
tells whether somebody executed (`RowTells`), and that the row keeps the body of
its owner (`BodyKept`); `Unanswered` is what the steps of the abstract store
need. Without `Prompt` the types still hold (`TypeCorrect`), and so does
`NoPhantomAnswers`: a response that is given out, late or not, is that of an
execution that was committed. That it is one of the same body is lost then, as a
late handler completes whatever row has the key.

`GithubSyncProofs` proves, for any tasks, texts and bounds, `WorkerOwnsRow`,
`ConflictsNewer` and `WaitingKept` with the type invariant. `IInv` adds to the
types that a push and a request work on rows that exist and that a push which
fetched its item knows a version of it. One case analysis (`NextStep`) shows for
every step what it may do to a row (`RowStep`: it stays, it is not touched while a
push holds it, a new conflict is newer, it does not become synced, a waiting
description changes by an edit only) and to a push of the worker (`PushKept`);
the theorems follow from these two. `NeverSyncedAgain` says how far the finding
of `v_push_settles` reaches: not only does a push that GitHub accepted end in
`error`, no later push, pull or request brings the task back to `synced`, for
any number of tasks and attempts, because every transaction that sets that state
on a row that exists raises before it commits.

`DirectoryProofs` proves all safety properties of the run `accounts` for any
accounts, persons, addresses, tokens, operations, and any number of callbacks
and requests at one time, where the run has two handlers. The invariant has one
part for each subject:

    IInv == TypeOK /\ LoginInv /\ PeopleInv /\ GrantInv /\ AdminInv /\ TeamInv

Each part adds to its property what a handler in progress knows of rows that it
does not lock. `LoginInv`: the state of a callback that has deleted it stays gone
(`StateGone`), and of the callbacks of one login one at most has redeemed the
code, before any session of it (`CodeSpent`), which is why reading and deleting
the state in two commands does no harm as long as the provider takes a code
once. `PeopleInv`: what a callback has found of an account still holds when it
commits (`AccountFound`), or a unique constraint refuses it. `GrantInv`: the
account a request has found is still there, so that only accounts have roles
(`GhostRoles`). `AdminInv`: while one revocation of an admin role is under way
there are two admins; here the proof needs that no second one is, and the
assumption of `Logins` that the seed has an administrator. `TeamInv`: the
membership a request means to change is there until somebody deletes it, and then
the request knows it as `gone` (`JoinFound`); a new one is refused by the foreign
key when the team is gone. `RolesKept` is a case analysis over the steps.

`OfflineQueueProofs` proves all safety properties of `offline` for any tabs,
entries and number of attempts, without the bounds `LoopsApart` and `OneAges` of
the run. Saving, sending, answers and what the user does in a tab are all one
abstract step (`Edited`): it changes the list of one open tab, stores it if it has changed, and
says of each entry what may become of it (`FateStep`) and of its item
(`ItemStep`); `EditedKeeps` shows once that such a step keeps the invariant.
`KeptWhileOpen` needs that the tab an entry is queued in is open (`QueuedOpen`);
`SurvivesClosing` needs that while no two tabs have been open the open one
has everything that is queued and was not found too old by a load (`OpenAlone`),
so that what it writes over the stored list loses nothing else, and that what
nobody has queued is in no list (`NewUnlisted`), so that a new item always changes
the list and is stored. `DiscardedStaysAway` is inductive with these: what a load
or a loop puts into a list was there before.

`LockProofs` has four theorems about what the refuted runs show on two requests.
`NoKeysEver` and `WaitsForItself` are `v_login_answers` for any number of
requests: the key set is never cached, and a callback that waits for itself keeps
the lock for ever. The invariant (`KeysInv`) says who may be at the head of the
queue. `CirclesHaveOneCause` explains `v_lock_order`: for any requests, entries and
finitely many users, each entry of one user, every circle of requests that wait for
each other has one that holds rows and waits for the lock of a user. The invariant
`InOrder` ranks the locks (user, week, week row, entries, session, day) and says
that what a request has still to lock ranks above what it has before, save for that
case and for rows of equal rank, which are guarded: the entries of one query by
the lock of their week, the days of a timeout batch by the lock of each user.
A circle without the one cause is then impossible (`InvBreaksCircles`): of the
locks it waits for take one of the greatest rank; its holder waits for a guarded
row, the holder of that row waits too, and both would have the lock that guards it.
`OthersNeverCircle` is what follows for the system without its two culprits, the
edits of entries and the timeout worker: no request ever waits in a circle, as
`core/locks.py` says. To repair it, these two would lock the user first.

The type invariants of `IdempotentCall` and `GithubSync` are the theorems
`TypeCorrect` of their proof modules.

Only model-checked: the liveness properties `PastDayCloses`, `LeaseEnds`,
`EditsLeaveQueue` and `QueueDrains`, because liveness under fairness is beyond the
proof system, like `ENABLED` and induction over data. Every invariant and every
action property of a passing run, and both refinements, are proved. The violation
runs have no theorem of their own property, which is false; `LockProofs` says how
far it is. No module declares a RECURSIVE operator; the totals are sets for that
reason too.

## 5. Plan

1. Done: the time-keeping core above, its runs, type correctness, the session
   invariants and the refinement of the punch clock.
2. Done: the proofs about entries, weeks and the status of days.
3. Done: `IdempotentCall` with its refinement and proofs.
4. Done: `GithubSync` on the tasks of one project, with proofs of its safety
   properties. Left: the pages of a pull and the full resync, whose lock lapses
   after 900 seconds though the resync may go on.
5. Done: `OfflineQueue`, several tabs over one `localStorage` against a server
   that answers, fails or loses the answer, with proofs.
6. Done: `LockOrder`, `OidcCache` and `EmbedPolicy`, each for one disagreement,
   the first two with proofs of its extent.
7. Done: `Logins` and `Directory`, with proofs.
8. Left: the work-date arithmetic over zones and cutoffs, and what changing them
   does to totals; teams that change while a week is in review (the composition
   of `Directory` with `Timesheets`).

Not modelled: read-only reports, the user interface, distance arithmetic in
floating point, URL parsing, configuration, audit rows, and the rate limiter,
which is one script that Redis runs as a whole. Each is listed with its reason in
PROJECT.json.
