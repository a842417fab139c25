# Verification of py_app_runner

py_app_runner is a Python framework for services: a job queue with PostgreSQL
and redis drivers, a migration runner, a cron runner, websocket bridging, tick
services, throttling, auditing, API keys and field encryption.  This directory
holds TLA+ models of it, the TLC runs that check them and the TLAPS proofs.
Paths below are relative to `src/src/py_app_runner/` unless they start with `src/`.

The models cover the job queue on both drivers, the migration runner, the cron
runner, the identity of bridge requests, the websocket connection manager and its
tick service, audited writes with key rotation and pruning, and the throttle.
All of them are also proved about (section 4).

## 1. Inventory

| Component | State | Operations | What is hard | What makes it correct |
|---|---|---|---|---|
| Queue worker (`queue/worker.py`, `job.py`, `handler.py`, `_service.py`) | `should_quit`, consecutive failures, jobs run, the job in hand | the `run` loop, `_run_job`, `_job_failed`, `stop` | claim and handler have separate clocks; cancellation, signals, death at any await; lost replies | every job ends; asked to stop, it stops; gives up after five failures in a row |
| PostgreSQL driver (`queue/driver_pg.py`) | `queue_jobs`, `queue_failed_jobs` | push, reserve, delete, release, fail, retry, forget | reserve is several statements; takeover of expired claims; operators racing workers and each other; push inside the caller's transaction | one holder per claim, only it ends the job; nothing lost, nothing copied; attempts bounded |
| redis driver (`queue/driver_redis.py`) | job hashes, delayed sets, one stream per priority, unique keys, failed set | seven Lua scripts | a job may be in the delayed set and a stream at once; two clocks (the client's `now` and XAUTOCLAIM's idle time); reuse of ids by retry | as above; every live job can be found by a reserve; a unique key belongs to one job |
| Queue interface (`queue/interface.py`) | - | the driver protocol | - | both drivers implement one abstract queue |
| Queue command line (`queue/commands.py`, `_service_args.py`) | - | work, retry, forget, install, status, failed | retry and forget run beside workers | see drivers |
| Migrations (`migrations/`) | tracker table or sqlite file, lock (advisory lock / flock), files on disk | apply, baseline, repair, status, new | two deploys at once, death between a migration and its record, files edited meanwhile, repair takes no lock | a migration runs once, in order; what is recorded has run; exit 0 means applied |
| Cron (`cron/`) | a lock per job (advisory lock or file), table of running children | minute loop, tick, spawn, kill, stop | a stop while a child is being spawned; a slow job and its next minute; a lost database session | a job never overlaps itself; a tick that ends leaves no child and no lock; asked to stop, it stops |
| Websocket manager (`wbcm/`) | connection maps, stream position | register, assign, unregister, stream reader, fan-out, close sessions | two threads on the same maps without a lock; start position `$`; messages that raise | a message is worked on once; a connection is in one list; a revocation closes its sessions |
| Websocket bridge and HTTP calls (`bridge/`, `request_handler/handlers.py`) | per connection: token, key record, users, cached `current_user` | prepare, open, on_message, recheck, on_close, the HTTP call | every handler awaits; close, revocation or expiry between any two awaits | nothing stays registered after close; what was revoked stops serving; a token wins over a key |
| Tick service, timer (`tick_service.py`, `timer.py`) | tasks, loop flag | run_loop, tick, stop_loop, shutdown | stop racing a tick | the loop survives a tick that raises; shutdown ends |
| Throttle (`throttle/`) | one counter and window per key | hit, check, clear | window measured by the callers' clocks; answers and expiries lost; redis down (fail-open); whose address counts | bursts and lockouts are bounded; a client pays for itself only |
| Audit (`audit/`) | audit rows | audited insert, update, delete, prune | rows read before they are changed | every change is recorded with what it replaced |
| API keys (`api_keys/`) | key rows | issue, rotate, revoke, check | check against a revocation in flight | a revoked key is refused |
| Field encryption (`crypto/`) | envelopes in application tables | encrypt, decrypt, rotate | rotation in batches beside writers | no row is lost or left under a dropped key |
| Runner, configuration, utilities | - | start-up wiring | little shared state | - |

Interaction: application code and the request handlers push jobs; `queue work`
runs a worker that calls the configured driver; migrations install the queue,
audit and key tables; cron runs shell commands, `queue work --stop-when-empty`
among them; the bridge uses the connection manager, API keys and the throttle.

## 2. Modules

| Module | Models | Extends |
|---|---|---|
| `QueueWorker` | `worker.py`, `job.py`, `handler.py`, signals and process life of `_service.py`; no driver | - |
| `PgQueue` | `driver_pg.py` with its workers and operators | `QueueWorker` |
| `PgPush` | `push(unique=...)` of `driver_pg.py`, statement by statement, in and out of a caller's transaction | - |
| `RedisQueue` | the Lua scripts of `driver_redis.py` and their callers, with workers and operators | `QueueWorker` |
| `JobQueue` | what `interface.py` promises: an abstract queue | - |
| `PgQueueRefines`, `RedisQueueRefines` | the refinement mappings to `JobQueue` | the driver |
| `Migrations` | `migrations/`: apply, dry run, baseline, repair, status, new | - |
| `Cron` | `cron/`: `cron work`, `cron run`, `Executor`, locks and children | - |
| `Bridge` | `bridge/api.py`, `bridge/websocket.py` and the identity part of `request_handler/handlers.py` | - |
| `Relay` | `wbcm/`, `tick_service.py` as the manager uses it, the end of a bridge process | - |
| `Records` | `audit/` (changes and prune) and `crypto rotate` on one table | - |
| `Throttle` | `throttle/throttle.py`, `@rate_limit`, `request_handler/client_ip.py` | - |
| `QueueWorkerProofs`, `PgQueueProofs`, `RedisQueueProofs`, `MigrationsProofs`, `CronProofs`, `BridgeProofs`, `ThrottleProofs` | theorems | the module (the refinement of the two drivers), `TLAPS` |
| `SharedStateProofs` | theorems about `PgPush`, `Records` and `Relay` | the three, `TLAPS` |
| `MC...` | the instances TLC checks | the module |

`QueueWorker` keeps what one process keeps for itself.  Its operators prime only
the worker's variables; a driver conjoins its own step with the operator that
says what the worker does with the answer (`ReserveReturns`,
`ReserveReturnsNone`, `ReserveRaises`, `Settled`).  `pc` is the place in `run`:
`top` (the `while`), `reserve`, `discard` (an undecodable payload is being
failed), `start` (a claim has been committed, the handler not yet entered), `run`
(inside `asyncio.timeout`), `settle` (the delete, release or fail call), `rest`,
and the ends `exit0`, `exit1`, `dead`.  `faults` counts what nobody ordered: a
crash, a cancellation, a signal, a reserve that raises.  A reserve may also raise
after its claim was committed (`ReserveError` at `start`): the lost reply.

`PgQueue` takes one step per committed statement.  The reserve transaction is
split: reading `moment` (`BeginRound`), SELECT ... FOR UPDATE SKIP LOCKED
(`FindCandidate`, `FindExhausted`, `FindNothing`), and the guarded UPDATE with its
COMMIT (`Claim`), the row locked in between.  A settle waits for the lock and then
lets its WHERE decide.  `queue retry` is its SELECT and then one transaction per
row; it may be interrupted between rows.  Each worker has a clock of its own
(`Skew`), and worker ids may be shared, because `host:pid` is cut to 64 characters
and containers often have pid 1.

`RedisQueue` runs `_RESERVE` as a promotion step and one step per round with
`script` held, so that nothing interleaves; every other script is one step.
Streams are one function from entry ids to entries; `since` is the server time of
the last delivery, which XAUTOCLAIM measures.  The client's `moment` is read
before the script is sent, and may have passed when it runs.

`PgPush` is separate from `PgQueue` because a push takes up to three statements
on the caller's connection; together with the workers the instance would be too
large.  Where `PgQueue` pushes at once and without a key, `PgPush` lets jobs just
end.  READ COMMITTED visibility, the waiting of the unique index and the aborted
transaction are PostgreSQL's, and external.

`JobQueue` knows only waiting, held, failed, done and gone, who holds a job and how
many attempts are left.

`Migrations` splits a command where others can observe it: taking the lock, listing
the directory, the SELECT on the tracking table, each file's transaction (or, for a
file marked no-transaction, its statements and its INSERT apart), the UPDATE of a
repair.  `proc[d]` is one invocation, on every target or on the one of `--target`; it may
fail at any step or die, which frees the lock and rolls back.  Each deployer lists the
checkout it runs from (`CheckoutOf[d]`; two may share one), and files are added, edited and
removed in any of them at any time; a checksum is the content itself.  A target is configured as a name of a
database (`_database_identity`) and a table; `Physical` says which database a name
reaches.  The check at start-up (`SharedTracking`) compares names, the tracking tables and
the advisory lock belong to databases.  The queue of files is a set
(`plan`) from which `First` takes the one with the smallest name, which is what the
`sorted` of `compute_states` comes to; a sequence sorted by name could be defined only by
recursion, about which nothing can be proved here.

`Cron` has the `cron work` loop, ticks (`cron run` processes, also started by hand
or elsewhere), and for each tick and job the place of `_run_one`: `acquire`, `spawn`,
`born` (the child exists and `create_subprocess_exec` has not returned), `wait`,
`grace` (after SIGTERM), `killed`, `release:...`.  The kernel's part is explicit:
`told` is the strongest signal a child got, `child` its state.  A tick may die or
lose its session, and with it its locks; or `try_lock` raises because a lock file cannot be
opened (`AcquireRaises`), which ends the tick with its other jobs still running.

`Bridge` describes one handler object per connection as a record; operators such as
`Ensure`, `LooksUp`, `Clear`, `ApplyKeyUser` and `Forget` take the object and return it
as the code leaves it, and an action runs from one await to the next.  Administrators
disable users, change and revoke keys and clocks expire tokens and keys between any
two steps; `on_close` may run at any await of a socket, that of `prepare` included, after
which `open` runs and registers the socket all the same (`cut`).  An `open` that raises is
cleaned up by nobody.  `old` and `msg.old` are history: what was already out of service
when the recheck interval last went by; `moved` remembers that a recheck brought the key's
record back with another user.  `LooksUp` takes the two lookups of a token (the user, then
the impersonating administrator) as one answer and stamps `checked_at` with it, so by the
clock the bound of `ServedFresh` is the interval and the duration of these lookups.

`Relay` runs two threads on the same two maps without a lock: the web server's (open,
assign, clear, close, and the callbacks it was handed) and the manager's (read, work,
walk a user's list, look each connection up again, schedule the write or the close).
The manager's position is `-1` for `$`.  A connection that leaves a list shifts the entries
behind it; `skipped` remembers whom such a shift moved to an index the walk had passed.
Stopping is `stop_loop` on one loop and `shutdown` as a task on the other, whose end may
cancel the task.

`Records` is a table under READ COMMITTED: a statement sees what was committed when
it began and waits for locked rows.  An audited change is its SELECT ... FOR UPDATE,
its UPDATE with the condition evaluated again together with the events, and the
commit or rollback.  Rotation and pruning are one statement per step; a rotation's page is
the set of the rows it read, taken in the order of their ids (`IsNext`).  The model
assumes that every process already writes under the current key, as the rotation's
documentation requires.

`Throttle` splits `hit` into the reading of the clock and the script, which runs at
most `MaxDelay` seconds later; the processes' clocks differ by at most `MaxSkew`; an
expiry works in whole seconds.  Redis may fail before or after the script ran, and may
lose a key's expiry.  The address of a caller is the code's: its peer unless that is a
trusted proxy, else the walk over X-Forwarded-For from the right, else X-Real-IP.  A trusted
proxy either appends the peer it sees to X-Forwarded-For or drops that header and sets
X-Real-IP; what a client sends of the two is up to it, addresses of proxies and text that is
no address included, and trusted hosts send requests of their own, with no header.  `check`
reads only, so it is an operator.

Several properties are a conjunction of named parts, of which the first is the
module's type invariant (`JobsKept == TypeOK /\ ...`); each part has a mutant.

## 3. Runs

| Run | Instance | Checks |
|---|---|---|
| `pg_claims` | two workers with one shared id, clocks one second apart, claim of 2 s, two faults, one operator, two attempts | `TypeOK`, `OneHolder`, `CandidateStable`, `NoJobLost`, `AttemptBudget`, `OneCopy`, `SettledByHolder`, `ClaimKept`, `ImplementsJobQueue` |
| `pg_liveness` | one worker with `--max-jobs 1` that is restarted under its id, two rows in two queues, either of which may not decode, one or two attempts, one round per reserve, backoff, one fault | `EventuallyEnds`, `StopsWhenAsked` |
| `pg_push` | three callers (one in a transaction), two keys | `PushesOnce` |
| `redis_claims` | two workers, clocks apart (so entries are parked), one operator, one or two attempts, a unique key | `JobsKept`, `NoOrphan`, `KeyOwner`, `ImplementsJobQueue` |
| `redis_liveness` | two workers with one shared id and equal clocks, one job of either priority, which may not decode, backoff, one fault, no operator | `CrashSafe`, `EventuallyEnds` |
| `migrations` | two deployers, two checkouts, two targets in one database with tables of their own or one table, two names, contents that run, run without a transaction, are refused or do not load; two starts, one edit, one fault | `RunsOnce`, `RecordedIsTrue`, `AnswersTrue`, `AdviceIsOwn`, `InOrder`, `ListingHolds`, `CommandsEnd` |
| `cron` | the loop, two ticks, one job with a timeout that ignores SIGTERM, one fault | `NoOverlap`, `EndsClean`, `CommandsEnd` |
| `bridge` | one handler, HTTP or socket; two users, a token and an impersonating token, a key and a forged one; two changes, one interval, one failed lookup | `MapsBacked`, `ServedFresh`, `ServedAsSaid` |
| `relay` | two connections, two users, two messages (a revocation with a source, one for everybody), one failed read | `WorkedOnce`, `ListsServe`, `ManagerGoesOn` |
| `records` | three rows in two groups (or two and an insert), two transactions, a rotation in pages of two or two prunes in batches of one, two changes, limit of two rows | `TrailTrue`, `NothingLeft`, `CommandsEnd` |
| `throttle` | two processes one second apart; limit 1, window 3, delay 1, three scripts, one failure; a client with an address, one without, an appending proxy and one that sets X-Real-IP; up to three hops, up to two X-Forwarded-For entries and an X-Real-IP of the client's own | `LimitKept`, `LockoutEnds`, `ChargedToSender` |
| `pg_double_retry` | the smallest instance with two operators | `OneCopy`, violated (section 6) |

What the properties say, on the queue:

* `OneHolder` - at most one live process passes the ownership test of a job.
  Shared worker ids are what makes this delicate: only the attempt count tells
  two claims of "the same" worker apart.
* `CandidateStable` - nothing happens to a row between its SELECT and its UPDATE,
  so the `if not claimed` branch is dead code as long as the lock is taken.
* `SettledByHolder` - a late delete, release or fail after a takeover does nothing.
* `ClaimKept` - a worker that does not move loses its claim only after
  `reserved_until`, on some worker's clock.
* `AttemptBudget` - a job that kills its worker each time is handed out at most
  `max_attempts` times.
* `NoJobLost` - a pushed payload is stored, or its handler returned, or an operator
  forgot it.  `OneCopy` - and it is stored once.  `FailedAtRest` - a failed job has its hash and no holder.  `JobsKept` is
  these, the budget and the types, for redis, and `CrashSafe` adds `NoOrphan` and
  `OneHolder` where processes die.
* `NoOrphan` (redis) - a live hash is in the delayed set or has a stream entry.
  `KeyOwner` - a unique key and its job point at each other, on all paths that
  complete, fail, exhaust, forget or requeue.
* `PushesOnce` - a key names one job, committed or not (`OneJobPerKey`), and push returns
  the caller's own row or one that workers could see (`ReturnedIdIsReal`).
* `EventuallyEnds`, `StopsWhenAsked` - liveness, see below.
* `ImplementsJobQueue` - refinement of the abstract queue: among others, nothing is
  stored twice and only a holder ends a job.

On the rest:

* `RunsOnce` - a migration's transaction commits once per target whoever applies, and
  a file without a transaction runs again only after a failure or a death.
  `RecordedIsTrue` - a row carries a content that was executed or stamped, although files
  change between listing and execution.  `InOrder` - a file runs only when every earlier
  file of its listing is recorded.  `AnswersTrue` - exit 0 of an unlimited apply or of
  `status --check` means that every target asked for was visited and every file found there
  is recorded (`SuccessMeansApplied`).  `AdviceIsOwn` - the row that apply advises to delete
  is one of its own target, and not of a migration that another target applied.
  (It may well be the row of a migration that ran: to a checkout that lacks the file, an older
  one for instance, it is MISSING by design, and the advice is conditional on the
  operator's knowledge, `commands.py:133-138`.)  `ListingHolds` - from the listing of an apply or a
  baseline to its last row nobody else adds rows to that table.  `CommandsEnd` - nobody
  waits for the lock for ever.
* `NoOverlap` - two children of one job live at once only when a scheduler died, lost its
  session or could not open a lock file.  `EndsClean` - any other tick that ends leaves no
  child and no lock, and exit 0 is true of its children and of the ticks of `cron work`.
  `CommandsEnd` - ticks end, and `cron work` once it was told.
* `MapsBacked` - a closed socket is in no push list, and is still among the connections only
  when it was cut off before `open` had returned (`NoGhost`); between messages it is in at most
  one list, that of the user its token or else its key stands for, or that key before its
  record came back with another user (`FanBacked`; the last case is item 6 of section 6).
  `ServedFresh` - what was out of service for a whole recheck interval, or expired, when a
  message came does not serve it.  `ServedAsSaid` - a message with a token runs as that
  token's user or nobody (`TokenWins`), and not as one that `current_user` had cached
  (`SeesCurrent`).
* `WorkedOnce` - from the first message it reads, the manager works on each message up to
  its position once, whatever raised.  `ListsServe` - a connection is in one list
  (`OneList`), and when a revocation has sent, everyone who was in the list at every look is
  closing, but for those that a departure moved behind the walk (`RevokeCloses`; that these
  are missed is item 3 of section 6).  `ManagerGoesOn` - the manager catches up, and
  ends with its process.
* `TrailTrue` - until the commit the rows a change read are the rows it replaces
  (`OldValuesTrue`), and a row is what its last event says, its key apart, unless a change
  wrote it without an event (`TrailExplains`).  `NothingLeft` - after a rotation that exits
  0 no value is under the old key.  `CommandsEnd` - rotation and prune end.
* `LimitKept` - of any `2 * Limit` allowed attempts on a key the last comes at least a
  window, less skew and delay, after the first (`BurstBound`); what `check` refuses, `hit`
  refuses (`PeekIsSound`).  `LockoutEnds` - no attempt is denied later than a window, the
  skew and the delay after the attempt that opened the window.  `ChargedToSender` - no
  anonymous attempt is counted under another client's address, whatever headers it came with.

**Bounds.** One job and two workers meet every conflict over a claim: all steps on a row
concern one row, and a third worker adds only a second loser. Two attempts are one
takeover and one exhaustion. Two faults let a worker lose its reply and die, or a signal
meet a crash. `MaxNow` covers claim, expiry, takeover and second expiry; `MaxIds` one
retry. Time passes only while some timestamp is ahead, which keeps idle time out of the
state. `CLAIM_ROUNDS` is 5 and `PROMOTE_LIMIT` 50 in the code. In `pg_liveness` one round
stands for the five, and two rows are enough to use it up: an undecodable or an exhausted
row at the head of a queue uses up the round of a reserve while the other row waits behind
it or in the second queue. One worker is enough there, since the others could only help;
it dies with a job and takes it over under the same id after its restart, and two workers
that meet over one claim are `pg_claims`. On redis, with one job, no run reaches either
limit: `NoOrphan` is proved for all values of both, and `EventuallyEnds` is checked only
below them. (`MCRedisLiveness.cfg` with `Workers = {w1}`, `Delays = {0, 1}`, `MaxIds = 2`,
`ClaimRounds = 1`, `MaxEntries = 8` and `MaxNow = 10` reaches both, and passes as well.)
`redis_claims` has no faults: to the store a dead worker is one that takes no more steps,
and the return of a process under the same id is in `redis_liveness`. In the liveness runs
`MaxNow` and, for redis, `MaxEntries` are large enough that no behaviour is cut off; a
bound too small would show as a violation. Two deployers and two starts are one that acts
and one that meets what it left; two checkouts are one that has a file and one that does
not; one edit and one fault each meet every step. Two ticks are a minute and the next. One
handler is enough for `Bridge`, since handlers share only the tables that others change.
In `Relay` the second connection is the one that leaves while the first is looked up. In
`Records` three rows are a full page and one more. In `throttle` two allowed attempts lie
in two windows and a third is denied, or meets a count whose expiry redis lost, and
`MaxNow` covers a window, the skew and the delay; a burst over the boundary of two windows
needs a limit of two at least, and is covered by the theorem. Three hops hold both kinds
of proxy in either order and a third behind them.

**Fairness.**  `FairSpec` of `PgQueue` is weak fairness of the clock and of each
worker's own steps.  That stands for: an event loop that goes on, statements that
end, `asyncio.timeout` that ends a handler, a supervisor that restarts what ended.
A handler that blocks the event loop or swallows its cancellation is excluded.
Pushes, operators and faults are under no obligation, and faults are finitely many.
`RedisQueue` uses strong fairness: a client's command is disabled whenever another
client's script is between two of the model's steps, which is an artefact of splitting
the script; the server answers every queued command in turn.  `StopsWhenAsked` under
this fairness says that a request is seen wherever the worker is.  `EventuallyEnds`
on redis is checked without `queue retry`, which may requeue a job for ever.
`Migrations` asks it of each deployer's steps, lock included: every holder ends or
dies, and starts are finitely many.  `Cron` asks it of the
scheduler's steps, of the timeouts and of the kernel (a child that was killed, or told
to end and not stubborn, ends); a job without a timeout may run for ever and is under no
obligation.  `Relay` asks it of the manager's thread and of the process's end, `Records`
of the rotation, the prunes and the end of each transaction; `StatementFails`,
`PruneFails` and the application's changes are under none.

`CHECK_DEADLOCK FALSE` stands where a behaviour is over when its commands, messages,
time or changes are used up: the runs of `Migrations`, `Cron`, `Bridge`, `Relay`, `Records`,
`Throttle` and `PgPush`.

## 4. Proofs

All theorems hold for every value of the constants that satisfies the assumptions named
in the modules (types, signs, and nulls that are no members).  No theorem depends on
symmetry, on fairness or on the bounds of a run: `MaxStarts`, `MaxFaults` and the like are
arbitrary numbers.

### The queue on PostgreSQL (`PgQueueProofs`)

For every set of workers, ids, clock offsets, queues, budgets, limits and operators
(`WorkerAssumption`, `PgAssumption`):

| Theorem | Statement |
|---|---|
| `TypeCorrect` | `Spec => []TypeOK` |
| `ClaimsAreExclusive` | `Spec => []OneHolder` |
| `CandidatesStayPut` | `Spec => []CandidateStable` |
| `BudgetIsKept` | `Spec => []AttemptBudget` |
| `OnlyHoldersSettle` | `Spec => SettledByHolder` |
| `ClaimsAreKept` | `Spec => ClaimKept` |
| `NothingIsLost` | `Spec => []NoJobLost` |
| `JobsAreNotCopied` | `OneOperator` implies `Spec => []OneCopy` |
| `TablesImplementJobQueue` | `OneOperator` implies `Spec => ImplementsJobQueue` |

The inductive invariant is `TypeOK /\ GivesUp /\ ClaimInv /\ LossInv`.

* `GivesUp` - only an exited worker has reached its failure limit; without it the
  range of `failures` is not inductive.
* `TokensUnique` - no two workers remember the same (job, attempts).  It implies
  `OneHolder` without mentioning worker ids, which is why they may be shared.  To
  keep it when a claim is made, the new attempt count must be one nobody has:
* `TokensBounded` - no worker remembers more attempts than its row has, nor an id
  not yet given out, and the row still carries the payload it was given.
* `CandidateStable`, `MomentPast` - the row a transaction has locked is there, is
  expired at `moment`, has an attempt left, and is locked by this transaction alone;
  `moment` is not in the future.  These make `Claim` keep `AttemptBudget` and give
  `ClaimKept` its clock.
* `SelectedRows` - a failed row selected by a retry is, if it still exists, the row
  it was; so the DELETE of a retry removes only what its INSERT has just copied, and
  nothing is lost even when two operators retry the same row.
* `DeletesWhatRan` - whoever is about to delete has had its handler return.

`QueueWorkerProofs` shows that the worker's steps keep its types whatever the driver
does.  In `PgQueueProofs` every step but the SELECT and the claim satisfies `Frame`:
nobody comes to hold a job (`NoNewHolder`), rows keep count and payload
(`RowsKept`), open transactions keep their rows (`LocksKept`).  `FrameInv` then
proves `ClaimInv'` once for all of them; `LetsGo` is the common form of the steps
in which a worker drops what it has.  SELECT and claim have proofs of their own.
The two action properties follow from the invariant with one step per action.

The last two theorems assume `OneOperator`: at most one process runs `queue retry` or
`queue forget` at a time.  Without it both are false, which is finding 1 of section 6 and
the run `pg_double_retry`; `pg_claims` has one operator.  `CopyInv` adds to the
invariant that a payload has one row in one table and none once it was forgotten, and that
what a retry selected is still there - the part a second operator breaks.

The refinement rests on `Mapped`: what the mapping gives for a payload that was never
pushed, has a row, has failed, or is over.  With it each concrete step is compared with
the abstract one on the payload it concerns, and every other payload is shown to be mapped
as before (`OthersStill`).  There is one lemma per abstract action (`PushStep`, `ClaimStep`,
`SettleStep`, `ExhaustStep`, `MoveStep`, `WaitsStep`, `RetryStep`, `ForgetStep`,
`AbandonStep`) and `StutterStep` for what the abstract queue does not see.

### Unique pushes (`SharedStateProofs`)

| Theorem | Statement |
|---|---|
| `KeysNameOneJob` | `PushSpec => []PushesOnce` |

The invariant is `PushTyped /\ MineReturned /\ RowsQueued /\ OneJobPerKey /\
ReturnedIdIsReal`.  `MineReturned` - an uncommitted row belongs to a transaction whose push
has returned that row's id, so its key does not change while others wait for it.
`RowsQueued` - every committed row was visible to workers, which is what makes the id found
by a SELECT a real one.

### The queue on redis (`RedisQueueProofs`)

| Theorem | Statement |
|---|---|
| `LiveJobsAreFound` | `Spec => []NoOrphan` |
| `KeysHaveOwners` | `Spec => []KeyOwner` |
| `BooksAreKept` | `Exclusive` implies `Spec => []JobsKept` |
| `CrashesAreSafe` | `Exclusive` implies `Spec => []CrashSafe` |
| `ScriptsImplementJobQueue` | `Exclusive` implies `Spec => ImplementsJobQueue` |

`Exclusive` says that there is no operator, or no two processes go by one id.  It is what
the code needs: `_REQUEUE` sets `attempts` back on the same id, so a claim from before a
failure may equal one from after it (item 14 of section 6).  `redis_claims` satisfies the
second disjunct, `redis_liveness` the first.

`BaseInv`, which needs no such hypothesis, is about what is stored: `Linked` (an id is only
ever queued under the queue of its hash; without it an entry found in another queue's
stream would not keep its job from being an orphan), `FailedKeyless` (a failed job has
given up its key; without it a requeue or a discard could leave a key that points at
nothing), `ScanTyped` (a script belongs to a process that is in `reserve`), and `Remembers`
(what a worker remembers of its job - payload, stream entry - is true of that job,
whoever holds it now; so its settle touches only that job's entry).

`ClaimInv` is about who may settle: `TokensBounded` and `TokensUnique` as on PostgreSQL, but
relative to the id the hash is held under, because a retry sets the count back; `PlanInv`
(only an exhausted job is about to fail, only an undecodable one to be discarded); and
`FailedInv` (a failed job cannot be claimed, unless it is undecodable, in which case it is
failed again).  Both were checked by TLC on the two redis instances before they were
proved.

The refinement adds `OneCopy` to the two: a payload has one hash at most, and none once it
was forgotten (`_FORGET` removes the hash, and no script makes a second one of the same
push).  As on PostgreSQL it rests on `Mapped`, what the mapping gives for a payload never
pushed, failed, live or over; the lemma `Still` says of which part of the store a payload's
image is made.  Steps that only move entries between stream, delayed set and tombstones,
such as promotion and parking in `_RESERVE`, leave that part alone and are stutters
(`StutterStep`).  The others have a lemma each: `PushMaps`, `ClaimMaps`, `SettleMaps`, `ExhaustMaps`,
`RequeueMaps`, `ForgetMaps`, with `FailStep`, `WaitsStep` and `AbandonStep` for what several
of them do to one job.  That payloads decode is not assumed: a failed job is nobody's in the
mapping, so an undecodable one that is claimed and failed once more does not move the
abstract queue.

### Audited changes and rotation (`SharedStateProofs`)

For every set of transactions, rows and groups and every page size (`RecordsAssumption`):

| Theorem | Statement |
|---|---|
| `TrailTellsTheTruth` | `RecordsSpec => []TrailTrue` |
| `RotationIsComplete` | `RecordsSpec => []NothingLeft` |

The inductive invariant is `RecordsInv == RecordsTyped /\ ChangesOK /\ TrailExplains /\
RotationOK`.

* `ChangesOK` - a transaction has locked what it read and what it wrote, and what it read
  is what the table holds (`ReadIsKept`), so the WHERE of its write still matches those rows
  and every one of them is written; at the commit there is an event for each (`ChangeOK`).  A
  lock belongs to a transaction under way (`LocksOwned`).
* `RotationOK` - whatever is still under the old key is ahead of the rotation (`Ahead`):
  beyond the cursor, or on the page exactly as it was read and not yet taken, or beyond a
  page that was full.  "As it was read" is what the guarded UPDATE of the rotation compares,
  so a row that is skipped because it changed was written by the application under the
  current key.  `OldDecays`, which every step satisfies, says why: nothing becomes old
  again, and an old value does not change.

### The connection manager (`SharedStateProofs`)

For every set of connections and users and any number of messages (`RelayAssumption`):

| Theorem | Statement |
|---|---|
| `NoMessageTwiceOrSkipped` | `RelaySpec => []WorkedOnce` |
| `ListsServeTheirPurpose` | `RelaySpec => []ListsServe` |

`RelayInv` has two halves.  `Positioned` and `TimesOK` tie the manager's position, the batch
it has read and the message it handles together: all messages it worked on lie at or
before its position, without a gap from the first on.  `ListsOK`, `RegOK`, `WalkOK` and
`SendOK` are about the walk that another thread disturbs.  A connection is in one list,
once, from its opening to its close, and an open one is in the table until shutdown.
Everything before the manager's index has been found, is being looked up, is closing
already, or was stepped over (`WalkedUpTo`); so whoever was in the list at the first look and
to the last is told, or still to be told, when the walk has ended, or was stepped over
(`SendOK`).  The delicate step is a departure under the walk: the entries behind it move one
place to the front (`Shifts`), and exactly the one that lands on the index just before the
manager's joins `skipped`.  The walk misses nobody else; that it
does miss that one is item 3 of section 6.  The facts about `RemoveFirst` and about lists that grow at their end
(`Shifts`, `Extends`) are lemmas.

TLC checked `RecordsInv` and `RelayInv` on the instances of their runs before they were
proved.

### Migrations (`MigrationsProofs`)

| Theorem | Statement |
|---|---|
| `FilesRunOnce` | `Spec => []RunsOnce` |
| `RowsAreTrue` | `NoAliases` implies `Spec => []RecordedIsTrue` |
| `AnswersAreTrue` | `Spec => []AnswersTrue` |
| `AdviceIsAboutOwnRows` | `NoAliases` implies `Spec => []AdviceIsOwn` |
| `ListingsHold` | `Spec => ListingHolds` |
| `FilesRunInOrder` | `Spec => InOrder` |

They hold for every number of deployers, checkouts, targets, files and edits, and for every
map from names to databases.  `NoAliases` says that no database is configured under two
names.  Where it fails, the start-up check lets two targets share a table, whose rows then
are about either; what becomes of the advice is item 13 of section 6.  The other four
theorems do not need it.

The invariant has a part for each process, and three about the tables.

* `Shaped`, `Holds` - which command is at which step, that its targets passed the start-up
  check, and that apply and baseline have the lock of their target's database while they
  read and write.  A row is added only under that lock, whatever name the database was
  reached by, which is `ListingHolds` (`RowsKept`).
* `Planned` - what apply is about to run is still without a row, and every other file of
  its listing has one or is beyond `--to`.  It is stable because of `Holds`: repair, which
  takes no lock, only changes rows that exist.  `InOrder` is `Planned` with `FirstIsLeast`.
* `RowsTrue`, `Advised` - with `NoAliases` the check makes one table belong to one target
  (`TablesApart`); so a row was written for that target, and so was the row that apply finds
  without a file.
* `Looked`, `Settled` - a target not yet reached has not been looked at, and of the ones
  left behind with code 0 every file seen has a row, for good.
* `Paid` - an execution of a file without a row was paid for by a fault, but for the one
  whose INSERT is coming (`Recording`), and the lock admits one of those.

`OthersKeep` proves once that a process keeps its part of the invariant in every step of
somebody else (`Undisturbed`); `ReturnKeeps` does the end of a command, which occurs in
eight actions; `Writes` is the common form of the steps that write rows.

### Cron (`CronProofs`)

| Theorem | Statement |
|---|---|
| `JobsDoNotOverlap` | `Spec => []NoOverlap` |
| `CommandsEndClean` | `Spec => []EndsClean` |

The invariant is `TypeOK /\ LockHeld /\ RunKnowsChild /\ TickPhase /\ WorkTicks`.
`LockHeld` - the lock of a job is a tick's exactly while its `_run_one` is between acquire
and release and the tick has its session.  `RunKnowsChild` - what `_run_one` believes of its
child is so, on the timeout and kill paths too.  `TickPhase` - a tick ends with an outcome
for every job.  `WorkTicks` - `cron work` is done only when its ticks are.

### Bridge (`BridgeProofs`)

| Theorem | Statement |
|---|---|
| `HandlersAreBacked` | `Spec => []MapsBacked` |
| `ServiceIsFresh` | `Spec => []ServedFresh` |
| `ServiceIsAsSaid` | `Spec => []ServedAsSaid` |

They hold for any number of connections, messages, changes and failed lookups; TLC checks
one connection.  `BridgeAssumption` says that users, tokens and keys are different things
and that an attribute the handler does not have yet (`"unset"`) is none of them.

The invariant is `WorldOK`, about the tables, and `Fits` of every handler's record.

* `WorldOK` - what was out of service when the interval went by still is.  Administrators
  and clocks only take service away in this model, so `msg.old` of a message in progress
  stays within `OutOfService`, and whatever is accepted later is not in it.
* `Shaped` - a record is in a push list only with a uid and open, and a uid without an open
  socket means that it was cut off before `open` returned; `cached` agrees with the user
  unless the socket closed.  `Fresh` - a credential marked fresh was in service after the
  interval last went by.  `Backed` - the user and the entry in the push lists are the
  token's or, without a token, the key's, or of the key as it was (`moved`).
* `Reached` - what is known at each await.  `Asks` (up to `reload_token`: the token is still to
  come, and a socket that closed has forgotten its own), `LooksFor` (a token is being looked
  up: no user may be taken for its user yet, and the answer is for that token or the socket
  closed), `Serves` (key, user and token were in service when the message came).

The case that decides the form of the invariant is a close while a message waits.
`on_close` forgets the token but not the user, who may be stale by then; nothing but the
`None` it leaves in `cached` keeps the service from running as that user, hence `cached` in
`Asks` and `LooksFor`.  `TokenWinsAlways` is false because of the same close: without the token,
the key's user is applied (section 6, item 7).  A close in `prepare` is the other hard case:
`on_close` finds no uid and `open` registers the socket afterwards.  What keeps it out of the
push lists is that such a socket receives no message, hence `cut` in `Reached`.

The lemmas follow the calls: `ReplyGood`, `ServeGood`, `ClearKeeps`, `EnsureKeeps`, `LooksUpKeeps`,
`ApplyKeyUserGood`, `EnforceGood`, `ReloadTokenGood`, `CheckKeyGood`, `ForgetGood`, each with what the
record must satisfy on entry; an action is the composition of a few of them.  `Like` stands
for "the same record at another place", on which no part but `Reached` depends.  TLC
checked `BridgeInv` on the instance of the run before it was proved.

### Throttle (`ThrottleProofs`)

For every set of processes, clients, proxies and users and every limit, window, skew and
delay that satisfies `LimitAssumption`, `ClockAssumption`, `BoundAssumption` and
`ClientAssumption` (positive limit and window, skews within their bound, proxies that are
no clients; `MaxRoute` and `MaxSupplied` are arbitrary, so the header a client sends and the
chain of proxies have any length):

| Theorem | Statement |
|---|---|
| `LockoutsEnd` | `Spec => []LockoutEnds` |
| `ChargesTheSender` | `Spec => []ChargedToSender` |
| `LimitIsKept` | `Spec => []LimitKept` |

The inductive invariant of the first two is `Typed /\ SentLately /\ WindowBounded /\
LockoutEnds /\ SentBySender /\ ChargedToSender`.

* `SentLately` - a call under way read its clock at most `MaxDelay` ago, and the reading
  was at most `MaxSkew` ahead.  Without it the `reset` a script writes is unbounded.
* `WindowBounded` - a stored window ends at most `Window + MaxSkew` after the attempt that
  opened it.  A denied script therefore ran with a clock reading below that, which
  bounds its age (`CountsKeeps`, `CountedIsBounded`).
* `SentBySender` - a call under way towards the key of a client was sent by that client.
  It rests on `WalkStops`: the walk from the right over what the proxies appended since the
  last one that dropped the header stops at the first hop, or before, and never reaches
  anything the client wrote (`TwoParts`, `HeaderEntries`); and without such a header X-Real-IP
  was set by the last proxy (`IdentityIsSender`).

Every action, or group of actions with one effect, has its lemma (`HitKeepsInv`,
`CountedCallKeepsInv`, `FailedCallKeepsInv`, `KeyStepKeepsInv`, `TickKeepsInv`).

`LimitIsKept` adds `Windows`: the last `j` allowed attempts on a key were counted by the
counter now stored, at most `Limit` of them and all `Limit` only if the one that opened the
window is among them; those before are no younger than the window, and each that has
`Limit` more from itself on is older by a whole window less skew and delay (`InWindow`).
`WindowHolds` says that neither the stored reset nor the expiry cuts a window shorter than
that.  Of `2 * Limit` attempts the first therefore lies in an earlier window, and is older
than the last by the length of one.

### Only model-checked

Liveness (`EventuallyEnds`, `StopsWhenAsked`, `ManagerGoesOn`, and `CommandsEnd` of three
modules): fairness is out of the prover's reach.  Every invariant and every action
property that a passing run checks, and both refinements, are theorems.

## 5. What is not modelled

In the queue:

* the read-only reports (`pending`, `stats`, `failed_count`, `failed_rows`), `queue
  install`, `status`, `failed`: no state changes;
* `run_next`, the single-shot form of the same steps;
* payload contents, error texts, logging;
* XAUTOCLAIM scans at most ten pending entries per call and the script drops its
  cursor; `Idle` sees every pending entry (needs more than ten at once);
* the `levels` sets of redis, which are derived here from the entries;
* an eviction or restart of redis itself.

Elsewhere:

* migrations: creating the tracking table (`ensure_table`), the text of dry runs and
  status, checksums as such;
* cron: parsing of schedules (`Due` is a constant), `cron list`;
* bridge: routing, encoders, forking of the children, the use counters of keys; abilities
  are one Boolean; issuing a key;
* connection manager: devices have the same tables and code as users, which stand for
  both;
* tick service: reload on changed files, timing statistics;
* audit: the shape of an event, masking, `audit install`; crypto: the ciphers, which are
  libraries, and processes that still write under the old key during a rotation;
* throttle: proxies that are configured as trusted and pass a client's header on unchanged;
* runner, configuration, registry, pools, logging, colours, pagination, HTTP errors:
  start-up wiring and text, no state shared between two actors.  `file_lock.py` is part
  of the lock of `Cron` and `Migrations`.

## 6. Where the code and its words disagree

With a run:

1. `pg_double_retry` - two `queue retry` at once copy a failed job, since the DELETE's
   row count is not looked at (`driver_pg.py:461-477`); the redis script is guarded.

Stated as a property that no run lists; each is violated when it is added to the cfg
named:

2. `LoserGetsWinner` (`PgPush`, `MCPgPush.cfg`) - inside a transaction the loser of a unique
   key gets an exception and not the winner's id that `driver_pg.py:182-185` promises: the
   transaction is aborted, and the second SELECT raises.
3. `RevokeReachesAll` (`Relay`, `MCRelay.cfg`) - `close_sessions` walks a list from which
   another thread removes connections; the entry behind the removed one moves to an index
   already passed and is not closed, where `wb_connection_manager.py:191-196` says that all
   are.  In the same way a connection that leaves between the test and the look-up raises
   KeyError, and the whole revocation is dropped, because the position has moved on.
4. `RunsAlone` (`PgQueue`, `MCPgClaims.cfg`) - the claim starts at `moment` and the handler's
   timeout of the same length starts later, so a live worker's claim always expires before
   its own timeout, and a second worker may start the job meanwhile.  `worker.py:8-9` keeps
   the visibility timeout for "a worker that dies outright rather than merely
   overrunning".
5. `TokenUserReachable` (`Bridge`, `MCBridge.cfg`) - the token of the handshake is verified
   in `prepare`, before `open` gives the handler a uid, so its user is not assigned and
   pushes do not reach it until the token is looked up again, where
   `handlers.py:414-416` tags connections "so per-user pushes can reach them".
6. `NarrowedKeyReaches` (`Bridge`) - a recheck that finds the key without its user, or with
   another, keeps the connection in the former user's list; `websocket.py:163-165`: "so
   revoking or narrowing a key reaches an open socket".
7. `TokenWinsAlways` (`Bridge`) - on a socket that closed under its message, the service
   may still run as a user other than the token's (`handlers.py:582`).  It takes a tornado
   that calls `on_close` while a message is being worked on.
8. `ClosedLeaves` (`Bridge`) - a client that disconnects while `prepare` waits has had its
   `on_close` before `open` registers the socket (`websocket.py:252-254`), and an `open` that
   raises is cleaned up by nobody; the closed handler stays in `user_connections`, out of
   which `on_close() removes entries` (`wb_connection_manager.py:80`).
9. `StopReturns` (`Relay`, `MCRelay.cfg`) - the manager's runner may cancel `shutdown` as
   its loop ends; the CancelledError passes `except Exception` in `stop_loop`
   (`tick_service.py:271-276`), and the clean-up after it is skipped.
10. `AllRelayed` (`Relay`) - the position stays `$` until a first message was read, so a
    message that arrives between two reads before that is skipped, where
    `wb_connection_manager.py:25-27` promises "messages arriving after startup".
11. `RecordsEveryChange` (`Records`, `MCRecords.cfg`) - the UPDATE evaluates its condition
    again, so a row that began to match after the read is changed without an event
    (`audit.py:222`: "one event per row that actually changed").
12. `StopIsForwarded` (`Cron`, `MCCron.cfg`) - a child that is being spawned when the signal
    comes is not in the table `stop` walks and is not told (`execute.py:122`).

With other constants:

13. `AdviceIsOwn` of `Migrations` where `Configs` gives `main` the pair `<<"localhost",
    "migrations">>` and `gis` `<<"127.0.0.1", "migrations">>`, and `Physical` maps both names to
    one database - `_database_identity` (`_service.py:103-115`: "The physical database") compares
    hostname, port and name as they are spelt; the shared tracking table is not rejected,
    and apply advises to delete rows of migrations that the other target applied.
14. `OneHolder` of `RedisQueue` with a shared id and an operator - `_REQUEUE` resets
    `attempts` on the same id, so a claim from before the failure can equal one after it
    (`job.py:26-27`).
15. `DueWhenClaimed` of `RedisQueue` in `MCRedisLiveness.cfg` with two jobs that decode
    (`MaxIds = 2`, `MaxFaults = 0`, `MaxNow = 4`) - an entry parked while its job is held and
    promoted again later, in a reserve that takes the other job, is not removed by the
    holder's release, so the job is handed out before its backoff is over (`worker.py:32`:
    "Delay before the next attempt").  Parking needs no clocks apart: `now` was read before
    the script ran.

Seen while modelling:

* a second SIGTERM only calls `stop` again (`queue/_service.py:80`), where the comment at
  72-75 expects the default handler (`Signal` models the code);
* on redis an undecodable job that another worker parked before it was failed stays in
  the delayed set, is claimed again and failed again (`driver_redis.py:181`); with
  attempts left nothing tells it from a live one;
* `--stop-when-empty` (`_service_args.py:47`: "nothing due") exits when `reserve`
  returns None, which it also does after `CLAIM_ROUNDS` unusable rows
  (`driver_pg.py:219`) or one undecodable job (`driver_redis.py:458`);
* `driver_pg.py:25-27` and `242-243` have a claim lost "between the candidate select and
  the guarded update", and `284-287` and `src/tests/test_queue_driver.py:142-143` say that the
  guard and not SKIP LOCKED makes the claim safe.  Both statements run in one transaction
  (`driver_pg.py:223-240`) and the SELECT is FOR UPDATE, so nobody changes the row in between:
  `CandidateStable` is an invariant and a theorem, and the `if not claimed` branch is never
  taken;
* a lock file that cannot be opened (`file_lock.py:17`) ends a whole tick: `gather` raises, and
  the children of its other jobs go on without a lock (`AcquireRaises`);
* `throttle.py:5-6` gives ten as the worst case for a limit of five; a window opens with
  its first hit, which counts, so `BurstBound` allows nine "in quick succession": the
  sentence errs on the safe side.

## 7. Plan

Two handlers of `Bridge` composed with `Relay`, so that a push is followed from the
stream to the credential that backs its receiver.
