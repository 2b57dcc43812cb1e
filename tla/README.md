# A TLA+ model of service-jobs

service-jobs is a durable queue: callers enqueue jobs in one PostgreSQL table,
workers in other services claim them under a lease and settle them, a reaper
recovers the claims whose lease lapsed, and a scheduled purge deletes settled
jobs after their retention. This directory models that table and every
statement that writes it, at two levels: each statement as one step, and each
statement row by row with its locks and its connection. Beside it are what the
callers of an enqueue are told, the reads, the watch stream and the client that
receives it, the measurements of the backlog and their cache, and the life of the
process with its reaper. TLC checks the models on small instances; TLAPS proves
most of what it checks for every instance, the refinements and part of the liveness
included.

## Inventory

| Component | State | Operations | What makes it correct |
| --- | --- | --- | --- |
| jobs table (`internal/models/migrations`, `dao/pg.job.go`) | one row per job | none of its own: two CHECK constraints, a partial unique index | rows stay legal; one row per owner, kind and key |
| enqueue (`dao/pg.jobEnqueue.*`, `core/jobEnqueue.go`, handler) | the table | insert, or return the row of the same key; created, replayed or conflict | one job per key until the purge; the loser of a race attaches to the winner's job |
| claim (`dao/pg.jobClaim.*`, `core/jobClaim.go`, handler) | the table | take the oldest due rows of some kinds, under a lease | disjoint batches; attempt counts the runs begun and stays within the cap |
| settle and retry (`dao/pg.jobSettle.*`, `pg.jobRequeue.*`, `pg.jobGetByID.*`, `core/jobSettle.go`, handler) | the table, an open transaction | one guarded write, or read then requeue or give up | a stale settle overwrites nothing; a settled job is final |
| reap sweep (`dao/pg.jobReap.*`, `core/jobReap.go`) | the table | requeue or abandon every lapsed claim | never before the lease lapses; every run ends; abandoned only at the cap |
| reaper loop, shutdown (`lib/reaper.go`, `cmd/grpc/main.go`) | a ticker, a context, the server | sweep at boot and on each tick, stop on cancel | sweeps go on after a failed one; shutdown ends |
| retention purge (`builds/database.sql`) | the table | delete rows past `expires_at` | only settled rows, only after the retention |
| job get and watch (`*jobGet*`, `handlers/grpc.jobWatch.go`) | the last status sent | poll the row, send on change, end when terminal | a watcher sees the outcome; owners see only their jobs |
| status (`handlers/grpc.status.go`, `*jobQueueDepth*`) | a cached measurement under a mutex | ping, measure or reuse the cache | how stale the report may be; a stalled queue looks stalled |
| count pending (`*jobCountPending*`) | - | count the pending rows and their age | it agrees with the queue depth |
| client and stubs (`pkg/go/client.go`, `protogen/*_grpc.pb.go`) | a connection, a stream | call, receive, close | io.EOF means the outcome was received |
| connection pool (`config/postgres.config.default.go`, `env.go`) | connections in use | a call takes one and gives it back | calls never all wait for each other |
| configuration (`config/env/env.go`) | - | the reaper's interval, the size of the pool | a bad interval stops the boot, a bad size is the default |
| migrations runner (`cmd/migrations`) | the schema | create it | a server that is there first survives |
| generated messages | - | - | enum, oneof and stubs only, see below |

How they interact: handlers call the services of `internal/core`, which call
the data-access objects; every data-access object runs one SQL statement on the
table. Nothing is shared in memory between requests except the status cache.
All coordination goes through the table: the callers' enqueues, the workers'
claims and settles, the sweeps of every replica and the purge commit there in
any order. The workers live in other repositories: the table knows them by the
`worker_id` they send.

What is hard: the retryable settle is the one operation of two statements, and
anything may commit between them; a claim is identified by a worker id alone,
so two runs of one worker cannot be told apart; leases lapse while settles are
under way; statements lock rows one at a time, and the outer `UPDATE` of a claim or
a sweep names its rows by id alone; a settle may wait for a row and wake up to
another one; settles arrive late, twice or never; the attempt cap is kept by three
statements together and enforced by none; the idempotency key lives and dies with the row.
`PROJECT.json` lists these as hazards, each with its line and its properties.

## Modules

| Module | What it is |
| --- | --- |
| `JobQueue` | the table, the settle calls being served and the clock; one action per statement |
| `JobLifecycle` | the abstract specification: one job's statuses and attempts |
| `Statements` | the claim, the sweep, the settle and the retry row by row: pool, snapshot, row locks, commit |
| `Backlog` | the two measurements of the queue, over the table of `JobQueue` |
| `Enqueue` | concurrent `JobEnqueue` calls, from the request to the answer |
| `JobRegistry` | its abstract specification: an enqueue takes effect in one step |
| `JobWatch` | `JobGet` and `JobWatch` over jobs that move as `JobLifecycle` lets them |
| `WatchClient` | a caller of both with the published client, over a connection that loses things |
| `StatusCache` | concurrent `Status` calls and the cached backlog |
| `Server` | the process: boot, the reaper's loop, shutdown, the migrations beside it |
| `JobQueueMC`, `StatementsMC`, `EnqueueMC`, `ServerMC` | symmetry and constants for TLC |
| `JobQueueProofs` | theorems about `JobQueue`: rows, claims, leases, caps |
| `JobHistoryProofs` | theorems about a job's whole life in `JobQueue`: that it implements `JobLifecycle`, that runs end and settled jobs are purged |
| `BacklogProofs` | theorems about `Backlog` |
| `StatementsProofs` | theorems about `Statements`: that it implements `JobLifecycle`, and that its calls never all wait |
| `EnqueueProofs` | theorems about `Enqueue`, and that it implements `JobRegistry` |
| `WatchProofs` | theorems about `JobWatch` and `WatchClient`: that the second implements the first, and that no handler outlives its caller |
| `StatusCacheProofs` | theorems about `StatusCache`: what a report says, and that everybody is answered |
| `ServerProofs` | theorems about `Server`: the order of a shutdown, and that the reaper goes on |

`JobQueue` is the core. `JobWatch` runs over its abstraction, `JobLifecycle`, and
what it assumes of the jobs is what `ImplementsLifecycle` shows; `WatchClient`
composes the handlers of `JobWatch` with a caller. `Enqueue` opens up the one step
`JobEnqueue` of `JobQueue`, and that its callers cannot tell the difference is its
refinement of `JobRegistry`; `Statements` opens up claim, sweep, settle and retry; `Server`
opens up the assumption of `JobQueue` that sweeps keep happening. `Backlog` adds no
state to `JobQueue`, only what is read from it.

### JobQueue

State: `jobs` (the table: the columns something reads), `call` (the settle calls
the server is serving: which run they are about and, for a retry between its two
statements, what it decided), `now` (`clock_timestamp()`; the database is the
only clock). Two history variables store what no code stores: `runs`, every run
a claim handed out, and `purged`, what is remembered of deleted rows.

| Action | Code |
| --- | --- |
| `JobEnqueue` | `pg.jobEnqueue.sql`: insert, or the no-op `DO UPDATE` on the row of the same key; the id is minted and the cap defaulted in `core/jobEnqueue.go` |
| `JobClaim` | `pg.jobClaim.sql`: the oldest due rows that are not locked, up to the limit |
| `JobSettle` | `core.JobSettle.settle` and `pg.jobSettle.sql`: success, or failure that is not retryable |
| `RetryRead`, `RetryWrite` | `core.JobSettle.retry`: the read and the decision, then the requeue or the settle and the commit |
| `Abort` | an open transaction that rolls back, the answer never delivered |
| `Answer` | the handler's answer, as `mapJobError` maps it |
| `JobReap` | `pg.jobReap.sql`, one sweep |
| `Purge` | the scheduled `DELETE` of `builds/database.sql` |
| `Tick` | time |

What each statement writes into a row is an operator of its own (`NewRow`,
`ClaimedRow`, `SettledRow`, `RequeuedRow`, `ReapedRow`), so that the SQL can be
read beside it.

A statement is one atomic step at its commit. The rows other statements hold at
that moment are the parameter `locked` of `JobClaim` and `JobReap`: any set,
which is more than PostgreSQL allows and covers every effect of `SKIP LOCKED`.
The retry's transaction is READ COMMITTED (`postgres.NewTransactor(nil)`, no
isolation level is asked for) and its read is a plain `SELECT`, so between
`RetryRead` and `RetryWrite` every other action is enabled. A claim or a sweep
that finds nothing, and a call that fails in the database, change nothing and
are stuttering steps.

Workers are an environment. A settle may be delivered for any run that was ever
handed out, at any time and any number of times. A claim whose answer is lost is
a run that is never settled. How workers use their ids decides what holds, and
the repository states no rule, so `WorkerIds` makes the cases explicit:

- `"shared"`: no rule at all;
- `"serial"`: a worker id does not claim while a retryable settle under it is
  between its read and its write;
- `"fresh"`: a worker id claims once (an id per claim).

A result or an error is opaque to the queue. In the model it is the number of the
run that reported it, and 0 for the reaper's own error, which is what
`OutcomeOfLatestRun` needs to tell.

Left out of the rows: `payload` and `request_fingerprint` (they decide the answer
to an enqueue, see `Enqueue`), `updated_at` (read by nothing), `cancel_requested_at` and
`provider_call_id` (written by nothing, although the README describes the second
as recorded).

### JobLifecycle

A job is new, pending, claimed, settled in one of three ways and purged; it
begins at most `cap` runs, is given back only with a run left, and is abandoned
only with none left. The refinement mapping reads the phase from `status`, from
the absence of the row and from `purged`. One statement moves several jobs, so a
step of the abstract specification is a step, or none, of every job.

### Statements

`JobQueue` takes a statement to be one step. Here only a commit is. State: `table`
(the rows as last committed), `lock` (the row locks), `call` (the calls in the order
they are sent, each served once) and `pool` (the limit on connections, from
`POSTGRES_MAX_OPEN_CONNS`).

| Action | Code |
| --- | --- |
| `JobClaim`, `JobReap`, `JobSettle` | a call arrives; the outcome's oneof decoded by handler and service (`DecodedOp`, `DecodedWrite`) |
| `Acquire` | the pool gives it a connection: a statement starts, or the transaction of a retry begins |
| `RetryRead`, `RetryWrite` | the plain `SELECT` and the decision, then the second statement, on the transaction's connection |
| `Visit` | `FOR UPDATE SKIP LOCKED` on the next row of a claim or a sweep |
| `Update` | the `UPDATE` of a settle or a requeue: wait for the row, read the guard again |
| `Commit` | the rows are written and become visible; the answer may be lost on the way |
| `Fail` | cancelled, or the database failed: rolled back |
| `Lapse` | `lease_expires_at` falls behind the clock |

PostgreSQL and `database/sql` are external, modelled from what the queries rely on at
READ COMMITTED: a statement finds its rows in the snapshot it starts from; a row it
locks is looked at again as last committed; `SKIP LOCKED` passes over a locked row and
a plain `UPDATE` waits for it; a limit on connections that is not positive is no limit.
`config.LoadEnv` (external) yields the default for a value that is unset or no integer.

Every claim comes under an id of its own, so the number of the claiming call is the
worker. `table` keeps the columns the predicates and the writes of these statements
read; time is a bit, whether the lease has lapsed. Enqueue and purge are left out: all
jobs were enqueued before, and a settled row matches no predicate here. What a retry
answers when its second statement matches nothing is `Internal`, as in `JobQueue`.

`ImplementsLifecycle` is the refinement: phase, runs begun and cap are read from the
committed rows, and every commit is a step of `JobLifecycle`.

### Backlog

`QueueDepth`, `queueDepthToProto` and `JobQueueDepth` are what the Status call
reports, `JobPendingStats` and `JobCountPending` the other measurement: one counts
the rows a worker could claim and leaves the age of an empty queue absent, the other
counts the pending rows and makes it zero. `BacklogAgrees` shows that they differ in
nothing else, because no statement leaves a row pending that is not due.

### Enqueue

State: `jobs` (the committed rows, by id), `call` (the calls being served) and the
history variable `purged`. The id of a job is the name of the call that minted it,
because `core.JobEnqueue.Exec` mints a uuid before it writes and tells created from
replayed by comparing ids.

| Action | Code |
| --- | --- |
| `JobEnqueue` | the handler's parse and range checks (`HandlerAccepts`), `int16(...)`, the validation of core (`CoreAccepts`) |
| `Insert` | the statement once no other holds the key: the recorded row, by the no-op `DO UPDATE`, or a row of its own, still open |
| `Commit`, `CommitUnseen`, `Fail` | the statement ends: its row comes back; it commits and the connection is lost; it is rolled back |
| `Exec` | what core makes of the row: created, replayed or a conflict |
| `Purge` | the row goes; `JobQueue` says when |

The wait of an insert for another under the same key is PostgreSQL's (`Waits`,
external). A caller that retries is another call with the same request. The digest
is taken to be injective. The columns the queue moves are `JobQueue`'s.

### JobRegistry

What `JobEnqueue` promises, without the statement, the index and the waiting. State:
what each call asked (`asked`), the job it made (`job`), what has come of it
(`answer`) and the job that is about (`about`). A call that is owed an answer makes
its job (`Register`), is shown the one under its key (`Attach`), or is left without
knowing (`GiveUp`); `Delete` is the purge. `ImplementsRegistry` reads these from
`Enqueue`: a call has taken effect when its row is committed, or when it has read a
recorded one, and from then on its outcome is settled (`Outcome`), although core
compares ids and digests only afterwards.

### JobWatch

State: the jobs of `JobLifecycle`, `owner`, `call` (the request, the row in hand,
the snapshot sent last, whether the caller is gone). History: `history`, every
status a job has had, and `caught`, how far in it a caller has got.

`Begin` parses the ids; `Read`, `ReadFails`, `Send`, `SendFails` are the body of the
polling loop (and the whole of `JobGet`); `PollTick` and `ContextDone` are the two
branches of its `select`, either of which is taken when both are ready. `JobMoves`
is a step of one job. The poll interval is not a number: any number of changes may
fall between two polls.

### WatchClient

What `JobWatch` sends is here not yet received. State: `stub` (the caller's end of its
call: open, or the status it ended with), `got` (the status number in the last message
received), `wire` (messages sent and not received, then the status of the call),
`broken` and `expired` (the connection broke; the deadline passed).

| Action | Code |
| --- | --- |
| `ClientJobGet`, `ClientJobWatch`, `InvokeFails` | the stubs; the connection is made when it is first needed and may not be |
| `Handling` | a step of the handler, with what it sends: `jobToProto` and the status of the call |
| `Recv` | the next message, or the end (io.EOF for OK) |
| `Close` | the client is closed, or the call's context cancelled |
| `DeadlinePasses`, `Expire` | the deadline, seen by the two sides at different times |
| `Break` | the connection breaks; what it carried arrives in part |
| `ContextEnds` | the handler's context ends, after any of these |

gRPC is external: order within a call, `Unavailable` after a break, and a handler that
learns of its caller's end through its context only. Statuses travel as the numbers of
the enum, through `jobStatusToProto` on one side and the re-exported constants on the
other.

### StatusCache

State: the clock, whether the database answers, `mu`, `cached`, `cachedAt` and the
calls. A measurement is represented by the time the database took it.
`reportPostgres` is the ping; `Lock` and `Look` the first critical section;
`Measure` and `MeasureFails` the query outside the lock, which may fail whatever the ping
said, as `reportQueueDepth` leaves the report out on any error; `Relock` and `Store` the
second critical section. `MaxQuery` bounds the time from a measurement to its being
stored. The code has no such bound: it is a parameter of what `ReportIsRecent` says.
`Hanging` names the probes whose ping (which takes no context) or measurement may never
come back. That enough of them would use up the pool is outside the model.

### Server

State: where the main goroutine and the reaper's are, the interval, the ticker's
buffered tick, the cancelled context, the calls in flight, the jobs reduced to
none, pending, claimed, lapsed and settled, whether the database answers, and whether
it has the schema.

| Action | Code |
| --- | --- |
| `Boot` | `env.ReaperInterval`, then `main` up to the serving goroutines; a bad interval stops the boot |
| `SweepSucceeds`, `SweepFails` | `Reaper.sweep`; a failure is logged and the loop goes on |
| `TickerTicks`, `RunTick`, `RunDone` | the ticker, which buffers one tick, and the `select` of `Reaper.Run` |
| `Signal`, `ReaperDone`, `Exit` | `<-quit` and `stopReaper()`; `<-reaperDone`; `GracefulStop` returning |
| `Crash` | the process is killed |
| `OpenStream`, `StreamEnds` | `JobWatch` as the drain sees it |
| `Begin`, `UnaryEnds` | any other call: a unary one, or a stream of the reflection or the health service, which only its caller ends |
| `Hangs`, `HangUp` | a statement of a call does not come back; a call ends from outside |
| `Enqueue`, `Claim`, `Settle`, `WorkerDies` | what the jobs do meanwhile |
| `Migrate` | `cmd/migrations`, before or after the server boots |

There is one replica, and a sweep recovers every lapsed claim: which rows a sweep
skips is `JobQueue`'s subject.

## Runs

| Run | Instance | Shows |
| --- | --- | --- |
| `shared_ids` | `JobQueue`: one job, two workers, two calls, `shared`, caps 1 and 2, server fairness | `TypeOK`, `RowsLegal`, `OneRunPerAttempt`, `HolderHasLatestRun`, `SettledIsFinal`, `LeaseProtectsRun`, `RunEnds`, `SettledIsPurged` whatever workers do |
| `serial_ids` | one job, two workers, two calls, `serial`, caps 1 and 3, worker fairness too | `AttemptWithinCap`, `ImplementsLifecycle`, `JobEnds` |
| `fresh_ids` | two jobs, two owners, a key and none, two workers, batches of one and two, `fresh`, cap 2 | `OutcomeOfLatestRun`, `IdempotencyWindow`, `BacklogAgrees`, `AgeFallsOnlyByClaim` |
| `statements` | `Statements`: two jobs with a cap of 2, four calls of any service, batches of one, a pool of one connection or of twenty | `OneOkPerRun`, `AnsweredRunIsOver`, `BatchNeverWaits`, `NobodyStuck`, `ImplementsLifecycle`, `LeaseProtectsRun` |
| `enqueue` | `Enqueue`: three calls; a key and none, a payload, an empty one and its default; requests at and past each limit | `ImplementsRegistry`, `AnswerMatchesPayload`, `AnswerIsDurable`, `OneJobPerKey`, `RetryIsNoConflict`, `CapIsAsAsked`, `EveryCallEnds` |
| `watch` | `WatchClient`: one job with a cap of 2, two owners, one caller that calls again and again | `NotFoundIsTrue`, `NothingToStrangers`, `EofMeansOutcome`, `SeenInOrder`, `NoSnapshotTwice`, `HandlerEndsWithCaller`, `CallerHears` |
| `status` | `StatusCache`: two probes, one that may hang, TTL 2, measurements up to 2, clock to 4 | `ReportIsRecent`, `AbsentOnlyWithoutEntry`, `OthersAnswered` |
| `server` | `Server`: two jobs, two calls in flight of every kind, an interval unset, good, zero, negative and not a duration, a schema that is there or comes later | `LapsedIsRecovered`, `StuckOnlyOnCalls` |

Every module with variables of its own states its type invariant (`JobLifecycle` and
`JobRegistry` are abstract and have none). `shared_ids` checks the one of `JobQueue`; all
are proved.

Bounds. In `JobQueue`, two workers and two calls are what every race needs: the
holder and another, or two deliveries for one job. A cap of three gives a run
before and a run after the one a stale decision is about. A lease and a retention
of one clock unit still have an instant before, at and after their end, which is
where `<` and `<=` differ. Jobs meet only in a batch of a claim, in a sweep and in
the idempotency index, so two runs have one job, and the run about batches and
keys has two. `Horizon` bounds the idle clock: past it time passes only while some
lease or retention is waited for, so no deadline is ever cut off. Jobs, workers and
calls are symmetric in the safety runs; runs that check liveness use no symmetry.

Elsewhere: three enqueues are a winner, a loser that waits on it and a later retry.
Callers of `JobWatch` share nothing but the job, so one caller, with as many calls,
one after another, as it likes, is enough (calls of one caller that overlap are answered
in any order, and nothing is said of them); a cap of two lets a job come back to a status it was in. Two
probes can overtake each other between the two critical sections, and a clock of
four leaves room for a measurement, its storing two later and the last instant of
its TTL. Two calls in flight let one hold up a drain after another has ended, and let
one write while the other is watched.

In `Statements` four calls are what the races need: a claim, a sweep that begins on
the run it made and a second claim after it, or a claim and two settles of its run
with a sweep among them. A pool of one connection makes every call wait for it;
twenty is more than the calls there are. Batches of one over two jobs make claims skip
each other's rows; a sweep has no limit and takes both.

Fairness. `ServerFairness` of `JobQueue` assumes that time passes, that a sweep that
meets no lock (`JobReap({})`) and a full purge happen when they stay possible, that
an open transaction ends and a handler returns. The code justifies it:
`lib.Reaper.Run` sweeps on every tick for the life of the process and goes on after
a failed sweep, `pg_cron` runs the purge every ten minutes, and row locks last one
statement, or two in the retry. Nothing is assumed of the workers: `shared_ids`
lets them die. `WorkerFairness`, for `serial_ids` only, says that some worker keeps
polling for every kind.

`ClientFairness` of `WatchClient` assumes that the handler goes on, that a context
whose caller is gone ends, and that a caller receives while its call is open; it need
not call, cancel or close. `Statements` is checked without fairness: `NobodyStuck`
says that while a call is being served some call can go on, and every step brings
its call closer to its end (`CallsOnlyGoForward` proves it), so calls that are let go on
all end.

The other modules assume only that a goroutine that can go on does: a handler reads,
sends and answers, a ticker ticks, a statement ends. Two assumptions are strong.
`sync.Mutex` starves nobody, so a probe that is refused the lock again and again gets
it; and a Go `select` picks at random among the ready branches, so the reaper's and
the stream's, which may find a tick ready each time, take the cancelled branch some day. No
fairness is put on a hanging statement, on a caller hanging up, on a signal or on
a crash. A sweep is assumed to end: its context is cancelled before main waits for it,
which that of a call is not.

### Where the code and its documents disagree

Four runs end in a violation, each of a statement of the repository:

- `internal_error`: `core/jobSettle.go` and `CONTRIBUTING.md` say the transaction
  stops the reaper from recovering the job between the read and the write of a retry.
  At READ COMMITTED, without `FOR UPDATE`, it does not. The guarded write then
  matches no row, and the error is not translated to `ErrJobNotClaimed`: the worker
  is answered `Internal` instead of `FailedPrecondition`.
- `cap_overrun`: when in addition the same worker id has claimed the job again, the
  guard does match, and the stale decision requeues a job with no attempt left; the
  next claim exceeds `max_attempts`. `RequeueWithinCap` states why this needs the
  same id: under `serial` a decision that still holds the claim is still right.
- `stale_outcome`: `pg.jobSettle.sql` says a worker settling stale work matches no
  row. It does match when the same worker id holds the job again.
- `watch_changes`: `job_watch.proto` promises each change. The stream compares
  statuses once a poll, so of several changes between two polls it sends the last,
  and none if the job is back where it was. What does hold is `EofMeansOutcome`.

Four more, which the passing properties delimit: `status.proto` says the queue report
is absent when the database is unreachable and that the database is reported down then,
and the comment of `reportQueueDepth` that it is absent for no other reason. Neither
direction holds: within the TTL the report is the cached one, beside a database reported
down; and it is left out on any error of the measurement, beside a database reported up
when there is no jobs table yet or the caller's context is over
(`AbsentOnlyWithoutEntry`: never, though, while the entry a call began with lasts); the README says the idempotency
key has no expiry, and it is deleted with the row (`IdempotencyWindow` names the
purge as the one exception); `main.go` says the TTL bounds how stale the reported
depth can be, and an entry is dated when it is stored, not when it was measured
(`ReportIsRecent` adds the time of a measurement); and a drain waits without a
deadline for every call in flight: a watch whose job may itself be waiting for the
reaper that has been stopped, a reflection or health stream its caller keeps open, a call
whose statement hangs (`StuckOnlyOnCalls` shows that these are what can hold it up, and
that neither the reaper nor calls that end themselves do).

## Proofs

Every theorem holds for every value of the constants that satisfies the
assumptions of its module: any jobs, workers, calls, owners, kinds and keys, any
number of connections, any cap, lease, retention, TTL and horizon. The
assumptions are of two sorts. `ConstantsAssumption` says what `validate`, the
handlers and the configuration enforce: caps are smallints, limits and leases
positive, a retention and a TTL positive. `NullAssumption` says that NULL is no
ordinary value. TLC evaluates both on every run.

A theorem that needs a rule for worker ids says so, because the repository
states none and the property is false without it (the runs `cap_overrun` and
`stale_outcome` show how).

### The table

| Theorem | States |
| --- | --- |
| `JobQueueProofs!TypeCorrect` | `Spec => []TypeOK` |
| `JobQueueProofs!RowsAlwaysLegal` | `Spec => []RowsLegal` |
| `JobQueueProofs!HolderAlwaysHasLatestRun` | `Spec => []HolderHasLatestRun` |
| `JobQueueProofs!ClaimsAreDisjoint` | `Spec => []OneRunPerAttempt` |
| `JobQueueProofs!SettledJobsAreFinal` | `Spec => SettledIsFinal` |
| `JobQueueProofs!LeasesProtectRuns` | `Spec => LeaseProtectsRun` |
| `JobQueueProofs!AttemptsStayWithinCap` | `Spec => []AttemptWithinCap`, assuming `WorkerIds # "shared"` |
| `JobHistoryProofs!IdempotencyWindowHolds` | `Spec => []IdempotencyWindow` |
| `JobHistoryProofs!OutcomesAreOfLatestRun` | `Spec => []OutcomeOfLatestRun`, assuming `WorkerIds = "fresh"` |
| `JobHistoryProofs!QueueImplementsLifecycle` | `Spec => ImplementsLifecycle`, assuming `WorkerIds # "shared"` |
| `JobHistoryProofs!RunsAlwaysEnd` | `Spec /\ []InstantsCome /\ SchedulesRun => RunEnds` |
| `JobHistoryProofs!SettledJobsArePurged` | `Spec /\ []InstantsCome /\ SchedulesRun => SettledIsPurged` |
| `BacklogProofs!MeasurementsAgree` | `Spec => []BacklogAgrees` |
| `BacklogProofs!StalledQueueLooksStalled` | `Spec => AgeFallsOnlyByClaim` |

Lemma `RowSteps` reduces any step to six things that can happen to one row
(inserted, claimed, settled, requeued, reaped, deleted), and everything else is
proved from these.
`OneRunPerAttempt` is not inductive: a new run is new because `attempt` never
falls behind the runs handed out, which is `HolderHasLatestRun`.
`AttemptWithinCap` is not inductive either: the requeue of a retry relies on a
decision taken earlier, and `RequeueWithinCap` says that the decision is still
right while the claim is held; `CapInv` is the conjunction.
`IdempotencyWindow` needs `GoneForGood`: a job has a row or a tombstone, never
both, so the unique index covers every job that has not been purged, and a
tombstone is older than any row inserted after it. `OutcomeOfLatestRun` needs
`OneRunPerWorker` (under fresh ids a worker has one run, so the run a settle is
about is the one the row is held for) beside `CapInv`. The refinement is proved per job: each form of
`RowSteps` is a step of `JobLifecycle` or leaves `PhaseOf` and `attempt` alone,
where giving back needs the cap (`CapInv`), and that a job is forgotten only once needs
`GoneForGood`. The measurements agree because a pending row is always due
(`PendingIsDue`: an insert, a requeue and a sweep date it from the present) and
the table is finite; that the age never falls but by a claim then compares two minima over
the rows that wait before and after a step.

### The statements

| Theorem | States |
| --- | --- |
| `StatementsProofs!TypeCorrect` | `Spec => []TypeOK` |
| `StatementsProofs!RunsAreSettledOnce` | `Spec => []OneOkPerRun` |
| `StatementsProofs!AnsweredRunsAreOver` | `Spec => []AnsweredRunIsOver` |
| `StatementsProofs!LeasesProtectRuns` | `Spec => LeaseProtectsRun` |
| `StatementsProofs!StatementsImplementLifecycle` | `Spec => ImplementsLifecycle` |
| `StatementsProofs!PoolIsNeverOverdrawn` | `Spec => []PoolIsKept` |
| `StatementsProofs!CallsNeverDeadlock` | `Spec => []SomebodyCanStep` |
| `StatementsProofs!BatchesNeverWait` | `Spec => []BatchesCanStep` |
| `StatementsProofs!CallsOnlyGoForward` | `Spec => EveryStepCounts` |

What makes row locking correct is that a row in a statement's batch is locked by
it and still satisfies its predicate at the commit (`LocksAreHeld`,
`BatchesAreLocked`): the snapshot may be stale, the row taken is not. Around it,
`CallsStand` and `SettlesStand` say what a call has at each point, `RowsStand`
that a claimed row is held by a claim that was answered, and `RetriesStand` that
what a retry decided on its first statement is still right if its second finds
the run held. `IInv` is the conjunction. Steps are first brought to one of a few
forms (`Arrives`, `Begins`, `Decides`, `Starts`, `Takes`, `Skips`, ...), and
the invariant is proved for each.

`NobodyStuck` and `BatchNeverWaits` are stated with `ENABLED`, which the prover cannot
reason about. `SomebodyCanStep` and `BatchesCanStep` say the same with the successor
named: `Served` and `Connected` describe the values a step of a call leaves in the
table, the locks and the calls, `CanStep` says that there are such values, and the lemmas
`ServedIsStep` and `ConnectedIsStep` show that a state with these values is behind a step
`Serve` or `Acquire` of the specification. The argument: a call that holds a row is never
in wait for another, since a settle writes one row and a claim skips what is locked
(`HoldersGoOn`, which needs `TodoIsLeft`: nobody waits for a row it holds itself); so
if nobody holds a row any call with a connection goes on, and if nobody has a connection
the pool is free. `CallsOnlyGoForward` is the other half of why calls end: a step is a
lease that lapses, or takes one call to a later stage (`Rank`) or leaves it fewer rows to
visit, and leaves the other calls where they are.

### The other modules

| Theorem | States |
| --- | --- |
| `EnqueueProofs!TypeCorrect` | `Spec => []TypeOK` |
| `EnqueueProofs!EnqueueImplementsRegistry` | `Spec => ImplementsRegistry` |
| `EnqueueProofs!AnswersMatchPayloads` | `Spec => []AnswerMatchesPayload` |
| `EnqueueProofs!AnswersAreDurable` | `Spec => []AnswerIsDurable` |
| `EnqueueProofs!OneJobForOneKey` | `Spec => []OneJobPerKey` |
| `EnqueueProofs!RetriesAreNoConflict` | `Spec => []RetryIsNoConflict` |
| `EnqueueProofs!CapsAreAsAsked` | `Spec => []CapIsAsAsked` |
| `WatchProofs!TypeCorrect` | `Spec => []TypeOK` |
| `WatchProofs!NotFoundMeansPurged` | `Spec => []NotFoundIsTrue` |
| `WatchProofs!StrangersGetNothing` | `Spec => []NothingToStrangers` |
| `WatchProofs!CallersSeeInOrder` | `Spec => SeenInOrder` |
| `WatchProofs!ClientsImplementWatch` | `ClientSpec => Spec` |
| `WatchProofs!SnapshotsAreOfChanges` | `ClientSpec => []NoSnapshotTwice` |
| `WatchProofs!EofTellsOutcome` | `ClientSpec => []EofMeansOutcome` |
| `WatchProofs!HandlersEndWithCallers` | `ClientSpec /\ []HandlersAreFair => HandlerEndsWithCaller` |
| `StatusCacheProofs!TypeCorrect` | `Spec => []TypeOK` |
| `StatusCacheProofs!ReportsAreRecent` | `Spec => []ReportIsRecent` |
| `StatusCacheProofs!FailuresTakeNoEntry` | `Spec => []AbsentOnlyWithoutEntry` |
| `StatusCacheProofs!HangingHoldsUpNobodyElse` | `Spec /\ GuardedFairness => OthersAnswered` |
| `ServerProofs!TypeCorrect` | `Spec => []TypeOK` |
| `ServerProofs!ReaperEndsBeforeServer` | `Spec => []ShutdownIsOrdered` |
| `ServerProofs!LapsedClaimsAreRecovered` | `Spec /\ ReaperFairness => LapsedIsRecovered` |
| `ServerProofs!ReaperHoldsUpNoShutdown` | `Spec /\ ReaperFairness => (Stopping ~> ~Stopping)` |

`EnqueueProofs`: `RowsAreOwn` says that a row is that of the call that minted its
id, and `KeysAreUnique` that a key has one entry in the index, committed or still
open, which is what a competing insert waits on. `Given` then ties an answer to
a row that was committed and that nothing but a purge has touched, and `Told` to
what the call is told of it. That two answers under one key agree follows from
these.

`EnqueueImplementsRegistry` is linearizability. A call takes effect at the commit of its
row, if it makes one (`Register`), and otherwise when its statement reads the recorded
row (`Attach`); a commit whose answer is lost is a `Register` that answers nothing.
`Register` asks for a key without a job, where the code asks nothing at its commit:
that no other row has come under the key since the insert found none is
`KeysAreUnique`. `Exec` is a stutter, since what it answers was settled before.

`WatchProofs`: `HistoryStands` ties a job's phase to the end of its history;
`CallsStand` says that what a handler has in hand is a true entry of the history
of the job asked for, read for its owner, and never older than what it sent;
`NobodyIsAhead` that nobody has seen what has not happened. `ClientsImplementWatch`
shows that the theorems about the handlers hold with clients and broken
connections around them. `WiresStand` says of every frame on its way what comes
before it: an OK comes behind the last snapshot of its stream, a snapshot behind one
with another status, and a stream that still runs over a whole connection has its last
snapshot on its way, or received. `EofMeansOutcome` and `NoSnapshotTwice` are what it
says of the first frame; the second also needs that `jobStatusToProto` gives no number
to two statuses (`StatusesAreTold`).

`StatusCacheProofs`: `ReportIsRecent` needs a bound on what is not stored yet, a
measurement in the hands of a probe (`MeasurementsAreBounded`), because entries
may be stored in any order. `AbsentOnlyWithoutEntry` needs `EntriesStay`: while a call is
served, the entry it began with is in the cache or a later one is, and a call that
measures has seen it expire.

`ServerProofs` proves the order of a shutdown: main cancels the reaper, waits for
it and only then drains, so no sweep is under way in a server that drains, and
a reaper runs with a positive cadence, or `time.NewTicker` would panic.

### Liveness

`WF` and `SF` are defined with `ENABLED`, so the prover cannot use them. The theorems
about what must happen in the end assume the fairness of the model with the guard of an
action in the place of `ENABLED`: `[]<>~At("select") \/ []<><<A>>_vars` where `WF_vars(A)`
says `[]<>~ENABLED <<A>>_vars \/ []<><<A>>_vars`. A guard is the part of the action that is
about the present state: the place of a goroutine, the lock that is free, the tick that
is buffered. In each of these actions the rest names the values of the primed variables and
changes one of them, so the action is possible exactly when its guard holds; TLC, given
`guard <=> ENABLED <<A>>_vars` as an invariant, agrees on the instances of the runs. The
assumptions are these, each a conjunct or an instance of the `Fairness` of its
module:

| Assumption | Stands for |
| --- | --- |
| `StatusCacheProofs!GuardedFairness` | all of `Fairness` of `StatusCache` |
| `ServerProofs!ReaperFairness` | what `Fairness` of `Server` says of the sweep, the ticker, the select and main |
| `WatchProofs!HandlersAreFair` | what `ClientFairness` says of a handler and its context |
| `JobHistoryProofs!SchedulesRun` | what `ServerFairness` says of the sweep and of the purge |
| `JobHistoryProofs!InstantsCome` | what follows from its fairness of `Tick`: an instant that a lease or a retention waits for comes |

`InstantsCome` is a consequence and not a rewriting: that a clock which goes on ticking
passes every instant is an induction over the clock. It does not assume what is proved:
of a claim it says that its lease lapses, or the claim ends before, and not that a claim
whose lease has lapsed ever ends; of a settled row the same of its retention.

Each proof is a chain of steps of one shape, put together by the temporal prover: what
holds goes on holding until an action is taken, the guard of that action holds
meanwhile, and the action brings the next link. The work is in the first part, and
rests on safety:

- `HangingHoldsUpNobodyElse`: the holder of the lock is in a critical section
  (`MutexStands`), and leaves it by steps that never wait. So the lock is free again and
  again, whichever probe hangs, because neither statement is made under the lock.
- `LapsedClaimsAreRecovered`, `ReaperHoldsUpNoShutdown`: while the server serves, its
  reaper is sweeping or in its `select`, and is not told to stop (`Standing`); once told,
  it stays told, so a `select` that goes on finding ticks takes the other branch.
- `HandlersEndWithCallers`: an abandoned call stays abandoned, with the same handler,
  until the handler has ended (`AbandonedStep`), and a handler's own steps do not unlearn
  that its caller is gone.
- `RunsAlwaysEnd`, `SettledJobsArePurged`: no statement renews a lease or moves the
  retention of a row that stays claimed, or settled (`LeaseLasts`), so the instant waited
  for is one instant, and the first sweep or purge after it takes the row.

### Model-checked only

Liveness that takes an induction: `JobEnds` (over the attempts left of a job),
`EveryCallEnds` (over the calls that wait for one key, which must be finitely many),
`CallerHears` (over the frames on the wire) and `StuckOnlyOnCalls` (over the calls
in flight; its other half, that the reaper does not hold up the shutdown, is
`ReaperHoldsUpNoShutdown`). The induction over the clock behind `InstantsCome`. The
properties as they stand with `ENABLED`: `BatchNeverWaits` and `NobodyStuck` (proved in the
form above), and with `WF` and `SF` the liveness properties proved from written-out guards;
TLC checks them all under the fairness of the models. Every other property of a passing run
is proved.

## Plan

Done: the table and its lifecycle, the statements below it, the measurements of the
backlog, `Enqueue` with its `JobRegistry`, `JobWatch` with its client, `StatusCache`,
`Server`, and the theorems above. Left:

1. Several replicas in `Server`: what a second reaper changes for a drain.
2. The inductions above, as far as each can be told without one: the last frame of a call
   is received, a call whose key nobody else holds ends.

## Not modelled

Mocks, and of the generated code everything but the status enum, the oneof of the
settle request and the entry points of `JobGet` and `JobWatch`: marshalling, accessors
and descriptors hold no logic of this repository. Tracing and logging. Of the client,
the unary methods other than `JobGet`: what can happen to such a call on the way is
modelled where it is served. Of the configuration, names, ports, the DSN and the idle
limit of the pool, which decide nothing here. The library that applies the
migrations. The validation of claims and settles, which rejects a call before any
statement, changes nothing; the model enumerates the requests that pass it. That of
enqueues and reads is in `Enqueue` and `JobWatch`.
