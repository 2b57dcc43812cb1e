------------------------------ MODULE JobQueue ------------------------------
(***************************************************************************)
(* The jobs table and every statement that writes it.                      *)
(*                                                                         *)
(* One row per job (internal/models/migrations/..._jobs_table.up.sql), one *)
(* action per data-access statement (internal/dao/pg.job*.sql) as the      *)
(* services of internal/core drive it.  Each statement is one atomic step  *)
(* at the moment it commits.  The one operation that spans two statements  *)
(* is the retryable settle, core.JobSettle.retry, which reads a row and    *)
(* writes it afterwards inside a READ COMMITTED transaction: it takes two  *)
(* steps, and anything may commit in between, because the read takes no    *)
(* lock.                                                                   *)
(*                                                                         *)
(* Workers live outside this repository.  They are an environment that may *)
(* deliver a settle for any run it was ever handed: never (a dead worker), *)
(* late, or more than once (a retried call).                               *)
(***************************************************************************)
EXTENDS Integers, FiniteSets

CONSTANTS
  Id,            \* job identifiers (uuid v7, minted by core, never reused)
  Owner,         \* owner_id values
  Kind,          \* kind values
  Key,           \* idempotency keys; NULL is "no key"
  Worker,        \* worker ids, as recorded in claimed_by
  Conn,          \* settle calls the server can be serving at once
  RequestedCaps, \* max_attempts values a request carries (0 is "unset")
  Limits,        \* batch limits a claim carries
  Leases,        \* lease lengths a claim carries
  Retention,     \* jobRetentionDays, in clock units
  Horizon,       \* the clock runs freely up to this bound
  WorkerIds,     \* how workers use their ids, see MayClaim
  NULL           \* SQL NULL

ASSUME ConstantsAssumption ==
  /\ \A cap \in RequestedCaps : cap \in Nat /\ cap <= 32767
  /\ \A limit \in Limits : limit \in Nat /\ limit > 0
  /\ \A lease \in Leases : lease \in Nat /\ lease > 0
  /\ Retention \in Nat /\ Retention > 0
  /\ Horizon \in Nat
  /\ WorkerIds \in {"shared", "serial", "fresh"}

VARIABLES
  jobs,    \* the table: Id -> row, or NULL where there is no row
  call,    \* Conn -> the settle call being served
  now,     \* clock_timestamp(): the database is the only clock
  \* What no code stores, kept to state properties:
  runs,    \* every run a claim ever handed out (what the workers know)
  purged   \* Id -> what is remembered of a row the purge deleted, or NULL

vars == <<jobs, call, now, runs, purged>>

-----------------------------------------------------------------------------
(* Types *)

Terminal == {"succeeded", "failed", "abandoned", "cancelled"}

Status == {"pending", "claimed"} \cup Terminal

\* The columns that something reads.  A result or an error is opaque to the
\* queue; it is represented by the number of the run that reported it, and
\* the reaper's own error, which no run reported, by 0.  cancel_requested_at
\* and provider_call_id are written by nothing, updated_at is read by nothing.
Row ==
  [ owner_id         : Owner,
    kind             : Kind,
    idempotency_key  : Key \cup {NULL},
    status           : Status,
    attempt          : Nat,
    max_attempts     : Nat \ {0},
    run_at           : Nat,
    lease_expires_at : Nat \cup {NULL},
    claimed_by       : Worker \cup {NULL},
    result           : Nat \cup {NULL},
    error            : Nat \cup {NULL},
    created_at       : Nat,
    settled_at       : Nat \cup {NULL},
    expires_at       : Nat \cup {NULL} ]

\* What the properties need to know of a row that is gone.
Tombstone ==
  [ owner_id        : Owner,
    kind            : Kind,
    idempotency_key : Key \cup {NULL},
    attempt         : Nat,
    max_attempts    : Nat \ {0},
    created_at      : Nat,
    expires_at      : Nat ]

\* NULL is a value of its own: not a number, not a name, not a row.
ASSUME NullAssumption ==
  /\ NULL \notin Nat
  /\ NULL \notin Worker
  /\ NULL \notin Key
  /\ NULL \notin Row
  /\ NULL \notin Tombstone

JobReapError == 0

Run == [worker : Worker, id : Id, attempt : Nat \ {0}]

\* A settle call with its transaction open, holding the decision it read.
Deciding == {"requeue", "give_up"}

\* gRPC status codes a settle call is answered with.
Answers == {"OK", "FailedPrecondition", "Internal"}

Idle == [pc |-> "idle", run |-> NULL]

Call == {Idle} \cup [pc : Deciding \cup Answers, run : Run]

TypeOK ==
  /\ jobs \in [Id -> Row \cup {NULL}]
  /\ call \in [Conn -> Call]
  /\ now \in Nat
  /\ runs \in SUBSET Run
  /\ purged \in [Id -> Tombstone \cup {NULL}]

-----------------------------------------------------------------------------
(* Mutated forms of the definitions below, each with a plausible bug: the    *)
(* property it is paired with in PROJECT.json has to notice.                 *)

\* settle guarded by the job id alone
HoldsById(worker, id) == jobs[id] # NULL /\ worker \in Worker

\* settle guarded by the claimed status, whoever holds the claim
HoldsByStatus(worker, id) ==
  jobs[id] # NULL /\ jobs[id].status = "claimed" /\ worker \in Worker

\* a lease that ends with the instant it names
ReapableEarly ==
  {i \in Id : jobs[i] # NULL /\ jobs[i].status = "claimed" /\ jobs[i].lease_expires_at <= now}

\* a sweep that looks only for jobs it can give back to the queue
ReapableRetried ==
  {i \in Id : /\ jobs[i] # NULL
              /\ jobs[i].status = "claimed"
              /\ jobs[i].lease_expires_at < now
              /\ jobs[i].attempt < jobs[i].max_attempts}

\* a retention that ends one instant early
PurgeableEarly ==
  {i \in Id : jobs[i] # NULL /\ jobs[i].expires_at # NULL /\ jobs[i].expires_at <= now}

\* a purge that only looks at jobs that succeeded
PurgeableSucceeded ==
  {i \in Id : jobs[i] # NULL /\ jobs[i].status = "succeeded" /\ jobs[i].expires_at < now}

\* the requested cap stored as it came
NewRowRawCap(owner, kind, key, cap) ==
  [ owner_id |-> owner, kind |-> kind, idempotency_key |-> key,
    status |-> "pending", attempt |-> 0, max_attempts |-> cap,
    run_at |-> now, lease_expires_at |-> NULL, claimed_by |-> NULL,
    result |-> NULL, error |-> NULL,
    created_at |-> now, settled_at |-> NULL, expires_at |-> NULL ]

\* a claim that does not count the run it begins
ClaimedRowUncounted(row, worker, lease) ==
  [row EXCEPT !.status = "claimed", !.claimed_by = worker, !.lease_expires_at = now + lease]

\* a requeue that leaves the holder in place
RequeuedRowHeld(row) ==
  [row EXCEPT !.status = "pending", !.lease_expires_at = NULL, !.run_at = now]

\* a requeue that hands the run back as if it had not begun
RequeuedRowRefunded(row) ==
  [row EXCEPT !.status = "pending", !.claimed_by = NULL, !.lease_expires_at = NULL,
              !.run_at = now, !.attempt = @ - 1]

\* a requeue that backs off
RequeuedRowLater(row) ==
  [row EXCEPT !.status = "pending", !.claimed_by = NULL, !.lease_expires_at = NULL,
              !.run_at = now + 1]

\* a cap compared with <=, so that the last run is requeued as well
ReapedRowLoops(row) ==
  IF row.attempt <= row.max_attempts
  THEN [row EXCEPT !.status = "pending", !.claimed_by = NULL,
                   !.lease_expires_at = NULL, !.run_at = now]
  ELSE [row EXCEPT !.status = "abandoned", !.error = JobReapError, !.claimed_by = NULL,
                   !.lease_expires_at = NULL, !.settled_at = now,
                   !.expires_at = now + Retention]

-----------------------------------------------------------------------------
(* Reading the table *)

Rows == {i \in Id : jobs[i] # NULL}

InStatus(S) == {i \in Rows : jobs[i].status \in S}

\* The job was created at some time: it is in the table or was purged from it.
Minted == {i \in Id : jobs[i] # NULL \/ purged[i] # NULL}

\* The row, or what is remembered of it.
LastRow(i) == IF jobs[i] # NULL THEN jobs[i] ELSE purged[i]

\* The row jobs_idempotency_idx conflicts on: same owner, kind and key, and
\* the index is partial on idempotency_key IS NOT NULL.
SameKey(row, owner, kind, key) ==
  /\ key # NULL
  /\ row.owner_id = owner
  /\ row.kind = kind
  /\ row.idempotency_key = key

\* The guard of settle and requeue: id, claimed_by and status, nothing else.
Holds(worker, id) ==
  /\ jobs[id] # NULL
  /\ jobs[id].status = "claimed"
  /\ jobs[id].claimed_by = worker

Claimable(kinds) ==
  {i \in InStatus({"pending"}) : jobs[i].run_at <= now /\ jobs[i].kind \in kinds}

Reapable == {i \in InStatus({"claimed"}) : jobs[i].lease_expires_at < now}

Purgeable == {i \in Rows : jobs[i].expires_at # NULL /\ jobs[i].expires_at < now}

-----------------------------------------------------------------------------
(* What each statement writes into a row *)

NewRow(owner, kind, key, cap) ==
  [ owner_id |-> owner, kind |-> kind, idempotency_key |-> key,
    status |-> "pending", attempt |-> 0,
    max_attempts |-> IF cap = 0 THEN 1 ELSE cap,
    run_at |-> now, lease_expires_at |-> NULL, claimed_by |-> NULL,
    result |-> NULL, error |-> NULL,
    created_at |-> now, settled_at |-> NULL, expires_at |-> NULL ]

ClaimedRow(row, worker, lease) ==
  [row EXCEPT !.status = "claimed",
              !.attempt = @ + 1,
              !.claimed_by = worker,
              !.lease_expires_at = now + lease]

SettledRow(row, status, result, error) ==
  [row EXCEPT !.status = status,
              !.result = result,
              !.error = error,
              !.claimed_by = NULL,
              !.lease_expires_at = NULL,
              !.settled_at = now,
              !.expires_at = now + Retention]

RequeuedRow(row) ==
  [row EXCEPT !.status = "pending",
              !.claimed_by = NULL,
              !.lease_expires_at = NULL,
              !.run_at = now]

\* A lapsed claim: back to pending while an attempt is left, else abandoned.
ReapedRow(row) ==
  IF row.attempt < row.max_attempts
  THEN RequeuedRow(row)
  ELSE SettledRow(row, "abandoned", row.result, JobReapError)

-----------------------------------------------------------------------------
(* Actions *)

\* Enqueue: insert, or leave the row already recorded under the same key as
\* it is (the no-op DO UPDATE) and return that one.
JobEnqueue(id, owner, kind, key, cap) ==
  /\ id \notin Minted
  /\ jobs' = IF \E i \in Rows : SameKey(jobs[i], owner, kind, key)
             THEN jobs
             ELSE [jobs EXCEPT ![id] = NewRow(owner, kind, key, cap)]
  /\ UNCHANGED <<call, now, runs, purged>>

\* The repository puts no rule on worker ids.  "shared": an id may be used by
\* any number of calls at once.  "serial": a worker does not claim while one of
\* its retryable settles is still being decided.  "fresh": an id claims once.
MayClaim(worker) ==
  /\ WorkerIds = "serial" =>
       \A c \in Conn : call[c].pc \in Deciding => call[c].run.worker # worker
  /\ WorkerIds = "fresh" => \A r \in runs : r.worker # worker

\* ORDER BY run_at LIMIT limit, over the rows that are not skipped.
OldestOf(batch, candidates, limit) ==
  /\ batch \subseteq candidates
  /\ Cardinality(batch) <= limit
  /\ Cardinality(batch) < limit => batch = candidates
  /\ \A i \in batch, j \in candidates \ batch : jobs[i].run_at <= jobs[j].run_at

\* Claim: locked are the rows other statements hold, which SKIP LOCKED skips.
JobClaim(worker, kinds, limit, lease, locked, batch) ==
  /\ MayClaim(worker)
  /\ OldestOf(batch, Claimable(kinds) \ locked, limit)
  /\ jobs' = [i \in Id |-> IF i \in batch THEN ClaimedRow(jobs[i], worker, lease)
                                          ELSE jobs[i]]
  /\ runs' = runs \cup
       {[worker |-> worker, id |-> i, attempt |-> jobs[i].attempt + 1] : i \in batch}
  /\ UNCHANGED <<call, now, purged>>

\* Settle with a success, or with a failure that is not retryable: one guarded
\* write.
JobSettle(c, r, success) ==
  /\ call[c] = Idle
  /\ IF Holds(r.worker, r.id)
     THEN /\ jobs' = [jobs EXCEPT ![r.id] =
                        IF success THEN SettledRow(@, "succeeded", r.attempt, NULL)
                                   ELSE SettledRow(@, "failed", NULL, r.attempt)]
          /\ call' = [call EXCEPT ![c] = [pc |-> "OK", run |-> r]]
     ELSE /\ call' = [call EXCEPT ![c] = [pc |-> "FailedPrecondition", run |-> r]]
          /\ UNCHANGED jobs
  /\ UNCHANGED <<now, runs, purged>>

\* Settle with a retryable failure, first statement: open the transaction, read
\* the row and decide on its attempts.
RetryRead(c, r) ==
  /\ call[c] = Idle
  /\ call' = [call EXCEPT ![c] =
       [pc  |-> IF ~Holds(r.worker, r.id) THEN "FailedPrecondition"
                ELSE IF jobs[r.id].attempt < jobs[r.id].max_attempts THEN "requeue"
                ELSE "give_up",
        run |-> r]]
  /\ UNCHANGED <<jobs, now, runs, purged>>

\* Second statement and commit: the write decided on, under the claim guard.  A
\* guard that matches no row surfaces as an error retry does not translate.
RetryWrite(c) ==
  LET r == call[c].run IN
  /\ call[c].pc \in Deciding
  /\ IF Holds(r.worker, r.id)
     THEN /\ jobs' = [jobs EXCEPT ![r.id] =
                        IF call[c].pc = "requeue" THEN RequeuedRow(@)
                        ELSE SettledRow(@, "failed", NULL, r.attempt)]
          /\ call' = [call EXCEPT ![c].pc = "OK"]
     ELSE /\ call' = [call EXCEPT ![c].pc = "Internal"]
          /\ UNCHANGED jobs
  /\ UNCHANGED <<now, runs, purged>>

\* An open transaction rolls back with no answer delivered: the caller hung up,
\* the connection broke, or the server died.
Abort(c) ==
  /\ call[c].pc \in Deciding
  /\ call' = [call EXCEPT ![c] = Idle]
  /\ UNCHANGED <<jobs, now, runs, purged>>

\* The handler returns its answer.
Answer(c) ==
  /\ call[c].pc \in Answers
  /\ call' = [call EXCEPT ![c] = Idle]
  /\ UNCHANGED <<jobs, now, runs, purged>>

\* One sweep of the reaper, over the lapsed claims no other statement holds.
JobReap(locked) ==
  /\ jobs' = [i \in Id |-> IF i \in Reapable \ locked THEN ReapedRow(jobs[i])
                                                      ELSE jobs[i]]
  /\ UNCHANGED <<call, now, runs, purged>>

Buried(row) ==
  [ owner_id |-> row.owner_id, kind |-> row.kind, idempotency_key |-> row.idempotency_key,
    attempt |-> row.attempt, max_attempts |-> row.max_attempts,
    created_at |-> row.created_at, expires_at |-> row.expires_at ]

\* One run of the scheduled purge.  Rows that expire after the statement took
\* its snapshot are left to the next run.
Purge(gone) ==
  /\ gone \subseteq Purgeable
  /\ jobs' = [i \in Id |-> IF i \in gone THEN NULL ELSE jobs[i]]
  /\ purged' = [i \in Id |-> IF i \in gone THEN Buried(jobs[i]) ELSE purged[i]]
  /\ UNCHANGED <<call, now, runs>>

\* Some row waits for the clock: a lease to lapse, a retention to pass.
ClockAwaited ==
  \E i \in Rows : \/ jobs[i].status = "claimed" /\ jobs[i].lease_expires_at >= now
                  \/ jobs[i].expires_at # NULL /\ jobs[i].expires_at >= now

\* Time passes: freely up to Horizon, and beyond it only while it is awaited,
\* which bounds the clock without ever stopping it short of a deadline.
Tick ==
  /\ now < Horizon \/ ClockAwaited
  /\ now' = now + 1
  /\ UNCHANGED <<jobs, call, runs, purged>>

-----------------------------------------------------------------------------
Init ==
  /\ jobs = [i \in Id |-> NULL]
  /\ call = [c \in Conn |-> Idle]
  /\ now = 0
  /\ runs = {}
  /\ purged = [i \in Id |-> NULL]

Enqueue == \E id \in Id, owner \in Owner, kind \in Kind, key \in Key \cup {NULL},
              cap \in RequestedCaps : JobEnqueue(id, owner, kind, key, cap)

Claim == \E worker \in Worker, kinds \in SUBSET Kind, limit \in Limits, lease \in Leases :
            \E locked, batch \in SUBSET Id :
               JobClaim(worker, kinds, limit, lease, locked, batch)

Settle == \E c \in Conn, r \in runs, success \in BOOLEAN : JobSettle(c, r, success)

Retry == \E c \in Conn, r \in runs : RetryRead(c, r)

Next ==
  \/ Enqueue
  \/ Claim
  \/ Settle
  \/ Retry
  \/ \E c \in Conn : RetryWrite(c) \/ Abort(c) \/ Answer(c)
  \/ \E locked \in SUBSET Id : JobReap(locked)
  \/ \E gone \in SUBSET Id : Purge(gone)
  \/ Tick

Spec == Init /\ [][Next]_vars

-----------------------------------------------------------------------------
(* Safety, whatever the workers do with their ids *)

LegalRow(row) ==
  /\ row.status = "claimed" <=> row.lease_expires_at # NULL
  /\ row.status = "claimed" <=> row.claimed_by # NULL
  /\ row.status \in Terminal <=> row.settled_at # NULL
  /\ row.status \in Terminal <=> row.expires_at # NULL
  /\ row.status \in Terminal => row.expires_at = row.settled_at + Retention
  /\ row.result # NULL => row.status = "succeeded"
  /\ row.error # NULL => row.status \in {"failed", "abandoned"}

\* Every row a statement writes is one the database accepts: a lease exactly
\* while claimed (jobs_lease_matches_status), both settle timestamps exactly
\* once terminal (jobs_terminal_fields), and, which no constraint enforces, the
\* second a retention after the first, a holder exactly while claimed, a result
\* or an error only on a settled row.
RowsLegal == \A i \in Rows : LegalRow(jobs[i])

\* Claims are disjoint: no run of a job, as numbered by attempt, is ever handed
\* to two workers, whatever requeues, sweeps and stale settles happened in
\* between.
OneRunPerAttempt ==
  \A r, s \in runs : r.id = s.id /\ r.attempt = s.attempt => r = s

\* The claim on a row is a run that was handed out, and the latest one: attempt
\* never falls behind the runs begun.
HolderHasLatestRun ==
  /\ \A r \in runs : /\ r.id \in Minted
                     /\ r.id \in Rows => r.attempt <= jobs[r.id].attempt
  /\ \A i \in InStatus({"claimed"}) :
       [worker |-> jobs[i].claimed_by, id |-> i, attempt |-> jobs[i].attempt] \in runs

\* The idempotency window: of two jobs ever created under one owner, kind and
\* key, one was purged, and the other was created only after its retention.
IdempotencyWindow ==
  \A i, j \in Minted :
    /\ i # j
    /\ SameKey(LastRow(j), LastRow(i).owner_id, LastRow(i).kind, LastRow(i).idempotency_key)
    => \/ purged[i] # NULL /\ LastRow(j).created_at > purged[i].expires_at
       \/ purged[j] # NULL /\ LastRow(i).created_at > purged[j].expires_at

\* A settled job is final: no stale settle, requeue, claim or sweep writes the
\* row again, and it leaves the table only with its retention passed.
SettledIsFinal ==
  [][\A i \in InStatus(Terminal) :
       jobs'[i] # jobs[i] => /\ jobs'[i] = NULL
                             /\ now - jobs[i].settled_at > Retention]_vars

\* A lease protects its run: until it lapses, a claimed row is written only by
\* a settle call of the worker that holds it.
LeaseProtectsRun ==
  [][\A i \in InStatus({"claimed"}) :
       jobs'[i] # jobs[i] =>
         \/ jobs[i].lease_expires_at < now
         \/ \E c \in Conn : /\ call[c] # call'[c]
                            /\ call'[c].pc = "OK"
                            /\ call'[c].run.id = i
                            /\ call'[c].run.worker = jobs[i].claimed_by]_vars

-----------------------------------------------------------------------------
(* Safety that rests on how workers use their ids *)

\* MaxAttempts caps the value Attempt may reach: a job never begins more runs
\* than it was granted, and one that waits still has a run left.
AttemptWithinCap ==
  \A i \in Rows :
    /\ jobs[i].attempt <= jobs[i].max_attempts
    /\ jobs[i].status = "pending" => jobs[i].attempt < jobs[i].max_attempts

\* A retry's decision may be stale when it is written, but not dangerously so: a
\* call that decided to requeue, and still holds the job, leaves it below its
\* cap; and what it decides on is a run that was handed out.
RequeueWithinCap ==
  \A c \in Conn : call[c].pc \in Deciding =>
    /\ call[c].run \in runs
    /\ call[c].pc = "requeue" /\ Holds(call[c].run.worker, call[c].run.id) =>
         jobs[call[c].run.id].attempt < jobs[call[c].run.id].max_attempts

\* A worker settling stale work overwrites nothing: the outcome recorded on a
\* settled job was reported by the last run that began.
OutcomeOfLatestRun ==
  \A i \in Rows :
    /\ jobs[i].status = "succeeded" => jobs[i].result = jobs[i].attempt
    /\ jobs[i].status = "failed" => jobs[i].error = jobs[i].attempt

-----------------------------------------------------------------------------
(* The abstract specification this one implements *)

PhaseOf(i) ==
  IF jobs[i] # NULL THEN jobs[i].status
  ELSE IF purged[i] # NULL THEN "purged" ELSE "new"

Lifecycle == INSTANCE JobLifecycle WITH
  Job   <- Id,
  phase <- [i \in Id |-> PhaseOf(i)],
  begun <- [i \in Id |-> IF i \in Minted THEN LastRow(i).attempt ELSE 0],
  cap   <- [i \in Id |-> IF i \in Minted THEN LastRow(i).max_attempts ELSE 0]

\* Every statement moves every job along the lifecycle, or leaves it alone.
ImplementsLifecycle == Lifecycle!Spec

-----------------------------------------------------------------------------
(* Liveness *)

\* The sweep and the purge are scheduled for ever (lib.Reaper.Run, pg_cron), a
\* row lock is held for one statement, so a later sweep finds it free; time
\* passes; an open transaction ends and a handler returns.  Nothing is assumed
\* of the workers.
ServerFairness ==
  /\ WF_vars(Tick)
  /\ WF_vars(JobReap({}))
  /\ WF_vars(Purge(Purgeable))
  /\ \A c \in Conn : WF_vars(RetryWrite(c) \/ Abort(c)) /\ WF_vars(Answer(c))

\* Some worker keeps polling for every kind.
WorkerFairness ==
  WF_vars(\E worker \in Worker, limit \in Limits, lease \in Leases, batch \in SUBSET Id :
            JobClaim(worker, Kind, limit, lease, {}, batch))

ServerSpec == Spec /\ ServerFairness

FairSpec == ServerSpec /\ WorkerFairness

\* A run always ends, even when its worker is never heard of again: a claimed
\* job is settled, requeued or recovered.
RunEnds ==
  \A i \in Id : (i \in InStatus({"claimed"})) ~> (i \notin InStatus({"claimed"}))

\* A settled job leaves the table, and its key becomes free.
SettledIsPurged == \A i \in Id : (i \in InStatus(Terminal)) ~> (purged[i] # NULL)

\* Every job enqueued ends, settled, however its workers and their calls fail.
JobEnds == \A i \in Id : (i \in Rows) ~> (i \in InStatus(Terminal) \/ purged[i] # NULL)

-----------------------------------------------------------------------------
(* What comments and documents say, and the code does not do *)

\* A settle of a job the caller no longer holds reports ErrJobNotClaimed, which
\* the handler maps to FailedPrecondition, never an internal error.
LostClaimIsReported == \A c \in Conn : call[c].pc # "Internal"
=============================================================================
