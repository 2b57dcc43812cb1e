----------------------------- MODULE Statements -----------------------------
(***************************************************************************)
(* The data-access statements below the level of JobQueue: how one call    *)
(* gets a connection from the pool, which rows its statement sees, which   *)
(* it locks, and when its writes commit.  JobQueue takes each statement as *)
(* one atomic step; here nothing is atomic but a commit, and the claim, the *)
(* sweep, the settle and the retrying settle interleave row by row.        *)
(*                                                                         *)
(* PostgreSQL is external.  What the queries of internal/dao rely on, at   *)
(* READ COMMITTED: a statement finds its rows in the snapshot it starts     *)
(* from; FOR UPDATE locks each row until the transaction ends and checks    *)
(* the predicate again on the row as last committed; SKIP LOCKED passes    *)
(* over a row somebody else holds, a plain UPDATE waits for it.            *)
(*                                                                         *)
(* Time is reduced to whether a lease has lapsed.  Every claim comes under *)
(* a worker id of its own (JobQueue's "fresh" ids), so the call that        *)
(* claimed names the worker.  A call is served once.                       *)
(***************************************************************************)
EXTENDS Integers, FiniteSets

CONSTANTS
  Job,             \* job ids
  Calls,           \* how many calls the server is sent
  Caps,            \* max_attempts values
  Limits,          \* batch limits a claim carries
  RawMaxOpenConns, \* values of POSTGRES_MAX_OPEN_CONNS; NULL: unset, or no integer
  NULL

ASSUME ConstantsAssumption ==
  /\ Calls \in Nat
  /\ Caps \subseteq Nat \ {0}
  /\ Limits \subseteq Nat \ {0}
  /\ RawMaxOpenConns \subseteq Int \cup {NULL}
  /\ NULL \notin Int

Call == 1..Calls

VARIABLES
  table,  \* Job -> the row as last committed
  lock,   \* Job -> the call holding the row lock, or NULL
  call,   \* Call -> the call being served
  pool    \* MaxOpenConns of the connection pool, fixed when it opens

vars == <<table, lock, call, pool>>

-----------------------------------------------------------------------------
(* Types *)

Settled == {"succeeded", "failed", "abandoned"}

Row ==
  [ status       : {"pending", "claimed"} \cup Settled,
    attempt      : Nat,
    max_attempts : Nat,
    claimed_by   : Call \cup {NULL},
    lapsed       : BOOLEAN ]

\* pc: not sent; waiting for a connection; with a connection, about to read, about
\* to start retry's second statement, locking rows; answered.
Held == {"read", "scan", "lock"}

Ops == {"claim", "reap", "settle", "retry"}

Writes == {"pending", "succeeded", "failed"}

Answers == {"OK", "FailedPrecondition", "Internal"}

\* What is not there is none of these.
ASSUME NullAssumption == NULL \notin Ops \cup Writes \cup Answers

\* op is the service called, limit a claim's batch limit, worker and job the run
\* a settle is about, write the status it moves the job to (NULL until decided),
\* todo the rows of the snapshot not yet visited, batch the rows locked.
CallState ==
  [ pc     : {"idle", "conn", "done"} \cup Held,
    op     : Ops \cup {NULL},
    limit  : Limits \cup {NULL},
    worker : Call \cup {NULL},
    job    : Job \cup {NULL},
    write  : Writes \cup {NULL},
    todo   : SUBSET Job,
    batch  : SUBSET Job,
    answer : Answers \cup {NULL} ]

TypeOK ==
  /\ table \in [Job -> Row]
  /\ lock \in [Job -> Call \cup {NULL}]
  /\ call \in [Call -> CallState]
  /\ pool \in Int

Idle ==
  [ pc |-> "idle", op |-> NULL, limit |-> NULL, worker |-> NULL, job |-> NULL,
    write |-> NULL, todo |-> {}, batch |-> {}, answer |-> NULL ]

-----------------------------------------------------------------------------
(* The pool *)

\* config.LoadEnv (external): an unset or malformed value yields the default.
LoadEnv(raw, default) == IF raw = NULL THEN default ELSE raw

PostgresMaxOpenConnsDefault == 20

PostgresMaxOpenConns(raw) == LoadEnv(raw, PostgresMaxOpenConnsDefault)

\* The limit is set as the pool opens and holds for good.
newPostgresPreset == \E raw \in RawMaxOpenConns : pool = PostgresMaxOpenConns(raw)

\* database/sql (external): a limit that is not positive is no limit.
HasConn == {c \in Call : call[c].pc \in Held}

ConnFree == pool <= 0 \/ Cardinality(HasConn) < pool

-----------------------------------------------------------------------------
(* The predicates and the writes of the statements *)

Claimable(j) == table[j].status = "pending"

Reapable(j) == table[j].status = "claimed" /\ table[j].lapsed

Holds(worker, j) == table[j].status = "claimed" /\ table[j].claimed_by = worker

\* The WHERE clause of c's statement, on row j as last committed.
Matches(c, j) ==
  CASE call[c].op = "claim" -> Claimable(j)
    [] call[c].op = "reap"  -> Reapable(j)
    [] OTHER                -> j = call[c].job /\ Holds(call[c].worker, j)

\* What c's statement writes into row j.
Written(c, j) ==
  LET row   == table[j]
      freed == [row EXCEPT !.claimed_by = NULL, !.lapsed = FALSE]
  IN CASE call[c].op = "claim" ->
            [row EXCEPT !.status = "claimed", !.attempt = @ + 1, !.claimed_by = c]
       [] call[c].op = "reap" ->
            [freed EXCEPT !.status = IF row.attempt < row.max_attempts
                                     THEN "pending" ELSE "abandoned"]
       [] OTHER -> [freed EXCEPT !.status = call[c].write]

-----------------------------------------------------------------------------
(* Calls arrive *)

\* Calls are numbered in the order they are sent.
Arrive(c, request) ==
  /\ call[c] = Idle
  /\ \A d \in 1..(c - 1) : call[d] # Idle
  /\ call' = [call EXCEPT ![c] = request]
  /\ UNCHANGED <<table, lock, pool>>

JobClaim(c, limit) ==
  Arrive(c, [Idle EXCEPT !.pc = "conn", !.op = "claim", !.limit = limit])

JobReap(c) == Arrive(c, [Idle EXCEPT !.pc = "conn", !.op = "reap"])

\* The oneof of the settle request, as handler and service decode it: without a
\* failure it is a success, whatever the result bytes are.
Outcomes == {"unset", "result", "failure", "retryable"}

DecodedOp(outcome) == IF outcome = "retryable" THEN "retry" ELSE "settle"

DecodedWrite(outcome) ==
  IF outcome = "retryable" THEN NULL
  ELSE IF outcome = "failure" THEN "failed" ELSE "succeeded"

\* A worker settles a run its claim was answered with: late, more than once, or
\* with two outcomes at the same time.
JobSettle(c, worker, j, outcome) ==
  /\ call[worker].op = "claim" /\ call[worker].answer = "OK" /\ j \in call[worker].batch
  /\ Arrive(c, [Idle EXCEPT !.pc = "conn", !.op = DecodedOp(outcome), !.worker = worker,
                            !.job = j, !.write = DecodedWrite(outcome)])

-----------------------------------------------------------------------------
(* Calls are served *)

Settling(c) == call[c].op \in {"settle", "retry"}

Unlocked(c) == [j \in Job |-> IF lock[j] = c THEN NULL ELSE lock[j]]

\* The rows a caller knows of when its call has ended.
Kept(c, answer) == IF call[c].op = "claim" /\ answer = "OK" THEN call[c].batch ELSE {}

\* The call ends: its connection returns to the pool, its row locks are gone.
\* What stays is what its caller knows: the answer, and of a claim its batch.
End(c, answer) ==
  /\ call' = [call EXCEPT ![c] =
       [@ EXCEPT !.pc = "done", !.answer = answer, !.limit = NULL, !.write = NULL,
                 !.todo = {}, !.batch = Kept(c, answer)]]
  /\ lock' = Unlocked(c)

\* A guard that matches no row: ErrJobNotClaimed from a settle, an error that
\* retry does not translate from its second statement.
NoRow(c) == End(c, IF call[c].op = "retry" THEN "Internal" ELSE "FailedPrecondition")

\* The statement takes its snapshot and finds the rows it is about.
Scan(c) ==
  LET found == {j \in Job : Matches(c, j)} IN
  \/ found = {} /\ Settling(c) /\ NoRow(c)
  \/ /\ found # {} \/ ~Settling(c)
     /\ call' = [call EXCEPT ![c].pc = "lock", ![c].todo = found]
     /\ UNCHANGED lock

\* A pooled connection: for a single statement, which starts, or for the whole of
\* retry's transaction.
Acquire(c) ==
  /\ call[c].pc = "conn"
  /\ ConnFree
  /\ \/ call[c].op # "retry" /\ Scan(c)
     \/ /\ call[c].op = "retry"
        /\ call' = [call EXCEPT ![c].pc = "read"]
        /\ UNCHANGED lock
  /\ UNCHANGED <<table, pool>>

\* (mutated form of RetryRead: the read leaves the transaction for the pool)
RetryReadOutside(c) ==
  /\ call[c].pc = "read"
  /\ ConnFree
  /\ \/ /\ Holds(call[c].worker, call[c].job)
        /\ call' = [call EXCEPT ![c].pc = "scan", ![c].write =
             IF table[call[c].job].attempt < table[call[c].job].max_attempts
             THEN "pending" ELSE "failed"]
        /\ UNCHANGED lock
     \/ ~Holds(call[c].worker, call[c].job) /\ End(c, "FailedPrecondition")
  /\ UNCHANGED <<table, pool>>

\* The first statement of retry, on the connection of its transaction: a plain
\* SELECT, which locks nothing.
RetryRead(c) ==
  /\ call[c].pc = "read"
  /\ \/ /\ Holds(call[c].worker, call[c].job)
        /\ call' = [call EXCEPT ![c].pc = "scan", ![c].write =
             IF table[call[c].job].attempt < table[call[c].job].max_attempts
             THEN "pending" ELSE "failed"]
        /\ UNCHANGED lock
     \/ ~Holds(call[c].worker, call[c].job) /\ End(c, "FailedPrecondition")
  /\ UNCHANGED <<table, pool>>

\* The second: the write decided on.
RetryWrite(c) ==
  /\ call[c].pc = "scan"
  /\ Scan(c)
  /\ UNCHANGED <<table, pool>>

Full(c) == call[c].limit # NULL /\ Cardinality(call[c].batch) >= call[c].limit

Take(c, j) ==
  /\ call' = [call EXCEPT ![c].todo = @ \ {j}, ![c].batch = @ \cup {j}]
  /\ lock' = [lock EXCEPT ![j] = c]

Skip(c, j) == call' = [call EXCEPT ![c].todo = @ \ {j}] /\ UNCHANGED lock

\* (mutated forms of Visit: the lease is the one of the snapshot, the row is taken
\* without a lock, the row is waited for)
VisitStaleLease(c, j) ==
  /\ call[c].pc = "lock" /\ ~Settling(c)
  /\ j \in call[c].todo /\ ~Full(c)
  /\ IF /\ lock[j] = NULL
        /\ Matches(c, j) \/ (call[c].op = "reap" /\ table[j].status = "claimed")
     THEN Take(c, j) ELSE Skip(c, j)
  /\ UNCHANGED <<table, pool>>

VisitUnlocked(c, j) ==
  /\ call[c].pc = "lock" /\ ~Settling(c)
  /\ j \in call[c].todo /\ ~Full(c)
  /\ call' = [call EXCEPT ![c].todo = @ \ {j}, ![c].batch = @ \cup {j}]
  /\ UNCHANGED <<table, lock, pool>>

VisitWaiting(c, j) ==
  /\ call[c].pc = "lock" /\ ~Settling(c)
  /\ j \in call[c].todo /\ ~Full(c)
  /\ lock[j] = NULL
  /\ IF Matches(c, j) THEN Take(c, j) ELSE Skip(c, j)
  /\ UNCHANGED <<table, pool>>

\* FOR UPDATE SKIP LOCKED: the next row of a claim or a sweep, until the limit.
Visit(c, j) ==
  /\ call[c].pc = "lock" /\ ~Settling(c)
  /\ j \in call[c].todo /\ ~Full(c)
  /\ IF lock[j] = NULL /\ Matches(c, j) THEN Take(c, j) ELSE Skip(c, j)
  /\ UNCHANGED <<table, pool>>

\* (mutated forms of Update: the guard is not read again after the wait; a row
\* that is locked counts as no row)
UpdateUnchecked(c) ==
  /\ call[c].pc = "lock" /\ Settling(c)
  /\ \E j \in call[c].todo : lock[j] = NULL /\ Take(c, j)
  /\ UNCHANGED <<table, pool>>

UpdateSkipping(c) ==
  /\ call[c].pc = "lock" /\ Settling(c)
  /\ \E j \in call[c].todo :
       IF lock[j] = NULL /\ Matches(c, j) THEN Take(c, j) ELSE NoRow(c)
  /\ UNCHANGED <<table, pool>>

\* The UPDATE of a settle or a requeue: wait for the row, then read the guard
\* again on what the wait left.
Update(c) ==
  /\ call[c].pc = "lock" /\ Settling(c)
  /\ \E j \in call[c].todo :
       /\ lock[j] = NULL
       /\ IF Matches(c, j) THEN Take(c, j) ELSE NoRow(c)
  /\ UNCHANGED <<table, pool>>

\* The statement has its rows: they are written and the transaction commits.  A
\* connection that breaks at that moment leaves the caller with an error.
Commit(c, heard) ==
  /\ call[c].pc = "lock"
  /\ call[c].todo = {} \/ Full(c)
  /\ table' = [j \in Job |-> IF j \in call[c].batch THEN Written(c, j) ELSE table[j]]
  /\ End(c, IF heard THEN "OK" ELSE "Internal")
  /\ UNCHANGED pool

\* The context is cancelled, or the database fails: everything is rolled back.
Fail(c) ==
  /\ call[c].pc \in {"conn"} \cup Held
  /\ End(c, "Internal")
  /\ UNCHANGED <<table, pool>>

-----------------------------------------------------------------------------
\* lease_expires_at falls behind clock_timestamp().
Lapse(j) ==
  /\ table[j].status = "claimed" /\ ~table[j].lapsed
  /\ table' = [table EXCEPT ![j].lapsed = TRUE]
  /\ UNCHANGED <<lock, call, pool>>

\* Every job was enqueued before.
Init ==
  /\ \E cap \in [Job -> Caps] :
       table = [j \in Job |-> [status |-> "pending", attempt |-> 0, max_attempts |-> cap[j],
                               claimed_by |-> NULL, lapsed |-> FALSE]]
  /\ lock = [j \in Job |-> NULL]
  /\ call = [c \in Call |-> Idle]
  /\ newPostgresPreset

Sent ==
  \/ \E c \in Call, limit \in Limits : JobClaim(c, limit)
  \/ \E c \in Call : JobReap(c)
  \/ \E c, worker \in Call, j \in Job, outcome \in Outcomes : JobSettle(c, worker, j, outcome)

\* A step of a call that has its connection.
Serve(c) ==
  \/ RetryRead(c) \/ RetryWrite(c) \/ Update(c)
  \/ \E j \in Job : Visit(c, j)
  \/ \E heard \in BOOLEAN : Commit(c, heard)

Next ==
  \/ \E j \in Job : Lapse(j)
  \/ Sent
  \/ \E c \in Call : Acquire(c) \/ Serve(c) \/ Fail(c)

Spec == Init /\ [][Next]_vars

-----------------------------------------------------------------------------
(* Properties *)

Lifecycle == INSTANCE JobLifecycle WITH
  phase <- [j \in Job |-> table[j].status],
  begun <- [j \in Job |-> table[j].attempt],
  cap   <- [j \in Job |-> table[j].max_attempts]

\* Statements that interleave row by row still move every job along its
\* lifecycle: no job is begun twice at once, by two claims that both saw it
\* pending, and none is given back or given up that was not being run.
ImplementsLifecycle == [][Lifecycle!Next]_vars

\* A run is settled once: of any number of settles of one run, late, repeated or
\* at the same time, at most one is told that it took.
OneOkPerRun ==
  \A c, d \in Call :
    /\ Settling(c) /\ Settling(d)
    /\ call[c].answer = "OK" /\ call[d].answer = "OK"
    /\ call[c].worker = call[d].worker /\ call[c].job = call[d].job
    => c = d

\* A settle that is answered is answered for good: told that it took, or that it
\* came too late, its worker no longer holds the job and may drop the work.  No
\* settle is refused because of a sweep that is rolled back after all.
AnsweredRunIsOver ==
  \A c \in Call :
    Settling(c) /\ call[c].answer \in {"OK", "FailedPrecondition"} =>
      ~Holds(call[c].worker, call[c].job)

\* A claim or a sweep that found a row in its snapshot never takes it from a
\* newer run: a lease that has not lapsed is ended by its holder alone.
LeaseProtectsRun ==
  [][\A j \in Job :
       table[j].status = "claimed" /\ ~table[j].lapsed /\ table'[j] # table[j] =>
         \/ table'[j] = [table[j] EXCEPT !.lapsed = TRUE]
         \/ \E c \in Call : /\ Settling(c) /\ call[c].pc = "lock" /\ call'[c].pc = "done"
                            /\ call[c].job = j
                            /\ call[c].worker = table[j].claimed_by]_vars

\* Concurrent claims never contend: a claim or a sweep that has its connection
\* can always go on, whoever holds the rows it meets.
BatchNeverWaits ==
  \A c \in Call :
    ~Settling(c) /\ call[c].pc \in Held => ENABLED Serve(c)

\* No call waits for ever, for a connection or for a row: with any pool, were it
\* of one connection, the calls in flight never all wait for each other.  (Every
\* step brings its call closer to its end, so while one can go on all of them
\* end.)
NobodyStuck ==
  (\E c \in Call : call[c].pc \in {"conn"} \cup Held) =>
    \E c \in Call : ENABLED Acquire(c) \/ ENABLED Serve(c)
=============================================================================
