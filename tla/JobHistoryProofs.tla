-------------------------- MODULE JobHistoryProofs --------------------------
(***************************************************************************)
(* Theorems about a job over its whole life in JobQueue: what its key, its *)
(* outcome and its status may become, from the insert to the purge, that   *)
(* JobQueue implements JobLifecycle, and that a run ends and a settled job *)
(* is purged in the end.                                                   *)
(***************************************************************************)
EXTENDS JobQueueProofs

-----------------------------------------------------------------------------
(* What one statement does to what is known of a job *)

\* No statement changes what identifies a job: pg.jobEnqueue.sql writes its
\* owner, kind, key and creation time, and what the purge leaves behind has them.
SameIdentity(a, b) ==
  /\ a.owner_id = b.owner_id
  /\ a.kind = b.kind
  /\ a.idempotency_key = b.idempotency_key
  /\ a.created_at = b.created_at

\* A job that is gone is gone: a job has a row or a tombstone, not both, and a
\* tombstone is older than the clock.
GoneForGood ==
  \A i \in Id : purged[i] # NULL => jobs[i] = NULL /\ purged[i].expires_at < now

\* A tombstone is written by the purge, of a row it deletes, and by nothing else.
LEMMA PurgedStep ==
  ASSUME TypeOK, [Next]_vars, NEW i \in Id
  PROVE  \/ purged'[i] = purged[i]
         \/ /\ jobs[i] \in Row /\ i \in Purgeable
            /\ jobs'[i] = NULL /\ purged'[i] = Buried(jobs[i]) /\ now' = now
<1>1. ASSUME NEW gone \in SUBSET Id, Purge(gone)
      PROVE  \/ purged'[i] = purged[i]
             \/ /\ jobs[i] \in Row /\ i \in Purgeable
                /\ jobs'[i] = NULL /\ purged'[i] = Buried(jobs[i]) /\ now' = now
  BY <1>1 DEF Purge, Purgeable, Rows, TypeOK
<1>2. purged' = purged \/ \E gone \in SUBSET Id : Purge(gone)
  BY DEF Next, vars, Enqueue, JobEnqueue, Claim, JobClaim, Settle, JobSettle, Retry,
         RetryRead, RetryWrite, Abort, Answer, JobReap, Tick
<1> QED
  BY <1>1, <1>2

\* The database's clock never goes back.
LEMMA ClockStep == ASSUME TypeOK, [Next]_vars PROVE now' \in Nat /\ now <= now'
<1>1. now \in Nat
  BY DEF TypeOK
<1>2. now' = now \/ now' = now + 1
  BY DEF Next, vars, Enqueue, JobEnqueue, Claim, JobClaim, Settle, JobSettle, Retry,
         RetryRead, RetryWrite, Abort, Answer, JobReap, Purge, Tick
<1> QED
  BY <1>1, <1>2

\* A row is deleted by a purge whose snapshot is taken after its retention.
LEMMA GoneStep == TypeOK /\ TypeOK' /\ GoneForGood /\ [Next]_vars => GoneForGood'
<1> SUFFICES ASSUME TypeOK, TypeOK', GoneForGood, [Next]_vars, NEW i \in Id, purged'[i] # NULL
             PROVE  jobs'[i] = NULL /\ purged'[i].expires_at < now'
  BY DEF GoneForGood
<1>1. CASE purged'[i] = purged[i]
  <2>1. purged[i] # NULL /\ jobs[i] = NULL /\ purged[i].expires_at < now
    BY <1>1 DEF GoneForGood
  <2>2. jobs'[i] = NULL
    BY <2>1, RowSteps DEF RowStep, Inserted, Claimed, Settled, Requeued, Reaped, Deleted,
       Minted, InStatus, Rows, Holds, Reapable
  <2>3. purged[i].expires_at \in Nat /\ now \in Nat
    BY <2>1 DEF TypeOK, Tombstone
  <2> QED
    BY <1>1, <2>1, <2>2, <2>3, ClockStep
<1>2. CASE purged'[i] # purged[i]
  <2>1. /\ jobs[i] \in Row /\ i \in Purgeable
        /\ jobs'[i] = NULL /\ purged'[i] = Buried(jobs[i]) /\ now' = now
    BY <1>2, PurgedStep
  <2> QED
    BY <2>1 DEF Purgeable, Buried
<1> QED
  BY <1>1, <1>2

\* What identifies a job survives every statement.
LEMMA IdentityStep ==
  ASSUME TypeOK, TypeOK', GoneForGood, [Next]_vars, NEW i \in Minted
  PROVE  i \in Minted' /\ SameIdentity(LastRow(i), LastRow(i)')
<1> USE NullAssumption DEF TypeOK
<1>0. i \in Id /\ i \in Minted' /\ RowStep(i)
  BY MintedGrows, RowSteps DEF Minted
<1>1. CASE jobs[i] = NULL
  <2>1. purged[i] # NULL /\ purged'[i] = purged[i]
    BY <1>0, <1>1, PurgedStep DEF Minted
  <2>2. jobs'[i] = NULL
    BY <1>0, <1>1, RowSteps DEF RowStep, Inserted, Claimed, Settled, Requeued, Reaped, Deleted,
       Minted, InStatus, Rows, Holds, Reapable
  <2> QED
    BY <1>0, <1>1, <2>1, <2>2 DEF LastRow, SameIdentity
<1>2. CASE jobs[i] # NULL /\ jobs'[i] = NULL
  <2>1. purged'[i] = Buried(jobs[i]) /\ jobs[i] \in Row
    BY <1>0, <1>2, OnlyPurgeDeletes DEF Deleted, Rows
  <2> QED
    BY <1>0, <1>2, <2>1 DEF LastRow, SameIdentity, Buried
<1>3. CASE jobs[i] # NULL /\ jobs'[i] # NULL
  <2>1. jobs[i] \in Row
    BY <1>0, <1>3
  <2>2. SameIdentity(jobs[i], jobs'[i])
    <3>1. CASE jobs'[i] = jobs[i]
      BY <3>1 DEF SameIdentity
    <3>2. CASE Inserted(i) \/ Deleted(i)
      BY <1>3, <3>2 DEF Inserted, Deleted
    <3>3. CASE Claimed(i)
      BY <2>1, <3>3 DEF Claimed, ClaimedRow, Row, SameIdentity
    <3>4. CASE Settled(i)
      <4>1. PICK r \in Run :
              jobs'[i] \in {SettledRow(jobs[i], "succeeded", r.attempt, NULL),
                           SettledRow(jobs[i], "failed", NULL, r.attempt)}
        BY <3>4 DEF Settled
      <4>2. CASE jobs'[i] = SettledRow(jobs[i], "succeeded", r.attempt, NULL)
        BY <2>1, <4>2 DEF SettledRow, Row, SameIdentity
      <4>3. CASE jobs'[i] = SettledRow(jobs[i], "failed", NULL, r.attempt)
        BY <2>1, <4>3 DEF SettledRow, Row, SameIdentity
      <4> QED
        BY <4>1, <4>2, <4>3
    <3>5. CASE Requeued(i)
      BY <2>1, <3>5 DEF Requeued, RequeuedRow, Row, SameIdentity
    <3>6. CASE Reaped(i)
      <4>1. \/ jobs'[i] = RequeuedRow(jobs[i])
            \/ jobs'[i] = SettledRow(jobs[i], "abandoned", jobs[i].result, JobReapError)
        BY <3>6 DEF Reaped, ReapedRow
      <4>2. CASE jobs'[i] = RequeuedRow(jobs[i])
        BY <2>1, <4>2 DEF RequeuedRow, Row, SameIdentity
      <4>3. CASE jobs'[i] = SettledRow(jobs[i], "abandoned", jobs[i].result, JobReapError)
        BY <2>1, <4>3 DEF SettledRow, Row, SameIdentity
      <4> QED
        BY <4>1, <4>2, <4>3
    <3> QED
      BY <1>0, <3>1, <3>2, <3>3, <3>4, <3>5, <3>6 DEF RowStep
  <2> QED
    BY <1>0, <1>3, <2>2 DEF LastRow
<1> QED
  BY <1>1, <1>2, <1>3

\* A job comes to be by an insert at the present time, and no row in the table has
\* its key: jobs_idempotency_idx, which ON CONFLICT consults.
LEMMA MintStep ==
  ASSUME TypeOK, TypeOK', [Next]_vars, NEW j \in Minted' \ Minted
  PROVE  /\ jobs'[j] # NULL /\ jobs'[j].created_at = now
         /\ Minted' = Minted \cup {j}
         /\ \A i \in Rows : ~SameKey(jobs[i], jobs'[j].owner_id, jobs'[j].kind,
                                     jobs'[j].idempotency_key)
<1> USE DEF TypeOK
<1>1. j \in Id /\ jobs[j] = NULL /\ purged[j] = NULL /\ RowStep(j)
  BY RowSteps DEF Minted
<1>2. purged'[j] = NULL /\ jobs'[j] # NULL
  BY <1>1, PurgedStep DEF Minted, Purgeable, Rows
<1>3. jobs'[j] # jobs[j]
  BY <1>1, <1>2
<1>4. Enqueue
  <2>1. j \notin Rows
    BY <1>1 DEF Rows
  <2>2. ~Claim
    BY <1>1, <1>3, <2>1 DEF Claim, JobClaim, OldestOf, Claimable, InStatus
  <2>3. ~Settle
    <3>1. ASSUME NEW c \in Conn, NEW r \in runs, NEW success \in BOOLEAN,
                 JobSettle(c, r, success)
          PROVE  jobs'[j] = jobs[j]
      BY <1>1, <3>1 DEF JobSettle, Holds
    <3> QED
      BY <1>3, <3>1 DEF Settle
  <2>4. ~(\E c \in Conn : RetryWrite(c))
    BY <1>1, <1>3 DEF RetryWrite, Holds
  <2>5. ~(\E locked \in SUBSET Id : JobReap(locked))
    BY <1>1, <1>3, <2>1 DEF JobReap, Reapable, InStatus
  <2>6. ~(\E gone \in SUBSET Id : Purge(gone))
    BY <1>1, <1>3, <2>1 DEF Purge, Purgeable
  <2> QED
    BY <1>3, <2>2, <2>3, <2>4, <2>5, <2>6
    DEF Next, vars, Retry, RetryRead, Abort, Answer, Tick
<1>5. PICK id \in Id, owner \in Owner, kind \in Kind, key \in Key \cup {NULL},
           cap \in RequestedCaps : JobEnqueue(id, owner, kind, key, cap)
  BY <1>4 DEF Enqueue
<1>6. ~\E i \in Rows : SameKey(jobs[i], owner, kind, key)
  BY <1>3, <1>5 DEF JobEnqueue
<1>7. jobs' = [jobs EXCEPT ![id] = NewRow(owner, kind, key, cap)] /\ purged' = purged
  BY <1>5, <1>6 DEF JobEnqueue
<1>8. id = j /\ jobs'[j] = NewRow(owner, kind, key, cap)
  BY <1>1, <1>3, <1>7
<1>9. /\ jobs'[j].owner_id = owner /\ jobs'[j].kind = kind
      /\ jobs'[j].idempotency_key = key /\ jobs'[j].created_at = now
  BY <1>8 DEF NewRow
<1>10. Minted' = Minted \cup {j}
  BY <1>1, <1>2, <1>7, <1>8 DEF Minted
<1> QED
  BY <1>2, <1>6, <1>9, <1>10

-----------------------------------------------------------------------------
(* The idempotency window *)

\* What the window promises of a job and another one recorded under its key.
Apart(i, j) ==
  /\ i # j
  /\ SameKey(LastRow(j), LastRow(i).owner_id, LastRow(i).kind, LastRow(i).idempotency_key)
  => \/ purged[i] # NULL /\ LastRow(j).created_at > purged[i].expires_at
     \/ purged[j] # NULL /\ LastRow(i).created_at > purged[j].expires_at

\* The window holds of a job that is inserted: it meets no row under its key, and
\* the tombstones under it are older than the clock.
LEMMA NewJobApart ==
  ASSUME TypeOK, TypeOK', GoneForGood, [Next]_vars,
         NEW j \in Minted' \ Minted, NEW i \in Minted
  PROVE  Apart(i, j)' /\ Apart(j, i)'
<1>1. /\ jobs'[j] # NULL /\ jobs'[j].created_at = now
      /\ ~(i \in Rows /\ SameKey(jobs[i], jobs'[j].owner_id, jobs'[j].kind,
                                 jobs'[j].idempotency_key))
  BY MintStep
<1>2. SameIdentity(LastRow(i), LastRow(i)') /\ i \in Id
  BY IdentityStep DEF Minted
<1>3. LastRow(j)' = jobs'[j]
  BY <1>1 DEF LastRow
<1>4. CASE i \in Rows
  BY <1>1, <1>2, <1>3, <1>4 DEF Apart, SameKey, SameIdentity, LastRow, Rows
<1>5. CASE i \notin Rows
  <2>1. jobs[i] = NULL /\ purged[i] # NULL /\ purged[i].expires_at < now
    BY <1>2, <1>5 DEF Rows, Minted, GoneForGood
  <2>2. purged'[i] = purged[i]
    BY <1>2, <2>1, PurgedStep DEF Purgeable, Rows
  <2>3. purged[i].expires_at \in Nat /\ now \in Nat
    BY <1>2, <2>1 DEF TypeOK, Tombstone
  <2>4. purged'[i] # NULL /\ LastRow(j)'.created_at > purged'[i].expires_at
    BY <1>1, <1>3, <2>1, <2>2, <2>3
  <2> QED
    BY <2>4 DEF Apart
<1> QED
  BY <1>4, <1>5

\* The window holds on of two jobs that it held of: who is purged stays purged.
LEMMA OldJobsApart ==
  ASSUME TypeOK, TypeOK', GoneForGood, [Next]_vars,
         NEW i \in Minted, NEW j \in Minted, Apart(i, j)
  PROVE  Apart(i, j)'
<1>1. SameIdentity(LastRow(i), LastRow(i)') /\ SameIdentity(LastRow(j), LastRow(j)')
  BY IdentityStep
<1>2. \A k \in {i, j} : purged[k] # NULL => purged'[k] = purged[k]
  BY PurgedStep DEF GoneForGood, Purgeable, Rows, Minted
<1> QED
  BY <1>1, <1>2 DEF Apart, SameKey, SameIdentity

\* One (owner, kind, key) names one job until that job is purged, and another
\* is created under it only after the retention of the first: enqueue, the unique
\* index and the purge keep the idempotency window of the documents.
THEOREM IdempotencyWindowHolds == Spec => []IdempotencyWindow
<1> DEFINE Inv == GoneForGood /\ IdempotencyWindow
<1>1. Init => Inv
  BY DEF Init, GoneForGood, IdempotencyWindow, Minted
<1>2. TypeOK /\ TypeOK' /\ Inv /\ [Next]_vars => Inv'
  <2> SUFFICES ASSUME TypeOK, TypeOK', Inv, [Next]_vars PROVE Inv'
    OBVIOUS
  <2>1. GoneForGood'
    BY GoneStep
  <2>2. ASSUME NEW i \in Minted', NEW j \in Minted', i # j PROVE Apart(i, j)'
    <3>1. CASE i \in Minted /\ j \in Minted
      <4>1. Apart(i, j)
        BY <3>1 DEF IdempotencyWindow, Apart
      <4> QED
        BY <3>1, <4>1, OldJobsApart
    <3>2. CASE i \in Minted /\ j \notin Minted
      BY <3>2, NewJobApart
    <3>3. CASE i \notin Minted /\ j \in Minted
      BY <3>3, NewJobApart
    <3>4. CASE i \notin Minted /\ j \notin Minted
      <4>1. Minted' = Minted \cup {j}
        BY <3>4, MintStep
      <4> QED
        BY <2>2, <3>4, <4>1
    <3> QED
      BY <3>1, <3>2, <3>3, <3>4
  <2>3. IdempotencyWindow'
    BY <2>2 DEF IdempotencyWindow, Apart
  <2> QED
    BY <2>1, <2>3
<1> QED
  BY <1>1, <1>2, TypeCorrect, PTL DEF Spec

-----------------------------------------------------------------------------
(* The recorded outcome, where a worker id claims once                        *)

\* A run is known by its worker and its job, when an id claims once: the second
\* claim of a job is under another id.
OneRunPerWorker ==
  \A r, s \in runs : r.worker = s.worker /\ r.id = s.id => r = s

\* A claim under a fresh worker id hands out the first runs of that id, one of each job;
\* no other step hands out a run.
LEMMA OneRunPerWorkerStep ==
  ASSUME TypeOK, OneRunPerWorker, [Next]_vars, WorkerIds = "fresh"
  PROVE  OneRunPerWorker'
<1>1. SUFFICES ASSUME NEW r \in runs', NEW s \in runs', r.worker = s.worker, r.id = s.id
               PROVE  r = s
  BY DEF OneRunPerWorker
<1>2. CASE r \in runs /\ s \in runs
  BY <1>1, <1>2 DEF OneRunPerWorker
<1>3. \A old \in runs, new \in runs' \ runs : old.worker # new.worker
  BY RunStep DEF MayClaim
<1>4. CASE r \in runs' \ runs /\ s \in runs' \ runs
  <2>1. r \in Run /\ s \in Run /\ r.attempt = s.attempt
    BY <1>1, <1>4, RunStep
  <2> QED
    BY <1>1, <2>1 DEF Run
<1> QED
  BY <1>1, <1>2, <1>3, <1>4

\* A settle that passes the claim guard is of the run that holds the job.
LEMMA SettlesOwnRun ==
  ASSUME TypeOK, HolderHasLatestRun, CapInv, OneRunPerWorker, NEW i \in Id, Settled(i)
  PROVE  \/ jobs'[i] = SettledRow(jobs[i], "succeeded", jobs[i].attempt, NULL)
         \/ jobs'[i] = SettledRow(jobs[i], "failed", NULL, jobs[i].attempt)
<1>1. PICK r \in Run :
        /\ r \in runs \/ \E c \in Conn : call[c].pc \in Deciding /\ call[c].run = r
        /\ r.id = i /\ Holds(r.worker, i)
        /\ jobs'[i] \in {SettledRow(jobs[i], "succeeded", r.attempt, NULL),
                         SettledRow(jobs[i], "failed", NULL, r.attempt)}
  BY DEF Settled
<1>2. r \in runs
  BY <1>1 DEF CapInv, RequeueWithinCap
<1>3. i \in InStatus({"claimed"}) /\ jobs[i].claimed_by = r.worker
  BY <1>1 DEF Holds, InStatus, Rows
<1>4. [worker |-> r.worker, id |-> i, attempt |-> jobs[i].attempt] \in runs
  BY <1>3 DEF HolderHasLatestRun
<1>5. r = [worker |-> r.worker, id |-> i, attempt |-> jobs[i].attempt]
  BY <1>1, <1>2, <1>4 DEF OneRunPerWorker
<1>6. r.attempt = jobs[i].attempt
  BY <1>5
<1> QED
  BY <1>1, <1>6

\* A settle or a sweep that ends a job is of the job's latest run.
LEMMA OutcomeStep ==
  ASSUME TypeOK, HolderHasLatestRun, CapInv, OneRunPerWorker, OutcomeOfLatestRun, [Next]_vars,
         NEW i \in Id, jobs'[i] # NULL
  PROVE  /\ jobs'[i].status = "succeeded" => jobs'[i].result = jobs'[i].attempt
         /\ jobs'[i].status = "failed" => jobs'[i].error = jobs'[i].attempt
<1>1. RowStep(i)
  BY RowSteps
<1>2. CASE jobs'[i] = jobs[i]
  BY <1>2 DEF OutcomeOfLatestRun, Rows
<1>3. CASE Inserted(i) \/ Deleted(i)
  <2>1. ~Deleted(i)
    BY DEF Deleted
  <2>2. PICK owner \in Owner, kind \in Kind, key \in Key \cup {NULL}, cap \in RequestedCaps :
          jobs'[i] = NewRow(owner, kind, key, cap)
    BY <1>3, <2>1 DEF Inserted
  <2>3. jobs'[i].status = "pending"
    BY <2>2 DEF NewRow
  <2> QED
    BY <2>3
<1>4. CASE Claimed(i)
  BY <1>4 DEF Claimed, ClaimedRow, InStatus, Rows, TypeOK, Row
<1>5. CASE Settled(i)
  <2>1. jobs[i] \in Row
    BY <1>5 DEF Settled, Holds, TypeOK
  <2>2. CASE jobs'[i] = SettledRow(jobs[i], "succeeded", jobs[i].attempt, NULL)
    BY <2>1, <2>2 DEF SettledRow, Row
  <2>3. CASE jobs'[i] = SettledRow(jobs[i], "failed", NULL, jobs[i].attempt)
    BY <2>1, <2>3 DEF SettledRow, Row
  <2> QED
    BY <1>5, <2>2, <2>3, SettlesOwnRun
<1>6. CASE Requeued(i)
  BY <1>6 DEF Requeued, RequeuedRow, Holds, TypeOK, Row
<1>7. CASE Reaped(i)
  <2>1. jobs[i] \in Row
    BY <1>7 DEF Reaped, Reapable, InStatus, Rows, TypeOK
  <2> QED
    BY <1>7, <2>1 DEF Reaped, ReapedRow, RequeuedRow, SettledRow, Row
<1> QED
  BY <1>1, <1>2, <1>3, <1>4, <1>5, <1>6, <1>7 DEF RowStep

\* A worker settling stale work overwrites nothing: where an id claims once, the
\* guard on claimed_by tells the last run from the earlier ones.  Where it does
\* not, it does not: see the run stale_outcome.
THEOREM OutcomesAreOfLatestRun ==
  ASSUME WorkerIds = "fresh"
  PROVE  Spec => []OutcomeOfLatestRun
<1> DEFINE Inv == CapInv /\ OneRunPerWorker /\ OutcomeOfLatestRun
<1>1. Init => Inv
  BY DEF Init, CapInv, AttemptWithinCap, RequeueWithinCap, OneRunPerWorker,
         OutcomeOfLatestRun, Rows, Idle, Deciding
<1>2. TypeOK /\ HolderHasLatestRun /\ Inv /\ [Next]_vars => Inv'
  <2> SUFFICES ASSUME TypeOK, HolderHasLatestRun, Inv, [Next]_vars PROVE Inv'
    OBVIOUS
  <2>1. CapInv'
    BY CapRowStep, CapCallStep DEF CapInv, AttemptWithinCap, RequeueWithinCap, Rows, Holds
  <2>2. OneRunPerWorker'
    BY OneRunPerWorkerStep
  <2>3. OutcomeOfLatestRun'
    BY OutcomeStep DEF OutcomeOfLatestRun, Rows
  <2> QED
    BY <2>1, <2>2, <2>3
<1> QED
  BY <1>1, <1>2, TypeCorrect, HolderAlwaysHasLatestRun, PTL DEF Spec

-----------------------------------------------------------------------------
(* JobQueue implements JobLifecycle *)

\* The status a job may be cancelled into is declared and written by nothing.
NeverCancelled == \A i \in Rows : jobs[i].status # "cancelled"

\* No statement writes the status cancelled.
LEMMA NeverCancelledStep == TypeOK /\ NeverCancelled /\ [Next]_vars => NeverCancelled'
<1> SUFFICES ASSUME TypeOK, NeverCancelled, [Next]_vars, NEW i \in Id, jobs'[i] # NULL
             PROVE  jobs'[i].status # "cancelled"
  BY DEF NeverCancelled, Rows
<1>1. RowStep(i)
  BY RowSteps
<1>2. CASE jobs'[i] = jobs[i]
  BY <1>2 DEF NeverCancelled, Rows
<1>3. CASE Inserted(i) \/ Deleted(i)
  <2>1. ~Deleted(i)
    BY DEF Deleted
  <2>2. PICK owner \in Owner, kind \in Kind, key \in Key \cup {NULL}, cap \in RequestedCaps :
          jobs'[i] = NewRow(owner, kind, key, cap)
    BY <1>3, <2>1 DEF Inserted
  <2>3. jobs'[i].status = "pending"
    BY <2>2 DEF NewRow
  <2> QED
    BY <2>3
<1>4. CASE ~(jobs'[i] = jobs[i]) /\ ~Inserted(i) /\ ~Deleted(i)
  <2>1. jobs[i] \in Row
    BY <1>1, <1>4 DEF RowStep, Claimed, Settled, Requeued, Reaped, Holds, Reapable, InStatus,
       Rows, TypeOK
  <2>2. CASE Claimed(i)
    BY <2>1, <2>2 DEF Claimed, ClaimedRow, Row
  <2>3. CASE Settled(i)
    BY <2>1, <2>3 DEF Settled, SettledRow, Row
  <2>4. CASE Requeued(i)
    BY <2>1, <2>4 DEF Requeued, RequeuedRow, Row
  <2>5. CASE Reaped(i)
    BY <2>1, <2>5 DEF Reaped, ReapedRow, RequeuedRow, SettledRow, Row
  <2> QED
    BY <1>1, <1>4, <2>2, <2>3, <2>4, <2>5 DEF RowStep
<1> QED
  BY <1>2, <1>3, <1>4

\* The mapping of one job, with a row before and after the step.
LEMMA LifeOfRow ==
  ASSUME NEW i \in Id, jobs[i] # NULL, jobs'[i] # NULL,
         \/ /\ jobs[i].status = "pending" /\ jobs'[i].status = "claimed"
            /\ jobs[i].attempt < jobs[i].max_attempts
            /\ jobs'[i].attempt = jobs[i].attempt + 1
         \/ /\ jobs[i].status = "claimed" /\ jobs'[i].status = "pending"
            /\ jobs[i].attempt < jobs[i].max_attempts
            /\ jobs'[i].attempt = jobs[i].attempt
         \/ /\ jobs[i].status = "claimed" /\ jobs'[i].status \in {"succeeded", "failed"}
            /\ jobs'[i].attempt = jobs[i].attempt
         \/ /\ jobs[i].status = "claimed" /\ jobs'[i].status = "abandoned"
            /\ jobs[i].attempt = jobs[i].max_attempts
            /\ jobs'[i].attempt = jobs[i].attempt,
         jobs'[i].max_attempts = jobs[i].max_attempts
  PROVE  Lifecycle!JobStep(i)
<1>1. PhaseOf(i) = jobs[i].status /\ PhaseOf(i)' = jobs'[i].status
  BY DEF PhaseOf
<1>2. /\ i \in Minted /\ LastRow(i) = jobs[i]
      /\ i \in Minted' /\ LastRow(i)' = jobs'[i]
  BY DEF Minted, LastRow
<1> QED
  BY <1>1, <1>2
  DEF Lifecycle!JobStep, Lifecycle!Begin, Lifecycle!GiveBack, Lifecycle!Finish,
      Lifecycle!Abandon, Lifecycle!Moves

\* A statement moves one job along the lifecycle, or leaves it where it is.
LEMMA LifeStep ==
  ASSUME TypeOK, TypeOK', RowsLegal, CapInv, GoneForGood, NeverCancelled, [Next]_vars,
         NEW i \in Id
  PROVE  Lifecycle!JobStep(i)
<1> USE NullAssumption DEF TypeOK
<1>0. RowStep(i)
  BY RowSteps
<1>1. CASE jobs'[i] = jobs[i] /\ purged'[i] = purged[i]
  <2>1. PhaseOf(i)' = PhaseOf(i)
    BY <1>1 DEF PhaseOf
  <2>2. (i \in Minted <=> i \in Minted') /\ LastRow(i)' = LastRow(i)
    BY <1>1 DEF Minted, LastRow
  <2> QED
    BY <2>1, <2>2 DEF Lifecycle!JobStep, Lifecycle!Rest
<1>2. CASE jobs'[i] = jobs[i] /\ purged'[i] # purged[i]
  BY <1>2, PurgedStep DEF Purgeable, Rows
<1>3. CASE jobs'[i] # jobs[i] /\ Inserted(i)
  <2>1. PICK owner \in Owner, kind \in Kind, key \in Key \cup {NULL}, cap \in RequestedCaps :
          jobs'[i] = NewRow(owner, kind, key, cap)
    BY <1>3 DEF Inserted
  <2>2. jobs'[i] \in Row /\ jobs'[i].status = "pending" /\ jobs'[i].attempt = 0
    BY <2>1, NewRowType DEF NewRow
  <2>3. PhaseOf(i) = "new" /\ PhaseOf(i)' = "pending"
    BY <1>3, <2>2 DEF PhaseOf, Inserted, Minted
  <2>4. i \in Minted' /\ LastRow(i)' = jobs'[i] /\ jobs'[i].max_attempts \in Nat \ {0}
    BY <2>2 DEF Minted, LastRow, Row
  <2> QED
    BY <2>2, <2>3, <2>4 DEF Lifecycle!JobStep, Lifecycle!Create
<1>4. CASE Deleted(i)
  <2>1. jobs[i] \in Row /\ jobs[i] # NULL /\ jobs[i].expires_at # NULL
    BY <1>4 DEF Deleted, Purgeable, Rows
  <2>2. jobs[i].status \in Lifecycle!Settled
    BY <2>1 DEF RowsLegal, LegalRow, Rows, Terminal, NeverCancelled, Lifecycle!Settled
  <2>3. jobs'[i] = NULL /\ purged'[i] = Buried(jobs[i]) /\ purged'[i] # NULL
    BY <1>4, <2>1, BuriedType DEF Deleted
  <2>4. PhaseOf(i) = jobs[i].status /\ PhaseOf(i)' = "purged"
    BY <2>1, <2>3 DEF PhaseOf
  <2>5. /\ i \in Minted /\ LastRow(i) = jobs[i]
        /\ i \in Minted' /\ LastRow(i)' = Buried(jobs[i])
    BY <2>1, <2>3 DEF Minted, LastRow
  <2> QED
    BY <2>2, <2>4, <2>5 DEF Buried, Lifecycle!JobStep, Lifecycle!Forget, Lifecycle!Moves
<1>5. CASE jobs'[i] # jobs[i] /\ ~Inserted(i) /\ ~Deleted(i)
  <2>1. jobs[i] \in Row /\ jobs[i] # NULL
    BY <1>0, <1>5 DEF RowStep, Claimed, Settled, Requeued, Reaped, Holds, Reapable, InStatus,
       Rows
  <2>2. i \in Rows /\ jobs'[i] # NULL
    BY <1>5, <2>1, OnlyPurgeDeletes DEF Rows
  <2>3. jobs'[i].max_attempts = jobs[i].max_attempts
    BY <2>2, AttemptStep
  <2>4. CASE Claimed(i)
    <3>1. jobs[i].status = "pending" /\ jobs[i].attempt < jobs[i].max_attempts
      BY <2>2, <2>4 DEF Claimed, InStatus, CapInv, AttemptWithinCap
    <3>2. jobs'[i].status = "claimed" /\ jobs'[i].attempt = jobs[i].attempt + 1
      BY <2>1, <2>4 DEF Claimed, ClaimedRow, Row
    <3> QED
      BY <2>1, <2>2, <2>3, <3>1, <3>2, LifeOfRow
  <2>5. CASE Settled(i)
    <3>1. jobs[i].status = "claimed"
      BY <2>5 DEF Settled, Holds
    <3>2. PICK r \in Run :
            jobs'[i] \in {SettledRow(jobs[i], "succeeded", r.attempt, NULL),
                         SettledRow(jobs[i], "failed", NULL, r.attempt)}
      BY <2>5 DEF Settled
    <3>3. jobs'[i].attempt = jobs[i].attempt
      BY <2>1, <2>2, <2>5, AttemptStep DEF Claimed, InStatus, Settled, Holds
    <3>4. jobs'[i].status \in {"succeeded", "failed"}
      <4>1. CASE jobs'[i] = SettledRow(jobs[i], "succeeded", r.attempt, NULL)
        BY <2>1, <4>1 DEF SettledRow, Row
      <4>2. CASE jobs'[i] = SettledRow(jobs[i], "failed", NULL, r.attempt)
        BY <2>1, <4>2 DEF SettledRow, Row
      <4> QED
        BY <3>2, <4>1, <4>2
    <3> QED
      BY <2>1, <2>2, <2>3, <3>1, <3>3, <3>4, LifeOfRow
  <2>6. CASE Requeued(i)
    <3>1. jobs[i].status = "claimed" /\ jobs[i].attempt < jobs[i].max_attempts
      BY <2>6 DEF Requeued, Holds, CapInv, RequeueWithinCap, Deciding
    <3>2. jobs'[i].status = "pending" /\ jobs'[i].attempt = jobs[i].attempt
      BY <2>1, <2>6 DEF Requeued, RequeuedRow, Row
    <3> QED
      BY <2>1, <2>2, <2>3, <3>1, <3>2, LifeOfRow
  <2>7. CASE Reaped(i)
    <3>1. jobs[i].status = "claimed" /\ jobs[i].attempt <= jobs[i].max_attempts
      BY <2>2, <2>7 DEF Reaped, Reapable, InStatus, CapInv, AttemptWithinCap
    <3>2. CASE jobs[i].attempt < jobs[i].max_attempts
      <4>1. jobs'[i] = RequeuedRow(jobs[i])
        BY <2>7, <3>2 DEF Reaped, ReapedRow
      <4>2. jobs'[i].status = "pending" /\ jobs'[i].attempt = jobs[i].attempt
        BY <2>1, <4>1 DEF RequeuedRow, Row
      <4> QED
        BY <2>1, <2>2, <2>3, <3>1, <3>2, <4>2, LifeOfRow
    <3>3. CASE ~(jobs[i].attempt < jobs[i].max_attempts)
      <4>1. jobs'[i] = SettledRow(jobs[i], "abandoned", jobs[i].result, JobReapError)
        BY <2>7, <3>3 DEF Reaped, ReapedRow
      <4>2. jobs'[i].status = "abandoned" /\ jobs'[i].attempt = jobs[i].attempt
        BY <2>1, <4>1 DEF SettledRow, Row
      <4>3. jobs[i].attempt = jobs[i].max_attempts
        BY <2>1, <3>1, <3>3 DEF Row
      <4> QED
        BY <2>1, <2>2, <2>3, <3>1, <4>2, <4>3, LifeOfRow
    <3> QED
      BY <3>2, <3>3
  <2> QED
    BY <1>0, <1>5, <2>4, <2>5, <2>6, <2>7 DEF RowStep
<1> QED
  BY <1>0, <1>1, <1>2, <1>3, <1>4, <1>5 DEF RowStep

\* Every statement moves every job along the lifecycle or leaves it alone, as
\* long as no worker id claims while it is still deciding a retryable settle:
\* the table, the leases, the clock and the two-step retry implement
\* JobLifecycle.
THEOREM QueueImplementsLifecycle ==
  ASSUME WorkerIds # "shared"
  PROVE  Spec => ImplementsLifecycle
<1> DEFINE Inv == CapInv /\ GoneForGood /\ NeverCancelled
<1>1. Init => Inv
  BY DEF Init, CapInv, AttemptWithinCap, RequeueWithinCap, GoneForGood, NeverCancelled,
         Rows, Idle, Deciding
<1>2. TypeOK /\ TypeOK' /\ Inv /\ [Next]_vars => Inv'
  <2> SUFFICES ASSUME TypeOK, TypeOK', Inv, [Next]_vars PROVE Inv'
    OBVIOUS
  <2>1. CapInv'
    BY CapRowStep, CapCallStep DEF CapInv, AttemptWithinCap, RequeueWithinCap, Rows, Holds
  <2> QED
    BY <2>1, GoneStep, NeverCancelledStep
<1>3. Init => Lifecycle!Init
  BY DEF Init, Lifecycle!Init, PhaseOf, Minted
<1>4. TypeOK /\ TypeOK' /\ RowsLegal /\ Inv /\ [Next]_vars => [Lifecycle!Next]_(Lifecycle!vars)
  BY LifeStep DEF Lifecycle!Next
<1> QED
  BY <1>1, <1>2, <1>3, <1>4, TypeCorrect, RowsAlwaysLegal, PTL
  DEF Spec, ImplementsLifecycle, Lifecycle!Spec

-----------------------------------------------------------------------------
(* What is due is done *)

\* A claim, or a settled row, by the instant it waits for.
Leased(i, t) == i \in InStatus({"claimed"}) /\ jobs[i].lease_expires_at = t
Kept(i, t) == i \in InStatus(Terminal) /\ jobs[i].expires_at = t

IsClaimed(i) == i \in InStatus({"claimed"})
IsTerminal(i) == i \in InStatus(Terminal)
IsPurged(i) == purged[i] # NULL
Past(t) == t < now

\* Nothing waits for ever for an instant that never comes: what the clock does for
\* a lease or a retention, whatever Horizon is.
Comes(i, t) ==
  /\ Leased(i, t) => <>(Past(t) \/ ~Leased(i, t))
  /\ Kept(i, t) => <>(Past(t) \/ ~Kept(i, t))
InstantsCome == \A i \in Id, t \in Nat : Comes(i, t)

Overdue == Reapable # {}
Outdated == Purgeable # {}

\* What ServerFairness says of the sweep and of the purge, with the conditions
\* written out under which they write something.
SchedulesRun ==
  /\ []<>~Overdue \/ []<><<JobReap({})>>_vars
  /\ []<>~Outdated \/ []<><<Purge(Purgeable)>>_vars

\* A claim keeps its lease as long as it lasts, and ends with the first sweep that
\* comes after its lease and meets no lock.
LEMMA LeaseLasts ==
  ASSUME NEW i \in Id, NEW t \in Nat
  PROVE  /\ TypeOK /\ Leased(i, t) /\ [Next]_vars => Leased(i, t)' \/ ~IsClaimed(i)'
         /\ Leased(i, t) /\ Past(t) => Overdue
         /\ TypeOK /\ Leased(i, t) /\ Past(t) /\ <<JobReap({})>>_vars => ~IsClaimed(i)'
<1>1. TypeOK /\ Leased(i, t) /\ [Next]_vars => Leased(i, t)' \/ ~IsClaimed(i)'
  <2> SUFFICES ASSUME TypeOK, Leased(i, t), [Next]_vars PROVE Leased(i, t)' \/ ~IsClaimed(i)'
    OBVIOUS
  <2>1. i \in Rows /\ jobs[i] \in Row /\ jobs[i].status = "claimed"
    BY DEF TypeOK, Leased, InStatus, Rows
  <2>2. RowStep(i)
    BY RowSteps
  <2>3. ~Inserted(i) /\ ~Claimed(i)
    BY <2>1 DEF Inserted, Minted, Rows, Claimed, InStatus
  <2>4. CASE jobs'[i] = jobs[i]
    BY <2>4 DEF Leased, InStatus, Rows
  <2>5. CASE Settled(i) \/ Requeued(i) \/ Reaped(i)
    BY <2>1, <2>5, RunEndsEffect DEF IsClaimed, InStatus, Rows
  <2>6. CASE Deleted(i)
    BY <2>6 DEF Deleted, IsClaimed, InStatus, Rows
  <2> QED
    BY <2>2, <2>3, <2>4, <2>5, <2>6 DEF RowStep
<1>2. Leased(i, t) /\ Past(t) => i \in Reapable
  BY DEF Leased, Past, Reapable, InStatus, Rows
<1>3. TypeOK /\ Leased(i, t) /\ Past(t) /\ JobReap({}) => ~IsClaimed(i)'
  <2> SUFFICES ASSUME TypeOK, Leased(i, t), Past(t), JobReap({}) PROVE ~IsClaimed(i)'
    OBVIOUS
  <2>1. Reaped(i) /\ jobs[i] \in Row
    BY <1>2 DEF JobReap, Reaped, TypeOK, Leased, InStatus, Rows
  <2> QED
    BY <2>1, RunEndsEffect DEF IsClaimed, InStatus, Rows
<1> QED
  BY <1>1, <1>2, <1>3 DEF Overdue

\* A settled row keeps its expiry until it is purged, which is with the first purge
\* that comes after it.
LEMMA RetentionLasts ==
  ASSUME NEW i \in Id, NEW t \in Nat
  PROVE  /\ TypeOK /\ RowsLegal /\ Kept(i, t) /\ [Next]_vars => Kept(i, t)' \/ IsPurged(i)'
         /\ Kept(i, t) /\ Past(t) => Outdated
         /\ TypeOK /\ Kept(i, t) /\ Past(t) /\ <<Purge(Purgeable)>>_vars => IsPurged(i)'
<1> USE NullAssumption
<1>0. ASSUME TypeOK, Kept(i, t)
      PROVE  i \in InStatus(Terminal) /\ i \in Rows /\ jobs[i] \in Row
  BY <1>0 DEF TypeOK, Kept, InStatus, Rows
<1>1. ASSUME TypeOK, i \in Rows, i \in Purgeable, purged'[i] = Buried(jobs[i]) PROVE IsPurged(i)'
  <2>1. Buried(jobs[i]) \in Tombstone
    BY <1>1, BuriedType DEF TypeOK, Rows, Purgeable
  <2> QED
    BY <1>1, <2>1 DEF IsPurged
<1>2. TypeOK /\ RowsLegal /\ Kept(i, t) /\ [Next]_vars => Kept(i, t)' \/ IsPurged(i)'
  <2> SUFFICES ASSUME TypeOK, RowsLegal, Kept(i, t), [Next]_vars
               PROVE  Kept(i, t)' \/ IsPurged(i)'
    OBVIOUS
  <2>1. CASE jobs'[i] = jobs[i]
    BY <2>1 DEF Kept, InStatus, Rows
  <2>2. CASE jobs'[i] # jobs[i]
    <3>1. jobs'[i] = NULL
      BY <1>0, <2>2, FinalStep
    <3>2. Deleted(i)
      BY <1>0, <3>1, OnlyPurgeDeletes
    <3> QED
      BY <1>0, <1>1, <3>2 DEF Deleted
  <2> QED
    BY <2>1, <2>2
<1>3. Kept(i, t) /\ Past(t) => i \in Purgeable
  BY DEF Kept, Past, Purgeable, InStatus, Rows
<1>4. TypeOK /\ Kept(i, t) /\ Past(t) /\ Purge(Purgeable) => IsPurged(i)'
  <2> SUFFICES ASSUME TypeOK, Kept(i, t), Past(t), Purge(Purgeable) PROVE IsPurged(i)'
    OBVIOUS
  <2>1. purged'[i] = Buried(jobs[i])
    BY <1>3 DEF Purge
  <2> QED
    BY <1>0, <1>1, <1>3, <2>1
<1> QED
  BY <1>2, <1>3, <1>4 DEF Outdated

\* An instant that has passed stays passed.
LEMMA PastStays == ASSUME NEW t \in Nat PROVE TypeOK /\ Past(t) /\ [Next]_vars => Past(t)'
  BY ClockStep DEF Past, TypeOK

\* From any moment of a run on.
Running ==
  /\ []TypeOK /\ []RowsLegal /\ [][Next]_vars
  /\ []InstantsCome /\ SchedulesRun

\* A claim that waits for one instant, or a settled row that does, waits no longer
\* than until it has come and a sweep, or a purge, after it.
LEMMA DueIsDone ==
  ASSUME NEW i \in Id, NEW t \in Nat
  PROVE  Running => /\ Leased(i, t) => <>~IsClaimed(i)
                    /\ Kept(i, t) => <>IsPurged(i)
<1>1. InstantsCome => Comes(i, t)
  BY DEF InstantsCome
<1>2. /\ TypeOK /\ Leased(i, t) /\ [Next]_vars => Leased(i, t)' \/ ~IsClaimed(i)'
      /\ Leased(i, t) /\ Past(t) => Overdue
      /\ TypeOK /\ Leased(i, t) /\ Past(t) /\ <<JobReap({})>>_vars => ~IsClaimed(i)'
  BY LeaseLasts
<1>3. /\ TypeOK /\ RowsLegal /\ Kept(i, t) /\ [Next]_vars => Kept(i, t)' \/ IsPurged(i)'
      /\ Kept(i, t) /\ Past(t) => Outdated
      /\ TypeOK /\ Kept(i, t) /\ Past(t) /\ <<Purge(Purgeable)>>_vars => IsPurged(i)'
  BY RetentionLasts
<1>4. TypeOK /\ Past(t) /\ [Next]_vars => Past(t)'
  BY PastStays
<1> QED
  BY <1>1, <1>2, <1>3, <1>4, PTL DEF Running, SchedulesRun, Comes

\* Every claim, and every settled row, waits for some instant.
LEMMA WaitsForSome ==
  ASSUME NEW i \in Id, TypeOK, RowsLegal
  PROVE  /\ IsClaimed(i) => \E t \in Nat : Leased(i, t)
         /\ IsTerminal(i) => \E t \in Nat : Kept(i, t)
<1>1. i \in Rows => jobs[i] \in Row /\ LegalRow(jobs[i])
  BY DEF TypeOK, Rows, RowsLegal
<1>2. IsClaimed(i) => jobs[i].lease_expires_at \in Nat
  BY <1>1 DEF IsClaimed, InStatus, LegalRow, Row
<1>3. IsTerminal(i) => jobs[i].expires_at \in Nat
  BY <1>1 DEF IsTerminal, InStatus, LegalRow, Row
<1> QED
  BY <1>2, <1>3 DEF Leased, Kept, IsClaimed, IsTerminal

\* So no claim lasts for ever, and no settled row stays.
LEMMA NothingLasts ==
  ASSUME NEW i \in Id
  PROVE  Spec /\ []InstantsCome /\ SchedulesRun =>
           /\ IsClaimed(i) ~> ~IsClaimed(i)
           /\ IsTerminal(i) ~> IsPurged(i)
<1>1. ASSUME NEW t \in Nat
      PROVE  Running => /\ Leased(i, t) => <>~IsClaimed(i)
                        /\ Kept(i, t) => <>IsPurged(i)
  BY DueIsDone
<1>2. /\ Running => ((\E t \in Nat : Leased(i, t)) => <>~IsClaimed(i))
      /\ Running => ((\E t \in Nat : Kept(i, t)) => <>IsPurged(i))
  BY <1>1
<1>3. /\ TypeOK /\ RowsLegal /\ IsClaimed(i) => \E t \in Nat : Leased(i, t)
      /\ TypeOK /\ RowsLegal /\ IsTerminal(i) => \E t \in Nat : Kept(i, t)
  BY WaitsForSome
<1>4. /\ Running => (IsClaimed(i) => <>~IsClaimed(i))
      /\ Running => (IsTerminal(i) => <>IsPurged(i))
  BY <1>2, <1>3, PTL DEF Running
<1>5. Running => []Running
  BY PTL DEF Running, SchedulesRun
<1>6. Spec /\ []InstantsCome /\ SchedulesRun => Running
  BY TypeCorrect, RowsAlwaysLegal, PTL DEF Running, Spec
<1> QED
  BY <1>4, <1>5, <1>6, PTL

\* Under fairness, a run always ends, even when its worker is never heard of again:
\* if the instant a lease waits for comes, a sweep recovers what is left of it, and
\* no settle or requeue in between renews the lease.  (lib.Reaper, pg.jobReap.sql.)
THEOREM RunsAlwaysEnd == Spec /\ []InstantsCome /\ SchedulesRun => RunEnds
<1>1. ASSUME NEW i \in Id
      PROVE  Spec /\ []InstantsCome /\ SchedulesRun =>
               ((i \in InStatus({"claimed"})) ~> (i \notin InStatus({"claimed"})))
  <2>1. Spec /\ []InstantsCome /\ SchedulesRun =>
          /\ IsClaimed(i) ~> ~IsClaimed(i)
          /\ IsTerminal(i) ~> IsPurged(i)
    BY NothingLasts
  <2>2. /\ IsClaimed(i) <=> (i \in InStatus({"claimed"}))
        /\ ~IsClaimed(i) => i \notin InStatus({"claimed"})
    BY DEF IsClaimed
  <2> QED
    BY <2>1, <2>2, PTL
<1> QED
  BY <1>1 DEF RunEnds

\* Under fairness, every settled job leaves the table, whichever way it settled.
\* (The purge scheduled by pg_cron, expires_at written by every settle.)
THEOREM SettledJobsArePurged == Spec /\ []InstantsCome /\ SchedulesRun => SettledIsPurged
<1>1. ASSUME NEW i \in Id
      PROVE  Spec /\ []InstantsCome /\ SchedulesRun =>
               ((i \in InStatus(Terminal)) ~> (purged[i] # NULL))
  <2>1. Spec /\ []InstantsCome /\ SchedulesRun =>
          /\ IsClaimed(i) ~> ~IsClaimed(i)
          /\ IsTerminal(i) ~> IsPurged(i)
    BY NothingLasts
  <2>2. (IsTerminal(i) <=> (i \in InStatus(Terminal))) /\ (IsPurged(i) <=> purged[i] # NULL)
    BY DEF IsTerminal, IsPurged
  <2> QED
    BY <2>1, <2>2, PTL
<1> QED
  BY <1>1 DEF SettledIsPurged
=============================================================================
