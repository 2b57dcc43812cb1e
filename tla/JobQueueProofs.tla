--------------------------- MODULE JobQueueProofs ---------------------------
(***************************************************************************)
(* Theorems about JobQueue, for every set of jobs, workers, connections    *)
(* and keys, every cap, lease and retention.                               *)
(***************************************************************************)
EXTENDS JobQueue, TLAPS

-----------------------------------------------------------------------------
(* What each statement writes into a row is a row *)

\* pg.jobEnqueue.sql inserts a well-formed row: the cap is at least one.
LEMMA NewRowType ==
  ASSUME now \in Nat, NEW owner \in Owner, NEW kind \in Kind,
         NEW key \in Key \cup {NULL}, NEW cap \in RequestedCaps
  PROVE  NewRow(owner, kind, key, cap) \in Row
<1>1. (IF cap = 0 THEN 1 ELSE cap) \in Nat \ {0}
  BY ConstantsAssumption
<1> QED
  BY <1>1 DEF NewRow, Row, Status

\* pg.jobClaim.sql keeps a row a row.
LEMMA ClaimedRowType ==
  ASSUME now \in Nat, NEW row \in Row, NEW worker \in Worker, NEW lease \in Leases
  PROVE  ClaimedRow(row, worker, lease) \in Row
<1>1. now + lease \in Nat
  BY ConstantsAssumption
<1>2. row.attempt + 1 \in Nat
  BY DEF Row
<1> QED
  BY <1>1, <1>2 DEF ClaimedRow, Row, Status

\* pg.jobSettle.sql keeps a row a row.
LEMMA SettledRowType ==
  ASSUME now \in Nat, NEW row \in Row, NEW status \in Terminal,
         NEW result \in Nat \cup {NULL}, NEW error \in Nat \cup {NULL}
  PROVE  SettledRow(row, status, result, error) \in Row
<1>1. now + Retention \in Nat
  BY ConstantsAssumption
<1> QED
  BY <1>1 DEF SettledRow, Row, Status

\* pg.jobRequeue.sql keeps a row a row.
LEMMA RequeuedRowType ==
  ASSUME now \in Nat, NEW row \in Row
  PROVE  RequeuedRow(row) \in Row
BY DEF RequeuedRow, Row, Status

\* pg.jobReap.sql keeps a row a row, in both branches of its CASE.
LEMMA ReapedRowType ==
  ASSUME now \in Nat, NEW row \in Row
  PROVE  ReapedRow(row) \in Row
<1>1. row.result \in Nat \cup {NULL}
  BY DEF Row
<1>2. "abandoned" \in Terminal /\ JobReapError \in Nat \cup {NULL}
  BY DEF Terminal, JobReapError
<1>3. SettledRow(row, "abandoned", row.result, JobReapError) \in Row
  BY <1>1, <1>2, SettledRowType
<1> QED
  BY <1>3, RequeuedRowType DEF ReapedRow

\* What is remembered of a row the purge deletes is a tombstone.
LEMMA BuriedType ==
  ASSUME NEW row \in Row, row.expires_at # NULL
  PROVE  Buried(row) \in Tombstone
BY DEF Buried, Row, Tombstone

-----------------------------------------------------------------------------
(* Type correctness *)

\* No step leaves the types: one case per statement of the data-access layer.
LEMMA TypeStep == TypeOK /\ [Next]_vars => TypeOK'
<1> SUFFICES ASSUME TypeOK, [Next]_vars PROVE TypeOK'
  OBVIOUS
<1> USE DEF TypeOK
<1>1. CASE Enqueue
  <2>1. PICK id \in Id, owner \in Owner, kind \in Kind, key \in Key \cup {NULL},
             cap \in RequestedCaps : JobEnqueue(id, owner, kind, key, cap)
    BY <1>1 DEF Enqueue
  <2>2. NewRow(owner, kind, key, cap) \in Row
    BY NewRowType
  <2>3. jobs' \in [Id -> Row \cup {NULL}]
    BY <2>1, <2>2 DEF JobEnqueue
  <2> QED
    BY <2>1, <2>3 DEF JobEnqueue
<1>2. CASE Claim
  <2>1. PICK worker \in Worker, kinds \in SUBSET Kind, limit \in Limits, lease \in Leases,
             locked \in SUBSET Id, batch \in SUBSET Id :
               JobClaim(worker, kinds, limit, lease, locked, batch)
    BY <1>2 DEF Claim
  <2>2. \A i \in batch : jobs[i] \in Row
    BY <2>1 DEF JobClaim, OldestOf, Claimable, InStatus, Rows
  <2>3. \A i \in batch : ClaimedRow(jobs[i], worker, lease) \in Row
    BY <2>2, ClaimedRowType
  <2>4. jobs' \in [Id -> Row \cup {NULL}]
    BY <2>1, <2>3 DEF JobClaim
  <2>5. \A i \in batch :
          [worker |-> worker, id |-> i, attempt |-> jobs[i].attempt + 1] \in Run
    BY <2>2 DEF Run, Row
  <2>6. runs' \in SUBSET Run
    BY <2>1, <2>5 DEF JobClaim
  <2> QED
    BY <2>1, <2>4, <2>6 DEF JobClaim
<1>3. CASE Settle
  <2>1. PICK c \in Conn, r \in runs, success \in BOOLEAN : JobSettle(c, r, success)
    BY <1>3 DEF Settle
  <2>2. r \in Run /\ r.id \in Id /\ r.attempt \in Nat \cup {NULL}
    BY DEF Run
  <2>3. call' \in [Conn -> Call]
    BY <2>1, <2>2 DEF JobSettle, Call, Answers
  <2>4. jobs' \in [Id -> Row \cup {NULL}]
    <3>1. CASE Holds(r.worker, r.id)
      <4>1. jobs[r.id] \in Row
        BY <3>1, <2>2 DEF Holds
      <4>2. SettledRow(jobs[r.id], "succeeded", r.attempt, NULL) \in Row
        BY <4>1, <2>2, SettledRowType DEF Terminal
      <4>3. SettledRow(jobs[r.id], "failed", NULL, r.attempt) \in Row
        BY <4>1, <2>2, SettledRowType DEF Terminal
      <4> QED
        BY <2>1, <2>2, <3>1, <4>2, <4>3 DEF JobSettle
    <3>2. CASE ~Holds(r.worker, r.id)
      BY <2>1, <3>2 DEF JobSettle
    <3> QED
      BY <3>1, <3>2
  <2> QED
    BY <2>1, <2>3, <2>4 DEF JobSettle
<1>4. CASE Retry
  <2>1. PICK c \in Conn, r \in runs : RetryRead(c, r)
    BY <1>4 DEF Retry
  <2>2. call' \in [Conn -> Call]
    BY <2>1 DEF RetryRead, Call, Answers, Deciding
  <2> QED
    BY <2>1, <2>2 DEF RetryRead
<1>5. ASSUME NEW c \in Conn, RetryWrite(c) PROVE TypeOK'
  <2> DEFINE r == call[c].run
  <2>0. r \in Run
    BY <1>5 DEF RetryWrite, Call, Idle, Deciding
  <2>1. call' \in [Conn -> Call]
    BY <1>5, <2>0 DEF RetryWrite, Call, Answers, Deciding, Idle
  <2>2. jobs' \in [Id -> Row \cup {NULL}]
    <3>1. CASE Holds(r.worker, r.id)
      <4>1. r.id \in Id /\ r.attempt \in Nat \cup {NULL}
        BY <2>0 DEF Run
      <4>2. jobs[r.id] \in Row
        BY <3>1, <4>1 DEF Holds
      <4>3. RequeuedRow(jobs[r.id]) \in Row
        BY <4>2, RequeuedRowType
      <4>4. SettledRow(jobs[r.id], "failed", NULL, r.attempt) \in Row
        BY <4>1, <4>2, SettledRowType DEF Terminal
      <4> QED
        BY <1>5, <3>1, <4>1, <4>3, <4>4 DEF RetryWrite
    <3>2. CASE ~Holds(r.worker, r.id)
      BY <1>5, <3>2 DEF RetryWrite
    <3> QED
      BY <3>1, <3>2
  <2> QED
    BY <1>5, <2>1, <2>2 DEF RetryWrite
<1>6. ASSUME NEW c \in Conn, Abort(c) \/ Answer(c) PROVE TypeOK'
  BY <1>6 DEF Abort, Answer, Idle, Call
<1>7. ASSUME NEW locked \in SUBSET Id, JobReap(locked) PROVE TypeOK'
  <2>1. \A i \in Reapable : jobs[i] \in Row
    BY DEF Reapable, InStatus, Rows
  <2>2. \A i \in Reapable : ReapedRow(jobs[i]) \in Row
    BY <2>1, ReapedRowType
  <2>3. jobs' \in [Id -> Row \cup {NULL}]
    BY <1>7, <2>2 DEF JobReap
  <2> QED
    BY <1>7, <2>3 DEF JobReap
<1>8. ASSUME NEW gone \in SUBSET Id, Purge(gone) PROVE TypeOK'
  <2>1. \A i \in gone : jobs[i] \in Row /\ jobs[i].expires_at # NULL
    BY <1>8 DEF Purge, Purgeable, Rows
  <2>2. \A i \in gone : Buried(jobs[i]) \in Tombstone
    BY <2>1, BuriedType
  <2>3. jobs' \in [Id -> Row \cup {NULL}]
    BY <1>8 DEF Purge
  <2>4. purged' \in [Id -> Tombstone \cup {NULL}]
    BY <1>8, <2>2 DEF Purge
  <2> QED
    BY <1>8, <2>3, <2>4 DEF Purge
<1>9. CASE Tick
  BY <1>9 DEF Tick
<1>10. CASE UNCHANGED vars
  BY <1>10 DEF vars
<1> QED
  BY <1>1, <1>2, <1>3, <1>4, <1>5, <1>6, <1>7, <1>8, <1>9, <1>10 DEF Next

\* The table, the calls and the histories are always well typed.
THEOREM TypeCorrect == Spec => []TypeOK
<1>1. Init => TypeOK
  BY DEF Init, TypeOK, Idle, Call
<1> QED
  BY <1>1, TypeStep, PTL DEF Spec

-----------------------------------------------------------------------------
(* What a step may do to one row *)

Inserted(i) ==
  /\ i \notin Minted
  /\ \E owner \in Owner, kind \in Kind, key \in Key \cup {NULL}, cap \in RequestedCaps :
       jobs'[i] = NewRow(owner, kind, key, cap)

Claimed(i) ==
  /\ i \in InStatus({"pending"})
  /\ \E worker \in Worker, lease \in Leases :
       /\ jobs'[i] = ClaimedRow(jobs[i], worker, lease)
       /\ MayClaim(worker)
       /\ [worker |-> worker, id |-> i, attempt |-> jobs[i].attempt + 1] \in runs'

\* settled by a run that was handed out, or by a call still deciding on one
Settled(i) ==
  \E r \in Run :
    /\ r \in runs \/ \E c \in Conn : call[c].pc \in Deciding /\ call[c].run = r
    /\ r.id = i /\ Holds(r.worker, i)
    /\ jobs'[i] \in {SettledRow(jobs[i], "succeeded", r.attempt, NULL),
                     SettledRow(jobs[i], "failed", NULL, r.attempt)}

Requeued(i) ==
  /\ \E c \in Conn : /\ call[c].pc = "requeue"
                     /\ call[c].run.id = i
                     /\ Holds(call[c].run.worker, i)
  /\ jobs'[i] = RequeuedRow(jobs[i])

Reaped(i) == i \in Reapable /\ jobs'[i] = ReapedRow(jobs[i])

Deleted(i) == i \in Purgeable /\ jobs'[i] = NULL /\ purged'[i] = Buried(jobs[i])

RowStep(i) ==
  \/ jobs'[i] = jobs[i]
  \/ Inserted(i) \/ Claimed(i) \/ Settled(i) \/ Requeued(i) \/ Reaped(i) \/ Deleted(i)

\* A run that ends, or is given back, leaves the row to nobody and the count of
\* runs alone; a settle gives nothing back.
LEMMA RunEndsEffect ==
  ASSUME NEW i \in Id, jobs[i] \in Row, Settled(i) \/ Requeued(i) \/ Reaped(i)
  PROVE  /\ jobs'[i].attempt = jobs[i].attempt
         /\ jobs'[i].max_attempts = jobs[i].max_attempts
         /\ jobs'[i].status # "claimed"
         /\ Settled(i) => jobs'[i].status # "pending"
<1>1. ASSUME NEW status \in Terminal, NEW result, NEW error,
             jobs'[i] = SettledRow(jobs[i], status, result, error)
      PROVE  /\ jobs'[i].attempt = jobs[i].attempt
             /\ jobs'[i].max_attempts = jobs[i].max_attempts
             /\ jobs'[i].status = status
  BY <1>1 DEF SettledRow, Row
<1>2. ASSUME jobs'[i] = RequeuedRow(jobs[i])
      PROVE  /\ jobs'[i].attempt = jobs[i].attempt
             /\ jobs'[i].max_attempts = jobs[i].max_attempts
             /\ jobs'[i].status = "pending"
  BY <1>2 DEF RequeuedRow, Row
<1>3. CASE Settled(i)
  <2>1. PICK r \in Run : jobs'[i] \in {SettledRow(jobs[i], "succeeded", r.attempt, NULL),
                                      SettledRow(jobs[i], "failed", NULL, r.attempt)}
    BY <1>3 DEF Settled
  <2> QED
    BY <1>1, <2>1 DEF Terminal
<1>4. CASE Requeued(i) /\ ~Settled(i)
  BY <1>2, <1>4 DEF Requeued
<1>5. CASE Reaped(i) /\ ~Settled(i)
  BY <1>1, <1>2, <1>5 DEF Reaped, ReapedRow, Terminal
<1> QED
  BY <1>3, <1>4, <1>5

\* Whatever the statement, a row that changes changes in one of six ways.
LEMMA RowSteps ==
  ASSUME TypeOK, [Next]_vars, NEW i \in Id
  PROVE  RowStep(i)
<1> USE DEF TypeOK
<1>1. CASE Enqueue
  <2>1. PICK id \in Id, owner \in Owner, kind \in Kind, key \in Key \cup {NULL},
             cap \in RequestedCaps : JobEnqueue(id, owner, kind, key, cap)
    BY <1>1 DEF Enqueue
  <2>2. jobs'[i] = jobs[i] \/ (i \notin Minted /\ jobs'[i] = NewRow(owner, kind, key, cap))
    BY <2>1 DEF JobEnqueue
  <2> QED
    BY <2>2 DEF RowStep, Inserted
<1>2. CASE Claim
  <2>1. PICK worker \in Worker, kinds \in SUBSET Kind, limit \in Limits, lease \in Leases,
             locked \in SUBSET Id, batch \in SUBSET Id :
               JobClaim(worker, kinds, limit, lease, locked, batch)
    BY <1>2 DEF Claim
  <2>2. CASE i \notin batch
    BY <2>1, <2>2 DEF JobClaim, RowStep
  <2>3. CASE i \in batch
    <3>1. i \in InStatus({"pending"})
      BY <2>1, <2>3 DEF JobClaim, OldestOf, Claimable
    <3>2. jobs'[i] = ClaimedRow(jobs[i], worker, lease) /\ MayClaim(worker)
      BY <2>1, <2>3 DEF JobClaim
    <3>3. [worker |-> worker, id |-> i, attempt |-> jobs[i].attempt + 1] \in runs'
      BY <2>1, <2>3 DEF JobClaim
    <3> QED
      BY <3>1, <3>2, <3>3 DEF RowStep, Claimed
  <2> QED
    BY <2>2, <2>3
<1>3. CASE Settle
  <2>1. PICK c \in Conn, r \in runs, success \in BOOLEAN : JobSettle(c, r, success)
    BY <1>3 DEF Settle
  <2>2. r \in Run
    OBVIOUS
  <2>3. CASE r.id = i /\ Holds(r.worker, i)
    <3>1. jobs'[i] \in {SettledRow(jobs[i], "succeeded", r.attempt, NULL),
                        SettledRow(jobs[i], "failed", NULL, r.attempt)}
      BY <2>1, <2>3 DEF JobSettle
    <3> QED
      BY <2>2, <2>3, <3>1 DEF RowStep, Settled
  <2>4. CASE ~(r.id = i /\ Holds(r.worker, i))
    BY <2>1, <2>4 DEF JobSettle, RowStep
  <2> QED
    BY <2>3, <2>4
<1>4. CASE Retry
  BY <1>4 DEF Retry, RetryRead, RowStep
<1>5. ASSUME NEW c \in Conn, RetryWrite(c) PROVE RowStep(i)
  <2> DEFINE r == call[c].run
  <2>1. r \in Run /\ call[c].pc \in Deciding
    BY <1>5 DEF RetryWrite, Call, Idle, Deciding
  <2>2. CASE r.id = i /\ Holds(r.worker, i)
    <3>1. CASE call[c].pc = "requeue"
      <4>1. jobs'[i] = RequeuedRow(jobs[i])
        BY <1>5, <2>2, <3>1 DEF RetryWrite
      <4> QED
        BY <2>2, <3>1, <4>1 DEF RowStep, Requeued
    <3>2. CASE call[c].pc # "requeue"
      <4>1. jobs'[i] = SettledRow(jobs[i], "failed", NULL, r.attempt)
        BY <1>5, <2>2, <3>2 DEF RetryWrite
      <4> QED
        BY <2>1, <2>2, <4>1 DEF RowStep, Settled
    <3> QED
      BY <3>1, <3>2
  <2>3. CASE ~(r.id = i /\ Holds(r.worker, i))
    BY <1>5, <2>3 DEF RetryWrite, RowStep
  <2> QED
    BY <2>2, <2>3
<1>6. ASSUME NEW c \in Conn, Abort(c) \/ Answer(c) PROVE RowStep(i)
  BY <1>6 DEF Abort, Answer, RowStep
<1>7. ASSUME NEW locked \in SUBSET Id, JobReap(locked) PROVE RowStep(i)
  BY <1>7 DEF JobReap, RowStep, Reaped
<1>8. ASSUME NEW gone \in SUBSET Id, Purge(gone) PROVE RowStep(i)
  <2>1. CASE i \notin gone
    BY <1>8, <2>1 DEF Purge, RowStep
  <2>2. CASE i \in gone
    BY <1>8, <2>2 DEF Purge, RowStep, Deleted
  <2> QED
    BY <2>1, <2>2
<1>9. CASE Tick
  BY <1>9 DEF Tick, RowStep
<1>10. CASE UNCHANGED vars
  BY <1>10 DEF vars, RowStep
<1> QED
  BY <1>1, <1>2, <1>3, <1>4, <1>5, <1>6, <1>7, <1>8, <1>9, <1>10 DEF Next

-----------------------------------------------------------------------------
(* The table's constraints *)

\* A step that changes a row leaves it legal: each statement writes the lease,
\* the holder and the settle timestamps together with the status.
LEMMA LegalStep ==
  ASSUME TypeOK, TypeOK', RowsLegal, [Next]_vars, NEW i \in Id, jobs'[i] # NULL
  PROVE  LegalRow(jobs'[i])
<1> USE NullAssumption DEF TypeOK
<1>0. jobs[i] # NULL => jobs[i] \in Row /\ LegalRow(jobs[i])
  BY DEF RowsLegal, Rows
<1>1. CASE jobs'[i] = jobs[i]
  BY <1>0, <1>1
<1>2. CASE Inserted(i)
  <2>1. PICK owner \in Owner, kind \in Kind, key \in Key \cup {NULL}, cap \in RequestedCaps :
          jobs'[i] = NewRow(owner, kind, key, cap)
    BY <1>2 DEF Inserted
  <2> QED
    BY <2>1 DEF NewRow, LegalRow, Terminal
<1>3. CASE Claimed(i)
  <2>1. jobs[i] \in Row /\ jobs[i].status = "pending" /\ LegalRow(jobs[i])
    BY <1>0, <1>3 DEF Claimed, InStatus, Rows
  <2>2. PICK worker \in Worker, lease \in Leases :
          jobs'[i] = ClaimedRow(jobs[i], worker, lease)
    BY <1>3 DEF Claimed
  <2>3. now + lease \in Nat
    BY ConstantsAssumption
  <2> QED
    BY <2>1, <2>2, <2>3 DEF ClaimedRow, LegalRow, Terminal, Row
<1>4. CASE Settled(i)
  <2>1. jobs[i] \in Row /\ jobs[i].status = "claimed" /\ LegalRow(jobs[i])
    BY <1>0, <1>4 DEF Settled, Holds
  <2>2. PICK r \in Run :
          jobs'[i] \in {SettledRow(jobs[i], "succeeded", r.attempt, NULL),
                        SettledRow(jobs[i], "failed", NULL, r.attempt)}
    BY <1>4 DEF Settled
  <2>3. now + Retention \in Nat
    BY ConstantsAssumption
  <2>4. CASE jobs'[i] = SettledRow(jobs[i], "succeeded", r.attempt, NULL)
    BY <2>1, <2>3, <2>4 DEF SettledRow, LegalRow, Terminal, Row
  <2>5. CASE jobs'[i] = SettledRow(jobs[i], "failed", NULL, r.attempt)
    BY <2>1, <2>3, <2>5 DEF SettledRow, LegalRow, Terminal, Row
  <2> QED
    BY <2>2, <2>4, <2>5
<1>5. CASE Requeued(i)
  <2>1. jobs[i] \in Row /\ jobs[i].status = "claimed" /\ LegalRow(jobs[i])
    BY <1>0, <1>5 DEF Requeued, Holds
  <2> QED
    BY <1>5, <2>1 DEF Requeued, RequeuedRow, LegalRow, Terminal, Row
<1>6. CASE Reaped(i)
  <2>1. jobs[i] \in Row /\ jobs[i].status = "claimed" /\ LegalRow(jobs[i])
    BY <1>0, <1>6 DEF Reaped, Reapable, InStatus, Rows
  <2>2. now + Retention \in Nat
    BY ConstantsAssumption
  <2>3. CASE jobs[i].attempt < jobs[i].max_attempts
    <3>1. jobs'[i] = RequeuedRow(jobs[i])
      BY <1>6, <2>3 DEF Reaped, ReapedRow
    <3> QED
      BY <2>1, <3>1 DEF RequeuedRow, LegalRow, Terminal, Row
  <2>4. CASE ~(jobs[i].attempt < jobs[i].max_attempts)
    <3>1. jobs'[i] = SettledRow(jobs[i], "abandoned", jobs[i].result, JobReapError)
      BY <1>6, <2>4 DEF Reaped, ReapedRow
    <3> QED
      BY <2>1, <2>2, <3>1 DEF SettledRow, LegalRow, Terminal, Row
  <2> QED
    BY <2>3, <2>4
<1>7. CASE Deleted(i)
  BY <1>7 DEF Deleted
<1> QED
  BY <1>1, <1>2, <1>3, <1>4, <1>5, <1>6, <1>7, RowSteps DEF RowStep

\* No statement ever writes a row the database's constraints would refuse, nor
\* one whose holder or outcome disagrees with its status.
THEOREM RowsAlwaysLegal == Spec => []RowsLegal
<1>1. Init => RowsLegal
  BY DEF Init, RowsLegal, Rows
<1>2. TypeOK /\ TypeOK' /\ RowsLegal /\ [Next]_vars => RowsLegal'
  BY LegalStep DEF RowsLegal, Rows
<1> QED
  BY <1>1, <1>2, TypeCorrect, PTL DEF Spec

-----------------------------------------------------------------------------
(* Runs are numbered *)

\* attempt changes at a claim and nowhere else; no statement but the insert
\* writes max_attempts.
LEMMA AttemptStep ==
  ASSUME TypeOK, [Next]_vars, NEW i \in Rows, jobs'[i] # NULL
  PROVE  /\ jobs'[i].max_attempts = jobs[i].max_attempts
         /\ \/ jobs'[i].attempt = jobs[i].attempt
            \/ Claimed(i) /\ jobs'[i].attempt = jobs[i].attempt + 1
<1>1. i \in Id /\ jobs[i] \in Row
  BY DEF TypeOK, Rows
<1>2. RowStep(i)
  BY <1>1, RowSteps
<1>3. CASE jobs'[i] = jobs[i]
  BY <1>3
<1>4. CASE Inserted(i)
  BY <1>4 DEF Inserted, Minted, Rows
<1>5. CASE Claimed(i)
  BY <1>1, <1>5 DEF Claimed, ClaimedRow, Row
<1>6. CASE Settled(i)
  BY <1>1, <1>6, RunEndsEffect
<1>7. CASE Requeued(i)
  BY <1>1, <1>7, RunEndsEffect
<1>8. CASE Reaped(i)
  BY <1>1, <1>8, RunEndsEffect
<1>9. CASE Deleted(i)
  BY <1>9 DEF Deleted
<1> QED
  BY <1>2, <1>3, <1>4, <1>5, <1>6, <1>7, <1>8, <1>9 DEF RowStep

\* Only the purge takes a row out of the table.
LEMMA OnlyPurgeDeletes ==
  ASSUME TypeOK, [Next]_vars, NEW i \in Rows, jobs'[i] = NULL
  PROVE  Deleted(i)
<1> USE NullAssumption
<1>1. i \in Id /\ jobs[i] \in Row /\ jobs[i] # NULL /\ now \in Nat
  BY DEF TypeOK, Rows
<1>2. RowStep(i)
  BY <1>1, RowSteps
<1>3. ~Inserted(i)
  BY DEF Inserted, Minted, Rows
<1>4. ~Claimed(i)
  BY <1>1, ClaimedRowType DEF Claimed
<1>5. ~Settled(i)
  <2>1. ASSUME NEW r \in Run
        PROVE  /\ SettledRow(jobs[i], "succeeded", r.attempt, NULL) # NULL
               /\ SettledRow(jobs[i], "failed", NULL, r.attempt) # NULL
    <3>1. r.attempt \in Nat \cup {NULL}
      BY DEF Run
    <3>2. SettledRow(jobs[i], "succeeded", r.attempt, NULL) \in Row
      BY <1>1, <3>1, SettledRowType DEF Terminal
    <3>3. SettledRow(jobs[i], "failed", NULL, r.attempt) \in Row
      BY <1>1, <3>1, SettledRowType DEF Terminal
    <3> QED
      BY <3>2, <3>3
  <2> QED
    BY <2>1 DEF Settled
<1>6. ~Requeued(i)
  BY <1>1, RequeuedRowType DEF Requeued
<1>7. ~Reaped(i)
  BY <1>1, ReapedRowType DEF Reaped
<1> QED
  BY <1>1, <1>2, <1>3, <1>4, <1>5, <1>6, <1>7 DEF RowStep

\* A job that was created stays known: in the table, or remembered.
LEMMA MintedGrows ==
  ASSUME TypeOK, [Next]_vars
  PROVE  Minted \subseteq Minted'
<1>1. SUFFICES ASSUME NEW i \in Minted PROVE i \in Minted'
  OBVIOUS
<1>2. CASE jobs[i] # NULL
  <2>1. ASSUME jobs'[i] = NULL PROVE purged'[i] # NULL
    <3>1. Deleted(i)
      BY <1>2, <2>1, OnlyPurgeDeletes DEF Minted, Rows
    <3>2. jobs[i] \in Row /\ jobs[i].expires_at # NULL
      BY <3>1 DEF Deleted, Purgeable, Rows, TypeOK
    <3> QED
      BY <3>1, <3>2, BuriedType, NullAssumption DEF Deleted
  <2> QED
    BY <2>1 DEF Minted
<1>3. CASE purged[i] # NULL
  <2>1. ASSUME NEW gone \in SUBSET Id, Purge(gone) PROVE purged'[i] # NULL
    BY <1>3, <2>1, BuriedType, NullAssumption DEF Purge, Purgeable, Rows, TypeOK, Minted
  <2>2. purged' = purged \/ \E gone \in SUBSET Id : Purge(gone)
    BY DEF Next, vars, Enqueue, JobEnqueue, Claim, JobClaim, Settle, JobSettle, Retry,
           RetryRead, RetryWrite, Abort, Answer, JobReap, Tick
  <2> QED
    BY <1>3, <2>1, <2>2 DEF Minted
<1> QED
  BY <1>2, <1>3 DEF Minted

\* A run is handed out by a claim of a pending row, and is numbered one past
\* the row's attempt; no run is ever taken back.
LEMMA RunStep ==
  ASSUME TypeOK, [Next]_vars
  PROVE  /\ runs \subseteq runs'
         /\ \A r \in runs' \ runs :
              /\ r \in Run /\ MayClaim(r.worker)
              /\ r.id \in InStatus({"pending"})
              /\ r.attempt = jobs[r.id].attempt + 1
              /\ jobs'[r.id].attempt = r.attempt
              /\ jobs'[r.id].claimed_by = r.worker
<1>1. CASE Claim
  <2>1. PICK worker \in Worker, kinds \in SUBSET Kind, limit \in Limits, lease \in Leases,
             locked \in SUBSET Id, batch \in SUBSET Id :
               JobClaim(worker, kinds, limit, lease, locked, batch)
    BY <1>1 DEF Claim
  <2>2. runs \subseteq runs'
    BY <2>1 DEF JobClaim
  <2>3. ASSUME NEW r \in runs' \ runs
        PROVE  /\ r \in Run /\ MayClaim(r.worker)
               /\ r.id \in InStatus({"pending"})
               /\ r.attempt = jobs[r.id].attempt + 1
               /\ jobs'[r.id].attempt = r.attempt
               /\ jobs'[r.id].claimed_by = r.worker
    <3>1. PICK i \in batch :
            r = [worker |-> worker, id |-> i, attempt |-> jobs[i].attempt + 1]
      BY <2>1, <2>3 DEF JobClaim
    <3>2. r.worker = worker /\ r.id = i /\ r.attempt = jobs[i].attempt + 1
      BY <3>1
    <3>3. i \in InStatus({"pending"}) /\ jobs[i] \in Row
      BY <2>1 DEF JobClaim, OldestOf, Claimable, InStatus, Rows, TypeOK
    <3>4. jobs'[i] = ClaimedRow(jobs[i], worker, lease) /\ MayClaim(worker)
      BY <2>1 DEF JobClaim
    <3>5. jobs'[i].attempt = jobs[i].attempt + 1 /\ jobs'[i].claimed_by = worker
      BY <3>3, <3>4 DEF ClaimedRow, Row
    <3>6. r \in Run
      BY <2>3, TypeStep DEF TypeOK
    <3> QED
      BY <3>2, <3>3, <3>4, <3>5, <3>6
  <2> QED
    BY <2>2, <2>3
<1>2. CASE ~Claim
  BY <1>2 DEF Next, vars, Enqueue, JobEnqueue, Settle, JobSettle, Retry, RetryRead,
              RetryWrite, Abort, Answer, JobReap, Purge, Tick
<1> QED
  BY <1>1, <1>2

\* The runs handed out never run ahead of attempt, and the holder has the last.
LEMMA HolderStep ==
  TypeOK /\ TypeOK' /\ RowsLegal /\ HolderHasLatestRun /\ [Next]_vars => HolderHasLatestRun'
<1> SUFFICES ASSUME TypeOK, TypeOK', RowsLegal, HolderHasLatestRun, [Next]_vars
             PROVE  HolderHasLatestRun'
  OBVIOUS
<1>1. ASSUME NEW r \in runs'
      PROVE  r.id \in Minted' /\ (r.id \in Rows' => r.attempt <= jobs'[r.id].attempt)
  <2>1. CASE r \in runs
    <3>1. r.id \in Minted /\ r.id \in Id /\ r.attempt \in Nat
      BY <2>1 DEF HolderHasLatestRun, Minted, TypeOK, Run
    <3>2. CASE r.id \in Rows
      <4>1. r.attempt <= jobs[r.id].attempt /\ jobs[r.id].attempt \in Nat
        BY <2>1, <3>2 DEF HolderHasLatestRun, TypeOK, Rows, Row
      <4> QED
        BY <3>1, <3>2, <4>1, AttemptStep, MintedGrows DEF Rows
    <3>3. CASE r.id \notin Rows
      <4>1. jobs'[r.id] = NULL
        <5>1. RowStep(r.id)
          BY <3>1, RowSteps
        <5> QED
          BY <3>1, <3>3, <5>1 DEF RowStep, Inserted, Claimed, Settled, Requeued, Reaped,
             Deleted, InStatus, Holds, Reapable, Purgeable, Rows
      <4> QED
        BY <3>1, <4>1, MintedGrows DEF Rows
    <3> QED
      BY <3>2, <3>3
  <2>2. CASE r \in runs' \ runs
    <3>1. r \in Run /\ r.id \in Minted /\ jobs'[r.id].attempt = r.attempt
      BY <2>2, RunStep DEF InStatus, Rows, Minted
    <3> QED
      BY <3>1, MintedGrows DEF Run
  <2> QED
    BY <2>1, <2>2
<1>2. ASSUME NEW i \in InStatus({"claimed"})'
      PROVE  [worker |-> jobs'[i].claimed_by, id |-> i, attempt |-> jobs'[i].attempt] \in runs'
  <2>1. i \in Id /\ jobs'[i] # NULL /\ jobs'[i].status = "claimed" /\ RowStep(i)
    BY RowSteps DEF InStatus, Rows
  <2>2. CASE jobs'[i] = jobs[i]
    BY <2>1, <2>2, RunStep DEF HolderHasLatestRun, InStatus, Rows
  <2>3. CASE Claimed(i)
    <3>1. jobs[i] \in Row
      BY <2>3 DEF Claimed, InStatus, Rows, TypeOK
    <3> QED
      BY <2>3, <3>1 DEF Claimed, ClaimedRow, Row
  <2>4. CASE Inserted(i)
    BY <2>1, <2>4 DEF Inserted, NewRow
  <2>5. CASE Settled(i) \/ Requeued(i) \/ Reaped(i)
    <3>1. jobs[i] \in Row
      BY <2>1, <2>5 DEF Settled, Requeued, Reaped, Holds, Reapable, InStatus, Rows, TypeOK
    <3> QED
      BY <2>1, <2>5, <3>1, RunEndsEffect
  <2>6. CASE Deleted(i)
    BY <2>1, <2>6 DEF Deleted
  <2> QED
    BY <2>1, <2>2, <2>3, <2>4, <2>5, <2>6 DEF RowStep
<1> QED
  BY <1>1, <1>2 DEF HolderHasLatestRun

\* At every moment the claim on a row is the last run handed out for it.
THEOREM HolderAlwaysHasLatestRun == Spec => []HolderHasLatestRun
<1>1. Init => HolderHasLatestRun
  BY DEF Init, HolderHasLatestRun, InStatus, Rows
<1> QED
  BY <1>1, HolderStep, TypeCorrect, RowsAlwaysLegal, PTL DEF Spec

\* Claims are disjoint: FOR UPDATE SKIP LOCKED over pending rows, and attempt
\* incremented in the same statement, hand every run to one worker.
THEOREM ClaimsAreDisjoint == Spec => []OneRunPerAttempt
<1>1. Init => OneRunPerAttempt
  BY DEF Init, OneRunPerAttempt
<1>2. TypeOK /\ HolderHasLatestRun /\ OneRunPerAttempt /\ [Next]_vars => OneRunPerAttempt'
  <2> SUFFICES ASSUME TypeOK, HolderHasLatestRun, OneRunPerAttempt, [Next]_vars,
                      NEW r \in runs', NEW s \in runs', r.id = s.id, r.attempt = s.attempt
               PROVE  r = s
    BY DEF OneRunPerAttempt
  <2>1. r \in Run /\ s \in Run
    BY RunStep DEF TypeOK
  <2>2. \A old \in runs, new \in runs' \ runs : old.id = new.id => old.attempt # new.attempt
    <3>1. TAKE old \in runs, new \in runs' \ runs
    <3>2. HAVE old.id = new.id
    <3>3. new.id \in Rows /\ new.attempt = jobs[new.id].attempt + 1
      BY RunStep DEF InStatus
    <3>4. old.attempt <= jobs[new.id].attempt
      BY <3>2, <3>3 DEF HolderHasLatestRun
    <3>5. jobs[new.id].attempt \in Nat /\ old.attempt \in Nat
      BY <3>3 DEF TypeOK, Rows, Row, Run
    <3> QED
      BY <3>3, <3>4, <3>5
  <2>3. CASE r \in runs /\ s \in runs
    BY <2>3 DEF OneRunPerAttempt
  <2>4. CASE r \in runs' \ runs /\ s \in runs' \ runs
    <3>1. r.worker = s.worker
      BY <2>4, RunStep
    <3> QED
      BY <2>1, <3>1 DEF Run
  <2> QED
    BY <2>2, <2>3, <2>4
<1> QED
  BY <1>1, <1>2, TypeCorrect, HolderAlwaysHasLatestRun, PTL DEF Spec

-----------------------------------------------------------------------------
(* Settled jobs and live leases *)

\* What the claim guard, the lease predicate and the purge predicate give for
\* one step from a legal table.
LEMMA FinalStep ==
  ASSUME TypeOK, RowsLegal, [Next]_vars, NEW i \in InStatus(Terminal), jobs'[i] # jobs[i]
  PROVE  jobs'[i] = NULL /\ now - jobs[i].settled_at > Retention
<1>1. i \in Id /\ i \in Rows /\ jobs[i] \in Row /\ jobs[i].status \in Terminal
  BY DEF InStatus, Rows, TypeOK
<1>2. RowStep(i)
  BY <1>1, RowSteps
<1>3. ~Inserted(i)
  BY <1>1 DEF Inserted, Minted, Rows
<1>4. ~Claimed(i) /\ ~Reaped(i)
  BY <1>1 DEF Claimed, Reaped, Reapable, InStatus, Terminal
<1>5. ~Settled(i) /\ ~Requeued(i)
  BY <1>1 DEF Settled, Requeued, Holds, Terminal
<1>6. Deleted(i)
  BY <1>2, <1>3, <1>4, <1>5 DEF RowStep
<1>7. jobs[i].expires_at < now /\ jobs[i].expires_at # NULL
  BY <1>6 DEF Deleted, Purgeable
<1>8. jobs[i].settled_at # NULL /\ jobs[i].expires_at = jobs[i].settled_at + Retention
  BY <1>1 DEF RowsLegal, LegalRow
<1>9. jobs[i].settled_at \in Nat /\ jobs[i].expires_at \in Nat /\ now \in Nat
  BY <1>1, <1>7, <1>8 DEF Row, TypeOK
<1> QED
  BY <1>6, <1>7, <1>8, <1>9, ConstantsAssumption DEF Deleted

\* A settled job is final: nothing writes its row again, and it leaves the table
\* only once its retention has passed.
THEOREM SettledJobsAreFinal == Spec => SettledIsFinal
<1>1. TypeOK /\ RowsLegal /\ [Next]_vars =>
        [\A i \in InStatus(Terminal) :
           jobs'[i] # jobs[i] => /\ jobs'[i] = NULL
                                 /\ now - jobs[i].settled_at > Retention]_vars
  BY FinalStep
<1> QED
  BY <1>1, TypeCorrect, RowsAlwaysLegal, PTL DEF Spec, SettledIsFinal

\* Until its lease lapses a claimed row is out of reach of the claim (it is not
\* pending), of the sweep (its lease) and of the purge (it has no expiry): only a
\* settle call of its holder is left, which is then answered OK.
LEMMA LeaseStep ==
  ASSUME TypeOK, RowsLegal, [Next]_vars, NEW i \in InStatus({"claimed"}),
         jobs'[i] # jobs[i], ~(jobs[i].lease_expires_at < now)
  PROVE  \E c \in Conn : /\ call[c] # call'[c]
                         /\ call'[c].pc = "OK"
                         /\ call'[c].run.id = i
                         /\ call'[c].run.worker = jobs[i].claimed_by
<1> USE DEF TypeOK
<1>1. i \in Id /\ jobs[i] # NULL /\ jobs[i] \in Row /\ jobs[i].status = "claimed"
  BY DEF InStatus, Rows
<1>2. ~Enqueue
  BY <1>1 DEF Enqueue, JobEnqueue, Minted
<1>3. ~Claim
  BY <1>1 DEF Claim, JobClaim, OldestOf, Claimable, InStatus
<1>4. ~(\E locked \in SUBSET Id : JobReap(locked))
  BY <1>1 DEF JobReap, Reapable
<1>5. ~(\E gone \in SUBSET Id : Purge(gone))
  BY <1>1 DEF Purge, Purgeable, RowsLegal, LegalRow, Rows, Terminal
<1>6. Settle \/ \E c \in Conn : RetryWrite(c)
  BY <1>2, <1>3, <1>4, <1>5
  DEF Next, vars, Retry, RetryRead, Abort, Answer, Tick
<1>7. CASE Settle
  <2>1. PICK c \in Conn, r \in runs, success \in BOOLEAN : JobSettle(c, r, success)
    BY <1>7 DEF Settle
  <2>2. r.id = i /\ Holds(r.worker, i)
    <3>1. Holds(r.worker, r.id)
      BY <2>1 DEF JobSettle
    <3>2. \A j \in Id \ {r.id} : jobs'[j] = jobs[j]
      BY <2>1, <3>1 DEF JobSettle
    <3> QED
      BY <1>1, <3>1, <3>2
  <2>3. call[c].pc = "idle" /\ call'[c] = [pc |-> "OK", run |-> r]
    BY <2>1, <2>2 DEF JobSettle, Idle
  <2> QED
    BY <2>2, <2>3 DEF Holds
<1>8. ASSUME NEW c \in Conn, RetryWrite(c)
      PROVE  /\ call[c] # call'[c] /\ call'[c].pc = "OK" /\ call'[c].run.id = i
             /\ call'[c].run.worker = jobs[i].claimed_by
  <2>1. call[c].run.id = i /\ Holds(call[c].run.worker, i)
    <3>1. Holds(call[c].run.worker, call[c].run.id)
      BY <1>8 DEF RetryWrite
    <3>2. \A j \in Id \ {call[c].run.id} : jobs'[j] = jobs[j]
      BY <1>8, <3>1 DEF RetryWrite
    <3> QED
      BY <1>1, <3>1, <3>2
  <2>2. call[c].pc \in Deciding /\ call' = [call EXCEPT ![c].pc = "OK"]
    BY <1>8, <2>1 DEF RetryWrite
  <2>3. call[c] \in [pc : Deciding \cup Answers, run : Run]
    BY <2>2 DEF Call, Idle, Deciding
  <2>4. call'[c].pc = "OK" /\ call'[c].run = call[c].run /\ call[c].pc # "OK"
    BY <2>2, <2>3 DEF Deciding
  <2> QED
    BY <2>1, <2>4 DEF Holds
<1> QED
  BY <1>6, <1>7, <1>8

\* A lease protects its run: until it lapses, nobody but the worker that holds
\* the job writes its row.
THEOREM LeasesProtectRuns == Spec => LeaseProtectsRun
<1>1. TypeOK /\ RowsLegal /\ [Next]_vars =>
        [\A i \in InStatus({"claimed"}) :
           jobs'[i] # jobs[i] =>
             \/ jobs[i].lease_expires_at < now
             \/ \E c \in Conn : /\ call[c] # call'[c]
                                /\ call'[c].pc = "OK"
                                /\ call'[c].run.id = i
                                /\ call'[c].run.worker = jobs[i].claimed_by]_vars
  BY LeaseStep
<1> QED
  BY <1>1, TypeCorrect, RowsAlwaysLegal, PTL DEF Spec, LeaseProtectsRun

-----------------------------------------------------------------------------
(* The cap on attempts, where a worker does not claim while it is still       *)
(* settling                                                                   *)

\* A call comes to hold a decision only by RetryRead, on the table it read.
LEMMA CallStep ==
  ASSUME TypeOK, [Next]_vars, NEW c \in Conn, call'[c].pc \in Deciding
  PROVE  \/ call'[c] = call[c]
         \/ /\ call'[c].run \in runs
            /\ jobs' = jobs
            /\ call'[c].pc = "requeue" =>
                 jobs[call'[c].run.id].attempt < jobs[call'[c].run.id].max_attempts
<1> USE DEF TypeOK
<1>1. CASE Settle
  BY <1>1 DEF Settle, JobSettle, Deciding
<1>2. CASE Retry
  BY <1>2 DEF Retry, RetryRead, Deciding
<1>3. ASSUME NEW d \in Conn, RetryWrite(d) \/ Abort(d) \/ Answer(d)
      PROVE  call'[c] = call[c]
  <2>1. call'[d].pc \notin Deciding
    BY <1>3 DEF RetryWrite, Abort, Answer, Idle, Deciding, Call
  <2> QED
    BY <1>3, <2>1 DEF RetryWrite, Abort, Answer
<1>4. CASE ~Settle /\ ~Retry /\ ~(\E d \in Conn : RetryWrite(d) \/ Abort(d) \/ Answer(d))
  BY <1>4 DEF Next, vars, Enqueue, JobEnqueue, Claim, JobClaim, JobReap, Purge, Tick
<1> QED
  BY <1>1, <1>2, <1>3, <1>4

\* The inductive invariant: RequeueWithinCap is what AttemptWithinCap lacks.
CapInv == AttemptWithinCap /\ RequeueWithinCap

\* A row keeps within its cap: the claim relies on a pending row being below it,
\* the requeue on its decision being still right.
LEMMA CapRowStep ==
  ASSUME TypeOK, CapInv, [Next]_vars, NEW i \in Id, jobs'[i] # NULL
  PROVE  /\ jobs'[i].attempt <= jobs'[i].max_attempts
         /\ jobs'[i].status = "pending" => jobs'[i].attempt < jobs'[i].max_attempts
<1>0. RowStep(i)
  BY RowSteps
<1>1. CASE jobs'[i] = jobs[i]
  BY <1>1 DEF CapInv, AttemptWithinCap, Rows
<1>2. CASE Inserted(i)
  BY <1>2, ConstantsAssumption DEF Inserted, NewRow
<1>3. CASE Claimed(i)
  <2>1. jobs[i] \in Row /\ jobs[i].attempt < jobs[i].max_attempts
    BY <1>3 DEF Claimed, InStatus, Rows, TypeOK, CapInv, AttemptWithinCap
  <2>2. /\ jobs'[i].attempt = jobs[i].attempt + 1
        /\ jobs'[i].max_attempts = jobs[i].max_attempts
        /\ jobs'[i].status = "claimed"
    BY <1>3, <2>1 DEF Claimed, ClaimedRow, Row
  <2>3. jobs[i].attempt \in Nat /\ jobs[i].max_attempts \in Nat
    BY <2>1 DEF Row
  <2> QED
    BY <2>1, <2>2, <2>3
<1>4. CASE Settled(i)
  <2>1. jobs[i] \in Row /\ i \in Rows
    BY <1>4 DEF Settled, Holds, Rows, TypeOK
  <2>2. /\ jobs'[i].attempt = jobs[i].attempt
        /\ jobs'[i].max_attempts = jobs[i].max_attempts
        /\ jobs'[i].status # "pending"
    BY <1>4, <2>1, RunEndsEffect
  <2> QED
    BY <2>1, <2>2 DEF CapInv, AttemptWithinCap
<1>5. CASE Requeued(i)
  <2>1. jobs[i] \in Row /\ jobs[i].attempt < jobs[i].max_attempts
    BY <1>5 DEF Requeued, Holds, TypeOK, CapInv, RequeueWithinCap, Deciding
  <2>2. /\ jobs'[i].attempt = jobs[i].attempt
        /\ jobs'[i].max_attempts = jobs[i].max_attempts
    BY <1>5, <2>1 DEF Requeued, RequeuedRow, Row
  <2>3. jobs[i].attempt \in Nat /\ jobs[i].max_attempts \in Nat
    BY <2>1 DEF Row
  <2> QED
    BY <2>1, <2>2, <2>3
<1>6. CASE Reaped(i)
  <2>1. jobs[i] \in Row /\ i \in Rows
    BY <1>6 DEF Reaped, Reapable, InStatus, Rows, TypeOK
  <2>2. /\ jobs'[i].attempt = jobs[i].attempt
        /\ jobs'[i].max_attempts = jobs[i].max_attempts
        /\ jobs'[i].status = "pending" => jobs[i].attempt < jobs[i].max_attempts
    BY <1>6, <2>1 DEF Reaped, ReapedRow, RequeuedRow, SettledRow, Row
  <2> QED
    BY <2>1, <2>2 DEF CapInv, AttemptWithinCap
<1>7. CASE Deleted(i)
  BY <1>7 DEF Deleted
<1> QED
  BY <1>0, <1>1, <1>2, <1>3, <1>4, <1>5, <1>6, <1>7 DEF RowStep

\* A decision to requeue stays right while the claim is held: under "serial" and
\* under "fresh" the worker cannot have claimed the job again behind it.
LEMMA CapCallStep ==
  ASSUME TypeOK, CapInv, [Next]_vars, WorkerIds # "shared",
         NEW c \in Conn, call'[c].pc \in Deciding
  PROVE  /\ call'[c].run \in runs'
         /\ call'[c].pc = "requeue" /\ Holds(call[c].run.worker, call[c].run.id)' =>
              jobs'[call'[c].run.id].attempt < jobs'[call'[c].run.id].max_attempts
<1>1. CASE call'[c] # call[c]
  BY <1>1, CallStep, RunStep
<1>2. CASE call'[c] = call[c]
  <2> DEFINE r == call[c].run
  <2>1. r \in runs /\ r \in Run /\ r.id \in Id /\ r.worker \in Worker
    BY <1>2 DEF CapInv, RequeueWithinCap, TypeOK, Run
  <2>2. ASSUME call[c].pc = "requeue", jobs'[r.id] # NULL,
               jobs'[r.id].status = "claimed", jobs'[r.id].claimed_by = r.worker
        PROVE  jobs'[r.id].attempt < jobs'[r.id].max_attempts
    <3>1. RowStep(r.id)
      BY <2>1, RowSteps
    <3>2. CASE jobs'[r.id] = jobs[r.id]
      BY <2>2, <3>2 DEF Holds, CapInv, RequeueWithinCap, Deciding
    <3>3. CASE Claimed(r.id)
      <4>1. PICK worker \in Worker, lease \in Leases :
              jobs'[r.id] = ClaimedRow(jobs[r.id], worker, lease) /\ MayClaim(worker)
        BY <3>3 DEF Claimed
      <4>2. jobs[r.id] \in Row
        BY <2>1, <3>3 DEF Claimed, InStatus, Rows, TypeOK
      <4>3. worker = r.worker
        BY <2>2, <4>1, <4>2 DEF ClaimedRow, Row
      <4>4. WorkerIds \in {"serial", "fresh"}
        BY ConstantsAssumption
      <4> QED
        BY <2>1, <2>2, <4>1, <4>3, <4>4 DEF MayClaim, Deciding
    <3>4. CASE Inserted(r.id)
      BY <2>2, <3>4 DEF Inserted, NewRow
    <3>5. CASE Settled(r.id) \/ Requeued(r.id) \/ Reaped(r.id)
      <4>1. jobs[r.id] \in Row
        BY <2>1, <3>5 DEF Settled, Requeued, Reaped, Holds, Reapable, InStatus, Rows, TypeOK
      <4> QED
        BY <2>1, <2>2, <3>5, <4>1, RunEndsEffect
    <3>6. CASE Deleted(r.id)
      BY <2>2, <3>6 DEF Deleted
    <3> QED
      BY <3>1, <3>2, <3>3, <3>4, <3>5, <3>6 DEF RowStep
  <2> QED
    BY <1>2, <2>1, <2>2, RunStep DEF Holds
<1> QED
  BY <1>1, <1>2

\* Attempt never passes MaxAttempts, as long as no worker id is used to claim
\* while a retryable settle under the same id is still being decided.  Without
\* that hypothesis it does: see the run cap_overrun.
THEOREM AttemptsStayWithinCap ==
  ASSUME WorkerIds # "shared"
  PROVE  Spec => []AttemptWithinCap
<1>1. Init => CapInv
  BY DEF Init, CapInv, AttemptWithinCap, RequeueWithinCap, Rows, Idle, Deciding
<1>2. TypeOK /\ CapInv /\ [Next]_vars => CapInv'
  <2> SUFFICES ASSUME TypeOK, CapInv, [Next]_vars PROVE CapInv'
    OBVIOUS
  <2>1. AttemptWithinCap'
    BY CapRowStep DEF AttemptWithinCap, Rows
  <2>2. RequeueWithinCap'
    BY CapCallStep DEF RequeueWithinCap, Holds
  <2> QED
    BY <2>1, <2>2 DEF CapInv
<1>3. CapInv => AttemptWithinCap
  BY DEF CapInv
<1> QED
  BY <1>1, <1>2, <1>3, TypeCorrect, PTL DEF Spec
=============================================================================
