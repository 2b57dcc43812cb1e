--------------------------- MODULE BacklogProofs ----------------------------
(***************************************************************************)
(* Theorems about Backlog: what a health check reads of the queue tells a  *)
(* queue that drains from one that has stalled, for every table.           *)
(***************************************************************************)
EXTENDS Backlog, JobHistoryProofs, FiniteSetTheorems, WellFoundedInduction

-----------------------------------------------------------------------------
(* min(run_at) *)

\* A set of times that is not empty has an earliest one.
LEMMA EarliestTime ==
  ASSUME NEW T \in SUBSET Nat, T # {}
  PROVE  \E t \in T : \A u \in T : t <= u
<1> DEFINE Less == OpToRel(<, Nat)
<1>1. PICK t \in T : \A u \in T : <<u, t>> \notin Less
  <2> HIDE DEF Less
  <2>1. IsWellFoundedOn(Less, Nat)
    BY NatLessThanWellFounded DEF Less
  <2> QED
    BY <2>1, WFMin
<1>2. \A u \in T : ~(u < t)
  BY <1>1 DEF OpToRel
<1> QED
  BY <1>2

\* min(run_at) is the run_at of a row of the set, and none is earlier.
LEMMA MinRunAtIsMin ==
  ASSUME NEW waiting, waiting # {}, \A i \in waiting : jobs[i].run_at \in Nat
  PROVE  /\ \E i \in waiting : MinRunAt(waiting) = jobs[i].run_at
         /\ \A i \in waiting : MinRunAt(waiting) <= jobs[i].run_at
<1> DEFINE T == {jobs[i].run_at : i \in waiting}
<1>1. T \in SUBSET Nat /\ T # {}
  OBVIOUS
<1>2. PICK t \in T : \A u \in T : t <= u
  BY <1>1, EarliestTime
<1>3. \E s \in T : \A i \in waiting : s <= jobs[i].run_at
  BY <1>2
<1>4. MinRunAt(waiting) \in T /\ \A i \in waiting : MinRunAt(waiting) <= jobs[i].run_at
  BY <1>3 DEF MinRunAt
<1> QED
  BY <1>4

-----------------------------------------------------------------------------
(* The invariant *)

\* A pending job is due: an insert, a requeue and a sweep date it from the
\* present, and nothing dates it later.
PendingIsDue == \A i \in InStatus({"pending"}) : jobs[i].run_at <= now

\* The table is finite: inserts come one at a time.
BacklogInv == PendingIsDue /\ IsFiniteSet(Rows)

\* What hands a job back, or brings a new one, makes it due at once.
LEMMA DueStep ==
  ASSUME TypeOK, PendingIsDue, [Next]_vars,
         NEW i \in Id, jobs'[i] # NULL, jobs'[i].status = "pending"
  PROVE  jobs'[i].run_at <= now'
<1>0. RowStep(i) /\ now \in Nat /\ now' \in Nat /\ now <= now'
  BY RowSteps, ClockStep DEF TypeOK
<1>1. CASE jobs'[i] = jobs[i]
  <2>1. jobs[i].run_at <= now /\ jobs[i].run_at \in Nat
    BY <1>1 DEF PendingIsDue, InStatus, Rows, TypeOK, Row
  <2> QED
    BY <1>0, <1>1, <2>1
<1>2. CASE Inserted(i)
  <2>1. jobs'[i].run_at = now
    BY <1>2 DEF Inserted, NewRow
  <2> QED
    BY <1>0, <2>1
<1>3. CASE Claimed(i)
  BY <1>3 DEF Claimed, ClaimedRow, InStatus, Rows, TypeOK, Row
<1>4. CASE Settled(i)
  <2>1. jobs[i] \in Row
    BY <1>4 DEF Settled, Holds, TypeOK
  <2> QED
    BY <1>4, <2>1, RunEndsEffect
<1>5. CASE Requeued(i)
  <2>1. jobs[i] \in Row
    BY <1>5 DEF Requeued, Holds, TypeOK
  <2>2. jobs'[i].run_at = now
    BY <1>5, <2>1 DEF Requeued, RequeuedRow, Row
  <2> QED
    BY <1>0, <2>2
<1>6. CASE Reaped(i)
  <2>1. jobs[i] \in Row
    BY <1>6 DEF Reaped, Reapable, InStatus, Rows, TypeOK
  <2>2. CASE jobs'[i] = RequeuedRow(jobs[i])
    <3>1. jobs'[i].run_at = now
      BY <2>1, <2>2 DEF RequeuedRow, Row
    <3> QED
      BY <1>0, <3>1
  <2>3. CASE jobs'[i] = SettledRow(jobs[i], "abandoned", jobs[i].result, JobReapError)
    BY <2>1, <2>3 DEF SettledRow, Row
  <2> QED
    BY <1>6, <2>2, <2>3 DEF Reaped, ReapedRow
<1>7. CASE Deleted(i)
  BY <1>7 DEF Deleted
<1> QED
  BY <1>0, <1>1, <1>2, <1>3, <1>4, <1>5, <1>6, <1>7 DEF RowStep

\* One statement inserts at most one row.
LEMMA RowsGrowByOne ==
  ASSUME TypeOK, TypeOK', [Next]_vars
  PROVE  \E id : Rows' \subseteq Rows \cup {id}
<1>1. ASSUME NEW i \in Rows', i \notin Rows PROVE i \in Minted' /\ i \notin Minted
  <2>1. i \in Id /\ jobs[i] = NULL /\ jobs'[i] # NULL /\ RowStep(i)
    BY <1>1, RowSteps DEF Rows
  <2>2. Inserted(i)
    BY <2>1 DEF RowStep, Claimed, Settled, Requeued, Reaped, Deleted, Holds, Reapable,
       InStatus, Rows
  <2> QED
    BY <2>1, <2>2 DEF Inserted, Minted
<1>2. CASE Rows' \subseteq Rows
  BY <1>2
<1>3. ASSUME NEW j \in Rows', j \notin Rows PROVE Rows' \subseteq Rows \cup {j}
  BY <1>1, <1>3, MintStep
<1> QED
  BY <1>2, <1>3

\* A write adds one row at most, and what it leaves pending is due.
LEMMA BacklogInvStep == TypeOK /\ TypeOK' /\ BacklogInv /\ [Next]_vars => BacklogInv'
<1> SUFFICES ASSUME TypeOK, TypeOK', BacklogInv, [Next]_vars PROVE BacklogInv'
  OBVIOUS
<1>1. PendingIsDue'
  BY DueStep DEF BacklogInv, PendingIsDue, InStatus, Rows
<1>2. PICK id : Rows' \subseteq Rows \cup {id}
  BY RowsGrowByOne
<1>3. IsFiniteSet(Rows \cup {id})
  BY FS_AddElement DEF BacklogInv
<1>4. IsFiniteSet(Rows')
  BY <1>2, <1>3, FS_Subset
<1> QED
  BY <1>1, <1>4 DEF BacklogInv

\* The rows are finitely many at any time, and the pending ones are due.
LEMMA BacklogInvariant == Spec => [](TypeOK /\ RowsLegal /\ BacklogInv)
<1>1. Init => BacklogInv
  <2> SUFFICES ASSUME Init PROVE BacklogInv
    OBVIOUS
  <2>1. Rows = {}
    BY DEF Init, Rows
  <2> QED
    BY <2>1, FS_EmptySet DEF BacklogInv, PendingIsDue, InStatus
<1> QED
  BY <1>1, BacklogInvStep, TypeCorrect, RowsAlwaysLegal, PTL DEF Spec

-----------------------------------------------------------------------------
(* The measurements *)

\* What a worker could claim is what is pending.
LEMMA AllPendingIsDue ==
  ASSUME TypeOK, PendingIsDue
  PROVE  Claimable(Kind) = InStatus({"pending"})
BY DEF TypeOK, PendingIsDue, Claimable, InStatus, Rows, Row

\* The age of the queue is the age of a pending job, and none is older.
AgeOfOldest ==
  LET age == JobQueueDepth.oldest_pending_age IN
  /\ InStatus({"pending"}) = {} <=> age = NULL
  /\ InStatus({"pending"}) # {} =>
       /\ age \in Nat
       /\ age = now - MinRunAt(InStatus({"pending"}))
       /\ \E i \in InStatus({"pending"}) : age = now - jobs[i].run_at
       /\ \A i \in InStatus({"pending"}) : now - jobs[i].run_at <= age

\* The age the query reads is that of the row that has waited longest.
LEMMA AgeIsOldest == TypeOK /\ BacklogInv => AgeOfOldest
<1> SUFFICES ASSUME TypeOK, BacklogInv PROVE AgeOfOldest
  OBVIOUS
<1> DEFINE waiting == InStatus({"pending"})
           age == JobQueueDepth.oldest_pending_age
<1>1. age = IF waiting = {} THEN NULL ELSE now - MinRunAt(waiting)
  BY AllPendingIsDue DEF JobQueueDepth, queueDepthToProto, QueueDepth, BacklogInv
<1>2. \A i \in waiting : jobs[i].run_at \in Nat /\ jobs[i].run_at <= now
  BY DEF TypeOK, BacklogInv, PendingIsDue, InStatus, Rows, Row
<1>3. now \in Nat
  BY DEF TypeOK
<1>4. ASSUME waiting # {}
      PROVE  /\ age \in Nat /\ age # NULL
             /\ age = now - MinRunAt(waiting)
             /\ \E i \in waiting : age = now - jobs[i].run_at
             /\ \A i \in waiting : now - jobs[i].run_at <= age
  <2>1. age = now - MinRunAt(waiting)
    BY <1>1, <1>4
  <2>2. /\ \E i \in waiting : MinRunAt(waiting) = jobs[i].run_at
        /\ \A i \in waiting : MinRunAt(waiting) <= jobs[i].run_at
    BY <1>2, <1>4, MinRunAtIsMin
  <2>3. MinRunAt(waiting) \in Nat /\ MinRunAt(waiting) <= now
    BY <1>2, <2>2
  <2>4. age \in Nat /\ age # NULL
    BY <1>3, <2>1, <2>3, NullAssumption
  <2>5. \A i \in waiting : now - jobs[i].run_at <= age
    BY <1>2, <1>3, <2>1, <2>2, <2>3
  <2> QED
    BY <2>1, <2>2, <2>4, <2>5
<1> QED
  BY <1>1, <1>4 DEF AgeOfOldest

\* The same of the state a step leads to.
LEMMA AgeIsOldestAfter == TypeOK' /\ BacklogInv' => AgeOfOldest'
  BY AgeIsOldest, PTL

\* The Status call's queue depth and the pending statistics never contradict
\* each other: the due and the pending jobs are the same jobs.
THEOREM MeasurementsAgree == Spec => []BacklogAgrees
<1>1. TypeOK /\ BacklogInv => BacklogAgrees
  <2> SUFFICES ASSUME TypeOK, BacklogInv PROVE BacklogAgrees
    OBVIOUS
  <2> DEFINE waiting == InStatus({"pending"})
  <2>1. JobQueueDepth.pending = Cardinality(waiting) /\ JobCountPending.pending = Cardinality(waiting)
    BY AllPendingIsDue
    DEF JobQueueDepth, queueDepthToProto, QueueDepth, JobCountPending, JobPendingStats, BacklogInv
  <2>2. IsFiniteSet(waiting)
    BY FS_Subset DEF BacklogInv, InStatus
  <2>3. Cardinality(waiting) = 0 <=> waiting = {}
    BY <2>2, FS_EmptySet
  <2>4. waiting # {} => JobCountPending.oldest = now - MinRunAt(waiting)
    BY DEF JobCountPending, JobPendingStats
  <2> QED
    BY <2>1, <2>3, <2>4, AgeIsOldest DEF BacklogAgrees, AgeOfOldest
<1> QED
  BY <1>1, BacklogInvariant, PTL

\* The age step by step: the oldest pending job is still pending, and as old or
\* older, or a claim took it.
LEMMA AgeStep ==
  ASSUME TypeOK, TypeOK', RowsLegal, BacklogInv, BacklogInv', [Next]_vars,
         JobQueueDepth.oldest_pending_age # NULL,
         \/ JobQueueDepth'.oldest_pending_age = NULL
         \/ JobQueueDepth'.oldest_pending_age < JobQueueDepth.oldest_pending_age
  PROVE  \E i \in InStatus({"pending"}) :
           /\ now - jobs[i].run_at = JobQueueDepth.oldest_pending_age
           /\ jobs'[i] # NULL /\ jobs'[i].status = "claimed"
<1> DEFINE age == JobQueueDepth.oldest_pending_age
           after == JobQueueDepth'.oldest_pending_age
<1>1. PICK i \in InStatus({"pending"}) : age = now - jobs[i].run_at
  BY AgeIsOldest DEF AgeOfOldest
<1>2. i \in Id /\ i \in Rows /\ jobs[i] \in Row /\ jobs[i].status = "pending" /\ RowStep(i)
  BY RowSteps DEF InStatus, Rows, TypeOK
<1>3. jobs'[i] # jobs[i]
  <2> SUFFICES ASSUME jobs'[i] = jobs[i] PROVE FALSE
    OBVIOUS
  <2>1. i \in InStatus({"pending"})'
    BY <1>2 DEF InStatus, Rows
  <2>2. after \in Nat /\ now' - jobs'[i].run_at <= after
    BY <2>1, AgeIsOldestAfter DEF AgeOfOldest
  <2>3. jobs[i].run_at \in Nat /\ now \in Nat /\ now' \in Nat /\ now <= now'
    BY <1>2, ClockStep DEF Row, TypeOK
  <2>4. age <= after
    BY <1>1, <2>2, <2>3
  <2>5. age \in Nat
    BY <1>1, AgeIsOldest DEF AgeOfOldest
  <2> QED
    BY <2>2, <2>4, <2>5, NullAssumption
<1>4. Claimed(i)
  <2>1. ~Inserted(i)
    BY <1>2 DEF Inserted, Minted, Rows
  <2>2. ~Settled(i) /\ ~Requeued(i) /\ ~Reaped(i)
    BY <1>2 DEF Settled, Requeued, Reaped, Holds, Reapable, InStatus
  <2>3. ~Deleted(i)
    BY <1>2 DEF Deleted, Purgeable, RowsLegal, LegalRow, Terminal
  <2> QED
    BY <1>2, <1>3, <2>1, <2>2, <2>3 DEF RowStep
<1>5. jobs'[i] # NULL /\ jobs'[i].status = "claimed"
  <2>1. PICK worker \in Worker, lease \in Leases :
          jobs'[i] = ClaimedRow(jobs[i], worker, lease)
    BY <1>4 DEF Claimed
  <2>2. ClaimedRow(jobs[i], worker, lease) \in Row
    BY <1>2, ClaimedRowType DEF TypeOK
  <2> QED
    BY <1>2, <2>1, <2>2, NullAssumption DEF ClaimedRow, Row
<1> QED
  BY <1>1, <1>5

\* A stalled queue looks stalled: the reported age falls, or disappears, only
\* where a claim takes a job that has waited that long.
THEOREM StalledQueueLooksStalled == Spec => AgeFallsOnlyByClaim
<1>1. TypeOK /\ TypeOK' /\ RowsLegal /\ BacklogInv /\ BacklogInv' /\ [Next]_vars =>
        [AgeFallsByClaim]_vars
  BY AgeStep DEF AgeFallsByClaim
<1> QED
  BY <1>1, BacklogInvariant, PTL DEF Spec, AgeFallsOnlyByClaim
=============================================================================
