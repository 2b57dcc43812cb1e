------------------------------ MODULE Backlog -------------------------------
(***************************************************************************)
(* The two measurements of the queue, over the table of JobQueue: the      *)
(* queue depth the Status call reports (dao.JobQueueDepth,                 *)
(* core.JobQueueDepth, queueDepthToProto) and the pending statistics       *)
(* (dao.JobCountPending, core.JobCountPending).  Each is one query.  A      *)
(* health check reads the age of the oldest waiting job to tell a queue    *)
(* that drains a burst from one that has stalled.                          *)
(***************************************************************************)
EXTENDS JobQueue

\* (mutated form: the youngest)
MinRunAtYoungest(waiting) ==
  CHOOSE t \in {jobs[i].run_at : i \in waiting} : \A i \in waiting : t >= jobs[i].run_at

\* min(run_at)
MinRunAt(waiting) ==
  CHOOSE t \in {jobs[i].run_at : i \in waiting} : \A i \in waiting : t <= jobs[i].run_at

\* dao.JobQueueDepth: due and unclaimed jobs; the age is absent with none.
QueueDepth ==
  LET due == Claimable(Kind) IN
  [ pending |-> Cardinality(due),
    oldest  |-> IF due = {} THEN NULL ELSE now - MinRunAt(due) ]

\* The message: a field that is absent, not zero, for an age that is.
queueDepthToProto(depth) == [ pending |-> depth.pending, oldest_pending_age |-> depth.oldest ]

\* core.JobQueueDepth and the handler: the report of the Status call.
JobQueueDepth == queueDepthToProto(QueueDepth)

\* dao.JobCountPending: pending jobs, due or not; the age of an empty queue is
\* coalesced to zero.
JobPendingStats ==
  LET waiting == InStatus({"pending"}) IN
  [ pending |-> Cardinality(waiting),
    oldest  |-> IF waiting = {} THEN 0 ELSE now - MinRunAt(waiting) ]

\* core.JobCountPending hands them on as they are.
JobCountPending == JobPendingStats

-----------------------------------------------------------------------------
(* Properties *)

\* The two measurements never contradict each other: no requeue, sweep or
\* enqueue leaves a job pending that is not due, so what waits is what a worker
\* could claim, and the ages are the same, but for how an empty queue is told.
BacklogAgrees ==
  /\ JobQueueDepth.pending = JobCountPending.pending
  /\ JobQueueDepth.pending = 0 <=> JobQueueDepth.oldest_pending_age = NULL
  /\ JobQueueDepth.pending # 0 => JobQueueDepth.oldest_pending_age = JobCountPending.oldest

\* A step on which the age falls, or disappears, is a claim of a job that has
\* waited that long.
AgeFallsByClaim ==
  LET age   == JobQueueDepth.oldest_pending_age
      after == JobQueueDepth'.oldest_pending_age
  IN age # NULL /\ (after = NULL \/ after < age) =>
       \E i \in InStatus({"pending"}) :
         /\ now - jobs[i].run_at = age
         /\ jobs'[i] # NULL /\ jobs'[i].status = "claimed"

\* A stalled queue looks stalled: the age reported never falls, nor disappears,
\* unless a claim takes a job that has waited that long.  Neither new work nor
\* work handed back makes the queue look fresher than it is.
AgeFallsOnlyByClaim == [][AgeFallsByClaim]_vars
=============================================================================
