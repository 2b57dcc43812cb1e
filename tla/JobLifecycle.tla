---------------------------- MODULE JobLifecycle ----------------------------
(***************************************************************************)
(* What the queue promises about each job, with the table, the workers,    *)
(* the leases and the clock left out: the statuses a job may move between  *)
(* (dao.JobStatus) and how many runs it may begin (attempt against         *)
(* max_attempts).  JobQueue implements this specification.                 *)
(*                                                                         *)
(* A claim, a sweep and a purge move several jobs in one statement, so a   *)
(* step of the queue is a step, or none, of every job.                     *)
(***************************************************************************)
EXTENDS Integers

CONSTANT Job

VARIABLES
  phase,  \* Job -> where the job is in its life
  begun,  \* Job -> how many runs have begun
  cap     \* Job -> how many runs may begin

vars == <<phase, begun, cap>>

Settled == {"succeeded", "failed", "abandoned"}

Init ==
  /\ phase = [j \in Job |-> "new"]
  /\ begun = [j \in Job |-> 0]
  /\ cap = [j \in Job |-> 0]

\* j moves from phase p to phase q and keeps its cap.
Moves(j, p, q) == phase[j] = p /\ phase'[j] = q /\ cap'[j] = cap[j]

Create(j) ==
  /\ phase[j] = "new" /\ phase'[j] = "pending"
  /\ begun'[j] = 0
  /\ cap'[j] \in Nat \ {0}

Begin(j) ==
  /\ Moves(j, "pending", "claimed")
  /\ begun[j] < cap[j]
  /\ begun'[j] = begun[j] + 1

GiveBack(j) ==
  /\ Moves(j, "claimed", "pending")
  /\ begun[j] < cap[j]
  /\ begun'[j] = begun[j]

Finish(j) ==
  /\ \E q \in {"succeeded", "failed"} : Moves(j, "claimed", q)
  /\ begun'[j] = begun[j]

Abandon(j) ==
  /\ Moves(j, "claimed", "abandoned")
  /\ begun[j] = cap[j]
  /\ begun'[j] = begun[j]

Forget(j) ==
  /\ \E p \in Settled : Moves(j, p, "purged")
  /\ begun'[j] = begun[j]

Rest(j) == phase'[j] = phase[j] /\ begun'[j] = begun[j] /\ cap'[j] = cap[j]

JobStep(j) ==
  Create(j) \/ Begin(j) \/ GiveBack(j) \/ Finish(j) \/ Abandon(j) \/ Forget(j) \/ Rest(j)

Next == \A j \in Job : JobStep(j)

Spec == Init /\ [][Next]_vars
=============================================================================
