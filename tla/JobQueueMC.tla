----------------------------- MODULE JobQueueMC -----------------------------
(* Small instances of JobQueue, and of what Backlog reads of it, for TLC. *)
EXTENDS Backlog, TLC

\* Jobs, workers and server connections are interchangeable.  Sound for the
\* safety runs; the liveness runs do not use it.
Symmetry == Permutations(Id) \cup Permutations(Worker) \cup Permutations(Conn)
=============================================================================
