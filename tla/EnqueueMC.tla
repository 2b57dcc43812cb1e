----------------------------- MODULE EnqueueMC -----------------------------
(* Enqueue with the values a configuration file cannot hold.                *)
EXTENDS Enqueue

CONSTANTS o1, k1, x

Plain == [owner_id |-> o1, kind |-> k1, idempotency_key |-> x, payload |-> "work", max_attempts |-> 0]

\* Requests that differ in what decides between created, replayed and conflict.
RaceRequests ==
  {[Plain EXCEPT !.payload = p] : p \in {"", "{}", "work"}}
    \cup {[Plain EXCEPT !.idempotency_key = NULL]}

\* Requests at and past a limit.  Of max_attempts: negative, the last smallint,
\* the first value past it, and one whose low 16 bits read as 1.
EdgeRequests ==
  {[Plain EXCEPT !.max_attempts = n] : n \in {-1, MaxInt16, MaxInt16 + 1, 65537}}
    \cup { [Plain EXCEPT !.payload = BadJSON],
           [Plain EXCEPT !.owner_id = NULL], [Plain EXCEPT !.kind = NULL] }

AllRequests == RaceRequests \cup EdgeRequests
=============================================================================
