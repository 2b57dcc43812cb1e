---------------------------- MODULE JobRegistry ----------------------------
(***************************************************************************)
(* What JobEnqueue promises its callers, with the statement, its unique    *)
(* index and the waiting left out: a call takes effect in one step, some   *)
(* time between its being sent and its being answered.  In that step it    *)
(* makes the job it asked for, or is shown the one that is there under its *)
(* key.  Enqueue implements this specification, and JobQueue builds on it: *)
(* an enqueue there is one step.                                           *)
(***************************************************************************)
EXTENDS Integers

CONSTANTS Call, Requests, NULL

VARIABLES
  asked,   \* Call -> the request, or NULL
  job,     \* Call -> the job made by the call, while it is there, or NULL
  answer,  \* Call -> what has come of the call
  about    \* Call -> the job the answer is about, or NULL

vars == <<asked, job, answer, about>>

Init ==
  /\ asked = [c \in Call |-> NULL]
  /\ job = [c \in Call |-> NULL]
  /\ answer = [c \in Call |-> "none"]
  /\ about = [c \in Call |-> NULL]

\* An owner, a kind, and a cap a smallint can hold.
Valid(r) ==
  /\ r.owner_id # NULL /\ r.kind # NULL
  /\ r.max_attempts >= 0 /\ r.max_attempts <= 32767

\* What the payloads of two requests for the same job have in common; no payload
\* is the empty object.
Digest(r) == [sha256 |-> IF r.payload = "" THEN "{}" ELSE r.payload]

\* The job a request asks for; no cap asks for one attempt.
JobFor(r) ==
  [ owner_id |-> r.owner_id, kind |-> r.kind, idempotency_key |-> r.idempotency_key,
    request_fingerprint |-> Digest(r),
    max_attempts |-> IF r.max_attempts = 0 THEN 1 ELSE r.max_attempts ]

\* The jobs there are under the key of a request.
Under(r) ==
  {i \in Call : /\ job[i] # NULL
                /\ r.idempotency_key # NULL
                /\ job[i].idempotency_key = r.idempotency_key
                /\ job[i].owner_id = r.owner_id /\ job[i].kind = r.kind}

Ask(c, r) ==
  /\ answer[c] = "none"
  /\ asked' = [asked EXCEPT ![c] = r]
  /\ answer' = [answer EXCEPT ![c] = IF Valid(r) THEN "pending" ELSE "refused"]
  /\ UNCHANGED <<job, about>>

Owed(c) == answer[c] = "pending"

\* The answer to c is a, of job i.
Answer(c, a, i) ==
  /\ answer' = [answer EXCEPT ![c] = a]
  /\ about' = [about EXCEPT ![c] = i]
  /\ UNCHANGED asked

\* The caller hears of its job, or is left without knowing of it.
Register(c) ==
  /\ Owed(c) /\ Under(asked[c]) = {}
  /\ job' = [job EXCEPT ![c] = JobFor(asked[c])]
  /\ Answer(c, "created", c) \/ Answer(c, "unknown", NULL)

Attach(c, i) ==
  /\ Owed(c) /\ i \in Under(asked[c])
  /\ Answer(c, IF job[i].request_fingerprint = Digest(asked[c]) THEN "found" ELSE "conflict", i)
  /\ UNCHANGED job

GiveUp(c) == Owed(c) /\ Answer(c, "unknown", NULL) /\ UNCHANGED job

Delete(i) ==
  /\ job[i] # NULL
  /\ job' = [job EXCEPT ![i] = NULL]
  /\ UNCHANGED <<asked, answer, about>>

Next ==
  \E c \in Call :
    \/ \E r \in Requests : Ask(c, r)
    \/ Register(c) \/ GiveUp(c) \/ Delete(c)
    \/ \E i \in Call : Attach(c, i)

Spec == Init /\ [][Next]_vars
=============================================================================
