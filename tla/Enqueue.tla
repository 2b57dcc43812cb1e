------------------------------- MODULE Enqueue -------------------------------
(***************************************************************************)
(* What the callers of JobEnqueue are told (handlers/grpc.jobEnqueue.go,   *)
(* core/jobEnqueue.go, dao/pg.jobEnqueue.go and its statement).            *)
(*                                                                         *)
(* JobQueue takes an enqueue as one atomic write and forgets its answer.   *)
(* Here the write is still open while its row is in the unique index and   *)
(* its statement has not committed: another insert under the same key      *)
(* waits for it, and a connection lost on either side of the commit leaves *)
(* the caller with an error and the table with a row, or without one.  A   *)
(* caller that did not like its answer, or never got one, calls again:     *)
(* that is another call with the same request.                             *)
(*                                                                         *)
(* Each call mints its own uuid before it writes, so the id of a job is    *)
(* the name of the call that minted it.                                    *)
(***************************************************************************)
EXTENDS Integers

CONSTANTS
  Call,        \* the JobEnqueue calls
  Owner, Kind, \* what they carry: an owner id, NULL if it does not parse,
  Key,         \*   a kind, NULL if it is blank, an idempotency key, NULL if none,
  Payload,     \*   a payload, "" if none, and a max_attempts, an int32
  Requests,    \* the requests the callers make of these
  NULL

Request ==
  [ owner_id : Owner, kind : Kind, idempotency_key : Key, payload : Payload, max_attempts : Int ]

ASSUME ConstantsAssumption ==
  /\ Requests \subseteq Request
  /\ NULL \notin Call

VARIABLES
  jobs,   \* Call -> the committed row with that id, or NULL
  call,   \* Call -> the call being served
  purged  \* the ids of the jobs the purge has deleted

vars == <<jobs, call, purged>>

-----------------------------------------------------------------------------
(* Requests *)

MaxInt16 == 32767

\* int16(x) of an int32.
Int16(x) == ((x + 32768) % 65536) - 32768

\* JSON that does not parse is refused by the jsonb column.
BadJSON == "not json"

payloadOr(payload) == IF payload = "" THEN "{}" ELSE payload

\* The digest of the payload; no two payloads share one.
fingerprintRaw(payload) == [sha256 |-> payload]

fingerprintOf(payload) == [sha256 |-> payloadOr(payload)]

\* a handler that narrows whatever it gets
HandlerLenient(r) == r.owner_id # NULL

\* The handler's own checks.
HandlerAccepts(r) ==
  /\ r.owner_id # NULL
  /\ r.max_attempts >= 0 /\ r.max_attempts <= MaxInt16

\* The validation of core, of the narrowed request.
CoreAccepts(r) == r.kind # NULL /\ Int16(r.max_attempts) >= 0

-----------------------------------------------------------------------------
(* Types *)

Row ==
  [ owner_id : Owner, kind : Kind, idempotency_key : Key,
    request_fingerprint : {fingerprintOf(p) : p \in Payload},
    max_attempts : 1..MaxInt16 ]

\* No row is a row that is not there.
ASSUME NullAssumption == NULL \notin Row

\* The row a statement returned: RETURNING *.
Entity == [id : Call, row : Row]

Serving == {"insert", "open", "returned"}

Ended == {"OK", "InvalidArgument", "AlreadyExists", "Internal"}

TypeOK ==
  /\ jobs \in [Call -> Row \cup {NULL}]
  /\ call \in [Call -> [ pc : {"idle"} \cup Serving \cup Ended,
                         request : Requests \cup {NULL},
                         entity : Entity \cup {NULL},
                         created : BOOLEAN ]]
  /\ purged \in SUBSET Call

Init ==
  /\ jobs = [c \in Call |-> NULL]
  /\ call = [c \in Call |->
       [pc |-> "idle", request |-> NULL, entity |-> NULL, created |-> FALSE]]
  /\ purged = {}

-----------------------------------------------------------------------------
(* The table *)

NewRow(r) ==
  [ owner_id |-> r.owner_id,
    kind |-> r.kind,
    idempotency_key |-> r.idempotency_key,
    request_fingerprint |-> fingerprintOf(r.payload),
    max_attempts |-> IF r.max_attempts = 0 THEN 1 ELSE Int16(r.max_attempts) ]

\* jobs_idempotency_idx: (owner_id, kind, idempotency_key), for keys that are
\* not null.
SameKey(a, b) ==
  /\ a.idempotency_key # NULL
  /\ a.idempotency_key = b.idempotency_key
  /\ a.owner_id = b.owner_id
  /\ a.kind = b.kind

Recorded(r) == {i \in Call : jobs[i] # NULL /\ SameKey(jobs[i], r)}

\* (mutated form: an index that knows only committed rows)
WaitsForNobody(r) == SameKey(r, r) /\ FALSE

\* (mutated form: calls under one key wait for each other, writing or not)
WaitsForAny(r) ==
  \E d \in Call : /\ call[d].pc \in {"insert", "open"}
                  /\ call[d].request # r /\ SameKey(call[d].request, r)

\* Another statement has written a row under the same key and is still open.
Waits(r) == \E d \in Call : call[d].pc = "open" /\ SameKey(call[d].request, r)

-----------------------------------------------------------------------------
(* The calls *)

Move(c, pc) == call' = [call EXCEPT ![c].pc = pc]

JobEnqueue(c, r) ==
  /\ call[c].pc = "idle"
  /\ call' = [call EXCEPT
       ![c].request = r,
       ![c].pc = IF HandlerAccepts(r) /\ CoreAccepts(r) THEN "insert" ELSE "InvalidArgument"]
  /\ UNCHANGED <<jobs, purged>>

\* (mutated form: the row of a statement that is still open is returned too)
InsertDirty(c) ==
  LET r == call[c].request IN
  /\ call[c].pc = "insert" /\ r.payload # BadJSON
  /\ \/ \E d \in Call :
          /\ call[d].pc = "open" /\ SameKey(call[d].request, r)
          /\ call' = [call EXCEPT ![c].pc = "returned",
                                  ![c].entity = [id |-> d, row |-> NewRow(call[d].request)]]
     \/ \E i \in Recorded(r) :
          call' = [call EXCEPT ![c].pc = "returned", ![c].entity = [id |-> i, row |-> jobs[i]]]
     \/ Recorded(r) = {} /\ ~Waits(r) /\ Move(c, "open")
  /\ UNCHANGED <<jobs, purged>>

\* The statement, once nobody holds the key: the row recorded under the key,
\* which the no-op DO UPDATE returns, or a row of its own.
Insert(c) ==
  LET r == call[c].request IN
  /\ call[c].pc = "insert" /\ r.payload # BadJSON
  /\ ~Waits(r)
  /\ \/ \E i \in Recorded(r) :
          call' = [call EXCEPT ![c].pc = "returned", ![c].entity = [id |-> i, row |-> jobs[i]]]
     \/ Recorded(r) = {} /\ Move(c, "open")
  /\ UNCHANGED <<jobs, purged>>

\* The statement commits and its row comes back.
Commit(c) ==
  LET row == NewRow(call[c].request) IN
  /\ call[c].pc = "open"
  /\ jobs' = [jobs EXCEPT ![c] = row]
  /\ call' = [call EXCEPT ![c].pc = "returned", ![c].entity = [id |-> c, row |-> row]]
  /\ UNCHANGED purged

\* The statement commits, and the connection is lost before its row comes back.
CommitUnseen(c) ==
  /\ call[c].pc = "open"
  /\ jobs' = [jobs EXCEPT ![c] = NewRow(call[c].request)]
  /\ Move(c, "Internal")
  /\ UNCHANGED purged

\* The statement fails: its JSON does not parse, its caller's context is over,
\* the database is unreachable.
Fail(c) ==
  /\ call[c].pc \in {"insert", "open"}
  /\ Move(c, "Internal")
  /\ UNCHANGED <<jobs, purged>>

FailBadJSON(c) == call[c].pc = "insert" /\ call[c].request.payload = BadJSON /\ Fail(c)

\* (mutated form: a caller whose payload matches is told it created the job)
ExecCreatedByPayload(c) ==
  LET k == call[c]
      match == k.entity.row.request_fingerprint = fingerprintOf(k.request.payload) IN
  /\ k.pc = "returned"
  /\ call' = [call EXCEPT ![c].pc = IF match THEN "OK" ELSE "AlreadyExists",
                          ![c].created = match]
  /\ UNCHANGED <<jobs, purged>>

\* (mutated form: whatever is recorded under the key is the answer)
ExecUnmatched(c) ==
  /\ call[c].pc = "returned"
  /\ call' = [call EXCEPT ![c].pc = "OK", ![c].created = (call[c].entity.id = c)]
  /\ UNCHANGED <<jobs, purged>>

\* What core makes of the row: created if it has the id minted here, a conflict
\* if it is another's with another fingerprint, else a replay.
Exec(c) ==
  LET k == call[c]
      created == k.entity.id = c
      match == k.entity.row.request_fingerprint = fingerprintOf(k.request.payload) IN
  /\ k.pc = "returned"
  /\ call' = [call EXCEPT ![c].pc = IF ~created /\ ~match THEN "AlreadyExists" ELSE "OK",
                          ![c].created = created]
  /\ UNCHANGED <<jobs, purged>>

\* A job settles and its retention ends; JobQueue says when.
Purge(i) ==
  /\ jobs[i] # NULL
  /\ jobs' = [jobs EXCEPT ![i] = NULL]
  /\ purged' = purged \cup {i}
  /\ UNCHANGED call

Next ==
  \E c \in Call :
    \/ \E r \in Requests : JobEnqueue(c, r)
    \/ Insert(c) \/ Commit(c) \/ CommitUnseen(c) \/ Fail(c) \/ Exec(c)
    \/ Purge(c)

Spec == Init /\ [][Next]_vars

\* A statement that can run does, or fails; an open one ends; a handler that has
\* its row answers.
Fairness ==
  \A c \in Call :
    /\ WF_vars(Insert(c) \/ FailBadJSON(c))
    /\ WF_vars(Commit(c) \/ CommitUnseen(c))
    /\ WF_vars(Exec(c))

FairSpec == Spec /\ Fairness

-----------------------------------------------------------------------------
(* Properties *)

Answered(c) == call[c].pc = "OK"

HasEntity(c) == call[c].pc \in {"returned", "OK", "AlreadyExists"}

\* What has come of call c in state k.  Once it has its row the outcome is settled,
\* whether or not core has compared anything yet.
Outcome(c, k) ==
  CASE k.pc = "idle" -> "none"
    [] k.pc \in {"insert", "open"} -> "pending"
    [] k.pc = "InvalidArgument" -> "refused"
    [] k.pc = "Internal" -> "unknown"
    [] k.pc = "AlreadyExists" -> "conflict"
    [] k.pc = "OK" -> IF k.created THEN "created" ELSE "found"
    [] k.pc = "returned" ->
         IF k.entity.id = c THEN "created"
         ELSE IF k.entity.row.request_fingerprint = [sha256 |-> payloadOr(k.request.payload)]
              THEN "found" ELSE "conflict"

Registry == INSTANCE JobRegistry WITH
  asked  <- [c \in Call |-> call[c].request],
  job    <- jobs,
  answer <- [c \in Call |-> Outcome(c, call[c])],
  about  <- [c \in Call |-> IF HasEntity(c) THEN call[c].entity.id ELSE NULL]

\* Calls whose statements are open side by side, wait for each other, fail and
\* lose their answers are told what they would be told one at a time: each makes
\* its job or finds the one there is at a single moment while it is served, and
\* only the one that made a job is told that it created it.  (ON CONFLICT on
\* jobs_idempotency_idx, and created := entity.ID == id.)
ImplementsRegistry == Registry!Spec

\* A caller never silently receives a job that does not match the payload it
\* sent.  (core.JobEnqueue.Exec comparing fingerprints on a replay.)
AnswerMatchesPayload ==
  \A c \in Call : Answered(c) =>
    call[c].entity.row.request_fingerprint = fingerprintOf(call[c].request.payload)

\* A job a caller was told of is recorded, or was and has been purged: nobody is
\* handed the row of a statement that was rolled back.  (The losing insert of a
\* race waiting on the winner's.)
AnswerIsDurable ==
  \A c \in Call : Answered(c) =>
    jobs[call[c].entity.id] # NULL \/ call[c].entity.id \in purged

\* Callers under one key are told of one job, unless a purge came between: a
\* retry after a lost answer attaches to the work in flight.  (ON CONFLICT on
\* jobs_idempotency_idx.)
OneJobPerKey ==
  \A c, d \in Call :
    Answered(c) /\ Answered(d) /\ SameKey(call[c].request, call[d].request) =>
      \/ call[c].entity.id = call[d].entity.id
      \/ call[c].entity.id \in purged \/ call[d].entity.id \in purged

\* A repeat of a request that made or found a job is not answered with a
\* conflict while that job is there, whether it spells an empty payload as
\* nothing or as {}.  (payloadOr under both the column and the fingerprint.)
RetryIsNoConflict ==
  \A c, d \in Call :
    /\ call[c].pc = "AlreadyExists" /\ Answered(d)
    /\ SameKey(call[c].request, call[d].request)
    /\ payloadOr(call[c].request.payload) = payloadOr(call[d].request.payload)
    => call[c].entity.id \in purged \/ call[d].entity.id \in purged

\* The cap of a job is the one its creator asked for, one if it asked for none,
\* with nothing lost between the int32 of the wire and the smallint of the
\* column.  (The range check before int16(request.GetMaxAttempts()).)
CapIsAsAsked ==
  \A c \in Call : jobs[c] # NULL =>
    LET asked == call[c].request.max_attempts IN
    jobs[c].max_attempts = IF asked = 0 THEN 1 ELSE asked

\* Every call is answered: calls that wait for each other's keys do not wait
\* for ever.  (One key per statement, as dao.JobEnqueue asks.)
EveryCallEnds == \A c \in Call : call[c].pc \in Serving ~> call[c].pc \in Ended
==============================================================================
