--------------------------- MODULE EnqueueProofs ----------------------------
(***************************************************************************)
(* Theorems about Enqueue: what the callers of JobEnqueue are told, and    *)
(* that it implements JobRegistry, for every number of calls, every        *)
(* request and every interleaving.                                         *)
(***************************************************************************)
EXTENDS Enqueue, TLAPS

-----------------------------------------------------------------------------
(* The row of a request *)

\* An int32 that the handler's range check lets through is not changed by its
\* conversion to int16.
LEMMA Int16Exact == ASSUME NEW n \in Int, n >= 0, n <= MaxInt16 PROVE Int16(n) = n
<1> DEFINE m == n + 32768
<1>1. m \in Nat /\ m < 65536
  BY DEF MaxInt16
<1>2. m % 65536 = m
  <2> HIDE DEF m
  <2> QED
    BY <1>1
<1> QED
  BY <1>2 DEF Int16

\* The columns of the row of a request the handler let through: its key as it
\* came, its cap as it was asked for.
LEMMA RowOfRequest ==
  ASSUME NEW r \in Requests, HandlerAccepts(r)
  PROVE  /\ NewRow(r) \in Row /\ NewRow(r) # NULL
         /\ NewRow(r).owner_id = r.owner_id
         /\ NewRow(r).kind = r.kind
         /\ NewRow(r).idempotency_key = r.idempotency_key
         /\ NewRow(r).request_fingerprint = fingerprintOf(r.payload)
         /\ NewRow(r).max_attempts = IF r.max_attempts = 0 THEN 1 ELSE r.max_attempts
<1>1. /\ r \in Request /\ r.max_attempts \in Int
      /\ r.max_attempts >= 0 /\ r.max_attempts <= MaxInt16
  BY ConstantsAssumption DEF HandlerAccepts, Request
<1>2. Int16(r.max_attempts) = r.max_attempts
  BY <1>1, Int16Exact
<1>3. (IF r.max_attempts = 0 THEN 1 ELSE r.max_attempts) \in 1..MaxInt16
  <2>1. ASSUME NEW m \in Nat \ {0}, NEW n \in Int, n >= 0, n <= m
        PROVE  (IF n = 0 THEN 1 ELSE n) \in 1..m
    BY <2>1
  <2>2. MaxInt16 \in Nat \ {0}
    BY DEF MaxInt16
  <2> QED
    BY <1>1, <2>1, <2>2
<1>4. fingerprintOf(r.payload) \in {fingerprintOf(p) : p \in Payload}
  BY <1>1 DEF Request
<1>5. NewRow(r) \in Row
  <2>1. NewRow(r).max_attempts \in 1..MaxInt16
    BY <1>2, <1>3 DEF NewRow
  <2>2. r.owner_id \in Owner /\ r.kind \in Kind /\ r.idempotency_key \in Key
    BY <1>1 DEF Request
  <2> QED
    BY <1>4, <2>1, <2>2 DEF NewRow, Row
<1>6. NewRow(r).max_attempts = IF r.max_attempts = 0 THEN 1 ELSE r.max_attempts
  BY <1>2 DEF NewRow
<1> QED
  BY <1>5, <1>6, NullAssumption DEF NewRow

-----------------------------------------------------------------------------
(* The inductive invariant *)

\* A call that has written what it had to write, or found it written.
Written(c) == call[c].pc \in {"returned", "OK", "AlreadyExists", "Internal"}

\* A call keeps the request it came with, and writes only what its handler let
\* through.
RequestsStand ==
  \A c \in Call :
    /\ call[c].pc # "idle" => call[c].request \in Requests
    /\ call[c].pc \notin {"idle", "InvalidArgument"} => HandlerAccepts(call[c].request)

\* A row is the one of the call that minted its id, and is inserted once.
RowsAreOwn ==
  \A i \in Call :
    /\ jobs[i] # NULL => Written(i) /\ jobs[i] = NewRow(call[i].request)
    /\ i \in purged => jobs[i] = NULL /\ Written(i)

\* The calls that have an entry in the unique index: committed, or still open.
Indexed(c) == jobs[c] # NULL \/ call[c].pc = "open"

\* The index has one entry for a key.
KeysAreUnique ==
  \A c, d \in Call :
    Indexed(c) /\ Indexed(d) /\ SameKey(call[c].request, call[d].request) => c = d

\* The row a call was given is its own or one recorded under its key, it was
\* committed, and nothing has become of it but a purge.
Given(c) ==
  LET e == call[c].entity IN
  /\ e \in Entity /\ Written(e.id)
  /\ e.row = NewRow(call[e.id].request)
  /\ e.id = c \/ SameKey(call[e.id].request, call[c].request)
  /\ jobs[e.id] # NULL \/ e.id \in purged

\* What an answer says of the row its call was given.
Told(c) ==
  LET e == call[c].entity IN
  /\ call[c].pc = "OK" =>
       /\ call[c].created <=> e.id = c
       /\ e.row.request_fingerprint = fingerprintOf(call[c].request.payload)
  /\ call[c].pc = "AlreadyExists" =>
       e.row.request_fingerprint # fingerprintOf(call[c].request.payload)

AnswersStand == \A c \in Call : HasEntity(c) => Given(c) /\ Told(c)

IInv == TypeOK /\ RequestsStand /\ RowsAreOwn /\ KeysAreUnique /\ AnswersStand

-----------------------------------------------------------------------------
(* One step *)

\* No step leaves the types.
LEMMA TypeStep == TypeOK /\ RequestsStand /\ RowsAreOwn /\ [Next]_vars => TypeOK'
<1> SUFFICES ASSUME TypeOK, RequestsStand, RowsAreOwn, [Next]_vars PROVE TypeOK'
  OBVIOUS
<1> DEFINE CallState == [ pc : {"idle"} \cup Serving \cup Ended, request : Requests \cup {NULL},
                          entity : Entity \cup {NULL}, created : BOOLEAN ]
<1> USE DEF TypeOK
<1>1. ASSUME NEW c \in Call, NEW r \in Requests, JobEnqueue(c, r) PROVE TypeOK'
  BY <1>1 DEF JobEnqueue, Serving, Ended
<1>2. ASSUME NEW c \in Call, Insert(c) PROVE TypeOK'
  <2>1. CASE \E i \in Recorded(call[c].request) :
               call' = [call EXCEPT ![c].pc = "returned", ![c].entity = [id |-> i, row |-> jobs[i]]]
    <3>1. PICK i \in Recorded(call[c].request) :
            call' = [call EXCEPT ![c].pc = "returned", ![c].entity = [id |-> i, row |-> jobs[i]]]
      BY <2>1
    <3>2. [id |-> i, row |-> jobs[i]] \in Entity
      BY DEF Recorded, Entity
    <3> DEFINE m == [call[c] EXCEPT !.pc = "returned"]
               k == [m EXCEPT !.entity = [id |-> i, row |-> jobs[i]]]
    <3>3. k \in CallState
      <4>1. m \in CallState
        BY DEF Serving
      <4> HIDE DEF m
      <4> QED
        BY <3>2, <4>1
    <3>4. call' = [call EXCEPT ![c] = k] /\ UNCHANGED <<jobs, purged>>
      BY <1>2, <3>1 DEF Insert
    <3> HIDE DEF k
    <3> QED
      BY <3>3, <3>4
  <2>2. CASE Move(c, "open")
    <3> DEFINE k == [call[c] EXCEPT !.pc = "open"]
    <3>1. k \in CallState
      BY DEF Serving
    <3>2. call' = [call EXCEPT ![c] = k] /\ UNCHANGED <<jobs, purged>>
      BY <1>2, <2>2 DEF Insert, Move
    <3> HIDE DEF k
    <3> QED
      BY <3>1, <3>2
  <2> QED
    BY <1>2, <2>1, <2>2 DEF Insert
<1>3. ASSUME NEW c \in Call, Commit(c) \/ CommitUnseen(c) PROVE TypeOK'
  <2>1. call[c].request \in Requests /\ HandlerAccepts(call[c].request)
    BY <1>3 DEF Commit, CommitUnseen, RequestsStand
  <2>2. NewRow(call[c].request) \in Row
    BY <2>1, RowOfRequest
  <2> DEFINE e == [id |-> c, row |-> NewRow(call[c].request)]
             m == [call[c] EXCEPT !.pc = "returned"]
             k == [m EXCEPT !.entity = e]
  <2>3. e \in Entity
    BY <2>2 DEF Entity
  <2>4. k \in CallState
    <3>1. m \in CallState
      BY DEF Serving
    <3> HIDE DEF m, e
    <3> QED
      BY <2>3, <3>1
  <2>5. [call[c] EXCEPT !.pc = "Internal"] \in CallState
    BY DEF Ended
  <2>6. jobs' \in [Call -> Row \cup {NULL}] /\ purged' = purged
    BY <1>3, <2>2 DEF Commit, CommitUnseen
  <2>7. CASE call' = [call EXCEPT ![c] = k]
    <3> HIDE DEF k
    <3> QED
      BY <2>4, <2>6, <2>7
  <2>8. CASE Move(c, "Internal")
    BY <2>5, <2>6, <2>8 DEF Move
  <2>9. call' = [call EXCEPT ![c] = k] \/ Move(c, "Internal")
    BY <1>3 DEF Commit, CommitUnseen
  <2> QED
    BY <2>7, <2>8, <2>9
<1>4. ASSUME NEW c \in Call, Fail(c) PROVE TypeOK'
  BY <1>4 DEF Fail, Move, Ended
<1>5. ASSUME NEW c \in Call, Exec(c) PROVE TypeOK'
  <2>1. PICK pc \in Ended, created \in BOOLEAN :
          call' = [call EXCEPT ![c].pc = pc, ![c].created = created]
    BY <1>5 DEF Exec, Ended
  <2>2. [[call[c] EXCEPT !.pc = pc] EXCEPT !.created = created] \in CallState
    BY <2>1
  <2>3. UNCHANGED <<jobs, purged>>
    BY <1>5 DEF Exec
  <2> QED
    BY <2>1, <2>2, <2>3
<1>6. ASSUME NEW c \in Call, Purge(c) PROVE TypeOK'
  BY <1>6 DEF Purge
<1>7. CASE UNCHANGED vars
  BY <1>7 DEF vars
<1> QED
  BY <1>1, <1>2, <1>3, <1>4, <1>5, <1>6, <1>7 DEF Next

\* A request is fixed when its call is taken up, and so is what the handler
\* thinks of it.
LEMMA RequestStep ==
  ASSUME TypeOK, TypeOK', RequestsStand, [Next]_vars
  PROVE  /\ RequestsStand'
         /\ \A d \in Call : call[d].pc # "idle" =>
              call'[d].pc # "idle" /\ call'[d].request = call[d].request
<1> USE DEF TypeOK, RequestsStand
<1>1. ASSUME NEW c \in Call, NEW r \in Requests, JobEnqueue(c, r)
      PROVE  /\ RequestsStand'
             /\ \A d \in Call : call[d].pc # "idle" => call'[d] = call[d]
  BY <1>1 DEF JobEnqueue
<1>2. ASSUME NEW c \in Call,
             Insert(c) \/ Commit(c) \/ CommitUnseen(c) \/ Fail(c) \/ Exec(c)
      PROVE  /\ call[c].pc \in Serving /\ call'[c].pc # "idle"
             /\ call'[c].request = call[c].request
             /\ \A d \in Call \ {c} : call'[d] = call[d]
  BY <1>2 DEF Insert, Commit, CommitUnseen, Fail, Exec, Move, Serving
<1>3. ASSUME NEW c \in Call, Purge(c) PROVE call' = call
  BY <1>3 DEF Purge
<1> QED
  BY <1>1, <1>2, <1>3 DEF Next, vars, Serving

\* What a call has written, or found written, stays what it is but for a purge.
LEMMA WrittenStep ==
  ASSUME TypeOK, TypeOK', [Next]_vars, NEW d \in Call, Written(d)
  PROVE  Written(d)'
<1> USE DEF TypeOK, Written
<1>1. ASSUME NEW c \in Call, NEW r \in Requests, JobEnqueue(c, r) PROVE Written(d)'
  BY <1>1 DEF JobEnqueue
<1>2. ASSUME NEW c \in Call,
             Insert(c) \/ Commit(c) \/ CommitUnseen(c) \/ Fail(c)
      PROVE  Written(d)'
  BY <1>2 DEF Insert, Commit, CommitUnseen, Fail, Move
<1>3. ASSUME NEW c \in Call, Exec(c) PROVE Written(d)'
  BY <1>3 DEF Exec
<1>4. ASSUME NEW c \in Call, Purge(c) PROVE Written(d)'
  BY <1>4 DEF Purge
<1> QED
  BY <1>1, <1>2, <1>3, <1>4 DEF Next, vars

\* A row is inserted by a commit of its own call, and leaves by a purge.
LEMMA TableStep ==
  ASSUME TypeOK, TypeOK', [Next]_vars, NEW i \in Call
  PROVE  \/ jobs'[i] = jobs[i] /\ (i \in purged' <=> i \in purged)
         \/ /\ call[i].pc = "open" /\ Written(i)' /\ jobs'[i] = NewRow(call[i].request)
            /\ (i \in purged' <=> i \in purged)
         \/ jobs[i] # NULL /\ jobs'[i] = NULL /\ i \in purged' /\ call' = call
<1> USE DEF TypeOK
<1>1. CASE UNCHANGED <<jobs, purged>>
  BY <1>1
<1>2. ASSUME NEW c \in Call, Commit(c) \/ CommitUnseen(c)
      PROVE  \/ jobs'[i] = jobs[i] /\ (i \in purged' <=> i \in purged)
             \/ /\ call[i].pc = "open" /\ Written(i)' /\ jobs'[i] = NewRow(call[i].request)
                /\ (i \in purged' <=> i \in purged)
  <2>1. call[c].pc = "open" /\ Written(c)' /\ purged' = purged
    BY <1>2 DEF Commit, CommitUnseen, Move, Written
  <2>2. jobs' = [jobs EXCEPT ![c] = NewRow(call[c].request)]
    BY <1>2 DEF Commit, CommitUnseen
  <2> QED
    BY <2>1, <2>2
<1>3. ASSUME NEW c \in Call, Purge(c)
      PROVE  \/ jobs'[i] = jobs[i] /\ (i \in purged' <=> i \in purged)
             \/ jobs[i] # NULL /\ jobs'[i] = NULL /\ i \in purged' /\ call' = call
  BY <1>3 DEF Purge
<1> QED
  BY <1>1, <1>2, <1>3 DEF Next, vars, JobEnqueue, Insert, Fail, Exec

\* A row stays the one of the call that minted its id.
LEMMA RowsStep ==
  ASSUME TypeOK, TypeOK', RequestsStand, RowsAreOwn, [Next]_vars
  PROVE  RowsAreOwn'
<1> SUFFICES ASSUME NEW i \in Call
             PROVE  /\ jobs'[i] # NULL => Written(i)' /\ jobs'[i] = NewRow(call'[i].request)
                    /\ i \in purged' => jobs'[i] = NULL /\ Written(i)'
  BY DEF RowsAreOwn
<1>1. CASE jobs'[i] = jobs[i] /\ (i \in purged' <=> i \in purged)
  <2>1. CASE Written(i)
    <3>1. Written(i)' /\ call'[i].request = call[i].request
      BY <2>1, WrittenStep, RequestStep DEF Written
    <3> QED
      BY <1>1, <3>1 DEF RowsAreOwn
  <2>2. CASE ~Written(i)
    BY <1>1, <2>2 DEF RowsAreOwn
  <2> QED
    BY <2>1, <2>2
<1>2. CASE /\ call[i].pc = "open" /\ Written(i)' /\ jobs'[i] = NewRow(call[i].request)
           /\ (i \in purged' <=> i \in purged)
  <2>1. i \notin purged /\ call'[i].request = call[i].request
    BY <1>2, RequestStep DEF RowsAreOwn, Written
  <2> QED
    BY <1>2, <2>1
<1>3. CASE jobs[i] # NULL /\ jobs'[i] = NULL /\ i \in purged' /\ call' = call
  BY <1>3 DEF RowsAreOwn, Written
<1> QED
  BY <1>1, <1>2, <1>3, TableStep

\* A call enters the index by its insert, which found the key free.
LEMMA IndexStep ==
  ASSUME TypeOK, TypeOK', RequestsStand, RowsAreOwn, [Next]_vars,
         NEW c \in Call, Indexed(c)', ~Indexed(c)
  PROVE  /\ Recorded(call[c].request) = {} /\ ~Waits(call[c].request)
         /\ call'[c].request = call[c].request
         /\ jobs' = jobs /\ \A d \in Call \ {c} : call'[d] = call[d]
<1> USE DEF TypeOK
<1>1. jobs'[c] = jobs[c] /\ jobs[c] = NULL /\ call[c].pc # "open" /\ call'[c].pc = "open"
  BY TableStep DEF Indexed, Written
<1>2. ASSUME NEW d \in Call, Insert(d)
      PROVE  d = c /\ Recorded(call[c].request) = {} /\ ~Waits(call[c].request)
  <2>1. d = c
    BY <1>1, <1>2 DEF Insert, Move
  <2>2. call' # [call EXCEPT ![c].pc = "returned",
                             ![c].entity = call'[c].entity]
    BY <1>1
  <2> QED
    BY <1>1, <1>2, <2>1 DEF Insert
<1>3. ASSUME NEW d \in Call, NEW r \in Requests, JobEnqueue(d, r) PROVE FALSE
  BY <1>1, <1>3 DEF JobEnqueue
<1>4. ASSUME NEW d \in Call,
             Commit(d) \/ CommitUnseen(d) \/ Fail(d) \/ Exec(d) \/ Purge(d)
      PROVE  FALSE
  BY <1>1, <1>4 DEF Commit, CommitUnseen, Fail, Exec, Purge, Move
<1>5. PICK d \in Call : Insert(d)
  BY <1>1, <1>3, <1>4 DEF Next, vars
<1>6. d = c /\ jobs' = jobs /\ \A e \in Call \ {c} : call'[e] = call[e]
  BY <1>2, <1>5 DEF Insert, Move
<1>7. call'[c].request = call[c].request
  BY <1>5, <1>6, RequestStep DEF Insert
<1> QED
  BY <1>2, <1>5, <1>6, <1>7

\* The row of a request has its key.
LEMMA SameKeyAsRow ==
  ASSUME NEW r \in Requests, HandlerAccepts(r), NEW s
  PROVE  SameKey(NewRow(r), s) <=> SameKey(r, s)
BY RowOfRequest DEF SameKey

\* Two calls under one key never both enter the index: the second waits for the
\* first, and then finds its row.
LEMMA KeysStep ==
  ASSUME TypeOK, TypeOK', RequestsStand, RowsAreOwn, KeysAreUnique, [Next]_vars
  PROVE  KeysAreUnique'
<1>1. ASSUME NEW c \in Call, NEW d \in Call, c # d, Indexed(c)', ~Indexed(c), Indexed(d)'
      PROVE  ~SameKey(call'[d].request, call'[c].request)
  <2>1. /\ Recorded(call[c].request) = {} /\ ~Waits(call[c].request)
        /\ call'[c].request = call[c].request
        /\ jobs' = jobs /\ call'[d] = call[d]
    BY <1>1, IndexStep
  <2>2. CASE jobs[d] # NULL
    <3>1. jobs[d] = NewRow(call[d].request) /\ Written(d)
      BY <2>2 DEF RowsAreOwn
    <3>2. call[d].request \in Requests /\ HandlerAccepts(call[d].request)
      BY <3>1 DEF RequestsStand, Written
    <3>3. ~SameKey(jobs[d], call[c].request)
      BY <2>1, <2>2 DEF Recorded
    <3> QED
      BY <2>1, <3>1, <3>2, <3>3, SameKeyAsRow
  <2>3. CASE call[d].pc = "open"
    BY <2>1, <2>3 DEF Waits
  <2> QED
    BY <1>1, <2>1, <2>2, <2>3 DEF Indexed
<1>2. ASSUME NEW c \in Call, NEW d \in Call, Indexed(c), Indexed(d),
             SameKey(call'[c].request, call'[d].request)
      PROVE  c = d
  <2>1. call'[c].request = call[c].request /\ call'[d].request = call[d].request
    BY <1>2, RequestStep DEF Indexed, RowsAreOwn, Written
  <2> QED
    BY <1>2, <2>1 DEF KeysAreUnique
<1>3. \A r, s : SameKey(r, s) => SameKey(s, r)
  BY DEF SameKey
<1> QED
  BY <1>1, <1>2, <1>3 DEF KeysAreUnique

\* The row a call was given stays what it was, but for a purge.
LEMMA GivenStep ==
  ASSUME TypeOK, TypeOK', RequestsStand, RowsAreOwn, [Next]_vars,
         NEW c \in Call, HasEntity(c), Given(c),
         call'[c].entity = call[c].entity, call'[c].request = call[c].request
  PROVE  Given(c)'
<1> DEFINE e == call[c].entity
<1>1. e.id \in Call /\ Written(e.id) /\ Written(e.id)'
  BY WrittenStep DEF Given, Entity
<1>2. call'[e.id].request = call[e.id].request
  BY <1>1, RequestStep DEF Written
<1>3. jobs'[e.id] # NULL \/ e.id \in purged'
  BY <1>1, TableStep DEF Given, Written
<1> QED
  BY <1>1, <1>2, <1>3 DEF Given

\* A call is given a row by its insert, that finds it, or by its commit.
LEMMA FirstGiven ==
  ASSUME TypeOK, TypeOK', RequestsStand, RowsAreOwn, [Next]_vars,
         NEW c \in Call, HasEntity(c)', ~HasEntity(c)
  PROVE  Given(c)' /\ call'[c].pc = "returned"
<1> USE DEF TypeOK, HasEntity
<1>1. ASSUME NEW d \in Call, NEW r \in Requests, JobEnqueue(d, r) PROVE FALSE
  BY <1>1 DEF JobEnqueue
<1>2. ASSUME NEW d \in Call, CommitUnseen(d) \/ Fail(d) \/ Exec(d) \/ Purge(d) PROVE FALSE
  BY <1>2 DEF CommitUnseen, Fail, Exec, Purge, Move
<1>3. ASSUME NEW d \in Call, Commit(d) PROVE Given(c)' /\ call'[c].pc = "returned"
  <2>1. d = c
    BY <1>3 DEF Commit
  <2> DEFINE row == NewRow(call[c].request)
  <2>2. /\ call[c].pc = "open" /\ jobs' = [jobs EXCEPT ![c] = row]
        /\ call' = [call EXCEPT ![c].pc = "returned", ![c].entity = [id |-> c, row |-> row]]
    BY <1>3, <2>1 DEF Commit
  <2>3. row \in Row /\ row # NULL
    BY <2>2, RowOfRequest DEF RequestsStand
  <2>4. /\ call'[c].pc = "returned" /\ call'[c].entity = [id |-> c, row |-> row]
        /\ call'[c].request = call[c].request /\ jobs'[c] = row
    BY <2>2
  <2>5. [id |-> c, row |-> row] \in Entity /\ Written(c)'
    BY <2>3, <2>4 DEF Entity, Written
  <2> QED
    BY <2>3, <2>4, <2>5 DEF Given
<1>4. ASSUME NEW d \in Call, Insert(d) PROVE Given(c)' /\ call'[c].pc = "returned"
  <2>1. d = c
    BY <1>4 DEF Insert, Move
  <2>2. call[c].pc = "insert" /\ jobs' = jobs /\ purged' = purged
    BY <1>4, <2>1 DEF Insert
  <2>3. PICK i \in Recorded(call[c].request) :
          call' = [call EXCEPT ![c].pc = "returned", ![c].entity = [id |-> i, row |-> jobs[i]]]
    BY <1>4, <2>1 DEF Insert, Move
  <2>4. /\ i \in Call /\ jobs[i] # NULL /\ SameKey(jobs[i], call[c].request)
        /\ Written(i) /\ jobs[i] = NewRow(call[i].request)
    BY DEF Recorded, RowsAreOwn
  <2>5. call[i].request \in Requests /\ HandlerAccepts(call[i].request)
    BY <2>4 DEF RequestsStand, Written
  <2>6. SameKey(call[i].request, call[c].request)
    BY <2>4, <2>5, SameKeyAsRow
  <2>7. /\ call'[c].pc = "returned" /\ call'[c].entity = [id |-> i, row |-> jobs[i]]
        /\ call'[c].request = call[c].request
    BY <2>3
  <2>8. Written(i)' /\ call'[i].request = call[i].request
    BY <2>4, WrittenStep, RequestStep DEF Written
  <2>9. [id |-> i, row |-> jobs[i]] \in Entity
    BY <2>4 DEF Entity
  <2> QED
    BY <2>2, <2>4, <2>6, <2>7, <2>8, <2>9 DEF Given
<1> QED
  BY <1>1, <1>2, <1>3, <1>4 DEF Next, vars

\* An answer is made by Exec, of the row the call was given, and is not changed.
LEMMA ToldStep ==
  ASSUME TypeOK, TypeOK', RequestsStand, [Next]_vars,
         NEW c \in Call, HasEntity(c), Given(c), Told(c)
  PROVE  /\ Told(c)' /\ HasEntity(c)'
         /\ call'[c].entity = call[c].entity /\ call'[c].request = call[c].request
<1> USE DEF TypeOK, HasEntity
<1>1. CASE Exec(c)
  <2> DEFINE created == call[c].entity.id = c
             match == call[c].entity.row.request_fingerprint
                        = fingerprintOf(call[c].request.payload)
  <2>1. call'[c].pc = IF ~created /\ ~match THEN "AlreadyExists" ELSE "OK"
    BY <1>1 DEF Exec
  <2>2. call'[c].created <=> created
    BY <1>1 DEF Exec
  <2>3. call'[c].entity = call[c].entity /\ call'[c].request = call[c].request
    BY <1>1 DEF Exec
  <2>4. created => match
    <3>1. call[c].request \in Requests /\ HandlerAccepts(call[c].request)
      BY DEF RequestsStand
    <3> QED
      BY <3>1, RowOfRequest DEF Given
  <2>5. HasEntity(c)'
    BY <2>1
  <2>6. Told(c)'
    <3> HIDE DEF created, match
    <3>1. /\ call'[c].pc = "OK" => (call'[c].created <=> created) /\ match
          /\ call'[c].pc = "AlreadyExists" => ~match
      BY <2>1, <2>2, <2>4
    <3> QED
      BY <2>3, <3>1 DEF Told, created, match
  <2> QED
    BY <2>3, <2>5, <2>6
<1>2. CASE ~Exec(c)
  <2>1. ASSUME NEW d \in Call, Exec(d) PROVE call'[c] = call[c]
    BY <1>2, <2>1 DEF Exec
  <2>2. call'[c] = call[c]
    BY <2>1 DEF Next, vars, JobEnqueue, Insert, Commit, CommitUnseen, Fail, Purge, Move
  <2> QED
    BY <2>2 DEF Told
<1> QED
  BY <1>1, <1>2

\* What the callers are given and told stays true.
LEMMA AnswersStep ==
  ASSUME TypeOK, TypeOK', RequestsStand, RowsAreOwn, AnswersStand, [Next]_vars
  PROVE  AnswersStand'
<1> SUFFICES ASSUME NEW c \in Call, HasEntity(c)' PROVE Given(c)' /\ Told(c)'
  BY DEF AnswersStand
<1>1. CASE HasEntity(c)
  <2>1. Given(c) /\ Told(c)
    BY <1>1 DEF AnswersStand
  <2> QED
    BY <1>1, <2>1, ToldStep, GivenStep
<1>2. CASE ~HasEntity(c)
  BY <1>2, FirstGiven DEF Told
<1> QED
  BY <1>1, <1>2

\* Every state of the service satisfies the invariant.
LEMMA IInvariant == Spec => []IInv
<1>1. Init => IInv
  <2> SUFFICES ASSUME Init PROVE IInv
    OBVIOUS
  <2>1. TypeOK
    BY DEF Init, TypeOK
  <2> QED
    BY <2>1 DEF Init, IInv, RequestsStand, RowsAreOwn, KeysAreUnique, Indexed, AnswersStand,
                HasEntity
<1>2. IInv /\ [Next]_vars => IInv'
  <2> SUFFICES ASSUME IInv, [Next]_vars PROVE IInv'
    OBVIOUS
  <2> USE DEF IInv
  <2>1. TypeOK'
    BY TypeStep
  <2>2. RequestsStand'
    BY <2>1, RequestStep
  <2>3. RowsAreOwn'
    BY <2>1, RowsStep
  <2>4. KeysAreUnique'
    BY <2>1, KeysStep
  <2>5. AnswersStand'
    BY <2>1, AnswersStep
  <2> QED
    BY <2>1, <2>2, <2>3, <2>4, <2>5
<1> QED
  BY <1>1, <1>2, PTL DEF Spec

-----------------------------------------------------------------------------
(* Theorems *)

\* The calls and the table stay within their types: no statement writes a row
\* that is not one.  (handlers/grpc.jobEnqueue.go and its statement.)
THEOREM TypeCorrect == Spec => []TypeOK
<1>1. IInv => TypeOK
  BY DEF IInv
<1> QED
  BY <1>1, IInvariant, PTL

\* No caller is handed a job made of another payload.  (core.JobEnqueue.Exec
\* comparing fingerprints on a replay.)
THEOREM AnswersMatchPayloads == Spec => []AnswerMatchesPayload
<1>1. IInv => AnswerMatchesPayload
  BY DEF IInv, AnswersStand, HasEntity, Told, AnswerMatchesPayload, Answered
<1> QED
  BY <1>1, IInvariant, PTL

\* Whoever is told of a job is told of a committed one: the insert that loses a
\* race waits for the winner's commit before it answers with its row.
THEOREM AnswersAreDurable == Spec => []AnswerIsDurable
<1>1. IInv => AnswerIsDurable
  BY DEF IInv, AnswersStand, HasEntity, Given, AnswerIsDurable, Answered
<1> QED
  BY <1>1, IInvariant, PTL

\* The cap a caller asks for is the cap its job gets, for every int32 the wire
\* can carry.  (The range check before int16(request.GetMaxAttempts()).)
THEOREM CapsAreAsAsked == Spec => []CapIsAsAsked
<1>1. ASSUME IInv, NEW c \in Call, jobs[c] # NULL
      PROVE  jobs[c].max_attempts = IF call[c].request.max_attempts = 0 THEN 1
                                    ELSE call[c].request.max_attempts
  <2>1. Written(c) /\ jobs[c] = NewRow(call[c].request)
    BY <1>1 DEF IInv, RowsAreOwn
  <2>2. call[c].request \in Requests /\ HandlerAccepts(call[c].request)
    BY <1>1, <2>1 DEF IInv, RequestsStand, Written
  <2> QED
    BY <2>1, <2>2, RowOfRequest
<1>2. IInv => CapIsAsAsked
  BY <1>1 DEF CapIsAsAsked
<1> QED
  BY <1>2, IInvariant, PTL

\* The jobs that two calls under one key were given, while neither is purged, are
\* one job: the unique index has one entry for their key.
LEMMA SameKeySameJob ==
  ASSUME IInv, NEW c \in Call, NEW d \in Call, HasEntity(c), HasEntity(d),
         SameKey(call[c].request, call[d].request),
         call[c].entity.id \notin purged, call[d].entity.id \notin purged
  PROVE  call[c].entity.id = call[d].entity.id
<1> DEFINE i == call[c].entity.id
           j == call[d].entity.id
<1>1. Given(c) /\ Given(d) /\ i \in Call /\ j \in Call
  BY DEF IInv, AnswersStand, Given, Entity
<1>2. Indexed(i) /\ Indexed(j)
  BY <1>1 DEF Given, Indexed
<1>3. SameKey(call[d].request, call[d].request) /\ SameKey(call[c].request, call[c].request)
  BY DEF SameKey
<1>4. /\ SameKey(call[i].request, call[c].request)
      /\ SameKey(call[j].request, call[d].request)
  BY <1>1, <1>3 DEF Given
<1>5. SameKey(call[i].request, call[j].request)
  BY <1>4 DEF SameKey
<1> QED
  BY <1>1, <1>2, <1>5 DEF IInv, KeysAreUnique

\* Callers under one key are told of one job, unless a purge came between.  (ON
\* CONFLICT on jobs_idempotency_idx: a key whose insert is open is waited for,
\* one that is recorded is found.)
THEOREM OneJobForOneKey == Spec => []OneJobPerKey
<1>1. IInv => OneJobPerKey
  BY SameKeySameJob DEF OneJobPerKey, Answered, HasEntity
<1> QED
  BY <1>1, IInvariant, PTL

\* A repeat of a request is not answered with a conflict while the job is there,
\* whichever way it spells an empty payload.  (payloadOr under both the column
\* and the fingerprint.)
THEOREM RetriesAreNoConflict == Spec => []RetryIsNoConflict
<1>1. ASSUME IInv, NEW c \in Call, NEW d \in Call,
             call[c].pc = "AlreadyExists", Answered(d),
             SameKey(call[c].request, call[d].request),
             payloadOr(call[c].request.payload) = payloadOr(call[d].request.payload),
             call[c].entity.id \notin purged, call[d].entity.id \notin purged
      PROVE  FALSE
  <2>1. HasEntity(c) /\ HasEntity(d)
    BY <1>1 DEF HasEntity, Answered
  <2>2. call[c].entity.id = call[d].entity.id
    BY <1>1, <2>1, SameKeySameJob
  <2>3. call[c].entity.row = call[d].entity.row
    BY <1>1, <2>1, <2>2 DEF IInv, AnswersStand, Given
  <2> QED
    BY <1>1, <2>1, <2>3 DEF IInv, AnswersStand, Told, Answered, fingerprintOf
<1>2. IInv => RetryIsNoConflict
  BY <1>1 DEF RetryIsNoConflict
<1> QED
  BY <1>2, IInvariant, PTL
-----------------------------------------------------------------------------
(* Enqueue implements JobRegistry *)

\* What the handler and core let through is what the registry calls valid.
LEMMA ValidIsAccepted ==
  ASSUME NEW r \in Requests
  PROVE  Registry!Valid(r) <=> HandlerAccepts(r) /\ CoreAccepts(r)
<1>1. Registry!Valid(r) <=> HandlerAccepts(r) /\ r.kind # NULL
  BY DEF Registry!Valid, HandlerAccepts, MaxInt16
<1>2. HandlerAccepts(r) => Int16(r.max_attempts) >= 0
  BY Int16Exact, ConstantsAssumption DEF Request, HandlerAccepts
<1> QED
  BY <1>1, <1>2 DEF CoreAccepts

\* The row of a request is the job the request asks for.
LEMMA RowIsAsAsked ==
  ASSUME NEW r \in Requests, HandlerAccepts(r)
  PROVE  NewRow(r) = Registry!JobFor(r)
<1>1. r.max_attempts \in Int /\ r.max_attempts >= 0 /\ r.max_attempts <= MaxInt16
  BY ConstantsAssumption DEF Request, HandlerAccepts
<1>2. Int16(r.max_attempts) = r.max_attempts
  BY <1>1, Int16Exact
<1>3. fingerprintOf(r.payload) = Registry!Digest(r)
  BY DEF fingerprintOf, payloadOr, Registry!Digest
<1> QED
  BY <1>2, <1>3 DEF NewRow, Registry!JobFor

\* The jobs the registry has under the key of a call are the rows recorded.
LEMMA UnderIsRecorded ==
  ASSUME NEW c \in Call
  PROVE  Registry!Under(call[c].request) = Recorded(call[c].request)
BY DEF Registry!Under, Recorded, SameKey

\* A call whose statement is open finds its key free as it commits: whoever else
\* has written under it was there first, or waits.
LEMMA OpenKeyIsFree ==
  ASSUME IInv, NEW c \in Call, call[c].pc = "open"
  PROVE  Recorded(call[c].request) = {}
<1> SUFFICES ASSUME NEW i \in Call, jobs[i] # NULL, SameKey(jobs[i], call[c].request)
             PROVE  FALSE
  BY DEF Recorded
<1>1. Written(i) /\ jobs[i] = NewRow(call[i].request)
  BY DEF IInv, RowsAreOwn
<1>2. call[i].request \in Requests /\ HandlerAccepts(call[i].request)
  BY <1>1 DEF IInv, RequestsStand, Written
<1>3. SameKey(call[i].request, call[c].request)
  BY <1>1, <1>2, SameKeyAsRow
<1>4. i = c
  BY <1>3 DEF IInv, KeysAreUnique, Indexed
<1> QED
  BY <1>1, <1>4 DEF Written

\* What has come of a call that has no row in hand, by where it is.
LEMMA OutcomeByPc ==
  ASSUME NEW c, NEW k
  PROVE  /\ k.pc = "idle" => Outcome(c, k) = "none"
         /\ k.pc \in {"insert", "open"} => Outcome(c, k) = "pending"
         /\ k.pc = "InvalidArgument" => Outcome(c, k) = "refused"
         /\ k.pc = "Internal" => Outcome(c, k) = "unknown"
         /\ k.pc = "AlreadyExists" => Outcome(c, k) = "conflict"
<1>1. k.pc = "idle" => Outcome(c, k) = "none"
  BY DEF Outcome
<1>2. k.pc \in {"insert", "open"} => Outcome(c, k) = "pending"
  BY DEF Outcome
<1>3. k.pc = "InvalidArgument" => Outcome(c, k) = "refused"
  BY DEF Outcome
<1>4. k.pc = "Internal" => Outcome(c, k) = "unknown"
  BY DEF Outcome
<1>5. k.pc = "AlreadyExists" => Outcome(c, k) = "conflict"
  BY DEF Outcome
<1> QED
  BY <1>1, <1>2, <1>3, <1>4, <1>5

\* What has come of a call that has its row, by the row.
LEMMA OutcomeByRow ==
  ASSUME NEW c, NEW k, NEW same \in BOOLEAN, k.pc = "returned",
         same <=> k.entity.row.request_fingerprint = [sha256 |-> payloadOr(k.request.payload)]
  PROVE  Outcome(c, k) =
           IF k.entity.id = c THEN "created" ELSE IF same THEN "found" ELSE "conflict"
<1>1. k.entity.id = c => Outcome(c, k) = "created"
  BY DEF Outcome
<1>2. k.entity.id # c /\ same => Outcome(c, k) = "found"
  BY DEF Outcome
<1>3. k.entity.id # c /\ ~same => Outcome(c, k) = "conflict"
  BY DEF Outcome
<1> QED
  BY <1>1, <1>2, <1>3

\* What has come of a call that was answered OK, by what it was told.
LEMMA OutcomeOfOK ==
  ASSUME NEW c, NEW k, k.pc = "OK"
  PROVE  /\ k.created = TRUE => Outcome(c, k) = "created"
         /\ k.created = FALSE => Outcome(c, k) = "found"
BY DEF Outcome

\* The registry's view of the calls.
AnswerOf == [d \in Call |-> Outcome(d, call[d])]

AboutOf == [d \in Call |-> IF HasEntity(d) THEN call[d].entity.id ELSE NULL]

\* A step of one call changes its own entries of the registry and no others.
LEMMA OwnEntries ==
  ASSUME NEW c \in Call, \A d \in Call \ {c} : call'[d] = call[d],
         call'[c].request = call[c].request
  PROVE  /\ [d \in Call |-> call'[d].request] = [d \in Call |-> call[d].request]
         /\ AnswerOf' = [AnswerOf EXCEPT ![c] = Outcome(c, call'[c])]
         /\ AboutOf' = [AboutOf EXCEPT ![c] =
                          IF HasEntity(c)' THEN call'[c].entity.id ELSE NULL]
<1>1. \A d \in Call \ {c} : Outcome(d, call'[d]) = Outcome(d, call[d])
  OBVIOUS
<1>2. \A d \in Call \ {c} : HasEntity(d)' <=> HasEntity(d)
  BY DEF HasEntity
<1>3. AnswerOf' = [AnswerOf EXCEPT ![c] = Outcome(c, call'[c])]
  BY <1>1 DEF AnswerOf
<1>4. AboutOf' = [AboutOf EXCEPT ![c] = IF HasEntity(c)' THEN call'[c].entity.id ELSE NULL]
  BY <1>2 DEF AboutOf
<1> QED
  BY <1>3, <1>4

\* A call that is being served is owed its answer, and gets it with its row or
\* with its error.
LEMMA AnswerComes ==
  ASSUME TypeOK, TypeOK', NEW c \in Call, \A d \in Call \ {c} : call'[d] = call[d],
         call'[c].request = call[c].request, call[c].pc \in {"insert", "open"},
         NEW a, a = Outcome(c, call'[c]),
         NEW i, i = (IF HasEntity(c)' THEN call'[c].entity.id ELSE NULL)
  PROVE  Registry!Owed(c) /\ Registry!Answer(c, a, i)
<1>1. Outcome(c, call[c]) = "pending"
  BY OutcomeByPc
<1>2. Registry!Owed(c)
  BY <1>1 DEF Registry!Owed
<1>3. AnswerOf' = [AnswerOf EXCEPT ![c] = a] /\ AboutOf' = [AboutOf EXCEPT ![c] = i]
  BY OwnEntries
<1>4. Registry!Answer(c, a, i)
  BY <1>3, OwnEntries DEF Registry!Answer, AnswerOf, AboutOf, HasEntity
<1> QED
  BY <1>2, <1>4

\* A step that changes no outcome is none of the registry's.
LEMMA SameOutcome ==
  ASSUME NEW c \in Call, \A d \in Call \ {c} : call'[d] = call[d],
         call'[c].request = call[c].request, jobs' = jobs,
         Outcome(c, call'[c]) = Outcome(c, call[c]), HasEntity(c)' <=> HasEntity(c),
         HasEntity(c) => call'[c].entity = call[c].entity
  PROVE  UNCHANGED Registry!vars
<1>1. \A d \in Call : Outcome(d, call'[d]) = Outcome(d, call[d])
  OBVIOUS
<1>2. ASSUME NEW d \in Call
      PROVE  (HasEntity(d)' <=> HasEntity(d)) /\ (HasEntity(d) => call'[d].entity = call[d].entity)
  BY DEF HasEntity
<1>3. AnswerOf' = AnswerOf
  BY <1>1 DEF AnswerOf
<1>4. AboutOf' = AboutOf
  <2>1. ASSUME NEW d \in Call
        PROVE  (IF HasEntity(d)' THEN call'[d].entity.id ELSE NULL)
                 = IF HasEntity(d) THEN call[d].entity.id ELSE NULL
    <3>1. CASE HasEntity(d)
      BY <1>2, <3>1
    <3>2. CASE ~HasEntity(d)
      BY <1>2, <3>2
    <3> QED
      BY <3>1, <3>2
  <2> QED
    BY <2>1 DEF AboutOf
<1> QED
  BY <1>3, <1>4, OwnEntries DEF Registry!vars, AnswerOf, AboutOf

\* An insert that finds the row of its key is told of it.
LEMMA InsertRefines ==
  ASSUME IInv, IInv', NEW c \in Call, Insert(c)
  PROVE  (\E i \in Call : Registry!Attach(c, i)) \/ UNCHANGED Registry!vars
<1> USE DEF IInv
<1>1. call[c].pc = "insert" /\ jobs' = jobs
  BY DEF Insert
<1>2. CASE Move(c, "open")
  <2>1. /\ call'[c].pc = "open" /\ call'[c].request = call[c].request
        /\ \A d \in Call \ {c} : call'[d] = call[d]
    BY <1>2 DEF Move, TypeOK
  <2>2. Outcome(c, call'[c]) = "pending" /\ Outcome(c, call[c]) = "pending"
    BY <1>1, <2>1, OutcomeByPc
  <2> QED
    BY <1>1, <2>1, <2>2, SameOutcome DEF HasEntity
<1>3. CASE \E i \in Recorded(call[c].request) :
             call' = [call EXCEPT ![c].pc = "returned", ![c].entity = [id |-> i, row |-> jobs[i]]]
  <2>1. PICK i \in Recorded(call[c].request) :
          call' = [call EXCEPT ![c].pc = "returned", ![c].entity = [id |-> i, row |-> jobs[i]]]
    BY <1>3
  <2>2. /\ call'[c].pc = "returned" /\ call'[c].entity = [id |-> i, row |-> jobs[i]]
        /\ call'[c].request = call[c].request
        /\ \A d \in Call \ {c} : call'[d] = call[d]
    BY <2>1 DEF TypeOK
  <2>3. i \in Call /\ i # c /\ jobs[i] \in Row
    BY <1>1 DEF Recorded, RowsAreOwn, Written, TypeOK
  <2>4. [sha256 |-> payloadOr(call[c].request.payload)] = Registry!Digest(call[c].request)
    BY DEF Registry!Digest, payloadOr
  <2> DEFINE same == jobs[i].request_fingerprint = Registry!Digest(call[c].request)
             a == IF same THEN "found" ELSE "conflict"
             k == call'[c]
  <2>5. Outcome(c, call'[c]) = a
    <3>1. /\ k.pc = "returned" /\ k.entity.id # c
          /\ same <=> k.entity.row.request_fingerprint = [sha256 |-> payloadOr(k.request.payload)]
      BY <2>2, <2>3, <2>4
    <3> HIDE DEF k
    <3>2. Outcome(c, k) = a
      BY <3>1, OutcomeByRow
    <3> QED
      BY <3>2 DEF k
  <2>6. Registry!Owed(c) /\ Registry!Answer(c, a, i)
    <3>1. a = Outcome(c, call'[c])
      BY <2>5
    <3> HIDE DEF a
    <3> QED
      BY <1>1, <2>2, <3>1, AnswerComes DEF HasEntity
  <2>7. i \in Registry!Under(call[c].request)
    BY UnderIsRecorded
  <2>8. Registry!Attach(c, i)
    BY <1>1, <2>6, <2>7 DEF Registry!Attach
  <2> QED
    BY <2>3, <2>8
<1> QED
  BY <1>2, <1>3 DEF Insert

\* A commit makes the job of its key, whether or not its caller hears of it.
LEMMA CommitRefines ==
  ASSUME IInv, IInv', NEW c \in Call, Commit(c) \/ CommitUnseen(c)
  PROVE  Registry!Register(c)
<1> USE DEF IInv
<1>1. /\ call[c].pc = "open" /\ jobs' = [jobs EXCEPT ![c] = NewRow(call[c].request)]
      /\ call'[c].request = call[c].request
      /\ \A d \in Call \ {c} : call'[d] = call[d]
  BY DEF Commit, CommitUnseen, Move, TypeOK
<1>2. NewRow(call[c].request) = Registry!JobFor(call[c].request)
  BY <1>1, RowIsAsAsked DEF RequestsStand
<1>3. Registry!Under(call[c].request) = {}
  BY <1>1, UnderIsRecorded, OpenKeyIsFree
<1>4. CASE Commit(c)
  <2>1. call'[c].pc = "returned" /\ call'[c].entity.id = c
    BY <1>4 DEF Commit, TypeOK
  <2>2. Outcome(c, call'[c]) = "created"
    BY <2>1, OutcomeByRow
  <2>3. Registry!Owed(c) /\ Registry!Answer(c, "created", c)
    BY <1>1, <2>1, <2>2, AnswerComes DEF HasEntity
  <2> QED
    BY <1>1, <1>2, <1>3, <2>3 DEF Registry!Register
<1>5. CASE CommitUnseen(c)
  <2>1. call'[c].pc = "Internal"
    BY <1>5 DEF CommitUnseen, Move, TypeOK
  <2>2. Outcome(c, call'[c]) = "unknown"
    BY <2>1, OutcomeByPc
  <2>3. Registry!Owed(c) /\ Registry!Answer(c, "unknown", NULL)
    BY <1>1, <2>1, <2>2, AnswerComes DEF HasEntity
  <2> QED
    BY <1>1, <1>2, <1>3, <2>3 DEF Registry!Register
<1> QED
  BY <1>4, <1>5

\* What core answers is what the row had settled.
LEMMA ExecRefines ==
  ASSUME IInv, IInv', [Next]_vars, NEW c \in Call, Exec(c)
  PROVE  UNCHANGED Registry!vars
<1> USE DEF IInv
<1>1. /\ call[c].pc = "returned" /\ jobs' = jobs
      /\ \A d \in Call \ {c} : call'[d] = call[d]
  BY DEF Exec, TypeOK
<1>2. Given(c) /\ Told(c)
  BY <1>1 DEF AnswersStand, HasEntity
<1>3. /\ HasEntity(c)' /\ HasEntity(c) /\ Told(c)'
      /\ call'[c].entity = call[c].entity /\ call'[c].request = call[c].request
  BY <1>1, <1>2, ToldStep DEF HasEntity
<1> DEFINE own == call[c].entity.id = c
           print == call[c].entity.row.request_fingerprint
           same == print = fingerprintOf(call[c].request.payload)
<1>4. same <=> print = [sha256 |-> payloadOr(call[c].request.payload)]
  BY DEF fingerprintOf
<1>5. own => same
  BY <1>1, <1>2, <1>3, RowOfRequest DEF Given, RequestsStand
<1> DEFINE k == call[c]
           l == call'[c]
<1>6. Outcome(c, call[c]) = IF own THEN "created" ELSE IF same THEN "found" ELSE "conflict"
  <2>1. /\ k.pc = "returned" /\ same \in BOOLEAN
        /\ k.entity.id = c <=> own
        /\ same <=> k.entity.row.request_fingerprint = [sha256 |-> payloadOr(k.request.payload)]
    BY <1>1, <1>4
  <2> HIDE DEF k, own, same
  <2>2. Outcome(c, k) = IF own THEN "created" ELSE IF same THEN "found" ELSE "conflict"
    BY <2>1, OutcomeByRow
  <2> QED
    BY <2>2 DEF k
<1>7. /\ l.pc = IF ~own /\ ~same THEN "AlreadyExists" ELSE "OK"
      /\ l.created = own
  BY DEF Exec, TypeOK
<1>8. Outcome(c, call'[c]) = IF own THEN "created" ELSE IF same THEN "found" ELSE "conflict"
  <2>1. own \in BOOLEAN /\ same \in BOOLEAN
    OBVIOUS
  <2> HIDE DEF l, own, same
  <2>2. CASE ~own /\ ~same
    BY <1>7, <2>2, OutcomeByPc DEF l
  <2>3. CASE own
    BY <1>7, <2>1, <2>3, OutcomeOfOK DEF l
  <2>4. CASE ~own /\ same
    BY <1>7, <2>1, <2>4, OutcomeOfOK DEF l
  <2> QED
    BY <2>2, <2>3, <2>4
<1> QED
  BY <1>1, <1>3, <1>6, <1>8, SameOutcome

\* Every interleaving of enqueues is one of a registry that takes each of them in
\* a single step.  (The statement of dao.JobEnqueue, its key held until it
\* commits, and created := entity.ID == id.)
THEOREM EnqueueImplementsRegistry == Spec => ImplementsRegistry
<1>1. Init => Registry!Init
  <2> SUFFICES ASSUME Init PROVE Registry!Init
    OBVIOUS
  <2>1. \A c \in Call : /\ call[c].pc = "idle" /\ call[c].request = NULL
                        /\ call[c].created \in BOOLEAN
    BY DEF Init
  <2>2. \A c \in Call : Outcome(c, call[c]) = "none" /\ ~HasEntity(c)
    BY <2>1, OutcomeByPc DEF HasEntity
  <2> QED
    BY <2>1, <2>2 DEF Init, Registry!Init
<1>2. IInv /\ IInv' /\ [Next]_vars => [Registry!Next]_(Registry!vars)
  <2> SUFFICES ASSUME IInv, IInv', [Next]_vars PROVE Registry!Next \/ UNCHANGED Registry!vars
    OBVIOUS
  <2> USE DEF IInv
  <2>1. ASSUME NEW c \in Call, NEW r \in Requests, JobEnqueue(c, r) PROVE Registry!Ask(c, r)
    <3>1. /\ call[c].pc = "idle" /\ ~HasEntity(c) /\ jobs' = jobs
          /\ call'[c].pc = (IF Registry!Valid(r) THEN "insert" ELSE "InvalidArgument")
          /\ call'[c].request = r
          /\ \A d \in Call \ {c} : call'[d] = call[d]
      BY <2>1, ValidIsAccepted DEF JobEnqueue, TypeOK, HasEntity
    <3>2. Outcome(c, call[c]) = "none"
      BY <3>1, OutcomeByPc
    <3>3. Outcome(c, call'[c]) = IF Registry!Valid(r) THEN "pending" ELSE "refused"
      <4>1. CASE Registry!Valid(r)
        BY <3>1, <4>1, OutcomeByPc
      <4>2. CASE ~Registry!Valid(r)
        BY <3>1, <4>2, OutcomeByPc
      <4> QED
        BY <4>1, <4>2
    <3>4. AnswerOf' = [AnswerOf EXCEPT ![c] = IF Registry!Valid(r) THEN "pending" ELSE "refused"]
      BY <3>1, <3>3 DEF AnswerOf
    <3>5. AboutOf' = AboutOf
      BY <3>1 DEF AboutOf, HasEntity
    <3>6. [d \in Call |-> call'[d].request] = [[d \in Call |-> call[d].request] EXCEPT ![c] = r]
      BY <3>1
    <3> QED
      BY <3>1, <3>2, <3>4, <3>5, <3>6 DEF Registry!Ask, AnswerOf, AboutOf
  <2>2. ASSUME NEW c \in Call, Fail(c) PROVE Registry!GiveUp(c)
    <3>1. /\ call[c].pc \in {"insert", "open"} /\ call'[c].pc = "Internal" /\ jobs' = jobs
          /\ call'[c].request = call[c].request
          /\ \A d \in Call \ {c} : call'[d] = call[d]
      BY <2>2 DEF Fail, Move, TypeOK
    <3>2. Outcome(c, call'[c]) = "unknown"
      BY <3>1, OutcomeByPc
    <3>3. Registry!Owed(c) /\ Registry!Answer(c, "unknown", NULL)
      BY <3>1, <3>2, AnswerComes DEF HasEntity
    <3> QED
      BY <3>1, <3>3 DEF Registry!GiveUp
  <2>3. ASSUME NEW c \in Call, Purge(c) PROVE Registry!Delete(c)
    BY <2>3 DEF Purge, Registry!Delete, HasEntity
  <2>4. CASE UNCHANGED vars
    BY <2>4 DEF vars, Registry!vars, HasEntity
  <2> QED
    BY <2>1, <2>2, <2>3, <2>4, InsertRefines, CommitRefines, ExecRefines DEF Next, Registry!Next
<1> QED
  BY <1>1, <1>2, IInvariant, PTL DEF Spec, ImplementsRegistry, Registry!Spec
=============================================================================
