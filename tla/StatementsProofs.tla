-------------------------- MODULE StatementsProofs --------------------------
(***************************************************************************)
(* Theorems about Statements: whichever way the statements of a claim, a   *)
(* sweep, a settle and a retry interleave, on any number of jobs, calls    *)
(* and connections, no job has two runs at once and no run two outcomes.   *)
(***************************************************************************)
EXTENDS Statements, FiniteSetTheorems, TLAPS

-----------------------------------------------------------------------------
(* The inductive invariant *)

\* A row lock belongs to a statement that is locking its rows, and has this one.
LocksAreHeld ==
  \A j \in Job : lock[j] # NULL =>
    call[lock[j]].pc = "lock" /\ j \in call[lock[j]].batch

\* A row in the batch of a statement is locked by it, and while it is, nobody
\* makes its predicate false.
BatchesAreLocked ==
  \A c \in Call : call[c].pc = "lock" =>
    \A j \in call[c].batch : lock[j] = c /\ Matches(c, j)

\* What a call has while it is served: nothing before it is sent, no row before
\* it locks one, no answer before it ends.
CallsStand ==
  \A c \in Call :
    /\ call[c].pc = "idle" => call[c] = Idle
    /\ call[c].pc # "idle" => call[c].op # NULL
    /\ call[c].pc \in {"conn", "read", "scan"} => call[c].batch = {}
    /\ call[c].pc \in {"read", "scan"} => call[c].op = "retry"
    /\ call[c].pc # "done" => call[c].answer = NULL

\* What a settle and a retry have: a run of which a claim was answered, one row
\* to write, and what to write into it once that is decided.
SettlesStand ==
  \A c \in Call : Settling(c) =>
    /\ call[c].worker \in Call /\ call[c].job \in Job /\ call[c].limit = NULL
    /\ call[call[c].worker].pc = "done"
    /\ call[c].pc = "lock" => call[c].todo \cup call[c].batch = {call[c].job}
    /\ call[c].op = "settle" /\ call[c].pc \in {"conn", "lock"} =>
         call[c].write \in {"succeeded", "failed"}
    /\ call[c].op = "retry" /\ call[c].pc \in {"scan", "lock"} =>
         call[c].write \in {"pending", "failed"}

\* The rows: a run is that of a claim that has ended, and a job has never begun
\* more runs than it may.
RowsStand ==
  \A j \in Job :
    /\ table[j].attempt <= table[j].max_attempts
    /\ table[j].status = "pending" => table[j].attempt < table[j].max_attempts
    /\ table[j].status = "claimed" =>
         /\ table[j].claimed_by \in Call
         /\ call[table[j].claimed_by].pc = "done"

\* What retry decided on its first statement's row is still right when its second
\* finds the run held: nobody else moved the job in between.
RetriesStand ==
  \A c \in Call :
    /\ call[c].op = "retry" /\ call[c].pc \in {"scan", "lock"} /\ call[c].write = "pending"
    /\ Holds(call[c].worker, call[c].job)
    => table[call[c].job].attempt < table[call[c].job].max_attempts

IInv ==
  /\ TypeOK
  /\ LocksAreHeld /\ BatchesAreLocked
  /\ CallsStand /\ SettlesStand /\ RowsStand /\ RetriesStand
  /\ AnsweredRunIsOver /\ OneOkPerRun

-----------------------------------------------------------------------------
(* The forms of a step *)

\* A call is sent.
Arrives(c) ==
  \E request \in CallState :
    /\ call[c] = Idle
    /\ call' = [call EXCEPT ![c] = request]
    /\ request.pc = "conn" /\ request.op # NULL
    /\ request.batch = {} /\ request.answer = NULL
    /\ request.op \in {"settle", "retry"} =>
         /\ request.worker \in Call /\ request.job \in Job /\ request.limit = NULL
         /\ call[request.worker].pc = "done"
    /\ request.op = "settle" => request.write \in {"succeeded", "failed"}
    /\ UNCHANGED <<table, lock, pool>>

\* A call ends without having written anything.
Refused(c) ==
  /\ call[c].pc \in {"conn"} \cup Held
  /\ \E answer \in {"Internal", "FailedPrecondition"} :
       /\ End(c, answer)
       /\ answer = "FailedPrecondition" =>
            Settling(c) /\ ~Holds(call[c].worker, call[c].job)
  /\ UNCHANGED <<table, pool>>

\* The transaction of a retry has its connection.
Begins(c) ==
  /\ call[c].pc = "conn" /\ call[c].op = "retry"
  /\ call' = [call EXCEPT ![c].pc = "read"]
  /\ UNCHANGED <<table, lock, pool>>

\* A retry has found its run and knows what to write.
Decides(c) ==
  /\ call[c].pc = "read"
  /\ call' = [call EXCEPT ![c].pc = "scan", ![c].write =
       IF table[call[c].job].attempt < table[call[c].job].max_attempts
       THEN "pending" ELSE "failed"]
  /\ UNCHANGED <<table, lock, pool>>

\* A statement has its snapshot.
Starts(c) ==
  LET found == {j \in Job : Matches(c, j)} IN
  /\ call[c].pc \in {"conn", "scan"} /\ (call[c].pc = "conn" => call[c].op # "retry")
  /\ found # {} \/ ~Settling(c)
  /\ call' = [call EXCEPT ![c].pc = "lock", ![c].todo = found]
  /\ UNCHANGED <<table, lock, pool>>

\* A statement locks a row that satisfies its predicate.
Takes(c, j) ==
  /\ call[c].pc = "lock" /\ j \in call[c].todo
  /\ lock[j] = NULL /\ Matches(c, j)
  /\ Take(c, j)
  /\ UNCHANGED <<table, pool>>

\* A claim or a sweep passes over a row.
Skips(c, j) ==
  /\ call[c].pc = "lock" /\ ~Settling(c) /\ j \in call[c].todo
  /\ Skip(c, j)
  /\ UNCHANGED <<table, pool>>

\* What is not there is no call and no name.
LEMMA NullIsNoName ==
  NULL \notin Call /\ NULL \notin Ops /\ NULL \notin Writes /\ NULL \notin Answers
BY ConstantsAssumption, NullAssumption DEF Call

\* A request on its way to the pool is that of a call that was not sent before.
LEMMA ArrivesForm ==
  ASSUME TypeOK, CallsStand, Sent PROVE \E c \in Call : Arrives(c)
<1> USE NullIsNoName DEF TypeOK, Ops, Writes
<1>1. ASSUME NEW c \in Call, NEW limit \in Limits, JobClaim(c, limit) PROVE Arrives(c)
  <2> DEFINE r == [Idle EXCEPT !.pc = "conn", !.op = "claim", !.limit = limit]
  <2>1. r \in CallState
    BY DEF Idle, CallState, Ops, Writes
  <2>2. /\ r.pc = "conn" /\ r.op = "claim" /\ r.batch = {} /\ r.answer = NULL
    BY DEF Idle
  <2> QED
    BY <1>1, <2>1, <2>2 DEF JobClaim, Arrive, Arrives
<1>2. ASSUME NEW c \in Call, JobReap(c) PROVE Arrives(c)
  <2> DEFINE r == [Idle EXCEPT !.pc = "conn", !.op = "reap"]
  <2>1. r \in CallState
    BY DEF Idle, CallState, Ops, Writes
  <2>2. /\ r.pc = "conn" /\ r.op = "reap" /\ r.batch = {} /\ r.answer = NULL
    BY DEF Idle
  <2> QED
    BY <1>2, <2>1, <2>2 DEF JobReap, Arrive, Arrives
<1>3. ASSUME NEW c \in Call, NEW worker \in Call, NEW j \in Job, NEW outcome \in Outcomes,
             JobSettle(c, worker, j, outcome)
      PROVE  Arrives(c)
  <2> DEFINE r == [Idle EXCEPT !.pc = "conn", !.op = DecodedOp(outcome), !.worker = worker,
                               !.job = j, !.write = DecodedWrite(outcome)]
  <2>1. /\ DecodedOp(outcome) \in {"settle", "retry"}
        /\ DecodedWrite(outcome) \in {NULL, "succeeded", "failed"}
        /\ DecodedOp(outcome) = "settle" => DecodedWrite(outcome) \in {"succeeded", "failed"}
    BY DEF Outcomes, DecodedOp, DecodedWrite
  <2>2. r \in CallState
    BY <2>1 DEF Idle, CallState
  <2>3. /\ r.pc = "conn" /\ r.op = DecodedOp(outcome) /\ r.batch = {} /\ r.answer = NULL
        /\ r.worker = worker /\ r.job = j /\ r.write = DecodedWrite(outcome)
        /\ r.limit = NULL
    BY DEF Idle
  <2>4. call[worker].pc = "done"
    BY <1>3 DEF JobSettle, CallsStand, Answers
  <2>5. call[c] = Idle /\ call' = [call EXCEPT ![c] = r] /\ UNCHANGED <<table, lock, pool>>
    BY <1>3 DEF JobSettle, Arrive
  <2> HIDE DEF r
  <2> QED
    BY <2>1, <2>2, <2>3, <2>4, <2>5 DEF Arrives
<1> QED
  BY <1>1, <1>2, <1>3 DEF Sent

\* A scan starts a statement, or ends a settle whose run is over.
LEMMA ScanForm ==
  ASSUME TypeOK, CallsStand, SettlesStand, NEW c \in Call, Scan(c), UNCHANGED <<table, pool>>,
         call[c].pc \in {"conn", "scan"}, call[c].pc = "conn" => call[c].op # "retry"
  PROVE  Starts(c) \/ Refused(c)
<1> DEFINE found == {j \in Job : Matches(c, j)}
<1>1. CASE found = {} /\ Settling(c) /\ NoRow(c)
  <2>1. ~Holds(call[c].worker, call[c].job)
    BY <1>1 DEF Matches, SettlesStand, Settling
  <2> QED
    BY <1>1, <2>1 DEF NoRow, Refused, Held
<1>2. CASE found # {} \/ ~Settling(c)
  BY <1>1, <1>2 DEF Scan, Starts
<1> QED
  BY <1>1, <1>2 DEF Scan

\* Every step is of one of these forms.
LEMMA StepForms ==
  ASSUME TypeOK, CallsStand, SettlesStand, [Next]_vars
  PROVE  \/ UNCHANGED vars
         \/ \E j \in Job : Lapse(j)
         \/ \E c \in Call : \/ Arrives(c) \/ Refused(c) \/ Begins(c) \/ Decides(c) \/ Starts(c)
                            \/ \E j \in Job : Takes(c, j) \/ Skips(c, j)
                            \/ \E heard \in BOOLEAN : Commit(c, heard)
<1> USE DEF TypeOK
<1>1. ASSUME NEW c \in Call, Acquire(c)
      PROVE  Starts(c) \/ Refused(c) \/ Begins(c)
  BY <1>1, ScanForm DEF Acquire, Begins
<1>2. ASSUME NEW c \in Call, RetryRead(c) PROVE Decides(c) \/ Refused(c)
  <2>1. Settling(c)
    BY <1>2 DEF RetryRead, CallsStand, Settling
  <2> QED
    BY <1>2, <2>1 DEF RetryRead, Decides, Refused, Held
<1>3. ASSUME NEW c \in Call, RetryWrite(c) PROVE Starts(c) \/ Refused(c)
  BY <1>3, ScanForm DEF RetryWrite
<1>4. ASSUME NEW c \in Call, Update(c) PROVE Refused(c) \/ \E j \in Job : Takes(c, j)
  <2>1. PICK j \in call[c].todo : /\ lock[j] = NULL
                                  /\ IF Matches(c, j) THEN Take(c, j) ELSE NoRow(c)
    BY <1>4 DEF Update
  <2>2. call[c].pc = "lock" /\ Settling(c) /\ UNCHANGED <<table, pool>>
    BY <1>4 DEF Update
  <2>3. j = call[c].job /\ j \in Job
    BY <2>1, <2>2 DEF SettlesStand
  <2>4. CASE Matches(c, j)
    BY <2>1, <2>2, <2>3, <2>4 DEF Takes
  <2>5. CASE ~Matches(c, j)
    BY <2>1, <2>2, <2>3, <2>5 DEF NoRow, Refused, Matches, Held, Settling
  <2> QED
    BY <2>4, <2>5
<1>5. ASSUME NEW c \in Call, NEW j \in Job, Visit(c, j) PROVE Takes(c, j) \/ Skips(c, j)
  BY <1>5 DEF Visit, Takes, Skips
<1>6. ASSUME NEW c \in Call, Fail(c) PROVE Refused(c)
  BY <1>6 DEF Fail, Refused
<1> QED
  BY <1>1, <1>2, <1>3, <1>4, <1>5, <1>6, ArrivesForm DEF Next, Serve

-----------------------------------------------------------------------------
(* One step *)

\* One field of a call changes within its type.
LEMMA ChangedCall ==
  ASSUME NEW k \in CallState
  PROVE  /\ \A pc \in Held : [k EXCEPT !.pc = pc] \in CallState
         /\ \A write \in Writes : [k EXCEPT !.write = write] \in CallState
         /\ \A todo \in SUBSET Job : [k EXCEPT !.todo = todo] \in CallState
         /\ \A batch \in SUBSET Job : [k EXCEPT !.batch = batch] \in CallState
<1>1. ASSUME NEW pc \in Held PROVE [k EXCEPT !.pc = pc] \in CallState
  BY DEF CallState
<1>2. ASSUME NEW write \in Writes PROVE [k EXCEPT !.write = write] \in CallState
  BY DEF CallState
<1>3. ASSUME NEW todo \in SUBSET Job PROVE [k EXCEPT !.todo = todo] \in CallState
  BY DEF CallState
<1>4. ASSUME NEW batch \in SUBSET Job PROVE [k EXCEPT !.batch = batch] \in CallState
  BY DEF CallState
<1> QED
  BY <1>1, <1>2, <1>3, <1>4

\* The fields of an ended call are within their types.
LEMMA EndedCall ==
  ASSUME NEW k \in CallState, NEW answer \in Answers, NEW batch \in SUBSET Job
  PROVE  [k EXCEPT !.pc = "done", !.answer = answer, !.limit = NULL, !.write = NULL,
                   !.todo = {}, !.batch = batch] \in CallState
BY DEF CallState

\* What the end of a call leaves of it.
LEMMA EndEffect ==
  ASSUME TypeOK, NEW c \in Call, NEW answer \in Answers, End(c, answer)
  PROVE  /\ call' \in [Call -> CallState]
         /\ lock' \in [Job -> Call \cup {NULL}]
         /\ \A d \in Call \ {c} : call'[d] = call[d]
         /\ call'[c].pc = "done" /\ call'[c].answer = answer /\ call'[c].limit = NULL
         /\ call'[c].op = call[c].op
         /\ call'[c].worker = call[c].worker /\ call'[c].job = call[c].job
         /\ \A j \in Job : lock'[j] = IF lock[j] = c THEN NULL ELSE lock[j]
<1> DEFINE batch == Kept(c, answer)
           k == [call[c] EXCEPT !.pc = "done", !.answer = answer, !.limit = NULL,
                                !.write = NULL, !.todo = {}, !.batch = batch]
<1>1. call[c] \in CallState /\ batch \in SUBSET Job
  BY DEF TypeOK, CallState, Kept
<1>2. k \in CallState
  BY <1>1, EndedCall
<1>3. call' = [call EXCEPT ![c] = k]
  BY DEF End
<1>4. /\ k.pc = "done" /\ k.answer = answer /\ k.limit = NULL
      /\ k.op = call[c].op /\ k.worker = call[c].worker /\ k.job = call[c].job
  BY <1>1 DEF CallState
<1>5. lock' = [j \in Job |-> IF lock[j] = c THEN NULL ELSE lock[j]]
  BY DEF End, Unlocked
<1> HIDE DEF k
<1> QED
  BY <1>2, <1>3, <1>4, <1>5 DEF TypeOK

\* A row that is given back, or that ends.
Freed(row, status) ==
  [[row EXCEPT !.claimed_by = NULL, !.lapsed = FALSE] EXCEPT !.status = status]

\* It keeps its count.
LEMMA FreedRow ==
  ASSUME NEW row \in Row, NEW status \in {"pending"} \cup Settled
  PROVE  /\ Freed(row, status) \in Row /\ Freed(row, status).status = status
         /\ Freed(row, status).attempt = row.attempt
         /\ Freed(row, status).max_attempts = row.max_attempts
<1>1. [row EXCEPT !.claimed_by = NULL, !.lapsed = FALSE] \in Row
  BY DEF Row
<1> QED
  BY <1>1 DEF Freed, Row

\* What a statement writes into a row it has locked: a claim begins a run, a
\* sweep ends one that has lapsed, a settle the one it is about.
LEMMA WrittenRow ==
  ASSUME TypeOK, BatchesAreLocked, CallsStand, SettlesStand,
         NEW c \in Call, call[c].pc = "lock", NEW j \in call[c].batch
  PROVE  LET w == Written(c, j) IN
         /\ j \in Job /\ Matches(c, j) /\ lock[j] = c
         /\ w \in Row /\ w.max_attempts = table[j].max_attempts
         /\ \/ /\ call[c].op = "claim"
               /\ table[j].status = "pending" /\ w.status = "claimed"
               /\ w.attempt = table[j].attempt + 1 /\ w.claimed_by = c
            \/ /\ call[c].op = "reap"
               /\ table[j].status = "claimed" /\ table[j].lapsed
               /\ w.status = IF table[j].attempt < table[j].max_attempts
                             THEN "pending" ELSE "abandoned"
               /\ w.attempt = table[j].attempt
            \/ /\ Settling(c) /\ j = call[c].job
               /\ table[j].status = "claimed" /\ table[j].claimed_by = call[c].worker
               /\ w.status = call[c].write
               /\ call[c].write \in {"pending", "succeeded", "failed"}
               /\ w.attempt = table[j].attempt
<1> DEFINE w == Written(c, j)
           row == table[j]
<1>1. j \in Job /\ Matches(c, j) /\ lock[j] = c
  BY DEF BatchesAreLocked, CallState, TypeOK
<1>2. row \in Row /\ call[c].op \in Ops
  BY <1>1 DEF CallsStand, CallState, TypeOK
<1>3. CASE call[c].op = "claim"
  <2>1. table[j].status = "pending"
    BY <1>1, <1>3 DEF Matches, Claimable
  <2> DEFINE n == row.attempt + 1
  <2>2. w = [row EXCEPT !.status = "claimed", !.attempt = n, !.claimed_by = c]
    BY <1>3 DEF Written
  <2>3. row \in Row /\ n \in Nat
    BY <1>2 DEF Row
  <2>4. /\ w \in Row /\ w.max_attempts = row.max_attempts
        /\ w.status = "claimed" /\ w.attempt = n /\ w.claimed_by = c
    <3> HIDE DEF w, row, n
    <3> QED
      BY <2>2, <2>3 DEF Row
  <2> QED
    BY <1>1, <1>3, <2>1, <2>4
<1>4. CASE call[c].op = "reap"
  <2> DEFINE status == IF table[j].attempt < table[j].max_attempts
                       THEN "pending" ELSE "abandoned"
  <2>1. table[j].status = "claimed" /\ table[j].lapsed
    BY <1>1, <1>4 DEF Matches, Reapable
  <2>2. w = Freed(row, status)
    BY <1>4 DEF Written, Freed
  <2>3. status \in {"pending"} \cup Settled
    BY DEF Settled
  <2>4. /\ w \in Row /\ w.status = status
        /\ w.attempt = row.attempt /\ w.max_attempts = row.max_attempts
    <3>1. row \in Row
      BY <1>2
    <3> HIDE DEF w, row, status
    <3> QED
      BY <2>2, <2>3, <3>1, FreedRow
  <2> QED
    BY <1>1, <1>4, <2>1, <2>4
<1>5. CASE Settling(c)
  <2>1. call[c].write \in {"pending", "succeeded", "failed"}
    BY <1>5 DEF SettlesStand, Settling
  <2>2. /\ table[j].status = "claimed" /\ j = call[c].job
        /\ table[j].claimed_by = call[c].worker
    BY <1>1, <1>5 DEF Matches, Settling, Holds
  <2>3. w = Freed(row, call[c].write)
    BY <1>5 DEF Written, Settling, Freed
  <2>4. /\ w \in Row /\ w.status = call[c].write
        /\ w.attempt = row.attempt /\ w.max_attempts = row.max_attempts
    <3>1. row \in Row
      BY <1>2
    <3> HIDE DEF w, row
    <3> QED
      BY <2>1, <2>3, <3>1, FreedRow DEF Settled
  <2> HIDE DEF w, row
  <2>5. /\ Settling(c) /\ j = call[c].job
        /\ table[j].status = "claimed" /\ table[j].claimed_by = call[c].worker
        /\ w.status = call[c].write
        /\ call[c].write \in {"pending", "succeeded", "failed"}
    BY <1>5, <2>1, <2>2, <2>4
  <2> USE DEF w, row
  <2> QED
    BY <1>1, <2>4, <2>5
<1> QED
  BY <1>2, <1>3, <1>4, <1>5 DEF Settling, Ops

\* A call that has ended is left as it is.
LEMMA DoneStays ==
  ASSUME TypeOK, CallsStand, SettlesStand, [Next]_vars, NEW d \in Call, call[d].pc = "done"
  PROVE  call'[d] = call[d]
<1> USE DEF TypeOK
<1>1. ASSUME NEW c \in Call, Arrives(c) PROVE call'[d] = call[d]
  BY <1>1 DEF Arrives, Idle
<1>2. ASSUME NEW c \in Call, Refused(c) PROVE call'[d] = call[d]
  <2>1. c # d
    BY <1>2 DEF Refused, Held
  <2> QED
    BY <1>2, <2>1, EndEffect DEF Refused, Answers
<1>3. ASSUME NEW c \in Call,
             \/ Begins(c) \/ Decides(c) \/ Starts(c)
             \/ \E j \in Job : Takes(c, j) \/ Skips(c, j)
      PROVE  call'[d] = call[d]
  BY <1>3 DEF Begins, Decides, Starts, Takes, Take, Skips, Skip
<1>4. ASSUME NEW c \in Call, NEW heard \in BOOLEAN, Commit(c, heard) PROVE call'[d] = call[d]
  <2>1. c # d
    BY <1>4 DEF Commit
  <2> QED
    BY <1>4, <2>1, EndEffect DEF Commit, Answers
<1> QED
  BY <1>1, <1>2, <1>3, <1>4, StepForms DEF Lapse, vars

\* A call that is sent is about what it was sent for.
LEMMA SentStays ==
  ASSUME TypeOK, CallsStand, SettlesStand, [Next]_vars, NEW d \in Call, call[d].pc # "idle"
  PROVE  /\ call'[d].pc # "idle" /\ call'[d].op = call[d].op
         /\ call'[d].worker = call[d].worker /\ call'[d].job = call[d].job
<1> USE DEF TypeOK
<1> DEFINE Stays == /\ call'[d].pc # "idle" /\ call'[d].op = call[d].op
                    /\ call'[d].worker = call[d].worker /\ call'[d].job = call[d].job
<1>1. ASSUME NEW c \in Call, Arrives(c) PROVE Stays
  BY <1>1 DEF Arrives, Idle
<1>2. ASSUME NEW c \in Call, Refused(c) PROVE Stays
  BY <1>2, EndEffect DEF Refused, Answers
<1>3. ASSUME NEW c \in Call, Begins(c) \/ Decides(c) \/ Starts(c) PROVE Stays
  BY <1>3 DEF Begins, Decides, Starts, CallState
<1>4. ASSUME NEW c \in Call, NEW j \in Job, Takes(c, j) \/ Skips(c, j) PROVE Stays
  BY <1>4 DEF Takes, Take, Skips, Skip, CallState
<1>5. ASSUME NEW c \in Call, NEW heard \in BOOLEAN, Commit(c, heard) PROVE Stays
  BY <1>5, EndEffect DEF Commit, Answers
<1> QED
  BY <1>1, <1>2, <1>3, <1>4, <1>5, StepForms DEF Lapse, vars

\* A row changes when its lease lapses, or when the statement that has it locked
\* commits.
LEMMA RowStep ==
  ASSUME TypeOK, CallsStand, SettlesStand, BatchesAreLocked, [Next]_vars, NEW j \in Job
  PROVE  \/ table'[j] = table[j]
         \/ /\ table[j].status = "claimed" /\ ~table[j].lapsed
            /\ table'[j] = [table[j] EXCEPT !.lapsed = TRUE]
         \/ \E c \in Call : /\ call[c].pc = "lock" /\ j \in call[c].batch
                            /\ table'[j] = Written(c, j)
                            /\ call'[c].pc = "done"
<1> USE DEF TypeOK
<1>1. CASE UNCHANGED table
  BY <1>1
<1>2. ASSUME NEW i \in Job, Lapse(i)
      PROVE  \/ table'[j] = table[j]
             \/ /\ table[j].status = "claimed" /\ ~table[j].lapsed
                /\ table'[j] = [table[j] EXCEPT !.lapsed = TRUE]
  BY <1>2 DEF Lapse
<1>3. ASSUME NEW c \in Call, NEW heard \in BOOLEAN, Commit(c, heard)
      PROVE  \/ table'[j] = table[j]
             \/ /\ call[c].pc = "lock" /\ j \in call[c].batch
                /\ table'[j] = Written(c, j) /\ call'[c].pc = "done"
  <2>1. call'[c].pc = "done"
    BY <1>3, EndEffect DEF Commit, Answers
  <2> QED
    BY <1>3, <2>1 DEF Commit
<1> QED
  BY <1>1, <1>2, <1>3, StepForms DEF Arrives, Refused, Begins, Decides, Starts, Takes, Skips, vars

\* Whoever's claim has ended does not come to hold a job it did not hold, and the
\* row it holds keeps its counts.
LEMMA HoldsStep ==
  ASSUME TypeOK, CallsStand, SettlesStand, BatchesAreLocked, [Next]_vars,
         NEW w \in Call, call[w].pc = "done", NEW j \in Job, Holds(w, j)'
  PROVE  /\ Holds(w, j)
         /\ table'[j].attempt = table[j].attempt
         /\ table'[j].max_attempts = table[j].max_attempts
<1> USE DEF TypeOK
<1>1. CASE table'[j] = table[j]
  BY <1>1 DEF Holds
<1>2. CASE /\ table[j].status = "claimed"
           /\ table'[j] = [table[j] EXCEPT !.lapsed = TRUE]
  BY <1>2 DEF Holds, Row
<1>3. ASSUME NEW c \in Call, call[c].pc = "lock", j \in call[c].batch,
             table'[j] = Written(c, j)
      PROVE  FALSE
  <2>1. Written(c, j).status = "claimed" /\ Written(c, j).claimed_by = w
    BY <1>3 DEF Holds
  <2>2. call[c].op = "claim" /\ Written(c, j).claimed_by = c
    BY <1>3, <2>1, WrittenRow
  <2> QED
    BY <1>3, <2>1, <2>2
<1> QED
  BY <1>1, <1>2, <1>3, RowStep

\* No step leaves the types.
LEMMA TypeStep ==
  ASSUME TypeOK, CallsStand, SettlesStand, BatchesAreLocked, [Next]_vars
  PROVE  TypeOK'
<1> USE DEF TypeOK
<1>1. ASSUME NEW c \in Call, Arrives(c) PROVE TypeOK'
  BY <1>1 DEF Arrives
<1>2. ASSUME NEW c \in Call, Refused(c) PROVE TypeOK'
  BY <1>2, EndEffect DEF Refused, Answers
<1>3. ASSUME NEW c \in Call, Begins(c) PROVE TypeOK'
  BY <1>3 DEF Begins, CallState, Held
<1>4. ASSUME NEW c \in Call, Decides(c) PROVE TypeOK'
  <2>1. PICK write \in Writes : call' = [call EXCEPT ![c].pc = "scan", ![c].write = write]
    BY <1>4 DEF Decides, Writes
  <2> DEFINE m == [call[c] EXCEPT !.pc = "scan"]
             k == [m EXCEPT !.write = write]
  <2>2. k \in CallState
    <3>1. m \in CallState
      BY ChangedCall DEF Held
    <3> HIDE DEF m
    <3> QED
      BY <3>1, ChangedCall
  <2>3. call' = [call EXCEPT ![c] = k] /\ UNCHANGED <<table, lock, pool>>
    BY <1>4, <2>1 DEF Decides
  <2> HIDE DEF k
  <2> QED
    BY <2>2, <2>3
<1>5. ASSUME NEW c \in Call, Starts(c) PROVE TypeOK'
  <2>1. PICK found \in SUBSET Job : call' = [call EXCEPT ![c].pc = "lock", ![c].todo = found]
    BY <1>5 DEF Starts
  <2> DEFINE m == [call[c] EXCEPT !.pc = "lock"]
             k == [m EXCEPT !.todo = found]
  <2>2. k \in CallState
    <3>1. m \in CallState
      BY ChangedCall DEF Held
    <3> HIDE DEF m
    <3> QED
      BY <3>1, ChangedCall
  <2>3. call' = [call EXCEPT ![c] = k] /\ UNCHANGED <<table, lock, pool>>
    BY <1>5, <2>1 DEF Starts
  <2> HIDE DEF k
  <2> QED
    BY <2>2, <2>3
<1>6. ASSUME NEW c \in Call, NEW j \in Job, Takes(c, j) PROVE TypeOK'
  <2>1. PICK todo \in SUBSET Job, batch \in SUBSET Job :
          call' = [call EXCEPT ![c].todo = todo, ![c].batch = batch]
    BY <1>6 DEF Takes, Take, CallState
  <2> DEFINE m == [call[c] EXCEPT !.todo = todo]
             k == [m EXCEPT !.batch = batch]
  <2>2. k \in CallState
    <3>1. m \in CallState
      BY ChangedCall
    <3> HIDE DEF m
    <3> QED
      BY <3>1, ChangedCall
  <2>3. lock' = [lock EXCEPT ![j] = c] /\ UNCHANGED <<table, pool>>
    BY <1>6 DEF Takes, Take
  <2>4. call' = [call EXCEPT ![c] = k]
    BY <2>1
  <2> HIDE DEF k
  <2> QED
    BY <2>2, <2>3, <2>4
<1>7. ASSUME NEW c \in Call, NEW j \in Job, Skips(c, j) PROVE TypeOK'
  <2>1. PICK todo \in SUBSET Job : call' = [call EXCEPT ![c].todo = todo]
    BY <1>7 DEF Skips, Skip, CallState
  <2>2. [call[c] EXCEPT !.todo = todo] \in CallState
    BY DEF CallState
  <2>3. UNCHANGED <<table, lock, pool>>
    BY <1>7 DEF Skips, Skip
  <2> QED
    BY <2>1, <2>2, <2>3
<1>8. ASSUME NEW c \in Call, NEW heard \in BOOLEAN, Commit(c, heard) PROVE TypeOK'
  <2>1. call' \in [Call -> CallState] /\ lock' \in [Job -> Call \cup {NULL}] /\ pool' = pool
    BY <1>8, EndEffect DEF Commit, Answers
  <2>2. \A j \in call[c].batch : Written(c, j) \in Row
    BY <1>8, WrittenRow DEF Commit
  <2>3. table' \in [Job -> Row]
    BY <1>8, <2>2 DEF Commit
  <2> QED
    BY <2>1, <2>3
<1>9. ASSUME NEW j \in Job, Lapse(j) PROVE TypeOK'
  <2>1. [table[j] EXCEPT !.lapsed = TRUE] \in Row
    BY DEF Row
  <2> QED
    BY <1>9, <2>1 DEF Lapse
<1> QED
  BY <1>1, <1>2, <1>3, <1>4, <1>5, <1>6, <1>7, <1>8, <1>9, StepForms DEF vars

\* A lock is taken by a statement that puts the row in its batch, and released as
\* the statement ends.
LEMMA LocksStep ==
  ASSUME TypeOK, TypeOK', CallsStand, SettlesStand, LocksAreHeld, [Next]_vars
  PROVE  LocksAreHeld'
<1> SUFFICES ASSUME NEW j \in Job, lock'[j] # NULL
             PROVE  call'[lock'[j]].pc = "lock" /\ j \in call'[lock'[j]].batch
  BY DEF LocksAreHeld
<1> USE NullIsNoName DEF TypeOK
<1> DEFINE Stands == call'[lock'[j]].pc = "lock" /\ j \in call'[lock'[j]].batch
<1>1. ASSUME NEW c \in Call, call[c].pc # "lock", \A d \in Call \ {c} : call'[d] = call[d],
             lock' = lock
      PROVE  Stands
  BY <1>1 DEF LocksAreHeld
<1>2. ASSUME NEW c \in Call, NEW answer \in Answers, End(c, answer) PROVE Stands
  BY <1>2, EndEffect DEF LocksAreHeld
<1>3. ASSUME NEW c \in Call, NEW i \in Job, Takes(c, i) PROVE Stands
  <2>1. /\ call'[c].pc = "lock" /\ call'[c].batch = call[c].batch \cup {i}
        /\ \A d \in Call \ {c} : call'[d] = call[d]
        /\ lock' = [lock EXCEPT ![i] = c]
    BY <1>3 DEF Takes, Take, CallState
  <2> QED
    BY <2>1 DEF LocksAreHeld
<1>4. ASSUME NEW c \in Call, NEW i \in Job, Skips(c, i) PROVE Stands
  <2>1. /\ call'[c].pc = "lock" /\ call'[c].batch = call[c].batch
        /\ \A d \in Call \ {c} : call'[d] = call[d]
        /\ lock' = lock
    BY <1>4 DEF Skips, Skip, CallState
  <2> QED
    BY <2>1 DEF LocksAreHeld
<1>5. ASSUME NEW c \in Call, Arrives(c) \/ Begins(c) \/ Decides(c) \/ Starts(c) PROVE Stands
  BY <1>1, <1>5 DEF Arrives, Idle, Begins, Decides, Starts
<1>6. CASE UNCHANGED <<call, lock>>
  BY <1>6 DEF LocksAreHeld
<1> QED
  BY <1>2, <1>3, <1>4, <1>5, <1>6, StepForms DEF Refused, Answers, Commit, Lapse, vars

\* The batch of a statement grows by a row that it locks and that satisfies its
\* predicate, and its locks stay.
LEMMA BatchStep ==
  ASSUME TypeOK, TypeOK', CallsStand, SettlesStand, BatchesAreLocked, [Next]_vars,
         NEW c \in Call, call'[c].pc = "lock", NEW j \in call'[c].batch
  PROVE  \/ call[c].pc = "lock" /\ j \in call[c].batch /\ lock'[j] = c
         \/ call[c].pc = "lock" /\ Matches(c, j) /\ lock'[j] = c /\ table' = table
<1> USE NullIsNoName DEF TypeOK
<1> DEFINE Old == call[c].pc = "lock" /\ j \in call[c].batch /\ lock'[j] = c
           New == call[c].pc = "lock" /\ Matches(c, j) /\ lock'[j] = c /\ table' = table
<1>1. j \in Job
  BY DEF CallState
<1>2. ASSUME NEW d \in Call, Arrives(d) \/ Begins(d) \/ Decides(d) \/ Starts(d) PROVE Old
  <2>1. CASE d = c
    <3>1. Starts(c)
      <4>1. ASSUME Arrives(c) PROVE FALSE
        BY <4>1 DEF Arrives
      <4>2. ASSUME Begins(c) \/ Decides(c) PROVE FALSE
        <5>1. call'[c].pc \in {"read", "scan"}
          BY <4>2 DEF Begins, Decides, CallState
        <5> QED
          BY <5>1
      <4> QED
        BY <1>2, <2>1, <4>1, <4>2
    <3>2. call'[c].batch = call[c].batch /\ call[c].pc \in {"conn", "scan"}
      <4>1. PICK found \in SUBSET Job : call' = [call EXCEPT ![c].pc = "lock", ![c].todo = found]
        BY <3>1 DEF Starts
      <4>2. call'[c].batch = call[c].batch
        BY <4>1 DEF CallState
      <4> QED
        BY <3>1, <4>2 DEF Starts
    <3> QED
      BY <3>2 DEF CallsStand
  <2>2. CASE d # c
    BY <1>1, <1>2, <2>2 DEF Arrives, Begins, Decides, Starts, BatchesAreLocked
  <2> QED
    BY <2>1, <2>2
<1>3. ASSUME NEW d \in Call, NEW answer \in Answers, End(d, answer) PROVE Old
  BY <1>1, <1>3, EndEffect DEF BatchesAreLocked
<1>4. ASSUME NEW d \in Call, NEW i \in Job, Takes(d, i) PROVE Old \/ New
  <2>1. /\ call'[d].pc = call[d].pc /\ call'[d].batch = call[d].batch \cup {i}
        /\ \A e \in Call \ {d} : call'[e] = call[e]
        /\ lock' = [lock EXCEPT ![i] = d] /\ lock[i] = NULL /\ Matches(d, i) /\ table' = table
    BY <1>4 DEF Takes, Take, CallState
  <2> QED
    BY <1>1, <2>1 DEF BatchesAreLocked
<1>5. ASSUME NEW d \in Call, NEW i \in Job, Skips(d, i) PROVE Old
  <2>1. /\ call'[d].pc = call[d].pc /\ call'[d].batch = call[d].batch
        /\ \A e \in Call \ {d} : call'[e] = call[e]
        /\ lock' = lock
    BY <1>5 DEF Skips, Skip, CallState
  <2> QED
    BY <1>1, <2>1 DEF BatchesAreLocked
<1>6. CASE UNCHANGED <<call, lock>>
  BY <1>6 DEF BatchesAreLocked
<1> QED
  BY <1>2, <1>3, <1>4, <1>5, <1>6, StepForms DEF Refused, Answers, Commit, Lapse, vars

\* Nobody changes a locked row so that its statement would not want it.
LEMMA BatchesStep ==
  ASSUME TypeOK, TypeOK', CallsStand, SettlesStand, BatchesAreLocked, [Next]_vars
  PROVE  BatchesAreLocked'
<1> SUFFICES ASSUME NEW c \in Call, call'[c].pc = "lock", NEW j \in call'[c].batch
             PROVE  lock'[j] = c /\ Matches(c, j)'
  BY DEF BatchesAreLocked
<1> USE DEF TypeOK
<1>1. j \in Job
  BY DEF CallState
<1>2. lock'[j] = c /\ Matches(c, j) /\ call[c].pc = "lock"
  BY BatchStep DEF BatchesAreLocked
<1>3. /\ call'[c].op = call[c].op
      /\ call'[c].worker = call[c].worker /\ call'[c].job = call[c].job
  BY <1>2, SentStays
<1>4. CASE table'[j] = table[j]
  BY <1>2, <1>3, <1>4 DEF Matches, Claimable, Reapable, Holds
<1>5. CASE /\ table[j].status = "claimed" /\ ~table[j].lapsed
           /\ table'[j] = [table[j] EXCEPT !.lapsed = TRUE]
  <2>1. /\ table'[j].status = table[j].status /\ table'[j].claimed_by = table[j].claimed_by
        /\ table'[j].lapsed
    BY <1>1, <1>5 DEF Row
  <2> QED
    BY <1>2, <1>3, <2>1 DEF Matches, Claimable, Reapable, Holds
<1>6. ASSUME NEW d \in Call, call[d].pc = "lock", j \in call[d].batch, call'[d].pc = "done",
             table'[j] = Written(d, j)
      PROVE  FALSE
  <2>1. lock[j] = d /\ d # c
    BY <1>6 DEF BatchesAreLocked
  <2>2. j \in call[c].batch \/ table' = table
    BY BatchStep
  <2>3. j \in call[c].batch => lock[j] = c
    BY <1>2 DEF BatchesAreLocked
  <2>4. CASE table' = table
    <3>1. Written(d, j) = table[j]
      BY <1>1, <1>6, <2>4
    <3> QED
      BY <1>6, <3>1, WrittenRow
  <2> QED
    BY <2>1, <2>2, <2>3, <2>4
<1> QED
  BY <1>1, <1>4, <1>5, <1>6, RowStep

\* What the steps of a call that is being served leave of it.
LEMMA ServedEffect ==
  ASSUME TypeOK, TypeOK', CallsStand, SettlesStand, NEW c \in Call
  PROVE  /\ Begins(c) =>
              /\ call'[c].pc = "read" /\ call'[c].write = call[c].write
              /\ call'[c].todo = call[c].todo /\ call'[c].batch = call[c].batch
         /\ Decides(c) =>
              /\ call'[c].pc = "scan"
              /\ call'[c].write = IF table[call[c].job].attempt < table[call[c].job].max_attempts
                                  THEN "pending" ELSE "failed"
              /\ call'[c].todo = call[c].todo /\ call'[c].batch = call[c].batch
         /\ Starts(c) =>
              /\ call'[c].pc = "lock" /\ call'[c].write = call[c].write
              /\ call'[c].todo = {j \in Job : Matches(c, j)}
              /\ call'[c].batch = call[c].batch
         /\ \A j \in Job : Takes(c, j) =>
              /\ call'[c].pc = "lock" /\ call'[c].write = call[c].write
              /\ call'[c].todo = call[c].todo \ {j}
              /\ call'[c].batch = call[c].batch \cup {j}
         /\ \A j \in Job : Skips(c, j) =>
              /\ call'[c].pc = "lock" /\ call'[c].write = call[c].write
              /\ call'[c].batch = call[c].batch
         /\ (Begins(c) \/ Decides(c) \/ Starts(c) \/ \E j \in Job : Takes(c, j) \/ Skips(c, j)) =>
              /\ call[c].pc \notin {"idle", "done"}
              /\ call'[c].op = call[c].op /\ call'[c].limit = call[c].limit
              /\ call'[c].worker = call[c].worker /\ call'[c].job = call[c].job
              /\ call'[c].answer = call[c].answer
              /\ \A d \in Call \ {c} : call'[d] = call[d]
<1> USE DEF TypeOK
<1> DEFINE Same == /\ call'[c].op = call[c].op /\ call'[c].limit = call[c].limit
                   /\ call'[c].worker = call[c].worker /\ call'[c].job = call[c].job
                   /\ call'[c].answer = call[c].answer
                   /\ \A d \in Call \ {c} : call'[d] = call[d]
<1>1. ASSUME Begins(c)
      PROVE  /\ call[c].pc = "conn" /\ call'[c].pc = "read" /\ call'[c].write = call[c].write
             /\ call'[c].todo = call[c].todo /\ call'[c].batch = call[c].batch
             /\ Same
  BY <1>1 DEF Begins, CallState
<1>2. ASSUME Decides(c)
      PROVE  /\ call[c].pc = "read" /\ call'[c].pc = "scan"
             /\ call'[c].write = IF table[call[c].job].attempt < table[call[c].job].max_attempts
                                 THEN "pending" ELSE "failed"
             /\ call'[c].todo = call[c].todo /\ call'[c].batch = call[c].batch
             /\ Same
  <2> DEFINE write == IF table[call[c].job].attempt < table[call[c].job].max_attempts
                      THEN "pending" ELSE "failed"
  <2>1. call[c].pc = "read" /\ call' = [call EXCEPT ![c].pc = "scan", ![c].write = write]
    BY <1>2 DEF Decides
  <2> HIDE DEF write
  <2>2. /\ call'[c].pc = "scan" /\ call'[c].write = write
        /\ call'[c].todo = call[c].todo /\ call'[c].batch = call[c].batch
        /\ Same
    BY <2>1 DEF CallState
  <2> QED
    BY <2>1, <2>2 DEF write
<1>3. ASSUME Starts(c)
      PROVE  /\ call[c].pc \in {"conn", "scan"}
             /\ call'[c].pc = "lock" /\ call'[c].write = call[c].write
             /\ call'[c].todo = {j \in Job : Matches(c, j)}
             /\ call'[c].batch = call[c].batch
             /\ Same
  <2> DEFINE found == {j \in Job : Matches(c, j)}
  <2>1. /\ call[c].pc \in {"conn", "scan"}
        /\ call' = [call EXCEPT ![c].pc = "lock", ![c].todo = found]
    BY <1>3 DEF Starts
  <2> HIDE DEF found
  <2>2. /\ call'[c].pc = "lock" /\ call'[c].write = call[c].write
        /\ call'[c].todo = found /\ call'[c].batch = call[c].batch
        /\ Same
    BY <2>1 DEF CallState
  <2> QED
    BY <2>1, <2>2 DEF found
<1>4. ASSUME NEW j \in Job, Takes(c, j)
      PROVE  /\ call[c].pc = "lock" /\ call'[c].pc = "lock" /\ call'[c].write = call[c].write
             /\ call'[c].todo = call[c].todo \ {j}
             /\ call'[c].batch = call[c].batch \cup {j}
             /\ Same
  BY <1>4 DEF Takes, Take, CallState
<1>5. ASSUME NEW j \in Job, Skips(c, j)
      PROVE  /\ call[c].pc = "lock" /\ call'[c].pc = "lock" /\ call'[c].write = call[c].write
             /\ call'[c].batch = call[c].batch
             /\ Same
  BY <1>5 DEF Skips, Skip, CallState
<1>6. Begins(c) \/ Decides(c) \/ Starts(c) \/ (\E j \in Job : Takes(c, j) \/ Skips(c, j)) =>
        call[c].pc \notin {"idle", "done"} /\ Same
  BY <1>1, <1>2, <1>3, <1>4, <1>5
<1> QED
  BY <1>1, <1>2, <1>3, <1>4, <1>5, <1>6

\* A call changes by a step of its own.
LEMMA OwnStep ==
  ASSUME TypeOK, TypeOK', CallsStand, SettlesStand, [Next]_vars,
         NEW c \in Call, call'[c] # call[c]
  PROVE  \/ Arrives(c) \/ Refused(c) \/ Begins(c) \/ Decides(c) \/ Starts(c)
         \/ \E j \in Job : Takes(c, j) \/ Skips(c, j)
         \/ \E heard \in BOOLEAN : Commit(c, heard)
<1>1. ASSUME NEW d \in Call, d # c,
             \/ Arrives(d) \/ Refused(d) \/ Begins(d) \/ Decides(d) \/ Starts(d)
             \/ \E j \in Job : Takes(d, j) \/ Skips(d, j)
             \/ \E heard \in BOOLEAN : Commit(d, heard)
      PROVE  FALSE
  <2>1. Arrives(d) => call'[c] = call[c]
    BY <1>1 DEF Arrives, TypeOK
  <2>2. ASSUME NEW answer \in Answers, End(d, answer) PROVE call'[c] = call[c]
    BY <1>1, <2>2, EndEffect
  <2> QED
    BY <1>1, <2>1, <2>2, ServedEffect DEF Refused, Commit, Answers
<1> QED
  BY <1>1, StepForms DEF Lapse, vars

\* A call is served in order.
LEMMA CallsStep ==
  ASSUME TypeOK, TypeOK', CallsStand, SettlesStand, [Next]_vars
  PROVE  CallsStand'
<1> DEFINE Stands(c) ==
             /\ call'[c].pc = "idle" => call'[c] = Idle
             /\ call'[c].pc # "idle" => call'[c].op # NULL
             /\ call'[c].pc \in {"conn", "read", "scan"} => call'[c].batch = {}
             /\ call'[c].pc \in {"read", "scan"} => call'[c].op = "retry"
             /\ call'[c].pc # "done" => call'[c].answer = NULL
<1> SUFFICES ASSUME NEW c \in Call PROVE Stands(c)
  BY DEF CallsStand, Idle
<1> USE NullIsNoName DEF TypeOK
<1>1. CASE call'[c] = call[c]
  BY <1>1 DEF CallsStand
<1>2. ASSUME Arrives(c) PROVE Stands(c)
  BY <1>2 DEF Arrives
<1>3. ASSUME NEW answer \in Answers, call[c].pc \in {"conn"} \cup Held, End(c, answer)
      PROVE  Stands(c)
  BY <1>3, EndEffect DEF CallsStand, Held
<1>4. ASSUME \/ Begins(c) \/ Decides(c) \/ Starts(c)
             \/ \E j \in Job : Takes(c, j) \/ Skips(c, j)
      PROVE  Stands(c)
  <2>1. Begins(c) => call[c].op = "retry"
    BY DEF Begins
  <2>2. Decides(c) => call[c].op = "retry"
    BY DEF Decides, CallsStand
  <2>3. /\ call'[c].pc \notin {"idle", "conn", "done"}
        /\ call'[c].pc \in {"read", "scan"} => Begins(c) \/ Decides(c)
        /\ call'[c].pc \in {"read", "scan"} =>
             call'[c].batch = call[c].batch /\ call[c].pc \in {"conn", "read"}
    BY <1>4, ServedEffect DEF Begins, Decides
  <2>4. call'[c].op = call[c].op /\ call'[c].answer = call[c].answer
        /\ call[c].pc \notin {"idle", "done"}
    BY <1>4, ServedEffect
  <2> QED
    BY <2>1, <2>2, <2>3, <2>4 DEF CallsStand
<1> QED
  BY <1>1, <1>2, <1>3, <1>4, OwnStep DEF Refused, Commit, Answers, Held

\* A settle keeps its run and its row, and knows what to write before it locks it.
LEMMA SettlesStep ==
  ASSUME TypeOK, TypeOK', CallsStand, SettlesStand, BatchesAreLocked, [Next]_vars
  PROVE  SettlesStand'
<1> DEFINE Stands(c) ==
      /\ call'[c].worker \in Call /\ call'[c].job \in Job /\ call'[c].limit = NULL
      /\ call'[call'[c].worker].pc = "done"
      /\ call'[c].pc = "lock" => call'[c].todo \cup call'[c].batch = {call'[c].job}
      /\ call'[c].op = "settle" /\ call'[c].pc \in {"conn", "lock"} =>
           call'[c].write \in {"succeeded", "failed"}
      /\ call'[c].op = "retry" /\ call'[c].pc \in {"scan", "lock"} =>
           call'[c].write \in {"pending", "failed"}
<1> SUFFICES ASSUME NEW c \in Call, Settling(c)' PROVE Stands(c)
  BY DEF SettlesStand
<1> USE NullIsNoName DEF TypeOK
<1>1. ASSUME NEW w \in Call, call[w].pc = "done" PROVE call'[w].pc = "done"
  BY <1>1, DoneStays
<1>2. CASE call'[c] = call[c]
  <2>1. Settling(c)
    BY <1>2 DEF Settling
  <2> QED
    BY <1>1, <1>2, <2>1 DEF SettlesStand
<1>3. CASE Arrives(c)
  BY <1>1, <1>3 DEF Arrives, Settling
<1>4. ASSUME call[c].pc # "idle"
      PROVE  /\ Settling(c)
             /\ call'[c].op = call[c].op
             /\ call'[c].worker = call[c].worker /\ call'[c].job = call[c].job
             /\ call[c].worker \in Call /\ call[c].job \in Job /\ call[c].limit = NULL
             /\ call'[call[c].worker].pc = "done"
  <2>1. Settling(c) /\ call'[c].op = call[c].op
        /\ call'[c].worker = call[c].worker /\ call'[c].job = call[c].job
    BY <1>4, SentStays DEF Settling
  <2> QED
    BY <1>1, <2>1 DEF SettlesStand
<1>5. ASSUME NEW answer \in Answers, call[c].pc \in {"conn"} \cup Held, End(c, answer)
      PROVE  Stands(c)
  <2>1. call'[c].pc = "done" /\ call'[c].limit = NULL
    BY <1>5, EndEffect
  <2> QED
    BY <1>4, <1>5, <2>1 DEF Held
<1>6. CASE Begins(c)
  BY <1>4, <1>6, ServedEffect
<1>7. CASE Decides(c)
  <2>1. /\ call'[c].pc = "scan" /\ call'[c].write \in {"pending", "failed"}
        /\ call'[c].limit = call[c].limit /\ call[c].pc # "idle"
    BY <1>7, ServedEffect
  <2> QED
    BY <1>4, <2>1
<1>8. CASE Starts(c)
  <2>1. /\ call'[c].pc = "lock" /\ call'[c].write = call[c].write
        /\ call'[c].todo = {j \in Job : Matches(c, j)} /\ call'[c].batch = call[c].batch
        /\ call[c].pc \in {"conn", "scan"} /\ call'[c].limit = call[c].limit
        /\ call[c].pc = "conn" => call[c].op # "retry"
        /\ {j \in Job : Matches(c, j)} # {}
    BY <1>4, <1>8, ServedEffect DEF Starts
  <2>2. call'[c].todo = {call[c].job}
    BY <1>4, <2>1 DEF Matches, Settling
  <2>3. call[c].batch = {} /\ (call[c].pc = "scan" => call[c].op = "retry")
    BY <2>1 DEF CallsStand
  <2> QED
    BY <1>4, <2>1, <2>2, <2>3 DEF SettlesStand
<1>9. ASSUME NEW j \in Job, Takes(c, j) PROVE Stands(c)
  <2>1. /\ call'[c].pc = "lock" /\ call'[c].write = call[c].write
        /\ call'[c].todo = call[c].todo \ {j} /\ call'[c].batch = call[c].batch \cup {j}
        /\ call[c].pc = "lock" /\ j \in call[c].todo /\ call'[c].limit = call[c].limit
    BY <1>9, ServedEffect DEF Takes
  <2>2. call'[c].todo \cup call'[c].batch = call[c].todo \cup call[c].batch
    BY <2>1
  <2> QED
    BY <1>4, <2>1, <2>2 DEF SettlesStand
<1>10. ASSUME NEW j \in Job, Skips(c, j) PROVE FALSE
  BY <1>4, <1>10 DEF Skips
<1> QED
  BY <1>2, <1>3, <1>5, <1>6, <1>7, <1>8, <1>9, <1>10, OwnStep
     DEF Refused, Commit, Answers, Held

\* A run begins within the cap of its job, under a claim that ends as it begins.
LEMMA RowsStep ==
  ASSUME TypeOK, TypeOK', CallsStand, SettlesStand, BatchesAreLocked, RowsStand, RetriesStand,
         [Next]_vars
  PROVE  RowsStand'
<1> DEFINE Stands(j, w) ==
             /\ w.attempt <= w.max_attempts
             /\ w.status = "pending" => w.attempt < w.max_attempts
             /\ w.status = "claimed" =>
                  w.claimed_by \in Call /\ call'[w.claimed_by].pc = "done"
<1> SUFFICES ASSUME NEW j \in Job PROVE Stands(j, table'[j])
  BY DEF RowsStand
<1> USE DEF TypeOK
<1>1. Stands(j, table[j])
  BY DoneStays DEF RowsStand
<1>2. CASE table'[j] = [table[j] EXCEPT !.lapsed = TRUE]
  <2>1. /\ table'[j].attempt = table[j].attempt /\ table'[j].max_attempts = table[j].max_attempts
        /\ table'[j].status = table[j].status /\ table'[j].claimed_by = table[j].claimed_by
    BY <1>2 DEF Row
  <2> QED
    BY <1>1, <2>1
<1>3. ASSUME NEW c \in Call, call[c].pc = "lock", j \in call[c].batch, call'[c].pc = "done",
             table'[j] = Written(c, j)
      PROVE  Stands(j, table'[j])
  <2> DEFINE w == table'[j]
  <2>1. table[j].attempt \in Nat /\ table[j].max_attempts \in Nat
    BY DEF Row
  <2>2. CASE /\ call[c].op = "claim" /\ table[j].status = "pending" /\ w.status = "claimed"
             /\ w.attempt = table[j].attempt + 1 /\ w.claimed_by = c
             /\ w.max_attempts = table[j].max_attempts
    <3>1. table[j].attempt < table[j].max_attempts
      BY <2>2 DEF RowsStand
    <3> QED
      BY <1>3, <2>1, <2>2, <3>1
  <2>3. CASE /\ call[c].op = "reap"
             /\ w.status = IF table[j].attempt < table[j].max_attempts
                           THEN "pending" ELSE "abandoned"
             /\ w.attempt = table[j].attempt /\ w.max_attempts = table[j].max_attempts
    BY <1>1, <2>1, <2>3
  <2>4. CASE /\ Settling(c) /\ j = call[c].job
             /\ table[j].status = "claimed" /\ table[j].claimed_by = call[c].worker
             /\ w.status = call[c].write /\ call[c].write \in {"pending", "succeeded", "failed"}
             /\ w.attempt = table[j].attempt /\ w.max_attempts = table[j].max_attempts
    <3>1. w.status = "pending" => call[c].op = "retry"
      BY <1>3, <2>4 DEF SettlesStand, Settling
    <3>2. w.status = "pending" => table[j].attempt < table[j].max_attempts
      BY <1>3, <2>4, <3>1 DEF RetriesStand, Holds
    <3> QED
      BY <1>1, <2>4, <3>2
  <2> QED
    BY <1>3, <2>2, <2>3, <2>4, WrittenRow
<1> QED
  BY <1>1, <1>2, <1>3, RowStep

\* Between the two statements of a retry the job it holds begins no run.
LEMMA RetriesStep ==
  ASSUME TypeOK, TypeOK', CallsStand, SettlesStand, BatchesAreLocked, RetriesStand, [Next]_vars
  PROVE  RetriesStand'
<1> SUFFICES ASSUME NEW c \in Call, call'[c].op = "retry", call'[c].pc \in {"scan", "lock"},
                    call'[c].write = "pending", Holds(call[c].worker, call[c].job)'
             PROVE  table'[call'[c].job].attempt < table'[call'[c].job].max_attempts
  BY DEF RetriesStand, Holds
<1> USE DEF TypeOK
<1>1. ASSUME Arrives(c) PROVE FALSE
  BY <1>1 DEF Arrives
<1>2. call[c].pc # "idle"
  <2>1. CASE call'[c] = call[c]
    BY <2>1
  <2>2. CASE call'[c] # call[c]
    <3>1. ~(\E answer \in Answers : End(c, answer))
      BY EndEffect
    <3> QED
      BY <1>1, <2>2, <3>1, OwnStep, ServedEffect DEF Refused, Commit, Answers
  <2> QED
    BY <2>1, <2>2
<1>3. /\ call'[c].worker = call[c].worker /\ call'[c].job = call[c].job
      /\ call[c].op = "retry"
      /\ call[c].worker \in Call /\ call[c].job \in Job /\ call[call[c].worker].pc = "done"
  <2>1. call'[c].worker = call[c].worker /\ call'[c].job = call[c].job /\ call[c].op = "retry"
    BY <1>2, SentStays
  <2> QED
    BY <2>1 DEF SettlesStand, Settling
<1>4. /\ Holds(call[c].worker, call[c].job)
      /\ table'[call[c].job].attempt = table[call[c].job].attempt
      /\ table'[call[c].job].max_attempts = table[call[c].job].max_attempts
  BY <1>3, HoldsStep DEF Holds
<1>5. table[call[c].job].attempt < table[call[c].job].max_attempts
  <2>1. CASE call[c].pc \in {"scan", "lock"} /\ call[c].write = "pending"
    BY <1>3, <1>4, <2>1 DEF RetriesStand
  <2>2. CASE Decides(c)
    BY <2>2, ServedEffect
  <2>3. CASE call'[c] # call[c] /\ ~Decides(c)
    <3>1. ~(\E answer \in Answers : End(c, answer))
      BY EndEffect
    <3>2. \/ Starts(c) \/ \E j \in Job : Takes(c, j) \/ Skips(c, j)
      <4>1. ~Begins(c)
        BY ServedEffect
      <4> QED
        BY <1>1, <2>3, <3>1, <4>1, OwnStep DEF Refused, Commit, Answers
    <3>3. call[c].pc \in {"scan", "lock"} /\ call'[c].write = call[c].write
      BY <1>3, <3>2, ServedEffect DEF Starts, Takes, Skips
    <3> QED
      BY <2>1, <3>3
  <2> QED
    BY <2>1, <2>2, <2>3
<1> QED
  BY <1>3, <1>4, <1>5

\* A settle that commits has found its run, and ends it.
LEMMA SettleCommits ==
  ASSUME TypeOK, CallsStand, SettlesStand, BatchesAreLocked,
         NEW c \in Call, NEW heard \in BOOLEAN, Commit(c, heard), Settling(c)
  PROVE  /\ call[c].job \in Job
         /\ Holds(call[c].worker, call[c].job)
         /\ table'[call[c].job].status # "claimed"
<1>1. call[c].pc = "lock" /\ (call[c].todo = {} \/ Full(c))
  BY DEF Commit
<1>2. call[c].todo = {}
  BY <1>1 DEF Full, SettlesStand
<1>3. call[c].job \in call[c].batch /\ call[c].job \in Job
  BY <1>1, <1>2 DEF SettlesStand
<1>4. /\ Matches(c, call[c].job)
      /\ Written(c, call[c].job).status \in {"pending", "succeeded", "failed"}
  BY <1>1, <1>3, WrittenRow DEF Settling
<1>5. table'[call[c].job] = Written(c, call[c].job)
  BY <1>3 DEF Commit
<1> QED
  BY <1>3, <1>4, <1>5 DEF Matches, Settling

\* A settle is answered by the step that ends it: too late for a run that is
\* over, or as it ends the run itself.
LEMMA AnswerStep ==
  ASSUME TypeOK, TypeOK', CallsStand, SettlesStand, BatchesAreLocked, [Next]_vars,
         NEW c \in Call, Settling(c)', call'[c].answer \in {"OK", "FailedPrecondition"},
         call'[c] # call[c]
  PROVE  /\ call'[c].worker = call[c].worker /\ call'[c].job = call[c].job
         /\ call[c].job \in Job /\ call[c].worker \in Call
         /\ call[call[c].worker].pc = "done"
         /\ table'[call[c].job].status # "claimed" \/ ~Holds(call[c].worker, call[c].job)'
         /\ call'[c].answer = "OK" => Holds(call[c].worker, call[c].job)
         /\ \A d \in Call \ {c} : call'[d] = call[d]
<1> USE NullIsNoName DEF TypeOK
<1>1. ~Arrives(c)
  BY DEF Arrives, Answers
<1>2. \/ Refused(c) \/ \E heard \in BOOLEAN : Commit(c, heard)
  <2>1. CASE \/ Begins(c) \/ Decides(c) \/ Starts(c)
             \/ \E j \in Job : Takes(c, j) \/ Skips(c, j)
    BY <2>1, ServedEffect DEF CallsStand, Answers
  <2> QED
    BY <1>1, <2>1, OwnStep
<1>3. PICK answer \in Answers : End(c, answer) /\ call[c].pc \in {"conn"} \cup Held
  BY <1>2 DEF Refused, Commit, Answers, Held
<1>4. /\ Settling(c)
      /\ call'[c].worker = call[c].worker /\ call'[c].job = call[c].job
      /\ \A d \in Call \ {c} : call'[d] = call[d]
  BY <1>3, EndEffect DEF Settling
<1>5. /\ call[c].job \in Job /\ call[c].worker \in Call /\ call[call[c].worker].pc = "done"
  BY <1>4 DEF SettlesStand
<1>6. CASE Refused(c)
  <2>1. PICK a \in {"Internal", "FailedPrecondition"} :
          /\ End(c, a)
          /\ a = "FailedPrecondition" => ~Holds(call[c].worker, call[c].job)
    BY <1>6 DEF Refused
  <2>2. call'[c].answer = a /\ table' = table
    BY <1>6, <2>1, EndEffect DEF Refused, Answers
  <2> QED
    BY <1>4, <1>5, <2>1, <2>2 DEF Holds
<1>7. CASE \E heard \in BOOLEAN : Commit(c, heard)
  BY <1>4, <1>5, <1>7, SettleCommits
<1> QED
  BY <1>2, <1>6, <1>7

\* A settle that has its answer has it for a run that is over.
LEMMA AnsweredStep ==
  ASSUME TypeOK, TypeOK', CallsStand, SettlesStand, SettlesStand', BatchesAreLocked,
         AnsweredRunIsOver, [Next]_vars
  PROVE  AnsweredRunIsOver'
<1> SUFFICES ASSUME NEW c \in Call, Settling(c)',
                    call'[c].answer \in {"OK", "FailedPrecondition"},
                    Holds(call[c].worker, call[c].job)'
             PROVE  FALSE
  BY DEF AnsweredRunIsOver, Holds
<1> USE NullIsNoName DEF TypeOK
<1>1. CASE call'[c] = call[c]
  <2>1. Settling(c) /\ call[c].answer \in {"OK", "FailedPrecondition"}
    BY <1>1 DEF Settling
  <2>2. ~Holds(call[c].worker, call[c].job)
    BY <2>1 DEF AnsweredRunIsOver
  <2>3. /\ call[c].worker \in Call /\ call[c].job \in Job
        /\ call[call[c].worker].pc = "done"
    BY <2>1 DEF SettlesStand
  <2>4. /\ table'[call[c].job].status = "claimed"
        /\ table'[call[c].job].claimed_by = call[c].worker
    BY <1>1 DEF Holds
  <2> QED
    BY <2>2, <2>3, <2>4, HoldsStep DEF Holds
<1>2. CASE call'[c] # call[c]
  BY <1>2, AnswerStep DEF Holds
<1> QED
  BY <1>1, <1>2

\* Of two settles of a run the second that commits finds the run over.
LEMMA OneOkStep ==
  ASSUME TypeOK, TypeOK', CallsStand, SettlesStand, BatchesAreLocked, AnsweredRunIsOver,
         OneOkPerRun, [Next]_vars
  PROVE  OneOkPerRun'
<1> SUFFICES ASSUME NEW c \in Call, NEW d \in Call, Settling(c)', Settling(d)',
                    call'[c].answer = "OK", call'[d].answer = "OK",
                    call'[c].worker = call'[d].worker, call'[c].job = call'[d].job, c # d
             PROVE  FALSE
  BY DEF OneOkPerRun
<1>1. ASSUME NEW a \in Call, NEW b \in Call, Settling(a)', Settling(b)',
             call'[a].answer = "OK", call'[b].answer = "OK",
             call'[a].worker = call'[b].worker, call'[a].job = call'[b].job, a # b
      PROVE  call'[a] = call[a]
  <2> SUFFICES ASSUME call'[a] # call[a] PROVE FALSE
    OBVIOUS
  <2>1. /\ Holds(call[a].worker, call[a].job)
        /\ call'[a].worker = call[a].worker /\ call'[a].job = call[a].job
        /\ call'[b] = call[b]
    BY <1>1, AnswerStep
  <2>2. ~Holds(call[b].worker, call[b].job)
    BY <1>1, <2>1 DEF AnsweredRunIsOver, Settling
  <2> QED
    BY <1>1, <2>1, <2>2
<1>2. call'[c] = call[c] /\ call'[d] = call[d]
  BY <1>1
<1> QED
  BY <1>2 DEF OneOkPerRun, Settling

\* Every state of the service satisfies the invariant.
LEMMA IInvariant == Spec => []IInv
<1>1. Init => IInv
  <2> SUFFICES ASSUME Init PROVE IInv
    OBVIOUS
  <2> USE NullIsNoName
  <2>1. PICK cap \in [Job -> Caps] :
          table = [j \in Job |-> [status |-> "pending", attempt |-> 0, max_attempts |-> cap[j],
                                  claimed_by |-> NULL, lapsed |-> FALSE]]
    BY DEF Init
  <2>2. \A j \in Job : cap[j] \in Nat /\ 0 < cap[j]
    <3>1. \A k \in Caps : k \in Nat /\ 0 < k
      <4>1. \A k \in Nat \ {0} : 0 < k
        OBVIOUS
      <4> QED
        BY <4>1, ConstantsAssumption
    <3> QED
      BY <3>1
  <2>3. TypeOK
    <3>1. Idle \in CallState
      BY DEF Idle, CallState
    <3>2. ASSUME NEW n \in Nat
          PROVE  [status |-> "pending", attempt |-> 0, max_attempts |-> n,
                  claimed_by |-> NULL, lapsed |-> FALSE] \in Row
      BY DEF Row
    <3>3. table \in [Job -> Row]
      BY <2>1, <2>2, <3>2
    <3>4. pool \in Int
      BY ConstantsAssumption DEF Init, newPostgresPreset, PostgresMaxOpenConns, LoadEnv,
                                 PostgresMaxOpenConnsDefault
    <3> QED
      BY <3>1, <3>3, <3>4 DEF Init, TypeOK
  <2>4. RowsStand
    BY <2>1, <2>2 DEF RowsStand
  <2>5. \A c \in Call : /\ call[c] = Idle /\ call[c].pc = "idle" /\ call[c].op = NULL
                        /\ call[c].batch = {} /\ call[c].answer = NULL
    BY DEF Init, Idle
  <2>6. \A j \in Job : lock[j] = NULL
    BY DEF Init
  <2> QED
    BY <2>3, <2>4, <2>5, <2>6
       DEF IInv, LocksAreHeld, BatchesAreLocked, CallsStand, SettlesStand, RetriesStand,
           AnsweredRunIsOver, OneOkPerRun, Settling, Ops, Answers
<1>2. IInv /\ [Next]_vars => IInv'
  <2> SUFFICES ASSUME IInv, [Next]_vars PROVE IInv'
    OBVIOUS
  <2> USE DEF IInv
  <2>1. TypeOK'
    BY TypeStep
  <2>2. LocksAreHeld' /\ BatchesAreLocked' /\ CallsStand' /\ SettlesStand'
    BY <2>1, LocksStep, BatchesStep, CallsStep, SettlesStep
  <2>3. RowsStand' /\ RetriesStand'
    BY <2>1, RowsStep, RetriesStep
  <2>4. AnsweredRunIsOver' /\ OneOkPerRun'
    BY <2>1, <2>2, AnsweredStep, OneOkStep
  <2> QED
    BY <2>1, <2>2, <2>3, <2>4
<1> QED
  BY <1>1, <1>2, PTL DEF Spec

-----------------------------------------------------------------------------
(* Nobody waits for ever *)

\* A row that a statement has locked it does not come back to.
TodoIsLeft == \A c \in Call : call[c].pc = "lock" => call[c].todo \cap call[c].batch = {}

\* The pool never has more connections out than it may open.
PoolIsKept == pool > 0 => Cardinality(HasConn) <= pool

\* What keeps no call from going on: a free connection, if it waits for one; the
\* row, if it settles a run; nothing, if it claims or sweeps.
CanGoOn(c) ==
  \/ call[c].pc = "conn" /\ ConnFree
  \/ call[c].pc \in {"read", "scan"}
  \/ /\ call[c].pc = "lock"
     /\ Settling(c) => \A j \in call[c].todo : lock[j] = NULL

\* A call does nothing to another.
LEMMA OthersRest ==
  ASSUME TypeOK, NEW c \in Call, Acquire(c) \/ Serve(c) \/ Fail(c), NEW d \in Call, d # c
  PROVE  call'[d] = call[d]
<1> USE DEF TypeOK
<1>1. ASSUME NEW answer, End(c, answer) PROVE call'[d] = call[d]
  BY <1>1 DEF End
<1>2. ASSUME Scan(c) PROVE call'[d] = call[d]
  BY <1>1, <1>2 DEF Scan, NoRow
<1>3. ASSUME NEW j, Take(c, j) \/ Skip(c, j) PROVE call'[d] = call[d]
  BY <1>3 DEF Take, Skip
<1>4. CASE Acquire(c)
  BY <1>2, <1>4 DEF Acquire
<1>5. CASE RetryRead(c)
  BY <1>1, <1>5 DEF RetryRead
<1>6. CASE RetryWrite(c)
  BY <1>2, <1>6 DEF RetryWrite
<1>7. CASE Update(c)
  BY <1>1, <1>3, <1>7 DEF Update, NoRow
<1>8. CASE \E j \in Job : Visit(c, j)
  BY <1>3, <1>8 DEF Visit
<1>9. CASE Fail(c) \/ \E heard \in BOOLEAN : Commit(c, heard)
  BY <1>1, <1>9 DEF Fail, Commit
<1> QED
  BY <1>4, <1>5, <1>6, <1>7, <1>8, <1>9 DEF Serve

\* A connection is taken from a pool that has one.
LEMMA ConnStep ==
  ASSUME IInv, [Next]_vars
  PROVE  \/ HasConn' \subseteq HasConn
         \/ \E c \in Call : ConnFree /\ HasConn' \subseteq HasConn \cup {c}
<1> USE DEF IInv
<1>1. CASE Sent
  <2>1. PICK c \in Call : Arrives(c)
    BY <1>1, ArrivesForm
  <2>2. call'[c].pc = "conn" /\ \A d \in Call \ {c} : call'[d] = call[d]
    BY <2>1 DEF Arrives, TypeOK
  <2> QED
    BY <2>2 DEF HasConn, Held
<1>2. ASSUME NEW c \in Call, Acquire(c) \/ Serve(c) \/ Fail(c)
      PROVE  HasConn' \subseteq HasConn \cup {c}
  BY <1>2, OthersRest DEF HasConn
<1>3. ASSUME NEW c \in Call, Acquire(c) PROVE ConnFree
  BY <1>3 DEF Acquire
<1>4. ASSUME NEW c \in Call, Serve(c) PROVE c \in HasConn
  BY <1>4 DEF Serve, RetryRead, RetryWrite, Update, Visit, Commit, HasConn, Held
<1>5. ASSUME NEW c \in Call, Fail(c) PROVE c \notin HasConn'
  <2>1. call'[c].pc = "done"
    BY <1>5, EndEffect DEF Fail, Answers
  <2> QED
    BY <2>1 DEF HasConn, Held
<1>6. CASE UNCHANGED call
  BY <1>6 DEF HasConn
<1> QED
  BY <1>1, <1>2, <1>3, <1>4, <1>5, <1>6 DEF Next, Lapse, vars

\* The calls that have a connection can be counted.
LEMMA HasConnFinite == IsFiniteSet(HasConn) /\ Cardinality(HasConn) \in Nat
<1>1. IsFiniteSet(Call)
  BY ConstantsAssumption, FS_Interval DEF Call
<1>2. IsFiniteSet(HasConn)
  BY <1>1, FS_Subset DEF HasConn
<1> QED
  BY <1>2, FS_CardinalityType

\* A step leaves the pool at its limit at most.
LEMMA PoolStep == ASSUME IInv, PoolIsKept, [Next]_vars PROVE PoolIsKept'
<1>1. pool' = pool /\ pool \in Int
  BY StepForms DEF IInv, TypeOK, Arrives, Refused, Begins, Decides, Starts, Takes, Skips, Commit,
                   Lapse, vars
<1>2. CASE HasConn' \subseteq HasConn
  <2>1. Cardinality(HasConn') <= Cardinality(HasConn) /\ Cardinality(HasConn') \in Nat
    BY <1>2, HasConnFinite, FS_Subset, FS_CardinalityType
  <2> QED
    BY <1>1, <2>1, HasConnFinite DEF PoolIsKept
<1>3. ASSUME NEW c \in Call, ConnFree, HasConn' \subseteq HasConn \cup {c} PROVE PoolIsKept'
  <2> DEFINE S == HasConn \cup {c}
  <2>1. /\ IsFiniteSet(S)
        /\ Cardinality(S) = IF c \in HasConn THEN Cardinality(HasConn) ELSE Cardinality(HasConn) + 1
    BY HasConnFinite, FS_AddElement
  <2>2. Cardinality(HasConn') <= Cardinality(S) /\ Cardinality(HasConn') \in Nat
    BY <1>3, <2>1, FS_Subset, FS_CardinalityType
  <2>3. pool > 0 => Cardinality(HasConn) < pool
    BY <1>1, <1>3 DEF ConnFree
  <2> QED
    BY <1>1, <2>1, <2>2, <2>3, HasConnFinite DEF PoolIsKept
<1> QED
  BY <1>2, <1>3, ConnStep

\* A row moves from what is left to the batch, or away.
LEMMA TodoStep == ASSUME IInv, TodoIsLeft, [Next]_vars PROVE TodoIsLeft'
<1> USE DEF IInv, TodoIsLeft
<1>0. TypeOK'
  BY TypeStep
<1>1. ASSUME NEW c \in Call, Arrives(c) PROVE TodoIsLeft'
  <2>1. call'[c].pc = "conn" /\ \A d \in Call \ {c} : call'[d] = call[d]
    BY <1>1 DEF Arrives, TypeOK
  <2> QED
    BY <2>1
<1>2. ASSUME NEW c \in Call, Refused(c) \/ \E heard \in BOOLEAN : Commit(c, heard)
      PROVE  TodoIsLeft'
  <2>1. call'[c].pc = "done" /\ \A d \in Call \ {c} : call'[d] = call[d]
    BY <1>2, EndEffect DEF Refused, Commit, Answers
  <2> QED
    BY <2>1
<1>3. ASSUME NEW c \in Call, Begins(c) \/ Decides(c) PROVE TodoIsLeft'
  <2>1. call'[c].pc \in {"read", "scan"} /\ \A d \in Call \ {c} : call'[d] = call[d]
    BY <1>0, <1>3, ServedEffect
  <2> QED
    BY <2>1
<1>4. ASSUME NEW c \in Call, Starts(c) PROVE TodoIsLeft'
  <2>1. call'[c].batch = call[c].batch /\ \A d \in Call \ {c} : call'[d] = call[d]
    BY <1>0, <1>4, ServedEffect
  <2>2. call[c].batch = {}
    BY <1>4 DEF Starts, CallsStand
  <2> QED
    BY <2>1, <2>2
<1>5. ASSUME NEW c \in Call, NEW j \in Job, Takes(c, j) PROVE TodoIsLeft'
  <2>1. /\ call[c].pc = "lock"
        /\ call'[c].todo = call[c].todo \ {j} /\ call'[c].batch = call[c].batch \cup {j}
        /\ \A d \in Call \ {c} : call'[d] = call[d]
    BY <1>0, <1>5, ServedEffect DEF Takes
  <2> QED
    BY <2>1
<1>6. ASSUME NEW c \in Call, NEW j \in Job, Skips(c, j) PROVE TodoIsLeft'
  <2>1. /\ call[c].pc = "lock"
        /\ call'[c].todo = call[c].todo \ {j} /\ call'[c].batch = call[c].batch
        /\ \A d \in Call \ {c} : call'[d] = call[d]
    BY <1>6 DEF Skips, Skip, TypeOK, CallState
  <2> QED
    BY <2>1
<1>7. CASE UNCHANGED call
  BY <1>7
<1> QED
  BY <1>1, <1>2, <1>3, <1>4, <1>5, <1>6, <1>7, StepForms DEF Lapse, vars

\* A statement that holds a row does not wait: a claim and a sweep pass over what
\* they cannot lock, and a settle needs no row but the one it has.
LEMMA HoldersGoOn ==
  ASSUME IInv, TodoIsLeft, NEW j \in Job, lock[j] # NULL
  PROVE  lock[j] \in Call /\ CanGoOn(lock[j])
<1> DEFINE d == lock[j]
<1>1. d \in Call /\ call[d].pc = "lock" /\ j \in call[d].batch
  BY DEF IInv, TypeOK, LocksAreHeld
<1>2. Settling(d) => call[d].todo = {}
  <2>1. Settling(d) => call[d].todo \cup call[d].batch = {call[d].job}
    BY <1>1 DEF IInv, SettlesStand
  <2>2. call[d].todo \cap call[d].batch = {}
    BY <1>1 DEF TodoIsLeft
  <2> QED
    BY <1>1, <2>1, <2>2
<1> QED
  BY <1>1, <1>2 DEF CanGoOn

\* Of the calls under way one can go on: if nobody holds a row whoever has a
\* connection can, and if nobody has a connection the pool has one.
LEMMA SomebodyGoesOn ==
  ASSUME IInv, TodoIsLeft, NEW c \in Call, call[c].pc \in {"conn"} \cup Held
  PROVE  \E d \in Call : CanGoOn(d)
<1>1. ASSUME NEW d \in Call, call[d].pc \in Held PROVE \E e \in Call : CanGoOn(e)
  <2>1. CASE call[d].pc \in {"read", "scan"}
    BY <2>1 DEF CanGoOn
  <2>2. CASE call[d].pc = "lock" /\ (Settling(d) => \A j \in call[d].todo : lock[j] = NULL)
    BY <2>2 DEF CanGoOn
  <2>3. ASSUME NEW j \in call[d].todo, lock[j] # NULL PROVE \E e \in Call : CanGoOn(e)
    <3>1. j \in Job
      BY <2>3 DEF IInv, TypeOK, CallState
    <3> QED
      BY <2>3, <3>1, HoldersGoOn
  <2> QED
    BY <1>1, <2>1, <2>2, <2>3 DEF Held
<1>2. CASE call[c].pc = "conn" /\ ConnFree
  BY <1>2 DEF CanGoOn
<1>3. CASE ~ConnFree
  <2>1. pool \in Int /\ pool > 0 /\ ~(Cardinality(HasConn) < pool)
    BY <1>3 DEF ConnFree, IInv, TypeOK
  <2>2. HasConn # {}
    BY <2>1, FS_EmptySet
  <2> QED
    BY <1>1, <2>2 DEF HasConn
<1> QED
  BY <1>1, <1>2, <1>3

-----------------------------------------------------------------------------
(* No call goes back *)

\* The order in which a call passes through its stages.
Rank(pc) ==
  IF pc = "idle" THEN 0 ELSE IF pc = "conn" THEN 1 ELSE IF pc = "read" THEN 2
  ELSE IF pc = "scan" THEN 3 ELSE IF pc = "lock" THEN 4 ELSE 5

\* c goes on to a later stage, or has fewer rows left to visit in this one.
Closer(c) ==
  \/ Rank(call[c].pc) < Rank(call'[c].pc)
  \/ /\ call'[c].pc = call[c].pc
     /\ call'[c].todo \subseteq call[c].todo /\ call'[c].todo # call[c].todo

\* A step is a lease that lapses, or brings one call closer to its end and leaves
\* the others where they are.
EveryStepCounts ==
  [][ \/ \E j \in Job : Lapse(j)
      \/ \E c \in Call : Closer(c) /\ \A d \in Call \ {c} : call'[d] = call[d] ]_vars

\* Whatever form a step has, it goes forward.
LEMMA CloserStep ==
  ASSUME IInv, [Next]_vars
  PROVE  \/ UNCHANGED vars
         \/ \E j \in Job : Lapse(j)
         \/ \E c \in Call : Closer(c) /\ \A d \in Call \ {c} : call'[d] = call[d]
<1> USE DEF IInv, TypeOK
<1>1. ASSUME NEW c \in Call, Arrives(c) PROVE Closer(c) /\ \A d \in Call \ {c} : call'[d] = call[d]
  <2>1. call[c].pc = "idle" /\ call'[c].pc = "conn" /\ \A d \in Call \ {c} : call'[d] = call[d]
    BY <1>1 DEF Arrives, Idle
  <2> QED
    BY <2>1 DEF Closer, Rank
<1>2. ASSUME NEW c \in Call, Refused(c) \/ \E heard \in BOOLEAN : Commit(c, heard)
      PROVE  Closer(c) /\ \A d \in Call \ {c} : call'[d] = call[d]
  <2>1. call[c].pc \in {"conn"} \cup Held
    BY <1>2 DEF Refused, Commit, Held
  <2>2. PICK answer \in Answers : End(c, answer)
    BY <1>2 DEF Refused, Commit, Answers
  <2>3. call'[c].pc = "done" /\ \A d \in Call \ {c} : call'[d] = call[d]
    BY <2>2, EndEffect
  <2> QED
    BY <2>1, <2>3 DEF Closer, Rank, Held
<1>3. ASSUME NEW c \in Call, Begins(c) \/ Decides(c) \/ Starts(c)
      PROVE  Closer(c) /\ \A d \in Call \ {c} : call'[d] = call[d]
  <2>1. \/ call[c].pc = "conn" /\ call'[c].pc \in {"read", "lock"}
        \/ call[c].pc = "read" /\ call'[c].pc = "scan"
        \/ call[c].pc = "scan" /\ call'[c].pc = "lock"
    BY <1>3 DEF Begins, Decides, Starts, CallState
  <2>2. \A d \in Call \ {c} : call'[d] = call[d]
    BY <1>3 DEF Begins, Decides, Starts
  <2> QED
    BY <2>1, <2>2 DEF Closer, Rank
<1>4. ASSUME NEW c \in Call, NEW j \in Job, Takes(c, j) \/ Skips(c, j)
      PROVE  Closer(c) /\ \A d \in Call \ {c} : call'[d] = call[d]
  <2>1. j \in call[c].todo /\ \A d \in Call \ {c} : call'[d] = call[d]
    BY <1>4 DEF Takes, Take, Skips, Skip
  <2>2. call'[c].pc = call[c].pc /\ call'[c].todo = call[c].todo \ {j}
    BY <1>4 DEF Takes, Take, Skips, Skip, CallState
  <2> QED
    BY <2>1, <2>2 DEF Closer
<1> QED
  BY <1>1, <1>2, <1>3, <1>4, StepForms

-----------------------------------------------------------------------------
(* What a call that can go on does *)

\* The values l and k that an end of c, a scan, a row taken and a row passed over
\* leave in lock and call: End, Scan, Take and Skip with their primes named.
Ends(c, answer, l, k) ==
  /\ k = [call EXCEPT ![c] =
       [@ EXCEPT !.pc = "done", !.answer = answer, !.limit = NULL, !.write = NULL,
                 !.todo = {}, !.batch = Kept(c, answer)]]
  /\ l = Unlocked(c)

Scans(c, l, k) ==
  LET found == {j \in Job : Matches(c, j)} IN
  \/ /\ found = {} /\ Settling(c)
     /\ Ends(c, IF call[c].op = "retry" THEN "Internal" ELSE "FailedPrecondition", l, k)
  \/ /\ found # {} \/ ~Settling(c)
     /\ k = [call EXCEPT ![c].pc = "lock", ![c].todo = found]
     /\ l = lock

Locks(c, j, l, k) ==
  /\ k = [call EXCEPT ![c].todo = @ \ {j}, ![c].batch = @ \cup {j}]
  /\ l = [lock EXCEPT ![j] = c]

Passes(c, j, l, k) == k = [call EXCEPT ![c].todo = @ \ {j}] /\ l = lock

\* t, l and k are values of table, lock and call behind a step of c that has its
\* connection.
Served(c, t, l, k) ==
  \/ /\ call[c].pc = "read" /\ t = table
     /\ \/ /\ Holds(call[c].worker, call[c].job)
           /\ k = [call EXCEPT ![c].pc = "scan", ![c].write =
                IF table[call[c].job].attempt < table[call[c].job].max_attempts
                THEN "pending" ELSE "failed"]
           /\ l = lock
        \/ ~Holds(call[c].worker, call[c].job) /\ Ends(c, "FailedPrecondition", l, k)
  \/ call[c].pc = "scan" /\ t = table /\ Scans(c, l, k)
  \/ /\ call[c].pc = "lock" /\ Settling(c) /\ t = table
     /\ \E j \in call[c].todo :
          /\ lock[j] = NULL
          /\ IF Matches(c, j) THEN Locks(c, j, l, k)
             ELSE Ends(c, IF call[c].op = "retry" THEN "Internal" ELSE "FailedPrecondition", l, k)
  \/ /\ call[c].pc = "lock" /\ ~Settling(c) /\ ~Full(c) /\ t = table
     /\ \E j \in call[c].todo :
          IF lock[j] = NULL /\ Matches(c, j) THEN Locks(c, j, l, k) ELSE Passes(c, j, l, k)
  \/ /\ call[c].pc = "lock" /\ (call[c].todo = {} \/ Full(c))
     /\ t = [j \in Job |-> IF j \in call[c].batch THEN Written(c, j) ELSE table[j]]
     /\ Ends(c, "OK", l, k)

\* The same of a call that waits for one.
Connected(c, t, l, k) ==
  /\ call[c].pc = "conn" /\ ConnFree /\ t = table
  /\ \/ call[c].op # "retry" /\ Scans(c, l, k)
     \/ call[c].op = "retry" /\ k = [call EXCEPT ![c].pc = "read"] /\ l = lock

\* c has a step to take once it has its connection, and with getting it.
CanBeServed(c) == \E t, l, k : Served(c, t, l, k)

CanStep(c) == \E t, l, k : Served(c, t, l, k) \/ Connected(c, t, l, k)

\* Whenever a call is under way, one of the calls under way has a step to take.
SomebodyCanStep ==
  (\E c \in Call : call[c].pc \in {"conn"} \cup Held) => \E c \in Call : CanStep(c)

\* A claim or a sweep that has its connection has a step to take.
BatchesCanStep ==
  \A c \in Call : ~Settling(c) /\ call[c].pc \in Held => CanBeServed(c)

\* Such a state is behind a step of the specification.
LEMMA ServedIsStep ==
  ASSUME TypeOK, NEW c \in Call, Served(c, table', lock', call'), pool' = pool
  PROVE  Serve(c)
<1>1. ASSUME NEW answer, Ends(c, answer, lock', call') PROVE End(c, answer)
  BY <1>1 DEF Ends, End
<1>2. ASSUME Scans(c, lock', call') PROVE Scan(c)
  BY <1>1, <1>2 DEF Scans, Scan, NoRow
<1>3. ASSUME NEW j, Locks(c, j, lock', call') PROVE Take(c, j)
  BY <1>3 DEF Locks, Take
<1>4. ASSUME NEW j, Passes(c, j, lock', call') PROVE Skip(c, j)
  BY <1>4 DEF Passes, Skip
<1>5. call[c].todo \subseteq Job
  BY DEF TypeOK, CallState
<1>6. CASE call[c].pc = "read"
  <2>1. RetryRead(c)
    BY <1>1, <1>6 DEF Served, RetryRead
  <2> QED
    BY <2>1 DEF Serve
<1>7. CASE call[c].pc = "scan"
  <2>1. RetryWrite(c)
    BY <1>2, <1>7 DEF Served, RetryWrite
  <2> QED
    BY <2>1 DEF Serve
<1>8. ASSUME call[c].pc = "lock", Settling(c), table' = table, NEW j \in call[c].todo,
             lock[j] = NULL,
             IF Matches(c, j) THEN Locks(c, j, lock', call')
             ELSE Ends(c, IF call[c].op = "retry" THEN "Internal" ELSE "FailedPrecondition",
                       lock', call')
      PROVE  Serve(c)
  <2>1. Update(c)
    BY <1>1, <1>3, <1>8 DEF Update, NoRow
  <2> QED
    BY <2>1 DEF Serve
<1>9. ASSUME call[c].pc = "lock", ~Settling(c), ~Full(c), table' = table,
             NEW j \in call[c].todo,
             IF lock[j] = NULL /\ Matches(c, j) THEN Locks(c, j, lock', call')
             ELSE Passes(c, j, lock', call')
      PROVE  Serve(c)
  <2>1. j \in Job /\ Visit(c, j)
    BY <1>3, <1>4, <1>5, <1>9 DEF Visit
  <2> QED
    BY <2>1 DEF Serve
<1>10. ASSUME call[c].pc = "lock", call[c].todo = {} \/ Full(c),
              table' = [j \in Job |-> IF j \in call[c].batch THEN Written(c, j) ELSE table[j]],
              Ends(c, "OK", lock', call')
       PROVE  Serve(c)
  <2>1. Commit(c, TRUE)
    BY <1>1, <1>10 DEF Commit
  <2> QED
    BY <2>1 DEF Serve
<1> QED
  BY <1>6, <1>7, <1>8, <1>9, <1>10 DEF Served

\* The same with getting a connection.
LEMMA ConnectedIsStep ==
  ASSUME NEW c \in Call, Connected(c, table', lock', call'), pool' = pool
  PROVE  Acquire(c)
<1>1. ASSUME NEW answer, Ends(c, answer, lock', call') PROVE End(c, answer)
  BY <1>1 DEF Ends, End
<1>2. ASSUME Scans(c, lock', call') PROVE Scan(c)
  BY <1>1, <1>2 DEF Scans, Scan, NoRow
<1> QED
  BY <1>2 DEF Connected, Acquire

\* A scan leaves the call with its rows, or without a run to settle.
LEMMA ScansSomewhere == ASSUME NEW c \in Call PROVE \E l, k : Scans(c, l, k)
<1> DEFINE found == {j \in Job : Matches(c, j)}
<1>1. CASE found = {} /\ Settling(c)
  BY <1>1 DEF Scans, Ends
<1>2. CASE found # {} \/ ~Settling(c)
  BY <1>2 DEF Scans
<1> QED
  BY <1>1, <1>2

\* Nothing that CanGoOn names is missing for a step.
LEMMA GoingOnIsServed ==
  ASSUME IInv, NEW c \in Call, CanGoOn(c), call[c].pc # "conn"
  PROVE  CanBeServed(c)
<1>1. CASE call[c].pc = "read"
  BY <1>1 DEF CanBeServed, Served, Ends
<1>2. CASE call[c].pc = "scan"
  BY <1>2, ScansSomewhere DEF CanBeServed, Served
<1>3. CASE call[c].pc = "lock" /\ (call[c].todo = {} \/ Full(c))
  BY <1>3 DEF CanBeServed, Served, Ends
<1>4. CASE call[c].pc = "lock" /\ call[c].todo # {} /\ ~Full(c)
  <2>1. PICK j \in call[c].todo : TRUE
    BY <1>4
  <2>2. CASE Settling(c)
    <3>1. lock[j] = NULL
      BY <1>4, <2>2 DEF CanGoOn
    <3> QED
      BY <1>4, <2>2, <3>1 DEF CanBeServed, Served, Locks, Ends
  <2>3. CASE ~Settling(c)
    BY <1>4, <2>3 DEF CanBeServed, Served, Locks, Passes
  <2> QED
    BY <2>2, <2>3
<1> QED
  BY <1>1, <1>2, <1>3, <1>4 DEF CanGoOn

\* The same with getting a connection.
LEMMA GoingOnIsAStep == ASSUME IInv, NEW c \in Call, CanGoOn(c) PROVE CanStep(c)
<1>1. CASE call[c].pc = "conn"
  BY <1>1, ScansSomewhere DEF CanGoOn, CanStep, Connected
<1>2. CASE call[c].pc # "conn"
  BY <1>2, GoingOnIsServed DEF CanBeServed, CanStep
<1> QED
  BY <1>1, <1>2

-----------------------------------------------------------------------------
(* Theorems *)

\* The table, the locks, the calls and the pool stay within their types: no
\* statement writes a row that is not one.  (The queries of internal/dao.)
THEOREM TypeCorrect == Spec => []TypeOK
<1>1. IInv => TypeOK
  BY DEF IInv
<1> QED
  BY <1>1, IInvariant, PTL

\* Of any number of settles of one run at most one is told that it took: the
\* UPDATE reads its guard again on the row the wait left.  (claimed_by = worker
\* AND status = 'claimed' in pg.jobSettle.)
THEOREM RunsAreSettledOnce == Spec => []OneOkPerRun
<1>1. IInv => OneOkPerRun
  BY DEF IInv
<1> QED
  BY <1>1, IInvariant, PTL

\* A settle that was answered OK or FailedPrecondition may forget its run, for
\* its worker never holds the job again.  (ErrJobNotClaimed.)
THEOREM AnsweredRunsAreOver == Spec => []AnsweredRunIsOver
<1>1. IInv => AnsweredRunIsOver
  BY DEF IInv
<1> QED
  BY <1>1, IInvariant, PTL

\* A lease that has not lapsed is ended by a settle of the run it protects, and
\* by nothing else: a sweep whose snapshot is old finds the row locked, or its
\* predicate false.  (FOR UPDATE SKIP LOCKED.)
THEOREM LeasesProtectRuns == Spec => LeaseProtectsRun
<1> DEFINE Protected(j) ==
      table[j].status = "claimed" /\ ~table[j].lapsed /\ table'[j] # table[j] =>
        \/ table'[j] = [table[j] EXCEPT !.lapsed = TRUE]
        \/ \E c \in Call : /\ Settling(c) /\ call[c].pc = "lock" /\ call'[c].pc = "done"
                           /\ call[c].job = j
                           /\ call[c].worker = table[j].claimed_by
<1>1. ASSUME IInv, [Next]_vars, NEW j \in Job PROVE Protected(j)
  <2> USE <1>1 DEF IInv
  <2>1. ASSUME NEW c \in Call, call[c].pc = "lock", j \in call[c].batch,
               call'[c].pc = "done", table[j].status = "claimed", ~table[j].lapsed
        PROVE  Settling(c) /\ call[c].job = j /\ call[c].worker = table[j].claimed_by
    BY <2>1, WrittenRow
  <2> QED
    BY <2>1, RowStep
<1>2. IInv /\ [Next]_vars => [\A j \in Job : Protected(j)]_vars
  BY <1>1
<1> QED
  BY <1>2, IInvariant, PTL DEF Spec, LeaseProtectsRun

\* Statements that lock row by row move every job along its lifecycle: none is
\* begun twice at once or more often than it may, none is given back or given up
\* that was not being run.  (The statements of pg.jobClaim, pg.jobReap,
\* pg.jobSettle and pg.jobRetry together.)
THEOREM StatementsImplementLifecycle == Spec => ImplementsLifecycle
<1>1. ASSUME IInv, [Next]_vars, NEW j \in Job PROVE Lifecycle!JobStep(j)
  <2> USE <1>1 DEF IInv
  <2>1. table[j] \in Row
    BY DEF TypeOK
  <2>2. /\ table[j].attempt \in Nat /\ table[j].max_attempts \in Nat
        /\ table[j].attempt <= table[j].max_attempts
        /\ table[j].status = "pending" => table[j].attempt < table[j].max_attempts
    BY <2>1 DEF Row, RowsStand
  <2>3. CASE table'[j] = table[j]
    BY <2>3 DEF Lifecycle!JobStep, Lifecycle!Rest
  <2>4. CASE table'[j] = [table[j] EXCEPT !.lapsed = TRUE]
    <3>1. /\ table'[j].status = table[j].status /\ table'[j].attempt = table[j].attempt
          /\ table'[j].max_attempts = table[j].max_attempts
      BY <2>1, <2>4 DEF Row
    <3> QED
      BY <3>1 DEF Lifecycle!JobStep, Lifecycle!Rest
  <2>5. ASSUME NEW c \in Call, call[c].pc = "lock", j \in call[c].batch,
               table'[j] = Written(c, j)
        PROVE  Lifecycle!JobStep(j)
    <3> DEFINE w == table'[j]
    <3>1. w.max_attempts = table[j].max_attempts
      BY <2>5, WrittenRow
    <3>2. CASE /\ table[j].status = "pending" /\ w.status = "claimed"
               /\ w.attempt = table[j].attempt + 1
      BY <2>2, <3>1, <3>2 DEF Lifecycle!JobStep, Lifecycle!Begin, Lifecycle!Moves
    <3>3. CASE /\ table[j].status = "claimed" /\ w.attempt = table[j].attempt
               /\ w.status = IF table[j].attempt < table[j].max_attempts
                             THEN "pending" ELSE "abandoned"
      BY <2>2, <3>1, <3>3
         DEF Lifecycle!JobStep, Lifecycle!GiveBack, Lifecycle!Abandon, Lifecycle!Moves
    <3>4. CASE /\ Settling(c) /\ j = call[c].job
               /\ table[j].status = "claimed" /\ table[j].claimed_by = call[c].worker
               /\ w.status = call[c].write
               /\ call[c].write \in {"pending", "succeeded", "failed"}
               /\ w.attempt = table[j].attempt
      <4>1. w.status = "pending" => table[j].attempt < table[j].max_attempts
        <5>1. w.status = "pending" => call[c].op = "retry"
          BY <2>5, <3>4 DEF SettlesStand, Settling
        <5> QED
          BY <2>5, <3>4, <5>1 DEF RetriesStand, Holds
      <4> QED
        BY <3>1, <3>4, <4>1
           DEF Lifecycle!JobStep, Lifecycle!GiveBack, Lifecycle!Finish, Lifecycle!Moves
    <3> QED
      BY <2>5, <3>2, <3>3, <3>4, WrittenRow
  <2> QED
    BY <2>3, <2>4, <2>5, RowStep
<1>2. IInv /\ [Next]_vars => [Lifecycle!Next]_vars
  BY <1>1 DEF Lifecycle!Next
<1> QED
  BY <1>2, IInvariant, PTL DEF Spec, ImplementsLifecycle

\* However many calls are sent, the pool has no more connections out than the
\* configuration allows: retry's transaction keeps the one it began with.
\* (SetMaxOpenConns in the preset, and RunInTx around retry.)
THEOREM PoolIsNeverOverdrawn == Spec => []PoolIsKept
<1>1. Init => PoolIsKept
  <2> SUFFICES ASSUME Init PROVE PoolIsKept
    OBVIOUS
  <2>1. HasConn = {}
    BY DEF Init, Idle, HasConn, Held
  <2>2. pool \in Int
    BY ConstantsAssumption DEF Init, newPostgresPreset, PostgresMaxOpenConns, LoadEnv,
                               PostgresMaxOpenConnsDefault
  <2> QED
    BY <2>1, <2>2, FS_EmptySet DEF PoolIsKept
<1>2. IInv /\ PoolIsKept /\ [Next]_vars => PoolIsKept'
  BY PoolStep
<1> QED
  BY <1>1, <1>2, IInvariant, PTL DEF Spec

\* The calls under way never all wait for each other, for a connection or for a
\* row, however small the pool: who waits for a connection holds no row, and who
\* holds a row waits for none.  (FOR UPDATE SKIP LOCKED in the batches, one row to
\* a settle, one connection to a transaction.)
THEOREM CallsNeverDeadlock == Spec => []SomebodyCanStep
<1>1. Init => TodoIsLeft
  BY DEF Init, Idle, TodoIsLeft
<1>2. IInv /\ TodoIsLeft /\ [Next]_vars => TodoIsLeft'
  BY TodoStep
<1>3. IInv /\ TodoIsLeft => SomebodyCanStep
  BY SomebodyGoesOn, GoingOnIsAStep DEF SomebodyCanStep
<1> QED
  BY <1>1, <1>2, <1>3, IInvariant, PTL DEF Spec

\* A claim or a sweep that has its connection waits for nobody, whoever holds the
\* rows it meets.  (FOR UPDATE SKIP LOCKED.)
THEOREM BatchesNeverWait == Spec => []BatchesCanStep
<1>1. ASSUME IInv, NEW c \in Call, ~Settling(c), call[c].pc \in Held PROVE CanBeServed(c)
  <2>1. call[c].pc = "lock"
    BY <1>1 DEF IInv, CallsStand, Settling, Held
  <2> QED
    BY <1>1, <2>1, GoingOnIsServed DEF CanGoOn
<1>2. IInv => BatchesCanStep
  BY <1>1 DEF BatchesCanStep
<1> QED
  BY <1>2, IInvariant, PTL

\* No call goes back: every step but a lapse brings one call closer to its end.  As
\* no call has endlessly many stages or rows before it and some call can always
\* step, calls that are let go on all end.
THEOREM CallsOnlyGoForward == Spec => EveryStepCounts
<1>1. IInv /\ [Next]_vars =>
        [ \/ \E j \in Job : Lapse(j)
          \/ \E c \in Call : Closer(c) /\ \A d \in Call \ {c} : call'[d] = call[d] ]_vars
  BY CloserStep
<1> QED
  BY <1>1, IInvariant, PTL DEF Spec, EveryStepCounts
=============================================================================
