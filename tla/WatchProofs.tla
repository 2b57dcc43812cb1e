---------------------------- MODULE WatchProofs -----------------------------
(***************************************************************************)
(* Theorems about JobWatch and WatchClient: what the callers of JobGet and *)
(* JobWatch see of the jobs, for any number of callers, jobs and owners    *)
(* and any way the calls, the jobs and the connections interleave.         *)
(***************************************************************************)
EXTENDS WatchClient, SequenceTheorems, TLAPS

-----------------------------------------------------------------------------
(* The handlers: the inductive invariant *)

\* The history of a job ends with what the job is; nothing but a purge follows
\* the end of a job.
HistoryStands ==
  \A j \in Job :
    /\ \A n \in 1..Len(history[j]) :
         /\ history[j][n] \in {"pending", "claimed"} \cup Life!Settled
         /\ n < Len(history[j]) => history[j][n] \notin Life!Settled
    /\ phase[j] = "new" <=> Len(history[j]) = 0
    /\ phase[j] \in Status => phase[j] = history[j][Len(history[j])]
    /\ phase[j] = "purged" => history[j][Len(history[j])] \in Life!Settled

\* s is what job j was at some time.
IsOf(s, j) ==
  /\ s \in Snapshot
  /\ s.at \in 1..Len(history[j])
  /\ s.status = history[j][s.at]

\* What a handler has in hand is of its request's job, and that of its owner; it
\* never sends what is older than what it sent; it never ends a stream before
\* the job has ended.
CallStands(c) ==
  LET k == call[c] IN
  /\ k.pc \notin {"idle", "InvalidArgument"} => k.job \in Job /\ k.owner \in Owner
  /\ k.pc \in {"idle", "InvalidArgument"} => k.read = Unsent
  /\ k.read # Unsent =>
       IsOf(k.read, k.job) /\ owner[k.job] = k.owner /\ phase[k.job] # "new"
  /\ k.last # Unsent =>
       k.read # Unsent /\ IsOf(k.last, k.job) /\ k.last.at <= k.read.at
  /\ k.pc = "send" =>
       /\ k.read # Unsent /\ caught[c][k.job] <= k.read.at
       /\ k.rpc = "watch" /\ k.last # Unsent => k.read.status # k.last.status
  /\ k.rpc = "get" /\ k.pc \in Serving => k.last = Unsent
  /\ k.pc = "NotFound" /\ k.last # Unsent => phase[k.job] = "purged"
  /\ k.pc = "OK" /\ k.rpc = "watch" => k.last # Unsent /\ k.last.status \in Life!Settled

CallsStand == \A c \in Caller : CallStands(c)

\* Nobody has caught up with what has not happened.
NobodyIsAhead == \A c \in Caller, j \in Job : caught[c][j] <= Len(history[j])

IInv == TypeOK /\ HistoryStands /\ CallsStand /\ NobodyIsAhead

-----------------------------------------------------------------------------
(* The clients: the inductive invariant *)

\* The status c has received before the n-th frame on its way.
Before(c, n) == IF n = 1 THEN got[c] ELSE wire[c][n - 1].status

\* The stream of c has sent a snapshot, and c, if it goes on receiving, has it as
\* its last before frame n.
LastIsBefore(c, n) ==
  call[c].last # Unsent /\ Before(c, n) = jobStatusToProto(call[c].last.status)

\* Whatever is on its way, an OK that ends a stream comes behind the last
\* snapshot of the stream, a snapshot comes behind one with another status, and a
\* stream that still runs over a whole connection has its last snapshot on its
\* way, or received.
WireStands(c) ==
  stub[c] = "open" /\ call[c].rpc = "watch" =>
    /\ \A n \in 1..Len(wire[c]) :
         /\ wire[c][n].code = "OK" => call[c].pc = "OK" /\ LastIsBefore(c, n)
         /\ wire[c][n].code = NULL => wire[c][n].status # Before(c, n)
    /\ ~broken[c] /\ call[c].pc \in Serving =>
         IF call[c].last = Unsent THEN Before(c, Len(wire[c]) + 1) = NULL
         ELSE LastIsBefore(c, Len(wire[c]) + 1)

WiresStand == \A c \in Caller : WireStands(c)

\* A caller that received the OK of a stream received the last snapshot first.
EndStands(c) ==
  stub[c] = "OK" /\ call[c].rpc = "watch" => call[c].pc = "OK" /\ LastIsBefore(c, 1)

EndsStand == \A c \in Caller : EndStands(c)

ClientIInv == ClientTypeOK /\ IInv /\ WiresStand /\ EndsStand

-----------------------------------------------------------------------------
(* The jobs move *)

\* A job moves alone: it is created, runs, ends, and is purged once it has ended.
LEMMA JobMovesEffect ==
  ASSUME TypeOK, NEW j \in Job, JobMoves(j)
  PROVE  /\ \A i \in Job \ {j} : phase'[i] = phase[i] /\ history'[i] = history[i]
         /\ \/ phase[j] = "new" /\ phase'[j] = "pending"
            \/ /\ phase[j] \in {"pending", "claimed"}
               /\ phase'[j] \in {"pending", "claimed"} \cup Life!Settled
            \/ phase[j] \in Life!Settled /\ phase'[j] = "purged"
         /\ history'[j] = IF phase'[j] = "purged" THEN history[j]
                          ELSE Append(history[j], phase'[j])
<1> USE DEF TypeOK
<1>1. \A i \in Job \ {j} : phase'[i] = phase[i]
  BY DEF JobMoves
<1>2. \/ phase[j] = "new" /\ phase'[j] = "pending"
      \/ /\ phase[j] \in {"pending", "claimed"}
         /\ phase'[j] \in {"pending", "claimed"} \cup Life!Settled
      \/ phase[j] \in Life!Settled /\ phase'[j] = "purged"
  <2>1. Life!JobStep(j) /\ phase'[j] # phase[j]
    BY DEF JobMoves
  <2> QED
    BY <2>1 DEF Life!JobStep, Life!Create, Life!Begin, Life!GiveBack, Life!Finish, Life!Abandon,
                Life!Forget, Life!Rest, Life!Moves, Life!Settled
<1>3. phase'[j] \in Status <=> phase'[j] # "purged"
  BY <1>2 DEF Status, Life!Settled
<1>4. history' = IF phase'[j] \in Status
                 THEN [history EXCEPT ![j] = Append(@, phase'[j])] ELSE history
  BY DEF JobMoves
<1> QED
  BY <1>1, <1>2, <1>3, <1>4

\* What has happened to a job has happened.
LEMMA HistoryGrows ==
  ASSUME TypeOK, [Next]_vars, NEW j \in Job
  PROVE  /\ history[j] \in Seq(Status) /\ Len(history'[j]) >= Len(history[j])
         /\ \A n \in 1..Len(history[j]) : history'[j][n] = history[j][n]
<1>1. history[j] \in Seq(Status) /\ Len(history[j]) \in Nat
  BY LenProperties DEF TypeOK
<1>2. CASE history'[j] = history[j]
  BY <1>1, <1>2
<1>3. ASSUME NEW i \in Job, JobMoves(i), history'[j] # history[j]
      PROVE  /\ Len(history'[j]) >= Len(history[j])
             /\ \A n \in 1..Len(history[j]) : history'[j][n] = history[j][n]
  <2>1. i = j /\ history'[j] = Append(history[j], phase'[j]) /\ phase'[j] \in Status
    BY <1>3, JobMovesEffect DEF Status, Life!Settled
  <2> QED
    BY <1>1, <2>1, AppendProperties
<1>4. (\A i \in Job : ~JobMoves(i)) => history' = history
  BY DEF Next, Calling, Begin, HangUp, JobWatching, Read, Send, PollTick, ReadFails, SendFails,
         ContextDone, lifeVars, vars
<1> QED
  BY <1>1, <1>2, <1>3, <1>4

\* The history of every job stands whichever way the job moves.
LEMMA HistoryStep == ASSUME TypeOK, HistoryStands, [Next]_vars PROVE HistoryStands'
<1> DEFINE Stands(j) ==
      /\ \A n \in 1..Len(history'[j]) :
           /\ history'[j][n] \in {"pending", "claimed"} \cup Life!Settled
           /\ n < Len(history'[j]) => history'[j][n] \notin Life!Settled
      /\ phase'[j] = "new" <=> Len(history'[j]) = 0
      /\ phase'[j] \in Status => phase'[j] = history'[j][Len(history'[j])]
      /\ phase'[j] = "purged" => history'[j][Len(history'[j])] \in Life!Settled
<1> SUFFICES ASSUME NEW j \in Job PROVE Stands(j)
  BY DEF HistoryStands, Life!Settled
<1>1. CASE phase'[j] = phase[j] /\ history'[j] = history[j]
  BY <1>1 DEF HistoryStands
<1>2. CASE JobMoves(j)
  <2> DEFINE h == history[j]
             p == phase'[j]
  <2>1. h \in Seq(Status) /\ Len(h) \in Nat
    BY LenProperties DEF TypeOK
  <2>2. CASE phase[j] \in Life!Settled /\ p = "purged"
    <3>1. history'[j] = h /\ Len(h) >= 1 /\ h[Len(h)] \in Life!Settled
      BY <1>2, <2>2, JobMovesEffect DEF HistoryStands, Status, Life!Settled
    <3> QED
      BY <2>2, <3>1 DEF HistoryStands, Status, Life!Settled
  <2>3. CASE /\ phase[j] \in {"new", "pending", "claimed"}
             /\ p \in {"pending", "claimed"} \cup Life!Settled
    <3>1. history'[j] = Append(h, p)
      BY <1>2, <2>3, JobMovesEffect DEF Life!Settled
    <3>2. /\ Len(history'[j]) = Len(h) + 1
          /\ \A n \in 1..Len(h) : history'[j][n] = h[n]
          /\ history'[j][Len(h) + 1] = p
      BY <2>1, <2>3, <3>1, AppendProperties DEF Status, Life!Settled
    <3>3. \A n \in 1..Len(h) : h[n] \in {"pending", "claimed"}
      <4>1. ASSUME phase[j] # "new" PROVE Len(h) >= 1 /\ h[Len(h)] = phase[j]
        BY <2>3, <4>1 DEF HistoryStands, Status
      <4> QED
        <5>1. CASE phase[j] = "new"
          BY <5>1 DEF HistoryStands
        <5>2. CASE phase[j] # "new"
          <6>1. Len(h) >= 1 /\ h[Len(h)] \in {"pending", "claimed"}
            BY <2>3, <4>1, <5>2
          <6> QED
            BY <2>1, <6>1 DEF HistoryStands
        <5> QED
          BY <5>1, <5>2
    <3> QED
      BY <2>1, <2>3, <3>2, <3>3 DEF Life!Settled
  <2> QED
    BY <1>2, <2>2, <2>3, JobMovesEffect
<1>3. ASSUME NEW i \in Job, JobMoves(i), i # j
      PROVE  phase'[j] = phase[j] /\ history'[j] = history[j]
  BY <1>3, JobMovesEffect
<1>4. (\A i \in Job : ~JobMoves(i)) => history' = history /\ phase' = phase
  BY DEF Next, Calling, Begin, HangUp, JobWatching, Read, Send, PollTick, ReadFails, SendFails,
         ContextDone, lifeVars, vars
<1> QED
  BY <1>1, <1>2, <1>3, <1>4

-----------------------------------------------------------------------------
(* The handlers run *)

\* A read that finds the row has it as it is now; one that does not ends the call.
LEMMA ReadEffect ==
  ASSUME TypeOK, HistoryStands, CallsStand, NEW c \in Caller, Read(c)
  PROVE  LET k == call[c] IN
         /\ call[c].pc = "read" /\ k.job \in Job
         /\ call' \in [Caller -> Call] /\ \A d \in Caller \ {c} : call'[d] = call[d]
         /\ call'[c].rpc = k.rpc /\ call'[c].job = k.job /\ call'[c].owner = k.owner
         /\ call'[c].last = k.last
         /\ \/ /\ ~Visible(k.job, k.owner)
               /\ call'[c].read = k.read /\ call'[c].pc = "NotFound"
            \/ /\ Visible(k.job, k.owner)
               /\ call'[c].read = [status |-> phase[k.job], at |-> Len(history[k.job])]
               /\ IsOf(call'[c].read, k.job)
               /\ call'[c].pc = IF k.rpc = "get" \/ ToSend(call'[c]) THEN "send"
                                ELSE AfterRow(call'[c])
<1> DEFINE k == call[c]
           row == [status |-> phase[k.job], at |-> Len(history[k.job])]
<1>1. k \in Call /\ k.pc = "read" /\ k.job \in Job
  BY DEF Read, TypeOK, CallsStand, CallStands
<1>2. CASE ~Visible(k.job, k.owner) /\ call' = [call EXCEPT ![c].pc = "NotFound"]
  <2>1. /\ [k EXCEPT !.pc = "NotFound"] \in Call
        /\ call' = [call EXCEPT ![c] = [k EXCEPT !.pc = "NotFound"]]
    BY <1>1, <1>2 DEF Call, Ended
  <2> QED
    BY <1>1, <1>2, <2>1 DEF TypeOK, Call
<1>3. CASE Visible(k.job, k.owner)
  <2>1. phase[k.job] \in Status /\ Len(history[k.job]) \in Nat
    BY <1>1, <1>3, LenProperties DEF Visible, TypeOK, Phase
  <2>2. row \in Snapshot /\ IsOf(row, k.job)
    BY <1>1, <2>1 DEF IsOf, Snapshot, HistoryStands, Status
  <2> DEFINE taken == [k EXCEPT !.read = row]
             pc == IF k.rpc = "get" \/ ToSend(taken) THEN "send" ELSE AfterRow(taken)
             new == [taken EXCEPT !.pc = pc]
  <2>3. call' = [call EXCEPT ![c] = new]
    BY <1>1, <1>3 DEF Read, RowsRead
  <2>4. /\ taken \in Call /\ taken.read = row /\ taken.last = k.last
        /\ taken.rpc = k.rpc /\ taken.job = k.job /\ taken.owner = k.owner
    <3> HIDE DEF row
    <3> QED
      BY <1>1, <2>2 DEF Call
  <2>5. pc \in {"send", "OK", "select"}
    BY DEF AfterRow
  <2>6. /\ new \in Call /\ new.read = row /\ new.last = k.last /\ new.pc = pc
        /\ new.rpc = k.rpc /\ new.job = k.job /\ new.owner = k.owner
    <3> HIDE DEF pc, taken, row
    <3> QED
      BY <2>4, <2>5 DEF Call, Serving, Ended
  <2>7. ToSend(new) = ToSend(taken) /\ AfterRow(new) = AfterRow(taken)
    <3> HIDE DEF new, taken, row
    <3> QED
      BY <2>4, <2>6 DEF ToSend, AfterRow
  <2> HIDE DEF new, taken, row
  <2>8. call'[c] = new /\ call' \in [Caller -> Call] /\ \A d \in Caller \ {c} : call'[d] = call[d]
    BY <2>3, <2>6 DEF TypeOK
  <2> QED
    BY <1>1, <1>3, <2>2, <2>6, <2>7, <2>8 DEF row
<1> QED
  BY <1>2, <1>3 DEF Read

\* The row in hand is sent, and is the last that was.
LEMMA SendEffect ==
  ASSUME TypeOK, CallsStand, NEW c \in Caller, Send(c)
  PROVE  LET k == call[c] IN
         /\ k.pc = "send" /\ k.job \in Job /\ k.read # Unsent
         /\ call' \in [Caller -> Call] /\ \A d \in Caller \ {c} : call'[d] = call[d]
         /\ call'[c].rpc = k.rpc /\ call'[c].job = k.job /\ call'[c].owner = k.owner
         /\ call'[c].read = k.read /\ call'[c].last = k.read
         /\ call'[c].pc = IF k.rpc = "get" THEN "OK" ELSE AfterRow(k)
         /\ caught' \in [Caller -> [Job -> Nat]]
         /\ \A d \in Caller, j \in Job :
              \/ caught'[d][j] = caught[d][j]
              \/ d = c /\ j = k.job /\ caught'[d][j] = k.read.at
<1> DEFINE k == call[c]
           pc == IF k.rpc = "get" THEN "OK" ELSE AfterRow(k)
           new == [k EXCEPT !.last = k.read, !.pc = pc]
<1>1. k \in Call /\ k.pc = "send" /\ k.job \in Job /\ k.read # Unsent
  BY DEF Send, TypeOK, CallsStand, CallStands
<1>2. pc \in {"OK", "select"}
  BY DEF AfterRow
<1>3. /\ new \in Call /\ new.last = k.read /\ new.read = k.read /\ new.pc = pc
      /\ new.rpc = k.rpc /\ new.job = k.job /\ new.owner = k.owner
  <2> HIDE DEF k, pc
  <2> QED
    BY <1>1, <1>2 DEF Call, Serving, Ended
<1>4. call' = [call EXCEPT ![c] = new]
  BY DEF Send
<1>5. call'[c] = new /\ call' \in [Caller -> Call] /\ \A d \in Caller \ {c} : call'[d] = call[d]
  <2> HIDE DEF new
  <2> QED
    BY <1>3, <1>4 DEF TypeOK
<1>6. /\ caught' \in [Caller -> [Job -> Nat]]
      /\ \A d \in Caller, j \in Job :
           \/ caught'[d][j] = caught[d][j]
           \/ d = c /\ j = k.job /\ caught'[d][j] = k.read.at
  <2> DEFINE j0 == k.job
             at == k.read.at
             map == [caught[c] EXCEPT ![j0] = at]
  <2>1. at \in Nat
    BY <1>1 DEF Call, Snapshot
  <2>2. caught' = caught \/ caught' = [caught EXCEPT ![c] = map]
    BY DEF Send
  <2>3. caught \in [Caller -> [Job -> Nat]] /\ j0 \in Job
    BY <1>1 DEF TypeOK
  <2> HIDE DEF at, j0, k
  <2>4. map \in [Job -> Nat] /\ \A j \in Job : map[j] = IF j = j0 THEN at ELSE caught[c][j]
    BY <2>1, <2>3
  <2> HIDE DEF map
  <2>5. caught' \in [Caller -> [Job -> Nat]]
    BY <2>2, <2>3, <2>4
  <2>6. ASSUME NEW d \in Caller, NEW j \in Job
        PROVE  caught'[d][j] = caught[d][j] \/ (d = c /\ j = j0 /\ caught'[d][j] = at)
    <3>1. caught'[d] = caught[d] \/ (d = c /\ caught'[d] = map)
      BY <2>2, <2>3
    <3> QED
      BY <2>4, <3>1
  <2> QED
    BY <2>5, <2>6 DEF at, j0
<1> HIDE DEF new
<1> QED
  BY <1>1, <1>3, <1>5, <1>6

\* What the other steps of a handler leave of its call.
Turns(c, pc) ==
  /\ call' \in [Caller -> Call] /\ \A d \in Caller \ {c} : call'[d] = call[d]
  /\ call'[c].pc = pc
  /\ call'[c].rpc = call[c].rpc /\ call'[c].job = call[c].job /\ call'[c].owner = call[c].owner
  /\ call'[c].read = call[c].read /\ call'[c].last = call[c].last

\* A poll, an error or the end of a context changes nothing a handler has in hand.
LEMMA OtherEffects ==
  ASSUME TypeOK, NEW c \in Caller
  PROVE  /\ PollTick(c) => call[c].pc = "select" /\ Turns(c, "read")
         /\ ReadFails(c) => call[c].pc = "read" /\ Turns(c, "Internal")
         /\ SendFails(c) => call[c].pc = "send" /\ Turns(c, "HungUp")
         /\ ContextDone(c) => call[c].pc = "select" /\ Turns(c, "HungUp")
         /\ HangUp(c) => call[c].pc \in Serving /\ Turns(c, call[c].pc)
<1>1. ASSUME NEW pc \in Serving \cup Ended, call' = [call EXCEPT ![c].pc = pc]
      PROVE  Turns(c, pc)
  <2>1. [call[c] EXCEPT !.pc = pc] \in Call
    BY DEF TypeOK, Call
  <2> QED
    BY <1>1, <2>1 DEF TypeOK, Call, Turns
<1>2. ASSUME HangUp(c) PROVE call[c].pc \in Serving /\ Turns(c, call[c].pc)
  <2>1. [call[c] EXCEPT !.gone = TRUE] \in Call
    BY DEF TypeOK, Call
  <2> QED
    BY <1>2, <2>1 DEF TypeOK, Call, Turns, HangUp
<1> QED
  BY <1>1, <1>2 DEF PollTick, ReadFails, SendFails, ContextDone, Serving, Ended

\* A call begins with nothing in hand.
LEMMA BeginEffect ==
  ASSUME TypeOK, NEW c \in Caller, Calling(c)
  PROVE  /\ call' \in [Caller -> Call] /\ \A d \in Caller \ {c} : call'[d] = call[d]
         /\ call[c].pc \in {"idle"} \cup Ended
         /\ call'[c].read = Unsent /\ call'[c].last = Unsent
         /\ \/ call'[c].pc = "InvalidArgument"
            \/ call'[c].pc = "read" /\ call'[c].job \in Job /\ call'[c].owner \in Owner
<1>1. PICK rpc \in {"get", "watch"}, j \in Job \cup {NULL}, o \in Owner \cup {NULL} :
        Begin(c, rpc, j, o)
  BY DEF Calling
<1> DEFINE pc == IF j = NULL \/ o = NULL THEN "InvalidArgument" ELSE "read"
           new == [ pc |-> pc, rpc |-> rpc, job |-> j, owner |-> o,
                    read |-> Unsent, last |-> Unsent, gone |-> FALSE ]
<1>2. new \in Call
  BY DEF Call, Serving, Ended
<1>3. /\ new.read = Unsent /\ new.last = Unsent
      /\ \/ new.pc = "InvalidArgument"
         \/ new.pc = "read" /\ new.job \in Job /\ new.owner \in Owner
  OBVIOUS
<1>4. call' = [call EXCEPT ![c] = new] /\ call[c].pc \in {"idle"} \cup Ended
  BY <1>1 DEF Begin
<1> HIDE DEF new
<1> QED
  BY <1>2, <1>3, <1>4 DEF TypeOK

-----------------------------------------------------------------------------
(* The invariant holds *)

\* What a caller's step leaves of the jobs.
LEMMA CallersMoveNoJob ==
  ASSUME NEW c \in Caller, Calling(c) \/ HangUp(c) \/ JobWatching(c)
  PROVE  /\ phase' = phase /\ begun' = begun /\ cap' = cap /\ history' = history
         /\ owner' = owner
  BY DEF Calling, Begin, HangUp, JobWatching, Read, Send, PollTick, ReadFails, SendFails,
         ContextDone, lifeVars

\* A job has one owner, and is neither created nor purged twice.
LEMMA JobsKeep ==
  ASSUME TypeOK, [Next]_vars, NEW j \in Job
  PROVE  /\ owner' = owner
         /\ phase[j] # "new" => phase'[j] # "new"
         /\ phase[j] = "purged" => phase'[j] = "purged"
<1>1. CASE UNCHANGED vars
  BY <1>1 DEF vars
<1>2. ASSUME NEW i \in Job, JobMoves(i)
      PROVE  /\ owner' = owner
             /\ phase[j] # "new" => phase'[j] # "new"
             /\ phase[j] = "purged" => phase'[j] = "purged"
  <2>1. owner' = owner
    BY <1>2 DEF JobMoves
  <2> QED
    BY <1>2, <2>1, JobMovesEffect DEF Life!Settled
<1>3. ASSUME NEW c \in Caller, Calling(c) \/ HangUp(c) \/ JobWatching(c)
      PROVE  owner' = owner /\ phase' = phase
  BY <1>3, CallersMoveNoJob
<1> QED
  BY <1>1, <1>2, <1>3 DEF Next

\* The rest of a step is on one call.
LEMMA OthersCalls ==
  ASSUME TypeOK, HistoryStands, CallsStand, NEW c \in Caller,
         Calling(c) \/ HangUp(c) \/ JobWatching(c)
  PROVE  /\ call' \in [Caller -> Call] /\ caught' \in [Caller -> [Job -> Nat]]
         /\ \A d \in Caller \ {c} : call'[d] = call[d] /\ caught'[d] = caught[d]
<1>1. CASE Send(c)
  <2>1. \A d \in Caller \ {c} : caught'[d] = caught[d]
    BY <1>1 DEF Send, TypeOK
  <2> QED
    BY <1>1, <2>1, SendEffect
<1>2. CASE ~Send(c)
  <2>1. caught' = caught
    BY <1>2 DEF Calling, Begin, HangUp, JobWatching, Read, PollTick, ReadFails, SendFails,
                ContextDone
  <2>2. call' \in [Caller -> Call] /\ \A d \in Caller \ {c} : call'[d] = call[d]
    BY <1>2, BeginEffect, ReadEffect, OtherEffects DEF JobWatching, Turns
  <2> QED
    BY <2>1, <2>2 DEF TypeOK
<1> QED
  BY <1>1, <1>2

\* Every step keeps the types.
LEMMA TypeStep == ASSUME IInv, [Next]_vars PROVE TypeOK'
<1> USE DEF IInv
<1>1. CASE UNCHANGED vars
  BY <1>1 DEF vars, TypeOK
<1>2. ASSUME NEW j \in Job, JobMoves(j) PROVE TypeOK'
  <2>1. phase' \in [Job -> Phase]
    BY <1>2 DEF JobMoves, TypeOK
  <2>2. begun' \in [Job -> Nat]
    BY <1>2 DEF JobMoves, TypeOK
  <2>3. cap' \in [Job -> Nat]
    BY <1>2, ConstantsAssumption DEF JobMoves, TypeOK
  <2>4. history' \in [Job -> Seq(Status)]
    <3>1. CASE phase'[j] \in Status
      <4>1. Append(history[j], phase'[j]) \in Seq(Status)
        BY <3>1, AppendProperties DEF TypeOK
      <4> QED
        BY <1>2, <3>1, <4>1 DEF JobMoves, TypeOK
    <3> QED
      BY <1>2, <3>1 DEF JobMoves, TypeOK
  <2>5. UNCHANGED <<owner, call, caught>>
    BY <1>2 DEF JobMoves
  <2> QED
    BY <2>1, <2>2, <2>3, <2>4, <2>5 DEF TypeOK
<1>3. ASSUME NEW c \in Caller, Calling(c) \/ HangUp(c) \/ JobWatching(c) PROVE TypeOK'
  BY <1>3, CallersMoveNoJob, OthersCalls DEF TypeOK
<1> QED
  BY <1>1, <1>2, <1>3 DEF Next

\* No job is cancelled: what a handler takes for the end of a job is one.
LEMMA TerminalIsSettled ==
  ASSUME HistoryStands, NEW j \in Job, NEW s, IsOf(s, j), isTerminalStatus(s.status)
  PROVE  s.status \in Life!Settled
  BY DEF HistoryStands, IsOf, isTerminalStatus

\* What a job was, it was, whatever happens next.
LEMMA IsOfForever ==
  ASSUME IInv, [Next]_vars, NEW j \in Job, NEW s, IsOf(s, j)
  PROVE  /\ s \in Snapshot /\ s.at \in 1..Len(history'[j])
         /\ s.status = history'[j][s.at]
<1>1. /\ Len(history[j]) \in Nat /\ Len(history'[j]) >= Len(history[j])
      /\ \A n \in 1..Len(history[j]) : history'[j][n] = history[j][n]
  BY HistoryGrows, LenProperties DEF IInv
<1>2. Len(history'[j]) \in Nat
  BY TypeStep, LenProperties DEF TypeOK
<1> QED
  BY <1>1, <1>2 DEF IsOf, Snapshot

\* A call on which no step is taken stands while the jobs move.
LEMMA RestingCallStands ==
  ASSUME IInv, [Next]_vars, NEW c \in Caller, call'[c] = call[c], caught'[c] = caught[c]
  PROVE  CallStands(c)'
<1> DEFINE k == call[c]
<1>1. CallStands(c)
  BY DEF IInv, CallsStand
<1>2. k.read # Unsent => k.job \in Job /\ IsOf(k.read, k.job)
  BY <1>1 DEF CallStands
<1>3. k.last # Unsent => k.job \in Job /\ IsOf(k.last, k.job)
  BY <1>1 DEF CallStands
<1>4. k.read # Unsent => IsOf(k.read, k.job)'
  BY <1>2, IsOfForever DEF IsOf
<1>5. k.last # Unsent => IsOf(k.last, k.job)'
  BY <1>3, IsOfForever DEF IsOf
<1>6. k.job \in Job =>
        /\ owner'[k.job] = owner[k.job]
        /\ phase[k.job] # "new" => phase'[k.job] # "new"
        /\ phase[k.job] = "purged" => phase'[k.job] = "purged"
  BY JobsKeep DEF IInv
<1> QED
  BY <1>1, <1>2, <1>3, <1>4, <1>5, <1>6 DEF CallStands

\* A caller's step leaves its call standing.
LEMMA MovingCallStands ==
  ASSUME IInv, NEW c \in Caller, Calling(c) \/ HangUp(c) \/ JobWatching(c)
  PROVE  CallStands(c)'
<1> DEFINE k == call[c]
<1>0. /\ phase' = phase /\ history' = history /\ owner' = owner
      /\ CallStands(c)
  BY CallersMoveNoJob DEF IInv, CallsStand
<1>1. CASE Calling(c)
  <2>1. /\ call'[c].read = Unsent /\ call'[c].last = Unsent
        /\ \/ call'[c].pc = "InvalidArgument"
           \/ call'[c].pc = "read" /\ call'[c].job \in Job /\ call'[c].owner \in Owner
    BY <1>1, BeginEffect DEF IInv
  <2> QED
    BY <2>1 DEF CallStands
<1>2. CASE Read(c)
  <2>1. /\ k.pc = "read" /\ k.job \in Job /\ k.owner \in Owner
        /\ call'[c].rpc = k.rpc /\ call'[c].job = k.job /\ call'[c].owner = k.owner
        /\ call'[c].last = k.last
    BY <1>0, <1>2, ReadEffect DEF IInv, CallStands
  <2>2. CASE /\ ~Visible(k.job, k.owner)
             /\ call'[c].read = k.read /\ call'[c].pc = "NotFound"
    BY <1>0, <2>1, <2>2 DEF CallStands, IsOf, Visible, Serving
  <2>3. CASE /\ Visible(k.job, k.owner)
             /\ call'[c].read = [status |-> phase[k.job], at |-> Len(history[k.job])]
             /\ IsOf(call'[c].read, k.job)
             /\ call'[c].pc = IF k.rpc = "get" \/ ToSend(call'[c]) THEN "send"
                              ELSE AfterRow(call'[c])
    <3>1. /\ IsOf(call'[c].read, k.job) /\ call'[c].read # Unsent
          /\ call'[c].read.at = Len(history[k.job])
          /\ owner[k.job] = k.owner /\ phase[k.job] # "new"
      <4>1. Len(history[k.job]) \in Nat
        BY <2>1, LenProperties DEF IInv, TypeOK
      <4> QED
        BY <2>3, <4>1 DEF Visible, IsOf, Unsent
    <3>2. k.last # Unsent => IsOf(k.last, k.job) /\ k.last.at <= Len(history[k.job])
      BY <1>0 DEF CallStands, IsOf
    <3>3. caught[c][k.job] <= Len(history[k.job])
      BY <2>1 DEF IInv, NobodyIsAhead
    <3>4. CASE k.rpc = "get" \/ ToSend(call'[c])
      <4>1. call'[c].pc = "send"
        BY <2>3, <3>4
      <4>2. call'[c].rpc = "watch" /\ k.last # Unsent => call'[c].read.status # k.last.status
        BY <2>1, <3>4 DEF ToSend
      <4>3. caught'[c][k.job] = caught[c][k.job]
        BY <1>2 DEF Read
      <4>4. k.rpc = "get" => k.last = Unsent
        BY <1>0, <2>1 DEF CallStands, Serving
      <4> QED
        BY <1>0, <2>1, <3>1, <3>2, <3>3, <4>1, <4>2, <4>3, <4>4 DEF CallStands, IsOf
    <3>5. CASE k.rpc # "get" /\ ~ToSend(call'[c])
      <4>1. call'[c].pc \in {"OK", "select"}
        BY <2>3, <3>5 DEF AfterRow
      <4>2. call'[c].pc = "OK" => call'[c].read.status \in Life!Settled
        <5>1. call'[c].pc = AfterRow(call'[c])
          BY <2>1, <2>3, <3>5
        <5> QED
          BY <2>1, <3>1, <5>1, TerminalIsSettled DEF AfterRow, IInv
      <4>3. k.last # Unsent /\ call'[c].read.status = k.last.status
        BY <2>1, <3>5 DEF ToSend
      <4> QED
        BY <1>0, <2>1, <3>1, <3>2, <3>5, <4>1, <4>2, <4>3 DEF CallStands, IsOf
    <3> QED
      BY <3>4, <3>5
  <2> QED
    BY <1>0, <1>2, <2>2, <2>3, ReadEffect DEF IInv
<1>3. CASE Send(c)
  <2>1. /\ k.pc = "send" /\ k.job \in Job /\ k.owner \in Owner /\ k.read # Unsent
        /\ call'[c].rpc = k.rpc /\ call'[c].job = k.job /\ call'[c].owner = k.owner
        /\ call'[c].read = k.read /\ call'[c].last = k.read
        /\ call'[c].pc = IF k.rpc = "get" THEN "OK" ELSE AfterRow(k)
    BY <1>0, <1>3, SendEffect DEF IInv, CallStands
  <2>2. call'[c].pc \in {"OK", "select"} /\ (call'[c].pc = "select" => k.rpc # "get")
    BY <2>1 DEF AfterRow
  <2>3. call'[c].pc = "OK" /\ k.rpc = "watch" => k.read.status \in Life!Settled
    <3>1. IsOf(k.read, k.job)
      BY <1>0, <2>1 DEF CallStands
    <3> QED
      BY <2>1, <3>1, TerminalIsSettled DEF AfterRow, IInv
  <2>4. /\ k.read.at \in Nat /\ IsOf(k.read, k.job)
        /\ owner[k.job] = k.owner /\ phase[k.job] # "new"
    BY <1>0, <2>1 DEF CallStands, IsOf, Snapshot
  <2> DEFINE k1 == call'[c]
  <2>5. /\ IsOf(call[c].read, call[c].job)' /\ IsOf(call[c].last, call[c].job)'
        /\ k1.read # Unsent /\ k1.last.at <= k1.read.at /\ k1.last = k1.read
        /\ owner'[k1.job] = k1.owner /\ phase'[k1.job] # "new"
        /\ k1.job \in Job /\ k1.owner \in Owner
        /\ k1.pc = "OK" /\ k1.rpc = "watch" => k1.last.status \in Life!Settled
        /\ k1.pc \in {"OK", "select"} /\ (k1.pc = "select" => k1.rpc # "get")
    BY <1>0, <2>1, <2>2, <2>3, <2>4 DEF IsOf
  <2> HIDE DEF k
  <2> QED
    BY <2>5 DEF CallStands, Serving
<1>4. CASE PollTick(c) \/ ReadFails(c) \/ SendFails(c) \/ ContextDone(c) \/ HangUp(c)
  <2>1. PICK pc : /\ Turns(c, pc) /\ k.pc \in Serving
                  /\ \/ pc \in {"read", "Internal", "HungUp"}
                     \/ pc = k.pc
    BY <1>4, OtherEffects DEF IInv, Serving
  <2>2. caught'[c] = caught[c]
    BY <1>4 DEF PollTick, ReadFails, SendFails, ContextDone, HangUp
  <2>3. /\ call'[c].pc = pc /\ call'[c].rpc = k.rpc /\ call'[c].job = k.job
        /\ call'[c].owner = k.owner /\ call'[c].read = k.read /\ call'[c].last = k.last
    BY <2>1 DEF Turns
  <2> QED
    BY <1>0, <2>1, <2>2, <2>3 DEF CallStands, IsOf, Serving
<1> QED
  BY <1>1, <1>2, <1>3, <1>4 DEF JobWatching

\* Every call stands after every step.
LEMMA CallsStep == ASSUME IInv, [Next]_vars PROVE CallsStand'
<1> SUFFICES ASSUME NEW c \in Caller PROVE CallStands(c)'
  BY DEF CallsStand
<1>1. CASE UNCHANGED vars \/ \E j \in Job : JobMoves(j)
  BY <1>1, RestingCallStands DEF JobMoves, vars
<1>2. ASSUME NEW d \in Caller, Calling(d) \/ HangUp(d) \/ JobWatching(d) PROVE CallStands(c)'
  <2>1. CASE d = c
    BY <1>2, <2>1, MovingCallStands
  <2>2. CASE d # c
    BY <1>2, <2>2, OthersCalls, RestingCallStands DEF IInv
  <2> QED
    BY <2>1, <2>2
<1> QED
  BY <1>1, <1>2 DEF Next

\* What is sent to a caller has happened to the job.
LEMMA AheadStep == ASSUME IInv, [Next]_vars PROVE NobodyIsAhead'
<1> SUFFICES ASSUME NEW c \in Caller, NEW j \in Job
             PROVE  caught'[c][j] <= Len(history'[j])
  BY DEF NobodyIsAhead
<1>1. Len(history'[j]) >= Len(history[j]) /\ Len(history[j]) \in Nat /\ Len(history'[j]) \in Nat
  BY HistoryGrows, TypeStep, LenProperties DEF IInv, TypeOK
<1>2. caught[c][j] \in Nat /\ caught[c][j] <= Len(history[j])
  BY DEF IInv, NobodyIsAhead, TypeOK
<1>3. CASE caught'[c][j] = caught[c][j]
  BY <1>1, <1>2, <1>3
<1>4. ASSUME NEW d \in Caller, Send(d), caught'[c][j] # caught[c][j]
      PROVE  caught'[c][j] <= Len(history'[j])
  <2>1. d = c /\ j = call[d].job /\ caught'[c][j] = call[d].read.at /\ call[d].read # Unsent
    BY <1>4, SendEffect DEF IInv
  <2>2. CallStands(d)
    BY DEF IInv, CallsStand
  <2> QED
    BY <1>1, <2>1, <2>2 DEF CallStands, IsOf
<1>5. (\A d \in Caller : ~Send(d)) => caught' = caught
  BY DEF Next, JobMoves, Calling, Begin, HangUp, JobWatching, Read, PollTick, ReadFails,
         SendFails, ContextDone, vars
<1> QED
  BY <1>3, <1>4, <1>5

\* At first no job has a history and no caller a call.
LEMMA IInvInit == ASSUME Init PROVE IInv
<1>1. TypeOK
  BY DEF TypeOK, Phase, Call, Init, Life!Init
<1>2. HistoryStands
  <2>1. \A j \in Job : phase[j] = "new" /\ Len(history[j]) = 0
    BY EmptySeq, LenProperties DEF Init, Life!Init
  <2> QED
    <3> SUFFICES ASSUME NEW j \in Job
                 PROVE  /\ \A n \in 1..Len(history[j]) : FALSE
                        /\ phase[j] = "new" /\ Len(history[j]) = 0 /\ "new" \notin Status
      BY DEF HistoryStands
    <3> QED
      BY <2>1 DEF Status
<1>3. CallsStand
  BY DEF CallsStand, CallStands, Serving, Init
<1>4. NobodyIsAhead
  <2>1. \A c \in Caller, j \in Job : caught[c][j] = 0 /\ Len(history[j]) = 0
    BY EmptySeq, LenProperties DEF Init, Life!Init
  <2> QED
    BY <2>1 DEF NobodyIsAhead
<1> QED
  BY <1>1, <1>2, <1>3, <1>4 DEF IInv

\* The jobs and the handlers together keep the invariant.
LEMMA IInvStep == ASSUME IInv, [Next]_vars PROVE IInv'
  BY TypeStep, HistoryStep, CallsStep, AheadStep DEF IInv

\* The handlers' inductive invariant holds.
LEMMA IInvariant == Spec => []IInv
<1>1. Init => IInv
  BY IInvInit
<1>2. IInv /\ [Next]_vars => IInv'
  BY IInvStep
<1> QED
  BY <1>1, <1>2, PTL DEF Spec

-----------------------------------------------------------------------------
(* What callers see *)

\* Every call, job and snapshot stays one of its type.
\* (The handlers of JobGet and JobWatch.)
THEOREM TypeCorrect == Spec => []TypeOK
<1>1. IInv => TypeOK
  BY DEF IInv
<1> QED
  BY <1>1, IInvariant, PTL

\* A stream that has sent a snapshot ends with not-found only for a job that was
\* purged: the row it saw was its caller's, and its owner never changes.
\* (dao.JobGet.Exec mapping no rows to ErrJobGetNotFound in the polling loop.)
THEOREM NotFoundMeansPurged == Spec => []NotFoundIsTrue
<1>1. IInv => NotFoundIsTrue
  BY DEF IInv, CallsStand, CallStands, NotFoundIsTrue
<1> QED
  BY <1>1, IInvariant, PTL

\* No row is in the hands of a handler whose request named another owner.
\* (The owner predicate of pg.jobGet.sql.)
THEOREM StrangersGetNothing == Spec => []NothingToStrangers
<1>1. IInv => NothingToStrangers
  BY DEF IInv, CallsStand, CallStands, NothingToStrangers
<1> QED
  BY <1>1, IInvariant, PTL

\* What a caller gets, on one stream or over many calls, never goes back in the
\* job's life.  (No cursor: every call answers from the row as it stands.)
THEOREM CallersSeeInOrder == Spec => SeenInOrder
<1> DEFINE InOrder == \A c \in Caller, j \in Job : caught'[c][j] >= caught[c][j]
<1>1. IInv /\ [Next]_vars => [InOrder]_vars
  <2> SUFFICES ASSUME IInv, Next, NEW c \in Caller, NEW j \in Job
               PROVE  caught'[c][j] >= caught[c][j]
    BY DEF vars
  <2>1. caught[c][j] \in Nat
    BY DEF IInv, TypeOK
  <2>2. ASSUME NEW d \in Caller, Send(d), caught'[c][j] # caught[c][j]
        PROVE  caught'[c][j] >= caught[c][j]
    <3>1. /\ d = c /\ j = call[d].job /\ caught'[c][j] = call[d].read.at
          /\ call[d].pc = "send"
      BY <2>2, SendEffect DEF IInv
    <3>2. caught[c][j] <= call[c].read.at /\ call[c].read \in Snapshot
      BY <3>1 DEF IInv, CallsStand, CallStands, IsOf
    <3> QED
      BY <2>1, <3>1, <3>2 DEF Snapshot
  <2>3. (\A d \in Caller : ~Send(d)) => caught' = caught
    BY DEF Next, JobMoves, Calling, Begin, HangUp, JobWatching, Read, PollTick, ReadFails,
           SendFails, ContextDone
  <2> QED
    BY <2>1, <2>2, <2>3
<1> QED
  BY <1>1, IInvariant, PTL DEF Spec, SeenInOrder

-----------------------------------------------------------------------------
(* The clients move *)

\* Whatever the clients do, the handlers and the jobs do what they do alone.
LEMMA ClientStepIsStep == [ClientNext]_allVars => [Next]_vars
<1>1. ASSUME ClientNext PROVE [Next]_vars
  <2>1. ASSUME NEW c \in Caller, Using(c) PROVE Calling(c) \/ UNCHANGED vars
    BY <2>1 DEF Using, ClientJobGet, ClientJobWatch, InvokeFails, Recv, Close, Expire
  <2>2. ASSUME NEW c \in Caller, DeadlinePasses(c) \/ Break(c) PROVE UNCHANGED vars
    BY <2>2 DEF DeadlinePasses, Break
  <2>3. ASSUME NEW c \in Caller, ContextEnds(c) \/ Handling(c)
        PROVE  HangUp(c) \/ JobWatching(c)
    BY <2>3 DEF ContextEnds, Handling
  <2> QED
    BY <1>1, <2>1, <2>2, <2>3 DEF ClientNext, Next
<1>2. (UNCHANGED allVars) => UNCHANGED vars
  BY DEF allVars
<1> QED
  BY <1>1, <1>2

\* The clients call the handlers as JobWatch lets callers call them.
\* (JobGetClient and JobWatchClient over the handlers.)
THEOREM ClientsImplementWatch == ClientSpec => Spec
<1>1. ClientInit => Init
  BY DEF ClientInit
<1> QED
  BY <1>1, ClientStepIsStep, PTL DEF ClientSpec, Spec

\* What a snapshot and the end of a call are on the wire.
Message(status) == [status |-> jobStatusToProto(status), code |-> NULL]
EndOf(pc) == [status |-> NULL, code |-> CodeOf(pc)]

\* A frame is a frame, and the OK is what a handler ended with.
LEMMA FramesAreFrames ==
  /\ \A status : Message(status) \in Frame /\ Message(status).code = NULL
  /\ \A pc \in Ended : EndOf(pc) \in Frame /\ (EndOf(pc).code = "OK" <=> pc = "OK")
<1>1. \A status : jobStatusToProto(status) \in JobStatusNumber
  BY DEF jobStatusToProto, JobStatusNumber
<1>2. \A pc \in Ended : CodeOf(pc) \in Codes /\ (CodeOf(pc) = "OK" <=> pc = "OK")
  BY DEF CodeOf, Ended, Codes
<1> QED
  BY <1>1, <1>2 DEF Message, EndOf, Frame

\* A message has a number, and the end of a call has a code.
LEMMA FramesAreCoded ==
  /\ \A status : jobStatusToProto(status) # NULL
  /\ \A pc \in Ended : EndOf(pc).code # NULL
<1>1. \A status : jobStatusToProto(status) \in JobStatusNumber
  BY DEF jobStatusToProto, JobStatusNumber
<1>2. \A pc \in Ended : CodeOf(pc) \in Codes
  BY DEF CodeOf, Ended, Codes
<1> QED
  BY <1>1, <1>2, NullAssumption DEF EndOf

\* Two statuses never look the same to a client.
LEMMA StatusesAreTold ==
  ASSUME NEW s \in Status, NEW t \in Status, s # t
  PROVE  jobStatusToProto(s) # jobStatusToProto(t)
  BY DEF Status, jobStatusToProto

\* What a handler's step sends.
LEMMA SentFrames ==
  ASSUME NEW c \in Caller
  PROVE  LET sends == call[c].pc = "send" /\ call'[c].pc # "HungUp"
             ends  == call'[c].pc \in Ended
             message == Message(call[c].read.status)
             end == EndOf(call'[c].pc) IN
         /\ Sent(c) \in Seq(Frame)
         /\ Len(Sent(c)) = (IF sends THEN 1 ELSE 0) + (IF ends THEN 1 ELSE 0)
         /\ sends => Sent(c)[1] = message
         /\ ends => Sent(c)[Len(Sent(c))] = end
<1> DEFINE sends == call[c].pc = "send" /\ call'[c].pc # "HungUp"
           ends == call'[c].pc \in Ended
           message == Message(call[c].read.status)
           end == EndOf(call'[c].pc)
           first == IF sends THEN <<message>> ELSE <<>>
           then == IF ends THEN <<end>> ELSE <<>>
<1>1. Sent(c) = first \o then
  BY DEF Sent, Message, EndOf
<1>2. message \in Frame
  BY FramesAreFrames
<1>3. ends => end \in Frame
  BY FramesAreFrames
<1> HIDE DEF sends, ends, message, end
<1>4. /\ first \in Seq(Frame) /\ Len(first) = (IF sends THEN 1 ELSE 0)
      /\ sends => first[1] = message
  BY <1>2
<1>5. /\ then \in Seq(Frame) /\ Len(then) = (IF ends THEN 1 ELSE 0)
      /\ ends => then[1] = end
  BY <1>3
<1> HIDE DEF first, then
<1>6. /\ first \o then \in Seq(Frame)
      /\ Len(first \o then) = Len(first) + Len(then)
      /\ \A n \in 1..Len(first) + Len(then) :
           (first \o then)[n] = IF n <= Len(first) THEN first[n] ELSE then[n - Len(first)]
  BY <1>4, <1>5, ConcatProperties
<1>7. sends => Sent(c)[1] = message
  BY <1>1, <1>4, <1>5, <1>6
<1>8. ends => Sent(c)[Len(Sent(c))] = end
  BY <1>1, <1>4, <1>5, <1>6
<1> QED
  BY <1>1, <1>4, <1>5, <1>6, <1>7, <1>8 DEF sends, ends, message, end

\* A call that is open or over, a step of another's leaves to the caller.
LEMMA OnesOwnStep ==
  ASSUME ClientTypeOK, NEW c \in Caller, Using(c) \/ DeadlinePasses(c) \/ Break(c)
           \/ ContextEnds(c) \/ Handling(c)
  PROVE  /\ stub' \in [Caller -> {"idle", "open"} \cup Codes]
         /\ got' \in [Caller -> JobStatusNumber \cup {NULL}]
         /\ wire' \in [Caller -> Seq(Frame)]
         /\ broken' \in [Caller -> BOOLEAN] /\ expired' \in [Caller -> BOOLEAN]
         /\ \A d \in Caller \ {c} :
              /\ stub'[d] = stub[d] /\ got'[d] = got[d] /\ wire'[d] = wire[d]
              /\ broken'[d] = broken[d]
<1> DEFINE Goal ==
      /\ stub' \in [Caller -> {"idle", "open"} \cup Codes]
      /\ got' \in [Caller -> JobStatusNumber \cup {NULL}]
      /\ wire' \in [Caller -> Seq(Frame)]
      /\ broken' \in [Caller -> BOOLEAN] /\ expired' \in [Caller -> BOOLEAN]
      /\ \A d \in Caller \ {c} :
           /\ stub'[d] = stub[d] /\ got'[d] = got[d] /\ wire'[d] = wire[d]
           /\ broken'[d] = broken[d]
<1> USE DEF ClientTypeOK
<1>0. <<>> \in Seq(Frame) /\ NULL \in JobStatusNumber \cup {NULL}
  BY EmptySeq
<1>1. CASE ClientJobGet(c) \/ ClientJobWatch(c)
  <2>1. Invoke(c) /\ (call'[c].pc \in Ended => call'[c].pc = "InvalidArgument")
    BY <1>1, BeginEffect DEF ClientJobGet, ClientJobWatch, Ended
  <2>2. \A f \in Frame : <<f>> \in Seq(Frame)
    OBVIOUS
  <2>3. [status |-> NULL, code |-> "InvalidArgument"] \in Frame
    BY DEF Frame, Codes
  <2>4. PICK w \in Seq(Frame) : wire' = [wire EXCEPT ![c] = w]
    BY <1>0, <2>1, <2>2, <2>3 DEF Invoke
  <2> QED
    BY <1>0, <2>1, <2>4 DEF Invoke
<1>2. CASE InvokeFails(c)
  BY <1>0, <1>2 DEF InvokeFails, Codes
<1>3. ASSUME NEW code \in Codes, EndCall(c, code), got' = got PROVE Goal
  BY <1>0, <1>3 DEF EndCall
<1>4. CASE Recv(c)
  <2>1. /\ Head(wire[c]) \in Frame /\ Tail(wire[c]) \in Seq(Frame)
        /\ Head(wire[c]).status \in JobStatusNumber \cup {NULL}
        /\ Head(wire[c]).code \in Codes \cup {NULL}
    <3>1. Head(wire[c]) \in Frame /\ Tail(wire[c]) \in Seq(Frame)
      BY <1>4, HeadTailProperties DEF Recv
    <3> QED
      BY <3>1 DEF Frame
  <2>2. CASE EndCall(c, Head(wire[c]).code) /\ Head(wire[c]).code # NULL /\ got' = got
    BY <1>3, <2>1, <2>2
  <2>3. CASE /\ got' = [got EXCEPT ![c] = Head(wire[c]).status]
             /\ wire' = [wire EXCEPT ![c] = Tail(@)]
             /\ UNCHANGED <<stub, broken, expired>>
    BY <2>1, <2>3
  <2> QED
    BY <1>4, <2>2, <2>3 DEF Recv
<1>5. CASE Close(c) \/ Expire(c)
  BY <1>3, <1>5 DEF Close, Expire, Codes
<1>6. CASE DeadlinePasses(c) \/ ContextEnds(c)
  BY <1>6 DEF DeadlinePasses, ContextEnds, clientVars
<1>7. CASE Break(c)
  <2> DEFINE lost == [status |-> NULL, code |-> "Unavailable"]
  <2>1. PICK n \in 0..Len(wire[c]) :
          wire' = [wire EXCEPT ![c] = SubSeq(wire[c], 1, n) \o <<lost>>]
    BY <1>7 DEF Break
  <2>2. SubSeq(wire[c], 1, n) \in Seq(Frame)
    BY SubSeqProperties, LenProperties
  <2>3. lost \in Frame
    BY DEF Frame, Codes
  <2>4. SubSeq(wire[c], 1, n) \o <<lost>> \in Seq(Frame)
    BY <2>2, <2>3, ConcatProperties
  <2> QED
    BY <1>7, <2>1, <2>4 DEF Break
<1>8. CASE Handling(c)
  <2>1. Sent(c) \in Seq(Frame)
    BY SentFrames
  <2>2. wire[c] \o Sent(c) \in Seq(Frame)
    BY <2>1, ConcatProperties
  <2> QED
    BY <1>8, <2>2 DEF Handling, Carried
<1> QED
  BY <1>1, <1>2, <1>4, <1>5, <1>6, <1>7, <1>8 DEF Using

\* What is on its way to a caller is frames, whatever is lost.
LEMMA ClientTypeStep == ASSUME ClientTypeOK, IInv, [ClientNext]_allVars PROVE ClientTypeOK'
<1>1. TypeOK'
  BY ClientStepIsStep, TypeStep
<1>2. CASE UNCHANGED clientVars
  BY <1>1, <1>2 DEF ClientTypeOK, clientVars
<1>3. CASE \E c \in Caller : Using(c) \/ DeadlinePasses(c) \/ Break(c) \/ ContextEnds(c) \/ Handling(c)
  BY <1>1, <1>3, OnesOwnStep DEF ClientTypeOK
<1> QED
  BY <1>2, <1>3 DEF ClientNext, allVars

\* A call on which nothing moves but its context or its deadline stands.
LEMMA RestingWireStands ==
  ASSUME ClientIInv, NEW c \in Caller,
         stub'[c] = stub[c], got'[c] = got[c], wire'[c] = wire[c], broken'[c] = broken[c],
         call'[c].pc = call[c].pc, call'[c].rpc = call[c].rpc, call'[c].last = call[c].last
  PROVE  WireStands(c)' /\ EndStands(c)'
<1>1. WireStands(c) /\ EndStands(c)
  BY DEF ClientIInv, WiresStand, EndsStand
<1>2. \A n : Before(c, n)' = Before(c, n) /\ (LastIsBefore(c, n)' <=> LastIsBefore(c, n))
  BY DEF LastIsBefore, Before
<1>3. WireStands(c)'
  BY <1>1, <1>2 DEF WireStands
<1>4. EndStands(c)'
  BY <1>1, <1>2 DEF EndStands
<1> QED
  BY <1>3, <1>4

\* What the handler of a stream sends keeps the last snapshot before the OK.
LEMMA HandlingWireStands ==
  ASSUME ClientIInv, NEW c \in Caller, Handling(c)
  PROVE  WireStands(c)' /\ EndStands(c)'
<1> DEFINE k == call[c]
           w == wire[c]
           x == Sent(c)
<1>1. /\ WireStands(c) /\ EndStands(c) /\ CallStands(c) /\ CallStands(c)'
      /\ k.pc \in Serving /\ w \in Seq(Frame) /\ Len(w) \in Nat
      /\ stub' = stub /\ got' = got /\ broken' = broken
  <2>1. k.pc \in Serving
    BY DEF Handling, JobWatching, Read, Send, PollTick, ReadFails, SendFails, ContextDone, Serving
  <2> QED
    BY <2>1, MovingCallStands, LenProperties
    DEF ClientIInv, WiresStand, EndsStand, IInv, CallsStand, ClientTypeOK, Handling, Carried
<1>2. /\ call'[c].rpc = k.rpc
      /\ \/ /\ k.pc = "send" /\ call'[c].pc # "HungUp"
            /\ call'[c].last = k.read /\ call'[c].last # Unsent
         \/ /\ k.pc # "send" \/ call'[c].pc = "HungUp"
            /\ call'[c].last = k.last
  <2>1. CASE Send(c)
    BY <2>1, SendEffect DEF ClientIInv, IInv, AfterRow
  <2>2. CASE Read(c)
    BY <2>2, ReadEffect DEF ClientIInv, IInv
  <2>3. CASE PollTick(c) \/ ReadFails(c) \/ SendFails(c) \/ ContextDone(c)
    BY <2>3, OtherEffects DEF ClientIInv, IInv, Turns
  <2> QED
    BY <2>1, <2>2, <2>3 DEF Handling, JobWatching
<1>3. EndStands(c)'
  BY <1>1, <1>2 DEF EndStands, Serving
<1>4. WireStands(c)'
  <2> SUFFICES ASSUME stub[c] = "open", k.rpc = "watch"
               PROVE  /\ \A n \in 1..Len(wire'[c]) :
                           /\ wire'[c][n].code = "OK" => call'[c].pc = "OK" /\ LastIsBefore(c, n)'
                           /\ wire'[c][n].code = NULL => wire'[c][n].status # Before(c, n)'
                      /\ ~broken[c] /\ call'[c].pc \in Serving =>
                           IF call'[c].last = Unsent THEN Before(c, Len(wire[c]) + 1)' = NULL
                           ELSE LastIsBefore(c, Len(wire[c]) + 1)'
    BY <1>1, <1>2 DEF WireStands
  <2>1. \A n \in 1..Len(w) : w[n].code # "OK" /\ (w[n].code = NULL => w[n].status # Before(c, n))
    BY <1>1 DEF WireStands, Serving
  <2>2. CASE broken[c]
    <3>1. wire'[c] = w /\ \A n : Before(c, n)' = Before(c, n)
      BY <1>1, <2>2 DEF Handling, Carried, Before
    <3> QED
      BY <2>1, <2>2, <3>1
  <2>3. CASE ~broken[c]
    <3> DEFINE sends == k.pc = "send" /\ call'[c].pc # "HungUp"
               ends == call'[c].pc \in Ended
    <3>1. /\ x \in Seq(Frame) /\ Len(x) \in Nat
          /\ Len(x) = (IF sends THEN 1 ELSE 0) + (IF ends THEN 1 ELSE 0)
          /\ sends => x[1] = Message(k.read.status)
          /\ ends => x[Len(x)] = EndOf(call'[c].pc)
      BY SentFrames
    <3>2. PICK L \in Nat : L = Len(w)
      BY <1>1
    <3>3. /\ Len(wire'[c]) = L + Len(x)
          /\ \A n \in 1..L : wire'[c][n] = w[n]
          /\ \A m \in 1..Len(x) : wire'[c][L + m] = x[m]
      <4>1. wire'[c] = w \o x
        BY <1>1, <2>3 DEF Handling, Carried, ClientIInv, ClientTypeOK
      <4> HIDE DEF w, x
      <4>2. /\ Len(w \o x) = L + Len(x)
            /\ \A i \in 1..L + Len(x) : (w \o x)[i] = IF i <= L THEN w[i] ELSE x[i - L]
        BY <1>1, <3>1, <3>2, ConcatProperties
      <4>3. \A n \in 1..L : (w \o x)[n] = w[n]
        BY <3>1, <3>2, <4>2
      <4>4. \A m \in 1..Len(x) : (w \o x)[L + m] = x[m]
        <5> SUFFICES ASSUME NEW m \in 1..Len(x) PROVE (w \o x)[L + m] = x[m]
          OBVIOUS
        <5>1. L + m \in 1..L + Len(x) /\ ~(L + m <= L) /\ (L + m) - L = m
          BY <3>1, <3>2
        <5> QED
          BY <4>2, <5>1
      <4> QED
        BY <4>1, <4>2, <4>3, <4>4
    <3> HIDE DEF x
    <3>4. sends => /\ Before(c, L + 2)' = jobStatusToProto(call'[c].last.status)
                   /\ call'[c].last # Unsent
      <4>1. sends => wire'[c][L + 1] = Message(call'[c].last.status)
        BY <1>2, <3>1, <3>3
      <4>2. Message(call'[c].last.status).status = jobStatusToProto(call'[c].last.status)
        BY DEF Message
      <4> QED
        BY <1>1, <1>2, <4>1, <4>2 DEF Before
    <3>5. \A n \in 1..L + 1 : Before(c, n)' = Before(c, n)
      <4>1. \A n \in 1..L + 1 : n = 1 \/ n - 1 \in 1..L
        BY <3>2
      <4> QED
        BY <1>1, <3>3, <4>1 DEF Before
    <3>6. L + 1 \in 1..L + 1 /\ IF k.last = Unsent THEN Before(c, L + 1) = NULL ELSE LastIsBefore(c, L + 1)
      BY <1>1, <2>3, <3>2 DEF WireStands
    <3>7. ~sends => IF call'[c].last = Unsent THEN Before(c, L + 1)' = NULL ELSE LastIsBefore(c, L + 1)'
      BY <1>2, <3>5, <3>6 DEF LastIsBefore
    <3>8. ASSUME NEW n \in 1..Len(wire'[c]) PROVE n \in 1..L \/ \E m \in 1..Len(x) : n = L + m
      <4>1. n \in 1..L + Len(x)
        BY <3>3, <3>8
      <4>2. n \in 1..L \/ n - L \in 1..Len(x)
        BY <3>1, <4>1
      <4>3. n = L + (n - L)
        BY <4>1
      <4> QED
        BY <4>2, <4>3
    <3>9. ASSUME NEW n \in 1..Len(wire'[c]), wire'[c][n].code = "OK"
          PROVE  call'[c].pc = "OK" /\ LastIsBefore(c, n)'
      <4>1. PICK m \in 1..Len(x) : n = L + m /\ x[m].code = "OK"
        BY <2>1, <3>2, <3>3, <3>8, <3>9
      <4>2. m = Len(x) /\ ends
        <5>1. Message(k.read.status).code # "OK"
          BY NullAssumption DEF Message, Codes
        <5> QED
          BY <3>1, <4>1, <5>1
      <4>3. call'[c].pc = "OK"
        BY <3>1, <4>1, <4>2, FramesAreFrames
      <4>4. call'[c].last # Unsent
        BY <1>1, <1>2, <4>3 DEF CallStands
      <4>5. CASE sends
        BY <3>1, <3>4, <4>1, <4>2, <4>3, <4>5 DEF LastIsBefore
      <4>6. CASE ~sends
        BY <3>1, <3>7, <4>1, <4>2, <4>3, <4>4, <4>6
      <4> QED
        BY <4>5, <4>6
    <3>10. ASSUME NEW n \in 1..Len(wire'[c]), wire'[c][n].code = NULL
           PROVE  wire'[c][n].status # Before(c, n)'
      <4>1. CASE n \in 1..L
        BY <2>1, <3>2, <3>3, <3>5, <3>10, <4>1
      <4>2. ASSUME NEW m \in 1..Len(x), n = L + m PROVE wire'[c][n].status # Before(c, n)'
        <5>1. x[m].code = NULL
          BY <3>3, <3>10, <4>2
        <5>2. ends => EndOf(call'[c].pc).code # NULL
          BY FramesAreCoded
        <5>3. sends /\ m = 1
          BY <3>1, <5>1, <5>2
        <5>4. wire'[c][n].status = jobStatusToProto(k.read.status) /\ n = L + 1
          BY <3>1, <3>3, <4>2, <5>3 DEF Message
        <5>5. k.read.status \in Status /\ (k.last # Unsent => k.last.status \in Status /\ k.read.status # k.last.status)
          BY <1>1, <5>3 DEF CallStands, IsOf, Snapshot
        <5>6. jobStatusToProto(k.read.status) # Before(c, L + 1)
          <6>1. CASE k.last = Unsent
            BY <3>6, <6>1, FramesAreCoded
          <6>2. CASE k.last # Unsent
            BY <3>6, <5>5, <6>2, StatusesAreTold DEF LastIsBefore
          <6> QED
            BY <6>1, <6>2
        <5> QED
          BY <3>5, <3>6, <5>4, <5>6
      <4> QED
        BY <3>8, <4>1, <4>2
    <3>11. ASSUME call'[c].pc \in Serving
           PROVE  IF call'[c].last = Unsent THEN Before(c, Len(wire[c]) + 1)' = NULL
                  ELSE LastIsBefore(c, Len(wire[c]) + 1)'
      <4>1. ~ends /\ Len(wire'[c]) = L + (IF sends THEN 1 ELSE 0)
        BY <1>1, <3>1, <3>3, <3>11 DEF Serving, Ended
      <4>2. CASE sends
        BY <1>1, <3>4, <4>1, <4>2 DEF LastIsBefore
      <4>3. CASE ~sends
        BY <1>1, <3>7, <4>1, <4>3
      <4> QED
        BY <4>2, <4>3
    <3> QED
      BY <2>3, <3>9, <3>10, <3>11
  <2> QED
    BY <2>2, <2>3
<1> QED
  BY <1>3, <1>4

\* What a caller does keeps the last snapshot of a stream before its OK, and a
\* caller that gets the OK has the snapshot.
LEMMA UsingWireStands ==
  ASSUME ClientIInv, NEW c \in Caller, Using(c) \/ Break(c)
  PROVE  WireStands(c)' /\ EndStands(c)'
<1> DEFINE k == call[c]
           w == wire[c]
<1>1. /\ WireStands(c) /\ EndStands(c) /\ w \in Seq(Frame) /\ Len(w) \in Nat
  BY LenProperties DEF ClientIInv, WiresStand, EndsStand, ClientTypeOK
<1>2. CASE ClientJobGet(c)
  <2>1. call'[c].rpc # "watch"
    BY <1>2 DEF ClientJobGet
  <2> QED
    BY <2>1 DEF WireStands, EndStands
<1>3. CASE ClientJobWatch(c)
  <2>1. /\ stub'[c] = "open" /\ call'[c].last = Unsent
        /\ wire'[c] = IF call'[c].pc \in Ended
                      THEN <<[status |-> NULL, code |-> call'[c].pc]>> ELSE <<>>
        /\ call'[c].pc \in {"InvalidArgument", "read"}
    BY <1>3, BeginEffect DEF ClientJobWatch, Invoke, ClientIInv, ClientTypeOK
  <2>2. \A n \in 1..Len(wire'[c]) : wire'[c][n].code \notin {"OK", NULL}
    <3>1. CASE call'[c].pc = "read"
      BY <2>1, <3>1, EmptySeq DEF Ended
    <3>2. CASE call'[c].pc = "InvalidArgument"
      <4>1. wire'[c] = <<[status |-> NULL, code |-> "InvalidArgument"]>>
        BY <2>1, <3>2 DEF Ended
      <4> QED
        BY <4>1, NullAssumption DEF Codes
    <3> QED
      BY <2>1, <3>1, <3>2
  <2>3. call'[c].pc \in Serving => Before(c, Len(wire[c]) + 1)' = NULL
    <3>1. got'[c] = NULL
      BY <1>3 DEF ClientJobWatch, Invoke, ClientIInv, ClientTypeOK
    <3>2. call'[c].pc \in Serving => wire'[c] = <<>>
      BY <2>1 DEF Serving, Ended
    <3> QED
      BY <3>1, <3>2, EmptySeq DEF Before
  <2>4. EndStands(c)'
    BY <2>1 DEF EndStands
  <2> QED
    BY <2>1, <2>2, <2>3, <2>4 DEF WireStands
<1>4. ASSUME stub'[c] \notin {"open", "OK"} PROVE WireStands(c)' /\ EndStands(c)'
  BY <1>4 DEF WireStands, EndStands
<1>5. CASE InvokeFails(c)
  <2>1. stub'[c] = "Unavailable"
    BY <1>5 DEF InvokeFails, ClientIInv, ClientTypeOK
  <2> QED
    BY <1>4, <2>1
<1>6. CASE Close(c) \/ Expire(c)
  <2>1. stub'[c] \in {"Canceled", "DeadlineExceeded"}
    BY <1>6 DEF Close, Expire, EndCall, ClientIInv, ClientTypeOK
  <2> QED
    BY <1>4, <2>1
<1>7. CASE Recv(c)
  <2>1. /\ stub[c] = "open" /\ w # <<>> /\ call' = call
        /\ Len(w) \in Nat \ {0} /\ Head(w) = w[1] /\ w[1] \in Frame
    BY <1>1, <1>7, EmptySeq, ElementOfSeq DEF Recv, vars
  <2>2. CASE w[1].code # NULL
    <3>1. stub'[c] = w[1].code /\ got' = got /\ w[1].code \in Codes
      BY <1>7, <2>1, <2>2 DEF Recv, EndCall, ClientIInv, ClientTypeOK, Frame
    <3>2. stub'[c] # "open"
      BY <3>1 DEF Codes
    <3>3. WireStands(c)'
      BY <3>2 DEF WireStands
    <3>4. EndStands(c)'
      <4> SUFFICES ASSUME stub'[c] = "OK", k.rpc = "watch"
                   PROVE  k.pc = "OK" /\ LastIsBefore(c, 1)'
        BY <2>1 DEF EndStands
      <4>1. k.pc = "OK" /\ LastIsBefore(c, 1)
        BY <1>1, <2>1, <3>1 DEF WireStands
      <4> QED
        BY <2>1, <3>1, <4>1 DEF LastIsBefore, Before
    <3> QED
      BY <3>3, <3>4
  <2>3. CASE w[1].code = NULL
    <3>1. /\ wire'[c] = Tail(w) /\ got'[c] = w[1].status
          /\ stub' = stub /\ broken' = broken
      BY <1>7, <2>1, <2>3 DEF Recv, ClientIInv, ClientTypeOK
    <3>2. PICK L \in Nat : Len(w) = L + 1
      <4>1. Len(w) - 1 \in Nat /\ Len(w) = (Len(w) - 1) + 1
        BY <2>1
      <4> QED
        BY <4>1
    <3>3. Len(wire'[c]) = L /\ \A n \in 1..L : wire'[c][n] = w[n + 1]
      BY <1>1, <2>1, <3>1, <3>2, HeadTailProperties
    <3>4. ASSUME NEW n \in 1..L + 1 PROVE Before(c, n)' = Before(c, n + 1)
      <4>1. CASE n = 1
        BY <3>1, <4>1 DEF Before
      <4>2. CASE n # 1
        <5>1. n - 1 \in 1..L /\ (n - 1) + 1 = n /\ (n + 1) - 1 = n
          BY <3>2, <4>2
        <5>2. wire'[c][n - 1] = w[n]
          BY <3>3, <5>1
        <5> QED
          BY <4>2, <5>1, <5>2 DEF Before
      <4> QED
        BY <4>1, <4>2
    <3>5. WireStands(c)'
      <4> SUFFICES ASSUME k.rpc = "watch"
                   PROVE  /\ \A n \in 1..L :
                               /\ wire'[c][n].code = "OK" => k.pc = "OK" /\ LastIsBefore(c, n)'
                               /\ wire'[c][n].code = NULL => wire'[c][n].status # Before(c, n)'
                          /\ ~broken[c] /\ k.pc \in Serving =>
                               IF k.last = Unsent THEN Before(c, L + 1)' = NULL
                               ELSE LastIsBefore(c, L + 1)'
        BY <2>1, <3>1, <3>3 DEF WireStands
      <4>1. ASSUME NEW n \in 1..L
            PROVE  /\ wire'[c][n].code = "OK" => k.pc = "OK" /\ LastIsBefore(c, n)'
                   /\ wire'[c][n].code = NULL => wire'[c][n].status # Before(c, n)'
        <5>1. n + 1 \in 1..Len(w) /\ n \in 1..L + 1 /\ wire'[c][n] = w[n + 1]
          BY <3>2, <3>3, <4>1
        <5>2. /\ w[n + 1].code = "OK" => k.pc = "OK" /\ LastIsBefore(c, n + 1)
              /\ w[n + 1].code = NULL => w[n + 1].status # Before(c, n + 1)
          BY <1>1, <2>1, <5>1 DEF WireStands
        <5>3. Before(c, n)' = Before(c, n + 1)
          BY <3>4, <5>1
        <5>4. ASSUME wire'[c][n].code = "OK" PROVE k.pc = "OK" /\ LastIsBefore(c, n)'
          BY <2>1, <5>1, <5>2, <5>3, <5>4 DEF LastIsBefore
        <5>5. ASSUME wire'[c][n].code = NULL PROVE wire'[c][n].status # Before(c, n)'
          BY <5>1, <5>2, <5>3, <5>5
        <5> QED
          BY <5>4, <5>5
      <4>2. ~broken[c] /\ k.pc \in Serving =>
              IF k.last = Unsent THEN Before(c, L + 1 + 1) = NULL ELSE LastIsBefore(c, L + 1 + 1)
        BY <1>1, <2>1, <3>2 DEF WireStands
      <4>3. L + 1 \in 1..L + 1
        BY <3>2
      <4>4. Before(c, L + 1)' = Before(c, L + 1 + 1)
        BY <3>4, <4>3
      <4> QED
        BY <2>1, <4>1, <4>2, <4>4 DEF LastIsBefore
    <3>6. EndStands(c)'
      BY <2>1, <3>1 DEF EndStands
    <3> QED
      BY <3>5, <3>6
  <2> QED
    BY <2>2, <2>3
<1>8. CASE Break(c)
  <2> DEFINE lost == [status |-> NULL, code |-> "Unavailable"]
  <2>1. PICK m \in 0..Len(w) : wire' = [wire EXCEPT ![c] = SubSeq(w, 1, m) \o <<lost>>]
    BY <1>8 DEF Break
  <2>2. /\ call' = call /\ stub' = stub /\ got' = got /\ stub[c] = "open" /\ broken'[c]
    BY <1>8 DEF Break, vars, ClientIInv, ClientTypeOK
  <2>3. /\ SubSeq(w, 1, m) \in Seq(Frame) /\ Len(SubSeq(w, 1, m)) = m
        /\ \A n \in 1..m : SubSeq(w, 1, m)[n] = w[n]
    BY <1>1, <2>1, SubSeqProperties
  <2>4. lost \in Frame /\ lost.code \notin {"OK", NULL}
    BY NullAssumption DEF Frame, Codes
  <2> HIDE DEF lost
  <2>5. /\ Len(wire'[c]) = m + 1 /\ wire'[c][m + 1] = lost
        /\ \A n \in 1..m : wire'[c][n] = w[n]
    <3> DEFINE x == SubSeq(w, 1, m)
    <3>1. wire'[c] = x \o <<lost>>
      BY <2>1 DEF ClientIInv, ClientTypeOK
    <3> HIDE DEF x
    <3>2. /\ <<lost>> \in Seq(Frame) /\ Len(<<lost>>) = 1 /\ <<lost>>[1] = lost
      BY <2>4
    <3>3. x \in Seq(Frame) /\ Len(x) = m /\ \A n \in 1..m : x[n] = w[n]
      BY <2>3 DEF x
    <3>4. /\ Len(x \o <<lost>>) = m + 1
          /\ \A i \in 1..m + 1 : (x \o <<lost>>)[i] = IF i <= m THEN x[i] ELSE <<lost>>[i - m]
      BY <3>2, <3>3, ConcatProperties
    <3>5. (x \o <<lost>>)[m + 1] = lost
      <4>1. m + 1 \in 1..m + 1 /\ ~(m + 1 <= m) /\ (m + 1) - m = 1
        BY <1>1, <2>1
      <4> QED
        BY <3>2, <3>4, <4>1
    <3>6. \A n \in 1..m : (x \o <<lost>>)[n] = w[n]
      BY <1>1, <2>1, <3>3, <3>4
    <3> QED
      BY <3>1, <3>4, <3>5, <3>6
  <2>6. EndStands(c)'
    BY <2>2 DEF EndStands
  <2>7. WireStands(c)'
    <3> SUFFICES ASSUME k.rpc = "watch", NEW n \in 1..m + 1, wire'[c][n].code \in {"OK", NULL}
                 PROVE  /\ wire'[c][n].code = "OK" => k.pc = "OK" /\ LastIsBefore(c, n)'
                        /\ wire'[c][n].code = NULL => wire'[c][n].status # Before(c, n)'
      BY <2>2, <2>5 DEF WireStands
    <3>1. n \in 1..m
      BY <1>1, <2>1, <2>4, <2>5
    <3>2. /\ n \in 1..Len(w) /\ wire'[c][n] = w[n]
          /\ w[n].code = "OK" => k.pc = "OK" /\ LastIsBefore(c, n)
          /\ w[n].code = NULL => w[n].status # Before(c, n)
      <4>1. n \in 1..Len(w)
        BY <1>1, <2>1, <3>1
      <4>2. wire'[c][n] = w[n]
        BY <2>5, <3>1
      <4>3. /\ w[n].code = "OK" => k.pc = "OK" /\ LastIsBefore(c, n)
            /\ w[n].code = NULL => w[n].status # Before(c, n)
        BY <1>1, <2>2, <4>1 DEF WireStands
      <4> QED
        BY <4>1, <4>2, <4>3
    <3>3. Before(c, n)' = Before(c, n)
      <4>1. n = 1 \/ n - 1 \in 1..m
        BY <1>1, <2>1, <3>1
      <4> QED
        BY <2>2, <2>5, <4>1 DEF Before
    <3> QED
      BY <2>2, <3>2, <3>3 DEF LastIsBefore
  <2> QED
    BY <2>6, <2>7
<1> QED
  BY <1>2, <1>3, <1>5, <1>6, <1>7, <1>8 DEF Using

\* Every step keeps what is on its way to the callers standing.
LEMMA WiresStep == ASSUME ClientIInv, [ClientNext]_allVars PROVE WiresStand' /\ EndsStand'
<1> SUFFICES ASSUME NEW c \in Caller PROVE WireStands(c)' /\ EndStands(c)'
  BY DEF WiresStand, EndsStand
<1>1. CASE (UNCHANGED allVars) \/ \E j \in Job : JobMoves(j) /\ UNCHANGED clientVars
  <2>1. call' = call /\ UNCHANGED clientVars
    BY <1>1 DEF JobMoves, allVars, vars
  <2> QED
    BY <2>1, RestingWireStands DEF clientVars
<1>2. ASSUME NEW d \in Caller, Using(d) \/ DeadlinePasses(d) \/ Break(d)
                                 \/ ContextEnds(d) \/ Handling(d)
      PROVE  WireStands(c)' /\ EndStands(c)'
  <2>1. CASE d # c
    <3>1. call'[c] = call[c]
      <4>1. Calling(d) \/ HangUp(d) \/ JobWatching(d) => call'[c] = call[c]
        BY <2>1, OthersCalls DEF ClientIInv, IInv
      <4>2. ASSUME ~Calling(d) /\ ~HangUp(d) /\ ~JobWatching(d) PROVE call' = call
        BY <1>2, <4>2 DEF Using, ClientJobGet, ClientJobWatch, InvokeFails, Recv, Close, Expire,
                          DeadlinePasses, Break, ContextEnds, Handling, vars
      <4> QED
        BY <4>1, <4>2
    <3> QED
      BY <1>2, <2>1, <3>1, OnesOwnStep, RestingWireStands DEF ClientIInv
  <2>2. CASE d = c /\ (Using(c) \/ Break(c))
    BY <2>2, UsingWireStands
  <2>3. CASE d = c /\ Handling(c)
    BY <2>3, HandlingWireStands
  <2>4. CASE d = c /\ DeadlinePasses(c)
    BY <2>4, RestingWireStands DEF DeadlinePasses, vars
  <2>5. CASE d = c /\ ContextEnds(c)
    <3>1. Turns(c, call[c].pc) /\ UNCHANGED clientVars
      BY <2>5, OtherEffects DEF ContextEnds, ClientIInv, IInv
    <3> QED
      BY <3>1, RestingWireStands DEF Turns, clientVars
  <2> QED
    BY <1>2, <2>1, <2>2, <2>3, <2>4, <2>5
<1> QED
  BY <1>1, <1>2 DEF ClientNext

\* At first nothing is on its way.
LEMMA ClientIInvInit == ASSUME ClientInit PROVE ClientIInv
<1>1. IInv
  BY IInvInit DEF ClientInit
<1>2. ClientTypeOK
  BY <1>1, EmptySeq DEF ClientTypeOK, ClientInit, IInv
<1>3. WiresStand /\ EndsStand
  <2>1. \A c \in Caller : stub[c] = "idle"
    BY DEF ClientInit
  <2> QED
    BY <2>1 DEF WiresStand, WireStands, EndsStand, EndStands
<1> QED
  BY <1>1, <1>2, <1>3 DEF ClientIInv

\* The clients' inductive invariant holds.
LEMMA ClientIInvariant == ClientSpec => []ClientIInv
<1>1. ClientInit => ClientIInv
  BY ClientIInvInit
<1>2. ClientIInv /\ [ClientNext]_allVars => ClientIInv'
  BY ClientTypeStep, ClientStepIsStep, IInvStep, WiresStep DEF ClientIInv
<1> QED
  BY <1>1, <1>2, PTL DEF ClientSpec

\* A caller of JobWatch that receives until io.EOF has been told how the job
\* ended: the OK comes behind the last snapshot, whatever is lost of the rest,
\* the last snapshot is of the end of the job, and the constant a caller
\* compares with is the number the handler's map gives that status.
\* (JobWatchClient, and jobStatusToProto behind it.)
THEOREM EofTellsOutcome == ClientSpec => []EofMeansOutcome
<1>1. ClientIInv => EofMeansOutcome
  <2> SUFFICES ASSUME ClientIInv, NEW c \in Caller, stub[c] = "OK", call[c].rpc = "watch"
               PROVE  LET h == history[call[c].job] IN
                      h[Len(h)] \in Life!Settled /\ got[c] = ClientStatus[h[Len(h)]]
    BY DEF EofMeansOutcome
  <2> DEFINE k == call[c]
             h == history[k.job]
  <2>1. k.pc = "OK" /\ LastIsBefore(c, 1) /\ CallStands(c)
    BY DEF ClientIInv, EndsStand, EndStands, IInv, CallsStand
  <2>2. /\ k.job \in Job /\ k.last.status \in Life!Settled /\ IsOf(k.last, k.job)
        /\ got[c] = jobStatusToProto(k.last.status)
    BY <2>1 DEF CallStands, LastIsBefore, Before
  <2>3. h[Len(h)] = k.last.status
    <3>1. Len(h) \in Nat /\ k.last.at \in 1..Len(h) /\ h[k.last.at] = k.last.status
      BY <2>2, LenProperties DEF IsOf, ClientIInv, ClientTypeOK, TypeOK
    <3>2. ~(k.last.at < Len(h))
      BY <2>2, <3>1 DEF ClientIInv, IInv, HistoryStands
    <3> QED
      BY <3>1, <3>2
  <2>4. \A status \in Life!Settled : jobStatusToProto(status) = ClientStatus[status]
    BY DEF Life!Settled, jobStatusToProto, ClientStatus
  <2> QED
    BY <2>2, <2>3, <2>4
<1> QED
  BY <1>1, ClientIInvariant, PTL

\* A stream says nothing twice in a row, however often it polls: a message on its
\* way has another status than the one received, or sent, before it.
\* (lastStatus and sent in the loop of JobWatch, jobStatusToProto behind it.)
THEOREM SnapshotsAreOfChanges == ClientSpec => []NoSnapshotTwice
<1>1. ClientIInv => NoSnapshotTwice
  <2> SUFFICES ASSUME ClientIInv, NEW c \in Caller, stub[c] = "open", call[c].rpc = "watch",
                      wire[c] # <<>>, Head(wire[c]).code = NULL
               PROVE  Head(wire[c]).status # got[c]
    BY DEF NoSnapshotTwice
  <2>1. 1 \in 1..Len(wire[c]) /\ Head(wire[c]) = wire[c][1]
    BY EmptySeq, LenProperties DEF ClientIInv, ClientTypeOK
  <2>2. wire[c][1].status # Before(c, 1)
    BY <2>1 DEF ClientIInv, WiresStand, WireStands
  <2> QED
    BY <2>1, <2>2 DEF Before
<1> QED
  BY <1>1, ClientIInvariant, PTL

-----------------------------------------------------------------------------
(* No handler outlives its caller *)

\* Where the handler of a call is, and whether it has learnt that its caller is gone.
At(c, pc) == call[c].pc = pc
Runs(c) == call[c].pc \in Serving
Knows(c) == call[c].gone

\* A handler runs and nobody waits for its answer.
Abandoned(c) == call[c].pc \in Serving /\ stub[c] # "open"

\* What brings the end of its context to a handler.
Over(c) == stub[c] # "open" \/ broken[c] \/ expired[c]

Goes(c) == (Read(c) \/ Send(c) \/ PollTick(c)) /\ Carried(c)
Stops(c) == ContextDone(c) /\ Carried(c)

\* What ClientFairness says of the handlers, with the conditions written out under
\* which an action is possible, where WF and SF say it with ENABLED: a handler that
\* is not waiting runs on and a ticker ticks, a context whose caller is gone ends,
\* and a select that keeps finding it ended takes that branch some day.
HandlerFairness(c) ==
  /\ []<>~Runs(c) \/ []<><<Goes(c)>>_allVars
  /\ []<>~(Over(c) /\ Runs(c) /\ ~Knows(c)) \/ []<><<ContextEnds(c)>>_allVars
  /\ <>[]~(At(c, "select") /\ Knows(c)) \/ []<><<Stops(c)>>_allVars

HandlersAreFair == \A c \in Caller : HandlerFairness(c)

\* A handler's own steps leave what it knows of its caller.
LEMMA KnowledgeStays ==
  ASSUME IInv, NEW c \in Caller, JobWatching(c)
  PROVE  call'[c].gone = call[c].gone
<1>1. call \in [Caller -> Call] /\ call[c] \in Call
  BY DEF IInv, TypeOK
<1>2. CASE Read(c)
  <2>1. CASE call' = [call EXCEPT ![c].pc = "NotFound"]
    BY <1>1, <2>1 DEF Call
  <2>2. ASSUME NEW row, NEW got_, got_ = [call[c] EXCEPT !.read = row],
               NEW pc, call' = [call EXCEPT ![c] = [got_ EXCEPT !.pc = pc]]
        PROVE  call'[c].gone = call[c].gone
    BY <1>1, <2>2 DEF Call
  <2> QED
    BY <1>2, <2>1, <2>2 DEF Read
<1>3. CASE Send(c)
  <2>1. PICK pc : call' = [call EXCEPT ![c].last = call[c].read, ![c].pc = pc]
    BY <1>3 DEF Send
  <2> QED
    BY <1>1, <2>1 DEF Call
<1>4. CASE PollTick(c) \/ ReadFails(c) \/ SendFails(c) \/ ContextDone(c)
  BY <1>1, <1>4 DEF Call, PollTick, ReadFails, SendFails, ContextDone
<1> QED
  BY <1>2, <1>3, <1>4 DEF JobWatching

\* An abandoned handler stays where it is, goes round its loop, or ends; no caller
\* takes its place before it has ended, and it does not forget that its own is gone.
LEMMA AbandonedStep ==
  ASSUME NEW c \in Caller, ClientIInv, Abandoned(c), [ClientNext]_allVars
  PROVE  /\ Abandoned(c)' \/ ~Runs(c)'
         /\ Knows(c) => Knows(c)' \/ ~Runs(c)'
         /\ At(c, "read") => At(c, "read")' \/ At(c, "send")' \/ At(c, "select")' \/ ~Runs(c)'
         /\ At(c, "send") => At(c, "send")' \/ At(c, "select")' \/ ~Runs(c)'
         /\ At(c, "select") => At(c, "select")' \/ At(c, "read")' \/ ~Runs(c)'
<1> DEFINE Goal ==
      /\ stub'[c] = stub[c] \/ call'[c].pc \notin Serving
      /\ call[c].gone => call'[c].gone
      /\ \/ call'[c].pc = call[c].pc \/ call'[c].pc \notin Serving
         \/ call[c].pc = "read" /\ call'[c].pc \in {"send", "select"}
         \/ call[c].pc = "send" /\ call'[c].pc = "select"
         \/ call[c].pc = "select" /\ call'[c].pc = "read"
<1> SUFFICES Goal
  BY DEF Abandoned, At, Runs, Knows
<1>0. /\ call[c].pc \in Serving /\ stub[c] # "open" /\ IInv /\ ClientTypeOK
      /\ TypeOK /\ HistoryStands /\ CallsStand /\ call[c] \in Call
  BY DEF Abandoned, ClientIInv, IInv, TypeOK
<1>1. CASE call' = call /\ stub' = stub
  BY <1>1
<1>2. CASE Handling(c)
  <2>1. stub' = stub /\ JobWatching(c)
    BY <1>2 DEF Handling, Carried
  <2>2. call'[c].gone = call[c].gone
    BY <1>0, <2>1, KnowledgeStays
  <2>3. CASE Read(c)
    BY <1>0, <2>1, <2>2, <2>3, ReadEffect DEF AfterRow, Serving
  <2>4. CASE Send(c)
    BY <1>0, <2>1, <2>2, <2>4, SendEffect DEF AfterRow, Serving
  <2>5. CASE PollTick(c) \/ ReadFails(c) \/ SendFails(c) \/ ContextDone(c)
    BY <1>0, <2>1, <2>2, <2>5, OtherEffects DEF Turns, Serving
  <2> QED
    BY <2>1, <2>3, <2>4, <2>5 DEF JobWatching
<1>3. CASE ContextEnds(c)
  BY <1>0, <1>3 DEF ContextEnds, HangUp, clientVars, Call, TypeOK
<1>4. CASE Using(c)
  <2>1. InvokeFails(c) \/ Calling(c) => FALSE
    BY <1>0, BeginEffect DEF InvokeFails, Serving, Ended
  <2>2. Recv(c) \/ Close(c) \/ Expire(c) => FALSE
    BY <1>0 DEF Recv, Close, Expire
  <2> QED
    BY <1>4, <2>1, <2>2 DEF Using, ClientJobGet, ClientJobWatch
<1>5. CASE DeadlinePasses(c) \/ Break(c)
  BY <1>0, <1>5 DEF DeadlinePasses, Break
<1>6. ASSUME NEW d \in Caller \ {c},
             Using(d) \/ DeadlinePasses(d) \/ Break(d) \/ ContextEnds(d) \/ Handling(d)
      PROVE  Goal
  <2>1. stub'[c] = stub[c]
    BY <1>0, <1>6, OnesOwnStep
  <2>2. call'[c] = call[c]
    <3>1. Calling(d) \/ HangUp(d) \/ JobWatching(d) => call'[c] = call[c]
      BY <1>0, <1>6, OthersCalls
    <3>2. ASSUME ~Calling(d), ~HangUp(d), ~JobWatching(d) PROVE call' = call
      BY <1>6, <3>2 DEF Using, ClientJobGet, ClientJobWatch, InvokeFails, Recv, Close, Expire,
                        DeadlinePasses, Break, ContextEnds, Handling, vars
    <3> QED
      BY <3>1, <3>2
  <2> QED
    BY <2>1, <2>2
<1>7. CASE (UNCHANGED allVars) \/ \E j \in Job : JobMoves(j) /\ UNCHANGED clientVars
  BY <1>1, <1>7 DEF allVars, vars, clientVars, JobMoves
<1> HIDE DEF Goal
<1> QED
  BY <1>2, <1>3, <1>4, <1>5, <1>6, <1>7 DEF ClientNext

\* What the steps that fairness promises do for an abandoned handler.
LEMMA PromisedSteps ==
  ASSUME NEW c \in Caller
  PROVE  /\ ClientIInv /\ At(c, "read") /\ <<Goes(c)>>_allVars => ~At(c, "read")'
         /\ ClientIInv /\ At(c, "send") /\ <<Goes(c)>>_allVars => ~At(c, "send")'
         /\ ClientIInv /\ <<ContextEnds(c)>>_allVars => Knows(c)'
         /\ ClientIInv /\ <<Stops(c)>>_allVars => ~Runs(c)'
<1>1. ASSUME ClientIInv PROVE TypeOK /\ HistoryStands /\ CallsStand /\ call[c] \in Call
  BY <1>1 DEF ClientIInv, IInv, TypeOK
<1>2. ClientIInv /\ At(c, "read") /\ Goes(c) => ~At(c, "read")'
  BY <1>1, ReadEffect, SendEffect, OtherEffects DEF Goes, At, AfterRow
<1>3. ClientIInv /\ At(c, "send") /\ Goes(c) => ~At(c, "send")'
  BY <1>1, ReadEffect, SendEffect, OtherEffects DEF Goes, At, AfterRow
<1>4. ClientIInv /\ ContextEnds(c) => Knows(c)'
  BY <1>1 DEF ContextEnds, HangUp, Knows, TypeOK, Call
<1>5. ClientIInv /\ Stops(c) => ~Runs(c)'
  BY <1>1, OtherEffects DEF Stops, Turns, Runs, Serving
<1> QED
  BY <1>2, <1>3, <1>4, <1>5

\* An abandoned handler ends.
LEMMA AbandonedEnds ==
  ASSUME NEW c \in Caller
  PROVE  ClientSpec /\ []HandlersAreFair => (Abandoned(c) ~> ~Runs(c))
<1>1. HandlersAreFair => HandlerFairness(c)
  BY DEF HandlersAreFair
<1>2. /\ ClientIInv /\ Abandoned(c) /\ [ClientNext]_allVars => Abandoned(c)' \/ ~Runs(c)'
      /\ ClientIInv /\ Abandoned(c) /\ [ClientNext]_allVars =>
           (Knows(c) => Knows(c)' \/ ~Runs(c)')
      /\ ClientIInv /\ Abandoned(c) /\ [ClientNext]_allVars =>
           (At(c, "read") => At(c, "read")' \/ At(c, "send")' \/ At(c, "select")' \/ ~Runs(c)')
      /\ ClientIInv /\ Abandoned(c) /\ [ClientNext]_allVars =>
           (At(c, "send") => At(c, "send")' \/ At(c, "select")' \/ ~Runs(c)')
  BY AbandonedStep
<1>3. /\ ClientIInv /\ At(c, "read") /\ <<Goes(c)>>_allVars => ~At(c, "read")'
      /\ ClientIInv /\ At(c, "send") /\ <<Goes(c)>>_allVars => ~At(c, "send")'
      /\ ClientIInv /\ <<ContextEnds(c)>>_allVars => Knows(c)'
      /\ ClientIInv /\ <<Stops(c)>>_allVars => ~Runs(c)'
  BY PromisedSteps
<1>4. /\ Abandoned(c) => Runs(c) /\ Over(c)
      /\ Runs(c) => At(c, "read") \/ At(c, "send") \/ At(c, "select")
  BY DEF Abandoned, Runs, Over, At, Serving
<1> QED
  BY <1>1, <1>2, <1>3, <1>4, ClientIInvariant, PTL DEF ClientSpec, HandlerFairness

\* Under fairness, a caller that cancels, closes its client or loses its connection
\* leaves no handler behind that goes on polling, even for a job that never settles.
\* (The ctx.Done branch of the JobWatch loop.)
THEOREM HandlersEndWithCallers == ClientSpec /\ []HandlersAreFair => HandlerEndsWithCaller
<1>1. ASSUME NEW c \in Caller
      PROVE  ClientSpec /\ []HandlersAreFair =>
               ((call[c].pc \in Serving /\ stub[c] # "open") ~> call[c].pc \notin Serving)
  <2>1. /\ (call[c].pc \in Serving /\ stub[c] # "open") => Abandoned(c)
        /\ ~Runs(c) => call[c].pc \notin Serving
    BY DEF Abandoned, Runs
  <2>2. ClientSpec /\ []HandlersAreFair => (Abandoned(c) ~> ~Runs(c))
    BY AbandonedEnds
  <2> QED
    BY <2>1, <2>2, PTL
<1> QED
  BY <1>1 DEF HandlerEndsWithCaller
=============================================================================
