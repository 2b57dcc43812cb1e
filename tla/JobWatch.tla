------------------------------ MODULE JobWatch ------------------------------
(***************************************************************************)
(* Reading a job: the JobGet call and the JobWatch stream, which polls the *)
(* same owner-scoped read and sends what changed                           *)
(* (internal/handlers/grpc.jobWatch.go, grpc.jobGet.go, core/jobGet.go,    *)
(* dao/pg.jobGet.sql).                                                     *)
(*                                                                         *)
(* The jobs move underneath as JobLifecycle lets them, one at a time: a    *)
(* reader looks at one row, so how many rows a statement moves is all one  *)
(* to it.  A poll comes at no particular time; several changes, or none,   *)
(* may fall between two polls, and a caller may hang up anywhere.          *)
(***************************************************************************)
EXTENDS Integers, Sequences

CONSTANTS
  Job,     \* jobs
  Owner,   \* owner_id values
  Caller,  \* callers, each with one call at a time
  Caps,    \* max_attempts values the jobs are given
  NULL     \* nothing: an id that does not parse, a status not yet sent

ASSUME ConstantsAssumption ==
  /\ \A k \in Caps : k \in Nat /\ k > 0
  /\ NULL \notin Job /\ NULL \notin Owner

VARIABLES
  phase, begun, cap,  \* the jobs, see JobLifecycle
  owner,              \* Job -> owner_id, fixed by the enqueue
  call,               \* Caller -> the call being served
  \* What no code stores, kept to state properties:
  history,            \* Job -> every status the job has had, in order
  caught              \* Caller -> Job -> where in history the caller has got to

lifeVars == <<phase, begun, cap, history>>
vars == <<phase, begun, cap, owner, call, history, caught>>

Life == INSTANCE JobLifecycle

-----------------------------------------------------------------------------
(* Types *)

Status == {"pending", "claimed", "succeeded", "failed", "abandoned", "cancelled"}

\* A row as it was read: its status, and where in history that was.
Snapshot == [status : Status, at : Nat]

Unsent == [status |-> NULL, at |-> 0]

Serving == {"read", "send", "select"}

Ended == {"OK", "InvalidArgument", "NotFound", "Internal", "HungUp"}

\* rpc: which call.  job, owner: the request.  read: the row in hand.  last: the
\* snapshot sent last (lastStatus; Unsent is sent = false).  gone: the caller
\* has hung up.
Call ==
  [ pc : {"idle"} \cup Serving \cup Ended,
    rpc : {"get", "watch"},
    job : Job \cup {NULL}, owner : Owner \cup {NULL},
    read : Snapshot \cup {Unsent}, last : Snapshot \cup {Unsent},
    gone : BOOLEAN ]

Phase == {"new", "purged"} \cup Status

TypeOK ==
  /\ phase \in [Job -> Phase]
  /\ begun \in [Job -> Nat] /\ cap \in [Job -> Nat]
  /\ owner \in [Job -> Owner]
  /\ call \in [Caller -> Call]
  /\ history \in [Job -> Seq(Status)]
  /\ caught \in [Caller -> [Job -> Nat]]

Init ==
  /\ Life!Init
  /\ owner \in [Job -> Owner]
  /\ call = [c \in Caller |->
       [ pc |-> "idle", rpc |-> "get", job |-> NULL, owner |-> NULL,
         read |-> Unsent, last |-> Unsent, gone |-> FALSE ]]
  /\ history = [j \in Job |-> <<>>]
  /\ caught = [c \in Caller |-> [j \in Job |-> 0]]

-----------------------------------------------------------------------------
(* Mutated forms of the definitions below, each with a plausible bug.        *)

\* a poll that takes the terminal statuses to be the two a worker reports
isTerminalReported(status) == status \in {"succeeded", "failed"}

\* the read by id alone, jobGetByID, used for an owner's request
VisibleById(j, o) == phase[j] \notin {"new", "purged"} /\ o \in Owner

\* a read that leaves settled rows out
VisibleUnsettled(j, o) == phase[j] \in {"pending", "claimed"} /\ owner[j] = o

\* a read served by a replica that lags
RowsLagging(j) == {[status |-> history[j][n], at |-> n] : n \in 1..Len(history[j])}

\* a loop that only looks at its ticker
ContextDoneUnseen(c) == FALSE

\* a snapshot with every poll
ToSendAlways(k) == k.read.status \in Status

-----------------------------------------------------------------------------
(* The jobs *)

JobMoves(j) ==
  /\ \E p \in Phase, b \in {begun[j], 0, begun[j] + 1}, k \in {cap[j]} \cup Caps :
       /\ phase' = [phase EXCEPT ![j] = p]
       /\ begun' = [begun EXCEPT ![j] = b]
       /\ cap' = [cap EXCEPT ![j] = k]
  /\ phase'[j] # phase[j]
  /\ Life!JobStep(j)
  /\ history' = IF phase'[j] \in Status
                THEN [history EXCEPT ![j] = Append(@, phase'[j])] ELSE history
  /\ UNCHANGED <<owner, call, caught>>

-----------------------------------------------------------------------------
(* The calls *)

isTerminalStatus(status) == status \in {"succeeded", "failed", "abandoned", "cancelled"}

\* jobGet.sql: the row exists and is the owner's.
Visible(j, o) == phase[j] \notin {"new", "purged"} /\ owner[j] = o

\* The row the read returns: as it is now.
RowsRead(j) == {[status |-> phase[j], at |-> Len(history[j])]}

\* Send on subscribe, then only when the status is not the one sent last.
ToSend(k) == k.last = Unsent \/ k.read.status # k.last.status

\* What the stream does with a row once it is sent, or need not be.
AfterRow(k) == IF isTerminalStatus(k.read.status) THEN "OK" ELSE "select"

\* A caller calls, with ids that may not parse.
Begin(c, rpc, j, o) ==
  /\ call[c].pc \in {"idle"} \cup Ended
  /\ call' = [call EXCEPT ![c] =
       [ pc |-> IF j = NULL \/ o = NULL THEN "InvalidArgument" ELSE "read",
         rpc |-> rpc, job |-> j, owner |-> o,
         read |-> Unsent, last |-> Unsent, gone |-> FALSE ]]
  /\ UNCHANGED <<lifeVars, owner, caught>>

\* The read, and what follows it up to the next send or wait.
Read(c) ==
  LET k == call[c] IN
  /\ k.pc = "read"
  /\ \/ /\ ~Visible(k.job, k.owner)
        /\ call' = [call EXCEPT ![c].pc = "NotFound"]
     \/ /\ Visible(k.job, k.owner)
        /\ \E row \in RowsRead(k.job) :
             LET got == [k EXCEPT !.read = row] IN
             call' = [call EXCEPT ![c] =
               [got EXCEPT !.pc = IF k.rpc = "get" \/ ToSend(got) THEN "send"
                                  ELSE AfterRow(got)]]
  /\ UNCHANGED <<lifeVars, owner, caught>>

\* The read fails: the database is unreachable, or the caller's context is over.
ReadFails(c) ==
  /\ call[c].pc = "read"
  /\ call' = [call EXCEPT ![c].pc = "Internal"]
  /\ UNCHANGED <<lifeVars, owner, caught>>

\* JobGet returns the row and is over; JobWatch sends it and goes on.  What is
\* sent to a caller that is gone reaches nobody.
Send(c) ==
  LET k == call[c] IN
  /\ k.pc = "send"
  /\ call' = [call EXCEPT ![c].last = k.read,
                          ![c].pc = IF k.rpc = "get" THEN "OK" ELSE AfterRow(k)]
  /\ caught' = IF k.gone THEN caught ELSE [caught EXCEPT ![c][k.job] = k.read.at]
  /\ UNCHANGED <<lifeVars, owner>>

SendFails(c) ==
  /\ call[c].pc = "send" /\ call[c].gone
  /\ call' = [call EXCEPT ![c].pc = "HungUp"]
  /\ UNCHANGED <<lifeVars, owner, caught>>

\* The two branches of the select; with both ready, either is taken.
PollTick(c) ==
  /\ call[c].pc = "select"
  /\ call' = [call EXCEPT ![c].pc = "read"]
  /\ UNCHANGED <<lifeVars, owner, caught>>

ContextDone(c) ==
  /\ call[c].pc = "select" /\ call[c].gone
  /\ call' = [call EXCEPT ![c].pc = "HungUp"]
  /\ UNCHANGED <<lifeVars, owner, caught>>

HangUp(c) ==
  /\ call[c].pc \in Serving /\ ~call[c].gone
  /\ call' = [call EXCEPT ![c].gone = TRUE]
  /\ UNCHANGED <<lifeVars, owner, caught>>

JobWatching(c) == Read(c) \/ Send(c) \/ PollTick(c) \/ ReadFails(c) \/ SendFails(c) \/ ContextDone(c)

Calling(c) ==
  \E rpc \in {"get", "watch"}, j \in Job \cup {NULL}, o \in Owner \cup {NULL} : Begin(c, rpc, j, o)

Next ==
  \/ \E j \in Job : JobMoves(j)
  \/ \E c \in Caller : Calling(c) \/ HangUp(c) \/ JobWatching(c)

Spec == Init /\ [][Next]_vars

-----------------------------------------------------------------------------
(* Properties *)

\* Not-found, on a stream that has sent a snapshot, means that the job was
\* purged: a job that settles while it is watched is never taken for missing.
\* (dao.JobGet.Exec mapping no rows to ErrJobGetNotFound in the polling loop.)
NotFoundIsTrue ==
  \A c \in Caller :
    call[c].pc = "NotFound" /\ call[c].last # Unsent => phase[call[c].job] = "purged"

\* Nothing of a job is read for, or sent to, a caller with another owner's id,
\* however the calls interleave with the job's life.  (The owner predicate of
\* pg.jobGet.sql, which JobGet and every poll of JobWatch rely on.)
NothingToStrangers ==
  \A c \in Caller : call[c].read # Unsent => owner[call[c].job] = call[c].owner

\* A caller never sees a job go back in time, on one stream or across reconnects
\* and reads made one after another: what it gets is never older than what it
\* had.  (No cursor: every call answers from the row as it stands.)
SeenInOrder ==
  [][\A c \in Caller, j \in Job : caught'[c][j] >= caught[c][j]]_vars

\* The stream of c sends a snapshot behind another one: it gets past a send, and
\* not because its caller is gone.
SendsAgain(c) ==
  /\ call[c].pc = "send" /\ call'[c].pc \notin {"send", "HungUp"}
  /\ call[c].last # Unsent

\* job_watch.proto: the job as it stands now, then each change until it is
\* terminal, with no window in which a change can be missed.
EveryChangeSent ==
  [][\A c \in Caller : SendsAgain(c) => call'[c].last.at = call[c].last.at + 1]_vars
=============================================================================
