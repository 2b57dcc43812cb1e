---------------------------- MODULE WatchClient -----------------------------
(***************************************************************************)
(* A caller of JobGet and JobWatch, with the published client              *)
(* (pkg/go/client.go) and the generated stubs between it and the handlers  *)
(* of JobWatch: what is sent is not yet received, and what a caller knows  *)
(* is what it received.                                                    *)
(*                                                                         *)
(* gRPC is external.  Relied on: the messages of a call and, after them,   *)
(* its status arrive in order; a connection that breaks loses what it      *)
(* carries and ends the call with Unavailable; a caller that cancels,      *)
(* closes its client or runs out of time ends its call at once, while the  *)
(* handler learns of it later, if it is still running; a deadline is kept  *)
(* by both sides, each on its own clock.                                   *)
(***************************************************************************)
EXTENDS JobWatch

VARIABLES
  stub,     \* Caller -> its call: "idle", "open", or the status it ended with
  got,      \* Caller -> the status in the last message received, or NULL
  wire,     \* Caller -> what was sent to it and not yet received
  broken,   \* Caller -> the connection of the call broke
  expired   \* Caller -> the deadline of the call has passed

clientVars == <<stub, got, wire, broken, expired>>
allVars == <<vars, clientVars>>

-----------------------------------------------------------------------------
(* Types *)

\* The numbers of the JobStatus enum.
JobStatusNumber == 0..6

\* The constants a caller compares with, by the status each stands for.
ClientStatus ==
  [ pending |-> 1, claimed |-> 2, succeeded |-> 3, failed |-> 4, abandoned |-> 5,
    cancelled |-> 6 ]

Codes == {"OK", "InvalidArgument", "NotFound", "Internal", "Canceled",
          "DeadlineExceeded", "Unavailable"}

\* No code is a code that is not there, and no status a status that is not.
ASSUME NullAssumption == NULL \notin Codes /\ NULL \notin JobStatusNumber

\* A message with a status, or the status of the call.
Frame == [status : JobStatusNumber \cup {NULL}, code : Codes \cup {NULL}]

ClientTypeOK ==
  /\ TypeOK
  /\ stub \in [Caller -> {"idle", "open"} \cup Codes]
  /\ got \in [Caller -> JobStatusNumber \cup {NULL}]
  /\ wire \in [Caller -> Seq(Frame)]
  /\ broken \in [Caller -> BOOLEAN]
  /\ expired \in [Caller -> BOOLEAN]

-----------------------------------------------------------------------------
(* The handler's side *)

\* (mutated form: a map that has not kept up with the statuses)
jobStatusToProtoPartial(status) ==
  CASE status = "pending"   -> 1
    [] status = "claimed"   -> 2
    [] status = "succeeded" -> 3
    [] status = "failed"    -> 4
    [] OTHER                -> 0

\* A status the map does not have is UNSPECIFIED.
jobStatusToProto(status) ==
  CASE status = "pending"   -> 1
    [] status = "claimed"   -> 2
    [] status = "succeeded" -> 3
    [] status = "failed"    -> 4
    [] status = "abandoned" -> 5
    [] status = "cancelled" -> 6
    [] OTHER                -> 0

\* status.FromContextError: of a handler that saw its context end, the only
\* status that can still find its caller waiting.
CodeOf(pc) == IF pc = "HungUp" THEN "DeadlineExceeded" ELSE pc

\* What the step of c's handler sends: a snapshot, the end of the call, or both.
Sent(c) ==
  (IF call[c].pc = "send" /\ call'[c].pc # "HungUp"
   THEN <<[status |-> jobStatusToProto(call[c].read.status), code |-> NULL]>> ELSE <<>>)
  \o
  (IF call'[c].pc \in Ended
   THEN <<[status |-> NULL, code |-> CodeOf(call'[c].pc)]>> ELSE <<>>)

Carried(c) ==
  /\ wire' = IF broken[c] \/ stub[c] # "open" THEN wire
             ELSE [wire EXCEPT ![c] = @ \o Sent(c)]
  /\ UNCHANGED <<stub, got, broken, expired>>

Handling(c) == JobWatching(c) /\ Carried(c)

\* The handler's context ends, once the caller or the connection is gone, or the
\* deadline has passed where the handler runs.
ContextEnds(c) ==
  /\ stub[c] # "open" \/ broken[c] \/ expired[c]
  /\ HangUp(c)
  /\ UNCHANGED clientVars

-----------------------------------------------------------------------------
(* The caller's side *)

\* A request goes out, over a connection that is made when it is first needed,
\* and a handler takes it up; one refused at once is answered at once.
Invoke(c) ==
  /\ stub[c] # "open"
  /\ stub' = [stub EXCEPT ![c] = "open"]
  /\ got' = [got EXCEPT ![c] = NULL]
  /\ wire' = [wire EXCEPT ![c] =
       IF call'[c].pc \in Ended THEN <<[status |-> NULL, code |-> call'[c].pc]>> ELSE <<>>]
  /\ UNCHANGED <<broken, expired>>

ClientJobGet(c) == Calling(c) /\ call'[c].rpc = "get" /\ Invoke(c)

ClientJobWatch(c) == Calling(c) /\ call'[c].rpc = "watch" /\ Invoke(c)

\* The connection cannot be made, or the request is lost with it.
InvokeFails(c) ==
  /\ stub[c] \notin {"open", "Unavailable"}
  /\ call[c].pc \notin Serving
  /\ stub' = [stub EXCEPT ![c] = "Unavailable"]
  /\ got' = [got EXCEPT ![c] = NULL]
  /\ UNCHANGED <<vars, wire, broken, expired>>

\* The call ends for the caller, whatever was still to come.
EndCall(c, code) ==
  /\ stub' = [stub EXCEPT ![c] = code]
  /\ wire' = [wire EXCEPT ![c] = <<>>]
  /\ broken' = [broken EXCEPT ![c] = FALSE]
  /\ expired' = [expired EXCEPT ![c] = FALSE]

\* The next frame: a message, or the status the call ends with (io.EOF for OK).
Recv(c) ==
  /\ stub[c] = "open" /\ wire[c] # <<>>
  /\ LET frame == Head(wire[c]) IN
       \/ /\ frame.code = NULL
          /\ got' = [got EXCEPT ![c] = frame.status]
          /\ wire' = [wire EXCEPT ![c] = Tail(@)]
          /\ UNCHANGED <<stub, broken, expired>>
       \/ /\ frame.code # NULL
          /\ EndCall(c, frame.code)
          /\ UNCHANGED got
  /\ UNCHANGED vars

\* The client is closed with the call open, or the call's context cancelled.
Close(c) ==
  /\ stub[c] = "open"
  /\ EndCall(c, "Canceled")
  /\ UNCHANGED <<vars, got>>

DeadlinePasses(c) ==
  /\ stub[c] = "open" /\ ~expired[c]
  /\ expired' = [expired EXCEPT ![c] = TRUE]
  /\ UNCHANGED <<vars, stub, got, wire, broken>>

Expire(c) ==
  /\ stub[c] = "open" /\ expired[c]
  /\ EndCall(c, "DeadlineExceeded")
  /\ UNCHANGED <<vars, got>>

\* The connection breaks with some of what it carries already there.
Break(c) ==
  /\ stub[c] = "open" /\ ~broken[c]
  /\ broken' = [broken EXCEPT ![c] = TRUE]
  /\ \E n \in 0..Len(wire[c]) :
       wire' = [wire EXCEPT ![c] =
         SubSeq(@, 1, n) \o <<[status |-> NULL, code |-> "Unavailable"]>>]
  /\ UNCHANGED <<vars, stub, got, expired>>

-----------------------------------------------------------------------------
ClientInit ==
  /\ Init
  /\ stub = [c \in Caller |-> "idle"]
  /\ got = [c \in Caller |-> NULL]
  /\ wire = [c \in Caller |-> <<>>]
  /\ broken = [c \in Caller |-> FALSE]
  /\ expired = [c \in Caller |-> FALSE]

Using(c) ==
  \/ ClientJobGet(c) \/ ClientJobWatch(c) \/ InvokeFails(c)
  \/ Recv(c) \/ Close(c) \/ Expire(c)

ClientNext ==
  \/ \E j \in Job : JobMoves(j) /\ UNCHANGED clientVars
  \/ \E c \in Caller : Using(c) \/ DeadlinePasses(c) \/ Break(c) \/ ContextEnds(c) \/ Handling(c)

ClientSpec == ClientInit /\ [][ClientNext]_allVars

\* A handler that is not waiting runs on, a ticker ticks, a context whose caller
\* is gone ends, and a select that keeps finding it ended takes that branch some
\* day: it picks at random among the ready.  A caller receives while it waits;
\* it need not call, cancel or close.
ClientFairness ==
  \A c \in Caller :
    /\ WF_allVars((Read(c) \/ Send(c) \/ PollTick(c)) /\ Carried(c))
    /\ SF_allVars(ContextDone(c) /\ Carried(c))
    /\ WF_allVars(ContextEnds(c))
    /\ WF_allVars(Recv(c))

ClientFairSpec == ClientSpec /\ ClientFairness

-----------------------------------------------------------------------------
(* Properties *)

\* A caller that receives until io.EOF knows the outcome: the last message it
\* received carries the constant for the status the job ended with, however the
\* end of the stream raced with its deadline or with a connection that broke.
\* (JobWatchClient, and jobStatusToProto behind it.)
EofMeansOutcome ==
  \A c \in Caller :
    stub[c] = "OK" /\ call[c].rpc = "watch" =>
      LET h == history[call[c].job] IN
      /\ h[Len(h)] \in Life!Settled
      /\ got[c] = ClientStatus[h[Len(h)]]

\* However often a job is polled while it stays as it is, its stream says so once:
\* the next message on its way to a caller never carries the status received last.
\* (!sent || job.Status != lastStatus in the loop, and lastStatus as each send
\* leaves it; jobStatusToProto telling the statuses apart.)
NoSnapshotTwice ==
  \A c \in Caller :
    stub[c] = "open" /\ call[c].rpc = "watch" /\ wire[c] # <<>> /\ Head(wire[c]).code = NULL =>
      Head(wire[c]).status # got[c]

\* No handler outlives its caller: a caller that cancels, closes its client or
\* loses its connection leaves no stream polling the database behind, even for a
\* job that never settles.  (The ctx.Done branch of the JobWatch loop.)
HandlerEndsWithCaller ==
  \A c \in Caller :
    (call[c].pc \in Serving /\ stub[c] # "open") ~> call[c].pc \notin Serving

\* A caller that goes on receiving is not kept waiting on a job that has settled,
\* whichever way it settled: the stream ends and the caller hears of it, or its
\* connection or its time does.  (isTerminalStatus in the loop.)
CallerHears ==
  \A c \in Caller :
    (stub[c] = "open" /\ call[c].job # NULL /\ phase[call[c].job] \in Life!Settled)
      ~> stub[c] # "open"
=============================================================================
