------------------------------- MODULE Server -------------------------------
(***************************************************************************)
(* The life of the process: boot, the reaper's loop beside the gRPC        *)
(* server, and the shutdown (cmd/grpc/main.go, internal/lib/reaper.go,     *)
(* config/env/env.go).                                                     *)
(*                                                                         *)
(* There is one replica.  The jobs are reduced to what the loop and the    *)
(* watch streams need of them, and a sweep recovers every lapsed claim:    *)
(* the rows a sweep skips and the attempts it counts are JobQueue's        *)
(* subject.  A process may be killed at any time.  Every call in flight    *)
(* holds the drain up: unary ones, Status among them, watches, and the     *)
(* streams of the services gRPC brings along.                              *)
(***************************************************************************)
EXTENDS Integers

CONSTANTS
  Job,          \* jobs
  Call,         \* calls that may be in flight at once
  RawIntervals, \* REAPER_INTERVAL values, see Raw
  NULL          \* no call; no interval

\* A raw value: nothing, a Go duration, or text that is not one.
Raw == [text : {"empty", "duration", "other"}, value : Int]

\* What a call is when it is not the watch of a job.  "unary": one that answers
\* once.  "stream": one that goes on until its caller ends it, ServerReflectionInfo
\* or the Watch of grpc.health.v1.  "hanging": a unary call or a watch one of whose
\* statements does not come back.
Kind == {"unary", "stream", "hanging"}

ASSUME ConstantsAssumption ==
  /\ RawIntervals \subseteq Raw
  /\ NULL \notin Job /\ NULL \notin Int
  /\ Job \cap Kind = {} /\ NULL \notin Kind

VARIABLES
  main,      \* where the main goroutine is; "down": no process
  reaper,    \* where the reaper's goroutine is
  interval,  \* the cadence the process booted with
  tick,      \* ticker.C holds a tick: it buffers one
  cancelled, \* reaperCtx is cancelled
  open,      \* Call -> the job it watches, or its Kind; NULL: not in flight
  job,       \* Job -> its state
  dbUp,      \* whether the database answers
  migrated   \* whether cmd/migrations has created the jobs table

database == <<dbUp, migrated>>
vars == <<main, reaper, interval, tick, cancelled, open, job, dbUp, migrated>>
process == <<main, reaper, interval, tick, cancelled>>

Main == {"down", "serving", "stopping", "draining"}

\* "boot" and "sweep": a sweep is running.  "doomed": one is running on a
\* context that was cancelled before it began.
Reaper == {"off", "boot", "select", "sweep", "doomed", "done"}

TypeOK ==
  /\ main \in Main /\ reaper \in Reaper
  /\ interval = NULL \/ interval \in Nat \ {0}
  /\ tick \in BOOLEAN /\ cancelled \in BOOLEAN
  /\ dbUp \in BOOLEAN /\ migrated \in BOOLEAN
  /\ open \in [Call -> Job \cup Kind \cup {NULL}]
  /\ job \in [Job -> {"none", "pending", "claimed", "lapsed", "settled"}]

Init ==
  /\ main = "down" /\ reaper = "off" /\ interval = NULL
  /\ tick = FALSE /\ cancelled = FALSE
  /\ open = [s \in Call |-> NULL]
  /\ dbUp \in BOOLEAN
  /\ \/ migrated = TRUE /\ job \in [Job -> {"pending", "lapsed"}]
     \/ migrated = FALSE /\ job = [j \in Job |-> "none"]

-----------------------------------------------------------------------------
(* Boot *)

ReaperIntervalDefault == 30

\* The cadence, or NULL for an error.
ReaperInterval(raw) ==
  CASE raw.text = "empty" -> ReaperIntervalDefault
    [] raw.text = "duration" /\ raw.value > 0 -> raw.value
    [] OTHER -> NULL

\* The boot refuses a bad interval before it starts anything; else the reaper
\* sweeps at once and the server serves.
Boot(raw) ==
  /\ main = "down" /\ ReaperInterval(raw) # NULL
  /\ main' = "serving" /\ reaper' = "boot" /\ interval' = ReaperInterval(raw)
  /\ UNCHANGED <<tick, cancelled, open, job, database>>

\* The process is gone, and everything in it.
Gone ==
  /\ main' = "down" /\ reaper' = "off" /\ interval' = NULL
  /\ tick' = FALSE /\ cancelled' = FALSE
  /\ open' = [s \in Call |-> NULL]
  /\ UNCHANGED <<job, database>>

Crash == main # "down" /\ Gone

-----------------------------------------------------------------------------
(* Reaper.Run *)

\* A statement on the jobs table goes through.
Answers == dbUp /\ migrated

SweepSucceeds ==
  /\ reaper \in {"boot", "sweep"} /\ Answers
  /\ \E back \in SUBSET {j \in Job : job[j] = "lapsed"} :
       job' = [j \in Job |-> IF job[j] # "lapsed" THEN job[j]
                             ELSE IF j \in back THEN "pending" ELSE "settled"]
  /\ reaper' = "select"
  /\ UNCHANGED <<main, interval, tick, cancelled, open, database>>

\* (mutated form: a failed sweep ends the loop)
SweepFailsForGood ==
  /\ reaper = "doomed" \/ (reaper \in {"boot", "sweep"} /\ (~Answers \/ cancelled))
  /\ reaper' = "done"
  /\ UNCHANGED <<main, interval, tick, cancelled, open, job, database>>

\* The database does not answer or has no jobs table yet, or the context is
\* cancelled; it is logged.
SweepFails ==
  /\ reaper = "doomed" \/ (reaper \in {"boot", "sweep"} /\ (~Answers \/ cancelled))
  /\ reaper' = "select"
  /\ UNCHANGED <<main, interval, tick, cancelled, open, job, database>>

\* The ticker is made after the first sweep; a tick nobody takes is kept, a
\* second one is dropped.
TickerTicks ==
  /\ reaper \in {"select", "sweep", "doomed"} /\ ~tick
  /\ tick' = TRUE
  /\ UNCHANGED <<main, reaper, interval, cancelled, open, job, database>>

\* The branches of the select; with both ready, either is taken.
RunTick ==
  /\ reaper = "select" /\ tick
  /\ tick' = FALSE
  /\ reaper' = IF cancelled THEN "doomed" ELSE "sweep"
  /\ UNCHANGED <<main, interval, cancelled, open, job, database>>

RunDone ==
  /\ reaper = "select" /\ cancelled
  /\ reaper' = "done"
  /\ UNCHANGED <<main, interval, tick, cancelled, open, job, database>>

-----------------------------------------------------------------------------
(* Shutdown *)

\* (mutated form: the reaper is not told)
SignalUntold ==
  /\ main = "serving"
  /\ main' = "stopping"
  /\ UNCHANGED <<reaper, interval, tick, cancelled, open, job, database>>

\* SIGINT or SIGTERM: <-quit, then stopReaper().  The server still serves.
Signal ==
  /\ main = "serving"
  /\ main' = "stopping" /\ cancelled' = TRUE
  /\ UNCHANGED <<reaper, interval, tick, open, job, database>>

\* <-reaperDone, then GracefulStop: no new call from here on.
ReaperDone ==
  /\ main = "stopping" /\ reaper = "done"
  /\ main' = "draining"
  /\ UNCHANGED <<reaper, interval, tick, cancelled, open, job, database>>

\* GracefulStop returns when the last call has, and with it main.
Exit ==
  /\ main = "draining" /\ \A s \in Call : open[s] = NULL
  /\ Gone

-----------------------------------------------------------------------------
(* Calls, and the workers behind them *)

Accepting == main \in {"serving", "stopping"}

JobMoves(j, from, to) ==
  /\ job[j] = from /\ job' = [job EXCEPT ![j] = to]
  /\ UNCHANGED <<process, open, database>>

\* A call that writes goes through: a new one, or one in flight when the drain began.
Writes == Answers /\ (Accepting \/ \E s \in Call : open[s] = "unary")

Enqueue(j) == Writes /\ JobMoves(j, "none", "pending")

\* A call begins that is not a watch.
Begin(s) ==
  /\ Accepting /\ open[s] = NULL
  /\ \E kind \in {"unary", "stream"} : open' = [open EXCEPT ![s] = kind]
  /\ UNCHANGED <<process, job, database>>

UnaryEnds(s) ==
  /\ open[s] = "unary"
  /\ open' = [open EXCEPT ![s] = NULL]
  /\ UNCHANGED <<process, job, database>>

\* A statement does not come back: a ping, a measurement, a read of the loop.
Hangs(s) ==
  /\ open[s] \in Job \cup {"unary"}
  /\ open' = [open EXCEPT ![s] = "hanging"]
  /\ UNCHANGED <<process, job, database>>

\* The watch of a job that does not exist is answered at once.
OpenStream(s, j) ==
  /\ Accepting /\ open[s] = NULL /\ job[j] # "none"
  /\ open' = [open EXCEPT ![s] = j]
  /\ UNCHANGED <<process, job, database>>

\* A stream polls until its job is terminal; it does not look at the shutdown.
StreamEnds(s) ==
  /\ open[s] \in Job /\ job[open[s]] = "settled"
  /\ open' = [open EXCEPT ![s] = NULL]
  /\ UNCHANGED <<process, job, database>>

\* The caller ends its call, or what hung comes back after all.
HangUp(s) ==
  /\ open[s] # NULL
  /\ open' = [open EXCEPT ![s] = NULL]
  /\ UNCHANGED <<process, job, database>>

Claim(j) == Writes /\ JobMoves(j, "pending", "claimed")

\* A settle, or a retryable one; late ones too, while no sweep has come between.
Settle(j) ==
  /\ Writes
  /\ \E from \in {"claimed", "lapsed"}, to \in {"settled", "pending"} : JobMoves(j, from, to)

\* The worker dies, or is slow, and its lease lapses.
WorkerDies(j) == JobMoves(j, "claimed", "lapsed")

DbChanges == dbUp' = ~dbUp /\ UNCHANGED <<process, open, job, migrated>>

\* cmd/migrations, a process of its own: nothing makes the server wait for it.
Migrate ==
  /\ dbUp /\ ~migrated
  /\ migrated' = TRUE
  /\ UNCHANGED <<process, open, job, dbUp>>

-----------------------------------------------------------------------------

Run == SweepSucceeds \/ SweepFails \/ TickerTicks \/ RunTick \/ RunDone

Next ==
  \/ \E raw \in RawIntervals : Boot(raw)
  \/ Run \/ Signal \/ ReaperDone \/ Exit \/ Crash \/ DbChanges \/ Migrate
  \/ \E s \in Call : Begin(s) \/ UnaryEnds(s) \/ Hangs(s)
                    \/ (\E j \in Job : OpenStream(s, j)) \/ StreamEnds(s) \/ HangUp(s)
  \/ \E j \in Job : Enqueue(j) \/ Claim(j) \/ Settle(j) \/ WorkerDies(j)

Spec == Init /\ [][Next]_vars

\* A sweep ends, a ticker ticks, a goroutine that can go on does, a stream notices
\* that its job is settled, a unary call is answered, unless it hangs.  A select that
\* keeps finding the context cancelled takes that branch some day: it picks at random
\* among the ready.
Fairness ==
  /\ WF_vars(SweepSucceeds \/ SweepFails)
  /\ WF_vars(TickerTicks) /\ WF_vars(RunTick) /\ SF_vars(RunDone)
  /\ WF_vars(ReaperDone) /\ WF_vars(Exit)
  /\ \A s \in Call : WF_vars(StreamEnds(s)) /\ WF_vars(UnaryEnds(s))

FairSpec == Spec /\ Fairness

-----------------------------------------------------------------------------
(* Properties *)

\* However often sweeps have failed before, a process that goes on serving with
\* its database up recovers every lapsed claim.  (Reaper.sweep logging a
\* failure and living on, Reaper.Run sweeping on every tick.)
LapsedIsRecovered ==
  <>[](main = "serving" /\ dbUp) => \A j \in Job : []<>(job[j] # "lapsed")

\* A call that a drain may wait for without end: the watch of a job that does not
\* settle, a stream its caller keeps open, a call one of whose statements hangs.
HoldsUp(s) == open[s] \in {"stream", "hanging"} \/ (open[s] \in Job /\ job[open[s]] # "settled")

\* A shutdown that never ends is held up by calls that do not end themselves, at
\* every moment from some time on: not by the reaper, whatever its ticker and its
\* sweeps do, not by the watch of a job that settles, and not by unary calls that
\* are answered, though they go on writing while the server drains.  (The shutdown
\* sequence of main, Run's select, the watch loop.)
StuckOnlyOnCalls ==
  <>[](main \in {"stopping", "draining"}) => <>[](\E s \in Call : HoldsUp(s))
=============================================================================
