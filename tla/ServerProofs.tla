---------------------------- MODULE ServerProofs ----------------------------
(***************************************************************************)
(* Theorems about Server: the order in which the process comes up and goes *)
(* down, whatever fails, and that its reaper goes on until it is told to   *)
(* stop, and then stops, for any jobs, calls and configured intervals.     *)
(***************************************************************************)
EXTENDS Server, TLAPS

-----------------------------------------------------------------------------
(* The inductive invariant *)

\* A process has a reaper with a cadence as long as it has a main; main cancels
\* the reaper before it waits for it, and drains only when it is done.
ShutdownIsOrdered ==
  /\ main = "down" => reaper = "off"
  /\ main # "down" => reaper # "off" /\ interval # NULL
  /\ cancelled => main \in {"stopping", "draining"}
  /\ reaper \in {"doomed", "done"} => cancelled
  /\ main = "draining" => reaper = "done"

IInv == TypeOK /\ ShutdownIsOrdered

-----------------------------------------------------------------------------
(* The invariant holds *)

\* A boot takes a positive cadence or none: ReaperInterval refuses the rest.
LEMMA IntervalsArePositive ==
  ASSUME NEW raw \in RawIntervals, ReaperInterval(raw) # NULL
  PROVE  ReaperInterval(raw) \in Nat \ {0}
  BY ConstantsAssumption DEF ReaperInterval, ReaperIntervalDefault, Raw

\* No step makes a job or a stream anything but what its type allows.
LEMMA TypeStep == ASSUME TypeOK, [Next]_vars PROVE TypeOK'
<1> USE DEF TypeOK, Main, Reaper
<1>1. CASE UNCHANGED vars
  BY <1>1 DEF vars
<1>2. ASSUME NEW raw \in RawIntervals, Boot(raw) PROVE TypeOK'
  BY <1>2, IntervalsArePositive DEF Boot, database
<1>3. CASE SweepSucceeds
  BY <1>3 DEF SweepSucceeds, database
<1>4. CASE SweepFails \/ TickerTicks \/ RunTick \/ RunDone \/ Signal \/ ReaperDone
  BY <1>4 DEF SweepFails, TickerTicks, RunTick, RunDone, Signal, ReaperDone, database
<1>5. CASE Exit \/ Crash
  BY <1>5 DEF Exit, Crash, Gone, database
<1>6. CASE DbChanges \/ Migrate
  <2>1. dbUp' \in BOOLEAN /\ migrated' \in BOOLEAN
    BY <1>6 DEF DbChanges, Migrate
  <2>2. UNCHANGED <<main, reaper, interval, tick, cancelled, open, job>>
    BY <1>6 DEF DbChanges, Migrate, process
  <2> QED
    BY <2>1, <2>2
<1>7. ASSUME NEW s \in Call,
             \/ Begin(s) \/ UnaryEnds(s) \/ Hangs(s)
             \/ (\E j \in Job : OpenStream(s, j)) \/ StreamEnds(s) \/ HangUp(s)
      PROVE  TypeOK'
  <2>1. \E k \in Job \cup Kind \cup {NULL} : open' = [open EXCEPT ![s] = k]
    BY <1>7 DEF Begin, UnaryEnds, Hangs, OpenStream, StreamEnds, HangUp, Kind
  <2>2. UNCHANGED <<process, job, database>>
    BY <1>7 DEF Begin, UnaryEnds, Hangs, OpenStream, StreamEnds, HangUp
  <2> QED
    BY <2>1, <2>2 DEF process, database
<1>8. ASSUME NEW j \in Job, Enqueue(j) \/ Claim(j) \/ Settle(j) \/ WorkerDies(j) PROVE TypeOK'
  BY <1>8 DEF Enqueue, Claim, Settle, WorkerDies, JobMoves, process, database
<1> QED
  BY <1>1, <1>2, <1>3, <1>4, <1>5, <1>6, <1>7, <1>8 DEF Next, Run

\* Main and the reaper wait for each other in the order of main's shutdown.
LEMMA OrderStep == ASSUME TypeOK, ShutdownIsOrdered, [Next]_vars PROVE ShutdownIsOrdered'
<1> USE DEF ShutdownIsOrdered
<1>1. CASE UNCHANGED vars
  BY <1>1 DEF vars
<1>2. ASSUME NEW raw \in RawIntervals, Boot(raw) PROVE ShutdownIsOrdered'
  BY <1>2 DEF Boot
<1>3. CASE Run
  BY <1>3 DEF Run, SweepSucceeds, SweepFails, TickerTicks, RunTick, RunDone
<1>4. CASE Signal \/ ReaperDone
  BY <1>4 DEF Signal, ReaperDone
<1>5. CASE Exit \/ Crash
  BY <1>5 DEF Exit, Crash, Gone
<1>6. CASE UNCHANGED process
  BY <1>6 DEF process
<1> QED
  BY <1>1, <1>2, <1>3, <1>4, <1>5, <1>6
  DEF Next, DbChanges, Migrate, Begin, UnaryEnds, Hangs, OpenStream, StreamEnds, HangUp,
      Enqueue, Claim, Settle, WorkerDies, JobMoves

\* Every step of the process, its database and its callers keeps the invariant.
LEMMA IInvariant == Spec => []IInv
<1>1. Init => IInv
  BY DEF Init, IInv, TypeOK, Main, Reaper, ShutdownIsOrdered
<1>2. IInv /\ [Next]_vars => IInv'
  BY TypeStep, OrderStep DEF IInv
<1> QED
  BY <1>1, <1>2, PTL DEF Spec

-----------------------------------------------------------------------------
(* The reaper goes on *)

\* A main that is on its way down has told the reaper.
ReaperIsTold == main \in {"stopping", "draining"} => cancelled

\* There is no job before there is a table.
NoJobsBeforeTable == ~migrated => \A j \in Job : job[j] = "none"

Standing == IInv /\ ReaperIsTold /\ NoJobsBeforeTable

\* Every step keeps both.
LEMMA StandingInvariant == Spec => []Standing
<1>1. Init => ReaperIsTold /\ NoJobsBeforeTable
  BY DEF Init, ReaperIsTold, NoJobsBeforeTable
<1>2. IInv /\ ReaperIsTold /\ [Next]_vars => ReaperIsTold'
  <2> SUFFICES ASSUME ReaperIsTold, ShutdownIsOrdered, [Next]_vars PROVE ReaperIsTold'
    BY DEF IInv
  <2> USE DEF ReaperIsTold
  <2>1. CASE UNCHANGED process
    BY <2>1 DEF process
  <2>2. ASSUME NEW raw \in RawIntervals, Boot(raw) PROVE ReaperIsTold'
    BY <2>2 DEF Boot
  <2>3. CASE Run
    BY <2>3 DEF Run, SweepSucceeds, SweepFails, TickerTicks, RunTick, RunDone
  <2>4. CASE Signal \/ ReaperDone \/ Exit \/ Crash
    BY <2>4 DEF Signal, ReaperDone, Exit, Crash, Gone
  <2> QED
    BY <2>1, <2>2, <2>3, <2>4
    DEF Next, vars, process, DbChanges, Migrate, Begin, UnaryEnds, Hangs, OpenStream,
        StreamEnds, HangUp, Enqueue, Claim, Settle, WorkerDies, JobMoves
<1>3. IInv /\ NoJobsBeforeTable /\ [Next]_vars => NoJobsBeforeTable'
  <2> SUFFICES ASSUME TypeOK, NoJobsBeforeTable, [Next]_vars, ~migrated'
               PROVE  \A j \in Job : job'[j] = "none"
    BY DEF IInv, NoJobsBeforeTable
  <2>1. CASE UNCHANGED <<job, migrated>>
    BY <2>1 DEF NoJobsBeforeTable
  <2>2. CASE SweepSucceeds
    BY <2>2 DEF SweepSucceeds, Answers, database
  <2>3. ASSUME NEW j \in Job, Enqueue(j) \/ Claim(j) \/ Settle(j) PROVE FALSE
    BY <2>3 DEF Enqueue, Claim, Settle, Writes, Answers, JobMoves, database
  <2>4. ASSUME NEW j \in Job, WorkerDies(j) PROVE FALSE
    BY <2>4 DEF WorkerDies, JobMoves, database, NoJobsBeforeTable
  <2>5. CASE Migrate
    BY <2>5 DEF Migrate
  <2>6. [Next]_vars => \/ UNCHANGED <<job, migrated>> \/ SweepSucceeds \/ Migrate
                       \/ \E j \in Job : Enqueue(j) \/ Claim(j) \/ Settle(j) \/ WorkerDies(j)
    BY DEF Next, Run, vars, database, Boot, SweepFails, TickerTicks, RunTick, RunDone, Signal,
           ReaperDone, Exit, Crash, Gone, DbChanges, Begin, UnaryEnds, Hangs, OpenStream,
           StreamEnds, HangUp
  <2> QED
    BY <2>1, <2>2, <2>3, <2>4, <2>5, <2>6
<1> QED
  BY <1>1, <1>2, <1>3, IInvariant, PTL DEF Standing, Spec

Up == main = "serving" /\ dbUp
Stopping == main = "stopping"
Lapsed(j) == job[j] = "lapsed"
Sweeping == reaper \in {"boot", "sweep"}
At(place) == reaper = place
Ticked == tick

\* What Fairness of Server says of the reaper and of main, with the conditions
\* written out under which an action is possible, where WF and SF say it with
\* ENABLED: a sweep ends, a ticker ticks, a goroutine that can go on does, and a
\* select that keeps finding the context cancelled takes that branch some day.
ReaperFairness ==
  /\ []<>~(Sweeping \/ At("doomed")) \/ []<><<SweepSucceeds \/ SweepFails>>_vars
  /\ []<>~((At("select") \/ At("sweep") \/ At("doomed")) /\ ~Ticked) \/ []<><<TickerTicks>>_vars
  /\ []<>~(At("select") /\ Ticked) \/ []<><<RunTick>>_vars
  /\ <>[]~(At("select") /\ cancelled) \/ []<><<RunDone>>_vars
  /\ []<>~(Stopping /\ At("done")) \/ []<><<ReaperDone>>_vars

\* While the server serves and its database is up, a lapsed claim is missed by no
\* sweep, and a tick by no select.
LEMMA ReaperComesRound ==
  ASSUME NEW j \in Job
  PROVE  /\ Standing /\ Up /\ Lapsed(j) => Sweeping \/ At("select")
         /\ Standing /\ Up /\ Lapsed(j) /\ Sweeping /\ [Next]_vars =>
              Sweeping' \/ ~Up' \/ ~Lapsed(j)'
         /\ Standing /\ Up /\ Lapsed(j) /\ <<SweepSucceeds \/ SweepFails>>_vars => ~Lapsed(j)'
         /\ Standing /\ Up /\ At("select") /\ Ticked /\ [Next]_vars => Ticked' \/ Sweeping' \/ ~Up'
         /\ <<TickerTicks>>_vars => Ticked'
         /\ Standing /\ Up /\ <<RunTick>>_vars => Sweeping'
<1> USE DEF Up, Lapsed, Sweeping, At, Ticked
<1>1. Standing /\ Up /\ Lapsed(j) => (Sweeping \/ At("select")) /\ Answers /\ ~cancelled
  BY DEF Standing, IInv, ShutdownIsOrdered, NoJobsBeforeTable, Answers, TypeOK, Reaper
<1>2. Standing /\ Up /\ Lapsed(j) /\ (SweepSucceeds \/ SweepFails) => ~Lapsed(j)'
  <2> SUFFICES ASSUME Standing, Up, Lapsed(j), SweepSucceeds \/ SweepFails PROVE ~Lapsed(j)'
    OBVIOUS
  <2>1. SweepSucceeds
    BY <1>1 DEF SweepFails, Standing, IInv, ShutdownIsOrdered
  <2> QED
    BY <2>1 DEF SweepSucceeds
<1>3. Sweeping /\ [Next]_vars => \/ Sweeping' \/ ~Up' \/ SweepSucceeds \/ SweepFails
  BY DEF Next, Run, vars, process, Boot, TickerTicks, RunTick, RunDone, Signal,
         ReaperDone, Exit, Crash, Gone, DbChanges, Migrate, Begin, UnaryEnds, Hangs,
         OpenStream, StreamEnds, HangUp,
         Enqueue, Claim, Settle, WorkerDies, JobMoves
<1>4. Standing /\ Up /\ At("select") /\ Ticked /\ [Next]_vars => Ticked' \/ Sweeping' \/ ~Up'
  BY DEF Standing, IInv, ShutdownIsOrdered, Next, Run, vars, process, Boot, SweepSucceeds,
         SweepFails, TickerTicks, RunTick, RunDone, Signal, ReaperDone, Exit, Crash, Gone,
         DbChanges, Migrate, Begin, UnaryEnds, Hangs, OpenStream, StreamEnds, HangUp,
         Enqueue, Claim, Settle,
         WorkerDies, JobMoves
<1>5. Standing /\ Up /\ RunTick => Sweeping'
  BY DEF Standing, IInv, ShutdownIsOrdered, RunTick
<1> QED
  BY <1>1, <1>2, <1>3, <1>4, <1>5 DEF TickerTicks

\* Of a process that goes on serving, no claim stays lapsed.
LEMMA ClaimIsRecovered ==
  ASSUME NEW j \in Job
  PROVE  Spec /\ ReaperFairness /\ <>[]Up => []<>~Lapsed(j)
<1>1. /\ Standing /\ Up /\ Lapsed(j) => Sweeping \/ At("select")
      /\ Standing /\ Up /\ Lapsed(j) /\ Sweeping /\ [Next]_vars =>
           Sweeping' \/ ~Up' \/ ~Lapsed(j)'
      /\ Standing /\ Up /\ Lapsed(j) /\ <<SweepSucceeds \/ SweepFails>>_vars => ~Lapsed(j)'
      /\ Standing /\ Up /\ At("select") /\ Ticked /\ [Next]_vars => Ticked' \/ Sweeping' \/ ~Up'
      /\ <<TickerTicks>>_vars => Ticked'
      /\ Standing /\ Up /\ <<RunTick>>_vars => Sweeping'
  BY ReaperComesRound
<1> QED
  BY <1>1, StandingInvariant, PTL DEF Spec, ReaperFairness

\* Of a process that is told to stop, the reaper stops, whatever its ticker and its
\* sweeps do.
LEMMA ReaperStops ==
  /\ Standing /\ Stopping => cancelled /\ (Sweeping \/ At("select") \/ At("doomed") \/ At("done"))
  /\ Standing /\ <<SweepSucceeds \/ SweepFails>>_vars => At("select")'
  /\ <<RunDone>>_vars => At("done")'
  /\ Stopping /\ At("done") /\ [Next]_vars => At("done")' \/ ~Stopping'
  /\ <<ReaperDone>>_vars => ~Stopping'
<1> USE DEF Stopping, Sweeping, At
<1>1. Standing /\ Stopping => cancelled /\ (Sweeping \/ At("select") \/ At("doomed") \/ At("done"))
  BY DEF Standing, ReaperIsTold, IInv, ShutdownIsOrdered, TypeOK, Reaper
<1>2. <<SweepSucceeds \/ SweepFails>>_vars => At("select")'
  BY DEF SweepSucceeds, SweepFails
<1>3. Stopping /\ At("done") /\ [Next]_vars => At("done")' \/ ~Stopping'
  BY DEF Next, Run, vars, process, Boot, SweepSucceeds, SweepFails, TickerTicks, RunTick,
         RunDone, Signal, ReaperDone, Exit, Crash, Gone, DbChanges, Migrate,
         Begin, UnaryEnds, Hangs, OpenStream, StreamEnds, HangUp, Enqueue, Claim, Settle, WorkerDies, JobMoves
<1> QED
  BY <1>1, <1>2, <1>3 DEF RunDone, ReaperDone

-----------------------------------------------------------------------------
(* What it says *)

\* Every part of the process stays one of its type; in particular the reaper's
\* cadence is positive, and time.NewTicker never panics.
\* (ReaperInterval, in internal/lib and config/env.)
THEOREM TypeCorrect == Spec => []TypeOK
<1>1. IInv => TypeOK
  BY DEF IInv
<1> QED
  BY <1>1, IInvariant, PTL

\* The server drains its calls only when the reaper has finished, and the reaper
\* finishes, or sweeps in vain, only when a signal came: no failed sweep, crash
\* or restart in between ends the loop of a process that serves.
\* (stopReaper, <-reaperDone and GracefulStop in cmd/grpc/main.go.)
THEOREM ReaperEndsBeforeServer == Spec => []ShutdownIsOrdered
<1>1. IInv => ShutdownIsOrdered
  BY DEF IInv
<1> QED
  BY <1>1, IInvariant, PTL

\* A process that goes on serving with its database up recovers every lapsed
\* claim, however often sweeps have failed before.  (Reaper.sweep logging a failure
\* and living on, Reaper.Run sweeping on every tick.)
THEOREM LapsedClaimsAreRecovered == Spec /\ ReaperFairness => LapsedIsRecovered
<1>1. (main = "serving" /\ dbUp) <=> Up
  BY DEF Up
<1>2. ASSUME NEW j \in Job
      PROVE  Spec /\ ReaperFairness =>
               (<>[](main = "serving" /\ dbUp) => []<>(job[j] # "lapsed"))
  <2>1. ~Lapsed(j) => job[j] # "lapsed"
    BY DEF Lapsed
  <2>2. Spec /\ ReaperFairness /\ <>[]Up => []<>~Lapsed(j)
    BY ClaimIsRecovered
  <2> QED
    BY <1>1, <2>1, <2>2, PTL
<1> QED
  BY <1>2 DEF LapsedIsRecovered

\* A shutdown is never held up by the reaper: main gets past <-reaperDone, whether
\* the signal comes during a sweep, before a tick that is already there, or with the
\* database down.  (stopReaper, the select of Reaper.Run.)
THEOREM ReaperHoldsUpNoShutdown == Spec /\ ReaperFairness => (Stopping ~> ~Stopping)
<1> QED
  BY ReaperStops, StandingInvariant, PTL DEF Spec, ReaperFairness
=============================================================================
