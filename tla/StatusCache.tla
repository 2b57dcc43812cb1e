----------------------------- MODULE StatusCache -----------------------------
(***************************************************************************)
(* The Status call and the cached backlog it reports                       *)
(* (internal/handlers/grpc.status.go, core/jobQueueDepth.go,               *)
(* dao/pg.jobQueueDepth.go).                                               *)
(*                                                                         *)
(* Probes of an orchestrator run side by side.  Each pings the database,   *)
(* looks at the cache under the lock, measures the backlog without it when *)
(* the entry is too old, and stores what it measured under the lock again. *)
(* A measurement is represented by the time the database took it: what the *)
(* numbers are does not matter here, how old they are does.  The ping and  *)
(* the measurement are statements of their own: one of them may fail where *)
(* the other succeeds.                                                     *)
(***************************************************************************)
EXTENDS Integers

CONSTANTS
  Probe,    \* the probes, each with one call at a time
  Hanging,  \* those whose ping or measurement may never come back
  TTL,      \* statusQueueCacheTTL
  MaxQuery, \* the longest time from a measurement to its being stored
  Horizon,  \* the clock runs up to this bound
  NULL      \* nil

ASSUME ConstantsAssumption ==
  /\ Hanging \subseteq Probe
  /\ TTL \in Nat /\ TTL > 0
  /\ MaxQuery \in Nat /\ Horizon \in Nat
  /\ NULL \notin Nat /\ NULL \notin Probe

VARIABLES
  now,      \* the clock
  dbUp,     \* whether the database answers
  mu,       \* which probe holds handler.mu
  cached,   \* handler.cached: the time of the measurement, or nil
  cachedAt, \* handler.cachedAt
  probe     \* Probe -> its call

vars == <<now, dbUp, mu, cached, cachedAt, probe>>

Serving == {"ping", "lock", "look", "measure", "relock", "store"}

\* up: what the ping said.  depth: the measurement in hand, the one answered in
\* the end.  For the properties, at: when that was, entry: when what the cache
\* held as the call began had been stored, or nil.
Call ==
  [ pc : {"idle", "answered"} \cup Serving, up : BOOLEAN, depth : Nat \cup {NULL},
    at : Nat, entry : Nat \cup {NULL} ]

TypeOK ==
  /\ now \in Nat /\ dbUp \in BOOLEAN
  /\ mu \in Probe \cup {NULL}
  /\ cached \in Nat \cup {NULL} /\ cachedAt \in Nat
  /\ probe \in [Probe -> Call]

Init ==
  /\ now = 0 /\ dbUp \in BOOLEAN
  /\ mu = NULL
  /\ cached = NULL /\ cachedAt = 0
  /\ probe = [c \in Probe |->
       [pc |-> "idle", up |-> FALSE, depth |-> NULL, at |-> 0, entry |-> NULL]]

Goto(c, pc) == probe' = [probe EXCEPT ![c].pc = pc]

Respond(c, depth) ==
  probe' = [probe EXCEPT ![c].pc = "answered", ![c].depth = depth, ![c].at = now]

-----------------------------------------------------------------------------
(* Status *)

Status(c) ==
  /\ probe[c].pc \in {"idle", "answered"}
  /\ probe' = [probe EXCEPT ![c] =
       [ pc |-> "ping", up |-> FALSE, depth |-> NULL, at |-> 0,
         entry |-> IF cached = NULL THEN NULL ELSE cachedAt ]]
  /\ UNCHANGED <<now, dbUp, mu, cached, cachedAt>>

\* The ping; the backlog is reported whatever it says.
reportPostgres(c) ==
  /\ probe[c].pc = "ping"
  /\ probe' = [probe EXCEPT ![c].pc = "lock", ![c].up = dbUp]
  /\ UNCHANGED <<now, dbUp, mu, cached, cachedAt>>

Lock(c) ==
  /\ probe[c].pc = "lock" /\ mu = NULL
  /\ mu' = c
  /\ Goto(c, "look")
  /\ UNCHANGED <<now, dbUp, cached, cachedAt>>

\* (mutated form: an entry that lasts through the instant it expires at)
FreshOneLonger == cached # NULL /\ now - cachedAt <= TTL

Fresh == cached # NULL /\ now - cachedAt < TTL

\* (mutated form: the lock is kept while the backlog is measured)
LookAndKeep(c) ==
  /\ probe[c].pc = "look"
  /\ \/ Fresh /\ mu' = NULL /\ Respond(c, cached)
     \/ ~Fresh /\ mu' = mu /\ Goto(c, "measure")
  /\ UNCHANGED <<now, dbUp, cached, cachedAt>>

\* The first critical section, and the answer from a fresh entry.
Look(c) ==
  /\ probe[c].pc = "look"
  /\ mu' = NULL
  /\ \/ Fresh /\ Respond(c, cached)
     \/ ~Fresh /\ Goto(c, "measure")
  /\ UNCHANGED <<now, dbUp, cached, cachedAt>>

Measure(c) ==
  /\ probe[c].pc = "measure" /\ dbUp
  /\ probe' = [probe EXCEPT ![c].pc = "relock", ![c].depth = now]
  /\ UNCHANGED <<now, dbUp, mu, cached, cachedAt>>

\* (mutated form: a failed measurement drops the entry for everybody)
MeasureFailsForAll(c) ==
  /\ probe[c].pc = "measure"
  /\ Respond(c, NULL)
  /\ cached' = NULL
  /\ UNCHANGED <<now, dbUp, mu, cachedAt>>

\* The measurement fails, on any error and whatever the ping said: the database is
\* away, the jobs table is not there yet, the caller's context is over.  No report,
\* and the entry stays as it is.
MeasureFails(c) ==
  /\ probe[c].pc = "measure"
  /\ Respond(c, NULL)
  /\ UNCHANGED <<now, dbUp, mu, cached, cachedAt>>

Relock(c) ==
  /\ probe[c].pc = "relock" /\ mu = NULL
  /\ mu' = c
  /\ Goto(c, "store")
  /\ UNCHANGED <<now, dbUp, cached, cachedAt>>

\* The second critical section: whichever probe stores last is what is cached,
\* dated from when it is stored.
Store(c) ==
  /\ probe[c].pc = "store"
  /\ mu' = NULL
  /\ cached' = probe[c].depth /\ cachedAt' = now
  /\ Respond(c, probe[c].depth)
  /\ UNCHANGED <<now, dbUp>>

-----------------------------------------------------------------------------
(* The world *)

DbChanges ==
  /\ dbUp' = ~dbUp
  /\ UNCHANGED <<now, mu, cached, cachedAt, probe>>

Tick ==
  /\ now < Horizon
  /\ \A c \in Probe : probe[c].pc \in {"relock", "store"} => now - probe[c].depth < MaxQuery
  /\ now' = now + 1
  /\ UNCHANGED <<dbUp, mu, cached, cachedAt, probe>>

Next ==
  \/ \E c \in Probe :
       \/ Status(c) \/ reportPostgres(c) \/ Lock(c) \/ Look(c)
       \/ Measure(c) \/ MeasureFails(c) \/ Relock(c) \/ Store(c)
  \/ DbChanges \/ Tick

Spec == Init /\ [][Next]_vars

\* Handlers run on; sync.Mutex starves nobody; a ping and a measurement come back,
\* unless they are of those that hang.
Fairness ==
  /\ \A c \in Probe :
       SF_vars(Lock(c)) /\ WF_vars(Look(c)) /\ SF_vars(Relock(c)) /\ WF_vars(Store(c))
  /\ \A c \in Probe \ Hanging :
       WF_vars(reportPostgres(c)) /\ WF_vars(Measure(c) \/ MeasureFails(c))

FairSpec == Spec /\ Fairness

-----------------------------------------------------------------------------
(* Properties *)

\* A backlog that is reported is younger than the TTL and one measurement
\* together, however measurements overtake each other on their way into the
\* cache.  (reportQueueDepth, cachedAt = time.Now() after the query.)
ReportIsRecent ==
  \A c \in Probe : probe[c].pc = "answered" /\ probe[c].depth # NULL =>
    probe[c].at - probe[c].depth < TTL + MaxQuery

\* What one probe could not measure is not held against another: a call that began
\* with an entry in the cache leaves the report out only if that entry expired
\* before it was answered, however many measurements failed meanwhile.
\* (reportQueueDepth leaving cached and cachedAt alone on an error.)
AbsentOnlyWithoutEntry ==
  \A c \in Probe : probe[c].pc = "answered" /\ probe[c].depth = NULL =>
    probe[c].entry = NULL \/ probe[c].at - probe[c].entry >= TTL

\* A ping or a measurement that hangs holds up its own probe and no other.  (handler.mu
\* released before queueDepth.Exec.)
OthersAnswered ==
  \A c \in Probe \ Hanging : probe[c].pc \in Serving ~> probe[c].pc = "answered"
==============================================================================
