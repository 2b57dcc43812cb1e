------------------------- MODULE StatusCacheProofs --------------------------
(***************************************************************************)
(* Theorems about StatusCache: how old the backlog is that a Status call   *)
(* reports, when it may leave it out, and that whoever does not hang is    *)
(* answered, for any number of probes.                                     *)
(***************************************************************************)
EXTENDS StatusCache, TLAPS

-----------------------------------------------------------------------------
(* The inductive invariant *)

\* A measurement that is not stored yet is at most MaxQuery old, and the one in
\* the cache was when it was stored.
MeasurementsAreBounded ==
  /\ cachedAt <= now
  /\ cached # NULL => cachedAt - cached <= MaxQuery
  /\ \A c \in Probe : probe[c].pc \in {"relock", "store"} =>
       probe[c].depth \in Nat /\ now - probe[c].depth <= MaxQuery

\* An entry that a call began with is there, or a later one is; and a call that
\* measures has seen it expire.
EntryStays(c) ==
  probe[c].entry # NULL =>
    /\ probe[c].pc \in Serving => cached # NULL /\ probe[c].entry <= cachedAt
    /\ probe[c].pc = "measure" => now - probe[c].entry >= TTL

EntriesStay == \A c \in Probe : EntryStays(c)

IInv == TypeOK /\ MeasurementsAreBounded /\ EntriesStay /\ ReportIsRecent /\ AbsentOnlyWithoutEntry

-----------------------------------------------------------------------------
(* One step *)

\* A probe goes on: its call keeps what it is about.
LEMMA GotoEffect ==
  ASSUME TypeOK, NEW c \in Probe, NEW pc \in Serving, Goto(c, pc)
  PROVE  /\ probe' \in [Probe -> Call]
         /\ probe'[c].pc = pc /\ probe'[c].depth = probe[c].depth
         /\ probe'[c].entry = probe[c].entry
         /\ \A d \in Probe \ {c} : probe'[d] = probe[d]
<1>1. [probe[c] EXCEPT !.pc = pc] \in Call
  BY DEF TypeOK, Call
<1> QED
  BY <1>1 DEF TypeOK, Call, Goto

\* A probe is answered.
LEMMA RespondEffect ==
  ASSUME TypeOK, NEW c \in Probe, NEW depth \in Nat \cup {NULL}, Respond(c, depth)
  PROVE  /\ probe' \in [Probe -> Call]
         /\ probe'[c].pc = "answered" /\ probe'[c].depth = depth /\ probe'[c].at = now
         /\ probe'[c].entry = probe[c].entry
         /\ \A d \in Probe \ {c} : probe'[d] = probe[d]
<1> DEFINE k == [probe[c] EXCEPT !.pc = "answered", !.depth = depth, !.at = now]
<1>1. probe[c] \in Call /\ now \in Nat
  BY DEF TypeOK
<1>2. /\ k \in Call /\ k.pc = "answered" /\ k.depth = depth /\ k.at = now
      /\ k.entry = probe[c].entry
  BY <1>1 DEF Call
<1>3. probe' = [probe EXCEPT ![c] = k]
  BY DEF Respond
<1> HIDE DEF k
<1> QED
  BY <1>2, <1>3 DEF TypeOK

\* The entry of a call that does not move stays, as the clock and the cache go on.
LEMMA EntryKept ==
  ASSUME IInv, NEW c \in Probe, TypeOK',
         probe'[c].pc = probe[c].pc, probe'[c].entry = probe[c].entry,
         now <= now', cached # NULL => cached' # NULL, cachedAt <= cachedAt'
  PROVE  EntryStays(c)'
<1>1. /\ probe[c].entry \in Nat \cup {NULL} /\ now \in Nat /\ now' \in Nat
      /\ cachedAt \in Nat /\ cachedAt' \in Nat /\ TTL \in Nat
  BY ConstantsAssumption DEF IInv, TypeOK, Call
<1>2. EntryStays(c)
  BY DEF IInv, EntriesStay
<1> QED
  BY <1>1, <1>2 DEF EntryStays

\* The invariant holds of a step that goes on with one probe and leaves the cache.
LEMMA GoOn ==
  ASSUME IInv, NEW c \in Probe, NEW pc \in Serving \ {"relock"}, Goto(c, pc),
         pc = "store" => probe[c].pc = "relock",
         probe[c].pc \in Serving, pc = "measure" => ~Fresh,
         mu' \in Probe \cup {NULL}, UNCHANGED <<now, dbUp, cached, cachedAt>>
  PROVE  IInv'
<1> USE DEF IInv
<1>1. TypeOK'
  BY GotoEffect DEF TypeOK
<1>2. MeasurementsAreBounded'
  BY GotoEffect DEF MeasurementsAreBounded
<1>3. EntriesStay'
  <2> SUFFICES ASSUME NEW d \in Probe PROVE EntryStays(d)'
    BY DEF EntriesStay
  <2>1. now \in Nat /\ cachedAt \in Nat
    BY DEF TypeOK
  <2>2. CASE d # c
    <3>1. probe'[d] = probe[d]
      BY <2>2, GotoEffect
    <3> QED
      BY <1>1, <2>1, <3>1, EntryKept
  <2>3. CASE d = c
    <3>1. probe'[c].pc = pc /\ probe'[c].entry = probe[c].entry
      BY GotoEffect
    <3>2. EntryStays(c) /\ probe[c].entry \in Nat \cup {NULL} /\ TTL \in Nat
      BY ConstantsAssumption DEF EntriesStay, TypeOK, Call
    <3> QED
      BY <2>1, <2>3, <3>1, <3>2 DEF EntryStays, Fresh
  <2> QED
    BY <2>2, <2>3
<1>4. ReportIsRecent' /\ AbsentOnlyWithoutEntry'
  BY GotoEffect DEF ReportIsRecent, AbsentOnlyWithoutEntry, Serving
<1> QED
  BY <1>1, <1>2, <1>3, <1>4

\* It holds of an answer that is recent, or is none from a call that began without
\* an entry or with one that has expired.
LEMMA Answers ==
  ASSUME IInv, NEW c \in Probe, NEW depth \in Nat \cup {NULL}, Respond(c, depth),
         depth # NULL => now - depth < TTL + MaxQuery,
         depth = NULL => probe[c].entry = NULL \/ now - probe[c].entry >= TTL,
         TypeOK', UNCHANGED <<now, dbUp>>,
         cached # NULL => cached' # NULL, cachedAt <= cachedAt',
         cachedAt' <= now, cached' # NULL => cachedAt' - cached' <= MaxQuery
  PROVE  IInv'
<1> USE DEF IInv
<1>1. MeasurementsAreBounded'
  BY RespondEffect DEF MeasurementsAreBounded
<1>2. EntriesStay'
  <2> SUFFICES ASSUME NEW d \in Probe PROVE EntryStays(d)'
    BY DEF EntriesStay
  <2>1. CASE d # c
    <3>1. probe'[d] = probe[d] /\ now <= now'
      BY <2>1, RespondEffect DEF TypeOK
    <3> QED
      BY <3>1, EntryKept
  <2>2. CASE d = c
    BY <2>2, RespondEffect DEF EntryStays, Serving
  <2> QED
    BY <2>1, <2>2
<1>3. ReportIsRecent'
  BY RespondEffect DEF ReportIsRecent
<1>4. AbsentOnlyWithoutEntry'
  <2> SUFFICES ASSUME NEW d \in Probe, probe'[d].pc = "answered", probe'[d].depth = NULL
               PROVE  probe'[d].entry = NULL \/ probe'[d].at - probe'[d].entry >= TTL
    BY DEF AbsentOnlyWithoutEntry
  <2>1. CASE d = c
    BY <2>1, RespondEffect
  <2>2. CASE d # c
    <3>1. probe'[d] = probe[d]
      BY <2>2, RespondEffect
    <3> QED
      BY <3>1 DEF AbsentOnlyWithoutEntry
  <2> QED
    BY <2>1, <2>2
<1> QED
  BY <1>1, <1>2, <1>3, <1>4

\* Every step keeps the invariant.
LEMMA InvariantStep == IInv /\ [Next]_vars => IInv'
<1> SUFFICES ASSUME IInv, [Next]_vars PROVE IInv'
  OBVIOUS
<1> USE ConstantsAssumption DEF IInv
<1>1. ASSUME NEW c \in Probe, Status(c) PROVE IInv'
  <2> DEFINE k == [pc |-> "ping", up |-> FALSE, depth |-> NULL, at |-> 0,
                  entry |-> IF cached = NULL THEN NULL ELSE cachedAt]
  <2>1. /\ k \in Call /\ k.pc = "ping"
        /\ k.entry # NULL => cached # NULL /\ k.entry = cachedAt
    BY DEF TypeOK, Call, Serving
  <2>2. probe' = [probe EXCEPT ![c] = k] /\ UNCHANGED <<now, dbUp, mu, cached, cachedAt>>
    BY <1>1 DEF Status
  <2> HIDE DEF k
  <2>3. TypeOK'
    BY <2>1, <2>2 DEF TypeOK
  <2>4. MeasurementsAreBounded'
    BY <2>1, <2>2 DEF TypeOK, MeasurementsAreBounded
  <2>5. EntriesStay'
    <3> SUFFICES ASSUME NEW d \in Probe PROVE EntryStays(d)'
      BY DEF EntriesStay
    <3>1. now \in Nat /\ cachedAt \in Nat
      BY DEF TypeOK
    <3>2. CASE d # c
      <4>1. probe'[d] = probe[d]
        BY <2>2, <3>2 DEF TypeOK
      <4> QED
        BY <2>2, <2>3, <3>1, <4>1, EntryKept
    <3>3. CASE d = c
      <4>1. probe'[c] = k
        BY <2>2 DEF TypeOK
      <4> QED
        BY <2>1, <2>2, <3>1, <3>3, <4>1 DEF EntryStays
    <3> QED
      BY <3>2, <3>3
  <2>6. ReportIsRecent' /\ AbsentOnlyWithoutEntry'
    BY <2>1, <2>2 DEF TypeOK, ReportIsRecent, AbsentOnlyWithoutEntry
  <2> QED
    BY <2>3, <2>4, <2>5, <2>6
<1>2. ASSUME NEW c \in Probe, reportPostgres(c) PROVE IInv'
  <2>1. /\ probe[c].pc = "ping" /\ probe' = [probe EXCEPT ![c].pc = "lock", ![c].up = dbUp]
        /\ UNCHANGED <<now, dbUp, mu, cached, cachedAt>>
    BY <1>2 DEF reportPostgres
  <2> DEFINE k == [probe[c] EXCEPT !.pc = "lock", !.up = dbUp]
  <2>2. k \in Call /\ k.pc = "lock" /\ k.entry = probe[c].entry
    <3> DEFINE m == [probe[c] EXCEPT !.pc = "lock"]
    <3>1. m \in Call /\ m.pc = "lock" /\ m.entry = probe[c].entry
      BY DEF TypeOK, Call, Serving
    <3>2. k = [m EXCEPT !.up = dbUp] /\ dbUp \in BOOLEAN
      BY DEF TypeOK
    <3> HIDE DEF m, k
    <3>3. k \in Call
      BY <3>1, <3>2 DEF Call
    <3>4. k.pc = m.pc /\ k.entry = m.entry
      BY <3>1, <3>2 DEF Call
    <3> QED
      BY <3>1, <3>3, <3>4
  <2>3. probe' = [probe EXCEPT ![c] = k]
    BY <2>1
  <2> HIDE DEF k
  <2>4. TypeOK'
    BY <2>1, <2>2, <2>3 DEF TypeOK
  <2>5. MeasurementsAreBounded'
    BY <2>1, <2>2, <2>3 DEF TypeOK, MeasurementsAreBounded
  <2>6. EntriesStay'
    BY <2>1, <2>2, <2>3 DEF TypeOK, EntriesStay, EntryStays, Serving
  <2>7. ReportIsRecent'
    BY <2>1, <2>2, <2>3 DEF TypeOK, ReportIsRecent
  <2>8. AbsentOnlyWithoutEntry'
    BY <2>1, <2>2, <2>3 DEF TypeOK, AbsentOnlyWithoutEntry
  <2> QED
    BY <2>4, <2>5, <2>6, <2>7, <2>8
<1>3. ASSUME NEW c \in Probe, Lock(c) PROVE IInv'
  BY <1>3, GoOn DEF Lock, Serving
<1>4. ASSUME NEW c \in Probe, Look(c) PROVE IInv'
  <2>1. CASE Fresh /\ Respond(c, cached)
    <3>1. cached \in Nat /\ now - cached < TTL + MaxQuery
      BY <2>1 DEF Fresh, MeasurementsAreBounded, TypeOK
    <3>2. TypeOK'
      BY <1>4, <2>1, <3>1, RespondEffect DEF Look, TypeOK
    <3>3. cachedAt <= cachedAt'
      BY <1>4 DEF Look, TypeOK
    <3> QED
      BY <1>4, <2>1, <3>1, <3>2, <3>3, Answers DEF Look, MeasurementsAreBounded
  <2>2. CASE ~Fresh /\ Goto(c, "measure")
    BY <1>4, <2>2, GoOn DEF Look, Serving
  <2> QED
    BY <1>4, <2>1, <2>2 DEF Look
<1>5. ASSUME NEW c \in Probe, Measure(c) PROVE IInv'
  <2>1. /\ probe[c].pc = "measure" /\ probe' = [probe EXCEPT ![c].pc = "relock", ![c].depth = now]
        /\ UNCHANGED <<now, dbUp, mu, cached, cachedAt>>
    BY <1>5 DEF Measure
  <2> DEFINE k == [probe[c] EXCEPT !.pc = "relock", !.depth = now]
  <2>2. k \in Call /\ k.pc = "relock" /\ k.entry = probe[c].entry /\ k.depth = now /\ now \in Nat
    <3> DEFINE m == [probe[c] EXCEPT !.pc = "relock"]
    <3>1. m \in Call /\ m.pc = "relock" /\ m.entry = probe[c].entry
      BY DEF TypeOK, Call, Serving
    <3>2. k = [m EXCEPT !.depth = now] /\ now \in Nat
      BY DEF TypeOK
    <3> HIDE DEF m, k
    <3>3. k \in Call
      BY <3>1, <3>2 DEF Call
    <3>4. k.pc = m.pc /\ k.entry = m.entry /\ k.depth = now
      BY <3>1, <3>2 DEF Call
    <3> QED
      BY <3>1, <3>2, <3>3, <3>4
  <2>3. probe' = [probe EXCEPT ![c] = k]
    BY <2>1
  <2> HIDE DEF k
  <2>4. TypeOK'
    <3>1. probe' \in [Probe -> Call]
      BY <2>2, <2>3 DEF TypeOK
    <3> QED
      BY <2>1, <3>1 DEF TypeOK
  <2>5. MeasurementsAreBounded'
    BY <2>1, <2>2, <2>3 DEF TypeOK, MeasurementsAreBounded
  <2>6. EntriesStay'
    BY <2>1, <2>2, <2>3 DEF TypeOK, EntriesStay, EntryStays, Serving
  <2>7. ReportIsRecent' /\ AbsentOnlyWithoutEntry'
    BY <2>1, <2>2, <2>3 DEF TypeOK, ReportIsRecent, AbsentOnlyWithoutEntry
  <2> QED
    BY <2>4, <2>5, <2>6, <2>7
<1>6. ASSUME NEW c \in Probe, MeasureFails(c) PROVE IInv'
  <2>1. probe[c].entry = NULL \/ now - probe[c].entry >= TTL
    BY <1>6 DEF MeasureFails, EntriesStay, EntryStays
  <2>2. TypeOK'
    BY <1>6, RespondEffect DEF MeasureFails, TypeOK
  <2>3. cachedAt <= cachedAt'
    BY <1>6 DEF MeasureFails, TypeOK
  <2> QED
    BY <1>6, <2>1, <2>2, <2>3, Answers DEF MeasureFails, MeasurementsAreBounded
<1>7. ASSUME NEW c \in Probe, Relock(c) PROVE IInv'
  BY <1>7, GoOn DEF Relock, Serving
<1>8. ASSUME NEW c \in Probe, Store(c) PROVE IInv'
  <2> DEFINE depth == probe[c].depth
  <2>1. depth \in Nat /\ now - depth <= MaxQuery /\ now \in Nat
    BY <1>8 DEF Store, MeasurementsAreBounded, TypeOK
  <2>2. depth # NULL /\ now - depth < TTL + MaxQuery
    BY <2>1
  <2>3. TypeOK'
    BY <1>8, <2>1, RespondEffect DEF Store, TypeOK
  <2>4. /\ Respond(c, depth) /\ UNCHANGED <<now, dbUp>>
        /\ cached' = depth /\ cachedAt' = now
    BY <1>8 DEF Store
  <2> HIDE DEF depth
  <2>5. cachedAt' <= now /\ cachedAt' - cached' <= MaxQuery /\ cachedAt <= cachedAt'
    BY <2>1, <2>4 DEF MeasurementsAreBounded
  <2> QED
    BY <2>1, <2>2, <2>3, <2>4, <2>5, Answers
<1>9. CASE DbChanges
  <2>1. dbUp' \in BOOLEAN /\ UNCHANGED <<now, mu, cached, cachedAt, probe>>
    BY <1>9 DEF DbChanges
  <2>2. TypeOK' /\ MeasurementsAreBounded'
    BY <2>1 DEF TypeOK, MeasurementsAreBounded
  <2>3. EntriesStay'
    BY <2>1 DEF EntriesStay, EntryStays
  <2>4. ReportIsRecent' /\ AbsentOnlyWithoutEntry'
    BY <2>1 DEF ReportIsRecent, AbsentOnlyWithoutEntry
  <2> QED
    BY <2>2, <2>3, <2>4
<1>10. CASE Tick
  <2>1. now \in Nat /\ now' = now + 1 /\ UNCHANGED <<dbUp, mu, cached, cachedAt, probe>>
    BY <1>10 DEF Tick, TypeOK
  <2>2. MeasurementsAreBounded'
    <3>1. ASSUME NEW c \in Probe, probe[c].pc \in {"relock", "store"}
          PROVE  now' - probe[c].depth <= MaxQuery
      <4>1. probe[c].depth \in Nat /\ now - probe[c].depth < MaxQuery
        BY <1>10, <3>1 DEF Tick, MeasurementsAreBounded
      <4> QED
        BY <2>1, <4>1
    <3> QED
      BY <2>1, <3>1 DEF MeasurementsAreBounded, TypeOK
  <2>3. TypeOK'
    BY <2>1 DEF TypeOK
  <2>4. EntriesStay'
    BY <2>1, <2>3, EntryKept DEF EntriesStay, TypeOK
  <2>5. ReportIsRecent' /\ AbsentOnlyWithoutEntry'
    BY <2>1 DEF ReportIsRecent, AbsentOnlyWithoutEntry
  <2> QED
    BY <2>2, <2>3, <2>4, <2>5
<1>11. CASE UNCHANGED vars
  <2> USE <1>11 DEF vars
  <2>1. TypeOK' /\ MeasurementsAreBounded'
    BY DEF TypeOK, MeasurementsAreBounded
  <2>2. EntriesStay'
    BY DEF EntriesStay, EntryStays
  <2>3. ReportIsRecent' /\ AbsentOnlyWithoutEntry'
    BY DEF ReportIsRecent, AbsentOnlyWithoutEntry
  <2> QED
    BY <2>1, <2>2, <2>3
<1> QED
  BY <1>1, <1>2, <1>3, <1>4, <1>5, <1>6, <1>7, <1>8, <1>9, <1>10, <1>11 DEF Next

\* Every state satisfies the invariant.
LEMMA IInvariant == Spec => []IInv
<1>1. Init => IInv
  <2> SUFFICES ASSUME Init PROVE IInv
    OBVIOUS
  <2>1. TypeOK
    BY DEF Init, TypeOK, Call
  <2>2. \A c \in Probe : probe[c].pc = "idle"
    BY DEF Init
  <2>3. MeasurementsAreBounded
    BY <2>2 DEF Init, MeasurementsAreBounded
  <2> QED
    BY <2>1, <2>2, <2>3
       DEF IInv, EntriesStay, EntryStays, ReportIsRecent, AbsentOnlyWithoutEntry, Serving
<1> QED
  BY <1>1, InvariantStep, PTL DEF Spec

-----------------------------------------------------------------------------
(* The lock *)

\* A probe holds the lock exactly while it is in a critical section.
MutexStands == \A c \in Probe : mu = c <=> probe[c].pc \in {"look", "store"}

\* Where a call goes from one place to the next.
Goes(here, there) ==
  <<here, there>> \in { <<"idle", "ping">>, <<"answered", "ping">>, <<"ping", "lock">>,
                        <<"lock", "look">>, <<"look", "measure">>, <<"look", "answered">>,
                        <<"measure", "relock">>, <<"measure", "answered">>,
                        <<"relock", "store">>, <<"store", "answered">> }

\* What a step does to the lock and to the places of the probes: at most one probe
\* moves, and it takes the lock as it enters a critical section and gives it back
\* as it leaves.
LEMMA Moves ==
  ASSUME TypeOK, [Next]_vars
  PROVE  \/ mu' = mu /\ \A d \in Probe : probe'[d].pc = probe[d].pc
         \/ \E c \in Probe :
              /\ \A d \in Probe \ {c} : probe'[d].pc = probe[d].pc
              /\ Goes(probe[c].pc, probe'[c].pc)
              /\ IF probe[c].pc \in {"lock", "relock"} THEN mu = NULL /\ mu' = c
                 ELSE IF probe[c].pc \in {"look", "store"} THEN mu' = NULL
                 ELSE mu' = mu
<1> USE DEF Goes
<1>1. ASSUME NEW c \in Probe,
             \/ Status(c) \/ reportPostgres(c) \/ Lock(c) \/ Look(c)
             \/ Measure(c) \/ MeasureFails(c) \/ Relock(c) \/ Store(c)
      PROVE  /\ \A d \in Probe \ {c} : probe'[d].pc = probe[d].pc
             /\ Goes(probe[c].pc, probe'[c].pc)
             /\ IF probe[c].pc \in {"lock", "relock"} THEN mu = NULL /\ mu' = c
                ELSE IF probe[c].pc \in {"look", "store"} THEN mu' = NULL
                ELSE mu' = mu
  <2>0. probe \in [Probe -> Call] /\ probe[c] \in Call
    BY DEF TypeOK
  <2>1. CASE Status(c)
    BY <2>0, <2>1 DEF Status
  <2>2. CASE reportPostgres(c)
    BY <2>0, <2>2 DEF reportPostgres, Call
  <2>3. CASE Lock(c)
    BY <2>0, <2>3 DEF Lock, Goto, Call
  <2>4. CASE Look(c)
    <3>1. CASE Fresh /\ Respond(c, cached)
      BY <2>0, <2>4, <3>1 DEF Look, Respond, Call
    <3>2. CASE ~Fresh /\ Goto(c, "measure")
      BY <2>0, <2>4, <3>2 DEF Look, Goto, Call
    <3> QED
      BY <2>4, <3>1, <3>2 DEF Look
  <2>5. CASE Measure(c)
    BY <2>0, <2>5 DEF Measure, Call
  <2>6. CASE MeasureFails(c)
    BY <2>0, <2>6 DEF MeasureFails, Respond, Call
  <2>7. CASE Relock(c)
    BY <2>0, <2>7 DEF Relock, Goto, Call
  <2>8. CASE Store(c)
    BY <2>0, <2>8 DEF Store, Respond, Call
  <2> QED
    BY <1>1, <2>1, <2>2, <2>3, <2>4, <2>5, <2>6, <2>7, <2>8
<1>2. CASE DbChanges
  <2>1. \A d \in Probe : probe'[d].pc = probe[d].pc
    BY <1>2 DEF DbChanges, TypeOK, Call
  <2> QED
    BY <1>2, <2>1 DEF DbChanges
<1>3. CASE Tick \/ UNCHANGED vars
  BY <1>3 DEF Tick, vars
<1> QED
  BY <1>1, <1>2, <1>3 DEF Next

\* Every state has the lock in the hands of a critical section, or in nobody's.
LEMMA MutexInvariant == Spec => []MutexStands
<1>1. Init => MutexStands
  <2> SUFFICES ASSUME Init PROVE MutexStands
    OBVIOUS
  <2>1. mu = NULL /\ \A c \in Probe : probe[c].pc = "idle"
    BY DEF Init
  <2> QED
    BY <2>1, ConstantsAssumption DEF MutexStands
<1>2. IInv /\ MutexStands /\ [Next]_vars => MutexStands'
  <2> SUFFICES ASSUME TypeOK, MutexStands, [Next]_vars PROVE MutexStands'
    BY DEF IInv
  <2>1. CASE mu' = mu /\ \A d \in Probe : probe'[d].pc = probe[d].pc
    BY <2>1 DEF MutexStands
  <2>2. ASSUME NEW c \in Probe,
               \A d \in Probe \ {c} : probe'[d].pc = probe[d].pc,
               Goes(probe[c].pc, probe'[c].pc),
               IF probe[c].pc \in {"lock", "relock"} THEN mu = NULL /\ mu' = c
               ELSE IF probe[c].pc \in {"look", "store"} THEN mu' = NULL
               ELSE mu' = mu
        PROVE  MutexStands'
    <3>1. CASE probe[c].pc \in {"lock", "relock"}
      BY <2>2, <3>1, ConstantsAssumption DEF MutexStands, Goes
    <3>2. CASE probe[c].pc \in {"look", "store"}
      BY <2>2, <3>2, ConstantsAssumption DEF MutexStands, Goes
    <3>3. CASE probe[c].pc \notin {"lock", "relock", "look", "store"}
      BY <2>2, <3>3 DEF MutexStands, Goes
    <3> QED
      BY <3>1, <3>2, <3>3
  <2> QED
    BY <2>1, <2>2, Moves
<1> QED
  BY <1>1, <1>2, IInvariant, PTL DEF Spec

-----------------------------------------------------------------------------
(* Everybody is answered *)

\* Where a call is, and that it holds the lock there.
At(c, pc) == probe[c].pc = pc
Has(c, pc) == mu = c /\ probe[c].pc = pc

Unlocked == mu = NULL
Waits(c, pc) == At(c, pc) /\ Unlocked

Measured(c) == Measure(c) \/ MeasureFails(c)

\* The Fairness of StatusCache with the conditions written out under which an
\* action is possible, where WF and SF say it with ENABLED: a goroutine that can go
\* on does, and one that finds the lock free again and again gets it.
GoesOn(c) ==
  /\ []<>~At(c, "look") \/ []<><<Look(c)>>_vars
  /\ []<>~At(c, "store") \/ []<><<Store(c)>>_vars
  /\ <>[]~Waits(c, "lock") \/ []<><<Lock(c)>>_vars
  /\ <>[]~Waits(c, "relock") \/ []<><<Relock(c)>>_vars

ComesBack(c) ==
  /\ []<>~At(c, "ping") \/ []<><<reportPostgres(c)>>_vars
  /\ []<>~At(c, "measure") \/ []<><<Measured(c)>>_vars

AllGoOn == \A d \in Probe : GoesOn(d)
OthersComeBack == \A d \in Probe \ Hanging : ComesBack(d)

GuardedFairness == []AllGoOn /\ []OthersComeBack

\* A call stays where it is or goes to one of the places that come next.
LEMMA Onward ==
  ASSUME NEW c \in Probe
  PROVE  /\ IInv /\ At(c, "ping") /\ [Next]_vars => At(c, "ping")' \/ At(c, "lock")'
         /\ IInv /\ At(c, "lock") /\ [Next]_vars => At(c, "lock")' \/ At(c, "look")'
         /\ IInv /\ At(c, "look") /\ [Next]_vars =>
              At(c, "look")' \/ At(c, "measure")' \/ At(c, "answered")'
         /\ IInv /\ At(c, "measure") /\ [Next]_vars =>
              At(c, "measure")' \/ At(c, "relock")' \/ At(c, "answered")'
         /\ IInv /\ At(c, "relock") /\ [Next]_vars => At(c, "relock")' \/ At(c, "store")'
         /\ IInv /\ At(c, "store") /\ [Next]_vars => At(c, "store")' \/ At(c, "answered")'
<1>1. IInv /\ [Next]_vars => probe'[c].pc = probe[c].pc \/ Goes(probe[c].pc, probe'[c].pc)
  BY Moves DEF IInv
<1> QED
  BY <1>1 DEF At, Goes

\* Each of the actions that fairness is about takes its call away from where it is.
LEMMA Leaves ==
  ASSUME NEW c \in Probe
  PROVE  /\ IInv /\ <<reportPostgres(c)>>_vars => ~At(c, "ping")'
         /\ IInv /\ <<Lock(c)>>_vars => ~At(c, "lock")'
         /\ IInv /\ <<Look(c)>>_vars => ~At(c, "look")'
         /\ IInv /\ <<Measured(c)>>_vars => ~At(c, "measure")'
         /\ IInv /\ <<Relock(c)>>_vars => ~At(c, "relock")'
         /\ IInv /\ <<Store(c)>>_vars => ~At(c, "store")'
<1>1. IInv => probe \in [Probe -> Call] /\ probe[c] \in Call
  BY DEF IInv, TypeOK
<1>2. IInv /\ reportPostgres(c) => ~At(c, "ping")'
  BY <1>1 DEF reportPostgres, At, Call
<1>3. IInv /\ Lock(c) => ~At(c, "lock")'
  BY <1>1 DEF Lock, Goto, At, Call
<1>4. IInv /\ Look(c) => ~At(c, "look")'
  BY <1>1 DEF Look, Goto, Respond, At, Call
<1>5. IInv /\ Measured(c) => ~At(c, "measure")'
  BY <1>1 DEF Measured, Measure, MeasureFails, Respond, At, Call
<1>6. IInv /\ Relock(c) => ~At(c, "relock")'
  BY <1>1 DEF Relock, Goto, At, Call
<1>7. IInv /\ Store(c) => ~At(c, "store")'
  BY <1>1 DEF Store, Respond, At, Call
<1> QED
  BY <1>2, <1>3, <1>4, <1>5, <1>6, <1>7

\* Whoever has the lock keeps it where it is, or gives it back.
LEMMA KeepsOrGivesBack ==
  ASSUME NEW c \in Probe, NEW pc \in {"look", "store"}
  PROVE  IInv /\ MutexStands /\ Has(c, pc) /\ [Next]_vars => Has(c, pc)' \/ Unlocked'
<1> SUFFICES ASSUME TypeOK, MutexStands, mu = c, probe[c].pc = pc, [Next]_vars
             PROVE  (mu' = c /\ probe'[c].pc = pc) \/ mu' = NULL
  BY DEF IInv, Has, Unlocked
<1>1. ASSUME NEW d \in Probe,
             \A x \in Probe \ {d} : probe'[x].pc = probe[x].pc,
             Goes(probe[d].pc, probe'[d].pc),
             IF probe[d].pc \in {"lock", "relock"} THEN mu = NULL /\ mu' = d
             ELSE IF probe[d].pc \in {"look", "store"} THEN mu' = NULL
             ELSE mu' = mu
      PROVE  (mu' = c /\ probe'[c].pc = pc) \/ mu' = NULL
  <2>1. CASE d = c
    BY <1>1, <2>1
  <2>2. CASE d # c
    <3>1. mu # NULL /\ probe[d].pc \notin {"look", "store"} /\ probe'[c].pc = pc
      BY <1>1, <2>2, ConstantsAssumption DEF MutexStands
    <3> QED
      BY <1>1, <3>1
  <2> QED
    BY <2>1, <2>2
<1> QED
  BY <1>1, Moves

\* The lock is free again and again: whoever has it is in one of the two critical
\* sections, which wait for nothing.
LEMMA LockComesFree == Spec /\ []AllGoOn => []<>Unlocked
<1> DEFINE Run == []IInv /\ []MutexStands /\ [][Next]_vars /\ []AllGoOn
<1> DEFINE Taken == Run /\ []~Unlocked
<1>1. ASSUME NEW c \in Probe PROVE Taken => ~(mu = c)
  <2>1. IInv /\ MutexStands /\ Has(c, "look") /\ [Next]_vars => Has(c, "look")' \/ Unlocked'
    BY KeepsOrGivesBack
  <2>2. IInv /\ MutexStands /\ Has(c, "store") /\ [Next]_vars => Has(c, "store")' \/ Unlocked'
    BY KeepsOrGivesBack
  <2>3. <<Look(c)>>_vars => Unlocked'
    BY DEF Look, Unlocked
  <2>4. <<Store(c)>>_vars => Unlocked'
    BY DEF Store, Unlocked
  <2>5. /\ Has(c, "look") => At(c, "look")
        /\ Has(c, "store") => At(c, "store")
        /\ MutexStands /\ mu = c => Has(c, "look") \/ Has(c, "store")
    BY DEF Has, At, MutexStands
  <2>6. AllGoOn => GoesOn(c)
    BY DEF AllGoOn
  <2> QED
    BY <2>1, <2>2, <2>3, <2>4, <2>5, <2>6, PTL DEF GoesOn
<1>2. Taken => ~\E c \in Probe : mu = c
  <2> HIDE DEF Taken
  <2> QED
    BY <1>1
<1>3. IInv /\ ~Unlocked => \E c \in Probe : mu = c
  BY DEF IInv, TypeOK, Unlocked
<1>4. ~Taken
  BY <1>2, <1>3, PTL
<1>5. Run => []<>Unlocked
  BY <1>4, PTL
<1> QED
  BY <1>5, IInvariant, MutexInvariant, PTL DEF Spec

\* A call that can go on without the lock or the database does.
LEMMA SectionsEnd ==
  ASSUME NEW c \in Probe
  PROVE  Spec /\ []AllGoOn =>
           /\ At(c, "look") ~> (At(c, "measure") \/ At(c, "answered"))
           /\ At(c, "store") ~> At(c, "answered")
<1>1. AllGoOn => GoesOn(c)
  BY DEF AllGoOn
<1>2. /\ IInv /\ At(c, "look") /\ [Next]_vars =>
           At(c, "look")' \/ At(c, "measure")' \/ At(c, "answered")'
      /\ IInv /\ At(c, "store") /\ [Next]_vars => At(c, "store")' \/ At(c, "answered")'
  BY Onward
<1>3. /\ IInv /\ <<Look(c)>>_vars => ~At(c, "look")'
      /\ IInv /\ <<Store(c)>>_vars => ~At(c, "store")'
  BY Leaves
<1> QED
  BY <1>1, <1>2, <1>3, IInvariant, PTL DEF Spec, GoesOn

\* A call that waits for the lock gets it.
LEMMA LockIsTaken ==
  ASSUME NEW c \in Probe
  PROVE  Spec /\ []AllGoOn =>
           /\ At(c, "lock") ~> At(c, "look")
           /\ At(c, "relock") ~> At(c, "store")
<1>1. AllGoOn => GoesOn(c)
  BY DEF AllGoOn
<1>2. /\ IInv /\ At(c, "lock") /\ [Next]_vars => At(c, "lock")' \/ At(c, "look")'
      /\ IInv /\ At(c, "relock") /\ [Next]_vars => At(c, "relock")' \/ At(c, "store")'
  BY Onward
<1>3. /\ IInv /\ <<Lock(c)>>_vars => ~At(c, "lock")'
      /\ IInv /\ <<Relock(c)>>_vars => ~At(c, "relock")'
  BY Leaves
<1>4. /\ At(c, "lock") /\ Unlocked => Waits(c, "lock")
      /\ At(c, "relock") /\ Unlocked => Waits(c, "relock")
  BY DEF Waits
<1> QED
  BY <1>1, <1>2, <1>3, <1>4, IInvariant, LockComesFree, PTL DEF Spec, GoesOn

\* A ping and a measurement that do not hang come back.
LEMMA StatementsComeBack ==
  ASSUME NEW c \in Probe \ Hanging
  PROVE  Spec /\ []OthersComeBack =>
           /\ At(c, "ping") ~> At(c, "lock")
           /\ At(c, "measure") ~> (At(c, "relock") \/ At(c, "answered"))
<1>1. OthersComeBack => ComesBack(c)
  BY DEF OthersComeBack
<1>2. c \in Probe
  OBVIOUS
<1>3. /\ IInv /\ At(c, "ping") /\ [Next]_vars => At(c, "ping")' \/ At(c, "lock")'
      /\ IInv /\ At(c, "measure") /\ [Next]_vars =>
           At(c, "measure")' \/ At(c, "relock")' \/ At(c, "answered")'
  BY <1>2, Onward
<1>4. /\ IInv /\ <<reportPostgres(c)>>_vars => ~At(c, "ping")'
      /\ IInv /\ <<Measured(c)>>_vars => ~At(c, "measure")'
  BY <1>2, Leaves
<1> QED
  BY <1>1, <1>3, <1>4, IInvariant, PTL DEF Spec, ComesBack

\* A call whose statements do not hang is answered, whoever else hangs.
LEMMA CallIsAnswered ==
  ASSUME NEW c \in Probe \ Hanging
  PROVE  Spec /\ GuardedFairness => (probe[c].pc \in Serving ~> probe[c].pc = "answered")
<1>1. c \in Probe
  OBVIOUS
<1>2. Spec /\ []AllGoOn =>
        /\ At(c, "look") ~> (At(c, "measure") \/ At(c, "answered"))
        /\ At(c, "store") ~> At(c, "answered")
  BY <1>1, SectionsEnd
<1>3. Spec /\ []AllGoOn =>
        /\ At(c, "lock") ~> At(c, "look")
        /\ At(c, "relock") ~> At(c, "store")
  BY <1>1, LockIsTaken
<1>4. Spec /\ []OthersComeBack =>
        /\ At(c, "ping") ~> At(c, "lock")
        /\ At(c, "measure") ~> (At(c, "relock") \/ At(c, "answered"))
  BY StatementsComeBack
<1>5. probe[c].pc \in Serving =>
        \/ At(c, "ping") \/ At(c, "lock") \/ At(c, "look")
        \/ At(c, "measure") \/ At(c, "relock") \/ At(c, "store")
  BY DEF Serving, At
<1>6. At(c, "answered") => probe[c].pc = "answered"
  BY DEF At
<1> QED
  BY <1>2, <1>3, <1>4, <1>5, <1>6, PTL DEF GuardedFairness

-----------------------------------------------------------------------------
(* Theorems *)

\* The clock, the cache and the probes stay within their types.
THEOREM TypeCorrect == Spec => []TypeOK
<1>1. IInv => TypeOK
  BY DEF IInv
<1> QED
  BY <1>1, IInvariant, PTL

\* A backlog that is reported is younger than the TTL and one measurement
\* together, however many probes measure at the same time and in whichever order
\* they store.  (reportQueueDepth, cachedAt = time.Now() after the query.)
THEOREM ReportsAreRecent == Spec => []ReportIsRecent
<1>1. IInv => ReportIsRecent
  BY DEF IInv
<1> QED
  BY <1>1, IInvariant, PTL

\* A call that began with an entry in the cache leaves the report out only if that
\* entry expired before it was answered: neither a measurement that failed nor a
\* wait for the lock takes an entry from anybody.  (reportQueueDepth leaving cached
\* and cachedAt alone on an error.)
THEOREM FailuresTakeNoEntry == Spec => []AbsentOnlyWithoutEntry
<1>1. IInv => AbsentOnlyWithoutEntry
  BY DEF IInv
<1> QED
  BY <1>1, IInvariant, PTL

\* Under fairness, a ping or a measurement that hangs holds up its own probe and no other: a
\* probe waits for the lock only while another is in a critical section, and no
\* critical section measures.  (handler.mu released before queueDepth.Exec.)
THEOREM HangingHoldsUpNobodyElse == Spec /\ GuardedFairness => OthersAnswered
<1> QED
  BY CallIsAnswered DEF OthersAnswered
=============================================================================
