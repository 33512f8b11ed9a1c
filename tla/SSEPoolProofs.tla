----------------------------- MODULE SSEPoolProofs -----------------------------
(***************************************************************************)
(* The Linux adapter closes every pool connection exactly once, frees no   *)
(* record a worker uses and keeps the stream contract, for any set of      *)
(* connections and any size of the pool.                                   *)
(***************************************************************************)
EXTENDS SSEPool, TLAPS

\* Where a worker has a pool connection that a disconnect may take from it.
Sharing == {"set", "sending", "reading", "received", "body", "taking"}

\* The main thread disconnects one connection at a time, which stays allocated until
\* its thread is joined; a connection told to stop is that one or gone.
MainPlaces ==
    /\ main = "engine" => subject = {}
    /\ \A g, h \in subject : g = h
    /\ subject \subseteq allocated \cap stop
    /\ allocated \cap stop \subseteq subject
    /\ ~pool => allocated = {}

\* The life of a worker's thread against the life of its record.
ThreadOf(h) ==
    /\ worker[h] = "none" =>
           h \notin allocated \cup stop \cup opened \cup connected \cup live \cup held
    /\ worker[h] \notin {"none", "exited"} => h \in allocated

\* Who closes the pool connection.
OwnedOf(h) ==
    /\ h \in live <=> worker[h] \in {"dialed", "closing"} \/ h \in held \/ MainClosing(h)
    /\ h \in held => worker[h] \in Sharing /\ ~MainClosing(h)
    /\ MainClosing(h) => worker[h] \in Sharing \cup {"ended", "down", "leaving", "exited"}

\* What the worker may still do and what it has said.
CourseOf(h) ==
    /\ worker[h] = "none" => last[h] = "nothing"
    /\ worker[h] = "leaving" => h \in stop \/ h \notin reconnect
    /\ worker[h] = "lastWord" => h \notin reconnect
    /\ last[h] = "closed" => worker[h] = "exited"
    /\ worker[h] = "exited" => h \in stop \/ last[h] = "closed"

\* What the adapter and the core hold to be open.
OpenOf(h) ==
    /\ h \in opened => status[h] = "2xx"
    /\ h \in connected => worker[h] \in {"reading", "received", "body", "taking", "closing", "ended"}

Threads == \A h \in Connections : ThreadOf(h) /\ OwnedOf(h) /\ CourseOf(h) /\ OpenOf(h)

IInv == TypeOK /\ MainPlaces /\ Threads

-----------------------------------------------------------------------------
LEMMA InitEstablishes == Init => IInv
<1>. SUFFICES ASSUME Init PROVE IInv
  OBVIOUS
<1>1. worker \in [Connections -> WorkerStates] /\ main \in MainStates
  BY DEF Init, WorkerStates, MainStates
<1>2. TypeOK
  BY <1>1 DEF Init, TypeOK
<1>3. MainPlaces
  BY DEF Init, MainPlaces
<1>4. Threads
  <2>. SUFFICES ASSUME NEW h \in Connections
                PROVE  ThreadOf(h) /\ OwnedOf(h) /\ CourseOf(h) /\ OpenOf(h)
    BY DEF Threads
  <2>1. worker[h] = "none" /\ last[h] = "nothing"
    BY DEF Init
  <2>. QED
    BY <2>1 DEF Init, ThreadOf, OwnedOf, CourseOf, OpenOf, MainClosing
<1>. QED
  BY <1>2, <1>3, <1>4 DEF IInv

-----------------------------------------------------------------------------
(* The main thread.                                                        *)

LEMMA MainKeepsType ==
  ASSUME TypeOK, MainStep
  PROVE  TypeOK'
<1>. USE DEF MainStep, Initialize, Connect, Disconnect, MainTakes, MainCloses, JoinReturns,
             Finalize, poolVars, attemptVars, reportVars
<1>1. UNCHANGED <<opened, status, result, connected, last, attempts>>
  OBVIOUS
<1>2. worker' \in [Connections -> WorkerStates]
  BY DEF TypeOK, WorkerStates
<1>3. main' \in MainStates /\ pool' \in BOOLEAN
  BY DEF TypeOK, MainStates
<1>4. /\ subject' \subseteq Connections /\ allocated' \subseteq Connections
      /\ badUrl' \subseteq Connections /\ reconnect' \subseteq Connections
      /\ stop' \subseteq Connections /\ cancel' \subseteq Connections
      /\ live' \subseteq Connections /\ held' \subseteq Connections
  BY DEF TypeOK
<1>. QED
  BY <1>1, <1>2, <1>3, <1>4 DEF TypeOK

LEMMA MainKeepsInvariant ==
  ASSUME IInv, MainStep
  PROVE  MainPlaces' /\ Threads'
<1>. USE DEF IInv, MainPlaces, MainClosing
<1>1. ASSUME NEW h \in Connections, Connect(h) PROVE MainPlaces' /\ Threads'
  <2>1. MainPlaces'
    BY <1>1 DEF Connect, Threads, ThreadOf
  <2>2. ASSUME NEW g \in Connections
        PROVE  ThreadOf(g)' /\ OwnedOf(g)' /\ CourseOf(g)' /\ OpenOf(g)'
    <3>1. ThreadOf(g) /\ OwnedOf(g) /\ CourseOf(g) /\ OpenOf(g)
      BY DEF Threads
    <3>2. CASE g = h
      BY <1>1, <3>1, <3>2 DEF Connect, TypeOK, ThreadOf, OwnedOf, CourseOf, OpenOf, Sharing,
                              poolVars, attemptVars, reportVars
    <3>3. CASE g # h
      BY <1>1, <3>1, <3>3 DEF Connect, TypeOK, ThreadOf, OwnedOf, CourseOf, OpenOf,
                              poolVars, attemptVars, reportVars
    <3>. QED
      BY <3>2, <3>3
  <2>. QED
    BY <2>1, <2>2 DEF Threads
<1>2. ASSUME NEW h \in Connections, Disconnect(h) PROVE MainPlaces' /\ Threads'
  <2>1. worker[h] # "none"
    BY <1>2 DEF Disconnect, Threads, ThreadOf
  <2>2. MainPlaces'
    BY <1>2 DEF Disconnect
  <2>3. Threads'
    BY <1>2, <2>1 DEF Disconnect, Threads, ThreadOf, OwnedOf, CourseOf, OpenOf, attemptVars, reportVars
  <2>. QED
    BY <2>2, <2>3
<1>3. CASE MainTakes
  BY <1>3 DEF MainTakes, Threads, ThreadOf, OwnedOf, CourseOf, OpenOf, attemptVars, reportVars, Sharing
<1>4. CASE MainCloses
  BY <1>4 DEF MainCloses, Threads, ThreadOf, OwnedOf, CourseOf, OpenOf, attemptVars, reportVars, Sharing
<1>5. CASE JoinReturns
  BY <1>5 DEF JoinReturns, ThreadIsGone, Threads, ThreadOf, OwnedOf, CourseOf, OpenOf,
              poolVars, attemptVars, reportVars
<1>6. CASE Initialize \/ Finalize
  BY <1>6 DEF Initialize, Finalize, AllDisconnected, Threads, ThreadOf, OwnedOf, CourseOf, OpenOf,
              poolVars, attemptVars, reportVars
<1>. QED
  BY <1>1, <1>2, <1>3, <1>4, <1>5, <1>6 DEF MainStep

-----------------------------------------------------------------------------
(* The worker threads.                                                     *)

WorkerStep(h) == OwnStep(h) \/ WireStep(h)

\* A worker touches only its own connection, and the main thread's state not at all.
LEMMA WorkerTouchesItsOwn ==
  ASSUME NEW h \in Connections, TypeOK, WorkerStep(h)
  PROVE  /\ UNCHANGED lifeVars
         /\ \A g \in Connections \ {h} :
               /\ worker'[g] = worker[g] /\ status'[g] = status[g] /\ last'[g] = last[g]
               /\ g \in live' <=> g \in live
               /\ g \in held' <=> g \in held
               /\ g \in opened' <=> g \in opened
               /\ g \in connected' <=> g \in connected
BY DEF WorkerStep, OwnStep, WireStep, Goes, TypeOK, poolVars, attemptVars, reportVars,
       Top, Rejects, StartDial, DialFails, SetConnection, BeginsRequest, GivesUp, Sent, Receives,
       ReadStops, ReadsOn, BodyReturns, Takes, Closes, Disconnected, Judge, Fails, PauseEnds,
       Leaves, SaysClosed, DialSucceeds, SendFails, ReadEnds, HeadersRefused, HeadersOpen,
       BodyArrives, BodyReports, BodyEnds

LEMMA WorkerKeepsType ==
  ASSUME TypeOK, NEW h \in Connections, WorkerStep(h)
  PROVE  TypeOK'
<1>. USE DEF WorkerStep, OwnStep, WireStep, poolVars, attemptVars, reportVars, Goes, Returns,
       Rejects, StartDial, DialFails, SetConnection, BeginsRequest, GivesUp, Sent, Receives,
       ReadStops, ReadsOn, BodyReturns, Takes, Closes, Disconnected, Judge, Fails, PauseEnds,
       Leaves, SaysClosed, DialSucceeds, SendFails, ReadEnds, HeadersRefused, HeadersOpen,
       BodyArrives, BodyReports, BodyEnds
<1>1. UNCHANGED lifeVars
  BY WorkerTouchesItsOwn
<1>2. worker' \in [Connections -> WorkerStates]
  BY DEF Top, TypeOK, WorkerStates, Performing, Transferring, AfterAttempt
<1>3. /\ cancel' \subseteq Connections /\ live' \subseteq Connections
      /\ held' \subseteq Connections
      /\ opened' \subseteq Connections /\ connected' \subseteq Connections
  BY DEF Top, TypeOK
<1>4. status' \in [Connections -> {"none", "2xx", "other"}]
  BY DEF Top, TypeOK
<1>5. result' \in [Connections -> BOOLEAN]
  <2>1. CASE GivesUp(h)
    <3>1. \/ result' = [result EXCEPT ![h] = TRUE]
          \/ result' = [result EXCEPT ![h] = FALSE]
      <4>1. CASE h \in stop
        BY <2>1, <4>1, Zenon
      <4>2. CASE h \notin stop
        <5>1. (h \in stop) = FALSE
          BY <4>2
        <5>. QED
          BY <2>1, <5>1, Zenon DEF GivesUp, Returns
      <4>. QED
        BY <4>1, <4>2
    <3>. QED
      BY <3>1 DEF TypeOK
  <2>2. CASE ~GivesUp(h)
    BY <2>2 DEF Top, TypeOK
  <2>. QED
    BY <2>1, <2>2
<1>6. attempts' \in [Connections -> Nat]
  <2>1. CASE Top(h)
    <3>1. attempts'[h] \in Nat
      BY <2>1 DEF Top, TypeOK
    <3>. QED
      BY <2>1, <3>1 DEF Top, TypeOK
  <2>2. CASE ~Top(h)
    BY <2>2 DEF TypeOK
  <2>. QED
    BY <2>1, <2>2
<1>7. last' \in [Connections -> {"nothing", "open", "message", "error", "closed"}]
  BY DEF Top, TypeOK
<1>. QED
  BY <1>1, <1>2, <1>3, <1>4, <1>5, <1>6, <1>7 DEF TypeOK, lifeVars

\* What a worker's step does to its own connection.
LEMMA WorkerKeepsOwn ==
  ASSUME NEW h \in Connections, TypeOK, MainPlaces, WorkerStep(h),
         ThreadOf(h), OwnedOf(h), CourseOf(h), OpenOf(h)
  PROVE  ThreadOf(h)' /\ OwnedOf(h)' /\ CourseOf(h)' /\ OpenOf(h)'
<1>. USE DEF Goes, Sharing, MainClosing, lifeVars, poolVars, attemptVars, reportVars, TypeOK,
             ThreadOf, OwnedOf, CourseOf, OpenOf
<1>1. CASE Top(h) \/ Rejects(h) \/ StartDial(h) \/ DialFails(h)
  BY <1>1 DEF Top, Rejects, StartDial, DialFails
<1>2. CASE DialSucceeds(h) \/ SetConnection(h) \/ BeginsRequest(h) \/ GivesUp(h)
  BY <1>2 DEF DialSucceeds, SetConnection, BeginsRequest, GivesUp
<1>3. CASE Sent(h) \/ SendFails(h) \/ Receives(h) \/ ReadStops(h) \/ ReadsOn(h) \/ ReadEnds(h)
  BY <1>3 DEF Sent, SendFails, Receives, ReadStops, ReadsOn, ReadEnds
<1>4. CASE HeadersRefused(h)
  BY <1>4 DEF HeadersRefused
<1>5. CASE HeadersOpen(h)
  BY <1>5 DEF HeadersOpen
<1>6. CASE BodyArrives(h) \/ BodyReturns(h) \/ BodyEnds(h)
  BY <1>6 DEF BodyArrives, BodyReturns, BodyEnds
<1>7. CASE BodyReports(h)
  BY <1>7 DEF BodyReports
<1>8. CASE Takes(h)
  BY <1>8 DEF Takes
<1>9. CASE Closes(h)
  BY <1>9 DEF Closes
<1>10. CASE Disconnected(h)
  BY <1>10 DEF Disconnected
<1>11. CASE Judge(h)
  BY <1>11 DEF Judge, AfterAttempt, MainPlaces
<1>12. CASE Fails(h)
  BY <1>12 DEF Fails, AfterAttempt
<1>13. CASE PauseEnds(h)
  BY <1>13 DEF PauseEnds
<1>14. CASE Leaves(h)
  BY <1>14 DEF Leaves, MainPlaces
<1>15. CASE SaysClosed(h)
  BY <1>15 DEF SaysClosed
<1>. QED
  BY <1>1, <1>2, <1>3, <1>4, <1>5, <1>6, <1>7, <1>8, <1>9, <1>10, <1>11, <1>12, <1>13, <1>14,
     <1>15 DEF WorkerStep, OwnStep, WireStep

LEMMA WorkerKeepsInvariant ==
  ASSUME IInv, NEW h \in Connections, WorkerStep(h)
  PROVE  MainPlaces' /\ Threads'
<1>. USE DEF IInv
<1>1. MainPlaces'
  BY WorkerTouchesItsOwn DEF MainPlaces, lifeVars
<1>2. ASSUME NEW g \in Connections
      PROVE  ThreadOf(g)' /\ OwnedOf(g)' /\ CourseOf(g)' /\ OpenOf(g)'
  <2>1. ThreadOf(g) /\ OwnedOf(g) /\ CourseOf(g) /\ OpenOf(g)
    BY DEF Threads
  <2>2. CASE g = h
    BY <2>1, <2>2, WorkerKeepsOwn
  <2>3. CASE g # h
    BY <2>1, <2>3, WorkerTouchesItsOwn
       DEF ThreadOf, OwnedOf, CourseOf, OpenOf, MainClosing, lifeVars
  <2>. QED
    BY <2>2, <2>3
<1>. QED
  BY <1>1, <1>2 DEF Threads

LEMMA StepKeeps == IInv /\ [Next]_vars => IInv'
<1>. SUFFICES ASSUME IInv, [Next]_vars PROVE IInv'
  OBVIOUS
<1>1. CASE MainStep
  BY <1>1, MainKeepsType, MainKeepsInvariant DEF IInv
<1>2. CASE \E h \in Connections : OwnStep(h) \/ WireStep(h)
  BY <1>2, WorkerKeepsType, WorkerKeepsInvariant DEF IInv, WorkerStep
<1>3. CASE UNCHANGED vars
  BY <1>3 DEF vars, lifeVars, poolVars, attemptVars, reportVars, IInv, TypeOK, MainPlaces,
              MainClosing, Threads, ThreadOf, OwnedOf, CourseOf, OpenOf
<1>. QED
  BY <1>1, <1>2, <1>3 DEF Next

LEMMA Invariance == Spec => []IInv
BY InitEstablishes, StepKeeps, PTL DEF Spec

-----------------------------------------------------------------------------
\* The variables keep their types, for any set of connections and size of the pool.
THEOREM TypeCorrect == Spec => []TypeOK
<1>1. IInv => TypeOK
  BY DEF IInv
<1>. QED
  BY <1>1, Invariance, PTL

\* No record is freed under a running worker.
THEOREM RecordsOutliveWorkers == Spec => []NoUseAfterFree
<1>1. IInv => NoUseAfterFree
  BY DEF IInv, Threads, ThreadOf, NoUseAfterFree
<1>. QED
  BY <1>1, Invariance, PTL

\* SSEDM_TakeConnection gives every pool connection to exactly one closer.
THEOREM OneCloser == Spec => []ConnectionOwned
<1>1. IInv => ConnectionOwned
  BY DEF IInv, Threads, OwnedOf, Sharing, ConnectionOwned
<1>. QED
  BY <1>1, Invariance, PTL

\* The pool is deleted after the last worker and the last connection.
THEOREM PoolIsLast == Spec => []PoolOutlivesWorkers
<1>1. IInv => PoolOutlivesWorkers
  <2>. SUFFICES ASSUME IInv, ~pool PROVE live = {} /\ \A h \in Connections : worker[h] \in {"none", "exited"}
    BY DEF PoolOutlivesWorkers
  <2>1. \A h \in Connections : worker[h] \in {"none", "exited"}
    BY DEF IInv, MainPlaces, Threads, ThreadOf
  <2>2. subject = {}
    BY DEF IInv, MainPlaces
  <2>3. live = {}
    BY <2>1, <2>2 DEF IInv, TypeOK, Threads, OwnedOf, Sharing, MainClosing
  <2>. QED
    BY <2>1, <2>3
<1>. QED
  BY <1>1, Invariance, PTL

\* sse.is_connected is true only of a stream that got a 2xx response.
THEOREM ConnectedIsOpen == Spec => []ConnectedMeansOpen
<1>1. IInv => ConnectedMeansOpen
  BY DEF IInv, Threads, OpenOf, ConnectedMeansOpen, IsConnected, Transferring
<1>. QED
  BY <1>1, Invariance, PTL

\* A thread that was not told to stop ends with CLOSED.
THEOREM EndIsAnnounced == Spec => []ClosedUnlessStopped
<1>1. IInv => ClosedUnlessStopped
  BY DEF IInv, Threads, CourseOf, ClosedUnlessStopped
<1>. QED
  BY <1>1, Invariance, PTL

-----------------------------------------------------------------------------
(* The refinement: every step is one of the contract's, or none of them.    *)

Busy == {"received", "body", "failing", "lastWord"}
StageMap == [h \in Connections |-> Stage(h)]
BusyMap == {h \in Connections : worker[h] \in Busy}
ContractVars == <<StageMap, reconnect, stop, BusyMap, last>>

\* What every worker's step leaves alone, and how the contract sees the rest.
LEMMA WorkerSeen ==
  ASSUME IInv, NEW h \in Connections, WorkerStep(h)
  PROVE  /\ UNCHANGED <<allocated, reconnect, stop>>
         /\ StageMap[h] = IF last[h] = "closed" THEN "closed" ELSE "running"
         /\ last[h] # "closed" /\ last'[h] # "closed" => StageMap' = StageMap
         /\ BusyMap' = IF worker'[h] \in Busy THEN BusyMap \cup {h} ELSE BusyMap \ {h}
         /\ h \in BusyMap <=> worker[h] \in Busy
         /\ worker[h] \in Busy => StageMap[h] = "running"
         /\ last[h] # "closed"
<1>. USE DEF IInv
<1>1. /\ UNCHANGED lifeVars
      /\ \A g \in Connections \ {h} : worker'[g] = worker[g] /\ last'[g] = last[g]
  BY WorkerTouchesItsOwn
<1>2. worker[h] \notin {"none", "exited"}
  BY DEF WorkerStep, OwnStep, WireStep, Goes,
       Top, Rejects, StartDial, DialFails, SetConnection, BeginsRequest, GivesUp, Sent, Receives,
       ReadStops, ReadsOn, BodyReturns, Takes, Closes, Disconnected, Judge, Fails, PauseEnds,
       Leaves, SaysClosed, DialSucceeds, SendFails, ReadEnds, HeadersRefused, HeadersOpen,
       BodyArrives, BodyReports, BodyEnds
<1>3. h \in allocated /\ last[h] # "closed"
  BY <1>2 DEF Threads, ThreadOf, CourseOf
<1>4. StageMap[h] = "running"
  BY <1>3 DEF StageMap, Stage
<1>5. ASSUME last'[h] # "closed" PROVE StageMap' = StageMap
  <2>1. \A g \in Connections : Stage(g)' = Stage(g)
    BY <1>1, <1>3, <1>5 DEF Stage, lifeVars
  <2>. QED
    BY <2>1 DEF StageMap
<1>6. BusyMap' = IF worker'[h] \in Busy THEN BusyMap \cup {h} ELSE BusyMap \ {h}
  BY <1>1 DEF BusyMap
<1>. QED
  BY <1>1, <1>3, <1>4, <1>5, <1>6 DEF BusyMap, lifeVars

\* The contract sees a step of the worker as one of its actions on that connection.
LEMMA WorkerRefines ==
  ASSUME IInv, NEW h \in Connections, WorkerStep(h)
  PROVE  Contract!Next \/ UNCHANGED ContractVars
<1>. USE DEF IInv
<1>1. worker \in [Connections -> WorkerStates] /\ last \in [Connections -> {"nothing", "open", "message", "error", "closed"}]
  BY DEF TypeOK
<1>2. ASSUME worker[h] \notin Busy, worker'[h] \in Busy, h \notin stop, last' = last
      PROVE  Contract!Next
  <2>1. Contract!Decide(h)
    BY <1>2, WorkerSeen DEF Contract!Decide, StageMap, BusyMap, Busy
  <2>. QED
    BY <2>1 DEF Contract!Next
<1>3. ASSUME worker[h] \in Busy, NEW e \in {"open", "message", "error"}, last' = [last EXCEPT ![h] = e]
      PROVE  Contract!Next
  <2>1. BusyMap' \in {BusyMap, BusyMap \ {h}}
    BY <1>3, WorkerSeen
  <2>2. last'[h] # "closed"
    BY <1>1, <1>3
  <2>3. Contract!Report(h)
    BY <1>3, <2>1, <2>2, WorkerSeen DEF Contract!Report, StageMap, BusyMap, Busy
  <2>. QED
    BY <2>3 DEF Contract!Next
<1>4. ASSUME worker[h] \in Busy, worker'[h] \notin Busy, last' = last
      PROVE  Contract!Next
  <2>1. Contract!Pause(h)
    BY <1>4, WorkerSeen DEF Contract!Pause, StageMap, BusyMap, Busy
  <2>. QED
    BY <2>1 DEF Contract!Next
<1>5. ASSUME worker[h] \in Busy <=> worker'[h] \in Busy, last' = last
      PROVE  UNCHANGED ContractVars
  <2>1. BusyMap' = BusyMap
    BY <1>5, WorkerSeen
  <2>. QED
    BY <1>5, <2>1, WorkerSeen DEF ContractVars
<1>6. CASE SaysClosed(h)
  <2>1. /\ worker[h] = "lastWord" /\ worker' = [worker EXCEPT ![h] = "exited"]
        /\ last' = [last EXCEPT ![h] = "closed"]
        /\ UNCHANGED <<allocated, reconnect, stop>>
    BY <1>6 DEF SaysClosed, Goes, lifeVars
  <2>2. h \notin reconnect /\ h \in allocated
    BY <2>1 DEF Threads, ThreadOf, CourseOf
  <2>3. StageMap' = [StageMap EXCEPT ![h] = "closed"]
    BY <1>1, <2>1, <2>2 DEF StageMap, Stage
  <2>4. StageMap[h] = "running" /\ h \in BusyMap /\ BusyMap' = BusyMap \ {h}
    BY <1>1, <2>1, WorkerSeen DEF Busy
  <2>5. Contract!Close(h)
    BY <2>1, <2>2, <2>3, <2>4 DEF Contract!Close, StageMap, BusyMap, Busy
  <2>. QED
    BY <2>5 DEF Contract!Next
<1>7. CASE Receives(h)
  BY <1>1, <1>2, <1>7 DEF Receives, Goes, reportVars, Busy
<1>8. CASE ReadsOn(h) \/ ReadEnds(h) \/ HeadersRefused(h) \/ BodyReturns(h) \/ BodyEnds(h)
  BY <1>1, <1>4, <1>8 DEF ReadsOn, ReadEnds, HeadersRefused, BodyReturns, BodyEnds, Goes,
                          reportVars, Busy
<1>9. CASE HeadersOpen(h)
  BY <1>3, <1>9 DEF HeadersOpen, Goes, Busy
<1>10. CASE BodyReports(h)
  <2>1. PICK e \in {"message", "error"} : last' = [last EXCEPT ![h] = e]
    BY <1>10 DEF BodyReports
  <2>. QED
    BY <1>3, <1>10, <2>1 DEF BodyReports, Busy
<1>11. CASE Fails(h)
  BY <1>3, <1>11 DEF Fails, Goes, Busy
<1>12. CASE Judge(h) \/ Leaves(h)
  <2>1. last' = last /\ worker[h] \notin Busy
    BY <1>12 DEF Judge, Leaves, Goes, reportVars, Busy
  <2>2. worker'[h] \in Busy => h \notin stop
    BY <1>1, <1>12 DEF Judge, Leaves, Goes, Busy, AfterAttempt
  <2>. QED
    BY <1>2, <1>5, <2>1, <2>2
<1>13. CASE BodyArrives(h)
  BY <1>1, <1>5, <1>13 DEF BodyArrives, Goes, reportVars, Busy
<1>14. CASE \/ Top(h) \/ Rejects(h) \/ StartDial(h) \/ DialFails(h) \/ DialSucceeds(h)
            \/ SetConnection(h) \/ BeginsRequest(h) \/ GivesUp(h) \/ Sent(h) \/ SendFails(h)
            \/ ReadStops(h) \/ Takes(h) \/ Closes(h) \/ Disconnected(h) \/ PauseEnds(h)
  <2>1. last' = last /\ worker[h] \notin Busy /\ worker'[h] \notin Busy
    BY <1>1, <1>14 DEF Top, Rejects, StartDial, DialFails, DialSucceeds, SetConnection,
         BeginsRequest, GivesUp, Sent, SendFails, ReadStops, Takes, Closes, Disconnected,
         PauseEnds, Goes, reportVars, Busy
  <2>. QED
    BY <1>5, <2>1
<1>. QED
  BY <1>6, <1>7, <1>8, <1>9, <1>10, <1>11, <1>12, <1>13, <1>14 DEF WorkerStep, OwnStep, WireStep

\* Of the main thread's steps the contract sees three: a connection is started, told
\* to stop, or released.
LEMMA MainRefines ==
  ASSUME IInv, MainStep
  PROVE  Contract!Next \/ UNCHANGED ContractVars
<1>. USE DEF IInv
<1>1. ASSUME NEW h \in Connections, Connect(h) PROVE Contract!Next
  <2>1. /\ worker[h] = "none" /\ last[h] = "nothing" /\ h \notin allocated
        /\ allocated' = allocated \cup {h} /\ worker' = [worker EXCEPT ![h] = "top"]
        /\ UNCHANGED <<stop, last>>
    BY <1>1 DEF Connect, Threads, ThreadOf, CourseOf, reportVars
  <2>2. StageMap[h] = "idle" /\ StageMap' = [StageMap EXCEPT ![h] = "running"]
    BY <2>1 DEF StageMap, Stage, TypeOK
  <2>3. BusyMap' = BusyMap
    BY <2>1 DEF BusyMap, Busy, TypeOK
  <2>4. Contract!Start(h)
    BY <1>1, <2>1, <2>2, <2>3 DEF Contract!Start, Connect, StageMap, BusyMap, Busy
  <2>. QED
    BY <2>4 DEF Contract!Next
<1>2. ASSUME NEW h \in Connections, Disconnect(h) PROVE Contract!Next
  <2>1. h \in allocated /\ h \notin stop
    BY <1>2 DEF Disconnect, MainPlaces
  <2>2. stop' = stop \cup {h} /\ UNCHANGED <<allocated, worker, reconnect, last>>
    BY <1>2 DEF Disconnect, reportVars
  <2>3. StageMap[h] \in {"running", "closed"} /\ StageMap' = StageMap /\ BusyMap' = BusyMap
    BY <2>1, <2>2 DEF StageMap, Stage, BusyMap
  <2>4. Contract!Disconnect(h)
    BY <2>1, <2>2, <2>3 DEF Contract!Disconnect, StageMap, BusyMap, Busy
  <2>. QED
    BY <2>4 DEF Contract!Next
<1>3. ASSUME NEW h \in subject, JoinReturns PROVE Contract!Next
  <2>1. /\ subject = {h} /\ h \in Connections /\ h \in stop /\ h \in allocated
        /\ worker[h] = "exited"
    BY <1>3 DEF JoinReturns, ThreadIsGone, MainPlaces, TypeOK
  <2>2. allocated' = allocated \ {h} /\ UNCHANGED <<worker, reconnect, stop, last>>
    BY <1>3, <2>1 DEF JoinReturns, reportVars
  <2>3. StageMap[h] \in {"running", "closed"} /\ StageMap' = [StageMap EXCEPT ![h] = "released"]
    BY <2>1, <2>2 DEF StageMap, Stage
  <2>4. BusyMap' = BusyMap /\ h \notin BusyMap
    BY <2>1, <2>2 DEF BusyMap, Busy
  <2>5. Contract!Release(h)
    BY <2>1, <2>2, <2>3, <2>4 DEF Contract!Release, StageMap, BusyMap, Busy
  <2>. QED
    BY <2>1, <2>5 DEF Contract!Next
<1>4. ASSUME UNCHANGED <<allocated, reconnect, stop, worker, last>>
      PROVE  UNCHANGED ContractVars
  BY <1>4 DEF ContractVars, StageMap, Stage, BusyMap
<1>5. CASE JoinReturns
  <2>1. CASE subject = {}
    BY <1>4, <1>5, <2>1 DEF JoinReturns, reportVars
  <2>2. CASE subject # {}
    BY <1>3, <1>5, <2>2
  <2>. QED
    BY <2>1, <2>2
<1>6. CASE Initialize \/ Finalize \/ MainTakes \/ MainCloses
  BY <1>4, <1>6 DEF Initialize, Finalize, MainTakes, MainCloses, reportVars
<1>. QED
  BY <1>1, <1>2, <1>5, <1>6 DEF MainStep

\* The Linux adapter keeps the contract of the platform interface, for any set of
\* connections and any size of the pool.
THEOREM KeepsContract == Spec => StreamContract
<1>1. Init => Contract!Init
  BY DEF Init, Contract!Init, Stage
<1>2. IInv /\ [Next]_vars => [Contract!Next]_ContractVars
  <2>. SUFFICES ASSUME IInv, [Next]_vars
                PROVE  Contract!Next \/ UNCHANGED ContractVars
    OBVIOUS
  <2>1. CASE MainStep
    BY <2>1, MainRefines
  <2>2. CASE \E h \in Connections : OwnStep(h) \/ WireStep(h)
    BY <2>2, WorkerRefines DEF WorkerStep
  <2>3. CASE UNCHANGED vars
    BY <2>3 DEF vars, lifeVars, reportVars, ContractVars, StageMap, Stage, BusyMap
  <2>. QED
    BY <2>1, <2>2, <2>3 DEF Next
<1>3. [Contract!Next]_ContractVars => [Contract!Next]_(Contract!vars)
  BY DEF ContractVars, Contract!vars, StageMap, BusyMap, Busy
<1>. QED
  BY <1>1, <1>2, <1>3, Invariance, PTL DEF Spec, StreamContract, Contract!Spec
=============================================================================
