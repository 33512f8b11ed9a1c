--------------------------- MODULE SSEDesktopProofs ---------------------------
(***************************************************************************)
(* The libcurl adapter frees no record a worker uses, never blocks a frame *)
(* and keeps the stream contract, for any set of connections.              *)
(***************************************************************************)
EXTENDS SSEDesktop, TLAPS

Returning == {"exiting", "exited"}
Returned == {"finish", "exiting", "exited"}

\* Every record is attached or was told to stop, and then it is on its way to be
\* freed: under SSE_Platform_Disconnect, a zombie, or before a loop of the main
\* thread.
Tracked ==
    /\ allocated \subseteq platformData \cup subject \cup zombies
                           \cup (IF main \in {"finalize", "joinLast"} THEN todo ELSE {})
    /\ platformData \cup subject \cup zombies \cup todo \subseteq allocated
    /\ subject \cup zombies \cup todo \subseteq stop
    /\ platformData \cap stop = {}
    /\ \A g, h \in subject : g = h

\* What holds at each place of the main thread.
MainPlaces ==
    /\ main \in {"engine", "update", "finalize"} => subject = {}
    /\ main \in {"joinZombie", "joinLast"} => subject \cap todo = {}
    /\ main \in {"joinStopped", "joinZombie"} => subject \subseteq finished
    /\ main \in {"finalize", "joinLast"} => zombies = {} /\ platformData = {}
    /\ main \in {"engine", "disconnect", "joinStopped"} => todo = {}
    /\ ~curl => main = "engine" /\ allocated = {}

\* The life of a worker's thread against the life of its record.
ThreadOf(h) ==
    /\ worker[h] = "none" =>
           h \notin allocated \cup stop \cup opened \cup connected \cup reconnect
    /\ worker[h] \notin {"none", "exited"} => h \in allocated
    /\ h \in finished <=> worker[h] \in Returning

\* What the worker may still do and what it has said.
CourseOf(h) ==
    /\ h \notin reconnect => /\ worker[h] \in {"none", "top"} => attempts[h] = 0
                             /\ attempts[h] <= 1
                             /\ worker[h] # "pausing"
    /\ worker[h] = "none" => last[h] = "nothing"
    /\ worker[h] = "leaving" => h \in stop \/ h \notin reconnect
    /\ worker[h] = "closing" => h \notin reconnect
    /\ last[h] = "closed" => worker[h] \in Returned
    /\ worker[h] \in Returned => h \in stop \/ last[h] = "closed"

\* What the adapter and the core hold to be open.
OpenOf(h) ==
    /\ h \in opened => status[h] = "2xx"
    /\ h \in connected => worker[h] \in (Performing \ {"begin"}) \cup {"ended"}
    /\ h \in opened /\ worker[h] \in Performing \ {"begin"} => h \in connected

Threads == \A h \in Connections : ThreadOf(h)
Course == \A h \in Connections : CourseOf(h)
Open2xx == \A h \in Connections : OpenOf(h)

IInv == TypeOK /\ Tracked /\ MainPlaces /\ Threads /\ Course /\ Open2xx

-----------------------------------------------------------------------------
LEMMA InitEstablishes == Init => IInv
<1>. SUFFICES ASSUME Init PROVE IInv
  OBVIOUS
<1>1. 0 \in 0 .. MaxAttempts
  BY DesktopAssumption
<1>2. TypeOK
  <2>1. worker \in [Connections -> WorkerStates] /\ main \in MainStates
    BY DEF Init, WorkerStates, MainStates
  <2>. QED
    BY <1>1, <2>1 DEF Init, TypeOK
<1>3. Tracked /\ MainPlaces
  BY DEF Init, Tracked, MainPlaces
<1>4. Threads
  BY DEF Init, Threads, ThreadOf, Returning
<1>5. Course
  <2>. SUFFICES ASSUME NEW h \in Connections PROVE CourseOf(h)
    BY DEF Course
  <2>1. worker[h] = "none" /\ attempts[h] = 0 /\ last[h] = "nothing"
    BY DEF Init
  <2>. QED
    BY <2>1 DEF CourseOf, Returned
<1>6. Open2xx
  BY DEF Init, Open2xx, OpenOf
<1>. QED
  BY <1>2, <1>3, <1>4, <1>5, <1>6 DEF IInv

-----------------------------------------------------------------------------
\* The main thread.
LEMMA MainKeepsType ==
  ASSUME TypeOK, MainStep
  PROVE  TypeOK'
<1>1. UNCHANGED <<finished, opened, status, result, connected, last, attempts>>
  BY DEF MainStep, Initialize, Connect, Disconnect, DisconnectFinished, DisconnectRunning,
         JoinReturns, UpdateBegins, UpdateLooks, UpdateEnds, FinalizeBegins, FinalizeJoins,
         FinalizeEnds, lifeVars, attemptVars, reportVars, mainVars
<1>2. worker' \in [Connections -> WorkerStates]
  BY DEF MainStep, Initialize, Connect, Disconnect, DisconnectFinished, DisconnectRunning,
         JoinReturns, UpdateBegins, UpdateLooks, UpdateEnds, FinalizeBegins, FinalizeJoins,
         FinalizeEnds, lifeVars, attemptVars, reportVars, mainVars, TypeOK, WorkerStates
<1>3. main' \in MainStates /\ curl' \in BOOLEAN
  BY DEF MainStep, Initialize, Connect, Disconnect, DisconnectFinished, DisconnectRunning,
         JoinReturns, UpdateBegins, UpdateLooks, UpdateEnds, FinalizeBegins, FinalizeJoins,
         FinalizeEnds, lifeVars, attemptVars, reportVars, mainVars, TypeOK, MainStates
<1>4. /\ subject' \subseteq Connections /\ todo' \subseteq Connections
      /\ zombies' \subseteq Connections
      /\ platformData' \subseteq Connections /\ allocated' \subseteq Connections
      /\ reconnect' \subseteq Connections /\ stop' \subseteq Connections
  BY DEF MainStep, Initialize, Connect, Disconnect, DisconnectFinished, DisconnectRunning,
         JoinReturns, UpdateBegins, UpdateLooks, UpdateEnds, FinalizeBegins, FinalizeJoins,
         FinalizeEnds, lifeVars, attemptVars, reportVars, mainVars, TypeOK
<1>. QED
  BY <1>1, <1>2, <1>3, <1>4 DEF TypeOK

\* Every step of the main thread keeps track of the records.
LEMMA MainKeepsTrack ==
  ASSUME IInv, MainStep
  PROVE  Tracked' /\ MainPlaces'
<1>. USE DEF IInv, Tracked, MainPlaces
<1>1. CASE Initialize
  BY <1>1 DEF Initialize, lifeVars, mainVars
<1>2. ASSUME NEW h \in Connections, Connect(h) PROVE Tracked' /\ MainPlaces'
  BY <1>2 DEF Connect, mainVars, Threads, ThreadOf
<1>3. ASSUME NEW h \in Connections, Disconnect(h) PROVE Tracked' /\ MainPlaces'
  BY <1>3 DEF Disconnect
<1>4. CASE DisconnectFinished
  BY <1>4 DEF DisconnectFinished, lifeVars
<1>5. CASE DisconnectRunning
  BY <1>5 DEF DisconnectRunning, lifeVars
<1>6. CASE JoinReturns
  BY <1>6 DEF JoinReturns
<1>7. CASE UpdateBegins
  BY <1>7 DEF UpdateBegins, lifeVars
<1>8. ASSUME NEW h \in Connections, UpdateLooks(h) PROVE Tracked' /\ MainPlaces'
  BY <1>8 DEF UpdateLooks, Reapable, lifeVars
<1>9. CASE UpdateEnds
  BY <1>9 DEF UpdateEnds, lifeVars
<1>10. CASE FinalizeBegins
  BY <1>10 DEF FinalizeBegins, lifeVars
<1>11. ASSUME NEW h \in Connections, FinalizeJoins(h) PROVE Tracked' /\ MainPlaces'
  BY <1>11 DEF FinalizeJoins, lifeVars
<1>12. CASE FinalizeEnds
  BY <1>12 DEF FinalizeEnds, AllJoined, lifeVars
<1>. QED
  BY <1>1, <1>2, <1>3, <1>4, <1>5, <1>6, <1>7, <1>8, <1>9, <1>10, <1>11, <1>12 DEF MainStep

\* A record is freed only when its thread is gone, and allocated with its thread.
LEMMA MainKeepsThreads ==
  ASSUME IInv, MainStep
  PROVE  Threads' /\ Course' /\ Open2xx'
<1>. USE DEF IInv, Threads, Course, Open2xx
<1>1. ASSUME NEW h \in Connections, Connect(h) PROVE Threads' /\ Course' /\ Open2xx'
  <2>. SUFFICES ASSUME NEW g \in Connections PROVE ThreadOf(g)' /\ CourseOf(g)' /\ OpenOf(g)'
    OBVIOUS
  <2>1. CASE g = h
    BY <1>1, <2>1 DEF Connect, TypeOK, ThreadOf, CourseOf, OpenOf, Returning, Returned,
                      Performing, attemptVars, reportVars
  <2>2. CASE g # h
    BY <1>1, <2>2 DEF Connect, TypeOK, ThreadOf, CourseOf, OpenOf, attemptVars, reportVars
  <2>. QED
    BY <2>1, <2>2
<1>2. ASSUME NEW h \in Connections, Disconnect(h) PROVE Threads' /\ Course' /\ Open2xx'
  <2>1. worker[h] # "none"
    BY <1>2 DEF Disconnect, Tracked, ThreadOf
  <2>. QED
    BY <1>2, <2>1 DEF Disconnect, ThreadOf, CourseOf, OpenOf, attemptVars, reportVars
<1>3. CASE JoinReturns
  BY <1>3 DEF JoinReturns, ThreadIsGone, ThreadOf, CourseOf, OpenOf, attemptVars, reportVars
<1>4. ASSUME UNCHANGED <<lifeVars, finished, worker, attemptVars, reportVars, attempts>>
      PROVE  Threads' /\ Course' /\ Open2xx'
  BY <1>4 DEF ThreadOf, CourseOf, OpenOf, lifeVars, attemptVars, reportVars
<1>5. CASE Initialize
  BY <1>4, <1>5 DEF Initialize
<1>6. CASE DisconnectFinished \/ DisconnectRunning
  BY <1>4, <1>6 DEF DisconnectFinished, DisconnectRunning
<1>7. CASE UpdateBegins \/ UpdateEnds \/ \E h \in Connections : UpdateLooks(h)
  BY <1>4, <1>7 DEF UpdateBegins, UpdateEnds, UpdateLooks
<1>8. CASE FinalizeBegins \/ FinalizeEnds \/ \E h \in Connections : FinalizeJoins(h)
  BY <1>4, <1>8 DEF FinalizeBegins, FinalizeEnds, FinalizeJoins
<1>. QED
  BY <1>1, <1>2, <1>3, <1>5, <1>6, <1>7, <1>8 DEF MainStep
-----------------------------------------------------------------------------
\* The worker threads.
WorkerStep(h) == OwnStep(h) \/ WireStep(h)

\* A worker touches only its own connection, and the main thread's state not at all.
LEMMA WorkerTouchesItsOwn ==
  ASSUME NEW h \in Connections, TypeOK, WorkerStep(h)
  PROVE  /\ UNCHANGED <<curl, mainVars, lifeVars>>
         /\ \A g \in Connections \ {h} :
               /\ worker'[g] = worker[g] /\ status'[g] = status[g]
               /\ attempts'[g] = attempts[g] /\ last'[g] = last[g]
               /\ g \in finished' <=> g \in finished
               /\ g \in opened' <=> g \in opened
               /\ g \in connected' <=> g \in connected
<1>1. CASE OwnStep(h)
  BY <1>1 DEF OwnStep, Goes, NoReport, WorkerKeeps, TypeOK, attemptVars, reportVars, Open,
              Top, InitFails, StartTransfer, Aborts, StatusLine, HeadersEnd, HeaderLine,
              BodyOpens, BodyReturns, PerformReturns, Disconnected, Judge, Fails, PauseEnds,
              Leaves, Closes, Finishes, Exits
<1>2. CASE WireStep(h)
  BY <1>2 DEF WireStep, Goes, NoReport, WorkerKeeps, TypeOK, attemptVars, reportVars,
              EntersCallback, Aborts, TransferEnds, BodyReports
<1>. QED
  BY <1>1, <1>2 DEF WorkerStep

\* The types of what a worker changes.
LEMMA WorkerKeepsType ==
  ASSUME TypeOK, NEW h \in Connections, WorkerStep(h)
  PROVE  TypeOK'
<1>1. UNCHANGED <<curl, mainVars, lifeVars>>
  BY WorkerTouchesItsOwn
<1>2. worker' \in [Connections -> WorkerStates]
  BY DEF WorkerStep, OwnStep, WireStep, Goes, TypeOK, WorkerStates, Performing, AfterAttempt,
         Top, InitFails, StartTransfer, Aborts, StatusLine, HeadersEnd, HeaderLine,
         BodyOpens, BodyReturns, PerformReturns, Disconnected, Judge, Fails, PauseEnds,
         Leaves, Closes, Finishes, Exits, EntersCallback, TransferEnds, BodyReports
<1>3. /\ finished' \subseteq Connections /\ opened' \subseteq Connections
      /\ connected' \subseteq Connections
  BY DEF WorkerStep, OwnStep, WireStep, TypeOK, NoReport, attemptVars, reportVars, Open,
         Top, InitFails, StartTransfer, Aborts, StatusLine, HeadersEnd, HeaderLine,
         BodyOpens, BodyReturns, PerformReturns, Disconnected, Judge, Fails, PauseEnds,
         Leaves, Closes, Finishes, Exits, EntersCallback, TransferEnds, BodyReports
<1>4. status' \in [Connections -> {"none", "2xx", "other"}]
  BY DEF WorkerStep, OwnStep, WireStep, TypeOK, attemptVars,
         Top, InitFails, StartTransfer, Aborts, StatusLine, HeadersEnd, HeaderLine,
         BodyOpens, BodyReturns, PerformReturns, Disconnected, Judge, Fails, PauseEnds,
         Leaves, Closes, Finishes, Exits, EntersCallback, TransferEnds, BodyReports
<1>5. result' \in [Connections -> BOOLEAN]
  BY DEF WorkerStep, OwnStep, WireStep, TypeOK, attemptVars,
         Top, InitFails, StartTransfer, Aborts, StatusLine, HeadersEnd, HeaderLine,
         BodyOpens, BodyReturns, PerformReturns, Disconnected, Judge, Fails, PauseEnds,
         Leaves, Closes, Finishes, Exits, EntersCallback, TransferEnds, BodyReports
<1>6. attempts' \in [Connections -> 0 .. MaxAttempts]
  <2>1. CASE Top(h)
    <3>1. attempts'[h] \in 0 .. MaxAttempts
      BY <2>1, DesktopAssumption DEF Top, TypeOK
    <3>. QED
      BY <2>1, <3>1 DEF Top, TypeOK
  <2>2. CASE ~Top(h)
    BY <2>2 DEF WorkerStep, OwnStep, WireStep, TypeOK, attemptVars,
         InitFails, StartTransfer, Aborts, StatusLine, HeadersEnd, HeaderLine,
         BodyOpens, BodyReturns, PerformReturns, Disconnected, Judge, Fails, PauseEnds,
         Leaves, Closes, Finishes, Exits, EntersCallback, TransferEnds, BodyReports
  <2>. QED
    BY <2>1, <2>2
<1>7. last' \in [Connections -> {"nothing", "open", "message", "error", "closed"}]
  BY DEF WorkerStep, OwnStep, WireStep, TypeOK, NoReport, reportVars, Open,
         Top, InitFails, StartTransfer, Aborts, StatusLine, HeadersEnd, HeaderLine,
         BodyOpens, BodyReturns, PerformReturns, Disconnected, Judge, Fails, PauseEnds,
         Leaves, Closes, Finishes, Exits, EntersCallback, TransferEnds, BodyReports
<1>. QED
  BY <1>1, <1>2, <1>3, <1>4, <1>5, <1>6, <1>7 DEF TypeOK, mainVars, lifeVars

\* What a worker's step does to its own connection.
LEMMA WorkerKeepsOwn ==
  ASSUME NEW h \in Connections, TypeOK, ThreadOf(h), CourseOf(h), OpenOf(h), WorkerStep(h)
  PROVE  ThreadOf(h)' /\ CourseOf(h)' /\ OpenOf(h)'
<1>1. CASE Top(h)
  BY <1>1 DEF Top, Goes, NoReport, WorkerKeeps, attemptVars, reportVars, lifeVars, TypeOK,
             ThreadOf, CourseOf, OpenOf, Returning, Returned, Performing
<1>2. CASE InitFails(h)
  BY <1>2 DEF InitFails, Goes, NoReport, WorkerKeeps, attemptVars, reportVars, lifeVars, TypeOK,
             ThreadOf, CourseOf, OpenOf, Returning, Returned, Performing
<1>3. CASE StartTransfer(h)
  BY <1>3 DEF StartTransfer, Goes, NoReport, WorkerKeeps, attemptVars, reportVars, lifeVars, TypeOK,
             ThreadOf, CourseOf, OpenOf, Returning, Returned, Performing
<1>4. CASE EntersCallback(h)
  BY <1>4 DEF EntersCallback, Goes, NoReport, WorkerKeeps, attemptVars, reportVars, lifeVars, TypeOK,
             ThreadOf, CourseOf, OpenOf, Returning, Returned, Performing
<1>5. CASE Aborts(h)
  BY <1>5 DEF Aborts, Goes, NoReport, WorkerKeeps, attemptVars, reportVars, lifeVars, TypeOK,
             ThreadOf, CourseOf, OpenOf, Returning, Returned, Performing
<1>6. CASE TransferEnds(h)
  BY <1>6 DEF TransferEnds, Goes, NoReport, WorkerKeeps, attemptVars, reportVars, lifeVars, TypeOK,
             ThreadOf, CourseOf, OpenOf, Returning, Returned, Performing
<1>7. CASE StatusLine(h)
  BY <1>7 DEF StatusLine, Goes, NoReport, WorkerKeeps, attemptVars, reportVars, lifeVars, TypeOK,
             ThreadOf, CourseOf, OpenOf, Returning, Returned, Performing
<1>8. CASE HeadersEnd(h)
  BY <1>8 DEF HeadersEnd, Opens, Open, Goes, NoReport, WorkerKeeps, attemptVars, reportVars, lifeVars, TypeOK,
             ThreadOf, CourseOf, OpenOf, Returning, Returned, Performing
<1>9. CASE HeaderLine(h)
  BY <1>9 DEF HeaderLine, Goes, NoReport, WorkerKeeps, attemptVars, reportVars, lifeVars, TypeOK,
             ThreadOf, CourseOf, OpenOf, Returning, Returned, Performing
<1>10. CASE BodyOpens(h)
  BY <1>10 DEF BodyOpens, Opens, Open, Goes, NoReport, WorkerKeeps, attemptVars, reportVars, lifeVars, TypeOK,
             ThreadOf, CourseOf, OpenOf, Returning, Returned, Performing
<1>11. CASE BodyReports(h)
  BY <1>11 DEF BodyReports, Opens, Goes, NoReport, WorkerKeeps, attemptVars, reportVars, lifeVars, TypeOK,
             ThreadOf, CourseOf, OpenOf, Returning, Returned, Performing
<1>12. CASE BodyReturns(h)
  BY <1>12 DEF BodyReturns, Opens, Goes, NoReport, WorkerKeeps, attemptVars, reportVars, lifeVars, TypeOK,
             ThreadOf, CourseOf, OpenOf, Returning, Returned, Performing
<1>13. CASE PerformReturns(h)
  BY <1>13 DEF PerformReturns, Goes, NoReport, WorkerKeeps, attemptVars, reportVars, lifeVars, TypeOK,
             ThreadOf, CourseOf, OpenOf, Returning, Returned, Performing
<1>14. CASE Disconnected(h)
  BY <1>14 DEF Disconnected, Goes, NoReport, WorkerKeeps, attemptVars, reportVars, lifeVars, TypeOK,
             ThreadOf, CourseOf, OpenOf, Returning, Returned, Performing
<1>15. CASE Judge(h)
  BY <1>15 DEF Judge, AfterAttempt, Goes, NoReport, WorkerKeeps, attemptVars, reportVars, lifeVars, TypeOK,
             ThreadOf, CourseOf, OpenOf, Returning, Returned, Performing
<1>16. CASE Fails(h)
  BY <1>16 DEF Fails, AfterAttempt, Goes, NoReport, WorkerKeeps, attemptVars, reportVars, lifeVars, TypeOK,
             ThreadOf, CourseOf, OpenOf, Returning, Returned, Performing
<1>17. CASE PauseEnds(h)
  BY <1>17 DEF PauseEnds, Goes, NoReport, WorkerKeeps, attemptVars, reportVars, lifeVars, TypeOK,
             ThreadOf, CourseOf, OpenOf, Returning, Returned, Performing
<1>18. CASE Leaves(h)
  BY <1>18 DEF Leaves, Goes, NoReport, WorkerKeeps, attemptVars, reportVars, lifeVars, TypeOK,
             ThreadOf, CourseOf, OpenOf, Returning, Returned, Performing
<1>19. CASE Closes(h)
  BY <1>19 DEF Closes, Goes, NoReport, WorkerKeeps, attemptVars, reportVars, lifeVars, TypeOK,
             ThreadOf, CourseOf, OpenOf, Returning, Returned, Performing
<1>0. CASE Finishes(h)
  BY <1>0 DEF Finishes, Goes, NoReport, WorkerKeeps, attemptVars, reportVars, lifeVars, TypeOK,
             ThreadOf, CourseOf, OpenOf, Returning, Returned, Performing
<1>21. CASE Exits(h)
  BY <1>21 DEF Exits, Goes, NoReport, WorkerKeeps, attemptVars, reportVars, lifeVars, TypeOK,
             ThreadOf, CourseOf, OpenOf, Returning, Returned, Performing
<1>. QED
  BY <1>1, <1>2, <1>3, <1>4, <1>5, <1>6, <1>7, <1>8, <1>9, <1>10, <1>11, <1>12, <1>13, <1>14, <1>15, <1>16, <1>17, <1>18, <1>19, <1>0, <1>21 DEF WorkerStep, OwnStep, WireStep

\* A worker's step keeps the invariant: its own connection by the lemma above, the
\* others because it does not touch them, the main thread's records because it
\* changes nothing of them but that a thread is finished.
LEMMA WorkerKeepsInvariant ==
  ASSUME IInv, NEW h \in Connections, WorkerStep(h)
  PROVE  IInv'
<1>. USE DEF IInv
<1>1. TypeOK'
  BY WorkerKeepsType
<1>2. /\ UNCHANGED <<curl, mainVars, lifeVars>>
      /\ \A g \in Connections \ {h} :
            /\ worker'[g] = worker[g] /\ status'[g] = status[g]
            /\ attempts'[g] = attempts[g] /\ last'[g] = last[g]
            /\ g \in finished' <=> g \in finished
            /\ g \in opened' <=> g \in opened
            /\ g \in connected' <=> g \in connected
  BY WorkerTouchesItsOwn
<1>3. ThreadOf(h)' /\ CourseOf(h)' /\ OpenOf(h)'
  BY WorkerKeepsOwn DEF Threads, Course, Open2xx
<1>4. ASSUME NEW g \in Connections \ {h} PROVE ThreadOf(g)' /\ CourseOf(g)' /\ OpenOf(g)'
  BY <1>2 DEF Threads, Course, Open2xx, ThreadOf, CourseOf, OpenOf, lifeVars
<1>5. Threads' /\ Course' /\ Open2xx'
  BY <1>3, <1>4 DEF Threads, Course, Open2xx
<1>6. finished \subseteq finished'
  BY <1>2, <1>3 DEF Threads, ThreadOf, WorkerStep, OwnStep, WireStep, attemptVars,
         Top, InitFails, StartTransfer, Aborts, StatusLine, HeadersEnd, HeaderLine,
         BodyOpens, BodyReturns, PerformReturns, Disconnected, Judge, Fails, PauseEnds,
         Leaves, Closes, Finishes, Exits, EntersCallback, TransferEnds, BodyReports
<1>7. Tracked' /\ MainPlaces'
  BY <1>2, <1>6 DEF Tracked, MainPlaces, mainVars, lifeVars
<1>. QED
  BY <1>1, <1>5, <1>7

LEMMA StepKeeps == IInv /\ [Next]_vars => IInv'
<1>. SUFFICES ASSUME IInv, [Next]_vars PROVE IInv'
  OBVIOUS
<1>1. CASE MainStep
  BY <1>1, MainKeepsType, MainKeepsTrack, MainKeepsThreads DEF IInv
<1>2. CASE \E h \in Connections : OwnStep(h) \/ WireStep(h)
  BY <1>2, WorkerKeepsInvariant DEF WorkerStep
<1>3. CASE UNCHANGED vars
  BY <1>3 DEF vars, mainVars, lifeVars, attemptVars, reportVars, IInv, TypeOK, Tracked, MainPlaces,
              Threads, ThreadOf, Course, CourseOf, Open2xx, OpenOf
<1>. QED
  BY <1>1, <1>2, <1>3 DEF Next

LEMMA Invariance == Spec => []IInv
BY InitEstablishes, StepKeeps, PTL DEF Spec

-----------------------------------------------------------------------------
\* The variables keep their types, for any set of connections.
THEOREM TypeCorrect == Spec => []TypeOK
<1>1. IInv => TypeOK
  BY DEF IInv
<1>. QED
  BY <1>1, Invariance, PTL

\* No record is freed under a running worker.
THEOREM RecordsOutliveWorkers == Spec => []NoUseAfterFree
<1>1. IInv => NoUseAfterFree
  BY DEF IInv, Threads, ThreadOf, NoUseAfterFree
<1>. QED
  BY <1>1, Invariance, PTL

\* Outside the shutdown the main thread waits for no worker that still works.
THEOREM NoFrameBlocks == Spec => []JoinIsPrompt
<1>1. IInv => JoinIsPrompt
  BY DEF IInv, TypeOK, Threads, ThreadOf, MainPlaces, Returning, JoinIsPrompt
<1>. QED
  BY <1>1, Invariance, PTL

\* libcurl is cleaned up after the last worker.
THEOREM FinalizeIsLast == Spec => []NothingOutlivesFinalize
<1>1. IInv => NothingOutlivesFinalize
  BY DEF IInv, Threads, ThreadOf, MainPlaces, NothingOutlivesFinalize
<1>. QED
  BY <1>1, Invariance, PTL

\* sse.is_connected is true only of a stream whose latest status is 2xx.
THEOREM ConnectedIsOpen == Spec => []ConnectedMeansOpen
<1>1. IInv => ConnectedMeansOpen
  BY DEF IInv, Open2xx, OpenOf, ConnectedMeansOpen, IsConnected
<1>. QED
  BY <1>1, Invariance, PTL

\* Every stream the adapter holds open was announced, also after a reconnect.
THEOREM OpenIsAnnounced == Spec => []OpenedIsTold
<1>1. IInv => OpenedIsTold
  BY DEF IInv, Open2xx, OpenOf, OpenedIsTold, TypeOK
<1>. QED
  BY <1>1, Invariance, PTL

\* A worker that was not told to stop ends with CLOSED.
THEOREM EndIsAnnounced == Spec => []ClosedUnlessStopped
<1>1. IInv => ClosedUnlessStopped
  BY DEF IInv, TypeOK, Threads, ThreadOf, Course, CourseOf, Returning, Returned, ClosedUnlessStopped
<1>. QED
  BY <1>1, Invariance, PTL

\* Without the reconnect option there is one attempt.
THEOREM NoUnwantedRetry == Spec => []OneAttempt
<1>1. IInv => OneAttempt
  BY DEF IInv, Course, CourseOf, OneAttempt
<1>. QED
  BY <1>1, Invariance, PTL

-----------------------------------------------------------------------------
(* The refinement: every step is one of the contract's, or none of them.    *)

Busy == {"header", "body", "failing", "closing"}
StageMap == [h \in Connections |-> Stage(h)]
BusyMap == {h \in Connections : worker[h] \in Busy}
ContractVars == <<StageMap, reconnect, stop, BusyMap, last>>

\* What a worker's step leaves of the contract's variables.
LEMMA WorkerStages ==
  ASSUME IInv, NEW h \in Connections, WorkerStep(h)
  PROVE  /\ UNCHANGED <<reconnect, stop>>
         /\ worker[h] # "none" /\ worker'[h] # "none"
         /\ last'[h] = "closed" <=> (last[h] = "closed" \/ Closes(h))
         /\ \A g \in Connections \ {h} : worker'[g] = worker[g] /\ last'[g] = last[g]
         /\ allocated' = allocated
<1>. USE DEF IInv
<1>1. /\ UNCHANGED <<curl, mainVars, lifeVars>>
      /\ \A g \in Connections \ {h} : worker'[g] = worker[g] /\ last'[g] = last[g]
  BY WorkerTouchesItsOwn
<1>2. worker[h] # "none" /\ worker'[h] # "none"
  BY DEF WorkerStep, OwnStep, WireStep, Goes, TypeOK, AfterAttempt,
         Top, InitFails, StartTransfer, Aborts, StatusLine, HeadersEnd, HeaderLine,
         BodyOpens, BodyReturns, PerformReturns, Disconnected, Judge, Fails, PauseEnds,
         Leaves, Closes, Finishes, Exits, EntersCallback, TransferEnds, BodyReports
<1>3. last'[h] = "closed" <=> (last[h] = "closed" \/ Closes(h))
  BY DEF WorkerStep, OwnStep, WireStep, Goes, TypeOK, NoReport, reportVars, Open, AfterAttempt,
         Course, CourseOf, Returned,
         Top, InitFails, StartTransfer, Aborts, StatusLine, HeadersEnd, HeaderLine,
         BodyOpens, BodyReturns, PerformReturns, Disconnected, Judge, Fails, PauseEnds,
         Leaves, Closes, Finishes, Exits, EntersCallback, TransferEnds, BodyReports
<1>. QED
  BY <1>1, <1>2, <1>3 DEF lifeVars

\* The contract sees a step of the worker as one of its actions on that connection.
\* Its stage changes only with SSE_EnqueueClosed.
LEMMA WorkerRefines ==
  ASSUME IInv, IInv', NEW h \in Connections, WorkerStep(h)
  PROVE  Contract!Next \/ UNCHANGED ContractVars
<1>. USE DEF IInv
<1>0. h \in allocated /\ h \in allocated'
  BY WorkerStages DEF Threads, ThreadOf, WorkerStep, OwnStep, WireStep, Goes,
         Top, InitFails, StartTransfer, Aborts, StatusLine, HeadersEnd, HeaderLine,
         BodyOpens, BodyReturns, PerformReturns, Disconnected, Judge, Fails, PauseEnds,
         Leaves, Closes, Finishes, Exits, EntersCallback, TransferEnds, BodyReports
<1>1. /\ StageMap[h] = IF last[h] = "closed" THEN "closed" ELSE "running"
      /\ StageMap'[h] = IF last'[h] = "closed" THEN "closed" ELSE "running"
  BY <1>0 DEF StageMap, Stage
<1>2. \A g \in Connections \ {h} : StageMap'[g] = StageMap[g]
  BY WorkerStages DEF StageMap, Stage
<1>3. worker[h] \in Busy => StageMap[h] = "running"
  BY <1>1 DEF Course, CourseOf, Busy, Returned
<1>4. ~Closes(h) => StageMap' = StageMap
  <2>. SUFFICES ASSUME ~Closes(h) PROVE StageMap' = StageMap
    OBVIOUS
  <2>1. \A g \in Connections : StageMap'[g] = StageMap[g]
    BY <1>1, <1>2, WorkerStages
  <2>. QED
    BY <2>1 DEF StageMap
<1>5. UNCHANGED <<reconnect, stop>>
  BY WorkerStages
<1>6. /\ worker'[h] \in Busy => BusyMap' = BusyMap \cup {h}
      /\ worker'[h] \notin Busy => BusyMap' = BusyMap \ {h}
      /\ h \in BusyMap <=> worker[h] \in Busy
  BY WorkerStages DEF BusyMap
<1>7. worker \in [Connections -> WorkerStates] /\ last \in [Connections -> {"nothing", "open", "message", "error", "closed"}]
  BY DEF TypeOK
<1>8. ASSUME worker[h] \notin Busy, worker'[h] \in Busy, h \notin stop, last' = last
      PROVE  Contract!Decide(h)
  <2>1. StageMap[h] = "running" /\ ~Closes(h)
    BY <1>1, <1>7, <1>8 DEF Course, CourseOf, Busy, Returned, Closes, Goes
  <2>. QED
    BY <1>4, <1>5, <1>6, <1>8, <2>1 DEF Contract!Decide, StageMap, BusyMap, Busy
<1>9. ASSUME worker[h] \in Busy, ~Closes(h),
             NEW e \in {"open", "message", "error"}, last' = [last EXCEPT ![h] = e]
      PROVE  Contract!Report(h)
  <2>1. BusyMap' \in {BusyMap, BusyMap \ {h}}
    BY <1>6, <1>9
  <2>. QED
    BY <1>3, <1>4, <1>5, <1>6, <1>9, <2>1 DEF Contract!Report, StageMap, BusyMap, Busy
<1>10. ASSUME worker[h] \in Busy, worker'[h] \notin Busy, ~Closes(h), last' = last
       PROVE  Contract!Pause(h)
  BY <1>4, <1>5, <1>6, <1>10 DEF Contract!Pause, StageMap, BusyMap, Busy
<1>11. ASSUME worker[h] \in Busy <=> worker'[h] \in Busy, ~Closes(h), last' = last
       PROVE  UNCHANGED ContractVars
  <2>1. BusyMap' = BusyMap
    BY <1>6, <1>11
  <2>. QED
    BY <1>4, <1>5, <1>11, <2>1 DEF ContractVars
<1>12. CASE Closes(h)
  <2>1. /\ worker[h] = "closing" /\ worker'[h] = "finish"
        /\ last' = [last EXCEPT ![h] = "closed"]
    BY <1>7, <1>12 DEF Closes, Goes
  <2>2. h \notin reconnect
    BY <2>1 DEF Course, CourseOf
  <2>3. StageMap' = [StageMap EXCEPT ![h] = "closed"]
    <3>1. StageMap'[h] = "closed"
      BY <1>1, <1>7, <2>1
    <3>. QED
      BY <1>2, <3>1 DEF StageMap
  <2>4. StageMap[h] = "running" /\ h \in BusyMap /\ BusyMap' = BusyMap \ {h}
    BY <1>3, <1>6, <2>1 DEF Busy
  <2>5. Contract!Close(h)
    BY <1>5, <2>1, <2>2, <2>3, <2>4 DEF Contract!Close, StageMap, BusyMap, Busy
  <2>. QED
    BY <2>5 DEF Contract!Next
<1>13. CASE EntersCallback(h)
  <2>1. Contract!Decide(h)
    BY <1>7, <1>8, <1>13 DEF EntersCallback, Goes, NoReport, reportVars, Busy
  <2>. QED
    BY <2>1 DEF Contract!Next
<1>14. CASE StatusLine(h) \/ HeaderLine(h) \/ BodyReturns(h)
  <2>1. Contract!Pause(h)
    BY <1>7, <1>10, <1>14 DEF StatusLine, HeaderLine, BodyReturns, Goes, NoReport, reportVars, Busy,
                              Closes
  <2>. QED
    BY <2>1 DEF Contract!Next
<1>15. CASE HeadersEnd(h) \/ BodyOpens(h)
  <2>1. worker[h] \in Busy /\ ~Closes(h) /\ last' = [last EXCEPT ![h] = "open"]
    BY <1>15 DEF HeadersEnd, BodyOpens, Goes, Open, Busy, Closes
  <2>2. Contract!Report(h)
    BY <1>9, <2>1
  <2>. QED
    BY <2>2 DEF Contract!Next
<1>16. CASE BodyReports(h)
  <2>1. PICK e \in {"message", "error"} : last' = [last EXCEPT ![h] = e]
    BY <1>16 DEF BodyReports
  <2>2. worker[h] \in Busy /\ ~Closes(h)
    BY <1>16 DEF BodyReports, Goes, Busy, Closes
  <2>3. Contract!Report(h)
    BY <1>9, <2>1, <2>2
  <2>. QED
    BY <2>3 DEF Contract!Next
<1>17. CASE Fails(h)
  <2>1. worker[h] \in Busy /\ ~Closes(h) /\ last' = [last EXCEPT ![h] = "error"]
    BY <1>17 DEF Fails, Goes, Busy, Closes
  <2>2. Contract!Report(h)
    BY <1>9, <2>1
  <2>. QED
    BY <2>2 DEF Contract!Next
<1>18. CASE Judge(h) \/ Leaves(h)
  <2>1. last' = last /\ worker[h] \notin Busy /\ ~Closes(h)
    BY <1>18 DEF Judge, Leaves, Goes, NoReport, reportVars, Busy, Closes
  <2>2. CASE worker'[h] \in Busy
    <3>1. h \notin stop
      BY <1>7, <1>18, <2>2 DEF Judge, Leaves, Goes, Busy, AfterAttempt
    <3>2. Contract!Decide(h)
      BY <1>8, <2>1, <2>2, <3>1
    <3>. QED
      BY <3>2 DEF Contract!Next
  <2>. QED
    BY <1>11, <2>1, <2>2
<1>19. CASE \/ Top(h) \/ InitFails(h) \/ StartTransfer(h) \/ Aborts(h) \/ TransferEnds(h)
            \/ PerformReturns(h) \/ Disconnected(h) \/ PauseEnds(h) \/ Finishes(h) \/ Exits(h)
  <2>1. last' = last /\ worker[h] \notin Busy /\ worker'[h] \notin Busy /\ ~Closes(h)
    BY <1>7, <1>19 DEF Top, InitFails, StartTransfer, Aborts, TransferEnds, PerformReturns,
         Disconnected, PauseEnds, Finishes, Exits, Goes, NoReport, reportVars, Busy, Closes
  <2>. QED
    BY <1>11, <2>1
<1>. QED
  BY <1>12, <1>13, <1>14, <1>15, <1>16, <1>17, <1>18, <1>19 DEF WorkerStep, OwnStep, WireStep

\* Of the main thread's steps the contract sees three: a connection is started, told
\* to stop, or released.
LEMMA MainRefines ==
  ASSUME IInv, MainStep
  PROVE  Contract!Next \/ UNCHANGED ContractVars
<1>. USE DEF IInv
<1>1. ASSUME NEW h \in Connections, Connect(h) PROVE Contract!Start(h)
  <2>1. /\ worker[h] = "none" /\ last[h] = "nothing" /\ h \notin allocated
        /\ allocated' = allocated \cup {h} /\ worker' = [worker EXCEPT ![h] = "top"]
        /\ UNCHANGED <<stop, last>>
    BY <1>1 DEF Connect, Threads, ThreadOf, Course, CourseOf, reportVars
  <2>2. StageMap[h] = "idle" /\ StageMap'[h] = "running"
    BY <2>1 DEF StageMap, Stage
  <2>3. StageMap' = [StageMap EXCEPT ![h] = "running"]
    BY <2>1, <2>2 DEF StageMap, Stage, TypeOK
  <2>4. BusyMap' = BusyMap
    BY <2>1 DEF BusyMap, Busy, TypeOK
  <2>. QED
    BY <1>1, <2>1, <2>2, <2>3, <2>4 DEF Contract!Start, Connect, StageMap, BusyMap, Busy
<1>2. ASSUME NEW h \in Connections, Disconnect(h) PROVE Contract!Disconnect(h)
  <2>1. h \in allocated /\ h \notin stop
    BY <1>2 DEF Disconnect, Tracked
  <2>2. /\ stop' = stop \cup {h}
        /\ UNCHANGED <<allocated, worker, reconnect, last>>
    BY <1>2 DEF Disconnect, reportVars
  <2>3. StageMap[h] \in {"running", "closed"}
    BY <2>1 DEF StageMap, Stage
  <2>4. StageMap' = StageMap /\ BusyMap' = BusyMap
    BY <2>2 DEF StageMap, Stage, BusyMap
  <2>. QED
    BY <2>1, <2>2, <2>3, <2>4 DEF Contract!Disconnect, StageMap, BusyMap, Busy
<1>3. ASSUME NEW h \in subject, JoinReturns PROVE Contract!Release(h)
  <2>1. /\ subject = {h} /\ h \in Connections /\ h \in stop /\ h \in allocated
        /\ worker[h] = "exited"
    BY <1>3 DEF JoinReturns, ThreadIsGone, Tracked, TypeOK
  <2>2. allocated' = allocated \ {h} /\ UNCHANGED <<worker, reconnect, stop, last>>
    BY <1>3, <2>1 DEF JoinReturns, reportVars
  <2>3. StageMap[h] \in {"running", "closed"} /\ StageMap'[h] = "released"
    BY <2>1, <2>2 DEF StageMap, Stage
  <2>4. StageMap' = [StageMap EXCEPT ![h] = "released"]
    BY <2>1, <2>2, <2>3 DEF StageMap, Stage
  <2>5. BusyMap' = BusyMap /\ h \notin BusyMap
    BY <2>1, <2>2 DEF BusyMap, Busy
  <2>. QED
    BY <2>1, <2>2, <2>3, <2>4, <2>5 DEF Contract!Release, StageMap, BusyMap, Busy
<1>4. ASSUME UNCHANGED <<allocated, reconnect, stop, worker, last>>
      PROVE  UNCHANGED ContractVars
  BY <1>4 DEF ContractVars, StageMap, Stage, BusyMap
<1>5. CASE JoinReturns
  <2>1. CASE subject = {}
    BY <1>4, <1>5, <2>1 DEF JoinReturns, reportVars
  <2>2. CASE subject # {}
    <3>1. PICK h \in subject : TRUE
      BY <2>2
    <3>2. Contract!Release(h) /\ h \in Connections
      BY <1>3, <1>5 DEF TypeOK
    <3>. QED
      BY <3>2 DEF Contract!Next
  <2>. QED
    BY <2>1, <2>2
<1>6. CASE \/ Initialize \/ DisconnectFinished \/ DisconnectRunning
           \/ UpdateBegins \/ UpdateEnds \/ FinalizeBegins \/ FinalizeEnds
           \/ \E h \in Connections : UpdateLooks(h) \/ FinalizeJoins(h)
  BY <1>4, <1>6 DEF Initialize, DisconnectFinished, DisconnectRunning, UpdateBegins, UpdateEnds,
                    FinalizeBegins, FinalizeEnds, UpdateLooks, FinalizeJoins, lifeVars, reportVars
<1>7. CASE \E h \in Connections : Connect(h) \/ Disconnect(h)
  BY <1>1, <1>2, <1>7 DEF Contract!Next
<1>. QED
  BY <1>5, <1>6, <1>7 DEF MainStep

\* The libcurl adapter keeps the contract of the platform interface, for any set of
\* connections: what it reports after it was told to stop had been decided before,
\* CLOSED is its last word, and a record is released only when its worker is silent.
THEOREM KeepsContract == Spec => StreamContract
<1>1. Init => Contract!Init
  BY DEF Init, Contract!Init, Stage
<1>2. IInv /\ IInv' /\ [Next]_vars => [Contract!Next]_ContractVars
  <2>. SUFFICES ASSUME IInv, IInv', [Next]_vars
                PROVE  Contract!Next \/ UNCHANGED ContractVars
    OBVIOUS
  <2>1. CASE MainStep
    BY <2>1, MainRefines
  <2>2. CASE \E h \in Connections : OwnStep(h) \/ WireStep(h)
    BY <2>2, WorkerRefines DEF WorkerStep
  <2>3. CASE UNCHANGED vars
    BY <2>3 DEF vars, mainVars, lifeVars, attemptVars, reportVars, ContractVars, StageMap, Stage, BusyMap
  <2>. QED
    BY <2>1, <2>2, <2>3 DEF Next
<1>3. [Contract!Next]_ContractVars => [Contract!Next]_(Contract!vars)
  BY DEF ContractVars, Contract!vars, StageMap, BusyMap, Busy
<1>. QED
  BY <1>1, <1>2, <1>3, Invariance, PTL DEF Spec, StreamContract, Contract!Spec
=============================================================================
