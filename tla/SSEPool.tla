-------------------------------- MODULE SSEPool --------------------------------
(***************************************************************************)
(* The Linux adapter: a worker thread per connection dials Defold's        *)
(* connection pool, writes the request and reads the response itself.      *)
(* sse.disconnect sets the stop and the cancel flag, takes the pool        *)
(* connection out of the worker's hands, closes it, and waits for the      *)
(* thread.  Whichever thread takes the pool connection, under the mutex,   *)
(* closes it; the worker goes on using its socket meanwhile, so a socket   *)
(* call may come back with anything at any moment.                         *)
(***************************************************************************)
EXTENDS Naturals, FiniteSets

CONSTANTS
    Connections,    \* the connections the core may start, each once
    MaxAttempts,    \* bound: MaxAttempts[h] attempts of the worker of h
    MaxConnections  \* pool_params.m_MaxConnections

ASSUME PoolAssumption == MaxAttempts \in [Connections -> Nat] /\ MaxConnections \in Nat

\* PerformOnce after a dial that succeeded.  At "received" and "body" the worker has
\* passed the ShouldStop test of ReadResponse's loop.
Transferring == {"dialed", "set", "sending", "reading", "received", "body", "taking", "closing"}
Performing == {"begin", "dialing"} \cup Transferring
WorkerStates == Performing \cup {"none", "top", "ended", "down", "failing", "pausing",
                                 "leaving", "lastWord", "exited"}
MainStates == {"engine", "take", "close", "join"}

VARIABLES
    pool,       \* g_SSEConnectionPool
    main,       \* where the main thread is
    subject,    \* the connection it disconnects, as a set of at most one
    allocated,  \* the connections whose m_PlatformData is set
    badUrl,     \* those whose URL SSEDM_ParseUrl refuses
    reconnect,  \* those with m_Reconnect
    stop,       \* those with m_Stop
    cancel,     \* those with m_CancelFlag
    worker,     \* worker[h]: where the worker thread of h is
    live,       \* the connections for which a pool connection is dialed and not closed
    held,       \* those with m_Connection
    opened,     \* those with m_Opened
    status,     \* status[h]: m_Status, as none yet, 2xx or anything else
    result,     \* result[h]: what PerformOnce is about to return
    connected,  \* the core's m_Connected
    \* History, for the properties.
    attempts,   \* attempts[h]: attempts the worker has begun
    last        \* last[h]: the last event pushed for h

lifeVars == <<pool, main, subject, allocated, badUrl, reconnect, stop>>
poolVars == <<cancel, live, held>>
attemptVars == <<opened, status, result, attempts>>
reportVars == <<connected, last>>
vars == <<lifeVars, worker, poolVars, attemptVars, reportVars>>

Init ==
    /\ pool = FALSE
    /\ main = "engine" /\ subject = {}
    /\ allocated = {} /\ badUrl = {} /\ reconnect = {} /\ stop = {}
    /\ cancel = {} /\ live = {} /\ held = {}
    /\ worker = [h \in Connections |-> "none"]
    /\ opened = {}
    /\ status = [h \in Connections |-> "none"]
    /\ result = [h \in Connections |-> FALSE]
    /\ attempts = [h \in Connections |-> 0]
    /\ connected = {}
    /\ last = [h \in Connections |-> "nothing"]

-----------------------------------------------------------------------------
(* The main thread.                                                        *)

\* SSE_Platform_Initialize; when dmConnectionPool::New fails nothing changes.
Initialize ==
    /\ main = "engine" /\ ~pool
    /\ pool' = TRUE
    /\ UNCHANGED <<main, subject, allocated, badUrl, reconnect, stop, worker, poolVars,
                   attemptVars, reportVars>>

\* SSE_Platform_Connect; a thread that does not start leaves nothing behind.
Connect(h) ==
    /\ main = "engine" /\ pool
    /\ worker[h] = "none"
    /\ allocated' = allocated \cup {h}
    /\ badUrl' \in {badUrl, badUrl \cup {h}}
    /\ reconnect' \in {reconnect, reconnect \cup {h}}
    /\ worker' = [worker EXCEPT ![h] = "top"]
    /\ UNCHANGED <<pool, main, subject, stop, poolVars, attemptVars, reportVars>>

\* SSE_Platform_Disconnect: both flags, under the connection's mutex.
Disconnect(h) ==
    /\ main = "engine"
    /\ h \in allocated
    /\ stop' = stop \cup {h}
    /\ cancel' = cancel \cup {h}
    /\ main' = "take" /\ subject' = {h}
    /\ UNCHANGED <<pool, allocated, badUrl, reconnect, worker, live, held, attemptVars, reportVars>>

\* SSEDM_TakeConnection, on the main thread.
MainTakes ==
    /\ main = "take"
    /\ main' = IF subject \subseteq held THEN "close" ELSE "join"
    /\ held' = held \ subject
    /\ UNCHANGED <<pool, subject, allocated, badUrl, reconnect, stop, worker, cancel, live,
                   attemptVars, reportVars>>

\* dmConnectionPool::Close, under the worker that may be using the socket.
MainCloses ==
    /\ main = "close"
    /\ live' = live \ subject
    /\ main' = "join"
    /\ UNCHANGED <<pool, subject, allocated, badUrl, reconnect, stop, worker, cancel, held,
                   attemptVars, reportVars>>

\* What dmThread::Join waits for.
ThreadIsGone(h) == worker[h] = "exited"

\* dmThread::Join returns and the record is deleted.
JoinReturns ==
    /\ main = "join"
    /\ \A h \in subject : ThreadIsGone(h)
    /\ allocated' = allocated \ subject
    /\ main' = "engine" /\ subject' = {}
    /\ UNCHANGED <<pool, badUrl, reconnect, stop, worker, poolVars, attemptVars, reportVars>>

\* FinalizeSSE has disconnected every connection.
AllDisconnected == allocated = {}

\* SSE_Platform_Finalize.
Finalize ==
    /\ main = "engine" /\ pool
    /\ AllDisconnected
    /\ pool' = FALSE
    /\ UNCHANGED <<main, subject, allocated, badUrl, reconnect, stop, worker, poolVars,
                   attemptVars, reportVars>>

MainStep ==
    \/ Initialize \/ Finalize
    \/ \E h \in Connections : Connect(h) \/ Disconnect(h)
    \/ MainTakes \/ MainCloses \/ JoinReturns

-----------------------------------------------------------------------------
(* The worker thread.                                                      *)

\* The worker of h moves from one place to the next.
Goes(h, from, to) == worker[h] = from /\ worker' = [worker EXCEPT ![h] = to]

\* PerformOnce is on its way out, to return ok.
Returns(h, ok) == result' = [result EXCEPT ![h] = ok]

\* The loop condition of SSEDesktop_Worker.
Top(h) ==
    /\ h \notin stop => attempts[h] < MaxAttempts[h]
    /\ Goes(h, "top", IF h \in stop THEN "leaving" ELSE "begin")
    /\ attempts' = [attempts EXCEPT ![h] = IF h \in stop THEN @ ELSE @ + 1]
    /\ UNCHANGED <<lifeVars, poolVars, opened, status, result, reportVars>>

\* PerformOnce without a pool or with a URL it cannot parse.
Rejects(h) ==
    /\ ~pool \/ h \in badUrl
    /\ Goes(h, "begin", "ended")
    /\ Returns(h, FALSE)
    /\ UNCHANGED <<lifeVars, poolVars, opened, status, attempts, reportVars>>

\* The parser, m_Status, m_Opened and the cancel flag are reset, then Dial is
\* called: a disconnect since the last look at the stop flag loses its cancel flag.
StartDial(h) ==
    /\ pool /\ h \notin badUrl
    /\ Goes(h, "begin", "dialing")
    /\ status' = [status EXCEPT ![h] = "none"]
    /\ opened' = opened \ {h}
    /\ cancel' = cancel \ {h}
    /\ UNCHANGED <<lifeVars, live, held, result, attempts, reportVars>>

\* Dial is cancelled, times out, finds no free slot or no server.
DialFails(h) ==
    /\ Goes(h, "dialing", "ended")
    /\ Returns(h, FALSE)
    /\ UNCHANGED <<lifeVars, poolVars, opened, status, attempts, reportVars>>

DialSucceeds(h) ==
    /\ Cardinality(live) < MaxConnections
    /\ Goes(h, "dialing", "dialed")
    /\ live' = live \cup {h}
    /\ UNCHANGED <<lifeVars, cancel, held, attemptVars, reportVars>>

\* SSEDM_SetConnection.
SetConnection(h) ==
    /\ Goes(h, "dialed", "set")
    /\ held' = held \cup {h}
    /\ UNCHANGED <<lifeVars, cancel, live, attemptVars, reportVars>>

\* The look at the stop flag that a disconnect during the dial waits for.
BeginsRequest(h) ==
    /\ h \notin stop
    /\ Goes(h, "set", "sending")
    /\ UNCHANGED <<lifeVars, poolVars, attemptVars, reportVars>>

\* That look finds the flag set, or a header of the request is refused.
GivesUp(h) ==
    /\ Goes(h, "set", "taking")
    /\ Returns(h, h \in stop)
    /\ UNCHANGED <<lifeVars, poolVars, opened, status, attempts, reportVars>>

\* SSEDM_SendAll has written everything or sees the stop flag.
Sent(h) ==
    /\ Goes(h, "sending", "reading")
    /\ UNCHANGED <<lifeVars, poolVars, attemptVars, reportVars>>

SendFails(h) ==
    /\ Goes(h, "sending", "taking")
    /\ Returns(h, FALSE)
    /\ UNCHANGED <<lifeVars, poolVars, opened, status, attempts, reportVars>>

\* Plausible fault: the loop of ReadResponse does not look at the stop flag.
ReceivesAlways(h) ==
    /\ Goes(h, "reading", "received")
    /\ UNCHANGED <<lifeVars, poolVars, attemptVars, reportVars>>

\* The loop condition of SSEDM_ReadResponse, then a receive that does not block.
Receives(h) ==
    /\ h \notin stop
    /\ Goes(h, "reading", "received")
    /\ UNCHANGED <<lifeVars, poolVars, attemptVars, reportVars>>

ReadStops(h) ==
    /\ h \in stop
    /\ Goes(h, "reading", "taking")
    /\ Returns(h, TRUE)
    /\ UNCHANGED <<lifeVars, poolVars, opened, status, attempts, reportVars>>

\* Plausible fault: the wait for the socket has no timeout, and after a disconnect
\* nothing ends it.
ReadsOnWithData(h) ==
    /\ h \notin stop
    /\ Goes(h, "received", "reading")
    /\ UNCHANGED <<lifeVars, poolVars, attemptVars, reportVars>>

\* Nothing has arrived within a tenth of a second, or the headers are not complete.
ReadsOn(h) ==
    /\ Goes(h, "received", "reading")
    /\ UNCHANGED <<lifeVars, poolVars, attemptVars, reportVars>>

\* The receive or the wait for it fails; or the server has closed, which is no
\* failure even before the headers are complete.
ReadEnds(h) ==
    /\ Goes(h, "received", "taking")
    /\ \E ok \in BOOLEAN : Returns(h, ok)
    /\ UNCHANGED <<lifeVars, poolVars, opened, status, attempts, reportVars>>

\* The headers are complete and refused: malformed, too large, or not 2xx.
HeadersRefused(h) ==
    /\ h \notin opened
    /\ Goes(h, "received", "taking")
    /\ \E s \in {"none", "other"} : status' = [status EXCEPT ![h] = s]
    /\ Returns(h, FALSE)
    /\ UNCHANGED <<lifeVars, poolVars, opened, attempts, reportVars>>

\* The headers are complete: m_Opened, SSE_EnqueueOpen, then what came with them.
HeadersOpen(h) ==
    /\ h \notin opened
    /\ Goes(h, "received", "body")
    /\ status' = [status EXCEPT ![h] = "2xx"]
    /\ opened' = opened \cup {h}
    /\ connected' = connected \cup {h}
    /\ last' = [last EXCEPT ![h] = "open"]
    /\ UNCHANGED <<lifeVars, poolVars, result, attempts>>

BodyArrives(h) ==
    /\ h \in opened
    /\ Goes(h, "received", "body")
    /\ UNCHANGED <<lifeVars, poolVars, attemptVars, reportVars>>

\* SSEDM_FeedBody finds events and over-long lines in the data.
BodyReports(h) ==
    /\ worker[h] = "body"
    /\ \E e \in {"message", "error"} : last' = [last EXCEPT ![h] = e]
    /\ UNCHANGED <<lifeVars, worker, poolVars, attemptVars, connected>>

BodyReturns(h) ==
    /\ Goes(h, "body", "reading")
    /\ UNCHANGED <<lifeVars, poolVars, attemptVars, reportVars>>

\* The chunked body is malformed, or its last chunk has come.
BodyEnds(h) ==
    /\ Goes(h, "body", "taking")
    /\ \E ok \in BOOLEAN : Returns(h, ok)
    /\ UNCHANGED <<lifeVars, poolVars, opened, status, attempts, reportVars>>

\* Plausible fault: the worker closes the connection it has, taken or not.
TakesAlways(h) ==
    /\ Goes(h, "taking", "closing")
    /\ held' = held \ {h}
    /\ UNCHANGED <<lifeVars, cancel, live, attemptVars, reportVars>>

\* SSEDM_TakeConnection, on the worker; the main thread may have been first.
Takes(h) ==
    /\ Goes(h, "taking", IF h \in held THEN "closing" ELSE "ended")
    /\ held' = held \ {h}
    /\ UNCHANGED <<lifeVars, cancel, live, attemptVars, reportVars>>

\* dmConnectionPool::Close.  PerformOnce then returns; that it returns true once it
\* was told to stop is never looked at.
Closes(h) ==
    /\ Goes(h, "closing", "ended")
    /\ live' = live \ {h}
    /\ UNCHANGED <<lifeVars, cancel, held, attemptVars, reportVars>>

\* SSE_SetConnected(handle, false) after every attempt.
Disconnected(h) ==
    /\ Goes(h, "ended", "down")
    /\ connected' = connected \ {h}
    /\ UNCHANGED <<lifeVars, poolVars, attemptVars, last>>

\* What follows an attempt that the user has not stopped.
AfterAttempt(h) == IF h \in reconnect THEN "pausing" ELSE "leaving"

\* The second look at the stop flag, then at what the attempt came to.
Judge(h) ==
    /\ Goes(h, "down", CASE h \in stop -> "leaving"
                         [] h \notin stop /\ ~result[h] -> "failing"
                         [] h \notin stop /\ result[h] -> AfterAttempt(h))
    /\ UNCHANGED <<lifeVars, poolVars, attemptVars, reportVars>>

\* SSE_EnqueueError.
Fails(h) ==
    /\ Goes(h, "failing", AfterAttempt(h))
    /\ last' = [last EXCEPT ![h] = "error"]
    /\ UNCHANGED <<lifeVars, poolVars, attemptVars, connected>>

\* SSEDesktop_SleepRetry: the delay is over, or a slice of it has seen the flag.
PauseEnds(h) ==
    /\ Goes(h, "pausing", "top")
    /\ UNCHANGED <<lifeVars, poolVars, attemptVars, reportVars>>

\* The last look at the stop flag.
Leaves(h) ==
    /\ Goes(h, "leaving", IF h \in stop THEN "exited" ELSE "lastWord")
    /\ UNCHANGED <<lifeVars, poolVars, attemptVars, reportVars>>

\* SSE_EnqueueClosed, and the thread function returns.
SaysClosed(h) ==
    /\ Goes(h, "lastWord", "exited")
    /\ connected' = connected \ {h}
    /\ last' = [last EXCEPT ![h] = "closed"]
    /\ UNCHANGED <<lifeVars, poolVars, attemptVars>>

\* Steps the worker takes whatever the server does: a dial has a timeout, a socket
\* wait a tenth of a second.
OwnStep(h) ==
    \/ Top(h) \/ Rejects(h) \/ StartDial(h) \/ DialFails(h) \/ SetConnection(h)
    \/ BeginsRequest(h) \/ GivesUp(h) \/ Sent(h) \/ Receives(h) \/ ReadStops(h) \/ ReadsOn(h)
    \/ BodyReturns(h) \/ Takes(h) \/ Closes(h)
    \/ Disconnected(h) \/ Judge(h) \/ Fails(h) \/ PauseEnds(h) \/ Leaves(h) \/ SaysClosed(h)

\* Steps that are up to the server and the network.
WireStep(h) ==
    \/ DialSucceeds(h) \/ SendFails(h) \/ ReadEnds(h) \/ HeadersRefused(h) \/ HeadersOpen(h)
    \/ BodyArrives(h) \/ BodyReports(h) \/ BodyEnds(h)

Next == MainStep \/ \E h \in Connections : OwnStep(h) \/ WireStep(h)

\* Threads run; nobody has to connect or disconnect, and no server has to answer.
Fairness ==
    /\ \A h \in Connections : WF_vars(OwnStep(h))
    /\ WF_vars(MainTakes \/ MainCloses) /\ WF_vars(JoinReturns)

Spec == Init /\ [][Next]_vars /\ Fairness

-----------------------------------------------------------------------------
(* Properties.                                                             *)

TypeOK ==
    /\ pool \in BOOLEAN
    /\ main \in MainStates
    /\ subject \subseteq Connections
    /\ allocated \subseteq Connections /\ badUrl \subseteq Connections
    /\ reconnect \subseteq Connections /\ stop \subseteq Connections
    /\ cancel \subseteq Connections /\ live \subseteq Connections /\ held \subseteq Connections
    /\ opened \subseteq Connections /\ connected \subseteq Connections
    /\ worker \in [Connections -> WorkerStates]
    /\ status \in [Connections -> {"none", "2xx", "other"}]
    /\ result \in [Connections -> BOOLEAN]
    /\ attempts \in [Connections -> Nat]
    /\ last \in [Connections -> {"nothing", "open", "message", "error", "closed"}]

\* A worker that has started and not exited finds its record allocated.
NoUseAfterFree ==
    \A h \in Connections : worker[h] \notin {"none", "exited"} => h \in allocated

MainClosing(h) == main = "close" /\ h \in subject

\* Every dialed connection has exactly one thread that will close it, whenever a
\* disconnect comes: none is closed twice, none is lost to the pool.
ConnectionOwned ==
    \A h \in Connections :
        /\ h \in live <=> \/ worker[h] \in {"dialed", "closing"}
                          \/ h \in held
                          \/ MainClosing(h)
        /\ h \in held => worker[h] \notin {"dialed", "closing"} /\ ~MainClosing(h)
        /\ MainClosing(h) => worker[h] \notin {"dialed", "closing"}

\* When the pool is deleted no worker runs and no connection of it is in use.
PoolOutlivesWorkers ==
    ~pool => live = {} /\ \A h \in Connections : worker[h] \in {"none", "exited"}

\* What sse.is_connected answers about h.
IsConnected(h) == h \in connected /\ h \in allocated /\ h \in opened /\ h \notin stop

\* It answers true only while an attempt is on that got a 2xx response, or has ended
\* this moment.
ConnectedMeansOpen ==
    \A h \in Connections :
        IsConnected(h) => worker[h] \in Transferring \cup {"ended"} /\ status[h] = "2xx"

\* A thread that exits without having been told to has said CLOSED last.
ClosedUnlessStopped ==
    \A h \in Connections : worker[h] = "exited" /\ h \notin stop => last[h] = "closed"

\* Disconnecting does not block: the dial of a worker the main thread waits for has
\* been told to give up.
DisconnectCutsDial ==
    main = "join" => \A h \in subject : worker[h] = "dialing" => h \in cancel

\* The adapter keeps the contract of the platform interface.
Stage(h) ==
    CASE h \in allocated -> IF last[h] = "closed" THEN "closed" ELSE "running"
      [] h \notin allocated /\ worker[h] = "none" -> "idle"
      [] h \notin allocated /\ worker[h] # "none" -> "released"

Contract == INSTANCE SSEStream WITH
    Late <- FALSE, Trailing <- FALSE,
    stage <- [h \in Connections |-> Stage(h)],
    told <- stop,
    busy <- {h \in Connections : worker[h] \in {"received", "body", "failing", "lastWord"}}

StreamContract == Contract!Spec

\* The main thread always gets out of sse.disconnect: the join ends and the record is
\* freed, wherever the worker is when the flags are set.
StoppedIsFreed == \A h \in Connections : h \in stop ~> h \notin allocated
=============================================================================
