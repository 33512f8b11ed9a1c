------------------------------ MODULE SSEDesktop ------------------------------
(***************************************************************************)
(* The libcurl adapter: one worker thread per connection runs attempt      *)
(* after attempt inside curl_easy_perform, whose callbacks read the stop   *)
(* flag and push events; the main thread starts workers, tells them to     *)
(* stop without waiting for them, and reaps those that have finished.      *)
(*                                                                         *)
(* Looking at the stop flag and acting on it are separate steps: the main  *)
(* thread may set the flag in between.  libcurl is left free to call its   *)
(* callbacks in any order and to end a transfer at any moment.             *)
(***************************************************************************)
EXTENDS Naturals

CONSTANTS
    Connections,    \* the connections the core may start, each once
    MaxAttempts     \* bound: attempts of one worker

ASSUME DesktopAssumption == MaxAttempts \in Nat

\* Where a worker is.  From "begin" to "performed" it is in PerformOnce, in
\* "header" and "body" inside a callback that has passed its ShouldStop test.
Performing == {"begin", "performing", "header", "body", "performed"}
WorkerStates == Performing \cup {"none", "top", "ended", "down", "failing", "pausing",
                                 "leaving", "closing", "finish", "exiting", "exited"}

MainStates == {"engine", "disconnect", "joinStopped", "update", "joinZombie", "finalize", "joinLast"}

VARIABLES
    curl,           \* g_CurlInitialized
    main,           \* where the main thread is
    subject,        \* the connection it works on there, as a set of at most one
    todo,           \* the zombies its loop has not come to
    zombies,        \* g_SSEDesktopZombies
    platformData,   \* the connections whose m_PlatformData is set
    allocated,      \* the SSEDesktopConnections that are not freed
    reconnect,      \* those with m_Reconnect
    stop,           \* those with m_Stop
    finished,       \* those with m_Finished
    worker,         \* worker[h]: where the worker thread of h is
    opened,         \* those with m_Opened
    status,         \* status[h]: m_Status, as none yet, 2xx or anything else
    result,         \* result[h]: CURLE_OK, then what PerformOnce returned
    connected,      \* the core's m_Connected
    \* History, for the properties.
    attempts,       \* attempts[h]: attempts the worker has begun
    last            \* last[h]: the last event pushed for h

mainVars == <<main, subject, todo, zombies>>
lifeVars == <<platformData, allocated, reconnect, stop>>
attemptVars == <<opened, status, result>>
reportVars == <<connected, last>>
vars == <<curl, mainVars, lifeVars, finished, worker, attemptVars, reportVars, attempts>>

Init ==
    /\ curl = FALSE
    /\ main = "engine" /\ subject = {}
    /\ todo = {} /\ zombies = {}
    /\ platformData = {} /\ allocated = {} /\ reconnect = {} /\ stop = {} /\ finished = {}
    /\ worker = [h \in Connections |-> "none"]
    /\ opened = {}
    /\ status = [h \in Connections |-> "none"]
    /\ result = [h \in Connections |-> FALSE]
    /\ connected = {}
    /\ attempts = [h \in Connections |-> 0]
    /\ last = [h \in Connections |-> "nothing"]

-----------------------------------------------------------------------------
(* The main thread.                                                        *)

\* SSE_Platform_Initialize; when curl_global_init fails nothing changes.
Initialize ==
    /\ main = "engine" /\ ~curl
    /\ curl' = TRUE
    /\ UNCHANGED <<mainVars, lifeVars, finished, worker, attemptVars, reportVars, attempts>>

\* SSE_Platform_Connect.  When the thread does not start everything is undone
\* before anybody has seen it.
Connect(h) ==
    /\ main = "engine" /\ curl
    /\ worker[h] = "none"
    /\ platformData' = platformData \cup {h}
    /\ allocated' = allocated \cup {h}
    /\ reconnect' \in {reconnect, reconnect \cup {h}}
    /\ worker' = [worker EXCEPT ![h] = "top"]
    /\ UNCHANGED <<curl, mainVars, stop, finished, attemptVars, reportVars, attempts>>

\* SSE_Platform_Disconnect: the stop flag, under the connection's mutex.
Disconnect(h) ==
    /\ main = "engine"
    /\ h \in platformData
    /\ stop' = stop \cup {h}
    /\ platformData' = platformData \ {h}
    /\ main' = "disconnect" /\ subject' = {h}
    /\ UNCHANGED <<curl, todo, zombies, allocated, reconnect, finished, worker, attemptVars,
                   reportVars, attempts>>

\* A worker that has finished is joined at once.
DisconnectFinished ==
    /\ main = "disconnect"
    /\ subject \subseteq finished
    /\ main' = "joinStopped"
    /\ UNCHANGED <<curl, subject, todo, zombies, lifeVars, finished, worker, attemptVars,
                   reportVars, attempts>>

\* Any other is left to SSE_Platform_Update.
DisconnectRunning ==
    /\ main = "disconnect"
    /\ ~(subject \subseteq finished)
    /\ zombies' = zombies \cup subject
    /\ main' = "engine" /\ subject' = {}
    /\ UNCHANGED <<curl, todo, lifeVars, finished, worker, attemptVars, reportVars, attempts>>

\* Plausible fault: the record is freed while its thread has yet to exit.
ThreadIsGoneEarly(h) == worker[h] \in {"finish", "exiting", "exited"}

\* What dmThread::Join waits for.
ThreadIsGone(h) == worker[h] = "exited"

\* dmThread::Join returns and SSEDesktop_Free takes the record.
JoinReturns ==
    /\ main \in {"joinStopped", "joinZombie", "joinLast"}
    /\ \A h \in subject : ThreadIsGone(h)
    /\ allocated' = allocated \ subject
    /\ zombies' = zombies \ subject
    /\ main' = CASE main = "joinStopped" -> "engine"
                 [] main = "joinZombie" -> "update"
                 [] main = "joinLast" -> "finalize"
    /\ subject' = {}
    /\ UNCHANGED <<curl, todo, platformData, reconnect, stop, finished, worker, attemptVars,
                   reportVars, attempts>>

\* SSE_Platform_Update, called every frame.
UpdateBegins ==
    /\ main = "engine" /\ curl
    /\ zombies # {}
    /\ main' = "update" /\ todo' = zombies
    /\ UNCHANGED <<curl, subject, zombies, lifeVars, finished, worker, attemptVars, reportVars,
                   attempts>>

\* Plausible fault: the reaper takes only records whose stop flag is down.
ReapableNever(h) == h \in finished \ stop

\* SSEDesktop_IsFinished.
Reapable(h) == h \in finished

UpdateLooks(h) ==
    /\ main = "update"
    /\ h \in todo
    /\ todo' = todo \ {h}
    /\ IF Reapable(h)
       THEN main' = "joinZombie" /\ subject' = {h}
       ELSE UNCHANGED <<main, subject>>
    /\ UNCHANGED <<curl, zombies, lifeVars, finished, worker, attemptVars, reportVars, attempts>>

UpdateEnds ==
    /\ main = "update" /\ todo = {}
    /\ main' = "engine"
    /\ UNCHANGED <<curl, subject, todo, zombies, lifeVars, finished, worker, attemptVars,
                   reportVars, attempts>>

\* SSE_Platform_Finalize; FinalizeSSE has disconnected every connection.
FinalizeBegins ==
    /\ main = "engine" /\ curl
    /\ platformData = {}
    /\ main' = "finalize"
    /\ todo' = zombies /\ zombies' = {}
    /\ UNCHANGED <<curl, subject, lifeVars, finished, worker, attemptVars, reportVars, attempts>>

FinalizeJoins(h) ==
    /\ main = "finalize"
    /\ h \in todo
    /\ todo' = todo \ {h}
    /\ main' = "joinLast" /\ subject' = {h}
    /\ UNCHANGED <<curl, zombies, lifeVars, finished, worker, attemptVars, reportVars, attempts>>

\* Finalize's loop has joined every zombie.
AllJoined == todo = {}

\* curl_global_cleanup.
FinalizeEnds ==
    /\ main = "finalize"
    /\ AllJoined
    /\ curl' = FALSE
    /\ main' = "engine"
    /\ UNCHANGED <<subject, todo, zombies, lifeVars, finished, worker, attemptVars, reportVars,
                   attempts>>

MainStep ==
    \/ Initialize
    \/ \E h \in Connections : \/ Connect(h) \/ Disconnect(h)
                              \/ UpdateLooks(h) \/ FinalizeJoins(h)
    \/ DisconnectFinished \/ DisconnectRunning \/ JoinReturns
    \/ UpdateBegins \/ UpdateEnds \/ FinalizeBegins \/ FinalizeEnds

-----------------------------------------------------------------------------
(* The worker thread.                                                      *)

\* The worker of h moves from one place to the next.
Goes(h, from, to) == worker[h] = from /\ worker' = [worker EXCEPT ![h] = to]

NoReport == UNCHANGED reportVars
WorkerKeeps == UNCHANGED <<curl, mainVars, lifeVars>>

\* The loop condition of SSEDesktop_Worker.
Top(h) ==
    /\ h \notin stop => attempts[h] < MaxAttempts
    /\ Goes(h, "top", IF h \in stop THEN "leaving" ELSE "begin")
    /\ attempts' = [attempts EXCEPT ![h] = IF h \in stop THEN @ ELSE @ + 1]
    /\ UNCHANGED <<finished, attemptVars>> /\ NoReport /\ WorkerKeeps

\* PerformOnce without curl_easy_init: it returns at once and leaves m_Opened as
\* the attempt before it did.
InitFails(h) ==
    /\ Goes(h, "begin", "ended")
    /\ result' = [result EXCEPT ![h] = FALSE]
    /\ UNCHANGED <<finished, opened, status, attempts>> /\ NoReport /\ WorkerKeeps

\* The parser, m_Status and m_Opened are reset, then curl_easy_perform runs.
StartTransfer(h) ==
    /\ Goes(h, "begin", "performing")
    /\ status' = [status EXCEPT ![h] = "none"]
    /\ opened' = opened \ {h}
    /\ UNCHANGED <<finished, result, attempts>> /\ NoReport /\ WorkerKeeps

\* HeaderCallback or WriteCallback looks at the stop flag.  A callback that finds
\* it set returns 0, which ends the transfer with an error.
EntersCallback(h) ==
    /\ h \notin stop
    /\ Goes(h, "performing", "header") \/ Goes(h, "performing", "body")
    /\ UNCHANGED <<finished, attemptVars, attempts>> /\ NoReport /\ WorkerKeeps

\* Any callback that finds the stop flag set, and ProgressCallback when no headers
\* have come for too long, abort the transfer.
Aborts(h) ==
    /\ h \in stop \/ h \notin opened
    /\ Goes(h, "performing", "performed")
    /\ result' = [result EXCEPT ![h] = FALSE]
    /\ UNCHANGED <<finished, opened, status, attempts>> /\ NoReport /\ WorkerKeeps

\* The server or the network ends the transfer.
TransferEnds(h) ==
    /\ Goes(h, "performing", "performed")
    /\ \E ok \in BOOLEAN : result' = [result EXCEPT ![h] = ok]
    /\ UNCHANGED <<finished, opened, status, attempts>> /\ NoReport /\ WorkerKeeps

\* HeaderCallback gets a status line: of a proxy, of a redirect or the last one.
StatusLine(h) ==
    /\ Goes(h, "header", "performing")
    /\ \E s \in {"2xx", "other"} : status' = [status EXCEPT ![h] = s]
    /\ opened' = opened \ {h}
    /\ UNCHANGED <<finished, result, attempts>> /\ NoReport /\ WorkerKeeps

Opens(h) == h \notin opened /\ status[h] = "2xx"

\* m_Opened and SSE_EnqueueOpen.
Open(h) ==
    /\ opened' = opened \cup {h}
    /\ connected' = connected \cup {h}
    /\ last' = [last EXCEPT ![h] = "open"]

\* HeaderCallback gets the blank line after the headers.
HeadersEnd(h) ==
    /\ Opens(h)
    /\ Goes(h, "header", "performing")
    /\ Open(h)
    /\ UNCHANGED <<finished, status, result, attempts>> /\ WorkerKeeps

\* HeaderCallback gets any other line, or a blank one that opens nothing.
HeaderLine(h) ==
    /\ Goes(h, "header", "performing")
    /\ UNCHANGED <<finished, attemptVars, attempts>> /\ NoReport /\ WorkerKeeps

\* WriteCallback opens a stream whose blank line it has not seen.
BodyOpens(h) ==
    /\ worker[h] = "body" /\ Opens(h)
    /\ Open(h)
    /\ UNCHANGED <<finished, worker, status, result, attempts>> /\ WorkerKeeps

\* Feed finds events and over-long lines in the data, whatever the status is.
BodyReports(h) ==
    /\ worker[h] = "body" /\ ~Opens(h)
    /\ \E e \in {"message", "error"} : last' = [last EXCEPT ![h] = e]
    /\ UNCHANGED <<finished, worker, attemptVars, connected, attempts>> /\ WorkerKeeps

BodyReturns(h) ==
    /\ ~Opens(h)
    /\ Goes(h, "body", "performing")
    /\ UNCHANGED <<finished, attemptVars, attempts>> /\ NoReport /\ WorkerKeeps

\* The end of PerformOnce: a stop makes it return true, a status other than 2xx
\* makes it return false.
PerformReturns(h) ==
    /\ Goes(h, "performed", "ended")
    /\ result' = [result EXCEPT ![h] = h \in stop \/ (@ /\ status[h] = "2xx")]
    /\ UNCHANGED <<finished, opened, status, attempts>> /\ NoReport /\ WorkerKeeps

\* Plausible fault: SSE_SetConnected is left out.
DisconnectedUnsaid(h) ==
    /\ Goes(h, "ended", "down")
    /\ UNCHANGED <<finished, attemptVars, attempts>> /\ NoReport /\ WorkerKeeps

\* SSE_SetConnected(handle, false) after every attempt.
Disconnected(h) ==
    /\ Goes(h, "ended", "down")
    /\ connected' = connected \ {h}
    /\ UNCHANGED <<finished, attemptVars, last, attempts>> /\ WorkerKeeps

\* What follows an attempt that the user has not stopped.
AfterAttempt(h) == IF h \in reconnect THEN "pausing" ELSE "leaving"

\* The second look at the stop flag, then at what the attempt came to.
Judge(h) ==
    /\ Goes(h, "down", CASE h \in stop -> "leaving"
                         [] h \notin stop /\ ~result[h] -> "failing"
                         [] h \notin stop /\ result[h] -> AfterAttempt(h))
    /\ UNCHANGED <<finished, attemptVars, attempts>> /\ NoReport /\ WorkerKeeps

\* SSE_EnqueueError.
Fails(h) ==
    /\ Goes(h, "failing", AfterAttempt(h))
    /\ last' = [last EXCEPT ![h] = "error"]
    /\ UNCHANGED <<finished, attemptVars, connected, attempts>> /\ WorkerKeeps

\* SSEDesktop_SleepRetry: the delay is over, or a slice of it has seen the flag.
PauseEnds(h) ==
    /\ Goes(h, "pausing", "top")
    /\ UNCHANGED <<finished, attemptVars, attempts>> /\ NoReport /\ WorkerKeeps

\* Plausible fault: the last look at the stop flag is left out.
LeavesAlways(h) ==
    /\ Goes(h, "leaving", "closing")
    /\ UNCHANGED <<finished, attemptVars, attempts>> /\ NoReport /\ WorkerKeeps

\* The last look at the stop flag.
Leaves(h) ==
    /\ Goes(h, "leaving", IF h \in stop THEN "finish" ELSE "closing")
    /\ UNCHANGED <<finished, attemptVars, attempts>> /\ NoReport /\ WorkerKeeps

\* SSE_EnqueueClosed.
Closes(h) ==
    /\ Goes(h, "closing", "finish")
    /\ connected' = connected \ {h}
    /\ last' = [last EXCEPT ![h] = "closed"]
    /\ UNCHANGED <<finished, attemptVars, attempts>> /\ WorkerKeeps

\* SSEDesktop_MarkFinished, the last access to the connection.
Finishes(h) ==
    /\ Goes(h, "finish", "exiting")
    /\ finished' = finished \cup {h}
    /\ UNCHANGED <<attemptVars, attempts>> /\ NoReport /\ WorkerKeeps

\* The thread function has returned.
Exits(h) ==
    /\ Goes(h, "exiting", "exited")
    /\ UNCHANGED <<finished, attemptVars, attempts>> /\ NoReport /\ WorkerKeeps

\* The worker's own steps: they wait for nobody but libcurl's next callback, which
\* comes at least once a second.
OwnStep(h) ==
    \/ Top(h) \/ InitFails(h) \/ StartTransfer(h)
    \/ h \in stop /\ Aborts(h)
    \/ StatusLine(h) \/ HeadersEnd(h) \/ HeaderLine(h) \/ BodyOpens(h) \/ BodyReturns(h)
    \/ PerformReturns(h) \/ Disconnected(h) \/ Judge(h) \/ Fails(h) \/ PauseEnds(h)
    \/ Leaves(h) \/ Closes(h) \/ Finishes(h) \/ Exits(h)

\* Steps that are up to the server and the network.
WireStep(h) == EntersCallback(h) \/ Aborts(h) \/ TransferEnds(h) \/ BodyReports(h)

Next == MainStep \/ \E h \in Connections : OwnStep(h) \/ WireStep(h)

\* The engine calls Update every frame and threads run; nobody has to connect,
\* disconnect or shut down, and no server has to answer.
Fairness ==
    /\ \A h \in Connections : WF_vars(OwnStep(h)) /\ WF_vars(UpdateLooks(h)) /\ WF_vars(FinalizeJoins(h))
    /\ WF_vars(DisconnectFinished \/ DisconnectRunning)
    /\ WF_vars(JoinReturns)
    /\ WF_vars(UpdateBegins) /\ WF_vars(UpdateEnds) /\ WF_vars(FinalizeEnds)

Spec == Init /\ [][Next]_vars /\ Fairness

-----------------------------------------------------------------------------
(* Properties.                                                             *)

TypeOK ==
    /\ curl \in BOOLEAN
    /\ main \in MainStates
    /\ subject \subseteq Connections
    /\ todo \subseteq Connections /\ zombies \subseteq Connections
    /\ platformData \subseteq Connections /\ allocated \subseteq Connections
    /\ reconnect \subseteq Connections /\ stop \subseteq Connections
    /\ finished \subseteq Connections /\ opened \subseteq Connections
    /\ connected \subseteq Connections
    /\ worker \in [Connections -> WorkerStates]
    /\ status \in [Connections -> {"none", "2xx", "other"}]
    /\ result \in [Connections -> BOOLEAN]
    /\ attempts \in [Connections -> 0 .. MaxAttempts]
    /\ last \in [Connections -> {"nothing", "open", "message", "error", "closed"}]

\* A worker that has started and not exited finds its record allocated.
NoUseAfterFree ==
    \A h \in Connections : worker[h] \notin {"none", "exited"} => h \in allocated

\* "disconnect never blocks a frame": outside the shutdown the main thread joins
\* only workers that have nothing left to do but return.
JoinIsPrompt ==
    main \in {"joinStopped", "joinZombie"} =>
        \A h \in subject : worker[h] \in {"exiting", "exited"}

\* After SSE_Platform_Finalize no worker runs, no record is left behind, and so
\* nothing uses libcurl after curl_global_cleanup.
NothingOutlivesFinalize ==
    ~curl => /\ allocated = {}
             /\ \A h \in Connections : worker[h] \in {"none", "exited"}

\* What sse.is_connected answers about h.
IsConnected(h) == h \in connected /\ h \in platformData /\ h \in opened /\ h \notin stop

\* It answers true only while an attempt is on whose latest status is 2xx, or has
\* ended this moment.
ConnectedMeansOpen ==
    \A h \in Connections :
        IsConnected(h) => worker[h] \in (Performing \ {"begin"}) \cup {"ended"} /\ status[h] = "2xx"

\* A stream the adapter holds open during an attempt is one the core was told is
\* open: every 2xx response is announced anew, also after a reconnect.
OpenedIsTold ==
    \A h \in opened : worker[h] \in Performing \ {"begin"} => h \in connected

\* A worker that finishes without having been told to has said CLOSED last.
ClosedUnlessStopped ==
    \A h \in finished \ stop : last[h] = "closed"

\* "Reconnect is disabled unless options.reconnect == true."
OneAttempt == \A h \in Connections \ reconnect : attempts[h] <= 1

\* The adapter keeps the contract of the platform interface.
Stage(h) ==
    CASE h \in allocated -> IF last[h] = "closed" THEN "closed" ELSE "running"
      [] h \notin allocated /\ worker[h] = "none" -> "idle"
      [] h \notin allocated /\ worker[h] # "none" -> "released"

Contract == INSTANCE SSEStream WITH
    Late <- FALSE, Trailing <- FALSE,
    stage <- [h \in Connections |-> Stage(h)],
    told <- stop,
    busy <- {h \in Connections : worker[h] \in {"header", "body", "failing", "closing"}}

StreamContract == Contract!Spec

\* Every worker that was told to stop, by a disconnect or by the shutdown, is joined
\* and its record freed.
StoppedIsFreed == \A h \in Connections : h \in stop ~> h \notin allocated
=============================================================================
