------------------------------ MODULE SSEWinHttp ------------------------------
(***************************************************************************)
(* The WinHTTP adapter: the worker thread of a connection and the WinHTTP  *)
(* handles of its attempt.  The worker makes them one after the other,     *)
(* publishes them in the connection's record and closes them; the shutdown *)
(* takes and closes what it finds published, to abort a blocking call.     *)
(*                                                                         *)
(* One connection: the records share only the list of zombies, which the   *)
(* libcurl adapter handles in the same way.  Looking at the stop flag and  *)
(* acting on it are separate steps, and so are taking handles under the    *)
(* mutex and closing them after it.  m_Opened, which sse.is_connected and  *)
(* the count of failures read, is left out.                                *)
(***************************************************************************)
EXTENDS Naturals

\* The handles of an attempt, each made from the one before.
Session == 1
Connection == 2
Request == 3
Handles == Session .. Request

\* Where the worker waits for the network: SendRequest and ReceiveResponse, then
\* QueryDataAvailable and ReadData.
Blocking == {"requesting", "waiting", "reading"}

VARIABLES
    main,           \* where the main thread is; "off" without the zombies' mutex
    zombie,         \* the record is among the zombies
    platformData,   \* m_PlatformData is set
    allocated,      \* the record is not freed
    reconnect, stop, finished,  \* m_Reconnect, m_Stop, m_Finished
    worker,         \* where the worker thread is; "none" before it starts
    created,        \* the newest handle in PerformOnce's locals, 0 for none
    open,           \* the handles that were made and not closed
    published,      \* m_Session, m_Connect, m_Request, as those that are set
    mine,           \* the handles the worker is about to close
    taken,          \* the handles the main thread is about to close
    result,         \* what PerformOnce is going to return
    connected,      \* the core's m_Connected
    last            \* history: the last event pushed

recordVars == <<zombie, platformData, allocated, reconnect, stop>>
handleVars == <<created, open, published, mine>>
reportVars == <<connected, last>>
vars == <<main, recordVars, finished, worker, handleVars, taken, result, reportVars>>

Init ==
    /\ main = "off" /\ zombie = FALSE /\ platformData = FALSE /\ allocated = FALSE
    /\ reconnect = FALSE /\ stop = FALSE /\ finished = FALSE
    /\ worker = "none"
    /\ created = 0 /\ open = {} /\ published = {} /\ mine = {} /\ taken = {}
    /\ result = FALSE
    /\ connected = FALSE /\ last = "nothing"

-----------------------------------------------------------------------------
(* The main thread.                                                        *)

MainKeeps == UNCHANGED <<finished, created, mine, result, reportVars>>
MainKeepsHandles == UNCHANGED <<open, published, taken>>
MainGoes(from, to) == main = from /\ main' = to

\* SSE_Platform_Initialize.
Initialize ==
    /\ MainGoes("off", "engine")
    /\ UNCHANGED <<recordVars, worker>> /\ MainKeeps /\ MainKeepsHandles

\* SSE_Platform_Connect.  When the thread does not start everything is undone.
Connect ==
    /\ main = "engine" /\ worker = "none"
    /\ platformData' = TRUE /\ allocated' = TRUE
    /\ reconnect' \in BOOLEAN
    /\ worker' = "top"
    /\ UNCHANGED <<main, zombie, stop>> /\ MainKeeps /\ MainKeepsHandles

\* SSE_Platform_Disconnect: the stop flag ...
Disconnect ==
    /\ platformData
    /\ MainGoes("engine", "disconnect")
    /\ stop' = TRUE /\ platformData' = FALSE
    /\ UNCHANGED <<zombie, allocated, reconnect, worker>> /\ MainKeeps /\ MainKeepsHandles

\* ... and a worker that has finished is joined at once ...
DisconnectFinished ==
    /\ finished
    /\ MainGoes("disconnect", "join")
    /\ UNCHANGED <<recordVars, worker>> /\ MainKeeps /\ MainKeepsHandles

\* ... while any other is left to SSE_Platform_Update.
DisconnectRunning ==
    /\ ~finished
    /\ MainGoes("disconnect", "engine")
    /\ zombie' = TRUE
    /\ UNCHANGED <<platformData, allocated, reconnect, stop, worker>> /\ MainKeeps /\ MainKeepsHandles

\* SSE_Platform_Update finds a zombie that has finished.
UpdateReaps ==
    /\ zombie /\ finished
    /\ MainGoes("engine", "join")
    /\ UNCHANGED <<recordVars, worker>> /\ MainKeeps /\ MainKeepsHandles

\* Plausible fault: the workers that have finished are aborted, and the others only joined.
FinalizeLooksWrongly ==
    /\ ~platformData
    /\ MainGoes("engine", CASE ~zombie -> "off"
                            [] zombie /\ finished -> "takes"
                            [] zombie /\ ~finished -> "joinLast")
    /\ UNCHANGED <<recordVars, worker>> /\ MainKeeps /\ MainKeepsHandles

\* SSE_Platform_Finalize; FinalizeSSE has disconnected every connection.
FinalizeLooks ==
    /\ ~platformData
    /\ MainGoes("engine", CASE ~zombie -> "off"
                            [] zombie /\ finished -> "joinLast"
                            [] zombie /\ ~finished -> "takes")
    /\ UNCHANGED <<recordVars, worker>> /\ MainKeeps /\ MainKeepsHandles

FinalizeTakes ==
    /\ MainGoes("takes", "closes")
    /\ taken' = published /\ published' = {}
    /\ UNCHANGED <<recordVars, worker, open>> /\ MainKeeps

FinalizeCloses ==
    /\ MainGoes("closes", "joinLast")
    /\ open' = open \ taken /\ taken' = {}
    /\ UNCHANGED <<recordVars, worker, published>> /\ MainKeeps

\* dmThread::Join returns and SSEDesktop_Free takes the record.
JoinReturns ==
    /\ worker = "exited"
    /\ MainGoes("join", "engine") \/ MainGoes("joinLast", "off")
    /\ allocated' = FALSE /\ zombie' = FALSE
    /\ UNCHANGED <<platformData, reconnect, stop, worker>> /\ MainKeeps /\ MainKeepsHandles

MainStep ==
    \/ Initialize \/ Connect \/ Disconnect \/ DisconnectFinished \/ DisconnectRunning
    \/ UpdateReaps \/ FinalizeLooks \/ FinalizeTakes \/ FinalizeCloses \/ JoinReturns

-----------------------------------------------------------------------------
(* The worker thread: PerformOnce.                                         *)

Goes(from, to) == worker = from /\ worker' = to

WorkerKeeps == UNCHANGED <<main, recordVars, taken>>
HandlesKept == UNCHANGED handleVars
NoReport == UNCHANGED reportVars

\* The loop condition of SSEDesktop_Worker.
Top ==
    /\ Goes("top", IF stop THEN "leaving" ELSE "begin")
    /\ UNCHANGED <<finished, result>> /\ HandlesKept /\ NoReport /\ WorkerKeeps

\* The URL is refused before there is a handle.
UrlRefused ==
    /\ Goes("begin", "ended")
    /\ result' = FALSE
    /\ UNCHANGED finished /\ HandlesKept /\ NoReport /\ WorkerKeeps

Begins ==
    /\ Goes("begin", "creating")
    /\ created' = 0
    /\ UNCHANGED <<finished, result, open, published, mine>> /\ NoReport /\ WorkerKeeps

\* WinHttpOpen, WinHttpConnect or WinHttpOpenRequest, from a handle that is open.
Creates ==
    /\ Goes("creating", "created")
    /\ created # 0 => created \in open
    /\ created' = created + 1 /\ open' = open \cup {created'}
    /\ UNCHANGED <<finished, published, mine, result>> /\ NoReport /\ WorkerKeeps

\* PerformOnce returns without a stream, and closes what it has published.
GivesUp(from) ==
    /\ Goes(from, "closing")
    /\ result' = FALSE
    /\ UNCHANGED finished /\ HandlesKept /\ NoReport /\ WorkerKeeps

CreateFails == GivesUp("creating")

\* SSEWinHTTP_SetHandles.
Publishes ==
    /\ Goes("created", "published")
    /\ published' = Session .. created
    /\ UNCHANGED <<finished, created, open, mine, result>> /\ NoReport /\ WorkerKeeps

\* The look at the stop flag that follows every SetHandles.
Looks ==
    /\ Goes("published", CASE stop -> "closing"
                           [] ~stop /\ created < Request -> "creating"
                           [] ~stop /\ created = Request -> "requesting")
    /\ result' = TRUE
    /\ UNCHANGED finished /\ HandlesKept /\ NoReport /\ WorkerKeeps

\* A header is refused, WinHttpSendRequest or WinHttpReceiveResponse fails or times out,
\* or the status is not 2xx.
RequestFails == GivesUp("requesting")

\* A 2xx response.  Nothing looks at the stop flag behind it.
Responds ==
    /\ Request \in open
    /\ Goes("requesting", "responded")
    /\ UNCHANGED <<finished, result>> /\ HandlesKept /\ NoReport /\ WorkerKeeps

Opens ==
    /\ Goes("responded", "looping")
    /\ connected' = TRUE /\ last' = "open"
    /\ UNCHANGED <<finished, result>> /\ HandlesKept /\ WorkerKeeps

-----------------------------------------------------------------------------
(* The worker thread: ReadStream.                                          *)

\* The condition of the outer loop.
ReadsOn ==
    /\ Goes("looping", IF stop THEN "closing" ELSE "waiting")
    /\ result' = TRUE
    /\ UNCHANGED finished /\ HandlesKept /\ NoReport /\ WorkerKeeps

\* WinHttpQueryDataAvailable or WinHttpReadData fails, or times out.
ReadFails ==
    /\ Goes("waiting", "closing") \/ Goes("reading", "closing")
    /\ result' = stop
    /\ UNCHANGED finished /\ HandlesKept /\ NoReport /\ WorkerKeeps

\* The response is at its end.
ReadEnds ==
    /\ Request \in open
    /\ Goes("waiting", "closing") \/ Goes("reading", "closing")
    /\ UNCHANGED <<finished, result>> /\ HandlesKept /\ NoReport /\ WorkerKeeps

DataAvailable ==
    /\ Request \in open
    /\ Goes("waiting", "inner")
    /\ UNCHANGED <<finished, result>> /\ HandlesKept /\ NoReport /\ WorkerKeeps

\* Plausible fault: the inner loop does not look at the stop flag.
ReadsDataAlways ==
    /\ Goes("inner", "reading")
    /\ UNCHANGED <<finished, result>> /\ HandlesKept /\ NoReport /\ WorkerKeeps

\* The condition of the inner loop.
ReadsData ==
    /\ Goes("inner", IF stop THEN "looping" ELSE "reading")
    /\ UNCHANGED <<finished, result>> /\ HandlesKept /\ NoReport /\ WorkerKeeps

DataArrives ==
    /\ Request \in open
    /\ Goes("reading", "feeding")
    /\ UNCHANGED <<finished, result>> /\ HandlesKept /\ NoReport /\ WorkerKeeps

\* Feed finds events and over-long lines.
Reports ==
    /\ worker = "feeding"
    /\ last' \in {"message", "error"}
    /\ UNCHANGED <<worker, finished, result, connected>> /\ HandlesKept /\ WorkerKeeps

\* The data are used up; some that were announced are left, or none.
FeedReturns ==
    /\ Goes("feeding", "inner") \/ Goes("feeding", "looping")
    /\ UNCHANGED <<finished, result>> /\ HandlesKept /\ NoReport /\ WorkerKeeps

-----------------------------------------------------------------------------
(* The worker thread: CloseActiveHandles, and SSEDesktop_Worker.           *)

\* Plausible fault: an attempt that failed leaves its handles to the next one.
TakesIfStopped ==
    /\ Goes("closing", "closes")
    /\ mine' = IF stop \/ result THEN published ELSE {}
    /\ published' = {}
    /\ UNCHANGED <<finished, created, open, result>> /\ NoReport /\ WorkerKeeps

\* SSEWinHTTP_TakeHandles.
Takes ==
    /\ Goes("closing", "closes")
    /\ mine' = published /\ published' = {}
    /\ UNCHANGED <<finished, created, open, result>> /\ NoReport /\ WorkerKeeps

\* SSEWinHTTP_CloseHandles.
Closes ==
    /\ Goes("closes", "performed")
    /\ open' = open \ mine /\ mine' = {}
    /\ UNCHANGED <<finished, created, published, result>> /\ NoReport /\ WorkerKeeps

\* PerformOnce returns, true if it has been stopped meanwhile.
PerformReturns ==
    /\ Goes("performed", "ended")
    /\ result' = (result \/ stop)
    /\ UNCHANGED finished /\ HandlesKept /\ NoReport /\ WorkerKeeps

\* SSE_SetConnected(handle, false) after every attempt.
Disconnected ==
    /\ Goes("ended", "down")
    /\ connected' = FALSE
    /\ UNCHANGED <<finished, result, last>> /\ HandlesKept /\ WorkerKeeps

AfterAttempt == IF reconnect THEN "pausing" ELSE "leaving"

\* The second look at the stop flag, then at what the attempt came to.
Judge ==
    /\ Goes("down", CASE stop -> "leaving"
                      [] ~stop /\ ~result -> "failing"
                      [] ~stop /\ result -> AfterAttempt)
    /\ UNCHANGED <<finished, result>> /\ HandlesKept /\ NoReport /\ WorkerKeeps

\* SSE_EnqueueError.
Fails ==
    /\ Goes("failing", AfterAttempt)
    /\ last' = "error"
    /\ UNCHANGED <<finished, result, connected>> /\ HandlesKept /\ WorkerKeeps

\* SSEDesktop_SleepRetry.
PauseEnds ==
    /\ Goes("pausing", "top")
    /\ UNCHANGED <<finished, result>> /\ HandlesKept /\ NoReport /\ WorkerKeeps

\* The last look at the stop flag.
Leaves ==
    /\ Goes("leaving", IF stop THEN "finish" ELSE "last")
    /\ UNCHANGED <<finished, result>> /\ HandlesKept /\ NoReport /\ WorkerKeeps

\* SSE_EnqueueClosed.
SaysClosed ==
    /\ Goes("last", "finish")
    /\ connected' = FALSE /\ last' = "closed"
    /\ UNCHANGED <<finished, result>> /\ HandlesKept /\ WorkerKeeps

\* SSEDesktop_MarkFinished, the last access to the connection.
Finishes ==
    /\ Goes("finish", "exiting")
    /\ finished' = TRUE
    /\ UNCHANGED result /\ HandlesKept /\ NoReport /\ WorkerKeeps

\* The thread function has returned.
Exits ==
    /\ Goes("exiting", "exited")
    /\ UNCHANGED <<finished, result>> /\ HandlesKept /\ NoReport /\ WorkerKeeps

\* Steps that wait for nobody, and the timeouts of the blocking calls.
OwnStep ==
    \/ Top \/ Begins \/ Creates \/ CreateFails \/ Publishes \/ Looks \/ RequestFails \/ Opens
    \/ ReadsOn \/ ReadFails \/ ReadsData \/ FeedReturns
    \/ Takes \/ Closes \/ PerformReturns \/ Disconnected \/ Judge \/ Fails \/ PauseEnds
    \/ Leaves \/ SaysClosed \/ Finishes \/ Exits

\* What is up to the URL, the server and the network.
WireStep == UrlRefused \/ Responds \/ ReadEnds \/ DataAvailable \/ DataArrives \/ Reports

Next == MainStep \/ OwnStep \/ WireStep

Spec == Init /\ [][Next]_vars

-----------------------------------------------------------------------------
(* Properties.                                                             *)

\* No handle leaks: each open one is published, just made, or about to be closed.
HandlesOwned ==
    open \subseteq published \cup mine \cup taken \cup (IF worker = "created" THEN {created} ELSE {})

\* "the handles of a still-running worker are closed to abort its blocking read": while
\* the shutdown waits for the worker it is in no call that the server could prolong.
ShutdownAborts == main = "joinLast" /\ worker \in Blocking => Request \notin open

\* The adapter keeps the contract of the platform interface.  The decision to report
\* falls before the request: a worker that is told to stop while it waits for the
\* response still says OPEN when it comes.
Stage ==
    CASE allocated -> IF last = "closed" THEN "closed" ELSE "running"
      [] ~allocated /\ worker = "none" -> "idle"
      [] ~allocated /\ worker # "none" -> "released"

Only(b) == IF b THEN {"client"} ELSE {}

Contract == INSTANCE SSEStream WITH
    Connections <- {"client"}, Late <- FALSE, Trailing <- FALSE,
    stage <- [h \in {"client"} |-> Stage],
    reconnect <- Only(reconnect),
    told <- Only(stop),
    busy <- Only(worker \in {"requesting", "responded", "reading", "feeding", "failing", "last"}),
    last <- [h \in {"client"} |-> last]

StreamContract == Contract!Spec
=============================================================================
