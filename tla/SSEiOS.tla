-------------------------------- MODULE SSEiOS --------------------------------
(***************************************************************************)
(* The iOS adapter: everything an SseIOSClient does runs as blocks on its  *)
(* serial queue (the start of a request, the delegate callbacks of its     *)
(* NSURLSession, the first-response watchdog, the teardown), except that   *)
(* the main thread sets the atomic flag `stopped` at any moment.           *)
(*                                                                         *)
(* A block is a step up to its look at the flag, and one for each report   *)
(* behind it.  What NSURLSession does is external: it answers and ends a   *)
(* task at any moment and puts the callbacks on the queue in that order.   *)
(***************************************************************************)
EXTENDS Naturals, FiniteSets, Sequences, SequencesExt

CONSTANT MaxAttempts    \* bound: requests of the client, 1 or more

Attempts == 1 .. MaxAttempts

\* A block of the queue: what it is, the attempt it is about or 0, and whether the
\* completion it stands for carries an error.
Block(kind, a) == [kind |-> kind, of |-> a, error |-> FALSE]
Completion(a, e) == [kind |-> "complete", of |-> a, error |-> e]

VARIABLES
    client,     \* the SseIOSClient: none yet, live, or deallocated
    reconnect,  \* options.reconnect
    stopped,    \* the atomic flag
    queue,      \* the blocks on the serial queue
    delayed,    \* the blocks of dispatch_after whose time has not come
    at,         \* where the block that runs is, "idle" when none does
    error,      \* the NSError of the completion that runs, as its presence
    started,    \* how many requests were started
    current,    \* self.session and self.task, as their attempt, 0 for nil
    sessions,   \* the sessions that are not invalidated, as their attempts
    task,       \* task[a]: what NSURLSession is doing for attempt a
    flags,      \* those of receivedResponse, failedResponse, firstResponseTimedOut that are set
    connected,  \* the core's m_Connected
    \* History, for the properties.
    last,       \* the last event pushed
    closed,     \* CLOSED was pushed
    tells,      \* how often an error about the current attempt as a whole was pushed
    clean       \* the current attempt's stream came to its end without an error

lifeVars == <<client, reconnect, stopped>>
requestVars == <<started, current, sessions, task>>
reportVars == <<connected, last, closed, tells>>
vars == <<lifeVars, queue, delayed, at, error, requestVars, flags, reportVars, clean>>

TaskStates == {"none", "requesting", "answered", "streaming", "cancelled", "complete"}

Init ==
    /\ client = "none" /\ reconnect = FALSE /\ stopped = FALSE
    /\ queue = <<>> /\ delayed = {} /\ at = "idle" /\ error = FALSE
    /\ started = 0 /\ current = 0 /\ sessions = {}
    /\ task = [a \in Attempts |-> "none"]
    /\ flags = {}
    /\ connected = FALSE /\ last = "nothing" /\ closed = FALSE /\ tells = "never" /\ clean = FALSE

-----------------------------------------------------------------------------
(* The main thread.                                                        *)

\* SSE_Platform_Connect.
Connect ==
    /\ client = "none"
    /\ client' = "live" /\ reconnect' \in BOOLEAN
    /\ queue' = <<Block("start", 0)>>
    /\ UNCHANGED <<stopped, delayed, at, error, requestVars, flags, reportVars, clean>>

\* Plausible fault: the flag is all a disconnect sets.
DisconnectByFlag ==
    /\ client = "live" /\ ~stopped
    /\ stopped' = TRUE
    /\ UNCHANGED <<client, reconnect, queue, delayed, at, error, requestVars, flags, reportVars, clean>>

\* SSE_Platform_Disconnect: the flag at once, the teardown behind what is queued.
Disconnect ==
    /\ client = "live" /\ ~stopped
    /\ stopped' = TRUE
    /\ queue' = Append(queue, Block("teardown", 0))
    /\ UNCHANGED <<client, reconnect, delayed, at, error, requestVars, flags, reportVars, clean>>

-----------------------------------------------------------------------------
(* NSURLSession and libdispatch.                                           *)

\* A delay is over.
DelayEnds ==
    \E b \in delayed :
        /\ delayed' = delayed \ {b}
        /\ queue' = Append(queue, b)
        /\ UNCHANGED <<lifeVars, at, error, requestVars, flags, reportVars, clean>>

External(a, from, to, b) ==
    /\ task[a] \in from
    /\ task' = [task EXCEPT ![a] = to]
    /\ queue' = Append(queue, b)
    /\ UNCHANGED <<lifeVars, delayed, at, error, started, current, sessions, flags, reportVars, clean>>

\* The response's headers are there; data waits for the delegate's disposition.
TaskAnswers(a) == External(a, {"requesting"}, "answered", Block("response", a))

\* Some data of an accepted response; bound: one piece on the queue at a time.
TaskDelivers(a) ==
    /\ Block("data", a) \notin ToSet(queue)
    /\ External(a, {"streaming"}, "streaming", Block("data", a))

\* The stream ends, by itself or not.
TaskEnds(a) == \E e \in BOOLEAN : External(a, {"streaming"}, "complete", Completion(a, e))

\* A task that fails before its data, or was cancelled, completes with an error.
TaskFails(a) ==
    External(a, {"requesting", "answered", "cancelled"}, "complete", Completion(a, TRUE))

\* Plausible fault: neither a session nor a block that waits holds on to the client.
DeallocUnretained ==
    /\ client = "live" /\ stopped
    /\ at = "idle"
    /\ client' = "freed"
    /\ UNCHANGED <<reconnect, stopped, queue, delayed, at, error, requestVars, flags, reportVars, clean>>

\* The last reference is gone: the main thread's, those of blocks that wait, and that
\* of a session that is not invalidated or has not told its delegate of the end.
Dealloc ==
    /\ client = "live" /\ stopped
    /\ queue = <<>> /\ delayed = {} /\ at = "idle"
    /\ sessions = {} /\ \A a \in Attempts : task[a] \in {"none", "complete"}
    /\ client' = "freed"
    /\ UNCHANGED <<reconnect, stopped, queue, delayed, at, error, requestVars, flags, reportVars, clean>>

-----------------------------------------------------------------------------
(* The serial queue.                                                       *)

\* The block at the head of the queue is of the given kind and begins to run.
Runs(kind) ==
    /\ at = "idle"
    /\ queue # <<>> /\ Head(queue).kind = kind
    /\ queue' = Tail(queue)

of == Head(queue).of

NoReport == UNCHANGED reportVars

Again(n) == IF n = "never" THEN "once" ELSE "twice"

\* An error about the attempt, not about a line of its stream.
Tells ==
    /\ last' = "error"
    /\ tells' = Again(tells)
    /\ UNCHANGED <<connected, closed>>

Cancelled(s, a) == IF s[a] \in {"requesting", "answered", "streaming"} THEN [s EXCEPT ![a] = "cancelled"] ELSE s

\* startRequest of a client that is stopped.
StartRefused ==
    /\ Runs("start") /\ stopped
    /\ UNCHANGED <<lifeVars, delayed, at, error, requestVars, flags, clean>> /\ NoReport

\* Plausible fault: receivedResponse is not reset.
StartKeepsReceived ==
    /\ Runs("start") /\ ~stopped
    /\ started < MaxAttempts
    /\ started' = started + 1
    /\ current' = started' /\ sessions' = sessions \cup {started'}
    /\ task' = [task EXCEPT ![started'] = "requesting"]
    /\ flags' = flags \cap {"received"}
    /\ delayed' = delayed \cup {Block("watchdog", started')}
    /\ tells' = "never" /\ clean' = FALSE
    /\ UNCHANGED <<lifeVars, at, error, connected, last, closed>>

\* startRequest: a session and a task of its own, and their watchdog.
Start ==
    /\ Runs("start") /\ ~stopped
    /\ started < MaxAttempts
    /\ started' = started + 1
    /\ current' = started' /\ sessions' = sessions \cup {started'}
    /\ task' = [task EXCEPT ![started'] = "requesting"]
    /\ flags' = {}
    /\ delayed' = delayed \cup {Block("watchdog", started')}
    /\ tells' = "never" /\ clean' = FALSE
    /\ UNCHANGED <<lifeVars, at, error, connected, last, closed>>

\* The watchdog's three questions.
Bites == ~stopped /\ "received" \notin flags /\ current = of

\* The watchdog, up to its look at the flag.
Watchdog ==
    /\ Runs("watchdog")
    /\ at' = IF Bites THEN "reporting" ELSE "idle"
    /\ flags' = IF Bites THEN flags \cup {"timedOut"} ELSE flags
    /\ UNCHANGED <<lifeVars, delayed, error, requestVars, clean>> /\ NoReport

\* Its error, and the end of the task.
TimeoutTold ==
    /\ at = "reporting" /\ at' = "idle"
    /\ Tells
    /\ task' = IF current = 0 THEN task ELSE Cancelled(task, current)
    /\ UNCHANGED <<lifeVars, queue, delayed, error, started, current, sessions, flags, clean>>

\* didReceiveResponse for a client that is stopped, or an attempt that was given up.
ResponseRefused ==
    /\ Runs("response") /\ (stopped \/ "timedOut" \in flags)
    /\ task' = Cancelled(task, of)
    /\ UNCHANGED <<lifeVars, delayed, at, error, started, current, sessions, flags, clean>> /\ NoReport

\* didReceiveResponse has looked.
Response ==
    /\ Runs("response") /\ ~stopped /\ "timedOut" \notin flags
    /\ flags' = flags \cup {"received"}
    /\ at' = "judging"
    /\ UNCHANGED <<lifeVars, delayed, error, requestVars, clean>> /\ NoReport

\* A status that is not 2xx.
StatusFails ==
    /\ at = "judging" /\ at' = "idle"
    /\ flags' = flags \cup {"failed"}
    /\ Tells
    /\ task' = Cancelled(task, current)
    /\ UNCHANGED <<lifeVars, queue, delayed, error, started, current, sessions, clean>>

\* A status that is: OPEN, and the data may come.
StatusOpens ==
    /\ at = "judging" /\ at' = "idle"
    /\ connected' = TRUE /\ last' = "open"
    /\ task' = IF task[current] = "answered" THEN [task EXCEPT ![current] = "streaming"] ELSE task
    /\ UNCHANGED <<lifeVars, queue, delayed, error, started, current, sessions, flags, closed, tells, clean>>

\* didReceiveData does not look at the flag.
Data ==
    /\ Runs("data")
    /\ at' = "feeding"
    /\ UNCHANGED <<lifeVars, delayed, error, requestVars, flags, clean>> /\ NoReport

\* feedData finds an event or an over-long line ...
DataReports ==
    /\ at = "feeding"
    /\ last' \in {"message", "error"}
    /\ UNCHANGED <<lifeVars, queue, delayed, at, error, requestVars, flags, connected, closed, tells, clean>>

\* ... and comes to the end of the data.
DataEnds ==
    /\ at = "feeding" /\ at' = "idle"
    /\ UNCHANGED <<lifeVars, queue, delayed, error, requestVars, flags, clean>> /\ NoReport

\* didCompleteWithError, up to its look at the flag.
Complete ==
    /\ Runs("complete")
    /\ connected' = FALSE
    /\ at' = IF stopped THEN "idle" ELSE "completing"
    /\ error' = Head(queue).error
    /\ clean' = (~Head(queue).error /\ flags \cap {"failed", "timedOut"} = {})
    /\ UNCHANGED <<lifeVars, delayed, requestVars, flags, last, closed, tells>>

\* Plausible fault: a timeout is reported again when the task completes.
UntoldTwice == error /\ "failed" \notin flags

\* An error nobody has been told of.
Untold == error /\ flags \cap {"failed", "timedOut"} = {}

CompletionTold ==
    /\ at = "completing" /\ at' = "settling"
    /\ IF Untold THEN Tells ELSE NoReport
    /\ UNCHANGED <<lifeVars, queue, delayed, error, requestVars, flags, clean>>

\* The rest of didCompleteWithError, and scheduleReconnectOrClose with its look at the
\* flag.
Settle ==
    /\ at = "settling"
    /\ flags' = flags \ {"timedOut"}
    /\ current' = 0 /\ sessions' = sessions \ {current}
    /\ at' = IF ~stopped /\ ~reconnect THEN "closing" ELSE "idle"
    /\ delayed' = IF ~stopped /\ reconnect THEN delayed \cup {Block("start", 0)} ELSE delayed
    /\ UNCHANGED <<lifeVars, queue, error, started, task, clean>> /\ NoReport

\* SSE_EnqueueClosed.
Close ==
    /\ at = "closing" /\ at' = "idle"
    /\ connected' = FALSE /\ last' = "closed" /\ closed' = TRUE
    /\ UNCHANGED <<lifeVars, queue, delayed, error, requestVars, flags, tells, clean>>

\* disconnect's teardown.
Teardown ==
    /\ Runs("teardown")
    /\ task' = IF current = 0 THEN task ELSE Cancelled(task, current)
    /\ current' = 0 /\ sessions' = sessions \ {current}
    /\ UNCHANGED <<lifeVars, delayed, at, error, started, flags, clean>> /\ NoReport

-----------------------------------------------------------------------------
QueueStep ==
    \/ StartRefused \/ Start \/ Watchdog \/ TimeoutTold \/ ResponseRefused \/ Response
    \/ StatusFails \/ StatusOpens \/ Data \/ DataEnds \/ Complete \/ CompletionTold \/ Settle \/ Close
    \/ Teardown

WireStep == \E a \in Attempts : TaskAnswers(a) \/ TaskDelivers(a) \/ TaskEnds(a) \/ TaskFails(a)

Next == Connect \/ Disconnect \/ DelayEnds \/ Dealloc \/ QueueStep \/ DataReports \/ WireStep

\* Blocks run, delays end, and a cancelled task completes; no server answers and nobody
\* disconnects.
Fairness ==
    /\ WF_vars(QueueStep) /\ WF_vars(DelayEnds) /\ WF_vars(Dealloc)
    /\ \A a \in Attempts : WF_vars(task[a] = "cancelled" /\ TaskFails(a))

Spec == Init /\ [][Next]_vars /\ Fairness

-----------------------------------------------------------------------------
(* Properties.                                                             *)

\* When the next request starts, and once a stream that does not reconnect is over,
\* the script was told exactly once of an attempt that failed and not at all of one
\* that came to its end, and the handle does not read as connected.
ToldOnce ==
    (started > 0 /\ (Block("start", 0) \in delayed \cup ToSet(queue) \/ closed)) =>
        ~connected /\ tells = IF clean THEN "never" ELSE "once"

\* The adapter keeps the contract of the platform interface, except that data may be
\* reported whatever the flag says.
Stage ==
    CASE client = "none" -> "idle"
      [] client = "freed" -> "released"
      [] client = "live" /\ closed -> "closed"
      [] client = "live" /\ ~closed -> "running"

Only(b) == IF b THEN {"client"} ELSE {}

Contract == INSTANCE SSEStream WITH
    Connections <- {"client"}, Late <- TRUE, Trailing <- FALSE,
    stage <- [h \in {"client"} |-> Stage],
    reconnect <- Only(reconnect),
    told <- Only(stopped),
    busy <- Only(at \notin {"idle", "settling"}),
    last <- [h \in {"client"} |-> last]

StreamContract == Contract!Spec

\* A client that was told to stop is deallocated: no session, task or block keeps it.
StoppedIsFreed == stopped ~> client = "freed"

\* No request waits for its response for ever, the first one or a later one.
RequestIsBounded ==
    \A a \in Attempts : task[a] = "requesting" ~> task[a] # "requesting"
=============================================================================
