------------------------------ MODULE SSEAndroid ------------------------------
(***************************************************************************)
(* The Android adapter: one Java SseClient per connection, seen by three   *)
(* threads.  The main thread connects and disconnects it, OkHttp calls     *)
(* back on a thread of the call, and a scheduler with one thread runs the  *)
(* first-response watchdog and the reconnect.                              *)
(*                                                                         *)
(* A synchronized block is a step, and so is each report to the core.  The *)
(* volatile flag `stopped` is read in the step before the one it guards.   *)
(* start() is one step: its enqueue behind the block only lets the call    *)
(* begin.                                                                  *)
(***************************************************************************)
\* The OkHttp callback (and the request before it), and the scheduler's thread.
Threads == {"http", "sched"}

Places == {"none",
           \* of the callback: request under way, onFailure, onResponse
           "waiting", "failing", "responding", "judging", "opened", "looping", "reading",
           \* of either: about to report an error, to say disconnected, to reconnect or close
           "erring", "ended", "deciding",
           \* of the scheduler: the watchdog, and the reconnect
           "timing", "reporting", "cancelling", "starting"}

VARIABLES
    client,     \* the SseClient: none yet, live, or collected
    reconnect,  \* options.reconnect
    stopped,    \* the volatile flag
    armed,      \* firstResponseWatchdog is not null
    timedOut,   \* firstResponseTimedOut
    tasks,      \* what the scheduler holds: "watchdog", "start"
    cancelled,  \* the current call was cancelled
    idFits,     \* lastEventId may stand in a header of OkHttp
    at,         \* at[t]: where thread t is
    connected,  \* the core's m_Connected
    \* History, for the properties.
    last,       \* the last event pushed
    closed,     \* CLOSED was pushed
    tells,      \* how often an error about the current attempt as a whole was pushed
    clean       \* the current attempt's stream came to its end without an error

lifeVars == <<client, reconnect, stopped>>
watchVars == <<armed, timedOut>>
reportVars == <<connected, last, closed, tells>>
vars == <<lifeVars, watchVars, tasks, cancelled, idFits, at, reportVars, clean>>

Init ==
    /\ client = "none" /\ reconnect = FALSE /\ stopped = FALSE
    /\ armed = FALSE /\ timedOut = FALSE
    /\ tasks = {} /\ cancelled = FALSE /\ idFits = TRUE
    /\ at = [t \in Threads |-> "none"]
    /\ connected = FALSE /\ last = "nothing" /\ closed = FALSE /\ tells = "never" /\ clean = FALSE

Goes(t, from, to) == at[t] = from /\ at' = [at EXCEPT ![t] = to]

\* Where a thread goes that looks at `stopped`.
Unless(stop, to) == IF stop THEN "none" ELSE to

NoReport == UNCHANGED reportVars

Again(n) == IF n = "never" THEN "once" ELSE "twice"

\* An error about the attempt, not about a line of its stream.
Tells ==
    /\ last' = "error"
    /\ tells' = Again(tells)
    /\ UNCHANGED <<connected, closed>>

-----------------------------------------------------------------------------
(* The main thread.                                                        *)

\* The synchronized block of start() and its enqueue: a new call and its watchdog.
BeginAttempt ==
    /\ armed' = TRUE /\ timedOut' = FALSE
    /\ tasks' = tasks \cup {"watchdog"}
    /\ cancelled' = FALSE
    /\ tells' = "never" /\ clean' = FALSE

\* SSE_Platform_Connect.  A constructor or start() that throws leaves nothing behind.
Connect ==
    /\ client = "none"
    /\ client' = "live" /\ reconnect' \in BOOLEAN
    /\ Goes("http", "none", "waiting")
    /\ BeginAttempt
    /\ UNCHANGED <<stopped, idFits, connected, last, closed>>

\* Plausible fault: a call that has been answered is left to the stop flag.
DisconnectLeavesStream ==
    /\ client = "live" /\ ~stopped
    /\ stopped' = TRUE
    /\ armed' = FALSE
    /\ cancelled' = (cancelled \/ at["http"] = "waiting")
    /\ tasks' = {}
    /\ UNCHANGED <<client, reconnect, timedOut, idFits, at, clean>> /\ NoReport

\* SSE_Platform_Disconnect: disconnect() under the lock, then the global reference goes.
Disconnect ==
    /\ client = "live" /\ ~stopped
    /\ stopped' = TRUE
    /\ armed' = FALSE
    /\ cancelled' = TRUE
    /\ tasks' = {}
    /\ UNCHANGED <<client, reconnect, timedOut, idFits, at, clean>> /\ NoReport

\* Nothing refers to the client any more.
Collect ==
    /\ client = "live" /\ stopped
    /\ tasks = {} /\ \A t \in Threads : at[t] = "none"
    /\ client' = "collected"
    /\ UNCHANGED <<reconnect, stopped, watchVars, tasks, cancelled, idFits, at, clean>> /\ NoReport

-----------------------------------------------------------------------------
(* The callback of OkHttp.                                                 *)

\* What the callback does not change by itself.
HttpKeeps == UNCHANGED <<lifeVars, watchVars, tasks, cancelled, idFits, clean>>

\* OkHttp gives up on the call, or finds it cancelled.
CallFails == Goes("http", "waiting", "failing") /\ HttpKeeps /\ NoReport

\* The response's headers are there; OkHttp looks once more whether the call was
\* cancelled.
CallResponds == ~cancelled /\ Goes("http", "waiting", "responding") /\ HttpKeeps /\ NoReport

\* clearFirstResponseState; a watchdog that already runs is not stopped by it.
ClearFirstResponse ==
    /\ armed' = FALSE /\ timedOut' = FALSE
    /\ tasks' = IF armed THEN tasks \ {"watchdog"} ELSE tasks

\* Plausible fault: a failure the watchdog has reported is reported again.
OnFailureTwice ==
    /\ Goes("http", "failing", Unless(stopped, "erring"))
    /\ ClearFirstResponse
    /\ UNCHANGED <<lifeVars, cancelled, idFits, clean>> /\ NoReport

\* onFailure: what the watchdog has reported is not reported again.
OnFailure ==
    /\ Goes("http", "failing", Unless(stopped, IF timedOut THEN "ended" ELSE "erring"))
    /\ ClearFirstResponse
    /\ UNCHANGED <<lifeVars, cancelled, idFits, clean>> /\ NoReport

\* onResponse up to the answer's status.
OnResponse ==
    /\ Goes("http", "responding", IF timedOut THEN Unless(stopped, "ended") ELSE "judging")
    /\ ClearFirstResponse
    /\ UNCHANGED <<lifeVars, cancelled, idFits, clean>> /\ NoReport

\* A status that is not 2xx.
ResponseRefused == Goes("http", "judging", "ended") /\ Tells /\ HttpKeeps

\* nativeOnOpen.
ResponseOpens ==
    /\ Goes("http", "judging", "opened")
    /\ connected' = TRUE /\ last' = "open"
    /\ UNCHANGED <<closed, tells>> /\ HttpKeeps

BodyMissing == Goes("http", "opened", "ended") /\ Tells /\ HttpKeeps

BodyPresent == Goes("http", "opened", "looping") /\ HttpKeeps /\ NoReport

\* Plausible fault: the loop does not look at `stopped`.
ReadOnAlways == Goes("http", "looping", "reading") /\ HttpKeeps /\ NoReport

\* The condition of readStream's loop, and of skipUntilNewline's.
ReadOn == Goes("http", "looping", Unless(stopped, "reading")) /\ HttpKeeps /\ NoReport

\* A line, or as much of one as fits: an event, an error about the line, or neither;
\* the event's id, or that of a block without data, becomes lastEventId.
ReadLine ==
    /\ Goes("http", "reading", "looping")
    /\ last' \in {last, "message", "error"}
    /\ idFits' \in IF last' = "error" THEN {idFits} ELSE BOOLEAN
    /\ UNCHANGED <<lifeVars, watchVars, tasks, cancelled, connected, closed, tells, clean>>

\* The stream comes to its end.
ReadEnds ==
    /\ Goes("http", "reading", Unless(stopped, "ended"))
    /\ clean' = TRUE
    /\ UNCHANGED <<lifeVars, watchVars, tasks, cancelled, idFits>> /\ NoReport

\* An IOException, that of a cancelled call included, or any other Throwable.
ReadFails == Goes("http", "reading", Unless(stopped, "erring")) /\ HttpKeeps /\ NoReport

-----------------------------------------------------------------------------
(* The way out of an attempt, on the thread of the callback or, when       *)
(* start() throws, on that of the scheduler.                               *)

\* nativeOnError.
Fails(t) == Goes(t, "erring", "ended") /\ Tells /\ HttpKeeps

\* nativeOnDisconnected.
Disconnected(t) ==
    /\ Goes(t, "ended", "deciding")
    /\ connected' = FALSE
    /\ UNCHANGED <<last, closed, tells>> /\ HttpKeeps

DecideStopped(t) == stopped /\ Goes(t, "deciding", "none") /\ HttpKeeps /\ NoReport

\* nativeOnClosed, under the lock.
DecideClosed(t) ==
    /\ ~stopped /\ ~reconnect
    /\ Goes(t, "deciding", "none")
    /\ connected' = FALSE /\ last' = "closed" /\ closed' = TRUE
    /\ UNCHANGED tells /\ HttpKeeps

\* The reconnect goes to the scheduler, which no disconnect has shut down.
DecideReconnect(t) ==
    /\ ~stopped /\ reconnect
    /\ Goes(t, "deciding", "none")
    /\ tasks' = tasks \cup {"start"}
    /\ UNCHANGED <<lifeVars, watchVars, cancelled, idFits, clean>> /\ NoReport

-----------------------------------------------------------------------------
(* The scheduler's thread.                                                 *)

\* The watchdog's delay is over.
WatchdogRuns ==
    /\ "watchdog" \in tasks
    /\ Goes("sched", "none", "timing")
    /\ tasks' = tasks \ {"watchdog"}
    /\ UNCHANGED <<lifeVars, watchVars, cancelled, idFits, clean>> /\ NoReport

\* Plausible fault: the watchdog does not ask whether it is still armed.
OnTimeoutUnarmed ==
    /\ Goes("sched", "timing", Unless(stopped, "reporting"))
    /\ armed' = FALSE /\ timedOut' = ~stopped
    /\ UNCHANGED <<lifeVars, tasks, cancelled, idFits, clean>> /\ NoReport

\* onFirstResponseTimeout under the lock.  Its call is the current one: the thread
\* that would start another is this one.
OnTimeout ==
    /\ Goes("sched", "timing", Unless(stopped \/ ~armed, "reporting"))
    /\ armed' = FALSE
    /\ timedOut' = (timedOut \/ (~stopped /\ armed))
    /\ UNCHANGED <<lifeVars, tasks, cancelled, idFits, clean>> /\ NoReport

\* Outside the lock: nativeOnError ...
TimeoutTold == Goes("sched", "reporting", "cancelling") /\ Tells /\ HttpKeeps

\* ... and watched.cancel().
TimeoutCancels ==
    /\ Goes("sched", "cancelling", "none")
    /\ cancelled' = TRUE
    /\ UNCHANGED <<lifeVars, watchVars, tasks, idFits, clean>> /\ NoReport

\* Plausible fault: a call that was cancelled passes for a client that was.
StartRunsUncancelled ==
    /\ "start" \in tasks
    /\ Goes("sched", "none", Unless(cancelled, "starting"))
    /\ tasks' = tasks \ {"start"}
    /\ UNCHANGED <<lifeVars, watchVars, cancelled, idFits, clean>> /\ NoReport

\* The reconnect's delay is over.
StartRuns ==
    /\ "start" \in tasks
    /\ Goes("sched", "none", "starting")
    /\ tasks' = tasks \ {"start"}
    /\ UNCHANGED <<lifeVars, watchVars, cancelled, idFits, clean>> /\ NoReport

\* start() finds the client stopped.
StartRefused == stopped /\ Goes("sched", "starting", "none") /\ HttpKeeps /\ NoReport

\* Plausible fault: the watchdog guards the first attempt only.
StartUnwatched ==
    /\ ~stopped /\ idFits
    /\ at["sched"] = "starting"
    /\ at' = [at EXCEPT !["sched"] = "none", !["http"] = "waiting"]
    /\ timedOut' = FALSE
    /\ cancelled' = FALSE
    /\ tells' = "never" /\ clean' = FALSE
    /\ UNCHANGED <<lifeVars, armed, tasks, idFits, connected, last, closed>>

\* start() begins another attempt.
Start ==
    /\ ~stopped /\ idFits
    /\ at["sched"] = "starting"
    /\ at' = [at EXCEPT !["sched"] = "none", !["http"] = "waiting"]
    /\ BeginAttempt
    /\ UNCHANGED <<lifeVars, idFits, connected, last, closed>>

\* OkHttp refuses the Last-Event-ID header, and start() throws.
StartThrows ==
    /\ ~stopped /\ ~idFits
    /\ Goes("sched", "starting", "erring")
    /\ tells' = "never" /\ clean' = FALSE
    /\ UNCHANGED <<lifeVars, watchVars, tasks, cancelled, idFits, connected, last, closed>>

-----------------------------------------------------------------------------
WayOut(t) == \/ Fails(t) \/ Disconnected(t)
             \/ DecideStopped(t) \/ DecideClosed(t) \/ DecideReconnect(t)

\* Steps of a thread that waits for nobody; OkHttp ends a call that was cancelled.
HttpStep == \/ cancelled /\ (CallFails \/ ReadFails)
            \/ OnFailure \/ OnResponse
            \/ ResponseRefused \/ ResponseOpens \/ BodyMissing \/ BodyPresent \/ ReadOn
            \/ WayOut("http")

SchedStep == \/ WatchdogRuns \/ OnTimeout \/ TimeoutTold \/ TimeoutCancels
             \/ StartRuns \/ StartRefused \/ Start \/ StartThrows
             \/ WayOut("sched")

\* What is up to the server and the network.
WireStep == CallFails \/ CallResponds \/ ReadLine \/ ReadEnds \/ ReadFails

Next == Connect \/ Disconnect \/ Collect \/ HttpStep \/ SchedStep \/ WireStep

\* Threads run, timers fire, garbage is collected; no server answers and nobody
\* disconnects.
Fairness == WF_vars(HttpStep) /\ WF_vars(SchedStep) /\ WF_vars(Collect)

Spec == Init /\ [][Next]_vars /\ Fairness

-----------------------------------------------------------------------------
(* Properties.                                                             *)

TypeOK ==
    /\ client \in {"none", "live", "collected"}
    /\ reconnect \in BOOLEAN /\ stopped \in BOOLEAN
    /\ armed \in BOOLEAN /\ timedOut \in BOOLEAN
    /\ tasks \subseteq {"watchdog", "start"}
    /\ cancelled \in BOOLEAN /\ idFits \in BOOLEAN
    /\ at \in [Threads -> Places]
    /\ connected \in BOOLEAN /\ closed \in BOOLEAN /\ clean \in BOOLEAN
    /\ last \in {"nothing", "open", "message", "error", "closed"}
    /\ tells \in {"never", "once", "twice"}

\* The places a client's one attempt may be at: with OkHttp, or on its way to the
\* next one in the scheduler.
WithHttp == at["http"] # "none"
WithScheduler == at["sched"] \in {"starting", "erring", "ended", "deciding"}
Pending == "start" \in tasks

\* Never are two attempts of a client under way, or one under way and another one
\* scheduled: only the one way out of an attempt leads to the next.
OneAttempt ==
    /\ ~(WithHttp /\ WithScheduler)
    /\ ~(WithHttp /\ Pending)
    /\ ~(WithScheduler /\ Pending)

\* A response that is read as a stream is never one the watchdog gives up on: "don't
\* surface an open (or messages) for it".
TimeoutOrStream ==
    at["http"] \in {"judging", "opened", "looping", "reading"} =>
        at["sched"] \notin {"reporting", "cancelling"} /\ tells = "never"

\* Before the next attempt starts, and once a stream that does not reconnect is over,
\* the script was told exactly once of an attempt that failed and not at all of one
\* that came to its end, and the handle does not read as connected.
ToldOnce ==
    at["sched"] = "starting" \/ (closed /\ at["sched"] = "none") =>
        ~connected /\ tells = IF clean THEN "never" ELSE "once"

\* The adapter keeps the contract of the platform interface.
HttpBusy == {"responding", "judging", "opened", "reading", "erring", "ended", "deciding"}
SchedBusy == {"reporting", "erring", "ended", "deciding"}

Stage ==
    CASE client = "none" -> "idle"
      [] client = "collected" -> "released"
      [] client = "live" /\ closed -> "closed"
      [] client = "live" /\ ~closed -> "running"

Only(b) == IF b THEN {"client"} ELSE {}

Contract == INSTANCE SSEStream WITH
    Connections <- {"client"}, Late <- FALSE, Trailing <- TRUE,
    stage <- [h \in {"client"} |-> Stage],
    reconnect <- Only(reconnect),
    told <- Only(stopped),
    busy <- Only(at["http"] \in HttpBusy \/ at["sched"] \in SchedBusy),
    last <- [h \in {"client"} |-> last]

StreamContract == Contract!Spec

\* A client that was told to stop leaves nothing behind: no call that is read for
\* ever, no task of the scheduler.
StoppedIsFreed == stopped ~> client = "collected"

\* No request waits for its response for ever, the first one or a later one.
RequestIsBounded == at["http"] = "waiting" ~> at["http"] # "waiting"

\* Where reconnecting is wanted an attempt that is over leads to another request, unless
\* the client is stopped or has an id that does not fit into a header.
Over == reconnect /\ at["http"] = "ended"
Retries == Over ~> (at["http"] = "waiting" \/ stopped \/ ~idFits)

\* "Adapters reconnect after close or error unless the user called disconnect. The
\* current Last-Event-ID is sent on reconnect."
RetriesWithAnyId == Over ~> (at["http"] = "waiting" \/ stopped)
=============================================================================
