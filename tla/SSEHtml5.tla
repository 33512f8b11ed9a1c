------------------------------- MODULE SSEHtml5 -------------------------------
(***************************************************************************)
(* The HTML5 adapter: an async function per connection on the one thread   *)
(* of the page, which the engine's frames share with it.                   *)
(*                                                                         *)
(* Between two awaits nothing else runs: the places where the function is  *)
(* suspended are those where the engine or a timer may come in between.    *)
(* No code looks at `stopped` after the await of fetch(), nor before the   *)
(* lines of a chunk: that a stopped client stays silent rests on the abort *)
(* of its controller, after which fetch() and read() only reject.          *)
(***************************************************************************)
\* Plausible fault: an answer's status is looked at after another await, that of its text.
SuspendedOverStatus == {"none", "fetching", "judging", "reading", "pausing", "over"}

\* Where the function waits for the network or a timer, or has not begun, or is over.
Suspended == {"none", "fetching", "reading", "pausing", "over"}

\* Where it runs.
Running == {"starting", "lacking", "lackingTold", "judging", "looping", "chunk", "rest", "caught",
            "erring", "ended", "deciding"}

VARIABLES
    client,     \* the entry of Module.SSEExt.clients: none yet, live, or gone with its function
    supported,  \* the page has fetch, ReadableStream and AbortController
    reconnect,  \* options.reconnect
    stopped,
    aborted,    \* client.controller was aborted
    armed,      \* the watchdog's timeout is set
    gotResponse,
    timedOut,   \* firstResponseTimedOut
    idFits,     \* lastEventId may stand in a header of fetch()
    at,         \* where the function is
    connected,  \* the core's m_Connected
    \* History, for the properties.
    last,       \* the last event pushed
    closed,     \* CLOSED was pushed
    tells,      \* how often an error about the current attempt as a whole was pushed
    clean       \* the current attempt's stream came to its end

lifeVars == <<client, supported, reconnect, stopped>>
attemptVars == <<aborted, armed, gotResponse, timedOut>>
reportVars == <<connected, last, closed, tells>>
vars == <<lifeVars, attemptVars, idFits, at, reportVars, clean>>

Init ==
    /\ client = "none" /\ supported \in BOOLEAN /\ reconnect = FALSE /\ stopped = FALSE
    /\ aborted = FALSE /\ armed = FALSE /\ gotResponse = FALSE /\ timedOut = FALSE
    /\ idFits = TRUE
    /\ at = "none"
    /\ connected = FALSE /\ last = "nothing" /\ closed = FALSE /\ tells = "never" /\ clean = FALSE

Goes(from, to) == at = from /\ at' = to

NoReport == UNCHANGED reportVars

Again(n) == IF n = "never" THEN "once" ELSE "twice"

\* An error about the attempt, not about a line of its stream.
Tells ==
    /\ last' = "error"
    /\ tells' = Again(tells)
    /\ UNCHANGED <<connected, closed>>

\* What a step of the function leaves alone unless it says otherwise.
Keeps == UNCHANGED <<lifeVars, attemptVars, idFits, clean>>

-----------------------------------------------------------------------------
(* The engine.                                                             *)

\* SSE_Platform_Connect, up to its call of connect().
Connect ==
    /\ client = "none"
    /\ client' = "live" /\ reconnect' \in BOOLEAN /\ idFits' \in BOOLEAN
    /\ Goes("none", "starting")
    /\ UNCHANGED <<supported, stopped, attemptVars, clean>> /\ NoReport

\* What SSE_Platform_Disconnect does to its client, and SSE_Platform_Finalize to those
\* that are left.
Stops ==
    /\ stopped' = TRUE
    /\ aborted' = TRUE

\* Plausible fault: a request that was answered is left to the stop flag.
DisconnectRequestOnly ==
    /\ client = "live" /\ ~stopped
    /\ at \in Suspended
    /\ stopped' = TRUE
    /\ aborted' = (aborted \/ ~gotResponse)
    /\ UNCHANGED <<client, supported, reconnect, armed, gotResponse, timedOut, idFits, at, clean>> /\ NoReport

Disconnect ==
    /\ client = "live" /\ ~stopped
    /\ at \in Suspended
    /\ Stops
    /\ UNCHANGED <<client, supported, reconnect, armed, gotResponse, timedOut, idFits, at, clean>> /\ NoReport

\* Nothing refers to the client any more.
Collect ==
    /\ client = "live" /\ stopped
    /\ at = "over" /\ ~armed
    /\ client' = "gone"
    /\ UNCHANGED <<supported, reconnect, stopped, attemptVars, idFits, at, clean>> /\ NoReport

-----------------------------------------------------------------------------
(* connect()                                                               *)

\* The client was stopped during the pause.
StartRefused == stopped /\ Goes("starting", "over") /\ Keeps /\ NoReport

\* The runtime cannot stream: an error, and CLOSED whatever the options say.
StartLacks == ~stopped /\ ~supported /\ Goes("starting", "lacking") /\ Keeps /\ NoReport

LackTold == Goes("lacking", "lackingTold") /\ Tells /\ Keeps

LackCloses ==
    /\ Goes("lackingTold", "over")
    /\ connected' = FALSE /\ last' = "closed" /\ closed' = TRUE
    /\ UNCHANGED tells /\ Keeps

\* A controller and a watchdog of its own, and the request; fetch() rejects a header
\* value that has a character beyond Latin-1 before it sends anything.
Start ==
    /\ ~stopped /\ supported
    /\ Goes("starting", IF idFits THEN "fetching" ELSE "caught")
    /\ aborted' = FALSE /\ armed' = TRUE /\ gotResponse' = FALSE /\ timedOut' = FALSE
    /\ tells' = "never" /\ clean' = FALSE
    /\ UNCHANGED <<lifeVars, idFits, connected, last, closed>>

\* The watchdog.
WatchdogFires ==
    /\ armed /\ at \in Suspended
    /\ armed' = FALSE
    /\ LET bites == ~stopped /\ ~gotResponse IN
       /\ timedOut' = (timedOut \/ bites)
       /\ aborted' = (aborted \/ bites)
    /\ UNCHANGED <<lifeVars, gotResponse, idFits, at, clean>> /\ NoReport

\* fetch() resolves.
Response ==
    /\ ~aborted
    /\ Goes("fetching", "judging")
    /\ gotResponse' = TRUE
    /\ UNCHANGED <<lifeVars, aborted, armed, timedOut, idFits, clean>> /\ NoReport

\* A status that is not 2xx, or a response without a body.
ResponseRefused == Goes("judging", "ended") /\ Tells /\ Keeps

ResponseOpens ==
    /\ Goes("judging", "looping")
    /\ connected' = TRUE /\ last' = "open"
    /\ UNCHANGED <<closed, tells>> /\ Keeps

\* The condition of the loop holds, and read() is awaited.
ReadOn == ~stopped /\ Goes("looping", "reading") /\ Keeps /\ NoReport

\* read() resolves with a chunk ...
ChunkArrives == ~aborted /\ Goes("reading", "chunk") /\ Keeps /\ NoReport

\* A line that ends a block leads to an event, whose id becomes lastEventId, or to the
\* id of a block without data; an over-long line or event leads to an error.
Reports ==
    /\ last' \in {"message", "error"}
    /\ idFits' \in IF last' = "message" THEN BOOLEAN ELSE {idFits}
    /\ UNCHANGED <<lifeVars, attemptVars, connected, closed, tells, clean>>

ChunkReports == at = "chunk" /\ Reports /\ UNCHANGED at

\* ... whose lines end.
ChunkEnds ==
    /\ Goes("chunk", "looping")
    /\ idFits' \in BOOLEAN
    /\ UNCHANGED <<lifeVars, attemptVars, clean>> /\ NoReport

\* read() resolves with the end of the stream; what came of a last line is read as one.
StreamEnds ==
    /\ ~aborted
    /\ Goes("reading", "rest")
    /\ clean' = TRUE
    /\ UNCHANGED <<lifeVars, attemptVars, idFits>> /\ NoReport

RestReports == Goes("rest", "ended") /\ Reports

RestIsQuiet == Goes("rest", "ended") /\ Keeps /\ NoReport

\* fetch() or read() rejects: the network failed, or the controller was aborted.
Rejects == at \in {"fetching", "reading"} /\ at' = "caught" /\ Keeps /\ NoReport

\* catch
Caught == ~stopped /\ Goes("caught", "erring") /\ Keeps /\ NoReport

\* catch for a client that is stopped, and the finally.
CaughtStopped ==
    /\ stopped /\ Goes("caught", "over")
    /\ armed' = FALSE
    /\ UNCHANGED <<lifeVars, aborted, gotResponse, timedOut, idFits, clean>> /\ NoReport

Fails == Goes("erring", "ended") /\ Tells /\ Keeps

\* Plausible fault: the end of a stream is only told to those who do not reconnect.
DisconnectedIfClosing ==
    /\ Goes("ended", "deciding")
    /\ connected' = (connected /\ reconnect)
    /\ UNCHANGED <<last, closed, tells>> /\ Keeps

\* scheduleReconnectOrClose: SSE_Html5_OnDisconnected ...
Disconnected ==
    /\ Goes("ended", "deciding")
    /\ connected' = FALSE
    /\ UNCHANGED <<last, closed, tells>> /\ Keeps

\* ... CLOSED ...
DecideClosed ==
    /\ ~stopped /\ ~reconnect
    /\ Goes("deciding", "over")
    /\ connected' = FALSE /\ last' = "closed" /\ closed' = TRUE
    /\ armed' = FALSE
    /\ UNCHANGED <<lifeVars, aborted, gotResponse, timedOut, idFits, tells, clean>>

\* ... or another attempt after a pause.
DecideReconnect ==
    /\ ~stopped /\ reconnect
    /\ Goes("deciding", "pausing")
    /\ armed' = FALSE
    /\ UNCHANGED <<lifeVars, aborted, gotResponse, timedOut, idFits, clean>> /\ NoReport

PauseEnds == Goes("pausing", "starting") /\ Keeps /\ NoReport

-----------------------------------------------------------------------------
\* Steps that wait for nobody: the function runs, timers fire, an abort rejects.
OwnStep ==
    \/ StartRefused \/ StartLacks \/ LackTold \/ LackCloses \/ Start \/ WatchdogFires
    \/ ResponseRefused \/ ResponseOpens \/ ReadOn \/ ChunkEnds \/ RestReports \/ RestIsQuiet
    \/ (aborted /\ Rejects)
    \/ Caught \/ CaughtStopped \/ Fails \/ Disconnected \/ DecideClosed \/ DecideReconnect
    \/ PauseEnds

WireStep == Response \/ ChunkArrives \/ ChunkReports \/ StreamEnds \/ Rejects

Next == Connect \/ Disconnect \/ Collect \/ OwnStep \/ WireStep

\* The page lives: timers fire and an abort is noticed; no server answers and nobody
\* disconnects.
Fairness == WF_vars(OwnStep) /\ WF_vars(Collect) /\ WF_vars(WatchdogFires)

Spec == Init /\ [][Next]_vars /\ Fairness

-----------------------------------------------------------------------------
(* Properties.                                                             *)

\* Before the next attempt starts, and once a stream that does not reconnect is over,
\* the script was told exactly once of an attempt that failed and not at all of one
\* that came to its end, and the handle does not read as connected.
ToldOnce ==
    at = "pausing" \/ (closed /\ at = "over") =>
        ~connected /\ tells = IF clean THEN "never" ELSE "once"

\* The adapter keeps the contract of the platform interface to the letter: a stopped
\* client reports nothing.  Where the page cannot stream nothing reconnects.
Stage ==
    CASE client = "none" -> "idle"
      [] client = "gone" -> "released"
      [] client = "live" /\ closed -> "closed"
      [] client = "live" /\ ~closed -> "running"

Only(b) == IF b THEN {"client"} ELSE {}

Contract == INSTANCE SSEStream WITH
    Connections <- {"client"}, Late <- FALSE, Trailing <- FALSE,
    stage <- [h \in {"client"} |-> Stage],
    reconnect <- Only(reconnect /\ supported),
    told <- Only(stopped),
    busy <- Only(at \in Running \ {"starting", "caught"}),
    last <- [h \in {"client"} |-> last]

StreamContract == Contract!Spec

\* After the call that stops a client it reports nothing: where the contract lets what
\* had been decided still come, nothing has been decided while the engine runs.
StoppedIsSilent == [][stopped => UNCHANGED reportVars]_vars
=============================================================================
