----------------------------- MODULE MCSSEAdapters ----------------------------
(* Model checking of the adapters that keep one client per connection, which   *)
(* shares nothing with another one: Android, iOS, HTML5 and WinHTTP.  A        *)
(* behaviour is that of one platform, while the variables of the others stay   *)
(* as they are: the operators of SSEAndroid keep their names, and those of the *)
(* other platforms are behind theirs.                                          *)
EXTENDS SSEAndroid, Naturals

CONSTANT MaxAttempts    \* of SSEiOS

ASSUME MaxAttemptsAssumption == MaxAttempts \in Nat

VARIABLES
    platform,
    iosClient, iosReconnect, iosStopped, queue, delayed, iosAt, error, started, current,
    sessions, task, flags, iosConnected, iosLast, iosClosed, iosTells, iosClean,
    webClient, supported, webReconnect, webStopped, aborted, webArmed, gotResponse, webTimedOut,
    webIdFits, webAt, webConnected, webLast, webClosed, webTells, webClean,
    main, zombie, platformData, allocated, winReconnect, stop, finished, worker, created, open,
    published, mine, taken, result, winConnected, winLast

iosVars ==
    <<iosClient, iosReconnect, iosStopped, queue, delayed, iosAt, error, started, current,
      sessions, task, flags, iosConnected, iosLast, iosClosed, iosTells, iosClean>>
webVars ==
    <<webClient, supported, webReconnect, webStopped, aborted, webArmed, gotResponse, webTimedOut,
      webIdFits, webAt, webConnected, webLast, webClosed, webTells, webClean>>
winVars ==
    <<main, zombie, platformData, allocated, winReconnect, stop, finished, worker, created, open,
      published, mine, taken, result, winConnected, winLast>>

IOS == INSTANCE SSEiOS WITH
    client <- iosClient, reconnect <- iosReconnect, stopped <- iosStopped, at <- iosAt,
    connected <- iosConnected, last <- iosLast, closed <- iosClosed, tells <- iosTells,
    clean <- iosClean

Html5 == INSTANCE SSEHtml5 WITH
    client <- webClient, reconnect <- webReconnect, stopped <- webStopped, armed <- webArmed,
    timedOut <- webTimedOut, idFits <- webIdFits, at <- webAt, connected <- webConnected,
    last <- webLast, closed <- webClosed, tells <- webTells, clean <- webClean

WinHttp == INSTANCE SSEWinHttp WITH
    reconnect <- winReconnect, connected <- winConnected, last <- winLast

MCInit ==
    /\ platform \in {"Android", "iOS", "HTML5", "Windows"}
    /\ Init /\ IOS!Init /\ Html5!Init /\ WinHttp!Init
    /\ platform # "HTML5" => supported

MCNext ==
    /\ UNCHANGED platform
    /\ \/ platform = "Android" /\ Next /\ UNCHANGED <<iosVars, webVars, winVars>>
       \/ platform = "iOS" /\ IOS!Next /\ UNCHANGED <<vars, webVars, winVars>>
       \/ platform = "HTML5" /\ Html5!Next /\ UNCHANGED <<vars, iosVars, winVars>>
       \/ platform = "Windows" /\ WinHttp!Next /\ UNCHANGED <<vars, iosVars, webVars>>

\* No step with fairness is enabled in an initial state, so that the platforms that do
\* not run owe nothing.
MCSpec ==
    /\ MCInit /\ [][MCNext]_<<platform, vars, iosVars, webVars, winVars>>
    /\ Fairness /\ IOS!Fairness /\ Html5!Fairness

-----------------------------------------------------------------------------
(* iOS.                                                                    *)

\* SSEiOS!ToldOnce: a failed attempt is told exactly once, one that came to its end not
\* at all, and the handle does not read as connected between attempts.
IOSToldOnce == IOS!ToldOnce

\* SSEiOS!StreamContract: the platform contract, with late data.
IOSStreamContract == IOS!StreamContract

\* SSEiOS!StoppedIsFreed: a client that was told to stop is deallocated.
IOSStoppedIsFreed == IOS!StoppedIsFreed

\* SSEiOS!RequestIsBounded: no request waits for its response for ever.
IOSRequestIsBounded == IOS!RequestIsBounded

-----------------------------------------------------------------------------
(* HTML5.                                                                  *)

\* SSEHtml5!ToldOnce: the same of the client of a page.
Html5ToldOnce == Html5!ToldOnce

\* SSEHtml5!StreamContract: the platform contract to the letter.
Html5StreamContract == Html5!StreamContract

\* SSEHtml5!StoppedIsSilent: no report after the call that stops a client.
Html5StoppedIsSilent == Html5!StoppedIsSilent

-----------------------------------------------------------------------------
(* Windows.                                                                *)

\* SSEWinHttp!HandlesOwned: each open handle will be closed by somebody.
WinHandlesOwned == WinHttp!HandlesOwned

\* SSEWinHttp!ShutdownAborts: the shutdown waits for no server.
WinShutdownAborts == WinHttp!ShutdownAborts

\* SSEWinHttp!StreamContract: the platform contract.
WinStreamContract == WinHttp!StreamContract
=============================================================================
