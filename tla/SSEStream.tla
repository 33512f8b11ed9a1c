------------------------------- MODULE SSEStream -------------------------------
(***************************************************************************)
(* What a platform adapter promises the core, whatever the platform: the   *)
(* operations of sse_private.h seen from the connection they are about.    *)
(* A worker decides to report something only while it has not been told to *)
(* stop; what it had decided to report before may still come afterwards,   *)
(* and nothing else.  CLOSED ends a stream that does not reconnect.        *)
(* Two adapters promise less, and say so by the constants.                 *)
(***************************************************************************)
CONSTANTS
    Connections,
    Late,       \* TRUE where the stop flag is not looked at before every report
    Trailing    \* TRUE where a second thread may report an error after CLOSED

VARIABLES
    stage,      \* stage[h]: the life of the adapter's connection
    reconnect,  \* the connections that were started with options.reconnect
    told,       \* those SSE_Platform_Disconnect was called for
    busy,       \* those whose worker is on its way into the core's queue
    last        \* last[h]: the last event pushed for h

vars == <<stage, reconnect, told, busy, last>>

Stages == {"idle", "running", "closed", "released"}
Kinds == {"nothing", "open", "message", "error", "closed"}

Init ==
    /\ stage = [h \in Connections |-> "idle"]
    /\ reconnect = {}
    /\ told = {}
    /\ busy = {}
    /\ last = [h \in Connections |-> "nothing"]

\* SSE_Platform_Connect.
Start(h) ==
    /\ stage[h] = "idle"
    /\ stage' = [stage EXCEPT ![h] = "running"]
    /\ reconnect' \in {reconnect, reconnect \cup {h}}
    /\ UNCHANGED <<told, busy, last>>

\* The worker looks at the stop flag and goes on to report something.
Decide(h) ==
    /\ stage[h] = "running"
    /\ h \notin busy
    /\ Late \/ h \notin told
    /\ busy' = busy \cup {h}
    /\ UNCHANGED <<stage, reconnect, told, last>>

\* SSE_EnqueueOpen, SSE_EnqueueMessage or SSE_EnqueueError; more may follow.
Report(h) ==
    /\ h \in busy
    /\ stage[h] = "running"
    /\ \E e \in {"open", "message", "error"} : last' = [last EXCEPT ![h] = e]
    /\ busy' \in {busy, busy \ {h}}
    /\ UNCHANGED <<stage, reconnect, told>>

\* SSE_EnqueueClosed.
Close(h) ==
    /\ h \in busy \ reconnect
    /\ stage[h] = "running"
    /\ stage' = [stage EXCEPT ![h] = "closed"]
    /\ last' = [last EXCEPT ![h] = "closed"]
    /\ busy' \in {busy \ {h}} \cup (IF Trailing THEN {busy} ELSE {})
    /\ UNCHANGED <<reconnect, told>>

\* The error a second thread was about to report when CLOSED was pushed.
Trail(h) ==
    /\ Trailing
    /\ h \in busy
    /\ stage[h] = "closed"
    /\ last' = [last EXCEPT ![h] = "error"]
    /\ busy' = busy \ {h}
    /\ UNCHANGED <<stage, reconnect, told>>

\* Nothing more to report for now.
Pause(h) ==
    /\ h \in busy
    /\ busy' = busy \ {h}
    /\ UNCHANGED <<stage, reconnect, told, last>>

\* SSE_Platform_Disconnect.
Disconnect(h) ==
    /\ stage[h] \in {"running", "closed"}
    /\ h \notin told
    /\ told' = told \cup {h}
    /\ UNCHANGED <<stage, reconnect, busy, last>>

\* The adapter gives the connection's memory back.
Release(h) ==
    /\ h \in told \ busy
    /\ stage[h] \in {"running", "closed"}
    /\ stage' = [stage EXCEPT ![h] = "released"]
    /\ UNCHANGED <<reconnect, told, busy, last>>

Next ==
    \E h \in Connections :
        \/ Start(h) \/ Decide(h) \/ Report(h) \/ Close(h) \/ Trail(h) \/ Pause(h)
        \/ Disconnect(h) \/ Release(h)

Spec == Init /\ [][Next]_vars

-----------------------------------------------------------------------------
TypeOK ==
    /\ stage \in [Connections -> Stages]
    /\ reconnect \subseteq Connections
    /\ told \subseteq Connections
    /\ busy \subseteq Connections
    /\ last \in [Connections -> Kinds]

\* Memory goes back only after a disconnect, when the worker has nothing left to
\* report.
ReleasedIsQuiet ==
    \A h \in Connections : stage[h] = "released" => h \in told /\ h \notin busy

\* CLOSED is said once, never about a connection that reconnects, and nothing
\* follows it unless Trailing.
ClosedIsFinal ==
    \A h \in Connections :
        stage[h] = "closed" => /\ h \notin reconnect
                               /\ ~Trailing => last[h] = "closed" /\ h \notin busy
=============================================================================
