------------------------------ MODULE SSEReboot -------------------------------
(***************************************************************************)
(* The core and the platform adapters across reboots of the engine.  The   *)
(* adapters are clients that keep the contract of SSEStream and live on    *)
(* for a while after they were told to stop; the core starts over with the *)
(* same handles.  Of the core there is what a handle leads to: the counter *)
(* of handles, the registry and the queue.                                 *)
(***************************************************************************)
EXTENDS Naturals, Sequences

CONSTANTS
    Clients,    \* the adapters' clients, one for every sse.connect
    Nobody,
    Quiesces,   \* TRUE where SSE_Platform_Finalize waits for the clients
    MaxBoots,   \* bound: starts of the engine
    MaxQueue    \* bound: events that wait in the queue

VARIABLES
    stage, reconnect, told, busy, last,     \* the clients, as in SSEStream
    app,            \* "off" without the mutexes, "on" between Initialize and Finalize
    boots,          \* the starts of the engine so far
    nextHandle,     \* m_NextHandle
    handle,         \* handle[c]: m_Handle, 0 before the client is connected
    connections,    \* m_Connections, as the clients of the records
    queue,          \* m_Events, as the handle and the client that pushed it
    delivered       \* history: the client whose callback got the last event, and who
                    \* had pushed it

clientVars == <<stage, reconnect, told, busy, last>>
registryVars == <<nextHandle, handle, connections>>
vars == <<clientVars, app, boots, registryVars, queue, delivered>>

\* The contract at its weakest.
Adapter == INSTANCE SSEStream WITH Connections <- Clients, Late <- TRUE, Trailing <- TRUE

Init ==
    /\ Adapter!Init
    /\ app = "off" /\ boots = 0 /\ nextHandle = 0
    /\ handle = [c \in Clients |-> 0]
    /\ connections = {} /\ queue = <<>>
    /\ delivered = [to |-> Nobody, from |-> Nobody]

-----------------------------------------------------------------------------
(* The core.                                                               *)

\* AppInitializeSSE and InitializeSSE.
Boot ==
    /\ app = "off" /\ app' = "on"
    /\ boots < MaxBoots /\ boots' = boots + 1
    /\ nextHandle' = 1
    /\ UNCHANGED <<clientVars, handle, connections, queue, delivered>>

\* Plausible fault: the lowest handle that is free.
ConnectReusing(c) ==
    /\ app = "on"
    /\ Adapter!Start(c)
    /\ LET used == {handle[d] : d \in connections}
       IN \E h \in 1 .. nextHandle :
            /\ h \notin used /\ 1 .. h - 1 \subseteq used
            /\ handle' = [handle EXCEPT ![c] = h]
    /\ nextHandle' = nextHandle + 1
    /\ connections' = connections \cup {c}
    /\ UNCHANGED <<app, boots, queue, delivered>>

\* sse.connect.
Connect(c) ==
    /\ app = "on"
    /\ Adapter!Start(c)
    /\ handle' = [handle EXCEPT ![c] = nextHandle]
    /\ nextHandle' = nextHandle + 1
    /\ connections' = connections \cup {c}
    /\ UNCHANGED <<app, boots, queue, delivered>>

\* sse.disconnect, and FinalizeSSE for every connection that is left.
Disconnect(c) ==
    /\ app \in {"on", "finalizing"} /\ c \in connections
    /\ Adapter!Disconnect(c)
    /\ connections' = connections \ {c}
    /\ UNCHANGED <<app, boots, nextHandle, handle, queue, delivered>>

\* SSE_DispatchEvent finds the record by the event's handle, or none.
Dispatch ==
    /\ app = "on" /\ queue # <<>>
    /\ LET event == Head(queue)
           found == {c \in connections : handle[c] = event.handle}
       IN IF found = {} THEN UNCHANGED delivered
          ELSE delivered' \in {[to |-> c, from |-> event.from] : c \in found}
    /\ queue' = Tail(queue)
    /\ UNCHANGED <<clientVars, app, boots, registryVars>>

FinalizeBegins ==
    /\ app = "on" /\ app' = "finalizing"
    /\ UNCHANGED <<clientVars, boots, registryVars, queue, delivered>>

\* The last flush finds no record.
FinalizeFlushes ==
    /\ app = "finalizing" /\ connections = {}
    /\ app' = "waiting" /\ queue' = <<>>
    /\ UNCHANGED <<clientVars, boots, registryVars, delivered>>

\* SSE_Platform_Finalize joins the workers on the desktop platforms, and on HTML5 a
\* client that was told to stop is silent; on iOS it is empty, and on Android it
\* waits for nothing.
PlatformFinalizes ==
    /\ app = "waiting" /\ app' = "finalized"
    /\ Quiesces => \A c \in Clients : stage[c] \in {"idle", "released"}
    /\ UNCHANGED <<clientVars, boots, registryVars, queue, delivered>>

\* AppFinalizeSSE; what was pushed since the flush goes.
AppFinalize ==
    /\ app = "finalized" /\ app' = "off"
    /\ queue' = <<>> /\ nextHandle' = 0
    /\ UNCHANGED <<clientVars, boots, handle, connections, delivered>>

-----------------------------------------------------------------------------
(* The clients.                                                            *)

\* SSE_QueuePush, which refuses while the extension is not active.
Push(c) ==
    /\ Adapter!Report(c) \/ Adapter!Close(c) \/ Adapter!Trail(c)
    /\ Len(queue) < MaxQueue
    /\ queue' = IF app = "off" THEN queue
                ELSE Append(queue, [handle |-> handle[c], from |-> c])
    /\ UNCHANGED <<app, boots, registryVars, delivered>>

\* What a client does by itself.
ClientStep(c) ==
    /\ Adapter!Decide(c) \/ Adapter!Pause(c) \/ Adapter!Release(c)
    /\ UNCHANGED <<app, boots, registryVars, queue, delivered>>

Next ==
    \/ Boot \/ Dispatch
    \/ FinalizeBegins \/ FinalizeFlushes \/ PlatformFinalizes \/ AppFinalize
    \/ \E c \in Clients : Connect(c) \/ Disconnect(c) \/ Push(c) \/ ClientStep(c)

Spec == Init /\ [][Next]_vars

-----------------------------------------------------------------------------
(* Properties.                                                             *)

\* The callback that was given to sse.connect gets the events of that stream, and of no
\* other one that has or had the same handle.
OwnEvents == delivered.to = delivered.from
=============================================================================
