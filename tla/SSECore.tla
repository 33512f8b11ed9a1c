-------------------------------- MODULE SSECore --------------------------------
(***************************************************************************)
(* The core of the extension: the connection registry, the capped event    *)
(* queue, the dispatch of events to Lua callbacks, the Lua API, and the    *)
(* life of the extension.  One adapter per connection pushes events from   *)
(* its own thread, at any moment, until long after it was told to stop.    *)
(*                                                                         *)
(* A cross-thread call is one step here: module SSEGuard is about what     *)
(* happens around the critical section.  The main thread's work is split   *)
(* wherever Lua runs or a critical section begins.                         *)
(***************************************************************************)
EXTENDS Integers, Sequences

CONSTANTS
    MaxHandle,      \* bound: handles sse.connect may give out
    Capacity,       \* SSE_QUEUE_CAPACITY
    MaxEvents,      \* bound: events one adapter pushes
    OwnState        \* TRUE where SSE_Platform_IsConnected asks the platform's
                    \* own connection object (desktop), FALSE where it returns
                    \* m_Connected (Android, iOS, HTML5)

ASSUME CoreAssumption ==
    /\ MaxHandle \in Nat
    /\ Capacity \in Nat \ {0}
    /\ MaxEvents \in Nat
    /\ OwnState \in BOOLEAN

Handles == 1 .. MaxHandle

\* What the model keeps of an event: the connection it names and which of that
\* connection's events it is.
Event == [handle : Handles, n : 1 .. MaxEvents]

AppStates == {"off", "ready", "running", "finalizing", "finalFlush", "finalized", "closed"}

VARIABLES
    app,            \* between AppInitializeSSE and AppFinalizeSSE
    active,         \* g_SSEActive
    nextHandle,     \* g_SSE.m_NextHandle
    registry,       \* the handles in g_SSE.m_Connections
    live,           \* the connections that are allocated and not deleted
    connected,      \* those with m_Connected
    userClosed,     \* those with m_UserClosed
    dispatching,    \* those with m_Dispatching
    destroyLater,   \* those with m_DestroyAfterDispatch
    attached,       \* those with m_PlatformData
    scripts,        \* those whose m_Callback is still valid
    queue,          \* g_SSE.m_Queue.m_Events
    overflow,       \* g_SSE.m_Queue.m_OverflowHandles, which has no duplicates
    batch,          \* m_EventsSwap, from the event to dispatch next
    overflowBatch,  \* m_OverflowSwap, the handles not reported yet
    phase,          \* which loop of SSE_FlushQueue the main thread is in
    cur,            \* the connection whose Lua callback is running, or 0
    starting,       \* the connection SSE_Connect is starting, or 0
    adapter,        \* adapter[h]: the adapter thread of connection h
    \* History, for the properties.
    sent,           \* sent[h]: events the adapter has pushed
    last,           \* last[h]: the last of them the callback was called with
    dropped,        \* connections with a dropped event the script is not told of
    gapTold,        \* connections told of dropped events since the last event
    told,           \* the handles sse.disconnect was called for
    says            \* says[h]: the last connected state the adapter announced

registryVars == <<registry, live, connected, userClosed, dispatching, destroyLater, scripts>>
queueVars == <<queue, overflow>>
batchVars == <<batch, overflowBatch>>
historyVars == <<last, gapTold, told>>
adapterVars == <<adapter, sent, says>>

vars == <<app, active, nextHandle, registryVars, attached, queueVars, batchVars, phase,
          cur, starting, adapterVars, dropped, historyVars>>

-----------------------------------------------------------------------------
Init ==
    /\ app = "off"
    /\ active = FALSE
    /\ nextHandle = 0
    /\ registry = {} /\ live = {}
    /\ connected = {} /\ userClosed = {} /\ dispatching = {} /\ destroyLater = {}
    /\ attached = {} /\ scripts = {}
    /\ queue = <<>> /\ overflow = {}
    /\ batch = <<>> /\ overflowBatch = {}
    /\ phase = "idle"
    /\ cur = 0 /\ starting = 0
    /\ adapter = [h \in Handles |-> "none"]
    /\ sent = [h \in Handles |-> 0]
    /\ last = [h \in Handles |-> 0]
    /\ dropped = {} /\ gapTold = {} /\ told = {}
    /\ says = [h \in Handles |-> FALSE]

-----------------------------------------------------------------------------
(* The registry.                                                           *)

\* Plausible fault: the record is deleted and stays in m_Connections.
DestroyKeepsEntry(h) ==
    /\ registry' = registry
    /\ live' = live \ {h}
    /\ connected' = connected \ {h}
    /\ userClosed' = userClosed \ {h}
    /\ dispatching' = dispatching \ {h}
    /\ destroyLater' = destroyLater \ {h}
    /\ scripts' = scripts \ {h}

\* SSE_DestroyConnection, after the platform's part of it: the record leaves the
\* registry and is deleted, with all its fields.
Destroy(h) ==
    /\ registry' = registry \ {h}
    /\ live' = live \ {h}
    /\ connected' = connected \ {h}
    /\ userClosed' = userClosed \ {h}
    /\ dispatching' = dispatching \ {h}
    /\ destroyLater' = destroyLater \ {h}
    /\ scripts' = scripts \ {h}

\* SSE_Platform_Disconnect tells the adapter to stop and forgets it; the adapter
\* thread itself may run on.
PlatformDisconnect(h) == attached' = attached \ {h}

\* The main thread is running Lua code: a callback of ours, or anything else the
\* engine runs between two updates.
LuaRuns ==
    /\ starting = 0
    /\ cur # 0 \/ (app = "running" /\ phase = "idle")

-----------------------------------------------------------------------------
(* sse.connect                                                             *)

\* A handle is used up even when the callback or the options are refused.
ConnectRefused ==
    /\ LuaRuns
    /\ nextHandle <= MaxHandle
    /\ nextHandle' = nextHandle + 1
    /\ UNCHANGED <<app, active, registryVars, attached, queueVars, batchVars, phase, cur,
                   starting, adapterVars, dropped, historyVars>>

\* The connection is built and registered before the platform starts it.
ConnectRegister ==
    /\ LuaRuns
    /\ nextHandle <= MaxHandle
    /\ nextHandle' = nextHandle + 1
    /\ starting' = nextHandle
    /\ live' = live \cup {nextHandle}
    /\ scripts' = scripts \cup {nextHandle}
    /\ registry' = registry \cup {nextHandle}
    /\ UNCHANGED <<app, active, connected, userClosed, dispatching, destroyLater, attached,
                   queueVars, batchVars, phase, cur, adapterVars, dropped, historyVars>>

\* SSE_Platform_Connect: the adapter runs from here on, while SSE_Connect is
\* still on the main thread's stack.
PlatformConnects ==
    /\ starting # 0
    /\ starting \notin attached
    /\ attached' = attached \cup {starting}
    /\ adapter' = [adapter EXCEPT ![starting] = "idle"]
    /\ UNCHANGED <<app, active, nextHandle, registryVars, queueVars, batchVars, phase, cur,
                   starting, sent, says, dropped, historyVars>>

\* Plausible fault: a refused connection leaves the registry and is not deleted.
PlatformRefusesLeaks ==
    /\ starting # 0
    /\ starting \notin attached
    /\ registry' = registry \ {starting}
    /\ starting' = 0
    /\ UNCHANGED <<app, active, nextHandle, live, connected, userClosed, dispatching,
                   destroyLater, scripts, attached, queueVars, batchVars, phase, cur,
                   adapterVars, dropped, historyVars>>

PlatformRefuses ==
    /\ starting # 0
    /\ starting \notin attached
    /\ Destroy(starting)
    /\ starting' = 0
    /\ UNCHANGED <<app, active, nextHandle, attached, queueVars, batchVars, phase, cur,
                   adapterVars, dropped, historyVars>>

ConnectReturns ==
    /\ starting \in attached
    /\ starting' = 0
    /\ UNCHANGED <<app, active, nextHandle, registryVars, attached, queueVars, batchVars,
                   phase, cur, adapterVars, dropped, historyVars>>

-----------------------------------------------------------------------------
(* sse.disconnect and sse.is_connected                                     *)

\* Plausible fault: the marks that stop the callbacks and end the connection are
\* forgotten.
CloseLaterForgetsAll(h) ==
    /\ connected' = connected \ {h}
    /\ UNCHANGED <<registry, live, userClosed, dispatching, destroyLater, scripts>>

\* A connection whose callback is running is destroyed when the callback returns.
CloseLater(h) ==
    /\ connected' = connected \ {h}
    /\ userClosed' = userClosed \cup {h}
    /\ destroyLater' = destroyLater \cup {h}
    /\ UNCHANGED <<registry, live, dispatching, scripts>>

\* SSE_Disconnect; for an unknown or already closed handle it returns at once.
Disconnect(h) ==
    /\ LuaRuns
    /\ h \in registry /\ h \notin userClosed
    /\ told' = told \cup {h}
    /\ PlatformDisconnect(h)
    /\ IF h \in dispatching THEN CloseLater(h) ELSE Destroy(h)
    /\ UNCHANGED <<app, active, nextHandle, queueVars, batchVars, phase, cur, starting,
                   adapterVars, dropped, last, gapTold>>

\* Plausible fault: the flag the adapter may set again is all that is asked.
PlatformIsConnectedByFlag(h) == h \in connected

\* SSE_Platform_IsConnected.
PlatformIsConnected(h) == IF OwnState THEN h \in attached ELSE h \in connected

\* SSE_IsConnected.
IsConnected(h) == h \in registry /\ h \in connected /\ PlatformIsConnected(h)

\* The script instance that owns the callback is deleted, between two updates,
\* without a call of sse.disconnect.
ScriptDies(h) ==
    /\ app = "running" /\ phase = "idle" /\ starting = 0
    /\ h \in scripts
    /\ scripts' = scripts \ {h}
    /\ UNCHANGED <<app, active, nextHandle, registry, live, connected, userClosed, dispatching,
                   destroyLater, attached, queueVars, batchVars, phase, cur, starting,
                   adapterVars, dropped, historyVars>>

-----------------------------------------------------------------------------
(* The adapter threads                                                     *)

Room == Len(queue) < Capacity

\* Plausible fault: the full queue makes room by dropping its oldest event.
QueuedDroppingOldest(e) == Append(IF Room THEN queue ELSE Tail(queue), e)

Queued(e) == IF Room THEN Append(queue, e) ELSE queue

\* SSECallbackGuard::m_Entered.
Entered == active

\* SSE_QueuePush: refused outside the active period; a full queue drops the event
\* and notes its connection once.
QueuePush(h) ==
    /\ sent[h] < MaxEvents
    /\ sent' = [sent EXCEPT ![h] = sent[h] + 1]
    /\ queue' = IF Entered THEN Queued([handle |-> h, n |-> sent[h] + 1]) ELSE queue
    /\ overflow' = IF Entered /\ ~Room THEN overflow \cup {h} ELSE overflow
    /\ dropped' = IF Entered /\ ~Room THEN dropped \cup {h} ELSE dropped

\* SSE_EnqueueMessage and SSE_EnqueueError.
EnqueueEvent(h) ==
    /\ adapter[h] = "idle"
    /\ QueuePush(h)
    /\ UNCHANGED <<app, active, nextHandle, registryVars, attached, batchVars, phase, cur,
                   starting, adapter, says, historyVars>>

\* SSE_SetConnected.
SetConnected(h, b) ==
    /\ says' = [says EXCEPT ![h] = b]
    /\ connected' = IF Entered /\ h \in registry
                    THEN IF b THEN connected \cup {h} ELSE connected \ {h}
                    ELSE connected

\* SSE_EnqueueOpen (b) and SSE_EnqueueClosed (~b) set the flag, and push the event
\* in a second critical section.
AnnounceConnected(h, b) ==
    /\ adapter[h] = "idle"
    /\ adapter' = [adapter EXCEPT ![h] = "announcing"]
    /\ SetConnected(h, b)
    /\ UNCHANGED <<app, active, nextHandle, registry, live, userClosed, dispatching,
                   destroyLater, scripts, attached, queueVars, batchVars, phase, cur,
                   starting, sent, dropped, historyVars>>

AnnouncePush(h) ==
    /\ adapter[h] = "announcing"
    /\ adapter' = [adapter EXCEPT ![h] = "idle"]
    /\ QueuePush(h)
    /\ UNCHANGED <<app, active, nextHandle, registryVars, attached, batchVars, phase, cur,
                   starting, says, historyVars>>

\* An attempt ended and a reconnect is due: the flag alone is cleared.
AdapterOutage(h) ==
    /\ adapter[h] = "idle"
    /\ SetConnected(h, FALSE)
    /\ UNCHANGED <<app, active, nextHandle, registry, live, userClosed, dispatching,
                   destroyLater, scripts, attached, queueVars, batchVars, phase, cur,
                   starting, adapter, sent, dropped, historyVars>>

-----------------------------------------------------------------------------
(* SSE_FlushQueue and SSE_DispatchEvent on the main thread                 *)

\* Plausible fault: the overflow handles are swapped out and left out of the batch.
FlushSwapLosesOverflow ==
    /\ app \in {"running", "finalFlush"}
    /\ phase = "idle" /\ starting = 0
    /\ phase' = "events"
    /\ batch' = queue /\ queue' = <<>>
    /\ overflowBatch' = {} /\ overflow' = {}
    /\ UNCHANGED <<app, active, nextHandle, registryVars, attached, cur, starting,
                   adapterVars, dropped, historyVars>>

\* The arrays are swapped with the empty scratch arrays under the queue's mutex.
FlushSwap ==
    /\ app \in {"running", "finalFlush"}
    /\ phase = "idle" /\ starting = 0
    /\ phase' = "events"
    /\ batch' = queue /\ queue' = <<>>
    /\ overflowBatch' = overflow /\ overflow' = {}
    /\ UNCHANGED <<app, active, nextHandle, registryVars, attached, cur, starting,
                   adapterVars, dropped, historyVars>>

Deaf(h) == h \notin registry \/ h \in userClosed

\* Nobody to call.
DispatchSkips(h) ==
    /\ Deaf(h)
    /\ UNCHANGED <<registryVars, attached, cur>>

\* Plausible fault: an event of a dead script is thrown away and no more.
DispatchOrphanIgnored(h) ==
    /\ ~Deaf(h) /\ h \notin scripts
    /\ UNCHANGED <<registryVars, attached, cur>>

\* The owning script instance died: the connection goes with its next event.
DispatchOrphan(h) ==
    /\ ~Deaf(h) /\ h \notin scripts
    /\ PlatformDisconnect(h)
    /\ Destroy(h)
    /\ UNCHANGED cur

\* SetupCallback, which takes a callback that was valid a moment ago, and PCall: Lua
\* runs until CallbackReturns.
DispatchCalls(h) ==
    /\ ~Deaf(h) /\ h \in scripts
    /\ cur' = h
    /\ dispatching' = dispatching \cup {h}
    /\ UNCHANGED <<registry, live, connected, userClosed, destroyLater, scripts, attached>>

DispatchEvent(h) == DispatchSkips(h) \/ DispatchOrphan(h) \/ DispatchCalls(h)

\* The first loop of SSE_FlushQueue.
FlushEvent ==
    /\ phase = "events" /\ cur = 0 /\ batch # <<>>
    /\ batch' = Tail(batch)
    /\ LET e == Head(batch)
           called == ~Deaf(e.handle) /\ e.handle \in scripts
       IN  /\ DispatchEvent(e.handle)
           /\ last' = IF called THEN [last EXCEPT ![e.handle] = e.n] ELSE last
           /\ gapTold' = IF called THEN gapTold \ {e.handle} ELSE gapTold
    /\ UNCHANGED <<app, active, nextHandle, queueVars, overflowBatch, phase, starting,
                   adapterVars, dropped, told>>

FlushEventsDone ==
    /\ phase = "events" /\ cur = 0 /\ batch = <<>>
    /\ phase' = "overflow"
    /\ UNCHANGED <<app, active, nextHandle, registryVars, attached, queueVars, batchVars, cur,
                   starting, adapterVars, dropped, historyVars>>

\* What the history says of a drop report: an event dropped since the batch was
\* taken is in overflow and will be reported by the next update.
Reported(h) ==
    /\ dropped' = IF h \in overflow THEN dropped ELSE dropped \ {h}
    /\ gapTold' = gapTold \cup {h}

\* The second loop: SSE_DispatchOverflow sends each connection one error.
FlushOverflow(h) ==
    /\ phase = "overflow" /\ cur = 0
    /\ h \in overflowBatch
    /\ overflowBatch' = overflowBatch \ {h}
    /\ DispatchEvent(h)
    /\ IF ~Deaf(h) /\ h \in scripts THEN Reported(h) ELSE UNCHANGED <<dropped, gapTold>>
    /\ UNCHANGED <<app, active, nextHandle, queueVars, batch, phase, starting, adapterVars,
                   last, told>>

\* The tail of SSE_DispatchEvent.
CallbackReturns ==
    /\ cur # 0 /\ starting = 0
    /\ cur' = 0
    /\ IF cur \in destroyLater
       THEN Destroy(cur)
       ELSE /\ dispatching' = dispatching \ {cur}
            /\ UNCHANGED <<registry, live, connected, userClosed, destroyLater, scripts>>
    /\ UNCHANGED <<app, active, nextHandle, attached, queueVars, batchVars, phase, starting,
                   adapterVars, dropped, historyVars>>

\* SSE_FlushQueue returns; the flush of FinalizeSSE is followed by
\* SSE_Platform_Finalize.
FlushDone ==
    /\ phase = "overflow" /\ cur = 0 /\ overflowBatch = {}
    /\ phase' = "idle"
    /\ app' = IF app = "finalFlush" THEN "finalized" ELSE app
    /\ UNCHANGED <<active, nextHandle, registryVars, attached, queueVars, batchVars, cur,
                   starting, adapterVars, dropped, historyVars>>

-----------------------------------------------------------------------------
(* The life of the extension                                               *)

AppInitialize ==
    /\ app = "off"
    /\ app' = "ready"
    /\ active' = TRUE
    /\ nextHandle' = 1
    /\ UNCHANGED <<registryVars, attached, queueVars, batchVars, phase, cur, starting,
                   adapterVars, dropped, historyVars>>

Initialize ==
    /\ app = "ready"
    /\ app' = "running"
    /\ UNCHANGED <<active, nextHandle, registryVars, attached, queueVars, batchVars, phase,
                   cur, starting, adapterVars, dropped, historyVars>>

\* FinalizeSSE is called between two updates.
Finalize ==
    /\ app = "running" /\ phase = "idle" /\ starting = 0
    /\ app' = "finalizing"
    /\ UNCHANGED <<active, nextHandle, registryVars, attached, queueVars, batchVars, phase,
                   cur, starting, adapterVars, dropped, historyVars>>

FinalizeConnection(h) ==
    /\ app = "finalizing"
    /\ h \in registry
    /\ PlatformDisconnect(h)
    /\ Destroy(h)
    /\ UNCHANGED <<app, active, nextHandle, queueVars, batchVars, phase, cur, starting,
                   adapterVars, dropped, historyVars>>

FinalizeFlush ==
    /\ app = "finalizing"
    /\ registry = {}
    /\ app' = "finalFlush"
    /\ UNCHANGED <<active, nextHandle, registryVars, attached, queueVars, batchVars, phase,
                   cur, starting, adapterVars, dropped, historyVars>>

AppFinalize ==
    /\ app = "finalized"
    /\ app' = "closed"
    /\ active' = FALSE
    /\ queue' = <<>> /\ overflow' = {}
    /\ registry' = {}
    /\ nextHandle' = 0
    /\ UNCHANGED <<live, connected, userClosed, dispatching, destroyLater, attached, scripts,
                   batchVars, phase, cur, starting, adapterVars, dropped, historyVars>>

-----------------------------------------------------------------------------
LuaStep ==
    \/ ConnectRefused
    \/ ConnectRegister
    \/ \E h \in Handles : Disconnect(h) \/ ScriptDies(h)

\* What the main thread does once it is in it: it finishes a connect, a callback,
\* a flush and FinalizeSSE.
MainStep ==
    \/ PlatformConnects \/ PlatformRefuses \/ ConnectReturns
    \/ FlushSwap \/ FlushEvent \/ FlushEventsDone \/ FlushDone
    \/ CallbackReturns
    \/ FinalizeFlush
    \/ \E h \in Handles : FlushOverflow(h) \/ FinalizeConnection(h)

AdapterStep(h) ==
    \/ EnqueueEvent(h)
    \/ AnnouncePush(h)
    \/ AdapterOutage(h)
    \/ \E b \in BOOLEAN : AnnounceConnected(h, b)

LifeStep == AppInitialize \/ Initialize \/ Finalize \/ AppFinalize

Next ==
    \/ LuaStep
    \/ MainStep
    \/ LifeStep
    \/ \E h \in Handles : AdapterStep(h)

\* The engine calls UpdateSSE every frame, and Lua callbacks return.
Spec == Init /\ [][Next]_vars /\ WF_vars(MainStep)

-----------------------------------------------------------------------------
(* Properties                                                              *)

\* The variables stay in their types; the queue never exceeds its capacity.
TypeOK ==
    /\ app \in AppStates
    /\ active \in BOOLEAN
    /\ nextHandle \in 0 .. MaxHandle + 1
    /\ registry \subseteq Handles /\ live \subseteq Handles
    /\ connected \subseteq Handles /\ userClosed \subseteq Handles
    /\ dispatching \subseteq Handles /\ destroyLater \subseteq Handles
    /\ attached \subseteq Handles /\ scripts \subseteq Handles
    /\ queue \in Seq(Event) /\ Len(queue) <= Capacity
    /\ overflow \subseteq Handles
    /\ batch \in Seq(Event) /\ overflowBatch \subseteq Handles
    /\ phase \in {"idle", "events", "overflow"}
    /\ cur \in Handles \cup {0} /\ starting \in Handles \cup {0}
    /\ adapter \in [Handles -> {"none", "idle", "announcing"}]
    /\ sent \in [Handles -> 0 .. MaxEvents]
    /\ last \in [Handles -> 0 .. MaxEvents]
    /\ dropped \subseteq Handles /\ gapTold \subseteq Handles /\ told \subseteq Handles
    /\ says \in [Handles -> BOOLEAN]

\* The pointers the main thread holds across Lua code (the connection of
\* SSE_DispatchEvent, the one of SSE_Connect) and every pointer in m_Connections
\* lead to records that are not deleted, whatever the callback disconnects.
NoUseAfterFree ==
    /\ registry \subseteq live
    /\ cur # 0 => cur \in live
    /\ starting # 0 => starting \in live

\* Every adapter has its record, as SSE_DestroyConnection(c, false) is only called
\* once the platform has been told; every record is in the registry, so that
\* FinalizeSSE finds it; and after FinalizeSSE neither is left.
NothingLeaks ==
    /\ attached \subseteq live
    /\ live \subseteq registry
    /\ app \in {"finalFlush", "finalized", "closed"} => live = {}

\* sse.disconnect(handle) is final: the callback of the connection is not called
\* again, for an event of the batch, of the queue, or a drop report.
NoCallbackAfterDisconnect == [][cur' # cur /\ cur' # 0 => cur' \notin told]_vars

\* README: "Lua callbacks are only invoked from the Defold extension Update
\* function"; the flush in FinalizeSSE invokes none.
CallbacksOnlyFromUpdate == cur # 0 => app = "running"

\* A script sees the events of a connection in the order they were pushed, and
\* events missing between two of them exactly where it was told that events were
\* dropped: never silently, never without reason.
NoSilentGap ==
    [][\A h \in Handles : last'[h] # last[h] =>
          IF h \in gapTold THEN last'[h] > last[h] + 1 ELSE last'[h] = last[h] + 1]_vars

\* README: the queue "emits EVENT_ERROR if overflow drops events": as long as the
\* connection is open, a drop the script has not heard of is noted somewhere.
DropsAreNoted == dropped \cap registry \subseteq overflow \cup overflowBatch

\* ... and the note reaches the script, or the connection goes.
DropsAreReported == \A h \in Handles : h \in dropped ~> h \notin dropped \cap registry

\* An event in the queue reaches the callback, or the connection goes.
QueuedIsDelivered ==
    \A h \in Handles, n \in 1 .. MaxEvents :
        (\E i \in DOMAIN queue : queue[i] = [handle |-> h, n |-> n])
            ~> (last[h] >= n \/ Deaf(h))

\* m_Connected is what the adapter announced last, from its very first call,
\* though SSE_Connect may still be running.
ConnectedIsAnnounced ==
    \A h \in registry \ userClosed : h \in connected <=> says[h]

\* After sse.disconnect(handle), sse.is_connected(handle) is false, wherever the
\* script asks.
NotConnectedAfterDisconnect == LuaRuns => \A h \in told : ~IsConnected(h)

=============================================================================
