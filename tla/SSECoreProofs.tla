----------------------------- MODULE SSECoreProofs -----------------------------
(***************************************************************************)
(* The core is safe for any number of connections, any queue capacity and  *)
(* any number of events.                                                   *)
(***************************************************************************)
EXTENDS SSECore, SequenceTheorems, TLAPS

\* Which parts of the main thread's work happen in which part of the life of
\* the extension.
Lifecycle ==
    /\ active <=> app \notin {"off", "closed"}
    /\ IF active THEN nextHandle >= 1 ELSE nextHandle = 0
    /\ phase # "idle" => app \in {"running", "finalFlush"}
    /\ cur # 0 => app = "running" /\ phase # "idle"
    /\ starting # 0 => app = "running" /\ (cur # 0 \/ phase = "idle")
    /\ live # {} => app \in {"running", "finalizing"}
    /\ phase = "idle" => overflowBatch = {}

\* The registry holds exactly the records that exist, and the two pointers the
\* main thread keeps across Lua code are among them, and are different.
Pointers ==
    /\ registry = live
    /\ \A h \in Handles : h \in dispatching <=> h = cur
    /\ cur # 0 => cur \in live
    /\ starting # 0 => starting \in live /\ starting # cur

\* A closed connection is the one whose callback is running, and has no adapter.
Closing ==
    /\ userClosed = destroyLater
    /\ userClosed \subseteq {cur}
    /\ userClosed \cap attached = {}
    /\ attached \subseteq live
    /\ told \cap live \subseteq userClosed

\* Handles are used in order: nothing is known of those not given out yet.
FreshHandles ==
    app # "closed" =>
        \A h \in Handles :
            h \in live \cup told \cup dropped \/ adapter[h] # "none" => h < nextHandle

\* The flag and the last announcement agree.
Announcements ==
    /\ connected \subseteq live
    /\ \A h \in Handles : adapter[h] = "none" => ~says[h]
    /\ ConnectedIsAnnounced

Safe == Lifecycle /\ Pointers /\ Closing /\ FreshHandles /\ DropsAreNoted /\ Announcements

IInv == TypeOK /\ Safe

LEMMA NoEvents == <<>> \in Seq(Event) /\ Len(<<>>) = 0 /\ 0 <= Capacity
  BY CoreAssumption, EmptySeq

LEMMA InitEstablishes == Init => IInv
<1>. SUFFICES ASSUME Init PROVE IInv
  OBVIOUS
<1>. USE CoreAssumption DEF Init
<1>1. TypeOK
  <2>1. queue \in Seq(Event) /\ batch \in Seq(Event) /\ Len(queue) <= Capacity
    BY NoEvents
  <2>2. 0 \in 0 .. MaxHandle + 1 /\ 0 \in 0 .. MaxEvents
    OBVIOUS
  <2>. QED
    BY <2>1, <2>2 DEF TypeOK, AppStates
<1>2. Safe
  BY DEF Safe, Lifecycle, Pointers, Closing, FreshHandles, DropsAreNoted, Announcements,
         ConnectedIsAnnounced
<1>. QED
  BY <1>1, <1>2 DEF IInv

-----------------------------------------------------------------------------
(* Type correctness                                                        *)

\* SSE_QueuePush keeps the queue a sequence of events within its capacity.
LEMMA PushType ==
  ASSUME TypeOK, NEW h \in Handles, QueuePush(h)
  PROVE  /\ queue' \in Seq(Event) /\ Len(queue') <= Capacity
         /\ overflow' \subseteq Handles /\ dropped' \subseteq Handles
         /\ sent' \in [Handles -> 0 .. MaxEvents]
<1>. USE CoreAssumption DEF TypeOK
<1>1. sent[h] + 1 \in 1 .. MaxEvents
  BY DEF QueuePush
<1>2. [handle |-> h, n |-> sent[h] + 1] \in Event
  BY <1>1 DEF Event
<1>3. queue' \in Seq(Event) /\ Len(queue') <= Capacity
  <2>1. CASE Room /\ Entered
    <3>1. queue' = Append(queue, [handle |-> h, n |-> sent[h] + 1])
      BY <2>1 DEF QueuePush, Queued
    <3>2. queue' \in Seq(Event) /\ Len(queue') = Len(queue) + 1
      BY <3>1, <1>2, AppendProperties
    <3>3. Len(queue) \in Nat /\ Len(queue) < Capacity
      BY <2>1, LenProperties DEF Room
    <3>. QED
      BY <3>2, <3>3
  <2>2. CASE ~(Room /\ Entered)
    BY <2>2 DEF QueuePush, Queued
  <2>. QED
    BY <2>1, <2>2
<1>4. overflow' \subseteq Handles /\ dropped' \subseteq Handles
  BY DEF QueuePush
<1>5. sent' \in [Handles -> 0 .. MaxEvents]
  BY <1>1 DEF QueuePush
<1>. QED
  BY <1>3, <1>4, <1>5

\* SSE_DispatchEvent keeps the types of what it changes.
LEMMA DispatchType ==
  ASSUME TypeOK, NEW h \in Handles, DispatchEvent(h)
  PROVE  /\ registry' \subseteq Handles /\ live' \subseteq Handles
         /\ connected' \subseteq Handles /\ userClosed' \subseteq Handles
         /\ dispatching' \subseteq Handles /\ destroyLater' \subseteq Handles
         /\ attached' \subseteq Handles /\ scripts' \subseteq Handles
         /\ cur' \in Handles \cup {0}
  BY DEF TypeOK, DispatchEvent, DispatchSkips, DispatchOrphan, DispatchCalls, Destroy,
         PlatformDisconnect, registryVars

LEMMA TypeStep == TypeOK /\ Lifecycle /\ [Next]_vars => TypeOK'
<1>. SUFFICES ASSUME TypeOK, Lifecycle, [Next]_vars PROVE TypeOK'
  OBVIOUS
<1>. USE CoreAssumption DEF registryVars, queueVars, batchVars, historyVars, adapterVars
<1>1. CASE ConnectRefused \/ ConnectRegister
  <2>1. nextHandle \in Handles /\ nextHandle + 1 \in 0 .. MaxHandle + 1
    BY <1>1 DEF ConnectRefused, ConnectRegister, LuaRuns, Lifecycle, TypeOK, Handles
  <2>. QED
    BY <1>1, <2>1 DEF ConnectRefused, ConnectRegister, TypeOK
<1>2. ASSUME NEW h \in Handles, Disconnect(h) \/ ScriptDies(h) PROVE TypeOK'
  BY <1>2 DEF Disconnect, CloseLater, Destroy, PlatformDisconnect, ScriptDies, TypeOK
<1>3. CASE PlatformConnects \/ PlatformRefuses \/ ConnectReturns
  BY <1>3 DEF PlatformConnects, PlatformRefuses, ConnectReturns, Destroy, TypeOK
<1>4. CASE FlushSwap
  BY <1>4, NoEvents DEF FlushSwap, TypeOK
<1>5. CASE FlushEvent
  <2>1. Head(batch) \in Event /\ Tail(batch) \in Seq(Event)
    BY <1>5, HeadTailProperties DEF FlushEvent, TypeOK
  <2>2. Head(batch).handle \in Handles /\ Head(batch).n \in 0 .. MaxEvents
    BY <2>1 DEF Event
  <2>3. DispatchEvent(Head(batch).handle)
    BY <1>5 DEF FlushEvent
  <2>4. last' \in [Handles -> 0 .. MaxEvents] /\ gapTold' \subseteq Handles
    BY <1>5, <2>2 DEF FlushEvent, TypeOK
  <2>. QED
    BY <1>5, <2>1, <2>2, <2>3, <2>4, DispatchType DEF FlushEvent, TypeOK
<1>6. CASE FlushEventsDone \/ FlushDone \/ CallbackReturns
  BY <1>6 DEF FlushEventsDone, FlushDone, CallbackReturns, Destroy, TypeOK, AppStates
<1>7. ASSUME NEW h \in Handles, FlushOverflow(h) PROVE TypeOK'
  <2>1. DispatchEvent(h)
    BY <1>7 DEF FlushOverflow
  <2>2. dropped' \subseteq Handles /\ gapTold' \subseteq Handles
    BY <1>7 DEF FlushOverflow, Reported, TypeOK
  <2>. QED
    BY <1>7, <2>1, <2>2, DispatchType DEF FlushOverflow, TypeOK
<1>8. ASSUME NEW h \in Handles, FinalizeConnection(h) PROVE TypeOK'
  BY <1>8 DEF FinalizeConnection, Destroy, PlatformDisconnect, TypeOK
<1>9. CASE FinalizeFlush \/ LifeStep
  <2>. 0 \in 0 .. MaxHandle + 1 /\ 1 \in 0 .. MaxHandle + 1
    OBVIOUS
  <2>1. CASE AppFinalize
    BY <2>1, NoEvents DEF AppFinalize, TypeOK, AppStates
  <2>2. CASE FinalizeFlush \/ AppInitialize \/ Initialize \/ Finalize
    BY <2>2 DEF FinalizeFlush, AppInitialize, Initialize, Finalize, TypeOK, AppStates
  <2>. QED
    BY <1>9, <2>1, <2>2 DEF LifeStep
<1>10. ASSUME NEW h \in Handles, EnqueueEvent(h) PROVE TypeOK'
  <2>1. QueuePush(h)
    BY <1>10 DEF EnqueueEvent
  <2>. QED
    BY <1>10, <2>1, PushType DEF EnqueueEvent, TypeOK
<1>11. ASSUME NEW h \in Handles, AnnouncePush(h) PROVE TypeOK'
  <2>1. QueuePush(h)
    BY <1>11 DEF AnnouncePush
  <2>. QED
    BY <1>11, <2>1, PushType DEF AnnouncePush, TypeOK
<1>12. ASSUME NEW h \in Handles, NEW b \in BOOLEAN, AnnounceConnected(h, b) PROVE TypeOK'
  BY <1>12 DEF AnnounceConnected, SetConnected, TypeOK
<1>13. ASSUME NEW h \in Handles, AdapterOutage(h) PROVE TypeOK'
  BY <1>13 DEF AdapterOutage, SetConnected, TypeOK
<1>14. CASE UNCHANGED vars
  BY <1>14 DEF vars, TypeOK
<1>. QED
  BY <1>1, <1>2, <1>3, <1>4, <1>5, <1>6, <1>7, <1>8, <1>9, <1>10, <1>11, <1>12, <1>13, <1>14
     DEF Next, LuaStep, MainStep, AdapterStep, LifeStep

-----------------------------------------------------------------------------
(* Safety                                                                  *)

\* What SSE_DestroyConnection does to the parts of Safe, for a connection that is
\* not starting and whose callback is not running.
LEMMA DestroySafe ==
  ASSUME IInv, NEW h \in Handles, h # starting, h # cur, Destroy(h), PlatformDisconnect(h),
         h \in live,
         UNCHANGED <<app, active, nextHandle, phase, cur, starting, overflow, overflowBatch,
                     adapter, says>>,
         told' \in {told, told \cup {h}}, dropped' = dropped
  PROVE  Safe'
<1>. USE DEF IInv, TypeOK, Safe, Destroy, PlatformDisconnect
<1>1. Lifecycle'
  BY DEF Lifecycle
<1>2. Pointers'
  BY DEF Pointers
<1>3. Closing'
  BY DEF Closing, Pointers
<1>4. FreshHandles'
  BY DEF FreshHandles
<1>5. DropsAreNoted'
  BY DEF DropsAreNoted
<1>6. Announcements'
  BY DEF Announcements, ConnectedIsAnnounced, Pointers
<1>. QED
  BY <1>1, <1>2, <1>3, <1>4, <1>5, <1>6

LEMMA LuaSafe == IInv /\ LuaStep => Safe'
<1>. SUFFICES ASSUME IInv, LuaStep PROVE Safe'
  OBVIOUS
<1>. USE DEF registryVars, queueVars, batchVars, historyVars, adapterVars
<1>1. CASE ConnectRefused
  BY <1>1 DEF ConnectRefused, LuaRuns, IInv, TypeOK, Safe, Lifecycle, Pointers, Closing,
              FreshHandles, DropsAreNoted, Announcements, ConnectedIsAnnounced
<1>2. CASE ConnectRegister
  <2>. USE <1>2 DEF ConnectRegister, IInv, TypeOK, Safe
  <2>1. app = "running" /\ nextHandle \in Handles
    BY DEF LuaRuns, Lifecycle, Handles
  <2>2. /\ nextHandle \notin live \cup told \cup dropped
        /\ adapter[nextHandle] = "none"
    BY <2>1 DEF FreshHandles
  <2>3. Lifecycle'
    BY <2>1 DEF LuaRuns, Lifecycle
  <2>4. Pointers'
    BY <2>1, <2>2 DEF Pointers, LuaRuns, Handles
  <2>5. Closing'
    BY <2>2 DEF Closing
  <2>6. FreshHandles'
    BY <2>1 DEF FreshHandles, Handles
  <2>7. DropsAreNoted'
    BY <2>2 DEF DropsAreNoted
  <2>8. Announcements'
    BY <2>1, <2>2 DEF Announcements, ConnectedIsAnnounced
  <2>. QED
    BY <2>3, <2>4, <2>5, <2>6, <2>7, <2>8
<1>3. ASSUME NEW h \in Handles, Disconnect(h) PROVE Safe'
  <2>1. CASE h \in dispatching
    <3>. USE <1>3, <2>1 DEF Disconnect, CloseLater, PlatformDisconnect, IInv, TypeOK, Safe
    <3>1. h = cur /\ h \in live
      BY DEF Pointers
    <3>2. Lifecycle' /\ Pointers'
      BY DEF Lifecycle, Pointers
    <3>3. Closing'
      BY <3>1 DEF Closing
    <3>4. FreshHandles' /\ DropsAreNoted'
      BY <3>1 DEF FreshHandles, DropsAreNoted
    <3>5. Announcements'
      BY DEF Announcements, ConnectedIsAnnounced
    <3>. QED
      BY <3>2, <3>3, <3>4, <3>5
  <2>2. CASE h \notin dispatching
    <3>1. h # cur /\ h # starting /\ h \in live
      BY <1>3, <2>2 DEF Disconnect, LuaRuns, IInv, Safe, Pointers, TypeOK, Handles, CoreAssumption
    <3>. QED
      BY <1>3, <2>2, <3>1, DestroySafe DEF Disconnect
  <2>. QED
    BY <2>1, <2>2
<1>4. ASSUME NEW h \in Handles, ScriptDies(h) PROVE Safe'
  BY <1>4 DEF ScriptDies, IInv, Safe, Lifecycle, Pointers, Closing, FreshHandles,
              DropsAreNoted, Announcements, ConnectedIsAnnounced
<1>. QED
  BY <1>1, <1>2, <1>3, <1>4 DEF LuaStep

\* A dispatch from the flush: it leaves drops and handles alone.
LEMMA DispatchSafe ==
  ASSUME IInv, NEW h \in Handles, DispatchEvent(h), cur = 0, phase # "idle",
         UNCHANGED <<app, active, nextHandle, phase, starting, adapter, says, told>>
  PROVE  Lifecycle' /\ Pointers' /\ Closing' /\ Announcements'
<1>. USE DEF IInv, TypeOK, Safe, registryVars
<1>0. starting = 0
  BY DEF Lifecycle
<1>1. CASE DispatchSkips(h)
  BY <1>1 DEF DispatchSkips, Lifecycle, Pointers, Closing, Announcements, ConnectedIsAnnounced
<1>2. CASE DispatchOrphan(h)
  <2>. USE <1>0, <1>2 DEF DispatchOrphan, Deaf, Destroy, PlatformDisconnect
  <2>1. h # cur
    BY CoreAssumption DEF Handles
  <2>2. Lifecycle' /\ Pointers'
    BY <2>1 DEF Lifecycle, Pointers
  <2>3. Closing'
    BY DEF Closing, Pointers
  <2>4. Announcements'
    BY DEF Announcements, ConnectedIsAnnounced, Pointers
  <2>. QED
    BY <2>2, <2>3, <2>4
<1>3. CASE DispatchCalls(h)
  <2>. USE <1>0, <1>3 DEF DispatchCalls, Deaf
  <2>1. h \in live
    BY DEF Pointers
  <2>2. app = "running"
    BY <2>1 DEF Lifecycle
  <2>3. Lifecycle' /\ Pointers'
    BY <2>1, <2>2 DEF Lifecycle, Pointers
  <2>4. Closing'
    <3>1. userClosed = {}
      BY CoreAssumption DEF Closing, Handles
    <3>. QED
      BY <3>1 DEF Closing
  <2>5. Announcements'
    BY DEF Announcements, ConnectedIsAnnounced
  <2>. QED
    BY <2>3, <2>4, <2>5
<1>. QED
  BY <1>1, <1>2, <1>3 DEF DispatchEvent

LEMMA MainSafe == IInv /\ MainStep => Safe'
<1>. SUFFICES ASSUME IInv, MainStep PROVE Safe'
  OBVIOUS
<1>. USE DEF registryVars, queueVars, batchVars, historyVars, adapterVars
<1>1. CASE PlatformConnects
  <2>. USE <1>1 DEF PlatformConnects, IInv, TypeOK, Safe
  <2>1. starting \in Handles /\ starting \in live /\ starting # cur
    BY DEF Pointers
  <2>2. Lifecycle' /\ Pointers' /\ DropsAreNoted'
    BY DEF Lifecycle, Pointers, DropsAreNoted
  <2>3. Closing'
    BY <2>1 DEF Closing
  <2>4. FreshHandles'
    BY <2>1 DEF FreshHandles
  <2>5. Announcements'
    BY <2>1 DEF Announcements, ConnectedIsAnnounced
  <2>. QED
    BY <2>2, <2>3, <2>4, <2>5
<1>2. CASE PlatformRefuses
  <2>. USE <1>2 DEF PlatformRefuses, Destroy, IInv, TypeOK, Safe
  <2>1. starting \in Handles /\ starting \in live /\ starting # cur
    BY DEF Pointers
  <2>2. Lifecycle' /\ Pointers' /\ DropsAreNoted'
    BY <2>1 DEF Lifecycle, Pointers, DropsAreNoted
  <2>3. Closing'
    BY <2>1 DEF Closing, Pointers
  <2>4. FreshHandles'
    BY DEF FreshHandles
  <2>5. Announcements'
    BY DEF Announcements, ConnectedIsAnnounced, Pointers
  <2>. QED
    BY <2>2, <2>3, <2>4, <2>5
<1>3. CASE ConnectReturns
  BY <1>3 DEF ConnectReturns, IInv, TypeOK, Safe, Lifecycle, Pointers, Closing, FreshHandles,
              DropsAreNoted, Announcements, ConnectedIsAnnounced
<1>4. CASE FlushSwap
  <2>. USE <1>4 DEF FlushSwap, IInv, Safe
  <2>1. Lifecycle' /\ Pointers' /\ Closing'
    BY DEF Lifecycle, Pointers, Closing
  <2>2. DropsAreNoted'
    BY DEF DropsAreNoted, Lifecycle
  <2>3. FreshHandles' /\ Announcements'
    BY DEF FreshHandles, Announcements, ConnectedIsAnnounced
  <2>. QED
    BY <2>1, <2>2, <2>3
<1>5. CASE FlushEvent
  <2>. USE <1>5 DEF FlushEvent
  <2>1. Head(batch).handle \in Handles
    <3>1. Head(batch) \in Event
      BY HeadTailProperties DEF IInv, TypeOK
    <3>. QED
      BY <3>1 DEF Event
  <2>2. DispatchEvent(Head(batch).handle)
    OBVIOUS
  <2>3. Lifecycle' /\ Pointers' /\ Closing' /\ Announcements'
    BY <2>1, <2>2, DispatchSafe
  <2>4. registry' \subseteq registry /\ live' \subseteq live
    BY <2>2 DEF DispatchEvent, DispatchSkips, DispatchOrphan, DispatchCalls, Destroy
  <2>5. FreshHandles' /\ DropsAreNoted'
    BY <2>4 DEF IInv, Safe, FreshHandles, DropsAreNoted
  <2>. QED
    BY <2>3, <2>5 DEF Safe
<1>6. ASSUME NEW h \in Handles, FlushOverflow(h) PROVE Safe'
  <2>. USE <1>6 DEF FlushOverflow
  <2>1. Lifecycle' /\ Pointers' /\ Closing' /\ Announcements'
    BY DispatchSafe
  <2>2. /\ registry' \subseteq registry /\ live' \subseteq live
        /\ Deaf(h) \/ h \notin scripts => h \notin registry' \/ h \in userClosed
    BY DEF DispatchEvent, DispatchSkips, DispatchOrphan, DispatchCalls, Destroy, Deaf
  <2>3. userClosed = {}
    BY CoreAssumption DEF IInv, Safe, TypeOK, Closing, Handles
  <2>4. FreshHandles'
    BY <2>2 DEF IInv, Safe, FreshHandles, Reported
  <2>5. DropsAreNoted'
    BY <2>2, <2>3 DEF IInv, Safe, DropsAreNoted, Reported
  <2>. QED
    BY <2>1, <2>4, <2>5 DEF Safe
<1>7. CASE CallbackReturns
  <2>. USE <1>7 DEF CallbackReturns, IInv, TypeOK, Safe
  <2>1. cur \in Handles /\ cur \in live /\ 0 \notin Handles
    BY CoreAssumption DEF Pointers, Handles
  <2>2. CASE cur \in destroyLater
    <3>. USE <2>1, <2>2 DEF Destroy
    <3>1. Lifecycle' /\ Pointers' /\ DropsAreNoted' /\ FreshHandles'
      BY DEF Lifecycle, Pointers, DropsAreNoted, FreshHandles
    <3>2. Closing'
      BY DEF Closing, Pointers
    <3>3. Announcements'
      BY DEF Announcements, ConnectedIsAnnounced, Pointers
    <3>. QED
      BY <3>1, <3>2, <3>3
  <2>3. CASE cur \notin destroyLater
    <3>. USE <2>1, <2>3
    <3>1. Lifecycle' /\ Pointers' /\ DropsAreNoted' /\ FreshHandles'
      BY DEF Lifecycle, Pointers, DropsAreNoted, FreshHandles
    <3>2. userClosed = {}
      BY DEF Closing
    <3>3. Closing'
      BY <3>2 DEF Closing
    <3>4. Announcements'
      BY DEF Announcements, ConnectedIsAnnounced
    <3>. QED
      BY <3>1, <3>3, <3>4
  <2>. QED
    BY <2>2, <2>3
<1>8. CASE FlushEventsDone \/ FlushDone
  BY <1>8 DEF FlushEventsDone, FlushDone, IInv, Safe, TypeOK, Lifecycle, Pointers, Closing,
              FreshHandles, DropsAreNoted, Announcements, ConnectedIsAnnounced
<1>9. ASSUME NEW h \in Handles, FinalizeConnection(h) PROVE Safe'
  <2>1. h # starting /\ h # cur /\ h \in live
    BY <1>9, CoreAssumption DEF FinalizeConnection, IInv, Safe, Lifecycle, Pointers, Handles
  <2>. QED
    BY <1>9, <2>1, DestroySafe DEF FinalizeConnection
<1>10. CASE FinalizeFlush
  BY <1>10 DEF FinalizeFlush, IInv, Safe, Lifecycle, Pointers, Closing, FreshHandles,
               DropsAreNoted, Announcements, ConnectedIsAnnounced
<1>. QED
  BY <1>1, <1>2, <1>3, <1>4, <1>5, <1>6, <1>7, <1>8, <1>9, <1>10 DEF MainStep

LEMMA AdapterSafe ==
  ASSUME IInv, NEW h \in Handles, AdapterStep(h)
  PROVE  Safe'
<1>. USE DEF registryVars, queueVars, batchVars, historyVars, adapterVars
<1>1. CASE EnqueueEvent(h) \/ AnnouncePush(h)
  <2>. USE <1>1 DEF EnqueueEvent, AnnouncePush, QueuePush, IInv, TypeOK, Safe
  <2>1. Lifecycle' /\ Pointers' /\ Closing'
    BY DEF Lifecycle, Pointers, Closing
  <2>2. FreshHandles' /\ DropsAreNoted'
    BY DEF FreshHandles, DropsAreNoted
  <2>3. Announcements'
    BY DEF Announcements, ConnectedIsAnnounced
  <2>. QED
    BY <2>1, <2>2, <2>3
<1>2. ASSUME NEW b \in BOOLEAN, AnnounceConnected(h, b) \/ (AdapterOutage(h) /\ b = FALSE)
      PROVE Safe'
  <2>. USE <1>2 DEF AnnounceConnected, AdapterOutage, SetConnected, IInv, TypeOK, Safe
  <2>1. Lifecycle' /\ Pointers' /\ Closing'
    BY DEF Lifecycle, Pointers, Closing
  <2>2. FreshHandles' /\ DropsAreNoted'
    BY DEF FreshHandles, DropsAreNoted
  <2>3. h \in registry => Entered
    BY DEF Entered, Lifecycle, Pointers
  <2>4. connected' \subseteq live'
    BY DEF Announcements, Pointers
  <2>5. ConnectedIsAnnounced'
    BY <2>3 DEF Announcements, ConnectedIsAnnounced
  <2>6. \A g \in Handles : adapter'[g] = "none" => ~says'[g]
    BY DEF Announcements
  <2>. QED
    BY <2>1, <2>2, <2>4, <2>5, <2>6 DEF Announcements
<1>. QED
  BY <1>1, <1>2 DEF AdapterStep

LEMMA LifeSafe == IInv /\ LifeStep => Safe'
<1>. SUFFICES ASSUME IInv, LifeStep PROVE Safe'
  OBVIOUS
<1>. USE DEF registryVars, queueVars, batchVars, historyVars, adapterVars, IInv, Safe, TypeOK
<1>1. CASE AppInitialize
  <2>. USE <1>1 DEF AppInitialize
  <2>1. live = {}
    BY DEF Lifecycle
  <2>2. FreshHandles'
    BY CoreAssumption DEF FreshHandles, Lifecycle, Handles
  <2>. QED
    BY <2>1, <2>2 DEF Lifecycle, Pointers, Closing, DropsAreNoted, Announcements,
                      ConnectedIsAnnounced
<1>2. CASE Initialize \/ Finalize
  BY <1>2 DEF Initialize, Finalize, Lifecycle, Pointers, Closing, FreshHandles, DropsAreNoted,
              Announcements, ConnectedIsAnnounced
<1>3. CASE AppFinalize
  BY <1>3 DEF AppFinalize, Lifecycle, Pointers, Closing, FreshHandles, DropsAreNoted,
              Announcements, ConnectedIsAnnounced
<1>. QED
  BY <1>1, <1>2, <1>3 DEF LifeStep

LEMMA StepPreserves == IInv /\ [Next]_vars => IInv'
<1>. SUFFICES ASSUME IInv, [Next]_vars PROVE IInv'
  OBVIOUS
<1>1. TypeOK'
  BY TypeStep DEF IInv, Safe
<1>2. CASE Next
  BY <1>1, <1>2, LuaSafe, MainSafe, AdapterSafe, LifeSafe DEF Next, IInv
<1>3. CASE UNCHANGED vars
  BY <1>1, <1>3 DEF vars, registryVars, queueVars, batchVars, historyVars, adapterVars, IInv,
                    Safe, Lifecycle, Pointers, Closing, FreshHandles, DropsAreNoted,
                    Announcements, ConnectedIsAnnounced
<1>. QED
  BY <1>2, <1>3

LEMMA InvariantHolds == Spec => []IInv
  BY InitEstablishes, StepPreserves, PTL DEF Spec

-----------------------------------------------------------------------------
(* The theorems                                                            *)

\* The variables keep their types; the queue never holds more than Capacity
\* events.
THEOREM TypeCorrect == Spec => []TypeOK
<1>1. IInv => TypeOK
  BY DEF IInv
<1>. QED
  BY InvariantHolds, <1>1, PTL

\* No pointer of the main thread or of the registry leads to a deleted record,
\* whatever the callbacks connect and disconnect.
THEOREM PointersLive == Spec => []NoUseAfterFree
<1>1. IInv => NoUseAfterFree
  BY DEF IInv, Safe, Pointers, NoUseAfterFree
<1>. QED
  BY InvariantHolds, <1>1, PTL

\* No record is deleted before its adapter has been detached or escapes the registry,
\* and none outlives FinalizeSSE.
THEOREM NoLeak == Spec => []NothingLeaks
<1>1. IInv => NothingLeaks
  BY DEF IInv, Safe, Lifecycle, Pointers, Closing, NothingLeaks
<1>. QED
  BY InvariantHolds, <1>1, PTL

\* Lua callbacks run only inside UpdateSSE.
THEOREM OnlyFromUpdate == Spec => []CallbacksOnlyFromUpdate
<1>1. IInv => CallbacksOnlyFromUpdate
  BY DEF IInv, Safe, Lifecycle, CallbacksOnlyFromUpdate
<1>. QED
  BY InvariantHolds, <1>1, PTL

\* A dropped event of an open connection is never forgotten.
THEOREM DropsNoted == Spec => []DropsAreNoted
<1>1. IInv => DropsAreNoted
  BY DEF IInv, Safe
<1>. QED
  BY InvariantHolds, <1>1, PTL

\* m_Connected follows the adapter from its first call on.
THEOREM FlagFollows == Spec => []ConnectedIsAnnounced
<1>1. IInv => ConnectedIsAnnounced
  BY DEF IInv, Safe, Announcements
<1>. QED
  BY InvariantHolds, <1>1, PTL

\* Where the platform answers for its own connection object, a handle given to
\* sse.disconnect is never reported connected again.
THEOREM DisconnectSticks == Spec => [](OwnState => NotConnectedAfterDisconnect)
<1>1. IInv => (OwnState => NotConnectedAfterDisconnect)
  BY DEF IInv, Safe, Closing, Pointers, NotConnectedAfterDisconnect, IsConnected,
         PlatformIsConnected
<1>. QED
  BY InvariantHolds, <1>1, PTL

\* After sse.disconnect(handle) the connection's callback is never called again.
THEOREM DisconnectIsFinal == Spec => NoCallbackAfterDisconnect
<1>1. IInv /\ [Next]_vars => [cur' # cur /\ cur' # 0 => cur' \notin told]_vars
  <2>. SUFFICES ASSUME IInv, Next, cur' # cur, cur' # 0
                PROVE  cur' \notin told
    BY DEF vars
  <2>. USE DEF registryVars
  <2>1. PICK h \in Handles : DispatchCalls(h) /\ cur' = h
    <3>1. CASE FlushEvent
      <4>1. Head(batch).handle \in Handles
        <5>1. Head(batch) \in Event
          BY <3>1, HeadTailProperties DEF FlushEvent, IInv, TypeOK
        <5>. QED
          BY <5>1 DEF Event
      <4>. QED
        BY <3>1, <4>1 DEF FlushEvent, DispatchEvent, DispatchSkips, DispatchOrphan,
                          DispatchCalls
    <3>2. CASE \E h \in Handles : FlushOverflow(h)
      BY <3>2 DEF FlushOverflow, DispatchEvent, DispatchSkips, DispatchOrphan, DispatchCalls
    <3>. QED
      BY <3>1, <3>2
      DEF Next, LuaStep, MainStep, AdapterStep, LifeStep, ConnectRefused, ConnectRegister,
          Disconnect, ScriptDies, PlatformConnects, PlatformRefuses, ConnectReturns,
          FlushSwap, FlushEventsDone, FlushDone, CallbackReturns, FinalizeFlush,
          FinalizeConnection, EnqueueEvent, AnnouncePush, AdapterOutage, AnnounceConnected,
          AppInitialize, Initialize, Finalize, AppFinalize
  <2>. QED
    BY <2>1 DEF DispatchCalls, Deaf, IInv, Safe, Closing, Pointers
<1>. QED
  BY InvariantHolds, <1>1, PTL DEF Spec, NoCallbackAfterDisconnect

-----------------------------------------------------------------------------
(* The order of the events                                                 *)

\* The numbers of h's events in a sequence of events.
Numbers(s, h) == {s[i].n : i \in {j \in DOMAIN s : s[j].handle = h}}

Ordered(s) ==
    \A i, j \in DOMAIN s : i < j /\ s[i].handle = s[j].handle => s[i].n < s[j].n

Unbroken(S) == \A x, z \in S : x .. z \subseteq S

\* What will be in the queue when the next push finds room, as none does before a drop
\* has been swapped out.
Ahead(h, next, over, s) == next \cup IF h \in over THEN {} ELSE {s + 1}

\* The callback of h got event l, those numbered now are in the batch and those numbered
\* next in the queue; s were pushed.  Each of the two is without a hole.  Before the
\* first one there is a hole where gaps says that the script was told of it; between
\* batch and queue, where it will be told between them, as h is in lost.
InSequence(h, now, next, over, lost, gaps, l, s) ==
    LET ahead == Ahead(h, next, over, s) IN
    /\ Unbroken(now) /\ Unbroken(ahead)
    /\ l <= s /\ now \cup next \subseteq l + 1 .. s
    /\ \A x \in now, y \in next : x < y
    /\ h \in over => l < s /\ s \notin now \cup next
    /\ now # {} => (h \in gaps <=> l + 1 \notin now)
    /\ ahead # {} =>
        /\ now = {} => (h \in gaps \cup lost <=> l + 1 \notin ahead)
        /\ \A x \in now : x + 1 \notin now => (h \in lost <=> x + 1 \notin ahead)

\* Nothing was heard of an adapter that was never started.
Unused(h) ==
    /\ sent[h] = 0 /\ last[h] = 0
    /\ Numbers(batch, h) = {} /\ Numbers(queue, h) = {}
    /\ h \notin overflow \cup overflowBatch \cup gapTold

Sequenced(h) ==
    InSequence(h, Numbers(batch, h), Numbers(queue, h), overflow, overflowBatch, gapTold,
               last[h], sent[h])

Delivery ==
    /\ phase # "events" => batch = <<>>
    /\ overflow # {} => ~Room
    /\ Ordered(queue) /\ Ordered(batch)
    /\ \A h \in Handles :
          /\ adapter[h] = "none" => Unused(h)
          /\ Numbers(queue, h) \cup Numbers(batch, h) \subseteq 1 .. sent[h]
          /\ ~Deaf(h) => Sequenced(h)

LEMMA NumbersOfNothing == Ordered(<<>>) /\ \A h : Numbers(<<>>, h) = {}
  BY DEF Ordered, Numbers

LEMMA EventsOfSequence ==
  ASSUME NEW s \in Seq(Event), NEW i \in DOMAIN s
  PROVE  s[i].handle \in Handles /\ s[i].n \in Nat
<1>1. s[i] \in Event
  BY ElementOfSeq, LenProperties
<1>. QED
  BY <1>1, CoreAssumption DEF Event

LEMMA NumbersType ==
  ASSUME NEW s \in Seq(Event), NEW h
  PROVE  Numbers(s, h) \subseteq Nat
<1>. QED
  BY EventsOfSequence DEF Numbers

\* An event of h behind all of h's events.
LEMMA NumbersOfAppend ==
  ASSUME NEW s \in Seq(Event), Ordered(s), NEW e \in Event,
         \A x \in Numbers(s, e.handle) : x < e.n
  PROVE  /\ Ordered(Append(s, e))
         /\ \A h : Numbers(Append(s, e), h)
                     = Numbers(s, h) \cup (IF h = e.handle THEN {e.n} ELSE {})
<1>. DEFINE t == Append(s, e)
<1>1. /\ Len(s) \in Nat /\ DOMAIN s = 1 .. Len(s) /\ DOMAIN t = 1 .. Len(s) + 1
      /\ \A i \in 1 .. Len(s) : t[i] = s[i]
      /\ t[Len(s) + 1] = e
  <2>1. t \in Seq(Event) /\ Len(t) = Len(s) + 1
    BY AppendProperties
  <2>. QED
    BY <2>1, AppendProperties, LenProperties
<1>2. \A i \in DOMAIN s : s[i].handle = e.handle => s[i].n < e.n
  BY DEF Numbers
<1>3. Ordered(t)
  <2>. SUFFICES ASSUME NEW i \in DOMAIN t, NEW j \in DOMAIN t, i < j, t[i].handle = t[j].handle
                PROVE  t[i].n < t[j].n
    BY DEF Ordered
  <2>1. i \in DOMAIN s /\ t[i] = s[i]
    BY <1>1
  <2>2. CASE j \in DOMAIN s
    BY <1>1, <2>1, <2>2 DEF Ordered
  <2>3. CASE j \notin DOMAIN s
    BY <1>1, <1>2, <2>1, <2>3
  <2>. QED
    BY <2>2, <2>3
<1>4. ASSUME NEW h
      PROVE  Numbers(t, h) = Numbers(s, h) \cup (IF h = e.handle THEN {e.n} ELSE {})
  <2>. HIDE DEF t
  <2>1. \A x \in Numbers(t, h) : x \in Numbers(s, h) \/ (h = e.handle /\ x = e.n)
    BY <1>1 DEF Numbers
  <2>2. Numbers(s, h) \subseteq Numbers(t, h)
    BY <1>1 DEF Numbers
  <2>3. h = e.handle => e.n \in Numbers(t, h)
    <3>1. Len(s) + 1 \in DOMAIN t
      BY <1>1
    <3>. QED
      BY <1>1, <3>1 DEF Numbers
  <2>. QED
    BY <2>1, <2>2, <2>3
<1>. QED
  BY <1>3, <1>4

\* The first event is the lowest of its handle.
LEMMA NumbersOfTail ==
  ASSUME NEW s \in Seq(Event), Ordered(s), s # <<>>
  PROVE  /\ Ordered(Tail(s))
         /\ Head(s).n \in Numbers(s, Head(s).handle)
         /\ \A x \in Numbers(s, Head(s).handle) : Head(s).n <= x
         /\ \A h : Numbers(Tail(s), h)
                     = Numbers(s, h) \ (IF h = Head(s).handle THEN {Head(s).n} ELSE {})
<1>. DEFINE e == Head(s)
            t == Tail(s)
<1>1. /\ Len(s) \in Nat \ {0} /\ DOMAIN s = 1 .. Len(s) /\ DOMAIN t = 1 .. Len(s) - 1
      /\ \A i \in DOMAIN t : t[i] = s[i + 1]
      /\ e = s[1]
  <2>1. t \in Seq(Event) /\ Len(t) = Len(s) - 1
    BY HeadTailProperties
  <2>2. Len(s) \in Nat \ {0}
    BY EmptySeq
  <2>. QED
    BY <2>1, <2>2, HeadTailProperties, LenProperties
<1>. HIDE DEF e, t
<1>2. \A i \in DOMAIN s : s[i].n \in Nat
  BY EventsOfSequence
<1>3. Ordered(t)
  BY <1>1 DEF Ordered
<1>4. e.n \in Numbers(s, e.handle)
  BY <1>1 DEF Numbers
<1>5. ASSUME NEW i \in DOMAIN s, s[i].handle = e.handle, i # 1
      PROVE  e.n < s[i].n
  BY <1>1, <1>5 DEF Ordered
<1>6. \A x \in Numbers(s, e.handle) : e.n <= x
  BY <1>1, <1>2, <1>5 DEF Numbers
<1>7. ASSUME NEW h
      PROVE  Numbers(t, h) = Numbers(s, h) \ (IF h = e.handle THEN {e.n} ELSE {})
  <2>1. \A x \in Numbers(t, h) : x \in Numbers(s, h) /\ (h = e.handle => x # e.n)
    <3>. SUFFICES ASSUME NEW i \in DOMAIN t, t[i].handle = h
                  PROVE  /\ t[i].n \in Numbers(s, h)
                         /\ h = e.handle => t[i].n # e.n
      BY DEF Numbers
    <3>1. i + 1 \in DOMAIN s /\ i + 1 # 1 /\ t[i] = s[i + 1]
      BY <1>1
    <3>. QED
      BY <1>1, <1>2, <1>5, <3>1 DEF Numbers
  <2>2. \A x \in Numbers(s, h) : x \in Numbers(t, h) \/ (h = e.handle /\ x = e.n)
    <3>. SUFFICES ASSUME NEW i \in DOMAIN s, s[i].handle = h, i # 1
                  PROVE  s[i].n \in Numbers(t, h)
      BY <1>1 DEF Numbers
    <3>1. i - 1 \in DOMAIN t /\ t[i - 1] = s[i]
      BY <1>1
    <3>. QED
      BY <3>1 DEF Numbers
  <2>. QED
    BY <2>1, <2>2
<1>. QED
  BY <1>3, <1>4, <1>6, <1>7 DEF e, t

\* The pure part of a push that finds room: no drop of h waits in the queue.
LEMMA PushInSequence ==
  ASSUME NEW h, NEW now \in SUBSET Nat, NEW next \in SUBSET Nat, NEW over, NEW lost, NEW gaps,
         NEW l \in Nat, NEW s \in Nat, h \notin over,
         InSequence(h, now, next, over, lost, gaps, l, s)
  PROVE  InSequence(h, now, next \cup {s + 1}, over, lost, gaps, l, s + 1)
<1>. DEFINE a == Ahead(h, next, over, s)
            b == Ahead(h, next \cup {s + 1}, over, s + 1)
<1>1. a = next \cup {s + 1} /\ b = next \cup {s + 1, s + 2}
  BY DEF Ahead
<1>. HIDE DEF a, b
<1>2. /\ Unbroken(now) /\ Unbroken(a) /\ now \cup next \subseteq l + 1 .. s /\ l <= s
      /\ \A x \in now, y \in next : x < y
  BY DEF InSequence, a
<1>3. Unbroken(b)
  BY <1>1, <1>2 DEF Unbroken
<1>4. \A x \in now \cup {l} : x + 1 \in a <=> x + 1 \in b
  BY <1>1, <1>2
<1>. QED
  BY <1>1, <1>2, <1>3, <1>4 DEF InSequence, a, b

\* A push that is dropped: nothing of h is queued before it has been swapped out.
LEMMA DropInSequence ==
  ASSUME NEW h, NEW now \in SUBSET Nat, NEW next \in SUBSET Nat, NEW over, NEW lost, NEW gaps,
         NEW l \in Nat, NEW s \in Nat,
         InSequence(h, now, next, over, lost, gaps, l, s)
  PROVE  InSequence(h, now, next, over \cup {h}, lost, gaps, l, s + 1)
<1>. DEFINE a == Ahead(h, next, over, s)
<1>1. /\ a = next \/ a = next \cup {s + 1}
      /\ Ahead(h, next, over \cup {h}, s + 1) = next
  BY DEF Ahead
<1>2. /\ Unbroken(now) /\ Unbroken(a) /\ now \cup next \subseteq l + 1 .. s /\ l <= s
      /\ \A x \in now, y \in next : x < y
      /\ now # {} => (h \in gaps <=> l + 1 \notin now)
      /\ a # {} => /\ now = {} => (h \in gaps \cup lost <=> l + 1 \notin a)
                   /\ \A x \in now : x + 1 \notin now => (h \in lost <=> x + 1 \notin a)
  BY DEF InSequence
<1>. HIDE DEF a
<1>3. Unbroken(next)
  BY <1>1, <1>2 DEF Unbroken
<1>4. ASSUME NEW y \in next
      PROVE  a # {} /\ \A x \in now \cup {l} : x + 1 \in a <=> x + 1 \in next
  <2>1. \A x \in now \cup {l} : x \in Nat /\ x < y /\ y <= s
    BY <1>2
  <2>. QED
    BY <1>1, <2>1
<1>5. next # {} =>
        /\ now = {} => (h \in gaps \cup lost <=> l + 1 \notin next)
        /\ \A x \in now : x + 1 \notin now => (h \in lost <=> x + 1 \notin next)
  BY <1>2, <1>4
<1>6. l < s + 1 /\ s + 1 \notin now \cup next /\ now \cup next \subseteq l + 1 .. s + 1
  BY <1>2
<1>. QED
  BY <1>1, <1>2, <1>3, <1>5, <1>6 DEF InSequence

\* The swap makes the queue the batch, and its drops those to be reported after it.
LEMMA SwapInSequence ==
  ASSUME NEW h, NEW next \in SUBSET Nat, NEW over, NEW gaps,
         NEW l \in Nat, NEW s \in Nat,
         InSequence(h, {}, next, over, {}, gaps, l, s)
  PROVE  InSequence(h, next, {}, {}, over, gaps, l, s)
<1>. DEFINE a == Ahead(h, next, over, s)
<1>1. /\ a = next \cup IF h \in over THEN {} ELSE {s + 1}
      /\ Ahead(h, {}, {}, s) = {s + 1}
  BY DEF Ahead
<1>. HIDE DEF a
<1>2. /\ Unbroken(a) /\ next \subseteq l + 1 .. s /\ l <= s
      /\ h \in over => l < s /\ s \notin next
      /\ a # {} => (h \in gaps <=> l + 1 \notin a)
  BY DEF InSequence, a
<1>3. Unbroken(next) /\ Unbroken({s + 1})
  BY <1>1, <1>2 DEF Unbroken
<1>4. ASSUME NEW x \in next, x + 1 \notin next
      PROVE  h \in over <=> x + 1 \notin {s + 1}
  BY <1>1, <1>2, <1>4 DEF Unbroken
<1>5. ASSUME NEW y \in next
      PROVE  h \in gaps <=> l + 1 \notin next
  <2>1. l + 1 <= y /\ y <= s /\ y \in Nat
    BY <1>2
  <2>. QED
    BY <1>1, <1>2, <2>1
<1>6. next = {} => (h \in gaps \cup over <=> l + 1 \notin {s + 1})
  BY <1>1, <1>2
<1>. QED
  BY <1>1, <1>2, <1>3, <1>4, <1>5, <1>6 DEF InSequence

\* The first event of the batch is the one that is due, and the callback gets it.
LEMMA PopInSequence ==
  ASSUME NEW h, NEW now \in SUBSET Nat, NEW next \in SUBSET Nat, NEW over, NEW lost, NEW gaps,
         NEW l \in Nat, NEW s \in Nat,
         InSequence(h, now, next, over, lost, gaps, l, s),
         NEW n \in now, \A x \in now : n <= x
  PROVE  /\ IF h \in gaps THEN n > l + 1 ELSE n = l + 1
         /\ InSequence(h, now \ {n}, next, over, lost, gaps \ {h}, n, s)
<1>. DEFINE a == Ahead(h, next, over, s)
            rest == now \ {n}
<1>1. /\ Unbroken(now) /\ Unbroken(a) /\ now \cup next \subseteq l + 1 .. s /\ l <= s
      /\ \A x \in now, y \in next : x < y
      /\ h \in over => l < s /\ s \notin now \cup next
      /\ h \in gaps <=> l + 1 \notin now
      /\ a # {} => \A x \in now : x + 1 \notin now => (h \in lost <=> x + 1 \notin a)
  BY DEF InSequence
<1>2. IF h \in gaps THEN n > l + 1 ELSE n = l + 1
  BY <1>1
<1>3. Unbroken(rest)
  BY <1>1 DEF Unbroken
<1>4. rest \cup next \subseteq n + 1 .. s /\ n <= s /\ (h \in over => n < s)
  BY <1>1
<1>5. rest # {} => n + 1 \in rest
  <2>. SUFFICES ASSUME NEW x \in rest PROVE n + 1 \in rest
    OBVIOUS
  <2>1. x \in now /\ x \in Nat /\ n \in Nat /\ n < x
    OBVIOUS
  <2>2. n .. x \subseteq now
    BY <1>1, <2>1 DEF Unbroken
  <2>. QED
    BY <2>1, <2>2
<1>6. rest = {} => n + 1 \notin now
  BY <1>1
<1>. HIDE DEF a
<1>7. a # {} => /\ rest = {} => (h \in lost <=> n + 1 \notin a)
                /\ \A x \in rest : x + 1 \notin rest => (h \in lost <=> x + 1 \notin a)
  BY <1>1, <1>6
<1>. QED
  BY <1>1, <1>2, <1>3, <1>4, <1>5, <1>7 DEF InSequence, a

\* The report of h's drops.
LEMMA ReportInSequence ==
  ASSUME NEW h, NEW next \in SUBSET Nat, NEW over, NEW lost, NEW gaps,
         NEW l \in Nat, NEW s \in Nat, h \in lost,
         InSequence(h, {}, next, over, lost, gaps, l, s)
  PROVE  InSequence(h, {}, next, over, lost \ {h}, gaps \cup {h}, l, s)
  BY DEF InSequence

\* A connection that is new.
LEMMA NewInSequence ==
  ASSUME NEW h, NEW over, NEW lost, NEW gaps, h \notin over \cup lost \cup gaps
  PROVE  InSequence(h, {}, {}, over, lost, gaps, 0, 0)
  BY DEF InSequence, Ahead, Unbroken

\* What happens to other connections.
LEMMA OthersInSequence ==
  ASSUME NEW h, NEW now, NEW next, NEW over, NEW lost, NEW gaps, NEW over2, NEW lost2, NEW gaps2,
         NEW l, NEW s, InSequence(h, now, next, over, lost, gaps, l, s),
         h \in over <=> h \in over2, h \in lost <=> h \in lost2, h \in gaps <=> h \in gaps2
  PROVE  InSequence(h, now, next, over2, lost2, gaps2, l, s)
  BY DEF InSequence, Ahead

-----------------------------------------------------------------------------
\* A step that leaves the events alone, and brings back no connection.
LEMMA DeliverySame ==
  ASSUME Delivery,
         UNCHANGED <<queueVars, batchVars, gapTold, last, sent>>,
         phase' # "events" => batch = <<>>,
         \A h \in Handles : /\ adapter'[h] = "none" => adapter[h] = "none"
                            /\ ~Deaf(h)' => ~Deaf(h) \/ Unused(h)
  PROVE  Delivery'
<1>. USE DEF queueVars, batchVars, Delivery
<1>1. /\ phase' # "events" => batch' = <<>>
      /\ overflow' # {} => ~Room'
      /\ Ordered(queue') /\ Ordered(batch')
  BY DEF Room
<1>2. ASSUME NEW h \in Handles
      PROVE  /\ adapter'[h] = "none" => Unused(h)'
             /\ Numbers(queue', h) \cup Numbers(batch', h) \subseteq 1 .. sent'[h]
  BY DEF Unused
<1>3. ASSUME NEW h \in Handles, ~Deaf(h)'
      PROVE  Sequenced(h)'
  <2>1. Sequenced(h)
    BY <1>3, NewInSequence DEF Unused, Sequenced
  <2>. QED
    BY <2>1 DEF Sequenced
<1>. QED
  BY <1>1, <1>2, <1>3

LEMMA DeliveryInit == Init => Delivery
<1>. SUFFICES ASSUME Init PROVE Delivery
  OBVIOUS
<1>. QED
  BY NumbersOfNothing DEF Init, Delivery, Unused, Deaf

LEMMA SwapDelivers == IInv /\ Delivery /\ FlushSwap => Delivery'
<1>. SUFFICES ASSUME IInv, Delivery, FlushSwap PROVE Delivery'
  OBVIOUS
<1>. USE DEF FlushSwap, registryVars, adapterVars, historyVars
<1>1. batch = <<>> /\ overflowBatch = {}
  BY DEF Delivery, IInv, Safe, Lifecycle
<1>2. ASSUME NEW h \in Handles
      PROVE  /\ adapter'[h] = "none" => Unused(h)'
             /\ Numbers(queue', h) \cup Numbers(batch', h) \subseteq 1 .. sent'[h]
  BY NumbersOfNothing DEF Delivery, Unused
<1>3. ASSUME NEW h \in Handles, ~Deaf(h)'
      PROVE  Sequenced(h)'
  <2>1. InSequence(h, {}, Numbers(queue, h), overflow, {}, gapTold, last[h], sent[h])
    BY <1>1, <1>3, NumbersOfNothing DEF Delivery, Sequenced, Deaf
  <2>2. Numbers(queue, h) \in SUBSET Nat /\ last[h] \in Nat /\ sent[h] \in Nat
    BY NumbersType, CoreAssumption DEF IInv, TypeOK
  <2>3. InSequence(h, Numbers(queue, h), {}, {}, overflow, gapTold, last[h], sent[h])
    BY <2>1, <2>2, SwapInSequence
  <2>. QED
    BY <2>3, NumbersOfNothing DEF Sequenced
<1>. QED
  BY <1>2, <1>3, NumbersOfNothing DEF Delivery

LEMMA PushDelivers ==
  ASSUME IInv, Delivery, NEW h \in Handles, QueuePush(h), adapter[h] # "none",
         \A g \in Handles : adapter'[g] = "none" => adapter[g] = "none",
         UNCHANGED <<registry, userClosed, batchVars, phase, historyVars>>
  PROVE  Delivery'
<1>. DEFINE e == [handle |-> h, n |-> sent[h] + 1]
<1>. USE DEF QueuePush, batchVars, historyVars
<1>e. e \in Event
  <2>1. sent[h] + 1 \in 1 .. MaxEvents
    BY CoreAssumption DEF IInv, TypeOK
  <2>. QED
    BY <2>1 DEF Event
<1>0. /\ sent[h] \in Nat /\ sent'[h] = sent[h] + 1 /\ e \in Event
      /\ \A g \in Handles : g # h => sent'[g] = sent[g]
      /\ \A g \in Handles : sent[g] \in Nat /\ last[g] \in Nat
      /\ \A g \in Handles : /\ Numbers(queue, g) \in SUBSET Nat
                            /\ Numbers(batch, g) \in SUBSET Nat
  <2>. HIDE DEF e
  <2>. QED
    BY <1>e, NumbersType, CoreAssumption DEF IInv, TypeOK
<1>1. CASE ~Entered
  <2>1. \A g \in Handles : Deaf(g)'
    BY <1>1 DEF Entered, Deaf, IInv, Safe, Lifecycle, Pointers
  <2>2. ASSUME NEW g \in Handles
        PROVE  /\ adapter'[g] = "none" => Unused(g)'
               /\ Numbers(queue', g) \cup Numbers(batch', g) \subseteq 1 .. sent'[g]
    BY <1>0, <1>1 DEF Delivery, Unused
  <2>. QED
    BY <1>1, <2>1, <2>2 DEF Delivery, Room
<1>2. CASE Entered /\ Room
  <2>. HIDE DEF e
  <2>1. queue' = Append(queue, e) /\ overflow = {} /\ overflow' = {}
    BY <1>2 DEF Queued, Delivery, e
  <2>2. \A x \in Numbers(queue, e.handle) : x < e.n
    BY <1>0 DEF Delivery, e
  <2>3. /\ Ordered(queue')
        /\ \A g : Numbers(queue', g)
                    = Numbers(queue, g) \cup (IF g = h THEN {sent[h] + 1} ELSE {})
    <3>1. queue \in Seq(Event) /\ Ordered(queue)
      BY DEF Delivery, IInv, TypeOK
    <3>2. e.handle = h /\ e.n = sent[h] + 1
      BY DEF e
    <3>3. /\ Ordered(Append(queue, e))
          /\ \A g : Numbers(Append(queue, e), g)
                      = Numbers(queue, g) \cup (IF g = e.handle THEN {e.n} ELSE {})
      BY <1>e, <2>2, <3>1, NumbersOfAppend
    <3>. QED
      BY <2>1, <3>2, <3>3
  <2>4. ASSUME NEW g \in Handles
        PROVE  /\ adapter'[g] = "none" => Unused(g)'
               /\ Numbers(queue', g) \cup Numbers(batch', g) \subseteq 1 .. sent'[g]
    BY <1>0, <2>1, <2>3 DEF Delivery, Unused
  <2>5. ASSUME NEW g \in Handles, ~Deaf(g)'
        PROVE  Sequenced(g)'
    <3>1. Sequenced(g)
      BY <2>5 DEF Delivery, Deaf
    <3>2. CASE g # h
      BY <1>0, <2>1, <2>3, <3>1, <3>2 DEF Sequenced
    <3>3. CASE g = h
      <4>1. InSequence(h, Numbers(batch, h), Numbers(queue, h) \cup {sent[h] + 1}, overflow,
                       overflowBatch, gapTold, last[h], sent[h] + 1)
        BY <1>0, <2>1, <3>1, <3>3, PushInSequence DEF Sequenced
      <4>. QED
        BY <1>0, <2>1, <2>3, <3>3, <4>1 DEF Sequenced
    <3>. QED
      BY <3>2, <3>3
  <2>. QED
    BY <2>1, <2>3, <2>4, <2>5 DEF Delivery
<1>3. CASE Entered /\ ~Room
  <2>1. queue' = queue /\ overflow' = overflow \cup {h}
    BY <1>3 DEF Queued
  <2>2. ASSUME NEW g \in Handles
        PROVE  /\ adapter'[g] = "none" => Unused(g)'
               /\ Numbers(queue', g) \cup Numbers(batch', g) \subseteq 1 .. sent'[g]
    BY <1>0, <2>1 DEF Delivery, Unused
  <2>3. ASSUME NEW g \in Handles, ~Deaf(g)'
        PROVE  Sequenced(g)'
    <3>1. Sequenced(g)
      BY <2>3 DEF Delivery, Deaf
    <3>2. CASE g # h
      BY <1>0, <2>1, <3>1, <3>2, OthersInSequence DEF Sequenced
    <3>3. CASE g = h
      <4>1. InSequence(h, Numbers(batch, h), Numbers(queue, h), overflow \cup {h},
                       overflowBatch, gapTold, last[h], sent[h] + 1)
        BY <1>0, <3>1, <3>3, DropInSequence DEF Sequenced
      <4>. QED
        BY <1>0, <2>1, <3>3, <4>1 DEF Sequenced
    <3>. QED
      BY <3>2, <3>3
  <2>. QED
    BY <1>3, <2>1, <2>2, <2>3 DEF Delivery, Room
<1>. QED
  BY <1>1, <1>2, <1>3

\* What a dispatch does to the connections that may get events: none comes back, and
\* the event's own is gone unless its callback was called.
LEMMA DispatchDeafens ==
  ASSUME IInv, NEW h \in Handles, DispatchEvent(h)
  PROVE  /\ \A g \in Handles : ~Deaf(g)' => ~Deaf(g)
         /\ ~Deaf(h)' => ~Deaf(h) /\ h \in scripts
  BY DEF DispatchEvent, DispatchSkips, DispatchOrphan, DispatchCalls, Destroy, Deaf,
         registryVars, IInv, TypeOK

\* The event that is due gets its callback, and is the next one but for those whose
\* loss the script was told of.
LEMMA EventDelivers ==
  ASSUME IInv, Delivery, FlushEvent
  PROVE  /\ Delivery'
         /\ \A h \in Handles : last'[h] # last[h] =>
               IF h \in gapTold THEN last'[h] > last[h] + 1 ELSE last'[h] = last[h] + 1
<1>. USE DEF FlushEvent, queueVars, adapterVars
<1>0. /\ \A g \in Handles : sent[g] \in Nat /\ last[g] \in Nat
      /\ \A g \in Handles : /\ Numbers(queue, g) \in SUBSET Nat
                            /\ Numbers(batch, g) \in SUBSET Nat
  BY NumbersType, CoreAssumption DEF IInv, TypeOK
<1>1. PICK b \in Handles, m \in Nat :
        b = Head(batch).handle /\ m = Head(batch).n /\ batch # <<>> /\ batch \in Seq(Event)
  <2>1. Head(batch) \in Event /\ batch \in Seq(Event)
    BY HeadTailProperties DEF IInv, TypeOK
  <2>. QED
    BY <2>1, CoreAssumption DEF Event
<1>2. DispatchEvent(b)
  BY <1>1
<1>3. /\ batch' = Tail(batch) /\ Ordered(batch')
      /\ m \in Numbers(batch, b) /\ \A x \in Numbers(batch, b) : m <= x
      /\ \A g : Numbers(batch', g) = Numbers(batch, g) \ (IF g = b THEN {m} ELSE {})
  BY <1>1, NumbersOfTail DEF Delivery
<1>4. /\ \A g \in Handles : ~Deaf(g)' => ~Deaf(g)
      /\ ~Deaf(b)' => ~Deaf(b) /\ b \in scripts
  BY <1>1, <1>2, DispatchDeafens
<1>5. /\ last' = IF ~Deaf(b) /\ b \in scripts THEN [last EXCEPT ![b] = m] ELSE last
      /\ gapTold' = IF ~Deaf(b) /\ b \in scripts THEN gapTold \ {b} ELSE gapTold
  BY <1>1
<1>6. CASE ~Deaf(b) /\ b \in scripts
  <2>1. InSequence(b, Numbers(batch, b), Numbers(queue, b), overflow, overflowBatch, gapTold,
                   last[b], sent[b])
    BY <1>1, <1>6 DEF Delivery, Sequenced
  <2>2. /\ IF b \in gapTold THEN m > last[b] + 1 ELSE m = last[b] + 1
        /\ InSequence(b, Numbers(batch, b) \ {m}, Numbers(queue, b), overflow,
                      overflowBatch, gapTold \ {b}, m, sent[b])
    <3>1. /\ Numbers(batch, b) \in SUBSET Nat /\ Numbers(queue, b) \in SUBSET Nat
          /\ last[b] \in Nat /\ sent[b] \in Nat
      BY <1>0, <1>1
    <3>2. m \in Numbers(batch, b) /\ \A x \in Numbers(batch, b) : m <= x
      BY <1>1, <1>3
    <3>. QED
      BY <2>1, <3>1, <3>2, PopInSequence
  <2>3. /\ last'[b] = m
        /\ \A g \in Handles : g # b => last'[g] = last[g]
    BY <1>1, <1>5, <1>6 DEF IInv, TypeOK
  <2>4. ASSUME NEW g \in Handles, ~Deaf(g)'
        PROVE  Sequenced(g)'
    <3>1. CASE g = b
      BY <1>3, <1>5, <1>6, <2>2, <2>3, <3>1 DEF Sequenced
    <3>2. CASE g # b
      <4>1. Sequenced(g)
        BY <1>4, <2>4 DEF Delivery
      <4>2. Numbers(batch', g) = Numbers(batch, g) /\ last'[g] = last[g]
        BY <1>3, <2>3, <3>2
      <4>3. InSequence(g, Numbers(batch, g), Numbers(queue, g), overflow, overflowBatch,
                       gapTold', last[g], sent[g])
        BY <1>5, <1>6, <3>2, <4>1, OthersInSequence DEF Sequenced
      <4>. QED
        BY <4>2, <4>3 DEF Sequenced
    <3>. QED
      BY <3>1, <3>2
  <2>5. ASSUME NEW g \in Handles
        PROVE  /\ adapter'[g] = "none" => Unused(g)'
               /\ Numbers(queue', g) \cup Numbers(batch', g) \subseteq 1 .. sent'[g]
    <3>1. adapter[g] = "none" => g # b
      BY <1>3 DEF Delivery, Unused
    <3>. QED
      BY <1>3, <1>5, <2>3, <3>1 DEF Delivery, Unused
  <2>6. Delivery'
    BY <1>3, <2>4, <2>5 DEF Delivery, Room
  <2>. QED
    BY <2>2, <2>3, <2>6
<1>7. CASE ~(~Deaf(b) /\ b \in scripts)
  <2>1. last' = last /\ gapTold' = gapTold
    BY <1>5, <1>7
  <2>2. ASSUME NEW g \in Handles, ~Deaf(g)'
        PROVE  Sequenced(g)'
    <3>1. g # b /\ Sequenced(g)
      BY <1>4, <1>7, <2>2 DEF Delivery
    <3>. QED
      BY <1>3, <2>1, <3>1 DEF Sequenced
  <2>3. ASSUME NEW g \in Handles
        PROVE  /\ adapter'[g] = "none" => Unused(g)'
               /\ Numbers(queue', g) \cup Numbers(batch', g) \subseteq 1 .. sent'[g]
    BY <1>3, <2>1 DEF Delivery, Unused
  <2>4. Delivery'
    BY <1>3, <2>2, <2>3 DEF Delivery, Room
  <2>. QED
    BY <2>1, <2>4
<1>. QED
  BY <1>6, <1>7

LEMMA ReportDelivers ==
  ASSUME IInv, Delivery, NEW h \in Handles, FlushOverflow(h)
  PROVE  Delivery'
<1>. USE DEF FlushOverflow, queueVars, adapterVars
<1>0. /\ \A g \in Handles : sent[g] \in Nat /\ last[g] \in Nat
      /\ \A g \in Handles : Numbers(queue, g) \in SUBSET Nat
      /\ batch = <<>>
  BY NumbersType, CoreAssumption DEF IInv, TypeOK, Delivery
<1>1. /\ \A g \in Handles : ~Deaf(g)' => ~Deaf(g)
      /\ ~Deaf(h)' => ~Deaf(h) /\ h \in scripts
  BY DispatchDeafens
<1>2. IF ~Deaf(h) /\ h \in scripts THEN gapTold' = gapTold \cup {h} ELSE gapTold' = gapTold
  BY DEF Reported
<1>3. ASSUME NEW g \in Handles, ~Deaf(g)'
      PROVE  Sequenced(g)'
  <2>1. InSequence(g, {}, Numbers(queue, g), overflow, overflowBatch, gapTold,
                   last[g], sent[g])
    BY <1>0, <1>1, <1>3, NumbersOfNothing DEF Delivery, Sequenced
  <2>2. InSequence(g, {}, Numbers(queue, g), overflow, overflowBatch', gapTold',
                   last[g], sent[g])
    <3>1. CASE g = h
      BY <1>0, <1>1, <1>2, <1>3, <2>1, <3>1, ReportInSequence
    <3>2. CASE g # h
      BY <1>2, <2>1, <3>2, OthersInSequence
    <3>. QED
      BY <3>1, <3>2
  <2>. QED
    BY <1>0, <2>2, NumbersOfNothing DEF Sequenced
<1>4. ASSUME NEW g \in Handles
      PROVE  /\ adapter'[g] = "none" => Unused(g)'
             /\ Numbers(queue', g) \cup Numbers(batch', g) \subseteq 1 .. sent'[g]
  BY <1>2 DEF Delivery, Unused
<1>. QED
  BY <1>3, <1>4 DEF Delivery, Room

LEMMA LuaDelivers == IInv /\ Delivery /\ LuaStep => Delivery'
<1>. SUFFICES ASSUME IInv, Delivery, LuaStep PROVE Delivery'
  OBVIOUS
<1>. USE DEF registryVars, queueVars, batchVars, historyVars, adapterVars
<1>1. CASE ConnectRefused
  BY <1>1, DeliverySame DEF ConnectRefused, Delivery, Deaf
<1>2. CASE ConnectRegister
  <2>1. app = "running" /\ nextHandle \in Handles
    BY <1>2 DEF ConnectRegister, LuaRuns, IInv, TypeOK, Safe, Lifecycle, Handles
  <2>2. Unused(nextHandle)
    BY <2>1 DEF Delivery, IInv, Safe, FreshHandles, TypeOK
  <2>. QED
    BY <1>2, <2>2, DeliverySame DEF ConnectRegister, Delivery, Deaf
<1>3. ASSUME NEW h \in Handles, Disconnect(h) PROVE Delivery'
  BY <1>3, DeliverySame DEF Disconnect, CloseLater, Destroy, Delivery, Deaf
<1>4. ASSUME NEW h \in Handles, ScriptDies(h) PROVE Delivery'
  BY <1>4, DeliverySame DEF ScriptDies, Delivery, Deaf
<1>. QED
  BY <1>1, <1>2, <1>3, <1>4 DEF LuaStep

LEMMA DeliveryStep == IInv /\ Delivery /\ [Next]_vars => Delivery'
<1>. SUFFICES ASSUME IInv, Delivery, [Next]_vars PROVE Delivery'
  OBVIOUS
<1>. USE DEF registryVars, queueVars, batchVars, historyVars, adapterVars
<1>1. CASE LuaStep
  BY <1>1, LuaDelivers
<1>2. CASE PlatformConnects
  BY <1>2, DeliverySame DEF PlatformConnects, Delivery, Deaf, IInv, TypeOK
<1>3. CASE PlatformRefuses \/ ConnectReturns
  BY <1>3, DeliverySame DEF PlatformRefuses, ConnectReturns, Destroy, Delivery, Deaf
<1>4. CASE FlushSwap
  BY <1>4, SwapDelivers
<1>5. CASE FlushEvent
  BY <1>5, EventDelivers
<1>6. CASE FlushEventsDone \/ FlushDone
  BY <1>6, DeliverySame DEF FlushEventsDone, FlushDone, Delivery, Deaf
<1>7. CASE CallbackReturns
  BY <1>7, DeliverySame DEF CallbackReturns, Destroy, Delivery, Deaf
<1>8. ASSUME NEW h \in Handles, FlushOverflow(h) PROVE Delivery'
  BY <1>8, ReportDelivers
<1>9. ASSUME NEW h \in Handles, FinalizeConnection(h) PROVE Delivery'
  BY <1>9, DeliverySame DEF FinalizeConnection, Destroy, Delivery, Deaf
<1>10. CASE FinalizeFlush
  BY <1>10, DeliverySame DEF FinalizeFlush, Delivery, Deaf
<1>11. ASSUME NEW h \in Handles, EnqueueEvent(h) PROVE Delivery'
  BY <1>11, PushDelivers DEF EnqueueEvent
<1>12. ASSUME NEW h \in Handles, AnnouncePush(h) PROVE Delivery'
  <2>1. \A g \in Handles : adapter'[g] = "none" => adapter[g] = "none"
    BY <1>12 DEF AnnouncePush, IInv, TypeOK
  <2>. QED
    BY <1>12, <2>1, PushDelivers DEF AnnouncePush
<1>13. ASSUME NEW h \in Handles, NEW c \in BOOLEAN, AnnounceConnected(h, c) PROVE Delivery'
  BY <1>13, DeliverySame DEF AnnounceConnected, SetConnected, Delivery, Deaf, IInv, TypeOK
<1>14. ASSUME NEW h \in Handles, AdapterOutage(h) PROVE Delivery'
  BY <1>14, DeliverySame DEF AdapterOutage, SetConnected, Delivery, Deaf
<1>15. CASE AppInitialize \/ Initialize \/ Finalize
  BY <1>15, DeliverySame DEF AppInitialize, Initialize, Finalize, Delivery, Deaf
<1>16. CASE AppFinalize
  <2>. USE <1>16 DEF AppFinalize, Delivery
  <2>1. \A h \in Handles : Deaf(h)'
    BY DEF Deaf
  <2>2. ASSUME NEW h \in Handles
        PROVE  /\ adapter'[h] = "none" => Unused(h)'
               /\ Numbers(queue', h) \cup Numbers(batch', h) \subseteq 1 .. sent'[h]
    BY NumbersOfNothing DEF Unused
  <2>. QED
    BY <2>1, <2>2, NumbersOfNothing
<1>17. CASE UNCHANGED vars
  BY <1>17, DeliverySame DEF vars, Delivery, Deaf
<1>. QED
  BY <1>1, <1>2, <1>3, <1>4, <1>5, <1>6, <1>7, <1>8, <1>9, <1>10, <1>11, <1>12, <1>13, <1>14,
     <1>15, <1>16, <1>17
     DEF Next, MainStep, AdapterStep, LifeStep

\* A script sees the events of a connection in their order, and is told where some are
\* missing, before it gets the one behind them.
THEOREM GapsAreTold == Spec => NoSilentGap
<1>1. IInv /\ Delivery /\ [Next]_vars
        => [\A h \in Handles : last'[h] # last[h] =>
              IF h \in gapTold THEN last'[h] > last[h] + 1 ELSE last'[h] = last[h] + 1]_vars
  <2>. SUFFICES ASSUME IInv, Delivery, Next, last' # last
                PROVE  \A h \in Handles : last'[h] # last[h] =>
                         IF h \in gapTold THEN last'[h] > last[h] + 1
                         ELSE last'[h] = last[h] + 1
    BY DEF vars, historyVars
  <2>1. FlushEvent
    BY DEF Next, LuaStep, MainStep, AdapterStep, LifeStep, ConnectRefused, ConnectRegister,
           Disconnect, ScriptDies, PlatformConnects, PlatformRefuses, ConnectReturns,
           FlushSwap, FlushEventsDone, FlushDone, CallbackReturns, FinalizeFlush, FlushOverflow,
           FinalizeConnection, EnqueueEvent, AnnouncePush, AdapterOutage, AnnounceConnected,
           AppInitialize, Initialize, Finalize, AppFinalize, historyVars
  <2>. QED
    BY <2>1, EventDelivers
<1>2. Spec => []Delivery
  BY InvariantHolds, DeliveryInit, DeliveryStep, PTL DEF Spec
<1>. QED
  BY InvariantHolds, <1>1, <1>2, PTL DEF Spec, NoSilentGap
=============================================================================
