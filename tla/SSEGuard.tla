------------------------------- MODULE SSEGuard -------------------------------
(***************************************************************************)
(* The teardown protocol of the extension core: platform threads call into *)
(* the event queue and the connection registry while AppFinalizeSSE        *)
(* deletes the two mutexes that protect them.  A caller counts itself in   *)
(* g_SSEEntrants BEFORE it looks at g_SSEActive; AppFinalizeSSE clears the *)
(* flag and then waits for the count to reach zero.  Every access to the   *)
(* two atomics and every mutex operation is a step of its own.             *)
(***************************************************************************)
EXTENDS Integers, FiniteSets

CONSTANT Threads        \* platform threads that may call into the core

ASSUME ThreadsAssumption == IsFiniteSet(Threads)

\* g_SSE.m_Queue.m_Mutex and g_SSE.m_Mutex
Mutexes == {"queue", "state"}

CallStates == {"out", "registered", "refused", "entered", "holding", "leaving"}

AppStates == {"off", "created", "running", "draining", "drained", "queueDeleted"}

VARIABLES
    active,     \* g_SSEActive
    entrants,   \* g_SSEEntrants
    exists,     \* the mutexes that are created and not deleted
    lock,       \* lock[m]: the thread that holds m, as a set of at most one
    call,       \* call[t]: where thread t is in a guarded entry point
    target,     \* target[t]: the mutex that entry point locks
    app         \* where the main thread is between AppInitialize and AppFinalize

vars == <<active, entrants, exists, lock, call, target, app>>

-----------------------------------------------------------------------------
Init ==
    /\ active = FALSE
    /\ entrants = 0
    /\ exists = {}
    /\ lock = [m \in Mutexes |-> {}]
    /\ call = [t \in Threads |-> "out"]
    /\ target = [t \in Threads |-> "state"]
    /\ app = "off"

-----------------------------------------------------------------------------
(* The platform threads: SSE_QueuePush, SSE_SetConnected,                   *)
(* SSE_SetLastEventId and SSE_IsUserClosed all have this shape.             *)

\* SSECallbackGuard's fetch_add, before the flag is read.
Register(t) ==
    /\ call[t] = "out"
    /\ entrants' = entrants + 1
    /\ call' = [call EXCEPT ![t] = "registered"]
    /\ \E m \in Mutexes : target' = [target EXCEPT ![t] = m]
    /\ UNCHANGED <<active, exists, lock, app>>

\* The flag decides between m_Entered and the early return.
Check(t) ==
    /\ call[t] = "registered"
    /\ call' = [call EXCEPT ![t] = IF active THEN "entered" ELSE "refused"]
    /\ UNCHANGED <<active, entrants, exists, lock, target, app>>

\* Plausible fault: the refused caller stays in the count.
RefuseStillCounted(t) ==
    /\ call[t] = "refused"
    /\ call' = [call EXCEPT ![t] = "out"]
    /\ UNCHANGED <<active, entrants, exists, lock, target, app>>

\* A refused caller takes itself out of the count in the constructor.
Refuse(t) ==
    /\ call[t] = "refused"
    /\ entrants' = entrants - 1
    /\ call' = [call EXCEPT ![t] = "out"]
    /\ UNCHANGED <<active, exists, lock, target, app>>

\* DM_MUTEX_SCOPED_LOCK of the queue's or the registry's mutex.
Lock(t) ==
    /\ call[t] = "entered"
    /\ lock[target[t]] = {}
    /\ lock' = [lock EXCEPT ![target[t]] = {t}]
    /\ call' = [call EXCEPT ![t] = "holding"]
    /\ UNCHANGED <<active, entrants, exists, target, app>>

\* The scoped lock is declared after the guard, so it is released first.
Unlock(t) ==
    /\ call[t] = "holding"
    /\ lock' = [lock EXCEPT ![target[t]] = {}]
    /\ call' = [call EXCEPT ![t] = "leaving"]
    /\ UNCHANGED <<active, entrants, exists, target, app>>

\* ~SSECallbackGuard.
Leave(t) ==
    /\ call[t] = "leaving"
    /\ entrants' = entrants - 1
    /\ call' = [call EXCEPT ![t] = "out"]
    /\ UNCHANGED <<active, exists, lock, target, app>>

-----------------------------------------------------------------------------
(* The main thread: AppInitializeSSE, the life of the application, and      *)
(* AppFinalizeSSE.  A reboot of the engine starts over.                     *)

CreateMutexes ==
    /\ app = "off"
    /\ app' = "created"
    /\ exists' = Mutexes
    /\ UNCHANGED <<active, entrants, lock, call, target>>

Activate ==
    /\ app = "created"
    /\ app' = "running"
    /\ active' = TRUE
    /\ UNCHANGED <<entrants, exists, lock, call, target>>

StopAccepting ==
    /\ app = "running"
    /\ app' = "draining"
    /\ active' = FALSE
    /\ UNCHANGED <<entrants, exists, lock, call, target>>

\* Plausible fault: the loop waits for the lock holders only.
NobodyLocked == \A m \in Mutexes : lock[m] = {}

\* The loop "while (g_SSEEntrants.load() != 0) Sleep" ends.
NobodyInside == entrants = 0

Drained ==
    /\ app = "draining"
    /\ NobodyInside
    /\ app' = "drained"
    /\ UNCHANGED <<active, entrants, exists, lock, call, target>>

\* The arrays are emptied under the mutex, which is then deleted.
DeleteMutex(m, from, to) ==
    /\ app = from
    /\ lock[m] = {}
    /\ exists' = exists \ {m}
    /\ app' = to
    /\ UNCHANGED <<active, entrants, lock, call, target>>

DeleteQueueMutex == DeleteMutex("queue", "drained", "queueDeleted")

DeleteStateMutex == DeleteMutex("state", "queueDeleted", "off")

-----------------------------------------------------------------------------
ThreadStep(t) ==
    Check(t) \/ Refuse(t) \/ Lock(t) \/ Unlock(t) \/ Leave(t)

Shutdown == Drained \/ DeleteQueueMutex \/ DeleteStateMutex

Next ==
    \/ \E t \in Threads : Register(t) \/ ThreadStep(t)
    \/ CreateMutexes
    \/ Activate
    \/ StopAccepting
    \/ Shutdown

\* A caller finishes the call it is in (the critical sections contain no wait)
\* and the main thread keeps running AppFinalizeSSE.  Nothing forces a platform
\* thread to make a call, or the application to start or to stop.
Fairness ==
    /\ \A t \in Threads : WF_vars(ThreadStep(t))
    /\ WF_vars(Shutdown)

Spec == Init /\ [][Next]_vars /\ Fairness

-----------------------------------------------------------------------------
Inside == {t \in Threads : call[t] # "out"}

\* The variables stay in their types; the count of entrants never goes below 0.
TypeOK ==
    /\ active \in BOOLEAN
    /\ entrants \in Nat
    /\ exists \subseteq Mutexes
    /\ lock \in [Mutexes -> SUBSET Threads]
    /\ call \in [Threads -> CallStates]
    /\ target \in [Threads -> Mutexes]
    /\ app \in AppStates

\* A platform thread that the guard has let in never locks, and never holds, a
\* mutex AppFinalizeSSE has deleted: the point of counting before checking.
NoCallOnDeletedMutex ==
    \A t \in Threads :
        call[t] \in {"entered", "holding"} => target[t] \in exists

\* From the end of AppFinalizeSSE's drain until the next activation no admitted
\* call is in progress: nothing is pushed into the arrays while they are emptied
\* and nothing admitted by one run of the engine acts in the next one.
TeardownIsQuiet ==
    app \in {"drained", "queueDeleted", "off", "created"} =>
        \A t \in Threads : call[t] \notin {"entered", "holding", "leaving"}

\* Once the platform threads have stopped calling, AppFinalizeSSE's drain loop
\* ends and the teardown completes: no caller leaves the count wrong.
ShutdownCompletes ==
    <>[](Inside = {}) => (app = "draining" ~> app = "off")

=============================================================================
