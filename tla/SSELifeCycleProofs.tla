--------------------------- MODULE SSELifeCycleProofs --------------------------
(***************************************************************************)
(* The start and the end of the engine's use of the extension: the teardown *)
(* guard is safe for any number of platform threads, and an event reaches  *)
(* the callback of its own stream across any number of reboots.            *)
(***************************************************************************)
EXTENDS MCSSELifeCycle, FiniteSetTheorems, TLAPS

-----------------------------------------------------------------------------
(* The teardown guard.                                                     *)

\* The counter is exactly the number of callers between fetch_add and
\* fetch_sub: the fact the drain loop relies on.
EntrantsCounted == entrants = Cardinality(Inside)

\* While the flag is up, and until the drain has ended, both mutexes exist.
MutexesOutliveDrain ==
    /\ app \in {"created", "running", "draining"} => exists = Mutexes
    /\ active => app = "running"

\* Both mutexes exist while anybody admitted is inside.
IInv ==
    /\ TypeOK
    /\ EntrantsCounted
    /\ MutexesOutliveDrain
    /\ TeardownIsQuiet

\* The step facts about the count: one caller more, one caller less, or the
\* same callers.
LEMMA InsideFinite == TypeOK => IsFiniteSet(Inside) /\ Cardinality(Inside) \in Nat
<1>. SUFFICES ASSUME TypeOK PROVE IsFiniteSet(Inside) /\ Cardinality(Inside) \in Nat
  OBVIOUS
<1>1. IsFiniteSet(Inside)
  BY ThreadsAssumption, FS_Subset DEF Inside
<1>. QED
  BY <1>1, FS_CardinalityType

LEMMA OneMoreInside ==
  ASSUME IInv, NEW t \in Threads, call[t] = "out",
         NEW s \in CallStates \ {"out"}, call' = [call EXCEPT ![t] = s]
  PROVE  Cardinality(Inside)' = Cardinality(Inside) + 1
<1>1. Inside' = Inside \cup {t}
  BY DEF IInv, TypeOK, Inside
<1>2. t \notin Inside
  BY DEF Inside
<1>. QED
  BY <1>1, <1>2, InsideFinite, FS_AddElement DEF IInv

LEMMA OneLessInside ==
  ASSUME IInv, NEW t \in Threads, call[t] # "out",
         call' = [call EXCEPT ![t] = "out"]
  PROVE  Cardinality(Inside)' = Cardinality(Inside) - 1
<1>1. Inside' = Inside \ {t}
  BY DEF IInv, TypeOK, Inside
<1>2. t \in Inside
  BY DEF Inside
<1>. QED
  BY <1>1, <1>2, InsideFinite, FS_RemoveElement DEF IInv

LEMMA SameInside ==
  ASSUME IInv, NEW t \in Threads, call[t] # "out",
         NEW s \in CallStates \ {"out"}, call' = [call EXCEPT ![t] = s]
  PROVE  Cardinality(Inside)' = Cardinality(Inside)
<1>1. Inside' = Inside
  BY DEF IInv, TypeOK, Inside
<1>. QED
  BY <1>1

LEMMA NoCallMoves ==
  ASSUME EntrantsCounted, UNCHANGED <<entrants, call>>
  PROVE  EntrantsCounted'
<1>1. Inside' = Inside
  BY DEF Inside
<1>. QED
  BY <1>1 DEF EntrantsCounted

LEMMA InitEstablishes == Init => IInv
<1>. SUFFICES ASSUME Init PROVE IInv
  OBVIOUS
<1>1. Inside = {}
  BY DEF Init, Inside
<1>2. EntrantsCounted
  BY <1>1, FS_EmptySet DEF Init, EntrantsCounted
<1>3. TypeOK /\ MutexesOutliveDrain /\ TeardownIsQuiet
  BY DEF Init, TypeOK, MutexesOutliveDrain, TeardownIsQuiet, Mutexes, CallStates, AppStates
<1>. QED
  BY <1>2, <1>3 DEF IInv

LEMMA StepPreserves == IInv /\ [Next]_vars => IInv'
<1>. SUFFICES ASSUME IInv, [Next]_vars PROVE IInv'
  OBVIOUS
<1>. USE DEF IInv
<1>1. ASSUME NEW t \in Threads, Register(t) PROVE IInv'
  <2>1. Cardinality(Inside)' = Cardinality(Inside) + 1
    BY <1>1, OneMoreInside DEF Register, CallStates
  <2>2. EntrantsCounted'
    BY <1>1, <2>1 DEF Register, EntrantsCounted
  <2>3. (TypeOK /\ MutexesOutliveDrain /\ TeardownIsQuiet)'
    BY <1>1 DEF Register, TypeOK, MutexesOutliveDrain, TeardownIsQuiet, CallStates
  <2>. QED
    BY <2>2, <2>3
<1>2. ASSUME NEW t \in Threads, Check(t) PROVE IInv'
  <2>1. Cardinality(Inside)' = Cardinality(Inside)
    BY <1>2, SameInside DEF Check, CallStates
  <2>2. EntrantsCounted'
    BY <1>2, <2>1 DEF Check, EntrantsCounted
  <2>3. (TypeOK /\ MutexesOutliveDrain /\ TeardownIsQuiet)'
    BY <1>2 DEF Check, TypeOK, MutexesOutliveDrain, TeardownIsQuiet, CallStates
  <2>. QED
    BY <2>2, <2>3
<1>3. ASSUME NEW t \in Threads, Refuse(t) \/ Leave(t) PROVE IInv'
  <2>1. Cardinality(Inside)' = Cardinality(Inside) - 1
    BY <1>3, OneLessInside DEF Refuse, Leave
  <2>2. EntrantsCounted'
    BY <1>3, <2>1 DEF Refuse, Leave, EntrantsCounted
  <2>3. Cardinality(Inside)' \in Nat
    <3>1. t \in Inside
      BY <1>3 DEF Refuse, Leave, Inside
    <3>2. Inside' = Inside \ {t}
      BY <1>3 DEF Refuse, Leave, Inside, TypeOK
    <3>. QED
      BY <3>1, <3>2, InsideFinite, FS_RemoveElement, FS_CardinalityType
  <2>4. entrants' \in Nat
    BY <2>2, <2>3 DEF EntrantsCounted
  <2>5. (TypeOK /\ MutexesOutliveDrain /\ TeardownIsQuiet)'
    BY <1>3, <2>4 DEF Refuse, Leave, TypeOK, MutexesOutliveDrain, TeardownIsQuiet, CallStates
  <2>. QED
    BY <2>2, <2>5
<1>4. ASSUME NEW t \in Threads, Lock(t) \/ Unlock(t) PROVE IInv'
  <2>1. Cardinality(Inside)' = Cardinality(Inside)
    BY <1>4, SameInside DEF Lock, Unlock, CallStates
  <2>2. EntrantsCounted'
    BY <1>4, <2>1 DEF Lock, Unlock, EntrantsCounted
  <2>3. (TypeOK /\ MutexesOutliveDrain /\ TeardownIsQuiet)'
    BY <1>4 DEF Lock, Unlock, TypeOK, MutexesOutliveDrain, TeardownIsQuiet, CallStates
  <2>. QED
    BY <2>2, <2>3
<1>5. CASE CreateMutexes \/ Activate \/ StopAccepting
  <2>1. EntrantsCounted'
    BY <1>5, NoCallMoves DEF CreateMutexes, Activate, StopAccepting
  <2>2. TypeOK'
    BY <1>5 DEF CreateMutexes, Activate, StopAccepting, TypeOK, AppStates
  <2>3. (MutexesOutliveDrain /\ TeardownIsQuiet)'
    BY <1>5 DEF CreateMutexes, Activate, StopAccepting, TypeOK, MutexesOutliveDrain,
                TeardownIsQuiet, AppStates
  <2>. QED
    BY <2>1, <2>2, <2>3
<1>6. CASE Drained
  <2>1. Inside = {}
    BY <1>6, InsideFinite, FS_EmptySet DEF Drained, NobodyInside, EntrantsCounted
  <2>2. \A t \in Threads : call[t] = "out"
    BY <2>1 DEF Inside
  <2>. QED
    BY <1>6, <2>2 DEF Drained, TypeOK, EntrantsCounted, Inside, MutexesOutliveDrain,
                      TeardownIsQuiet, AppStates
<1>7. CASE DeleteQueueMutex \/ DeleteStateMutex
  <2>1. EntrantsCounted'
    BY <1>7, NoCallMoves DEF DeleteQueueMutex, DeleteStateMutex, DeleteMutex
  <2>2. TypeOK'
    BY <1>7 DEF DeleteQueueMutex, DeleteStateMutex, DeleteMutex, TypeOK, AppStates
  <2>3. (MutexesOutliveDrain /\ TeardownIsQuiet)'
    BY <1>7 DEF DeleteQueueMutex, DeleteStateMutex, DeleteMutex, TypeOK,
                MutexesOutliveDrain, TeardownIsQuiet, AppStates
  <2>. QED
    BY <2>1, <2>2, <2>3
<1>8. CASE UNCHANGED vars
  BY <1>8 DEF vars, TypeOK, EntrantsCounted, Inside, MutexesOutliveDrain, TeardownIsQuiet
<1>. QED
  BY <1>1, <1>2, <1>3, <1>4, <1>5, <1>6, <1>7, <1>8 DEF Next, ThreadStep, Shutdown

LEMMA StrengthImplies == IInv => NoCallOnDeletedMutex
  BY DEF IInv, TypeOK, MutexesOutliveDrain, TeardownIsQuiet, NoCallOnDeletedMutex,
         AppStates, Mutexes

LEMMA InvariantHolds == Spec => []IInv
  BY InitEstablishes, StepPreserves, PTL DEF Spec

\* The variables keep their types, and g_SSEEntrants never goes negative,
\* whatever the number of platform threads and the order of their calls.
THEOREM TypeCorrect == Spec => []TypeOK
<1>1. IInv => TypeOK
  BY DEF IInv
<1>. QED
  BY InvariantHolds, <1>1, PTL

\* No platform thread ever touches a mutex AppFinalizeSSE has deleted.
THEOREM GuardProtects == Spec => []NoCallOnDeletedMutex
  BY InvariantHolds, StrengthImplies, PTL

\* After the drain no admitted call is in progress until the next activation.
THEOREM QuietTeardown == Spec => []TeardownIsQuiet
<1>1. IInv => TeardownIsQuiet
  BY DEF IInv
<1>. QED
  BY InvariantHolds, <1>1, PTL

-----------------------------------------------------------------------------
(* The handles across reboots.                                             *)

\* The clients that may still push: those sse.connect has started and that have
\* not given their memory back.
Live == {c \in Clients : stage[c] \in {"running", "closed"}}

RebootTypeOK ==
    /\ stage \in [Clients -> Reboot!Adapter!Stages]
    /\ told \subseteq Clients /\ busy \subseteq Clients
    /\ engine \in {"off", "on", "finalizing", "waiting", "finalized"}
    /\ nextHandle \in Nat
    /\ handle \in [Clients -> Nat]
    /\ queue \in Seq([handle : Nat, from : Clients])

\* Two clients that may push have two handles, both given out since the engine
\* started.
HandlesApart ==
    \A c \in Live :
        /\ handle[c] \in 1 .. nextHandle - 1
        /\ \A d \in Live : handle[c] = handle[d] => c = d

\* Nobody but the client that pushed an event may answer to its handle.
EventsApart ==
    \A i \in 1 .. Len(queue) :
        /\ queue[i].handle \in 1 .. nextHandle - 1
        /\ \A c \in Live : handle[c] = queue[i].handle => c = queue[i].from

\* The registry knows only clients that were not told to stop.
Registered ==
    /\ connections \subseteq Live \ told
    /\ \A c \in Clients : stage[c] = "idle" => c \notin told

\* No client and no event of one boot is there at the next one.
BootsApart ==
    /\ engine \in {"finalized", "off"} => Live = {}
    /\ engine = "off" => queue = <<>>
    /\ engine # "off" => nextHandle > 0

RIInv == RebootTypeOK /\ HandlesApart /\ EventsApart /\ Registered /\ BootsApart /\ OwnEvents

LEMMA RebootInit == Reboot!Init => RIInv
<1>. SUFFICES ASSUME Reboot!Init PROVE RIInv
  OBVIOUS
<1>. USE DEF Reboot!Init, Reboot!Adapter!Init, Reboot!Adapter!Stages
<1>1. Live = {}
  BY DEF Live
<1>2. RebootTypeOK
  BY DEF RebootTypeOK
<1>3. HandlesApart /\ EventsApart /\ Registered /\ BootsApart
  BY <1>1 DEF HandlesApart, EventsApart, Registered, BootsApart
<1>. QED
  BY <1>2, <1>3 DEF RIInv, OwnEvents, Reboot!OwnEvents

\* What a step that starts no client leaves as it is.
LEMMA ClientsGo ==
  ASSUME RIInv, RebootTypeOK', UNCHANGED <<engine, nextHandle, handle, queue, delivered>>,
         Live' \subseteq Live, Registered'
  PROVE  RIInv'
<1>1. HandlesApart'
  BY DEF RIInv, HandlesApart
<1>2. EventsApart'
  BY DEF RIInv, EventsApart
<1>3. BootsApart'
  BY DEF RIInv, BootsApart
<1>. QED
  BY <1>1, <1>2, <1>3 DEF RIInv, OwnEvents, Reboot!OwnEvents

LEMMA ClientKeepsEventsApart ==
  ASSUME RIInv, NEW c \in Clients, Reboot!Disconnect(c) \/ Reboot!ClientStep(c)
  PROVE  RIInv'
<1>. USE DEF Reboot!Disconnect, Reboot!ClientStep, Reboot!Adapter!Disconnect, Reboot!Adapter!Decide,
     Reboot!Adapter!Pause, Reboot!Adapter!Release, Reboot!registryVars
<1>1. UNCHANGED <<engine, nextHandle, handle, queue, delivered>>
  OBVIOUS
<1>2. RebootTypeOK'
  BY <1>1 DEF RIInv, RebootTypeOK, Reboot!Adapter!Stages
<1>3. Live' \subseteq Live
  BY DEF RIInv, RebootTypeOK, Live
<1>4. Registered'
  BY DEF RIInv, RebootTypeOK, Live, Registered
<1>. QED
  BY <1>1, <1>2, <1>3, <1>4, ClientsGo

\* The new client gets a handle nobody has, and that no event bears.
LEMMA ConnectKeepsEventsApart ==
  ASSUME RIInv, NEW c \in Clients, Reboot!Connect(c)
  PROVE  RIInv'
<1>. USE DEF Reboot!Connect, Reboot!Adapter!Start
<1>1. RebootTypeOK'
  BY DEF RIInv, RebootTypeOK, Reboot!Adapter!Stages
<1>2. Live' = Live \cup {c} /\ c \notin Live
  BY DEF RIInv, RebootTypeOK, Live
<1>3. nextHandle \in Nat /\ nextHandle > 0 /\ nextHandle' = nextHandle + 1
  BY DEF RIInv, RebootTypeOK, BootsApart
<1>4. handle'[c] = nextHandle /\ \A d \in Live : handle'[d] = handle[d] /\ handle[d] \in Nat
  BY <1>2 DEF RIInv, RebootTypeOK, Live
<1>5. HandlesApart'
  BY <1>2, <1>3, <1>4 DEF RIInv, HandlesApart
<1>6. EventsApart'
  BY <1>2, <1>3, <1>4 DEF RIInv, EventsApart, RebootTypeOK
<1>7. Registered'
  BY <1>2 DEF RIInv, RebootTypeOK, Live, Registered
<1>8. BootsApart'
  BY <1>3 DEF BootsApart
<1>. QED
  BY <1>1, <1>5, <1>6, <1>7, <1>8 DEF RIInv, OwnEvents, Reboot!OwnEvents

\* The event bears the handle of the client that pushes it, which is alive.
LEMMA PushKeepsEventsApart ==
  ASSUME RIInv, NEW c \in Clients, Reboot!Push(c)
  PROVE  RIInv'
<1>. USE DEF Reboot!Push, Reboot!Adapter!Report, Reboot!Adapter!Close, Reboot!Adapter!Trail,
     Reboot!registryVars
<1>. DEFINE event == [handle |-> handle[c], from |-> c]
<1>1. c \in Live /\ Live' = Live
  BY DEF RIInv, RebootTypeOK, Live
<1>2. engine # "off" /\ queue' = Append(queue, event)
  BY <1>1 DEF RIInv, BootsApart
<1>3. UNCHANGED <<engine, nextHandle, handle, connections, delivered, told>>
  OBVIOUS
<1>4. RebootTypeOK'
  <2>1. stage' \in [Clients -> Reboot!Adapter!Stages] /\ busy' \subseteq Clients
    BY DEF RIInv, RebootTypeOK, Reboot!Adapter!Stages
  <2>2. event \in [handle : Nat, from : Clients]
    BY DEF RIInv, RebootTypeOK
  <2>3. queue' \in Seq([handle : Nat, from : Clients])
    BY <1>2, <2>2 DEF RIInv, RebootTypeOK
  <2>. QED
    BY <1>3, <2>1, <2>3 DEF RIInv, RebootTypeOK
<1>5. \A i \in 1 .. Len(queue') : queue'[i] = event \/ (i \in 1 .. Len(queue) /\ queue'[i] = queue[i])
  BY <1>2 DEF RIInv, RebootTypeOK
<1>6. event.handle \in 1 .. nextHandle - 1 /\ \A d \in Live : handle[d] = event.handle => d = event.from
  BY <1>1 DEF RIInv, HandlesApart
<1>. HIDE DEF event
<1>7. EventsApart'
  BY <1>1, <1>3, <1>5, <1>6 DEF RIInv, EventsApart
<1>8. HandlesApart' /\ BootsApart'
  BY <1>1, <1>2, <1>3 DEF RIInv, HandlesApart, BootsApart
<1>9. Registered'
  BY <1>1, <1>3 DEF RIInv, RebootTypeOK, Registered, Live
<1>. QED
  BY <1>3, <1>4, <1>7, <1>8, <1>9 DEF RIInv, OwnEvents, Reboot!OwnEvents

\* The record that is found is of a client that may push, so it is the one that did.
LEMMA DispatchFindsItsOwn ==
  ASSUME RIInv, Reboot!Dispatch
  PROVE  RIInv'
<1>. USE DEF Reboot!Dispatch, Reboot!clientVars, Reboot!registryVars
<1>1. UNCHANGED <<stage, told, busy, engine, nextHandle, handle, connections>> /\ Live' = Live
  BY DEF Live
<1>2. queue # <<>> /\ queue' = Tail(queue)
  OBVIOUS
<1>3. RebootTypeOK'
  BY <1>1, <1>2 DEF RIInv, RebootTypeOK
<1>4. Len(queue') = Len(queue) - 1 /\ \A i \in 1 .. Len(queue') : i + 1 \in 1 .. Len(queue) /\ queue'[i] = queue[i + 1]
  BY <1>2 DEF RIInv, RebootTypeOK
<1>5. EventsApart'
  BY <1>1, <1>4 DEF RIInv, EventsApart
<1>6. HandlesApart' /\ Registered'
  BY <1>1 DEF RIInv, HandlesApart, Registered
<1>7. BootsApart'
  BY <1>1 DEF RIInv, BootsApart
<1>8. OwnEvents'
  <2>1. 1 \in 1 .. Len(queue) /\ Head(queue) = queue[1]
    BY <1>2 DEF RIInv, RebootTypeOK
  <2>2. \A c \in connections : handle[c] = Head(queue).handle => c = Head(queue).from
    BY <2>1 DEF RIInv, EventsApart, Registered
  <2>. QED
    BY <2>2 DEF RIInv, OwnEvents, Reboot!OwnEvents
<1>. QED
  BY <1>3, <1>5, <1>6, <1>7, <1>8 DEF RIInv

\* The start and the end.
LEMMA EngineKeepsBootsApart ==
  ASSUME Quiesces, RIInv,
         Reboot!Boot \/ Reboot!FinalizeBegins \/ Reboot!FinalizeFlushes
           \/ Reboot!PlatformFinalizes \/ Reboot!AppFinalize
  PROVE  RIInv'
<1>. USE DEF Reboot!Boot, Reboot!FinalizeBegins, Reboot!FinalizeFlushes, Reboot!PlatformFinalizes,
     Reboot!AppFinalize, Reboot!clientVars, Reboot!registryVars
<1>1. UNCHANGED <<stage, told, busy, handle, connections, delivered>> /\ Live' = Live
  BY DEF Live
<1>2. RebootTypeOK'
  <2>1. engine' \in {"off", "on", "finalizing", "waiting", "finalized"} /\ nextHandle' \in Nat
    BY DEF RIInv, RebootTypeOK
  <2>2. queue' = queue \/ queue' = <<>>
    OBVIOUS
  <2>3. queue' \in Seq([handle : Nat, from : Clients])
    <3>1. CASE queue' = queue
      BY <3>1 DEF RIInv, RebootTypeOK
    <3>2. CASE queue' = <<>>
      BY <3>2
    <3>. QED
      BY <2>2, <3>1, <3>2
  <2>. QED
    BY <1>1, <2>1, <2>3 DEF RIInv, RebootTypeOK
<1>3. BootsApart'
  <2>1. Quiesces /\ engine' = "finalized" => Live = {}
    BY DEF RIInv, RebootTypeOK, BootsApart, Live
  <2>2. engine' = "off" => engine = "finalized" /\ queue' = <<>>
    OBVIOUS
  <2>3. engine' # "off" => nextHandle' > 0
    BY DEF RIInv, RebootTypeOK, BootsApart
  <2>. QED
    BY <1>1, <2>1, <2>2, <2>3 DEF RIInv, BootsApart
<1>4. queue' = <<>> \/ UNCHANGED <<queue, nextHandle>>
  BY DEF RIInv, BootsApart
<1>5. Live = {} \/ UNCHANGED nextHandle
  BY DEF RIInv, BootsApart
<1>6. EventsApart'
  BY <1>1, <1>4 DEF RIInv, EventsApart
<1>7. HandlesApart'
  BY <1>1, <1>5 DEF RIInv, HandlesApart
<1>8. Registered'
  BY <1>1 DEF RIInv, Registered
<1>. QED
  BY <1>1, <1>2, <1>3, <1>6, <1>7, <1>8 DEF RIInv, OwnEvents, Reboot!OwnEvents

LEMMA RebootStep == Quiesces /\ RIInv /\ [Reboot!Next]_(Reboot!vars) => RIInv'
<1>. SUFFICES ASSUME Quiesces, RIInv, [Reboot!Next]_(Reboot!vars) PROVE RIInv'
  OBVIOUS
<1>1. CASE UNCHANGED Reboot!vars
  <2>1. UNCHANGED <<stage, told, busy, engine, nextHandle, handle, connections, queue, delivered>> /\ Live' = Live
    BY <1>1 DEF Reboot!vars, Reboot!clientVars, Reboot!registryVars, Live
  <2>2. RebootTypeOK' /\ Registered'
    BY <2>1 DEF RIInv, RebootTypeOK, Registered
  <2>. QED
    BY <2>1, <2>2, ClientsGo
<1>. QED
  BY <1>1, ConnectKeepsEventsApart, ClientKeepsEventsApart, PushKeepsEventsApart, DispatchFindsItsOwn,
     EngineKeepsBootsApart DEF Reboot!Next

\* The steps of the run are those of the engine and its clients, or touch neither.
LEMMA LifeCycleReboots == [MCNext]_<<side, vars, rebootVars>> => [Reboot!Next]_(Reboot!vars)
  BY DEF MCNext, Ended, rebootVars, Reboot!vars, Reboot!clientVars, Reboot!registryVars

\* Where SSE_Platform_Finalize waits for the clients, the callback that was given to
\* sse.connect gets the events of that stream and of no other one, however often the
\* engine starts over and the handles with it.
THEOREM EventsReachTheirOwn ==
  ASSUME Quiesces PROVE MCSpec => []OwnEvents
<1>1. RIInv => OwnEvents
  BY DEF RIInv
<1>2. MCInit => RIInv
  BY RebootInit DEF MCInit
<1>3. RIInv /\ [MCNext]_<<side, vars, rebootVars>> => RIInv'
  BY RebootStep, LifeCycleReboots
<1>. QED
  BY <1>1, <1>2, <1>3, PTL DEF MCSpec

=============================================================================
