--------------------------- MODULE SSEAdaptersProofs ---------------------------
(***************************************************************************)
(* The adapters that keep one client per connection are right whatever     *)
(* their threads, blocks and timers and the network do, and for any number *)
(* of attempts: Android, then those whose operators MCSSEAdapters has      *)
(* behind the name of the platform (iOS, HTML5, Windows).  For each there  *)
(* is an inductive invariant, the properties it implies, and the steps of  *)
(* the platform contract that the steps of the adapter are.                *)
(***************************************************************************)
EXTENDS MCSSEAdapters, Integers, Sequences, TLAPS

-----------------------------------------------------------------------------
(* Android: the three threads that see a client.                           *)

\* A client that is not yet there, or not any more, and one that was told to stop.
Life ==
    /\ client = "none" => /\ ~stopped /\ ~armed /\ ~timedOut /\ tasks = {} /\ ~closed /\ ~reconnect
                          /\ at["http"] = "none" /\ at["sched"] = "none"
                          /\ last = "nothing" /\ ~connected
    /\ client = "collected" =>
          stopped /\ at["http"] = "none" /\ at["sched"] = "none"
    /\ stopped => cancelled /\ tasks = {} /\ ~armed
    /\ closed => at["http"] = "none" /\ ~WithScheduler /\ ~Pending /\ ~reconnect /\ ~armed
    /\ at["http"] \notin {"timing", "reporting", "cancelling", "starting"}
    /\ at["sched"] \notin {"waiting", "failing", "responding", "judging", "opened", "looping", "reading"}

\* The callback has not come to clearFirstResponseState.
Unanswered == at["http"] \in {"waiting", "failing", "responding"}
Reading == at["http"] \in {"judging", "opened", "looping", "reading"}
Telling == at["sched"] \in {"reporting", "cancelling"}

\* The watchdog is armed, and has left word that it fired, only before the callback
\* clears both; and one that has fired has left word.
Watched ==
    /\ armed => Unanswered
    /\ timedOut => Unanswered
    /\ "watchdog" \in tasks => armed /\ at["sched"] # "timing"
    /\ Telling /\ Unanswered => timedOut
    /\ Reading => ~Telling
    /\ timedOut => ~armed

\* What the script was or will be told of the attempt: the watchdog may still owe it.
Owed == IF at["sched"] = "reporting" THEN Again(tells) ELSE tells
Settled == Owed = IF clean THEN "never" ELSE "once"

Told ==
    /\ Unanswered => ~clean /\ Owed = IF timedOut THEN "once" ELSE "never"
    /\ Reading => ~clean /\ tells = "never"
    /\ at["http"] = "erring" => ~clean /\ tells = "never" /\ ~Telling
    /\ at["http"] \in {"ended", "deciding"} => Settled
    /\ Pending \/ closed \/ at["sched"] = "starting" => Settled
    /\ at["sched"] = "erring" => ~clean /\ tells = "never"
    /\ at["sched"] \in {"ended", "deciding"} => ~clean /\ tells = "once"

\* m_Connected is cleared on the one way out of an attempt.
Shown ==
    /\ Unanswered \/ at["http"] \in {"judging", "deciding"} => ~connected
    /\ WithScheduler \/ Pending \/ closed => ~connected

Course == OneAttempt /\ Life /\ Watched /\ Told /\ Shown
IInv == TypeOK /\ Course

LEMMA InitIInv == Init => IInv
<1>. SUFFICES ASSUME Init PROVE IInv
  OBVIOUS
<1>1. TypeOK
  <2>1. at \in [Threads -> Places]
    BY DEF Init, Places
  <2>2. /\ tasks \subseteq {"watchdog", "start"}
        /\ client \in {"none", "live", "collected"}
        /\ last \in {"nothing", "open", "message", "error", "closed"}
        /\ tells \in {"never", "once", "twice"}
    BY DEF Init
  <2>3. /\ reconnect \in BOOLEAN /\ stopped \in BOOLEAN /\ armed \in BOOLEAN /\ timedOut \in BOOLEAN
        /\ cancelled \in BOOLEAN /\ idFits \in BOOLEAN /\ connected \in BOOLEAN /\ closed \in BOOLEAN
        /\ clean \in BOOLEAN
    BY DEF Init
  <2>. QED
    BY <2>1, <2>2, <2>3 DEF TypeOK
<1>. QED
  BY <1>1 DEF Init, IInv, Course, OneAttempt, Life, Watched, Told, Shown, Threads, WithHttp,
              WithScheduler, Pending, Unanswered, Reading, Telling, Settled, Owed, Again

\* The variables keep their types, whichever thread steps.
LEMMA TypeStep ==
  ASSUME TypeOK, Next
  PROVE  TypeOK'
<1>. USE DEF HttpKeeps, NoReport, lifeVars, watchVars, reportVars
<1>1. \A t \in Threads, to \in Places : [at EXCEPT ![t] = to] \in [Threads -> Places]
  BY DEF TypeOK
<1>2. {"none", "waiting", "failing", "responding", "judging", "opened", "looping", "reading", "erring",
       "ended", "deciding", "timing", "reporting", "cancelling", "starting"} \subseteq Places
  BY DEF Places
<1>3. "http" \in Threads /\ "sched" \in Threads
  BY DEF Threads
<1>4. CASE Connect \/ Disconnect \/ Collect
  <2>1. at' \in [Threads -> Places]
    BY <1>1, <1>2, <1>3, <1>4 DEF Connect, Disconnect, Collect, Goes, TypeOK
  <2>2. CASE Connect
    BY <2>1, <2>2 DEF Connect, BeginAttempt, TypeOK
  <2>3. CASE Disconnect
    BY <2>1, <2>3 DEF Disconnect, TypeOK
  <2>4. CASE Collect
    BY <2>1, <2>4 DEF Collect, TypeOK
  <2>. QED
    BY <1>4, <2>2, <2>3, <2>4
<1>5. CASE \/ CallFails \/ CallResponds \/ OnFailure \/ OnResponse \/ ResponseRefused
           \/ ResponseOpens \/ BodyMissing \/ BodyPresent \/ ReadOn \/ ReadLine \/ ReadEnds \/ ReadFails
  <2>1. at' \in [Threads -> Places]
    BY <1>1, <1>2, <1>3, <1>5
       DEF CallFails, CallResponds, OnFailure, OnResponse, ResponseRefused, ResponseOpens, BodyMissing,
           BodyPresent, ReadOn, ReadLine, ReadEnds, ReadFails, Goes, Unless
  <2>2. armed' \in BOOLEAN /\ timedOut' \in BOOLEAN /\ tasks' \subseteq {"watchdog", "start"}
    BY <1>5 DEF CallFails, CallResponds, OnFailure, OnResponse, ClearFirstResponse, ResponseRefused,
         ResponseOpens, BodyMissing, BodyPresent, ReadOn, ReadLine, ReadEnds, ReadFails, TypeOK
  <2>3. tells' \in {"never", "once", "twice"}
    BY <1>5 DEF CallFails, CallResponds, OnFailure, OnResponse, ResponseRefused, Tells, Again,
         ResponseOpens, BodyMissing, BodyPresent, ReadOn, ReadLine, ReadEnds, ReadFails, TypeOK
  <2>4. /\ connected' \in BOOLEAN /\ closed' \in BOOLEAN /\ clean' \in BOOLEAN /\ idFits' \in BOOLEAN
        /\ last' \in {"nothing", "open", "message", "error", "closed"}
    BY <1>5 DEF CallFails, CallResponds, OnFailure, OnResponse, ResponseRefused, Tells,
         ResponseOpens, BodyMissing, BodyPresent, ReadOn, ReadLine, ReadEnds, ReadFails, TypeOK
  <2>5. UNCHANGED <<client, reconnect, stopped, cancelled>>
    BY <1>5 DEF CallFails, CallResponds, OnFailure, OnResponse, ResponseRefused,
         ResponseOpens, BodyMissing, BodyPresent, ReadOn, ReadLine, ReadEnds, ReadFails
  <2>. QED
    BY <2>1, <2>2, <2>3, <2>4, <2>5 DEF TypeOK
<1>6. ASSUME NEW t \in Threads, WayOut(t) PROVE TypeOK'
  <2>. USE DEF WayOut, Fails, Tells, Again, Disconnected, DecideStopped, DecideClosed, DecideReconnect
  <2>1. at' \in [Threads -> Places]
    BY <1>1, <1>2, <1>6 DEF Goes
  <2>2. UNCHANGED <<client, reconnect, stopped, armed, timedOut, cancelled, idFits, clean>>
    BY <1>6
  <2>3. tasks' \subseteq {"watchdog", "start"} /\ connected' \in BOOLEAN /\ closed' \in BOOLEAN
    BY <1>6 DEF TypeOK
  <2>4. /\ last' \in {"nothing", "open", "message", "error", "closed"}
        /\ tells' \in {"never", "once", "twice"}
    BY <1>6 DEF TypeOK
  <2>. QED
    BY <2>1, <2>2, <2>3, <2>4 DEF TypeOK
<1>7. CASE \/ WatchdogRuns \/ OnTimeout \/ TimeoutTold \/ TimeoutCancels
           \/ StartRuns \/ StartRefused \/ StartThrows \/ Start
  <2>. USE DEF WatchdogRuns, OnTimeout, TimeoutTold, Tells, TimeoutCancels, StartRuns, StartRefused,
               StartThrows, Start, BeginAttempt
  <2>1. at' \in [Threads -> Places]
    BY <1>1, <1>2, <1>3, <1>7 DEF Goes, Unless, TypeOK
  <2>2. UNCHANGED <<client, reconnect, stopped, idFits, connected, closed>>
    BY <1>7
  <2>3. tasks' \subseteq {"watchdog", "start"}
    BY <1>7 DEF TypeOK
  <2>4. armed' \in BOOLEAN /\ timedOut' \in BOOLEAN /\ cancelled' \in BOOLEAN /\ clean' \in BOOLEAN
    BY <1>7 DEF TypeOK
  <2>5. /\ last' \in {"nothing", "open", "message", "error", "closed"}
        /\ tells' \in {"never", "once", "twice"}
    BY <1>7 DEF TypeOK, Again
  <2>. QED
    BY <2>1, <2>2, <2>3, <2>4, <2>5 DEF TypeOK
<1>. QED
  BY <1>3, <1>4, <1>5, <1>6, <1>7 DEF Next, HttpStep, SchedStep, WireStep

\* The main thread starts the first attempt, stops the client, and lets go of it.
LEMMA MainKeeps ==
  ASSUME IInv,
         \/ Connect \/ Disconnect \/ Collect
  PROVE  Course'
<1>. USE DEF HttpKeeps, NoReport, lifeVars, watchVars, reportVars, Unless, Goes, Threads
<1>. USE DEF Course, OneAttempt, Life, Watched, Told, Shown, WithHttp, WithScheduler, Pending,
       Unanswered, Reading, Telling, Settled, Owed, Again
<1>0. at \in [Threads -> Places] /\ Course
  BY DEF IInv, TypeOK
<1>1. CASE Connect
  <2>1. at["http"] = "none" /\ at'["http"] = "waiting" /\ at'["sched"] = at["sched"]
    BY <1>0, <1>1 DEF Connect
  <2>. QED
    BY <1>0, <1>1, <2>1 DEF Connect, BeginAttempt
<1>2. CASE Disconnect
  BY <1>0, <1>2 DEF Disconnect
<1>3. CASE Collect
  BY <1>0, <1>3 DEF Collect
<1>. QED
  BY <1>1, <1>2, <1>3

\* The callback's steps up to the way out of the attempt.
LEMMA HttpKeepsCourse ==
  ASSUME IInv,
         \/ CallFails \/ CallResponds \/ OnFailure \/ OnResponse \/ ResponseRefused \/ ResponseOpens
         \/ BodyMissing \/ BodyPresent \/ ReadOn \/ ReadLine \/ ReadEnds \/ ReadFails
  PROVE  Course'
<1>. USE DEF HttpKeeps, NoReport, lifeVars, watchVars, reportVars, Unless, Goes, Threads
<1>. USE DEF Course, OneAttempt, Life, Watched, Told, Shown, WithHttp, WithScheduler, Pending,
       Unanswered, Reading, Telling, Settled, Owed, Again
<1>0. at \in [Threads -> Places] /\ Course
  BY DEF IInv, TypeOK
<1>1. CASE CallFails
  <2>1. at["http"] = "waiting" /\ at'["http"] = "failing" /\ at'["sched"] = at["sched"]
    BY <1>0, <1>1 DEF CallFails
  <2>. QED
    BY <1>0, <1>1, <2>1 DEF CallFails
<1>2. CASE CallResponds
  <2>1. at["http"] = "waiting" /\ at'["http"] = "responding" /\ at'["sched"] = at["sched"]
    BY <1>0, <1>2 DEF CallResponds
  <2>. QED
    BY <1>0, <1>2, <2>1 DEF CallResponds
<1>3. CASE OnFailure
  <2>1. at["http"] = "failing" /\ at'["http"] \in {"none", "ended", "erring"} /\ at'["sched"] = at["sched"]
    BY <1>0, <1>3 DEF OnFailure
  <2>. QED
    BY <1>0, <1>3, <2>1 DEF OnFailure, ClearFirstResponse
<1>4. CASE OnResponse
  <2>1. at["http"] = "responding" /\ at'["http"] \in {"none", "ended", "judging"} /\ at'["sched"] = at["sched"]
    BY <1>0, <1>4 DEF OnResponse
  <2>. QED
    BY <1>0, <1>4, <2>1 DEF OnResponse, ClearFirstResponse
<1>5. CASE ResponseRefused
  <2>1. at["http"] = "judging" /\ at'["http"] = "ended" /\ at'["sched"] = at["sched"]
    BY <1>0, <1>5 DEF ResponseRefused
  <2>. QED
    BY <1>0, <1>5, <2>1 DEF ResponseRefused, Tells
<1>6. CASE ResponseOpens
  <2>1. at["http"] = "judging" /\ at'["http"] = "opened" /\ at'["sched"] = at["sched"]
    BY <1>0, <1>6 DEF ResponseOpens
  <2>. QED
    BY <1>0, <1>6, <2>1 DEF ResponseOpens
<1>7. CASE BodyMissing
  <2>1. at["http"] = "opened" /\ at'["http"] = "ended" /\ at'["sched"] = at["sched"]
    BY <1>0, <1>7 DEF BodyMissing
  <2>. QED
    BY <1>0, <1>7, <2>1 DEF BodyMissing, Tells
<1>8. CASE BodyPresent
  <2>1. at["http"] = "opened" /\ at'["http"] = "looping" /\ at'["sched"] = at["sched"]
    BY <1>0, <1>8 DEF BodyPresent
  <2>. QED
    BY <1>0, <1>8, <2>1 DEF BodyPresent
<1>9. CASE ReadOn
  <2>1. at["http"] = "looping" /\ at'["http"] \in {"none", "reading"} /\ at'["sched"] = at["sched"]
    BY <1>0, <1>9 DEF ReadOn
  <2>. QED
    BY <1>0, <1>9, <2>1 DEF ReadOn
<1>10. CASE ReadLine
  <2>1. at["http"] = "reading" /\ at'["http"] = "looping" /\ at'["sched"] = at["sched"]
    BY <1>0, <1>10 DEF ReadLine
  <2>. QED
    BY <1>0, <1>10, <2>1 DEF ReadLine
<1>11. CASE ReadEnds
  <2>1. at["http"] = "reading" /\ at'["http"] \in {"none", "ended"} /\ at'["sched"] = at["sched"]
    BY <1>0, <1>11 DEF ReadEnds
  <2>. QED
    BY <1>0, <1>11, <2>1 DEF ReadEnds
<1>12. CASE ReadFails
  <2>1. at["http"] = "reading" /\ at'["http"] \in {"none", "erring"} /\ at'["sched"] = at["sched"]
    BY <1>0, <1>12 DEF ReadFails
  <2>. QED
    BY <1>0, <1>12, <2>1 DEF ReadFails
<1>. QED
  BY <1>1, <1>2, <1>3, <1>4, <1>5, <1>6, <1>7, <1>8, <1>9, <1>10, <1>11, <1>12

\* The way out of an attempt, on either thread.
LEMMA WayOutKeeps ==
  ASSUME IInv, NEW t \in Threads, WayOut(t)
  PROVE  Course'
<1>. USE DEF HttpKeeps, NoReport, lifeVars, watchVars, reportVars, Unless, Goes, Threads
<1>. USE DEF Course, OneAttempt, Life, Watched, Told, Shown, WithHttp, WithScheduler, Pending,
       Unanswered, Reading, Telling, Settled, Owed, Again
<1>0. at \in [Threads -> Places] /\ Course
  BY DEF IInv, TypeOK
<1>1. t = "http" \/ t = "sched"
  OBVIOUS
<1>2. \A u \in Threads \ {t} : at'[u] = at[u]
  BY <1>0 DEF WayOut, Fails, Disconnected, DecideStopped, DecideClosed, DecideReconnect
<1>3. CASE Fails(t)
  <2>1. at[t] = "erring" /\ at'[t] = "ended"
    BY <1>0, <1>3 DEF Fails
  <2>. QED
    BY <1>0, <1>1, <1>2, <1>3, <2>1 DEF Fails, Tells
<1>4. CASE Disconnected(t)
  <2>1. at[t] = "ended" /\ at'[t] = "deciding"
    BY <1>0, <1>4 DEF Disconnected
  <2>. QED
    BY <1>0, <1>1, <1>2, <1>4, <2>1 DEF Disconnected
<1>5. CASE DecideStopped(t)
  <2>1. at[t] = "deciding" /\ at'[t] = "none"
    BY <1>0, <1>5 DEF DecideStopped
  <2>. QED
    BY <1>0, <1>1, <1>2, <1>5, <2>1 DEF DecideStopped
<1>6. CASE DecideClosed(t)
  <2>1. at[t] = "deciding" /\ at'[t] = "none"
    BY <1>0, <1>6 DEF DecideClosed
  <2>. QED
    BY <1>0, <1>1, <1>2, <1>6, <2>1 DEF DecideClosed
<1>7. CASE DecideReconnect(t)
  <2>1. at[t] = "deciding" /\ at'[t] = "none"
    BY <1>0, <1>7 DEF DecideReconnect
  <2>. QED
    BY <1>0, <1>1, <1>2, <1>7, <2>1 DEF DecideReconnect
<1>. QED
  BY <1>3, <1>4, <1>5, <1>6, <1>7 DEF WayOut

\* The scheduler's watchdog and its reconnect.
LEMMA SchedulerKeeps ==
  ASSUME IInv,
         \/ WatchdogRuns \/ OnTimeout \/ TimeoutTold \/ TimeoutCancels \/ StartRuns \/ StartRefused
         \/ Start \/ StartThrows
  PROVE  Course'
<1>. USE DEF HttpKeeps, NoReport, lifeVars, watchVars, reportVars, Unless, Goes, Threads
<1>. USE DEF Course, OneAttempt, Life, Watched, Told, Shown, WithHttp, WithScheduler, Pending,
       Unanswered, Reading, Telling, Settled, Owed, Again
<1>0. at \in [Threads -> Places] /\ Course
  BY DEF IInv, TypeOK
<1>1. CASE WatchdogRuns
  <2>1. at["sched"] = "none" /\ at'["sched"] = "timing" /\ at'["http"] = at["http"]
    BY <1>0, <1>1 DEF WatchdogRuns
  <2>. QED
    BY <1>0, <1>1, <2>1 DEF WatchdogRuns
<1>2. CASE OnTimeout
  <2>1. at["sched"] = "timing" /\ at'["sched"] \in {"none", "reporting"} /\ at'["http"] = at["http"]
    BY <1>0, <1>2 DEF OnTimeout
  <2>2. CASE stopped \/ ~armed
    BY <1>0, <1>2, <2>1, <2>2 DEF OnTimeout
  <2>3. CASE ~stopped /\ armed
    <3>1. at'["sched"] = "reporting" /\ ~armed' /\ timedOut' /\ Unanswered /\ ~timedOut
      BY <1>0, <1>2, <2>1, <2>3 DEF OnTimeout
    <3>2. tells = "never" /\ ~clean /\ "watchdog" \notin tasks
      BY <1>0, <2>1, <3>1
    <3>. QED
      BY <1>0, <1>2, <2>1, <3>1, <3>2 DEF OnTimeout
  <2>. QED
    BY <2>2, <2>3
<1>3. CASE TimeoutTold
  <2>1. at["sched"] = "reporting" /\ at'["sched"] = "cancelling" /\ at'["http"] = at["http"]
    BY <1>0, <1>3 DEF TimeoutTold
  <2>. QED
    BY <1>0, <1>3, <2>1 DEF TimeoutTold, Tells
<1>4. CASE TimeoutCancels
  <2>1. at["sched"] = "cancelling" /\ at'["sched"] = "none" /\ at'["http"] = at["http"]
    BY <1>0, <1>4 DEF TimeoutCancels
  <2>. QED
    BY <1>0, <1>4, <2>1 DEF TimeoutCancels
<1>5. CASE StartRuns
  <2>1. at["sched"] = "none" /\ at'["sched"] = "starting" /\ at'["http"] = at["http"]
    BY <1>0, <1>5 DEF StartRuns
  <2>. QED
    BY <1>0, <1>5, <2>1 DEF StartRuns
<1>6. CASE StartRefused
  <2>1. at["sched"] = "starting" /\ at'["sched"] = "none" /\ at'["http"] = at["http"]
    BY <1>0, <1>6 DEF StartRefused
  <2>. QED
    BY <1>0, <1>6, <2>1 DEF StartRefused
<1>7. CASE Start
  <2>1. at["sched"] = "starting" /\ at'["sched"] = "none" /\ at'["http"] = "waiting"
    BY <1>0, <1>7 DEF Start
  <2>2. at["http"] = "none" /\ ~Pending /\ ~closed /\ client = client' /\ client \notin {"none", "collected"}
        /\ ~connected
    BY <1>0, <1>7, <2>1 DEF Start
  <2>3. OneAttempt' /\ Life'
    BY <1>7, <2>1, <2>2 DEF Start, BeginAttempt
  <2>4. Watched'
    BY <1>7, <2>1 DEF Start, BeginAttempt
  <2>5. Told'
    BY <1>7, <2>1, <2>2 DEF Start, BeginAttempt
  <2>6. Shown'
    BY <1>7, <2>1, <2>2 DEF Start, BeginAttempt
  <2>. QED
    BY <2>3, <2>4, <2>5, <2>6
<1>8. CASE StartThrows
  <2>1. at["sched"] = "starting" /\ at'["sched"] = "erring" /\ at'["http"] = at["http"]
    BY <1>0, <1>8 DEF StartThrows
  <2>. QED
    BY <1>0, <1>8, <2>1 DEF StartThrows
<1>. QED
  BY <1>1, <1>2, <1>3, <1>4, <1>5, <1>6, <1>7, <1>8

LEMMA Invariance == Spec => []IInv
<1>1. IInv /\ [Next]_vars => IInv'
  <2>. SUFFICES ASSUME IInv, [Next]_vars PROVE IInv'
    OBVIOUS
  <2>5. Next => TypeOK'
    BY TypeStep DEF IInv
  <2>1. CASE Connect \/ Disconnect \/ Collect
    BY <2>1, <2>5, MainKeeps DEF IInv, Next
  <2>2. CASE HttpStep \/ WireStep
    BY <2>2, HttpKeepsCourse, WayOutKeeps, <2>5 DEF HttpStep, WireStep, Threads, IInv, Next
  <2>3. CASE SchedStep
    BY <2>3, SchedulerKeeps, WayOutKeeps, <2>5 DEF SchedStep, Threads, IInv, Next
  <2>4. CASE UNCHANGED vars
    BY <2>4 DEF vars, lifeVars, watchVars, reportVars, IInv, Course, TypeOK, OneAttempt, Life, Watched, Told,
       Shown, WithHttp, WithScheduler, Pending, Unanswered, Reading, Telling, Settled, Owed, Again
  <2>. QED
    BY <2>1, <2>2, <2>3, <2>4 DEF Next
<1>. QED
  BY <1>1, InitIInv, PTL DEF Spec

\* The variables keep their types.
THEOREM TypeCorrect == Spec => []TypeOK
BY Invariance, PTL DEF IInv, Course

\* A client never has two attempts under way or scheduled.
THEOREM AttemptsAreSerial == Spec => []OneAttempt
BY Invariance, PTL DEF IInv, Course

\* The watchdog and a stream that is read exclude each other.
THEOREM TimeoutExcludesStream == Spec => []TimeoutOrStream
<1>1. IInv => TimeoutOrStream
  BY DEF IInv, Course, Watched, Told, Reading, Telling, TimeoutOrStream
<1>. QED
  BY <1>1, Invariance, PTL

\* Each attempt is told of once if it failed and not at all if it did not.
THEOREM FailureIsToldOnce == Spec => []ToldOnce
<1>1. IInv => ToldOnce
  BY DEF IInv, Course, Told, Shown, Settled, Owed, Again, WithScheduler, ToldOnce
<1>. QED
  BY <1>1, Invariance, PTL

-----------------------------------------------------------------------------
(* The contract, step by step.                                             *)

\* The state the contract sees.
StageMap == [h \in {"client"} |-> Stage]
LastMap == [h \in {"client"} |-> last]
Busy == at["http"] \in HttpBusy \/ at["sched"] \in SchedBusy
View == <<StageMap, Only(reconnect), Only(stopped), Only(Busy), LastMap>>

\* Each lemma says what a step must do to be one of the contract's.
LEMMA Stutters ==
  ASSUME UNCHANGED <<Stage, reconnect, stopped, Busy, last>>
  PROVE  UNCHANGED View
BY DEF View, StageMap, LastMap

LEMMA Decides ==
  ASSUME Stage = "running", ~Busy, Busy', ~stopped, UNCHANGED <<Stage, reconnect, stopped, last>>
  PROVE  Contract!Next
<1>1. Contract!Decide("client")
  BY DEF Contract!Decide, Only, Busy, LastMap, StageMap
<1>. QED
  BY <1>1 DEF Contract!Next

LEMMA Reports ==
  ASSUME Stage = "running", Busy, last' \in {"open", "message", "error"},
         UNCHANGED <<Stage, reconnect, stopped>>
  PROVE  Contract!Next
<1>1. Contract!Report("client")
  BY DEF Contract!Report, Only, Busy
<1>. QED
  BY <1>1 DEF Contract!Next

LEMMA Pauses ==
  ASSUME Busy, ~Busy', UNCHANGED <<Stage, reconnect, stopped, last>>
  PROVE  Contract!Next
<1>1. Contract!Pause("client")
  BY DEF Contract!Pause, Only, Busy
<1>. QED
  BY <1>1 DEF Contract!Next

LEMMA Closes ==
  ASSUME Stage = "running", Busy, ~reconnect, Stage' = "closed", last' = "closed",
         UNCHANGED <<reconnect, stopped>>
  PROVE  Contract!Next
<1>1. Contract!Close("client")
  BY DEF Contract!Close, Only, Busy
<1>. QED
  BY <1>1 DEF Contract!Next

LEMMA Trails ==
  ASSUME Stage = "closed", Busy, ~Busy', last' = "error", UNCHANGED <<Stage, reconnect, stopped>>
  PROVE  Contract!Next
<1>1. Contract!Trail("client")
  BY DEF Contract!Trail, Only, Busy
<1>. QED
  BY <1>1 DEF Contract!Next

\* Whatever the callback does on a running client: it takes up reporting only when it
\* has looked, and reports only while it has.
LEMMA ThreadRefines ==
  ASSUME Stage = "running", UNCHANGED <<Stage, reconnect, stopped>>,
         ~Busy /\ Busy' => ~stopped,
         last' = last \/ (Busy /\ last' \in {"open", "message", "error"})
  PROVE  Contract!Next \/ UNCHANGED View
<1>1. CASE last' # last
  BY <1>1, Reports
<1>2. CASE last' = last /\ ~Busy /\ Busy'
  BY <1>2, Decides
<1>3. CASE last' = last /\ Busy /\ ~Busy'
  BY <1>3, Pauses
<1>4. CASE last' = last /\ (Busy <=> Busy')
  <2>1. Busy' = Busy
    BY <1>4 DEF Busy
  <2>. QED
    BY <1>4, <2>1, Stutters
<1>. QED
  BY <1>1, <1>2, <1>3, <1>4

LEMMA MainRefines ==
  ASSUME IInv, Connect \/ Disconnect \/ Collect
  PROVE  Contract!Next
<1>. USE DEF IInv, Course, Life, reportVars, NoReport
<1>1. CASE Connect
  <2>1. Stage = "idle" /\ Stage' = "running" /\ ~Busy /\ ~Busy'
    <3>1. at["http"] = "none" /\ at["sched"] = "none" /\ at'["http"] = "waiting" /\ at'["sched"] = "none"
      BY <1>1 DEF Connect, Goes, TypeOK, Threads
    <3>. QED
      BY <1>1, <3>1 DEF Connect, Stage, Busy, HttpBusy, SchedBusy
  <2>2. Contract!Start("client")
    BY <1>1, <2>1 DEF Connect, Contract!Start, Only, Busy
  <2>. QED
    BY <2>2 DEF Contract!Next
<1>2. CASE Disconnect
  <2>1. Stage \in {"running", "closed"} /\ Stage' = Stage /\ Busy' = Busy
    BY <1>2 DEF Disconnect, Stage, Busy
  <2>2. Contract!Disconnect("client")
    BY <1>2, <2>1 DEF Disconnect, Contract!Disconnect, Only, Busy
  <2>. QED
    BY <2>2 DEF Contract!Next
<1>3. CASE Collect
  <2>1. Stage \in {"running", "closed"} /\ Stage' = "released" /\ ~Busy /\ Busy' = Busy
    BY <1>3 DEF Collect, Stage, Busy, HttpBusy, SchedBusy, Threads
  <2>2. Contract!Release("client")
    BY <1>3, <2>1 DEF Collect, Contract!Release, Only, Busy
  <2>. QED
    BY <2>2 DEF Contract!Next
<1>. QED
  BY <1>1, <1>2, <1>3

LEMMA HttpRefines ==
  ASSUME IInv,
         \/ CallFails \/ CallResponds \/ OnFailure \/ OnResponse \/ ResponseRefused
         \/ ResponseOpens \/ BodyMissing \/ BodyPresent \/ ReadOn \/ ReadLine \/ ReadEnds \/ ReadFails
  PROVE  Contract!Next \/ UNCHANGED View
<1>. USE DEF HttpKeeps, NoReport, lifeVars, watchVars, reportVars, Unless, Tells
<1>0. at \in [Threads -> Places]
  BY DEF IInv, TypeOK
<1>1. at["http"] # "none" /\ at'["sched"] = at["sched"]
  BY <1>0 DEF CallFails, CallResponds, OnFailure, OnResponse, ResponseRefused, ResponseOpens, BodyMissing,
         BodyPresent, ReadOn, ReadLine, ReadEnds, ReadFails, Goes, Threads
<1>2. UNCHANGED <<client, reconnect, stopped, closed>>
  BY DEF CallFails, CallResponds, OnFailure, OnResponse, ResponseRefused, ResponseOpens, BodyMissing,
         BodyPresent, ReadOn, ReadLine, ReadEnds, ReadFails
<1>3. client = "live" /\ ~closed
  BY <1>1 DEF IInv, Course, Life, TypeOK
<1>4. Stage = "running" /\ UNCHANGED <<Stage, reconnect, stopped>>
  BY <1>2, <1>3 DEF Stage
<1>5. ~Busy /\ Busy' => ~stopped
  <2>1. CASE CallResponds
    BY <2>1 DEF CallResponds, IInv, Course, Life
  <2>2. CASE OnFailure \/ ReadOn
    BY <1>0, <2>2 DEF OnFailure, ReadOn, Goes, Busy, HttpBusy, SchedBusy, Threads
  <2>3. CASE CallFails
    BY <1>0, <2>3 DEF CallFails, Goes, Busy, HttpBusy, SchedBusy, Threads
  <2>4. CASE \/ OnResponse \/ ResponseRefused \/ ResponseOpens \/ BodyMissing \/ BodyPresent
             \/ ReadLine \/ ReadEnds \/ ReadFails
    BY <2>4 DEF OnResponse, ResponseRefused, ResponseOpens, BodyMissing, BodyPresent, ReadLine, ReadEnds,
                ReadFails, Goes, Busy, HttpBusy
  <2>. QED
    BY <2>1, <2>2, <2>3, <2>4
<1>6. last' = last \/ (Busy /\ last' \in {"open", "message", "error"})
  <2>1. CASE CallFails \/ CallResponds \/ OnFailure \/ OnResponse \/ BodyPresent \/ ReadOn \/ ReadEnds \/ ReadFails
    BY <2>1 DEF CallFails, CallResponds, OnFailure, OnResponse, BodyPresent, ReadOn, ReadEnds, ReadFails
  <2>2. CASE ResponseRefused \/ ResponseOpens \/ BodyMissing \/ ReadLine
    BY <2>2 DEF ResponseRefused, ResponseOpens, BodyMissing, ReadLine, Goes, Busy, HttpBusy
  <2>. QED
    BY <2>1, <2>2
<1>. QED
  BY <1>4, <1>5, <1>6, ThreadRefines

LEMMA WayOutRefines ==
  ASSUME IInv, NEW t \in Threads, WayOut(t)
  PROVE  Contract!Next \/ UNCHANGED View
<1>. USE DEF HttpKeeps, NoReport, lifeVars, watchVars, reportVars
<1>1. at[t] \in {"erring", "ended", "deciding"} /\ Busy
  BY DEF WayOut, Fails, Disconnected, DecideStopped, DecideClosed, DecideReconnect, Goes, Busy, HttpBusy,
         SchedBusy, Threads
<1>2. client = "live" /\ ~closed /\ Stage = "running"
  BY <1>1 DEF IInv, Course, Life, TypeOK, WithScheduler, Stage, Threads
<1>3. CASE DecideClosed(t)
  BY <1>1, <1>2, <1>3, Closes DEF DecideClosed, Stage
<1>4. CASE Fails(t) \/ Disconnected(t) \/ DecideStopped(t) \/ DecideReconnect(t)
  <2>1. UNCHANGED <<client, reconnect, stopped, closed>> /\ last' \in {last, "error"}
    BY <1>4 DEF Fails, Tells, Disconnected, DecideStopped, DecideReconnect
  <2>2. UNCHANGED <<Stage, reconnect, stopped>>
    BY <2>1 DEF Stage
  <2>. QED
    BY <1>1, <1>2, <2>1, <2>2, ThreadRefines
<1>. QED
  BY <1>3, <1>4 DEF WayOut

\* The watchdog alone may come after CLOSED, with the error it owed.
LEMMA SchedulerRefines ==
  ASSUME IInv,
         \/ WatchdogRuns \/ OnTimeout \/ TimeoutTold \/ TimeoutCancels
         \/ StartRuns \/ StartRefused \/ Start \/ StartThrows
  PROVE  Contract!Next \/ UNCHANGED View
<1>. USE DEF HttpKeeps, NoReport, lifeVars, watchVars, reportVars, Unless
<1>0. at \in [Threads -> Places]
  BY DEF IInv, TypeOK
<1>1. UNCHANGED <<client, reconnect, stopped, closed>>
  BY DEF WatchdogRuns, OnTimeout, TimeoutTold, Tells, TimeoutCancels, StartRuns, StartRefused, Start,
         BeginAttempt, StartThrows
<1>2. UNCHANGED <<Stage, reconnect, stopped>>
  BY <1>1 DEF Stage
<1>3. CASE TimeoutTold
  <2>1. at["sched"] = "reporting" /\ at'["sched"] = "cancelling" /\ at'["http"] = at["http"] /\ Busy
    BY <1>0, <1>3 DEF TimeoutTold, Goes, Threads, Busy, SchedBusy
  <2>2. CASE closed
    <3>1. Stage = "closed" /\ ~Busy'
      BY <2>1, <2>2 DEF IInv, Course, Life, TypeOK, Stage, Busy, HttpBusy, SchedBusy
    <3>. QED
      BY <1>2, <1>3, <2>1, <3>1, Trails DEF TimeoutTold, Tells
  <2>3. CASE ~closed
    <3>1. Stage = "running"
      BY <2>1, <2>3 DEF IInv, Course, Life, TypeOK, Stage
    <3>. QED
      BY <1>2, <1>3, <2>1, <3>1, Reports DEF TimeoutTold, Tells
  <2>. QED
    BY <2>2, <2>3
<1>4. CASE OnTimeout \/ StartThrows
  <2>1. /\ at["sched"] \in {"timing", "starting"} /\ at'["http"] = at["http"] /\ last' = last
        /\ (~stopped /\ (armed \/ at["sched"] = "starting")) \/ at'["sched"] = "none"
    BY <1>0, <1>4 DEF OnTimeout, StartThrows, Goes, Threads
  <2>2. CASE at'["sched"] = "none"
    <3>1. Busy' = Busy
      BY <2>1, <2>2 DEF Busy, SchedBusy
    <3>. QED
      BY <1>2, <2>1, <3>1, Stutters
  <2>3. CASE ~stopped /\ (armed \/ at["sched"] = "starting")
    <3>1. Stage = "running"
      BY <2>1, <2>3 DEF IInv, Course, Life, TypeOK, Stage, WithScheduler
    <3>. QED
      BY <1>2, <2>1, <2>3, <3>1, ThreadRefines
  <2>. QED
    BY <2>1, <2>2, <2>3
<1>5. CASE WatchdogRuns \/ TimeoutCancels \/ StartRuns \/ StartRefused \/ Start
  <2>1. last' = last /\ at["sched"] \notin SchedBusy /\ at'["sched"] \notin SchedBusy
    BY <1>0, <1>5 DEF WatchdogRuns, TimeoutCancels, StartRuns, StartRefused, Start, Goes, Threads, SchedBusy
  <2>2. (at["http"] \in HttpBusy) = (at'["http"] \in HttpBusy)
    <3>1. CASE Start
      BY <1>0, <3>1 DEF Start, Threads, HttpBusy, IInv, Course, OneAttempt, WithHttp, WithScheduler
    <3>2. CASE ~Start
      BY <1>0, <1>5, <3>2 DEF WatchdogRuns, TimeoutCancels, StartRuns, StartRefused, Goes, Threads
    <3>. QED
      BY <3>1, <3>2
  <2>3. Busy' = Busy
    BY <2>1, <2>2 DEF Busy
  <2>. QED
    BY <1>2, <2>1, <2>3, Stutters
<1>. QED
  BY <1>3, <1>4, <1>5

\* The Android adapter keeps the contract of the platform interface: what it reports
\* after it was told to stop had been decided before, and only the watchdog's error may
\* follow CLOSED.
THEOREM KeepsContract == Spec => StreamContract
<1>1. Init => Contract!Init
  BY DEF Init, Contract!Init, Stage, Only, HttpBusy, SchedBusy, Threads
<1>2. IInv /\ [Next]_vars => [Contract!Next]_View
  <2>. SUFFICES ASSUME IInv, [Next]_vars
                PROVE  Contract!Next \/ UNCHANGED View
    OBVIOUS
  <2>1. CASE Connect \/ Disconnect \/ Collect
    BY <2>1, MainRefines
  <2>2. CASE HttpStep \/ WireStep
    BY <2>2, HttpRefines, WayOutRefines DEF HttpStep, WireStep, Threads
  <2>3. CASE SchedStep
    BY <2>3, SchedulerRefines, WayOutRefines DEF SchedStep, Threads
  <2>4. CASE UNCHANGED vars
    BY <2>4, Stutters DEF vars, lifeVars, watchVars, reportVars, Stage, Busy
  <2>. QED
    BY <2>1, <2>2, <2>3, <2>4 DEF Next
<1>3. [Contract!Next]_View => [Contract!Next]_(Contract!vars)
  BY DEF View, Contract!vars, StageMap, LastMap, Busy
<1>. QED
  BY <1>1, <1>2, <1>3, Invariance, PTL DEF Spec, StreamContract, Contract!Spec

-----------------------------------------------------------------------------
(* iOS: the blocks of the serial queue and the attempt they are about.     *)

\* What NSURLSession puts on the queue.
IosWire == {"response", "data", "complete"}
IosKinds == IosWire \cup {"start", "watchdog", "teardown"}
IosBlocks == [kind : IosKinds, of : 0 .. MaxAttempts, error : BOOLEAN]

\* The completion is the last of its task, and no block but data waits twice.
IosOrderly(q) ==
    \A i, j \in 1 .. Len(q) : i < j =>
        /\ q[i].kind = "complete" => q[j].kind \notin IosWire
        /\ q[i].kind # "data" => q[i] # q[j]

IosTypeOK ==
    /\ iosClient \in {"none", "live", "freed"}
    /\ iosReconnect \in BOOLEAN /\ iosStopped \in BOOLEAN
    /\ queue \in Seq(IosBlocks) /\ delayed \subseteq IosBlocks
    /\ iosAt \in {"idle", "reporting", "judging", "feeding", "completing", "settling", "closing"}
    /\ error \in BOOLEAN
    /\ started \in 0 .. MaxAttempts /\ current \in {0, started} /\ sessions \subseteq IOS!Attempts
    /\ task \in [IOS!Attempts -> IOS!TaskStates]
    /\ flags \subseteq {"received", "failed", "timedOut"}
    /\ iosConnected \in BOOLEAN /\ iosClosed \in BOOLEAN /\ iosClean \in BOOLEAN
    /\ iosLast \in {"nothing", "open", "message", "error", "closed"}
    /\ iosTells \in {"never", "once", "twice"}

\* Each block that waits is about the newest attempt, but for the watchdogs that went
\* off too late.
IosWaiting == delayed \cup IOS!ToSet(queue)

IosQueue ==
    /\ IosOrderly(queue)
    /\ \A b \in delayed : b.kind \in {"start", "watchdog"} /\ b \notin IOS!ToSet(queue)
    /\ \A b \in IosWaiting :
          /\ b.kind = "start" => b = IOS!Block("start", 0)
          /\ b.kind = "watchdog" => b.of \in 1 .. started /\ b = IOS!Block("watchdog", b.of)
          /\ b.kind = "response" => b = IOS!Block("response", started)
          /\ b.kind \in IosWire => b.of = started /\ started > 0
          /\ b.kind = "teardown" => iosStopped
    /\ \A a \in IOS!Attempts :
          /\ a < started => task[a] = "complete"
          /\ a > started => task[a] = "none"
          /\ a = started => task[a] # "none"

\* What a client is waiting for: it is one thing at a time.
IosWaits(kind) == \E b \in IosWaiting : b.kind = kind
IosUnderWay == started > 0 /\ task[started] # "complete"
IosLeaving == iosAt \in {"completing", "settling", "closing"}
IosAttempt == IosUnderWay \/ IosWaits("complete")

IosSerial ==
    /\ IosWaits("start") => ~IosAttempt /\ ~IosLeaving /\ ~iosClosed /\ current = 0
    /\ ~(IosUnderWay /\ IosWaits("complete"))
    /\ IosLeaving => ~IosAttempt /\ ~iosClosed
    /\ iosClosed => ~IosAttempt /\ current = 0 /\ ~iosReconnect
    /\ IosWaits("response") \/ IosWaits("data") \/ iosAt \in {"reporting", "judging", "feeding"} => IosAttempt
    /\ IosAttempt /\ (~iosStopped \/ iosAt \in {"reporting", "judging"}) => current = started
    /\ current # 0 /\ ~iosStopped => IosAttempt \/ IosLeaving
    /\ iosAt = "closing" => ~iosReconnect /\ current = 0

IosLife ==
    /\ iosClient = "none" =>
          /\ ~iosReconnect /\ ~iosStopped /\ ~iosClosed /\ iosLast = "nothing" /\ ~iosConnected
          /\ queue = <<>> /\ delayed = {} /\ started = 0 /\ iosAt = "idle"
    /\ iosClient = "freed" =>
          iosStopped /\ queue = <<>> /\ delayed = {} /\ iosAt = "idle" /\ ~IosUnderWay

\* What the script has been told of the attempt, and may still be.
IosSettled == iosTells = IF iosClean THEN "never" ELSE "once"
IosFailed == flags \cap {"failed", "timedOut"} # {}

IosTold ==
    /\ IosAttempt =>
          ~iosClean /\ iosTells = IF IosFailed /\ iosAt # "reporting" THEN "once" ELSE "never"
    /\ iosAt = "completing" =>
          /\ iosClean = (~error /\ ~IosFailed)
          /\ iosTells = IF IosFailed THEN "once" ELSE "never"
    /\ iosAt \in {"settling", "closing"} \/ iosClosed \/ (started > 0 /\ IosWaits("start")) => IosSettled
    /\ IosLeaving \/ iosClosed \/ IosWaits("start") => ~iosConnected

\* A response is answered or given up on, and each but once.
IosAnswered ==
    /\ "failed" \in flags => "received" \in flags
    /\ ~("received" \in flags /\ "timedOut" \in flags)
    /\ iosAt = "judging" => "received" \in flags /\ "failed" \notin flags
    /\ iosAt = "reporting" => "timedOut" \in flags
    /\ "timedOut" \in flags => IOS!Block("watchdog", started) \notin IosWaiting
    /\ "received" \in flags => ~IosWaits("response")
    /\ started > 0 /\ task[started] = "requesting" => ~IosWaits("response") /\ "received" \notin flags

IosIInv == IosTypeOK /\ IosQueue /\ IosSerial /\ IosLife /\ IosTold /\ IosAnswered

LEMMA ToSetOfAppend ==
  ASSUME NEW S, NEW q \in Seq(S), NEW b \in S
  PROVE  Append(q, b) \in Seq(S) /\ IOS!ToSet(Append(q, b)) = IOS!ToSet(q) \cup {b}
<1>1. \A i \in 1 .. Len(q) + 1 : Append(q, b)[i] = IF i = Len(q) + 1 THEN b ELSE q[i]
  OBVIOUS
<1>. QED
  BY <1>1 DEF IOS!ToSet

LEMMA ToSetHolds ==
  ASSUME NEW S, NEW q \in Seq(S)
  PROVE  \A k \in 1 .. Len(q) : q[k] \in IOS!ToSet(q)
BY DEF IOS!ToSet

LEMMA ToSetOfTail ==
  ASSUME NEW S, NEW q \in Seq(S), q # <<>>
  PROVE  Tail(q) \in Seq(S) /\ Head(q) \in S /\ IOS!ToSet(q) = IOS!ToSet(Tail(q)) \cup {Head(q)}
<1>1. Tail(q) \in Seq(S) /\ Head(q) \in S /\ Len(Tail(q)) = Len(q) - 1
      /\ \A i \in 1 .. Len(q) - 1 : Tail(q)[i] = q[i + 1]
  OBVIOUS
<1>0. \A k \in 1 .. Len(Tail(q)) : Tail(q)[k] \in IOS!ToSet(Tail(q))
  BY <1>1, ToSetHolds
<1>2. ASSUME NEW b \in IOS!ToSet(q) PROVE b \in IOS!ToSet(Tail(q)) \cup {Head(q)}
  <2>1. PICK i \in 1 .. Len(q) : b = q[i]
    BY <1>2 DEF IOS!ToSet
  <2>2. CASE i = 1
    BY <2>1, <2>2
  <2>3. CASE i # 1
    <3>1. i - 1 \in 1 .. Len(Tail(q)) /\ b = Tail(q)[i - 1]
      BY <1>1, <2>1, <2>3
    <3>2. Tail(q)[i - 1] \in IOS!ToSet(Tail(q))
      BY <1>0, <3>1
    <3>. QED
      BY <3>1, <3>2
  <2>. QED
    BY <2>2, <2>3
<1>3. ASSUME NEW b \in IOS!ToSet(Tail(q)) PROVE b \in IOS!ToSet(q)
  <2>1. PICK i \in 1 .. Len(Tail(q)) : b = Tail(q)[i]
    BY <1>1, <1>3 DEF IOS!ToSet
  <2>2. i + 1 \in 1 .. Len(q) /\ b = q[i + 1]
    BY <1>1, <2>1
  <2>. QED
    BY <2>2 DEF IOS!ToSet
<1>4. Head(q) \in IOS!ToSet(q)
  BY DEF IOS!ToSet
<1>. QED
  BY <1>1, <1>2, <1>3, <1>4

LEMMA IosOrderlyAppend ==
  ASSUME NEW q \in Seq(IosBlocks), NEW b \in IosBlocks, IosOrderly(q),
         b.kind # "data" => b \notin IOS!ToSet(q),
         b.kind \in IosWire => \A c \in IOS!ToSet(q) : c.kind # "complete"
  PROVE  IosOrderly(Append(q, b))
<1>1. \A i \in 1 .. Len(q) + 1 : Append(q, b)[i] = IF i = Len(q) + 1 THEN b ELSE q[i]
  OBVIOUS
<1>2. Len(Append(q, b)) = Len(q) + 1
  OBVIOUS
<1>3. \A i \in 1 .. Len(q) : q[i] \in IOS!ToSet(q)
  BY DEF IOS!ToSet
<1>4. ASSUME NEW i \in 1 .. Len(q) + 1, NEW j \in 1 .. Len(q) + 1, i < j
      PROVE  /\ Append(q, b)[i].kind = "complete" => Append(q, b)[j].kind \notin IosWire
             /\ Append(q, b)[i].kind # "data" => Append(q, b)[i] # Append(q, b)[j]
  <2>1. i \in 1 .. Len(q) /\ Append(q, b)[i] = q[i] /\ q[i] \in IOS!ToSet(q)
    BY <1>1, <1>3, <1>4
  <2>2. CASE j = Len(q) + 1
    BY <1>1, <2>1, <2>2
  <2>3. CASE j # Len(q) + 1
    <3>1. j \in 1 .. Len(q) /\ Append(q, b)[j] = q[j]
      BY <1>1, <2>3
    <3>. QED
      BY <1>4, <2>1, <3>1 DEF IosOrderly
  <2>. QED
    BY <2>2, <2>3
<1>. QED
  BY <1>2, <1>4 DEF IosOrderly

LEMMA IosOrderlyTail ==
  ASSUME NEW q \in Seq(IosBlocks), q # <<>>, IosOrderly(q)
  PROVE  /\ IosOrderly(Tail(q))
         /\ Head(q).kind # "data" => Head(q) \notin IOS!ToSet(Tail(q))
         /\ Head(q).kind = "complete" => \A c \in IOS!ToSet(Tail(q)) : c.kind \notin IosWire
<1>1. Tail(q) \in Seq(IosBlocks) /\ Len(Tail(q)) = Len(q) - 1
      /\ \A i \in 1 .. Len(q) - 1 : Tail(q)[i] = q[i + 1]
  OBVIOUS
<1>2. IosOrderly(Tail(q))
  <2>. SUFFICES ASSUME NEW i \in 1 .. Len(Tail(q)), NEW j \in 1 .. Len(Tail(q)), i < j
                PROVE  /\ Tail(q)[i].kind = "complete" => Tail(q)[j].kind \notin IosWire
                       /\ Tail(q)[i].kind # "data" => Tail(q)[i] # Tail(q)[j]
    BY DEF IosOrderly
  <2>1. i + 1 \in 1 .. Len(q) /\ j + 1 \in 1 .. Len(q) /\ i + 1 < j + 1
        /\ Tail(q)[i] = q[i + 1] /\ Tail(q)[j] = q[j + 1]
    BY <1>1
  <2>. QED
    BY <2>1 DEF IosOrderly
<1>3. ASSUME NEW c \in IOS!ToSet(Tail(q))
      PROVE  /\ Head(q).kind = "complete" => c.kind \notin IosWire
             /\ Head(q).kind # "data" => Head(q) # c
  <2>1. PICK i \in 1 .. Len(Tail(q)) : c = Tail(q)[i]
    BY <1>1 DEF IOS!ToSet
  <2>2. i + 1 \in 1 .. Len(q) /\ 1 \in 1 .. Len(q) /\ 1 < i + 1 /\ c = q[i + 1] /\ Head(q) = q[1]
    BY <1>1, <2>1
  <2>. QED
    BY <2>2 DEF IosOrderly
<1>. QED
  BY <1>2, <1>3

\* What it is that begins to run, and what is left behind it.
LEMMA IosRuns ==
  ASSUME IosIInv, NEW kind, IOS!Runs(kind)
  PROVE  /\ iosClient = "live" /\ iosAt = "idle"
         /\ queue' \in Seq(IosBlocks) /\ IosOrderly(queue')
         /\ Head(queue) \in IosBlocks /\ Head(queue).kind = kind
         /\ Head(queue) \notin delayed
         /\ IOS!ToSet(queue) = IOS!ToSet(queue') \cup {Head(queue)}
         /\ kind # "data" => Head(queue) \notin IOS!ToSet(queue')
         /\ kind \in IosWire => Head(queue).of = started /\ started > 0 /\ IosAttempt
         /\ kind = "complete" => \A c \in IOS!ToSet(queue') : c.kind \notin IosWire
<1>1. /\ queue # <<>> /\ queue \in Seq(IosBlocks) /\ IosOrderly(queue)
      /\ queue' = Tail(queue) /\ Head(queue).kind = kind
      /\ iosAt = "idle" /\ iosClient \in {"none", "live", "freed"}
  BY DEF IOS!Runs, IosIInv, IosTypeOK, IosQueue
<1>2. iosClient = "live"
  BY <1>1 DEF IosIInv, IosLife
<1>3. /\ queue' \in Seq(IosBlocks) /\ Head(queue) \in IosBlocks
      /\ IOS!ToSet(queue) = IOS!ToSet(queue') \cup {Head(queue)}
  BY <1>1, ToSetOfTail
<1>4. /\ IosOrderly(queue')
      /\ kind # "data" => Head(queue) \notin IOS!ToSet(queue')
      /\ kind = "complete" => \A c \in IOS!ToSet(queue') : c.kind \notin IosWire
  BY <1>1, IosOrderlyTail
<1>5. Head(queue) \notin delayed
  BY <1>3 DEF IosIInv, IosQueue
<1>6. kind \in IosWire => Head(queue).of = started /\ started > 0 /\ IosAttempt
  BY <1>1, <1>3 DEF IosIInv, IosQueue, IosSerial, IosWaiting, IosWaits, IosAttempt, IosWire
<1>. QED
  BY <1>1, <1>2, <1>3, <1>4, <1>5, <1>6

\* A block is put behind those that wait.
LEMMA IosPuts ==
  ASSUME IosTypeOK, IosQueue, NEW b \in IosBlocks, queue' = Append(queue, b),
         b.kind # "data" => b \notin IOS!ToSet(queue),
         b.kind \in IosWire => \A c \in IOS!ToSet(queue) : c.kind # "complete"
  PROVE  /\ queue' \in Seq(IosBlocks) /\ IosOrderly(queue') /\ queue' # <<>>
         /\ IOS!ToSet(queue') = IOS!ToSet(queue) \cup {b}
<1>1. queue \in Seq(IosBlocks) /\ IosOrderly(queue)
  BY DEF IosTypeOK, IosQueue
<1>. QED
  BY <1>1, ToSetOfAppend, IosOrderlyAppend

LEMMA IosInit == IOS!Init => IosIInv
<1>. SUFFICES ASSUME IOS!Init PROVE IosIInv
  OBVIOUS
<1>. USE DEF IOS!Init
<1>1. IosTypeOK
  <2>1. /\ queue \in Seq(IosBlocks) /\ delayed \subseteq IosBlocks
        /\ started \in 0 .. MaxAttempts /\ current \in {0, started} /\ sessions \subseteq IOS!Attempts
        /\ flags \subseteq {"received", "failed", "timedOut"}
    BY MaxAttemptsAssumption
  <2>2. task \in [IOS!Attempts -> IOS!TaskStates]
    BY DEF IOS!TaskStates
  <2>3. /\ iosReconnect \in BOOLEAN /\ iosStopped \in BOOLEAN /\ error \in BOOLEAN
        /\ iosConnected \in BOOLEAN /\ iosClosed \in BOOLEAN /\ iosClean \in BOOLEAN
    OBVIOUS
  <2>. QED
    BY <2>1, <2>2, <2>3 DEF IosTypeOK
<1>2. IosWaiting = {} /\ IosOrderly(queue) /\ IOS!ToSet(queue) = {}
  BY DEF IosWaiting, IosOrderly, IOS!ToSet
<1>3. IosQueue /\ IosSerial /\ IosLife
  BY <1>2 DEF IosQueue, IosSerial, IosLife, IosWaits, IosUnderWay, IosAttempt, IosLeaving, IOS!Attempts
<1>4. IosTold /\ IosAnswered
  BY <1>2 DEF IosTold, IosAnswered, IosWaits, IosUnderWay, IosAttempt, IosLeaving
<1>. QED
  BY <1>1, <1>3, <1>4 DEF IosIInv

\* The main thread, libdispatch, and the end of the client.
LEMMA IosOutsideKeeps ==
  ASSUME IosIInv, IOS!Connect \/ IOS!Disconnect \/ IOS!DelayEnds \/ IOS!Dealloc
  PROVE  IosIInv'
<1>. USE DEF IosIInv, IosTypeOK, IosBlocks, IosKinds, IosWire, IosQueue, IosWaiting, IosSerial, IosLeaving,
     IosAttempt, IosUnderWay, IosWaits, IosLife, IosTold, IosSettled, IosFailed, IosAnswered,
     IOS!TaskStates, IOS!Attempts, IOS!Block, IOS!Completion, IOS!lifeVars, IOS!requestVars, IOS!reportVars,
     IOS!NoReport
<1>1. CASE IOS!Connect
  <2>a. IOS!Block("start", 0) \in IosBlocks /\ queue = <<>> /\ queue' = <<IOS!Block("start", 0)>>
    BY <1>1, MaxAttemptsAssumption DEF IOS!Connect
  <2>b. IOS!ToSet(queue) = {}
    BY <2>a DEF IOS!ToSet
  <2>1. IOS!Block("start", 0) \in IosBlocks /\ queue' = Append(queue, IOS!Block("start", 0))
        /\ IOS!ToSet(queue) = {}
    BY <2>a, <2>b
  <2>2. /\ queue' \in Seq(IosBlocks) /\ IosOrderly(queue') /\ queue' # <<>>
        /\ IOS!ToSet(queue') = IOS!ToSet(queue) \cup {IOS!Block("start", 0)}
    BY <2>1, IosPuts
  <2>. QED
    BY <1>1, <2>2 DEF IOS!Connect
<1>2. CASE IOS!Disconnect
  <2>1. IOS!Block("teardown", 0) \in IosBlocks
    BY MaxAttemptsAssumption
  <2>2. IOS!Block("teardown", 0) \notin IOS!ToSet(queue)
    BY <1>2 DEF IOS!Disconnect
  <2>3. /\ queue' \in Seq(IosBlocks) /\ IosOrderly(queue') /\ queue' # <<>>
        /\ IOS!ToSet(queue') = IOS!ToSet(queue) \cup {IOS!Block("teardown", 0)}
    BY <1>2, <2>1, <2>2, IosPuts DEF IOS!Disconnect
  <2>. QED
    BY <1>2, <2>3 DEF IOS!Disconnect
<1>3. CASE IOS!DelayEnds
  <2>1. PICK b \in delayed : delayed' = delayed \ {b} /\ queue' = Append(queue, b)
    BY <1>3 DEF IOS!DelayEnds
  <2>2. /\ queue' \in Seq(IosBlocks) /\ IosOrderly(queue') /\ queue' # <<>>
        /\ IOS!ToSet(queue') = IOS!ToSet(queue) \cup {b}
    BY <2>1, IosPuts
  <2>3. IosWaiting' = IosWaiting
    BY <2>1, <2>2
  <2>4. IosTypeOK'
    BY <1>3, <2>1, <2>2, <2>3 DEF IOS!DelayEnds
  <2>c. UNCHANGED <<started, task, iosStopped>> /\ b \notin delayed'
    BY <1>3, <2>1 DEF IOS!DelayEnds
  <2>7. IosQueue'
    <3>1. \A c \in delayed' : c.kind \in {"start", "watchdog"} /\ c \notin IOS!ToSet(queue')
      BY <2>1, <2>2
    <3>. QED
      BY <2>2, <2>3, <2>c, <3>1
  <2>5. IosSerial' /\ IosLife'
    BY <1>3, <2>1, <2>2, <2>3 DEF IOS!DelayEnds
  <2>d. UNCHANGED <<iosAt, error, started, current, task, flags, iosStopped, iosConnected, iosClosed, iosTells, iosClean>>
    BY <1>3 DEF IOS!DelayEnds
  <2>6. IosTold' /\ IosAnswered'
    BY <2>3, <2>d
  <2>. QED
    BY <2>4, <2>5, <2>6, <2>7
<1>4. CASE IOS!Dealloc
  BY <1>4 DEF IOS!Dealloc
<1>. QED
  BY <1>1, <1>2, <1>3, <1>4

\* The blocks of the queue as they begin.
LEMMA IosBlocksKeep ==
  ASSUME IosIInv,
         \/ IOS!StartRefused \/ IOS!Start \/ IOS!Watchdog \/ IOS!ResponseRefused \/ IOS!Response
         \/ IOS!Data \/ IOS!Complete \/ IOS!Teardown
  PROVE  IosIInv'
<1>. USE DEF IosIInv, IosTypeOK, IosBlocks, IosKinds, IosWire, IosQueue, IosWaiting, IosSerial, IosLeaving,
     IosAttempt, IosUnderWay, IosWaits, IosLife, IosTold, IosSettled, IosFailed, IosAnswered,
     IOS!TaskStates, IOS!Attempts, IOS!Block, IOS!Completion, IOS!lifeVars, IOS!requestVars, IOS!reportVars,
     IOS!NoReport
<1>1. CASE IOS!StartRefused
  <2>1. /\ iosClient = "live" /\ iosAt = "idle"
        /\ queue' \in Seq(IosBlocks) /\ IosOrderly(queue')
        /\ Head(queue) \in IosBlocks /\ Head(queue).kind = "start" /\ Head(queue) \notin delayed
        /\ IOS!ToSet(queue) = IOS!ToSet(queue') \cup {Head(queue)}
        /\ Head(queue) \notin IOS!ToSet(queue')
    BY <1>1, IosRuns DEF IOS!StartRefused
  <2>. QED
    BY <1>1, <2>1 DEF IOS!StartRefused
<1>2. CASE IOS!Start
  <2>1. /\ iosClient = "live" /\ iosAt = "idle"
        /\ queue' \in Seq(IosBlocks) /\ IosOrderly(queue')
        /\ Head(queue) \in IosBlocks /\ Head(queue).kind = "start" /\ Head(queue) \notin delayed
        /\ IOS!ToSet(queue) = IOS!ToSet(queue') \cup {Head(queue)}
        /\ Head(queue) \notin IOS!ToSet(queue')
    BY <1>2, IosRuns DEF IOS!Start
  <2>a. ~IosAttempt /\ ~IosLeaving /\ ~iosClosed /\ started < MaxAttempts /\ ~iosStopped
    BY <1>2, <2>1 DEF IOS!Start
  <2>b. \A b \in IosWaiting : b.kind \notin IosWire
    BY <2>a
  <2>c. Head(queue) = IOS!Block("start", 0) /\ \A b \in IosWaiting : b.kind = "start" => b = Head(queue)
    BY <2>1
  <2>2. /\ ~IosAttempt /\ ~IosLeaving /\ ~iosClosed /\ started < MaxAttempts /\ ~iosStopped
        /\ \A b \in IosWaiting : b.kind \notin IosWire
    BY <2>a, <2>b
  <2>3. /\ started' = started + 1 /\ started' \in IOS!Attempts /\ current' = started'
        /\ task' = [task EXCEPT ![started'] = "requesting"] /\ flags' = {}
        /\ sessions' = sessions \cup {started'}
        /\ IosWaiting' = (IosWaiting \ {Head(queue)}) \cup {IOS!Block("watchdog", started')}
        /\ delayed' = delayed \cup {IOS!Block("watchdog", started')}
    BY <1>2, <2>1, MaxAttemptsAssumption DEF IOS!Start
  <2>4. /\ UNCHANGED <<iosClient, iosReconnect, iosStopped, iosAt, error, iosConnected, iosLast, iosClosed>>
        /\ iosTells' = "never" /\ iosClean' = FALSE
    BY <1>2 DEF IOS!Start
  <2>5. IosTypeOK'
    <3>1. IOS!Block("watchdog", started') \in IosBlocks /\ started' \in 0 .. MaxAttempts
      BY <2>2, <2>3, MaxAttemptsAssumption
    <3>2. sessions' \subseteq IOS!Attempts /\ task' \in [IOS!Attempts -> IOS!TaskStates]
      BY <2>3
    <3>. QED
      BY <2>1, <2>3, <2>4, <3>1, <3>2
  <2>d. task'[started'] = "requesting" /\ \A a \in IOS!Attempts : a # started' => task'[a] = task[a]
    BY <2>3
  <2>6. IosQueue'
    <3>1. IOS!Block("watchdog", started') \notin IosWaiting
      BY <2>3
    <3>2. \A a \in IOS!Attempts : a < started' => a <= started
      BY <2>3
    <3>3. \A a \in IOS!Attempts :
             /\ a < started' => task'[a] = "complete"
             /\ a > started' => task'[a] = "none"
             /\ a = started' => task'[a] # "none"
      BY <2>2, <2>3, <2>d, <3>2
    <3>4. \A b \in IosWaiting' : b.kind \notin IosWire /\ (b.kind = "watchdog" => b.of \in 1 .. started')
      BY <2>2, <2>3
    <3>. QED
      BY <2>1, <2>2, <2>3, <2>4, <3>1, <3>3, <3>4
  <2>7. IosSerial' /\ IosLife'
    <3>1. IosUnderWay' /\ ~IosWaits("complete")' /\ ~IosWaits("start")' /\ ~IosLeaving'
      BY <2>1, <2>2, <2>3, <2>4, <2>c, <2>d
    <3>. QED
      BY <2>1, <2>2, <2>3, <2>4, <3>1
  <2>8. IosTold' /\ IosAnswered'
    <3>1. IosUnderWay' /\ ~IosWaits("response")' /\ ~IosWaits("start")' /\ ~IosLeaving'
      BY <2>1, <2>2, <2>3, <2>4, <2>c, <2>d
    <3>. QED
      BY <2>1, <2>2, <2>3, <2>4, <3>1
  <2>. QED
    BY <2>5, <2>6, <2>7, <2>8
<1>3. CASE IOS!Watchdog
  <2>1. /\ iosClient = "live" /\ iosAt = "idle"
        /\ queue' \in Seq(IosBlocks) /\ IosOrderly(queue')
        /\ Head(queue) \in IosBlocks /\ Head(queue).kind = "watchdog" /\ Head(queue) \notin delayed
        /\ IOS!ToSet(queue) = IOS!ToSet(queue') \cup {Head(queue)}
        /\ Head(queue) \notin IOS!ToSet(queue')
    BY <1>3, IosRuns DEF IOS!Watchdog
  <2>2. CASE ~IOS!Bites
    BY <1>3, <2>1, <2>2 DEF IOS!Watchdog
  <2>3. CASE IOS!Bites
    <3>1. /\ Head(queue) = IOS!Block("watchdog", started) /\ current = started /\ ~iosStopped
          /\ "received" \notin flags /\ IosAttempt
      BY <2>1, <2>3 DEF IOS!Bites, IOS!of
    <3>2. "timedOut" \notin flags /\ "failed" \notin flags
      BY <2>1, <3>1
    <3>3. /\ iosAt' = "reporting" /\ flags' = flags \cup {"timedOut"}
          /\ UNCHANGED <<iosClient, iosReconnect, iosStopped, delayed, error, started, current, sessions, task,
                         iosConnected, iosLast, iosClosed, iosTells, iosClean>>
      BY <1>3, <2>3 DEF IOS!Watchdog
    <3>4. IosTypeOK' /\ IosQueue'
      BY <2>1, <3>3
    <3>5. IosSerial' /\ IosLife'
      BY <2>1, <3>1, <3>3
    <3>6. IosTold'
      <4>1. IosFailed' /\ ~iosClean /\ iosTells = "never"
        BY <2>1, <3>1, <3>2, <3>3
      <4>2. ~IosLeaving' /\ ~iosClosed' /\ ~IosWaits("start")'
        BY <2>1, <3>1, <3>3
      <4>. QED
        BY <3>3, <4>1, <4>2
    <3>7. IosAnswered'
      BY <2>1, <3>1, <3>2, <3>3
    <3>. QED
      BY <3>4, <3>5, <3>6, <3>7
  <2>. QED
    BY <2>2, <2>3
<1>4. CASE IOS!ResponseRefused
  <2>1. /\ iosClient = "live" /\ iosAt = "idle"
        /\ queue' \in Seq(IosBlocks) /\ IosOrderly(queue')
        /\ Head(queue) \in IosBlocks /\ Head(queue).kind = "response" /\ Head(queue) \notin delayed
        /\ IOS!ToSet(queue) = IOS!ToSet(queue') \cup {Head(queue)}
        /\ Head(queue) \notin IOS!ToSet(queue')
        /\ Head(queue).of = started /\ started > 0 /\ IosAttempt
    BY <1>4, IosRuns DEF IOS!ResponseRefused
  <2>. QED
    BY <1>4, <2>1 DEF IOS!ResponseRefused, IOS!Cancelled, IOS!of
<1>5. CASE IOS!Response
  <2>1. /\ iosClient = "live" /\ iosAt = "idle"
        /\ queue' \in Seq(IosBlocks) /\ IosOrderly(queue')
        /\ Head(queue) \in IosBlocks /\ Head(queue).kind = "response" /\ Head(queue) \notin delayed
        /\ IOS!ToSet(queue) = IOS!ToSet(queue') \cup {Head(queue)}
        /\ Head(queue) \notin IOS!ToSet(queue')
        /\ Head(queue).of = started /\ started > 0 /\ IosAttempt
    BY <1>5, IosRuns DEF IOS!Response
  <2>2. IosTypeOK' /\ IosQueue'
    BY <1>5, <2>1 DEF IOS!Response, IOS!of
  <2>3. IosSerial' /\ IosLife'
    BY <1>5, <2>1 DEF IOS!Response, IOS!of
  <2>4. IosTold'
    BY <1>5, <2>1 DEF IOS!Response, IOS!of
  <2>5. IosAnswered'
    <3>1. Head(queue) = IOS!Block("response", started) /\ \A b \in IosWaiting : b.kind = "response" => b = Head(queue)
      BY <2>1
    <3>2. ~IosWaits("response")'
      BY <1>5, <2>1, <3>1 DEF IOS!Response
    <3>3. /\ iosAt' = "judging" /\ flags' = flags \cup {"received"} /\ "timedOut" \notin flags /\ "failed" \notin flags
          /\ task[started] # "requesting" /\ task' = task /\ started' = started
      BY <1>5, <2>1 DEF IOS!Response
    <3>. QED
      BY <3>2, <3>3
  <2>. QED
    BY <2>2, <2>3, <2>4, <2>5
<1>6. CASE IOS!Data
  <2>1. /\ iosClient = "live" /\ iosAt = "idle"
        /\ queue' \in Seq(IosBlocks) /\ IosOrderly(queue')
        /\ Head(queue) \in IosBlocks /\ Head(queue).kind = "data" /\ Head(queue) \notin delayed
        /\ IOS!ToSet(queue) = IOS!ToSet(queue') \cup {Head(queue)}
        /\ Head(queue).of = started /\ started > 0 /\ IosAttempt
    BY <1>6, IosRuns DEF IOS!Data
  <2>. QED
    BY <1>6, <2>1 DEF IOS!Data
<1>7. CASE IOS!Complete
  <2>1. /\ iosClient = "live" /\ iosAt = "idle"
        /\ queue' \in Seq(IosBlocks) /\ IosOrderly(queue')
        /\ Head(queue) \in IosBlocks /\ Head(queue).kind = "complete" /\ Head(queue) \notin delayed
        /\ IOS!ToSet(queue) = IOS!ToSet(queue') \cup {Head(queue)}
        /\ Head(queue) \notin IOS!ToSet(queue')
        /\ Head(queue).of = started /\ started > 0 /\ IosAttempt
        /\ \A c \in IOS!ToSet(queue') : c.kind \notin IosWire
    BY <1>7, IosRuns DEF IOS!Complete
  <2>2. IosTypeOK' /\ IosQueue'
    BY <1>7, <2>1 DEF IOS!Complete
  <2>3. IosSerial' /\ IosLife'
    BY <1>7, <2>1 DEF IOS!Complete
  <2>4. IosTold'
    BY <1>7, <2>1 DEF IOS!Complete
  <2>5. IosAnswered'
    BY <1>7, <2>1 DEF IOS!Complete
  <2>. QED
    BY <2>2, <2>3, <2>4, <2>5
<1>8. CASE IOS!Teardown
  <2>1. /\ iosClient = "live" /\ iosAt = "idle"
        /\ queue' \in Seq(IosBlocks) /\ IosOrderly(queue')
        /\ Head(queue) \in IosBlocks /\ Head(queue).kind = "teardown" /\ Head(queue) \notin delayed
        /\ IOS!ToSet(queue) = IOS!ToSet(queue') \cup {Head(queue)}
        /\ Head(queue) \notin IOS!ToSet(queue')
    BY <1>8, IosRuns DEF IOS!Teardown
  <2>. QED
    BY <1>8, <2>1 DEF IOS!Teardown, IOS!Cancelled
<1>. QED
  BY <1>1, <1>2, <1>3, <1>4, <1>5, <1>6, <1>7, <1>8

\* The rest of a block, with its reports.
LEMMA IosReportsKeep ==
  ASSUME IosIInv,
         \/ IOS!TimeoutTold \/ IOS!StatusFails \/ IOS!StatusOpens \/ IOS!DataReports \/ IOS!DataEnds
         \/ IOS!CompletionTold \/ IOS!Settle \/ IOS!Close
  PROVE  IosIInv'
<1>. USE DEF IosIInv, IosTypeOK, IosBlocks, IosKinds, IosWire, IosQueue, IosWaiting, IosSerial, IosLeaving,
     IosAttempt, IosUnderWay, IosWaits, IosLife, IosTold, IosSettled, IosFailed, IosAnswered,
     IOS!TaskStates, IOS!Attempts, IOS!Block, IOS!Completion, IOS!lifeVars, IOS!requestVars, IOS!reportVars,
     IOS!NoReport
<1>0. iosClient = "live"
  BY DEF IOS!TimeoutTold, IOS!StatusFails, IOS!StatusOpens, IOS!DataReports, IOS!DataEnds, IOS!CompletionTold,
     IOS!Settle, IOS!Close
<1>1. CASE IOS!TimeoutTold
  BY <1>0, <1>1 DEF IOS!TimeoutTold, IOS!Tells, IOS!Again, IOS!Cancelled
<1>2. CASE IOS!StatusFails
  BY <1>0, <1>2 DEF IOS!StatusFails, IOS!Tells, IOS!Again, IOS!Cancelled
<1>3. CASE IOS!StatusOpens
  BY <1>0, <1>3 DEF IOS!StatusOpens
<1>4. CASE IOS!DataReports
  BY <1>0, <1>4 DEF IOS!DataReports
<1>5. CASE IOS!DataEnds
  BY <1>0, <1>5 DEF IOS!DataEnds
<1>6. CASE IOS!CompletionTold
  <2>1. IosTypeOK' /\ IosQueue'
    BY <1>0, <1>6 DEF IOS!CompletionTold, IOS!Untold, IOS!Tells, IOS!Again
  <2>2. IosSerial' /\ IosLife'
    BY <1>0, <1>6 DEF IOS!CompletionTold, IOS!Untold, IOS!Tells, IOS!Again
  <2>3. IosTold' /\ IosAnswered'
    BY <1>0, <1>6 DEF IOS!CompletionTold, IOS!Untold, IOS!Tells, IOS!Again
  <2>. QED
    BY <2>1, <2>2, <2>3
<1>7. CASE IOS!Settle
  <2>a. IOS!Block("start", 0) \in IosBlocks
    BY MaxAttemptsAssumption
  <2>b. sessions' \subseteq IOS!Attempts /\ flags' \subseteq flags
    BY <1>7 DEF IOS!Settle
  <2>1. delayed' \subseteq IosBlocks /\ sessions' \subseteq IOS!Attempts /\ flags' \subseteq flags
    BY <1>7, <2>a, <2>b DEF IOS!Settle
  <2>2. IosTypeOK'
    BY <1>7, <2>1 DEF IOS!Settle
  <2>3. IosQueue' /\ IosSerial' /\ IosLife'
    BY <1>0, <1>7 DEF IOS!Settle
  <2>4. IosTold' /\ IosAnswered'
    BY <1>0, <1>7 DEF IOS!Settle
  <2>. QED
    BY <2>2, <2>3, <2>4
<1>8. CASE IOS!Close
  <2>2. IosTypeOK' /\ IosQueue'
    BY <1>8, <1>0 DEF IOS!Close
  <2>3. IosSerial' /\ IosLife'
    BY <1>8, <1>0 DEF IOS!Close
  <2>4. IosTold'
    BY <1>8, <1>0 DEF IOS!Close
  <2>5. IosAnswered'
    BY <1>8, <1>0 DEF IOS!Close
  <2>. QED
    BY <2>2, <2>3, <2>4, <2>5
<1>. QED
  BY <1>1, <1>2, <1>3, <1>4, <1>5, <1>6, <1>7, <1>8

\* NSURLSession.
LEMMA IosWireKeeps ==
  ASSUME IosIInv, IOS!WireStep
  PROVE  IosIInv'
<1>. USE DEF IosIInv, IosTypeOK, IosBlocks, IosKinds, IosWire, IosQueue, IosWaiting, IosSerial, IosLeaving,
     IosAttempt, IosUnderWay, IosWaits, IosLife, IosTold, IosSettled, IosFailed, IosAnswered,
     IOS!TaskStates, IOS!Attempts, IOS!Block, IOS!Completion, IOS!lifeVars, IOS!requestVars, IOS!reportVars,
     IOS!NoReport
<1>. SUFFICES ASSUME NEW a \in IOS!Attempts,
                    IOS!TaskAnswers(a) \/ IOS!TaskDelivers(a) \/ IOS!TaskEnds(a) \/ IOS!TaskFails(a)
              PROVE  IosIInv'
  BY DEF IOS!WireStep
<1>1. CASE IOS!TaskAnswers(a)
  <2>1. /\ a = started /\ task[a] \in {"requesting"} /\ task' = [task EXCEPT ![a] = "answered"]
        /\ UNCHANGED <<iosClient, iosReconnect, iosStopped, delayed, iosAt, error, started, current, sessions, flags,
                       iosConnected, iosLast, iosClosed, iosTells, iosClean>>
    BY <1>1 DEF IOS!TaskAnswers, IOS!TaskDelivers, IOS!External
  <2>2. IOS!Block("response", a) \in IosBlocks /\ queue' = Append(queue, IOS!Block("response", a))
    BY <1>1 DEF IOS!TaskAnswers, IOS!TaskDelivers, IOS!External
  <2>3. /\ queue' \in Seq(IosBlocks) /\ IosOrderly(queue') /\ queue' # <<>>
        /\ IOS!ToSet(queue') = IOS!ToSet(queue) \cup {IOS!Block("response", a)}
    BY <2>1, <2>2, IosPuts
  <2>4. iosClient = "live"
    BY <2>1
  <2>. QED
    BY <2>1, <2>3, <2>4
<1>2. CASE IOS!TaskDelivers(a)
  <2>1. /\ a = started /\ task[a] \in {"streaming"} /\ task' = [task EXCEPT ![a] = "streaming"]
        /\ UNCHANGED <<iosClient, iosReconnect, iosStopped, delayed, iosAt, error, started, current, sessions, flags,
                       iosConnected, iosLast, iosClosed, iosTells, iosClean>>
    BY <1>2 DEF IOS!TaskAnswers, IOS!TaskDelivers, IOS!External
  <2>2. IOS!Block("data", a) \in IosBlocks /\ queue' = Append(queue, IOS!Block("data", a))
    BY <1>2 DEF IOS!TaskAnswers, IOS!TaskDelivers, IOS!External
  <2>3. /\ queue' \in Seq(IosBlocks) /\ IosOrderly(queue') /\ queue' # <<>>
        /\ IOS!ToSet(queue') = IOS!ToSet(queue) \cup {IOS!Block("data", a)}
    BY <2>1, <2>2, IosPuts
  <2>4. iosClient = "live"
    BY <2>1
  <2>. QED
    BY <2>1, <2>3, <2>4
<1>3. CASE IOS!TaskEnds(a) \/ IOS!TaskFails(a)
  <2>1. /\ task[a] \in {"requesting", "answered", "streaming", "cancelled"}
        /\ task' = [task EXCEPT ![a] = "complete"]
        /\ UNCHANGED <<iosClient, iosReconnect, iosStopped, delayed, iosAt, error, started, current, sessions, flags,
                       iosConnected, iosLast, iosClosed, iosTells, iosClean>>
    BY <1>3 DEF IOS!TaskEnds, IOS!TaskFails, IOS!External
  <2>a. a = started
    BY <2>1
  <2>2. PICK e \in BOOLEAN : queue' = Append(queue, IOS!Completion(a, e))
    BY <1>3 DEF IOS!TaskEnds, IOS!TaskFails, IOS!External
  <2>b. IOS!Completion(a, e) \in IosBlocks /\ \A c \in IOS!ToSet(queue) : c.kind # "complete"
    BY <2>1, <2>a
  <2>3. /\ queue' \in Seq(IosBlocks) /\ IosOrderly(queue') /\ queue' # <<>>
        /\ IOS!ToSet(queue') = IOS!ToSet(queue) \cup {IOS!Completion(a, e)}
    BY <2>2, <2>b, IosPuts
  <2>4. iosClient = "live"
    BY <2>1, <2>a
  <2>. QED
    BY <2>1, <2>a, <2>3, <2>4
<1>. QED
  BY <1>1, <1>2, <1>3

LEMMA IosInvariance == IOS!Spec => []IosIInv
<1>1. IosIInv /\ [IOS!Next]_(IOS!vars) => IosIInv'
  <2>1. CASE UNCHANGED IOS!vars
    BY <2>1 DEF IOS!vars, IOS!lifeVars, IOS!requestVars, IOS!reportVars, IosIInv, IosTypeOK, IosQueue, IosWaiting,
       IosSerial, IosLeaving, IosAttempt, IosUnderWay, IosWaits, IosLife, IosTold, IosSettled, IosFailed, IosAnswered
  <2>. QED
    BY <2>1, IosOutsideKeeps, IosBlocksKeep, IosReportsKeep, IosWireKeeps DEF IOS!Next, IOS!QueueStep
<1>. QED
  BY <1>1, IosInit, PTL DEF IOS!Spec

\* An attempt on iOS that failed is told of once, one that came to its end not at all.
THEOREM IosFailureIsToldOnce == IOS!Spec => []IOSToldOnce
<1>1. IosIInv => IOSToldOnce
  BY DEF IosIInv, IosTold, IosSettled, IosWaits, IosWaiting, IOS!Block, IOSToldOnce, IOS!ToldOnce
<1>. QED
  BY <1>1, IosInvariance, PTL

\* The state the contract sees.
IosBusy == iosAt \notin {"idle", "settling"}
IosStages == [h \in {"client"} |-> IOS!Stage]
IosLasts == [h \in {"client"} |-> iosLast]
IosView == <<IosStages, IOS!Only(iosReconnect), IOS!Only(iosStopped), IOS!Only(IosBusy), IosLasts>>

\* A block reports only while the contract has it busy: such a step is one of the
\* contract's, which leaves it to the adapter when to take reporting up.
LEMMA IosWorks ==
  ASSUME IOS!Stage = "running", UNCHANGED <<IOS!Stage, iosReconnect, iosStopped>>,
         iosLast' = iosLast \/ (IosBusy /\ iosLast' \in {"open", "message", "error"})
  PROVE  IOS!Contract!Next \/ UNCHANGED IosView
<1>. USE DEF IOS!Only, IosBusy
<1>1. CASE iosLast' # iosLast
  <2>1. IOS!Contract!Report("client")
    BY <1>1 DEF IOS!Contract!Report
  <2>. QED
    BY <2>1 DEF IOS!Contract!Next
<1>2. CASE iosLast' = iosLast /\ ~IosBusy /\ IosBusy'
  <2>1. IOS!Contract!Decide("client")
    BY <1>2 DEF IOS!Contract!Decide
  <2>. QED
    BY <2>1 DEF IOS!Contract!Next
<1>3. CASE iosLast' = iosLast /\ IosBusy /\ ~IosBusy'
  <2>1. IOS!Contract!Pause("client")
    BY <1>3 DEF IOS!Contract!Pause
  <2>. QED
    BY <2>1 DEF IOS!Contract!Next
<1>4. CASE iosLast' = iosLast /\ (IosBusy <=> IosBusy')
  BY <1>4 DEF IosView, IosStages, IosLasts
<1>. QED
  BY <1>1, <1>2, <1>3, <1>4

\* What is done to the client from outside its queue.
LEMMA IosOutsideRefines ==
  ASSUME IosIInv, \/ IOS!Connect \/ IOS!Disconnect \/ IOS!DelayEnds \/ IOS!Dealloc \/ IOS!WireStep
  PROVE  IOS!Contract!Next \/ UNCHANGED IosView
<1>. USE DEF IosIInv, IosTypeOK, IosLife, IosBusy, IOS!Stage, IOS!Only, IOS!reportVars
<1>1. CASE IOS!Connect
  <2>1. IOS!Contract!Start("client")
    BY <1>1 DEF IOS!Connect, IOS!Contract!Start
  <2>. QED
    BY <2>1 DEF IOS!Contract!Next
<1>2. CASE IOS!Disconnect
  <2>1. IOS!Contract!Disconnect("client")
    BY <1>2 DEF IOS!Disconnect, IOS!Contract!Disconnect
  <2>. QED
    BY <2>1 DEF IOS!Contract!Next
<1>3. CASE IOS!Dealloc
  <2>1. IOS!Contract!Release("client")
    BY <1>3 DEF IOS!Dealloc, IOS!Contract!Release
  <2>. QED
    BY <2>1 DEF IOS!Contract!Next
<1>4. CASE IOS!DelayEnds \/ IOS!WireStep
  <2>1. UNCHANGED <<iosClient, iosReconnect, iosStopped, iosClosed, iosAt, iosLast>>
    BY <1>4 DEF IOS!DelayEnds, IOS!WireStep, IOS!TaskAnswers, IOS!TaskDelivers, IOS!TaskEnds, IOS!TaskFails,
       IOS!External, IOS!lifeVars
  <2>. QED
    BY <2>1 DEF IosView, IosStages, IosLasts
<1>. QED
  BY <1>1, <1>2, <1>3, <1>4

\* What the blocks of the queue do.
LEMMA IosBlocksRefine ==
  ASSUME IosIInv, IOS!QueueStep \/ IOS!DataReports
  PROVE  IOS!Contract!Next \/ UNCHANGED IosView
<1>. USE DEF IOS!lifeVars, IOS!NoReport, IOS!reportVars, IosBusy
<1>1. CASE IOS!Close
  <2>1. IOS!Contract!Close("client")
    BY <1>1 DEF IOS!Close, IOS!Contract!Close, IOS!Stage, IOS!Only, IosIInv, IosTypeOK, IosLife, IosSerial, IosLeaving
  <2>. QED
    BY <2>1 DEF IOS!Contract!Next
<1>2. CASE IOS!StartRefused \/ IOS!Start \/ IOS!ResponseRefused \/ IOS!Teardown
  <2>1. UNCHANGED <<iosClient, iosReconnect, iosStopped, iosClosed, iosAt, iosLast>>
    BY <1>2 DEF IOS!StartRefused, IOS!Start, IOS!ResponseRefused, IOS!Teardown
  <2>. QED
    BY <2>1 DEF IosView, IosStages, IosLasts, IOS!Stage
<1>3. CASE IOS!Watchdog \/ IOS!Response \/ IOS!Data \/ IOS!Complete
  <2>1. UNCHANGED <<iosClient, iosReconnect, iosStopped, iosClosed, iosLast>> /\ iosAt = "idle"
    BY <1>3 DEF IOS!Watchdog, IOS!Response, IOS!Data, IOS!Complete, IOS!Runs
  <2>2. CASE iosAt' = iosAt
    BY <2>1, <2>2 DEF IosView, IosStages, IosLasts, IOS!Stage
  <2>3. CASE iosAt' # iosAt
    <3>1. iosClient = "live"
      BY <1>3, IosRuns DEF IOS!Watchdog, IOS!Response, IOS!Data, IOS!Complete
    <3>2. ~iosClosed
      <4>1. CASE IOS!Response \/ IOS!Data \/ IOS!Complete
        BY <4>1, IosRuns DEF IOS!Response, IOS!Data, IOS!Complete, IosWire, IosIInv, IosSerial
      <4>2. CASE IOS!Watchdog
        <5>1. IOS!Bites /\ Head(queue).kind = "watchdog" /\ Head(queue) \in IosWaiting
          BY <2>1, <2>3, <4>2, IosRuns DEF IOS!Watchdog, IosWaiting
        <5>2. current # 0
          BY <5>1 DEF IOS!Bites, IOS!of, IosIInv, IosTypeOK, IosQueue
        <5>. QED
          BY <5>2 DEF IosIInv, IosSerial
      <4>. QED
        BY <1>3, <4>1, <4>2
    <3>3. IOS!Stage = "running" /\ UNCHANGED IOS!Stage
      BY <2>1, <3>1, <3>2 DEF IOS!Stage, IosIInv, IosTypeOK
    <3>. QED
      BY <2>1, <3>3, IosWorks
  <2>. QED
    BY <2>2, <2>3
<1>4. CASE \/ IOS!TimeoutTold \/ IOS!StatusFails \/ IOS!StatusOpens \/ IOS!DataReports \/ IOS!DataEnds
           \/ IOS!CompletionTold \/ IOS!Settle
  <2>1. UNCHANGED <<iosClient, iosReconnect, iosStopped, iosClosed>> /\ iosAt # "idle"
    BY <1>4 DEF IOS!TimeoutTold, IOS!StatusFails, IOS!StatusOpens, IOS!DataReports, IOS!DataEnds,
       IOS!CompletionTold, IOS!Settle, IOS!Tells
  <2>2. iosLast' = iosLast \/ (IosBusy /\ iosLast' \in {"open", "message", "error"})
    BY <1>4 DEF IOS!TimeoutTold, IOS!StatusFails, IOS!StatusOpens, IOS!DataReports, IOS!DataEnds,
       IOS!CompletionTold, IOS!Settle, IOS!Tells
  <2>3. iosClient = "live" /\ ~iosClosed
    BY <2>1 DEF IosIInv, IosTypeOK, IosLife, IosSerial, IosLeaving
  <2>4. IOS!Stage = "running" /\ UNCHANGED IOS!Stage
    BY <2>1, <2>3 DEF IOS!Stage, IosIInv, IosTypeOK
  <2>. QED
    BY <2>1, <2>2, <2>4, IosWorks
<1>. QED
  BY <1>1, <1>2, <1>3, <1>4 DEF IOS!QueueStep

\* The iOS adapter keeps the contract of the platform interface, with late data.
THEOREM IosKeepsContract == IOS!Spec => IOSStreamContract
<1>1. IOS!Init => IOS!Contract!Init
  BY DEF IOS!Init, IOS!Contract!Init, IOS!Stage, IOS!Only
<1>2. IosIInv /\ [IOS!Next]_(IOS!vars) => [IOS!Contract!Next]_IosView
  <2>1. CASE UNCHANGED IOS!vars
    BY <2>1 DEF IOS!vars, IOS!lifeVars, IOS!reportVars, IosView, IosStages, IosLasts, IosBusy, IOS!Stage
  <2>. QED
    BY <2>1, IosOutsideRefines, IosBlocksRefine DEF IOS!Next
<1>3. [IOS!Contract!Next]_IosView => [IOS!Contract!Next]_(IOS!Contract!vars)
  BY DEF IosView, IOS!Contract!vars, IosStages, IosLasts, IosBusy
<1>. QED
  BY <1>1, <1>2, <1>3, IosInvariance, PTL
  DEF IOS!Spec, IOSStreamContract, IOS!StreamContract, IOS!Contract!Spec

-----------------------------------------------------------------------------
(* HTML5: the client of a page.                                            *)

WebTypeOK ==
    /\ webClient \in {"none", "live", "gone"}
    /\ supported \in BOOLEAN /\ webReconnect \in BOOLEAN /\ webStopped \in BOOLEAN
    /\ aborted \in BOOLEAN /\ webArmed \in BOOLEAN /\ gotResponse \in BOOLEAN /\ webTimedOut \in BOOLEAN
    /\ webIdFits \in BOOLEAN /\ webAt \in Html5!Suspended \cup Html5!Running
    /\ webConnected \in BOOLEAN /\ webClosed \in BOOLEAN /\ webClean \in BOOLEAN
    /\ webLast \in {"nothing", "open", "message", "error", "closed"}
    /\ webTells \in {"never", "once", "twice"}

\* A client that is not yet there, not any more, or on a page that cannot stream.
WebLife ==
    /\ webClient = "none" <=> webAt = "none"
    /\ webClient = "none" => ~webStopped /\ ~webClosed /\ ~webReconnect /\ webLast = "nothing"
    /\ webClient = "gone" => webStopped /\ webAt = "over"
    /\ webClosed => webAt = "over" /\ ~(webReconnect /\ supported)
    /\ webAt \in {"lacking", "lackingTold"} => ~supported
    /\ ~supported => webAt \in {"none", "starting", "lacking", "lackingTold", "over"}

\* A function whose client is stopped waits for something that can only be refused, or
\* is on its way to its end past every report.
WebStops ==
    webStopped => \/ webAt \in {"starting", "caught", "pausing", "over"}
                  \/ webAt \in {"fetching", "reading"} /\ aborted

\* What the script has been told of the attempt, from place to place.
WebSettled == webTells = IF webClean THEN "never" ELSE "once"

WebTold ==
    /\ webAt \in {"none", "lacking", "fetching", "judging", "looping", "reading", "chunk", "caught", "erring"}
          => ~webClean /\ webTells = "never"
    /\ webAt = "starting" /\ ~supported => ~webClean /\ webTells = "never"
    /\ webAt = "lackingTold" => ~webClean /\ webTells = "once"
    /\ webAt = "rest" => webClean /\ webTells = "never"
    /\ webAt \in {"ended", "deciding", "pausing"} \/ webClosed => WebSettled

WebShown ==
    webAt \in {"none", "starting", "lacking", "lackingTold", "deciding", "pausing"} \/ webClosed => ~webConnected

WebIInv == WebTypeOK /\ WebLife /\ WebStops /\ WebTold /\ WebShown

LEMMA WebInvariance == Html5!Spec => []WebIInv
<1>1. Html5!Init => WebIInv
  BY DEF Html5!Init, WebIInv, WebTypeOK, WebLife, WebStops, WebTold, WebSettled, WebShown, Html5!Suspended, Html5!Running
<1>2. WebIInv /\ [Html5!Next]_(Html5!vars) => WebIInv'
  <2>. SUFFICES ASSUME WebIInv, [Html5!Next]_(Html5!vars) PROVE WebIInv'
    OBVIOUS
  <2>. USE DEF WebIInv, WebTypeOK, WebLife, WebStops, WebTold, WebSettled, WebShown, Html5!Suspended, Html5!Running,
       Html5!Goes, Html5!Keeps, Html5!NoReport, Html5!lifeVars, Html5!attemptVars, Html5!reportVars
  <2>1. CASE Html5!Connect
    BY <2>1 DEF Html5!Connect
  <2>2. CASE Html5!Disconnect
    BY <2>2 DEF Html5!Disconnect, Html5!Stops
  <2>3. CASE Html5!Collect
    BY <2>3 DEF Html5!Collect
  <2>4. CASE Html5!StartRefused
    BY <2>4 DEF Html5!StartRefused
  <2>5. CASE Html5!StartLacks
    BY <2>5 DEF Html5!StartLacks
  <2>6. CASE Html5!LackTold
    BY <2>6 DEF Html5!LackTold, Html5!Tells, Html5!Again
  <2>7. CASE Html5!LackCloses
    BY <2>7 DEF Html5!LackCloses
  <2>8. CASE Html5!Start
    BY <2>8 DEF Html5!Start
  <2>9. CASE Html5!WatchdogFires
    <3>1. /\ aborted' \in BOOLEAN /\ webTimedOut' \in BOOLEAN /\ webArmed' \in BOOLEAN
          /\ aborted => aborted'
      BY <2>9 DEF Html5!WatchdogFires
    <3>2. UNCHANGED <<Html5!lifeVars, gotResponse, webIdFits, webAt, Html5!reportVars, webClean>>
      BY <2>9 DEF Html5!WatchdogFires
    <3>. QED
      BY <3>1, <3>2
  <2>10. CASE Html5!Response
    BY <2>10 DEF Html5!Response
  <2>11. CASE Html5!ResponseRefused
    BY <2>11 DEF Html5!ResponseRefused, Html5!Tells, Html5!Again
  <2>12. CASE Html5!ResponseOpens
    BY <2>12 DEF Html5!ResponseOpens
  <2>13. CASE Html5!ReadOn
    BY <2>13 DEF Html5!ReadOn
  <2>14. CASE Html5!ChunkArrives
    BY <2>14 DEF Html5!ChunkArrives
  <2>15. CASE Html5!ChunkReports
    BY <2>15 DEF Html5!ChunkReports, Html5!Reports
  <2>16. CASE Html5!ChunkEnds
    BY <2>16 DEF Html5!ChunkEnds
  <2>17. CASE Html5!StreamEnds
    BY <2>17 DEF Html5!StreamEnds
  <2>18. CASE Html5!RestReports
    BY <2>18 DEF Html5!RestReports, Html5!Reports
  <2>19. CASE Html5!RestIsQuiet
    BY <2>19 DEF Html5!RestIsQuiet
  <2>20. CASE Html5!Rejects
    BY <2>20 DEF Html5!Rejects
  <2>21. CASE Html5!Caught
    BY <2>21 DEF Html5!Caught
  <2>22. CASE Html5!CaughtStopped
    BY <2>22 DEF Html5!CaughtStopped
  <2>23. CASE Html5!Fails
    BY <2>23 DEF Html5!Fails, Html5!Tells, Html5!Again
  <2>24. CASE Html5!Disconnected
    <3>1. /\ webAt = "ended" /\ webAt' = "deciding" /\ webConnected' = FALSE
          /\ UNCHANGED <<webClient, supported, webReconnect, webStopped, aborted, webArmed, gotResponse, webTimedOut,
                         webIdFits, webLast, webClosed, webTells, webClean>>
      BY <2>24 DEF Html5!Disconnected
    <3>2. WebTypeOK'
      <4>1. webConnected' \in BOOLEAN
        BY <3>1
      <4>. QED
        BY <3>1, <4>1
    <3>3. WebLife' /\ WebStops'
      BY <3>1
    <3>4. WebTold' /\ WebShown'
      BY <3>1
    <3>. QED
      BY <3>2, <3>3, <3>4
  <2>25. CASE Html5!DecideClosed
    BY <2>25 DEF Html5!DecideClosed
  <2>26. CASE Html5!DecideReconnect
    BY <2>26 DEF Html5!DecideReconnect
  <2>27. CASE Html5!PauseEnds
    BY <2>27 DEF Html5!PauseEnds
  <2>28. CASE UNCHANGED Html5!vars
    BY <2>28 DEF Html5!vars
  <2>. QED
    BY <2>1, <2>2, <2>3, <2>4, <2>5, <2>6, <2>7, <2>8, <2>9, <2>10, <2>11, <2>12, <2>13, <2>14, <2>15, <2>16, <2>17, <2>18, <2>19, <2>20, <2>21, <2>22, <2>23, <2>24, <2>25, <2>26, <2>27, <2>28 DEF Html5!Next, Html5!OwnStep, Html5!WireStep
<1>. QED
  BY <1>1, <1>2, PTL DEF Html5!Spec

\* Html5ToldOnce: whatever the reads, the watchdog and sse_disconnect do, a failed attempt
\* of the HTML5 adapter is told once before the next one starts.
THEOREM WebFailureIsToldOnce == Html5!Spec => []Html5ToldOnce
<1>1. WebIInv => Html5ToldOnce
  BY DEF WebIInv, WebTold, WebSettled, WebShown, Html5ToldOnce, Html5!ToldOnce
<1>. QED
  BY <1>1, WebInvariance, PTL

\* The state the contract sees.
WebBusy == webAt \in Html5!Running \ {"starting", "caught"}
WebStages == [h \in {"client"} |-> Html5!Stage]
WebLasts == [h \in {"client"} |-> webLast]
WebView ==
    <<WebStages, Html5!Only(webReconnect /\ supported), Html5!Only(webStopped), Html5!Only(WebBusy), WebLasts>>

\* The function takes up reporting only for a client that is not stopped, and reports
\* only while it has: such a step is one of the contract's.
LEMMA WebRuns ==
  ASSUME Html5!Stage = "running", UNCHANGED <<Html5!Stage, webReconnect, supported, webStopped>>,
         ~WebBusy /\ WebBusy' => ~webStopped,
         webLast' = webLast \/ (WebBusy /\ webLast' \in {"open", "message", "error"})
  PROVE  Html5!Contract!Next \/ UNCHANGED WebView
<1>. USE DEF Html5!Only, WebBusy
<1>1. CASE webLast' # webLast
  <2>1. Html5!Contract!Report("client")
    BY <1>1 DEF Html5!Contract!Report
  <2>. QED
    BY <2>1 DEF Html5!Contract!Next
<1>2. CASE webLast' = webLast /\ ~WebBusy /\ WebBusy'
  <2>1. Html5!Contract!Decide("client")
    BY <1>2 DEF Html5!Contract!Decide
  <2>. QED
    BY <2>1 DEF Html5!Contract!Next
<1>3. CASE webLast' = webLast /\ WebBusy /\ ~WebBusy'
  <2>1. Html5!Contract!Pause("client")
    BY <1>3 DEF Html5!Contract!Pause
  <2>. QED
    BY <2>1 DEF Html5!Contract!Next
<1>4. CASE webLast' = webLast /\ (WebBusy <=> WebBusy')
  BY <1>4 DEF WebView, WebStages, WebLasts
<1>. QED
  BY <1>1, <1>2, <1>3, <1>4

\* What the engine does to the connection.
LEMMA WebEngineRefines ==
  ASSUME WebIInv, Html5!Connect \/ Html5!Disconnect \/ Html5!Collect
  PROVE  Html5!Contract!Next
<1>. USE DEF WebIInv, WebTypeOK, WebLife, Html5!Stage, Html5!Only, Html5!NoReport, Html5!reportVars
<1>1. CASE Html5!Connect
  <2>1. Html5!Contract!Start("client")
    BY <1>1 DEF Html5!Connect, Html5!Goes, Html5!Contract!Start, Html5!Running
  <2>. QED
    BY <2>1 DEF Html5!Contract!Next
<1>2. CASE Html5!Disconnect
  <2>1. Html5!Contract!Disconnect("client")
    BY <1>2 DEF Html5!Disconnect, Html5!Stops, Html5!Contract!Disconnect
  <2>. QED
    BY <2>1 DEF Html5!Contract!Next
<1>3. CASE Html5!Collect
  <2>1. Html5!Contract!Release("client")
    BY <1>3 DEF Html5!Collect, Html5!Contract!Release, Html5!Running
  <2>. QED
    BY <2>1 DEF Html5!Contract!Next
<1>. QED
  BY <1>1, <1>2, <1>3

\* CLOSED, where the page cannot stream or the stream does not reconnect.
LEMMA WebCloses ==
  ASSUME WebIInv, Html5!LackCloses \/ Html5!DecideClosed
  PROVE  Html5!Contract!Next
<1>1. webAt \in {"lackingTold", "deciding"} /\ webAt' = "over" /\ webLast' = "closed" /\ webClosed'
      /\ UNCHANGED <<webClient, supported, webReconnect, webStopped>>
  BY DEF Html5!LackCloses, Html5!DecideClosed, Html5!Goes, Html5!Keeps, Html5!lifeVars
<1>2. ~(webReconnect /\ supported)
  BY <1>1 DEF WebIInv, WebLife, Html5!LackCloses, Html5!DecideClosed, Html5!Goes
<1>3. Html5!Contract!Close("client")
  BY <1>1, <1>2 DEF WebIInv, WebTypeOK, WebLife, Html5!Stage, Html5!Only, Html5!Running, Html5!Contract!Close
<1>. QED
  BY <1>3 DEF Html5!Contract!Next

\* A client that is stopped: its function only goes where it has nothing to report.
LEMMA WebStopped ==
  ASSUME WebIInv, webStopped, Html5!OwnStep \/ Html5!WireStep
  PROVE  webAt' \notin Html5!Running \ {"starting", "caught"} /\ UNCHANGED Html5!reportVars
<1>. USE DEF Html5!Goes, Html5!NoReport, Html5!Running
<1>1. webAt \in {"starting", "caught", "pausing", "over"} \/ (webAt \in {"fetching", "reading"} /\ aborted)
  BY DEF WebIInv, WebStops
<1>2. Html5!StartRefused \/ Html5!WatchdogFires \/ Html5!Rejects \/ Html5!CaughtStopped \/ Html5!PauseEnds
  BY <1>1 DEF Html5!OwnStep, Html5!WireStep, Html5!StartLacks, Html5!LackTold, Html5!LackCloses, Html5!Start,
     Html5!Response, Html5!ResponseRefused, Html5!ResponseOpens, Html5!ReadOn, Html5!ChunkArrives,
     Html5!ChunkReports, Html5!ChunkEnds, Html5!StreamEnds, Html5!RestReports, Html5!RestIsQuiet, Html5!Caught,
     Html5!Fails, Html5!Disconnected, Html5!DecideClosed, Html5!DecideReconnect
<1>3. CASE Html5!WatchdogFires
  BY <1>1, <1>3 DEF Html5!WatchdogFires
<1>4. CASE Html5!StartRefused \/ Html5!Rejects \/ Html5!CaughtStopped \/ Html5!PauseEnds
  BY <1>4 DEF Html5!StartRefused, Html5!Rejects, Html5!CaughtStopped, Html5!PauseEnds
<1>. QED
  BY <1>2, <1>3, <1>4

\* Every other step of the function, of a timer or of the network.
LEMMA WebFunctionRefines ==
  ASSUME WebIInv, Html5!OwnStep \/ Html5!WireStep, ~(Html5!LackCloses \/ Html5!DecideClosed)
  PROVE  Html5!Contract!Next \/ UNCHANGED WebView
<1>. USE DEF Html5!Goes, Html5!Keeps, Html5!NoReport, Html5!lifeVars, Html5!reportVars
<1>1. /\ UNCHANGED <<webClient, supported, webReconnect, webStopped, webClosed>>
      /\ webLast' = webLast \/ (WebBusy /\ webLast' \in {"open", "message", "error"})
      /\ webAt \notin {"none", "over"} \/ UNCHANGED <<webAt, webLast>>
  <2>1. CASE \/ Html5!LackTold \/ Html5!ResponseRefused \/ Html5!ResponseOpens \/ Html5!ChunkReports
             \/ Html5!RestReports \/ Html5!Fails
    BY <2>1 DEF Html5!LackTold, Html5!ResponseRefused, Html5!ResponseOpens, Html5!ChunkReports,
       Html5!RestReports, Html5!Fails, Html5!Reports, Html5!Tells, WebBusy, Html5!Running
  <2>2. CASE \/ Html5!StartRefused \/ Html5!StartLacks \/ Html5!Start \/ Html5!Response \/ Html5!ReadOn
             \/ Html5!ChunkArrives \/ Html5!ChunkEnds \/ Html5!StreamEnds
    BY <2>2 DEF Html5!StartRefused, Html5!StartLacks, Html5!Start, Html5!Response, Html5!ReadOn,
       Html5!ChunkArrives, Html5!ChunkEnds, Html5!StreamEnds
  <2>3. CASE \/ Html5!RestIsQuiet \/ Html5!Rejects \/ Html5!Caught \/ Html5!CaughtStopped
             \/ Html5!Disconnected \/ Html5!DecideReconnect \/ Html5!PauseEnds
    BY <2>3 DEF Html5!RestIsQuiet, Html5!Rejects, Html5!Caught, Html5!CaughtStopped, Html5!Disconnected,
       Html5!DecideReconnect, Html5!PauseEnds
  <2>4. CASE Html5!WatchdogFires
    BY <2>4 DEF Html5!WatchdogFires
  <2>. QED
    BY <2>1, <2>2, <2>3, <2>4 DEF Html5!OwnStep, Html5!WireStep
<1>2. CASE webAt \in {"none", "over"}
  BY <1>1, <1>2 DEF WebView, WebStages, WebLasts, WebBusy, Html5!Stage
<1>3. CASE webAt \notin {"none", "over"}
  <2>1. Html5!Stage = "running" /\ Html5!Stage' = Html5!Stage
    BY <1>1, <1>3 DEF WebIInv, WebTypeOK, WebLife, Html5!Stage
  <2>2. ~WebBusy /\ WebBusy' => ~webStopped
    BY WebStopped DEF WebBusy
  <2>. QED
    BY <1>1, <2>1, <2>2, WebRuns
<1>. QED
  BY <1>2, <1>3

\* After the call that stops it the client of a page is silent, whatever its function
\* was waiting for.
THEOREM WebStoppedSaysNothing == Html5!Spec => Html5StoppedIsSilent
<1>1. WebIInv /\ [Html5!Next]_(Html5!vars) => [webStopped => UNCHANGED Html5!reportVars]_(Html5!vars)
  BY WebStopped DEF Html5!Next, Html5!Connect, Html5!Disconnect, Html5!Collect, Html5!NoReport
<1>. QED
  BY <1>1, WebInvariance, PTL DEF Html5!Spec, Html5StoppedIsSilent, Html5!StoppedIsSilent

\* The HTML5 adapter keeps the contract of the platform interface to the letter.
THEOREM WebKeepsContract == Html5!Spec => Html5StreamContract
<1>1. Html5!Init => Html5!Contract!Init
  BY DEF Html5!Init, Html5!Contract!Init, Html5!Stage, Html5!Only, Html5!Running
<1>2. WebIInv /\ [Html5!Next]_(Html5!vars) => [Html5!Contract!Next]_WebView
  <2>1. CASE UNCHANGED Html5!vars
    BY <2>1 DEF Html5!vars, Html5!lifeVars, Html5!reportVars, WebView, WebStages, WebLasts, WebBusy, Html5!Stage
  <2>. QED
    BY <2>1, WebEngineRefines, WebCloses, WebFunctionRefines DEF Html5!Next
<1>3. [Html5!Contract!Next]_WebView => [Html5!Contract!Next]_(Html5!Contract!vars)
  BY DEF WebView, Html5!Contract!vars, WebStages, WebLasts, WebBusy
<1>. QED
  BY <1>1, <1>2, <1>3, WebInvariance, PTL
  DEF Html5!Spec, Html5StreamContract, Html5!StreamContract, Html5!Contract!Spec

-----------------------------------------------------------------------------
(* Windows: the record, the worker and the handles of a connection.        *)

\* The worker has a request under way, or reads its stream.
WinRequesting == {"requesting", "responded", "looping", "waiting", "inner", "reading", "feeding"}
\* It has handles to make, or to show to the main thread.
WinPublishing == {"creating", "created", "published", "closing"}
WinOutside ==
    {"none", "top", "begin", "closes", "performed", "ended", "down", "failing", "pausing", "leaving",
     "last", "finish", "exiting", "exited"}
WinMainPlaces == {"off", "engine", "disconnect", "join", "takes", "closes", "joinLast"}

WinTypeOK ==
    /\ main \in WinMainPlaces
    /\ zombie \in BOOLEAN /\ platformData \in BOOLEAN /\ allocated \in BOOLEAN
    /\ winReconnect \in BOOLEAN /\ stop \in BOOLEAN /\ finished \in BOOLEAN
    /\ worker \in WinRequesting \cup WinPublishing \cup WinOutside
    /\ created \in 0 .. WinHttp!Request
    /\ open \subseteq WinHttp!Handles /\ published \subseteq WinHttp!Handles
    /\ mine \subseteq WinHttp!Handles /\ taken \subseteq WinHttp!Handles
    /\ result \in BOOLEAN /\ winConnected \in BOOLEAN
    /\ winLast \in {"nothing", "open", "message", "error", "closed"}

\* Who holds the record, and what it has been told.
WinLife ==
    /\ worker = "none" =>
          ~allocated /\ ~platformData /\ ~stop /\ ~zombie /\ ~winReconnect /\ winLast = "nothing"
    /\ worker \notin {"none", "exited"} => allocated
    /\ platformData => allocated /\ ~stop /\ ~zombie
    /\ zombie => stop /\ allocated
    /\ main \in {"disconnect", "join", "takes", "closes", "joinLast"} => stop /\ allocated /\ ~platformData
    /\ finished => worker \in {"exiting", "exited"}

\* Whose the handles are: nothing is published, or about to be closed, but for its time.
WinOwned ==
    /\ published \subseteq WinHttp!Session .. created
    /\ worker \in WinOutside => published = {}
    /\ worker = "creating" => created < WinHttp!Request
    /\ worker = "created" => created # 0
    /\ mine # {} => worker = "closes"
    /\ taken # {} => main = "closes"
    /\ WinHttp!HandlesOwned

\* Once the shutdown has taken the handles a worker makes new ones, and looks at the stop
\* flag before it puts them to use.
WinAborted == main \in {"closes", "joinLast"} /\ worker \in WinRequesting => published = {}

WinSaid ==
    /\ winLast = "closed" => worker \in {"finish", "exiting", "exited"} /\ ~winReconnect
    /\ worker = "leaving" => stop \/ ~winReconnect
    /\ worker = "last" => ~winReconnect

WinIInv == WinTypeOK /\ WinLife /\ WinOwned /\ WinAborted /\ WinSaid

LEMMA WinInit == WinHttp!Init => WinIInv
<1>. SUFFICES ASSUME WinHttp!Init PROVE WinIInv
  OBVIOUS
<1>. USE DEF WinHttp!Init, WinMainPlaces, WinRequesting, WinPublishing, WinOutside, WinHttp!Request
<1>1. WinTypeOK
  <2>1. created \in 0 .. WinHttp!Request /\ worker \in WinOutside /\ main \in WinMainPlaces
    OBVIOUS
  <2>2. /\ open \subseteq WinHttp!Handles /\ published \subseteq WinHttp!Handles
        /\ mine \subseteq WinHttp!Handles /\ taken \subseteq WinHttp!Handles
    OBVIOUS
  <2>3. /\ zombie \in BOOLEAN /\ platformData \in BOOLEAN /\ allocated \in BOOLEAN
        /\ winReconnect \in BOOLEAN /\ stop \in BOOLEAN /\ finished \in BOOLEAN
        /\ result \in BOOLEAN /\ winConnected \in BOOLEAN
    OBVIOUS
  <2>. QED
    BY <2>1, <2>2, <2>3 DEF WinTypeOK
<1>2. WinLife /\ WinAborted /\ WinSaid
  BY DEF WinLife, WinAborted, WinSaid
<1>3. WinOwned
  BY DEF WinOwned, WinHttp!HandlesOwned
<1>. QED
  BY <1>1, <1>2, <1>3 DEF WinIInv

LEMMA WinMainKeeps == WinIInv /\ WinHttp!MainStep => WinIInv'
<1>. SUFFICES ASSUME WinIInv, WinHttp!MainStep PROVE WinIInv'
  OBVIOUS
<1>. USE DEF WinIInv, WinTypeOK, WinLife, WinOwned, WinAborted, WinSaid, WinHttp!HandlesOwned,
     WinMainPlaces, WinRequesting, WinPublishing, WinOutside, WinHttp!Request, WinHttp!Session, WinHttp!Handles,
     WinHttp!MainGoes, WinHttp!MainKeeps, WinHttp!MainKeepsHandles, WinHttp!recordVars, WinHttp!reportVars
<1>1. CASE WinHttp!Initialize
  BY <1>1 DEF WinHttp!Initialize
<1>2. CASE WinHttp!Connect
  BY <1>2 DEF WinHttp!Connect
<1>3. CASE WinHttp!Disconnect
  <2>1. /\ main = "engine" /\ main' = "disconnect" /\ platformData /\ platformData' = FALSE /\ stop' = TRUE
        /\ UNCHANGED <<zombie, allocated, winReconnect, finished, worker, created, open, published, mine, taken,
                       result, winConnected, winLast>>
    BY <1>3 DEF WinHttp!Disconnect
  <2>4. platformData' \in BOOLEAN /\ stop' \in BOOLEAN
    BY <2>1
  <2>2. WinTypeOK'
    BY <2>1, <2>4
  <2>3. WinLife' /\ WinOwned' /\ WinAborted' /\ WinSaid'
    BY <2>1
  <2>. QED
    BY <2>2, <2>3
<1>4. CASE WinHttp!DisconnectFinished
  BY <1>4 DEF WinHttp!DisconnectFinished
<1>5. CASE WinHttp!DisconnectRunning
  BY <1>5 DEF WinHttp!DisconnectRunning
<1>6. CASE WinHttp!UpdateReaps
  BY <1>6 DEF WinHttp!UpdateReaps
<1>7. CASE WinHttp!FinalizeLooks
  BY <1>7 DEF WinHttp!FinalizeLooks
<1>8. CASE WinHttp!FinalizeTakes
  BY <1>8 DEF WinHttp!FinalizeTakes
<1>9. CASE WinHttp!FinalizeCloses
  BY <1>9 DEF WinHttp!FinalizeCloses
<1>10. CASE WinHttp!JoinReturns
  BY <1>10 DEF WinHttp!JoinReturns
<1>. QED
  BY <1>1, <1>2, <1>3, <1>4, <1>5, <1>6, <1>7, <1>8, <1>9, <1>10 DEF WinHttp!MainStep

LEMMA WinWorkerKeeps == WinIInv /\ (WinHttp!OwnStep \/ WinHttp!WireStep) => WinIInv'
<1>. SUFFICES ASSUME WinIInv, WinHttp!OwnStep \/ WinHttp!WireStep PROVE WinIInv'
  OBVIOUS
<1>. USE DEF WinIInv, WinTypeOK, WinLife, WinOwned, WinAborted, WinSaid, WinHttp!HandlesOwned,
     WinMainPlaces, WinRequesting, WinPublishing, WinOutside, WinHttp!Request, WinHttp!Session, WinHttp!Handles,
     WinHttp!Goes, WinHttp!WorkerKeeps, WinHttp!HandlesKept, WinHttp!NoReport, WinHttp!recordVars,
     WinHttp!handleVars, WinHttp!reportVars
<1>1. CASE WinHttp!Top
  BY <1>1 DEF WinHttp!Top
<1>2. CASE WinHttp!UrlRefused
  BY <1>2 DEF WinHttp!UrlRefused
<1>3. CASE WinHttp!Begins
  BY <1>3 DEF WinHttp!Begins
<1>4. CASE WinHttp!Creates
  BY <1>4 DEF WinHttp!Creates
<1>5. CASE WinHttp!CreateFails
  <2>1. /\ worker = "creating" /\ worker' = "closing" /\ result' = FALSE
        /\ UNCHANGED <<main, zombie, platformData, allocated, winReconnect, stop, finished, created, open, published,
                       mine, taken, winConnected, winLast>>
    BY <1>5 DEF WinHttp!CreateFails, WinHttp!GivesUp
  <2>2. result' \in BOOLEAN
    BY <2>1
  <2>3. WinTypeOK' /\ WinLife' /\ WinAborted' /\ WinSaid'
    BY <2>1, <2>2
  <2>4. WinOwned'
    BY <2>1
  <2>. QED
    BY <2>3, <2>4
<1>6. CASE WinHttp!Publishes
  BY <1>6 DEF WinHttp!Publishes
<1>7. CASE WinHttp!Looks
  BY <1>7 DEF WinHttp!Looks
<1>8. CASE WinHttp!RequestFails
  <2>1. /\ worker = "requesting" /\ worker' = "closing" /\ result' = FALSE
        /\ UNCHANGED <<main, zombie, platformData, allocated, winReconnect, stop, finished, created, open, published,
                       mine, taken, winConnected, winLast>>
    BY <1>8 DEF WinHttp!RequestFails, WinHttp!GivesUp
  <2>2. result' \in BOOLEAN
    BY <2>1
  <2>3. WinTypeOK' /\ WinLife' /\ WinAborted' /\ WinSaid'
    BY <2>1, <2>2
  <2>4. WinOwned'
    BY <2>1
  <2>. QED
    BY <2>3, <2>4
<1>9. CASE WinHttp!Responds
  BY <1>9 DEF WinHttp!Responds
<1>10. CASE WinHttp!Opens
  BY <1>10 DEF WinHttp!Opens
<1>11. CASE WinHttp!ReadsOn
  BY <1>11 DEF WinHttp!ReadsOn
<1>12. CASE WinHttp!ReadFails
  BY <1>12 DEF WinHttp!ReadFails
<1>13. CASE WinHttp!ReadEnds
  BY <1>13 DEF WinHttp!ReadEnds
<1>14. CASE WinHttp!DataAvailable
  BY <1>14 DEF WinHttp!DataAvailable
<1>15. CASE WinHttp!ReadsData
  BY <1>15 DEF WinHttp!ReadsData
<1>16. CASE WinHttp!DataArrives
  BY <1>16 DEF WinHttp!DataArrives
<1>17. CASE WinHttp!Reports
  BY <1>17 DEF WinHttp!Reports
<1>18. CASE WinHttp!FeedReturns
  BY <1>18 DEF WinHttp!FeedReturns
<1>19. CASE WinHttp!Takes
  BY <1>19 DEF WinHttp!Takes
<1>20. CASE WinHttp!Closes
  BY <1>20 DEF WinHttp!Closes
<1>21. CASE WinHttp!PerformReturns
  BY <1>21 DEF WinHttp!PerformReturns
<1>22. CASE WinHttp!Disconnected
  BY <1>22 DEF WinHttp!Disconnected
<1>23. CASE WinHttp!Judge
  BY <1>23 DEF WinHttp!Judge, WinHttp!AfterAttempt
<1>24. CASE WinHttp!Fails
  BY <1>24 DEF WinHttp!Fails, WinHttp!AfterAttempt
<1>25. CASE WinHttp!PauseEnds
  BY <1>25 DEF WinHttp!PauseEnds
<1>26. CASE WinHttp!Leaves
  BY <1>26 DEF WinHttp!Leaves
<1>27. CASE WinHttp!SaysClosed
  BY <1>27 DEF WinHttp!SaysClosed
<1>28. CASE WinHttp!Finishes
  BY <1>28 DEF WinHttp!Finishes
<1>29. CASE WinHttp!Exits
  BY <1>29 DEF WinHttp!Exits
<1>. QED
  BY <1>1, <1>2, <1>3, <1>4, <1>5, <1>6, <1>7, <1>8, <1>9, <1>10, <1>11, <1>12, <1>13, <1>14, <1>15, <1>16, <1>17, <1>18, <1>19, <1>20, <1>21, <1>22, <1>23, <1>24, <1>25, <1>26, <1>27, <1>28, <1>29 DEF WinHttp!OwnStep, WinHttp!WireStep

LEMMA WinInvariance == WinHttp!Spec => []WinIInv
<1>1. WinIInv /\ [WinHttp!Next]_(WinHttp!vars) => WinIInv'
  <2>1. CASE UNCHANGED WinHttp!vars
    BY <2>1 DEF WinHttp!vars, WinHttp!recordVars, WinHttp!handleVars, WinHttp!reportVars, WinIInv, WinTypeOK,
       WinLife, WinOwned, WinAborted, WinSaid, WinHttp!HandlesOwned
  <2>. QED
    BY <2>1, WinMainKeeps, WinWorkerKeeps DEF WinHttp!Next
<1>. QED
  BY <1>1, WinInit, PTL DEF WinHttp!Spec

\* Each WinHTTP handle that is open will be closed by the worker or by the shutdown.
THEOREM WinHandlesAreOwned == WinHttp!Spec => []WinHandlesOwned
<1>1. WinIInv => WinHandlesOwned
  BY DEF WinIInv, WinOwned, WinHandlesOwned
<1>. QED
  BY <1>1, WinInvariance, PTL

\* The shutdown that waits for the worker waits for no server.
THEOREM WinShutdownWaitsForNoServer == WinHttp!Spec => []WinShutdownAborts
<1>1. WinIInv => WinShutdownAborts
  BY DEF WinIInv, WinTypeOK, WinOwned, WinAborted, WinOutside, WinRequesting, WinHttp!HandlesOwned, WinShutdownAborts,
     WinHttp!ShutdownAborts, WinHttp!Blocking
<1>. QED
  BY <1>1, WinInvariance, PTL

\* The state the contract sees.
WinBusy == worker \in {"requesting", "responded", "reading", "feeding", "failing", "last"}
WinStages == [h \in {"client"} |-> WinHttp!Stage]
WinLasts == [h \in {"client"} |-> winLast]
WinView == <<WinStages, WinHttp!Only(winReconnect), WinHttp!Only(stop), WinHttp!Only(WinBusy), WinLasts>>

\* What the main thread does to the connection.
LEMMA WinMainRefines ==
  ASSUME WinIInv, WinHttp!MainStep
  PROVE  WinHttp!Contract!Next \/ UNCHANGED WinView
<1>. USE DEF WinIInv, WinTypeOK, WinLife, WinSaid, WinHttp!Stage, WinHttp!Only, WinHttp!MainKeeps,
     WinHttp!MainKeepsHandles, WinHttp!MainGoes, WinHttp!reportVars, WinHttp!recordVars
<1>1. CASE WinHttp!Connect
  <2>1. WinHttp!Contract!Start("client")
    BY <1>1 DEF WinHttp!Connect, WinHttp!Contract!Start
  <2>. QED
    BY <2>1 DEF WinHttp!Contract!Next
<1>2. CASE WinHttp!Disconnect
  <2>1. WinHttp!Contract!Disconnect("client")
    BY <1>2 DEF WinHttp!Disconnect, WinHttp!Contract!Disconnect
  <2>. QED
    BY <2>1 DEF WinHttp!Contract!Next
<1>3. CASE WinHttp!JoinReturns
  <2>1. WinHttp!Contract!Release("client")
    BY <1>3 DEF WinHttp!JoinReturns, WinHttp!Contract!Release
  <2>. QED
    BY <2>1 DEF WinHttp!Contract!Next
<1>4. CASE \/ WinHttp!Initialize \/ WinHttp!DisconnectFinished \/ WinHttp!DisconnectRunning \/ WinHttp!UpdateReaps
           \/ WinHttp!FinalizeLooks \/ WinHttp!FinalizeTakes \/ WinHttp!FinalizeCloses
  <2>1. UNCHANGED <<allocated, worker, winReconnect, stop, winLast>>
    BY <1>4 DEF WinHttp!Initialize, WinHttp!DisconnectFinished, WinHttp!DisconnectRunning, WinHttp!UpdateReaps,
       WinHttp!FinalizeLooks, WinHttp!FinalizeTakes, WinHttp!FinalizeCloses
  <2>. QED
    BY <2>1 DEF WinView, WinStages, WinLasts, WinBusy
<1>. QED
  BY <1>1, <1>2, <1>3, <1>4 DEF WinHttp!MainStep

\* The worker takes up reporting only when it has not been told to stop, and reports only
\* while it has: such a step is one of the contract's.
LEMMA WinRuns ==
  ASSUME WinHttp!Stage = "running", UNCHANGED <<WinHttp!Stage, winReconnect, stop>>,
         ~WinBusy /\ WinBusy' => ~stop,
         winLast' = winLast \/ (WinBusy /\ winLast' \in {"open", "message", "error"})
  PROVE  WinHttp!Contract!Next \/ UNCHANGED WinView
<1>. USE DEF WinHttp!Only, WinBusy
<1>1. CASE winLast' # winLast
  <2>1. WinHttp!Contract!Report("client")
    BY <1>1 DEF WinHttp!Contract!Report
  <2>. QED
    BY <2>1 DEF WinHttp!Contract!Next
<1>2. CASE winLast' = winLast /\ ~WinBusy /\ WinBusy'
  <2>1. WinHttp!Contract!Decide("client")
    BY <1>2 DEF WinHttp!Contract!Decide
  <2>. QED
    BY <2>1 DEF WinHttp!Contract!Next
<1>3. CASE winLast' = winLast /\ WinBusy /\ ~WinBusy'
  <2>1. WinHttp!Contract!Pause("client")
    BY <1>3 DEF WinHttp!Contract!Pause
  <2>. QED
    BY <2>1 DEF WinHttp!Contract!Next
<1>4. CASE winLast' = winLast /\ (WinBusy <=> WinBusy')
  BY <1>4 DEF WinView, WinStages, WinLasts
<1>. QED
  BY <1>1, <1>2, <1>3, <1>4

\* What the worker does: it keeps what it was told and by whom, ...
LEMMA WinWorkerIsTold ==
  ASSUME WinTypeOK, WinHttp!OwnStep \/ WinHttp!WireStep
  PROVE  UNCHANGED <<allocated, winReconnect, stop>> /\ worker \notin {"none", "exited"} /\ worker' # "none"
<1>. USE DEF WinHttp!Goes, WinHttp!WorkerKeeps, WinHttp!recordVars
<1>1. CASE \/ WinHttp!Top \/ WinHttp!UrlRefused \/ WinHttp!Begins \/ WinHttp!Creates \/ WinHttp!CreateFails
           \/ WinHttp!Publishes \/ WinHttp!RequestFails \/ WinHttp!Responds \/ WinHttp!Opens
  BY <1>1 DEF WinHttp!Top, WinHttp!UrlRefused, WinHttp!Begins, WinHttp!Creates, WinHttp!CreateFails, WinHttp!GivesUp,
     WinHttp!Publishes, WinHttp!RequestFails, WinHttp!Responds, WinHttp!Opens
<1>4. CASE WinHttp!Looks
  BY <1>4 DEF WinHttp!Looks, WinHttp!Request, WinTypeOK
<1>2. CASE \/ WinHttp!ReadsOn \/ WinHttp!ReadFails \/ WinHttp!ReadEnds \/ WinHttp!DataAvailable
           \/ WinHttp!ReadsData \/ WinHttp!DataArrives \/ WinHttp!Reports \/ WinHttp!FeedReturns
  BY <1>2 DEF WinHttp!ReadsOn, WinHttp!ReadFails, WinHttp!ReadEnds, WinHttp!DataAvailable, WinHttp!ReadsData,
     WinHttp!DataArrives, WinHttp!Reports, WinHttp!FeedReturns
<1>3. CASE \/ WinHttp!Takes \/ WinHttp!Closes \/ WinHttp!PerformReturns \/ WinHttp!Disconnected \/ WinHttp!Judge
           \/ WinHttp!Fails \/ WinHttp!PauseEnds \/ WinHttp!Leaves \/ WinHttp!SaysClosed \/ WinHttp!Finishes
           \/ WinHttp!Exits
  BY <1>3 DEF WinHttp!Takes, WinHttp!Closes, WinHttp!PerformReturns, WinHttp!Disconnected, WinHttp!Judge,
     WinHttp!AfterAttempt, WinHttp!Fails, WinHttp!PauseEnds, WinHttp!Leaves, WinHttp!SaysClosed, WinHttp!Finishes,
     WinHttp!Exits
<1>. QED
  BY <1>1, <1>2, <1>3, <1>4 DEF WinHttp!OwnStep, WinHttp!WireStep

\* ... and reports, until it is finished, as the contract has it.
LEMMA WinWorkerReports ==
  ASSUME WinIInv, WinHttp!OwnStep \/ WinHttp!WireStep, ~WinHttp!SaysClosed
  PROVE  /\ ~WinBusy /\ WinBusy' => ~stop
         /\ winLast' = winLast \/ (WinBusy /\ winLast' \in {"open", "message", "error"})
         /\ worker \in {"finish", "exiting"} => UNCHANGED <<WinBusy, winLast>>
<1>. USE DEF WinHttp!Goes, WinHttp!NoReport, WinHttp!reportVars, WinBusy
<1>1. CASE \/ WinHttp!Top \/ WinHttp!UrlRefused \/ WinHttp!Begins \/ WinHttp!Creates \/ WinHttp!CreateFails
           \/ WinHttp!Publishes \/ WinHttp!Looks \/ WinHttp!RequestFails \/ WinHttp!Responds \/ WinHttp!Opens
  BY <1>1 DEF WinHttp!Top, WinHttp!UrlRefused, WinHttp!Begins, WinHttp!Creates, WinHttp!CreateFails, WinHttp!GivesUp,
     WinHttp!Publishes, WinHttp!Looks, WinHttp!RequestFails, WinHttp!Responds, WinHttp!Opens
<1>2. CASE \/ WinHttp!ReadsOn \/ WinHttp!ReadFails \/ WinHttp!ReadEnds \/ WinHttp!DataAvailable
           \/ WinHttp!ReadsData \/ WinHttp!DataArrives \/ WinHttp!Reports \/ WinHttp!FeedReturns
  BY <1>2 DEF WinHttp!ReadsOn, WinHttp!ReadFails, WinHttp!ReadEnds, WinHttp!DataAvailable, WinHttp!ReadsData,
     WinHttp!DataArrives, WinHttp!Reports, WinHttp!FeedReturns
<1>3. CASE \/ WinHttp!Takes \/ WinHttp!Closes \/ WinHttp!PerformReturns \/ WinHttp!Disconnected \/ WinHttp!Judge
           \/ WinHttp!Fails \/ WinHttp!PauseEnds \/ WinHttp!Leaves \/ WinHttp!Finishes \/ WinHttp!Exits
  BY <1>3 DEF WinHttp!Takes, WinHttp!Closes, WinHttp!PerformReturns, WinHttp!Disconnected, WinHttp!Judge,
     WinHttp!AfterAttempt, WinHttp!Fails, WinHttp!PauseEnds, WinHttp!Leaves, WinHttp!Finishes, WinHttp!Exits
<1>. QED
  BY <1>1, <1>2, <1>3 DEF WinHttp!OwnStep, WinHttp!WireStep

LEMMA WinWorkerRefines ==
  ASSUME WinIInv, WinHttp!OwnStep \/ WinHttp!WireStep
  PROVE  WinHttp!Contract!Next \/ UNCHANGED WinView
<1>0. UNCHANGED <<allocated, winReconnect, stop>> /\ worker \notin {"none", "exited"} /\ worker' # "none"
  BY WinWorkerIsTold DEF WinIInv
<1>1. CASE WinHttp!SaysClosed
  <2>1. worker = "last" /\ worker' = "finish" /\ winLast' = "closed"
    BY <1>1 DEF WinHttp!SaysClosed, WinHttp!Goes
  <2>2. WinHttp!Contract!Close("client")
    BY <1>0, <2>1 DEF WinHttp!Contract!Close, WinHttp!Stage, WinHttp!Only, WinIInv, WinLife, WinSaid
  <2>. QED
    BY <2>2 DEF WinHttp!Contract!Next
<1>2. CASE ~WinHttp!SaysClosed /\ winLast = "closed"
  <2>1. worker \in {"finish", "exiting"}
    BY <1>0, <1>2 DEF WinIInv, WinSaid
  <2>2. UNCHANGED <<WinBusy, winLast>>
    BY <1>2, <2>1, WinWorkerReports
  <2>. QED
    BY <1>0, <2>2 DEF WinView, WinStages, WinLasts, WinHttp!Stage
<1>3. CASE ~WinHttp!SaysClosed /\ winLast # "closed"
  <2>1. winLast' = winLast \/ (WinBusy /\ winLast' \in {"open", "message", "error"})
    BY <1>3, WinWorkerReports
  <2>2. WinHttp!Stage = "running" /\ UNCHANGED WinHttp!Stage
    BY <1>0, <1>3, <2>1 DEF WinIInv, WinLife, WinHttp!Stage
  <2>. QED
    BY <1>0, <1>3, <2>1, <2>2, WinWorkerReports, WinRuns
<1>. QED
  BY <1>1, <1>2, <1>3

\* The WinHTTP adapter keeps the contract of the platform interface.
THEOREM WinKeepsContract == WinHttp!Spec => WinStreamContract
<1>1. WinHttp!Init => WinHttp!Contract!Init
  BY DEF WinHttp!Init, WinHttp!Contract!Init, WinHttp!Stage, WinHttp!Only
<1>2. WinIInv /\ [WinHttp!Next]_(WinHttp!vars) => [WinHttp!Contract!Next]_WinView
  <2>1. CASE UNCHANGED WinHttp!vars
    BY <2>1 DEF WinHttp!vars, WinHttp!recordVars, WinHttp!reportVars, WinView, WinStages, WinLasts, WinBusy,
       WinHttp!Stage
  <2>. QED
    BY <2>1, WinMainRefines, WinWorkerRefines DEF WinHttp!Next
<1>3. [WinHttp!Contract!Next]_WinView => [WinHttp!Contract!Next]_(WinHttp!Contract!vars)
  BY DEF WinView, WinHttp!Contract!vars, WinStages, WinLasts, WinBusy
<1>. QED
  BY <1>1, <1>2, <1>3, WinInvariance, PTL
  DEF WinHttp!Spec, WinStreamContract, WinHttp!StreamContract, WinHttp!Contract!Spec
=============================================================================
