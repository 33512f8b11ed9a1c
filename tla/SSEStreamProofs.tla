---------------------------- MODULE SSEStreamProofs ----------------------------
(***************************************************************************)
(* What the contract of an adapter comes to.                               *)
(***************************************************************************)
EXTENDS SSEStream, TLAPS

\* A worker is on its way to report something only on a running stream, or where
\* Trailing on a closed one, and only a stream that was told to stop is released.
IInv ==
    /\ TypeOK
    /\ \A h \in Connections :
          /\ h \in busy => stage[h] = "running" \/ (Trailing /\ stage[h] = "closed")
          /\ stage[h] = "released" => h \in told
          /\ stage[h] = "closed" => h \notin reconnect /\ (~Trailing => last[h] = "closed")
          /\ stage[h] = "idle" => last[h] = "nothing" /\ h \notin reconnect

LEMMA Invariance == Spec => []IInv
<1>1. Init => IInv
  BY DEF Init, IInv, TypeOK, Stages, Kinds
<1>2. IInv /\ [Next]_vars => IInv'
  <2>. SUFFICES ASSUME IInv, [Next]_vars PROVE IInv'
    OBVIOUS
  <2>. USE DEF IInv, TypeOK, Stages, Kinds
  <2>1. ASSUME NEW h \in Connections, Start(h) PROVE IInv'
    BY <2>1 DEF Start
  <2>2. ASSUME NEW h \in Connections, Decide(h) PROVE IInv'
    BY <2>2 DEF Decide
  <2>3. ASSUME NEW h \in Connections, Report(h) PROVE IInv'
    BY <2>3 DEF Report
  <2>4. ASSUME NEW h \in Connections, Close(h) PROVE IInv'
    BY <2>4 DEF Close
  <2>5. ASSUME NEW h \in Connections, Pause(h) PROVE IInv'
    BY <2>5 DEF Pause
  <2>9. ASSUME NEW h \in Connections, Trail(h) PROVE IInv'
    BY <2>9 DEF Trail
  <2>6. ASSUME NEW h \in Connections, Disconnect(h) PROVE IInv'
    BY <2>6 DEF Disconnect
  <2>7. ASSUME NEW h \in Connections, Release(h) PROVE IInv'
    BY <2>7 DEF Release
  <2>8. CASE UNCHANGED vars
    BY <2>8 DEF vars
  <2>. QED
    BY <2>1, <2>2, <2>3, <2>4, <2>5, <2>6, <2>7, <2>8, <2>9 DEF Next
<1>. QED
  BY <1>1, <1>2, PTL DEF Spec

\* A released connection was told to stop and has nobody about to report for it.
THEOREM ReleaseIsQuiet == Spec => []ReleasedIsQuiet
<1>1. IInv => ReleasedIsQuiet
  BY DEF IInv, ReleasedIsQuiet
<1>. QED
  BY <1>1, Invariance, PTL

\* CLOSED is the last word on a stream, which then does not reconnect, unless a
\* second thread may trail an error behind it.
THEOREM CloseIsFinal == Spec => []ClosedIsFinal
<1>1. IInv => ClosedIsFinal
  BY DEF IInv, ClosedIsFinal
<1>. QED
  BY <1>1, Invariance, PTL
=============================================================================
