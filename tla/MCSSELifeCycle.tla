----------------------------- MODULE MCSSELifeCycle ---------------------------
(* Model checking of the start and the end of the engine's use of the          *)
(* extension, seen from two sides that share nothing here: the teardown guard  *)
(* with the platform threads, and the handles across reboots with two clients  *)
(* that may be connected in the same run of the engine or in two.  A behaviour *)
(* is that of one of them, while the variables of the other stay as they are.  *)
EXTENDS SSEGuard, Sequences

CONSTANTS Clients, Nobody, Quiesces, MaxBoots, MaxQueue     \* of SSEReboot

VARIABLES
    side,       \* the one that runs: "guard" or "handles"
    stage, reconnect, told, busy, last,
    engine, boots, nextHandle, handle, connections, queue, delivered

rebootVars ==
    <<stage, reconnect, told, busy, last,
      engine, boots, nextHandle, handle, connections, queue, delivered>>

Reboot == INSTANCE SSEReboot WITH app <- engine

MCInit ==
    /\ side \in {"guard", "handles"}
    /\ Init
    /\ Reboot!Init

\* The engine does not start again: the bound on its starts is reached.
Ended == engine = "off" /\ boots = MaxBoots /\ UNCHANGED rebootVars

MCNext ==
    /\ UNCHANGED side
    /\ \/ side = "guard" /\ Next /\ UNCHANGED rebootVars
       \/ side = "handles" /\ (Reboot!Next \/ Ended) /\ UNCHANGED vars

MCSpec == MCInit /\ [][MCNext]_<<side, vars, rebootVars>> /\ Fairness

\* SSEReboot!OwnEvents: the callback that was given to sse.connect gets the events of
\* that stream, and of no other one that has or had the same handle.
OwnEvents == Reboot!OwnEvents
=============================================================================
