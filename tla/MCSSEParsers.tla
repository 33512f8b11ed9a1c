------------------------------ MODULE MCSSEParsers ----------------------------
(* Model checking of the four parsers, which share nothing: a behaviour is     *)
(* that of the C++ one or of a port, while the variables of the other stay as  *)
(* they are.  The buffer has room for three bytes, which two empty data lines  *)
(* nearly fill, and four bytes or units in a port; there are blocks enough for  *)
(* a loss, a commit after it, and a second attempt.                            *)
EXTENDS SSEParser

CONSTANTS
    PortMaxBuffer, PortLines, PortRetryValues, PortMaxBlocks   \* those of the ports

VARIABLES
    language,       \* of the parser that runs: "C++" or another one
    port, portData, portSize, eventName, eventId, portHasId, pendingLastEventId,
    pendingAtBlockStart, portDropObserved, portDiscarding, eventPoisoned, stored, lastEventId,
    retryMs, portBlock, portLines, portLost, portDroppedAt, portDelivered, named,
    portBytes, longest, wide

portVars ==
    <<port, portData, portSize, eventName, eventId, portHasId, pendingLastEventId,
      pendingAtBlockStart, portDropObserved, portDiscarding, eventPoisoned, stored, lastEventId,
      retryMs, portBlock, portLines, portLost, portDroppedAt, portDelivered, named,
      portBytes, longest, wide>>

Ports == INSTANCE SSEPorts WITH
    MaxBuffer <- PortMaxBuffer, InputLines <- PortLines, RetryValues <- PortRetryValues,
    MaxBlocks <- PortMaxBlocks,
    data <- portData, size <- portSize, hasId <- portHasId, dropObserved <- portDropObserved,
    discarding <- portDiscarding, block <- portBlock, lines <- portLines, lost <- portLost,
    droppedAt <- portDroppedAt, delivered <- portDelivered, bytes <- portBytes

ASSUME PortsAssumption ==
    /\ PortMaxBuffer \in Nat
    /\ \A line \in PortLines : line \in Ports!Lines
    /\ PortRetryValues \subseteq Nat

MCInit ==
    /\ language \in {"C++", "another"}
    /\ Init
    /\ Ports!Init
    /\ language = "C++" => port = "java"

MCNext ==
    /\ UNCHANGED language
    /\ \/ language = "C++" /\ Next /\ UNCHANGED portVars
       \/ language = "another" /\ Ports!Next /\ UNCHANGED vars

MCSpec == MCInit /\ [][MCNext]_<<language, vars, portVars>>

\* SSEPorts!PortIsParser: the parsers in Java, Objective-C and JavaScript are the C++
\* parser by their own count of a text's length, and lose a block to a cap where it does
\* not in one case only: Java's line of just the cap's bytes (SseClient.java:240).
PortIsParser == Ports!PortIsParser

\* Below, in and above the range.
MCRetryValues == {1, 3, 6}
MCPortRetryValues == {1, 6}

Text(bytes, units) == [bytes |-> bytes, units |-> units]

\* A rest of one byte.  The value of three letters makes a line of just the cap, that of
\* four one beyond it; the others are empty, or one character of two bytes and one unit,
\* or of four bytes and two units.
MCPortLines ==
    [rest : {Text(1, 1)}, value : {Text(0, 0), Text(3, 3), Text(4, 4), Text(2, 1), Text(4, 2)}]
=============================================================================
