-------------------------------- MODULE SSEPorts ------------------------------
(***************************************************************************)
(* The three event-stream parsers that are not the C++ one: SseParser in   *)
(* Java (Android), SseIOSParser in Objective-C, and the functions of       *)
(* Module.SSEExt in JavaScript (HTML5).  They keep the same state as each  *)
(* other, and other state than the C++ parser: a null pending id where     *)
(* that one has a flag, a reset() that also moves the point to roll back   *)
(* to, and on iOS a parser per attempt whose id the client takes over when *)
(* the attempt is complete.                                                *)
(*                                                                         *)
(* Nor do they measure as it does.  The C++ parser counts bytes; a port    *)
(* counts the data of an event in the UTF-16 units of its strings, and the *)
(* JavaScript one its lines too, while the Java reader refuses a line of   *)
(* just as many bytes as its cap.  So a text here has two lengths, and the *)
(* properties are that a port is the C++ parser by its own count, and how  *)
(* far apart the two counts can lead.                                      *)
(*                                                                         *)
(* A step is a line, as in SSEParser.  A line that is not UTF-8, which     *)
(* only the Objective-C parser leaves out, is not among the steps.         *)
(***************************************************************************)
EXTENDS Integers, Sequences

CONSTANTS
    MaxBuffer,      \* MAX_LINE_BYTES and MAX_DATA_CHARS, SSE_IOS_MAX_BUFFER, maxBuffer
    RetryMin, RetryMax,
    InitialRetry,   \* options.retry_ms
    InputLines,     \* the lines of the stream: [rest, value], each a text
    RetryValues,    \* the values of retry: lines
    MaxBlocks       \* bound: blocks of the stream

Null == -1

Ids == 0 .. MaxBlocks

\* A text by its two lengths: of a character that takes one byte of UTF-8 or more, and
\* of a byte that is not UTF-8, UTF-16 has as many units at most.
Texts == {text \in [bytes : Nat, units : Nat] : text.units <= text.bytes}

\* A line: its value, and the rest, which is the field's name, the colon, the space
\* behind it, a carriage return and a byte order mark.
Lines == [rest : Texts, value : Texts]

VARIABLES
    port,                   \* which of the three it is
    data,                   \* the data lines of the event, as their units
    size,                   \* data.length(), every line with its newline
    eventName,              \* 0 when it is empty
    eventId,
    hasId,
    pendingLastEventId,     \* Null before the attempt's first id: line
    pendingAtBlockStart,
    dropObserved,
    discarding,             \* in the rest of a line that was too long
    eventPoisoned,
    stored,                 \* storedLastEventId, Null while hasCommittedLastEventId is NO
    lastEventId,            \* the client's, sent with the next request
    retryMs,
    \* History, for the properties: those of SSEParser, and one of their own.
    block, lines, lost, droppedAt, delivered,
    named,                  \* the name the block's event: lines gave, 0 for none
    \* History of the block as it came, while it had lost nothing here.
    bytes,                  \* of its data, every line with its newline
    longest,                \* the bytes of its longest line
    wide                    \* it has a line of more bytes than units

idVars == <<pendingLastEventId, pendingAtBlockStart>>
eventVars == <<data, size, eventName, eventId, hasId>>
clientVars == <<stored, lastEventId, retryMs>>
deliveryVars == <<lost, droppedAt, delivered>>
measureVars == <<bytes, longest, wide>>
vars == <<port, eventVars, idVars, dropObserved, discarding, eventPoisoned, clientVars,
          block, lines, deliveryVars, named, measureVars>>

Init ==
    /\ port \in {"java", "objc", "js"}
    /\ data = <<>> /\ size = 0 /\ eventName = 0 /\ eventId = 0 /\ hasId = FALSE
    /\ pendingLastEventId = Null /\ pendingAtBlockStart = Null
    /\ dropObserved = FALSE /\ discarding = FALSE /\ eventPoisoned = FALSE
    /\ stored = Null /\ lastEventId = 0 /\ retryMs = InitialRetry
    /\ block = 1 /\ lines = <<>> /\ lost = {} /\ droppedAt = 0
    /\ delivered = [event |-> 0, data |-> <<>>, id |-> 0, block |-> 0, lines |-> <<>>]
    /\ named = 0
    /\ bytes = 0 /\ longest = 0 /\ wide = FALSE

-----------------------------------------------------------------------------
\* Plausible fault: the point to roll back to stays where the attempt began.
ResetForgetsBlock ==
    /\ data' = <<>> /\ size' = 0 /\ eventName' = 0 /\ eventId' = 0 /\ hasId' = FALSE
    /\ UNCHANGED pendingAtBlockStart

\* reset(), behind whatever the caller did to pendingLastEventId.
Reset ==
    /\ data' = <<>> /\ size' = 0 /\ eventName' = 0 /\ eventId' = 0 /\ hasId' = FALSE
    /\ pendingAtBlockStart' = pendingLastEventId'

\* poison()
Poison ==
    /\ pendingLastEventId' = pendingAtBlockStart
    /\ Reset
    /\ eventPoisoned' = TRUE

LineBytes(line) == line.rest.bytes + line.value.bytes
LineUnits(line) == line.rest.units + line.value.units

\* The Java reader looks for the newline within the cap, and gives up on a line once it
\* has the cap's bytes and no newline.  The Objective-C one counts bytes as they come.
\* The JavaScript one has decoded them before it counts.
TooLong(line) ==
    \/ port = "java" /\ LineBytes(line) >= MaxBuffer
    \/ port = "objc" /\ LineBytes(line) > MaxBuffer
    \/ port = "js" /\ LineUnits(line) > MaxBuffer

\* History: what the line is in bytes.
Measured(line) ==
    /\ longest' = IF LineBytes(line) > longest THEN LineBytes(line) ELSE longest
    /\ wide' = (wide \/ LineBytes(line) # LineUnits(line))

\* A line outgrows the cap, in one read or over several ...
LineOverruns(line) ==
    /\ ~discarding /\ discarding' = TRUE
    /\ TooLong(line) /\ Measured(line)
    /\ Poison
    /\ UNCHANGED <<port, dropObserved, clientVars, block, lines, deliveryVars, named, bytes>>

\* ... and is skipped up to its newline.
DiscardedLineEnds ==
    /\ discarding /\ discarding' = FALSE
    /\ UNCHANGED <<port, eventVars, idVars, dropObserved, eventPoisoned, clientVars,
                   block, lines, deliveryVars, named, measureVars>>

\* A line that reaches the fields.
FieldLine(line) ==
    /\ ~discarding /\ ~eventPoisoned
    /\ ~TooLong(line) /\ Measured(line)

\* A comment, or a field of another name.
OtherLine(line) ==
    /\ FieldLine(line)
    /\ UNCHANGED <<port, eventVars, idVars, dropObserved, discarding, eventPoisoned, clientVars,
                   block, lines, deliveryVars, named, bytes>>

\* The length of a string is its units, in each of the three languages.
Overflows(text) == size + text.units + 1 > MaxBuffer

DataLine(line) ==
    /\ FieldLine(line)
    /\ lines' = Append(lines, line.value.units)
    /\ bytes' = bytes + line.value.bytes + 1
    /\ IF Overflows(line.value)
       THEN Poison
       ELSE /\ data' = Append(data, line.value.units) /\ size' = size + line.value.units + 1
            /\ UNCHANGED <<eventName, eventId, hasId, idVars, eventPoisoned>>
    /\ UNCHANGED <<port, dropObserved, discarding, clientVars, block, deliveryVars, named>>

EventLine(line) ==
    /\ FieldLine(line)
    /\ eventName' = block /\ named' = block
    /\ UNCHANGED <<port, data, size, eventId, hasId, idVars, dropObserved, discarding,
                   eventPoisoned, clientVars, block, lines, deliveryVars, bytes>>

IdLine(line) ==
    /\ FieldLine(line)
    /\ eventId' = block /\ hasId' = TRUE
    /\ pendingLastEventId' = block
    /\ UNCHANGED <<port, data, size, eventName, pendingAtBlockStart, dropObserved, discarding,
                   eventPoisoned, clientVars, block, lines, deliveryVars, named, bytes>>

ClampRetry(value) ==
    LET raised == IF value < RetryMin THEN RetryMin ELSE value
    IN IF raised > RetryMax THEN RetryMax ELSE raised

RetryLine(line, value) ==
    /\ FieldLine(line)
    /\ retryMs' = ClampRetry(value)
    /\ UNCHANGED <<port, eventVars, idVars, dropObserved, discarding, eventPoisoned, stored,
                   lastEventId, block, lines, deliveryVars, named, bytes>>

-----------------------------------------------------------------------------
(* dispatch()                                                              *)

\* The pending id becomes the position to resume from: at once, or on iOS when the
\* attempt is complete.
Commits ==
    IF port = "objc" THEN stored' = pendingLastEventId /\ UNCHANGED lastEventId
                     ELSE lastEventId' = pendingLastEventId /\ UNCHANGED stored

CommitsIf(condition) == IF condition THEN Commits ELSE UNCHANGED <<stored, lastEventId>>

MayCommit == ~dropObserved /\ pendingLastEventId # Null

BlankLine ==
    /\ ~discarding /\ block < MaxBlocks
    /\ Reset
    /\ block' = block + 1 /\ lines' = <<>> /\ named' = 0
    /\ bytes' = 0 /\ longest' = 0 /\ wide' = FALSE
    /\ UNCHANGED <<port, discarding, retryMs>>

EndPoisonedBlock ==
    /\ eventPoisoned /\ eventPoisoned' = FALSE
    /\ UNCHANGED pendingLastEventId
    /\ BlankLine
    /\ lost' = lost \cup {block}
    /\ UNCHANGED <<dropObserved, stored, lastEventId, droppedAt, delivered>>

EndDatalessBlock ==
    /\ ~eventPoisoned /\ data = <<>>
    /\ UNCHANGED pendingLastEventId
    /\ BlankLine
    /\ CommitsIf(hasId /\ MayCommit)
    /\ UNCHANGED <<dropObserved, eventPoisoned, deliveryVars>>

EventAccepted ==
    /\ ~eventPoisoned /\ data # <<>>
    /\ UNCHANGED pendingLastEventId
    /\ BlankLine
    /\ delivered' = [event |-> eventName, data |-> data, id |-> IF hasId THEN eventId ELSE 0,
                     block |-> block, lines |-> lines]
    /\ CommitsIf(MayCommit)
    /\ UNCHANGED <<dropObserved, eventPoisoned, lost, droppedAt>>

EventDropped ==
    /\ ~eventPoisoned /\ data # <<>>
    /\ pendingLastEventId' = pendingAtBlockStart
    /\ BlankLine
    /\ dropObserved' = TRUE
    /\ lost' = lost \cup {block}
    /\ droppedAt' = IF droppedAt = 0 THEN block ELSE droppedAt
    /\ UNCHANGED <<eventPoisoned, stored, lastEventId, delivered>>

\* The attempt is over, and the next one has a parser that knows nothing.
Restart ==
    /\ block < MaxBlocks
    /\ lastEventId' = IF stored = Null THEN lastEventId ELSE stored
    /\ stored' = Null
    /\ data' = <<>> /\ size' = 0 /\ eventName' = 0 /\ eventId' = 0 /\ hasId' = FALSE
    /\ pendingLastEventId' = Null /\ pendingAtBlockStart' = Null
    /\ dropObserved' = FALSE /\ discarding' = FALSE /\ eventPoisoned' = FALSE
    /\ block' = block + 1 /\ lines' = <<>> /\ named' = 0
    /\ bytes' = 0 /\ longest' = 0 /\ wide' = FALSE
    /\ lost' = lost \cup {block} /\ droppedAt' = 0
    /\ UNCHANGED <<port, retryMs, delivered>>

Next ==
    \/ \E line \in InputLines :
           \/ LineOverruns(line) \/ OtherLine(line)
           \/ DataLine(line) \/ EventLine(line) \/ IdLine(line)
           \/ \E value \in RetryValues : RetryLine(line, value)
    \/ DiscardedLineEnds
    \/ EndPoisonedBlock \/ EndDatalessBlock \/ EventAccepted \/ EventDropped
    \/ Restart

Spec == Init /\ [][Next]_vars

-----------------------------------------------------------------------------
(* Properties.                                                             *)

OrZero(x) == IF x = Null THEN 0 ELSE x

Parser == INSTANCE SSEParser WITH
    event <- named,
    id <- OrZero(pendingLastEventId),
    idAtBlockStart <- OrZero(pendingAtBlockStart),
    hasIdEver <- (pendingLastEventId # Null),
    hasIdEverAtBlockStart <- (pendingAtBlockStart # Null),
    poisoned <- eventPoisoned,
    committed <- IF stored = Null THEN lastEventId ELSE stored,
    retryMS <- retryMs

\* The C++ parser loses the block to a cap: one of its lines, or its data, has more
\* bytes than the cap.
LostInBytes == longest > MaxBuffer \/ bytes > MaxBuffer

\* How far the counts lead apart.  A port loses a block to a cap only where the C++
\* parser loses it too, but for Java's line of just the cap's bytes; where it does not
\* lose what the C++ parser loses, a line of the block has more bytes than units; and a
\* reader that counts the bytes of a line lets no line pass that is too long for C++.
CapsAgree ==
    /\ eventPoisoned => LostInBytes \/ (port = "java" /\ longest = MaxBuffer)
    /\ LostInBytes /\ ~eventPoisoned => wide
    /\ longest > MaxBuffer /\ ~eventPoisoned => port = "js"

\* By its own count a port is the C++ parser: the same lines, measured in UTF-16 units
\* and cut where its reader cuts them, give the same events, the same resume position
\* and the same delay.  And the counts lead no further apart than CapsAgree says.
PortIsParser == Parser!Spec /\ []CapsAgree
=============================================================================
