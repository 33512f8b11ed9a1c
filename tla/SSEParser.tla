------------------------------- MODULE SSEParser -------------------------------
(***************************************************************************)
(* The event-stream parser and the adapter callbacks it drives: what a     *)
(* sequence of lines does to the event being built, to the persistent      *)
(* last-event-id buffer, and to the resume position that the adapter will  *)
(* send as Last-Event-ID when it reconnects.                               *)
(*                                                                         *)
(* A step is one line of the stream, however the reads split it; a data    *)
(* line is its length; the value of an id: or event: line is the number of *)
(* the block it stands in, so that a value tells where it came from.       *)
(***************************************************************************)
EXTENDS Integers, Sequences

CONSTANTS
    MaxBuffer,      \* SSE_PARSER_MAX_BUFFER
    RetryMin,       \* SSE_PARSER_RETRY_MIN_MS
    RetryMax,       \* SSE_PARSER_RETRY_MAX_MS
    InitialRetry,   \* options.retry_ms
    RetryValues,    \* the values of retry: lines
    MaxBlocks       \* bound: blocks of the stream

ASSUME ParserAssumption ==
    /\ MaxBuffer \in Nat
    /\ RetryMin \in Nat /\ RetryMax \in Nat /\ RetryMin <= RetryMax
    /\ InitialRetry \in Nat
    /\ RetryValues \subseteq Nat
    /\ MaxBlocks \in Nat \ {0}

Blocks == 1 .. MaxBlocks

\* A last event id: the block that set it, 0 for none.
Ids == 0 .. MaxBlocks

Lengths == 0 .. MaxBuffer

VARIABLES
    data,               \* m_Data, as the lengths of its lines
    size,               \* m_Data.size()
    event,              \* m_Event, 0 when it is empty
    id,                 \* m_Id
    idAtBlockStart,     \* m_IdAtBlockStart
    hasId,              \* m_HasId
    hasIdEver,          \* m_HasIdEver
    hasIdEverAtBlockStart,
    dropObserved,       \* m_DropObserved
    discarding,         \* m_DiscardingLine
    poisoned,           \* m_EventPoisoned
    committed,          \* the adapter's m_LastEventId
    retryMS,            \* the adapter's m_RetryMS
    \* History, for the properties.
    block,              \* the number of the block being read
    lines,              \* the lengths of its data lines, as the stream has them
    lost,               \* the blocks that were not delivered whole
    droppedAt,          \* the first event of this attempt the queue dropped, or 0
    delivered           \* the last event the queue accepted

parserVars == <<data, size, event, id, idAtBlockStart, hasId, hasIdEver,
                hasIdEverAtBlockStart, dropObserved, discarding, poisoned>>
adapterVars == <<committed, retryMS>>
historyVars == <<block, lines, lost, droppedAt, delivered>>

vars == <<parserVars, adapterVars, historyVars>>

\* SSEParsedEvent, with the block it stands for and that block's data lines.
Delivery == [event : Ids, data : Seq(Lengths), id : Ids, block : Ids, lines : Seq(Lengths)]

-----------------------------------------------------------------------------
Init ==
    /\ data = <<>> /\ size = 0
    /\ event = 0
    /\ id = 0 /\ idAtBlockStart = 0
    /\ hasId = FALSE /\ hasIdEver = FALSE /\ hasIdEverAtBlockStart = FALSE
    /\ dropObserved = FALSE /\ discarding = FALSE /\ poisoned = FALSE
    /\ committed = 0
    /\ retryMS = InitialRetry
    /\ block = 1 /\ lines = <<>> /\ lost = {} /\ droppedAt = 0
    /\ delivered = [event |-> 0, data |-> <<>>, id |-> 0, block |-> 0, lines |-> <<>>]

\* Plausible fault: the id of the dropped block is left in the buffer.
PoisonKeepsId ==
    /\ data' = <<>> /\ size' = 0
    /\ hasId' = FALSE
    /\ poisoned' = TRUE
    /\ UNCHANGED <<id, hasIdEver>>

\* PoisonEvent: what the block has set is taken back, the id included.
PoisonEvent ==
    /\ data' = <<>> /\ size' = 0
    /\ hasId' = FALSE
    /\ poisoned' = TRUE
    /\ id' = idAtBlockStart
    /\ hasIdEver' = hasIdEverAtBlockStart

-----------------------------------------------------------------------------
(* Feed: a line that grows past the cap is dropped up to its newline.      *)

LineOverruns ==
    /\ ~discarding
    /\ discarding' = TRUE
    /\ PoisonEvent
    /\ UNCHANGED <<event, idAtBlockStart, hasIdEverAtBlockStart, dropObserved, adapterVars,
                   historyVars>>

DiscardedLineEnds ==
    /\ discarding
    /\ discarding' = FALSE
    /\ UNCHANGED <<data, size, event, id, idAtBlockStart, hasId, hasIdEver,
                   hasIdEverAtBlockStart, dropObserved, poisoned, adapterVars, historyVars>>

-----------------------------------------------------------------------------
(* ProcessLine                                                             *)

\* A line that reaches the fields: it was not discarded and its block has lost
\* nothing yet.  Comments, unknown fields and every line of a poisoned block
\* change nothing.
FieldLine == ~discarding /\ ~poisoned

Fits(len) == size + len + 1 <= MaxBuffer

\* Plausible fault: what does not fit is left out.
DataLineTruncates(len) ==
    /\ FieldLine
    /\ lines' = Append(lines, len)
    /\ IF Fits(len) THEN data' = Append(data, len) /\ size' = size + len + 1
                    ELSE UNCHANGED <<data, size>>
    /\ UNCHANGED <<event, id, idAtBlockStart, hasId, hasIdEver, hasIdEverAtBlockStart,
                   dropObserved, discarding, poisoned, adapterVars, block, lost, droppedAt,
                   delivered>>

DataLine(len) ==
    /\ FieldLine
    /\ lines' = Append(lines, len)
    /\ IF Fits(len)
       THEN /\ data' = Append(data, len)
            /\ size' = size + len + 1
            /\ UNCHANGED <<id, hasId, hasIdEver, poisoned>>
       ELSE PoisonEvent
    /\ UNCHANGED <<event, idAtBlockStart, hasIdEverAtBlockStart, dropObserved, discarding,
                   adapterVars, block, lost, droppedAt, delivered>>

EventLine ==
    /\ FieldLine
    /\ event' = block
    /\ UNCHANGED <<data, size, id, idAtBlockStart, hasId, hasIdEver, hasIdEverAtBlockStart,
                   dropObserved, discarding, poisoned, adapterVars, historyVars>>

IdLine ==
    /\ FieldLine
    /\ id' = block
    /\ hasId' = TRUE
    /\ hasIdEver' = TRUE
    /\ UNCHANGED <<data, size, event, idAtBlockStart, hasIdEverAtBlockStart, dropObserved,
                   discarding, poisoned, adapterVars, historyVars>>

ClampRetry(value) ==
    IF value > RetryMax THEN RetryMax ELSE IF value < RetryMin THEN RetryMin ELSE value

\* A retry: line of digits takes effect at once, not with its block.
RetryLine(value) ==
    /\ FieldLine
    /\ retryMS' = ClampRetry(value)
    /\ UNCHANGED <<parserVars, committed, historyVars>>

-----------------------------------------------------------------------------
(* Dispatch: the blank line that ends a block.                             *)

\* The tail of Dispatch: the block is over, and the id buffer as it is now is
\* what a poisoned block will fall back to.
EndBlock ==
    /\ data' = <<>> /\ size' = 0
    /\ event' = 0
    /\ hasId' = FALSE
    /\ idAtBlockStart' = id'
    /\ hasIdEverAtBlockStart' = hasIdEver'
    /\ poisoned' = FALSE
    /\ block' = block + 1
    /\ lines' = <<>>

BlankLine == ~discarding /\ block < MaxBlocks

EndPoisonedBlock ==
    /\ BlankLine
    /\ poisoned
    /\ UNCHANGED <<id, hasIdEver, dropObserved, discarding, adapterVars, droppedAt, delivered>>
    /\ EndBlock
    /\ lost' = lost \cup {block}

\* An id-only block commits, unless an event was dropped earlier.
MayCommitId == hasId /\ ~dropObserved

EndDatalessBlock ==
    /\ BlankLine
    /\ ~poisoned /\ data = <<>>
    /\ committed' = IF MayCommitId THEN id ELSE committed
    /\ UNCHANGED <<id, hasIdEver, dropObserved, discarding, retryMS, lost, droppedAt, delivered>>
    /\ EndBlock

\* Plausible fault: an accepted event commits, whatever was dropped before it.
LastEventIdAfterDrop == hasIdEver

\* event.m_LastEventId is not null.
HasLastEventId == hasIdEver /\ ~dropObserved

\* m_OnEvent returned true: the queue took the event, the adapter commits.
EventAccepted ==
    /\ BlankLine
    /\ ~poisoned /\ data # <<>>
    /\ delivered' = [event |-> event, data |-> data, id |-> IF hasId THEN id ELSE 0,
                     block |-> block, lines |-> lines]
    /\ committed' = IF HasLastEventId THEN id ELSE committed
    /\ UNCHANGED <<id, hasIdEver, dropObserved, discarding, retryMS, lost, droppedAt>>
    /\ EndBlock

\* The id of a dropped event is rolled back.
RollBackId == id' = idAtBlockStart /\ hasIdEver' = hasIdEverAtBlockStart

\* m_OnEvent returned false: the queue was full, the event is lost, and from here
\* to the end of the attempt the resume position is frozen.
EventDropped ==
    /\ BlankLine
    /\ ~poisoned /\ data # <<>>
    /\ RollBackId
    /\ dropObserved' = TRUE
    /\ EndBlock
    /\ lost' = lost \cup {block}
    /\ droppedAt' = IF droppedAt = 0 THEN block ELSE droppedAt
    /\ UNCHANGED <<discarding, adapterVars, delivered>>

-----------------------------------------------------------------------------
\* The stream ends anywhere and the adapter starts its next attempt with Reset;
\* the unfinished block is lost.
Restart ==
    /\ block < MaxBlocks
    /\ data' = <<>> /\ size' = 0
    /\ event' = 0
    /\ id' = 0 /\ idAtBlockStart' = 0
    /\ hasId' = FALSE /\ hasIdEver' = FALSE /\ hasIdEverAtBlockStart' = FALSE
    /\ dropObserved' = FALSE /\ discarding' = FALSE /\ poisoned' = FALSE
    /\ block' = block + 1 /\ lines' = <<>>
    /\ lost' = lost \cup {block}
    /\ droppedAt' = 0
    /\ UNCHANGED <<adapterVars, delivered>>

Dispatch == EndPoisonedBlock \/ EndDatalessBlock \/ EventAccepted \/ EventDropped

Next ==
    \/ LineOverruns \/ DiscardedLineEnds
    \/ \E len \in Lengths : DataLine(len)
    \/ EventLine \/ IdLine
    \/ \E value \in RetryValues : RetryLine(value)
    \/ Dispatch
    \/ Restart

Spec == Init /\ [][Next]_vars

-----------------------------------------------------------------------------
(* Properties                                                              *)

\* The variables stay in their types: the accumulated data within the cap, and
\* the retry delay, once the server sets it, within its range.
TypeOK ==
    /\ data \in Seq(Lengths) /\ size \in 0 .. MaxBuffer
    /\ event \in Ids
    /\ id \in Ids /\ idAtBlockStart \in Ids
    /\ hasId \in BOOLEAN /\ hasIdEver \in BOOLEAN /\ hasIdEverAtBlockStart \in BOOLEAN
    /\ dropObserved \in BOOLEAN /\ discarding \in BOOLEAN /\ poisoned \in BOOLEAN
    /\ committed \in Ids
    /\ retryMS \in {InitialRetry} \cup RetryMin .. RetryMax
    /\ block \in Nat /\ lines \in Seq(Lengths)
    /\ lost \subseteq Nat
    /\ droppedAt \in Ids
    /\ delivered \in Delivery

\* A delivered event is its block, whole and nothing else: never truncated by a
\* buffer cap, never with a line, a name or an id of another block or attempt.
EventIsItsBlock ==
    /\ delivered.data = delivered.lines
    /\ delivered.block \notin lost
    /\ delivered.event \in {0, delivered.block}
    /\ delivered.id \in {0, delivered.block}

\* PoisonEvent's comment: "a dropped block can never advance the committed resume
\* position", be it dropped by a cap, by the queue, or cut by the end of a stream.
LostBlockNotCommitted == committed \notin lost

\* Dispatch's comment: no later id of the attempt "can commit past an event the
\* callback never received": the next attempt replays it.
NothingSkipped == droppedAt # 0 => committed < droppedAt

\* The resume position never moves backwards, across blocks that were rolled back
\* and across attempts.
ResumeMonotone == [][committed' >= committed]_vars

=============================================================================
