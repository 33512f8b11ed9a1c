---------------------------- MODULE SSEParserProofs ----------------------------
(***************************************************************************)
(* The parser never commits a resume position it should not, whatever the  *)
(* stream, the caps, the drops and the reconnects; and the parsers in the  *)
(* three other languages do what it does.                                  *)
(***************************************************************************)
EXTENDS MCSSEParsers, SequenceTheorems, TLAPS

\* Where every number in the state can come from: this block, or a finished one.
Numbers ==
    /\ block \in Blocks
    /\ lost \subseteq 1 .. block - 1
    /\ committed < block
    /\ idAtBlockStart < block
    /\ event \in {0, block}

\* The id buffer holds this block's id, or is as the last block left it.
IdBuffer ==
    IF hasId THEN id = block /\ hasIdEver
             ELSE id = idAtBlockStart /\ hasIdEver = hasIdEverAtBlockStart

\* The fallback of the id buffer is as good as the committed position.
Fallback ==
    /\ idAtBlockStart \notin lost
    /\ hasIdEverAtBlockStart /\ ~dropObserved => committed <= idAtBlockStart

\* The data is the whole block so far, or the block is known to be lost.
Building == IF poisoned THEN ~hasId /\ data = <<>> ELSE data = lines

Dropping ==
    /\ dropObserved <=> droppedAt # 0
    /\ droppedAt < block
    /\ NothingSkipped

Delivered == EventIsItsBlock /\ delivered.block < block

Safe ==
    /\ Numbers /\ IdBuffer /\ Fallback /\ Building /\ Dropping /\ Delivered
    /\ LostBlockNotCommitted

IInv == TypeOK /\ Safe

LEMMA NoLines == <<>> \in Seq(Lengths)
  BY EmptySeq

LEMMA InitEstablishes == Init => IInv
<1>. SUFFICES ASSUME Init PROVE IInv
  OBVIOUS
<1>. USE ParserAssumption DEF Init, Ids, Blocks
<1>1. data \in Seq(Lengths) /\ lines \in Seq(Lengths) /\ delivered \in Delivery
  BY NoLines DEF Delivery
<1>2. 0 \in Ids /\ 0 \in 0 .. MaxBuffer /\ lost \subseteq Nat
  OBVIOUS
<1>3. TypeOK
  BY <1>1, <1>2 DEF TypeOK
<1>4. Numbers
  BY DEF Numbers
<1>5. IdBuffer /\ Fallback /\ Building /\ LostBlockNotCommitted
  BY DEF IdBuffer, Fallback, Building, LostBlockNotCommitted
<1>6. Dropping /\ Delivered
  BY DEF Dropping, NothingSkipped, Delivered, EventIsItsBlock
<1>. QED
  BY <1>3, <1>4, <1>5, <1>6 DEF IInv, Safe

-----------------------------------------------------------------------------
\* A line inside a block: the block number and everything committed, lost or
\* delivered stay as they are.
InBlock == UNCHANGED <<committed, block, lost, droppedAt, dropObserved, delivered,
                       idAtBlockStart, hasIdEverAtBlockStart>>

LEMMA InBlockSafe ==
  ASSUME IInv, InBlock, event' \in {event, block}, IdBuffer', Building'
  PROVE  Safe'
  BY DEF IInv, InBlock, Safe, Numbers, Fallback, Dropping, NothingSkipped, Delivered,
         EventIsItsBlock, LostBlockNotCommitted

LEMMA LineStep ==
  ASSUME IInv, \/ LineOverruns \/ DiscardedLineEnds \/ EventLine \/ IdLine
               \/ \E len \in Lengths : DataLine(len)
               \/ \E value \in RetryValues : RetryLine(value)
  PROVE  IInv'
<1>. USE ParserAssumption DEF parserVars, adapterVars, historyVars, IInv
<1>1. CASE LineOverruns
  <2>. USE <1>1 DEF LineOverruns, PoisonEvent
  <2>0. data' \in Seq(Lengths) /\ size' \in 0 .. MaxBuffer
    BY NoLines
  <2>1. TypeOK'
    BY <2>0 DEF TypeOK
  <2>2. InBlock /\ IdBuffer' /\ Building'
    BY DEF InBlock, IdBuffer, Building
  <2>. QED
    BY <2>1, <2>2, InBlockSafe
<1>2. CASE DiscardedLineEnds
  <2>. USE <1>2 DEF DiscardedLineEnds
  <2>1. TypeOK'
    BY DEF TypeOK
  <2>2. InBlock /\ IdBuffer' /\ Building'
    BY DEF InBlock, IdBuffer, Building, Safe
  <2>. QED
    BY <2>1, <2>2, InBlockSafe
<1>3. CASE EventLine
  <2>. USE <1>3 DEF EventLine
  <2>1. TypeOK'
    BY DEF TypeOK, Safe, Numbers, Blocks, Ids
  <2>2. InBlock /\ IdBuffer' /\ Building'
    BY DEF InBlock, IdBuffer, Building, Safe
  <2>. QED
    BY <2>1, <2>2, InBlockSafe
<1>4. CASE IdLine
  <2>. USE <1>4 DEF IdLine
  <2>1. TypeOK'
    BY DEF TypeOK, Safe, Numbers, Blocks, Ids
  <2>2. InBlock /\ IdBuffer' /\ Building'
    BY DEF InBlock, IdBuffer, Building, Safe, FieldLine
  <2>. QED
    BY <2>1, <2>2, InBlockSafe
<1>5. ASSUME NEW len \in Lengths, DataLine(len) PROVE IInv'
  <2>. USE <1>5 DEF DataLine
  <2>1. /\ lines' \in Seq(Lengths)
        /\ Append(data, len) \in Seq(Lengths)
    BY AppendProperties DEF TypeOK
  <2>2. CASE Fits(len)
    <3>0. size' \in 0 .. MaxBuffer
      BY <2>2 DEF Fits, TypeOK, Lengths
    <3>1. TypeOK'
      BY <2>1, <2>2, <3>0 DEF TypeOK
    <3>2. InBlock /\ IdBuffer' /\ Building'
      BY <2>2 DEF InBlock, IdBuffer, Building, Safe, FieldLine
    <3>. QED
      BY <3>1, <3>2, InBlockSafe
  <2>3. CASE ~Fits(len)
    <3>. USE <2>3 DEF PoisonEvent
    <3>0. data' \in Seq(Lengths) /\ size' \in 0 .. MaxBuffer
      BY NoLines
    <3>1. TypeOK'
      BY <2>1, <3>0 DEF TypeOK
    <3>2. InBlock /\ IdBuffer' /\ Building'
      BY DEF InBlock, IdBuffer, Building
    <3>. QED
      BY <3>1, <3>2, InBlockSafe
  <2>. QED
    BY <2>2, <2>3
<1>6. ASSUME NEW value \in RetryValues, RetryLine(value) PROVE IInv'
  <2>. USE <1>6 DEF RetryLine
  <2>1. ClampRetry(value) \in RetryMin .. RetryMax
    BY DEF ClampRetry
  <2>2. TypeOK'
    BY <2>1 DEF TypeOK
  <2>3. InBlock /\ IdBuffer' /\ Building'
    BY DEF InBlock, IdBuffer, Building, Safe
  <2>. QED
    BY <2>2, <2>3, InBlockSafe
<1>. QED
  BY <1>1, <1>2, <1>3, <1>4, <1>5, <1>6

\* A block end that leaves the id buffer, as it stands or rolled back, as the
\* next block's fallback.
LEMMA EndBlockSafe ==
  ASSUME IInv, BlankLine, EndBlock,
         id' \in {id, idAtBlockStart}, id' \in Ids, hasIdEver' \in BOOLEAN,
         lost' \in {lost, lost \cup {block}},
         committed' \in {committed, id}, committed' \notin lost',
         id' \notin lost', hasIdEver' /\ ~dropObserved' => committed' <= id',
         Dropping', Delivered'
  PROVE  Safe'
<1>. USE ParserAssumption DEF IInv, TypeOK, Safe, BlankLine, EndBlock
<1>1. id <= block
  BY DEF Numbers, IdBuffer, Blocks, Ids
<1>2. Numbers'
  BY <1>1 DEF Numbers, Blocks, Ids
<1>3. IdBuffer' /\ Building'
  BY DEF IdBuffer, Building
<1>4. Fallback'
  BY DEF Fallback
<1>. QED
  BY <1>2, <1>3, <1>4 DEF LostBlockNotCommitted

LEMMA EndBlockType ==
  ASSUME IInv, BlankLine, EndBlock, id' \in {id, idAtBlockStart}, hasIdEver' \in BOOLEAN,
         dropObserved' \in BOOLEAN, lost' \in {lost, lost \cup {block}},
         committed' \in {committed, id}, droppedAt' \in Ids, delivered' \in Delivery,
         UNCHANGED <<discarding, retryMS>>
  PROVE  TypeOK'
<1>. USE ParserAssumption DEF IInv, TypeOK, EndBlock
<1>1. data' \in Seq(Lengths) /\ lines' \in Seq(Lengths)
  BY NoLines
<1>2. size' \in 0 .. MaxBuffer /\ event' \in Ids /\ block' \in Nat
  BY DEF Ids
<1>3. lost' \subseteq Nat
  OBVIOUS
<1>. QED
  BY <1>1, <1>2, <1>3

LEMMA DispatchStep == IInv /\ Dispatch => IInv'
<1>. SUFFICES ASSUME IInv, Dispatch PROVE IInv'
  OBVIOUS
<1>. USE ParserAssumption DEF IInv, TypeOK, adapterVars
<1>0. /\ block \in Ids /\ block \notin lost /\ idAtBlockStart # block /\ committed # block
      /\ committed < block /\ droppedAt < block
  BY DEF Safe, Numbers, Dropping, Blocks, Ids
<1>1. CASE EndPoisonedBlock
  <2>. USE <1>1 DEF EndPoisonedBlock, EndBlock
  <2>1. id = idAtBlockStart /\ hasIdEver = hasIdEverAtBlockStart
    BY DEF Safe, Building, IdBuffer
  <2>2. TypeOK'
    BY EndBlockType
  <2>3. Dropping' /\ Delivered'
    BY <1>0 DEF Safe, Dropping, NothingSkipped, Delivered, EventIsItsBlock, Delivery, Ids
  <2>4. Safe'
    BY <1>0, <2>1, <2>3, EndBlockSafe DEF Safe, Fallback, LostBlockNotCommitted
  <2>. QED
    BY <2>2, <2>4
<1>2. CASE EndDatalessBlock
  <2>. USE <1>2 DEF EndDatalessBlock, EndBlock, MayCommitId
  <2>1. id \notin lost /\ (hasIdEver /\ ~dropObserved => committed <= id)
    BY <1>0 DEF Safe, IdBuffer, Fallback, Ids
  <2>2. TypeOK'
    BY EndBlockType
  <2>3. Dropping' /\ Delivered'
    BY <1>0 DEF Safe, Dropping, NothingSkipped, Delivered, EventIsItsBlock, Delivery, Ids
  <2>4. /\ committed' \in {committed, id} /\ committed' \notin lost'
        /\ hasIdEver' /\ ~dropObserved' => committed' <= id'
    BY <2>1 DEF Safe, LostBlockNotCommitted, Ids
  <2>5. Safe'
    BY <2>1, <2>3, <2>4, EndBlockSafe
  <2>. QED
    BY <2>2, <2>5
<1>3. CASE EventAccepted
  <2>. USE <1>3 DEF EventAccepted, EndBlock, HasLastEventId
  <2>1. id \notin lost /\ (hasIdEver /\ ~dropObserved => committed <= id)
    BY <1>0 DEF Safe, IdBuffer, Fallback, Ids
  <2>2. delivered' \in Delivery
    BY <1>0 DEF Delivery, Ids
  <2>3. TypeOK'
    BY <2>2, EndBlockType
  <2>4. Dropping'
    BY <1>0 DEF Safe, Dropping, NothingSkipped, Ids
  <2>5. Delivered'
    BY <1>0 DEF Safe, Building, IdBuffer, Numbers, Delivered, EventIsItsBlock, Ids
  <2>6. /\ committed' \in {committed, id} /\ committed' \notin lost'
        /\ hasIdEver' /\ ~dropObserved' => committed' <= id'
    BY <2>1 DEF Safe, LostBlockNotCommitted, Ids
  <2>7. Safe'
    BY <2>1, <2>4, <2>5, <2>6, EndBlockSafe
  <2>. QED
    BY <2>3, <2>7
<1>4. CASE EventDropped
  <2>. USE <1>4 DEF EventDropped, EndBlock, RollBackId
  <2>1. TypeOK'
    BY <1>0, EndBlockType
  <2>2. Dropping'
    BY <1>0 DEF Safe, Dropping, NothingSkipped, Ids
  <2>3. Delivered'
    BY <1>0 DEF Safe, Delivered, EventIsItsBlock, Delivery, Ids
  <2>4. Safe'
    BY <1>0, <2>2, <2>3, EndBlockSafe DEF Safe, Fallback, LostBlockNotCommitted
  <2>. QED
    BY <2>1, <2>4
<1>. QED
  BY <1>1, <1>2, <1>3, <1>4 DEF Dispatch

LEMMA RestartStep == IInv /\ Restart => IInv'
<1>. SUFFICES ASSUME IInv, Restart PROVE IInv'
  OBVIOUS
<1>. USE ParserAssumption DEF IInv, Restart, adapterVars
<1>0. data' \in Seq(Lengths) /\ lines' \in Seq(Lengths)
  BY NoLines
<1>1. TypeOK'
  <2>1. size' \in 0 .. MaxBuffer /\ 0 \in Ids /\ block' \in Nat /\ lost' \subseteq Nat
    BY DEF TypeOK, Ids
  <2>. QED
    BY <1>0, <2>1 DEF TypeOK
<1>2. Numbers'
  BY DEF TypeOK, Safe, Numbers, Blocks, Ids
<1>3. IdBuffer' /\ Building'
  BY DEF IdBuffer, Building
<1>4. Fallback' /\ LostBlockNotCommitted'
  BY DEF TypeOK, Safe, Numbers, Fallback, LostBlockNotCommitted, Blocks, Ids
<1>5. Dropping'
  BY DEF Safe, Numbers, Dropping, NothingSkipped, Blocks
<1>6. Delivered'
  BY DEF TypeOK, Safe, Numbers, Delivered, EventIsItsBlock, Delivery, Blocks, Ids
<1>. QED
  BY <1>1, <1>2, <1>3, <1>4, <1>5, <1>6 DEF Safe

LEMMA StepPreserves == IInv /\ [Next]_vars => IInv'
<1>. SUFFICES ASSUME IInv, [Next]_vars PROVE IInv'
  OBVIOUS
<1>1. CASE Next
  BY <1>1, LineStep, DispatchStep, RestartStep DEF Next
<1>2. CASE UNCHANGED vars
  BY <1>2 DEF vars, parserVars, adapterVars, historyVars, IInv, TypeOK, Safe, Numbers,
              IdBuffer, Fallback, Building, Dropping, NothingSkipped, Delivered,
              EventIsItsBlock, LostBlockNotCommitted
<1>. QED
  BY <1>1, <1>2

LEMMA InvariantHolds == Spec => []IInv
  BY InitEstablishes, StepPreserves, PTL DEF Spec

-----------------------------------------------------------------------------
(* The theorems                                                            *)

\* The variables keep their types: the data stays under the cap and a retry
\* delay the server sets stays in its range.
THEOREM TypeCorrect == Spec => []TypeOK
<1>1. IInv => TypeOK
  BY DEF IInv
<1>. QED
  BY InvariantHolds, <1>1, PTL

\* Every delivered event is exactly its block of the stream.
THEOREM EventsWhole == Spec => []EventIsItsBlock
<1>1. IInv => EventIsItsBlock
  BY DEF IInv, Safe, Delivered
<1>. QED
  BY InvariantHolds, <1>1, PTL

\* The id of a block that was not delivered whole is never the resume position.
THEOREM LostNotCommitted == Spec => []LostBlockNotCommitted
<1>1. IInv => LostBlockNotCommitted
  BY DEF IInv, Safe
<1>. QED
  BY InvariantHolds, <1>1, PTL

\* The resume position stays before the first event of the attempt that the
\* queue dropped.
THEOREM DropsReplayed == Spec => []NothingSkipped
<1>1. IInv => NothingSkipped
  BY DEF IInv, Safe, Dropping
<1>. QED
  BY InvariantHolds, <1>1, PTL

\* The resume position never moves backwards.
THEOREM ResumeForward == Spec => ResumeMonotone
<1>1. IInv /\ [Next]_vars => [committed' >= committed]_vars
  <2>. SUFFICES ASSUME IInv, Next PROVE committed' >= committed
    OBVIOUS
  <2>. USE ParserAssumption DEF IInv, TypeOK, Ids, adapterVars
  <2>1. CASE EndDatalessBlock \/ EventAccepted
    BY <2>1 DEF EndDatalessBlock, EventAccepted, MayCommitId, HasLastEventId, Safe, IdBuffer,
                Fallback, Numbers, Blocks
  <2>2. CASE ~(EndDatalessBlock \/ EventAccepted)
    <3>1. committed' = committed
      BY <2>2 DEF Next, Dispatch, LineOverruns, DiscardedLineEnds, DataLine, EventLine, IdLine,
                  RetryLine, EndPoisonedBlock, EventDropped, Restart
    <3>. QED
      BY <3>1
  <2>. QED
    BY <2>1, <2>2
<1>. QED
  BY InvariantHolds, <1>1, PTL DEF Spec, ResumeMonotone

-----------------------------------------------------------------------------
(* The ports.                                                              *)

\* Of a block that has lost nothing, the name and the id are those its lines gave,
\* and the pending id is null until an id: line; only the Objective-C parser has an
\* id that the client does not have yet.
PortIInv ==
    /\ portBlock \in Nat /\ portSize \in Nat
    /\ portHasId \in BOOLEAN /\ eventPoisoned \in BOOLEAN
    /\ ~eventPoisoned => eventName = named
    /\ portHasId => eventId = pendingLastEventId /\ pendingLastEventId # Ports!Null
    /\ port # "objc" => stored = Ports!Null

\* The two counts of a block that has lost nothing: the units of its data are at most
\* the bytes, and as many where no line has more bytes than units.
PortCounts ==
    /\ port \in {"java", "objc", "js"}
    /\ portBytes \in Nat /\ longest \in Nat /\ wide \in BOOLEAN
    /\ ~eventPoisoned => portSize <= portBytes /\ portSize <= PortMaxBuffer
    /\ ~eventPoisoned /\ ~wide => portSize = portBytes
    /\ Ports!CapsAgree

\* A block of which no line has come yet.
BlockBegins ==
    /\ ~eventPoisoned /\ portSize = 0 /\ portBytes = 0 /\ longest = 0 /\ wide = FALSE
    /\ port \in {"java", "objc", "js"}

LEMMA NothingCounted == BlockBegins => PortCounts
<1>. USE DEF BlockBegins
<1>1. ~(0 > PortMaxBuffer) /\ 0 <= PortMaxBuffer
  BY PortsAssumption
<1>2. longest = 0 /\ portBytes = 0 => ~Ports!LostInBytes
  BY <1>1 DEF Ports!LostInBytes
<1>3. ~eventPoisoned /\ longest = 0 /\ portBytes = 0 => Ports!CapsAgree
  BY <1>1, <1>2 DEF Ports!CapsAgree
<1>4. wide = FALSE => wide \in BOOLEAN
  OBVIOUS
<1>5. portSize = 0 /\ portBytes = 0 => portSize = portBytes /\ portSize <= portBytes /\ portSize <= PortMaxBuffer
  BY <1>1
<1>. QED
  BY <1>3, <1>4, <1>5 DEF PortCounts

LEMMA LineMeasures ==
  ASSUME NEW line \in PortLines
  PROVE  /\ line.value.bytes \in Nat /\ line.value.units \in Nat
         /\ line.rest.bytes \in Nat /\ line.rest.units \in Nat
         /\ line.value.units <= line.value.bytes /\ line.rest.units <= line.rest.bytes
<1>1. line \in Ports!Lines
  BY PortsAssumption
<1>2. line.value \in Ports!Texts /\ line.rest \in Ports!Texts
  BY <1>1 DEF Ports!Lines
<1>3. ASSUME NEW text \in Ports!Texts PROVE text.bytes \in Nat /\ text.units \in Nat /\ text.units <= text.bytes
  BY DEF Ports!Texts
<1>. QED
  BY <1>2, <1>3

\* The value of a line that a reader lets pass has no more units than the cap.
LEMMA ShortLine ==
  ASSUME NEW line \in PortLines, port \in {"java", "objc", "js"}, ~Ports!TooLong(line)
  PROVE  line.value.units \in Ports!Parser!Lengths
<1>1. PortMaxBuffer \in Nat
  BY PortsAssumption
<1>2. Ports!LineBytes(line) <= PortMaxBuffer \/ Ports!LineUnits(line) <= PortMaxBuffer
  BY LineMeasures, <1>1 DEF Ports!TooLong, Ports!LineBytes, Ports!LineUnits
<1>. QED
  <2>1. line.value.units \in Nat /\ line.value.units <= PortMaxBuffer
    BY LineMeasures, <1>1, <1>2 DEF Ports!LineBytes, Ports!LineUnits
  <2>. QED
    BY <2>1, <1>1 DEF Ports!Parser!Lengths

\* What a line that is too long, or one data line too many, does to the block.
LEMMA PortPoisons ==
  ASSUME Ports!Poison
  PROVE  Ports!Parser!PoisonEvent /\ UNCHANGED <<Ports!OrZero(pendingAtBlockStart), (pendingAtBlockStart # Ports!Null)>>
  BY DEF Ports!Poison, Ports!Reset, Ports!Parser!PoisonEvent, Ports!OrZero

LEMMA PortInitial == Ports!Init => PortIInv /\ PortCounts /\ Ports!Parser!Init
<1>. SUFFICES ASSUME Ports!Init PROVE PortIInv /\ PortCounts /\ Ports!Parser!Init
  OBVIOUS
<1>. USE DEF Ports!Init
<1>1. PortIInv
  BY DEF PortIInv
<1>2. Ports!Parser!Init
  BY DEF Ports!Parser!Init, Ports!OrZero
<1>3. PortCounts
  BY NothingCounted DEF BlockBegins
<1>. QED
  BY <1>1, <1>2, <1>3

LEMMA PortInvariance ==
  ASSUME PortIInv, [Ports!Next]_(Ports!vars)
  PROVE  PortIInv'
<1>. USE DEF PortIInv, Ports!Reset, Ports!Poison, Ports!BlankLine, Ports!CommitsIf, Ports!Commits, Ports!MayCommit,
     Ports!eventVars, Ports!idVars, Ports!clientVars, Ports!deliveryVars, Ports!FieldLine
<1>1. ASSUME NEW line \in PortLines, Ports!LineOverruns(line) \/ Ports!OtherLine(line) PROVE PortIInv'
  <2>1. CASE Ports!LineOverruns(line)
    BY <2>1 DEF Ports!LineOverruns
  <2>2. CASE Ports!OtherLine(line)
    BY <2>2 DEF Ports!OtherLine
  <2>. QED
    BY <1>1, <2>1, <2>2
<1>2. CASE Ports!DiscardedLineEnds
  BY <1>2 DEF Ports!DiscardedLineEnds
<1>3. ASSUME NEW line \in PortLines, Ports!DataLine(line) PROVE PortIInv'
  <2>1. line.value.units \in Nat
    BY LineMeasures
  <2>2. CASE Ports!Overflows(line.value)
    <3>1. portSize' = 0 /\ portHasId' = FALSE /\ eventPoisoned' = TRUE
      BY <1>3, <2>2 DEF Ports!DataLine
    <3>2. UNCHANGED <<port, portBlock, stored>>
      BY <1>3 DEF Ports!DataLine
    <3>. QED
      BY <3>1, <3>2
  <2>3. CASE ~Ports!Overflows(line.value)
    BY <1>3, <2>1, <2>3 DEF Ports!DataLine
  <2>. QED
    BY <2>2, <2>3
<1>4. ASSUME NEW line \in PortLines, Ports!EventLine(line) PROVE PortIInv'
  BY <1>4 DEF Ports!EventLine
<1>5. ASSUME NEW line \in PortLines, Ports!IdLine(line) PROVE PortIInv'
  BY <1>5 DEF Ports!IdLine, Ports!Null
<1>6. ASSUME NEW line \in PortLines, NEW value \in PortRetryValues, Ports!RetryLine(line, value) PROVE PortIInv'
  BY <1>6 DEF Ports!RetryLine
<1>7. CASE Ports!EndPoisonedBlock
  <2>1. portSize' = 0 /\ portHasId' = FALSE /\ eventName' = 0 /\ named' = 0
    BY <1>7 DEF Ports!EndPoisonedBlock
  <2>2. portBlock' \in Nat /\ eventPoisoned' = FALSE
    BY <1>7 DEF Ports!EndPoisonedBlock
  <2>3. port' # "objc" => stored' = Ports!Null
    BY <1>7 DEF Ports!EndPoisonedBlock
  <2>. QED
    BY <2>1, <2>2, <2>3
<1>8. CASE Ports!EndDatalessBlock
  <2>1. portSize' = 0 /\ portHasId' = FALSE /\ eventName' = 0 /\ named' = 0
    BY <1>8 DEF Ports!EndDatalessBlock
  <2>2. portBlock' \in Nat /\ eventPoisoned' = FALSE
    BY <1>8 DEF Ports!EndDatalessBlock
  <2>3. port' # "objc" => stored' = Ports!Null
    BY <1>8 DEF Ports!EndDatalessBlock
  <2>. QED
    BY <2>1, <2>2, <2>3
<1>9. CASE Ports!EventAccepted
  <2>1. portSize' = 0 /\ portHasId' = FALSE /\ eventName' = 0 /\ named' = 0
    BY <1>9 DEF Ports!EventAccepted
  <2>2. portBlock' \in Nat /\ eventPoisoned' = FALSE
    BY <1>9 DEF Ports!EventAccepted
  <2>3. port' # "objc" => stored' = Ports!Null
    BY <1>9 DEF Ports!EventAccepted
  <2>. QED
    BY <2>1, <2>2, <2>3
<1>10. CASE Ports!EventDropped
  <2>1. portSize' = 0 /\ portHasId' = FALSE /\ eventName' = 0 /\ named' = 0
    BY <1>10 DEF Ports!EventDropped
  <2>2. portBlock' \in Nat /\ eventPoisoned' = FALSE
    BY <1>10 DEF Ports!EventDropped
  <2>3. port' # "objc" => stored' = Ports!Null
    BY <1>10 DEF Ports!EventDropped
  <2>. QED
    BY <2>1, <2>2, <2>3
<1>11. CASE Ports!Restart
  <2>1. portSize' = 0 /\ portHasId' = FALSE /\ eventName' = 0 /\ named' = 0
    BY <1>11 DEF Ports!Restart
  <2>2. portBlock' \in Nat /\ eventPoisoned' = FALSE
    BY <1>11 DEF Ports!Restart
  <2>3. port' # "objc" => stored' = Ports!Null
    BY <1>11 DEF Ports!Restart
  <2>. QED
    BY <2>1, <2>2, <2>3
<1>12. CASE UNCHANGED Ports!vars
  BY <1>12 DEF Ports!vars
<1>. QED
  BY <1>1, <1>2, <1>3, <1>4, <1>5, <1>6, <1>7, <1>8, <1>9, <1>10, <1>11, <1>12 DEF Ports!Next

\* Of a line in bytes: it can be longer than any before it.
LEMMA LongerLine ==
  ASSUME PortCounts, NEW line \in PortLines, Ports!Measured(line)
  PROVE  /\ longest' \in Nat /\ longest' >= longest /\ longest' >= Ports!LineBytes(line)
         /\ longest' \in {longest, Ports!LineBytes(line)}
         /\ wide' \in BOOLEAN
         /\ Ports!LineBytes(line) \in Nat /\ Ports!LineUnits(line) \in Nat
         /\ Ports!LineUnits(line) <= Ports!LineBytes(line)
         /\ ~wide' => ~wide
         /\ ~wide' => Ports!LineBytes(line) = Ports!LineUnits(line) /\ line.value.bytes = line.value.units
<1>1. Ports!LineBytes(line) \in Nat /\ Ports!LineUnits(line) \in Nat
  BY LineMeasures DEF Ports!LineBytes, Ports!LineUnits
<1>2. Ports!LineUnits(line) <= Ports!LineBytes(line)
  BY LineMeasures DEF Ports!LineBytes, Ports!LineUnits
<1>3. Ports!LineBytes(line) = Ports!LineUnits(line) => line.value.bytes = line.value.units
  BY LineMeasures DEF Ports!LineBytes, Ports!LineUnits
<1>4. /\ longest' \in Nat /\ longest' >= longest /\ longest' >= Ports!LineBytes(line)
      /\ longest' \in {longest, Ports!LineBytes(line)}
  <2>1. longest \in Nat /\ longest' = IF Ports!LineBytes(line) > longest THEN Ports!LineBytes(line) ELSE longest
    BY DEF PortCounts, Ports!Measured
  <2>. QED
    BY <2>1, <1>1
<1>5. wide' \in BOOLEAN /\ (~wide' => ~wide /\ Ports!LineBytes(line) = Ports!LineUnits(line))
  BY DEF PortCounts, Ports!Measured
<1>. QED
  BY <1>1, <1>2, <1>3, <1>4, <1>5

\* A line that reaches the fields adds to the data, if at all, as many units as bytes or
\* fewer, and as many where it is not wide.
LEMMA FieldLineCounts ==
  ASSUME PortCounts, PortIInv, NEW line \in PortLines, Ports!FieldLine(line), UNCHANGED port,
         portBytes' \in Nat,
         ~eventPoisoned' => /\ portSize' <= portBytes' /\ portSize' <= PortMaxBuffer
                            /\ ~wide' => portSize' = portBytes',
         eventPoisoned' => portBytes' > PortMaxBuffer
  PROVE  PortCounts'
<1>1. PortMaxBuffer \in Nat
  BY PortsAssumption
<1>2. ~eventPoisoned /\ Ports!Measured(line) /\ ~Ports!TooLong(line)
  BY DEF Ports!FieldLine
<1>3. longest' \in Nat /\ wide' \in BOOLEAN
  BY <1>2, LongerLine
<1>4. eventPoisoned' => Ports!LostInBytes'
  BY DEF Ports!LostInBytes
<1>5. longest' > PortMaxBuffer => wide' /\ port = "js"
  <2>1. CASE longest' = longest
    <3>1. longest > PortMaxBuffer => wide /\ port = "js"
      BY <1>2 DEF PortCounts, Ports!CapsAgree, Ports!LostInBytes
    <3>. QED
      BY <2>1, <3>1, <1>2, LongerLine
  <2>2. CASE longest' = Ports!LineBytes(line)
    <3>1. Ports!LineBytes(line) > PortMaxBuffer => port = "js" /\ ~(Ports!LineUnits(line) > PortMaxBuffer)
      BY <1>1, <1>2, LongerLine DEF PortCounts, Ports!TooLong
    <3>2. Ports!LineBytes(line) > PortMaxBuffer => Ports!LineBytes(line) # Ports!LineUnits(line)
      BY <3>1
    <3>. QED
      BY <2>2, <3>1, <3>2, <1>2 DEF Ports!Measured
  <2>. QED
    BY <2>1, <2>2, <1>2, LongerLine
<1>6. ~eventPoisoned' /\ portBytes' > PortMaxBuffer => wide'
  <2>1. portSize' <= PortMaxBuffer => ~(portSize' = portBytes' /\ portBytes' > PortMaxBuffer)
    BY <1>1
  <2>. QED
    BY <2>1, <1>3
<1>7. Ports!CapsAgree'
  BY <1>4, <1>5, <1>6 DEF Ports!CapsAgree, Ports!LostInBytes
<1>. QED
  BY <1>3, <1>7 DEF PortCounts

LEMMA PortCounting ==
  ASSUME PortIInv, PortCounts, [Ports!Next]_(Ports!vars)
  PROVE  PortCounts'
<1>. USE PortsAssumption
<1>1. ASSUME NEW line \in PortLines, Ports!LineOverruns(line) PROVE PortCounts'
  <2>1. Ports!Measured(line) /\ Ports!TooLong(line) /\ eventPoisoned' = TRUE /\ UNCHANGED <<port, portBytes>>
    BY <1>1 DEF Ports!LineOverruns, Ports!Poison
  <2>2. longest' > PortMaxBuffer \/ (port = "java" /\ longest' = PortMaxBuffer)
    BY <2>1, LongerLine DEF Ports!TooLong
  <2>. QED
    BY <2>1, <2>2, LongerLine DEF PortCounts, Ports!CapsAgree, Ports!LostInBytes
<1>2. ASSUME NEW line \in PortLines, Ports!FieldLine(line),
             UNCHANGED <<port, portBytes, portSize, eventPoisoned>>
      PROVE  PortCounts'
  <2>1. ~eventPoisoned /\ (~wide' => ~wide)
    BY <1>2, LongerLine DEF Ports!FieldLine
  <2>2. ~eventPoisoned' => /\ portSize' <= portBytes' /\ portSize' <= PortMaxBuffer
                           /\ ~wide' => portSize' = portBytes'
    BY <1>2, <2>1 DEF PortCounts
  <2>3. portBytes' \in Nat /\ eventPoisoned' = eventPoisoned /\ port' = port
    BY <1>2 DEF PortCounts
  <2>. QED
    BY <1>2, <2>1, <2>2, <2>3, FieldLineCounts
<1>3. ASSUME NEW line \in PortLines, Ports!DataLine(line) PROVE PortCounts'
  <2>1. Ports!FieldLine(line) /\ UNCHANGED port /\ portBytes' = portBytes + line.value.bytes + 1
    BY <1>3 DEF Ports!DataLine
  <2>2. /\ ~eventPoisoned /\ portBytes \in Nat /\ portSize \in Nat
        /\ portSize <= portBytes /\ (~wide => portSize = portBytes)
    BY <2>1 DEF Ports!FieldLine, PortCounts, PortIInv
  <2>3. (~wide' => ~wide) /\ (~wide' => line.value.bytes = line.value.units)
    BY <2>1, LongerLine DEF Ports!FieldLine
  <2>4. portBytes' \in Nat
    BY <2>1, <2>2, LineMeasures
  <2>5. CASE Ports!Overflows(line.value)
    <3>1. eventPoisoned' = TRUE
      BY <1>3, <2>5 DEF Ports!DataLine, Ports!Poison
    <3>2. portBytes' > PortMaxBuffer
      BY <2>1, <2>2, <2>5, LineMeasures DEF Ports!Overflows
    <3>. QED
      BY <2>1, <2>4, <3>1, <3>2, FieldLineCounts
  <2>6. CASE ~Ports!Overflows(line.value)
    <3>1. eventPoisoned' = FALSE /\ portSize' = portSize + line.value.units + 1
      BY <1>3, <2>2, <2>6 DEF Ports!DataLine, PortIInv
    <3>2. portSize' <= portBytes' /\ portSize' <= PortMaxBuffer
      BY <2>1, <2>2, <2>6, <3>1, LineMeasures DEF Ports!Overflows
    <3>3. ~wide' => portSize' = portBytes'
      BY <2>1, <2>2, <2>3, <3>1
    <3>. QED
      BY <2>1, <2>4, <3>1, <3>2, <3>3, FieldLineCounts
  <2>. QED
    BY <2>5, <2>6
<1>4. CASE Ports!DiscardedLineEnds \/ UNCHANGED Ports!vars
  BY <1>4 DEF Ports!DiscardedLineEnds, Ports!vars, Ports!eventVars, Ports!measureVars, PortCounts, Ports!CapsAgree,
              Ports!LostInBytes
<1>5. CASE \/ Ports!EndPoisonedBlock \/ Ports!EndDatalessBlock \/ Ports!EventAccepted \/ Ports!EventDropped
           \/ Ports!Restart
  <2>1. portBytes' = 0 /\ longest' = 0 /\ wide' = FALSE /\ portSize' = 0 /\ UNCHANGED port
    BY <1>5 DEF Ports!EndPoisonedBlock, Ports!EndDatalessBlock, Ports!EventAccepted, Ports!EventDropped, Ports!Restart,
                Ports!BlankLine, Ports!Reset
  <2>2. eventPoisoned' = FALSE
    BY <1>5 DEF PortIInv, Ports!EndPoisonedBlock, Ports!EndDatalessBlock, Ports!EventAccepted, Ports!EventDropped,
                Ports!Restart
  <2>3. port' \in {"java", "objc", "js"}
    BY <2>1 DEF PortCounts
  <2>4. BlockBegins'
    BY <2>1, <2>2, <2>3 DEF BlockBegins
  <2>. QED
    BY <2>4, NothingCounted, PTL
<1>6. ASSUME NEW line \in PortLines, NEW value \in PortRetryValues, Ports!RetryLine(line, value)
      PROVE  PortCounts'
  BY <1>2, <1>6 DEF Ports!RetryLine, Ports!eventVars
<1>7. ASSUME NEW line \in PortLines, Ports!OtherLine(line) \/ Ports!EventLine(line) \/ Ports!IdLine(line)
      PROVE  PortCounts'
  BY <1>2, <1>7 DEF Ports!OtherLine, Ports!EventLine, Ports!IdLine, Ports!eventVars
<1>. QED
  BY <1>1, <1>3, <1>4, <1>5, <1>6, <1>7 DEF Ports!Next

\* A line of a port is the line of as many units of the C++ parser; what only the port's
\* reader sees of a line is no step of that one.
LEMMA PortLine ==
  ASSUME PortIInv, port \in {"java", "objc", "js"},
         \/ Ports!DiscardedLineEnds
         \/ \E line \in PortLines :
               \/ Ports!LineOverruns(line) \/ Ports!DataLine(line) \/ Ports!EventLine(line) \/ Ports!IdLine(line)
               \/ \E value \in PortRetryValues : Ports!RetryLine(line, value)
  PROVE  Ports!Parser!Next
<1>. USE DEF Ports!Parser!adapterVars, Ports!Parser!historyVars, Ports!Parser!FieldLine, Ports!FieldLine,
     Ports!clientVars, Ports!deliveryVars, Ports!idVars, Ports!eventVars
<1>1. ASSUME NEW line \in PortLines, Ports!LineOverruns(line) PROVE Ports!Parser!Next
  <2>1. Ports!Parser!LineOverruns
    BY <1>1, PortPoisons DEF Ports!LineOverruns, Ports!Parser!LineOverruns
  <2>. QED
    BY <2>1 DEF Ports!Parser!Next
<1>2. CASE Ports!DiscardedLineEnds
  <2>1. Ports!Parser!DiscardedLineEnds
    BY <1>2 DEF Ports!DiscardedLineEnds, Ports!Parser!DiscardedLineEnds
  <2>. QED
    BY <2>1 DEF Ports!Parser!Next
<1>3. ASSUME NEW line \in PortLines, Ports!EventLine(line) PROVE Ports!Parser!Next
  <2>1. Ports!Parser!EventLine
    BY <1>3 DEF Ports!EventLine, Ports!Parser!EventLine
  <2>. QED
    BY <2>1 DEF Ports!Parser!Next
<1>4. ASSUME NEW line \in PortLines, Ports!IdLine(line) PROVE Ports!Parser!Next
  <2>1. portBlock # Ports!Null
    BY DEF PortIInv, Ports!Null
  <2>2. Ports!Parser!IdLine
    BY <1>4, <2>1 DEF Ports!IdLine, Ports!Parser!IdLine, Ports!OrZero
  <2>. QED
    BY <2>2 DEF Ports!Parser!Next
<1>5. ASSUME NEW line \in PortLines, Ports!DataLine(line) PROVE Ports!Parser!Next
  <2>. DEFINE len == line.value.units
  <2>1. len \in Ports!Parser!Lengths
    BY <1>5, ShortLine DEF Ports!DataLine
  <2>2. Ports!Overflows(line.value) <=> ~Ports!Parser!Fits(len)
    BY PortsAssumption, LineMeasures DEF PortIInv, Ports!Overflows, Ports!Parser!Fits
  <2>3. Ports!Parser!DataLine(len)
    <3>1. CASE Ports!Overflows(line.value)
      BY <1>5, <2>2, <3>1, PortPoisons DEF Ports!DataLine, Ports!Parser!DataLine
    <3>2. CASE ~Ports!Overflows(line.value)
      BY <1>5, <2>2, <3>2 DEF Ports!DataLine, Ports!Parser!DataLine
    <3>. QED
      BY <3>1, <3>2
  <2>. QED
    BY <2>1, <2>3 DEF Ports!Parser!Next
<1>6. ASSUME NEW line \in PortLines, NEW value \in PortRetryValues, Ports!RetryLine(line, value)
      PROVE  Ports!Parser!Next
  <2>1. Ports!ClampRetry(value) = Ports!Parser!ClampRetry(value)
    BY ParserAssumption, PortsAssumption DEF Ports!ClampRetry, Ports!Parser!ClampRetry
  <2>2. Ports!Parser!RetryLine(value)
    BY <1>6, <2>1 DEF Ports!RetryLine, Ports!Parser!RetryLine, Ports!Parser!parserVars
  <2>. QED
    BY <2>2 DEF Ports!Parser!Next
<1>. QED
  BY <1>1, <1>2, <1>3, <1>4, <1>5, <1>6

\* The blank line does to the port's state what EndBlock does.
LEMMA PortBlankLine ==
  ASSUME Ports!BlankLine, eventPoisoned' = FALSE
  PROVE  Ports!Parser!BlankLine /\ Ports!Parser!EndBlock
  BY DEF Ports!BlankLine, Ports!Reset, Ports!Parser!BlankLine, Ports!Parser!EndBlock, Ports!OrZero

\* Where a port commits, the C++ parser has the same id, and where it does not neither
\* does that one.
LEMMA PortCommits ==
  ASSUME PortIInv, NEW condition, Ports!CommitsIf(condition),
         condition => pendingLastEventId # Ports!Null
  PROVE  (IF stored = Ports!Null THEN lastEventId ELSE stored)'
           = IF condition THEN Ports!OrZero(pendingLastEventId)
                          ELSE IF stored = Ports!Null THEN lastEventId ELSE stored
  BY DEF PortIInv, Ports!CommitsIf, Ports!Commits, Ports!OrZero

\* The blank line of a port is that of the C++ parser.
LEMMA PortDispatch ==
  ASSUME PortIInv,
         \/ Ports!EndPoisonedBlock \/ Ports!EndDatalessBlock \/ Ports!EventAccepted \/ Ports!EventDropped
  PROVE  Ports!Parser!Dispatch
<1>. USE DEF Ports!Parser!adapterVars
<1>1. CASE Ports!EndPoisonedBlock
  <2>1. Ports!Parser!BlankLine /\ Ports!Parser!EndBlock
    BY <1>1, PortBlankLine DEF Ports!EndPoisonedBlock
  <2>2. Ports!Parser!EndPoisonedBlock
    BY <1>1, <2>1 DEF Ports!EndPoisonedBlock, Ports!BlankLine, Ports!Parser!EndPoisonedBlock
  <2>. QED
    BY <2>2 DEF Ports!Parser!Dispatch
<1>2. CASE Ports!EndDatalessBlock
  <2>1. Ports!Parser!BlankLine /\ Ports!Parser!EndBlock
    BY <1>2, PortBlankLine DEF PortIInv, Ports!EndDatalessBlock
  <2>2. (portHasId /\ Ports!MayCommit) <=> Ports!Parser!MayCommitId
    BY DEF PortIInv, Ports!MayCommit, Ports!Parser!MayCommitId
  <2>3. (IF stored = Ports!Null THEN lastEventId ELSE stored)'
          = IF Ports!Parser!MayCommitId THEN Ports!OrZero(pendingLastEventId)
                                        ELSE IF stored = Ports!Null THEN lastEventId ELSE stored
    BY <1>2, <2>2, PortCommits DEF Ports!EndDatalessBlock, Ports!MayCommit
  <2>4. Ports!Parser!EndDatalessBlock
    BY <1>2, <2>1, <2>3 DEF Ports!EndDatalessBlock, Ports!BlankLine, Ports!deliveryVars, Ports!Parser!EndDatalessBlock
  <2>. QED
    BY <2>4 DEF Ports!Parser!Dispatch
<1>3. CASE Ports!EventAccepted
  <2>1. Ports!Parser!BlankLine /\ Ports!Parser!EndBlock
    BY <1>3, PortBlankLine DEF PortIInv, Ports!EventAccepted
  <2>2. Ports!MayCommit <=> Ports!Parser!HasLastEventId
    BY DEF Ports!MayCommit, Ports!Parser!HasLastEventId
  <2>3. (IF stored = Ports!Null THEN lastEventId ELSE stored)'
          = IF Ports!Parser!HasLastEventId THEN Ports!OrZero(pendingLastEventId)
                                           ELSE IF stored = Ports!Null THEN lastEventId ELSE stored
    BY <1>3, <2>2, PortCommits DEF Ports!EventAccepted, Ports!MayCommit
  <2>4. eventName = named /\ (portHasId => eventId = Ports!OrZero(pendingLastEventId))
    BY <1>3 DEF PortIInv, Ports!EventAccepted, Ports!OrZero
  <2>5. Ports!Parser!EventAccepted
    BY <1>3, <2>1, <2>3, <2>4 DEF Ports!EventAccepted, Ports!BlankLine, Ports!Parser!EventAccepted
  <2>. QED
    BY <2>5 DEF Ports!Parser!Dispatch
<1>4. CASE Ports!EventDropped
  <2>1. Ports!Parser!BlankLine /\ Ports!Parser!EndBlock
    BY <1>4, PortBlankLine DEF PortIInv, Ports!EventDropped
  <2>2. Ports!Parser!RollBackId
    BY <1>4 DEF Ports!EventDropped, Ports!Parser!RollBackId, Ports!OrZero
  <2>3. Ports!Parser!EventDropped
    BY <1>4, <2>1, <2>2 DEF Ports!EventDropped, Ports!BlankLine, Ports!Parser!EventDropped
  <2>. QED
    BY <2>3 DEF Ports!Parser!Dispatch
<1>. QED
  BY <1>1, <1>2, <1>3, <1>4

\* The new parser of the next attempt, and on iOS the id that is taken over.
LEMMA PortRestarts ==
  ASSUME PortIInv, Ports!Restart
  PROVE  Ports!Parser!Restart
  BY DEF Ports!Restart, Ports!Parser!Restart, Ports!Parser!adapterVars, Ports!OrZero

LEMMA PortStep ==
  ASSUME PortIInv, port \in {"java", "objc", "js"}, [Ports!Next]_(Ports!vars)
  PROVE  [Ports!Parser!Next]_(Ports!Parser!vars)
<1>1. CASE UNCHANGED Ports!vars \/ \E line \in PortLines : Ports!OtherLine(line)
  BY <1>1 DEF Ports!vars, Ports!OtherLine, Ports!eventVars, Ports!idVars, Ports!clientVars, Ports!deliveryVars,
     Ports!OrZero, Ports!Parser!vars, Ports!Parser!parserVars, Ports!Parser!adapterVars, Ports!Parser!historyVars
<1>2. CASE Ports!Restart
  BY <1>2, PortRestarts DEF Ports!Parser!Next
<1>3. CASE Ports!EndPoisonedBlock \/ Ports!EndDatalessBlock \/ Ports!EventAccepted \/ Ports!EventDropped
  BY <1>3, PortDispatch DEF Ports!Parser!Next
<1>. QED
  BY <1>1, <1>2, <1>3, PortLine DEF Ports!Next

\* The parsers in Java, Objective-C and JavaScript are the C++ parser by their own count
\* of UTF-16 units, and lose to a cap only what that one loses by its count of bytes, but
\* for Java's line of just the cap's bytes; what they let pass and it does not has
\* characters of several bytes.  For buffers of any size and streams of any length.
THEOREM PortsAreTheParser == Ports!Spec => PortIsParser
<1>1. PortIInv /\ PortCounts /\ [Ports!Next]_(Ports!vars) => (PortIInv /\ PortCounts)'
  BY PortInvariance, PortCounting
<1>2. PortIInv /\ PortCounts /\ [Ports!Next]_(Ports!vars) => [Ports!Parser!Next]_(Ports!Parser!vars)
  BY PortStep DEF PortCounts
<1>3. PortCounts => Ports!CapsAgree
  BY DEF PortCounts
<1>. QED
  BY <1>1, <1>2, <1>3, PortInitial, PTL DEF Ports!Spec, PortIsParser, Ports!PortIsParser, Ports!Parser!Spec

=============================================================================
