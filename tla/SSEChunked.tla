------------------------------ MODULE SSEChunked ------------------------------
(***************************************************************************)
(* The Linux adapter's decoder of chunked bodies.  A read of the socket    *)
(* may end anywhere, also within a size line or between the two bytes of a *)
(* line break; the decoder keeps its place from one read to the next.  One *)
(* step is one pass of the loop of SSEDM_FeedChunkedBody.                  *)
(***************************************************************************)
EXTENDS Integers, Sequences, FiniteSetsExt

CONSTANTS
    Bytes,      \* the bytes the server may send
    MaxLine,    \* the cap on a size line, 1024 in the code
    SizeMax,    \* SIZE_MAX
    MaxWire,    \* bound: bytes the server sends
    MaxRead     \* bound: bytes one read of the socket returns

\* A hexadecimal digit is its value; of the other bytes the decoder tells apart these.
Digits == 0 .. 15
CR == 16
LF == 17
Blank == 18
Semicolon == 19
Other == 20

VARIABLES
    wire,       \* history: the bytes received so far
    read,       \* how many of them the decoder has consumed
    line,       \* m_Line
    remaining,  \* m_Remaining
    state,      \* m_State
    failed,     \* SSEDM_FeedChunkedBody has returned false
    fed         \* history: the bytes given to the parser

vars == <<wire, read, line, remaining, state, failed, fed>>

Init ==
    /\ wire = <<>> /\ read = 0
    /\ line = <<>> /\ remaining = 0
    /\ state = "size"
    /\ failed = FALSE
    /\ fed = <<>>

-----------------------------------------------------------------------------
(* SSEDM_ParseChunkSize.                                                   *)

NoSize == -1

\* The place of the first b in s, and one past the end when there is none.
FirstOf(s, b) == Min({i \in DOMAIN s : s[i] = b} \cup {Len(s) + 1})

\* What the loop looks at: it stops at a semicolon.
SizeText(s) == SubSeq(s, 1, FirstOf(s, Semicolon) - 1)

AllBlank(text) == \A i \in DOMAIN text : text[i] = Blank

\* One more digit, unless that overflows size_t.
Grown(size, digit) ==
    IF size > (SizeMax - digit) \div 16 THEN NoSize ELSE size * 16 + digit

\* Blanks are passed over; a text of nothing else has no digit.
ParseChunkSize(s) ==
    LET text == SizeText(s)
        size[i \in 0 .. Len(text)] ==
            IF i = 0 THEN 0
            ELSE IF text[i] = Blank THEN size[i - 1]
            ELSE IF size[i - 1] = NoSize \/ text[i] \notin Digits THEN NoSize
            ELSE Grown(size[i - 1], text[i])
    IN  IF AllBlank(text) THEN NoSize ELSE size[Len(text)]

\* A size line without the line breaks at its end.
Trimmed(s) ==
    LET kept == {i \in DOMAIN s : s[i] \notin {CR, LF}}
    IN  SubSeq(s, 1, Max(kept \cup {0}))

-----------------------------------------------------------------------------
\* The socket returns some bytes.
Receive ==
    /\ read = Len(wire) /\ ~failed /\ state # "done"
    /\ \E n \in 1 .. MaxRead : \E segment \in [1 .. n -> Bytes] :
           /\ Len(wire) + n <= MaxWire
           /\ wire' = wire \o segment
    /\ UNCHANGED <<read, line, remaining, state, failed, fed>>

\* The loop runs while there is a byte to look at.
Looping(s) == ~failed /\ read < Len(wire) /\ state = s
Byte == wire[read + 1]

Fail == failed' = TRUE /\ UNCHANGED <<remaining, state>>

\* STATE_SIZE, a byte within the line.
SizeByte ==
    /\ Looping("size") /\ Len(line) < MaxLine /\ Byte # LF
    /\ line' = Append(line, Byte)
    /\ read' = read + 1
    /\ UNCHANGED <<wire, remaining, state, failed, fed>>

\* STATE_SIZE, a byte too many.
SizeTooLong ==
    /\ Looping("size") /\ Len(line) >= MaxLine
    /\ line' = Append(line, Byte)
    /\ read' = read + 1
    /\ Fail /\ UNCHANGED <<wire, fed>>

\* The state a valid size line leads to.
ChunkBegins(size) ==
    /\ state' = IF size = 0 THEN "done" ELSE "data"
    /\ remaining' = size

\* STATE_SIZE, the end of the line.
SizeEnds ==
    /\ Looping("size") /\ Len(line) < MaxLine /\ Byte = LF
    /\ read' = read + 1
    /\ LET size == ParseChunkSize(Trimmed(line))
       IN  IF size = NoSize
           THEN line' = Append(line, LF) /\ Fail
           ELSE line' = <<>> /\ ChunkBegins(size) /\ UNCHANGED failed
    /\ UNCHANGED <<wire, fed>>

\* How much of the read belongs to the chunk.
Block(available) == IF remaining < available THEN remaining ELSE available

\* STATE_DATA.
Data ==
    /\ Looping("data")
    /\ LET block == Block(Len(wire) - read)
       IN  /\ fed' = fed \o SubSeq(wire, read + 1, read + block)
           /\ read' = read + block
           /\ remaining' = remaining - block
           /\ state' = IF remaining' = 0 THEN "dataCrlf" ELSE "data"
    /\ UNCHANGED <<wire, line, failed>>

\* STATE_DATA_CRLF.
Delimiter ==
    /\ Looping("dataCrlf")
    /\ read' = read + 1
    /\ \/ Byte = CR /\ state' = "dataLf" /\ UNCHANGED <<remaining, failed>>
       \/ Byte = LF /\ state' = "size" /\ UNCHANGED <<remaining, failed>>
       \/ Byte \notin {CR, LF} /\ Fail
    /\ UNCHANGED <<wire, line, fed>>

\* Plausible fault: whatever follows the CR is swallowed.
DelimiterLfAny ==
    /\ Looping("dataLf")
    /\ read' = read + 1
    /\ state' = "size"
    /\ UNCHANGED <<wire, line, remaining, failed, fed>>

\* STATE_DATA_LF.
DelimiterLf ==
    /\ Looping("dataLf")
    /\ read' = read + 1
    /\ \/ Byte = LF /\ state' = "size" /\ UNCHANGED <<remaining, failed>>
       \/ Byte # LF /\ Fail
    /\ UNCHANGED <<wire, line, fed>>

Next == Receive \/ SizeByte \/ SizeTooLong \/ SizeEnds \/ Data \/ Delimiter \/ DelimiterLf

Spec == Init /\ [][Next]_vars

-----------------------------------------------------------------------------
(* The reference: what a chunked body means, read as a whole.              *)

\* The number the digits of a text stand for, in unbounded arithmetic.
Number(text) ==
    LET upTo[i \in 0 .. Len(text)] ==
            IF i = 0 THEN 0
            ELSE IF text[i] = Blank THEN upTo[i - 1]
            ELSE upTo[i - 1] * 16 + text[i]
    IN  upTo[Len(text)]

MeantSize(s) ==
    LET text == SizeText(s)
    IN  IF AllBlank(text) \/ (\E i \in DOMAIN text : text[i] \notin Digits \cup {Blank})
           \/ Number(text) > SizeMax
        THEN NoSize ELSE Number(text)

From(s, i) == SubSeq(s, i, Len(s))
Yields(data, outcome) == [data |-> data, outcome |-> outcome]

\* The data of the chunks of s, and whether s can go on, is complete or malformed.
\* What follows a chunk's data is a line break, then the next chunk.
Meaning[s \in Seq(Bytes)] ==
    LET end   == FirstOf(s, LF)
        size  == MeantSize(Trimmed(SubSeq(s, 1, end - 1)))
        body  == From(s, end + 1)
        data  == SubSeq(body, 1, size)
        after == From(body, size + 1)
        break == IF after[1] = CR THEN 2 ELSE 1
        rest  == Meaning[From(after, break + 1)]
    IN  CASE end > MaxLine -> Yields(<<>>, IF Len(s) > MaxLine THEN "malformed" ELSE "open")
          [] end <= MaxLine /\ end > Len(s) -> Yields(<<>>, "open")
          [] end <= MaxLine /\ end <= Len(s) /\ size = NoSize -> Yields(<<>>, "malformed")
          [] end <= MaxLine /\ end <= Len(s) /\ size = 0 -> Yields(<<>>, "complete")
          [] end <= MaxLine /\ end <= Len(s) /\ size > 0 ->
                 IF Len(body) <= size THEN Yields(body, "open")
                 ELSE IF break > Len(after) THEN Yields(data, "open")
                 ELSE IF after[break] # LF THEN Yields(data, "malformed")
                 ELSE Yields(data \o rest.data, rest.outcome)

-----------------------------------------------------------------------------
(* Properties.                                                             *)

\* Wherever the reads end, the parser has been given exactly the data of the chunks
\* consumed so far, and the body is refused or ended exactly where it should be.
DecodesBody ==
    LET meant == Meaning[SubSeq(wire, 1, read)]
    IN  /\ fed = meant.data
        /\ failed <=> meant.outcome = "malformed"
        /\ state = "done" <=> meant.outcome = "complete"
=============================================================================
