------------------------------ MODULE MCSSEAttempt ----------------------------
(* Model checking of what a worker computes in an attempt, apart from its       *)
(* parser: where the body of a response begins, what a chunked body says, and   *)
(* how long to wait afterwards.  The three share nothing: a behaviour is that   *)
(* of one of them, while the variables of the others stay as they are.          *)
(*   - the head: every response of up to eight tokens, in reads of one to three;*)
(*   - the body: every body of up to eight bytes over eight kinds, in reads of  *)
(*     one or two, where a size_t that ends at 18 lets sizes of two digits      *)
(*     overflow or just fit;                                                    *)
(*   - the delay: with the constants of the code.                               *)
EXTENDS SSERetry, Sequences

CONSTANTS
    Bytes, MaxLine, SizeMax, BodyMaxWire, BodyMaxRead,  \* of SSEChunked
    MaxHead, HeadMaxWire, HeadMaxRead                   \* of SSEHeaders

ASSUME BodyAssumption == MaxLine \in Nat /\ SizeMax \in Nat

VARIABLES
    stage,      \* the one that runs: "head", "body" or "delay"
    headerBuffer, headersDone, chunked, headFed, headFailed, headWire,
    bodyWire, read, line, remaining, state, bodyFailed, bodyFed

headVars == <<headerBuffer, headersDone, chunked, headFed, headFailed, headWire>>
bodyVars == <<bodyWire, read, line, remaining, state, bodyFailed, bodyFed>>

Headers == INSTANCE SSEHeaders WITH
    MaxWire <- HeadMaxWire, MaxRead <- HeadMaxRead,
    fed <- headFed, failed <- headFailed, wire <- headWire

Body == INSTANCE SSEChunked WITH
    MaxWire <- BodyMaxWire, MaxRead <- BodyMaxRead,
    fed <- bodyFed, failed <- bodyFailed, wire <- bodyWire

\* Outside, at and inside the ends of the range, and the largest int.
MCOptions == {0, 999, 1000, 1001, 3000, 299999, 300000, 2147483647}
MCServerRetries == {1000, 1172, 300000}
MCJitters == {-200, -199, -1, 0, 1, 200}

\* Three hexadecimal digits, and CR, LF, Blank, Semicolon and Other of SSEChunked.
MCBytes == 0..2 \union 16..20

MCInit ==
    /\ stage \in {"head", "body", "delay"}
    /\ Headers!Init /\ Body!Init /\ Init
    /\ stage # "delay" => retryMS = RetryMin

MCNext ==
    /\ UNCHANGED stage
    /\ \/ stage = "head" /\ Headers!Next /\ UNCHANGED <<bodyVars, vars>>
       \/ stage = "body" /\ Body!Next /\ UNCHANGED <<headVars, vars>>
       \/ stage = "delay" /\ Next /\ UNCHANGED <<headVars, bodyVars>>

MCSpec == MCInit /\ [][MCNext]_<<stage, headVars, bodyVars, vars>>

\* SSEHeaders!CutAtBlankLine: wherever the reads end, a head with CR LF line ends is cut
\* from its body at its first blank line.
CutAtBlankLine == Headers!CutAtBlankLine

\* SSEChunked!DecodesBody: wherever the reads end, the parser is given exactly the data
\* of the chunks, and the body is refused or ended exactly where it should be.
DecodesBody == Body!DecodesBody
=============================================================================
