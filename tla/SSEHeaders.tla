------------------------------ MODULE SSEHeaders ------------------------------
(***************************************************************************)
(* The Linux adapter: where the head of a response ends and its body       *)
(* begins.  The response arrives in pieces; as long as the head has no end *)
(* they are collected, and the rest of the piece that ends it is the first *)
(* of the body.  A text is one token: what a status line or the header for *)
(* a chunked body begins with, or any other text.                          *)
(***************************************************************************)
EXTENDS Naturals, Sequences, SequencesExt, FiniteSetsExt

CONSTANTS
    MaxHead,    \* 65536
    MaxRead,    \* sizeof(buffer) of SSEDM_ReadResponse
    MaxWire     \* bound: tokens of the response

CR == "cr"
LF == "lf"
Status == "HTTP/1.1 200"
Chunked == "transfer-encoding: chunked"
Tokens == {CR, LF, Status, Chunked, "text"}

VARIABLES
    headerBuffer,   \* header_buffer
    headersDone, chunked,
    fed,            \* what SSEDM_FeedBody was given, one after the other
    failed,         \* SSEDM_ReadResponse has returned false
    wire            \* history: everything received

vars == <<headerBuffer, headersDone, chunked, fed, failed, wire>>

Init ==
    /\ headerBuffer = <<>> /\ headersDone = FALSE /\ chunked = FALSE
    /\ fed = <<>> /\ failed = FALSE
    /\ wire = <<>>

-----------------------------------------------------------------------------
CRLFs == <<CR, LF, CR, LF>>
LFs == <<LF, LF>>

\* std::string::find: the tokens before the first occurrence, as a set of one or none.
Find(s, pattern) ==
    LET found == {k \in 0 .. Len(s) - Len(pattern) : SubSeq(s, k + 1, k + Len(pattern)) = pattern}
    IN IF found = {} THEN {} ELSE {Min(found)}

\* Plausible fault: two line feeds are looked for first.
FindLineFeedsFirst(s) ==
    IF Find(s, LFs) # {} THEN {[end |-> k, size |-> 2] : k \in Find(s, LFs)}
                         ELSE {[end |-> k, size |-> 4] : k \in Find(s, CRLFs)}

\* SSEDM_FindHeaderEnd: where the head ends and how long its delimiter is, or nothing.
FindHeaderEnd(s) ==
    IF Find(s, CRLFs) # {} THEN {[end |-> k, size |-> 4] : k \in Find(s, CRLFs)}
                           ELSE {[end |-> k, size |-> 2] : k \in Find(s, LFs)}

\* SSEDM_ParseResponseHeaders.
HasStatus(headers) == headers # <<>> /\ headers[1] = Status
SaysChunked(headers) ==
    \E i \in 2 .. Len(headers) : headers[i - 1] = LF /\ headers[i] = Chunked

Fail == failed' = TRUE /\ UNCHANGED <<headerBuffer, headersDone, chunked, fed>>

\* The first read that is too much, or that ends the head.
HeadArrives(piece) ==
    LET received == headerBuffer \o piece
        end == FindHeaderEnd(received)
    IN  /\ ~headersDone
        /\ \/ Len(received) > MaxHead /\ Fail
           \/ /\ Len(received) <= MaxHead /\ end = {}
              /\ headerBuffer' = received
              /\ UNCHANGED <<headersDone, chunked, fed, failed>>
           \/ /\ Len(received) <= MaxHead
              /\ \E e \in end :
                   LET headers == SubSeq(received, 1, e.end) IN
                   \/ ~HasStatus(headers) /\ Fail
                   \/ /\ HasStatus(headers)
                      /\ headersDone' = TRUE /\ headerBuffer' = <<>>
                      /\ chunked' = SaysChunked(headers)
                      /\ fed' = SubSeq(received, e.end + e.size + 1, Len(received))
                      /\ UNCHANGED failed

BodyArrives(piece) ==
    /\ headersDone
    /\ fed' = fed \o piece
    /\ UNCHANGED <<headerBuffer, headersDone, chunked, failed>>

Receive(piece) ==
    /\ ~failed /\ Len(wire) + Len(piece) <= MaxWire
    /\ HeadArrives(piece) \/ BodyArrives(piece)
    /\ wire' = wire \o piece

Next == \E n \in 1 .. MaxRead : \E piece \in [1 .. n -> Tokens] : Receive(piece)

Spec == Init /\ [][Next]_vars

-----------------------------------------------------------------------------
(* Properties.                                                             *)

\* The first blank line of the response, and whether its head is written as HTTP has it.
Blank == Find(wire, CRLFs)
Proper(head) == \A i \in DOMAIN head : head[i] = LF <=> i > 1 /\ head[i - 1] = CR

\* Wherever the reads end, a response whose head has CR LF line ends is cut at its first
\* blank line, although its body may have blank lines of either form: at once when that
\* line arrives, and there only.
CutAtBlankLine ==
    /\ \A k \in Blank :
        LET head == SubSeq(wire, 1, k) IN
        Proper(head) =>
            /\ headersDone => /\ fed = SubSeq(wire, k + 5, Len(wire))
                              /\ chunked = SaysChunked(head)
            /\ headersDone \/ failed
            /\ failed => ~HasStatus(head) \/ Len(wire) > MaxHead
    /\ Blank = {} /\ Proper(wire) => ~headersDone
=============================================================================
