------------------------------- MODULE SSERetry -------------------------------
(***************************************************************************)
(* When a worker that reconnects tries again: what an attempt does to the  *)
(* failure count and to the retry interval, and the delay computed from    *)
(* the two.  Both desktop implementations share the computation; Android,  *)
(* iOS and HTML5 repeat it in their own languages.                         *)
(***************************************************************************)
EXTENDS Integers

CONSTANTS
    RetryMin,       \* SSE_DESKTOP_RETRY_MIN_MS
    RetryMax,       \* SSE_DESKTOP_RETRY_MAX_MS
    MinDelay,       \* SSE_DESKTOP_MIN_DELAY_MS
    Options,        \* values of options.retry_ms, which the core keeps from below 0
    ServerRetries,  \* values of retry: fields, which the parser has clamped
    Jitters,        \* per mille the clock adds or takes away
    MaxFailures     \* bound: failures in a row

ASSUME RetryAssumption ==
    /\ RetryMin \in Nat /\ RetryMax \in Nat /\ RetryMin <= RetryMax
    /\ MinDelay \in Nat /\ 5 * MinDelay <= 4 * RetryMin
    /\ Options \subseteq Nat
    /\ ServerRetries \subseteq RetryMin .. RetryMax
    /\ Jitters \subseteq -200 .. 200
    /\ MaxFailures \in Nat

-----------------------------------------------------------------------------
(* SSEDesktop_ComputeRetryDelayMS.                                         *)

AtMost(x, limit) == IF x > limit THEN limit ELSE x
AtLeast(x, limit) == IF x < limit THEN limit ELSE x

\* SSE_DESKTOP_MAX_BACKOFF_SHIFT, and what a shift by 0 to that many bits
\* multiplies by.
MaxShift == 8
PowersOfTwo == <<1, 2, 4, 8, 16, 32, 64, 128, 256>>

Base(retry) == AtMost(AtLeast(retry, RetryMin), RetryMax)

\* Plausible fault: the first failure doubles the delay already.
ShiftOffByOne(n) == AtMost(n, MaxShift)

Shift(n) == AtMost(AtLeast(n - 1, 0), MaxShift)

\* The delay before the jitter.
Backoff(retry, n) == AtMost(Base(retry) * PowersOfTwo[Shift(n) + 1], RetryMax)

\* C's division rounds towards zero.
JitterOf(delay, jitter) ==
    LET product == delay * jitter
    IN  IF product >= 0 THEN product \div 1000 ELSE -((-product) \div 1000)

RetryDelay(retry, n, jitter) ==
    LET delay == Backoff(retry, n)
    IN  AtLeast(delay + JitterOf(delay, jitter), MinDelay)

-----------------------------------------------------------------------------
VARIABLES
    phase,      \* "attempt", "judge" or "pause"
    retryMS,    \* m_RetryMS
    failures,   \* the worker's count of failures
    opened,     \* m_Opened
    ok,         \* what PerformOnce returned
    delay,      \* the delay of the last pause
    \* History, for the properties.
    streak,     \* attempts that have failed since one last was open at its end
    skipped     \* an attempt since then failed before its transfer

vars == <<phase, retryMS, failures, opened, ok, delay, streak, skipped>>

Init ==
    /\ phase = "attempt"
    /\ retryMS \in Options
    /\ failures = 0
    /\ opened = FALSE /\ ok = FALSE
    /\ delay = RetryMin
    /\ streak = 0 /\ skipped = FALSE

\* An attempt whose stream was open, or was not, when the transfer ended.  A
\* transfer that ends well without opening is one with a status that is not 2xx,
\* and has failed as well.
AttemptEnds ==
    /\ phase = "attempt"
    /\ failures < MaxFailures
    /\ opened' \in BOOLEAN
    /\ ok' \in {FALSE, opened'}
    /\ streak' = IF opened' THEN (IF ok' THEN 0 ELSE 1) ELSE streak + 1
    /\ skipped' = (skipped /\ ~opened')
    /\ retryMS' \in {retryMS} \cup ServerRetries
    /\ phase' = "judge"
    /\ UNCHANGED <<failures, delay>>

\* Without curl_easy_init nothing of the attempt before is reset.
AttemptSkipped ==
    /\ phase = "attempt"
    /\ failures < MaxFailures /\ streak < MaxFailures
    /\ ok' = FALSE
    /\ streak' = streak + 1
    /\ skipped' = TRUE
    /\ phase' = "judge"
    /\ UNCHANGED <<retryMS, failures, opened, delay>>

\* The count after an attempt.
Counted == (IF opened THEN 0 ELSE failures) + (IF ok THEN 0 ELSE 1)

\* The end of an attempt in SSEDesktop_Worker.
Judge ==
    /\ phase = "judge"
    /\ failures' = Counted
    /\ \E jitter \in Jitters : delay' = RetryDelay(retryMS, Counted, jitter)
    /\ phase' = "pause"
    /\ UNCHANGED <<retryMS, opened, ok, streak, skipped>>

PauseEnds ==
    /\ phase = "pause"
    /\ phase' = "attempt"
    /\ UNCHANGED <<retryMS, failures, opened, ok, delay, streak, skipped>>

Next == AttemptEnds \/ AttemptSkipped \/ Judge \/ PauseEnds

Spec == Init /\ [][Next]_vars

-----------------------------------------------------------------------------
(* Properties.                                                             *)

TypeOK ==
    /\ phase \in {"attempt", "judge", "pause"}
    /\ retryMS \in Nat
    /\ failures \in 0 .. MaxFailures
    /\ opened \in BOOLEAN /\ ok \in BOOLEAN
    /\ delay \in Nat
    /\ streak \in Nat
    /\ skipped \in BOOLEAN

\* No configuration, server or clock makes a worker wait less than four fifths of
\* the smallest interval or more than six fifths of the largest, so that the floor
\* of MinDelay never takes effect.
DelayInRange ==
    phase = "pause" => /\ 5 * delay >= 4 * RetryMin
                       /\ 5 * delay <= 6 * RetryMax
                       /\ delay >= MinDelay

\* The reference: the interval, doubled by every failure after the first, as long
\* as it stays under the largest and the shift under its own limit.
Doubled(retry) ==
    LET doubled[n \in 0 .. MaxShift] ==
            IF n = 0 THEN Base(retry) ELSE AtMost(2 * doubled[n - 1], RetryMax)
    IN  doubled

Reference(retry, n) ==
    Doubled(retry)[IF n = 0 THEN 0 ELSE AtMost(n - 1, MaxShift)]

\* The delay is the reference, give or take a fifth of it.
DelayBacksOff ==
    phase = "pause" =>
        LET nominal == Reference(retryMS, failures)
        IN  /\ 5 * delay >= 4 * nominal
            /\ 5 * delay <= 6 * nominal

\* The worker counts the failures since a stream was last open, and forgets some
\* only when an attempt failed before its transfer.
FailuresAreCounted ==
    phase = "pause" => /\ failures <= streak
                       /\ ~skipped => failures = streak
=============================================================================
