---------------------------- MODULE SSEAttemptProofs ---------------------------
(***************************************************************************)
(* What a worker computes in an attempt: the reconnect delay, for every    *)
(* interval, count of failures and jitter; the cut between the head and    *)
(* the body of a response; and the decoder of a chunked body: both for     *)
(* every response and wherever its reads end.                              *)
(***************************************************************************)
EXTENDS MCSSEAttempt, SequenceTheorems, WellFoundedInduction, TLAPS

-----------------------------------------------------------------------------
(* The delay.                                                              *)

\* The clamp keeps every interval in its range.
LEMMA BaseInRange ==
  ASSUME NEW retry \in Nat
  PROVE  Base(retry) \in RetryMin .. RetryMax
BY RetryAssumption DEF Base, AtMost, AtLeast

\* A shift multiplies by one or more.
LEMMA PowersArePositive ==
  ASSUME NEW i \in 1 .. 9
  PROVE  PowersOfTwo[i] \in Nat /\ PowersOfTwo[i] >= 1
BY DEF PowersOfTwo

\* The shift stays inside the table, whatever the count of failures.
LEMMA ShiftInRange ==
  ASSUME NEW n \in Nat
  PROVE  Shift(n) + 1 \in 1 .. 9
BY DEF Shift, AtMost, AtLeast, MaxShift

\* A product with a factor of at least one is no smaller than the other factor.
LEMMA Grows ==
  ASSUME NEW a \in Nat, NEW b \in Nat, b >= 1
  PROVE  a * b \in Nat /\ a * b >= a
<1>1. PICK c \in Nat : b = c + 1
  <2>1. b - 1 \in Nat /\ b = (b - 1) + 1
    OBVIOUS
  <2>. QED
    BY <2>1
<1>2. a * c \in Nat
  OBVIOUS
<1>3. a * b = a * c + a
  BY <1>1
<1>. QED
  BY <1>2, <1>3

\* The backoff stays in the range of the intervals.
LEMMA BackoffInRange ==
  ASSUME NEW retry \in Nat, NEW n \in Nat
  PROVE  Backoff(retry, n) \in RetryMin .. RetryMax
<1>. DEFINE base == Base(retry)
            power == PowersOfTwo[Shift(n) + 1]
<1>1. base \in RetryMin .. RetryMax
  BY BaseInRange
<1>2. base \in Nat
  BY <1>1, RetryAssumption
<1>3. power \in Nat /\ power >= 1
  BY ShiftInRange, PowersArePositive
<1>4. base * power \in Nat /\ base * power >= base
  BY <1>2, <1>3, Grows
<1>. HIDE DEF base, power
<1>5. AtMost(base * power, RetryMax) \in RetryMin .. RetryMax
  BY <1>1, <1>4, RetryAssumption DEF AtMost
<1>. QED
  BY <1>5 DEF Backoff, base, power

\* A jitter of at most 200 per mille moves a delay by at most a fifth of it.
LEMMA JitterIsAFifth ==
  ASSUME NEW d \in Nat, NEW jitter \in -200 .. 200
  PROVE  /\ JitterOf(d, jitter) \in Int
         /\ 5 * JitterOf(d, jitter) <= d
         /\ 5 * JitterOf(d, jitter) >= -d
<1>. DEFINE product == d * jitter
<1>1. product \in Int
  OBVIOUS
<1>2. product <= 200 * d
  <2>1. d * (200 - jitter) \in Nat
    OBVIOUS
  <2>2. d * (200 - jitter) = 200 * d - product
    OBVIOUS
  <2>. QED
    BY <2>1, <2>2
<1>3. product >= -(200 * d)
  <2>1. d * (jitter + 200) \in Nat
    OBVIOUS
  <2>2. d * (jitter + 200) = product + 200 * d
    OBVIOUS
  <2>. QED
    BY <2>1, <2>2
<1>. HIDE DEF product
<1>4. ASSUME NEW p \in Nat, p <= 200 * d
      PROVE  p \div 1000 \in Nat /\ 5 * (p \div 1000) <= d
  <2>1. p \div 1000 \in Int /\ 1000 * (p \div 1000) <= p /\ p \div 1000 >= 0
    OBVIOUS
  <2>. QED
    BY <2>1, <1>4
<1>5. CASE product >= 0
  <2>1. product \in Nat
    BY <1>1, <1>5
  <2>2. product \div 1000 \in Nat /\ 5 * (product \div 1000) <= d
    BY <2>1, <1>2, <1>4
  <2>3. JitterOf(d, jitter) = product \div 1000
    BY <1>5 DEF JitterOf, product
  <2>. QED
    BY <2>2, <2>3
<1>6. CASE ~(product >= 0)
  <2>1. -product \in Nat /\ -product <= 200 * d
    BY <1>1, <1>3, <1>6
  <2>2. (-product) \div 1000 \in Nat /\ 5 * ((-product) \div 1000) <= d
    BY <2>1, <1>4
  <2>3. JitterOf(d, jitter) = -((-product) \div 1000)
    BY <1>6 DEF JitterOf, product
  <2>. QED
    BY <2>2, <2>3
<1>. QED
  BY <1>5, <1>6

\* The delay is the backoff, give or take a fifth of it: the floor of MinDelay is
\* never reached.
LEMMA DelayIsBackoffAndAFifth ==
  ASSUME NEW retry \in Nat, NEW n \in Nat, NEW jitter \in -200 .. 200
  PROVE  /\ RetryDelay(retry, n, jitter) \in Nat
         /\ 5 * RetryDelay(retry, n, jitter) >= 4 * Backoff(retry, n)
         /\ 5 * RetryDelay(retry, n, jitter) <= 6 * Backoff(retry, n)
         /\ RetryDelay(retry, n, jitter) >= MinDelay
<1>. DEFINE d == Backoff(retry, n)
            j == JitterOf(d, jitter)
<1>1. d \in RetryMin .. RetryMax
  BY BackoffInRange
<1>2. d \in Nat
  BY <1>1, RetryAssumption
<1>3. j \in Int /\ 5 * j <= d /\ 5 * j >= -d
  BY <1>2, JitterIsAFifth
<1>4. RetryDelay(retry, n, jitter) = AtLeast(d + j, MinDelay)
  BY DEF RetryDelay
<1>. HIDE DEF d, j
<1>5. 5 * (d + j) >= 4 * d /\ 5 * (d + j) <= 6 * d
  BY <1>2, <1>3
<1>6. d + j >= MinDelay
  BY <1>1, <1>2, <1>3, <1>5, RetryAssumption
<1>7. AtLeast(d + j, MinDelay) = d + j
  BY <1>2, <1>3, <1>6, RetryAssumption DEF AtLeast
<1>8. d + j \in Nat
  BY <1>2, <1>3, <1>6, RetryAssumption
<1>. QED
  BY <1>4, <1>5, <1>6, <1>7, <1>8 DEF d

\* For every interval, count of failures and jitter, the delay lies between four
\* fifths of the smallest and six fifths of the largest interval: the overflow of
\* the shift and the floor of MinDelay cannot be reached.
THEOREM RetryDelayInRange ==
  ASSUME NEW retry \in Nat, NEW n \in Nat, NEW jitter \in -200 .. 200
  PROVE  /\ RetryDelay(retry, n, jitter) \in Nat
         /\ 5 * RetryDelay(retry, n, jitter) >= 4 * RetryMin
         /\ 5 * RetryDelay(retry, n, jitter) <= 6 * RetryMax
         /\ RetryDelay(retry, n, jitter) >= MinDelay
<1>. DEFINE d == Backoff(retry, n)
            delayed == RetryDelay(retry, n, jitter)
<1>1. d \in RetryMin .. RetryMax
  BY BackoffInRange
<1>2. delayed \in Nat /\ 5 * delayed >= 4 * d /\ 5 * delayed <= 6 * d /\ delayed >= MinDelay
  BY DelayIsBackoffAndAFifth
<1>. HIDE DEF d, delayed
<1>3. delayed \in Nat /\ 5 * delayed >= 4 * RetryMin /\ 5 * delayed <= 6 * RetryMax /\ delayed >= MinDelay
  BY <1>1, <1>2, RetryAssumption
<1>. QED
  BY <1>3 DEF delayed

-----------------------------------------------------------------------------
(* The table of powers and the reference, which doubles step by step.      *)

\* The largest interval times the power, cut at the largest interval.
Closed(retry) == [n \in 0 .. MaxShift |-> AtMost(Base(retry) * PowersOfTwo[n + 1], RetryMax)]

\* One step of the reference, on any table.
NextOf(retry, f) ==
    [n \in 0 .. MaxShift |-> IF n = 0 THEN Base(retry) ELSE AtMost(2 * f[n - 1], RetryMax)]

\* A value that was cut stays cut when it is doubled.
LEMMA CutThenDoubled ==
  ASSUME NEW x \in Nat
  PROVE  AtMost(2 * AtMost(x, RetryMax), RetryMax) = AtMost(2 * x, RetryMax)
BY RetryAssumption DEF AtMost

\* Each entry of the table is twice the one before.
LEMMA PowersDouble ==
  ASSUME NEW i \in 1 .. 8
  PROVE  PowersOfTwo[i + 1] = 2 * PowersOfTwo[i]
BY DEF PowersOfTwo

\* The closed form is as the reference says a table must be ...
LEMMA ClosedIsAStep ==
  ASSUME NEW retry \in Nat
  PROVE  Closed(retry) = NextOf(retry, Closed(retry))
<1>1. Base(retry) \in Nat /\ Base(retry) <= RetryMax
  BY BaseInRange, RetryAssumption
<1>2. SUFFICES ASSUME NEW n \in 0 .. MaxShift PROVE Closed(retry)[n] = NextOf(retry, Closed(retry))[n]
  BY DEF Closed, NextOf
<1>3. CASE n = 0
  BY <1>1, <1>3, RetryAssumption DEF Closed, NextOf, PowersOfTwo, AtMost, MaxShift
<1>4. CASE n # 0
  <2>. DEFINE b == Base(retry)
              p == PowersOfTwo[n]
  <2>1. n - 1 \in 0 .. MaxShift /\ (n - 1) + 1 = n /\ n \in 1 .. 8
    BY <1>4 DEF MaxShift
  <2>2. PowersOfTwo[n + 1] = 2 * p /\ p \in Nat
    BY <2>1, PowersDouble, PowersArePositive
  <2>3. NextOf(retry, Closed(retry))[n] = AtMost(2 * AtMost(b * p, RetryMax), RetryMax)
    BY <1>4, <2>1 DEF NextOf, Closed
  <2>4. Closed(retry)[n] = AtMost(b * (2 * p), RetryMax)
    BY <2>2 DEF Closed
  <2>5. b \in Nat
    BY <1>1
  <2>. HIDE DEF b, p
  <2>6. b * p \in Nat /\ b * (2 * p) = 2 * (b * p)
    BY <2>2, <2>5
  <2>. QED
    BY <2>3, <2>4, <2>6, CutThenDoubled
<1>. QED
  BY <1>3, <1>4

\* A table of nine entries is settled by the first and by how each follows from the
\* one before.
LEMMA StepsAgree ==
  ASSUME NEW retry, NEW f, NEW g, f = NextOf(retry, f), g = NextOf(retry, g)
  PROVE  f = g
<1>0. f[0] = g[0]
  BY DEF NextOf, MaxShift
<1>1. ASSUME NEW n \in 1 .. 8, f[n - 1] = g[n - 1] PROVE f[n] = g[n]
  <2>1. f[n] = AtMost(2 * f[n - 1], RetryMax)
    BY DEF NextOf, MaxShift
  <2>2. g[n] = AtMost(2 * g[n - 1], RetryMax)
    BY DEF NextOf, MaxShift
  <2>. QED
    BY <1>1, <2>1, <2>2
<1>2. f[1] = g[1]
  BY <1>0, <1>1
<1>3. f[2] = g[2]
  BY <1>2, <1>1
<1>4. f[3] = g[3]
  BY <1>3, <1>1
<1>5. f[4] = g[4]
  BY <1>4, <1>1
<1>6. f[5] = g[5]
  BY <1>5, <1>1
<1>7. f[6] = g[6]
  BY <1>6, <1>1
<1>8. f[7] = g[7]
  BY <1>7, <1>1
<1>9. f[8] = g[8]
  BY <1>8, <1>1
<1>10. \A n \in 0 .. MaxShift : f[n] = g[n]
  BY <1>0, <1>2, <1>3, <1>4, <1>5, <1>6, <1>7, <1>8, <1>9 DEF MaxShift
<1>. QED
  BY <1>10 DEF NextOf

\* ... and so it is the reference.
LEMMA DoubledIsClosed ==
  ASSUME NEW retry \in Nat
  PROVE  Doubled(retry) = Closed(retry)
<1>1. Doubled(retry) = CHOOSE f : f = NextOf(retry, f)
  BY DEF Doubled, NextOf
<1>2. \E f : f = NextOf(retry, f)
  BY ClosedIsAStep
<1>3. Doubled(retry) = NextOf(retry, Doubled(retry))
  BY <1>1, <1>2
<1>. QED
  BY <1>3, ClosedIsAStep, StepsAgree

\* The computation with a table and two clamps is the reference.
LEMMA BackoffIsReference ==
  ASSUME NEW retry \in Nat, NEW n \in Nat
  PROVE  Backoff(retry, n) = Reference(retry, n)
<1>1. Shift(n) \in 0 .. MaxShift /\ Shift(n) = IF n = 0 THEN 0 ELSE AtMost(n - 1, MaxShift)
  BY DEF Shift, AtMost, AtLeast, MaxShift
<1>2. Reference(retry, n) = Closed(retry)[Shift(n)]
  BY <1>1, DoubledIsClosed DEF Reference
<1>. QED
  BY <1>1, <1>2 DEF Closed, Backoff

-----------------------------------------------------------------------------
\* The count that is about to be made is that of the history: what Judge needs
\* to keep FailuresAreCounted.
CountsAgree ==
    /\ failures <= (IF phase = "judge" THEN MaxFailures - 1 ELSE MaxFailures)
    /\ phase # "judge" => failures <= streak /\ (~skipped => failures = streak)
    /\ phase = "judge" => Counted <= streak /\ (~skipped => Counted = streak)

IInv == TypeOK /\ CountsAgree /\ DelayInRange /\ DelayBacksOff

LEMMA InitEstablishes == Init => IInv
<1>. SUFFICES ASSUME Init PROVE IInv
  OBVIOUS
<1>1. 0 \in 0 .. MaxFailures
  BY RetryAssumption
<1>2. TypeOK
  BY <1>1, RetryAssumption DEF Init, TypeOK
<1>3. CountsAgree
  BY <1>1, RetryAssumption DEF Init, CountsAgree
<1>4. DelayInRange /\ DelayBacksOff
  BY DEF Init, DelayInRange, DelayBacksOff
<1>. QED
  BY <1>2, <1>3, <1>4 DEF IInv

\* Judge is the only step that computes a delay.
LEMMA StepKeeps == IInv /\ [Next]_vars => IInv'
<1>. SUFFICES ASSUME IInv, [Next]_vars PROVE IInv'
  OBVIOUS
<1>. USE DEF IInv
<1>1. CASE AttemptEnds
  <2>1. retryMS' \in Nat
    BY <1>1, RetryAssumption DEF AttemptEnds, TypeOK
  <2>2. opened' \in BOOLEAN /\ ok' \in BOOLEAN /\ skipped' \in BOOLEAN
    BY <1>1 DEF AttemptEnds, TypeOK
  <2>3. streak' \in Nat
    <3>1. CASE opened'
      BY <1>1, <3>1 DEF AttemptEnds
    <3>2. CASE ~opened'
      BY <1>1, <3>2 DEF AttemptEnds, TypeOK
    <3>. QED
      BY <3>1, <3>2
  <2>4. TypeOK'
    BY <1>1, <2>1, <2>2, <2>3 DEF AttemptEnds, TypeOK
  <2>5. CountsAgree'
    <3>1. failures' <= MaxFailures - 1
      BY <1>1, RetryAssumption DEF AttemptEnds, TypeOK
    <3>2. CASE opened'
      BY <1>1, <2>2, <3>1, <3>2 DEF AttemptEnds, TypeOK, CountsAgree, Counted
    <3>3. CASE ~opened'
      <4>1. ~ok'
        BY <1>1, <2>2, <3>3 DEF AttemptEnds
      <4>2. streak' = streak + 1
        BY <1>1, <3>3 DEF AttemptEnds
      <4>3. skipped' = skipped
        BY <1>1, <3>3, Zenon DEF AttemptEnds, TypeOK
      <4>4. Counted' = failures + 1
        BY <1>1, <3>3, <4>1 DEF AttemptEnds, TypeOK, Counted
      <4>. QED
        BY <1>1, <3>1, <4>2, <4>3, <4>4 DEF AttemptEnds, TypeOK, CountsAgree
    <3>. QED
      BY <3>2, <3>3
  <2>. QED
    BY <1>1, <2>4, <2>5 DEF AttemptEnds, DelayInRange, DelayBacksOff
<1>2. CASE AttemptSkipped
  <2>1. ok' \in BOOLEAN /\ skipped' \in BOOLEAN /\ opened' \in BOOLEAN
    BY <1>2, Zenon DEF AttemptSkipped, TypeOK
  <2>2. streak' \in Nat
    BY <1>2 DEF AttemptSkipped, TypeOK
  <2>3. TypeOK'
    BY <1>2, <2>1, <2>2 DEF AttemptSkipped, TypeOK
  <2>4. Counted' <= failures + 1 /\ Counted' <= streak + 1
    <3>1. Counted' = (IF opened THEN 0 ELSE failures) + 1
      BY <1>2 DEF AttemptSkipped, Counted
    <3>2. failures \in Nat /\ streak \in Nat
      BY RetryAssumption DEF TypeOK
    <3>3. failures <= streak
      BY <1>2 DEF AttemptSkipped, CountsAgree
    <3>. QED
      BY <3>1, <3>2, <3>3
  <2>5. CountsAgree'
    BY <1>2, <2>4, RetryAssumption DEF AttemptSkipped, TypeOK, CountsAgree
  <2>. QED
    BY <1>2, <2>3, <2>5 DEF AttemptSkipped, DelayInRange, DelayBacksOff
<1>3. CASE Judge
  <2>1. Counted \in 0 .. MaxFailures
    BY <1>3, RetryAssumption DEF Judge, TypeOK, CountsAgree, Counted
  <2>2. PICK jitter \in Jitters : delay' = RetryDelay(retryMS, Counted, jitter)
    BY <1>3 DEF Judge
  <2>3. jitter \in -200 .. 200 /\ Counted \in Nat /\ retryMS \in Nat
    BY <2>1, <2>2, RetryAssumption DEF TypeOK
  <2>4. /\ delay' \in Nat /\ delay' >= MinDelay
        /\ 5 * delay' >= 4 * RetryMin /\ 5 * delay' <= 6 * RetryMax
    BY <2>2, <2>3, RetryDelayInRange
  <2>5. TypeOK'
    BY <1>3, <2>1, <2>4 DEF Judge, TypeOK
  <2>6. CountsAgree'
    BY <1>3, <2>1 DEF Judge, TypeOK, CountsAgree
  <2>7. /\ 5 * delay' >= 4 * Reference(retryMS, Counted)
        /\ 5 * delay' <= 6 * Reference(retryMS, Counted)
    BY <2>2, <2>3, DelayIsBackoffAndAFifth, BackoffIsReference
  <2>8. DelayBacksOff'
    BY <1>3, <2>7 DEF Judge, DelayBacksOff
  <2>. QED
    BY <1>3, <2>4, <2>5, <2>6, <2>8 DEF Judge, DelayInRange
<1>4. CASE PauseEnds
  BY <1>4 DEF PauseEnds, TypeOK, CountsAgree, DelayInRange, DelayBacksOff, Counted
<1>5. CASE UNCHANGED vars
  BY <1>5 DEF vars, TypeOK, CountsAgree, DelayInRange, DelayBacksOff, Counted
<1>. QED
  BY <1>1, <1>2, <1>3, <1>4, <1>5 DEF Next

LEMMA Invariance == Spec => []IInv
BY InitEstablishes, StepKeeps, PTL DEF Spec

\* The variables keep their types, for every option, server and clock.
THEOREM TypeCorrect == Spec => []TypeOK
<1>1. IInv => TypeOK
  BY DEF IInv
<1>. QED
  BY <1>1, Invariance, PTL

\* The delay of every pause is in range.
THEOREM PausesInRange == Spec => []DelayInRange
<1>1. IInv => DelayInRange
  BY DEF IInv
<1>. QED
  BY <1>1, Invariance, PTL

\* The delay of every pause is the reference's for the interval and the count, give or
\* take a fifth of it.
THEOREM PausesBackOff == Spec => []DelayBacksOff
<1>1. IInv => DelayBacksOff
  BY DEF IInv
<1>. QED
  BY <1>1, Invariance, PTL

\* The worker's count is that of the failures since a stream was last open, or
\* less if an attempt failed before its transfer.
THEOREM CountIsRight == Spec => []FailuresAreCounted
<1>1. IInv => FailuresAreCounted
  BY DEF IInv, CountsAgree, FailuresAreCounted
<1>. QED
  BY <1>1, Invariance, PTL

-----------------------------------------------------------------------------
(* The head of a response.                                                 *)

\* A set of natural numbers has a least element.
LEMMA HasLeast ==
  ASSUME NEW S \in SUBSET Nat, S # {}
  PROVE  \E m \in S : \A k \in S : m <= k
<1>1. PICK m \in S : \A k \in S : ~(<<k, m>> \in OpToRel(<, Nat))
  BY NatLessThanWellFounded, WFMin, Zenon
<1>2. \A k \in S : m <= k
  <2>. SUFFICES ASSUME NEW k \in S PROVE m <= k
    OBVIOUS
  <2>1. ~(k < m)
    BY <1>1 DEF OpToRel
  <2>. QED
    BY <2>1
<1>. QED
  BY <1>2

\* A set of naturals has a least member.
LEMMA LeastOf ==
  ASSUME NEW S \in SUBSET Nat, S # {}
  PROVE  /\ Headers!Min(S) \in S
         /\ \A k \in S : Headers!Min(S) <= k
BY HasLeast DEF Headers!Min

\* Where a blank line of either form begins.
CRLFsAt(s, k) ==
    /\ k \in Nat /\ k + 4 <= Len(s)
    /\ s[k + 1] = Headers!CR /\ s[k + 2] = Headers!LF
    /\ s[k + 3] = Headers!CR /\ s[k + 4] = Headers!LF

LFsAt(s, k) ==
    /\ k \in Nat /\ k + 2 <= Len(s)
    /\ s[k + 1] = Headers!LF /\ s[k + 2] = Headers!LF

\* std::string::find finds the first of the places where the pattern stands, if any.
LEMMA FindsFirst ==
  ASSUME NEW s \in Seq(Headers!Tokens), NEW pattern \in Seq(Headers!Tokens), NEW at,
         at = {k \in 0 .. Len(s) - Len(pattern) : SubSeq(s, k + 1, k + Len(pattern)) = pattern}
  PROVE  /\ Headers!Find(s, pattern) = {} <=> at = {}
         /\ \A k \in Headers!Find(s, pattern) : k \in at /\ \A j \in at : k <= j
<1>1. at \in SUBSET Nat
  OBVIOUS
<1>2. Headers!Find(s, pattern) = IF at = {} THEN {} ELSE {Headers!Min(at)}
  BY DEF Headers!Find
<1>3. CASE at = {}
  <2>1. Headers!Find(s, pattern) = {}
    BY <1>2, <1>3
  <2>. QED
    BY <1>3, <2>1
<1>4. CASE at # {}
  <2>1. Headers!Min(at) \in at /\ \A j \in at : Headers!Min(at) <= j
    BY <1>1, <1>4, LeastOf
  <2>2. Headers!Find(s, pattern) = {Headers!Min(at)}
    BY <1>2, <1>4
  <2>. QED
    BY <1>4, <2>1, <2>2
<1>. QED
  BY <1>3, <1>4

\* A piece of a text, token by token.
LEMMA PieceIs ==
  ASSUME NEW s \in Seq(Headers!Tokens), NEW k \in Nat, NEW n \in Nat, k + n <= Len(s)
  PROVE  /\ SubSeq(s, k + 1, k + n) \in Seq(Headers!Tokens)
         /\ Len(SubSeq(s, k + 1, k + n)) = n
         /\ \A i \in 1 .. n : SubSeq(s, k + 1, k + n)[i] = s[k + i]
<1>1. SubSeq(s, k + 1, k + n) = [i \in 1 .. n |-> s[k + i]]
  OBVIOUS
<1>2. \A i \in 1 .. n : s[k + i] \in Headers!Tokens
  OBVIOUS
<1>. QED
  BY <1>1, <1>2

\* The pattern of two CR LF stands where there is a blank line of that form ...
LEMMA CRLFsMatch ==
  ASSUME NEW s \in Seq(Headers!Tokens), NEW k
  PROVE  CRLFsAt(s, k) <=> k \in 0 .. Len(s) - 4 /\ SubSeq(s, k + 1, k + 4) = Headers!CRLFs
<1>. DEFINE piece == SubSeq(s, k + 1, k + 4)
<1>. SUFFICES ASSUME k \in 0 .. Len(s) - 4
              PROVE  piece = Headers!CRLFs <=> CRLFsAt(s, k)
  BY DEF CRLFsAt
<1>1. piece \in Seq(Headers!Tokens) /\ Len(piece) = 4 /\ \A i \in 1 .. 4 : piece[i] = s[k + i]
  BY PieceIs
<1>2. Headers!CRLFs \in Seq(Headers!Tokens) /\ Len(Headers!CRLFs) = 4
  BY DEF Headers!CRLFs, Headers!Tokens
<1>. HIDE DEF piece
<1>3. piece = Headers!CRLFs <=> \A i \in 1 .. 4 : piece[i] = Headers!CRLFs[i]
  BY <1>1, <1>2, SeqEqual
<1>4. (\A i \in 1 .. 4 : piece[i] = Headers!CRLFs[i]) <=> CRLFsAt(s, k)
  BY <1>1 DEF CRLFsAt, Headers!CRLFs
<1>. QED
  BY <1>3, <1>4

\* ... and that of two LF where there is one of the other form.
LEMMA LFsMatch ==
  ASSUME NEW s \in Seq(Headers!Tokens), NEW k
  PROVE  LFsAt(s, k) <=> k \in 0 .. Len(s) - 2 /\ SubSeq(s, k + 1, k + 2) = Headers!LFs
<1>. DEFINE piece == SubSeq(s, k + 1, k + 2)
<1>. SUFFICES ASSUME k \in 0 .. Len(s) - 2
              PROVE  piece = Headers!LFs <=> LFsAt(s, k)
  BY DEF LFsAt
<1>1. piece \in Seq(Headers!Tokens) /\ Len(piece) = 2 /\ \A i \in 1 .. 2 : piece[i] = s[k + i]
  BY PieceIs
<1>2. Headers!LFs \in Seq(Headers!Tokens) /\ Len(Headers!LFs) = 2
  BY DEF Headers!LFs, Headers!Tokens
<1>. HIDE DEF piece
<1>3. piece = Headers!LFs <=> \A i \in 1 .. 2 : piece[i] = Headers!LFs[i]
  BY <1>1, <1>2, SeqEqual
<1>4. (\A i \in 1 .. 2 : piece[i] = Headers!LFs[i]) <=> LFsAt(s, k)
  BY <1>1 DEF LFsAt, Headers!LFs
<1>. QED
  BY <1>3, <1>4

\* What find does for blank lines of the first form ...
LEMMA FindCRLFs ==
  ASSUME NEW s \in Seq(Headers!Tokens)
  PROVE  /\ Headers!Find(s, Headers!CRLFs) = {} <=> \A k \in Nat : ~CRLFsAt(s, k)
         /\ \A k \in Headers!Find(s, Headers!CRLFs) :
              CRLFsAt(s, k) /\ \A j \in Nat : CRLFsAt(s, j) => k <= j
<1>1. Headers!CRLFs \in Seq(Headers!Tokens) /\ Len(Headers!CRLFs) = 4
  BY DEF Headers!CRLFs, Headers!Tokens
<1>. DEFINE at == {k \in 0 .. Len(s) - 4 : SubSeq(s, k + 1, k + 4) = Headers!CRLFs}
<1>2. at = {k \in 0 .. Len(s) - Len(Headers!CRLFs) : SubSeq(s, k + 1, k + Len(Headers!CRLFs)) = Headers!CRLFs}
  BY <1>1
<1>3. \A k : k \in at <=> CRLFsAt(s, k)
  BY CRLFsMatch
<1>. HIDE DEF at
<1>5. /\ Headers!Find(s, Headers!CRLFs) = {} <=> at = {}
      /\ \A k \in Headers!Find(s, Headers!CRLFs) : k \in at /\ \A j \in at : k <= j
  BY <1>1, <1>2, FindsFirst
<1>4. \A k \in at : k \in Nat
  BY <1>3 DEF CRLFsAt
<1>. QED
  BY <1>3, <1>4, <1>5

\* ... and of the other form: one of them.
LEMMA FindLFs ==
  ASSUME NEW s \in Seq(Headers!Tokens)
  PROVE  /\ Headers!Find(s, Headers!LFs) = {} <=> \A k \in Nat : ~LFsAt(s, k)
         /\ \A k \in Headers!Find(s, Headers!LFs) : LFsAt(s, k)
<1>1. Headers!LFs \in Seq(Headers!Tokens) /\ Len(Headers!LFs) = 2
  BY DEF Headers!LFs, Headers!Tokens
<1>. DEFINE at == {k \in 0 .. Len(s) - 2 : SubSeq(s, k + 1, k + 2) = Headers!LFs}
<1>2. at = {k \in 0 .. Len(s) - Len(Headers!LFs) : SubSeq(s, k + 1, k + Len(Headers!LFs)) = Headers!LFs}
  BY <1>1
<1>3. \A k : k \in at <=> LFsAt(s, k)
  BY LFsMatch
<1>. HIDE DEF at
<1>5. /\ Headers!Find(s, Headers!LFs) = {} <=> at = {}
      /\ \A k \in Headers!Find(s, Headers!LFs) : k \in at
  BY <1>1, <1>2, FindsFirst
<1>4. \A k \in at : k \in Nat
  BY <1>3 DEF LFsAt
<1>. QED
  BY <1>3, <1>4, <1>5

-----------------------------------------------------------------------------
\* A head that ends at k, before a delimiter of the given size: at the first blank line
\* of the one form, or at one of the other form where none of the first has come to its
\* end.
CutOf(s, k, size) ==
    \/ size = 4 /\ CRLFsAt(s, k) /\ \A j \in 0 .. Len(s) : CRLFsAt(s, j) => k <= j
    \/ size = 2 /\ LFsAt(s, k) /\ \A j \in 0 .. Len(s) : CRLFsAt(s, j) => k + 2 < j + 4

NoBlankLine(s) == \A k \in 0 .. Len(s) : ~CRLFsAt(s, k) /\ ~LFsAt(s, k)

\* Everything received is in the buffer until the head ends; then it was cut, whatever
\* came since, or the response was given up for its status or its length.
HeadIInv ==
    /\ headWire \in Seq(Headers!Tokens)
    /\ ~(headersDone /\ headFailed)
    /\ ~headersDone /\ ~headFailed => headerBuffer = headWire /\ NoBlankLine(headWire)
    /\ headersDone =>
         \E k \in 0 .. Len(headWire), size \in {2, 4} :
            /\ CutOf(headWire, k, size)
            /\ headFed = SubSeq(headWire, k + size + 1, Len(headWire))
            /\ chunked = Headers!SaysChunked(SubSeq(headWire, 1, k))
    /\ headFailed =>
         \/ Len(headWire) > MaxHead
         \/ \E k \in 0 .. Len(headWire), size \in {2, 4} :
              CutOf(headWire, k, size) /\ ~Headers!HasStatus(SubSeq(headWire, 1, k))

\* What SSEDM_FindHeaderEnd returns is a cut.
LEMMA EndIsCut ==
  ASSUME NEW s \in Seq(Headers!Tokens)
  PROVE  /\ Headers!FindHeaderEnd(s) = {} => NoBlankLine(s)
         /\ \A e \in Headers!FindHeaderEnd(s) :
              e.end \in 0 .. Len(s) /\ e.size \in {2, 4} /\ CutOf(s, e.end, e.size)
<1>1. CASE Headers!Find(s, Headers!CRLFs) # {}
  <2>1. Headers!FindHeaderEnd(s) = {[end |-> k, size |-> 4] : k \in Headers!Find(s, Headers!CRLFs)}
    BY <1>1 DEF Headers!FindHeaderEnd
  <2>2. ASSUME NEW k \in Headers!Find(s, Headers!CRLFs)
        PROVE  k \in 0 .. Len(s) /\ CutOf(s, k, 4)
    <3>1. CRLFsAt(s, k) /\ \A j \in Nat : CRLFsAt(s, j) => k <= j
      BY FindCRLFs
    <3>. QED
      BY <3>1 DEF CutOf, CRLFsAt
  <2>3. Headers!FindHeaderEnd(s) # {}
    BY <1>1, <2>1
  <2>4. ASSUME NEW e \in Headers!FindHeaderEnd(s)
        PROVE  e.end \in 0 .. Len(s) /\ e.size \in {2, 4} /\ CutOf(s, e.end, e.size)
    <3>1. PICK k \in Headers!Find(s, Headers!CRLFs) : e = [end |-> k, size |-> 4]
      BY <2>1
    <3>2. e.end = k /\ e.size = 4
      BY <3>1
    <3>. QED
      BY <2>2, <3>2
  <2>. QED
    BY <2>3, <2>4
<1>2. CASE Headers!Find(s, Headers!CRLFs) = {}
  <2>1. Headers!FindHeaderEnd(s) = {[end |-> k, size |-> 2] : k \in Headers!Find(s, Headers!LFs)}
    BY <1>2 DEF Headers!FindHeaderEnd
  <2>2. \A k \in Nat : ~CRLFsAt(s, k)
    BY <1>2, FindCRLFs
  <2>3. ASSUME NEW k \in Headers!Find(s, Headers!LFs)
        PROVE  k \in 0 .. Len(s) /\ CutOf(s, k, 2)
    <3>1. LFsAt(s, k)
      BY FindLFs
    <3>. QED
      BY <2>2, <3>1 DEF CutOf, LFsAt
  <2>4. Headers!FindHeaderEnd(s) = {} => NoBlankLine(s)
    <3>1. Headers!FindHeaderEnd(s) = {} => Headers!Find(s, Headers!LFs) = {}
      BY <2>1
    <3>. QED
      BY <2>2, <3>1, FindLFs DEF NoBlankLine
  <2>. QED
    BY <2>1, <2>3, <2>4
<1>. QED
  BY <1>1, <1>2

\* A text that goes on has the blank lines it had, and a new one ends in what is new.
LEMMA GoesOn ==
  ASSUME NEW s \in Seq(Headers!Tokens), NEW t \in Seq(Headers!Tokens)
  PROVE  /\ \A k : CRLFsAt(s, k) <=> CRLFsAt(s \o t, k) /\ k + 4 <= Len(s)
         /\ \A k : LFsAt(s, k) <=> LFsAt(s \o t, k) /\ k + 2 <= Len(s)
<1>1. Len(s \o t) = Len(s) + Len(t) /\ \A i \in 1 .. Len(s) : (s \o t)[i] = s[i]
  BY ConcatProperties
<1>2. Len(s) \in Nat /\ Len(t) \in Nat
  BY LenProperties
<1>. DEFINE w == s \o t
<1>. HIDE DEF w
<1>3. ASSUME NEW k PROVE CRLFsAt(s, k) <=> CRLFsAt(w, k) /\ k + 4 <= Len(s)
  <2>. SUFFICES ASSUME k \in Nat, k + 4 <= Len(s) PROVE CRLFsAt(s, k) <=> CRLFsAt(w, k)
    BY DEF CRLFsAt
  <2>1. k + 4 <= Len(w)
    BY <1>1, <1>2 DEF w
  <2>2. \A i \in 1 .. 4 : w[k + i] = s[k + i]
    BY <1>1, <1>2 DEF w
  <2>. QED
    BY <2>1, <2>2 DEF CRLFsAt
<1>4. ASSUME NEW k PROVE LFsAt(s, k) <=> LFsAt(w, k) /\ k + 2 <= Len(s)
  <2>. SUFFICES ASSUME k \in Nat, k + 2 <= Len(s) PROVE LFsAt(s, k) <=> LFsAt(w, k)
    BY DEF LFsAt
  <2>1. k + 2 <= Len(w)
    BY <1>1, <1>2 DEF w
  <2>2. \A i \in 1 .. 2 : w[k + i] = s[k + i]
    BY <1>1, <1>2 DEF w
  <2>. QED
    BY <2>1, <2>2 DEF LFsAt
<1>. USE DEF w
<1>. QED
  BY <1>3, <1>4

\* A cut is one of the text that goes on, too.
LEMMA CutStays ==
  ASSUME NEW s \in Seq(Headers!Tokens), NEW t \in Seq(Headers!Tokens),
         NEW k \in 0 .. Len(s), NEW size \in {2, 4}, CutOf(s, k, size)
  PROVE  /\ k \in 0 .. Len(s \o t) /\ k + size <= Len(s)
         /\ CutOf(s \o t, k, size)
<1>1. Len(s) \in Nat /\ Len(s \o t) \in Nat /\ Len(s) <= Len(s \o t)
  BY ConcatProperties, LenProperties
<1>2. ASSUME NEW j \in 0 .. Len(s \o t), CRLFsAt(s \o t, j), ~CRLFsAt(s, j)
      PROVE  Len(s) < j + 4
  BY <1>1, <1>2, GoesOn
<1>3. CASE size = 4
  <2>1. CRLFsAt(s, k) /\ \A j \in 0 .. Len(s) : CRLFsAt(s, j) => k <= j
    BY <1>3 DEF CutOf
  <2>2. k + 4 <= Len(s)
    BY <2>1 DEF CRLFsAt
  <2>3. CRLFsAt(s \o t, k)
    BY <2>1, GoesOn
  <2>4. ASSUME NEW j \in 0 .. Len(s \o t), CRLFsAt(s \o t, j) PROVE k <= j
    <3>1. CASE CRLFsAt(s, j)
      BY <2>1, <3>1 DEF CRLFsAt
    <3>2. CASE ~CRLFsAt(s, j)
      BY <1>1, <1>2, <2>2, <2>4, <3>2
    <3>. QED
      BY <3>1, <3>2
  <2>. QED
    BY <1>1, <1>3, <2>2, <2>3, <2>4 DEF CutOf
<1>4. CASE size = 2
  <2>1. LFsAt(s, k) /\ \A j \in 0 .. Len(s) : CRLFsAt(s, j) => k + 2 < j + 4
    BY <1>4 DEF CutOf
  <2>2. k + 2 <= Len(s)
    BY <2>1 DEF LFsAt
  <2>3. LFsAt(s \o t, k)
    BY <2>1, GoesOn
  <2>4. ASSUME NEW j \in 0 .. Len(s \o t), CRLFsAt(s \o t, j) PROVE k + 2 < j + 4
    <3>1. CASE CRLFsAt(s, j)
      BY <2>1, <3>1 DEF CRLFsAt
    <3>2. CASE ~CRLFsAt(s, j)
      BY <1>1, <1>2, <2>2, <2>4, <3>2
    <3>. QED
      BY <3>1, <3>2
  <2>. QED
    BY <1>1, <1>4, <2>2, <2>3, <2>4 DEF CutOf
<1>. QED
  BY <1>3, <1>4

\* Its head is what it was, and the rest has grown by what is new.
LEMMA PartsGoOn ==
  ASSUME NEW s \in Seq(Headers!Tokens), NEW t \in Seq(Headers!Tokens), NEW n \in 0 .. Len(s)
  PROVE  /\ SubSeq(s \o t, 1, n) = SubSeq(s, 1, n)
         /\ SubSeq(s \o t, n + 1, Len(s \o t)) = SubSeq(s, n + 1, Len(s)) \o t
<1>1. /\ s \o t \in Seq(Headers!Tokens) /\ Len(s \o t) = Len(s) + Len(t)
      /\ \A i \in 1 .. Len(s) : (s \o t)[i] = s[i]
      /\ \A i \in 1 .. Len(t) : (s \o t)[Len(s) + i] = t[i]
      /\ Len(s) \in Nat /\ Len(t) \in Nat
  BY ConcatProperties, LenProperties
<1>2. SubSeq(s \o t, 1, n) = SubSeq(s, 1, n)
  <2>1. /\ SubSeq(s, 0 + 1, 0 + n) \in Seq(Headers!Tokens) /\ Len(SubSeq(s, 0 + 1, 0 + n)) = n
        /\ \A i \in 1 .. n : SubSeq(s, 0 + 1, 0 + n)[i] = s[0 + i]
    BY <1>1, PieceIs
  <2>2. /\ SubSeq(s \o t, 0 + 1, 0 + n) \in Seq(Headers!Tokens) /\ Len(SubSeq(s \o t, 0 + 1, 0 + n)) = n
        /\ \A i \in 1 .. n : SubSeq(s \o t, 0 + 1, 0 + n)[i] = (s \o t)[0 + i]
    BY <1>1, PieceIs
  <2>3. \A i \in 1 .. n : (s \o t)[0 + i] = s[0 + i]
    BY <1>1
  <2>4. SubSeq(s \o t, 0 + 1, 0 + n) = SubSeq(s, 0 + 1, 0 + n)
    BY <2>1, <2>2, <2>3, SeqEqual
  <2>. QED
    BY <2>4
<1>3. SubSeq(s \o t, n + 1, Len(s \o t)) = SubSeq(s, n + 1, Len(s)) \o t
  <2>. DEFINE m == Len(s) - n
              rest == SubSeq(s, n + 1, n + m)
              whole == SubSeq(s \o t, n + 1, n + (m + Len(t)))
  <2>0. m \in Nat /\ n + m = Len(s) /\ n + (m + Len(t)) = Len(s \o t) /\ n \in Nat
    BY <1>1
  <2>. HIDE DEF m
  <2>1. rest \in Seq(Headers!Tokens) /\ Len(rest) = m /\ \A i \in 1 .. m : rest[i] = s[n + i]
    BY <1>1, <2>0, PieceIs
  <2>2. /\ whole \in Seq(Headers!Tokens) /\ Len(whole) = m + Len(t)
        /\ \A i \in 1 .. m + Len(t) : whole[i] = (s \o t)[n + i]
    BY <1>1, <2>0, PieceIs
  <2>. HIDE DEF rest, whole
  <2>3. /\ rest \o t \in Seq(Headers!Tokens) /\ Len(rest \o t) = m + Len(t)
        /\ \A i \in 1 .. m : (rest \o t)[i] = rest[i]
        /\ \A i \in 1 .. Len(t) : (rest \o t)[m + i] = t[i]
    <3>1. /\ rest \o t \in Seq(Headers!Tokens) /\ Len(rest \o t) = Len(rest) + Len(t)
          /\ \A i \in 1 .. Len(rest) + Len(t) : (rest \o t)[i] = IF i <= Len(rest) THEN rest[i] ELSE t[i - Len(rest)]
      BY <2>1, ConcatProperties
    <3>2. m \in Nat /\ Len(t) \in Nat
      BY <1>1, <2>0
    <3>. QED
      BY <2>1, <3>1, <3>2
  <2>4. ASSUME NEW i \in 1 .. m + Len(t) PROVE whole[i] = (rest \o t)[i]
    <3>1. CASE i <= m
      BY <1>1, <2>0, <2>1, <2>2, <2>3, <3>1
    <3>2. CASE ~(i <= m)
      <4>1. i - m \in 1 .. Len(t) /\ m + (i - m) = i /\ Len(s) + (i - m) = n + i
        BY <1>1, <2>0, <3>2
      <4>2. (rest \o t)[i] = t[i - m] /\ (s \o t)[n + i] = t[i - m]
        BY <1>1, <2>3, <4>1
      <4>. QED
        BY <2>2, <4>2
    <3>. QED
      BY <3>1, <3>2
  <2>5. whole = rest \o t
    BY <2>2, <2>3, <2>4, SeqEqual
  <2>. QED
    BY <2>0, <2>5 DEF whole, rest
<1>. QED
  BY <1>2, <1>3

\* An empty response has no blank line.
\* Nothing received yet.
LEMMA HeadStart == Headers!Init => HeadIInv
<1>. SUFFICES ASSUME Headers!Init PROVE HeadIInv
  OBVIOUS
<1>1. headWire = <<>> /\ headWire \in Seq(Headers!Tokens) /\ Len(headWire) = 0
  BY EmptySeq DEF Headers!Init
<1>2. NoBlankLine(headWire)
  BY <1>1 DEF NoBlankLine, CRLFsAt, LFsAt
<1>. QED
  BY <1>1, <1>2 DEF HeadIInv, Headers!Init

\* A piece is collected, ends the head, is too much, or belongs to the body.
LEMMA HeadStep == HeadIInv /\ [Headers!Next]_(Headers!vars) => HeadIInv'
<1>. SUFFICES ASSUME HeadIInv, [Headers!Next]_(Headers!vars) PROVE HeadIInv'
  OBVIOUS
<1>1. CASE UNCHANGED Headers!vars
  BY <1>1 DEF HeadIInv, Headers!vars
<1>2. CASE Headers!Next
  <2>0. PICK n \in 1 .. HeadMaxRead : \E piece \in [1 .. n -> Headers!Tokens] : Headers!Receive(piece)
    BY <1>2 DEF Headers!Next
  <2>1. PICK piece \in [1 .. n -> Headers!Tokens] : Headers!Receive(piece)
    BY <2>0
  <2>2. piece \in Seq(Headers!Tokens)
    OBVIOUS
  <2>3. headWire' = headWire \o piece /\ ~headFailed
    BY <2>1 DEF Headers!Receive
  <2>4. headWire \in Seq(Headers!Tokens) /\ headWire' \in Seq(Headers!Tokens)
    BY <2>2, <2>3, ConcatProperties DEF HeadIInv
  <2>5. CASE Headers!BodyArrives(piece)
    <3>1. headersDone /\ headFed' = headFed \o piece /\ UNCHANGED <<headersDone, chunked, headFailed>>
      BY <2>5 DEF Headers!BodyArrives
    <3>2. PICK k \in 0 .. Len(headWire), size \in {2, 4} :
             /\ CutOf(headWire, k, size)
             /\ headFed = SubSeq(headWire, k + size + 1, Len(headWire))
             /\ chunked = Headers!SaysChunked(SubSeq(headWire, 1, k))
      BY <3>1 DEF HeadIInv
    <3>3. k \in 0 .. Len(headWire') /\ k + size \in 0 .. Len(headWire) /\ CutOf(headWire', k, size)
      BY <2>2, <2>3, <2>4, <3>2, CutStays
    <3>4. SubSeq(headWire', 1, k) = SubSeq(headWire, 1, k)
      BY <2>2, <2>3, <2>4, PartsGoOn
    <3>5. SubSeq(headWire', k + size + 1, Len(headWire')) = SubSeq(headWire, k + size + 1, Len(headWire)) \o piece
      BY <2>2, <2>3, <2>4, <3>3, PartsGoOn
    <3>. QED
      BY <2>3, <2>4, <3>1, <3>2, <3>3, <3>4, <3>5 DEF HeadIInv
  <2>6. CASE Headers!HeadArrives(piece)
    <3>. DEFINE received == headerBuffer \o piece
    <3>1. ~headersDone /\ received = headWire'
      BY <2>3, <2>6 DEF HeadIInv, Headers!HeadArrives
    <3>2. CASE Len(received) > MaxHead /\ Headers!Fail
      <4>1. headFailed' = TRUE /\ UNCHANGED headersDone
        BY <3>2 DEF Headers!Fail
      <4>. QED
        BY <2>4, <3>1, <3>2, <4>1 DEF HeadIInv
    <3>3. CASE Headers!FindHeaderEnd(received) = {} /\ headerBuffer' = received /\ UNCHANGED <<headersDone, headFailed>>
      <4>1. NoBlankLine(headWire')
        BY <2>4, <3>1, <3>3, EndIsCut
      <4>2. headerBuffer' = headWire' /\ ~headersDone' /\ ~headFailed'
        BY <2>3, <3>1, <3>3
      <4>. QED
        BY <2>4, <4>1, <4>2 DEF HeadIInv
    <3>4. ASSUME NEW e \in Headers!FindHeaderEnd(received),
                 ~Headers!HasStatus(SubSeq(received, 1, e.end)), Headers!Fail
          PROVE  HeadIInv'
      <4>1. headFailed' = TRUE /\ UNCHANGED headersDone
        BY <3>4 DEF Headers!Fail
      <4>2. e.end \in 0 .. Len(headWire') /\ e.size \in {2, 4} /\ CutOf(headWire', e.end, e.size)
        BY <2>4, <3>1, EndIsCut
      <4>. QED
        BY <2>4, <3>1, <3>4, <4>1, <4>2 DEF HeadIInv
    <3>5. ASSUME NEW e \in Headers!FindHeaderEnd(received),
                 headersDone' = TRUE, UNCHANGED headFailed,
                 chunked' = Headers!SaysChunked(SubSeq(received, 1, e.end)),
                 headFed' = SubSeq(received, e.end + e.size + 1, Len(received))
          PROVE  HeadIInv'
      <4>1. e.end \in 0 .. Len(headWire') /\ e.size \in {2, 4} /\ CutOf(headWire', e.end, e.size)
        BY <2>4, <3>1, EndIsCut
      <4>2. ~headFailed'
        BY <2>3, <3>5
      <4>. QED
        BY <2>4, <3>1, <3>5, <4>1, <4>2 DEF HeadIInv
    <3>. QED
      BY <2>6, <3>2, <3>3, <3>4, <3>5 DEF Headers!HeadArrives
  <2>. QED
    BY <2>1, <2>5, <2>6 DEF Headers!Receive
<1>. QED
  BY <1>1, <1>2

\* In a head with CR LF line ends there is no blank line of two LF, up to the end of
\* the blank line that ends it.
LEMMA ProperIsCutThere ==
  ASSUME NEW s \in Seq(Headers!Tokens), NEW k \in 0 .. Len(s), NEW size \in {2, 4}, CutOf(s, k, size),
         NEW b, CRLFsAt(s, b), \A j \in 0 .. Len(s) : CRLFsAt(s, j) => b <= j,
         Headers!Proper(SubSeq(s, 1, b))
  PROVE  k = b /\ size = 4
<1>0. b \in Nat /\ b + 4 <= Len(s) /\ Len(s) \in Nat
  BY DEF CRLFsAt
<1>1. CASE size = 4
  <2>1. CRLFsAt(s, k) /\ k <= b
    BY <1>0, <1>1 DEF CutOf
  <2>2. b <= k
    BY <2>1
  <2>. QED
    BY <1>0, <1>1, <2>1, <2>2
<1>2. CASE size = 2
  <2>1. LFsAt(s, k) /\ k + 2 < b + 4
    BY <1>0, <1>2 DEF CutOf
  <2>. DEFINE head == SubSeq(s, 0 + 1, 0 + b)
  <2>2. head \in Seq(Headers!Tokens) /\ Len(head) = b /\ \A i \in 1 .. b : head[i] = s[0 + i]
    BY <1>0, PieceIs
  <2>3. Headers!Proper(head)
    <3>1. head = SubSeq(s, 1, b)
      BY <1>0
    <3>. QED
      BY <3>1
  <2>. HIDE DEF head
  <2>4. Headers!CR # Headers!LF
    BY DEF Headers!CR, Headers!LF
  <2>5. CASE k + 2 <= b
    <3>1. k + 1 \in 1 .. b /\ k + 2 \in 1 .. b /\ k + 2 \in DOMAIN head /\ (k + 2) - 1 = k + 1
      BY <2>2, <2>5
    <3>2. head[k + 2] = Headers!LF /\ head[k + 1] = Headers!LF
      BY <2>1, <2>2, <3>1 DEF LFsAt
    <3>3. head[k + 1] = Headers!CR
      BY <2>3, <3>1, <3>2 DEF Headers!Proper
    <3>. QED
      BY <2>4, <3>2, <3>3
  <2>6. CASE ~(k + 2 <= b)
    <3>1. k + 1 = b \/ k = b \/ k = b + 1
      BY <1>0, <2>1, <2>6
    <3>. QED
      BY <1>0, <2>1, <2>4, <3>1 DEF CRLFsAt, LFsAt
  <2>. QED
    BY <2>5, <2>6
<1>. QED
  BY <1>1, <1>2

\* Without a blank line of the first form, such a head has no end at all.
LEMMA ProperIsNotCut ==
  ASSUME NEW s \in Seq(Headers!Tokens), NEW k \in 0 .. Len(s), NEW size \in {2, 4}, CutOf(s, k, size),
         \A j \in Nat : ~CRLFsAt(s, j), Headers!Proper(s)
  PROVE  FALSE
<1>1. LFsAt(s, k)
  BY DEF CutOf
<1>2. k + 2 \in DOMAIN s /\ (k + 2) - 1 = k + 1
  BY <1>1 DEF LFsAt
<1>3. s[k + 1] = Headers!CR
  BY <1>1, <1>2 DEF LFsAt, Headers!Proper
<1>. QED
  BY <1>1, <1>3 DEF LFsAt, Headers!CR, Headers!LF

\* The cut in a head with CR LF line ends is at its first blank line.
LEMMA HeadIsCut == HeadIInv => CutAtBlankLine
<1>. SUFFICES ASSUME HeadIInv PROVE Headers!CutAtBlankLine
  BY DEF CutAtBlankLine
<1>0. headWire \in Seq(Headers!Tokens)
  BY DEF HeadIInv
<1>1. ASSUME NEW b \in Headers!Blank, Headers!Proper(SubSeq(headWire, 1, b))
      PROVE  /\ headersDone => /\ headFed = SubSeq(headWire, b + 5, Len(headWire))
                               /\ chunked = Headers!SaysChunked(SubSeq(headWire, 1, b))
             /\ headersDone \/ headFailed
             /\ headFailed => ~Headers!HasStatus(SubSeq(headWire, 1, b)) \/ Len(headWire) > MaxHead
  <2>1. CRLFsAt(headWire, b) /\ \A j \in Nat : CRLFsAt(headWire, j) => b <= j
    BY <1>0, FindCRLFs DEF Headers!Blank
  <2>2. ASSUME NEW k \in 0 .. Len(headWire), NEW size \in {2, 4}, CutOf(headWire, k, size)
        PROVE  k = b /\ size = 4
    BY <1>0, <1>1, <2>1, <2>2, ProperIsCutThere
  <2>3. ASSUME headersDone
        PROVE  /\ headFed = SubSeq(headWire, b + 5, Len(headWire))
               /\ chunked = Headers!SaysChunked(SubSeq(headWire, 1, b))
    <3>1. PICK k \in 0 .. Len(headWire), size \in {2, 4} :
             /\ CutOf(headWire, k, size)
             /\ headFed = SubSeq(headWire, k + size + 1, Len(headWire))
             /\ chunked = Headers!SaysChunked(SubSeq(headWire, 1, k))
      BY <2>3 DEF HeadIInv
    <3>2. k = b /\ size = 4
      BY <2>2, <3>1
    <3>3. k + size + 1 = b + 5
      BY <3>2
    <3>. QED
      BY <3>1, <3>2, <3>3
  <2>4. headersDone \/ headFailed
    <3>1. b \in 0 .. Len(headWire)
      BY <1>0, <2>1 DEF CRLFsAt
    <3>. QED
      BY <2>1, <3>1 DEF HeadIInv, NoBlankLine
  <2>5. headFailed => ~Headers!HasStatus(SubSeq(headWire, 1, b)) \/ Len(headWire) > MaxHead
    BY <2>2 DEF HeadIInv
  <2>. QED
    BY <2>3, <2>4, <2>5
<1>2. ASSUME Headers!Blank = {}, Headers!Proper(headWire) PROVE ~headersDone
  <2>1. \A j \in Nat : ~CRLFsAt(headWire, j)
    BY <1>0, <1>2, FindCRLFs DEF Headers!Blank
  <2>. QED
    BY <1>0, <1>2, <2>1, ProperIsNotCut DEF HeadIInv
<1>. QED
  BY <1>1, <1>2 DEF Headers!CutAtBlankLine

\* Wherever the reads end, a response whose head has CR LF line ends is cut at its first
\* blank line, however long it is and however the reads split it.
THEOREM HeadsAreCut == Headers!Spec => []CutAtBlankLine
BY HeadStart, HeadStep, HeadIsCut, PTL DEF Headers!Spec

-----------------------------------------------------------------------------
(* The chunk decoder.                                                      *)

\* Induction over a set instead of a predicate.
LEMMA Climbs ==
  ASSUME NEW n \in Nat, NEW S, 0 \in S, \A i \in 0 .. n : i \in S /\ i < n => i + 1 \in S
  PROVE  \A i \in 0 .. n : i \in S
<1>. DEFINE bad == {i \in 0 .. n : i \notin S}
<1>. SUFFICES ASSUME bad # {} PROVE FALSE
  OBVIOUS
<1>1. PICK m \in bad : \A k \in bad : m <= k
  <2>1. bad \in SUBSET Nat
    OBVIOUS
  <2>. QED
    BY <2>1, HasLeast
<1>2. m # 0 /\ m - 1 \in 0 .. n /\ m - 1 < n
  OBVIOUS
<1>3. m - 1 \in S
  BY <1>1, <1>2
<1>. QED
  BY <1>2, <1>3

\* A function that is given by its first value and by how each follows from the one before.
Steps(n, V) == [1 .. n -> [V -> V]]
Iterate(f, k, a, step) == f[0] = a /\ \A i \in 1 .. k : f[i] = step[i][f[i - 1]]
Iterated(n, V, a, step) == \E f \in [0 .. n -> V] : Iterate(f, n, a, step)

\* There is such a function, for any number of steps.
LEMMA Iterates ==
  ASSUME NEW n \in Nat, NEW V, NEW a \in V, NEW step \in Steps(n, V)
  PROVE  Iterated(n, V, a, step)
<1>. DEFINE S == {k \in 0 .. n : Iterated(k, V, a, step)}
<1>1. 0 \in S
  <2>. DEFINE f == [i \in 0 .. 0 |-> a]
  <2>1. f \in [0 .. 0 -> V] /\ f[0] = a
    OBVIOUS
  <2>. HIDE DEF f
  <2>2. Iterate(f, 0, a, step)
    BY <2>1 DEF Iterate
  <2>. QED
    BY <2>1, <2>2 DEF Iterated
<1>2. ASSUME NEW k \in 0 .. n, k \in S, k < n PROVE k + 1 \in S
  <2>1. PICK f \in [0 .. k -> V] : Iterate(f, k, a, step)
    BY <1>2 DEF Iterated
  <2>. DEFINE g == [i \in 0 .. k + 1 |-> IF i = k + 1 THEN step[k + 1][f[k]] ELSE f[i]]
  <2>2. g \in [0 .. k + 1 -> V]
    <3>1. k \in 0 .. k /\ k + 1 \in 1 .. n
      BY <1>2
    <3>2. step[k + 1][f[k]] \in V
      BY <3>1 DEF Steps
    <3>. QED
      BY <3>2
  <2>3. \A i \in 0 .. k : g[i] = f[i]
    OBVIOUS
  <2>4. g[k + 1] = step[k + 1][f[k]]
    OBVIOUS
  <2>. HIDE DEF g
  <2>5. ASSUME NEW i \in 1 .. k + 1 PROVE g[i] = step[i][g[i - 1]]
    <3>1. CASE i = k + 1
      <4>1. i - 1 = k /\ k \in 0 .. k
        BY <3>1
      <4>2. g[i - 1] = f[k]
        BY <2>3, <4>1
      <4>. QED
        BY <2>4, <3>1, <4>2
    <3>2. CASE i \in 1 .. k
      <4>1. i - 1 \in 0 .. k /\ i \in 0 .. k
        BY <3>2
      <4>2. g[i] = f[i] /\ g[i - 1] = f[i - 1]
        BY <2>3, <4>1
      <4>. QED
        BY <2>1, <3>2, <4>2 DEF Iterate
    <3>. QED
      BY <3>1, <3>2
  <2>6. g[0] = a
    BY <2>1, <2>3 DEF Iterate
  <2>7. Iterate(g, k + 1, a, step)
    BY <2>5, <2>6 DEF Iterate
  <2>. QED
    BY <1>2, <2>2, <2>7 DEF Iterated
<1>3. n \in S
  <2>1. n \in 0 .. n
    OBVIOUS
  <2>. HIDE DEF S
  <2>. QED
    BY <1>1, <1>2, <2>1, Climbs
<1>. QED
  BY <1>3

-----------------------------------------------------------------------------
(* The size of a chunk.                                                    *)

\* SSEDM_ParseChunkSize as a step from each byte to the next: its definition is the
\* function that this leaves as it is.
SizeStep(text, f) ==
    [i \in 0 .. Len(text) |->
        IF i = 0 THEN 0
        ELSE IF text[i] = Body!Blank THEN f[i - 1]
        ELSE IF f[i - 1] = Body!NoSize \/ text[i] \notin Body!Digits THEN Body!NoSize
        ELSE Body!Grown(f[i - 1], text[i])]

\* The number that the reference reads, in the same form and without a limit.
NumberStep(text, f) ==
    [i \in 0 .. Len(text) |->
        IF i = 0 THEN 0
        ELSE IF text[i] = Body!Blank THEN f[i - 1]
        ELSE f[i - 1] * 16 + text[i]]

\* What a size line may come to.
Sizes == Nat \cup {Body!NoSize}

\* The test before the shift and the addition is the test of their result.
LEMMA GrownType ==
  ASSUME NEW size \in Nat, NEW digit \in Body!Digits
  PROVE  Body!Grown(size, digit) = IF size * 16 + digit > SizeMax THEN Body!NoSize ELSE size * 16 + digit
<1>1. SizeMax \in Nat /\ digit \in 0 .. 15
  BY BodyAssumption DEF Body!Digits
<1>2. size > (SizeMax - digit) \div 16 <=> size * 16 + digit > SizeMax
  BY <1>1
<1>. QED
  BY <1>2 DEF Body!Grown

\* Both functions exist, for a text of any length.
LEMMA SizeUnfolds ==
  ASSUME NEW text, Len(text) \in Nat
  PROVE  \E f : f = SizeStep(text, f)
<1>. DEFINE n == Len(text)
            step == [k \in 1 .. n |-> [v \in Sizes |->
                        IF text[k] = Body!Blank THEN v
                        ELSE IF v = Body!NoSize \/ text[k] \notin Body!Digits THEN Body!NoSize
                        ELSE Body!Grown(v, text[k])]]
<1>1. step \in Steps(n, Sizes)
  <2>1. ASSUME NEW k \in 1 .. n, NEW v \in Sizes PROVE step[k][v] \in Sizes
    <3>1. ASSUME v # Body!NoSize, text[k] \in Body!Digits PROVE Body!Grown(v, text[k]) \in Sizes
      <4>1. v \in Nat /\ text[k] \in Nat
        BY <3>1 DEF Sizes, Body!Digits
      <4>2. Body!Grown(v, text[k]) \in {Body!NoSize, v * 16 + text[k]}
        BY <3>1, <4>1, GrownType
      <4>. QED
        BY <4>1, <4>2 DEF Sizes
    <3>. QED
      BY <3>1 DEF Sizes
  <2>. QED
    BY <2>1 DEF Steps
<1>2. 0 \in Sizes /\ n \in Nat
  BY DEF Sizes
<1>3. \A k \in 1 .. n, v \in Sizes : step[k][v] =
                        IF text[k] = Body!Blank THEN v
                        ELSE IF v = Body!NoSize \/ text[k] \notin Body!Digits THEN Body!NoSize
                        ELSE Body!Grown(v, text[k])
  OBVIOUS
<1>. HIDE DEF step
<1>4. PICK f \in [0 .. n -> Sizes] : Iterate(f, n, 0, step)
  <2>. HIDE DEF n
  <2>. QED
    BY <1>1, <1>2, Iterates DEF Iterated
<1>5. ASSUME NEW i \in 0 .. n PROVE f[i] = SizeStep(text, f)[i]
  <2>1. CASE i = 0
    BY <1>4, <2>1 DEF SizeStep, Iterate
  <2>2. CASE i # 0
    <3>1. i \in 1 .. n /\ i - 1 \in 0 .. n
      BY <2>2
    <3>2. f[i - 1] \in Sizes
      BY <3>1
    <3>. QED
      BY <1>3, <1>4, <2>2, <3>1, <3>2 DEF SizeStep, Iterate
  <2>. QED
    BY <2>1, <2>2
<1>. QED
  BY <1>5 DEF SizeStep, Iterate

LEMMA NumberUnfolds ==
  ASSUME NEW text, Len(text) \in Nat, \A i \in 1 .. Len(text) : text[i] \in Nat
  PROVE  \E f : f = NumberStep(text, f)
<1>. DEFINE n == Len(text)
            step == [k \in 1 .. n |-> [v \in Nat |->
                        IF text[k] = Body!Blank THEN v ELSE v * 16 + text[k]]]
<1>1. step \in Steps(n, Nat)
  <2>1. ASSUME NEW k \in 1 .. n, NEW v \in Nat PROVE step[k][v] \in Nat
    OBVIOUS
  <2>. QED
    BY <2>1 DEF Steps
<1>2. n \in Nat /\ 0 \in Nat
  OBVIOUS
<1>3. \A k \in 1 .. n, v \in Nat : step[k][v] =
                        IF text[k] = Body!Blank THEN v ELSE v * 16 + text[k]
  OBVIOUS
<1>. HIDE DEF step
<1>4. PICK f \in [0 .. n -> Nat] : Iterate(f, n, 0, step)
  <2>. HIDE DEF n
  <2>. QED
    BY <1>1, <1>2, Iterates DEF Iterated
<1>5. ASSUME NEW i \in 0 .. n PROVE f[i] = NumberStep(text, f)[i]
  <2>1. CASE i = 0
    BY <1>4, <2>1 DEF NumberStep, Iterate
  <2>2. CASE i # 0
    <3>1. i \in 1 .. n /\ i - 1 \in 0 .. n
      BY <2>2
    <3>. QED
      BY <1>3, <1>4, <2>2, <3>1 DEF NumberStep, Iterate
  <2>. QED
    BY <2>1, <2>2
<1>. QED
  BY <1>5 DEF NumberStep, Iterate

\* Where a byte is first, and that there is none before.
LEMMA FirstOfIs ==
  ASSUME NEW s \in Seq(Bytes), NEW b
  PROVE  /\ Body!FirstOf(s, b) \in 1 .. Len(s) + 1
         /\ \A j \in 1 .. Len(s) : j < Body!FirstOf(s, b) => s[j] # b
         /\ Body!FirstOf(s, b) <= Len(s) => s[Body!FirstOf(s, b)] = b
<1>. DEFINE S == {i \in DOMAIN s : s[i] = b} \cup {Len(s) + 1}
<1>1. S \in SUBSET Nat /\ S # {} /\ \A k \in S : k \in 1 .. Len(s) + 1 /\ (k <= Len(s) => s[k] = b)
  OBVIOUS
<1>2. \A j \in 1 .. Len(s) : s[j] = b => j \in S
  OBVIOUS
<1>3. Body!FirstOf(s, b) = CHOOSE m \in S : \A k \in S : m <= k
  BY DEF Body!FirstOf, Body!Min
<1>. HIDE DEF S
<1>4. Body!FirstOf(s, b) \in S /\ \A k \in S : Body!FirstOf(s, b) <= k
  <2>1. \E m \in S : \A k \in S : m <= k
    BY <1>1, HasLeast
  <2>. QED
    BY <1>3, <2>1
<1>. DEFINE first == Body!FirstOf(s, b)
<1>5. first \in Nat /\ first \in 1 .. Len(s) + 1 /\ (first <= Len(s) => s[first] = b) /\ Len(s) \in Nat
  <2>1. first \in S
    BY <1>4
  <2>. HIDE DEF first
  <2>2. first \in 1 .. Len(s) + 1 /\ (first <= Len(s) => s[first] = b)
    BY <1>1, <2>1
  <2>3. Len(s) \in Nat
    OBVIOUS
  <2>. QED
    BY <2>2, <2>3
<1>6. \A j \in 1 .. Len(s) : s[j] = b => first <= j
  BY <1>2, <1>4
<1>. HIDE DEF first
<1>7. \A j \in 1 .. Len(s) : j < first => s[j] # b
  BY <1>5, <1>6
<1>. USE DEF first
<1>. QED
  BY <1>5, <1>7

\* A text without its line breaks, and the part of it before a semicolon, are texts.
LEMMA TrimmedType ==
  ASSUME NEW s \in Seq(Bytes)
  PROVE  Body!Trimmed(s) \in Seq(Bytes)
<1>. DEFINE S == {i \in DOMAIN s : s[i] \notin {Body!CR, Body!LF}} \cup {0}
            T == {Len(s) - x : x \in S}
<1>1. Len(s) \in Nat /\ S # {} /\ \A x \in S : x \in 0 .. Len(s)
  OBVIOUS
<1>2. Body!Trimmed(s) = SubSeq(s, 1, CHOOSE m \in S : \A k \in S : m >= k)
  BY DEF Body!Trimmed, Body!Max
<1>. HIDE DEF S
<1>3. T \in SUBSET Nat /\ T # {}
  BY <1>1
<1>4. PICK t \in T : \A k \in T : t <= k
  BY <1>3, HasLeast
<1>5. PICK m \in S : t = Len(s) - m
  OBVIOUS
<1>6. ASSUME NEW k \in S PROVE m >= k
  <2>1. Len(s) - k \in T
    OBVIOUS
  <2>2. t <= Len(s) - k
    BY <1>4, <2>1
  <2>. QED
    BY <1>1, <1>5, <2>2
<1>7. (CHOOSE n \in S : \A k \in S : n >= k) \in 0 .. Len(s)
  BY <1>1, <1>6
<1>8. \A n \in 0 .. Len(s) : SubSeq(s, 1, n) \in Seq(Bytes)
  OBVIOUS
<1>. QED
  BY <1>2, <1>7, <1>8

LEMMA SizeTextType ==
  ASSUME NEW s \in Seq(Bytes)
  PROVE  Body!SizeText(s) \in Seq(Bytes)
BY FirstOfIs DEF Body!SizeText

\* In a text of digits and blanks the two agree up to SIZE_MAX; once past it, the size
\* stays refused.
LEMMA SizesAgree ==
  ASSUME NEW text, Len(text) \in Nat, NEW f, NEW g, f = SizeStep(text, f), g = NumberStep(text, g),
         \A i \in 1 .. Len(text) : text[i] \in Body!Digits \cup {Body!Blank}
  PROVE  \A i \in 0 .. Len(text) : g[i] \in Nat /\ f[i] = IF g[i] > SizeMax THEN Body!NoSize ELSE g[i]
<1>. DEFINE n == Len(text)
            S == {i \in 0 .. n : g[i] \in Nat /\ f[i] = IF g[i] > SizeMax THEN Body!NoSize ELSE g[i]}
<1>1. 0 \in S
  <2>1. f[0] = 0 /\ g[0] = 0
    BY DEF SizeStep, NumberStep
  <2>. QED
    BY <2>1, BodyAssumption
<1>2. ASSUME NEW i \in 0 .. n, i \in S, i < n PROVE i + 1 \in S
  <2>1. i + 1 \in 1 .. n /\ (i + 1) - 1 = i
    BY <1>2
  <2>2. f[i + 1] = IF text[i + 1] = Body!Blank THEN f[i]
                   ELSE IF f[i] = Body!NoSize \/ text[i + 1] \notin Body!Digits THEN Body!NoSize
                   ELSE Body!Grown(f[i], text[i + 1])
    BY <2>1 DEF SizeStep
  <2>3. g[i + 1] = IF text[i + 1] = Body!Blank THEN g[i] ELSE g[i] * 16 + text[i + 1]
    BY <2>1 DEF NumberStep
  <2>4. CASE text[i + 1] = Body!Blank
    BY <1>2, <2>1, <2>2, <2>3, <2>4
  <2>5. CASE text[i + 1] # Body!Blank
    <3>1. text[i + 1] \in Body!Digits /\ text[i + 1] \in Nat /\ g[i] \in Nat /\ SizeMax \in Nat
      <4>1. text[i + 1] \in Body!Digits
        BY <2>1, <2>5
      <4>2. \A x \in Body!Digits : x \in Nat
        BY DEF Body!Digits
      <4>. QED
        BY <1>2, <4>1, <4>2, BodyAssumption
    <3>2. g[i + 1] = g[i] * 16 + text[i + 1] /\ g[i + 1] \in Nat
      BY <2>3, <2>5, <3>1
    <3>3. CASE g[i] > SizeMax
      <4>1. f[i + 1] = Body!NoSize
        BY <1>2, <2>2, <2>5, <3>3
      <4>2. g[i + 1] > SizeMax
        BY <3>1, <3>2, <3>3
      <4>. QED
        BY <2>1, <3>2, <4>1, <4>2
    <3>4. CASE ~(g[i] > SizeMax)
      <4>1. f[i] = g[i] /\ f[i] # Body!NoSize
        BY <1>2, <3>1, <3>4 DEF Body!NoSize
      <4>2. f[i + 1] = Body!Grown(g[i], text[i + 1])
        BY <2>2, <2>5, <3>1, <4>1
      <4>3. f[i + 1] = IF g[i] * 16 + text[i + 1] > SizeMax THEN Body!NoSize ELSE g[i] * 16 + text[i + 1]
        BY <3>1, <4>2, GrownType
      <4>. QED
        BY <2>1, <3>2, <4>3
    <3>. QED
      BY <3>3, <3>4
  <2>. QED
    BY <2>4, <2>5
<1>. HIDE DEF S
<1>3. \A i \in 0 .. n : i \in S
  BY <1>1, <1>2, Climbs
<1>. QED
  BY <1>3 DEF S

\* A byte of another kind refuses the text, whatever follows it.
LEMMA OtherByteIsNoSize ==
  ASSUME NEW text, Len(text) \in Nat, NEW f, f = SizeStep(text, f),
         NEW j \in 1 .. Len(text), text[j] \notin Body!Digits \cup {Body!Blank}
  PROVE  f[Len(text)] = Body!NoSize
<1>. DEFINE n == Len(text)
            S == {i \in 0 .. n : i >= j => f[i] = Body!NoSize}
<1>1. 0 \in S
  OBVIOUS
<1>2. ASSUME NEW i \in 0 .. n, i \in S, i < n PROVE i + 1 \in S
  <2>1. i + 1 \in 1 .. n /\ (i + 1) - 1 = i
    BY <1>2
  <2>2. f[i + 1] = IF text[i + 1] = Body!Blank THEN f[i]
                   ELSE IF f[i] = Body!NoSize \/ text[i + 1] \notin Body!Digits THEN Body!NoSize
                   ELSE Body!Grown(f[i], text[i + 1])
    BY <2>1 DEF SizeStep
  <2>3. CASE i + 1 = j
    BY <2>1, <2>2, <2>3
  <2>4. CASE i + 1 # j
    BY <1>2, <2>1, <2>2, <2>4
  <2>. QED
    BY <2>3, <2>4
<1>. HIDE DEF S
<1>. HIDE DEF n
<1>3. n \in Nat /\ n \in 0 .. n
  BY DEF n
<1>4. \A i \in 0 .. n : i \in S
  BY <1>1, <1>2, <1>3, Climbs
<1>. QED
  BY <1>3, <1>4 DEF S, n

\* SSEDM_ParseChunkSize reads the number that the text stands for, or refuses it.
LEMMA SizeIsMeant ==
  ASSUME NEW s \in Seq(Bytes)
  PROVE  /\ Body!ParseChunkSize(s) = Body!MeantSize(s)
         /\ Body!MeantSize(s) \in Sizes
<1>. DEFINE text == Body!SizeText(s)
            f == CHOOSE size : size = SizeStep(text, size)
            g == CHOOSE upTo : upTo = NumberStep(text, upTo)
            plain == \A i \in 1 .. Len(text) : text[i] \in Body!Digits \cup {Body!Blank}
<1>1. text \in Seq(Bytes) /\ Len(text) \in Nat /\ DOMAIN text = 1 .. Len(text)
  BY SizeTextType
<1>2. Body!ParseChunkSize(s) = IF Body!AllBlank(text) THEN Body!NoSize ELSE f[Len(text)]
  BY DEF Body!ParseChunkSize, SizeStep
<1>3. Body!Number(text) = g[Len(text)]
  BY DEF Body!Number, NumberStep
<1>4. Body!MeantSize(s) = IF Body!AllBlank(text) \/ ~plain \/ Body!Number(text) > SizeMax
                          THEN Body!NoSize ELSE Body!Number(text)
  BY <1>1 DEF Body!MeantSize
<1>. HIDE DEF text
<1>5. f = SizeStep(text, f)
  BY <1>1, SizeUnfolds
<1>. HIDE DEF f
<1>6. CASE plain
  <2>1. \A i \in 1 .. Len(text) : text[i] \in Nat
    <3>1. \A x \in Body!Digits \cup {Body!Blank} : x \in Nat
      BY DEF Body!Digits, Body!Blank
    <3>. QED
      BY <1>6, <3>1
  <2>2. g = NumberStep(text, g)
    BY <1>1, <2>1, NumberUnfolds
  <2>. HIDE DEF g
  <2>3. \A i \in 0 .. Len(text) : g[i] \in Nat /\ f[i] = IF g[i] > SizeMax THEN Body!NoSize ELSE g[i]
    BY <1>1, <1>5, <1>6, <2>2, SizesAgree
  <2>4. Len(text) \in 0 .. Len(text)
    BY <1>1
  <2>. QED
    BY <1>2, <1>3, <1>4, <1>6, <2>3, <2>4 DEF Sizes
<1>7. CASE ~plain
  <2>1. f[Len(text)] = Body!NoSize
    BY <1>1, <1>5, <1>7, OtherByteIsNoSize
  <2>. QED
    BY <1>2, <1>4, <1>7, <2>1 DEF Sizes
<1>. QED
  BY <1>6, <1>7

-----------------------------------------------------------------------------
(* The reference.                                                          *)

\* The reference as a step: what a text means, when f says it of the shorter ones.
Meant(s, f) ==
    LET end   == Body!FirstOf(s, Body!LF)
        size  == Body!MeantSize(Body!Trimmed(SubSeq(s, 1, end - 1)))
        body  == Body!From(s, end + 1)
        data  == SubSeq(body, 1, size)
        after == Body!From(body, size + 1)
        break == IF after[1] = Body!CR THEN 2 ELSE 1
        rest  == f[Body!From(after, break + 1)]
    IN  CASE end > MaxLine -> Body!Yields(<<>>, IF Len(s) > MaxLine THEN "malformed" ELSE "open")
          [] end <= MaxLine /\ end > Len(s) -> Body!Yields(<<>>, "open")
          [] end <= MaxLine /\ end <= Len(s) /\ size = Body!NoSize -> Body!Yields(<<>>, "malformed")
          [] end <= MaxLine /\ end <= Len(s) /\ size = 0 -> Body!Yields(<<>>, "complete")
          [] end <= MaxLine /\ end <= Len(s) /\ size > 0 ->
                 IF Len(body) <= size THEN Body!Yields(body, "open")
                 ELSE IF break > Len(after) THEN Body!Yields(data, "open")
                 ELSE IF after[break] # Body!LF THEN Body!Yields(data, "malformed")
                 ELSE Body!Yields(data \o rest.data, rest.outcome)

MeantStep(f) == [s \in Seq(Bytes) |-> Meant(s, f)]

\* The rest of a text is shorter.
LEMMA FromIs ==
  ASSUME NEW s \in Seq(Bytes), NEW i \in 1 .. Len(s) + 1
  PROVE  /\ Body!From(s, i) \in Seq(Bytes)
         /\ Len(Body!From(s, i)) = Len(s) + 1 - i
         /\ \A j \in 1 .. Len(s) + 1 - i : Body!From(s, i)[j] = s[i + j - 1]
BY DEF Body!From

\* What a text means depends on what shorter ones mean.
LEMMA MeantIsLocal ==
  ASSUME NEW s \in Seq(Bytes), NEW f, NEW g,
         \A t \in Seq(Bytes) : Len(t) < Len(s) => f[t] = g[t]
  PROVE  Meant(s, f) = Meant(s, g)
<1>. DEFINE end   == Body!FirstOf(s, Body!LF)
            size  == Body!MeantSize(Body!Trimmed(SubSeq(s, 1, end - 1)))
            body  == Body!From(s, end + 1)
            after == Body!From(body, size + 1)
            break == IF after[1] = Body!CR THEN 2 ELSE 1
            next  == Body!From(after, break + 1)
<1>1. ASSUME end <= MaxLine, end <= Len(s), size > 0, ~(Len(body) <= size), ~(break > Len(after))
      PROVE  f[next] = g[next]
  <2>1. end \in 1 .. Len(s)
    BY <1>1, FirstOfIs
  <2>2. body \in Seq(Bytes) /\ Len(body) = Len(s) - end
    BY <2>1, FromIs
  <2>3. size \in Nat
    <3>1. SubSeq(s, 1, end - 1) \in Seq(Bytes)
      BY <2>1
    <3>2. size \in Sizes
      BY <3>1, TrimmedType, SizeIsMeant
    <3>. QED
      BY <1>1, <3>2 DEF Sizes, Body!NoSize
  <2>4. after \in Seq(Bytes) /\ Len(after) = Len(body) - size
    BY <1>1, <2>2, <2>3, FromIs
  <2>5. next \in Seq(Bytes) /\ Len(next) = Len(after) - break
    BY <1>1, <2>4, FromIs
  <2>6. Len(next) < Len(s)
    BY <1>1, <2>1, <2>2, <2>3, <2>4, <2>5
  <2>. QED
    BY <2>5, <2>6
<1>. HIDE DEF end, size, body, after, break, next
<1>. QED
  BY <1>1 DEF Meant, next, break, after, body, size, end

\* f is the reference on the texts that are shorter than n.
Solves(n, f) == \A s \in Seq(Bytes) : Len(s) < n => f[s] = Meant(s, f)

LEMMA OneSolution ==
  ASSUME NEW n \in Nat, NEW f, NEW g, Solves(n, f), Solves(n, g)
  PROVE  \A s \in Seq(Bytes) : Len(s) < n => f[s] = g[s]
<1>. DEFINE S == {k \in 0 .. n : \A s \in Seq(Bytes) : Len(s) < k => f[s] = g[s]}
<1>1. 0 \in S
  OBVIOUS
<1>2. ASSUME NEW k \in 0 .. n, k \in S, k < n PROVE k + 1 \in S
  <2>1. ASSUME NEW s \in Seq(Bytes), Len(s) < k + 1 PROVE f[s] = g[s]
    <3>1. \A t \in Seq(Bytes) : Len(t) < Len(s) => f[t] = g[t]
      BY <1>2, <2>1
    <3>2. Meant(s, f) = Meant(s, g)
      BY <3>1, MeantIsLocal
    <3>3. Len(s) < n
      BY <1>2, <2>1
    <3>. QED
      BY <3>2, <3>3 DEF Solves
  <2>. QED
    BY <1>2, <2>1
<1>. HIDE DEF S
<1>3. n \in 0 .. n /\ \A k \in 0 .. n : k \in S
  BY <1>1, <1>2, Climbs
<1>. QED
  BY <1>3 DEF S

LEMMA SolutionForAll ==
  ASSUME NEW n \in Nat
  PROVE  \E f : Solves(n, f)
<1>. DEFINE S == {k \in 0 .. n : \E f : Solves(k, f)}
<1>1. 0 \in S
  BY DEF Solves
<1>2. ASSUME NEW k \in 0 .. n, k \in S, k < n PROVE k + 1 \in S
  <2>1. PICK g : Solves(k, g)
    BY <1>2
  <2>. DEFINE h == MeantStep(g)
  <2>2. \A s \in Seq(Bytes) : h[s] = Meant(s, g)
    BY DEF MeantStep
  <2>. HIDE DEF h
  <2>3. ASSUME NEW s \in Seq(Bytes), Len(s) < k + 1 PROVE h[s] = Meant(s, h)
    <3>1. \A t \in Seq(Bytes) : Len(t) < Len(s) => h[t] = g[t]
      BY <2>1, <2>2, <2>3 DEF Solves
    <3>2. Meant(s, h) = Meant(s, g)
      BY <3>1, MeantIsLocal
    <3>. QED
      BY <2>2, <3>2
  <2>4. Solves(k + 1, h)
    BY <2>3 DEF Solves
  <2>. QED
    BY <1>2, <2>4
<1>. HIDE DEF S
<1>3. n \in 0 .. n /\ \A k \in 0 .. n : k \in S
  BY <1>1, <1>2, Climbs
<1>. QED
  BY <1>3 DEF S

\* The reference is what its definition says.
LEMMA MeaningUnfolds ==
  \A s \in Seq(Bytes) : Body!Meaning[s] = Meant(s, Body!Meaning)
<1>. DEFINE For(n) == CHOOSE f : Solves(n, f)
            all == [s \in Seq(Bytes) |-> For(Len(s) + 1)[s]]
<1>1. \A n \in Nat : Solves(n, For(n))
  BY SolutionForAll
<1>2. \A s \in Seq(Bytes) : all[s] = For(Len(s) + 1)[s]
  OBVIOUS
<1>. HIDE DEF For
<1>3. ASSUME NEW s \in Seq(Bytes) PROVE all[s] = Meant(s, all)
  <2>1. Len(s) + 1 \in Nat /\ Solves(Len(s) + 1, For(Len(s) + 1))
    BY <1>1
  <2>2. ASSUME NEW t \in Seq(Bytes), Len(t) < Len(s) PROVE all[t] = For(Len(s) + 1)[t]
    <3>1. Len(t) + 1 \in Nat /\ Solves(Len(t) + 1, For(Len(t) + 1))
      BY <1>1
    <3>2. Solves(Len(t) + 1, For(Len(s) + 1))
      BY <2>1, <2>2 DEF Solves
    <3>3. For(Len(t) + 1)[t] = For(Len(s) + 1)[t]
      BY <3>1, <3>2, OneSolution
    <3>. QED
      BY <1>2, <3>3
  <2>3. Meant(s, all) = Meant(s, For(Len(s) + 1))
    <3>. HIDE DEF all
    <3>. QED
      BY <2>2, MeantIsLocal
  <2>. QED
    BY <1>2, <2>1, <2>3 DEF Solves
<1>4. all = MeantStep(all)
  BY <1>3 DEF MeantStep
<1>5. Body!Meaning = CHOOSE f : f = MeantStep(f)
  BY DEF Body!Meaning, MeantStep, Meant
<1>6. Body!Meaning = MeantStep(Body!Meaning)
  <2>. HIDE DEF all
  <2>. QED
    BY <1>4, <1>5
<1>. QED
  BY <1>6 DEF MeantStep

-----------------------------------------------------------------------------
(* What the decoder's steps come to in the reference.                      *)

\* A size line of s, with its end at e.
LineOf(s, e) ==
    /\ e \in 1 .. Len(s) /\ e <= MaxLine
    /\ s[e] = Body!LF /\ \A i \in 1 .. Len(s) : i < e => s[i] # Body!LF

\* The size it gives.
SizeOf(s, e) == Body!MeantSize(Body!Trimmed(SubSeq(s, 1, e - 1)))

\* The reference finds the same line.
LEMMA LineEnd ==
  ASSUME NEW s \in Seq(Bytes), NEW e, LineOf(s, e)
  PROVE  /\ Body!FirstOf(s, Body!LF) = e
         /\ SizeOf(s, e) \in Sizes
<1>1. Body!FirstOf(s, Body!LF) = e
  <2>. DEFINE first == Body!FirstOf(s, Body!LF)
  <2>1. /\ first \in 1 .. Len(s) + 1
        /\ \A j \in 1 .. Len(s) : j < first => s[j] # Body!LF
        /\ first <= Len(s) => s[first] = Body!LF
    BY FirstOfIs
  <2>. HIDE DEF first
  <2>2. first <= e
    BY <2>1 DEF LineOf
  <2>3. ~(first < e)
    BY <2>1 DEF LineOf
  <2>. QED
    BY <2>1, <2>2, <2>3 DEF LineOf, first
<1>2. SubSeq(s, 1, e - 1) \in Seq(Bytes)
  BY DEF LineOf
<1>. QED
  BY <1>1, <1>2, TrimmedType, SizeIsMeant DEF SizeOf

\* What the reference yields.
LEMMA YieldsIs ==
  ASSUME NEW data, NEW outcome
  PROVE  Body!Yields(data, outcome).data = data /\ Body!Yields(data, outcome).outcome = outcome
BY DEF Body!Yields

\* A line that has not come to its end.
LEMMA OpenLine ==
  ASSUME NEW s \in Seq(Bytes), Len(s) <= MaxLine, \A i \in 1 .. Len(s) : s[i] # Body!LF
  PROVE  Body!Meaning[s] = Body!Yields(<<>>, "open")
<1>1. Body!FirstOf(s, Body!LF) = Len(s) + 1
  BY FirstOfIs
<1>2. Body!Meaning[s] = Meant(s, Body!Meaning) /\ MaxLine \in Nat /\ Len(s) \in Nat
  BY MeaningUnfolds, BodyAssumption
<1>. QED
  BY <1>1, <1>2 DEF Meant

\* A line that is too long.
LEMMA LongLine ==
  ASSUME NEW s \in Seq(Bytes), Len(s) = MaxLine + 1, \A i \in 1 .. MaxLine : s[i] # Body!LF
  PROVE  Body!Meaning[s] = Body!Yields(<<>>, "malformed")
<1>1. Body!FirstOf(s, Body!LF) > MaxLine /\ Body!FirstOf(s, Body!LF) \in Nat
  BY FirstOfIs, BodyAssumption
<1>2. Body!Meaning[s] = Meant(s, Body!Meaning) /\ MaxLine \in Nat /\ Len(s) \in Nat
  BY MeaningUnfolds, BodyAssumption
<1>. QED
  BY <1>1, <1>2 DEF Meant

\* A line that is no size, or the last chunk's.
LEMMA LineWithoutData ==
  ASSUME NEW s \in Seq(Bytes), NEW e, LineOf(s, e)
  PROVE  /\ SizeOf(s, e) = Body!NoSize => Body!Meaning[s] = Body!Yields(<<>>, "malformed")
         /\ SizeOf(s, e) = 0 => Body!Meaning[s] = Body!Yields(<<>>, "complete")
<1>1. Body!FirstOf(s, Body!LF) = e /\ e <= MaxLine /\ e <= Len(s)
  BY LineEnd DEF LineOf
<1>2. Body!Meaning[s] = Meant(s, Body!Meaning) /\ MaxLine \in Nat /\ Len(s) \in Nat /\ e \in Nat
  BY MeaningUnfolds, BodyAssumption DEF LineOf
<1>. QED
  BY <1>1, <1>2 DEF Meant, SizeOf, Body!NoSize

\* The rest of the rest.
LEMMA FromFrom ==
  ASSUME NEW s \in Seq(Bytes), NEW i \in 1 .. Len(s) + 1, NEW k \in 1 .. Len(s) + 2 - i
  PROVE  Body!From(Body!From(s, i), k) = Body!From(s, i + k - 1)
<1>. DEFINE body == Body!From(s, i)
            one == Body!From(body, k)
            two == Body!From(s, i + k - 1)
            n == Len(s) + 2 - i - k
<1>1. body \in Seq(Bytes) /\ Len(body) = Len(s) + 1 - i /\ \A j \in 1 .. Len(s) + 1 - i : body[j] = s[i + j - 1]
  BY FromIs
<1>2. i + k - 1 \in 1 .. Len(s) + 1 /\ Len(s) + 1 - (i + k - 1) = n
  OBVIOUS
<1>3. two \in Seq(Bytes) /\ Len(two) = n /\ \A j \in 1 .. n : two[j] = s[(i + k - 1) + j - 1]
  BY <1>2, FromIs
<1>. HIDE DEF body, two
<1>4. k \in 1 .. Len(body) + 1 /\ Len(body) + 1 - k = n
  BY <1>1
<1>5. one \in Seq(Bytes) /\ Len(one) = n /\ \A j \in 1 .. n : one[j] = body[k + j - 1]
  BY <1>1, <1>4, FromIs
<1>6. ASSUME NEW j \in 1 .. n PROVE body[k + j - 1] = s[(i + k - 1) + j - 1]
  <2>1. k + j - 1 \in 1 .. Len(s) + 1 - i /\ i + (k + j - 1) - 1 = (i + k - 1) + j - 1
    OBVIOUS
  <2>. QED
    BY <1>1, <2>1
<1>. HIDE DEF one, n
<1>7. \A j \in 1 .. Len(one) : one[j] = two[j]
  BY <1>3, <1>5, <1>6
<1>8. one = two
  BY <1>3, <1>5, <1>7, SeqEqual
<1>. QED
  BY <1>8 DEF one, two, body

\* A part of the rest.
LEMMA PartOfFrom ==
  ASSUME NEW s \in Seq(Bytes), NEW i \in 1 .. Len(s) + 1, NEW k \in 1 .. Len(s) + 1 - i
  PROVE  SubSeq(Body!From(s, i), 1, k) = SubSeq(s, i, i + k - 1)
<1>. DEFINE body == Body!From(s, i)
<1>1. body \in Seq(Bytes) /\ Len(body) = Len(s) + 1 - i /\ \A j \in 1 .. Len(s) + 1 - i : body[j] = s[i + j - 1]
  BY FromIs
<1>. HIDE DEF body
<1>2. SubSeq(body, 1, k) = [j \in 1 .. k |-> body[j]]
  BY <1>1
<1>3. SubSeq(s, i, i + k - 1) = [j \in 1 .. k |-> s[i + j - 1]]
  OBVIOUS
<1>. QED
  BY <1>1, <1>2, <1>3 DEF body

\* The line of a chunk with data, the data, and the line break that follows.
WithData(s, e, size, break) ==
    /\ Len(s) <= e + size =>
         Body!Meaning[s] = Body!Yields(SubSeq(s, e + 1, Len(s)), "open")
    /\ e + size < Len(s) /\ Len(s) < e + size + break =>
         Body!Meaning[s] = Body!Yields(SubSeq(s, e + 1, e + size), "open")
    /\ e + size + break <= Len(s) /\ s[e + size + break] # Body!LF =>
         Body!Meaning[s] = Body!Yields(SubSeq(s, e + 1, e + size), "malformed")
    /\ e + size + break <= Len(s) /\ s[e + size + break] = Body!LF =>
         Body!Meaning[s] =
           Body!Yields(SubSeq(s, e + 1, e + size) \o Body!Meaning[SubSeq(s, e + size + break + 1, Len(s))].data,
                       Body!Meaning[SubSeq(s, e + size + break + 1, Len(s))].outcome)

\* The reference reads such a line so.
LEMMA LineWithData ==
  ASSUME NEW s \in Seq(Bytes), NEW e, LineOf(s, e), NEW size, size = SizeOf(s, e), size > 0,
         NEW break, break = IF s[e + size + 1] = Body!CR THEN 2 ELSE 1
  PROVE  size \in Nat /\ WithData(s, e, size, break)
<1>. DEFINE body  == Body!From(s, e + 1)
            after == Body!From(body, size + 1)
            cut   == IF after[1] = Body!CR THEN 2 ELSE 1
            next  == Body!From(after, cut + 1)
            rest  == Body!Meaning[next]
            meant == Body!Meaning[s]
            data  == SubSeq(s, e + 1, e + size)
            tail  == SubSeq(s, e + size + break + 1, Len(s))
<1>1. /\ Body!FirstOf(s, Body!LF) = e /\ size \in Nat /\ e \in 1 .. Len(s) /\ e <= MaxLine
      /\ MaxLine \in Nat /\ Len(s) \in Nat /\ e \in Nat /\ break \in {1, 2}
  BY LineEnd, BodyAssumption DEF LineOf, Sizes, Body!NoSize
<1>2. meant = Meant(s, Body!Meaning)
  BY MeaningUnfolds
<1>3. meant =
         IF Len(body) <= size THEN Body!Yields(body, "open")
         ELSE IF cut > Len(after) THEN Body!Yields(SubSeq(body, 1, size), "open")
         ELSE IF after[cut] # Body!LF THEN Body!Yields(SubSeq(body, 1, size), "malformed")
         ELSE Body!Yields(SubSeq(body, 1, size) \o rest.data, rest.outcome)
  BY <1>1, <1>2 DEF Meant, SizeOf, Body!NoSize
<1>4. Len(body) = Len(s) - e /\ body = SubSeq(s, e + 1, Len(s))
  <2>1. e + 1 \in 1 .. Len(s) + 1 /\ Len(s) + 1 - (e + 1) = Len(s) - e
    BY <1>1
  <2>. QED
    BY <2>1, FromIs DEF Body!From
<1>5. Len(s) <= e + size => meant = Body!Yields(SubSeq(s, e + 1, Len(s)), "open")
  <2>. HIDE DEF meant, body, after, cut, rest
  <2>. QED
    BY <1>1, <1>3, <1>4
<1>6. ASSUME e + size < Len(s)
      PROVE  meant = IF e + size + break > Len(s) THEN Body!Yields(data, "open")
                     ELSE IF s[e + size + break] # Body!LF THEN Body!Yields(data, "malformed")
                     ELSE Body!Yields(data \o Body!Meaning[tail].data, Body!Meaning[tail].outcome)
  <2>1. SubSeq(body, 1, size) = data
    <3>1. e + 1 \in 1 .. Len(s) + 1 /\ size \in 1 .. Len(s) + 1 - (e + 1) /\ (e + 1) + size - 1 = e + size
      BY <1>1, <1>6
    <3>. QED
      BY <3>1, PartOfFrom
  <2>2. after = Body!From(s, e + size + 1)
    <3>1. /\ e + 1 \in 1 .. Len(s) + 1 /\ size + 1 \in 1 .. Len(s) + 2 - (e + 1)
          /\ (e + 1) + (size + 1) - 1 = e + size + 1
      BY <1>1, <1>6
    <3>. QED
      BY <3>1, FromFrom
  <2>. DEFINE at == e + size + 1
  <2>3. at \in 1 .. Len(s) /\ at \in 1 .. Len(s) + 1 /\ at \in Nat
    BY <1>1, <1>6
  <2>. HIDE DEF body, after, at, data
  <2>4. Len(after) = Len(s) + 1 - at /\ \A j \in 1 .. Len(s) + 1 - at : after[j] = s[at + j - 1]
    BY <2>2, <2>3, FromIs DEF at
  <2>5. after[1] = s[at] /\ (Len(s) + 1 - at >= 2 => after[2] = s[at + 1])
    <3>1. 1 \in 1 .. Len(s) + 1 - at /\ (Len(s) + 1 - at >= 2 => 2 \in 1 .. Len(s) + 1 - at)
      BY <1>1, <2>3
    <3>2. at + 1 - 1 = at /\ at + 2 - 1 = at + 1
      BY <2>3
    <3>. QED
      BY <2>4, <3>1, <3>2
  <2>6. cut = break
    BY <2>5 DEF at
  <2>7. e + size + break = at + break - 1 /\ e + size + break + 1 = at + break
    BY <1>1 DEF at
  <2>8. cut > Len(after) <=> e + size + break > Len(s)
    <3>1. Len(after) = Len(s) + 1 - at
      BY <2>4
    <3>2. cut = break /\ break \in Nat /\ e + size + break = at + break - 1
      BY <1>1, <2>6, <2>7
    <3>. HIDE DEF cut
    <3>. QED
      BY <1>1, <2>3, <3>1, <3>2
  <2>9. ASSUME ~(cut > Len(after))
        PROVE  after[cut] = s[e + size + break] /\ next = tail
    <3>1. break <= Len(s) + 1 - at
      BY <2>4, <2>6, <2>9
    <3>2. after[cut] = s[e + size + break]
      <4>1. CASE break = 1
        BY <2>3, <2>5, <2>6, <2>7, <4>1
      <4>2. CASE break = 2
        BY <2>3, <2>5, <2>6, <2>7, <3>1, <4>2
      <4>. QED
        BY <1>1, <4>1, <4>2
    <3>3. break + 1 \in 1 .. Len(s) + 2 - at /\ at + (break + 1) - 1 = at + break
      BY <1>1, <2>3, <3>1
    <3>4. next = Body!From(s, at + break)
      BY <2>2, <2>3, <2>6, <3>3, FromFrom DEF at
    <3>. QED
      BY <2>7, <3>2, <3>4 DEF Body!From
  <2>10. ~(Len(body) <= size)
    BY <1>1, <1>4, <1>6
  <2>. HIDE DEF cut, next, meant, tail
  <2>. QED
    BY <1>3, <2>1, <2>8, <2>9, <2>10
<1>. HIDE DEF meant, data, tail
<1>. QED
  BY <1>1, <1>5, <1>6 DEF WithData, meant, data, tail

-----------------------------------------------------------------------------
(* The decoder.                                                            *)

\* p is the beginning of a body, all of it whole chunks, with the data d.
Settled(p, d) ==
    \A t \in Seq(Bytes) : Body!Meaning[t].data \in Seq(Bytes) =>
       /\ Body!Meaning[p \o t].data = d \o Body!Meaning[t].data
       /\ Body!Meaning[p \o t].outcome = Body!Meaning[t].outcome

\* q begins with a line that announces data; e is its end.
ChunkLine(q, e) == LineOf(q, e) /\ SizeOf(q, e) > 0

\* The places of the decoder, one for each state.  What was read since the last whole
\* chunk is q; d is what the whole chunks gave.  Within the size line, m_Line is q.
InSize(q, d) ==
    /\ ~bodyFailed /\ state = "size" /\ bodyFed = d
    /\ q = line /\ Len(q) <= MaxLine /\ \A i \in 1 .. Len(q) : q[i] # Body!LF

\* Within the data, m_Remaining is what is missing of it and the rest was fed.
InData(q, d) ==
    /\ ~bodyFailed /\ state = "data" /\ line = <<>>
    /\ \E e \in Nat : 
          /\ ChunkLine(q, e)
          /\ remaining = e + SizeOf(q, e) - Len(q) /\ remaining > 0
          /\ bodyFed = d \o SubSeq(q, e + 1, Len(q))

\* All of the data was fed, and the line break behind it is not whole yet.
Full(q, d, e) == ChunkLine(q, e) /\ bodyFed = d \o SubSeq(q, e + 1, e + SizeOf(q, e))

InCrlf(q, d) ==
    /\ ~bodyFailed /\ state = "dataCrlf" /\ line = <<>>
    /\ \E e \in Nat : Full(q, d, e) /\ Len(q) = e + SizeOf(q, e)

InLf(q, d) ==
    /\ ~bodyFailed /\ state = "dataLf" /\ line = <<>>
    /\ \E e \in Nat : Full(q, d, e) /\ Len(q) = e + SizeOf(q, e) + 1 /\ q[Len(q)] = Body!CR

\* The last chunk, and a body that was refused.
IsDone(q, d) ==
    /\ ~bodyFailed /\ state = "done" /\ bodyFed = d
    /\ LineOf(q, Len(q)) /\ SizeOf(q, Len(q)) = 0

IsRefused(q, d) ==
    /\ bodyFailed /\ state # "done"
    /\ \E b \in Seq(Bytes) : Body!Meaning[q] = Body!Yields(b, "malformed") /\ bodyFed = d \o b

Place(q, d) == 
    InSize(q, d) \/ InData(q, d) \/ InCrlf(q, d) \/ InLf(q, d) \/ IsDone(q, d) \/ IsRefused(q, d)

\* The inductive invariant: what was read is whole chunks, all of their data fed, and
\* the beginning of one more in which the decoder has its place.
BodyIInv ==
    /\ bodyWire \in Seq(Bytes) /\ read \in 0 .. Len(bodyWire) 
    /\ \E p, q, d \in Seq(Bytes) :
          SubSeq(bodyWire, 1, read) = p \o q /\ Settled(p, d) /\ Place(q, d)

-----------------------------------------------------------------------------
\* Three texts behind each other.
Regroups(s, t, u) == (s \o t) \o u = s \o (t \o u)

LEMMA Associative ==
  ASSUME NEW s \in Seq(Bytes), NEW t \in Seq(Bytes), NEW u \in Seq(Bytes)
  PROVE  Regroups(s, t, u)
BY ConcatAssociative DEF Regroups

\* A part of a text is a text.
LEMMA PartIs ==
  ASSUME NEW s \in Seq(Bytes), NEW i \in Nat \ {0}, NEW j \in 0 .. Len(s)
  PROVE  SubSeq(s, i, j) \in Seq(Bytes)
OBVIOUS

\* A text that goes on keeps its parts ...
LEMMA PartOfLonger ==
  ASSUME NEW s \in Seq(Bytes), NEW t \in Seq(Bytes), NEW i \in Nat \ {0}, NEW j \in Nat, j <= Len(s)
  PROVE  SubSeq(s \o t, i, j) = SubSeq(s, i, j)
<1>1. \A k \in 1 .. Len(s) : (s \o t)[k] = s[k]
  OBVIOUS
<1>2. SubSeq(s \o t, i, j) = [k \in 1 .. j - i + 1 |-> (s \o t)[i + k - 1]]
  OBVIOUS
<1>3. SubSeq(s, i, j) = [k \in 1 .. j - i + 1 |-> s[i + k - 1]]
  OBVIOUS
<1>4. \A k \in 1 .. j - i + 1 : i + k - 1 \in 1 .. Len(s)
  OBVIOUS
<1>. QED
  BY <1>1, <1>2, <1>3, <1>4

\* ... and its rest goes on with it.
LEMMA RestOfLonger ==
  ASSUME NEW s \in Seq(Bytes), NEW t \in Seq(Bytes), NEW i \in 1 .. Len(s) + 1
  PROVE  SubSeq(s \o t, i, Len(s \o t)) = SubSeq(s, i, Len(s)) \o t
<1>. DEFINE m == Len(s) + 1 - i
            left == SubSeq(s \o t, i, Len(s \o t))
            part == SubSeq(s, i, Len(s))
<1>1. Len(s \o t) = Len(s) + Len(t) /\ m \in Nat /\ Len(t) \in Nat /\ Len(s) \in Nat /\ s \o t \in Seq(Bytes)
  OBVIOUS
<1>2. left \in Seq(Bytes) /\ Len(left) = m + Len(t) /\ \A k \in 1 .. m + Len(t) : left[k] = (s \o t)[i + k - 1]
  BY <1>1
<1>3. part \in Seq(Bytes) /\ Len(part) = m /\ \A k \in 1 .. m : part[k] = s[i + k - 1]
  BY <1>1
<1>. HIDE DEF left, part
<1>4. /\ part \o t \in Seq(Bytes) /\ Len(part \o t) = m + Len(t)
      /\ \A k \in 1 .. m + Len(t) : (part \o t)[k] = IF k <= m THEN part[k] ELSE t[k - m]
  <2>1. /\ part \o t \in Seq(Bytes) /\ Len(part \o t) = Len(part) + Len(t)
        /\ \A k \in 1 .. Len(part) + Len(t) : (part \o t)[k] = IF k <= Len(part) THEN part[k] ELSE t[k - Len(part)]
    BY <1>3, ConcatProperties
  <2>. QED
    BY <1>3, <2>1
<1>5. ASSUME NEW k \in 1 .. m + Len(t) PROVE left[k] = (part \o t)[k]
  <2>1. (s \o t)[i + k - 1] = IF i + k - 1 <= Len(s) THEN s[i + k - 1] ELSE t[i + k - 1 - Len(s)]
    <3>1. i + k - 1 \in 1 .. Len(s) + Len(t)
      BY <1>1
    <3>. QED
      BY <3>1, ConcatProperties
  <2>2. i + k - 1 <= Len(s) <=> k <= m
    BY <1>1
  <2>3. i + k - 1 - Len(s) = k - m
    BY <1>1
  <2>4. k <= m => k \in 1 .. m
    BY <1>1
  <2>. QED
    BY <1>2, <1>3, <1>4, <2>1, <2>2, <2>3, <2>4
<1>6. left = part \o t
  BY <1>2, <1>4, <1>5, SeqEqual
<1>. QED
  BY <1>6 DEF left, part

\* A size line that has ended is not touched by what follows.
LEMMA LineStays ==
  ASSUME NEW s \in Seq(Bytes), NEW t \in Seq(Bytes), NEW e, LineOf(s, e)
  PROVE  LineOf(s \o t, e) /\ SizeOf(s \o t, e) = SizeOf(s, e)
<1>1. /\ Len(s \o t) = Len(s) + Len(t) /\ Len(t) \in Nat /\ Len(s) \in Nat /\ e \in 1 .. Len(s)
      /\ \A k \in 1 .. Len(s) : (s \o t)[k] = s[k]
  BY DEF LineOf
<1>2. SubSeq(s \o t, 1, e - 1) = SubSeq(s, 1, e - 1)
  BY <1>1, PartOfLonger
<1>3. \A k \in 1 .. Len(s \o t) : k < e => k \in 1 .. Len(s)
  BY <1>1
<1>. DEFINE w == s \o t
<1>4. e \in 1 .. Len(w) /\ w[e] = s[e] /\ \A k \in 1 .. Len(w) : k < e => w[k] = s[k]
  BY <1>1, <1>3
<1>. HIDE DEF w
<1>5. LineOf(w, e)
  <2>1. \A k \in 1 .. Len(w) : k < e => k \in 1 .. Len(s)
    BY <1>3 DEF w
  <2>. QED
    BY <1>4, <2>1 DEF LineOf
<1>. QED
  BY <1>2, <1>5 DEF SizeOf, w

\* What the reading of some more bytes comes to.
ReadsOn(w, r, m, p, q) ==
    /\ SubSeq(w, r + 1, r + m) \in Seq(Bytes) /\ Len(SubSeq(w, r + 1, r + m)) = m
    /\ SubSeq(w, 1, r + m) = p \o (q \o SubSeq(w, r + 1, r + m))
    /\ r + m \in 0 .. Len(w)

\* A read within the bytes received comes to that.
LEMMA MoreRead ==
  ASSUME NEW w \in Seq(Bytes), NEW r \in 0 .. Len(w), NEW m \in 0 .. Len(w) - r,
         NEW p \in Seq(Bytes), NEW q \in Seq(Bytes), SubSeq(w, 1, r) = p \o q
  PROVE  ReadsOn(w, r, m, p, q)
<1>1. SubSeq(w, r + 1, r + m) \in Seq(Bytes) /\ Len(SubSeq(w, r + 1, r + m)) = m /\ r + m \in 0 .. Len(w)
  OBVIOUS
<1>2. 1 \in 1 .. Len(w) + 1 /\ r \in 0 .. Len(w) /\ r + m \in r .. Len(w)
  OBVIOUS
<1>3. SubSeq(w, 1, r) \o SubSeq(w, r + 1, r + m) = SubSeq(w, 1, r + m)
  BY <1>2, ConcatAdjacentSubSeq
<1>4. (p \o q) \o SubSeq(w, r + 1, r + m) = p \o (q \o SubSeq(w, r + 1, r + m))
  <2>. DEFINE x == SubSeq(w, r + 1, r + m)
  <2>1. x \in Seq(Bytes)
    BY <1>1
  <2>. HIDE DEF x
  <2>2. Regroups(p, q, x)
    BY <2>1, Associative
  <2>. QED
    BY <2>2 DEF Regroups, x
<1>. QED
  BY <1>1, <1>3, <1>4 DEF ReadsOn

\* q is a chunk to the end of the line break that follows its data.
WholeChunk(q, e, size, break) ==
    /\ ChunkLine(q, e) /\ size = SizeOf(q, e)
    /\ break = IF q[e + size + 1] = Body!CR THEN 2 ELSE 1
    /\ Len(q) = e + size + break /\ q[Len(q)] = Body!LF

\* A whole chunk behind whole chunks.
LEMMA ChunkSettles ==
  ASSUME NEW p \in Seq(Bytes), NEW d \in Seq(Bytes), Settled(p, d),
         NEW q \in Seq(Bytes), NEW e, NEW size, NEW break, WholeChunk(q, e, size, break)
  PROVE  Settled(p \o q, d \o SubSeq(q, e + 1, e + size))
<1>. DEFINE b == SubSeq(q, e + 1, e + size)
<1>1. /\ size \in Nat /\ size > 0 /\ e \in Nat /\ e > 0 /\ break \in {1, 2} /\ Len(q) \in Nat
      /\ Len(q) = e + size + break
  <2>1. LineOf(q, e) /\ size > 0 /\ size = SizeOf(q, e) /\ break \in {1, 2} /\ Len(q) = e + size + break
    BY DEF WholeChunk, ChunkLine
  <2>2. size \in Sizes
    BY <2>1, LineEnd
  <2>3. size \in Nat
    BY <2>1, <2>2 DEF Sizes, Body!NoSize
  <2>4. e \in 1 .. Len(q) /\ Len(q) \in Nat
    BY <2>1 DEF LineOf
  <2>. QED
    BY <2>1, <2>3, <2>4
<1>2. b \in Seq(Bytes)
  <2>1. e + 1 \in Nat \ {0} /\ e + size \in 0 .. Len(q)
    BY <1>1
  <2>. QED
    BY <2>1, PartIs
<1>3. ASSUME NEW t \in Seq(Bytes), Body!Meaning[t].data \in Seq(Bytes)
      PROVE  /\ Body!Meaning[(p \o q) \o t].data = (d \o b) \o Body!Meaning[t].data
             /\ Body!Meaning[(p \o q) \o t].outcome = Body!Meaning[t].outcome
  <2>. DEFINE s == q \o t
  <2>1. s \in Seq(Bytes) /\ Len(s) >= Len(q) /\ Len(s) \in Nat /\ \A k \in 1 .. Len(q) : s[k] = q[k]
    OBVIOUS
  <2>2. LineOf(s, e) /\ SizeOf(s, e) = size
    BY LineStays DEF ChunkLine, WholeChunk
  <2>3. SubSeq(s, e + 1, e + size) = b
    <3>1. e + 1 \in Nat \ {0} /\ e + size \in Nat /\ e + size <= Len(q)
      BY <1>1
    <3>. QED
      BY <3>1, PartOfLonger
  <2>4. SubSeq(s, e + size + break + 1, Len(s)) = t
    <3>1. Len(q) + 1 \in 1 .. Len(q) + 1 /\ Len(q) + 1 = e + size + break + 1
      BY <1>1
    <3>2. SubSeq(s, Len(q) + 1, Len(s)) = SubSeq(q, Len(q) + 1, Len(q)) \o t
      BY <3>1, RestOfLonger
    <3>3. SubSeq(q, Len(q) + 1, Len(q)) = <<>>
      BY <1>1, SubSeqEmpty
    <3>. QED
      BY <3>1, <3>2, <3>3, ConcatEmptySeq
  <2>5. s[e + size + 1] = q[e + size + 1] /\ s[e + size + break] = Body!LF /\ e + size + break <= Len(s)
    <3>1. e + size + 1 \in 1 .. Len(q) /\ Len(q) \in 1 .. Len(q) /\ e + size + break = Len(q)
      BY <1>1
    <3>2. q[Len(q)] = Body!LF
      BY DEF WholeChunk
    <3>. QED
      BY <2>1, <3>1, <3>2
  <2>. HIDE DEF s, b
  <2>6. Body!Meaning[s] = Body!Yields(b \o Body!Meaning[t].data, Body!Meaning[t].outcome)
    <3>1. break = IF s[e + size + 1] = Body!CR THEN 2 ELSE 1
      BY <2>5 DEF WholeChunk
    <3>. HIDE DEF Settled
    <3>2. WithData(s, e, size, break)
      BY <1>1, <2>1, <2>2, <3>1, LineWithData
    <3>. QED
      BY <2>3, <2>4, <2>5, <3>2 DEF WithData
  <2>7. Body!Meaning[s].data = b \o Body!Meaning[t].data /\ Body!Meaning[s].outcome = Body!Meaning[t].outcome
    <3>. DEFINE yields == Body!Yields(b \o Body!Meaning[t].data, Body!Meaning[t].outcome)
    <3>1. yields.data = b \o Body!Meaning[t].data /\ yields.outcome = Body!Meaning[t].outcome
      BY YieldsIs
    <3>2. Body!Meaning[s] = yields
      BY <2>6
    <3>. HIDE DEF yields
    <3>. QED
      BY <3>1, <3>2
  <2>8. b \o Body!Meaning[t].data \in Seq(Bytes)
    BY <1>2, <1>3
  <2>9. /\ Body!Meaning[p \o s].data = d \o (b \o Body!Meaning[t].data)
        /\ Body!Meaning[p \o s].outcome = Body!Meaning[t].outcome
    BY <2>1, <2>7, <2>8 DEF Settled
  <2>10. (p \o q) \o t = p \o s
    <3>1. Regroups(p, q, t)
      BY Associative
    <3>. QED
      BY <3>1 DEF Regroups, s
  <2>11. (d \o b) \o Body!Meaning[t].data = d \o (b \o Body!Meaning[t].data)
    <3>1. Regroups(d, b, Body!Meaning[t].data)
      BY <1>2, <1>3, Associative
    <3>. QED
      BY <3>1 DEF Regroups
  <2>. QED
    BY <2>9, <2>10, <2>11
<1>. QED
  BY <1>3 DEF Settled

-----------------------------------------------------------------------------
(* The theorem.                                                            *)

\* What a place says of the reference: b is what q adds to the data, o the outcome.
Outcomes == {"open", "complete", "malformed"}

Tells(q, d, b, o) ==
    /\ Body!Meaning[q] = Body!Yields(b, o) /\ bodyFed = d \o b
    /\ bodyFailed <=> o = "malformed"
    /\ state = "done" <=> o = "complete"

\* In every place the reference reads q as the decoder does.
LEMMA PlaceIsMeant ==
  ASSUME NEW q \in Seq(Bytes), NEW d \in Seq(Bytes), Place(q, d)
  PROVE  \E b \in Seq(Bytes), o \in Outcomes : Tells(q, d, b, o)
<1>0. d \o <<>> = d /\ <<>> \in Seq(Bytes)
  BY ConcatEmptySeq
<1>1. CASE InSize(q, d)
  <2>1. Body!Meaning[q] = Body!Yields(<<>>, "open")
    BY <1>1, OpenLine DEF InSize
  <2>5. Tells(q, d, <<>>, "open")
    BY <1>0, <1>1, <2>1 DEF InSize, Tells
  <2>. QED
    BY <1>0, <2>5 DEF Outcomes
<1>2. ASSUME NEW e \in Nat, ChunkLine(q, e)
      PROVE  /\ SizeOf(q, e) \in Nat
             /\ \E break \in {1, 2} : 
                   break = (IF q[e + SizeOf(q, e) + 1] = Body!CR THEN 2 ELSE 1) /\ WithData(q, e, SizeOf(q, e), break)
  <2>. DEFINE break == IF q[e + SizeOf(q, e) + 1] = Body!CR THEN 2 ELSE 1
  <2>1. SizeOf(q, e) \in Nat /\ WithData(q, e, SizeOf(q, e), break)
    BY <1>2, LineWithData DEF ChunkLine
  <2>. QED
    BY <2>1
<1>3. CASE InData(q, d)
  <2>1. PICK e \in Nat : /\ ChunkLine(q, e)
                         /\ remaining = e + SizeOf(q, e) - Len(q) /\ remaining > 0
                         /\ bodyFed = d \o SubSeq(q, e + 1, Len(q))
    BY <1>3 DEF InData
  <2>2. SizeOf(q, e) \in Nat /\ \E break : WithData(q, e, SizeOf(q, e), break)
    BY <1>2, <2>1
  <2>3. Len(q) <= e + SizeOf(q, e) /\ SubSeq(q, e + 1, Len(q)) \in Seq(Bytes)
    BY <2>1, <2>2
  <2>4. Body!Meaning[q] = Body!Yields(SubSeq(q, e + 1, Len(q)), "open")
    BY <2>2, <2>3 DEF WithData
  <2>5. Tells(q, d, SubSeq(q, e + 1, Len(q)), "open")
    BY <1>3, <2>1, <2>3, <2>4 DEF InData, Tells
  <2>. QED
    BY <2>3, <2>5 DEF Outcomes
<1>4. CASE InCrlf(q, d)
  <2>1. PICK e \in Nat : Full(q, d, e) /\ Len(q) = e + SizeOf(q, e)
    BY <1>4 DEF InCrlf
  <2>2. SizeOf(q, e) \in Nat /\ \E break : WithData(q, e, SizeOf(q, e), break)
    BY <1>2, <2>1 DEF Full
  <2>3. Len(q) <= e + SizeOf(q, e) /\ SubSeq(q, e + 1, Len(q)) \in Seq(Bytes)
    BY <2>1, <2>2
  <2>4. Body!Meaning[q] = Body!Yields(SubSeq(q, e + 1, Len(q)), "open")
    BY <2>2, <2>3 DEF WithData
  <2>5. Tells(q, d, SubSeq(q, e + 1, Len(q)), "open")
    BY <1>4, <2>1, <2>3, <2>4 DEF InCrlf, Full, Tells
  <2>. QED
    BY <2>3, <2>5 DEF Outcomes
<1>5. CASE InLf(q, d)
  <2>1. PICK e \in Nat : Full(q, d, e) /\ Len(q) = e + SizeOf(q, e) + 1 /\ q[Len(q)] = Body!CR
    BY <1>5 DEF InLf
  <2>2. SizeOf(q, e) \in Nat /\ WithData(q, e, SizeOf(q, e), 2)
    <3>1. q[e + SizeOf(q, e) + 1] = Body!CR
      BY <2>1
    <3>. QED
      BY <1>2, <2>1, <3>1 DEF Full
  <2>3. e + SizeOf(q, e) < Len(q) /\ Len(q) < e + SizeOf(q, e) + 2 /\ SubSeq(q, e + 1, e + SizeOf(q, e)) \in Seq(Bytes)
    BY <2>1, <2>2
  <2>4. Body!Meaning[q] = Body!Yields(SubSeq(q, e + 1, e + SizeOf(q, e)), "open")
    BY <2>2, <2>3 DEF WithData
  <2>5. Tells(q, d, SubSeq(q, e + 1, e + SizeOf(q, e)), "open")
    BY <1>5, <2>1, <2>3, <2>4 DEF InLf, Full, Tells
  <2>. QED
    BY <2>3, <2>5 DEF Outcomes
<1>6. CASE IsDone(q, d)
  <2>1. Body!Meaning[q] = Body!Yields(<<>>, "complete")
    BY <1>6, LineWithoutData DEF IsDone
  <2>5. Tells(q, d, <<>>, "complete")
    BY <1>0, <1>6, <2>1 DEF IsDone, Tells
  <2>. QED
    BY <1>0, <2>5 DEF Outcomes
<1>7. CASE IsRefused(q, d)
  <2>1. PICK b \in Seq(Bytes) : Body!Meaning[q] = Body!Yields(b, "malformed") /\ bodyFed = d \o b
    BY <1>7 DEF IsRefused
  <2>2. Tells(q, d, b, "malformed")
    BY <1>7, <2>1 DEF IsRefused, Tells
  <2>. QED
    BY <2>2 DEF Outcomes
<1>. QED
  BY <1>1, <1>3, <1>4, <1>5, <1>6, <1>7 DEF Place

\* The invariant is strong enough.
LEMMA BodyIsDecoded == BodyIInv => DecodesBody
<1>. SUFFICES ASSUME BodyIInv PROVE DecodesBody
  OBVIOUS
<1>1. PICK p, q, d \in Seq(Bytes) : SubSeq(bodyWire, 1, read) = p \o q /\ Settled(p, d) /\ Place(q, d)
  BY DEF BodyIInv
<1>2. PICK b \in Seq(Bytes), o \in Outcomes : Tells(q, d, b, o)
  BY <1>1, PlaceIsMeant
<1>3. Body!Meaning[q].data = b /\ Body!Meaning[q].outcome = o
  BY <1>2, YieldsIs DEF Tells
<1>4. Body!Meaning[p \o q].data = d \o b /\ Body!Meaning[p \o q].outcome = o
  BY <1>1, <1>2, <1>3 DEF Settled
<1>. DEFINE meant == Body!Meaning[SubSeq(bodyWire, 1, read)]
<1>5. meant.data = d \o b /\ meant.outcome = o
  BY <1>1, <1>4
<1>. HIDE DEF meant
<1>6. /\ bodyFed = meant.data
      /\ bodyFailed <=> meant.outcome = "malformed"
      /\ state = "done" <=> meant.outcome = "complete"
  BY <1>2, <1>5 DEF Tells
<1>. QED
  BY <1>6 DEF DecodesBody, Body!DecodesBody, meant

\* The decoder begins in it.
LEMMA BodyStart == Body!Init => BodyIInv
<1>. SUFFICES ASSUME Body!Init PROVE BodyIInv
  OBVIOUS
<1>1. /\ bodyWire = <<>> /\ read = 0 /\ line = <<>> /\ state = "size" /\ bodyFailed = FALSE /\ bodyFed = <<>>
      /\ <<>> \in Seq(Bytes) /\ Len(<<>>) = 0 /\ MaxLine \in Nat
  BY BodyAssumption DEF Body!Init
<1>2. Settled(<<>>, <<>>)
  BY ConcatEmptySeq DEF Settled
<1>3. InSize(<<>>, <<>>)
  BY <1>1 DEF InSize
<1>4. SubSeq(bodyWire, 1, read) = <<>> \o <<>>
  BY <1>1, SubSeqEmpty, ConcatEmptySeq
<1>5. bodyWire \in Seq(Bytes) /\ read \in 0 .. Len(bodyWire)
  BY <1>1
<1>. HIDE DEF Settled
<1>6. Place(<<>>, <<>>)
  BY <1>3 DEF Place
<1>. QED
  BY <1>1, <1>2, <1>4, <1>5, <1>6 DEF BodyIInv

\* A step that consumes m bytes and leaves the decoder in a place of what it has read
\* since the last whole chunk.
LEMMA StaysInChunk ==
  ASSUME bodyWire \in Seq(Bytes), read \in 0 .. Len(bodyWire), NEW m \in 0 .. Len(bodyWire) - read,
         NEW x, x = SubSeq(bodyWire, read + 1, read + m),
         NEW p \in Seq(Bytes), NEW q \in Seq(Bytes), NEW d \in Seq(Bytes),
         SubSeq(bodyWire, 1, read) = p \o q, Settled(p, d),
         bodyWire' = bodyWire, read' = read + m, Place(q \o x, d)'
  PROVE  BodyIInv'
<1>1. x \in Seq(Bytes) /\ SubSeq(bodyWire, 1, read + m) = p \o (q \o x) /\ read + m \in 0 .. Len(bodyWire)
  <2>1. ReadsOn(bodyWire, read, m, p, q)
    BY MoreRead
  <2>. QED
    BY <2>1 DEF ReadsOn
<1>2. q \o x \in Seq(Bytes)
  BY <1>1
<1>. HIDE DEF Settled, Place
<1>3. bodyWire' \in Seq(Bytes) /\ (read \in 0 .. Len(bodyWire))' /\ SubSeq(bodyWire, 1, read)' = p \o (q \o x)
  BY <1>1
<1>. QED
  BY <1>2, <1>3 DEF BodyIInv

\* ... and one that completes a chunk.
LEMMA CompletesChunk ==
  ASSUME bodyWire \in Seq(Bytes), read + 1 \in 0 .. Len(bodyWire),
         NEW p \in Seq(Bytes), NEW d \in Seq(Bytes),
         SubSeq(bodyWire, 1, read + 1) = p, Settled(p, d),
         bodyWire' = bodyWire, read' = read + 1,
         ~bodyFailed', state' = "size", line' = <<>>, bodyFed' = d
  PROVE  BodyIInv'
<1>1. <<>> \in Seq(Bytes) /\ p = p \o <<>>
  BY ConcatEmptySeq
<1>. HIDE DEF Settled
<1>2. Place(<<>>, d)'
  BY BodyAssumption DEF Place, InSize
<1>. HIDE DEF Place
<1>3. SubSeq(bodyWire, 1, read)' = p \o <<>> /\ bodyWire' \in Seq(Bytes) /\ (read \in 0 .. Len(bodyWire))'
  BY <1>1
<1>. QED
  BY <1>1, <1>2, <1>3 DEF BodyIInv

\* One more byte.
LEMMA OneMore ==
  ASSUME NEW q \in Seq(Bytes), NEW c \in Bytes
  PROVE  /\ q \o <<c>> \in Seq(Bytes) /\ Len(q \o <<c>>) = Len(q) + 1 /\ q \o <<c>> = Append(q, c)
         /\ \A i \in 1 .. Len(q) : (q \o <<c>>)[i] = q[i]
         /\ (q \o <<c>>)[Len(q) + 1] = c
OBVIOUS

\* The steps that look at one byte, in a state where the loop runs.
LEMMA ByteStep ==
  ASSUME BodyIInv, read < Len(bodyWire),
         Body!SizeByte \/ Body!SizeTooLong \/ Body!SizeEnds \/ Body!Delimiter \/ Body!DelimiterLf
  PROVE  BodyIInv'
<1>0. PICK p \in Seq(Bytes), q \in Seq(Bytes), d \in Seq(Bytes) :
         SubSeq(bodyWire, 1, read) = p \o q /\ Settled(p, d) /\ Place(q, d)
  BY DEF BodyIInv
<1>1. /\ bodyWire \in Seq(Bytes) /\ read \in 0 .. Len(bodyWire) /\ Len(bodyWire) \in Nat /\ read \in Nat
      /\ MaxLine \in Nat /\ Len(q) \in Nat /\ 1 \in 0 .. Len(bodyWire) - read
  BY BodyAssumption DEF BodyIInv
<1>2. PICK c \in Bytes : c = bodyWire[read + 1] /\ <<c>> = SubSeq(bodyWire, read + 1, read + 1)
  BY <1>1
<1>. DEFINE more == q \o <<c>>
<1>3. /\ more \in Seq(Bytes) /\ Len(more) = Len(q) + 1 /\ more = Append(q, c)
      /\ \A i \in 1 .. Len(q) : more[i] = q[i]
      /\ more[Len(q) + 1] = c
  BY OneMore
<1>. HIDE DEF Settled
<1>4. bodyWire' = bodyWire /\ read' = read + 1 /\ ~bodyFailed
  BY DEF Body!SizeByte, Body!SizeTooLong, Body!SizeEnds, Body!Delimiter, Body!DelimiterLf, Body!Looping
\* The byte does not complete a chunk ...
<1>5. ASSUME Place(more, d)' PROVE BodyIInv'
  <2>. HIDE DEF Place
  <2>. QED
    BY <1>0, <1>1, <1>2, <1>4, <1>5, StaysInChunk
\* ... or it does, with the data b.
<1>6. ASSUME NEW b \in Seq(Bytes), Settled(p \o more, d \o b),
             ~bodyFailed', state' = "size", line' = <<>>, bodyFed' = d \o b
      PROVE  BodyIInv'
  <2>1. ReadsOn(bodyWire, read, 1, p, q)
    BY <1>0, <1>1, MoreRead
  <2>2. SubSeq(bodyWire, 1, read + 1) = p \o more /\ read + 1 \in 0 .. Len(bodyWire)
    BY <1>2, <2>1 DEF ReadsOn
  <2>3. p \o more \in Seq(Bytes) /\ d \o b \in Seq(Bytes)
    BY <1>3, <1>6
  <2>. HIDE DEF more
  <2>. QED
    BY <1>1, <1>4, <1>6, <2>2, <2>3, CompletesChunk
\* ... or the body is refused for it.
<1>7. ASSUME NEW b \in Seq(Bytes), Body!Meaning[more] = Body!Yields(b, "malformed"),
             bodyFailed', state' = state, state # "done", bodyFed' = d \o b
      PROVE  BodyIInv'
  <2>1. IsRefused(more, d)'
    BY <1>7 DEF IsRefused
  <2>. QED
    BY <1>5, <2>1 DEF Place
<1>. HIDE DEF more
<1>8. d \o <<>> = d /\ <<>> \in Seq(Bytes)
  BY ConcatEmptySeq
<1>11. CASE Body!SizeByte \/ Body!SizeTooLong \/ Body!SizeEnds
  <2>1. q = line /\ Len(q) <= MaxLine /\ (\A i \in 1 .. Len(q) : q[i] # Body!LF) /\ bodyFed = d /\ state = "size"
    BY <1>0, <1>4, <1>11 DEF Place, InSize, InData, InCrlf, InLf, IsDone, IsRefused,
       Body!SizeByte, Body!SizeTooLong, Body!SizeEnds, Body!Looping
  <2>2. CASE Body!SizeByte
    <3>1. InSize(more, d)'
      BY <1>1, <1>2, <1>3, <2>1, <2>2 DEF InSize, Body!SizeByte, Body!Looping, Body!Byte
    <3>. QED
      BY <1>5, <3>1 DEF Place
  <2>3. CASE Body!SizeTooLong
    <3>1. Len(q) = MaxLine
      BY <1>1, <2>1, <2>3 DEF Body!SizeTooLong
    <3>2. Body!Meaning[more] = Body!Yields(<<>>, "malformed")
      <4>1. Len(more) = MaxLine + 1 /\ \A i \in 1 .. MaxLine : more[i] # Body!LF
        BY <1>3, <2>1, <3>1
      <4>. QED
        BY <1>3, <4>1, LongLine
    <3>. QED
      BY <1>7, <1>8, <2>1, <2>3, <3>2 DEF Body!SizeTooLong, Body!Fail
  <2>4. CASE Body!SizeEnds
    <3>. DEFINE e == Len(more)
                size == Body!ParseChunkSize(Body!Trimmed(line))
    <3>1. c = Body!LF /\ Len(q) < MaxLine
      BY <1>2, <2>1, <2>4 DEF Body!SizeEnds, Body!Byte
    <3>2. LineOf(more, e)
      BY <1>1, <1>3, <2>1, <3>1 DEF LineOf
    <3>3. SizeOf(more, e) = size /\ size \in Sizes
      <4>1. SubSeq(more, 1, e - 1) = line
        <5>1. e - 1 = Len(q) /\ SubSeq(q, 1, Len(q)) = q
          BY <1>1, <1>3
        <5>2. SubSeq(q \o <<c>>, 1, Len(q)) = SubSeq(q, 1, Len(q))
          BY <1>1, PartOfLonger
        <5>. QED
          BY <2>1, <5>1, <5>2 DEF more
      <4>2. Body!Trimmed(line) \in Seq(Bytes)
        BY <2>1, TrimmedType
      <4>. QED
        BY <4>1, <4>2, SizeIsMeant DEF SizeOf
    <3>. HIDE DEF size, e
    <3>4. /\ bodyFed' = bodyFed
          /\ IF size = Body!NoSize THEN bodyFailed' /\ state' = state
             ELSE /\ line' = <<>> /\ bodyFailed' = bodyFailed /\ remaining' = size
                  /\ state' = IF size = 0 THEN "done" ELSE "data"
      BY <2>4 DEF Body!SizeEnds, Body!Fail, Body!ChunkBegins, size
    <3>5. CASE size = Body!NoSize
      <4>1. Body!Meaning[more] = Body!Yields(<<>>, "malformed")
        BY <1>3, <3>2, <3>3, <3>5, LineWithoutData
      <4>. QED
        BY <1>7, <1>8, <2>1, <3>4, <3>5, <4>1
    <3>6. CASE size = 0
      <4>1. IsDone(more, d)'
        BY <1>4, <2>1, <3>2, <3>3, <3>4, <3>6 DEF IsDone, e, Body!NoSize
      <4>. QED
        BY <1>5, <4>1 DEF Place
    <3>7. CASE size \in Nat /\ size > 0
      <4>1. /\ ChunkLine(more, e) /\ e \in Nat /\ remaining' = e + SizeOf(more, e) - Len(more) /\ remaining' > 0
        BY <1>1, <1>3, <3>2, <3>3, <3>4, <3>7 DEF ChunkLine, e, Body!NoSize
      <4>2. d \o SubSeq(more, e + 1, Len(more)) = d
        <5>1. SubSeq(more, e + 1, Len(more)) = <<>>
          BY <1>1, <1>3, SubSeqEmpty DEF e
        <5>. QED
          BY <1>8, <5>1
      <4>3. ~bodyFailed' /\ state' = "data" /\ line' = <<>> /\ bodyFed' = d \o SubSeq(more, e + 1, Len(more))
        <5>1. size # Body!NoSize /\ size # 0
          BY <3>7 DEF Body!NoSize
        <5>2. line' = <<>> /\ bodyFailed' = bodyFailed /\ state' = "data" /\ bodyFed' = bodyFed
          BY <3>4, <5>1
        <5>. QED
          BY <1>4, <2>1, <4>2, <5>2
      <4>4. InData(more, d)'
        BY <4>1, <4>3 DEF InData
      <4>. QED
        BY <1>5, <4>4 DEF Place
    <3>. QED
      BY <3>3, <3>5, <3>6, <3>7 DEF Sizes
  <2>. QED
    BY <1>11, <2>2, <2>3, <2>4
<1>12. CASE Body!Delimiter
  <2>1. state = "dataCrlf" /\ line = <<>> /\ \E e \in Nat : Full(q, d, e) /\ Len(q) = e + SizeOf(q, e)
    BY <1>0, <1>4, <1>12 DEF Place, InSize, InData, InCrlf, InLf, IsDone, IsRefused, Body!Delimiter, Body!Looping
  <2>2. PICK e \in Nat : Full(q, d, e) /\ Len(q) = e + SizeOf(q, e)
    BY <2>1
  <2>. DEFINE size == SizeOf(q, e)
              b == SubSeq(q, e + 1, e + size)
  <2>3. /\ LineOf(q, e) /\ size > 0 /\ size \in Nat /\ bodyFed = d \o b /\ b \in Seq(Bytes)
        /\ e + size = Len(q)
    BY <2>2, LineEnd DEF Full, ChunkLine, Sizes, Body!NoSize
  <2>4. ChunkLine(more, e) /\ SizeOf(more, e) = size /\ SubSeq(more, e + 1, e + size) = b
    <3>1. <<c>> \in Seq(Bytes) /\ e \in Nat /\ e + 1 \in Nat \ {0} /\ e + size \in Nat /\ e + size <= Len(q)
      <4>1. size \in Nat /\ e + size = Len(q)
        BY <2>3
      <4>2. <<c>> \in Seq(Bytes)
        OBVIOUS
      <4>. HIDE DEF size
      <4>. QED
        BY <1>1, <4>1, <4>2
    <3>2. LineOf(more, e) /\ SizeOf(more, e) = size
      BY <2>3, <3>1, LineStays DEF more
    <3>3. SubSeq(more, e + 1, e + size) = b
      BY <3>1, PartOfLonger DEF more
    <3>. QED
      BY <2>3, <3>2, <3>3 DEF ChunkLine
  <2>5. more[e + size + 1] = c /\ Len(more) = e + size + 1
    BY <1>3, <2>3
  <2>6. bodyFed' = d \o b /\ line' = <<>>
    BY <1>12, <2>1, <2>3 DEF Body!Delimiter
  <2>. HIDE DEF size, b
  <2>7. CASE c = Body!CR
    <3>1. InLf(more, d)'
      <4>1. state' = "dataLf" /\ ~bodyFailed'
        BY <1>2, <1>4, <1>12, <2>7 DEF Body!Delimiter, Body!Byte, Body!CR, Body!LF
      <4>2. Full(more, d, e)'
        BY <2>4, <2>6 DEF Full
      <4>. QED
        BY <2>4, <2>5, <2>6, <2>7, <4>1, <4>2 DEF InLf
    <3>. QED
      BY <1>5, <3>1 DEF Place
  <2>8. CASE c = Body!LF
    <3>1. state' = "size" /\ ~bodyFailed'
      BY <1>2, <1>4, <1>12, <2>8 DEF Body!Delimiter, Body!Byte, Body!CR, Body!LF
    <3>2. Settled(p \o more, d \o b)
      <4>1. 1 = IF more[e + size + 1] = Body!CR THEN 2 ELSE 1
        BY <2>5, <2>8 DEF Body!CR, Body!LF
      <4>2. WholeChunk(more, e, size, 1)
        BY <2>4, <2>5, <2>8, <4>1 DEF WholeChunk
      <4>. QED
        BY <1>0, <1>3, <2>4, <4>2, ChunkSettles
    <3>. QED
      BY <1>6, <2>3, <2>6, <3>1, <3>2
  <2>9. CASE c \notin {Body!CR, Body!LF}
    <3>1. Body!Meaning[more] = Body!Yields(b, "malformed")
      <4>1. 1 = IF more[e + size + 1] = Body!CR THEN 2 ELSE 1
        BY <2>5, <2>9
      <4>2. WithData(more, e, size, 1)
        BY <1>3, <2>3, <2>4, <4>1, LineWithData DEF ChunkLine
      <4>. QED
        <5>1. e + size + 1 <= Len(more) /\ more[e + size + 1] # Body!LF
          BY <1>1, <1>3, <2>5, <2>9
        <5>. QED
          BY <2>4, <4>2, <5>1 DEF WithData
    <3>2. bodyFailed' /\ state' = state
      BY <1>2, <1>12, <2>9 DEF Body!Delimiter, Body!Byte, Body!Fail
    <3>. QED
      BY <1>7, <2>1, <2>3, <2>6, <3>1, <3>2
  <2>. QED
    BY <2>7, <2>8, <2>9
<1>13. CASE Body!DelimiterLf
  <2>1. state = "dataLf" /\ line = <<>>
        /\ \E e \in Nat : Full(q, d, e) /\ Len(q) = e + SizeOf(q, e) + 1 /\ q[Len(q)] = Body!CR
    BY <1>0, <1>4, <1>13 DEF Place, InSize, InData, InCrlf, InLf, IsDone, IsRefused, Body!DelimiterLf, Body!Looping
  <2>2. PICK e \in Nat : Full(q, d, e) /\ Len(q) = e + SizeOf(q, e) + 1 /\ q[Len(q)] = Body!CR
    BY <2>1
  <2>. DEFINE size == SizeOf(q, e)
              b == SubSeq(q, e + 1, e + size)
  <2>3. /\ LineOf(q, e) /\ size > 0 /\ size \in Nat /\ bodyFed = d \o b /\ b \in Seq(Bytes)
        /\ e + size + 1 = Len(q)
    BY <2>2, LineEnd DEF Full, ChunkLine, Sizes, Body!NoSize
  <2>4. ChunkLine(more, e) /\ SizeOf(more, e) = size /\ SubSeq(more, e + 1, e + size) = b
    <3>1. <<c>> \in Seq(Bytes) /\ e \in Nat /\ e + 1 \in Nat \ {0} /\ e + size \in Nat /\ e + size <= Len(q)
      <4>1. size \in Nat /\ e + size + 1 = Len(q)
        BY <2>3
      <4>2. <<c>> \in Seq(Bytes)
        OBVIOUS
      <4>. HIDE DEF size
      <4>. QED
        BY <1>1, <4>1, <4>2
    <3>2. LineOf(more, e) /\ SizeOf(more, e) = size
      BY <2>3, <3>1, LineStays DEF more
    <3>3. SubSeq(more, e + 1, e + size) = b
      BY <3>1, PartOfLonger DEF more
    <3>. QED
      BY <2>3, <3>2, <3>3 DEF ChunkLine
  <2>5. more[e + size + 1] = Body!CR /\ more[e + size + 2] = c /\ Len(more) = e + size + 2
    <3>0. e \in Nat
      OBVIOUS
    <3>. HIDE DEF size, b
    <3>1. Len(q) \in 1 .. Len(q) /\ Len(q) + 1 = e + size + 2
      <4>1. size \in Nat /\ e + size + 1 = Len(q)
        BY <2>3
      <4>. QED
        BY <1>1, <3>0, <4>1
    <3>. QED
      BY <1>3, <2>2, <2>3, <3>1
  <2>6. bodyFed' = d \o b /\ line' = <<>>
    BY <1>13, <2>1, <2>3 DEF Body!DelimiterLf
  <2>7. 2 = IF more[e + size + 1] = Body!CR THEN 2 ELSE 1
    BY <2>5
  <2>. HIDE DEF size, b
  <2>8. CASE c = Body!LF
    <3>1. state' = "size" /\ ~bodyFailed'
      BY <1>2, <1>4, <1>13, <2>8 DEF Body!DelimiterLf, Body!Byte
    <3>2. Settled(p \o more, d \o b)
      <4>1. WholeChunk(more, e, size, 2)
        BY <2>4, <2>5, <2>7, <2>8 DEF WholeChunk
      <4>. QED
        BY <1>0, <1>3, <2>4, <4>1, ChunkSettles
    <3>. QED
      BY <1>6, <2>3, <2>6, <3>1, <3>2
  <2>9. CASE c # Body!LF
    <3>1. Body!Meaning[more] = Body!Yields(b, "malformed")
      <4>1. WithData(more, e, size, 2)
        BY <1>3, <2>3, <2>4, <2>7, LineWithData DEF ChunkLine
      <4>. QED
        <5>1. e + size + 2 <= Len(more) /\ more[e + size + 2] # Body!LF
          BY <1>1, <1>3, <2>5, <2>9
        <5>. QED
          BY <2>4, <4>1, <5>1 DEF WithData
    <3>2. bodyFailed' /\ state' = state
      BY <1>2, <1>13, <2>9 DEF Body!DelimiterLf, Body!Byte, Body!Fail
    <3>. QED
      BY <1>7, <2>1, <2>3, <2>6, <3>1, <3>2
  <2>. QED
    BY <2>8, <2>9
<1>. QED
  BY <1>11, <1>12, <1>13

\* Every step keeps it.
LEMMA BodyStep == BodyIInv /\ [Body!Next]_(Body!vars) => BodyIInv'
<1>. SUFFICES ASSUME BodyIInv, [Body!Next]_(Body!vars) PROVE BodyIInv'
  OBVIOUS
<1>0. PICK p \in Seq(Bytes), q \in Seq(Bytes), d \in Seq(Bytes) :
         SubSeq(bodyWire, 1, read) = p \o q /\ Settled(p, d) /\ Place(q, d)
  BY DEF BodyIInv
<1>1. /\ bodyWire \in Seq(Bytes) /\ read \in 0 .. Len(bodyWire) /\ Len(bodyWire) \in Nat /\ read \in Nat
      /\ Len(q) \in Nat
  BY DEF BodyIInv
<1>. HIDE DEF Settled
<1>11. CASE UNCHANGED Body!vars
  <2>1. UNCHANGED <<bodyWire, read, line, remaining, state, bodyFailed, bodyFed>>
    BY <1>11 DEF Body!vars
  <2>2. Place(q, d)'
    BY <1>0, <2>1 DEF Place, InSize, InData, InCrlf, InLf, IsDone, IsRefused, Full
  <2>. HIDE DEF Place
  <2>. QED
    BY <1>0, <1>1, <2>1, <2>2 DEF BodyIInv
<1>12. CASE Body!Receive
  <2>1. PICK n \in 1 .. BodyMaxRead : \E segment \in [1 .. n -> Bytes] : bodyWire' = bodyWire \o segment
    BY <1>12 DEF Body!Receive
  <2>2. PICK segment \in Seq(Bytes) : bodyWire' = bodyWire \o segment
    <3>1. n \in Nat /\ \A segment \in [1 .. n -> Bytes] : segment \in Seq(Bytes)
      OBVIOUS
    <3>. QED
      BY <2>1, <3>1
  <2>3. /\ bodyWire' \in Seq(Bytes) /\ read \in 0 .. Len(bodyWire')
        /\ SubSeq(bodyWire', 1, read) = SubSeq(bodyWire, 1, read)
    BY <1>1, <2>2, PartOfLonger
  <2>4. UNCHANGED <<read, line, remaining, state, bodyFailed, bodyFed>>
    BY <1>12 DEF Body!Receive
  <2>5. Place(q, d)'
    BY <1>0, <2>4 DEF Place, InSize, InData, InCrlf, InLf, IsDone, IsRefused, Full
  <2>. HIDE DEF Place
  <2>. QED
    BY <1>0, <2>3, <2>4, <2>5 DEF BodyIInv
<1>13. CASE Body!Data
  <2>1. PICK e \in Nat : /\ ChunkLine(q, e)
                         /\ remaining = e + SizeOf(q, e) - Len(q) /\ remaining > 0
                         /\ bodyFed = d \o SubSeq(q, e + 1, Len(q))
    BY <1>0, <1>13 DEF Place, InSize, InData, InCrlf, InLf, IsDone, IsRefused, Body!Data, Body!Looping
  <2>2. line = <<>>
    BY <1>0, <1>13 DEF Place, InSize, InData, InCrlf, InLf, IsDone, IsRefused, Body!Data, Body!Looping
  <2>3. LineOf(q, e) /\ SizeOf(q, e) \in Nat /\ SizeOf(q, e) > 0 /\ e \in 1 .. Len(q)
    <3>1. LineOf(q, e) /\ SizeOf(q, e) > 0
      BY <2>1 DEF ChunkLine
    <3>2. SizeOf(q, e) \in Sizes
      BY <3>1, LineEnd
    <3>3. e \in 1 .. Len(q)
      BY <3>1 DEF LineOf
    <3>. QED
      BY <3>1, <3>2, <3>3 DEF Sizes, Body!NoSize
  <2>4. PICK m : m = Body!Block(Len(bodyWire) - read)
    OBVIOUS
  <2>5. /\ m \in 0 .. Len(bodyWire) - read /\ m > 0 /\ m <= remaining /\ remaining \in Nat
    <3>1. read < Len(bodyWire)
      BY <1>13 DEF Body!Data, Body!Looping
    <3>2. remaining \in Nat
      <4>. DEFINE size == SizeOf(q, e)
      <4>1. size \in Nat /\ remaining = e + size - Len(q) /\ remaining > 0
        BY <2>1, <2>3
      <4>. HIDE DEF size
      <4>. QED
        BY <1>1, <4>1
    <3>3. m = IF remaining < Len(bodyWire) - read THEN remaining ELSE Len(bodyWire) - read
      BY <2>4 DEF Body!Block
    <3>. QED
      BY <1>1, <2>1, <3>1, <3>2, <3>3
  <2>6. PICK x : x = SubSeq(bodyWire, read + 1, read + m)
    OBVIOUS
  <2>7. x \in Seq(Bytes) /\ Len(x) = m
    <3>1. ReadsOn(bodyWire, read, m, p, q)
      BY <1>0, <1>1, <2>5, MoreRead
    <3>. QED
      BY <2>6, <3>1 DEF ReadsOn
  <2>8. /\ bodyWire' = bodyWire /\ read' = read + m /\ line' = <<>> /\ bodyFailed' = bodyFailed /\ ~bodyFailed
        /\ bodyFed' = bodyFed \o x /\ remaining' = remaining - m
        /\ state' = IF remaining - m = 0 THEN "dataCrlf" ELSE "data"
    BY <1>13, <2>2, <2>4, <2>6 DEF Body!Data, Body!Looping
  <2>. DEFINE more == q \o x
              size == SizeOf(q, e)
  <2>9. more \in Seq(Bytes) /\ Len(more) = Len(q) + m
    BY <1>1, <2>5, <2>7, ConcatProperties
  <2>10. ChunkLine(more, e) /\ SizeOf(more, e) = size
    BY <2>3, <2>7, LineStays DEF ChunkLine
  <2>11. bodyFed' = d \o SubSeq(more, e + 1, Len(more))
    <3>. DEFINE b == SubSeq(q, e + 1, Len(q))
    <3>1. b \in Seq(Bytes)
      BY <1>1, <2>3
    <3>2. SubSeq(more, e + 1, Len(more)) = b \o x
      <4>1. e + 1 \in 1 .. Len(q) + 1
        BY <1>1, <2>3
      <4>. QED
        BY <2>7, <4>1, RestOfLonger
    <3>3. (d \o b) \o x = d \o (b \o x)
      <4>1. Regroups(d, b, x)
        BY <2>7, <3>1, Associative
      <4>. QED
        BY <4>1 DEF Regroups
    <3>. QED
      BY <2>1, <2>8, <3>2, <3>3
  <2>. HIDE DEF more, size
  <2>12. remaining - m = e + size - Len(more)
    <3>1. size \in Nat /\ remaining = e + size - Len(q)
      BY <2>1, <2>3 DEF size
    <3>. QED
      BY <1>1, <2>5, <2>9, <3>1
  <2>13. CASE remaining - m = 0
    <3>1. Len(more) = e + size
      <4>1. size \in Nat
        BY <2>3 DEF size
      <4>. QED
        BY <1>1, <2>5, <2>9, <2>12, <2>13, <4>1
    <3>2. InCrlf(more, d)'
      <4>1. Full(more, d, e)'
        BY <2>10, <2>11, <3>1 DEF Full
      <4>. QED
        BY <2>8, <2>10, <2>13, <3>1, <4>1 DEF InCrlf
    <3>3. Place(q \o x, d)'
      BY <3>2 DEF Place, more
    <3>. HIDE DEF Place
    <3>. QED
      BY <1>0, <1>1, <2>5, <2>6, <2>8, <3>3, StaysInChunk
  <2>14. CASE remaining - m # 0
    <3>1. remaining' = e + SizeOf(more, e) - Len(more) /\ remaining' > 0
      BY <2>5, <2>8, <2>10, <2>12, <2>14
    <3>2. InData(more, d)'
      BY <2>8, <2>10, <2>11, <2>14, <3>1 DEF InData
    <3>3. Place(q \o x, d)'
      BY <3>2 DEF Place, more
    <3>. HIDE DEF Place
    <3>. QED
      BY <1>0, <1>1, <2>5, <2>6, <2>8, <3>3, StaysInChunk
  <2>. QED
    BY <2>13, <2>14
<1>14. CASE Body!SizeByte \/ Body!SizeTooLong \/ Body!SizeEnds \/ Body!Delimiter \/ Body!DelimiterLf
  <2>1. read < Len(bodyWire)
    BY <1>14 DEF Body!SizeByte, Body!SizeTooLong, Body!SizeEnds, Body!Delimiter, Body!DelimiterLf, Body!Looping
  <2>. QED
    BY <1>14, <2>1, ByteStep
<1>. QED
  BY <1>11, <1>12, <1>13, <1>14 DEF Body!Next

\* After every step of SSEDM_FeedChunkedBody, the parser was given exactly the data of
\* the chunks read so far, the body was refused if it is malformed, and it has ended if
\* its last chunk was read: wherever the reads of the socket end.
THEOREM BodiesAreDecoded == Body!Spec => []DecodesBody
BY BodyStart, BodyStep, BodyIsDecoded, PTL DEF Body!Spec

=============================================================================
