----------------------------- MODULE ChatProofs -----------------------------
(***************************************************************************)
(* Theorems about the chat: the limiter that lets a message pass, the      *)
(* broadcast to the pages of a room, the log the messages end in and the   *)
(* completion of the words.  The four share no state.                      *)
(***************************************************************************)
EXTENDS TokenBucket, RoomBroadcast, ChatBatch, T9Predict,
        SequenceTheorems, FiniteSetTheorems, WellFoundedInduction, TLAPS

(***************************************************************************)
(* The token bucket, for any callers, rate and capacity: it stays between  *)
(* 0 and its capacity, every token is either in it or was granted, and no  *)
(* time is paid for twice.                                                 *)
(***************************************************************************)
\* A call past the first swap has a token to take.
TakersFindOne == \A c \in Callers : at[c] = "swap tokens" => Filled(c) >= 1

BucketInv == TypeOK /\ TakersFindOne

(***************************************************************************)
(* What a refill brings is a natural number: the elapsed time is cut to 0  *)
(* when the clock was read before the last refill (limiter.go:34-40).      *)
(***************************************************************************)
LEMMA RefillIsNat ==
  ASSUME TypeOK, NEW c \in Callers
  PROVE  Refill(c) \in Nat
<1>1. now[c] \in Nat /\ seenTime[c] \in Nat
  BY BucketAssumption DEF TypeOK
<1> DEFINE elapsed == IF now[c] < seenTime[c] THEN 0 ELSE now[c] - seenTime[c]
<1>2. elapsed \in Nat
  BY <1>1
<1> HIDE DEF elapsed
<1>3. Rate \in Nat /\ Second \in Nat /\ Second > 0
  BY BucketAssumption
<1>4. elapsed * Rate \in Nat
  BY <1>2, <1>3
<1>5. ASSUME NEW n \in Nat PROVE n \div Second \in Nat
  BY <1>3
<1>6. (elapsed * Rate) \div Second \in Nat
  BY <1>4, <1>5
<1> QED
  BY <1>6 DEF Refill, elapsed

(***************************************************************************)
(* newTokens stays within the capacity and is never less than what was     *)
(* loaded (limiter.go:41-44).                                              *)
(***************************************************************************)
LEMMA FilledWithinCapacity ==
  ASSUME TypeOK, NEW c \in Callers
  PROVE  /\ Filled(c) \in seenTokens[c] .. Capacity
         /\ seenTokens[c] \in 0 .. Capacity
<1>1. Refill(c) \in Nat
  BY RefillIsNat
<1>2. seenTokens[c] \in 0 .. Capacity /\ Capacity \in Nat
  BY BucketAssumption DEF TypeOK
<1> QED
  BY <1>1, <1>2 DEF Filled
-----------------------------------------------------------------------------
LEMMA InitTyped == Init => BucketInv
<1> SUFFICES ASSUME Init PROVE BucketInv
  OBVIOUS
<1>1. TypeOK
  <2>1. rewound \in BOOLEAN /\ at \in [Callers -> Steps]
    BY DEF Init, Steps
  <2>2. clock \in 0 .. MaxTime /\ tokens \in 0 .. Capacity /\ lastRefill \in 0 .. clock
    BY BucketAssumption DEF Init
  <2>3. /\ now \in [Callers -> 0 .. clock] /\ seenTime \in [Callers -> 0 .. clock]
        /\ seenTokens \in [Callers -> 0 .. Capacity]
    BY BucketAssumption DEF Init
  <2> QED BY <2>1, <2>2, <2>3 DEF Init, TypeOK
<1>2. TakersFindOne
  BY DEF Init, TakersFindOne
<1> QED
  BY <1>1, <1>2 DEF BucketInv

(***************************************************************************)
(* Every read of the clock, load and swap of every caller keeps the types, *)
(* and a caller between its two swaps keeps the values that made it pass   *)
(* the test newTokens < 1 (limiter.go:27-60).                              *)
(***************************************************************************)
LEMMA StepTyped == BucketInv /\ [Next]_vars => BucketInv'
<1> SUFFICES ASSUME BucketInv, [Next]_vars PROVE BucketInv'
  OBVIOUS
<1> USE BucketAssumption DEF BucketInv, locals, bucket, tally
<1>1. CASE Elapse
  <2>1. TypeOK'
    <3>1. clock' \in 0 .. MaxTime /\ 0 .. clock \subseteq 0 .. clock'
      BY <1>1 DEF Elapse, TypeOK
    <3>2. /\ now' \in [Callers -> 0 .. clock'] /\ seenTime' \in [Callers -> 0 .. clock']
          /\ lastRefill' \in 0 .. clock'
      BY <1>1, <3>1 DEF Elapse, TypeOK
    <3> QED BY <1>1, <3>1, <3>2 DEF Elapse, TypeOK
  <2>2. TakersFindOne'
    BY <1>1 DEF Elapse, TakersFindOne, Filled, Refill
  <2> QED BY <2>1, <2>2
<1>2. ASSUME NEW c \in Callers, ReadClock(c) PROVE BucketInv'
  <2>1. TypeOK'
    <3>0. clock \in 0 .. clock
      BY DEF TypeOK
    <3>1. now' \in [Callers -> 0 .. clock]
      BY <1>2, <3>0, Zenon DEF ReadClock, TypeOK
    <3>2. at' \in [Callers -> Steps]
      BY <1>2 DEF ReadClock, Goes, TypeOK, Steps
    <3>3. rewound' \in BOOLEAN /\ granted' \in Nat /\ credited' \in Nat
      BY <1>2 DEF ReadClock, TypeOK
    <3>4. /\ clock' = clock /\ tokens' = tokens /\ lastRefill' = lastRefill
          /\ seenTime' = seenTime /\ seenTokens' = seenTokens
      BY <1>2 DEF ReadClock
    <3> QED BY <3>1, <3>2, <3>3, <3>4 DEF TypeOK
  <2>2. TakersFindOne'
    BY <1>2 DEF ReadClock, Goes, TypeOK, TakersFindOne, Filled, Refill
  <2> QED BY <2>1, <2>2
<1>3. ASSUME NEW c \in Callers, LoadTime(c) PROVE BucketInv'
  <2>1. TypeOK'
    BY <1>3 DEF LoadTime, Goes, TypeOK, Steps
  <2>2. TakersFindOne'
    BY <1>3 DEF LoadTime, Goes, TypeOK, TakersFindOne, Filled, Refill
  <2> QED BY <2>1, <2>2
<1>4. ASSUME NEW c \in Callers, LoadTokens(c) PROVE BucketInv'
  <2>1. TypeOK'
    BY <1>4 DEF LoadTokens, Goes, TypeOK, Steps
  <2>2. TakersFindOne'
    BY <1>4 DEF LoadTokens, Goes, TypeOK, TakersFindOne, Filled, Refill
  <2> QED BY <2>1, <2>2
<1>5. ASSUME NEW c \in Callers, Returns(c),
             UNCHANGED <<clock, lastRefill, rewound>>,
             tokens' \in 0 .. Capacity, granted' \in Nat, credited' \in Nat
      PROVE  BucketInv'
  <2>1. TypeOK'
    <3>1. at' \in [Callers -> Steps]
      BY <1>5 DEF Returns, Goes, TypeOK, Steps
    <3>2. /\ now' \in [Callers -> 0 .. clock] /\ seenTime' \in [Callers -> 0 .. clock]
          /\ seenTokens' \in [Callers -> 0 .. Capacity]
      BY <1>5 DEF Returns, TypeOK
    <3> QED BY <1>5, <3>1, <3>2 DEF TypeOK
  <2>2. TakersFindOne'
    BY <1>5 DEF Returns, Goes, TypeOK, TakersFindOne, Filled, Refill
  <2> QED BY <2>1, <2>2
<1>6. ASSUME NEW c \in Callers, Deny(c) PROVE BucketInv'
  BY <1>5, <1>6 DEF Deny, TypeOK
<1>7. ASSUME NEW c \in Callers, SwapTime(c) PROVE BucketInv'
  <2>1. TypeOK'
    <3>1. lastRefill' \in 0 .. clock /\ rewound' \in BOOLEAN
      BY <1>7 DEF SwapTime, TypeOK
    <3>2. at' \in [Callers -> Steps]
      BY <1>7 DEF SwapTime, Goes, TypeOK, Steps
    <3> QED BY <1>7, <3>1, <3>2 DEF SwapTime, TypeOK
  <2>2. TakersFindOne'
    <3>1. \A d \in Callers : Filled(d)' = Filled(d)
      BY <1>7 DEF SwapTime, Filled, Refill
    <3>2. \A d \in Callers : d # c => at'[d] = at[d]
      BY <1>7 DEF SwapTime, Goes, TypeOK
    <3> QED BY <1>7, <3>1, <3>2 DEF SwapTime, TakersFindOne
  <2> QED BY <2>1, <2>2
<1>8. ASSUME NEW c \in Callers, SwapTokens(c) PROVE BucketInv'
  <2>1. CASE tokens = seenTokens[c] /\ Take(c)
    <3>1. Filled(c) >= 1
      BY <1>8 DEF SwapTokens, TakersFindOne
    <3>2. Filled(c) \in seenTokens[c] .. Capacity /\ seenTokens[c] \in 0 .. Capacity
      BY FilledWithinCapacity
    <3>3. tokens' \in 0 .. Capacity /\ granted' \in Nat /\ credited' \in Nat
      BY <2>1, <3>1, <3>2 DEF Take, TypeOK
    <3> QED BY <1>5, <2>1, <3>3 DEF Take
  <2>2. CASE Goes(c, "again") /\ UNCHANGED <<clock, bucket, locals, tally>>
    <3>1. TypeOK'
      BY <2>2 DEF Goes, TypeOK, Steps
    <3>2. TakersFindOne'
      BY <2>2 DEF Goes, TypeOK, TakersFindOne, Filled, Refill
    <3> QED BY <3>1, <3>2
  <2> QED BY <1>8, <2>1, <2>2 DEF SwapTokens
<1>9. CASE UNCHANGED vars
  BY <1>9 DEF vars, TypeOK, TakersFindOne, Filled, Refill
<1> QED
  BY <1>1, <1>2, <1>3, <1>4, <1>6, <1>7, <1>8, <1>9 DEF Next, Allow

LEMMA AlwaysTyped == Spec => []BucketInv
  BY InitTyped, StepTyped, PTL DEF Spec

(***************************************************************************)
(* The bucket never holds more than its capacity nor less than nothing,    *)
(* and lastRefillTime is never ahead of the clock (limiter.go:27-60).      *)
(***************************************************************************)
THEOREM BucketTyped == Spec => []TypeOK
  BY AlwaysTyped, PTL DEF BucketInv
-----------------------------------------------------------------------------
LEMMA StepAccounted == BucketInv /\ TokensAccounted /\ [Next]_vars => TokensAccounted'
<1> SUFFICES ASSUME BucketInv, TokensAccounted, [Next]_vars PROVE TokensAccounted'
  OBVIOUS
<1>1. ASSUME UNCHANGED <<tokens, granted, credited>> PROVE TokensAccounted'
  BY <1>1 DEF TokensAccounted
<1>2. ASSUME NEW c \in Callers, Take(c), tokens = seenTokens[c]
      PROVE  TokensAccounted'
  <2>1. Filled(c) \in Int /\ tokens \in Int
    BY FilledWithinCapacity, BucketAssumption DEF BucketInv, TypeOK
  <2>2. granted \in Int /\ credited \in Int /\ Capacity \in Int
    BY BucketAssumption DEF BucketInv, TypeOK
  <2> QED
    BY <1>2, <2>1, <2>2 DEF Take, TokensAccounted
<1>3. ASSUME NEW c \in Callers, Allow(c) PROVE TokensAccounted'
  BY <1>1, <1>2, <1>3
     DEF Allow, ReadClock, LoadTime, LoadTokens, Deny, SwapTime, SwapTokens,
         bucket, tally
<1> QED
  BY <1>1, <1>3 DEF Next, Elapse, vars, bucket, tally

(***************************************************************************)
(* No token is taken twice and none disappears, however the two swaps of   *)
(* any number of calls interleave: two calls that loaded the same number   *)
(* of tokens do not both take one (limiter.go:51-58).                      *)
(***************************************************************************)
THEOREM TokensConserved == Spec => []TokensAccounted
<1>1. Init => TokensAccounted
  BY BucketAssumption DEF Init, TokensAccounted
<1> QED
  BY <1>1, AlwaysTyped, StepAccounted, PTL DEF Spec
-----------------------------------------------------------------------------
(***************************************************************************)
(* The rate.  A call between its two swaps holds an interval of time that  *)
(* its refill is for; the set P of the units of time that are paid for and *)
(* the intervals that are held do not overlap while lastRefill only goes   *)
(* forward, and what was credited is at most the rate times the size of P. *)
(***************************************************************************)
Span(c) == seenTime[c] + 1 .. now[c]
Swapping == {c \in Callers : at[c] = "swap tokens"}

Paid(P) ==
  /\ P \subseteq 1 .. lastRefill
  /\ credited * Second =< Rate * Cardinality(P)
  /\ \A c \in Swapping : now[c] =< lastRefill /\ Span(c) \intersect P = {}
  /\ \A c, d \in Swapping : c # d => Span(c) \intersect Span(d) = {}

PaidOnce == ~ rewound => \E P : Paid(P)

\* P pays for what is credited and held after the step.
PaidNext(P) ==
  /\ P \subseteq 1 .. lastRefill'
  /\ credited' * Second =< Rate * Cardinality(P)
  /\ \A c \in Swapping' : now'[c] =< lastRefill' /\ (seenTime'[c] + 1 .. now'[c]) \intersect P = {}
  /\ \A c, d \in Swapping' :
       c # d => (seenTime'[c] + 1 .. now'[c]) \intersect (seenTime'[d] + 1 .. now'[d]) = {}

LEMMA PaidOnceNext == PaidOnce' <=> (~ rewound' => \E P : PaidNext(P))
BY DEF PaidOnce, Paid, PaidNext, Span

LEMMA ProductMonotone ==
  ASSUME NEW m \in Nat, NEW n \in Nat, NEW k \in Nat, m =< n
  PROVE  m * k \in Nat /\ n * k \in Nat /\ m * k =< n * k
OBVIOUS

LEMMA ProductOfSum ==
  ASSUME NEW m \in Nat, NEW n \in Nat, NEW k \in Nat
  PROVE  /\ (m + n) * k = m * k + n * k /\ k * (m + n) = k * m + k * n
         /\ m * k \in Nat /\ n * k \in Nat /\ k * m \in Nat /\ k * n \in Nat
OBVIOUS

LEMMA NumbersOfCalls ==
  ASSUME TypeOK
  PROVE  /\ lastRefill \in Nat /\ credited \in Nat /\ granted \in Nat /\ tokens \in Nat /\ clock \in Nat
         /\ lastRefill =< clock
         /\ \A c \in Callers : now[c] \in Nat /\ seenTime[c] \in Nat /\ seenTokens[c] \in Nat
BY BucketAssumption DEF TypeOK

LEMMA PaidSize ==
  ASSUME NEW n \in Nat, NEW P \in SUBSET (1 .. n)
  PROVE  IsFiniteSet(P) /\ Cardinality(P) \in Nat /\ Cardinality(P) =< n
<1>1. IsFiniteSet(1 .. n) /\ Cardinality(1 .. n) = n
  BY FS_Interval
<1>2. IsFiniteSet(P) /\ Cardinality(P) =< n
  BY <1>1, FS_Subset
<1> QED
  BY <1>2, FS_CardinalityType

LEMMA SpanSize ==
  ASSUME TypeOK, NEW c \in Callers
  PROVE  /\ IsFiniteSet(Span(c)) /\ Cardinality(Span(c)) \in Nat
         /\ Cardinality(Span(c)) = IF now[c] < seenTime[c] THEN 0 ELSE now[c] - seenTime[c]
<1>1. now[c] \in Int /\ seenTime[c] \in Int
  BY DEF TypeOK
<1>2. /\ IsFiniteSet(Span(c))
      /\ Cardinality(Span(c)) = IF seenTime[c] + 1 > now[c] THEN 0 ELSE now[c] - (seenTime[c] + 1) + 1
  <2> DEFINE a == seenTime[c] + 1
             b == now[c]
  <2>1. a \in Int /\ b \in Int /\ Span(c) = a .. b
    BY <1>1 DEF Span
  <2> HIDE DEF a, b
  <2>2. /\ IsFiniteSet(a .. b)
        /\ Cardinality(a .. b) = IF a > b THEN 0 ELSE b - a + 1
    BY <2>1, FS_Interval
  <2>3. IsFiniteSet(Span(c)) /\ Cardinality(Span(c)) = IF a > b THEN 0 ELSE b - a + 1
    BY <2>1, <2>2
  <2> QED
    BY <2>3 DEF a, b
<1> QED
  BY <1>1, <1>2

\* A refill is no more than the rate times the interval it is for.
LEMMA RefillIsSpan ==
  ASSUME TypeOK, NEW c \in Callers
  PROVE  Refill(c) \in Nat /\ Refill(c) * Second =< Rate * Cardinality(Span(c))
<1> DEFINE size == Cardinality(Span(c))
<1>1. Refill(c) = (size * Rate) \div Second /\ size \in Nat
  BY SpanSize DEF Refill
<1> HIDE DEF size
<1>2. Rate \in Nat /\ Second \in Nat /\ Second > 0
  BY BucketAssumption
<1>3. size * Rate \in Nat /\ size * Rate = Rate * size
  BY <1>1, <1>2
<1>4. ((size * Rate) \div Second) * Second =< size * Rate
  <2>1. \A n \in Nat : (n \div Second) * Second =< n
    BY <1>2
  <2> QED
    BY <1>3, <2>1
<1> QED
  BY <1>1, <1>3, <1>4, RefillIsNat DEF size

\* The second swap pays for the interval of its call.
LEMMA TakePays ==
  ASSUME TypeOK, NEW c \in Callers, c \in Swapping, Take(c), NEW P, Paid(P)
  PROVE  PaidNext(P \union Span(c))
<1> DEFINE Q == P \union Span(c)
<1>1. /\ lastRefill' = lastRefill /\ lastRefill \in Nat
      /\ credited' = credited + (Filled(c) - seenTokens[c]) /\ credited \in Nat
      /\ at' = [at EXCEPT ![c] = "idle"] /\ at \in [Callers -> Steps]
      /\ \A d \in Callers : d # c => now'[d] = now[d] /\ seenTime'[d] = seenTime[d]
  BY NumbersOfCalls DEF Take, Returns, Goes, TypeOK
<1>2. c \in Swapping /\ Swapping' = Swapping \ {c}
  BY <1>1 DEF Swapping
<1>3. Q \subseteq 1 .. lastRefill
  <2>1. seenTime[c] \in Nat /\ now[c] \in Nat /\ now[c] =< lastRefill
    BY <1>2, NumbersOfCalls DEF Paid
  <2>2. Span(c) \subseteq 1 .. lastRefill
    BY <1>1, <2>1 DEF Span
  <2> QED
    BY <2>2 DEF Paid
<1>4. IsFiniteSet(P) /\ IsFiniteSet(Span(c)) /\ Span(c) \intersect P = {}
  BY <1>1, <1>2, PaidSize, SpanSize DEF Paid
<1>5. Cardinality(Q) = Cardinality(P) + Cardinality(Span(c))
  <2>1. P \intersect Span(c) = {} /\ Cardinality({}) = 0
    BY <1>4, FS_EmptySet
  <2>2. Cardinality(Q) = Cardinality(P) + Cardinality(Span(c)) - Cardinality(P \intersect Span(c))
    BY <1>4, FS_Union
  <2>3. Cardinality(P) \in Nat /\ Cardinality(Span(c)) \in Nat
    BY <1>4, FS_CardinalityType
  <2>4. Cardinality(P \intersect Span(c)) = 0
    BY <2>1
  <2>5. \A m, n \in Nat : m + n - 0 = m + n
    OBVIOUS
  <2> HIDE DEF Q
  <2> QED
    BY <2>2, <2>3, <2>4, <2>5
<1>6. credited' * Second =< Rate * Cardinality(Q)
  <2>1. Filled(c) - seenTokens[c] =< Refill(c) /\ Filled(c) - seenTokens[c] \in Nat
    <3>1. seenTokens[c] \in Nat /\ Refill(c) \in Nat /\ Capacity \in Nat
      BY RefillIsNat, NumbersOfCalls, BucketAssumption
    <3>2. Filled(c) \in seenTokens[c] .. Capacity
      BY FilledWithinCapacity
    <3>3. Filled(c) =< seenTokens[c] + Refill(c)
      BY <3>1 DEF Filled
    <3> HIDE DEF Filled, Refill
    <3> QED
      BY <3>1, <3>2, <3>3
  <2> DEFINE f == Filled(c) - seenTokens[c]
             r == Refill(c)
             p == Cardinality(P)
             h == Cardinality(Span(c))
  <2>2. /\ f \in Nat /\ r \in Nat /\ f =< r /\ r * Second =< Rate * h
        /\ credited * Second =< Rate * p /\ credited' = credited + f
        /\ p \in Nat /\ h \in Nat /\ Cardinality(Q) = p + h
    BY <1>1, <1>4, <1>5, <2>1, RefillIsSpan, SpanSize, FS_CardinalityType DEF Paid
  <2> HIDE DEF f, r, p, h, Q
  <2>3. Second \in Nat /\ Rate \in Nat
    BY BucketAssumption
  <2>4. f * Second =< r * Second /\ f * Second \in Nat /\ r * Second \in Nat
    BY <2>2, <2>3, ProductMonotone
  <2>5. (credited + f) * Second = credited * Second + f * Second /\ credited * Second \in Nat
    BY <1>1, <2>2, <2>3, ProductOfSum
  <2>6. Rate * (p + h) = Rate * p + Rate * h /\ Rate * p \in Nat /\ Rate * h \in Nat
    BY <2>2, <2>3, ProductOfSum
  <2> QED
    BY <2>2, <2>4, <2>5, <2>6
<1>7. ASSUME NEW d \in Swapping'
      PROVE  /\ d \in Swapping /\ d # c /\ now'[d] = now[d] /\ seenTime'[d] = seenTime[d]
             /\ now[d] =< lastRefill' /\ Span(d) \intersect Q = {}
  BY <1>1, <1>2, <1>7 DEF Paid, Swapping
<1>8. \A d, e \in Swapping' :
        d # e => (seenTime'[d] + 1 .. now'[d]) \intersect (seenTime'[e] + 1 .. now'[e]) = {}
  <2> SUFFICES ASSUME NEW d \in Swapping', NEW e \in Swapping', d # e
               PROVE  (seenTime'[d] + 1 .. now'[d]) \intersect (seenTime'[e] + 1 .. now'[e]) = {}
    OBVIOUS
  <2>1. Span(d) \intersect Span(e) = {}
    BY <1>7 DEF Paid
  <2> QED
    BY <1>7, <2>1 DEF Span
<1>9. \A d \in Swapping' : (seenTime'[d] + 1 .. now'[d]) \intersect Q = {} /\ now'[d] =< lastRefill'
  BY <1>7 DEF Span
<1> QED
  BY <1>1, <1>3, <1>6, <1>8, <1>9 DEF PaidNext

\* The first swap takes the interval since the last refill.
LEMMA SwapTimePays ==
  ASSUME TypeOK, NEW c \in Callers, SwapTime(c), ~ rewound', NEW P, Paid(P)
  PROVE  PaidNext(P)
<1>1. /\ lastRefill \in Nat /\ lastRefill' \in Nat /\ lastRefill =< lastRefill'
      /\ credited' = credited /\ now' = now /\ seenTime' = seenTime
      /\ \A d \in Callers : now[d] \in Nat /\ seenTime[d] \in Nat
      /\ at \in [Callers -> Steps]
  <2>1. lastRefill' = lastRefill \/ (lastRefill' = now[c] /\ ~ (now[c] < lastRefill))
    BY DEF SwapTime
  <2>2. credited' = credited /\ now' = now /\ seenTime' = seenTime /\ at \in [Callers -> Steps]
    BY DEF SwapTime, locals, TypeOK
  <2> QED
    BY <2>1, <2>2, NumbersOfCalls
<1>2. \A d \in Swapping' : d = c \/ d \in Swapping
  BY <1>1 DEF SwapTime, Goes, Swapping
<1>3. c \in Swapping' => /\ lastRefill = seenTime[c] /\ lastRefill' = now[c]
                         /\ Span(c) \subseteq lastRefill + 1 .. now[c]
  BY <1>1 DEF SwapTime, Goes, Swapping, Span
<1>4. \A d \in Swapping : /\ now[d] =< lastRefill' /\ Span(d) \subseteq 1 .. lastRefill
                          /\ Span(d) \intersect P = {}
  <2> SUFFICES ASSUME NEW d \in Swapping
               PROVE  /\ now[d] =< lastRefill' /\ Span(d) \subseteq 1 .. lastRefill
                      /\ Span(d) \intersect P = {}
    OBVIOUS
  <2>1. now[d] =< lastRefill /\ Span(d) \intersect P = {}
    BY DEF Paid
  <2>2. now[d] \in Nat /\ seenTime[d] \in Nat
    BY <1>1 DEF Swapping
  <2> QED
    BY <1>1, <2>1, <2>2 DEF Span
<1>5. (lastRefill + 1 .. now[c]) \intersect (1 .. lastRefill) = {}
  BY <1>1
<1>6. \A d \in Swapping' : now[d] =< lastRefill' /\ Span(d) \intersect P = {}
  BY <1>1, <1>2, <1>3, <1>4, <1>5 DEF Paid
<1>7. \A d, e \in Swapping' : d # e => Span(d) \intersect Span(e) = {}
  BY <1>2, <1>3, <1>4, <1>5 DEF Paid
<1>8. P \subseteq 1 .. lastRefill'
  BY <1>1 DEF Paid
<1> QED
  BY <1>1, <1>6, <1>7, <1>8 DEF PaidNext, Paid, Span

LEMMA StepPaid == BucketInv /\ PaidOnce /\ [Next]_vars => PaidOnce'
<1> SUFFICES ASSUME BucketInv, PaidOnce, [Next]_vars, ~ rewound' PROVE \E P : PaidNext(P)
  BY PaidOnceNext
<1>1. TypeOK
  BY DEF BucketInv
<1>2. ~ rewound
  BY DEF Next, vars, Elapse, Allow, ReadClock, LoadTime, LoadTokens, Deny, SwapTime, SwapTokens,
         Take, tally
<1>3. PICK P : Paid(P)
  BY <1>2 DEF PaidOnce
\* Steps that keep the bucket and move no call into the middle of its swaps.
<1>4. ASSUME UNCHANGED <<lastRefill, credited>>,
             \A c \in Swapping' : c \in Swapping /\ now'[c] = now[c] /\ seenTime'[c] = seenTime[c]
      PROVE  PaidNext(P)
  BY <1>3, <1>4 DEF Paid, PaidNext, Span
<1>5. ASSUME NEW c \in Callers, ReadClock(c) \/ LoadTime(c) \/ LoadTokens(c) \/ Deny(c)
      PROVE  PaidNext(P)
  BY <1>1, <1>4, <1>5 DEF ReadClock, LoadTime, LoadTokens, Deny, Returns, Goes, bucket, tally,
                          Swapping, TypeOK
<1>6. ASSUME NEW c \in Callers, SwapTime(c)
      PROVE  PaidNext(P)
  BY <1>1, <1>3, <1>6, SwapTimePays
<1>7. ASSUME NEW c \in Callers, SwapTokens(c)
      PROVE  \E Q : PaidNext(Q)
  <2>1. c \in Swapping
    BY <1>7 DEF SwapTokens, Swapping
  <2>2. CASE Take(c)
    BY <1>1, <1>3, <2>1, <2>2, TakePays
  <2>3. CASE ~ Take(c)
    <3>1. Goes(c, "again") /\ UNCHANGED <<bucket, locals, tally>>
      BY <1>7, <2>3 DEF SwapTokens
    <3> QED
      BY <1>1, <1>4, <3>1 DEF Goes, bucket, locals, tally, Swapping, TypeOK
  <2> QED
    BY <2>2, <2>3
<1>8. CASE Elapse
  BY <1>4, <1>8 DEF Elapse, bucket, locals, tally, Swapping
<1>9. CASE UNCHANGED vars
  BY <1>4, <1>9 DEF vars, bucket, locals, tally, Swapping
<1> QED
  BY <1>5, <1>6, <1>7, <1>8, <1>9 DEF Next, Allow

LEMMA PaidWithinRate == TypeOK /\ TokensAccounted /\ PaidOnce => RateWhileForward
<1> SUFFICES ASSUME TypeOK, TokensAccounted, NEW P, Paid(P) PROVE WithinRate
  BY DEF PaidOnce, RateWhileForward
<1> DEFINE p == Cardinality(P)
<1>1. P \in SUBSET (1 .. lastRefill) /\ credited * Second =< Rate * p
  BY DEF Paid
<1>2. p \in Nat /\ p =< lastRefill
  BY <1>1, NumbersOfCalls, PaidSize
<1> HIDE DEF p
<1>3. Second \in Nat /\ Rate \in Nat /\ Capacity \in Nat
  BY BucketAssumption
<1>4. granted =< Capacity + credited /\ p =< clock
  BY <1>2, <1>3, NumbersOfCalls DEF TokensAccounted
<1>5. granted * Second =< (Capacity + credited) * Second
  BY <1>3, <1>4, NumbersOfCalls, ProductMonotone
<1>6. /\ (Capacity + credited) * Second = Capacity * Second + credited * Second
      /\ Capacity * Second \in Nat /\ credited * Second \in Nat
  BY <1>3, NumbersOfCalls, ProductOfSum
<1>7. p * Rate =< clock * Rate /\ p * Rate \in Nat /\ clock * Rate \in Nat
  BY <1>2, <1>3, <1>4, NumbersOfCalls, ProductMonotone
<1>8. p * Rate = Rate * p /\ clock * Rate = Rate * clock
  BY <1>2, <1>3, NumbersOfCalls
<1>9. granted * Second \in Nat
  BY <1>3, NumbersOfCalls, ProductMonotone
<1> QED
  BY <1>1, <1>5, <1>6, <1>7, <1>8, <1>9 DEF WithinRate

(***************************************************************************)
(* For any callers, rate and capacity: as long as the first swap has not   *)
(* turned lastRefillTime back (limiter.go:51), the calls that were allowed *)
(* are at most the capacity and what the rate brings until now, however    *)
(* the loads and swaps of the calls interleave, fail and are repeated.     *)
(***************************************************************************)
THEOREM RateIsKept == Spec => []RateWhileForward
<1>1. Init => PaidOnce
  <2> SUFFICES ASSUME Init PROVE Paid({})
    BY DEF PaidOnce
  <2>1. credited * Second =< Rate * Cardinality({})
    BY FS_EmptySet, BucketAssumption DEF Init
  <2>2. Swapping = {}
    BY DEF Init, Swapping
  <2> QED
    BY <2>1, <2>2 DEF Paid
<1>2. BucketInv => TypeOK
  BY DEF BucketInv
<1> QED
  BY <1>1, <1>2, AlwaysTyped, TokensConserved, StepPaid, PaidWithinRate, PTL DEF Spec
-----------------------------------------------------------------------------
(***************************************************************************)
(* The broadcasts, for any peers, chats and calls.  The inductive          *)
(* invariant begins with what it says of one goroutine g, that of thread   *)
(* t.                                                                      *)
(***************************************************************************)
Tasks == {"register", "join", "chat", "leave", "mark"}
Stages == {"idle", "new", "lock", "rlock", "work", "write"}
Messages == Peers \X Nat
Frames == [kind : {"notice", "chat", "dump"}, chats : Seq(Messages)]
PlanSteps == [locked : BOOLEAN, frame : Frames, to : SUBSET Peers]
Goroutines == [stage : Stages, task : Tasks \union {None}, plan : Seq(PlanSteps),
               todo : SUBSET Peers]

\* It has a plan exactly while it works on it and a task exactly while it
\* waits for the lock; only a page in the registry joins, and a notice holds
\* no messages.
Fits(t, g, registry) ==
  /\ g.plan = <<>> <=> g.stage \in {"idle", "new", "lock"}
  /\ g.task = None <=> g.stage # "lock"
  /\ t = Clerk => g.task \in {None, "mark"} /\ g.stage # "new"
  /\ g.task = "mark" => t = Clerk
  /\ g.task = "join" => t \in registry
  /\ \A i \in DOMAIN g.plan : g.plan[i].frame.kind = "notice" => g.plan[i].frame.chats = <<>>

\* It broadcasts a chat of its own, the n-th, and nothing with it.
Says(g) == \E i \in DOMAIN g.plan : g.plan[i].frame.kind = "chat"
Alone(t, g, n) ==
  \A i \in DOMAIN g.plan : g.plan[i].frame.kind = "chat" =>
    t \in Peers /\ Len(g.plan) = 1 /\ g.plan[i].frame.chats = <<<<t, n>>>>

\* It has a chat for the page of q and has not written it yet.
Brings(g, q) == g.task = "chat" \/ (Says(g) /\ (g.stage = "write" => q \in g.todo))

\* It has still to write the message m to q.
To(g, i) == IF i = 1 /\ g.stage = "write" THEN g.todo ELSE g.plan[i].to
Holds(f, m) == \E j \in DOMAIN f.chats : f.chats[j] = m
Pending(g, q, m) == \E i \in DOMAIN g.plan : q \in To(g, i) /\ Holds(g.plan[i].frame, m)

\* The number of the last chat of t.
LastChat(t) == IF t \in Peers THEN chats[t] ELSE 0
Sound(t, g, registry, n) == g \in Goroutines /\ Fits(t, g, registry) /\ Alone(t, g, n)
-----------------------------------------------------------------------------
BroadcastTyped ==
  /\ conns \subseteq Peers /\ sessions \subseteq conns
  /\ history \in Seq(Messages)
  /\ live \in [Peers -> Seq(Messages)] /\ dumped \in [Peers -> Seq(Messages)]
  /\ chats \in [Peers -> Nat]
  /\ go \in [Threads -> Goroutines]

GoroutinesSound == \A t \in Threads : Sound(t, go[t], conns, LastChat(t))

\* A message of the history is with a page, on its way or torn.
Among(m, s) == \E i \in DOMAIN s : s[i] = m
Covered(p, m) ==
  \/ Among(m, live[p]) \/ Among(m, dumped[p]) \/ <<p, m>> \in torn
  \/ \E t \in Threads : Pending(go[t], p, m)
AllCovered == \A p \in sessions \ broken : \A i \in DOMAIN history : Covered(p, history[i])

\* A page has none but the chats that were said, and none of the one that is
\* still to come.
ChatsSaid == \A q \in Peers : \A i \in DOMAIN live[q] : live[q][i][2] <= chats[live[q][i][1]]
Unseen(t, q) == \A i \in DOMAIN live[q] : live[q][i][1] = t => live[q][i][2] < LastChat(t)
ChatsUnseen == \A t \in Threads, q \in Peers : Brings(go[t], q) => Unseen(t, q)

OrderInv == BroadcastTyped /\ GoroutinesSound /\ ChatsSaid /\ ChatsUnseen /\ ChatsInOrder
BroadcastInv == OrderInv /\ AllCovered
-----------------------------------------------------------------------------
(***************************************************************************)
(* What a goroutine becomes.                                               *)
(***************************************************************************)
LEMMA NoticeIsFrame == Notice \in Frames /\ Notice.kind = "notice" /\ Notice.chats = <<>>
BY DEF Notice, Frame, Frames

LEMMA WaitingIsSound ==
  ASSUME NEW t \in Threads, NEW registry, NEW n, NEW what \in Tasks,
         t = Clerk <=> what = "mark", what = "join" => t \in registry
  PROVE  /\ Sound(t, Waiting(what), registry, n)
         /\ \A q : Brings(Waiting(what), q) => what = "chat"
         /\ Waiting(what).plan = <<>> /\ Waiting(what).task = what
<1>1. Waiting(what) = [stage |-> "lock", task |-> what, plan |-> <<>>, todo |-> {}]
  BY DEF Waiting
<1>2. Waiting(what) \in Goroutines
  <2>1. <<>> \in Seq(PlanSteps)
    BY EmptySeq
  <2> QED
    BY <1>1, <2>1 DEF Goroutines, Stages
<1>3. what # None
  BY BroadcastAssumption DEF Tasks
<1> QED
  BY <1>1, <1>2, <1>3 DEF Sound, Fits, Alone, Brings, Says

LEMMA WorkingIsSound ==
  ASSUME NEW t \in Threads, NEW registry, NEW n, NEW steps \in Seq(PlanSteps),
         \A i \in DOMAIN steps : /\ steps[i].frame.kind = "notice" => steps[i].frame.chats = <<>>
                                 /\ steps[i].frame.kind = "chat" =>
                                      t \in Peers /\ Len(steps) = 1
                                        /\ steps[i].frame.chats = <<<<t, n>>>>
  PROVE  /\ Sound(t, Working(steps), registry, n)
         /\ \A q : Brings(Working(steps), q) => \E i \in DOMAIN steps : steps[i].frame.kind = "chat"
         /\ \A q, m, i : i \in DOMAIN steps /\ q \in steps[i].to /\ Holds(steps[i].frame, m)
              => Pending(Working(steps), q, m)
<1>1. Working(steps) = [stage |-> IF steps = <<>> THEN "idle" ELSE "work", task |-> None,
                        plan |-> steps, todo |-> {}]
  BY DEF Working
<1>2. Working(steps) \in Goroutines
  <2>1. (IF steps = <<>> THEN "idle" ELSE "work") \in Stages
    BY DEF Stages
  <2> QED
    BY <1>1, <2>1 DEF Goroutines
<1>3. Fits(t, Working(steps), registry)
  BY <1>1, BroadcastAssumption DEF Fits, Tasks
<1>4. Alone(t, Working(steps), n)
  BY <1>1 DEF Alone
<1>5. ASSUME NEW q, Brings(Working(steps), q)
      PROVE  \E i \in DOMAIN steps : steps[i].frame.kind = "chat"
  BY <1>1, <1>5, BroadcastAssumption DEF Brings, Says
<1>6. ASSUME NEW q, NEW m, NEW i \in DOMAIN steps, q \in steps[i].to, Holds(steps[i].frame, m)
      PROVE  Pending(Working(steps), q, m)
  BY <1>1, <1>6 DEF Pending, To
<1> QED
  BY <1>2, <1>3, <1>4, <1>5, <1>6 DEF Sound

LEMMA IdleIsSound ==
  ASSUME NEW t \in Threads, NEW registry, NEW n
  PROVE  Sound(t, Idle, registry, n) /\ Idle.plan = <<>> /\ \A q : ~ Brings(Idle, q)
<1>1. <<>> \in Seq(PlanSteps)
  BY EmptySeq
<1>2. DOMAIN <<>> = {}
  OBVIOUS
<1>3. Sound(t, Working(<<>>), registry, n) /\ \A q : ~ Brings(Working(<<>>), q)
  BY <1>1, <1>2, WorkingIsSound, Zenon
<1> QED
  BY <1>3 DEF Idle, Working

\* With the first sockets of its step gone, a goroutine has the others still
\* to do, or goes on to the rest of its plan.
LEMMA LeftIsSound ==
  ASSUME NEW t \in Threads, NEW registry, NEW n, NEW g, Sound(t, g, registry, n),
         g.stage \in {"work", "rlock", "write"},
         NEW left \in SUBSET Peers, g.stage = "write" => left \subseteq g.todo
  PROVE  /\ Sound(t, Left(g, left), registry, n)
         /\ \A q : Brings(Left(g, left), q) => Brings(g, q) /\ q \in left
         /\ \A q, m : Pending(g, q, m) =>
              \/ Pending(Left(g, left), q, m)
              \/ q \in To(g, 1) \ left /\ Holds(g.plan[1].frame, m)
<1> DEFINE h == Left(g, left)
<1>1. /\ g \in Goroutines /\ g.plan \in Seq(PlanSteps) /\ g.plan # <<>> /\ g.task = None
      /\ Len(g.plan) \in Nat /\ DOMAIN g.plan = 1 .. Len(g.plan)
  BY LenProperties DEF Sound, Fits, Goroutines
<1>2. Len(g.plan) >= 1
  BY <1>1, EmptySeq
<1>3. CASE left # {}
  <2>1. h = [stage |-> "write", task |-> None, plan |-> g.plan, todo |-> left]
    BY <1>1, <1>3 DEF Left, Goroutines
  <2>2. h \in Goroutines
    BY <1>1, <2>1 DEF Goroutines, Stages
  <2>3. Sound(t, h, registry, n)
    BY <1>1, <2>1, <2>2, BroadcastAssumption, SMTT(30) DEF Sound, Fits, Alone, Tasks
  <2>4. \A q : Brings(h, q) => Brings(g, q) /\ q \in left
    BY <1>1, <2>1, BroadcastAssumption, SMTT(30) DEF Brings, Says
  <2>5. ASSUME NEW q, NEW m, Pending(g, q, m)
        PROVE  Pending(h, q, m) \/ (q \in To(g, 1) \ left /\ Holds(g.plan[1].frame, m))
    <3>1. PICK i \in DOMAIN g.plan : q \in To(g, i) /\ Holds(g.plan[i].frame, m)
      BY <2>5 DEF Pending
    <3>2. CASE i # 1
      BY <2>1, <3>1, <3>2 DEF Pending, To
    <3>3. CASE i = 1
      BY <2>1, <3>1, <3>3 DEF Pending, To
    <3> QED
      BY <3>2, <3>3
  <2> QED
    BY <2>3, <2>4, <2>5
<1>4. CASE left = {}
  <2>1. h = [stage |-> IF Len(g.plan) > 1 THEN "work" ELSE "idle", task |-> None,
             plan |-> Tail(g.plan), todo |-> {}]
    BY <1>1, <1>4 DEF Left, Goroutines
  <2>2. /\ Tail(g.plan) \in Seq(PlanSteps) /\ Len(Tail(g.plan)) = Len(g.plan) - 1
        /\ \A i \in 1 .. Len(g.plan) - 1 : Tail(g.plan)[i] = g.plan[i + 1]
    BY <1>1, HeadTailProperties
  <2>3. /\ DOMAIN Tail(g.plan) = 1 .. Len(g.plan) - 1
        /\ Tail(g.plan) = <<>> <=> Len(g.plan) = 1
    <3>1. DOMAIN Tail(g.plan) = 1 .. Len(Tail(g.plan))
      BY <2>2, LenProperties
    <3>2. Tail(g.plan) = <<>> <=> Len(Tail(g.plan)) = 0
      BY <2>2, EmptySeq
    <3> QED
      BY <1>1, <1>2, <2>2, <3>1, <3>2
  <2>4. h \in Goroutines
    BY <2>1, <2>2 DEF Goroutines, Stages
  <2>5. Fits(t, h, registry)
    <3>1. \A i \in DOMAIN h.plan : h.plan[i].frame.kind = "notice" => h.plan[i].frame.chats = <<>>
      BY <1>1, <2>1, <2>2, <2>3 DEF Sound, Fits
    <3>2. h.plan = <<>> <=> h.stage \in {"idle", "new", "lock"}
      <4>1. h.stage = (IF Len(g.plan) > 1 THEN "work" ELSE "idle") /\ h.plan = Tail(g.plan)
        BY <2>1
      <4>2. \A k \in Nat : k >= 1 => (k > 1 <=> k # 1)
        OBVIOUS
      <4> HIDE DEF h
      <4>3. Len(g.plan) > 1 <=> Len(g.plan) # 1
        BY <1>1, <1>2, <4>2
      <4> QED
        BY <2>3, <4>1, <4>3
    <3> QED
      BY <2>1, <3>1, <3>2, BroadcastAssumption DEF Fits, Tasks
  <2>6. \A i \in DOMAIN h.plan : h.plan[i].frame.kind # "chat"
    BY <1>1, <2>1, <2>2, <2>3 DEF Sound, Alone
  <2>7. Sound(t, h, registry, n) /\ \A q : ~ Brings(h, q)
    BY <2>1, <2>4, <2>5, <2>6, BroadcastAssumption DEF Sound, Alone, Brings, Says
  <2>8. ASSUME NEW q, NEW m, Pending(g, q, m)
        PROVE  Pending(h, q, m) \/ (q \in To(g, 1) \ left /\ Holds(g.plan[1].frame, m))
    <3>1. PICK i \in DOMAIN g.plan : q \in To(g, i) /\ Holds(g.plan[i].frame, m)
      BY <2>8 DEF Pending
    <3>2. CASE i = 1
      BY <1>4, <3>1, <3>2
    <3>3. CASE i # 1
      <4>1. i - 1 \in 1 .. Len(g.plan) - 1 /\ h.plan[i - 1] = g.plan[i]
        BY <1>1, <2>1, <2>2, <3>3
      <4>2. q \in To(h, i - 1)
        BY <2>1, <3>1, <3>3, <4>1 DEF To
      <4> QED
        BY <2>1, <2>3, <3>1, <4>1, <4>2 DEF Pending
    <3> QED
      BY <3>2, <3>3
  <2> QED
    BY <2>7, <2>8
<1> QED
  BY <1>3, <1>4

\* A goroutine that is in has what it has to write still before it, as far as
\* the registry goes.
LEMMA BegunIsSound ==
  ASSUME NEW t \in Threads, NEW registry, NEW open \in SUBSET Peers, NEW n, NEW g,
         Sound(t, g, registry, n), g.stage \in {"work", "rlock"}
  PROVE  /\ Sound(t, Begun(g, open), registry, n)
         /\ \A q : Brings(Begun(g, open), q) => Brings(g, q)
         /\ \A q \in open : \A m : Pending(g, q, m) => Pending(Begun(g, open), q, m)
<1> DEFINE left == Targets(Head(g.plan), open)
<1>1. /\ g \in Goroutines /\ g.plan \in Seq(PlanSteps) /\ g.plan # <<>>
  BY DEF Sound, Fits, Goroutines
<1>2. Head(g.plan) = g.plan[1] /\ Head(g.plan) \in PlanSteps
  BY <1>1, HeadTailProperties
<1>3. left \in SUBSET Peers /\ \A q \in open : q \in g.plan[1].to => q \in left
  BY <1>2 DEF Targets, PlanSteps
<1>4. Begun(g, open) = Left(g, left) /\ To(g, 1) = g.plan[1].to
  BY DEF Begun, To
<1> HIDE DEF left
<1> QED
  BY <1>3, <1>4, LeftIsSound
-----------------------------------------------------------------------------
(***************************************************************************)
(* Steps in which no page takes a chat and none is said: the order of the  *)
(* chats depends on what the goroutines become.                            *)
(***************************************************************************)
Becomes(t, g, h) == Sound(t, h, conns', LastChat(t)) /\ \A q : Brings(h, q) => Brings(g, q)

LEMMA SilentStepKeepsOrder ==
  ASSUME OrderInv, UNCHANGED <<live, dumped, chats>>,
         conns' \subseteq Peers, sessions' \subseteq conns', history' \in Seq(Messages),
         DOMAIN go' = Threads, go' = [t \in Threads |-> go'[t]],
         \A t \in Threads : Becomes(t, go[t], go'[t])
  PROVE  OrderInv'
<1>2. GoroutinesSound'
  BY DEF GoroutinesSound, Becomes, LastChat
<1>3. BroadcastTyped'
  BY DEF OrderInv, BroadcastTyped, Becomes, Sound
<1>4. ChatsSaid' /\ ChatsInOrder'
  BY DEF OrderInv, ChatsSaid, ChatsInOrder
<1>5. ChatsUnseen'
  BY DEF OrderInv, ChatsUnseen, Becomes, Unseen, LastChat
<1> QED
  BY <1>2, <1>3, <1>4, <1>5 DEF OrderInv

\* No message is missed as long as every goroutine still brings what it had to
\* bring to the pages of the sessions.
LEMMA SteadyStepKeepsCover ==
  ASSUME AllCovered, UNCHANGED <<live, dumped>>, torn \subseteq torn', broken \subseteq broken',
         \A t \in Threads, p \in sessions' \ broken' : \A m :
           Pending(go[t], p, m) => Pending(go'[t], p, m),
         \A p \in sessions' \ broken', i \in DOMAIN history' :
           \/ p \in sessions /\ i \in DOMAIN history /\ history'[i] = history[i]
           \/ \E t \in Threads : Pending(go'[t], p, history'[i])
  PROVE  AllCovered'
<1> SUFFICES ASSUME NEW p \in sessions' \ broken', NEW i \in DOMAIN history'
             PROVE  Covered(p, history[i])'
  BY DEF AllCovered
<1>1. CASE p \in sessions /\ i \in DOMAIN history /\ history'[i] = history[i]
  <2>1. Covered(p, history[i])
    BY <1>1 DEF AllCovered
  <2>2. \A t \in Threads : Pending(go[t], p, history[i]) => Pending(go'[t], p, history[i])
    OBVIOUS
  <2> QED
    BY <1>1, <2>1, <2>2 DEF Covered
<1>2. CASE \E t \in Threads : Pending(go'[t], p, history'[i])
  BY <1>2 DEF Covered
<1> QED
  BY <1>1, <1>2
-----------------------------------------------------------------------------
(***************************************************************************)
(* What a goroutine reads, and how it begins to write.                     *)
(***************************************************************************)
LEMMA SameGoroutine ==
  ASSUME OrderInv, conns' = conns, NEW t \in Threads
  PROVE  Becomes(t, go[t], go[t])
BY DEF OrderInv, GoroutinesSound, Becomes

LEMMA OneBecomes ==
  ASSUME OrderInv, conns' = conns, NEW t \in Threads, NEW h, go' = [go EXCEPT ![t] = h],
         Becomes(t, go[t], h)
  PROVE  /\ DOMAIN go' = Threads /\ go' = [u \in Threads |-> go'[u]]
         /\ \A u \in Threads : Becomes(u, go[u], go'[u])
         /\ go'[t] = h /\ \A u \in Threads \ {t} : go'[u] = go[u]
<1>1. DOMAIN go = Threads
  BY DEF OrderInv, BroadcastTyped
<1>2. /\ DOMAIN go' = Threads /\ go' = [u \in Threads |-> go'[u]]
      /\ go'[t] = h /\ \A u \in Threads \ {t} : go'[u] = go[u]
  BY <1>1
<1>3. \A u \in Threads : Becomes(u, go[u], go'[u])
  BY <1>2, SameGoroutine
<1> QED
  BY <1>2, <1>3

\* A step of one goroutine on which nothing else depends.
LEMMA OneStepKeepsInv ==
  ASSUME BroadcastInv, UNCHANGED <<room, pages, chats, torn>>, NEW t \in Threads, NEW h,
         go' = [go EXCEPT ![t] = h], Becomes(t, go[t], h),
         \A q \in sessions \ broken : \A m : Pending(go[t], q, m) => Pending(h, q, m)
  PROVE  BroadcastInv'
<1>1. /\ OrderInv /\ AllCovered /\ conns' = conns /\ sessions' = sessions /\ history' = history
      /\ live' = live /\ dumped' = dumped /\ broken' = broken
  BY DEF BroadcastInv, room, pages
<1>2. /\ DOMAIN go' = Threads /\ go' = [u \in Threads |-> go'[u]]
      /\ \A u \in Threads : Becomes(u, go[u], go'[u])
      /\ go'[t] = h /\ \A u \in Threads \ {t} : go'[u] = go[u]
  BY <1>1, OneBecomes
<1>3. conns' \subseteq Peers /\ sessions' \subseteq conns' /\ history' \in Seq(Messages)
  BY <1>1 DEF OrderInv, BroadcastTyped
<1>4. OrderInv'
  BY <1>1, <1>2, <1>3, SilentStepKeepsOrder
<1>5. AllCovered'
  <2>1. \A u \in Threads, p \in sessions' \ broken' : \A m :
          Pending(go[u], p, m) => Pending(go'[u], p, m)
    BY <1>1, <1>2
  <2>2. \A p \in sessions' \ broken', i \in DOMAIN history' :
          p \in sessions /\ i \in DOMAIN history /\ history'[i] = history[i]
    BY <1>1
  <2> QED
    BY <1>1, <2>1, <2>2, SteadyStepKeepsCover
<1> QED
  BY <1>4, <1>5 DEF BroadcastInv

LEMMA NothingPending ==
  ASSUME NEW t \in Threads, NEW g, NEW registry, NEW n, Sound(t, g, registry, n),
         g.stage \in {"idle", "new", "lock"}
  PROVE  g.plan = <<>> /\ \A q, m : ~ Pending(g, q, m)
<1>1. g.plan = <<>>
  BY DEF Sound, Fits
<1>2. DOMAIN <<>> = {}
  OBVIOUS
<1> QED
  BY <1>1, <1>2 DEF Pending

LEMMA ToLockKeepsInv ==
  ASSUME BroadcastInv, NEW t \in Threads, go[t].stage \in {"idle", "new"},
         NEW what \in Tasks \ {"chat"}, t = Clerk <=> what = "mark",
         what = "join" => t \in conns, ToLock(t, what), chats' = chats
  PROVE  BroadcastInv'
<1>1. Sound(t, go[t], conns, LastChat(t)) /\ conns' = conns
  BY DEF BroadcastInv, OrderInv, GoroutinesSound, ToLock, room
<1>2. \A q, m : ~ Pending(go[t], q, m)
  BY <1>1, NothingPending
<1>3. Sound(t, Waiting(what), conns', LastChat(t)) /\ \A q : ~ Brings(Waiting(what), q)
  BY <1>1, WaitingIsSound
<1>4. Becomes(t, go[t], Waiting(what))
  BY <1>3 DEF Becomes
<1>5. go' = [go EXCEPT ![t] = Waiting(what)] /\ UNCHANGED <<room, pages, torn>>
  BY DEF ToLock
<1> QED
  BY <1>2, <1>4, <1>5, OneStepKeepsInv

\* Steps without chats: a relayed frame and the look of the clerk.
LEMMA NoticesKeepInv ==
  ASSUME BroadcastInv, NEW t \in Threads, go[t].stage = "idle", NEW to \in SUBSET Peers,
         go' = [go EXCEPT ![t] = Working(<<Room(to, Notice)>>)],
         UNCHANGED <<room, pages, torn, chats>>
  PROVE  BroadcastInv'
<1> DEFINE steps == <<Room(to, Notice)>>
<1>1. steps \in Seq(PlanSteps) /\ DOMAIN steps = {1} /\ steps[1].frame = Notice
  BY NoticeIsFrame DEF Room, PlanSteps
<1>2. Sound(t, go[t], conns, LastChat(t)) /\ conns' = conns
  BY DEF BroadcastInv, OrderInv, GoroutinesSound, room
<1>3. \A q, m : ~ Pending(go[t], q, m)
  BY <1>2, NothingPending
<1> HIDE DEF steps
<1>4. \A i \in DOMAIN steps : /\ steps[i].frame.kind # "chat"
                              /\ steps[i].frame.chats = <<>>
  BY <1>1, NoticeIsFrame
<1>5. Sound(t, Working(steps), conns', LastChat(t)) /\ \A q : ~ Brings(Working(steps), q)
  BY <1>1, <1>4, WorkingIsSound
<1>6. Becomes(t, go[t], Working(steps))
  BY <1>5 DEF Becomes
<1> QED
  BY <1>3, <1>6, OneStepKeepsInv DEF steps

\* A chat is numbered; none of this number has come anywhere.
LEMMA ReadChatKeepsInv ==
  ASSUME BroadcastInv, NEW p \in Peers, ReadChat(p)
  PROVE  BroadcastInv'
<1>1. /\ OrderInv /\ AllCovered /\ p \in Threads /\ go[p].stage = "idle"
      /\ conns' = conns /\ sessions' = sessions /\ history' = history
      /\ live' = live /\ dumped' = dumped /\ broken' = broken /\ torn' = torn
      /\ go' = [go EXCEPT ![p] = Waiting("chat")] /\ chats' = [chats EXCEPT ![p] = @ + 1]
  BY DEF BroadcastInv, ReadChat, Reads, ToLock, room, pages, Threads
<1>2. /\ chats \in [Peers -> Nat] /\ go \in [Threads -> Goroutines]
      /\ live \in [Peers -> Seq(Messages)]
  BY <1>1 DEF OrderInv, BroadcastTyped
<1>3. /\ go'[p] = Waiting("chat") /\ \A u \in Threads \ {p} : go'[u] = go[u]
      /\ DOMAIN go' = Threads /\ go' = [u \in Threads |-> go'[u]]
  BY <1>1, <1>2
<1>4. /\ LastChat(p)' = LastChat(p) + 1 /\ LastChat(p) \in Nat
      /\ \A u \in Threads \ {p} : LastChat(u)' = LastChat(u)
  BY <1>1, <1>2 DEF LastChat
<1>5. Sound(p, Waiting("chat"), conns', LastChat(p)')
  <2>1. "chat" \in Tasks /\ p # Clerk
    BY BroadcastAssumption DEF Tasks
  <2> QED
    BY <1>1, <2>1, WaitingIsSound
<1>6. GoroutinesSound'
  BY <1>1, <1>3, <1>4, <1>5 DEF OrderInv, GoroutinesSound
<1>7. BroadcastTyped'
  <2>1. chats' \in [Peers -> Nat]
    BY <1>1, <1>2
  <2>2. go' \in [Threads -> Goroutines]
    BY <1>3, <1>6 DEF GoroutinesSound, Sound
  <2> QED
    BY <1>1, <2>1, <2>2 DEF OrderInv, BroadcastTyped
<1>8. \A q \in Peers : \A i \in DOMAIN live[q] :
        live[q][i][1] \in Peers /\ live[q][i][2] \in Nat
  BY <1>2 DEF Messages
<1>9. ChatsSaid'
  BY <1>1, <1>2, <1>8 DEF OrderInv, ChatsSaid
<1>10. ChatsInOrder'
  BY <1>1 DEF OrderInv, ChatsInOrder
<1>11. ChatsUnseen'
  <2>1. \A q \in Peers : Unseen(p, q)'
    BY <1>1, <1>2, <1>4, <1>8 DEF OrderInv, ChatsSaid, Unseen, LastChat
  <2>2. \A u \in Threads \ {p}, q \in Peers : Brings(go'[u], q) => Unseen(u, q)'
    BY <1>1, <1>3, <1>4 DEF OrderInv, ChatsUnseen, Unseen
  <2> QED
    BY <2>1, <2>2 DEF ChatsUnseen
<1>12. OrderInv'
  BY <1>6, <1>7, <1>9, <1>10, <1>11 DEF OrderInv
<1>13. AllCovered'
  <2>1. \A q, m : ~ Pending(go[p], q, m)
    BY <1>1, NothingPending DEF OrderInv, GoroutinesSound
  <2> QED
    BY <1>1, <1>3, <2>1, SteadyStepKeepsCover
<1> QED
  BY <1>12, <1>13 DEF BroadcastInv

LEMMA ReadsKeepInv ==
  ASSUME BroadcastInv, NEW p \in Peers,
         \/ HandleWebSocket(p) \/ ReadJoin(p) \/ ReadChat(p) \/ ReadError(p)
         \/ \E q \in Peers : ReadRelay(p, q)
  PROVE  BroadcastInv'
<1>1. p \in Threads /\ p # Clerk /\ Tasks \ {"chat"} = {"register", "join", "leave", "mark"}
  BY BroadcastAssumption DEF Threads, Tasks
<1>2. CASE HandleWebSocket(p)
  BY <1>1, <1>2, ToLockKeepsInv DEF HandleWebSocket, counts
<1>3. CASE ReadJoin(p)
  BY <1>1, <1>3, ToLockKeepsInv DEF ReadJoin, Reads, counts
<1>4. CASE ReadError(p)
  BY <1>1, <1>4, ToLockKeepsInv DEF ReadError, Reads, counts
<1>5. CASE \E q \in Peers : ReadRelay(p, q)
  <2>1. PICK q \in Peers : ReadRelay(p, q)
    BY <1>5
  <2>2. {q} \in SUBSET Peers
    OBVIOUS
  <2> QED
    BY <1>1, <2>1, <2>2, NoticesKeepInv DEF ReadRelay, Reads
<1> QED
  BY <1>2, <1>3, <1>4, <1>5, ReadChatKeepsInv

LEMMA CallsKeepInv ==
  ASSUME BroadcastInv, BroadcastControlMessage \/ HandleSdpMutator
  PROVE  BroadcastInv'
<1>1. Clerk \in Threads /\ Clerk \notin Peers /\ "mark" \in Tasks \ {"chat"}
  BY BroadcastAssumption DEF Threads, Tasks
<1>2. Idle.stage = "idle"
  BY DEF Idle, Working
<1>3. CASE BroadcastControlMessage
  BY <1>1, <1>2, <1>3, ToLockKeepsInv DEF BroadcastControlMessage, counts
<1>4. CASE HandleSdpMutator
  <2>1. go[Clerk].stage = "idle" /\ {} \in SUBSET Peers
    BY <1>2, <1>4 DEF HandleSdpMutator
  <2>2. /\ go' = [go EXCEPT ![Clerk] = Working(<<Room({}, Notice)>>)]
        /\ UNCHANGED <<room, pages, torn, chats>>
    BY <1>4 DEF HandleSdpMutator, IsRoomOverloadedOrPaused
  <2> QED
    BY <1>1, <2>1, <2>2, NoticesKeepInv
<1> QED
  BY <1>3, <1>4

LEMMA BeginStepKeepsInv ==
  ASSUME BroadcastInv, NEW t \in Threads, BeginStep(t)
  PROVE  BroadcastInv'
<1>1. /\ Sound(t, go[t], conns, LastChat(t)) /\ go[t].stage = "work" /\ go[t] \in Goroutines
      /\ conns' = conns /\ sessions \subseteq conns /\ conns \in SUBSET Peers
      /\ UNCHANGED <<room, pages, torn, chats>>
  BY DEF BroadcastInv, OrderInv, GoroutinesSound, BroadcastTyped, BeginStep, room, counts, Sound
<1> DEFINE g == [go[t] EXCEPT !.stage = "rlock"]
<1>2. /\ Becomes(t, go[t], Begun(go[t], conns))
      /\ \A q \in sessions \ broken : \A m : Pending(go[t], q, m) => Pending(Begun(go[t], conns), q, m)
  BY <1>1, BegunIsSound DEF Becomes
<1>3. /\ Becomes(t, go[t], g)
      /\ \A q \in sessions \ broken : \A m : Pending(go[t], q, m) => Pending(g, q, m)
  <2>1. /\ g \in Goroutines /\ g.stage = "rlock" /\ g.plan = go[t].plan /\ g.task = go[t].task
        /\ g.todo = go[t].todo
    BY <1>1 DEF Goroutines, Stages
  <2> HIDE DEF g
  <2>2. Sound(t, g, conns, LastChat(t))
    BY <1>1, <2>1 DEF Sound, Fits, Alone
  <2>3. \A q : Brings(g, q) => Brings(go[t], q)
    BY <1>1, <2>1 DEF Brings, Says
  <2>4. \A q, m : Pending(go[t], q, m) => Pending(g, q, m)
    BY <1>1, <2>1 DEF Pending, To
  <2> QED
    BY <1>1, <2>2, <2>3, <2>4 DEF Becomes
<1>4. go' = [go EXCEPT ![t] = Begun(go[t], conns)] \/ go' = [go EXCEPT ![t] = g]
  BY DEF BeginStep
<1> QED
  BY <1>1, <1>2, <1>3, <1>4, OneStepKeepsInv
-----------------------------------------------------------------------------
(***************************************************************************)
(* What is done under the write lock.                                      *)
(***************************************************************************)
\* Unlock: those that waited for the read lock are in, t has its steps to
\* write.  No page in the registry loses what was to come to it.
LEMMA DoneBecomes ==
  ASSUME OrderInv, NEW t \in Threads, go[t].stage = "lock",
         NEW steps \in Seq(PlanSteps), Done(t, steps),
         conns' \in SUBSET Peers,
         \A u \in Threads \ {t} : go[u].task = "join" /\ u \in conns => u \in conns',
         \A i \in DOMAIN steps :
           /\ steps[i].frame.kind = "notice" => steps[i].frame.chats = <<>>
           /\ steps[i].frame.kind = "chat" =>
                /\ go[t].task = "chat" /\ t \in Peers /\ Len(steps) = 1
                /\ steps[i].frame.chats = <<<<t, LastChat(t)>>>>
  PROVE  /\ UNCHANGED <<live, dumped, broken, chats, torn>>
         /\ DOMAIN go' = Threads /\ go' = [u \in Threads |-> go'[u]]
         /\ \A u \in Threads : Becomes(u, go[u], go'[u])
         /\ go'[t] = Working(steps)
         /\ \A u \in Threads, q \in conns' : \A m : Pending(go[u], q, m) => Pending(go'[u], q, m)
<1>1. UNCHANGED <<live, dumped, broken, chats, torn>>
  BY DEF Done, pages, counts
<1>2. /\ DOMAIN go' = Threads /\ go' = [u \in Threads |-> go'[u]]
      /\ go'[t] = Working(steps)
      /\ \A u \in Threads \ {t} :
           go'[u] = IF go[u].stage = "rlock" THEN Begun(go[u], conns') ELSE go[u]
  BY DEF Done, Planned, OrderInv, BroadcastTyped
<1>3. /\ Becomes(t, go[t], go'[t])
      /\ \A q, m : ~ Pending(go[t], q, m)
  <2>1. Sound(t, go[t], conns, LastChat(t))
    BY DEF OrderInv, GoroutinesSound
  <2>2. \A q, m : ~ Pending(go[t], q, m)
    BY <2>1, NothingPending
  <2>3. Sound(t, Working(steps), conns', LastChat(t))
    BY WorkingIsSound
  <2>4. ASSUME NEW q, Brings(Working(steps), q) PROVE Brings(go[t], q)
    <3>1. \E i \in DOMAIN steps : steps[i].frame.kind = "chat"
      BY <2>4, WorkingIsSound
    <3> QED
      BY <3>1 DEF Brings
  <2> QED
    BY <1>2, <2>2, <2>3, <2>4 DEF Becomes
<1>4. ASSUME NEW u \in Threads \ {t}
      PROVE  /\ Becomes(u, go[u], go'[u])
             /\ \A q \in conns' : \A m : Pending(go[u], q, m) => Pending(go'[u], q, m)
  <2>1. Sound(u, go[u], conns, LastChat(u))
    BY DEF OrderInv, GoroutinesSound
  <2>2. Sound(u, go[u], conns', LastChat(u))
    BY <2>1 DEF Sound, Fits
  <2>3. CASE go[u].stage = "rlock"
    <3>1. go'[u] = Begun(go[u], conns')
      BY <1>2, <2>3
    <3>2. /\ Sound(u, Begun(go[u], conns'), conns', LastChat(u))
          /\ \A q : Brings(Begun(go[u], conns'), q) => Brings(go[u], q)
          /\ \A q \in conns' : \A m : Pending(go[u], q, m) => Pending(Begun(go[u], conns'), q, m)
      BY <2>2, <2>3, BegunIsSound
    <3> QED
      BY <3>1, <3>2 DEF Becomes
  <2>4. CASE go[u].stage # "rlock"
    BY <1>2, <2>2, <2>4 DEF Becomes
  <2> QED
    BY <2>3, <2>4
<1> QED
  BY <1>1, <1>2, <1>3, <1>4

\* Whatever is done, every session and every message that is new is covered
\* by the steps.
LEMMA DoneKeepsInv ==
  ASSUME BroadcastInv, NEW t \in Threads, go[t].stage = "lock",
         NEW steps \in Seq(PlanSteps), Done(t, steps),
         conns' \in SUBSET Peers, sessions' \subseteq conns', history' \in Seq(Messages),
         \A u \in Threads \ {t} : go[u].task = "join" /\ u \in conns => u \in conns',
         \A i \in DOMAIN steps :
           /\ steps[i].frame.kind = "notice" => steps[i].frame.chats = <<>>
           /\ steps[i].frame.kind = "chat" =>
                /\ go[t].task = "chat" /\ t \in Peers /\ Len(steps) = 1
                /\ steps[i].frame.chats = <<<<t, LastChat(t)>>>>,
         \A p \in sessions', i \in DOMAIN history' :
           \/ p \in sessions /\ i \in DOMAIN history /\ history'[i] = history[i]
           \/ \E j \in DOMAIN steps : p \in steps[j].to /\ Holds(steps[j].frame, history'[i])
  PROVE  BroadcastInv'
<1>1. OrderInv /\ AllCovered
  BY DEF BroadcastInv
<1>2. /\ UNCHANGED <<live, dumped, broken, chats, torn>>
      /\ DOMAIN go' = Threads /\ go' = [u \in Threads |-> go'[u]]
      /\ \A u \in Threads : Becomes(u, go[u], go'[u])
      /\ go'[t] = Working(steps)
      /\ \A u \in Threads, q \in conns' : \A m : Pending(go[u], q, m) => Pending(go'[u], q, m)
  BY <1>1, DoneBecomes
<1>3. OrderInv'
  BY <1>1, <1>2, SilentStepKeepsOrder
<1>4. \A q, m, j : j \in DOMAIN steps /\ q \in steps[j].to /\ Holds(steps[j].frame, m)
        => Pending(go'[t], q, m)
  <2>1. \A i \in DOMAIN steps :
          /\ steps[i].frame.kind = "notice" => steps[i].frame.chats = <<>>
          /\ steps[i].frame.kind = "chat" =>
               t \in Peers /\ Len(steps) = 1 /\ steps[i].frame.chats = <<<<t, LastChat(t)>>>>
    OBVIOUS
  <2> QED
    BY <1>2, <2>1, WorkingIsSound
<1>5. \A p \in sessions' \ broken', i \in DOMAIN history' :
        \/ p \in sessions /\ i \in DOMAIN history /\ history'[i] = history[i]
        \/ \E u \in Threads : Pending(go'[u], p, history'[i])
  BY <1>4
<1>6. AllCovered'
  BY <1>1, <1>2, <1>5, SteadyStepKeepsCover
<1> QED
  BY <1>3, <1>6 DEF BroadcastInv
LEMMA CriticalKeepsInv ==
  ASSUME BroadcastInv, NEW t \in Threads, Critical(t)
  PROVE  BroadcastInv'
<1>1. /\ Sound(t, go[t], conns, LastChat(t)) /\ go[t].stage = "lock"
      /\ go[t].task = "mark" \/ (t \in Peers /\ t # Clerk)
  <2>1. Sound(t, go[t], conns, LastChat(t))
    BY DEF BroadcastInv, OrderInv, GoroutinesSound
  <2>2. go[t].task \in Tasks
    BY DEF Critical, Tasks
  <2>3. go[t].stage = "lock"
    BY <2>1, <2>2, BroadcastAssumption DEF Sound, Fits, Tasks
  <2>4. t = Clerk => go[t].task = "mark"
    BY <2>1, <2>2, BroadcastAssumption DEF Sound, Fits, Tasks
  <2> QED
    BY <2>1, <2>3, <2>4 DEF Threads
<1>2. /\ conns \in SUBSET Peers /\ sessions \subseteq conns /\ history \in Seq(Messages)
      /\ \A u \in Threads : go[u].task = "join" => u \in conns
  BY DEF BroadcastInv, OrderInv, BroadcastTyped, GoroutinesSound, Sound, Fits
<1>3. <<>> \in Seq(PlanSteps) /\ DOMAIN <<>> = {}
  BY EmptySeq
<1>4. CASE go[t].task = "register" /\ Register(t)
  <2>1. /\ Done(t, <<>>) /\ conns' \in SUBSET Peers /\ conns \subseteq conns'
        /\ sessions' = sessions /\ history' = history
    BY <1>1, <1>2, <1>4 DEF Register
  <2> QED
    BY <1>1, <1>2, <1>3, <2>1, DoneKeepsInv
<1>5. CASE go[t].task = "mark" /\ Mark
  <2>1. /\ Done(t, <<>>) /\ conns' = conns /\ sessions' = sessions /\ history' = history
    <3>1. go[t].task = "mark" => t = Clerk
      BY <1>1 DEF Sound, Fits
    <3> QED
      BY <1>5, <3>1 DEF Mark, room
  <2> QED
    BY <1>1, <1>2, <1>3, <2>1, DoneKeepsInv
<1>6. CASE go[t].task = "leave" /\ Leave(t)
  <2> DEFINE steps == <<Room(Peers, Notice)>>
  <2>1. steps \in Seq(PlanSteps) /\ DOMAIN steps = {1} /\ steps[1].frame = Notice
    BY NoticeIsFrame DEF Room, PlanSteps
  <2>2. /\ Done(t, steps) /\ conns' \in SUBSET Peers /\ sessions' \subseteq conns'
        /\ sessions' \subseteq sessions /\ history' = history
        /\ \A u \in Threads \ {t} : u \in conns => u \in conns'
    BY <1>2, <1>6 DEF Leave
  <2>3. \A i \in DOMAIN steps : steps[i].frame.kind = "notice" /\ steps[i].frame.chats = <<>>
    BY <2>1, NoticeIsFrame
  <2> HIDE DEF steps
  <2>4. \A i \in DOMAIN steps : steps[i].frame.kind # "chat"
    BY <2>3
  <2> QED
    BY <1>1, <1>2, <2>1, <2>2, <2>3, <2>4, DoneKeepsInv
<1>7. CASE go[t].task = "chat" /\ ChatFlood(t)
  <2> DEFINE steps == <<Own(t, Notice)>>
  <2>1. steps \in Seq(PlanSteps) /\ DOMAIN steps = {1} /\ steps[1].frame = Notice
    <3>1. Own(t, Notice) \in PlanSteps
      BY <1>1, <1>7, NoticeIsFrame DEF Own, PlanSteps
    <3> QED
      BY <3>1 DEF Own
  <2>2. Done(t, steps) /\ conns' = conns /\ sessions' = sessions /\ history' = history
    BY <1>7 DEF ChatFlood, room
  <2>3. \A i \in DOMAIN steps : steps[i].frame.kind = "notice" /\ steps[i].frame.chats = <<>>
    BY <2>1, NoticeIsFrame
  <2> HIDE DEF steps
  <2>4. \A i \in DOMAIN steps : steps[i].frame.kind # "chat"
    BY <2>3
  <2> QED
    BY <1>1, <1>2, <2>1, <2>2, <2>3, <2>4, DoneKeepsInv
<1>8. CASE go[t].task = "chat" /\ ChatPassed(t)
  <2> DEFINE steps == <<Room(Peers, ChatOf(t))>>
             m == <<t, chats[t]>>
  <2>1. t \in Peers /\ LastChat(t) = chats[t] /\ m \in Messages
    BY <1>1, <1>8 DEF BroadcastInv, OrderInv, BroadcastTyped, LastChat, Messages
  <2>2. ChatOf(t) \in Frames /\ ChatOf(t).kind = "chat" /\ ChatOf(t).chats = <<m>>
    BY <2>1 DEF ChatOf, Frame, Frames
  <2>3. /\ steps \in Seq(PlanSteps) /\ DOMAIN steps = {1} /\ Len(steps) = 1
        /\ steps[1].frame = ChatOf(t) /\ steps[1].to = Peers
    BY <2>2 DEF Room, PlanSteps
  <2>4. Done(t, steps) /\ conns' = conns /\ sessions' = sessions /\ history' = history \o <<m>>
    BY <1>8, <2>2 DEF ChatPassed
  <2>5. \A i \in DOMAIN steps :
           /\ steps[i].frame.kind = "notice" => steps[i].frame.chats = <<>>
           /\ steps[i].frame.kind = "chat" =>
                /\ go[t].task = "chat" /\ t \in Peers /\ Len(steps) = 1
                /\ steps[i].frame.chats = <<<<t, LastChat(t)>>>>
    BY <1>8, <2>1, <2>2, <2>3
  <2>6. /\ history' \in Seq(Messages)
        /\ \A i \in DOMAIN history' : (i \in DOMAIN history /\ history'[i] = history[i])
                                        \/ history'[i] = m
    BY <1>2, <2>1, <2>4
  <2>7. Holds(ChatOf(t), m)
    BY <2>2 DEF Holds
  <2> HIDE DEF steps, m
  <2>8. \A p \in sessions', i \in DOMAIN history' :
           \/ p \in sessions /\ i \in DOMAIN history /\ history'[i] = history[i]
           \/ \E j \in DOMAIN steps : p \in steps[j].to /\ Holds(steps[j].frame, history'[i])
    BY <1>2, <2>3, <2>4, <2>6, <2>7
  <2> QED
    BY <1>1, <1>2, <2>3, <2>4, <2>5, <2>6, <2>8, DoneKeepsInv
<1>9. CASE go[t].task = "join" /\ Join(t)
  <2> DEFINE dump == Frame("dump", history)
             steps == <<Own(t, dump), Room(IF Lecture THEN {t} ELSE {}, Notice),
                        Room(Peers \ {t}, Notice)>>
  <2>1. t \in conns /\ t \in Peers
    BY <1>1, <1>2, <1>9
  <2>2. dump \in Frames /\ dump.kind = "dump" /\ dump.chats = history
    BY <1>2 DEF Frame, Frames
  <2>3. /\ steps \in Seq(PlanSteps) /\ DOMAIN steps = {1, 2, 3}
        /\ steps[1].frame = dump /\ steps[1].to = {t}
        /\ steps[2].frame = Notice /\ steps[3].frame = Notice
    <3>1. /\ Own(t, dump) \in PlanSteps /\ Room(Peers \ {t}, Notice) \in PlanSteps
          /\ Room(IF Lecture THEN {t} ELSE {}, Notice) \in PlanSteps
      BY <2>1, <2>2, NoticeIsFrame DEF Own, Room, PlanSteps
    <3>2. /\ Own(t, dump).frame = dump /\ Own(t, dump).to = {t}
          /\ \A to : Room(to, Notice).frame = Notice
      BY DEF Own, Room
    <3> HIDE DEF dump
    <3> QED
      BY <3>1, <3>2
  <2>4. /\ Done(t, steps) /\ conns' = conns /\ sessions' = sessions \union {t}
        /\ history' = history
    BY <1>9 DEF Join
  <2> HIDE DEF steps, dump
  <2>5. \A i \in DOMAIN steps : /\ steps[i].frame.kind = "notice" => steps[i].frame.chats = <<>>
                                /\ steps[i].frame.kind # "chat"
    BY <2>2, <2>3, NoticeIsFrame
  <2>6. \A i \in DOMAIN history : Holds(dump, history[i])
    BY <2>2 DEF Holds
  <2>7. \A p \in sessions', i \in DOMAIN history' :
           \/ p \in sessions /\ i \in DOMAIN history /\ history'[i] = history[i]
           \/ \E j \in DOMAIN steps : p \in steps[j].to /\ Holds(steps[j].frame, history'[i])
    BY <2>3, <2>4, <2>6
  <2>8. sessions' \subseteq conns'
    BY <1>2, <2>1, <2>4
  <2> QED
    BY <1>1, <1>2, <2>3, <2>4, <2>5, <2>7, <2>8, DoneKeepsInv
<1> QED
  BY <1>4, <1>5, <1>6, <1>7, <1>8, <1>9 DEF Critical

LEMMA LockAndBreakKeepInv ==
  ASSUME BroadcastInv, (\E t \in Threads : Lock(t)) \/ \E p \in Peers : Break(p)
  PROVE  BroadcastInv'
<1>1. /\ OrderInv /\ AllCovered /\ UNCHANGED <<room, go, live, dumped, chats, torn>>
      /\ conns' = conns /\ sessions' = sessions /\ history' = history
      /\ broken \subseteq broken'
  BY DEF BroadcastInv, Lock, Break, room, pages, counts
<1>2. OrderInv'
  <2>1. DOMAIN go' = Threads /\ go' = [t \in Threads |-> go'[t]]
    BY <1>1 DEF OrderInv, BroadcastTyped
  <2>2. \A t \in Threads : Becomes(t, go[t], go'[t])
    BY <1>1, SameGoroutine
  <2>3. conns' \subseteq Peers /\ sessions' \subseteq conns' /\ history' \in Seq(Messages)
    BY <1>1 DEF OrderInv, BroadcastTyped
  <2> QED
    BY <1>1, <2>1, <2>2, <2>3, SilentStepKeepsOrder
<1>3. AllCovered'
  BY <1>1, SteadyStepKeepsCover
<1> QED
  BY <1>2, <1>3 DEF BroadcastInv
-----------------------------------------------------------------------------
(***************************************************************************)
(* What is written to a page.                                              *)
(***************************************************************************)
\* The page of q takes nothing that orders, or the chat that v brought to it
\* and does not bring a second time.
LEMMA TakenKeepsOrder ==
  ASSUME OrderInv, UNCHANGED <<room, chats>>, NEW q \in Peers, NEW s \in Seq(Messages),
         live' = [live EXCEPT ![q] = @ \o s], dumped' \in [Peers -> Seq(Messages)],
         DOMAIN go' = Threads, go' = [t \in Threads |-> go'[t]],
         \A t \in Threads : Becomes(t, go[t], go'[t]),
         \/ s = <<>>
         \/ \E v \in Peers : s = <<<<v, chats[v]>>>> /\ Unseen(v, q) /\ ~ Brings(go'[v], q)
  PROVE  OrderInv'
<1>1. /\ live \in [Peers -> Seq(Messages)] /\ chats \in [Peers -> Nat] /\ chats' = chats
      /\ conns' = conns /\ sessions' = sessions /\ history' = history
      /\ live' \in [Peers -> Seq(Messages)] /\ live'[q] = live[q] \o s
      /\ \A x \in Peers \ {q} : live'[x] = live[x]
  BY DEF OrderInv, BroadcastTyped, room
<1>2. GoroutinesSound'
  BY <1>1 DEF GoroutinesSound, Becomes, LastChat
<1>3. BroadcastTyped'
  BY <1>1 DEF OrderInv, BroadcastTyped, Becomes, Sound
<1>4. CASE s = <<>>
  <2>1. live' = live
    BY <1>1, <1>4
  <2>2. ChatsSaid' /\ ChatsInOrder'
    BY <1>1, <2>1 DEF OrderInv, ChatsSaid, ChatsInOrder
  <2>3. ChatsUnseen'
    <3> SUFFICES ASSUME NEW t \in Threads, NEW x \in Peers, Brings(go'[t], x)
                 PROVE  Unseen(t, x)'
      BY DEF ChatsUnseen
    <3>1. Unseen(t, x)
      BY DEF OrderInv, ChatsUnseen, Becomes
    <3> QED
      BY <1>1, <2>1, <3>1 DEF Unseen, LastChat
  <2> QED
    BY <1>2, <1>3, <2>2, <2>3 DEF OrderInv
<1>5. ASSUME NEW v \in Peers, s = <<<<v, chats[v]>>>>, Unseen(v, q), ~ Brings(go'[v], q)
      PROVE  OrderInv'
  <2>1. Len(live[q]) \in Nat /\ DOMAIN live[q] = 1 .. Len(live[q])
    BY <1>1, LenProperties
  <2>2. /\ DOMAIN live'[q] = 1 .. Len(live[q]) + 1
        /\ \A i \in DOMAIN live[q] : live'[q][i] = live[q][i]
        /\ live'[q][Len(live[q]) + 1] = <<v, chats[v]>>
    <3>1. <<v, chats[v]>> \in Messages
      BY <1>1 DEF Messages
    <3>2. live'[q] = Append(live[q], <<v, chats[v]>>)
      BY <1>1, <1>5, <3>1
    <3> QED
      BY <1>1, <2>1, <3>1, <3>2, AppendProperties, LenProperties
  <2>3. \A i \in DOMAIN live[q] : live[q][i][1] = v => live[q][i][2] < chats[v]
    BY <1>5 DEF Unseen, LastChat
  <2>5. \A i \in DOMAIN live'[q] :
          (i \in DOMAIN live[q] /\ live'[q][i] = live[q][i])
            \/ (i = Len(live[q]) + 1 /\ live'[q][i] = <<v, chats[v]>>)
    BY <2>1, <2>2
  <2>6. ChatsSaid'
    <3> SUFFICES ASSUME NEW x \in Peers, NEW i \in DOMAIN live'[x]
                 PROVE  live'[x][i][2] <= chats[live'[x][i][1]]
      BY <1>1 DEF ChatsSaid
    <3>1. CASE i \in DOMAIN live[x] /\ live'[x][i] = live[x][i]
      BY <3>1 DEF OrderInv, ChatsSaid
    <3>2. CASE live'[x][i] = <<v, chats[v]>>
      <4>1. live'[x][i][1] = v /\ live'[x][i][2] = chats[v]
        BY <3>2
      <4>2. chats[v] \in Nat
        BY <1>1
      <4>3. chats[v] <= chats[v]
        BY <4>2
      <4> QED
        BY <4>1, <4>3
    <3>3. CASE x # q
      <4>1. live'[x] = live[x]
        BY <1>1, <3>3
      <4> QED
        BY <3>1, <4>1
    <3>4. CASE x = q
      BY <2>5, <3>1, <3>2, <3>4
    <3> QED
      BY <3>3, <3>4
  <2>7. ChatsInOrder'
    <3> DEFINE Ordered(r) == \A i, j \in DOMAIN r : (i < j /\ r[i][1] = r[j][1]) => r[i][2] < r[j][2]
    <3>1. Ordered(live'[q])
      <4> SUFFICES ASSUME NEW i \in DOMAIN live'[q], NEW j \in DOMAIN live'[q], i < j,
                          live'[q][i][1] = live'[q][j][1]
                   PROVE  live'[q][i][2] < live'[q][j][2]
        OBVIOUS
      <4>1. i \in DOMAIN live[q] /\ live'[q][i] = live[q][i]
        BY <2>1, <2>2, <2>5
      <4>2. CASE j \in DOMAIN live[q] /\ live'[q][j] = live[q][j]
        BY <4>1, <4>2 DEF OrderInv, ChatsInOrder
      <4>3. CASE live'[q][j] = <<v, chats[v]>>
        BY <2>3, <4>1, <4>3
      <4> QED
        BY <2>5, <4>2, <4>3
    <3>2. \A p \in Peers \ {q} : Ordered(live'[p])
      BY <1>1 DEF OrderInv, ChatsInOrder
    <3>3. ChatsInOrder' <=> \A p \in Peers : Ordered(live'[p])
      BY DEF ChatsInOrder
    <3> HIDE DEF Ordered
    <3> QED
      BY <3>1, <3>2, <3>3
  <2>8. ChatsUnseen'
    <3> SUFFICES ASSUME NEW t \in Threads, NEW x \in Peers, Brings(go'[t], x)
                 PROVE  Unseen(t, x)'
      BY DEF ChatsUnseen
    <3>1. Unseen(t, x)
      BY DEF OrderInv, ChatsUnseen, Becomes
    <3>2. LastChat(t)' = LastChat(t)
      BY <1>1 DEF LastChat
    <3>3. CASE x # q
      BY <1>1, <3>1, <3>2, <3>3 DEF Unseen
    <3>4. CASE x = q
      <4>1. t # v
        BY <1>5, <3>4
      <4> QED
        BY <2>5, <3>1, <3>2, <3>4, <4>1 DEF Unseen
    <3> QED
      BY <3>3, <3>4
  <2> QED
    BY <1>2, <1>3, <2>6, <2>7, <2>8 DEF OrderInv
<1> QED
  BY <1>4, <1>5

LEMMA MembersOfConcat ==
  ASSUME NEW m, NEW s1 \in Seq(Messages), NEW s2 \in Seq(Messages)
  PROVE  (Among(m, s1) => Among(m, s1 \o s2)) /\ (Among(m, s2) => Among(m, s1 \o s2))
<1>1. /\ Len(s1) \in Nat /\ Len(s2) \in Nat
      /\ DOMAIN s1 = 1 .. Len(s1) /\ DOMAIN s2 = 1 .. Len(s2)
      /\ DOMAIN (s1 \o s2) = 1 .. Len(s1) + Len(s2)
  BY LenProperties, ConcatProperties
<1>2. \A i \in DOMAIN s1 : (s1 \o s2)[i] = s1[i]
  BY <1>1
<1>3. \A i \in DOMAIN s2 : i + Len(s1) \in DOMAIN (s1 \o s2) /\ (s1 \o s2)[i + Len(s1)] = s2[i]
  BY <1>1
<1>4. ASSUME Among(m, s1) PROVE Among(m, s1 \o s2)
  <2>1. PICK i \in DOMAIN s1 : s1[i] = m
    BY <1>4 DEF Among
  <2>2. i \in DOMAIN (s1 \o s2)
    BY <1>1
  <2> QED
    BY <1>2, <2>1, <2>2 DEF Among
<1>5. ASSUME Among(m, s2) PROVE Among(m, s1 \o s2)
  <2>1. PICK i \in DOMAIN s2 : s2[i] = m
    BY <1>5 DEF Among
  <2> QED
    BY <1>3, <2>1 DEF Among
<1> QED
  BY <1>4, <1>5

\* What a panic keeps from being written is torn.
LEMMA PendingIsUnwritten ==
  ASSUME NEW t \in Threads, go[t].stage = "write", NEW q, NEW m, Pending(go[t], q, m)
  PROVE  <<q, m>> \in Unwritten(t)
<1>1. PICK i \in DOMAIN go[t].plan : q \in To(go[t], i) /\ Holds(go[t].plan[i].frame, m)
  BY DEF Pending
<1>2. m \in ToSet(go[t].plan[i].frame.chats)
  BY <1>1 DEF Holds, ToSet
<1>3. q \in (IF i = 1 THEN go[t].todo ELSE go[t].plan[i].to)
  BY <1>1 DEF To
<1> QED
  BY <1>1, <1>2, <1>3 DEF Unwritten

\* The goroutines W write to q at a time; those in missed lose their frame,
\* those in panics panic, and at most one frame is taken.
Delivers(W, missed, panics, q) ==
  /\ UNCHANGED <<room, counts>>
  /\ \A v \in W : Writing(v, q)
  /\ \/ missed = W /\ UNCHANGED pages
     \/ \E v \in W : W \ missed = {v} /\ Receive(q, FrameOf(v))
  /\ torn \subseteq torn'
  /\ \A v \in panics : Unwritten(v) \subseteq torn'
  /\ \A v \in missed : {q} \X ToSet(FrameOf(v).chats) \subseteq torn'
  /\ go' = [v \in Threads |-> IF v \in panics THEN Panicked(v)
                              ELSE IF v \in W THEN AfterWrite(v, q) ELSE go[v]]

LEMMA DeliveryKeepsInv ==
  ASSUME BroadcastInv, NEW q \in Peers, NEW W \in SUBSET Threads,
         NEW panics \in SUBSET W, NEW missed \in SUBSET W, Delivers(W, missed, panics, q)
  PROVE  BroadcastInv'
<1> SUFFICES ASSUME UNCHANGED <<room, counts>>, \A v \in W : Writing(v, q),
                    \/ missed = W /\ UNCHANGED pages
                    \/ \E v \in W : W \ missed = {v} /\ Receive(q, FrameOf(v)),
                    torn \subseteq torn', \A v \in panics : Unwritten(v) \subseteq torn',
                    \A v \in missed : {q} \X ToSet(FrameOf(v).chats) \subseteq torn',
                    go' = [v \in Threads |-> IF v \in panics THEN Panicked(v)
                                             ELSE IF v \in W THEN AfterWrite(v, q) ELSE go[v]]
             PROVE  BroadcastInv'
  BY DEF Delivers
<1>1. /\ OrderInv /\ AllCovered /\ chats' = chats /\ broken' = broken
      /\ conns' = conns /\ sessions' = sessions /\ history' = history
      /\ conns \in SUBSET Peers /\ sessions \subseteq conns
      /\ live \in [Peers -> Seq(Messages)] /\ dumped \in [Peers -> Seq(Messages)]
      /\ chats \in [Peers -> Nat]
  BY DEF BroadcastInv, OrderInv, BroadcastTyped, room, counts, pages, Receive
<1>2. ASSUME NEW v \in W
      PROVE  /\ Sound(v, go[v], conns, LastChat(v)) /\ go[v].stage = "write" /\ q \in go[v].todo
             /\ go[v].todo \in SUBSET Peers /\ To(go[v], 1) = go[v].todo
             /\ go[v].plan \in Seq(PlanSteps) /\ go[v].plan # <<>>
             /\ FrameOf(v) = go[v].plan[1].frame /\ FrameOf(v) \in Frames
             /\ 1 \in DOMAIN go[v].plan
  <2>1. Sound(v, go[v], conns, LastChat(v)) /\ go[v].stage = "write" /\ q \in go[v].todo
    BY <1>1 DEF OrderInv, GoroutinesSound, Writing
  <2>2. go[v].todo \in SUBSET Peers /\ go[v].plan \in Seq(PlanSteps) /\ go[v].plan # <<>>
    BY <2>1 DEF Sound, Fits, Goroutines
  <2>3. /\ Head(go[v].plan) = go[v].plan[1] /\ Head(go[v].plan) \in PlanSteps
        /\ 1 \in DOMAIN go[v].plan
    <3>1. Len(go[v].plan) \in Nat /\ Len(go[v].plan) # 0
          /\ DOMAIN go[v].plan = 1 .. Len(go[v].plan)
      BY <2>2, EmptySeq, LenProperties
    <3> QED
      BY <2>2, <3>1, HeadTailProperties
  <2> QED
    BY <2>1, <2>2, <2>3 DEF FrameOf, To, PlanSteps
<1>3. ASSUME NEW v \in W
      PROVE  /\ Becomes(v, go[v], AfterWrite(v, q)) /\ ~ Brings(AfterWrite(v, q), q)
             /\ \A p, m : Pending(go[v], p, m) =>
                  \/ Pending(AfterWrite(v, q), p, m)
                  \/ p = q /\ Holds(FrameOf(v), m)
  <2> DEFINE left == go[v].todo \ {q}
  <2>1. left \in SUBSET Peers /\ left \subseteq go[v].todo
    BY <1>2
  <2>2. AfterWrite(v, q) = Left(go[v], left)
    BY DEF AfterWrite
  <2>3. To(go[v], 1) \ left \subseteq {q} /\ q \notin left
    BY <1>2
  <2> HIDE DEF left
  <2>4. /\ Sound(v, Left(go[v], left), conns, LastChat(v))
        /\ \A x : Brings(Left(go[v], left), x) => Brings(go[v], x) /\ x \in left
        /\ \A x, m : Pending(go[v], x, m) =>
              \/ Pending(Left(go[v], left), x, m)
              \/ x \in To(go[v], 1) \ left /\ Holds(go[v].plan[1].frame, m)
    BY <1>2, <2>1, LeftIsSound
  <2> QED
    BY <1>1, <1>2, <2>2, <2>3, <2>4 DEF Becomes
<1>4. ASSUME NEW v \in W
      PROVE  Becomes(v, go[v], Panicked(v)) /\ ~ Brings(Panicked(v), q)
  <2>1. CASE v \in conns
    <3>1. v # Clerk /\ "leave" \in Tasks
      BY <1>1, <2>1, BroadcastAssumption DEF Tasks
    <3>2. Sound(v, Waiting("leave"), conns', LastChat(v)) /\ \A x : ~ Brings(Waiting("leave"), x)
      BY <3>1, WaitingIsSound
    <3> QED
      BY <2>1, <3>2 DEF Becomes, Panicked
  <2>2. CASE v \notin conns
    BY <2>2, IdleIsSound DEF Becomes, Panicked
  <2> QED
    BY <2>1, <2>2
<1>5. /\ DOMAIN go' = Threads /\ go' = [t \in Threads |-> go'[t]]
      /\ \A v \in panics : go'[v] = Panicked(v)
      /\ \A v \in W \ panics : go'[v] = AfterWrite(v, q)
      /\ \A v \in Threads \ W : go'[v] = go[v]
  OBVIOUS
<1>6. \A t \in Threads : Becomes(t, go[t], go'[t])
  BY <1>1, <1>3, <1>4, <1>5, SameGoroutine
<1>7. \A v \in W : ~ Brings(go'[v], q)
  BY <1>3, <1>4, <1>5
<1>8. \/ live' = live /\ dumped' = dumped /\ missed = W
      \/ \E v \in W : /\ W \ missed = {v} /\ Receive(q, FrameOf(v))
  BY DEF pages
<1>9. CASE live' = live /\ dumped' = dumped /\ missed = W
  <2>1. OrderInv'
    BY <1>1, <1>5, <1>6, <1>9, SilentStepKeepsOrder DEF OrderInv, BroadcastTyped
  <2>2. AllCovered'
    <3> SUFFICES ASSUME NEW p \in sessions \ broken, NEW i \in DOMAIN history
                 PROVE  Covered(p, history[i])'
      BY <1>1 DEF AllCovered
    <3>1. Covered(p, history[i])
      BY <1>1 DEF AllCovered
    <3>2. ASSUME NEW t \in Threads, Pending(go[t], p, history[i])
          PROVE  <<p, history[i]>> \in torn' \/ Pending(go'[t], p, history[i])
      <4>1. CASE t \in panics
        BY <1>2, <3>2, <4>1, PendingIsUnwritten
      <4>2. CASE t \in W \ panics
        <5>1. CASE p = q /\ Holds(FrameOf(t), history[i])
          <6>1. history[i] \in ToSet(FrameOf(t).chats)
            BY <5>1 DEF Holds, ToSet
          <6> QED
            BY <1>9, <4>2, <5>1, <6>1
        <5> QED
          BY <1>3, <1>5, <3>2, <4>2, <5>1
      <4> QED
        BY <1>5, <3>2, <4>1, <4>2
    <3> QED
      BY <1>1, <1>9, <3>1, <3>2 DEF Covered
  <2> QED
    BY <2>1, <2>2 DEF BroadcastInv
<1>10. ASSUME NEW v \in W, W \ missed = {v}, Receive(q, FrameOf(v)) PROVE BroadcastInv'
  <2> DEFINE f == FrameOf(v)
             Taken(kind) == IF q \notin broken /\ f.kind = kind THEN f.chats ELSE <<>>
  <2>1. /\ f \in Frames /\ f.kind \in {"notice", "chat", "dump"} /\ f.chats \in Seq(Messages)
        /\ <<>> \in Seq(Messages)
    BY <1>2, EmptySeq DEF Frames
  <2>2. /\ live' = [live EXCEPT ![q] = @ \o Taken("chat")]
        /\ dumped' = [dumped EXCEPT ![q] = @ \o Taken("dump")]
    BY <1>10 DEF Receive
  <2>3. Taken("chat") \in Seq(Messages) /\ Taken("dump") \in Seq(Messages)
    BY <2>1
  <2>4. /\ f.kind = "notice" => f.chats = <<>>
        /\ f.kind = "chat" => /\ v \in Peers /\ f.chats = <<<<v, chats[v]>>>> /\ Brings(go[v], q)
    <3>1. f = go[v].plan[1].frame /\ 1 \in DOMAIN go[v].plan /\ q \in go[v].todo
      BY <1>2
    <3>2. Sound(v, go[v], conns, LastChat(v))
      BY <1>2
    <3> HIDE DEF f
    <3>3. f.kind = "chat" => Brings(go[v], q)
      BY <3>1 DEF Brings, Says
    <3> QED
      BY <3>1, <3>2, <3>3 DEF Sound, Fits, Alone, LastChat
  <2>5. Taken("chat") = <<>> \/ (/\ v \in Peers /\ Taken("chat") = <<<<v, chats[v]>>>>
                                 /\ Unseen(v, q) /\ ~ Brings(go'[v], q))
    <3>1. Brings(go[v], q) => Unseen(v, q)
      BY <1>1 DEF OrderInv, ChatsUnseen
    <3> QED
      BY <1>7, <2>4, <3>1
  <2>6. q \notin broken => \A m : Holds(f, m) => Among(m, Taken("chat")) \/ Among(m, Taken("dump"))
    <3>1. DOMAIN <<>> = {}
      OBVIOUS
    <3> QED
      BY <2>1, <2>4, <3>1 DEF Holds, Among
  <2> HIDE DEF f, Taken
  <2>7. /\ dumped' \in [Peers -> Seq(Messages)] /\ live' \in [Peers -> Seq(Messages)]
        /\ live'[q] = live[q] \o Taken("chat") /\ dumped'[q] = dumped[q] \o Taken("dump")
        /\ \A x \in Peers \ {q} : live'[x] = live[x] /\ dumped'[x] = dumped[x]
    BY <1>1, <2>2, <2>3
  <2>8. OrderInv'
    BY <1>1, <1>5, <1>6, <2>2, <2>3, <2>5, <2>7, TakenKeepsOrder
  <2>9. ASSUME NEW p \in Peers, NEW m
        PROVE  /\ Among(m, live[p]) => Among(m, live'[p])
               /\ Among(m, dumped[p]) => Among(m, dumped'[p])
               /\ p = q => /\ Among(m, Taken("chat")) => Among(m, live'[p])
                           /\ Among(m, Taken("dump")) => Among(m, dumped'[p])
    <3>1. live[q] \in Seq(Messages) /\ dumped[q] \in Seq(Messages)
      BY <1>1
    <3>2. \A s1, s2 \in Seq(Messages) :
            /\ Among(m, s1) => Among(m, s1 \o s2)
            /\ Among(m, s2) => Among(m, s1 \o s2)
      BY MembersOfConcat
    <3> QED
      BY <2>3, <2>7, <3>1, <3>2
  <2>10. AllCovered'
    <3> SUFFICES ASSUME NEW p \in sessions \ broken, NEW i \in DOMAIN history
                 PROVE  Covered(p, history[i])'
      BY <1>1 DEF AllCovered
    <3>1. Covered(p, history[i]) /\ p \in Peers
      BY <1>1 DEF AllCovered
    <3>2. ASSUME NEW t \in Threads, Pending(go[t], p, history[i])
          PROVE  \/ <<p, history[i]>> \in torn' \/ Pending(go'[t], p, history[i])
                 \/ Among(history[i], live'[p]) \/ Among(history[i], dumped'[p])
      <4>1. CASE t \in panics
        BY <1>2, <3>2, <4>1, PendingIsUnwritten
      <4>2. CASE t \in W \ panics
        <5>1. CASE p = q /\ Holds(FrameOf(t), history[i])
          <6>1. history[i] \in ToSet(FrameOf(t).chats)
            BY <5>1 DEF Holds, ToSet
          <6>2. t \in missed => <<p, history[i]>> \in torn'
            BY <5>1, <6>1
          <6>3. t = v => Among(history[i], live'[p]) \/ Among(history[i], dumped'[p])
            BY <2>6, <2>9, <3>1, <5>1 DEF f
          <6> QED
            BY <1>10, <4>2, <6>2, <6>3
        <5> QED
          BY <1>3, <1>5, <3>2, <4>2, <5>1
      <4> QED
        BY <1>5, <3>2, <4>1, <4>2
    <3> QED
      BY <1>1, <2>9, <3>1, <3>2 DEF Covered
  <2> QED
    BY <2>8, <2>10 DEF BroadcastInv
<1> QED
  BY <1>8, <1>9, <1>10
LEMMA WritesKeepInv ==
  ASSUME BroadcastInv, NEW t \in Threads, NEW q \in Peers,
         Write(t, q) \/ \E u \in Threads : Clash(t, u, q)
  PROVE  BroadcastInv'
<1>1. CASE Write(t, q)
  <2>1. go' = [v \in Threads |-> IF v \in {} THEN Panicked(v)
                                 ELSE IF v \in {t} THEN AfterWrite(v, q) ELSE go[v]]
    BY <1>1 DEF Write, BroadcastInv, OrderInv, BroadcastTyped
  <2>2. /\ UNCHANGED <<room, counts>> /\ torn' = torn /\ Writing(t, q) /\ Receive(q, FrameOf(t))
        /\ {t} \ {} = {t}
    BY <1>1 DEF Write
  <2> DEFINE W == {t}
             none == {}
  <2>3. /\ W \in SUBSET Threads /\ none \in SUBSET W
        /\ \A v \in W : Writing(v, q)
        /\ \E v \in W : W \ none = {v} /\ Receive(q, FrameOf(v))
        /\ go' = [v \in Threads |-> IF v \in none THEN Panicked(v)
                                    ELSE IF v \in W THEN AfterWrite(v, q) ELSE go[v]]
    BY <2>1, <2>2
  <2>4. \A v \in none : FALSE
    OBVIOUS
  <2> HIDE DEF W, none
  <2> QED
    BY <2>2, <2>3, <2>4, DeliveryKeepsInv DEF Delivers
<1>2. ASSUME NEW u \in Threads, Clash(t, u, q) PROVE BroadcastInv'
  <2> DEFINE W == {t, u}
  <2>1. PICK missed \in {{t}, {u}, {t, u}}, panics \in SUBSET {t, u} :
          /\ \/ missed = {t, u} /\ UNCHANGED pages
             \/ \E v \in {t, u} \ missed : Receive(q, FrameOf(v))
          /\ torn' = torn \union (UNION {Unwritten(v) : v \in panics})
               \union (UNION {{q} \X ToSet(FrameOf(v).chats) : v \in missed})
          /\ go' = [v \in Threads |-> IF v \in panics THEN Panicked(v)
                                      ELSE IF v \in {t, u} THEN AfterWrite(v, q) ELSE go[v]]
    BY <1>2 DEF Clash
  <2>2. /\ torn \subseteq torn' /\ \A v \in panics : Unwritten(v) \subseteq torn'
        /\ \A v \in missed : {q} \X ToSet(FrameOf(v).chats) \subseteq torn'
    BY <2>1
  <2>3. \/ missed = W /\ UNCHANGED pages
        \/ \E v \in W : W \ missed = {v} /\ Receive(q, FrameOf(v))
    BY <2>1
  <2>4. /\ W \in SUBSET Threads /\ panics \in SUBSET W /\ missed \in SUBSET W
        /\ UNCHANGED <<room, counts>>
        /\ \A v \in W : Writing(v, q)
    BY <1>2, <2>1 DEF Clash
  <2>5. go' = [v \in Threads |-> IF v \in panics THEN Panicked(v)
                                 ELSE IF v \in W THEN AfterWrite(v, q) ELSE go[v]]
    BY <2>1
  <2> HIDE DEF W
  <2>6. Delivers(W, missed, panics, q)
    BY <2>2, <2>3, <2>4, <2>5 DEF Delivers
  <2> QED
    BY <2>4, <2>6, DeliveryKeepsInv
<1> QED
  BY <1>1, <1>2
-----------------------------------------------------------------------------
(***************************************************************************)
(* The invariant, and what it says of the chat.                            *)
(***************************************************************************)
LEMMA BroadcastInitKeepsInv == BroadcastInit => BroadcastInv
<1> SUFFICES ASSUME BroadcastInit PROVE BroadcastInv
  OBVIOUS
<1>1. /\ conns = {} /\ sessions = {} /\ history = <<>> /\ live = [p \in Peers |-> <<>>]
      /\ dumped = [p \in Peers |-> <<>>] /\ chats = [p \in Peers |-> 0]
      /\ go = [t \in Threads |-> IF t = Clerk THEN Idle ELSE [Idle EXCEPT !.stage = "new"]]
  BY DEF BroadcastInit
<1>2. DOMAIN <<>> = {} /\ <<>> \in Seq(Messages) /\ <<>> \in Seq(PlanSteps)
  BY EmptySeq
<1>3. Idle = [stage |-> "idle", task |-> None, plan |-> <<>>, todo |-> {}]
  BY DEF Idle, Working
<1>4. [Idle EXCEPT !.stage = "new"] = [stage |-> "new", task |-> None, plan |-> <<>>, todo |-> {}]
  <2>1. Idle \in Goroutines /\ Idle.task = None /\ Idle.plan = <<>> /\ Idle.todo = {}
    BY <1>2, <1>3 DEF Goroutines, Stages
  <2>2. ASSUME NEW g \in Goroutines
        PROVE  [g EXCEPT !.stage = "new"] =
                 [stage |-> "new", task |-> g.task, plan |-> g.plan, todo |-> g.todo]
    BY DEF Goroutines
  <2>3. [Idle EXCEPT !.stage = "new"] =
          [stage |-> "new", task |-> Idle.task, plan |-> Idle.plan, todo |-> Idle.todo]
    BY <2>1, <2>2, Zenon
  <2> QED
    BY <2>1, <2>3
<1>5. ASSUME NEW t \in Threads
      PROVE  Sound(t, go[t], conns, LastChat(t)) /\ \A q : ~ Brings(go[t], q)
  <2>1. CASE t = Clerk
    BY <1>1, <2>1, IdleIsSound
  <2>2. CASE t # Clerk
    <3> DEFINE g == [stage |-> "new", task |-> None, plan |-> <<>>, todo |-> {}]
    <3>1. go[t] = g
      BY <1>1, <1>4, <2>2
    <3>2. g \in Goroutines
      BY <1>2 DEF Goroutines, Stages
    <3>3. /\ g.stage = "new" /\ g.task = None /\ g.plan = <<>> /\ DOMAIN g.plan = {}
      BY <1>2
    <3> HIDE DEF g
    <3>4. Sound(t, g, conns, LastChat(t))
      BY <2>2, <3>2, <3>3, BroadcastAssumption DEF Sound, Fits, Alone
    <3>5. \A q : ~ Brings(g, q)
      BY <3>3, BroadcastAssumption DEF Brings, Says
    <3> QED
      BY <3>1, <3>4, <3>5
  <2> QED
    BY <2>1, <2>2
<1>6. GoroutinesSound /\ ChatsUnseen
  BY <1>5 DEF GoroutinesSound, ChatsUnseen
<1>7. BroadcastTyped
  <2>1. go \in [Threads -> Goroutines]
    BY <1>1, <1>5 DEF Sound
  <2> QED
    BY <1>1, <1>2, <2>1 DEF BroadcastTyped
<1>8. ChatsSaid /\ ChatsInOrder /\ AllCovered
  BY <1>1, <1>2 DEF ChatsSaid, ChatsInOrder, AllCovered
<1> QED
  BY <1>6, <1>7, <1>8 DEF BroadcastInv, OrderInv

LEMMA BroadcastStepKeepsInv ==
  ASSUME BroadcastInv, [BroadcastNext]_broadcastVars
  PROVE  BroadcastInv'
<1>1. ASSUME NEW t \in Threads, Work(t) PROVE BroadcastInv'
  BY <1>1, LockAndBreakKeepInv, CriticalKeepsInv, BeginStepKeepsInv, WritesKeepInv DEF Work
<1>2. ASSUME NEW p \in Peers,
             \/ HandleWebSocket(p) \/ ReadJoin(p) \/ ReadChat(p) \/ ReadError(p)
             \/ \E q \in Peers : ReadRelay(p, q)
      PROVE  BroadcastInv'
  BY <1>2, ReadsKeepInv
<1>3. CASE UNCHANGED broadcastVars
  <2>1. /\ go' = go /\ conns' = conns /\ sessions' = sessions /\ history' = history
        /\ live' = live /\ dumped' = dumped /\ broken' = broken /\ chats' = chats /\ torn' = torn
    BY <1>3 DEF broadcastVars, room, pages, counts
  <2> QED
    BY <2>1 DEF BroadcastInv, OrderInv, BroadcastTyped, GoroutinesSound, AllCovered, Covered,
                ChatsSaid, Unseen, ChatsUnseen, ChatsInOrder, LastChat
<1> QED
  BY <1>1, <1>2, <1>3, CallsKeepInv, LockAndBreakKeepInv DEF BroadcastNext

\* The inductive invariant: what the goroutines may be at and what the pages
\* have (HandleWsSignal, broadcastToRoom).
THEOREM BroadcastInvariant == BroadcastSpec => []BroadcastInv
BY BroadcastInitKeepsInv, BroadcastStepKeepsInv, PTL DEF BroadcastSpec

(***************************************************************************)
(* For any number of peers, chats and calls, whatever breaks and whoever   *)
(* panics: a page gets the messages of a sender in the order they were     *)
(* sent and each at most once (one handler per sender, which broadcasts    *)
(* before it reads on, HandleWsSignal).                                    *)
(***************************************************************************)
THEOREM ChatsArriveInOrder == BroadcastSpec => []ChatsInOrder
<1>1. BroadcastInv => ChatsInOrder
  BY DEF BroadcastInv, OrderInv
<1> QED
  BY <1>1, BroadcastInvariant, PTL

(***************************************************************************)
(* For any number of peers: every message of the history has come to each  *)
(* page that has joined, alone or in the dump, or a goroutine has it still *)
(* to write to that page, or a clash of two writers took it.  The copy of  *)
(* the history and the session are one critical section in "join", and so  *)
(* are the new message and the list of its readers in "chat".              *)
(***************************************************************************)
THEOREM EveryChatIsOnItsWay == BroadcastSpec => []NobodyMissesAChat
<1>1. BroadcastInv => NobodyMissesAChat
  <2> SUFFICES ASSUME BroadcastInv, NEW p \in sessions \ broken, NEW m \in ToSet(history),
                      m \notin ToSet(live[p]) \union ToSet(dumped[p])
               PROVE  <<p, m>> \in
                        (UNION {Unwritten(t) : t \in {u \in Threads : go[u].stage = "write"}})
                        \union (UNION {UNION {step.to \X ToSet(step.frame.chats) :
                                                step \in ToSet(go[t].plan)} :
                                         t \in {u \in Threads : go[u].stage # "write"}})
                        \union torn
    BY Zenon DEF NobodyMissesAChat
  <2>1. PICK i \in DOMAIN history : history[i] = m
    BY DEF ToSet
  <2>2. Covered(p, m)
    BY <2>1 DEF BroadcastInv, AllCovered
  <2>3. ~ Among(m, live[p]) /\ ~ Among(m, dumped[p])
    BY DEF Among, ToSet
  <2>4. CASE <<p, m>> \in torn
    BY <2>4
  <2>5. ASSUME NEW t \in Threads, Pending(go[t], p, m), go[t].stage = "write"
        PROVE  <<p, m>> \in UNION {Unwritten(u) : u \in {u \in Threads : go[u].stage = "write"}}
    <3>1. <<p, m>> \in Unwritten(t)
      BY <2>5, PendingIsUnwritten
    <3> QED
      BY <2>5, <3>1
  <2>6. ASSUME NEW t \in Threads, Pending(go[t], p, m), go[t].stage # "write"
        PROVE  <<p, m>> \in UNION {UNION {step.to \X ToSet(step.frame.chats) :
                                            step \in ToSet(go[u].plan)} :
                                     u \in {u \in Threads : go[u].stage # "write"}}
    <3>1. PICK j \in DOMAIN go[t].plan : p \in To(go[t], j) /\ Holds(go[t].plan[j].frame, m)
      BY <2>6 DEF Pending
    <3> DEFINE step == go[t].plan[j]
    <3>2. p \in step.to /\ m \in ToSet(step.frame.chats) /\ step \in ToSet(go[t].plan)
      BY <2>6, <3>1 DEF To, Holds, ToSet
    <3>3. <<p, m>> \in UNION {s.to \X ToSet(s.frame.chats) : s \in ToSet(go[t].plan)}
      BY <3>2
    <3> QED
      BY <2>6, <3>3
  <2> QED
    BY <2>2, <2>3, <2>4, <2>5, <2>6 DEF Covered
<1> QED
  BY <1>1, BroadcastInvariant, PTL
-----------------------------------------------------------------------------
(***************************************************************************)
(* The chat log, for any senders, sizes of the queue and of a batch, and   *)
(* number of messages and starts: whatever crashes and fails, no message   *)
(* is written twice or out of order, and none is gone for no reason.       *)
(***************************************************************************)
\* The messages of each sender come in the order they were sent.
Ordered(s) ==
  \A i, j \in DOMAIN s : (i < j /\ s[i][1] = s[j][1]) => s[i][2] < s[j][2]
Before(S, T) == \A m \in S, n \in T : m[1] = n[1] => m[2] < n[2]

Gone == lost.full \union lost.unwritten \union lost.forgotten
Held == ToSet(file) \union ToSet(batch) \union ToSet(queue)

LogTyped ==
  /\ sending \in SUBSET Senders /\ sent \in [Senders -> 0 .. MaxSent]
  /\ \A s \in sending : sent[s] > 0
  /\ queue \in Seq(Message) /\ batch \in Seq(Message) /\ file \in Seq(Message)
  /\ lost \in [full : SUBSET Message, unwritten : SUBSET Message,
               forgotten : SUBSET Message]

\* File, batch and queue, in this order, are a row in which every sender's
\* messages come in order, and hold what was pushed and is not gone.
InARow ==
  /\ Ordered(file) /\ Ordered(batch) /\ Ordered(queue)
  /\ Before(ToSet(file), ToSet(batch)) /\ Before(ToSet(file), ToSet(queue))
  /\ Before(ToSet(batch), ToSet(queue))
NothingAstray == Held \union Gone = Pushed /\ Held \intersect Gone = {}

LogInv == LogTyped /\ InARow /\ NothingAstray
-----------------------------------------------------------------------------
(***************************************************************************)
(* Sequences and the sets of their elements.                               *)
(***************************************************************************)
LEMMA MessageParts ==
  ASSUME NEW m \in Message
  PROVE  m[1] \in Senders /\ m[2] \in Nat /\ m = <<m[1], m[2]>>
BY BatchAssumption DEF Message

LEMMA ElementsOfConcat ==
  ASSUME NEW S, NEW s \in Seq(S), NEW t \in Seq(S)
  PROVE  ToSet(s \o t) = ToSet(s) \union ToSet(t)
<1>1. \A x : x \in ToSet(s \o t) => x \in ToSet(s) \union ToSet(t)
  BY ConcatProperties DEF ToSet
<1>2. \A x \in ToSet(s) : x \in ToSet(s \o t)
  <2> TAKE x \in ToSet(s)
  <2>1. PICK i \in 1 .. Len(s) : x = s[i]
    BY DEF ToSet
  <2>2. (s \o t)[i] = x /\ i \in DOMAIN (s \o t)
    BY <2>1, ConcatProperties
  <2> QED
    BY <2>2 DEF ToSet
<1>3. \A x \in ToSet(t) : x \in ToSet(s \o t)
  <2> TAKE x \in ToSet(t)
  <2>1. PICK i \in 1 .. Len(t) : x = t[i]
    BY DEF ToSet
  <2>2. (s \o t)[i + Len(s)] = x /\ i + Len(s) \in DOMAIN (s \o t)
    BY <2>1, ConcatProperties
  <2> QED
    BY <2>2 DEF ToSet
<1> QED
  BY <1>1, <1>2, <1>3

\* A row of two sequences is ordered if both are and the first comes before
\* the second.
LEMMA OrderOfConcat ==
  ASSUME NEW s \in Seq(Message), NEW t \in Seq(Message)
  PROVE  Ordered(s \o t) <=>
           Ordered(s) /\ Ordered(t) /\ Before(ToSet(s), ToSet(t))
<1>1. /\ s \o t \in Seq(Message) /\ DOMAIN (s \o t) = 1 .. Len(s) + Len(t)
      /\ \A i \in 1 .. Len(s) + Len(t) :
           (s \o t)[i] = IF i <= Len(s) THEN s[i] ELSE t[i - Len(s)]
      /\ \A i \in 1 .. Len(s) : (s \o t)[i] = s[i]
      /\ \A i \in 1 .. Len(t) : (s \o t)[i + Len(s)] = t[i]
  BY ConcatProperties
<1>2. ASSUME Ordered(s \o t)
      PROVE  Ordered(s) /\ Ordered(t) /\ Before(ToSet(s), ToSet(t))
  <2>1. Ordered(s)
    <3> SUFFICES ASSUME NEW i \in 1 .. Len(s), NEW j \in 1 .. Len(s), i < j, s[i][1] = s[j][1]
                 PROVE  s[i][2] < s[j][2]
      BY DEF Ordered
    <3>1. i \in DOMAIN (s \o t) /\ j \in DOMAIN (s \o t)
      BY <1>1
    <3> QED
      BY <1>1, <1>2, <3>1 DEF Ordered
  <2>2. Ordered(t)
    <3> SUFFICES ASSUME NEW i \in 1 .. Len(t), NEW j \in 1 .. Len(t), i < j, t[i][1] = t[j][1]
                 PROVE  t[i][2] < t[j][2]
      BY DEF Ordered
    <3>1. /\ i + Len(s) \in DOMAIN (s \o t) /\ j + Len(s) \in DOMAIN (s \o t)
          /\ i + Len(s) < j + Len(s)
      BY <1>1
    <3>2. (s \o t)[i + Len(s)] = t[i] /\ (s \o t)[j + Len(s)] = t[j]
      BY <1>1
    <3>3. (s \o t)[i + Len(s)][1] = (s \o t)[j + Len(s)][1]
            => (s \o t)[i + Len(s)][2] < (s \o t)[j + Len(s)][2]
      BY <1>2, <3>1 DEF Ordered
    <3> QED
      BY <3>2, <3>3
  <2>3. Before(ToSet(s), ToSet(t))
    <3> SUFFICES ASSUME NEW i \in 1 .. Len(s), NEW j \in 1 .. Len(t), s[i][1] = t[j][1]
                 PROVE  s[i][2] < t[j][2]
      BY DEF Before, ToSet
    <3>1. i \in DOMAIN (s \o t) /\ j + Len(s) \in DOMAIN (s \o t) /\ i < j + Len(s)
      BY <1>1
    <3> QED
      BY <1>1, <1>2, <3>1 DEF Ordered
  <2> QED
    BY <2>1, <2>2, <2>3
<1>3. ASSUME Ordered(s), Ordered(t), Before(ToSet(s), ToSet(t))
      PROVE  Ordered(s \o t)
  <2> SUFFICES ASSUME NEW i \in 1 .. Len(s) + Len(t), NEW j \in 1 .. Len(s) + Len(t),
                      i < j, (s \o t)[i][1] = (s \o t)[j][1]
               PROVE  (s \o t)[i][2] < (s \o t)[j][2]
    BY <1>1 DEF Ordered
  <2>1. CASE j <= Len(s)
    BY <1>1, <1>3, <2>1 DEF Ordered
  <2>2. CASE i > Len(s)
    <3>1. i - Len(s) \in 1 .. Len(t) /\ j - Len(s) \in 1 .. Len(t) /\ i - Len(s) < j - Len(s)
      BY <2>2
    <3>2. (s \o t)[i] = t[i - Len(s)] /\ (s \o t)[j] = t[j - Len(s)]
      BY <1>1, <2>2
    <3> QED
      BY <1>3, <3>1, <3>2 DEF Ordered
  <2>3. CASE i <= Len(s) /\ j > Len(s)
    <3>1. s[i] \in ToSet(s) /\ t[j - Len(s)] \in ToSet(t)
      BY <2>3 DEF ToSet
    <3>2. (s \o t)[i] = s[i] /\ (s \o t)[j] = t[j - Len(s)]
      BY <1>1, <2>3
    <3> QED
      BY <1>3, <3>1, <3>2 DEF Before
  <2> QED
    BY <2>1, <2>2, <2>3
<1> QED
  BY <1>2, <1>3

\* What comes before something is not in it.
LEMMA BeforeIsApart ==
  ASSUME NEW S \in SUBSET Message, NEW T \in SUBSET Message, Before(S, T)
  PROVE  S \intersect T = {}
BY MessageParts DEF Before

LEMMA ElementsAreMessages ==
  ASSUME NEW s \in Seq(Message)
  PROVE  ToSet(s) \in SUBSET Message
BY ElementOfSeq DEF ToSet

\* Order leaves no room for a message twice.
LEMMA OrderedIsInjective ==
  ASSUME NEW s \in Seq(Message), Ordered(s)
  PROVE  IsInjective(s)
<1> SUFFICES ASSUME NEW i \in DOMAIN s, NEW j \in DOMAIN s, s[i] = s[j], i < j
             PROVE  FALSE
  BY DEF IsInjective
<1>1. s[i] \in Message
  BY ElementOfSeq
<1> QED
  BY <1>1, MessageParts DEF Ordered

LEMMA InjectiveConcat ==
  ASSUME NEW S, NEW s \in Seq(S), NEW t \in Seq(S),
         IsInjective(s), IsInjective(t), ToSet(s) \intersect ToSet(t) = {}
  PROVE  IsInjective(s \o t)
<1>1. \A i \in 1 .. Len(s) + Len(t) :
        (s \o t)[i] = IF i <= Len(s) THEN s[i] ELSE t[i - Len(s)]
  BY ConcatProperties
<1> SUFFICES ASSUME NEW i \in 1 .. Len(s) + Len(t), NEW j \in 1 .. Len(s) + Len(t),
                    (s \o t)[i] = (s \o t)[j], i < j
             PROVE  FALSE
  BY ConcatProperties DEF IsInjective
<1>2. CASE j <= Len(s)
  BY <1>1, <1>2 DEF IsInjective
<1>3. CASE i > Len(s)
  <2>1. i - Len(s) \in 1 .. Len(t) /\ j - Len(s) \in 1 .. Len(t) /\ i - Len(s) # j - Len(s)
    BY <1>3
  <2>2. t[i - Len(s)] = t[j - Len(s)]
    BY <1>1, <1>3
  <2> QED
    BY <2>1, <2>2 DEF IsInjective
<1>4. CASE i <= Len(s) /\ j > Len(s)
  <2>1. s[i] \in ToSet(s) /\ t[j - Len(s)] \in ToSet(t) /\ s[i] = t[j - Len(s)]
    BY <1>1, <1>4 DEF ToSet
  <2> QED
    BY <2>1
<1> QED
  BY <1>2, <1>3, <1>4

(***************************************************************************)
(* What flush and the queue do to an ordered row.                          *)
(***************************************************************************)
LEMMA SelectionsKeepOrder ==
  ASSUME NEW b \in Seq(Message), Ordered(b), NEW kept \in Selections(b)
  PROVE  kept \in Seq(Message) /\ Ordered(kept) /\ ToSet(kept) \subseteq ToSet(b)
<1> PICK n \in 0 .. Len(b) : \E pick \in [1 .. n -> DOMAIN b] :
        /\ \A i, j \in DOMAIN pick : i < j => pick[i] < pick[j]
        /\ kept = [i \in DOMAIN pick |-> b[pick[i]]]
  BY DEF Selections
<1>1. PICK pick \in [1 .. n -> DOMAIN b] :
        /\ \A i, j \in DOMAIN pick : i < j => pick[i] < pick[j]
        /\ kept = [i \in DOMAIN pick |-> b[pick[i]]]
  OBVIOUS
<1>2. DOMAIN kept = 1 .. n /\ n \in Nat /\ \A i \in 1 .. n : pick[i] \in DOMAIN b /\ kept[i] = b[pick[i]]
  BY <1>1
<1>3. \A i \in DOMAIN b : b[i] \in Message
  BY ElementOfSeq
<1>4. kept \in [1 .. n -> Message]
  BY <1>1, <1>2, <1>3
<1>5. kept \in Seq(Message)
  BY <1>2, <1>4
<1>6. Ordered(kept)
  BY <1>1, <1>2 DEF Ordered
<1>7. ToSet(kept) \subseteq ToSet(b)
  BY <1>2 DEF ToSet
<1> QED
  BY <1>5, <1>6, <1>7

\* A flush of b moves it behind the file, keeps it, or loses parts of it; short
\* of a full batch there is none.
FlushOrKeep(b) == Flush(b) \/ (batch' = b /\ UNCHANGED <<file, lost>>)

LEMMA FlushKeepsOrder ==
  ASSUME LogTyped, InARow,
         NEW b \in Seq(Message), Ordered(b), Before(ToSet(file), ToSet(b)), FlushOrKeep(b)
  PROVE  /\ file' \in Seq(Message) /\ batch' \in Seq(Message)
         /\ Ordered(file') /\ Ordered(batch') /\ Before(ToSet(file'), ToSet(batch'))
         /\ \E D \in SUBSET ToSet(b) :
              /\ lost' = [lost EXCEPT !.unwritten = @ \union D]
              /\ ToSet(file') \union ToSet(batch') = (ToSet(file) \union ToSet(b)) \ D
<1>1. ToSet(file) \in SUBSET Message /\ ToSet(b) \in SUBSET Message
  BY ElementsAreMessages DEF LogTyped
<1>2. ToSet(file) \intersect ToSet(b) = {}
  BY <1>1, BeforeIsApart
<1>3. CASE batch' = b /\ UNCHANGED <<file, lost>>
  <2>1. lost' = [lost EXCEPT !.unwritten = @ \union {}]
    BY <1>3 DEF LogTyped
  <2>2. ToSet(file') \union ToSet(batch') = (ToSet(file) \union ToSet(b)) \ {}
    BY <1>3
  <2>3. \E D \in SUBSET ToSet(b) :
          /\ lost' = [lost EXCEPT !.unwritten = @ \union D]
          /\ ToSet(file') \union ToSet(batch') = (ToSet(file) \union ToSet(b)) \ D
    BY <2>1, <2>2, Zenon
  <2>4. /\ file' \in Seq(Message) /\ batch' \in Seq(Message)
        /\ Ordered(file') /\ Ordered(batch') /\ Before(ToSet(file'), ToSet(batch'))
    BY <1>3 DEF LogTyped, InARow
  <2> QED
    BY <2>3, <2>4, Zenon
<1>4. ASSUME NEW kept \in Seq(Message), Ordered(kept), ToSet(kept) \subseteq ToSet(b),
             batch' = <<>>, Written(b, kept)
      PROVE  /\ file' \in Seq(Message) /\ batch' \in Seq(Message)
             /\ Ordered(file') /\ Ordered(batch') /\ Before(ToSet(file'), ToSet(batch'))
             /\ \E D \in SUBSET ToSet(b) :
                  /\ lost' = [lost EXCEPT !.unwritten = @ \union D]
                  /\ ToSet(file') \union ToSet(batch') = (ToSet(file) \union ToSet(b)) \ D
  <2>1. ToSet(batch') = {} /\ Ordered(batch') /\ batch' \in Seq(Message)
    BY <1>4 DEF ToSet, Ordered
  <2>2. Before(ToSet(file), ToSet(kept))
    BY <1>4 DEF Before
  <2>3. file' = file \o kept /\ file \in Seq(Message) /\ Ordered(file)
    BY <1>4 DEF Written, LogTyped, InARow
  <2>4. file' \in Seq(Message) /\ ToSet(file') = ToSet(file) \union ToSet(kept)
    BY <2>3, ElementsOfConcat, ConcatProperties
  <2>5. Ordered(file')
    BY <1>4, <2>2, <2>3, OrderOfConcat
  <2>6. lost' = [lost EXCEPT !.unwritten = @ \union (ToSet(b) \ ToSet(kept))]
    BY <1>4 DEF Written
  <2>7. ToSet(file') \union ToSet(batch') =
          (ToSet(file) \union ToSet(b)) \ (ToSet(b) \ ToSet(kept))
    BY <1>2, <1>4, <2>1, <2>4
  <2>8. Before(ToSet(file'), ToSet(batch'))
    BY <2>1 DEF Before
  <2> QED
    BY <2>1, <2>4, <2>5, <2>6, <2>7, <2>8
<1>5. CASE disk = "good" /\ batch' = <<>> /\ Written(b, b)
  BY <1>4, <1>5
<1>6. CASE disk = "full" /\ batch' = <<>> /\ \E kept \in Selections(b) : Written(b, kept)
  <2>1. PICK kept \in Selections(b) : Written(b, kept)
    BY <1>6
  <2> QED
    BY <1>4, <1>6, <2>1, SelectionsKeepOrder
<1> QED
  BY <1>3, <1>5, <1>6 DEF Flush, FlushOrKeep

\* So it keeps the invariant, when the queue that is left comes after b.
LEMMA FlushKeepsInv ==
  ASSUME LogInv, NEW b \in Seq(Message), FlushOrKeep(b), Ordered(b),
         Before(ToSet(file), ToSet(b)), Before(ToSet(b), ToSet(queue')),
         queue' \in Seq(Message), Ordered(queue'), Before(ToSet(file), ToSet(queue')),
         ToSet(b) \union ToSet(queue') = ToSet(batch) \union ToSet(queue),
         UNCHANGED intake
  PROVE  LogInv'
<1>1. PICK D \in SUBSET ToSet(b) :
        /\ lost' = [lost EXCEPT !.unwritten = @ \union D]
        /\ ToSet(file') \union ToSet(batch') = (ToSet(file) \union ToSet(b)) \ D
  BY FlushKeepsOrder DEF LogInv
<1>2. /\ file' \in Seq(Message) /\ batch' \in Seq(Message)
      /\ Ordered(file') /\ Ordered(batch') /\ Before(ToSet(file'), ToSet(batch'))
  BY FlushKeepsOrder DEF LogInv
<1>3. /\ ToSet(file) \in SUBSET Message /\ ToSet(b) \in SUBSET Message
      /\ ToSet(queue') \in SUBSET Message
  BY ElementsAreMessages DEF LogInv, LogTyped
<1>4. LogTyped'
  <2>1. lost' \in [full : SUBSET Message, unwritten : SUBSET Message,
                    forgotten : SUBSET Message]
    BY <1>1, <1>3 DEF LogInv, LogTyped
  <2>2. sending' = sending /\ sent' = sent
    BY DEF intake
  <2> QED
    BY <1>2, <2>1, <2>2 DEF LogInv, LogTyped, Message
<1>5. InARow'
  <2>1. Before(ToSet(file'), ToSet(queue')) /\ Before(ToSet(batch'), ToSet(queue'))
    BY <1>1 DEF Before
  <2>2. ToSet(file)' = ToSet(file') /\ ToSet(batch)' = ToSet(batch') /\ ToSet(queue)' = ToSet(queue')
    OBVIOUS
  <2> QED
    BY <1>2, <2>1 DEF InARow
<1>6. NothingAstray'
  <2>1. Gone' = Gone \union D
    BY <1>1 DEF Gone, LogInv, LogTyped
  <2>2. Held' = Held \ D
    <3>1. D \intersect ToSet(queue') = {}
      BY <1>3, BeforeIsApart
    <3>2. D \intersect ToSet(file) = {}
      BY <1>3, BeforeIsApart
    <3> QED
      BY <1>1, <3>1 DEF Held
  <2>3. Pushed' = Pushed
    BY DEF Pushed, Latest, Message, intake
  <2>4. D \subseteq Held
    BY DEF Held
  <2> QED
    BY <2>1, <2>2, <2>3, <2>4 DEF LogInv, NothingAstray
<1> QED
  BY <1>4, <1>5, <1>6 DEF LogInv

\* Taking the first message off the queue.
LEMMA HeadOfQueue ==
  ASSUME NEW q \in Seq(Message), q # <<>>, Ordered(q)
  PROVE  /\ Head(q) \in Message /\ Tail(q) \in Seq(Message) /\ Ordered(Tail(q))
         /\ Before({Head(q)}, ToSet(Tail(q)))
         /\ ToSet(q) = {Head(q)} \union ToSet(Tail(q))
<1> DEFINE h == <<Head(q)>>
<1>1. Head(q) \in Message /\ Tail(q) \in Seq(Message) /\ h \in Seq(Message)
  BY HeadTailProperties
<1>2. q = h \o Tail(q)
  BY <1>1
<1>3. ToSet(h) = {Head(q)}
  BY DEF ToSet
<1> HIDE DEF h
<1>4. Ordered(h \o Tail(q))
  BY <1>2
<1>5. Ordered(Tail(q)) /\ Before(ToSet(h), ToSet(Tail(q)))
  BY <1>1, <1>4, OrderOfConcat
<1>6. ToSet(q) = ToSet(h) \union ToSet(Tail(q))
  <2>1. ToSet(h \o Tail(q)) = ToSet(h) \union ToSet(Tail(q))
    BY <1>1, ElementsOfConcat
  <2> QED
    BY <1>2, <2>1
<1> QED
  BY <1>1, <1>3, <1>5, <1>6

\* A message added behind what it comes after.
LEMMA AppendInOrder ==
  ASSUME NEW q \in Seq(Message), NEW m \in Message, Ordered(q), Before(ToSet(q), {m})
  PROVE  /\ Append(q, m) \in Seq(Message) /\ Ordered(Append(q, m))
         /\ ToSet(Append(q, m)) = ToSet(q) \union {m}
<1> DEFINE t == <<m>>
<1>1. Append(q, m) = q \o t /\ t \in Seq(Message)
  OBVIOUS
<1>2. Ordered(t) /\ ToSet(t) = {m}
  BY DEF Ordered, ToSet
<1> HIDE DEF t
<1>3. Ordered(q \o t) /\ q \o t \in Seq(Message)
  BY <1>1, <1>2, OrderOfConcat, ConcatProperties
<1>4. ToSet(q \o t) = ToSet(q) \union ToSet(t)
  BY <1>1, ElementsOfConcat
<1> QED
  BY <1>1, <1>2, <1>3, <1>4
-----------------------------------------------------------------------------
(***************************************************************************)
(* The steps.                                                              *)
(***************************************************************************)
LEMMA ProcessKeepsInv ==
  ASSUME LogInv, NEW s \in Senders, ProcessIncomingMessage(s)
  PROVE  LogInv'
<1>1. /\ sent' = [sent EXCEPT ![s] = @ + 1] /\ sending' = sending \union {s}
      /\ s \notin sending /\ sent[s] < MaxSent
      /\ UNCHANGED <<queue, batch, file, lost>>
  BY DEF ProcessIncomingMessage
<1>2. LogTyped'
  BY <1>1, BatchAssumption DEF LogInv, LogTyped, Message
<1>3. InARow'
  BY <1>1 DEF LogInv, InARow
<1>4. Pushed' = Pushed
  <2> SUFFICES ASSUME NEW m \in Message
               PROVE  m[2] <= sent'[m[1]] /\ ~ (m[1] \in sending' /\ m = <<m[1], sent'[m[1]]>>)
                  <=> m[2] <= sent[m[1]] /\ ~ (m[1] \in sending /\ m = <<m[1], sent[m[1]]>>)
    BY DEF Pushed, Latest, Message
  <2>1. m[1] \in Senders /\ m[2] \in Nat /\ m = <<m[1], m[2]>>
    BY MessageParts
  <2>2. CASE m[1] = s
    <3>1. sent[s] \in Nat /\ sent'[s] = sent[s] + 1
      BY <1>1, BatchAssumption DEF LogInv, LogTyped
    <3>2. m = <<s, sent'[s]>> <=> m[2] = sent'[s]
      BY <2>1, <2>2
    <3> QED
      BY <1>1, <2>1, <2>2, <3>1, <3>2
  <2>3. CASE m[1] # s
    BY <1>1, <2>1, <2>3 DEF LogInv, LogTyped
  <2> QED
    BY <2>2, <2>3
<1>5. NothingAstray'
  BY <1>1, <1>4 DEF LogInv, NothingAstray, Held, Gone
<1> QED
  BY <1>2, <1>3, <1>5 DEF LogInv

\* The latest message of a sender on its way to the queue is later than all
\* that were pushed.
LEMMA LatestIsNew ==
  ASSUME LogTyped, NEW s \in sending
  PROVE  /\ s \in Senders /\ Latest(s) \in Message /\ Latest(s) \notin Pushed
         /\ Before(Pushed, {Latest(s)})
<1>1. s \in Senders /\ sent[s] \in 1 .. MaxSent
  BY BatchAssumption DEF LogTyped
<1>2. Latest(s) \in Message /\ Latest(s)[1] = s /\ Latest(s)[2] = sent[s]
  BY <1>1 DEF Latest, Message
<1>3. Latest(s) \notin Pushed
  BY <1>2 DEF Pushed
<1>4. ASSUME NEW m \in Pushed, m[1] = s PROVE m[2] < sent[s]
  <2>1. m \in Message /\ m[2] <= sent[s] /\ m # Latest(s)
    BY <1>4 DEF Pushed
  <2>2. m[2] \in Nat /\ m = <<s, m[2]>>
    BY <1>4, <2>1, MessageParts
  <2> QED
    BY <1>1, <2>1, <2>2 DEF Latest
<1> QED
  BY <1>1, <1>2, <1>3, <1>4 DEF Before

LEMMA PushKeepsInv ==
  ASSUME LogInv, NEW s \in Senders, PushToBatchQueue(s)
  PROVE  LogInv'
<1>1. /\ s \in sending /\ sending' = sending \ {s}
      /\ UNCHANGED <<sent, batch, file>>
  BY DEF PushToBatchQueue
<1> DEFINE m == Latest(s)
<1>2. m \in Message /\ m \notin Pushed /\ Before(Pushed, {m})
  BY <1>1, LatestIsNew DEF LogInv
<1>3. Pushed' = Pushed \union {m}
  <2>1. m[1] = s /\ m[2] = sent[s] /\ sent[s] \in Nat /\ m = <<s, sent[s]>>
    BY BatchAssumption DEF Latest, LogInv, LogTyped
  <2> SUFFICES ASSUME NEW n \in Message
               PROVE  (n[2] <= sent[n[1]] /\ ~ (n[1] \in sending' /\ n = <<n[1], sent[n[1]]>>))
                  <=> (n = m \/ (n[2] <= sent[n[1]] /\ ~ (n[1] \in sending /\ n = <<n[1], sent[n[1]]>>)))
    BY <1>1, <1>2 DEF Pushed, Latest, Message
  <2> HIDE DEF m
  <2> QED
    BY <1>1, <2>1
<1> HIDE DEF m
<1>4. Before(ToSet(queue), {m}) /\ Before(ToSet(file), {m}) /\ Before(ToSet(batch), {m})
  BY <1>2 DEF LogInv, NothingAstray, Held, Before
<1>5. CASE queue' = Append(queue, m) /\ UNCHANGED lost
  <2>1. /\ queue' \in Seq(Message) /\ Ordered(queue')
        /\ ToSet(queue') = ToSet(queue) \union {m}
    BY <1>2, <1>4, <1>5, AppendInOrder DEF LogInv, LogTyped, InARow
  <2>2. LogTyped'
    BY <1>1, <1>5, <2>1 DEF LogInv, LogTyped, Message
  <2>3. Before(ToSet(file), ToSet(queue')) /\ Before(ToSet(batch), ToSet(queue'))
    BY <1>4, <2>1 DEF LogInv, InARow, Before
  <2>4. InARow'
    BY <1>1, <2>1, <2>3 DEF LogInv, InARow
  <2>5. Held' = Held \union {m} /\ Gone' = Gone
    BY <1>1, <1>5, <2>1 DEF Held, Gone
  <2>6. NothingAstray'
    BY <1>2, <1>3, <2>5 DEF LogInv, NothingAstray
  <2> QED
    BY <2>2, <2>4, <2>6 DEF LogInv
<1>6. CASE lost' = [lost EXCEPT !.full = @ \union {m}] /\ UNCHANGED queue
  <2>1. LogTyped' /\ Gone' = Gone \union {m}
    BY <1>1, <1>2, <1>6 DEF LogInv, LogTyped, Message, Gone
  <2>2. InARow' /\ Held' = Held
    BY <1>1, <1>6 DEF LogInv, InARow, Held
  <2>3. NothingAstray'
    BY <1>2, <1>3, <2>1, <2>2 DEF LogInv, NothingAstray
  <2> QED
    BY <2>1, <2>2, <2>3 DEF LogInv
<1> QED
  BY <1>5, <1>6 DEF PushToBatchQueue, m

LEMMA ReceiveKeepsInv ==
  ASSUME LogInv, ReceiveCase
  PROVE  LogInv'
<1> DEFINE b == Append(batch, Head(queue))
<1>1. /\ queue \in Seq(Message) /\ queue # <<>> /\ Ordered(queue) /\ queue' = Tail(queue)
      /\ batch \in Seq(Message) /\ Ordered(batch)
  BY DEF ReceiveCase, LogInv, LogTyped, InARow
<1>2. /\ Head(queue) \in Message /\ queue' \in Seq(Message) /\ Ordered(queue')
      /\ Before({Head(queue)}, ToSet(queue'))
      /\ ToSet(queue) = {Head(queue)} \union ToSet(queue')
  BY <1>1, HeadOfQueue
<1>3. Before(ToSet(batch), {Head(queue)}) /\ Before(ToSet(batch), ToSet(queue'))
  BY <1>2 DEF LogInv, InARow, Before
<1>4. b \in Seq(Message) /\ Ordered(b) /\ ToSet(b) = ToSet(batch) \union {Head(queue)}
  BY <1>1, <1>2, <1>3, AppendInOrder
<1>5. FlushOrKeep(b)
  BY DEF ReceiveCase, FlushOrKeep
<1>6. UNCHANGED intake
  BY DEF ReceiveCase
<1> HIDE DEF b
<1>7. /\ Before(ToSet(file), ToSet(b)) /\ Before(ToSet(b), ToSet(queue'))
      /\ Before(ToSet(file), ToSet(queue'))
  BY <1>2, <1>3, <1>4 DEF LogInv, InARow, Before
<1>8. ToSet(b) \union ToSet(queue') = ToSet(batch) \union ToSet(queue)
  BY <1>2, <1>4
<1> QED
  BY <1>2, <1>4, <1>5, <1>6, <1>7, <1>8, FlushKeepsInv

\* A flush of the batch as it is: the ticker, and both ends of the worker.
LEMMA FlushBatchKeepsInv ==
  ASSUME LogInv, Flush(batch), UNCHANGED <<intake, queue>>
  PROVE  LogInv'
<1>1. /\ FlushOrKeep(batch) /\ UNCHANGED intake /\ queue' = queue
  BY DEF FlushOrKeep
<1>2. /\ batch \in Seq(Message) /\ queue' \in Seq(Message)
      /\ Ordered(batch) /\ Ordered(queue')
      /\ Before(ToSet(file), ToSet(batch)) /\ Before(ToSet(batch), ToSet(queue'))
      /\ Before(ToSet(file), ToSet(queue'))
      /\ ToSet(batch) \union ToSet(queue') = ToSet(batch) \union ToSet(queue)
  BY <1>1 DEF LogInv, LogTyped, InARow
<1> QED
  BY <1>1, <1>2, FlushKeepsInv

LEMMA ExitKeepsInv ==
  ASSUME LogInv, Exit
  PROVE  LogInv'
<1> DEFINE late == {Latest(s) : s \in sending}
<1>1. /\ queue' = <<>> /\ batch' = <<>> /\ sending' = {} /\ sent' = sent /\ file' = file
      /\ lost' = [lost EXCEPT !.forgotten = @ \union ToSet(Memory) \union late]
  BY DEF Exit
<1>2. ToSet(Memory) = ToSet(queue) \union ToSet(batch)
  BY ElementsOfConcat DEF Memory, LogInv, LogTyped
<1>3. /\ ToSet(file) \in SUBSET Message /\ ToSet(batch) \in SUBSET Message
      /\ ToSet(queue) \in SUBSET Message
  BY ElementsAreMessages DEF LogInv, LogTyped
<1>4. late \in SUBSET Message /\ late \intersect Pushed = {}
  BY LatestIsNew DEF LogInv
<1>5. Pushed' = Pushed \union late
  <2>1. \A n \in Message : n \in late <=> n[1] \in sending /\ n = <<n[1], sent[n[1]]>>
    BY DEF Latest
  <2>2. \A n \in late : n[2] <= sent[n[1]]
    BY BatchAssumption DEF Latest, LogInv, LogTyped
  <2> HIDE DEF late
  <2> QED
    BY <1>1, <1>4, <2>1, <2>2 DEF Pushed, Latest, Message
<1> HIDE DEF late
<1>6. ToSet(queue') = {} /\ ToSet(batch') = {} /\ Ordered(queue') /\ Ordered(batch')
  BY <1>1 DEF ToSet, Ordered
<1>7. LogTyped'
  <2>1. lost' \in [full : SUBSET Message, unwritten : SUBSET Message,
                    forgotten : SUBSET Message]
    BY <1>1, <1>2, <1>3, <1>4 DEF LogInv, LogTyped
  <2>2. queue' \in Seq(Message) /\ batch' \in Seq(Message)
    BY <1>1
  <2> QED
    BY <1>1, <2>1, <2>2 DEF LogInv, LogTyped, Message
<1>8. InARow'
  BY <1>1, <1>6 DEF LogInv, InARow, Before
<1>9. Gone' = Gone \union ToSet(queue) \union ToSet(batch) \union late
  BY <1>1, <1>2 DEF Gone, LogInv, LogTyped
<1>10. Held' = ToSet(file)
  BY <1>1, <1>6 DEF Held
<1>11. ToSet(file) \intersect (ToSet(queue) \union ToSet(batch)) = {}
  BY <1>3, BeforeIsApart DEF LogInv, InARow
<1>12. NothingAstray'
  BY <1>4, <1>5, <1>9, <1>10, <1>11 DEF LogInv, NothingAstray, Held
<1> QED
  BY <1>7, <1>8, <1>12 DEF LogInv

LEMMA OthersKeepInv ==
  ASSUME LogInv, UNCHANGED <<intake, queue, batch, file, lost>>
  PROVE  LogInv'
<1>1. /\ sending' = sending /\ sent' = sent /\ queue' = queue /\ batch' = batch
      /\ file' = file /\ lost' = lost
  BY DEF intake
<1>2. LogTyped'
  BY <1>1 DEF LogInv, LogTyped, Message
<1>3. InARow'
  BY <1>1 DEF LogInv, InARow
<1>4. NothingAstray'
  BY <1>1 DEF LogInv, NothingAstray, Held, Gone, Pushed, Latest, Message
<1> QED
  BY <1>2, <1>3, <1>4 DEF LogInv

LEMMA StepsKeepInv ==
  ASSUME LogInv, [BatchNext]_batchVars
  PROVE  LogInv'
<1>1. ASSUME NEW s \in Senders, ProcessIncomingMessage(s) \/ PushToBatchQueue(s)
      PROVE  LogInv'
  BY <1>1, ProcessKeepsInv, PushKeepsInv
<1>2. CASE ReceiveCase
  BY <1>2, ReceiveKeepsInv
<1>3. CASE TickCase \/ StopCase \/ DoneCase
  <2>1. Flush(batch) /\ UNCHANGED <<intake, queue>>
    BY <1>3 DEF TickCase, StopCase, DoneCase, WorkerEnds
  <2> QED
    BY <2>1, FlushBatchKeepsInv
<1>4. CASE Exit
  BY <1>4, ExitKeepsInv
<1>5. CASE Stop \/ Signal \/ ShutdownOver \/ Start \/ UNCHANGED batchVars
           \/ \E state \in {"good", "full", "gone"} : Disk(state)
  <2>1. UNCHANGED <<intake, queue, batch, file, lost>>
    BY <1>5 DEF Stop, Signal, ShutdownOver, Start, Disk, batchVars
  <2> QED
    BY <2>1, OthersKeepInv
<1> QED
  BY <1>1, <1>2, <1>3, <1>4, <1>5 DEF BatchNext, BatchJanitor, ChatBatchWorker

(***************************************************************************)
(* The invariant holds, whatever the process and the disk go through.      *)
(***************************************************************************)
THEOREM LogStaysInARow == BatchSpec => []LogInv
<1>1. BatchInit => LogInv
  <2> SUFFICES ASSUME BatchInit PROVE LogInv
    OBVIOUS
  <2>1. LogTyped
    BY BatchAssumption DEF BatchInit, LogTyped
  <2>2. ToSet(file) = {} /\ ToSet(batch) = {} /\ ToSet(queue) = {}
    BY DEF BatchInit, ToSet
  <2>3. InARow
    BY <2>2 DEF BatchInit, InARow, Ordered, Before
  <2>4. Held = {} /\ Gone = {}
    BY <2>2 DEF BatchInit, Held, Gone
  <2>5. Pushed = {}
    <3>1. \A m \in Message : m[2] \in 1 .. MaxSent /\ sent[m[1]] = 0
      BY MessageParts DEF Message, BatchInit
    <3> QED
      BY <3>1, BatchAssumption DEF Pushed
  <2> QED
    BY <2>1, <2>3, <2>4, <2>5 DEF LogInv, NothingAstray
<1>2. LogInv /\ [BatchNext]_batchVars => LogInv'
  BY StepsKeepInv
<1> QED
  BY <1>1, <1>2, PTL DEF BatchSpec

(***************************************************************************)
(* The log has the messages of a sender in the order they were sent, over  *)
(* batches, failed writes and restarts (the select of the worker, flush).  *)
(***************************************************************************)
THEOREM OrderIsKept == BatchSpec => []LogKeepsOrder
<1>1. LogInv => LogKeepsOrder
  <2> SUFFICES ASSUME LogInv PROVE LogKeepsOrder
    OBVIOUS
  <2>1. /\ file \in Seq(Message) /\ batch \in Seq(Message) /\ queue \in Seq(Message)
        /\ file \o batch \in Seq(Message)
    BY ConcatProperties DEF LogInv, LogTyped
  <2>2. Ordered(file \o batch) /\ ToSet(file \o batch) = ToSet(file) \union ToSet(batch)
    BY <2>1, OrderOfConcat, ElementsOfConcat DEF LogInv, InARow
  <2>3. Before(ToSet(file \o batch), ToSet(queue))
    BY <2>2 DEF LogInv, InARow, Before
  <2>4. Ordered((file \o batch) \o queue)
    BY <2>1, <2>2, <2>3, OrderOfConcat DEF LogInv, InARow
  <2> QED
    BY <2>4 DEF LogKeepsOrder, Ordered
<1> QED
  BY <1>1, LogStaysInARow, PTL

(***************************************************************************)
(* Every message pushed is in one place, once, or lost for a reason the    *)
(* model names (PushToBatchQueue, flush, the end of the process).          *)
(***************************************************************************)
THEOREM MessagesStayAccounted == BatchSpec => []MessagesAccounted
<1>1. LogInv => MessagesAccounted
  <2> SUFFICES ASSUME LogInv PROVE MessagesAccounted
    OBVIOUS
  <2>1. /\ file \in Seq(Message) /\ batch \in Seq(Message) /\ queue \in Seq(Message)
        /\ queue \o batch \in Seq(Message)
    BY ConcatProperties DEF LogInv, LogTyped
  <2>2. /\ ToSet(queue \o batch) = ToSet(queue) \union ToSet(batch)
        /\ ToSet((queue \o batch) \o file) = ToSet(queue \o batch) \union ToSet(file)
    <3>1. ToSet(queue \o batch) = ToSet(queue) \union ToSet(batch)
      BY <2>1, ElementsOfConcat
    <3> DEFINE both == queue \o batch
    <3>2. both \in Seq(Message)
      BY <2>1
    <3> HIDE DEF both
    <3>3. ToSet(both \o file) = ToSet(both) \union ToSet(file)
      BY <2>1, <3>2, ElementsOfConcat
    <3> QED
      BY <3>1, <3>3 DEF both
  <2>3. /\ ToSet(file) \in SUBSET Message /\ ToSet(batch) \in SUBSET Message
        /\ ToSet(queue) \in SUBSET Message
    BY <2>1, ElementsAreMessages
  <2>4. /\ ToSet(queue) \intersect ToSet(batch) = {}
        /\ (ToSet(queue) \union ToSet(batch)) \intersect ToSet(file) = {}
    BY <2>3, BeforeIsApart DEF LogInv, InARow
  <2>5. IsInjective(file) /\ IsInjective(batch) /\ IsInjective(queue)
    BY <2>1, OrderedIsInjective DEF LogInv, InARow
  <2>6. IsInjective(queue \o batch)
    BY <2>1, <2>4, <2>5, InjectiveConcat
  <2>7. IsInjective((queue \o batch) \o file)
    BY <2>1, <2>2, <2>4, <2>5, <2>6, InjectiveConcat
  <2>8. ToSet((queue \o batch) \o file) = Held
    BY <2>2 DEF Held
  <2> QED
    BY <2>7, <2>8 DEF LogInv, NothingAstray, Gone, MessagesAccounted
<1> QED
  BY <1>1, LogStaysInARow, PTL
-----------------------------------------------------------------------------
(***************************************************************************)
(* The word completion.  Its two recursive functions are defined on finite *)
(* sets of naturals and on the nodes of a finite tree; what they compute   *)
(* follows from least counterexamples.                                     *)
(***************************************************************************)
\* Induction up to n, with a set for the predicate.
LEMMA UpTo ==
  ASSUME NEW n \in Nat, NEW G, 0 \in G, \A k \in 0 .. n - 1 : k \in G => k + 1 \in G
  PROVE  \A k \in 0 .. n : k \in G
<1> SUFFICES ASSUME NEW m \in 0 .. n, m \notin G PROVE FALSE
  OBVIOUS
<1> DEFINE Bad == {k \in 0 .. n : k \notin G}
<1>1. Bad \subseteq Nat /\ Bad # {}
  OBVIOUS
<1> HIDE DEF Bad
<1>2. PICK k \in Bad : \A j \in Bad : <<j, k>> \notin OpToRel(<, Nat)
  BY <1>1, NatLessThanWellFounded, WFMin
<1>3. \A j \in Bad : ~ (j < k)
  BY <1>1, <1>2 DEF OpToRel
<1>4. k \in 0 .. n /\ k \notin G
  BY DEF Bad
<1>5. k - 1 \in 0 .. n - 1 /\ k - 1 \notin Bad /\ (k - 1) + 1 = k
  BY <1>3, <1>4
<1>6. k - 1 \in G
  BY <1>5 DEF Bad
<1> QED
  BY <1>4, <1>5, <1>6

\* strings.ReplaceAll of QueryT9Prediction leaves a word.
Kept(f, s, m) ==
  f = [k \in 0 .. m |-> IF k = 0 THEN <<>>
                        ELSE IF s[k] = Question THEN f[k - 1] ELSE Append(f[k - 1], s[k])]

\* What is kept after k runes.
LEMMA KeptAt ==
  ASSUME NEW f, NEW s, NEW m \in Nat, Kept(f, s, m)
  PROVE  /\ f[0] = <<>>
         /\ \A k \in 1 .. m : f[k] = IF s[k] = Question THEN f[k - 1] ELSE Append(f[k - 1], s[k])
<1> DEFINE value(k) == IF k = 0 THEN <<>>
                       ELSE IF s[k] = Question THEN f[k - 1] ELSE Append(f[k - 1], s[k])
<1>1. f = [k \in 0 .. m |-> value(k)]
  BY DEF Kept
<1> HIDE DEF value
<1>2. \A k \in 0 .. m : f[k] = value(k)
  BY <1>1
<1>3. 0 \in 0 .. m /\ \A k \in 1 .. m : k \in 0 .. m /\ k # 0
  OBVIOUS
<1>4. f[0] = value(0) /\ \A k \in 1 .. m : f[k] = value(k) /\ k # 0
  BY <1>2, <1>3
<1> QED
  BY <1>4 DEF value

\* The recursion has a solution: one for m runes goes on to the next.
LEMMA KeptExists ==
  ASSUME NEW s, NEW n \in Nat
  PROVE  \E f : Kept(f, s, n)
<1> DEFINE G == {m \in 0 .. n : \E f : Kept(f, s, m)}
<1>1. 0 \in G
  <2> DEFINE f == [k \in 0 .. 0 |-> <<>>]
  <2>1. Kept(f, s, 0)
    BY DEF Kept
  <2> QED
    BY <2>1
<1>2. ASSUME NEW m \in 0 .. n - 1, m \in G PROVE m + 1 \in G
  <2>1. PICK f : Kept(f, s, m)
    BY <1>2
  <2> DEFINE next == IF s[m + 1] = Question THEN f[m] ELSE Append(f[m], s[m + 1])
             g == [k \in 0 .. m + 1 |-> IF k = m + 1 THEN next ELSE f[k]]
  <2>2. /\ f[0] = <<>>
        /\ \A k \in 1 .. m : f[k] = IF s[k] = Question THEN f[k - 1] ELSE Append(f[k - 1], s[k])
    BY <2>1, KeptAt
  <2>3. \A k \in 0 .. m + 1 :
          g[k] = IF k = 0 THEN <<>>
                 ELSE IF s[k] = Question THEN g[k - 1] ELSE Append(g[k - 1], s[k])
    <3> HIDE DEF next
    <3>1. /\ g[m + 1] = next /\ \A k \in 0 .. m : g[k] = f[k]
      OBVIOUS
    <3>2. g[0] = <<>>
      BY <2>2, <3>1
    <3>3. g[m + 1] = IF s[m + 1] = Question THEN g[m] ELSE Append(g[m], s[m + 1])
      BY <3>1 DEF next
    <3>4. ASSUME NEW k \in 1 .. m
          PROVE  g[k] = IF s[k] = Question THEN g[k - 1] ELSE Append(g[k - 1], s[k])
      <4>1. k - 1 \in 0 .. m /\ k \in 0 .. m
        OBVIOUS
      <4> HIDE DEF g
      <4> QED
        BY <2>2, <3>1, <4>1
    <3> HIDE DEF g
    <3> QED
      BY <3>2, <3>3, <3>4
  <2>4. g = [k \in 0 .. m + 1 |-> g[k]]
    OBVIOUS
  <2> HIDE DEF g
  <2>5. Kept(g, s, m + 1)
    BY <2>3, <2>4 DEF Kept
  <2> QED
    BY <2>5
<1> HIDE DEF G
<1>3. n \in G
  BY <1>1, <1>2, UpTo
<1> QED
  BY <1>3 DEF G

\* The layout table works rune by rune.
LEMMA LayoutKeepsWords ==
  ASSUME NEW w \in Seq(Runes)
  PROVE  /\ InterceptAndFixLayout(w) \in [1 .. Len(w) -> Runes] /\ Len(w) \in Nat
<1>1. w \in [1 .. Len(w) -> Runes] /\ DOMAIN w = 1 .. Len(w) /\ Len(w) \in Nat
  BY LenProperties
<1> QED
  BY <1>1, LayoutAssumption DEF InterceptAndFixLayout

\* So the prefix that is looked up is a word.
LEMMA FixedIsWord ==
  ASSUME NEW w \in Seq(Runes)
  PROVE  FixedPrefix(w) \in Seq(Runes)
<1> DEFINE fixed == InterceptAndFixLayout(w)
           kept == CHOOSE f : Kept(f, fixed, Len(w))
<1>1. fixed \in [1 .. Len(w) -> Runes] /\ Len(w) \in Nat
  BY LayoutKeepsWords
<1>2. FixedPrefix(w) = kept[Len(w)]
  BY DEF FixedPrefix, Kept
<1> HIDE DEF fixed
<1>3. Kept(kept, fixed, Len(w))
  BY <1>1, KeptExists
<1> HIDE DEF kept
<1> DEFINE G == {k \in 0 .. Len(w) : kept[k] \in Seq(Runes)}
<1>4. /\ kept[0] = <<>>
      /\ \A k \in 1 .. Len(w) : kept[k] = IF fixed[k] = Question THEN kept[k - 1]
                                          ELSE Append(kept[k - 1], fixed[k])
  BY <1>1, <1>3, KeptAt
<1>5. 0 \in G
  BY <1>1, <1>4, EmptySeq, 0 \in 0 .. Len(w)
<1>6. ASSUME NEW k \in 0 .. Len(w) - 1, k \in G PROVE k + 1 \in G
  <2>1. k + 1 \in 1 .. Len(w) /\ (k + 1) - 1 = k /\ kept[k] \in Seq(Runes) /\ k + 1 \in 0 .. Len(w)
    BY <1>1, <1>6
  <2>2. fixed[k + 1] \in Runes
    BY <1>1, <2>1
  <2>3. kept[k + 1] = IF fixed[k + 1] = Question THEN kept[k] ELSE Append(kept[k], fixed[k + 1])
    BY <1>4, <2>1
  <2>4. Append(kept[k], fixed[k + 1]) \in Seq(Runes)
    BY <2>1, <2>2, AppendProperties
  <2> QED
    BY <2>1, <2>3, <2>4
<1> HIDE DEF G
<1>7. Len(w) \in G
  BY <1>1, <1>5, <1>6, UpTo
<1> QED
  BY <1>2, <1>7 DEF G
-----------------------------------------------------------------------------
\* The words of S that start with p and have no other such word on the way.
Best(S, p) ==
  {w \in S : /\ IsPrefix(p, w)
             /\ \A v \in S : (IsPrefix(p, v) /\ IsPrefix(v, w)) => v = w}

\* One word starts with another if it has the same runes up to its end.
LEMMA PrefixPointwise ==
  ASSUME NEW s \in Seq(Runes), NEW t \in Seq(Runes)
  PROVE  IsPrefix(s, t) <=> Len(s) <= Len(t) /\ \A i \in 1 .. Len(s) : s[i] = t[i]
<1>1. /\ Len(s) \in Nat /\ Len(t) \in Nat
      /\ \A i \in 1 .. Len(s) : s[i] \in Runes
      /\ \A i \in 1 .. Len(t) : t[i] \in Runes
  BY LenProperties, ElementOfSeq
<1>2. SUFFICES ASSUME Len(s) <= Len(t)
               PROVE  SubSeq(s, 1, Len(s)) = SubSeq(t, 1, Len(s))
                        <=> \A i \in 1 .. Len(s) : s[i] = t[i]
  BY DEF IsPrefix
<1>3. \A i \in 1 .. Len(s) : i \in 1 .. Len(t) /\ t[i] \in Runes
  BY <1>1, <1>2
<1>4. /\ SubSeq(s, 1, Len(s)) \in Seq(Runes) /\ Len(SubSeq(s, 1, Len(s))) = Len(s)
      /\ \A i \in 1 .. Len(s) : SubSeq(s, 1, Len(s))[i] = s[i]
  <2>1. /\ SubSeq(s, 1, Len(s)) \in Seq(Runes)
        /\ Len(SubSeq(s, 1, Len(s))) = IF 1 <= Len(s) THEN Len(s) - 1 + 1 ELSE 0
        /\ \A i \in 1 .. Len(s) - 1 + 1 : SubSeq(s, 1, Len(s))[i] = s[1 + i - 1]
    BY <1>1, SubSeqProperties
  <2> QED
    BY <1>1, <2>1
<1>5. /\ SubSeq(t, 1, Len(s)) \in Seq(Runes) /\ Len(SubSeq(t, 1, Len(s))) = Len(s)
      /\ \A i \in 1 .. Len(s) : SubSeq(t, 1, Len(s))[i] = t[i]
  <2>1. /\ SubSeq(t, 1, Len(s)) \in Seq(Runes)
        /\ Len(SubSeq(t, 1, Len(s))) = IF 1 <= Len(s) THEN Len(s) - 1 + 1 ELSE 0
        /\ \A i \in 1 .. Len(s) - 1 + 1 : SubSeq(t, 1, Len(s))[i] = t[1 + i - 1]
    BY <1>1, <1>3, SubSeqProperties
  <2> QED
    BY <1>1, <2>1
<1>6. (\A i \in 1 .. Len(s) : s[i] = t[i]) => SubSeq(s, 1, Len(s)) = SubSeq(t, 1, Len(s))
  BY <1>4, <1>5, SeqEqual
<1> QED
  BY <1>4, <1>5, <1>6

\* IsPrefix orders the words, and those on the way to a word are in a row.
LEMMA PrefixOrder ==
  ASSUME NEW s \in Seq(Runes), NEW t \in Seq(Runes), NEW u \in Seq(Runes)
  PROVE  /\ IsPrefix(s, s)
         /\ IsPrefix(s, t) /\ IsPrefix(t, u) => IsPrefix(s, u)
         /\ IsPrefix(s, t) /\ Len(t) <= Len(s) => s = t
         /\ IsPrefix(s, u) /\ IsPrefix(t, u) /\ Len(s) <= Len(t) => IsPrefix(s, t)
         /\ IsPrefix(s, t) => Len(s) <= Len(t)
         /\ Len(s) \in Nat /\ Len(t) \in Nat
<1>1. Len(s) \in Nat /\ Len(t) \in Nat /\ Len(u) \in Nat
  BY LenProperties
<1>2. IsPrefix(s, s)
  BY <1>1, PrefixPointwise
<1>3. IsPrefix(s, t) /\ IsPrefix(t, u) => IsPrefix(s, u)
  <2> SUFFICES ASSUME IsPrefix(s, t), IsPrefix(t, u) PROVE IsPrefix(s, u)
    OBVIOUS
  <2>1. /\ Len(s) <= Len(t) /\ \A i \in 1 .. Len(s) : s[i] = t[i]
        /\ Len(t) <= Len(u) /\ \A i \in 1 .. Len(t) : t[i] = u[i]
    BY PrefixPointwise
  <2>2. Len(s) <= Len(u) /\ \A i \in 1 .. Len(s) : s[i] = u[i]
    BY <1>1, <2>1
  <2> QED
    BY <2>2, PrefixPointwise
<1>4. IsPrefix(s, t) /\ Len(t) <= Len(s) => s = t
  BY <1>1, PrefixPointwise, SeqEqual
<1>5. IsPrefix(s, u) /\ IsPrefix(t, u) /\ Len(s) <= Len(t) => IsPrefix(s, t)
  <2> SUFFICES ASSUME IsPrefix(s, u), IsPrefix(t, u), Len(s) <= Len(t) PROVE IsPrefix(s, t)
    OBVIOUS
  <2>1. /\ \A i \in 1 .. Len(s) : s[i] = u[i]
        /\ \A i \in 1 .. Len(t) : t[i] = u[i]
    BY PrefixPointwise
  <2>2. \A i \in 1 .. Len(s) : s[i] = t[i]
    BY <1>1, <2>1
  <2> QED
    BY <2>2, PrefixPointwise
<1>6. IsPrefix(s, t) => Len(s) <= Len(t)
  BY PrefixPointwise
<1> QED
  BY <1>1, <1>2, <1>3, <1>4, <1>5, <1>6

\* The next node on the way from n to a word.
LEMMA NextOnTheWay ==
  ASSUME NEW n \in Seq(Runes), NEW w \in Seq(Runes), IsPrefix(n, w), n # w
  PROVE  LET c == SubSeq(w, 1, Len(n) + 1)
         IN  /\ Len(n) + 1 \in 0 .. Len(w) /\ c \in Seq(Runes)
             /\ Len(c) = Len(n) + 1 /\ IsPrefix(n, c) /\ IsPrefix(c, w)
<1> DEFINE c == SubSeq(w, 1, Len(n) + 1)
<1>1. Len(n) \in Nat /\ Len(w) \in Nat /\ Len(n) < Len(w)
  BY PrefixOrder
<1>2. \A i \in 1 .. Len(n) + 1 : w[i] \in Runes
  BY <1>1, ElementOfSeq
<1>3. /\ c \in Seq(Runes) /\ Len(c) = Len(n) + 1 /\ \A i \in 1 .. Len(n) + 1 : c[i] = w[i]
  <2>1. /\ c \in Seq(Runes) /\ Len(c) = IF 1 <= Len(n) + 1 THEN Len(n) + 1 - 1 + 1 ELSE 0
        /\ \A i \in 1 .. (Len(n) + 1) - 1 + 1 : c[i] = w[1 + i - 1]
    BY <1>1, <1>2, SubSeqProperties
  <2> QED
    BY <1>1, <2>1
<1> HIDE DEF c
<1>4. IsPrefix(c, w)
  BY <1>1, <1>3, PrefixPointwise
<1>5. IsPrefix(n, c)
  BY <1>1, <1>3, <1>4, PrefixOrder
<1> QED
  BY <1>1, <1>3, <1>4, <1>5 DEF c
-----------------------------------------------------------------------------
\* The tree holds the words inserted so far and everything on the way to them.
TreeInv ==
  /\ inserted \in 0 .. Len(Dictionary)
  /\ wordEnds = {Dictionary[i] : i \in 1 .. inserted}
  /\ nodes \subseteq Seq(Runes)
  /\ \A w \in wordEnds : \A k \in 0 .. Len(w) : SubSeq(w, 1, k) \in nodes
  /\ \E depth \in Nat : \A n \in nodes : Len(n) <= depth

\* The dictionary is a sequence of words.
LEMMA DictionaryWords ==
  /\ Len(Dictionary) \in Nat /\ DOMAIN Dictionary = 1 .. Len(Dictionary)
  /\ \A i \in 1 .. Len(Dictionary) : Dictionary[i] \in Seq(Runes)
BY LayoutAssumption, LenProperties, ElementOfSeq

\* One step of the walk finds the best words of a node among those of its
\* children.
LEMMA WalkFindsBest ==
  ASSUME TreeInv, wordEnds \subseteq Seq(Runes), NEW n \in nodes
  PROVE  Best(wordEnds, n) = IF n \in wordEnds THEN {n}
                             ELSE UNION {Best(wordEnds, c) : c \in Children(n)}
<1>1. n \in Seq(Runes) /\ nodes \subseteq Seq(Runes) /\ Len(n) \in Nat
  BY LenProperties DEF TreeInv
<1>2. ASSUME n \in wordEnds PROVE Best(wordEnds, n) = {n}
  <2>1. IsPrefix(n, n)
    BY <1>1, PrefixOrder
  <2>2. \A v \in wordEnds : IsPrefix(n, v) /\ IsPrefix(v, n) => v = n
    BY <1>1, PrefixOrder
  <2> QED
    BY <1>2, <2>1, <2>2 DEF Best
<1>3. ASSUME n \notin wordEnds
      PROVE  Best(wordEnds, n) = UNION {Best(wordEnds, c) : c \in Children(n)}
  <2>1. ASSUME NEW w \in Best(wordEnds, n)
        PROVE  \E c \in Children(n) : w \in Best(wordEnds, c)
    <3>1. /\ w \in wordEnds /\ IsPrefix(n, w) /\ n # w /\ w \in Seq(Runes)
          /\ \A v \in wordEnds : IsPrefix(n, v) /\ IsPrefix(v, w) => v = w
      BY <1>3, <2>1 DEF Best
    <3> DEFINE c == SubSeq(w, 1, Len(n) + 1)
    <3>2. /\ Len(n) + 1 \in 0 .. Len(w) /\ c \in Seq(Runes)
          /\ Len(c) = Len(n) + 1 /\ IsPrefix(n, c) /\ IsPrefix(c, w)
      BY <1>1, <3>1, NextOnTheWay
    <3>3. c \in Children(n)
      BY <3>1, <3>2 DEF TreeInv, Children
    <3> HIDE DEF c
    <3>4. \A v \in wordEnds : IsPrefix(c, v) /\ IsPrefix(v, w) => v = w
      BY <1>1, <3>1, <3>2, PrefixOrder
    <3> QED
      BY <3>1, <3>2, <3>3, <3>4 DEF Best
  <2>2. ASSUME NEW c \in Children(n), NEW w \in Best(wordEnds, c)
        PROVE  w \in Best(wordEnds, n)
    <3>1. /\ c \in Seq(Runes) /\ IsPrefix(n, c) /\ Len(c) = Len(n) + 1
          /\ w \in wordEnds /\ IsPrefix(c, w) /\ w \in Seq(Runes)
          /\ \A v \in wordEnds : IsPrefix(c, v) /\ IsPrefix(v, w) => v = w
      BY <1>1, <2>2 DEF Children, Best
    <3>2. ASSUME NEW v \in wordEnds, IsPrefix(n, v), IsPrefix(v, w)
          PROVE  v = w
      <4>1. v \in Seq(Runes) /\ Len(v) \in Nat
        BY LenProperties
      <4>2. Len(n) <= Len(v) /\ ~ (Len(v) <= Len(n))
        BY <1>1, <1>3, <3>2, <4>1, PrefixOrder
      <4>3. Len(c) <= Len(v)
        BY <1>1, <3>1, <4>1, <4>2
      <4>4. IsPrefix(c, v)
        BY <3>1, <3>2, <4>1, <4>3, PrefixOrder
      <4> QED
        BY <3>1, <3>2, <4>4
    <3>3. IsPrefix(n, w)
      BY <1>1, <3>1, PrefixOrder
    <3> QED
      BY <3>1, <3>2, <3>3 DEF Best
  <2> QED
    BY <2>1, <2>2
<1> QED
  BY <1>2, <1>3

\* Hence findFirstWordTail finds the best words of every node: a node it does
\* not, and from which no deeper one is, would contradict the step above.
LEMMA TailIsBest ==
  ASSUME TreeInv, wordEnds \subseteq Seq(Runes), NEW n \in nodes
  PROVE  FirstWordTail[n] = Best(wordEnds, n)
<1> DEFINE Walk(f) == [x \in nodes |-> IF x \in wordEnds THEN {x}
                                       ELSE UNION {f[c] : c \in Children(x)}]
           best == [x \in nodes |-> Best(wordEnds, x)]
           tail == CHOOSE f : f = Walk(f)
<1>1. \A x \in nodes : \A c \in Children(x) : c \in nodes /\ Len(c) = Len(x) + 1
  BY DEF Children
<1>2. best = Walk(best)
  <2>1. ASSUME NEW x \in nodes
        PROVE  best[x] = IF x \in wordEnds THEN {x} ELSE UNION {best[c] : c \in Children(x)}
    <3>1. best[x] = IF x \in wordEnds THEN {x}
                    ELSE UNION {Best(wordEnds, c) : c \in Children(x)}
      BY WalkFindsBest
    <3>2. {Best(wordEnds, c) : c \in Children(x)} = {best[c] : c \in Children(x)}
      BY <1>1
    <3> QED
      BY <3>1, <3>2
  <2>2. best = [x \in nodes |-> best[x]]
    OBVIOUS
  <2> HIDE DEF best
  <2> QED
    BY <2>1, <2>2
<1>3. FirstWordTail = tail
  BY DEF FirstWordTail
<1> HIDE DEF best
<1>4. tail = Walk(tail)
  <2> HIDE DEF Walk
  <2> QED
    BY <1>2
<1> HIDE DEF tail
<1>5. \A x \in nodes : tail[x] = IF x \in wordEnds THEN {x}
                                 ELSE UNION {tail[c] : c \in Children(x)}
  <2> DEFINE value(x) == IF x \in wordEnds THEN {x} ELSE UNION {tail[c] : c \in Children(x)}
  <2>1. tail = [x \in nodes |-> value(x)]
    BY <1>4
  <2> HIDE DEF value
  <2>2. \A x \in nodes : tail[x] = value(x)
    BY <2>1
  <2> QED
    BY <2>2 DEF value
<1> HIDE DEF Walk
<1>6. PICK depth \in Nat : \A x \in nodes : Len(x) <= depth
  BY DEF TreeInv
<1> DEFINE G == {k \in 0 .. depth : \A x \in nodes : Len(x) >= depth - k
                                       => tail[x] = Best(wordEnds, x)}
<1>7. \A x \in nodes : Len(x) \in Nat /\ Len(x) <= depth
  BY <1>6, LenProperties DEF TreeInv
<1>8. ASSUME NEW x \in nodes, \A c \in nodes : Len(c) = Len(x) + 1 => tail[c] = Best(wordEnds, c)
      PROVE  tail[x] = Best(wordEnds, x)
  <2>1. {tail[c] : c \in Children(x)} = {Best(wordEnds, c) : c \in Children(x)}
    BY <1>1, <1>8
  <2>2. tail[x] = IF x \in wordEnds THEN {x} ELSE UNION {Best(wordEnds, c) : c \in Children(x)}
    BY <1>5, <2>1
  <2> QED
    BY <2>2, WalkFindsBest
<1>9. 0 \in G
  <2>1. ASSUME NEW x \in nodes, Len(x) >= depth - 0 PROVE tail[x] = Best(wordEnds, x)
    <3>1. \A c \in nodes : Len(c) # Len(x) + 1
      BY <1>7, <2>1
    <3> QED
      BY <1>8, <3>1
  <2> QED
    BY <2>1
<1>10. ASSUME NEW k \in 0 .. depth - 1, k \in G PROVE k + 1 \in G
  <2>1. ASSUME NEW x \in nodes, Len(x) >= depth - (k + 1) PROVE tail[x] = Best(wordEnds, x)
    <3>1. ASSUME NEW c \in nodes, Len(c) = Len(x) + 1 PROVE tail[c] = Best(wordEnds, c)
      <4>1. Len(c) >= depth - k
        BY <1>7, <2>1, <3>1
      <4> QED
        BY <1>10, <4>1
    <3> QED
      BY <1>8, <3>1
  <2> QED
    BY <2>1
<1> HIDE DEF G
<1>11. depth \in G
  <2>1. \A k \in 0 .. depth : k \in G
    BY <1>6, <1>9, <1>10, UpTo
  <2>2. depth \in 0 .. depth
    BY <1>6
  <2> QED
    BY <2>1, <2>2
<1>12. tail[n] = Best(wordEnds, n)
  <2>1. Len(n) >= depth - depth
    BY <1>7
  <2> QED
    BY <1>11, <2>1 DEF G
<1> QED
  BY <1>3, <1>12

\* A prefix that is no node starts no word.
LEMMA SearchFindsBest ==
  ASSUME TreeInv, wordEnds \subseteq Seq(Runes), NEW S, NEW p \in Seq(S)
  PROVE  SearchTree(p) = Best(wordEnds, p)
<1>1. CASE p \in nodes
  BY <1>1, TailIsBest DEF SearchTree
<1>2. CASE p \notin nodes
  <2>1. ASSUME NEW w \in wordEnds, IsPrefix(p, w) PROVE FALSE
    <3>1. p = SubSeq(w, 1, Len(p)) /\ Len(p) <= Len(w)
      BY <2>1, SubSeqFull DEF IsPrefix
    <3>2. Len(p) \in 0 .. Len(w)
      BY <3>1, LenProperties
    <3> QED
      BY <1>2, <3>1, <3>2 DEF TreeInv
  <2>2. Best(wordEnds, p) = {}
    BY <2>1 DEF Best
  <2> QED
    BY <1>2, <2>2 DEF SearchTree
<1> QED
  BY <1>1, <1>2
-----------------------------------------------------------------------------
Questions == [stage : {"free", "asked", "answered", "expired"}, word : Seq(Runes),
              answer : Seq(Runes)]
T9Typed ==
  /\ text \in Seq(Runes) /\ offered \in Seq(Runes) /\ raced \in BOOLEAN
  /\ call \in [Calls -> Questions]

\* Until a key comes while a question is open, a question is about the word
\* in the box.
QuestionsFit ==
  ~ raced => \A c \in Calls : call[c].stage # "free" => call[c].word = text

T9Inv == T9Typed /\ TreeInv /\ AnswersFromDictionary /\ QuestionsFit /\ OffersFitUnlessRaced

\* Once the tree is full its words are those of the dictionary.
LEMMA WordEndsAreWords ==
  ASSUME TreeInv
  PROVE  wordEnds \subseteq Seq(Runes) /\ (inserted = Len(Dictionary) => wordEnds = Words)
<1>1. \A i \in 1 .. inserted : i \in 1 .. Len(Dictionary)
  BY DictionaryWords DEF TreeInv
<1>2. wordEnds \subseteq Seq(Runes)
  BY <1>1, DictionaryWords DEF TreeInv
<1>3. inserted = Len(Dictionary) => wordEnds = Words
  BY DictionaryWords DEF TreeInv, Words, ToSet
<1> QED
  BY <1>2, <1>3

\* What QueryT9Prediction may return, once the tree is full.
LEMMA PredictionIsNearest ==
  ASSUME TreeInv, inserted = Len(Dictionary), NEW w \in Seq(Runes)
  PROVE  QueryT9Prediction(w) = IF Nearest(FixedPrefix(w)) # {} THEN Nearest(FixedPrefix(w))
                                ELSE Nearest(NormalizeLayout(FixedPrefix(w)))
<1>1. wordEnds \subseteq Seq(Runes) /\ wordEnds = Words
  BY WordEndsAreWords
<1>2. \A p : Nearest(p) = Best(wordEnds, p)
  BY <1>1 DEF Nearest, Best
<1> DEFINE p == FixedPrefix(w)
           p2 == NormalizeLayout(p)
<1>3. p \in Seq(Runes)
  BY FixedIsWord
<1> HIDE DEF p
<1>4. p2 \in Seq({p2[i] : i \in DOMAIN p})
  <2> DEFINE rune(i) == IF p[i] \in DOMAIN TranslitEn THEN TranslitEn[p[i]]
                        ELSE IF p[i] \in DOMAIN TranslitRu THEN TranslitRu[p[i]] ELSE p[i]
  <2>1. p2 = [i \in 1 .. Len(p) |-> rune(i)] /\ Len(p) \in Nat /\ DOMAIN p = 1 .. Len(p)
    BY <1>3, LenProperties DEF NormalizeLayout
  <2> HIDE DEF rune, p2
  <2>2. p2 \in [1 .. Len(p) -> {p2[i] : i \in DOMAIN p}]
    BY <2>1
  <2> QED
    BY <2>1, <2>2, SeqDef
<1> HIDE DEF p2
<1>5. SearchTree(p) = Nearest(p) /\ SearchTree(p2) = Nearest(p2)
  BY <1>1, <1>2, <1>3, <1>4, SearchFindsBest
<1> QED
  BY <1>5 DEF QueryT9Prediction, Search, p, p2

\* At first the tree is its root.
LEMMA T9Starts == T9Init => T9Inv
<1> SUFFICES ASSUME T9Init PROVE T9Inv
  OBVIOUS
<1>1. T9Typed
  BY EmptySeq DEF T9Init, T9Typed, Questions, Free
<1>2. TreeInv
  <2>1. inserted \in 0 .. Len(Dictionary) /\ inserted = 0 /\ wordEnds = {}
    BY DictionaryWords DEF T9Init
  <2>2. nodes \subseteq Seq(Runes) /\ \A n \in nodes : Len(n) <= 0
    BY EmptySeq DEF T9Init
  <2> QED
    BY <2>1, <2>2 DEF TreeInv
<1>3. AnswersFromDictionary /\ QuestionsFit /\ OffersFitUnlessRaced
  BY DEF T9Init, Free, AnswersFromDictionary, QuestionsFit, OffersFitUnlessRaced
<1> QED
  BY <1>1, <1>2, <1>3 DEF T9Inv

\* A word comes into the tree with everything on the way to it.
LEMMA BootstrapKeepsTree ==
  ASSUME TreeInv, BootstrapT9Dictionary
  PROVE  TreeInv'
<1> DEFINE word == Dictionary[inserted + 1]
<1>1. /\ inserted + 1 \in 1 .. Len(Dictionary) /\ inserted' = inserted + 1 /\ inserted \in Nat
      /\ nodes' = nodes \union {SubSeq(word, 1, k) : k \in 0 .. Len(word)}
      /\ wordEnds' = wordEnds \union {word} /\ Len(Dictionary) \in Nat
  BY DictionaryWords DEF BootstrapT9Dictionary, Insert, TreeInv
<1>2. word \in Seq(Runes) /\ Len(word) \in Nat
  BY <1>1, DictionaryWords, LenProperties
<1>3. wordEnds' = {Dictionary[i] : i \in 1 .. inserted'}
  <2>1. 1 .. inserted + 1 = (1 .. inserted) \union {inserted + 1}
    BY <1>1
  <2> QED
    BY <1>1, <2>1 DEF TreeInv
<1> HIDE DEF word
<1>4. \A k \in 0 .. Len(word) : /\ SubSeq(word, 1, k) \in Seq(Runes)
                                /\ Len(SubSeq(word, 1, k)) <= Len(word)
  <2> SUFFICES ASSUME NEW k \in 0 .. Len(word)
               PROVE  SubSeq(word, 1, k) \in Seq(Runes) /\ Len(SubSeq(word, 1, k)) <= Len(word)
    OBVIOUS
  <2>1. \A i \in 1 .. k : word[i] \in Runes
    BY <1>2, ElementOfSeq
  <2>2. /\ SubSeq(word, 1, k) \in Seq(Runes)
        /\ Len(SubSeq(word, 1, k)) = IF 1 <= k THEN k - 1 + 1 ELSE 0
    BY <1>2, <2>1, SubSeqProperties
  <2> QED
    BY <1>2, <2>2
<1>5. nodes' \subseteq Seq(Runes)
  BY <1>1, <1>4 DEF TreeInv
<1>6. \A w \in wordEnds' : \A k \in 0 .. Len(w) : SubSeq(w, 1, k) \in nodes'
  BY <1>1 DEF TreeInv
<1>7. \E depth \in Nat : \A n \in nodes' : Len(n) <= depth
  <2>1. PICK depth \in Nat : \A n \in nodes : Len(n) <= depth
    BY DEF TreeInv
  <2>2. \A n \in nodes' : Len(n) \in Nat /\ Len(n) <= depth + Len(word)
    BY <1>1, <1>2, <1>4, <1>5, <2>1, LenProperties
  <2>3. depth + Len(word) \in Nat
    BY <1>2
  <2> QED
    BY <2>2, <2>3
<1>8. inserted' \in 0 .. Len(Dictionary)
  BY <1>1
<1> QED
  BY <1>3, <1>5, <1>6, <1>7, <1>8 DEF TreeInv

\* A key while a question is open is a race; otherwise the only question that
\* is open is about the new word.
LEMMA KeyKeepsT9 ==
  ASSUME T9Inv, NEW w \in Seq(Runes), CheckT9(w)
  PROVE  T9Inv'
<1>1. TreeInv'
  <2>1. UNCHANGED <<nodes, wordEnds, inserted>>
    BY DEF CheckT9, tree
  <2> QED
    BY <2>1 DEF T9Inv, TreeInv
<1>2. text' = w /\ raced' = (raced \/ \E c \in Calls : call[c].stage # "free")
  BY DEF CheckT9
<1>3. CASE Len(w) < 2
  <2>1. offered' = <<>> /\ call' = call
    BY <1>3 DEF CheckT9
  <2>2. T9Typed'
    BY <1>2, <2>1, EmptySeq DEF T9Inv, T9Typed
  <2> QED
    BY <1>1, <1>2, <2>1, <2>2 DEF T9Inv, AnswersFromDictionary, QuestionsFit, OffersFitUnlessRaced
<1>4. CASE ~ (Len(w) < 2)
  <2>1. PICK c \in Calls :
          /\ call[c].stage = "free"
          /\ call' = [call EXCEPT ![c] = [stage |-> "asked", word |-> w, answer |-> <<>>]]
    BY <1>4 DEF CheckT9
  <2>2. /\ \A d \in Calls : d # c => call'[d] = call[d]
        /\ call'[c].stage = "asked" /\ call'[c].word = w
        /\ call' \in [Calls -> Questions]
    BY <2>1, EmptySeq DEF T9Inv, T9Typed, Questions
  <2>3. offered' = offered
    BY <1>4 DEF CheckT9
  <2>4. T9Typed'
    BY <1>2, <2>2, <2>3 DEF T9Inv, T9Typed
  <2>5. AnswersFromDictionary'
    BY <2>2 DEF T9Inv, AnswersFromDictionary
  <2>6. QuestionsFit' /\ OffersFitUnlessRaced'
    BY <1>2, <2>2 DEF T9Inv, QuestionsFit, OffersFitUnlessRaced
  <2> QED
    BY <1>1, <2>4, <2>5, <2>6 DEF T9Inv
<1> QED
  BY <1>3, <1>4

\* The answer is what the search finds in the full tree.
LEMMA AnswerKeepsT9 ==
  ASSUME T9Inv, NEW c \in Calls, Answer(c)
  PROVE  T9Inv'
<1> DEFINE w == call[c].word
           found == QueryT9Prediction(w)
<1>1. PICK a \in (IF found = {} THEN {<<>>} ELSE found) :
        call' = [call EXCEPT ![c].stage = "answered", ![c].answer = a]
  BY DEF Answer
<1>2. /\ call[c].stage = "asked" /\ inserted = Len(Dictionary) /\ w \in Seq(Runes)
      /\ UNCHANGED <<nodes, wordEnds, inserted, text, offered, raced>>
  BY DEF Answer, T9Inv, T9Typed, Questions, tree
<1>3. found = IF Nearest(FixedPrefix(w)) # {} THEN Nearest(FixedPrefix(w))
              ELSE Nearest(NormalizeLayout(FixedPrefix(w)))
  BY <1>2, PredictionIsNearest DEF T9Inv
<1> HIDE DEF found
<1>4. a \in Seq(Runes)
  <2>1. Words \subseteq Seq(Runes)
    BY DictionaryWords DEF Words, ToSet
  <2>2. \A p : Nearest(p) \subseteq Words
    BY DEF Nearest
  <2> QED
    BY <1>1, <1>3, <2>1, <2>2, EmptySeq
<1>5. /\ \A d \in Calls : d # c => call'[d] = call[d]
      /\ call'[c].stage = "answered" /\ call'[c].word = w /\ call'[c].answer = a
      /\ call' \in [Calls -> Questions]
  BY <1>1, <1>4 DEF T9Inv, T9Typed, Questions
<1>6. T9Typed' /\ TreeInv'
  BY <1>2, <1>5 DEF T9Inv, T9Typed, TreeInv
<1>7. AnswersFromDictionary'
  <2> SUFFICES ASSUME NEW d \in Calls, call'[d].stage = "answered"
               PROVE  LET p == FixedPrefix(call'[d].word)
                          near == IF Nearest(p) # {} THEN Nearest(p)
                                  ELSE Nearest(NormalizeLayout(p))
                      IN  IF near = {} THEN call'[d].answer = <<>> ELSE call'[d].answer \in near
    BY DEF AnswersFromDictionary
  <2>1. CASE d = c
    BY <1>1, <1>3, <1>5, <2>1
  <2>2. CASE d # c
    BY <1>5, <2>2 DEF T9Inv, AnswersFromDictionary
  <2> QED
    BY <2>1, <2>2
<1>8. QuestionsFit' /\ OffersFitUnlessRaced'
  BY <1>2, <1>5 DEF T9Inv, QuestionsFit, OffersFitUnlessRaced
<1> QED
  BY <1>6, <1>7, <1>8 DEF T9Inv

\* An empty answer of the proxy counts as no answer of the tree.
LEMMA ExpireKeepsT9 ==
  ASSUME T9Inv, NEW c \in Calls, Expire(c)
  PROVE  T9Inv'
<1>1. /\ \A d \in Calls : d # c => call'[d] = call[d]
      /\ call[c].stage = "asked" /\ call'[c].stage = "expired" /\ call'[c].word = call[c].word
      /\ call' \in [Calls -> Questions]
      /\ UNCHANGED <<nodes, wordEnds, inserted, text, offered, raced>>
  BY DEF Expire, T9Inv, T9Typed, Questions, tree
<1>2. T9Typed' /\ TreeInv'
  BY <1>1 DEF T9Inv, T9Typed, TreeInv
<1>3. AnswersFromDictionary'
  BY <1>1 DEF T9Inv, AnswersFromDictionary
<1>4. QuestionsFit' /\ OffersFitUnlessRaced'
  BY <1>1 DEF T9Inv, QuestionsFit, OffersFitUnlessRaced
<1> QED
  BY <1>2, <1>3, <1>4 DEF T9Inv

\* What is offered continues the word that was asked about.
LEMMA DeliverKeepsT9 ==
  ASSUME T9Inv, NEW c \in Calls, Deliver(c)
  PROVE  T9Inv'
<1>1. /\ \A d \in Calls : d # c => call'[d] = call[d]
      /\ call[c].stage # "free" /\ call'[c].stage = "free"
      /\ call' \in [Calls -> Questions] /\ call[c].answer \in Seq(Runes)
      /\ offered' = IF call[c].answer # <<>> /\ IsPrefix(call[c].word, call[c].answer)
                    THEN call[c].answer ELSE <<>>
      /\ UNCHANGED <<nodes, wordEnds, inserted, text, raced>>
  BY EmptySeq DEF Deliver, T9Inv, T9Typed, Questions, Free, tree
<1>2. T9Typed' /\ TreeInv'
  BY <1>1, EmptySeq DEF T9Inv, T9Typed, TreeInv
<1>3. AnswersFromDictionary'
  BY <1>1 DEF T9Inv, AnswersFromDictionary
<1>4. QuestionsFit' /\ OffersFitUnlessRaced'
  BY <1>1 DEF T9Inv, QuestionsFit, OffersFitUnlessRaced
<1> QED
  BY <1>2, <1>3, <1>4 DEF T9Inv

\* An empty box has no offer.
LEMMA TabOrEnterKeepsT9 ==
  ASSUME T9Inv, TabOrEnter
  PROVE  T9Inv'
<1>1. /\ text' = <<>> /\ offered' = <<>>
      /\ raced' = (raced \/ \E c \in Calls : call[c].stage # "free")
      /\ UNCHANGED <<nodes, wordEnds, inserted, call>>
  BY DEF TabOrEnter, tree
<1>2. T9Typed' /\ TreeInv'
  BY <1>1, EmptySeq DEF T9Inv, T9Typed, TreeInv
<1> QED
  BY <1>1, <1>2 DEF T9Inv, AnswersFromDictionary, QuestionsFit, OffersFitUnlessRaced

\* T9Inv is inductive.
LEMMA StepKeepsT9 == T9Inv /\ [T9Next]_t9Vars => T9Inv'
<1> SUFFICES ASSUME T9Inv, [T9Next]_t9Vars PROVE T9Inv'
  OBVIOUS
<1>1. CASE BootstrapT9Dictionary
  <2>1. TreeInv'
    BY <1>1, BootstrapKeepsTree DEF T9Inv
  <2> QED
    BY <1>1, <2>1 DEF BootstrapT9Dictionary, T9Inv, T9Typed, AnswersFromDictionary, QuestionsFit,
       OffersFitUnlessRaced
<1>2. ASSUME NEW r \in Keyboard, Type(r) PROVE T9Inv'
  <2>1. Append(text, r) \in Seq(Runes)
    BY LayoutAssumption, AppendProperties DEF T9Inv, T9Typed
  <2> QED
    BY <1>2, <2>1, KeyKeepsT9 DEF Type
<1>3. CASE Erase
  <2>1. Front(text) \in Seq(Runes)
    <3>1. /\ Len(text) \in Nat /\ \A i \in 1 .. Len(text) : text[i] \in Runes
      BY LenProperties, ElementOfSeq DEF T9Inv, T9Typed
    <3> QED
      BY <3>1, SubSeqProperties DEF Front
  <2> QED
    BY <1>3, <2>1, KeyKeepsT9 DEF Erase
<1>4. CASE UNCHANGED t9Vars
  <2>1. UNCHANGED <<nodes, wordEnds, inserted, text, call, offered, raced>>
    BY <1>4 DEF t9Vars, tree
  <2>2. T9Typed' /\ TreeInv'
    BY <2>1 DEF T9Inv, T9Typed, TreeInv
  <2> QED
    BY <2>1, <2>2 DEF T9Inv, AnswersFromDictionary, QuestionsFit, OffersFitUnlessRaced
<1> QED
  BY <1>1, <1>2, <1>3, <1>4, AnswerKeepsT9, ExpireKeepsT9, DeliverKeepsT9, TabOrEnterKeepsT9
     DEF T9Next

(***************************************************************************)
(* Whatever the user types, QueryT9Autocomplete answers with a nearest     *)
(* word of the dictionary for the prefix, in the layout it was typed in    *)
(* or, if no word starts with that, in the other one, and with nothing     *)
(* only if neither has one: for every dictionary and order of insertion    *)
(* and however findFirstWordTail walks its maps.                           *)
(***************************************************************************)
THEOREM AnswersAreNearest == T9Spec => []AnswersFromDictionary
<1>1. T9Inv => AnswersFromDictionary
  BY DEF T9Inv
<1> QED
  BY <1>1, T9Starts, StepKeepsT9, PTL DEF T9Spec

(***************************************************************************)
(* When no key came while a question was open and none is open now, what   *)
(* checkT9 has left in activeSuggestion continues the word in the box,     *)
(* for any dictionary, layouts and answers, those that expired at the      *)
(* proxy included.                                                         *)
(***************************************************************************)
THEOREM OffersFit == T9Spec => []OffersFitUnlessRaced
<1>1. T9Inv => OffersFitUnlessRaced
  BY DEF T9Inv
<1> QED
  BY <1>1, T9Starts, StepKeepsT9, PTL DEF T9Spec
=============================================================================
