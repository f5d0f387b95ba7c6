---------------------------- MODULE TokenBucket ----------------------------
(***************************************************************************)
(* The lock-free token bucket of internal/pkg/ratelimit/limiter.go; the    *)
(* gateway and the chat history have one each for their chat messages.     *)
(*                                                                         *)
(* Callers run Allow at the same time.  Each read of the clock, atomic     *)
(* load and compare-and-swap is one action, in the order of the code.  The *)
(* clock never goes back here; Second units of it make a second.           *)
(***************************************************************************)
EXTENDS Integers

CONSTANTS Callers,
          Rate,        \* tokens per second: 5
          Capacity,    \* of the bucket: 5
          Second,      \* units of the clock in a second: 10^9
          MaxTime      \* bound on the clock

ASSUME BucketAssumption ==
  /\ Rate \in Nat /\ Capacity \in Nat \ {0} /\ Second \in Nat \ {0}
  /\ MaxTime \in Nat

VARIABLES clock,
          tokens, lastRefill,        \* the two atomics
          at,                        \* the next step of a caller
          now, seenTime, seenTokens, \* its local variables
          granted,                   \* history: calls that returned true
          credited,                  \* history: tokens that refills brought
          rewound                    \* history: lastRefill went back once

bucket == <<tokens, lastRefill>>
locals == <<now, seenTime, seenTokens>>
tally == <<granted, credited, rewound>>
vars == <<clock, bucket, at, locals, tally>>

Refill(c) == ((IF now[c] < seenTime[c] THEN 0 ELSE now[c] - seenTime[c]) * Rate) \div Second

\* newTokens.  The slip forgets the capacity.
FilledOver(c) == seenTokens[c] + Refill(c)
Filled(c) == IF seenTokens[c] + Refill(c) > Capacity THEN Capacity ELSE seenTokens[c] + Refill(c)

Goes(c, step) == at' = [at EXCEPT ![c] = step]
-----------------------------------------------------------------------------
Init == /\ clock = 0
        /\ tokens = Capacity /\ lastRefill = 0
        /\ at = [c \in Callers |-> "idle"]
        /\ now = [c \in Callers |-> 0]
        /\ seenTime = [c \in Callers |-> 0]
        /\ seenTokens = [c \in Callers |-> 0]
        /\ granted = 0 /\ credited = 0 /\ rewound = FALSE

Elapse == /\ clock < MaxTime
          /\ clock' = clock + 1
          /\ UNCHANGED <<bucket, at, locals, tally>>

\* A call begins, or goes round the loop again.
ReadClock(c) ==
  /\ at[c] \in {"idle", "again"}
  /\ now' = [now EXCEPT ![c] = clock]
  /\ Goes(c, "load time")
  /\ UNCHANGED <<clock, bucket, seenTime, seenTokens, tally>>

LoadTime(c) ==
  /\ at[c] = "load time"
  /\ seenTime' = [seenTime EXCEPT ![c] = lastRefill]
  /\ Goes(c, "load tokens")
  /\ UNCHANGED <<clock, bucket, now, seenTokens, tally>>

LoadTokens(c) ==
  /\ at[c] = "load tokens"
  /\ seenTokens' = [seenTokens EXCEPT ![c] = tokens]
  /\ Goes(c, "decide")
  /\ UNCHANGED <<clock, bucket, now, seenTime, tally>>

Returns(c) ==
  /\ Goes(c, "idle")
  /\ now' = [now EXCEPT ![c] = 0]
  /\ seenTime' = [seenTime EXCEPT ![c] = 0]
  /\ seenTokens' = [seenTokens EXCEPT ![c] = 0]

Deny(c) ==
  /\ at[c] = "decide" /\ Filled(c) < 1
  /\ Returns(c)
  /\ UNCHANGED <<clock, bucket, tally>>

\* The first compare-and-swap.  The slips store the time whatever it is by
\* now, or try again with what was read before.
StoreTime(c) ==
  /\ at[c] = "decide" /\ Filled(c) >= 1
  /\ lastRefill' = now[c]
  /\ rewound' = (rewound \/ now[c] < lastRefill)
  /\ Goes(c, "swap tokens")
  /\ UNCHANGED <<clock, tokens, locals, granted, credited>>

SwapTimeSpinning(c) ==
  /\ at[c] = "decide" /\ Filled(c) >= 1
  /\ IF lastRefill = seenTime[c]
     THEN /\ lastRefill' = now[c]
          /\ rewound' = (rewound \/ now[c] < lastRefill)
          /\ Goes(c, "swap tokens")
     ELSE UNCHANGED <<lastRefill, rewound, at>>
  /\ UNCHANGED <<clock, tokens, locals, granted, credited>>

SwapTime(c) ==
  /\ at[c] = "decide" /\ Filled(c) >= 1
  /\ IF lastRefill = seenTime[c]
     THEN /\ lastRefill' = now[c]
          /\ rewound' = (rewound \/ now[c] < lastRefill)
          /\ Goes(c, "swap tokens")
     ELSE /\ UNCHANGED <<lastRefill, rewound>>
          /\ Goes(c, "again")
  /\ UNCHANGED <<clock, tokens, locals, granted, credited>>

\* The second one.  The slip stores the tokens whatever they are by now.
Take(c) ==
  /\ tokens' = Filled(c) - 1
  /\ granted' = granted + 1
  /\ credited' = credited + (Filled(c) - seenTokens[c])
  /\ Returns(c)
  /\ UNCHANGED <<clock, lastRefill, rewound>>

StoreTokens(c) == at[c] = "swap tokens" /\ Take(c)

SwapTokens(c) ==
  /\ at[c] = "swap tokens"
  /\ \/ tokens = seenTokens[c] /\ Take(c)
     \/ /\ tokens # seenTokens[c]
        /\ Goes(c, "again")
        /\ UNCHANGED <<clock, bucket, locals, tally>>
-----------------------------------------------------------------------------
Allow(c) == \/ ReadClock(c) \/ LoadTime(c) \/ LoadTokens(c)
            \/ Deny(c) \/ SwapTime(c) \/ SwapTokens(c)

Next == Elapse \/ \E c \in Callers : Allow(c)

Spec == Init /\ [][Next]_vars

\* The goroutines of the callers are scheduled again and again.
FairSpec == Spec /\ \A c \in Callers : WF_vars(Allow(c))
-----------------------------------------------------------------------------
Steps == {"idle", "again", "load time", "load tokens", "decide", "swap tokens"}

TypeOK ==
  /\ clock \in 0 .. MaxTime
  /\ tokens \in 0 .. Capacity /\ lastRefill \in 0 .. clock
  /\ at \in [Callers -> Steps]
  /\ now \in [Callers -> 0 .. clock] /\ seenTime \in [Callers -> 0 .. clock]
  /\ seenTokens \in [Callers -> 0 .. Capacity]
  /\ granted \in Nat /\ credited \in Nat /\ rewound \in BOOLEAN

(***************************************************************************)
(* No token is taken twice and none is lost: what is in the bucket and     *)
(* what was granted is what the bucket began with and what was refilled,   *)
(* however the two compare-and-swaps of several calls interleave.          *)
(***************************************************************************)
TokensAccounted == granted + tokens = Capacity + credited

\* At most Capacity calls at once and Rate in a second.
WithinRate == granted * Second =< Capacity * Second + Rate * clock

(***************************************************************************)
(* While no caller with an old reading of the clock has turned lastRefill  *)
(* back, the calls granted stay within capacity and rate: an interval of   *)
(* time is paid for once, whoever commits it.  A caller that read the      *)
(* clock before the others and lastRefill after them gets elapsed = 0 and  *)
(* commits its old time; then the interval is paid for again.              *)
(***************************************************************************)
RateWhileForward == ~ rewound => WithinRate

(***************************************************************************)
(* "If the swap failed because of the others, we go round the spin loop    *)
(* again" (limiter.go:58): no call spins forever.  Each failed swap is     *)
(* another's progress towards a grant, and the grants a stretch of time    *)
(* allows, here the one up to MaxTime, are few.                            *)
(***************************************************************************)
CallsReturn == \A c \in Callers : at[c] # "idle" ~> at[c] = "idle"
=============================================================================
