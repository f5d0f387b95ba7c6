-------------------------- MODULE RoomClockProofs --------------------------
(***************************************************************************)
(* Pauses cost a room no time: the deadline of an unpaused room is the one *)
(* that was promised, however often it was paused and for however long, as *)
(* long as no moderator joins during a pause.  While the room is paused    *)
(* the promise runs ahead of the deadline by the length of the pause so    *)
(* far, which is what the next Unpause adds.                               *)
(***************************************************************************)
EXTENDS RoomClock, TLAPS

\* A deadline that was never set stays in the past: pauses can add no more
\* than the time that has gone by.
NeverSet == updatedAt =< ZeroTime + (IF paused THEN createdAt ELSE now)

DeadlineInv ==
  /\ open => \/ NeverSet
             \/ /\ HasDeadline
                /\ promised - updatedAt = IF paused THEN now - createdAt ELSE 0
  /\ paused => updatedAt =< createdAt + LongestMeeting * Minute

ClockInv == TypeOK /\ DeadlineInv

\* Any number of minutes lands on the ring.
LEMMA AheadOnRing ==
  ASSUME NEW minutes \in Int
  PROVE  Ahead(minutes) \in Distances
BY NumSlotsAssumption DEF Ahead, Distances

\* Arming and disarming keep the timers well-formed.
LEMMA RearmedTyped ==
  ASSUME timers \in [{"room"} -> SUBSET Distances], NEW minutes \in Int
  PROVE  /\ Armed(timers, "room", minutes) \in [{"room"} -> SUBSET Distances]
         /\ \A t \in Rearmed(minutes) : t \in [{"room"} -> SUBSET Distances]
<1>1. \A t \in [{"room"} -> SUBSET Distances] :
        Armed(t, "room", minutes) \in [{"room"} -> SUBSET Distances]
  BY AheadOnRing DEF Armed
<1>2. \A t \in Disarmed(timers, "room") : t \in [{"room"} -> SUBSET Distances]
  BY DEF Disarmed
<1> QED BY <1>1, <1>2 DEF Rearmed

\* A turn of the wheel keeps them well-formed too.
LEMMA TurnedTyped ==
  ASSUME timers \in [{"room"} -> SUBSET Distances]
  PROVE  Turned(timers) \in [{"room"} -> SUBSET Distances]
BY DEF Turned

LEMMA MinutesUntilInt ==
  ASSUME now \in Nat, NEW t \in Int
  PROVE  MinutesUntil(t) \in Int
BY ClockAssumption DEF MinutesUntil

\* Products of the constants that the solvers need only as numbers.
LEMMA DefaultSpan ==
  /\ DefaultMinutes * Minute \in Nat /\ LongestMeeting * Minute \in Nat
  /\ DefaultMinutes * Minute =< LongestMeeting * Minute
BY ClockAssumption

LEMMA TypedSpan ==
  ASSUME NEW minutes, Accepted(minutes)
  PROVE  /\ minutes \in Nat /\ minutes * Minute \in Nat
         /\ minutes * Minute =< LongestMeeting * Minute
BY ClockAssumption DEF Accepted

LEMMA InitClockInv == Init => ClockInv
<1> SUFFICES ASSUME Init PROVE ClockInv  OBVIOUS
<1>1. ~ open /\ ~ paused  BY DEF Init
<1>2. timers \in [{"room"} -> SUBSET Distances]  BY DEF Init
<1>3. TypeOK
  <2>1. turned \in BOOLEAN /\ open \in BOOLEAN /\ present \in BOOLEAN /\ paused \in BOOLEAN
    BY DEF Init
  <2>2. /\ now \in 0 .. MaxTime /\ createdAt \in 0 .. now /\ updatedAt \in Int
        /\ promised \in Nat /\ creates \in 0 .. MaxCreates
    BY ClockAssumption DEF Init
  <2>3. updatedAt =< now + LongestMeeting * Minute
    BY DefaultSpan DEF Init
  <2>4. stage \in {"idle", "ticked", "condemned"}
    BY DEF Init
  <2> QED BY <1>1, <1>2, <2>1, <2>2, <2>3, <2>4 DEF TypeOK
<1> QED BY <1>1, <1>3 DEF ClockInv, DeadlineInv

LEMMA NextClockInv ==
  ASSUME RejoinPaused = FALSE, ClockInv, [Next]_vars
  PROVE  ClockInv'
<1> USE ClockAssumption, DefaultSpan DEF ClockInv, TypeOK, DeadlineInv, NeverSet, HasDeadline, ZeroTime,
        clock, room, history
<1>1. CASE Elapse
  <2>1. /\ now' \in 0 .. MaxTime /\ createdAt' \in 0 .. now' /\ updatedAt' \in Int
        /\ promised' \in Nat
        /\ updatedAt' =< now' + LongestMeeting * Minute
    BY <1>1 DEF Elapse
  <2>2. TypeOK'
    BY <1>1, <2>1 DEF Elapse
  <2>3. DeadlineInv'
    BY <1>1 DEF Elapse
  <2> QED BY <2>2, <2>3
<1>2. CASE CreateLazily
  <2>1. timers' \in [{"room"} -> SUBSET Distances]
    BY <1>2, RearmedTyped DEF CreateLazily
  <2>2. /\ updatedAt' \in Int /\ promised' \in Nat
        /\ updatedAt' =< now' + LongestMeeting * Minute
    BY <1>2 DEF CreateLazily
  <2>3. TypeOK'
    <3>1. open' \in BOOLEAN /\ present' \in BOOLEAN /\ paused' \in BOOLEAN /\ (paused' => open')
      BY <1>2 DEF CreateLazily
    <3>2. /\ now' \in 0 .. MaxTime /\ turned' \in BOOLEAN /\ createdAt' \in 0 .. now'
          /\ stage' \in {"idle", "ticked", "condemned"}
          /\ creates' \in 0 .. MaxCreates
      BY <1>2, <2>2 DEF CreateLazily
    <3> QED BY <2>1, <2>2, <3>1, <3>2
  <2>4. DeadlineInv'
    BY <1>2 DEF CreateLazily
  <2> QED BY <2>3, <2>4
<1>3. CASE CreateRoom
  <2>1. timers' \in [{"room"} -> SUBSET Distances]
    BY <1>3, RearmedTyped DEF CreateRoom
  <2>2. /\ updatedAt' \in Int /\ promised' \in Nat
        /\ updatedAt' =< now' + LongestMeeting * Minute
        /\ creates' \in 0 .. MaxCreates
    BY <1>3 DEF CreateRoom
  <2>3. TypeOK'
    <3>1. open' \in BOOLEAN /\ present' \in BOOLEAN /\ paused' \in BOOLEAN /\ (paused' => open')
      BY <1>3 DEF CreateRoom
    <3>2. /\ now' \in 0 .. MaxTime /\ turned' \in BOOLEAN /\ createdAt' \in 0 .. now'
          /\ stage' \in {"idle", "ticked", "condemned"}
          /\ creates' \in 0 .. MaxCreates
      BY <1>3, <2>2 DEF CreateRoom
    <3> QED BY <2>1, <2>2, <3>1, <3>2
  <2>4. DeadlineInv'
    BY <1>3 DEF CreateRoom
  <2> QED BY <2>3, <2>4
<1>4. CASE Join  BY <1>4 DEF Join
<1>5. ASSUME NEW minutes \in TypedMinutes, JoinModerator(minutes)
      PROVE  ClockInv'
  <2>1. timers' \in [{"room"} -> SUBSET Distances]
    BY <1>5, RearmedTyped, TypedSpan DEF JoinModerator
  <2> HIDE DEF Accepted
  <2> QED BY <1>5, <2>1, TypedSpan DEF JoinModerator
<1>6. CASE LastLeaves  BY <1>6 DEF LastLeaves
<1>7. CASE Pause
  <2>1. timers' \in [{"room"} -> SUBSET Distances]
    BY <1>7, RearmedTyped DEF Pause
  <2> QED BY <1>7, <2>1 DEF Pause
<1>8. CASE Unpause
  <2>1. timers' \in [{"room"} -> SUBSET Distances]
    BY <1>8, RearmedTyped, MinutesUntilInt DEF Unpause
  <2>2. /\ open /\ paused /\ open' /\ ~ paused'
        /\ updatedAt' = updatedAt + (now - createdAt)
        /\ UNCHANGED <<clock, stage, open, present, createdAt, history>>
    BY <1>8 DEF Unpause
  <2>3. TypeOK'
    <3>1. open' \in BOOLEAN /\ present' \in BOOLEAN /\ paused' \in BOOLEAN /\ (paused' => open')
      BY <1>8, <2>2 DEF Unpause
    <3>2. updatedAt' \in Int /\ updatedAt' =< now' + LongestMeeting * Minute
      BY <2>2
    <3> QED BY <2>1, <2>2, <3>1, <3>2
  <2>4. DeadlineInv'
    BY <2>2
  <2> QED BY <2>3, <2>4
<1>9. CASE PauseGone
  <2>1. timers' \in [{"room"} -> SUBSET Distances]
    BY <1>9, RearmedTyped, NumSlotsAssumption DEF PauseGone, Distances
  <2> QED BY <1>9, <2>1 DEF PauseGone
<1>10. CASE TickWheel
  <2>1. timers' \in [{"room"} -> SUBSET Distances]
    BY <1>10, TurnedTyped DEF TickWheel
  <2> QED BY <1>10, <2>1 DEF TickWheel
<1>11. CASE JanitorSkips  BY <1>11 DEF JanitorSkips
<1>12. CASE JanitorKeeps
  <2>1. timers' \in [{"room"} -> SUBSET Distances]
    BY <1>12, RearmedTyped DEF JanitorKeeps
  <2> QED BY <1>12, <2>1 DEF JanitorKeeps
<1>13. CASE JanitorCondemns  BY <1>13 DEF JanitorCondemns
<1>14. CASE JanitorEvicts  BY <1>14 DEF JanitorEvicts
<1>15. CASE UNCHANGED vars  BY <1>15 DEF vars
<1> QED
  BY <1>1, <1>2, <1>3, <1>4, <1>5, <1>6, <1>7, <1>8, <1>9, <1>10, <1>11, <1>12, <1>13, <1>14,
     <1>15 DEF Next, Handlers, Janitor

\* The invariant says what the property promises: a deadline that is set was
\* not the one CreateRoom left unset.
LEMMA InvKeepsPromise == ClockInv => DeadlineIsAsPromised
BY ClockAssumption DEF ClockInv, TypeOK, DeadlineInv, NeverSet, HasDeadline, ZeroTime, DeadlineIsAsPromised

(***************************************************************************)
(* For every length of a minute, every ring and every limit: outside a     *)
(* pause the deadline is the promised one.                                 *)
(***************************************************************************)
THEOREM PausesCostNothing ==
  ASSUME RejoinPaused = FALSE
  PROVE  Spec => []DeadlineIsAsPromised
<1>1. Init => ClockInv  BY InitClockInv
<1>2. ClockInv /\ [Next]_vars => ClockInv'  BY NextClockInv
<1>3. ClockInv => DeadlineIsAsPromised  BY InvKeepsPromise
<1> QED BY <1>1, <1>2, <1>3, PTL DEF Spec

(***************************************************************************)
(* The clock stays well-formed: in particular no deadline is further ahead *)
(* than the longest meeting, however joins and pauses are mixed.           *)
(***************************************************************************)
THEOREM ClockTyped ==
  ASSUME RejoinPaused = FALSE
  PROVE  Spec => []TypeOK
<1>1. Init => ClockInv  BY InitClockInv
<1>2. ClockInv /\ [Next]_vars => ClockInv'  BY NextClockInv
<1>3. ClockInv => TypeOK  BY DEF ClockInv
<1> QED BY <1>1, <1>2, <1>3, PTL DEF Spec
-----------------------------------------------------------------------------
(***************************************************************************)
(* The timers.  A timer fires at a whole minute; time and turns of the     *)
(* wheel leave the moment it fires at alone, and every handler arms one    *)
(* that fires before the time it is given is over.                         *)
(***************************************************************************)
LEMMA ProductsAreMonotone ==
  ASSUME NEW m \in Int, NEW n \in Int, m =< n
  PROVE  m * Minute \in Int /\ n * Minute \in Int /\ m * Minute =< n * Minute
BY ClockAssumption

LEMMA MinutesOf ==
  ASSUME NEW n \in Nat
  PROVE  \E q \in Nat, r \in 0 .. Minute - 1 :
           /\ q = n \div Minute /\ r = n % Minute
           /\ q * Minute \in Nat /\ n = q * Minute + r /\ q * Minute =< n
<1> DEFINE q == n \div Minute
           r == n % Minute
<1>1. Minute \in Nat /\ Minute > 0
  BY ClockAssumption
<1>2. q \in Int /\ r \in 0 .. Minute - 1 /\ n = q * Minute + r
  BY <1>1
<1> HIDE DEF q, r
<1>3. ~ (q + 1 =< 0)
  <2>1. SUFFICES ASSUME q + 1 =< 0 PROVE FALSE
    OBVIOUS
  <2>2. (q + 1) * Minute =< 0 * Minute
    BY <1>2, <2>1, ProductsAreMonotone
  <2>3. (q + 1) * Minute = q * Minute + Minute /\ 0 * Minute = 0 /\ q * Minute \in Int
    BY <1>1, <1>2
  <2> QED
    BY <1>1, <1>2, <2>2, <2>3
<1>4. 0 * Minute =< q * Minute /\ 0 * Minute = 0 /\ q * Minute \in Int
  BY <1>1, <1>2, <1>3, ProductsAreMonotone
<1>5. q \in Nat /\ q * Minute \in Nat /\ q * Minute =< n
  BY <1>1, <1>2, <1>3, <1>4
<1> QED
  BY <1>2, <1>5 DEF q, r

LEMMA MinuteIsUnique ==
  ASSUME NEW n \in Nat, NEW q \in Nat, NEW r \in 0 .. Minute - 1, n = q * Minute + r
  PROVE  n \div Minute = q /\ n % Minute = r
<1>1. PICK p \in Nat, s \in 0 .. Minute - 1 :
        p = n \div Minute /\ s = n % Minute /\ n = p * Minute + s
  BY MinutesOf, Zenon
<1>2. Minute \in Nat /\ Minute > 0
  BY ClockAssumption
<1>3. /\ (q + 1) * Minute = q * Minute + Minute /\ (p + 1) * Minute = p * Minute + Minute
      /\ q * Minute \in Int /\ p * Minute \in Int
  BY <1>1, <1>2
<1>4. ~ (q + 1 =< p)
  BY <1>1, <1>2, <1>3, ProductsAreMonotone
<1>5. ~ (p + 1 =< q)
  BY <1>1, <1>2, <1>3, ProductsAreMonotone
<1>6. p = q
  BY <1>1, <1>4, <1>5
<1>7. s = r
  BY <1>1, <1>3, <1>6
<1> QED
  BY <1>1, <1>6, <1>7

LEMMA NextMinute ==
  ASSUME NEW n \in Nat
  PROVE  (n + 1) \div Minute = IF (n + 1) % Minute = 0 THEN n \div Minute + 1 ELSE n \div Minute
<1>1. PICK q \in Nat, r \in 0 .. Minute - 1 :
        q = n \div Minute /\ r = n % Minute /\ n = q * Minute + r /\ q * Minute \in Nat
  BY MinutesOf, Zenon
<1>2. Minute \in Nat /\ Minute > 0
  BY ClockAssumption
<1>3. CASE r = Minute - 1
  <2>1. n + 1 = (q + 1) * Minute + 0
    BY <1>1, <1>2, <1>3
  <2>2. (n + 1) \div Minute = q + 1 /\ (n + 1) % Minute = 0
    BY <1>1, <1>2, <2>1, MinuteIsUnique
  <2> QED
    BY <1>1, <2>2
<1>4. CASE r # Minute - 1
  <2>1. n + 1 = q * Minute + (r + 1) /\ r + 1 \in 0 .. Minute - 1
    BY <1>1, <1>2, <1>4
  <2>2. (n + 1) \div Minute = q /\ (n + 1) % Minute = r + 1
    BY <1>1, <2>1, MinuteIsUnique
  <2> QED
    BY <1>1, <2>2
<1> QED
  BY <1>3, <1>4

\* The turn at which a timer d turns ahead fires.
TurnOf(d, time, done) == (time \div Minute) + (IF time % Minute = 0 /\ ~ done THEN d - 1 ELSE d)

LEMMA FiresAtTurn ==
  /\ \A d : FiresAt(d) = TurnOf(d, now, turned) * Minute
  /\ \A d : FiresAt(d)' = TurnOf(d, now', turned') * Minute
BY DEF FiresAt, TurnOf

\* A timer fires no later than it is ahead.
LEMMA FiresSoon ==
  ASSUME NEW time \in Nat, NEW done \in BOOLEAN, NEW d \in Nat, NEW minutes \in Nat, d =< minutes
  PROVE  TurnOf(d, time, done) * Minute =< time + minutes * Minute
<1>1. PICK q \in Nat : q = time \div Minute /\ q * Minute =< time /\ q * Minute \in Nat
  BY MinutesOf, Zenon
<1>2. TurnOf(d, time, done) \in Int /\ TurnOf(d, time, done) =< q + minutes
  BY <1>1 DEF TurnOf
<1>3. TurnOf(d, time, done) * Minute =< (q + minutes) * Minute
  BY <1>1, <1>2, ProductsAreMonotone
<1>4. (q + minutes) * Minute = q * Minute + minutes * Minute /\ minutes * Minute \in Int
  BY <1>1, ClockAssumption
<1>5. TurnOf(d, time, done) * Minute \in Int
  BY <1>2, ClockAssumption
<1> QED
  BY <1>1, <1>3, <1>4, <1>5

\* The wheel has a look at the room before end.
LooksBefore(t, time, done, end) == \E d \in t["room"] : TurnOf(d, time, done) * Minute =< end

LEMMA AheadIsShort ==
  ASSUME NEW minutes \in Nat \ {0}
  PROVE  Ahead(minutes) \in Nat /\ Ahead(minutes) =< minutes
<1>1. NumSlots \in Nat \ {0}
  BY NumSlotsAssumption
<1>2. minutes % NumSlots \in 0 .. NumSlots - 1
  BY <1>1
<1>3. minutes % NumSlots =< minutes /\ (minutes < NumSlots => minutes % NumSlots = minutes)
  BY <1>1
<1> QED
  BY <1>1, <1>2, <1>3 DEF Ahead

LEMMA ArmedLooks ==
  ASSUME NEW t \in [{"room"} -> SUBSET Distances], NEW minutes \in Nat \ {0},
         NEW time \in Nat, NEW done \in BOOLEAN
  PROVE  LooksBefore(Armed(t, "room", minutes), time, done, time + minutes * Minute)
<1>1. Ahead(minutes) \in Armed(t, "room", minutes)["room"]
  BY DEF Armed
<1>2. TurnOf(Ahead(minutes), time, done) * Minute =< time + minutes * Minute
  BY AheadIsShort, FiresSoon
<1> QED
  BY <1>1, <1>2 DEF LooksBefore

LEMMA RearmedLooks ==
  ASSUME timers \in [{"room"} -> SUBSET Distances], NEW minutes \in Nat \ {0}, NEW t \in Rearmed(minutes),
         NEW time \in Nat, NEW done \in BOOLEAN
  PROVE  LooksBefore(t, time, done, time + minutes * Minute)
<1>1. PICK old \in Disarmed(timers, "room") : t = Armed(old, "room", minutes)
  BY DEF Rearmed
<1>2. old \in [{"room"} -> SUBSET Distances]
  BY DEF Disarmed
<1> QED
  BY <1>1, <1>2, ArmedLooks

Later(m, n) == IF m > n THEN m ELSE n

\* WheelLooksInTime of one state, and of the next.
Watched == open /\ ~ paused /\ stage = "idle"
             => LooksBefore(timers, now, turned, Later(promised, now) + Minute)
WatchedNext == open' /\ ~ paused' /\ stage' = "idle"
                 => LooksBefore(timers', now', turned', Later(promised', now') + Minute)

LEMMA WatchedParts == (WheelLooksInTime <=> Watched) /\ (WheelLooksInTime' <=> WatchedNext)
BY FiresAtTurn DEF WheelLooksInTime, Watched, WatchedNext, LooksBefore, Later

LEMMA LooksLonger ==
  ASSUME NEW t, NEW time \in Nat, NEW done \in BOOLEAN, NEW end \in Int, NEW far \in Int, end =< far,
         t \in [{"room"} -> SUBSET Distances], LooksBefore(t, time, done, end)
  PROVE  LooksBefore(t, time, done, far)
<1>1. PICK d \in t["room"] : TurnOf(d, time, done) * Minute =< end
  BY DEF LooksBefore
<1>2. d \in Int
  BY NumSlotsAssumption DEF Distances
<1>3. PICK q \in Nat : q = time \div Minute
  BY MinutesOf, Zenon
<1>4. TurnOf(d, time, done) \in Int
  BY <1>2, <1>3 DEF TurnOf
<1>5. TurnOf(d, time, done) * Minute \in Int
  BY <1>4, ProductsAreMonotone
<1> QED
  BY <1>1, <1>5 DEF LooksBefore

\* The unit that passes moves no timer.
LEMMA ElapseLooks ==
  ASSUME ClockInv, Elapse, NEW end, LooksBefore(timers, now, turned, end)
  PROVE  LooksBefore(timers', now', turned', end)
<1>1. /\ now \in Nat /\ now' = now + 1 /\ timers' = timers /\ turned' = FALSE
      /\ now % Minute = 0 => turned
      /\ timers \in [{"room"} -> SUBSET Distances]
  BY DEF ClockInv, TypeOK, Elapse
<1>2. PICK q \in Nat : q = now \div Minute
  BY <1>1, MinutesOf, Zenon
<1>3. PICK d \in timers["room"] : TurnOf(d, now, turned) * Minute =< end
  BY DEF LooksBefore
<1>4. d \in Int
  BY <1>1, NumSlotsAssumption DEF Distances
<1>5. TurnOf(d, now, turned) = q + d
  BY <1>1, <1>2 DEF TurnOf
<1>6. now' \div Minute = IF now' % Minute = 0 THEN q + 1 ELSE q
  BY <1>1, <1>2, NextMinute
<1>7. TurnOf(d, now', turned') = q + d
  BY <1>1, <1>2, <1>4, <1>6 DEF TurnOf
<1> QED
  BY <1>1, <1>3, <1>5, <1>7 DEF LooksBefore

\* A turn that fires nothing moves no timer either.
LEMMA TurnLooks ==
  ASSUME ClockInv, TickWheel, stage' = "idle", NEW end, LooksBefore(timers, now, turned, end)
  PROVE  LooksBefore(timers', now', turned', end)
<1>1. /\ now \in Nat /\ now' = now /\ timers' = Turned(timers) /\ ~ turned /\ turned' = TRUE
      /\ now % Minute = 0 /\ "room" \notin Due(timers)
      /\ timers \in [{"room"} -> SUBSET Distances]
  BY DEF ClockInv, TypeOK, TickWheel, clock
<1>2. PICK q \in Nat : q = now \div Minute
  BY <1>1, MinutesOf, Zenon
<1>3. PICK d \in timers["room"] : TurnOf(d, now, turned) * Minute =< end
  BY DEF LooksBefore
<1>4. d \in Distances /\ d # 1
  BY <1>1 DEF Due
<1>5. d - 1 \in Distances /\ (d - 1) + 1 \in timers["room"]
  BY <1>3, <1>4, NumSlotsAssumption DEF Distances
<1>6. d - 1 \in timers'["room"]
  BY <1>1, <1>5 DEF Turned
<1>7. TurnOf(d, now, turned) = q + (d - 1)
  BY <1>1, <1>2 DEF TurnOf
<1>8. TurnOf(d - 1, now', turned') = q + (d - 1)
  BY <1>1, <1>2 DEF TurnOf
<1> QED
  BY <1>3, <1>6, <1>7, <1>8 DEF LooksBefore

\* The minutes until the deadline do not reach beyond it.
LEMMA UntilIsShort ==
  ASSUME now \in Nat, NEW t \in Int
  PROVE  /\ MinutesUntil(t) \in Nat \ {0}
         /\ now + MinutesUntil(t) * Minute =< Later(t, now) + Minute
<1>1. Minute \in Nat /\ Minute > 0
  BY ClockAssumption
<1>2. CASE t - now < Minute
  <2>1. MinutesUntil(t) = 1
    BY <1>2 DEF MinutesUntil
  <2> QED
    BY <1>1, <2>1 DEF Later
<1>3. CASE ~ (t - now < Minute)
  <2>1. t - now \in Nat /\ MinutesUntil(t) = (t - now) \div Minute
    BY <1>1, <1>3 DEF MinutesUntil
  <2>2. PICK q \in Nat, r \in 0 .. Minute - 1 :
          /\ q = (t - now) \div Minute /\ q * Minute \in Nat
          /\ t - now = q * Minute + r /\ q * Minute =< t - now
    BY <2>1, MinutesOf, Zenon
  <2>3. q # 0
    BY <1>1, <1>3, <2>2
  <2>4. now + q * Minute =< Later(t, now) + Minute
    BY <1>1, <2>2 DEF Later
  <2> QED
    BY <2>1, <2>2, <2>3, <2>4
<1> QED
  BY <1>2, <1>3

LEMMA WatchedStep ==
  ASSUME RejoinPaused = FALSE, ClockInv, Watched, [Next]_vars
  PROVE  WatchedNext
<1>1. /\ now \in Nat /\ turned \in BOOLEAN /\ promised \in Nat /\ updatedAt \in Int
      /\ timers \in [{"room"} -> SUBSET Distances] /\ Minute \in Nat /\ Minute > 0
  BY ClockAssumption DEF ClockInv, TypeOK
<1>2. CASE Elapse
  <2>1. SUFFICES ASSUME open', ~ paused', stage' = "idle"
                 PROVE  LooksBefore(timers', now', turned', Later(promised', now') + Minute)
    BY DEF WatchedNext
  <2>2. LooksBefore(timers, now, turned, Later(promised, now) + Minute)
    BY <1>2, <2>1 DEF Elapse, room, Watched
  <2>3. LooksBefore(timers', now', turned', Later(promised, now) + Minute)
    BY <1>2, <2>2, ElapseLooks
  <2>4. /\ now' = now + 1 /\ promised' = promised /\ turned' = FALSE
        /\ timers' \in [{"room"} -> SUBSET Distances]
    BY <1>1, <1>2, <2>1 DEF Elapse, room
  <2>5. /\ Later(promised, now) + Minute =< Later(promised', now') + Minute
        /\ Later(promised, now) + Minute \in Int /\ Later(promised', now') + Minute \in Int
    BY <1>1, <2>4 DEF Later
  <2>6. now' \in Nat
    BY <1>1, <2>4
  <2>7. turned' \in BOOLEAN
    BY <2>4, Zenon
  <2> QED
    BY <2>3, <2>4, <2>5, <2>6, <2>7, LooksLonger
<1>3. CASE CreateLazily \/ CreateRoom
  <2>1. /\ timers' = Armed(timers, "room", DefaultMinutes)
        /\ promised' = now + DefaultMinutes * Minute /\ UNCHANGED clock
    BY <1>3 DEF CreateLazily, CreateRoom
  <2>2. now' = now /\ turned' = turned /\ DefaultMinutes \in Nat \ {0} /\ DefaultMinutes * Minute \in Nat
    BY <2>1, ClockAssumption, DefaultSpan DEF clock
  <2>3. LooksBefore(timers', now', turned', promised')
    BY <1>1, <2>1, <2>2, ArmedLooks
  <2>4. /\ promised' \in Int /\ Later(promised', now') + Minute \in Int
        /\ promised' =< Later(promised', now') + Minute
    BY <1>1, <2>1, <2>2 DEF Later
  <2>5. timers' \in [{"room"} -> SUBSET Distances]
    BY <1>1, <2>1, <2>2, RearmedTyped
  <2> QED
    BY <1>1, <2>2, <2>3, <2>4, <2>5, LooksLonger DEF WatchedNext
<1>4. ASSUME NEW minutes \in TypedMinutes, JoinModerator(minutes)
      PROVE  WatchedNext
  <2>1. /\ timers' \in Rearmed(minutes) /\ Accepted(minutes)
        /\ promised' = now + minutes * Minute /\ UNCHANGED clock
    BY <1>4 DEF JoinModerator
  <2>2. now' = now /\ turned' = turned /\ minutes \in Nat \ {0} /\ minutes * Minute \in Nat
    BY <2>1, TypedSpan, ClockAssumption DEF clock, Accepted
  <2>3. LooksBefore(timers', now', turned', promised')
    BY <1>1, <2>1, <2>2, RearmedLooks
  <2>4. /\ promised' \in Int /\ Later(promised', now') + Minute \in Int
        /\ promised' =< Later(promised', now') + Minute
    BY <1>1, <2>1, <2>2 DEF Later
  <2>5. timers' \in [{"room"} -> SUBSET Distances]
    BY <1>1, <2>1, <2>2, RearmedTyped
  <2> QED
    BY <1>1, <2>2, <2>3, <2>4, <2>5, LooksLonger DEF WatchedNext
<1>5. CASE Unpause
  <2>1. /\ timers' \in Rearmed(MinutesUntil(updatedAt'))
        /\ updatedAt' = updatedAt + (now - createdAt) /\ open /\ paused
        /\ UNCHANGED <<clock, history>>
    BY <1>5 DEF Unpause
  <2>2. now' = now /\ turned' = turned /\ promised' = promised /\ createdAt \in Int /\ updatedAt' \in Int
    BY <1>1, <2>1 DEF clock, history, ClockInv, TypeOK
  <2>3. updatedAt' =< Later(promised', now')
    <3>1. createdAt \in 0 .. now
      BY DEF ClockInv, TypeOK
    <3>2. CASE NeverSet
      <4>1. updatedAt =< ZeroTime + createdAt
        BY <2>1, <3>2 DEF NeverSet
      <4>2. updatedAt' =< now
        BY <1>1, <2>1, <3>1, <4>1, ClockAssumption DEF ZeroTime
      <4> QED
        BY <1>1, <2>2, <4>2 DEF Later
    <3>3. CASE promised - updatedAt = IF paused THEN now - createdAt ELSE 0
      <4>1. updatedAt' = promised
        BY <1>1, <2>1, <2>2, <3>3
      <4> QED
        BY <1>1, <2>2, <4>1 DEF Later
    <3> QED
      BY <2>1, <3>2, <3>3 DEF ClockInv, DeadlineInv
  <2> DEFINE m == MinutesUntil(updatedAt')
  <2>4. m \in Nat \ {0} /\ now + m * Minute =< Later(updatedAt', now) + Minute
    BY <1>1, <2>2, UntilIsShort
  <2> HIDE DEF m
  <2>5. LooksBefore(timers', now', turned', now + m * Minute)
    <3>1. timers' \in Rearmed(m)
      BY <2>1 DEF m
    <3> QED
      BY <1>1, <2>2, <2>4, <3>1, RearmedLooks
  <2>6. /\ now + m * Minute \in Int /\ Later(promised', now') + Minute \in Int
        /\ now + m * Minute =< Later(promised', now') + Minute
    <3>1. m * Minute \in Int
      BY <1>1, <2>4
    <3>2. /\ Later(updatedAt', now) =< Later(promised', now')
          /\ Later(updatedAt', now) \in Int /\ Later(promised', now') \in Int
      BY <1>1, <2>2, <2>3 DEF Later
    <3> QED
      BY <1>1, <2>2, <2>4, <3>1, <3>2
  <2>7. timers' \in [{"room"} -> SUBSET Distances]
    <3>1. timers' \in Rearmed(m) /\ m \in Int
      BY <2>1, <2>4 DEF m
    <3> QED
      BY <1>1, <3>1, RearmedTyped
  <2> QED
    BY <1>1, <2>2, <2>5, <2>6, <2>7, LooksLonger DEF WatchedNext
<1>6. CASE Join \/ LastLeaves
  BY <1>6 DEF Join, LastLeaves, Watched, WatchedNext, clock, history
<1>7. CASE Pause \/ PauseGone \/ JanitorSkips \/ JanitorCondemns \/ JanitorEvicts
  BY <1>7 DEF Pause, PauseGone, JanitorSkips, JanitorCondemns, JanitorEvicts, WatchedNext, room
<1>8. CASE TickWheel
  <2>1. SUFFICES ASSUME open', ~ paused', stage' = "idle"
                 PROVE  LooksBefore(timers', now', turned', Later(promised', now') + Minute)
    BY DEF WatchedNext
  <2>2. now' = now /\ promised' = promised /\ stage = "idle" /\ open /\ ~ paused
    BY <1>8, <2>1 DEF TickWheel, room, history
  <2>3. LooksBefore(timers, now, turned, Later(promised, now) + Minute)
    BY <2>2 DEF Watched
  <2>4. LooksBefore(timers', now', turned', Later(promised, now) + Minute)
    BY <1>8, <2>1, <2>3, TurnLooks
  <2> QED
    BY <2>2, <2>4
<1>9. CASE JanitorKeeps
  <2>1. timers' = Armed(timers, "room", 1) /\ now' = now /\ turned' = turned /\ promised' = promised
    BY <1>9 DEF JanitorKeeps, clock, history
  <2>2. 1 * Minute = Minute /\ 1 \in Nat \ {0}
    BY <1>1
  <2>3. LooksBefore(timers', now', turned', now + 1 * Minute)
    BY <1>1, <2>1, <2>2, ArmedLooks
  <2>4. /\ now + 1 * Minute \in Int /\ Later(promised', now') + Minute \in Int
        /\ now + 1 * Minute =< Later(promised', now') + Minute
    BY <1>1, <2>1, <2>2 DEF Later
  <2>5. timers' \in [{"room"} -> SUBSET Distances]
    BY <1>1, <2>1, RearmedTyped
  <2> QED
    BY <1>1, <2>1, <2>3, <2>4, <2>5, LooksLonger DEF WatchedNext
<1>10. CASE UNCHANGED vars
  BY <1>10 DEF vars, clock, room, history, Watched, WatchedNext
<1> QED
  BY <1>2, <1>3, <1>4, <1>5, <1>6, <1>7, <1>8, <1>9, <1>10 DEF Next, Handlers, Janitor

(***************************************************************************)
(* The janitor does not lose sight of a room: whatever joins, pauses,      *)
(* resumes (the whole minutes until the deadline, at least one, in         *)
(* moderation_business.go) and sweeps come in whatever order, the wheel    *)
(* looks at a running room at most a minute after its promised end, for    *)
(* every length of a minute, every ring and every limit.                   *)
(***************************************************************************)
THEOREM RoomsAreLookedAtInTime ==
  ASSUME RejoinPaused = FALSE
  PROVE  Spec => []WheelLooksInTime
<1> DEFINE LooksInv == ClockInv /\ WheelLooksInTime
<1>1. Init => LooksInv
  BY InitClockInv DEF Init, WheelLooksInTime
<1>2. LooksInv /\ [Next]_vars => LooksInv'
  BY NextClockInv, WatchedStep, WatchedParts
<1>3. LooksInv => WheelLooksInTime
  OBVIOUS
<1> HIDE DEF LooksInv
<1> QED
  BY <1>1, <1>2, <1>3, PTL DEF Spec
=============================================================================
