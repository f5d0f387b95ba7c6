----------------------------- MODULE RoomClock -----------------------------
(***************************************************************************)
(* The life time of one room of the signaling gateway: its deadline        *)
(* UpdatedAt, the clock CreatedAt that a pause borrows, and its timers on  *)
(* the minute wheel (moderation_business.go, room_business.go,             *)
(* janitor_business.go).                                                   *)
(*                                                                         *)
(* Time passes in units, Minute of them to a minute, so that handlers run  *)
(* between two turns of the wheel.  A sweep of the janitor takes less than *)
(* a unit.  RoomShard models who is in the room and who may enter it; here *)
(* present says whether a session is left.                                 *)
(***************************************************************************)
EXTENDS TimerOps, FiniteSets

CONSTANTS Minute,          \* units of time in a minute
          DefaultMinutes,  \* life of a room nobody configured: 30
          PauseMinutes,    \* insurance timer of a paused room: 300
          LongestMeeting,  \* minutes a moderator may ask for: 300
          TypedMinutes,    \* numbers a moderator may type
          RejoinPaused,    \* whether a moderator may join during a pause
          MaxCreates,      \* bound on the calls of CreateRoom
          MaxTime          \* bound on the clock

ASSUME ClockAssumption ==
  /\ Minute \in Nat \ {0}
  /\ DefaultMinutes \in Nat \ {0} /\ PauseMinutes \in Nat \ {0}
  /\ LongestMeeting \in Nat /\ DefaultMinutes =< LongestMeeting
  /\ TypedMinutes \subseteq Nat
  /\ RejoinPaused \in BOOLEAN
  /\ MaxCreates \in Nat /\ MaxTime \in Nat

VARIABLES now, turned,      \* the time; the wheel was turned this minute
          stage,            \* the janitor: "idle", "ticked", "condemned"
          open,             \* the room is in the cache
          present,          \* it has a session
          paused,           \* IsPaused and RoomStates[0]
          createdAt,        \* CreatedAt: the creation, or the last pause
          updatedAt,        \* UpdatedAt: the deadline
          timers,           \* the wheel, for the one key "room"
          promised,         \* history: the end the users were promised
          creates           \* calls of CreateRoom so far

clock == <<now, turned>>
room == <<open, present, paused, createdAt, updatedAt>>
history == <<promised, creates>>
vars == <<clock, stage, room, timers, history>>

Rearmed(minutes) == {Armed(t, "room", minutes) : t \in Disarmed(timers, "room")}

\* The deadline CreateRoom leaves unset: Go's zero time, before any time here.
ZeroTime == 0 - 2 * MaxTime - 1

\* int(time.Until(UpdatedAt).Minutes()), and at least one
MinutesUntil(t) == IF t - now < Minute THEN 1 ELSE (t - now) \div Minute
-----------------------------------------------------------------------------
Init == /\ now = 0 /\ turned = TRUE
        /\ stage = "idle"
        /\ open = FALSE /\ present = FALSE /\ paused = FALSE
        /\ createdAt = 0 /\ updatedAt = 0
        /\ timers = [k \in {"room"} |-> {}]
        /\ promised = 0 /\ creates = 0

\* A pause is no part of the time the users were promised.
Elapse ==
  /\ now < MaxTime
  /\ stage = "idle"
  /\ now % Minute = 0 => turned
  /\ now' = now + 1
  /\ turned' = FALSE
  /\ promised' = IF open /\ paused THEN promised + 1 ELSE promised
  /\ UNCHANGED <<stage, room, timers, creates>>

(***************************************************************************)
(* The handlers of the gateway                                             *)
(***************************************************************************)
CreateLazily ==
  /\ ~ open
  /\ open' = TRUE /\ present' = FALSE /\ paused' = FALSE
  /\ createdAt' = now
  /\ updatedAt' = now + DefaultMinutes * Minute
  /\ timers' = Armed(timers, "room", DefaultMinutes)
  /\ promised' = now + DefaultMinutes * Minute
  /\ UNCHANGED <<clock, stage, creates>>

\* The gRPC call replaces the object and sets no deadline.
CreateRoom ==
  /\ creates < MaxCreates
  /\ creates' = creates + 1
  /\ open' = TRUE /\ present' = FALSE /\ paused' = FALSE
  /\ createdAt' = now
  /\ updatedAt' = ZeroTime
  /\ timers' = Armed(timers, "room", DefaultMinutes)
  /\ promised' = now + DefaultMinutes * Minute
  /\ UNCHANGED <<clock, stage>>

\* "join" of a guest, or of a moderator who typed no legal number of minutes
Join ==
  /\ open
  /\ present' = TRUE
  /\ UNCHANGED <<clock, stage, open, paused, createdAt, updatedAt, timers, history>>

\* The range check of the minutes, and a slip that lets a longer meeting in.
AcceptedUnchecked(minutes) == minutes >= 1
Accepted(minutes) == minutes \in 1 .. LongestMeeting

\* "join" of a moderator, also when the room is paused.  The slip forgets to
\* take the old timer off the wheel and to set the new one.
JoinModeratorUntimed(minutes) ==
  /\ open
  /\ Accepted(minutes)
  /\ paused => RejoinPaused
  /\ present' = TRUE
  /\ updatedAt' = now + minutes * Minute
  /\ promised' = now + minutes * Minute
  /\ UNCHANGED <<clock, stage, open, paused, createdAt, timers, creates>>

JoinModerator(minutes) ==
  /\ open
  /\ Accepted(minutes)
  /\ paused => RejoinPaused
  /\ present' = TRUE
  /\ updatedAt' = now + minutes * Minute
  /\ timers' \in Rearmed(minutes)
  /\ promised' = now + minutes * Minute
  /\ UNCHANGED <<clock, stage, open, paused, createdAt, creates>>

LastLeaves ==
  /\ open /\ present
  /\ present' = FALSE
  /\ UNCHANGED <<clock, stage, open, paused, createdAt, updatedAt, timers, history>>

Pause ==
  /\ open /\ ~ paused
  /\ paused' = TRUE
  /\ createdAt' = now
  /\ timers' \in Rearmed(PauseMinutes)
  /\ UNCHANGED <<clock, stage, open, present, updatedAt, history>>

\* SET_PAUSE a second time, and RESUME_CONFERENCE.  The slip gives back the
\* whole minutes of the pause only.
UnpauseInMinutes ==
  /\ open /\ paused
  /\ paused' = FALSE
  /\ updatedAt' = updatedAt + ((now - createdAt) \div Minute) * Minute
  /\ timers' \in Rearmed(MinutesUntil(updatedAt'))
  /\ UNCHANGED <<clock, stage, open, present, createdAt, history>>

Unpause ==
  /\ open /\ paused
  /\ paused' = FALSE
  /\ updatedAt' = updatedAt + (now - createdAt)
  /\ timers' \in Rearmed(MinutesUntil(updatedAt'))
  /\ UNCHANGED <<clock, stage, open, present, createdAt, history>>

\* SET_PAUSE by a handler whose room has left the cache (there was one, and it
\* was promised some time): the object it still holds is nobody's, but its
\* timer is set on the wheel.
PauseGone ==
  /\ ~ open /\ promised > 0
  /\ \E minutes \in Distances : timers' \in Rearmed(minutes)
  /\ UNCHANGED <<clock, stage, room, history>>

(***************************************************************************)
(* The janitor: the wheel turns before the lock is taken                   *)
(***************************************************************************)
TickWheel ==
  /\ stage = "idle"
  /\ now % Minute = 0 /\ ~ turned
  /\ turned' = TRUE
  /\ timers' = Turned(timers)
  /\ stage' = IF "room" \in Due(timers) THEN "ticked" ELSE "idle"
  /\ UNCHANGED <<now, room, history>>

JanitorSkips ==
  /\ stage = "ticked" /\ ~ open
  /\ stage' = "idle"
  /\ UNCHANGED <<clock, room, timers, history>>

JanitorKeeps ==
  /\ stage = "ticked" /\ open
  /\ present /\ now < updatedAt
  /\ timers' = Armed(timers, "room", 1)
  /\ stage' = "idle"
  /\ UNCHANGED <<clock, room, history>>

JanitorCondemns ==
  /\ stage = "ticked" /\ open
  /\ ~ present \/ now >= updatedAt
  /\ stage' = "condemned"
  /\ UNCHANGED <<clock, room, timers, history>>

JanitorEvicts ==
  /\ stage = "condemned"
  /\ stage' = "idle"
  /\ open' = FALSE /\ present' = FALSE /\ paused' = FALSE
  /\ UNCHANGED <<clock, createdAt, updatedAt, timers, history>>
-----------------------------------------------------------------------------
Handlers == \/ CreateLazily \/ CreateRoom \/ Join \/ LastLeaves
            \/ \E minutes \in TypedMinutes : JoinModerator(minutes)
            \/ Pause \/ Unpause \/ PauseGone

Janitor == TickWheel \/ JanitorSkips \/ JanitorKeeps \/ JanitorCondemns \/ JanitorEvicts

Next == Elapse \/ Handlers \/ Janitor

Spec == Init /\ [][Next]_vars
-----------------------------------------------------------------------------
TypeOK ==
  /\ now \in 0 .. MaxTime /\ turned \in BOOLEAN
  /\ stage \in {"idle", "ticked", "condemned"}
  /\ open \in BOOLEAN /\ present \in BOOLEAN /\ paused \in BOOLEAN
  /\ createdAt \in 0 .. now
  /\ updatedAt \in Int
  /\ RejoinPaused \/ updatedAt =< now + LongestMeeting * Minute
  /\ timers \in [{"room"} -> SUBSET Distances]
  /\ promised \in Nat
  /\ creates \in 0 .. MaxCreates
  /\ paused => open

\* The room has a deadline: it was not opened by CreateRoom, or a moderator
\* has typed its minutes since.
HasDeadline == updatedAt >= 0

(***************************************************************************)
(* The SRS of the gateway (line 14) has a pause freeze the planned death   *)
(* and a resume give the time back "second by second": outside a pause a   *)
(* deadline is the one that was promised, which moves on exactly while the *)
(* room is paused.                                                         *)
(***************************************************************************)
DeadlineIsAsPromised == open /\ HasDeadline /\ ~ paused => updatedAt = promised

\* When a timer that fires at the d-th turn from now fires.
FiresAt(d) == ((now \div Minute) + (IF now % Minute = 0 /\ ~ turned THEN d - 1 ELSE d)) * Minute

(***************************************************************************)
(* The wheel looks at a running room no later than a minute after the end  *)
(* it was promised, or after now when that is over: no join, pause, resume *)
(* or sweep in any order leaves it with a timer too far away, which would  *)
(* keep a finished meeting going.                                          *)
(***************************************************************************)
WheelLooksInTime ==
  open /\ ~ paused /\ stage = "idle"
    => \E d \in timers["room"] :
         FiresAt(d) =< (IF promised > now THEN promised ELSE now) + Minute

(***************************************************************************)
(* "SET_PAUSE has to freeze the time of the planned death" (SRS, line 14): *)
(* the janitor condemns a room with people in it only when its promised    *)
(* time is over, or when the insurance timer of the pause has run out.     *)
(***************************************************************************)
NobodyLosesTime ==
  [][JanitorCondemns /\ present
       => \/ now >= promised
          \/ paused /\ now - createdAt > (PauseMinutes - 1) * Minute]_vars
=============================================================================
