-------------------------- MODULE RoomShardProofs --------------------------
(***************************************************************************)
(* What holds of a shard for every set of rooms, peers and connections,    *)
(* every ring and every capacity.                                          *)
(***************************************************************************)
EXTENDS RoomShard, FiniteSetTheorems, TLAPS

USE ShardAssumption, NumSlotsAssumption, NoRoomAssumption

(***************************************************************************)
(* The operators on timers and on the cache                                *)
(***************************************************************************)
Timers == [Rooms -> SUBSET Distances]

LEMMA ArmedEffect ==
  ASSUME NEW t \in Timers, NEW r \in Rooms, NEW minutes \in Nat
  PROVE  /\ Armed(t, r, minutes) \in Timers
         /\ Armed(t, r, minutes)[r] # {}
         /\ \A q \in Rooms \ {r} : Armed(t, r, minutes)[q] = t[q]
<1>1. Ahead(minutes) \in Distances
  BY DEF Ahead, Distances
<1> QED
  BY <1>1 DEF Armed, Timers

LEMMA RearmedEffect ==
  ASSUME timers \in Timers, NEW r \in Rooms, NEW minutes \in Nat,
         NEW t \in Rearmed(r, minutes)
  PROVE  /\ t \in Timers
         /\ t[r] # {}
         /\ \A q \in Rooms \ {r} : t[q] = timers[q]
<1>1. PICK s \in Disarmed(timers, r) : t = Armed(s, r, minutes)
  BY DEF Rearmed
<1>2. s \in Timers /\ \A q \in Rooms \ {r} : s[q] = timers[q]
  BY <1>1 DEF Disarmed, Timers
<1> QED
  BY <1>1, <1>2, ArmedEffect

LEMMA TurnedTyped ==
  ASSUME timers \in Timers
  PROVE  Turned(timers) \in Timers /\ Due(timers) \in SUBSET Rooms
BY DEF Turned, Due, Timers

LEMMA TouchedEffect ==
  ASSUME NEW l, LruOK(l), NEW r
  PROVE  LruOK(Touched(l, r)) /\ Touched(l, r).keys = l.keys
BY DEF LruOK, Touched

LEMMA DroppedEffect ==
  ASSUME NEW l, LruOK(l), NEW r
  PROVE  LruOK(Dropped(l, r)) /\ Dropped(l, r).keys = l.keys \ {r}
BY DEF LruOK, Dropped

LEMMA InsertedEffect ==
  ASSUME NEW l, LruOK(l), NEW r \in Rooms
  PROVE  LruOK(Inserted(l, r)) /\ Inserted(l, r).keys = l.keys \cup {r}
BY DEF LruOK, Inserted

LEMMA LookedEffect ==
  ASSUME LruOK(lru), NEW r
  PROVE  LruOK(Looked(r)) /\ Looked(r).keys = lru.keys
BY TouchedEffect DEF Looked

\* Set(r) leaves r cached, and no room that was not cached before.
LEMMA StoredEffect ==
  ASSUME LruOK(lru), NEW r \in Rooms, NEW after \in Stored(r)
  PROVE  LruOK(after) /\ r \in after.keys /\ after.keys \subseteq lru.keys \cup {r}
<1>1. CASE Cached(r)
  BY <1>1, TouchedEffect DEF Stored, Cached
<1>2. CASE ~ Cached(r) /\ Cardinality(lru.keys) < LruCapacity
  BY <1>2, InsertedEffect DEF Stored
<1>3. CASE ~ Cached(r) /\ ~ Cardinality(lru.keys) < LruCapacity
  <2>1. PICK k : after = Inserted(Dropped(lru, k), r)
    BY <1>3 DEF Stored
  <2>2. LruOK(Dropped(lru, k)) /\ Dropped(lru, k).keys = lru.keys \ {k}
    BY DroppedEffect
  <2> QED
    BY <2>1, <2>2, InsertedEffect
<1> QED
  BY <1>1, <1>2, <1>3

(***************************************************************************)
(* The rooms: an object for each cached key, with a legal limit            *)
(***************************************************************************)
Limits == 1 .. DefaultCapacity \cup CreateLimits
RoomsOK(rooms, keys) ==
  /\ rooms \in [Rooms -> RoomObjects \cup {NoRoom}]
  /\ \A r \in Rooms : r \in keys <=> rooms[r] # NoRoom
  /\ \A r \in keys : rooms[r].maxPeers \in Limits

LEMMA CachedHasObject ==
  ASSUME TypeOK, NEW r \in lru.keys
  PROVE  r \in Rooms /\ room[r] \in RoomObjects /\ room[r].maxPeers \in Limits
BY DEF TypeOK, LruOK, Cached, Limits

LEMMA ObjectUpdated ==
  ASSUME TypeOK, NEW r \in lru.keys, NEW object \in RoomObjects, object.maxPeers \in Limits
  PROVE  RoomsOK([room EXCEPT ![r] = object], lru.keys)
BY CachedHasObject DEF TypeOK, Cached, Limits, RoomsOK

LEMMA NewRoomTyped ==
  ASSUME NEW limit \in Limits
  PROVE  /\ NewRoom(limit) \in RoomObjects
         /\ NewRoom(limit).maxPeers = limit
         /\ NewRoom(limit).peers = {}
BY DEF NewRoom, RoomObjects, Limits

LEMMA RoomStored ==
  ASSUME TypeOK, NEW r \in Rooms, NEW after \in Stored(r), NEW limit \in Limits
  PROVE  RoomsOK(RoomsAfterSet(after, r, NewRoom(limit)), after.keys)
<1>1. r \in after.keys /\ after.keys \subseteq lru.keys \cup {r}
  BY StoredEffect DEF TypeOK
<1>2. NewRoom(limit) \in RoomObjects /\ NewRoom(limit).maxPeers \in Limits
  BY NewRoomTyped
<1> QED
  BY <1>1, <1>2, CachedHasObject DEF RoomsAfterSet, RoomsOK

(***************************************************************************)
(* Type correctness                                                        *)
(***************************************************************************)
LEMMA TypeOKInit == Init => TypeOK
BY DEF Init, TypeOK, LruOK, NothingCached, Cached

LEMMA ConnectTyped ==
  ASSUME TypeOK, NEW c \in Conns, Refuse(c) \/ JoinExisting(c) \/ CreateLazily(c)
  PROVE  TypeOK'
<1> DEFINE r == RoomOf[c]
<1>1. CASE Refuse(c)
  BY <1>1, TouchedEffect DEF Refuse, TypeOK, Cached, Open, janitor
<1>2. CASE JoinExisting(c)
  BY <1>2, TouchedEffect DEF JoinExisting, Register, TypeOK, Cached, Open, janitor
<1>3. CASE CreateLazily(c)
  <2>1. LruOK(lru') /\ r \in lru'.keys /\ lru'.keys \subseteq lru.keys \cup {r}
    BY <1>3, StoredEffect DEF CreateLazily, TypeOK
  <2>2. RoomsOK(room', lru'.keys)
    BY <1>3, RoomStored DEF CreateLazily, Limits
  <2>3. timers' \in [Rooms -> SUBSET Distances]
    BY <1>3, ArmedEffect DEF CreateLazily, TypeOK, Timers
  <2> QED
    BY <1>3, <2>1, <2>2, <2>3 DEF CreateLazily, Register, RoomsOK, Limits, TypeOK, Cached, Open, janitor
<1> QED
  BY <1>1, <1>2, <1>3

LEMMA LifeTyped ==
  ASSUME TypeOK, NEW c \in Conns, Announce(c) \/ WaitEnds(c) \/ Cleanup(c)
  PROVE  TypeOK'
<1>1. CASE Announce(c)
  BY <1>1 DEF Announce, ToldAll, Frames, TypeOK, Cached, Open, shared, janitor
<1>2. CASE WaitEnds(c)
  BY <1>2 DEF WaitEnds, Close, TypeOK, Cached, Open, janitor
<1>3. CASE Cleanup(c)
  <2>1. LruOK(lru') /\ lru'.keys = lru.keys
    BY <1>3, LookedEffect DEF Cleanup, TypeOK
  <2>2. RoomsOK(room', lru.keys)
    <3>1. CASE Cached(RoomOf[c])
      <4> DEFINE object == [room[RoomOf[c]] EXCEPT !.peers = @ \ {PeerOf[c]}]
      <4>1. object \in RoomObjects /\ object.maxPeers \in Limits
        BY <3>1, CachedHasObject DEF Cached, RoomObjects
      <4>2. room' = [room EXCEPT ![RoomOf[c]] = object]
        BY <1>3, <3>1 DEF Cleanup
      <4> QED
        BY <3>1, <4>1, <4>2, ObjectUpdated DEF Cached
    <3>2. CASE ~ Cached(RoomOf[c])
      BY <1>3, <3>2 DEF Cleanup, TypeOK, RoomsOK, Cached, Limits
    <3> QED
      BY <3>1, <3>2
  <2> QED
    BY <1>3, <2>1, <2>2 DEF Cleanup, Close, RoomsOK, Limits, TypeOK, Cached, Open, janitor
<1> QED
  BY <1>1, <1>2, <1>3

LEMMA FrameTyped ==
  ASSUME TypeOK, NEW c \in Conns,
         HandleJoin(c) \/ TogglePause(c) \/ Resume(c) \/ \E peer \in Peers : KickPeer(c, peer)
  PROVE  TypeOK'
<1> DEFINE r == RoomOf[c]
<1>1. CASE HandleJoin(c)
  <2>1. LruOK(lru') /\ lru'.keys = lru.keys
    BY <1>1, TouchedEffect DEF HandleJoin, TypeOK
  <2>2. RoomsOK(room', lru.keys)
    <3>1. PICK limit \in {room[r].maxPeers} \cup {n \in TypedLimits : Accepted(n)} :
            room' = [room EXCEPT ![r].peers = @ \cup {PeerOf[c]}, ![r].maxPeers = limit]
      BY <1>1 DEF HandleJoin
    <3>2. Cached(r) /\ room[r] \in RoomObjects /\ limit \in Limits
      BY <1>1, <3>1, CachedHasObject DEF HandleJoin, Cached, Accepted, Limits
    <3> DEFINE object == [room[r] EXCEPT !.peers = @ \cup {PeerOf[c]}, !.maxPeers = limit]
    <3>3. object \in RoomObjects /\ object.maxPeers \in Limits
      BY <3>2 DEF RoomObjects, Limits
    <3>4. room' = [room EXCEPT ![r] = object]
      BY <3>1, <3>2 DEF TypeOK
    <3> QED
      BY <3>2, <3>3, <3>4, ObjectUpdated DEF Cached
  <2>3. timers' \in [Rooms -> SUBSET Distances]
    BY <1>1, RearmedEffect DEF HandleJoin, TypeOK, Timers, Distances
  <2> QED
    BY <1>1, <2>1, <2>2, <2>3 DEF HandleJoin, RoomsOK, Limits, TypeOK, Cached, handlers, janitor
<1>2. CASE TogglePause(c)
  <2>1. LruOK(lru') /\ lru'.keys = lru.keys
    BY <1>2, LookedEffect DEF TogglePause, TypeOK
  <2>2. RoomsOK(room', lru.keys)
    <3>1. CASE Cached(r)
      <4> DEFINE object == [room[r] EXCEPT !.paused = ~ @]
      <4>1. object \in RoomObjects /\ object.maxPeers \in Limits
        BY <3>1, CachedHasObject DEF Cached, RoomObjects
      <4>2. room' = [room EXCEPT ![r] = object]
        BY <1>2, <3>1 DEF TogglePause
      <4> QED
        BY <3>1, <4>1, <4>2, ObjectUpdated DEF Cached
    <3>2. CASE ~ Cached(r)
      BY <1>2, <3>2 DEF TogglePause, TypeOK, RoomsOK, Cached, Limits
    <3> QED
      BY <3>1, <3>2
  <2>3. timers' \in [Rooms -> SUBSET Distances]
    BY <1>2, RearmedEffect DEF TogglePause, TypeOK, Timers, Distances
  <2> QED
    BY <1>2, <2>1, <2>2, <2>3 DEF TogglePause, RoomsOK, Limits, TypeOK, Cached, handlers, janitor
<1>3. CASE Resume(c)
  <2>1. LruOK(lru') /\ lru'.keys = lru.keys
    BY <1>3, TouchedEffect DEF Resume, TypeOK
  <2>2. RoomsOK(room', lru.keys)
    <3> DEFINE object == [room[r] EXCEPT !.paused = FALSE]
    <3>1. Cached(r) /\ object \in RoomObjects /\ object.maxPeers \in Limits
      BY <1>3, CachedHasObject DEF Resume, Cached, RoomObjects
    <3>2. room' = [room EXCEPT ![r] = object]
      BY <1>3 DEF Resume
    <3> QED
      BY <3>1, <3>2, ObjectUpdated DEF Cached
  <2>3. timers' \in [Rooms -> SUBSET Distances]
    <3>1. timers' = timers \/ \E minutes \in Distances : timers' \in Rearmed(r, minutes)
      BY <1>3, Zenon DEF Resume
    <3> QED
      BY <3>1, RearmedEffect DEF TypeOK, Timers, Distances
  <2> QED
    BY <1>3, <2>1, <2>2, <2>3 DEF Resume, RoomsOK, Limits, TypeOK, Cached, handlers, janitor
<1>4. ASSUME NEW peer \in Peers, KickPeer(c, peer) PROVE TypeOK'
  BY <1>4 DEF KickPeer, Frames, TypeOK, Cached, shared, janitor
<1> QED
  BY <1>1, <1>2, <1>3, <1>4

LEMMA CreateRoomTyped ==
  ASSUME TypeOK, NEW r \in Rooms, NEW limit \in CreateLimits, CreateRoom(r, limit)
  PROVE  TypeOK'
<1>1. LruOK(lru') /\ r \in lru'.keys /\ lru'.keys \subseteq lru.keys \cup {r}
  BY StoredEffect DEF CreateRoom, TypeOK
<1>2. RoomsOK(room', lru'.keys)
  BY RoomStored DEF CreateRoom, Limits
<1>3. timers' \in [Rooms -> SUBSET Distances]
  BY ArmedEffect DEF CreateRoom, TypeOK, Timers
<1> QED
  BY <1>1, <1>2, <1>3 DEF CreateRoom, RoomsOK, Limits, TypeOK, Cached, handlers, janitor

LEMMA JanitorTyped ==
  ASSUME TypeOK, TickWheel \/ JanitorSweeps
  PROVE  TypeOK'
<1>1. CASE TickWheel
  BY <1>1, TurnedTyped DEF TickWheel, TypeOK, Timers, Cached, handlers
<1>2. CASE JanitorLocks \/ JanitorDone
  BY <1>2 DEF JanitorLocks, JanitorDone, TypeOK, Cached, shared, handlers
<1>3. ASSUME NEW r \in Rooms, JanitorSkips(r) PROVE TypeOK'
  BY <1>3 DEF JanitorSkips, TypeOK, Cached, shared, handlers
<1>4. ASSUME NEW r \in Rooms, JanitorKeeps(r) PROVE TypeOK'
  BY <1>4, TouchedEffect, ArmedEffect DEF JanitorKeeps, TypeOK, Timers, Cached, handlers
<1>5. ASSUME NEW r \in Rooms, JanitorCondemns(r) PROVE TypeOK'
  BY <1>5, TouchedEffect DEF JanitorCondemns, TypeOK, Cached, handlers
<1>6. CASE JanitorKicks
  BY <1>6 DEF JanitorKicks, ToldAll, Frames, TypeOK, Cached, shared
<1>7. CASE JanitorEvicts
  BY <1>7, DroppedEffect DEF JanitorEvicts, TypeOK, Cached, handlers
<1> QED
  BY <1>1, <1>2, <1>3, <1>4, <1>5, <1>6, <1>7 DEF JanitorSweeps

LEMMA TypeOKStep == TypeOK /\ [Next]_vars => TypeOK'
<1> SUFFICES ASSUME TypeOK, [Next]_vars PROVE TypeOK'
  OBVIOUS
<1>1. ASSUME NEW c \in Conns, Handle(c) PROVE TypeOK'
  BY <1>1, ConnectTyped, LifeTyped, FrameTyped DEF Handle
<1>2. ASSUME NEW r \in Rooms, UseRoom(r) PROVE TypeOK'
  BY <1>2, TouchedEffect DEF UseRoom, TypeOK, Cached, handlers, janitor
<1>3. ASSUME NEW r \in Rooms, NEW limit \in CreateLimits, CreateRoom(r, limit) PROVE TypeOK'
  BY <1>3, CreateRoomTyped
<1>4. CASE TickWheel \/ JanitorSweeps
  BY <1>4, JanitorTyped
<1>5. CASE UNCHANGED vars
  BY <1>5 DEF TypeOK, Cached, vars, shared, handlers, janitor
<1> QED
  BY <1>1, <1>2, <1>3, <1>4, <1>5 DEF Next

(***************************************************************************)
(* Every variable of a shard keeps its type, and the cache and the room    *)
(* objects stay in step.                                                   *)
(***************************************************************************)
THEOREM ShardTyped == Spec => []TypeOK
BY TypeOKInit, TypeOKStep, PTL DEF Spec

(***************************************************************************)
(* No room is forgotten by the wheel.  Between two sweeps nothing is due,  *)
(* so a tick overwrites nothing it still had to handle.                    *)
(***************************************************************************)
NothingLeftDue == stage = "idle" => due = {}
TimerInv == TypeOK /\ NoRoomForgotten /\ NothingLeftDue

\* A step of a handler or of CreateRoom takes no timer away for good and gives
\* one to each room it caches.
KeepsTimers ==
  /\ \A q \in lru'.keys : timers'[q] # {} \/ (q \in lru.keys /\ timers'[q] = timers[q])
  /\ UNCHANGED <<stage, due, victim>>

LEMMA KeepsTimersSuffices ==
  ASSUME TimerInv, TypeOK', KeepsTimers
  PROVE  TimerInv'
BY DEF TimerInv, KeepsTimers, NoRoomForgotten, NothingLeftDue

\* Arming r when the wheel is that of the shard.
LEMMA ShardArmed ==
  ASSUME TypeOK, NEW r \in Rooms, NEW minutes \in Nat, timers' = Armed(timers, r, minutes)
  PROVE  timers'[r] # {} /\ \A q \in Rooms \ {r} : timers'[q] = timers[q]
<1>1. timers \in Timers
  BY DEF TypeOK, Timers
<1> QED
  BY <1>1, ArmedEffect

LEMMA HandlersKeepTimers ==
  ASSUME TypeOK, NEW c \in Conns, Handle(c)
  PROVE  KeepsTimers
<1> DEFINE r == RoomOf[c]
<1>1. CASE Refuse(c) \/ JoinExisting(c)
  BY <1>1, TouchedEffect DEF Refuse, JoinExisting, KeepsTimers, TypeOK, janitor
<1>2. CASE CreateLazily(c)
  <2>1. lru'.keys \subseteq lru.keys \cup {r}
    BY <1>2, StoredEffect DEF CreateLazily, TypeOK
  <2>2. timers'[r] # {} /\ \A q \in Rooms \ {r} : timers'[q] = timers[q]
    BY <1>2, ShardArmed DEF CreateLazily
  <2> QED
    BY <1>2, <2>1, <2>2 DEF CreateLazily, KeepsTimers, TypeOK, LruOK, janitor
<1>3. CASE Announce(c) \/ WaitEnds(c) \/ \E peer \in Peers : KickPeer(c, peer)
  BY <1>3 DEF Announce, WaitEnds, KickPeer, KeepsTimers, shared, janitor
<1>4. CASE Cleanup(c)
  BY <1>4, LookedEffect DEF Cleanup, KeepsTimers, TypeOK, janitor
<1>5. CASE HandleJoin(c) \/ TogglePause(c) \/ Resume(c)
  <2>1. lru'.keys = lru.keys /\ UNCHANGED <<stage, due, victim>>
    BY <1>5, TouchedEffect, LookedEffect DEF HandleJoin, TogglePause, Resume, TypeOK, janitor
  <2>2. timers' = timers \/ \E minutes \in Distances \cup {PauseMinutes} : timers' \in Rearmed(r, minutes)
    <3>1. CASE HandleJoin(c)
      BY <3>1 DEF HandleJoin
    <3>2. CASE TogglePause(c)
      BY <3>2 DEF TogglePause
    <3>3. CASE Resume(c)
      BY <3>3, Zenon DEF Resume
    <3> QED
      BY <1>5, <3>1, <3>2, <3>3
  <2>3. timers' = timers \/ (timers'[r] # {} /\ \A q \in Rooms \ {r} : timers'[q] = timers[q])
    BY <2>2, RearmedEffect DEF TypeOK, Timers, Distances
  <2> QED
    BY <2>1, <2>3 DEF KeepsTimers, TypeOK, LruOK
<1> QED
  BY <1>1, <1>2, <1>3, <1>4, <1>5 DEF Handle

LEMMA CreateRoomKeepsTimers ==
  ASSUME TypeOK, NEW r \in Rooms, NEW limit \in CreateLimits, CreateRoom(r, limit)
  PROVE  KeepsTimers
<1>1. lru'.keys \subseteq lru.keys \cup {r}
  BY StoredEffect DEF CreateRoom, TypeOK
<1>2. timers'[r] # {} /\ \A q \in Rooms \ {r} : timers'[q] = timers[q]
  BY ShardArmed DEF CreateRoom
<1> QED
  BY <1>1, <1>2 DEF CreateRoom, KeepsTimers, TypeOK, LruOK, janitor

LEMMA TickForgetsNothing ==
  ASSUME TimerInv, TypeOK', TickWheel
  PROVE  TimerInv'
<1>1. due = {} /\ victim = NoRoom
  BY DEF TickWheel, TimerInv, NothingLeftDue, TypeOK
<1>2. ASSUME NEW q \in lru'.keys PROVE timers'[q] # {} \/ q \in due'
  <2>1. q \in Rooms /\ timers[q] # {} /\ timers[q] \in SUBSET Distances
    BY <1>1, <1>2 DEF TickWheel, TimerInv, NoRoomForgotten, TypeOK, LruOK
  <2>2. PICK d \in Distances : d \in timers[q]
    BY <2>1
  <2>3. CASE d = 1
    BY <2>1, <2>2, <2>3 DEF TickWheel, Due, TimerInv, TypeOK
  <2>4. CASE d # 1
    <3>1. d - 1 \in Distances /\ (d - 1) + 1 = d
      BY <2>4 DEF Distances
    <3>2. d - 1 \in Turned(timers)[q]
      BY <2>1, <2>2, <3>1 DEF Turned, TimerInv, TypeOK
    <3> QED
      BY <3>2 DEF TickWheel
  <2> QED
    BY <2>3, <2>4
<1>3. NothingLeftDue'
  BY DEF TickWheel, NothingLeftDue
<1> QED
  BY <1>2, <1>3 DEF TimerInv, NoRoomForgotten

LEMMA SweepForgetsNothing ==
  ASSUME TimerInv, TypeOK', JanitorSweeps
  PROVE  TimerInv'
<1> USE DEF TimerInv, NoRoomForgotten, NothingLeftDue
<1>1. CASE JanitorLocks \/ JanitorDone
  BY <1>1 DEF JanitorLocks, JanitorDone, shared
<1>2. ASSUME NEW r \in Rooms, JanitorSkips(r) PROVE TimerInv'
  BY <1>2 DEF JanitorSkips, Cached, shared
<1>3. ASSUME NEW r \in Rooms, JanitorKeeps(r) PROVE TimerInv'
  <2>1. lru'.keys = lru.keys
    BY <1>3, TouchedEffect DEF JanitorKeeps, TypeOK
  <2>2. timers'[r] # {} /\ \A q \in Rooms \ {r} : timers'[q] = timers[q]
    BY <1>3, ShardArmed DEF JanitorKeeps
  <2> QED
    BY <1>3, <2>1, <2>2 DEF JanitorKeeps, TypeOK, LruOK
<1>4. ASSUME NEW r \in Rooms, JanitorCondemns(r) PROVE TimerInv'
  <2>1. lru'.keys = lru.keys /\ victim = NoRoom
    BY <1>4, TouchedEffect DEF JanitorCondemns, TypeOK
  <2> QED
    BY <1>4, <2>1 DEF JanitorCondemns, TypeOK, LruOK
<1>5. CASE JanitorKicks
  BY <1>5 DEF JanitorKicks, shared
<1>6. CASE JanitorEvicts
  <2>1. lru'.keys = lru.keys \ {victim}
    BY <1>6, DroppedEffect DEF JanitorEvicts, TypeOK
  <2> QED
    BY <1>6, <2>1 DEF JanitorEvicts
<1> QED
  BY <1>1, <1>2, <1>3, <1>4, <1>5, <1>6 DEF JanitorSweeps

LEMMA TimerInvStep == TimerInv /\ [Next]_vars => TimerInv'
<1> SUFFICES ASSUME TimerInv, [Next]_vars PROVE TimerInv'
  OBVIOUS
<1>1. TypeOK /\ TypeOK'
  BY TypeOKStep DEF TimerInv
<1>2. ASSUME NEW c \in Conns, Handle(c) PROVE TimerInv'
  BY <1>1, <1>2, HandlersKeepTimers, KeepsTimersSuffices
<1>3. ASSUME NEW r \in Rooms, UseRoom(r) PROVE TimerInv'
  <2>1. KeepsTimers
    BY <1>1, <1>3, TouchedEffect DEF UseRoom, KeepsTimers, TypeOK, janitor
  <2> QED
    BY <1>1, <2>1, KeepsTimersSuffices
<1>4. ASSUME NEW r \in Rooms, NEW limit \in CreateLimits, CreateRoom(r, limit) PROVE TimerInv'
  BY <1>1, <1>4, CreateRoomKeepsTimers, KeepsTimersSuffices
<1>5. CASE TickWheel \/ JanitorSweeps
  BY <1>1, <1>5, TickForgetsNothing, SweepForgetsNothing
<1>6. CASE UNCHANGED vars
  BY <1>1, <1>6 DEF TimerInv, NoRoomForgotten, NothingLeftDue, vars, shared, janitor
<1> QED
  BY <1>2, <1>3, <1>4, <1>5, <1>6 DEF Next

(***************************************************************************)
(* Every cached room has a timer or is being handled by the janitor,       *)
(* through pauses, limits, re-creations, evictions by overflow and ticks   *)
(* that race with all of these.                                            *)
(***************************************************************************)
THEOREM RoomsKeepTimers == Spec => []NoRoomForgotten
<1>1. Init => TimerInv
  BY TypeOKInit DEF Init, TimerInv, NoRoomForgotten, NothingLeftDue, NothingCached
<1>2. TimerInv => NoRoomForgotten
  BY DEF TimerInv
<1> QED
  BY <1>1, <1>2, TimerInvStep, PTL DEF Spec

(***************************************************************************)
(* The registry holds only connections that are being served               *)
(***************************************************************************)
EntryInv == TypeOK /\ EntriesAreOpen

\* A connection that registers itself, or leaves the entry of its peer empty,
\* is the only one whose entry or place changes.
LEMMA EntriesOfHandlers ==
  ASSUME EntryInv, NEW c \in Conns, Handle(c)
  PROVE  EntriesAreOpen'
<1> USE DEF EntriesAreOpen, Registered, Open
<1>1. CASE Refuse(c)
  BY <1>1 DEF Refuse, EntryInv, TypeOK
<1>2. CASE JoinExisting(c)
  <2>1. pc' = [pc EXCEPT ![c] = pc'[c]] /\ pc'[c] \in Open
    BY <1>2 DEF JoinExisting, EntryInv, TypeOK
  <2> QED
    BY <1>2, <2>1 DEF JoinExisting, Register, EntryInv, TypeOK
<1>3. CASE CreateLazily(c)
  BY <1>3 DEF CreateLazily, Register, EntryInv, TypeOK
<1>4. CASE Announce(c)
  BY <1>4 DEF Announce, EntryInv, TypeOK, shared
<1>5. CASE WaitEnds(c) \/ Cleanup(c)
  <2>1. /\ conns' = [conns EXCEPT ![RoomOf[c]][PeerOf[c]] = NoConn]
        /\ pc' = [pc EXCEPT ![c] = "closed"]
    BY <1>5 DEF WaitEnds, Cleanup, Close
  <2> QED
    BY <2>1 DEF EntryInv, TypeOK
<1>6. CASE HandleJoin(c) \/ TogglePause(c) \/ Resume(c) \/ \E peer \in Peers : KickPeer(c, peer)
  <2>1. UNCHANGED <<conns, pc>>
    BY <1>6 DEF HandleJoin, TogglePause, Resume, KickPeer, handlers, shared
  <2> QED
    BY <2>1 DEF EntryInv
<1> QED
  BY <1>1, <1>2, <1>3, <1>4, <1>5, <1>6 DEF Handle

LEMMA EntryInvStep == EntryInv /\ [Next]_vars => EntryInv'
<1> SUFFICES ASSUME EntryInv, [Next]_vars PROVE EntriesAreOpen'
  BY TypeOKStep DEF EntryInv
<1>1. ASSUME NEW c \in Conns, Handle(c) PROVE EntriesAreOpen'
  BY <1>1, EntriesOfHandlers
<1>2. CASE JanitorEvicts
  BY <1>2 DEF JanitorEvicts, EntryInv, EntriesAreOpen, Registered, TypeOK, handlers
<1>3. CASE UNCHANGED <<conns, pc>>
  BY <1>3 DEF EntryInv, EntriesAreOpen, Registered
<1>4. [Next]_vars => \/ \E c \in Conns : Handle(c)
                     \/ JanitorEvicts
                     \/ UNCHANGED <<conns, pc>>
  BY DEF Next, JanitorSweeps, UseRoom, CreateRoom, TickWheel, JanitorLocks, JanitorDone,
         JanitorSkips, JanitorKeeps, JanitorCondemns, JanitorKicks, vars, shared, handlers
<1> QED
  BY <1>1, <1>2, <1>3, <1>4

(***************************************************************************)
(* No broadcast reaches a connection whose handler has returned, also when *)
(* several connections of one peer come and go in any order.               *)
(***************************************************************************)
THEOREM RegistryIsOpen == Spec => []EntriesAreOpen
<1>1. Init => EntryInv
  BY TypeOKInit DEF Init, EntryInv, EntriesAreOpen, Registered
<1>2. EntryInv => EntriesAreOpen
  BY DEF EntryInv
<1> QED
  BY <1>1, <1>2, EntryInvStep, PTL DEF Spec

(***************************************************************************)
(* A session has a handler                                                 *)
(***************************************************************************)
SessionInv == TypeOK /\ SessionsHaveHandlers

\* Rooms that lose sessions or leave the cache, while no handler leaves.
SessionsOnlyGo ==
  /\ \A r \in lru'.keys : \/ room'[r].peers = {}
                          \/ r \in lru.keys /\ room'[r].peers \subseteq room[r].peers
  /\ \A c \in Conns : pc[c] = "reading" => pc'[c] = "reading"

LEMMA SessionsOnlyGoSuffices ==
  ASSUME SessionsHaveHandlers, SessionsOnlyGo
  PROVE  SessionsHaveHandlers'
BY DEF SessionsHaveHandlers, SessionsOnlyGo

\* Set puts an object without sessions in the place of the old one.
LEMMA SetOnlyTakesSessions ==
  ASSUME TypeOK, NEW r \in Rooms, NEW limit \in Limits,
         lru' \in Stored(r), room' = RoomsAfterSet(lru', r, NewRoom(limit)),
         NEW q \in lru'.keys
  PROVE  room'[q].peers = {} \/ (q \in lru.keys /\ room'[q] = room[q])
<1>1. lru'.keys \subseteq lru.keys \cup {r} /\ q \in Rooms
  BY StoredEffect DEF TypeOK, LruOK
<1> QED
  BY <1>1, NewRoomTyped DEF RoomsAfterSet

LEMMA SessionsOfHandlers ==
  ASSUME SessionInv, NEW c \in Conns, Handle(c)
  PROVE  SessionsHaveHandlers'
<1> DEFINE r == RoomOf[c]
<1> USE DEF SessionInv
<1>1. CASE Refuse(c) \/ JoinExisting(c)
  <2>1. lru'.keys = lru.keys /\ room' = room
    BY <1>1, TouchedEffect DEF Refuse, JoinExisting, TypeOK
  <2>2. \A d \in Conns : pc[d] = "reading" => pc'[d] = "reading"
    BY <1>1 DEF Refuse, JoinExisting, TypeOK
  <2> QED
    BY <2>1, <2>2, SessionsOnlyGoSuffices DEF SessionsOnlyGo
<1>2. CASE CreateLazily(c)
  <2>1. \A q \in lru'.keys : room'[q].peers = {} \/ (q \in lru.keys /\ room'[q] = room[q])
    BY <1>2, SetOnlyTakesSessions DEF CreateLazily, Limits
  <2>2. \A d \in Conns : pc[d] = "reading" => pc'[d] = "reading"
    BY <1>2 DEF CreateLazily, TypeOK
  <2> QED
    BY <2>1, <2>2, SessionsOnlyGoSuffices DEF SessionsOnlyGo
<1>3. CASE Announce(c) \/ \E peer \in Peers : KickPeer(c, peer)
  BY <1>3, SessionsOnlyGoSuffices DEF Announce, KickPeer, SessionsOnlyGo, TypeOK, shared
<1>4. CASE WaitEnds(c)
  BY <1>4, SessionsOnlyGoSuffices DEF WaitEnds, Close, SessionsOnlyGo, TypeOK
<1>5. CASE Cleanup(c)
  <2>1. lru'.keys = lru.keys /\ pc' = [pc EXCEPT ![c] = "closed"]
    BY <1>5, LookedEffect DEF Cleanup, Close, TypeOK
  <2>2. ASSUME NEW q \in lru.keys, NEW p \in room'[q].peers
        PROVE  p \in room[q].peers /\ (q = r => p # PeerOf[c])
    <3>1. room[q] \in RoomObjects /\ q \in Rooms
      BY CachedHasObject
    <3>2. CASE q = r
      BY <1>5, <2>2, <3>1, <3>2 DEF Cleanup, TypeOK, Cached, RoomObjects
    <3>3. CASE q # r
      BY <1>5, <2>2, <3>1, <3>3 DEF Cleanup, TypeOK
    <3> QED
      BY <3>2, <3>3
  <2>3. ASSUME NEW q \in lru.keys, NEW p \in room'[q].peers
        PROVE  \E d \in Conns : pc'[d] = "reading" /\ RoomOf[d] = q /\ PeerOf[d] = p
    <3>1. PICK d \in Conns : pc[d] = "reading" /\ RoomOf[d] = q /\ PeerOf[d] = p
      BY <2>2, <2>3 DEF SessionsHaveHandlers
    <3>2. d # c
      BY <2>2, <2>3, <3>1
    <3> QED
      BY <2>1, <3>1, <3>2 DEF TypeOK
  <2> QED
    BY <2>1, <2>3 DEF SessionsHaveHandlers
<1>6. CASE HandleJoin(c)
  <2>1. lru'.keys = lru.keys /\ pc' = pc /\ pc[c] = "reading"
    BY <1>6, TouchedEffect DEF HandleJoin, TypeOK, handlers
  <2>2. ASSUME NEW q \in lru.keys, NEW p \in room'[q].peers
        PROVE  p \in room[q].peers \/ (q = r /\ p = PeerOf[c])
    <3>1. room[q] \in RoomObjects /\ q \in Rooms
      BY CachedHasObject
    <3>2. PICK limit :
            room' = [room EXCEPT ![r].peers = @ \cup {PeerOf[c]}, ![r].maxPeers = limit]
      BY <1>6 DEF HandleJoin
    <3>3. CASE q = r
      BY <2>2, <3>1, <3>2, <3>3 DEF TypeOK, RoomObjects
    <3>4. CASE q # r
      BY <2>2, <3>1, <3>2, <3>4 DEF TypeOK
    <3> QED
      BY <3>3, <3>4
  <2> QED
    BY <2>1, <2>2 DEF SessionsHaveHandlers
<1>7. CASE TogglePause(c) \/ Resume(c)
  <2>1. lru'.keys = lru.keys /\ pc' = pc
    BY <1>7, TouchedEffect, LookedEffect DEF TogglePause, Resume, TypeOK, handlers
  <2>2. ASSUME NEW q \in lru.keys PROVE room'[q].peers = room[q].peers
    <3>1. room[q] \in RoomObjects /\ q \in Rooms
      BY CachedHasObject
    <3>2. room' = room \/ \E flag : room' = [room EXCEPT ![r].paused = flag]
      BY <1>7 DEF TogglePause, Resume
    <3>3. CASE q = r
      BY <3>1, <3>2, <3>3 DEF TypeOK, RoomObjects
    <3>4. CASE q # r
      BY <3>1, <3>2, <3>4 DEF TypeOK
    <3> QED
      BY <3>3, <3>4
  <2> QED
    BY <2>1, <2>2, SessionsOnlyGoSuffices DEF SessionsOnlyGo
<1> QED
  BY <1>1, <1>2, <1>3, <1>4, <1>5, <1>6, <1>7 DEF Handle

LEMMA SessionInvStep == SessionInv /\ [Next]_vars => SessionInv'
<1> SUFFICES ASSUME SessionInv, [Next]_vars PROVE SessionsHaveHandlers'
  BY TypeOKStep DEF SessionInv
<1> USE DEF SessionInv
<1>1. ASSUME NEW c \in Conns, Handle(c) PROVE SessionsHaveHandlers'
  BY <1>1, SessionsOfHandlers
<1>2. ASSUME NEW r \in Rooms, NEW limit \in CreateLimits, CreateRoom(r, limit)
      PROVE  SessionsHaveHandlers'
  <2>1. \A q \in lru'.keys : room'[q].peers = {} \/ (q \in lru.keys /\ room'[q] = room[q])
    BY <1>2, SetOnlyTakesSessions DEF CreateRoom, Limits
  <2> QED
    BY <1>2, <2>1, SessionsOnlyGoSuffices DEF CreateRoom, SessionsOnlyGo, handlers
<1>3. CASE JanitorEvicts
  <2>1. lru'.keys = lru.keys \ {victim} /\ lru.keys \subseteq Rooms
    BY <1>3, DroppedEffect DEF JanitorEvicts, TypeOK, LruOK
  <2>2. \A q \in lru'.keys : q \in lru.keys /\ room'[q] = room[q]
    BY <1>3, <2>1 DEF JanitorEvicts, TypeOK
  <2> QED
    BY <1>3, <2>2, SessionsOnlyGoSuffices DEF JanitorEvicts, SessionsOnlyGo, handlers
<1>4. CASE lru'.keys = lru.keys /\ UNCHANGED <<room, pc>>
  BY <1>4, SessionsOnlyGoSuffices DEF SessionsOnlyGo
<1>5. \/ \E c \in Conns : Handle(c)
      \/ \E r \in Rooms, limit \in CreateLimits : CreateRoom(r, limit)
      \/ JanitorEvicts
      \/ lru'.keys = lru.keys /\ UNCHANGED <<room, pc>>
  BY TouchedEffect DEF TypeOK, Next, JanitorSweeps, UseRoom, TickWheel, JanitorLocks,
     JanitorDone, JanitorSkips, JanitorKeeps, JanitorCondemns, JanitorKicks, vars, shared, handlers
<1> QED
  BY <1>1, <1>2, <1>3, <1>4, <1>5

(***************************************************************************)
(* Every session the janitor counts belongs to a peer with a running       *)
(* handler: an abandoned room does become empty.                           *)
(***************************************************************************)
THEOREM SessionsAreServed == Spec => []SessionsHaveHandlers
<1>1. Init => SessionInv
  BY TypeOKInit DEF Init, SessionInv, SessionsHaveHandlers, NothingCached
<1>2. SessionInv => SessionsHaveHandlers
  BY DEF SessionInv
<1> QED
  BY <1>1, <1>2, SessionInvStep, PTL DEF Spec
-----------------------------------------------------------------------------
(***************************************************************************)
(* What holds of a shard whose cache is never full.  RoomOverflowCapacity  *)
(* shows that CapacityRespected fails without this condition.              *)
(***************************************************************************)
\* Fewer rooms than the cache can hold, so that Set evicts nobody.
NoOverflow == Cardinality(Rooms) =< LruCapacity

\* Set adds its room to the cache and takes no room out.
LEMMA StoredKeeps ==
  ASSUME NoOverflow, TypeOK, NEW r \in Rooms, NEW after \in Stored(r)
  PROVE  after.keys = lru.keys \cup {r}
<1>1. LruOK(lru) /\ lru.keys \subseteq Rooms
  BY DEF TypeOK, LruOK
<1>2. CASE Cached(r)
  BY <1>1, <1>2, TouchedEffect DEF Stored, Cached
<1>3. CASE ~ Cached(r)
  <2>1. IsFiniteSet(Rooms \ {r}) /\ Cardinality(Rooms \ {r}) = Cardinality(Rooms) - 1
    BY FS_RemoveElement
  <2>2. lru.keys \subseteq Rooms \ {r}
    BY <1>1, <1>3 DEF Cached
  <2>3. IsFiniteSet(lru.keys) /\ Cardinality(lru.keys) =< Cardinality(Rooms \ {r})
    BY <2>1, <2>2, FS_Subset
  <2>4. Cardinality(lru.keys) \in Nat /\ Cardinality(Rooms) \in Nat
    BY <2>3, FS_CardinalityType
  <2>5. Cardinality(lru.keys) < LruCapacity
    BY <2>1, <2>3, <2>4 DEF NoOverflow
  <2> QED
    BY <1>1, <1>3, <2>5, InsertedEffect DEF Stored
<1> QED
  BY <1>2, <1>3

\* The steps that touch the registry or take rooms out of the cache.
LEMMA RegistrySteps ==
  ASSUME NoOverflow, TypeOK, [Next]_vars
  PROVE  \/ \E c \in Conns : JoinExisting(c) \/ CreateLazily(c) \/ WaitEnds(c) \/ Cleanup(c)
         \/ JanitorEvicts
         \/ conns' = conns /\ lru.keys \subseteq lru'.keys
<1> DEFINE Quiet == conns' = conns /\ lru.keys \subseteq lru'.keys
<1>1. ASSUME NEW c \in Conns,
             Refuse(c) \/ Announce(c) \/ HandleJoin(c) \/ TogglePause(c) \/ Resume(c)
               \/ \E peer \in Peers : KickPeer(c, peer)
      PROVE  Quiet
  BY <1>1, TouchedEffect, LookedEffect
     DEF Refuse, Announce, HandleJoin, TogglePause, Resume, KickPeer, TypeOK, shared
<1>2. ASSUME NEW r \in Rooms, NEW limit \in CreateLimits, CreateRoom(r, limit) PROVE Quiet
  BY <1>2, StoredKeeps DEF CreateRoom
<1>3. ASSUME NEW r \in Rooms,
             UseRoom(r) \/ JanitorSkips(r) \/ JanitorKeeps(r) \/ JanitorCondemns(r)
      PROVE  Quiet
  BY <1>3, TouchedEffect DEF UseRoom, JanitorSkips, JanitorKeeps, JanitorCondemns, TypeOK, shared
<1>4. CASE TickWheel \/ JanitorLocks \/ JanitorDone \/ JanitorKicks \/ UNCHANGED vars
  BY <1>4 DEF TickWheel, JanitorLocks, JanitorDone, JanitorKicks, vars, shared
<1> QED
  BY <1>1, <1>2, <1>3, <1>4 DEF Next, Handle, JanitorSweeps

(***************************************************************************)
(* A room dies with its registry                                           *)
(***************************************************************************)
BackingInv == TypeOK /\ NoEntryOutlivesRoom

LEMMA BackingInvStep ==
  ASSUME NoOverflow, BackingInv, [Next]_vars
  PROVE  BackingInv'
<1> SUFFICES NoEntryOutlivesRoom'
  BY TypeOKStep DEF BackingInv
<1> USE DEF BackingInv, NoEntryOutlivesRoom, Registered, Cached
<1>1. ASSUME NEW c \in Conns, JoinExisting(c) PROVE NoEntryOutlivesRoom'
  <2>1. lru'.keys = lru.keys
    BY <1>1, TouchedEffect DEF JoinExisting, TypeOK
  <2> QED
    BY <1>1, <2>1 DEF JoinExisting, Register, TypeOK
<1>2. ASSUME NEW c \in Conns, CreateLazily(c) PROVE NoEntryOutlivesRoom'
  <2>1. lru'.keys = lru.keys \cup {RoomOf[c]}
    BY <1>2, StoredKeeps DEF CreateLazily
  <2> QED
    BY <1>2, <2>1 DEF CreateLazily, Register, TypeOK
<1>3. ASSUME NEW c \in Conns, WaitEnds(c) \/ Cleanup(c) PROVE NoEntryOutlivesRoom'
  <2>1. lru'.keys = lru.keys
    BY <1>3, LookedEffect DEF WaitEnds, Cleanup, TypeOK
  <2>2. conns' = [conns EXCEPT ![RoomOf[c]][PeerOf[c]] = NoConn]
    BY <1>3 DEF WaitEnds, Cleanup
  <2> QED
    BY <2>1, <2>2 DEF TypeOK
<1>4. CASE JanitorEvicts
  <2>1. lru'.keys = lru.keys \ {victim}
    BY <1>4, DroppedEffect DEF JanitorEvicts, TypeOK
  <2> QED
    BY <1>4, <2>1 DEF JanitorEvicts, TypeOK
<1>5. CASE conns' = conns /\ lru.keys \subseteq lru'.keys
  BY <1>5
<1> QED
  BY <1>1, <1>2, <1>3, <1>4, <1>5, RegistrySteps

(***************************************************************************)
(* Connections are registered only in cached rooms, although clients can   *)
(* register while the janitor lets go of the lock.                         *)
(***************************************************************************)
THEOREM RegistryDiesWithRoom ==
  ASSUME NoOverflow
  PROVE  Spec => []NoEntryOutlivesRoom
<1>1. Init => BackingInv
  BY TypeOKInit DEF Init, BackingInv, NoEntryOutlivesRoom, Registered
<1>2. BackingInv /\ [Next]_vars => BackingInv'
  BY BackingInvStep
<1>3. BackingInv => NoEntryOutlivesRoom
  BY DEF BackingInv
<1> QED
  BY <1>1, <1>2, <1>3, PTL DEF Spec

(***************************************************************************)
(* Nobody waits for a moderator who is there                               *)
(***************************************************************************)
WaitInv == BackingInv /\ EntryInv /\ NobodyWaitsInVain

\* Told(g, m): the guest under g need not wait for the moderator under m.
Told(r, g, m) ==
  pc[conns[r][g]] = "waiting" /\ conns[r][m] \in Moderators /\ pc[conns[r][m]] = "reading"
    => "room_activated" \in told[conns[r][g]]

LEMMA WaitInvOfConnect ==
  ASSUME NoOverflow, WaitInv, NEW c \in Conns, JoinExisting(c) \/ CreateLazily(c),
         NEW r \in Rooms, NEW g \in Registered(r)', NEW m \in Registered(r)'
  PROVE  Told(r, g, m)'
<1> USE DEF WaitInv, EntryInv, EntriesAreOpen, Registered, Open
<1>1. /\ g \in Peers /\ m \in Peers
      /\ conns' = [conns EXCEPT ![RoomOf[c]][PeerOf[c]] = c]
      /\ pc' = [pc EXCEPT ![c] = pc'[c]] /\ pc[c] = "offline" /\ told' = told
  <2>1. \E place : pc' = [pc EXCEPT ![c] = place]
    BY DEF JoinExisting, CreateLazily
  <2>2. pc' = [pc EXCEPT ![c] = pc'[c]]
    BY <2>1 DEF TypeOK
  <2> QED
    BY <2>2 DEF JoinExisting, CreateLazily, Register
<1>2. \A p \in Registered(r) : conns[r][p] # c /\ conns[r][p] \in Conns
  <2>1. \A p \in Registered(r) : pc[conns[r][p]] \in Open
    OBVIOUS
  <2>2. \A p \in Registered(r) : conns[r][p] \in Conns
    BY DEF TypeOK
  <2>3. pc[c] = "offline"
    BY <1>1
  <2> QED
    BY <2>1, <2>2, <2>3
<1>3. CASE conns'[r][g] # c /\ conns'[r][m] # c
  <2>1. conns'[r][g] = conns[r][g] /\ conns'[r][m] = conns[r][m]
    BY <1>1, <1>3 DEF TypeOK
  <2>2. g \in Registered(r) /\ m \in Registered(r)
    BY <1>1, <2>1
  <2>3. pc'[conns[r][g]] = pc[conns[r][g]] /\ pc'[conns[r][m]] = pc[conns[r][m]]
    BY <1>1, <1>2, <2>2 DEF TypeOK
  <2> QED
    BY <1>1, <2>1, <2>2, <2>3 DEF NobodyWaitsInVain, Told
<1>4. CASE conns'[r][g] = c /\ conns'[r][m] = c
  BY <1>1, <1>4 DEF Told
<1>5. CASE conns'[r][m] = c /\ conns'[r][g] # c
  BY <1>1, <1>5 DEF Told, JoinExisting, CreateLazily, TypeOK
<1>6. CASE conns'[r][g] = c /\ conns'[r][m] # c
  <2>1. r = RoomOf[c] /\ m \in Registered(r)
    BY <1>1, <1>2, <1>6 DEF TypeOK
  <2>2. JoinExisting(c)
    BY <2>1 DEF BackingInv, NoEntryOutlivesRoom, CreateLazily
  <2> QED
    BY <1>1, <1>6, <2>1, <2>2 DEF Told, JoinExisting, ModeratorIn, TypeOK
<1> QED
  BY <1>3, <1>4, <1>5, <1>6

LEMMA WaitInvOfAnnounce ==
  ASSUME WaitInv, NEW c \in Conns, Announce(c),
         NEW r \in Rooms, NEW g \in Registered(r)', NEW m \in Registered(r)'
  PROVE  Told(r, g, m)'
<1> USE DEF WaitInv, EntryInv, EntriesAreOpen, Registered, Open
<1>1. /\ g \in Registered(r) /\ m \in Registered(r) /\ conns' = conns
      /\ conns[r][g] \in Conns /\ conns[r][m] \in Conns
  BY DEF Announce, shared, TypeOK
<1>2. CASE conns[r][m] = c
  <2>1. r = RoomOf[c]
    BY <1>1, <1>2
  <2>2. "room_activated" \in told'[conns[r][g]]
    BY <1>1, <2>1 DEF Announce, ToldAll
  <2> QED
    BY <1>1, <2>2 DEF Told
<1>3. CASE conns[r][m] # c
  <2>1. /\ pc'[conns[r][m]] = pc[conns[r][m]]
        /\ pc'[conns[r][g]] = "waiting" => pc[conns[r][g]] = "waiting"
        /\ told[conns[r][g]] \subseteq told'[conns[r][g]]
    BY <1>1, <1>3 DEF Announce, ToldAll, TypeOK
  <2> QED
    BY <1>1, <2>1 DEF Told, NobodyWaitsInVain
<1> QED
  BY <1>2, <1>3

LEMMA WaitInvOfClose ==
  ASSUME WaitInv, NEW c \in Conns, WaitEnds(c) \/ Cleanup(c),
         NEW r \in Rooms, NEW g \in Registered(r)', NEW m \in Registered(r)'
  PROVE  Told(r, g, m)'
<1> USE DEF WaitInv, EntryInv, EntriesAreOpen, Registered, Open
<1>1. /\ conns' = [conns EXCEPT ![RoomOf[c]][PeerOf[c]] = NoConn]
      /\ pc' = [pc EXCEPT ![c] = "closed"] /\ told' = [told EXCEPT ![c] = {}]
  BY DEF WaitEnds, Cleanup, Close
<1>2. \A p \in Registered(r)' : /\ p \in Registered(r)
                                /\ conns'[r][p] = conns[r][p]
                                /\ conns[r][p] \in Conns \ {c}
  BY <1>1 DEF TypeOK
<1> QED
  BY <1>1, <1>2 DEF Told, NobodyWaitsInVain, TypeOK

\* Steps that tell more, register nobody and move nobody.
LEMMA WaitInvOfOthers ==
  ASSUME WaitInv,
         \A r \in Rooms : \A p \in Registered(r)' : p \in Registered(r) /\ conns'[r][p] = conns[r][p],
         \A c \in Conns : /\ pc[c] \in Open => pc'[c] = pc[c]
                          /\ told[c] \subseteq told'[c],
         NEW r \in Rooms, NEW g \in Registered(r)', NEW m \in Registered(r)'
  PROVE  Told(r, g, m)'
<1> USE DEF WaitInv, EntryInv, EntriesAreOpen
<1>1. /\ g \in Registered(r) /\ conns'[r][g] = conns[r][g] /\ conns[r][g] \in Conns
      /\ m \in Registered(r) /\ conns'[r][m] = conns[r][m] /\ conns[r][m] \in Conns
  BY DEF TypeOK, Registered
<1>2. pc'[conns[r][g]] = pc[conns[r][g]] /\ pc'[conns[r][m]] = pc[conns[r][m]]
  BY <1>1
<1> QED
  BY <1>1, <1>2 DEF Told, NobodyWaitsInVain

LEMMA WaitInvStep ==
  ASSUME NoOverflow, WaitInv, [Next]_vars
  PROVE  WaitInv'
<1>1. BackingInv' /\ EntryInv' /\ TypeOK
  BY BackingInvStep, EntryInvStep DEF WaitInv, BackingInv
<1> SUFFICES ASSUME NEW r \in Rooms, NEW g \in Registered(r)', NEW m \in Registered(r)'
             PROVE  Told(r, g, m)'
  BY <1>1 DEF WaitInv, NobodyWaitsInVain, Told
<1>2. ASSUME NEW c \in Conns, Handle(c) PROVE Told(r, g, m)'
  <2>1. CASE JoinExisting(c) \/ CreateLazily(c)
    BY <2>1, WaitInvOfConnect
  <2>2. CASE Announce(c)
    BY <2>2, WaitInvOfAnnounce
  <2>3. CASE WaitEnds(c) \/ Cleanup(c)
    BY <2>3, WaitInvOfClose
  <2>4. CASE Refuse(c) \/ HandleJoin(c) \/ TogglePause(c) \/ Resume(c)
               \/ \E peer \in Peers : KickPeer(c, peer)
    <3>1. conns' = conns
      BY <2>4 DEF Refuse, HandleJoin, TogglePause, Resume, KickPeer, shared
    <3>2. \A d \in Conns : pc[d] \in Open => pc'[d] = pc[d]
      BY <1>1, <2>4 DEF Refuse, HandleJoin, TogglePause, Resume, KickPeer, handlers, TypeOK, Open
    <3>3. \A d \in Conns : told[d] \subseteq told'[d]
      BY <1>1, <2>4 DEF Refuse, HandleJoin, TogglePause, Resume, KickPeer, handlers, TypeOK
    <3> QED
      BY <3>1, <3>2, <3>3, WaitInvOfOthers DEF Registered
  <2> QED
    BY <1>2, <2>1, <2>2, <2>3, <2>4 DEF Handle
<1>3. CASE JanitorEvicts
  <2>1. \A q \in Rooms : \A p \in Registered(q)' :
          p \in Registered(q) /\ conns'[q][p] = conns[q][p]
    BY <1>1, <1>3 DEF JanitorEvicts, Registered, TypeOK
  <2> QED
    BY <1>3, <2>1, WaitInvOfOthers DEF JanitorEvicts, handlers
<1>4. CASE JanitorKicks
  <2>1. \A d \in Conns : told[d] \subseteq told'[d]
    BY <1>1, <1>4 DEF JanitorKicks, ToldAll, TypeOK
  <2> QED
    BY <1>4, <2>1, WaitInvOfOthers DEF JanitorKicks, Registered, shared
<1>5. CASE UNCHANGED <<conns, pc, told>>
  BY <1>5, WaitInvOfOthers DEF Registered
<1>6. \/ \E c \in Conns : Handle(c)
      \/ JanitorEvicts \/ JanitorKicks
      \/ UNCHANGED <<conns, pc, told>>
  BY DEF Next, JanitorSweeps, UseRoom, CreateRoom, TickWheel, JanitorLocks, JanitorDone,
         JanitorSkips, JanitorKeeps, JanitorCondemns, vars, shared, handlers
<1> QED
  BY <1>2, <1>3, <1>4, <1>5, <1>6

(***************************************************************************)
(* A registered guest in the waiting loop was told of the moderator that   *)
(* is registered next to it, in whatever order they came.                  *)
(***************************************************************************)
THEOREM WaitersAreTold ==
  ASSUME NoOverflow
  PROVE  Spec => []NobodyWaitsInVain
<1>1. Init => WaitInv
  BY TypeOKInit DEF Init, WaitInv, BackingInv, EntryInv, EntriesAreOpen, NobodyWaitsInVain,
                    NoEntryOutlivesRoom, Registered
<1>2. WaitInv /\ [Next]_vars => WaitInv'
  BY WaitInvStep
<1>3. WaitInv => NobodyWaitsInVain
  BY DEF WaitInv
<1> QED
  BY <1>1, <1>2, <1>3, PTL DEF Spec

(***************************************************************************)
(* The capacity shield                                                     *)
(***************************************************************************)
LimitsInRange == CreateLimits \subseteq 1 .. DefaultCapacity
CapacityInv == BackingInv /\ CapacityRespected

LEMMA RegisteredFinite ==
  ASSUME NEW r
  PROVE  IsFiniteSet(Registered(r)) /\ Cardinality(Registered(r)) \in Nat
<1>1. IsFiniteSet(Registered(r))
  BY FS_Subset DEF Registered
<1> QED
  BY <1>1, FS_CardinalityType

LEMMA CapacityOfSmaller ==
  ASSUME CapacityRespected, NEW r \in Rooms, Registered(r)' \subseteq Registered(r)
  PROVE  Cardinality(Registered(r)') =< DefaultCapacity
<1>1. IsFiniteSet(Registered(r)) /\ Cardinality(Registered(r)) \in Nat
  BY RegisteredFinite
<1>2. /\ IsFiniteSet(Registered(r)')
      /\ Cardinality(Registered(r)') \in Nat
      /\ Cardinality(Registered(r)') =< Cardinality(Registered(r))
  BY <1>1, FS_Subset, FS_CardinalityType
<1>3. Cardinality(Registered(r)) =< DefaultCapacity
  BY DEF CapacityRespected
<1> QED
  BY <1>1, <1>2, <1>3

LEMMA CapacityOfOneMore ==
  ASSUME NEW r \in Rooms, NEW p, Registered(r)' \subseteq Registered(r) \cup {p},
         Cardinality(Registered(r)) < DefaultCapacity
  PROVE  Cardinality(Registered(r)') =< DefaultCapacity
<1>1. IsFiniteSet(Registered(r)) /\ Cardinality(Registered(r)) \in Nat
  BY RegisteredFinite
<1>2. /\ IsFiniteSet(Registered(r) \cup {p})
      /\ Cardinality(Registered(r) \cup {p}) =< Cardinality(Registered(r)) + 1
      /\ Cardinality(Registered(r) \cup {p}) \in Nat
  <2>1. /\ IsFiniteSet(Registered(r) \cup {p})
        /\ \/ Cardinality(Registered(r) \cup {p}) = Cardinality(Registered(r))
           \/ Cardinality(Registered(r) \cup {p}) = Cardinality(Registered(r)) + 1
    BY <1>1, FS_AddElement, Zenon
  <2> QED
    BY <1>1, <2>1
<1>3. Cardinality(Registered(r)') \in Nat
      /\ Cardinality(Registered(r)') =< Cardinality(Registered(r) \cup {p})
  BY <1>2, FS_Subset, FS_CardinalityType
<1> QED
  BY <1>1, <1>2, <1>3

LEMMA CapacityInvStep ==
  ASSUME NoOverflow, LimitsInRange, CapacityInv, [Next]_vars
  PROVE  CapacityInv'
<1>1. BackingInv' /\ TypeOK
  BY BackingInvStep DEF CapacityInv, BackingInv
<1> SUFFICES ASSUME NEW r \in Rooms PROVE Cardinality(Registered(r)') =< DefaultCapacity
  BY <1>1 DEF CapacityInv, CapacityRespected
<1>2. ASSUME NEW c \in Conns, JoinExisting(c) \/ CreateLazily(c)
      PROVE  Cardinality(Registered(r)') =< DefaultCapacity
  <2>1. /\ Registered(r)' \subseteq Registered(r) \cup {PeerOf[c]}
        /\ r # RoomOf[c] => Registered(r)' \subseteq Registered(r)
    BY <1>1, <1>2 DEF JoinExisting, CreateLazily, Register, Registered, TypeOK
  <2>2. CASE r # RoomOf[c]
    BY <2>1, <2>2, CapacityOfSmaller DEF CapacityInv
  <2>3. CASE r = RoomOf[c] /\ JoinExisting(c)
    <3>1. room[r].maxPeers \in 1 .. DefaultCapacity
      BY <2>3, CachedHasObject DEF JoinExisting, Cached, Limits, LimitsInRange, CapacityInv, BackingInv
    <3>2. Cardinality(Registered(r)) < room[r].maxPeers
      BY <2>3, <3>1, RegisteredFinite DEF JoinExisting, Full
    <3>3. Cardinality(Registered(r)) < DefaultCapacity
      BY <3>1, <3>2, RegisteredFinite
    <3> QED
      BY <2>1, <3>3, CapacityOfOneMore
  <2>4. CASE r = RoomOf[c] /\ CreateLazily(c)
    <3>1. Registered(r) = {}
      BY <2>4 DEF CreateLazily, CapacityInv, BackingInv, NoEntryOutlivesRoom
    <3>2. Cardinality(Registered(r)) < DefaultCapacity
      BY <3>1, FS_EmptySet
    <3> QED
      BY <2>1, <3>2, CapacityOfOneMore
  <2> QED
    BY <1>2, <2>2, <2>3, <2>4
<1>3. CASE Registered(r)' \subseteq Registered(r)
  BY <1>3, CapacityOfSmaller DEF CapacityInv
<1>4. ASSUME NEW c \in Conns, WaitEnds(c) \/ Cleanup(c) PROVE Registered(r)' \subseteq Registered(r)
  <2>1. conns' = [conns EXCEPT ![RoomOf[c]][PeerOf[c]] = NoConn]
    BY <1>4 DEF WaitEnds, Cleanup
  <2> QED
    BY <1>1, <2>1 DEF Registered, TypeOK
<1>5. JanitorEvicts => Registered(r)' \subseteq Registered(r)
  BY <1>1 DEF JanitorEvicts, Registered, TypeOK
<1>6. conns' = conns => Registered(r)' \subseteq Registered(r)
  BY DEF Registered
<1> QED
  BY <1>1, <1>2, <1>3, <1>4, <1>5, <1>6, RegistrySteps

(***************************************************************************)
(* No room ever has more than DefaultCapacity registered connections, if   *)
(* the callers of CreateRoom ask for legal limits.                         *)
(***************************************************************************)
THEOREM CapacityShieldHolds ==
  ASSUME NoOverflow, LimitsInRange
  PROVE  Spec => []CapacityRespected
<1>1. Init => CapacityInv
  <2> SUFFICES ASSUME Init PROVE CapacityInv
    OBVIOUS
  <2>1. \A r \in Rooms : Registered(r) = {}
    BY DEF Init, Registered
  <2> QED
    BY <2>1, TypeOKInit, FS_EmptySet DEF CapacityInv, BackingInv, NoEntryOutlivesRoom, CapacityRespected
<1>2. CapacityInv /\ [Next]_vars => CapacityInv'
  BY CapacityInvStep
<1>3. CapacityInv => CapacityRespected
  BY DEF CapacityInv
<1> QED
  BY <1>1, <1>2, <1>3, PTL DEF Spec
=============================================================================
