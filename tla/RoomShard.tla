----------------------------- MODULE RoomShard -----------------------------
(***************************************************************************)
(* One shard of the signaling gateway: the cache of rooms, the websocket   *)
(* registry and the timers that the connection handlers, the gRPC          *)
(* CreateRoom and the minute janitor share under shard.mu                  *)
(* (moderation_business.go, room_business.go, janitor_business.go).        *)
(*                                                                         *)
(* A section of code between Lock and Unlock is one action.  The janitor   *)
(* turns the wheel before it takes the lock and lets go of the lock in the *)
(* middle of a sweep, so its steps are separate actions.  The cache and    *)
(* the wheel appear as what LruCache and TimeWheel are proved to implement *)
(* (RecencyOps, TimerOps).  The clock is left out: whether a deadline has  *)
(* passed, and how many minutes remain, is any answer.                     *)
(***************************************************************************)
EXTENDS TimerOps, RecencyOps, FiniteSets

CONSTANTS Rooms,            \* the rooms that hash to this shard
          Peers,            \* peer identifiers (?peer=)
          Conns,            \* websocket connections, each opened once
          RoomOf, PeerOf,   \* what the URL of a connection names
          Moderators,       \* the connections with ?mod=true
          NoConn, NoRoom,   \* absent registry entry, absent room
          LruCapacity,      \* rooms the cache of a shard holds: 1000
          DefaultCapacity,  \* participants of a room: 100
          DefaultMinutes,   \* life of a room nobody configured: 30
          PauseMinutes,     \* insurance timer of a paused room: 300
          TypedLimits,      \* numbers a moderator may type
          CreateLimits,     \* max_peers the callers of CreateRoom pass
          MaxCreates        \* bound on the calls of CreateRoom

ASSUME ShardAssumption ==
  /\ RoomOf \in [Conns -> Rooms]
  /\ PeerOf \in [Conns -> Peers]
  /\ Moderators \subseteq Conns
  /\ NoConn \notin Conns
  /\ IsFiniteSet(Rooms) /\ IsFiniteSet(Peers)
  /\ LruCapacity \in Nat \ {0}
  /\ DefaultCapacity \in Nat \ {0}
  /\ DefaultMinutes \in Nat \ {0} /\ PauseMinutes \in Nat \ {0}
  /\ TypedLimits \subseteq Nat /\ CreateLimits \subseteq Nat
  /\ MaxCreates \in Nat

VARIABLES lru,      \* the cached rooms and their order of use
          room,     \* the object of a cached room
          conns,    \* shard.conns: room -> peer -> connection
          timers,   \* shard.wheel: room -> distances at which it fires
          pc,       \* where the handler of a connection is
          told,     \* frames the server wrote to an open connection
          stage,    \* where the janitor is
          due,      \* expiredRoomIDs not handled yet
          victim,   \* the room the janitor is evicting
          creates   \* calls of CreateRoom so far

shared == <<lru, room, conns, timers>>
handlers == <<pc, told>>
janitor == <<stage, due, victim>>
vars == <<shared, handlers, janitor, creates>>

RoomObjects == [maxPeers : Nat, paused : BOOLEAN, peers : SUBSET Peers]
ASSUME NoRoomAssumption == NoRoom \notin Rooms \cup RoomObjects

NewRoom(limit) == [maxPeers |-> limit, paused |-> FALSE, peers |-> {}]
Cached(r) == r \in lru.keys
Registered(r) == {p \in Peers : conns[r][p] # NoConn}
ModeratorIn(registry, r) == \E p \in Peers : registry[r][p] \in Moderators
Frames == {"room_activated", "force_kick"}
Open == {"waiting", "activating", "reading"}

\* shard.mu is free: only a sweep of the janitor holds it across actions.
Unlocked == stage # "sweeping"

\* The limit check of the capacity shield, and an off-by-one of it.
FullOffByOne(r) == Cardinality(Registered(r)) > room[r].maxPeers
Full(r) == Cardinality(Registered(r)) >= room[r].maxPeers

\* lruCache.Set(r): the caches it may leave, the oldest room evicted if full.
Stored(r) ==
  IF Cached(r) THEN {Touched(lru, r)}
  ELSE IF Cardinality(lru.keys) < LruCapacity THEN {Inserted(lru, r)}
  ELSE {Inserted(Dropped(lru, k), r) : k \in {o \in lru.keys : IsOldest(lru, o)}}

\* lruCache.Get(r)
Looked(r) == IF Cached(r) THEN Touched(lru, r) ELSE lru

\* The rooms after Set(r, object) left the cache `after'.  Nobody looks at the
\* evicted key that Set returns.
RoomsAfterSet(after, r, object) ==
  [q \in Rooms |-> IF q = r THEN object ELSE IF q \in after.keys THEN room[q] ELSE NoRoom]

\* wheel.Remove(r) and wheel.Add(r, minutes)
Rearmed(r, minutes) == {Armed(t, r, minutes) : t \in Disarmed(timers, r)}
-----------------------------------------------------------------------------
Init == /\ lru = NothingCached
        /\ room = [r \in Rooms |-> NoRoom]
        /\ conns = [r \in Rooms |-> [p \in Peers |-> NoConn]]
        /\ timers = [r \in Rooms |-> {}]
        /\ pc = [c \in Conns |-> "offline"]
        /\ told = [c \in Conns |-> {}]
        /\ stage = "idle" /\ due = {} /\ victim = NoRoom
        /\ creates = 0

(***************************************************************************)
(* HandleWsSignal, first locked section                                    *)
(***************************************************************************)
Refuse(c) ==
  /\ pc[c] = "offline" /\ Unlocked
  /\ Cached(RoomOf[c]) /\ Full(RoomOf[c])
  /\ lru' = Touched(lru, RoomOf[c])
  /\ pc' = [pc EXCEPT ![c] = "refused"]
  /\ UNCHANGED <<room, conns, timers, told, janitor, creates>>

Register(c) == conns' = [conns EXCEPT ![RoomOf[c]][PeerOf[c]] = c]

JoinExisting(c) ==
  /\ pc[c] = "offline" /\ Unlocked
  /\ Cached(RoomOf[c]) /\ ~ Full(RoomOf[c])
  /\ lru' = Touched(lru, RoomOf[c])
  /\ Register(c)
  /\ pc' = [pc EXCEPT ![c] =
              IF c \in Moderators THEN "activating"
              ELSE IF ModeratorIn(conns', RoomOf[c]) THEN "reading" ELSE "waiting"]
  /\ UNCHANGED <<room, timers, told, janitor, creates>>

\* A guest waits in the room it created, whoever is registered in it.
CreateLazily(c) ==
  /\ pc[c] = "offline" /\ Unlocked
  /\ ~ Cached(RoomOf[c])
  /\ lru' \in Stored(RoomOf[c])
  /\ room' = RoomsAfterSet(lru', RoomOf[c], NewRoom(DefaultCapacity))
  /\ Register(c)
  /\ timers' = Armed(timers, RoomOf[c], DefaultMinutes)
  /\ pc' = [pc EXCEPT ![c] = IF c \in Moderators THEN "activating" ELSE "waiting"]
  /\ UNCHANGED <<told, janitor, creates>>

\* broadcast writes a frame to every registered connection of the room
ToldAll(r, frame) ==
  [c \in Conns |-> IF \E p \in Peers : conns[r][p] = c
                   THEN told[c] \cup {frame} ELSE told[c]]

\* A slip: the announcement goes to the sessions of the room.
AnnounceToSessions(c) ==
  /\ pc[c] = "activating" /\ Unlocked
  /\ told' = [d \in Conns |->
                IF \E p \in Peers : /\ conns[RoomOf[c]][p] = d
                                    /\ Cached(RoomOf[c])
                                    /\ p \in room[RoomOf[c]].peers
                THEN told[d] \cup {"room_activated"} ELSE told[d]]
  /\ pc' = [pc EXCEPT ![c] = "reading"]
  /\ UNCHANGED <<shared, janitor, creates>>

Announce(c) ==
  /\ pc[c] = "activating" /\ Unlocked
  /\ told' = ToldAll(RoomOf[c], "room_activated")
  /\ pc' = [pc EXCEPT ![c] = "reading"]
  /\ UNCHANGED <<shared, janitor, creates>>

\* The handler returns; what its connection was told matters no more.
Close(c) == /\ pc' = [pc EXCEPT ![c] = "closed"]
            /\ told' = [told EXCEPT ![c] = {}]

\* The read error of a waiting guest.  The entry of its peer goes, whichever
\* connection holds it by now.  The slip forgets the entry.
WaitEndsKeepsEntry(c) ==
  /\ pc[c] = "waiting" /\ Unlocked
  /\ Close(c)
  /\ UNCHANGED <<shared, janitor, creates>>

WaitEnds(c) ==
  /\ pc[c] = "waiting" /\ Unlocked
  /\ conns' = [conns EXCEPT ![RoomOf[c]][PeerOf[c]] = NoConn]
  /\ Close(c)
  /\ UNCHANGED <<lru, room, timers, janitor, creates>>

\* The read error of a joined connection, and a slip that leaves the session.
CleanupKeepsSession(c) ==
  /\ pc[c] = "reading" /\ Unlocked
  /\ conns' = [conns EXCEPT ![RoomOf[c]][PeerOf[c]] = NoConn]
  /\ lru' = Looked(RoomOf[c])
  /\ Close(c)
  /\ UNCHANGED <<room, timers, janitor, creates>>

Cleanup(c) ==
  /\ pc[c] = "reading" /\ Unlocked
  /\ conns' = [conns EXCEPT ![RoomOf[c]][PeerOf[c]] = NoConn]
  /\ lru' = Looked(RoomOf[c])
  /\ room' = IF Cached(RoomOf[c])
             THEN [room EXCEPT ![RoomOf[c]].peers = @ \ {PeerOf[c]}] ELSE room
  /\ Close(c)
  /\ UNCHANGED <<timers, janitor, creates>>

(***************************************************************************)
(* The frames a joined connection may send                                 *)
(***************************************************************************)
\* The range check of the number a moderator typed, without and with its top.
AcceptedNoCeiling(limit) == limit >= 1
Accepted(limit) == limit \in 1 .. DefaultCapacity

\* "join": a session for the peer; a moderator may set the limit, the time or both.
HandleJoin(c) ==
  LET r == RoomOf[c] IN
  /\ pc[c] = "reading" /\ Unlocked
  /\ Cached(r)
  /\ lru' = Touched(lru, r)
  /\ \E limit \in {room[r].maxPeers} \cup
                  (IF c \in Moderators THEN {n \in TypedLimits : Accepted(n)} ELSE {}) :
       room' = [room EXCEPT ![r].peers = @ \cup {PeerOf[c]}, ![r].maxPeers = limit]
  /\ \/ timers' = timers
     \/ c \in Moderators /\ \E minutes \in Distances : timers' \in Rearmed(r, minutes)
  /\ UNCHANGED <<conns, handlers, janitor, creates>>

\* "SET_PAUSE", from anyone: the flag flips and the timer of the room moves.
\* A room out of the cache has the timer moved all the same.
TogglePause(c) ==
  LET r == RoomOf[c] IN
  /\ pc[c] = "reading" /\ Unlocked
  /\ lru' = Looked(r)
  /\ room' = IF Cached(r) THEN [room EXCEPT ![r].paused = ~ @] ELSE room
  /\ \E minutes \in Distances \cup {PauseMinutes} :
       /\ Cached(r) /\ room'[r].paused => minutes = PauseMinutes
       /\ timers' \in Rearmed(r, minutes)
  /\ UNCHANGED <<conns, handlers, janitor, creates>>

\* "RESUME_CONFERENCE"
Resume(c) ==
  LET r == RoomOf[c] IN
  /\ pc[c] = "reading" /\ Unlocked
  /\ Cached(r)
  /\ lru' = Touched(lru, r)
  /\ room' = [room EXCEPT ![r].paused = FALSE]
  /\ IF room[r].paused
     THEN \E minutes \in Distances : timers' \in Rearmed(r, minutes)
     ELSE timers' = timers
  /\ UNCHANGED <<conns, handlers, janitor, creates>>

\* Every other look at the cache: a chat frame, a speaker command, the gRPC
\* and HTTP queries.  The order of use is all they change here.
UseRoom(r) ==
  /\ Unlocked
  /\ Cached(r)
  /\ lru' = Touched(lru, r)
  /\ UNCHANGED <<room, conns, timers, handlers, janitor, creates>>

\* "KICK_PEER", from anyone
KickPeer(c, peer) ==
  LET target == conns[RoomOf[c]][peer] IN
  /\ pc[c] = "reading" /\ Unlocked
  /\ target # NoConn
  /\ told' = [told EXCEPT ![target] = @ \cup {"force_kick"}]
  /\ UNCHANGED <<shared, pc, janitor, creates>>

(***************************************************************************)
(* CreateRoom: a new object replaces the old one, sessions included.  The  *)
(* timers the room already has stay armed.  The slip adds no timer.        *)
(***************************************************************************)
CreateRoomUntimed(r, limit) ==
  /\ Unlocked
  /\ creates < MaxCreates
  /\ creates' = creates + 1
  /\ lru' \in Stored(r)
  /\ room' = RoomsAfterSet(lru', r, NewRoom(limit))
  /\ UNCHANGED <<conns, timers, handlers, janitor>>

CreateRoom(r, limit) ==
  /\ Unlocked
  /\ creates < MaxCreates
  /\ creates' = creates + 1
  /\ lru' \in Stored(r)
  /\ room' = RoomsAfterSet(lru', r, NewRoom(limit))
  /\ timers' = Armed(timers, r, DefaultMinutes)
  /\ UNCHANGED <<conns, handlers, janitor>>

(***************************************************************************)
(* tickTimeWheelCascade                                                    *)
(***************************************************************************)
\* wheel.Tick(), under the lock of the wheel alone
TickWheel ==
  /\ stage = "idle"
  /\ timers' = Turned(timers)
  /\ due' = Due(timers)
  /\ stage' = IF due' = {} THEN "idle" ELSE "ticked"
  /\ UNCHANGED <<lru, room, conns, handlers, victim, creates>>

JanitorLocks ==
  /\ stage = "ticked"
  /\ stage' = "sweeping"
  /\ UNCHANGED <<shared, handlers, due, victim, creates>>

JanitorSkips(r) ==
  /\ stage = "sweeping" /\ r \in due
  /\ ~ Cached(r)
  /\ due' = due \ {r}
  /\ UNCHANGED <<shared, handlers, stage, victim, creates>>

\* Somebody is in the room and its deadline has not passed.
JanitorKeepsUntimed(r) ==
  /\ stage = "sweeping" /\ r \in due
  /\ Cached(r) /\ room[r].peers # {}
  /\ lru' = Touched(lru, r)
  /\ due' = due \ {r}
  /\ UNCHANGED <<room, conns, timers, handlers, stage, victim, creates>>

JanitorKeeps(r) ==
  /\ stage = "sweeping" /\ r \in due
  /\ Cached(r) /\ room[r].peers # {}
  /\ lru' = Touched(lru, r)
  /\ timers' = Armed(timers, r, 1)
  /\ due' = due \ {r}
  /\ UNCHANGED <<room, conns, handlers, stage, victim, creates>>

\* The room is empty or its deadline has passed: the lock is let go ...
JanitorCondemns(r) ==
  /\ stage = "sweeping" /\ r \in due
  /\ Cached(r)
  /\ lru' = Touched(lru, r)
  /\ stage' = "kicking" /\ victim' = r
  /\ due' = due \ {r}
  /\ UNCHANGED <<room, conns, timers, handlers, creates>>

\* ... for the broadcast ...
JanitorKicks ==
  /\ stage = "kicking"
  /\ told' = ToldAll(victim, "force_kick")
  /\ stage' = "kicked"
  /\ UNCHANGED <<shared, pc, due, victim, creates>>

\* ... and taken again: the room goes, whatever happened in between.  The slip
\* keeps the registry.
JanitorEvictsCacheOnly ==
  /\ stage = "kicked"
  /\ lru' = Dropped(lru, victim)
  /\ room' = [room EXCEPT ![victim] = NoRoom]
  /\ stage' = "sweeping" /\ victim' = NoRoom
  /\ UNCHANGED <<conns, timers, handlers, due, creates>>

JanitorEvicts ==
  /\ stage = "kicked"
  /\ lru' = Dropped(lru, victim)
  /\ room' = [room EXCEPT ![victim] = NoRoom]
  /\ conns' = [conns EXCEPT ![victim] = [p \in Peers |-> NoConn]]
  /\ stage' = "sweeping" /\ victim' = NoRoom
  /\ UNCHANGED <<timers, handlers, due, creates>>

JanitorDone ==
  /\ stage = "sweeping" /\ due = {}
  /\ stage' = "idle"
  /\ UNCHANGED <<shared, handlers, due, victim, creates>>
-----------------------------------------------------------------------------
Handle(c) == \/ Refuse(c) \/ JoinExisting(c) \/ CreateLazily(c) \/ Announce(c)
             \/ WaitEnds(c) \/ Cleanup(c)
             \/ HandleJoin(c) \/ TogglePause(c) \/ Resume(c)
             \/ \E peer \in Peers : KickPeer(c, peer)

JanitorSweeps == \/ JanitorLocks \/ JanitorDone
                 \/ \E r \in Rooms : JanitorSkips(r) \/ JanitorKeeps(r) \/ JanitorCondemns(r)
                 \/ JanitorKicks \/ JanitorEvicts

Next == \/ \E c \in Conns : Handle(c)
        \/ \E r \in Rooms : UseRoom(r)
        \/ \E r \in Rooms, limit \in CreateLimits : CreateRoom(r, limit)
        \/ TickWheel
        \/ JanitorSweeps

Spec == Init /\ [][Next]_vars

\* The ticker goes on and a sweep never stops half-way: shard.mu is held for
\* finite sections only and a waiting Lock gets its turn (sync.RWMutex).
FairSpec == Spec /\ WF_vars(TickWheel) /\ WF_vars(JanitorSweeps)
-----------------------------------------------------------------------------
LruOK(l) == /\ l \in [keys : SUBSET Rooms, older : SUBSET (Rooms \X Rooms)]
            /\ l.older \subseteq l.keys \X l.keys

TypeOK ==
  /\ LruOK(lru)
  /\ room \in [Rooms -> RoomObjects \cup {NoRoom}]
  /\ \A r \in Rooms : Cached(r) <=> room[r] # NoRoom
  /\ \A r \in lru.keys : room[r].maxPeers \in 1 .. DefaultCapacity \cup CreateLimits
  /\ conns \in [Rooms -> [Peers -> Conns \cup {NoConn}]]
  /\ timers \in [Rooms -> SUBSET Distances]
  /\ pc \in [Conns -> Open \cup {"offline", "refused", "closed"}]
  /\ told \in [Conns -> SUBSET Frames]
  /\ stage \in {"idle", "ticked", "sweeping", "kicking", "kicked"}
  /\ due \in SUBSET Rooms
  /\ victim \in Rooms \cup {NoRoom}
  /\ stage \in {"kicking", "kicked"} <=> victim # NoRoom
  /\ creates \in 0 .. MaxCreates

(***************************************************************************)
(* No cached room is forgotten by the wheel: it has a timer, or it is among*)
(* those the janitor has yet to handle in this sweep.  The wheel is the    *)
(* only way out of memory for a room (the SRS: "300 minutes"), so a        *)
(* Remove without an Add, or a tick that loses a room between Tick and the *)
(* sweep, would keep the room forever.                                     *)
(***************************************************************************)
NoRoomForgotten ==
  \A r \in lru.keys : timers[r] # {} \/ r \in due \/ victim = r

(***************************************************************************)
(* Every session of a cached room belongs to a peer with an open handler,  *)
(* so the emptiness test of the janitor (janitor_business.go:54) can come  *)
(* true.  Reconnections of a peer, CreateRoom and evictions in between     *)
(* must not leave a session behind.                                        *)
(***************************************************************************)
SessionsHaveHandlers ==
  \A r \in lru.keys : \A p \in room[r].peers :
    \E c \in Conns : pc[c] = "reading" /\ RoomOf[c] = r /\ PeerOf[c] = p

(***************************************************************************)
(* A registry entry is a connection whose handler still runs: broadcasts   *)
(* never write to a connection whose handler has returned.                 *)
(***************************************************************************)
EntriesAreOpen ==
  \A r \in Rooms : \A p \in Registered(r) :
    /\ pc[conns[r][p]] \in Open
    /\ RoomOf[conns[r][p]] = r /\ PeerOf[conns[r][p]] = p

(***************************************************************************)
(* While the cache never overflows, connections are registered only in     *)
(* cached rooms: a room dies with its registry, also when clients connect  *)
(* while the janitor lets go of the lock (janitor_business.go:57).         *)
(***************************************************************************)
NoEntryOutlivesRoom ==
  \A r \in Rooms : Registered(r) # {} => Cached(r)

(***************************************************************************)
(* A guest in the waiting loop that is registered next to a moderator who  *)
(* has finished its announcement was told "room_activated": nobody waits   *)
(* for a moderator who is there (moderation_business.go:85-98, 134-139).   *)
(***************************************************************************)
NobodyWaitsInVain ==
  \A r \in Rooms : \A g, m \in Registered(r) :
    pc[conns[r][g]] = "waiting" /\ conns[r][m] \in Moderators /\ pc[conns[r][m]] = "reading"
      => "room_activated" \in told[conns[r][g]]

(***************************************************************************)
(* No room has more than 100 participants (the SRS of the gateway, line    *)
(* 11: 1 to 100), counting the connections registered in it.               *)
(***************************************************************************)
CapacityRespected ==
  \A r \in Rooms : Cardinality(Registered(r)) =< DefaultCapacity

(***************************************************************************)
(* When every handler has returned, the memory comes back: the cache is    *)
(* emptied by the wheel and stays empty.                                   *)
(***************************************************************************)
RoomsReclaimed ==
  <>[](\A c \in Conns : pc[c] \notin Open) => <>[](lru.keys = {})
=============================================================================
