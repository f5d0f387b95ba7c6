---------------------------- MODULE RoomBroadcast ----------------------------
(***************************************************************************)
(* The lock of a room shard and what is written to the sockets of a room   *)
(* under it: the chat with its history, the relay of frames between two    *)
(* peers, the announcements of joins and leaves.  Every connection has a   *)
(* handler goroutine, HandleWsSignal; a clerk stands for the gRPC and HTTP *)
(* calls that take the same lock.                                          *)
(*                                                                         *)
(* The lock is Go's sync.RWMutex: a writer that has announced itself waits *)
(* for the readers inside, readers that come later wait for it, and its    *)
(* Unlock lets in all that wait.  What is done under the write lock writes *)
(* to no socket and is one action here; what is done under the read lock   *)
(* writes to the sockets one by one, in any order.  A write ends when the  *)
(* page takes the frame: buffers, which let it end earlier, are left out.  *)
(*                                                                         *)
(* A gorilla connection bears one writer at a time.  When two meet on a    *)
(* connection each of their frames may be lost and each of them may panic; *)
(* net/http recovers the panic after the deferred calls.                   *)
(* Everything but a chat is a notice; who is offered what and the locks of *)
(* the lecture are in MeshNegotiation and LectureLocks, full rooms,        *)
(* waiting guests and the janitor in RoomShard.                            *)
(***************************************************************************)
EXTENDS Naturals, Sequences, FiniteSets, SequencesExt

CONSTANTS Peers, Clerk, None,
          Lecture,      \* a state of the lecture is on
          MaxChats,     \* chats of a peer, at most
          MaxRelays,    \* frames a peer has relayed, at most
          MaxCalls      \* calls of the clerk, at most

ASSUME BroadcastAssumption ==
  /\ Clerk \notin Peers /\ None \notin Peers \union {Clerk}
  /\ None \notin {"register", "join", "chat", "leave", "mark"}
  /\ Lecture \in BOOLEAN /\ MaxCalls \in Nat
  /\ MaxChats \in [Peers -> Nat] /\ MaxRelays \in [Peers -> Nat]

VARIABLES writer,          \* who has announced itself for the write lock
          conns, sessions, history,    \* the room: sockets, Peers, ChatHistory
          go,              \* the goroutines
          broken,          \* sockets whose page is gone
          live, dumped,    \* chats a page has got one by one, and in a dump
          chats, relays, calls,
          torn             \* history: chats that a clash took from a page

room == <<conns, sessions, history>>
pages == <<broken, live, dumped>>
counts == <<chats, relays, calls>>
broadcastVars == <<writer, room, go, pages, counts, torn>>

Threads == Peers \union {Clerk}

\* A frame, and a step of a plan: whom a frame goes to, and whether under the
\* read lock.
Frame(kind, cs) == [kind |-> kind, chats |-> cs]
Notice == Frame("notice", <<>>)
Own(p, f) == [locked |-> FALSE, frame |-> f, to |-> {p}]
Room(to, f) == [locked |-> TRUE, frame |-> f, to |-> to]

\* A goroutine: what it waits for ("task", the write lock; "rlock", the read
\* lock), what it has to write, and which sockets of the first step are left.
Waiting(what) == [stage |-> "lock", task |-> what, plan |-> <<>>, todo |-> {}]
Working(steps) == [stage |-> IF steps = <<>> THEN "idle" ELSE "work", task |-> None,
                   plan |-> steps, todo |-> {}]
Idle == Working(<<>>)
-----------------------------------------------------------------------------
BroadcastInit ==
  /\ writer = None
  /\ conns = {} /\ sessions = {} /\ history = <<>>
  /\ go = [t \in Threads |-> IF t = Clerk THEN Idle ELSE [Idle EXCEPT !.stage = "new"]]
  /\ broken = {}
  /\ live = [p \in Peers |-> <<>>] /\ dumped = [p \in Peers |-> <<>>]
  /\ chats = [p \in Peers |-> 0] /\ relays = [p \in Peers |-> 0] /\ calls = 0
  /\ torn = {}

\* A goroutine turns to the write lock.
ToLock(t, what) ==
  /\ go' = [go EXCEPT ![t] = Waiting(what)]
  /\ UNCHANGED <<writer, room, pages, torn>>

HandleWebSocket(p) == go[p].stage = "new" /\ ToLock(p, "register") /\ UNCHANGED counts

\* The frames of a page, one after the other, "join" the first.
Reads(p) == go[p].stage = "idle" /\ p \in conns
ReadJoin(p) ==
  /\ Reads(p) /\ p \notin broken /\ p \notin sessions
  /\ ToLock(p, "join") /\ UNCHANGED counts
ReadChat(p) ==
  /\ Reads(p) /\ p \notin broken /\ p \in sessions /\ chats[p] < MaxChats[p]
  /\ ToLock(p, "chat")
  /\ chats' = [chats EXCEPT ![p] = @ + 1] /\ UNCHANGED <<relays, calls>>
ReadRelay(p, q) ==
  /\ Reads(p) /\ p \notin broken /\ p \in sessions /\ relays[p] < MaxRelays[p]
  /\ go' = [go EXCEPT ![p] = Working(<<Room({q}, Notice)>>)]
  /\ relays' = [relays EXCEPT ![p] = @ + 1]
  /\ UNCHANGED <<writer, room, pages, chats, calls, torn>>
ReadError(p) ==
  /\ Reads(p) /\ p \in broken
  /\ ToLock(p, "leave") /\ UNCHANGED counts

BroadcastControlMessage ==
  /\ go[Clerk] = Idle /\ calls < MaxCalls
  /\ ToLock(Clerk, "mark")
  /\ calls' = calls + 1 /\ UNCHANGED <<chats, relays>>

\* A look at the room under the read lock, with nothing to write; the answer
\* only goes into the description the page asked about.
IsRoomOverloadedOrPaused == Room({}, Notice)
HandleSdpMutator ==
  /\ go[Clerk] = Idle /\ calls < MaxCalls
  /\ go' = [go EXCEPT ![Clerk] = Working(<<IsRoomOverloadedOrPaused>>)]
  /\ calls' = calls + 1
  /\ UNCHANGED <<writer, room, pages, chats, relays, torn>>
-----------------------------------------------------------------------------
(* A goroutine g with the sockets "left" of its first step: when there are *)
(* none it goes on to the next step, when there is none back to its loop.  *)
Left(g, left) ==
  IF left # {} THEN [g EXCEPT !.stage = "write", !.todo = left]
  ELSE [g EXCEPT !.stage = IF Len(g.plan) > 1 THEN "work" ELSE "idle",
                 !.plan = Tail(@), !.todo = {}]

\* The sockets of a step, among those that are open.  The slip returns early
\* in a room of one, as broadcastMapToRoomExcept does.
TargetsOfMany(step, open) ==
  IF step.locked THEN IF Cardinality(open) <= 1 THEN {} ELSE step.to \intersect open
                 ELSE step.to
Targets(step, open) == IF step.locked THEN step.to \intersect open ELSE step.to

Begun(g, open) == Left(g, Targets(Head(g.plan), open))

Readers == {t \in Threads : go[t].stage = "write" /\ Head(go[t].plan).locked}

Lock(t) ==
  /\ go[t].stage = "lock" /\ writer = None
  /\ writer' = t
  /\ UNCHANGED <<room, go, pages, counts, torn>>

\* Unlock by t, which has "steps" to write then; who waits for the read lock
\* is in.  The slip defers the Unlock to the end of the handler.
Planned(t, steps) == [go EXCEPT ![t] = Working(steps)]
DoneDeferring(t, steps) ==
  /\ writer' = IF steps = <<>> THEN None ELSE writer
  /\ go' = Planned(t, steps)
  /\ UNCHANGED <<pages, counts, torn>>
Done(t, steps) ==
  /\ writer' = None
  /\ go' = [u \in Threads |-> IF go[u].stage = "rlock" THEN Begun(go[u], conns')
                                                       ELSE Planned(t, steps)[u]]
  /\ UNCHANGED <<pages, counts, torn>>
-----------------------------------------------------------------------------
(* What is done under the write lock, and what it leaves to be written. *)
Register(p) ==
  /\ conns' = conns \union {p} /\ UNCHANGED <<sessions, history>>
  /\ Done(p, <<>>)

\* The welcome and the dump, in one frame here, are written after the Unlock;
\* then the states of the lecture are looked at and written to the newcomer.
Join(p) ==
  /\ sessions' = sessions \union {p} /\ UNCHANGED <<conns, history>>
  /\ Done(p, <<Own(p, Frame("dump", history)),
               Room(IF Lecture THEN {p} ELSE {}, Notice),
               Room(Peers \ {p}, Notice)>>)

\* A message within 300 ms of the last one of a peer with a session is
\* refused.  The slip echoes a message to its sender.
ChatOf(p) == Frame("chat", <<<<p, chats[p]>>>>)
ChatFlood(p) ==
  /\ p \in sessions /\ UNCHANGED room
  /\ Done(p, <<Own(p, Notice)>>)
ChatPassedEchoing(p) ==
  /\ history' = history \o ChatOf(p).chats /\ UNCHANGED <<conns, sessions>>
  /\ Done(p, <<Own(p, ChatOf(p)), Room(Peers, ChatOf(p))>>)
ChatPassed(p) ==
  /\ history' = history \o ChatOf(p).chats /\ UNCHANGED <<conns, sessions>>
  /\ Done(p, <<Room(Peers, ChatOf(p))>>)

Leave(p) ==
  /\ conns' = conns \ {p} /\ sessions' = sessions \ {p} /\ UNCHANGED history
  /\ Done(p, <<Room(Peers, Notice)>>)

Mark == UNCHANGED room /\ Done(Clerk, <<>>)

\* The writer is in when the readers it found are out.
Critical(t) ==
  /\ writer = t /\ Readers = {}
  /\ \/ go[t].task = "register" /\ Register(t)
     \/ go[t].task = "join" /\ Join(t)
     \/ go[t].task = "chat" /\ (ChatFlood(t) \/ ChatPassed(t))
     \/ go[t].task = "leave" /\ Leave(t)
     \/ go[t].task = "mark" /\ Mark
-----------------------------------------------------------------------------
(* What is written, step by step of the plan of a goroutine. *)
BeginStep(t) ==
  /\ go[t].stage = "work"
  /\ go' = [go EXCEPT ![t] = IF Head(@.plan).locked /\ writer # None
                             THEN [@ EXCEPT !.stage = "rlock"]
                             ELSE Begun(@, conns)]
  /\ UNCHANGED <<writer, room, pages, counts, torn>>

\* A page takes a frame; a write to a socket that is gone returns an error
\* nobody looks at.
Receive(q, frame) ==
  LET Taken(kind) == IF q \notin broken /\ frame.kind = kind THEN frame.chats ELSE <<>>
  IN  /\ live' = [live EXCEPT ![q] = @ \o Taken("chat")]
      /\ dumped' = [dumped EXCEPT ![q] = @ \o Taken("dump")]
      /\ UNCHANGED broken

Writing(t, q) == go[t].stage = "write" /\ q \in go[t].todo
FrameOf(t) == Head(go[t].plan).frame
AfterWrite(t, q) == Left(go[t], go[t].todo \ {q})

Write(t, q) ==
  /\ Writing(t, q)
  /\ Receive(q, FrameOf(t))
  /\ go' = [go EXCEPT ![t] = AfterWrite(t, q)]
  /\ UNCHANGED <<writer, room, counts, torn>>

\* Two goroutines write to q at a time: at most one frame arrives, and gorilla
\* may panic in either.  A panic ends what its goroutine has to write; RUnlock
\* and the clean-up of the handler are deferred.
Unwritten(t) ==
  UNION {(IF i = 1 THEN go[t].todo ELSE go[t].plan[i].to) \X ToSet(go[t].plan[i].frame.chats) :
           i \in DOMAIN go[t].plan}
Panicked(t) == IF t \in conns THEN Waiting("leave") ELSE Idle
Clash(t, u, q) ==
  /\ t # u /\ Writing(t, q) /\ Writing(u, q)
  /\ \E lost \in {{t}, {u}, {t, u}}, panics \in SUBSET {t, u} :
       /\ \/ lost = {t, u} /\ UNCHANGED pages
          \/ \E v \in {t, u} \ lost : Receive(q, FrameOf(v))
       /\ torn' = torn \union (UNION {Unwritten(v) : v \in panics})
            \union (UNION {{q} \X ToSet(FrameOf(v).chats) : v \in lost})
       /\ go' = [v \in Threads |-> IF v \in panics THEN Panicked(v)
                                   ELSE IF v \in {t, u} THEN AfterWrite(v, q) ELSE go[v]]
  /\ UNCHANGED <<writer, room, counts>>

Break(p) ==
  /\ p \in conns /\ p \notin broken
  /\ broken' = broken \union {p}
  /\ UNCHANGED <<writer, room, go, live, dumped, counts, torn>>
-----------------------------------------------------------------------------
Work(t) ==
  \/ Lock(t) \/ Critical(t) \/ BeginStep(t)
  \/ \E q \in Peers : Write(t, q) \/ \E u \in Threads : Clash(t, u, q)

BroadcastNext ==
  \/ \E t \in Threads : Work(t)
  \/ \E p \in Peers : \/ HandleWebSocket(p) \/ ReadJoin(p) \/ ReadChat(p) \/ ReadError(p)
                       \/ \E q \in Peers : ReadRelay(p, q)
                       \/ Break(p)
  \/ BroadcastControlMessage \/ HandleSdpMutator

BroadcastSpec == BroadcastInit /\ [][BroadcastNext]_broadcastVars

\* Goroutines run, and a browser takes what comes over its socket or the
\* socket breaks.
BroadcastFairness == \A t \in Threads : WF_broadcastVars(Work(t))
-----------------------------------------------------------------------------
\* Every message of the history has come to every connected page that has
\* joined, alone or in the dump, or is on its way: a goroutine has the page
\* still to do.  Only a clash of two writers takes one away.  (The locks of
\* "join" and of "chat": no message falls between the copy of the history and
\* the broadcasts after it.)
NobodyMissesAChat ==
  \A p \in sessions \ broken :
    LET got == ToSet(live[p]) \union ToSet(dumped[p])
        coming == (UNION {Unwritten(t) : t \in {u \in Threads : go[u].stage = "write"}})
          \union (UNION {UNION {step.to \X ToSet(step.frame.chats) : step \in ToSet(go[t].plan)} :
                           t \in {u \in Threads : go[u].stage # "write"}})
    IN  \A m \in ToSet(history) \ got : <<p, m>> \in coming \union torn

\* A page gets the messages of a sender in the order they were sent, each at
\* most once beside the dump (one handler per sender, which broadcasts before
\* it reads on).
ChatsInOrder ==
  \A p \in Peers :
    \A i, j \in DOMAIN live[p] :
      (i < j /\ live[p][i][1] = live[p][j][1]) => live[p][i][2] < live[p][j][2]

\* Every goroutine comes back to its socket or ends: nobody waits forever for
\* the lock, whoever writes to whom in between (RLock and Lock of the shard,
\* with writes to sockets under the first).
HandlersReturn ==
  \A t \in Threads : go[t].stage = "lock" ~> go[t].stage = "idle"
=============================================================================
