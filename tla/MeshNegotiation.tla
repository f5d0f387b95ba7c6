-------------------------- MODULE MeshNegotiation --------------------------
(***************************************************************************)
(* How the browsers in a room find each other and negotiate their direct   *)
(* connections: the "join" handshake and the relay of the gateway          *)
(* (moderation_business.go) with the frame handlers of the client          *)
(* (socket_service.js, create_peer.js, webrtc_signaling.js).               *)
(*                                                                         *)
(* The moderator is in the room and every connection has passed the        *)
(* waiting loop (RoomShard models it), so a peer is its connection; a page *)
(* is opened once.  A websocket is a sequence of frames each way.  The     *)
(* gateway lets go of shard.mu before it writes, and the client goes on    *)
(* reading frames while it awaits an offer or an answer: both are separate *)
(* actions here.  ICE candidates, tracks and tiles are left out.           *)
(***************************************************************************)
EXTENDS Sequences, FiniteSets, Functions

CONSTANTS Peers,
          MayLeave,  \* the peers that may close their page
          InTurn     \* the peers that come only when all joins so far are announced

ASSUME MeshAssumption ==
  IsFiniteSet(Peers) /\ MayLeave \subseteq Peers /\ InTurn \subseteq Peers

VARIABLES conns,     \* shard.conns[room]: the registered peers
          handler,   \* where the handler of a peer is
          roster,    \* currentParticipants, between the lock and the welcome
          page,      \* the page of a peer: "shut", "open", "gone"
          up, down,  \* frames from and to the page of a peer
          todo,      \* participants of the welcome still to be called
          pcs,       \* peerConnections: page -> peer -> state of the negotiation
          overlaps   \* history: <<p, q>> when p came before the join of q was over

gateway == <<conns, handler, roster>>
client == <<page, todo, pcs>>
vars == <<gateway, client, up, down, overlaps>>

\* "calling" and "answering" await createOffer and createAnswer; "offering"
\* has its offer out; "offerer" and "answerer" have both descriptions set.
States == {"none", "idle", "calling", "offering", "answering", "offerer", "answerer"}
Negotiated == {"offerer", "answerer"}

Frame(type, peer) == [type |-> type, peer |-> peer, list |-> {}]
Join(p) == Frame("join", p)
Welcome(p, list) == [type |-> "welcome", peer |-> p, list |-> list]

\* Frames are written to the registered peers ps; a page that is gone reads
\* nothing any more.
Written(ps, frame) ==
  [p \in Peers |-> IF p \in ps /\ page[p] = "open" THEN Append(down[p], frame) ELSE down[p]]
-----------------------------------------------------------------------------
Init == /\ conns = {}
        /\ handler = [p \in Peers |-> "none"]
        /\ roster = [p \in Peers |-> {}]
        /\ page = [p \in Peers |-> "shut"]
        /\ up = [p \in Peers |-> <<>>] /\ down = [p \in Peers |-> <<>>]
        /\ todo = [p \in Peers |-> {}]
        /\ pcs = [p \in Peers |-> [q \in Peers |-> "none"]]
        /\ overlaps = {}

\* The join of q is on its way, or not announced yet.
Joining(q) == handler[q] \in {"welcoming", "announcing"} \/ Join(q) \in Range(up[q])

\* The page opens its websocket and sends "join"; the gateway registers it.
Connect(p) ==
  /\ page[p] = "shut"
  /\ p \in InTurn => \A q \in conns : ~ Joining(q)
  /\ overlaps' = overlaps \cup {<<p, q>> : q \in {q \in conns : Joining(q)}}
  /\ page' = [page EXCEPT ![p] = "open"]
  /\ conns' = conns \cup {p}
  /\ handler' = [handler EXCEPT ![p] = "reading"]
  /\ up' = [up EXCEPT ![p] = <<Join(p)>>]
  /\ UNCHANGED <<roster, todo, pcs, down>>

(***************************************************************************)
(* The handler of a connection in the gateway                              *)
(***************************************************************************)
NextFrame(p) == Head(up[p])
Consumed(p) == up' = [up EXCEPT ![p] = Tail(@)]

\* The locked section of "join" lists who else is registered.  Slips: it lists
\* only those whose join is under way, or the peer itself too.
ListedJoining(p) == {q \in conns \ {p} : handler[q] # "reading"}
ListedWithSelf(p) == conns
Listed(p) == conns \ {p}

HandleJoin(p) ==
  /\ handler[p] = "reading" /\ up[p] # <<>> /\ NextFrame(p).type = "join"
  /\ Consumed(p)
  /\ roster' = [roster EXCEPT ![p] = Listed(p)]
  /\ handler' = [handler EXCEPT ![p] = "welcoming"]
  /\ UNCHANGED <<conns, client, down, overlaps>>

\* ... and after the unlock the welcome, ...
WriteWelcome(p) ==
  /\ handler[p] = "welcoming"
  /\ down' = Written({p}, Welcome(p, roster[p]))
  /\ roster' = [roster EXCEPT ![p] = {}]
  /\ handler' = [handler EXCEPT ![p] = "announcing"]
  /\ UNCHANGED <<conns, client, up, overlaps>>

\* ... and the news for everybody else.
AnnounceJoin(p) ==
  /\ handler[p] = "announcing"
  /\ down' = Written(conns \ {p}, Frame("peer-joined", p))
  /\ handler' = [handler EXCEPT ![p] = "reading"]
  /\ UNCHANGED <<conns, roster, client, up, overlaps>>

\* An offer or an answer goes to its target, if that is registered.  The slips
\* send it to the room, or wait for the target.
RelayWhenThere(p) ==
  /\ handler[p] = "reading" /\ up[p] # <<>>
  /\ NextFrame(p).type \in {"offer", "answer"} /\ NextFrame(p).peer \in conns
  /\ Consumed(p)
  /\ down' = Written({NextFrame(p).peer}, Frame(NextFrame(p).type, p))
  /\ UNCHANGED <<gateway, client, overlaps>>

RelayToRoom(p) ==
  /\ handler[p] = "reading" /\ up[p] # <<>>
  /\ NextFrame(p).type \in {"offer", "answer"}
  /\ Consumed(p)
  /\ down' = Written(conns \ {p}, Frame(NextFrame(p).type, p))
  /\ UNCHANGED <<gateway, client, overlaps>>

Relay(p) ==
  /\ handler[p] = "reading" /\ up[p] # <<>>
  /\ NextFrame(p).type \in {"offer", "answer"}
  /\ Consumed(p)
  /\ down' = Written({NextFrame(p).peer} \cap conns, Frame(NextFrame(p).type, p))
  /\ UNCHANGED <<gateway, client, overlaps>>

\* The read error: frames of the page that were not read yet are lost.
Cleanup(p) ==
  /\ handler[p] = "reading" /\ page[p] = "gone"
  /\ conns' = conns \ {p}
  /\ up' = [up EXCEPT ![p] = <<>>]
  /\ handler' = [handler EXCEPT ![p] = "leaving"]
  /\ UNCHANGED <<roster, client, down, overlaps>>

AnnounceLeft(p) ==
  /\ handler[p] = "leaving"
  /\ down' = Written(conns, Frame("peer-left", p))
  /\ handler' = [handler EXCEPT ![p] = "done"]
  /\ UNCHANGED <<conns, roster, client, up, overlaps>>

(***************************************************************************)
(* The client                                                              *)
(***************************************************************************)
\* The page takes the next frame of this type from its socket.
Takes(p, type) ==
  /\ page[p] = "open" /\ down[p] # <<>> /\ Head(down[p]).type = type
  /\ down' = [down EXCEPT ![p] = Tail(@)]

Sends(p, type, q) == up' = [up EXCEPT ![p] = Append(@, Frame(type, q))]
Becomes(p, q, state) == pcs' = [pcs EXCEPT ![p][q] = state]
Sender(p) == Head(down[p]).peer

\* "welcome": the participants are called one after the other.
OnWelcome(p) ==
  /\ Takes(p, "welcome")
  /\ todo' = [todo EXCEPT ![p] = Head(down[p]).list]
  /\ UNCHANGED <<gateway, page, pcs, up, overlaps>>

\* createPeerConnection(q, q, true), up to the await of createOffer; a peer
\* that is already known is left alone.
StartCall(p, q) ==
  /\ page[p] = "open" /\ q \in todo[p]
  /\ \A other \in Peers : pcs[p][other] # "calling"
  /\ todo' = [todo EXCEPT ![p] = @ \ {q}]
  /\ Becomes(p, q, IF pcs[p][q] = "none" THEN "calling" ELSE pcs[p][q])
  /\ UNCHANGED <<gateway, page, up, down, overlaps>>

\* ... and from there on.  When an offer of q came first, setLocalDescription
\* fails and no offer is sent.
FinishCall(p, q) ==
  /\ page[p] = "open" /\ pcs[p][q] = "calling"
  /\ Becomes(p, q, "offering")
  /\ Sends(p, "offer", q)
  /\ UNCHANGED <<gateway, page, todo, down, overlaps>>

\* "peer-joined": a connection that waits for the offer of the newcomer
OnPeerJoined(p) ==
  /\ Takes(p, "peer-joined")
  /\ Becomes(p, Sender(p), IF pcs[p][Sender(p)] = "none" THEN "idle" ELSE pcs[p][Sender(p)])
  /\ UNCHANGED <<gateway, page, todo, up, overlaps>>

\* "peer-left": removePeerVideo closes and forgets the connection.  The slip
\* forgets only connections that are not negotiated.
OnPeerLeftKeepsTile(p) ==
  /\ Takes(p, "peer-left")
  /\ Becomes(p, Sender(p), IF pcs[p][Sender(p)] \in Negotiated THEN pcs[p][Sender(p)] ELSE "none")
  /\ UNCHANGED <<gateway, page, todo, up, overlaps>>

OnPeerLeft(p) ==
  /\ Takes(p, "peer-left")
  /\ Becomes(p, Sender(p), "none")
  /\ UNCHANGED <<gateway, page, todo, up, overlaps>>

\* "offer": setRemoteDescription takes it in every state; an offer of our own
\* that is out is rolled back.  The slip takes it only from an idle connection.
OnOfferIdle(p) ==
  /\ Takes(p, "offer")
  /\ Becomes(p, Sender(p), IF pcs[p][Sender(p)] \in {"none", "idle"}
                           THEN "answering" ELSE pcs[p][Sender(p)])
  /\ UNCHANGED <<gateway, page, todo, up, overlaps>>

OnOffer(p) ==
  /\ Takes(p, "offer")
  /\ Becomes(p, Sender(p), "answering")
  /\ UNCHANGED <<gateway, page, todo, up, overlaps>>

FinishAnswer(p, q) ==
  /\ page[p] = "open" /\ pcs[p][q] = "answering"
  /\ Becomes(p, q, "answerer")
  /\ Sends(p, "answer", q)
  /\ UNCHANGED <<gateway, page, todo, down, overlaps>>

\* "answer": setRemoteDescription fails unless our offer is out.
OnAnswer(p) ==
  /\ Takes(p, "answer")
  /\ Becomes(p, Sender(p), IF pcs[p][Sender(p)] = "offering"
                           THEN "offerer" ELSE pcs[p][Sender(p)])
  /\ UNCHANGED <<gateway, page, todo, up, overlaps>>

\* The page is closed; nothing of it is left.
Leave(p) ==
  /\ page[p] = "open" /\ p \in MayLeave
  /\ page' = [page EXCEPT ![p] = "gone"]
  /\ todo' = [todo EXCEPT ![p] = {}]
  /\ pcs' = [pcs EXCEPT ![p] = [q \in Peers |-> "none"]]
  /\ down' = [down EXCEPT ![p] = <<>>]
  /\ UNCHANGED <<gateway, up, overlaps>>
-----------------------------------------------------------------------------
Handle(p) == \/ HandleJoin(p) \/ WriteWelcome(p) \/ AnnounceJoin(p)
             \/ Relay(p) \/ Cleanup(p) \/ AnnounceLeft(p)

Browse(p) == \/ OnWelcome(p) \/ OnPeerJoined(p) \/ OnPeerLeft(p) \/ OnOffer(p) \/ OnAnswer(p)
             \/ \E q \in Peers : StartCall(p, q) \/ FinishCall(p, q) \/ FinishAnswer(p, q)

Next == \E p \in Peers : Connect(p) \/ Handle(p) \/ Browse(p) \/ Leave(p)

Spec == Init /\ [][Next]_vars

\* Handlers and event loops go on; nobody has to connect or to leave.
FairSpec == Spec /\ \A p \in Peers : WF_vars(Handle(p)) /\ WF_vars(Browse(p))
-----------------------------------------------------------------------------
TypeOK ==
  /\ conns \subseteq Peers
  /\ handler \in [Peers -> {"none", "reading", "welcoming", "announcing", "leaving", "done"}]
  /\ roster \in [Peers -> SUBSET Peers]
  /\ page \in [Peers -> {"shut", "open", "gone"}]
  /\ todo \in [Peers -> SUBSET Peers]
  /\ pcs \in [Peers -> [Peers -> States]]
  /\ overlaps \subseteq Peers \X Peers
  /\ \A p \in Peers : /\ p \in conns <=> handler[p] \in {"reading", "welcoming", "announcing"}
                      /\ pcs[p][p] = "none"
                      /\ page[p] # "open" => down[p] = <<>>

\* Every frame that was sent has been handled and nobody awaits anything.
Quiet ==
  \A p \in Peers : /\ up[p] = <<>> /\ down[p] = <<>> /\ todo[p] = {}
                   /\ handler[p] \in {"none", "reading", "done"}
                   /\ page[p] = "gone" => handler[p] = "done"
                   /\ \A q \in Peers : pcs[p][q] \notin {"calling", "answering"}

Connected(p, q) == {pcs[p][q], pcs[q][p]} = Negotiated
BothStay(p, q) == p # q /\ page[p] = "open" /\ page[q] = "open"

(***************************************************************************)
(* How the negotiation of two peers that stay can end, in whatever order   *)
(* their frames crossed: one is the offerer and the other the answerer, or *)
(* both have answered an offer that the other one rolled back, or both     *)
(* wait for an offer: one registered between the snapshot and the          *)
(* announcement of the other's join, so that the peer-joined overtook the  *)
(* welcome, and the connection it made lets createPeerConnection return at *)
(* once.  Nobody is left with an offer out, and nobody thinks itself       *)
(* connected to a peer that still waits.                                   *)
(***************************************************************************)
Outcomes == {<<"offerer", "answerer">>, <<"answerer", "offerer">>,
             <<"answerer", "answerer">>, <<"idle", "idle">>}

PairsSettle ==
  Quiet => \A p, q \in Peers :
             BothStay(p, q) => <<pcs[p][q], pcs[q][p]>> \in Outcomes

(***************************************************************************)
(* An offerer has the answer of its own offer: its peer, unless it is gone *)
(* meanwhile, is the answerer, at every moment and not only at rest.       *)
(***************************************************************************)
RolesAgree ==
  \A p, q \in Peers :
    pcs[p][q] = "offerer" /\ page[q] = "open" => pcs[q][p] = "answerer"

(***************************************************************************)
(* Peers that come one after the other meet: at rest, of two peers in the  *)
(* room whose joins did not overlap one has offered and the other answered,*)
(* whatever third peers did meanwhile.                                     *)
(***************************************************************************)
TurnsConnect ==
  Quiet => \A p, q \in Peers :
             BothStay(p, q) /\ {<<p, q>>, <<q, p>>} \cap overlaps = {} => Connected(p, q)

(***************************************************************************)
(* Nobody who has left stays on the screen: a connection to a peer that is *)
(* gone is not a negotiated one, which has a tile (create_peer.js:40-80).  *)
(* An offer to it may stay out for ever, when its peer-left overtook the   *)
(* welcome that lists it.                                                  *)
(***************************************************************************)
NoFrozenTiles ==
  Quiet => \A p, q \in Peers :
             page[p] = "open" /\ page[q] = "gone" => pcs[p][q] \in {"none", "offering"}

(***************************************************************************)
(* The negotiations come to an end: no frame, call or answer hangs for     *)
(* ever, also when peers leave in the middle of it.                        *)
(***************************************************************************)
NegotiationsEnd == <>[]Quiet
=============================================================================
