---------------------------- MODULE LectureLocks ----------------------------
(***************************************************************************)
(* The lecture mode of a room: the microphone lock, the pause and the      *)
(* speaker who is exempt from both, from the handler of a moderator        *)
(* (moderation_business.go) to the page of a guest (socket_service.js,     *)
(* pause_room.js, toggle_mic.js, screen_share.js).                         *)
(*                                                                         *)
(* A toggle flips the state under the lock of the shard and is broadcast   *)
(* after the unlock; a guest gets the state that holds when it joins.  The *)
(* camera has the same handlers as the microphone and is left out, and so  *)
(* is the eviction of the room (RoomShard).  Clicks on a disabled button   *)
(* do nothing.                                                             *)
(***************************************************************************)
EXTENDS Naturals, Sequences

CONSTANTS Guests, Moderators,
          Sharers,      \* guests that may share their screen
          Reloaders,    \* guests that may leave and come back
          StartMuted,   \* guests that come with mic=false
          NoOne,
          MaxCommands   \* bound on the frames of the moderators

ASSUME LectureAssumption ==
  /\ NoOne \notin Guests
  /\ Sharers \subseteq Guests /\ Reloaders \subseteq Guests
  /\ StartMuted \subseteq Guests
  /\ MaxCommands \in Nat

VARIABLES locked, paused,   \* RoomStates[1] and RoomStates[0]
          speaker,          \* CurrentSpeakerID
          sending,          \* the broadcast a moderator's handler owes
          seat,             \* of a guest: away, registered or joined
          inbox,            \* frames on their way to a guest's page
          page,
          commands,         \* number of frames handled
          spoke             \* history: guests that were the speaker

room == <<locked, paused, speaker>>
clients == <<seat, inbox, page>>
history == <<commands, spoke>>
vars == <<room, sending, clients, history>>

Nothing == [frame |-> "none", except |-> NoOne]
Frames == {"lock", "unlock", "paused", "resumed", "mute"}

\* captureLocalMedia comes before the socket.
FreshPage(g) == [muted |-> g \in StartMuted, mic |-> g \notin StartMuted,
                 heard |-> g \notin StartMuted,  \* the track the peers get
                 locked |-> FALSE, frozen |-> FALSE,
                 share |-> "no", swapped |-> FALSE]

\* track.enabled = on, of the tracks of localStream; after a screen share
\* these are no longer the ones the connections send.
Switched(p, on) == [p EXCEPT !.mic = on, !.heard = IF p.swapped THEN @ ELSE on]

Written(g, frames) == [inbox EXCEPT ![g] = @ \o frames]
-----------------------------------------------------------------------------
Init == /\ locked = FALSE /\ paused = FALSE /\ speaker = NoOne
        /\ sending = [m \in Moderators |-> Nothing]
        /\ seat = [g \in Guests |-> "away"]
        /\ inbox = [g \in Guests |-> <<>>]
        /\ page = [g \in Guests |-> FreshPage(g)]
        /\ commands = 0 /\ spoke = {}

\* The handler of m reads its next frame.
Reads(m) == /\ sending[m] = Nothing /\ commands < MaxCommands
            /\ commands' = commands + 1

Owes(m, frame, except) ==
  sending' = [sending EXCEPT ![m] = [frame |-> frame, except |-> except]]

GlobalMuteAudio(m) ==
  /\ Reads(m)
  /\ locked' = ~ locked
  /\ Owes(m, IF locked' THEN "lock" ELSE "unlock", speaker)
  /\ UNCHANGED <<paused, speaker, clients, spoke>>

SetPause(m) ==
  /\ Reads(m)
  /\ paused' = ~ paused
  /\ Owes(m, IF paused' THEN "paused" ELSE "resumed", speaker)
  /\ UNCHANGED <<locked, speaker, clients, spoke>>

ResumeConference(m) ==
  /\ Reads(m)
  /\ paused' = FALSE
  /\ Owes(m, "resumed", NoOne)
  /\ UNCHANGED <<locked, speaker, clients, spoke>>

\* The focus_speaker and reset_speaker frames only change labels.
SetSpeaker(m, g) ==
  /\ Reads(m)
  /\ speaker' = g /\ spoke' = spoke \cup {g}
  /\ UNCHANGED <<locked, paused, sending, clients>>

ResetSpeaker(m) ==
  /\ Reads(m)
  /\ speaker' = NoOne
  /\ UNCHANGED <<locked, paused, sending, clients, spoke>>

MuteAudio(m, g) ==
  /\ Reads(m) /\ seat[g] # "away"
  /\ inbox' = Written(g, <<"mute">>)
  /\ UNCHANGED <<room, sending, seat, page, spoke>>

\* The loops over shard.conns, under the read lock.  The slip writes to
\* connections that are gone.
BroadcastTo(m, targets) ==
  /\ sending[m] # Nothing
  /\ sending' = [sending EXCEPT ![m] = Nothing]
  /\ inbox' = [g \in Guests |->
                 IF g \in targets /\ g # sending[m].except
                 THEN Append(inbox[g], sending[m].frame) ELSE inbox[g]]
  /\ UNCHANGED <<room, seat, page, history>>

BroadcastToAll(m) == BroadcastTo(m, Guests)
Broadcast(m) == BroadcastTo(m, {g \in Guests : seat[g] # "away"})
-----------------------------------------------------------------------------
Connect(g) ==
  /\ seat[g] = "away"
  /\ seat' = [seat EXCEPT ![g] = "registered"]
  /\ UNCHANGED <<room, sending, inbox, page, history>>

\* The end of a join: the states as they are now.  The slip forgets the pause.
StatesFor(g) == (IF locked /\ g # speaker THEN <<"lock">> ELSE <<>>)
StatesOf(g) == (IF locked /\ g # speaker THEN <<"lock">> ELSE <<>>)
               \o (IF paused THEN <<"paused">> ELSE <<>>)

Join(g) ==
  /\ seat[g] = "registered"
  /\ seat' = [seat EXCEPT ![g] = "joined"]
  /\ inbox' = Written(g, StatesOf(g))
  /\ UNCHANGED <<room, sending, page, history>>

Leave(g) ==
  /\ g \in Reloaders /\ seat[g] # "away"
  /\ seat' = [seat EXCEPT ![g] = "away"]
  /\ inbox' = [inbox EXCEPT ![g] = <<>>]
  /\ page' = [page EXCEPT ![g] = FreshPage(g)]
  /\ UNCHANGED <<room, sending, history>>
-----------------------------------------------------------------------------
\* The page of g takes its next frame and becomes p.
Takes(g, frame, p) ==
  /\ inbox[g] # <<>> /\ Head(inbox[g]) = frame
  /\ inbox' = [inbox EXCEPT ![g] = Tail(@)]
  /\ page' = [page EXCEPT ![g] = p]
  /\ UNCHANGED <<room, sending, seat, history>>

OnLock(g) ==
  Takes(g, "lock", [Switched(page[g], FALSE) EXCEPT !.muted = TRUE, !.locked = TRUE])

OnUnlock(g) ==
  Takes(g, "unlock", [Switched(page[g], TRUE) EXCEPT !.muted = FALSE, !.locked = FALSE])

OnForceMute(g) ==
  Takes(g, "mute", [Switched(page[g], FALSE) EXCEPT !.muted = TRUE])

\* stopScreenShare: muted is read from the address of the page again, and
\* the devices are captured anew.
Unshared(g, p) ==
  IF p.share = "yes" THEN [p EXCEPT !.share = "capturing", !.muted = g \in StartMuted] ELSE p

OnPaused(g) ==
  Takes(g, "paused", [Switched(Unshared(g, page[g]), FALSE) EXCEPT !.frozen = TRUE])

\* The slip turns the microphone on whatever its user had chosen.
OnResumedLoud(g) ==
  Takes(g, "resumed", [Switched(page[g], TRUE) EXCEPT !.frozen = FALSE])

OnResumed(g) ==
  Takes(g, "resumed", [Switched(page[g], ~ page[g].muted) EXCEPT !.frozen = FALSE])

\* What the user does to the page.
Acts(g, p) ==
  /\ seat[g] # "away"
  /\ page' = [page EXCEPT ![g] = p]
  /\ UNCHANGED <<room, sending, seat, inbox, history>>

ToggleAudio(g) ==
  /\ ~ page[g].locked /\ ~ page[g].frozen
  /\ Acts(g, [Switched(page[g], page[g].muted) EXCEPT !.muted = ~ @])

\* A guest waits for its camera before it shares again.
ShareScreen(g) ==
  /\ g \in Sharers /\ page[g].share = "no" /\ ~ page[g].frozen
  /\ Acts(g, [page[g] EXCEPT !.share = "asking"])

\* getDisplayMedia answers.
Shared(g, answer) ==
  /\ page[g].share = "asking" /\ answer \in {"yes", "no"}
  /\ Acts(g, [page[g] EXCEPT !.share = answer])

StopShare(g) ==
  /\ page[g].share = "yes"
  /\ Acts(g, Unshared(g, page[g]))

\* getUserMedia answers: a new stream, of which only the camera is given to
\* the connections.
Captured(g) ==
  /\ page[g].share = "capturing"
  /\ Acts(g, [page[g] EXCEPT !.share = "no", !.swapped = TRUE, !.mic = ~ page[g].muted])
-----------------------------------------------------------------------------
Moderate(m) ==
  \/ GlobalMuteAudio(m) \/ SetPause(m) \/ ResumeConference(m)
  \/ \E g \in Guests : SetSpeaker(m, g) \/ MuteAudio(m, g)
  \/ ResetSpeaker(m) \/ Broadcast(m)

Attend(g) == Connect(g) \/ Join(g) \/ Leave(g)

Browse(g) ==
  \/ OnLock(g) \/ OnUnlock(g) \/ OnForceMute(g) \/ OnPaused(g) \/ OnResumed(g)
  \/ ToggleAudio(g) \/ ShareScreen(g) \/ StopShare(g) \/ Captured(g)
  \/ \E answer \in {"yes", "no"} : Shared(g, answer)

Next == (\E m \in Moderators : Moderate(m)) \/ (\E g \in Guests : Attend(g) \/ Browse(g))

Spec == Init /\ [][Next]_vars
-----------------------------------------------------------------------------
Pages == [muted : BOOLEAN, mic : BOOLEAN, heard : BOOLEAN, locked : BOOLEAN,
          frozen : BOOLEAN, share : {"no", "asking", "yes", "capturing"}, swapped : BOOLEAN]

TypeOK ==
  /\ locked \in BOOLEAN /\ paused \in BOOLEAN
  /\ speaker \in spoke \cup {NoOne} /\ spoke \subseteq Guests
  /\ sending \in [Moderators -> [frame : Frames \cup {"none"}, except : Guests \cup {NoOne}]]
  /\ seat \in [Guests -> {"away", "registered", "joined"}]
  /\ inbox \in [Guests -> Seq(Frames)]
  /\ page \in [Guests -> Pages]
  /\ commands \in 0 .. MaxCommands
  /\ \A g \in Guests : seat[g] = "away" => inbox[g] = <<>> /\ page[g] = FreshPage(g)

\* Nothing is on its way to g.
Settled(g) ==
  /\ seat[g] = "joined" /\ inbox[g] = <<>>
  /\ \A m \in Moderators : sending[m] = Nothing

(***************************************************************************)
(* "Mute States Preservation" (signaling-gateway-spec.md:44): whenever a   *)
(* guest joins, before, during or after a toggle or its broadcast, once    *)
(* the frames have come in its page is locked if and only if the room is,  *)
(* and frozen if and only if the room is paused.  Guests that were made    *)
(* speaker are left out: they miss toggles and nothing makes up for it.    *)
(***************************************************************************)
ControlsAgree ==
  \A g \in Guests \ spoke :
    Settled(g) => page[g].locked = locked /\ page[g].frozen = paused

(***************************************************************************)
(* A locked microphone is off, and a muted one is not heard, whatever      *)
(* locks, pauses, mutes and clicks came before; until a screen share of    *)
(* the guest has ended.                                                    *)
(***************************************************************************)
MutedIsSilent ==
  \A g \in Guests :
    page[g].share # "capturing" /\ ~ page[g].swapped
      => /\ page[g].locked => page[g].muted
         /\ page[g].muted => ~ page[g].mic /\ ~ page[g].heard
=============================================================================
