------------------------- MODULE LectureLocksProofs -------------------------
(***************************************************************************)
(* Theorems about the lecture mode, for any guests, however often they     *)
(* come and go: a muted microphone is not heard, and with one moderator    *)
(* every page ends up locked and frozen as the room is.                    *)
(***************************************************************************)
EXTENDS LectureLocks, SequenceTheorems, TLAPS

LockFrames == {"lock", "unlock"}
PauseFrames == {"paused", "resumed"}
LockFrame(on) == IF on THEN "lock" ELSE "unlock"
PauseFrame(on) == IF on THEN "paused" ELSE "resumed"

\* Of the frames of K the last in q is goal; or there is none, and a page that
\* shows view shows the goal.
Leads(q, K, view, goal) ==
  \/ /\ \A i \in DOMAIN q : q[i] \notin K
     /\ view = goal
  \/ \E i \in DOMAIN q : q[i] = goal /\ \A j \in DOMAIN q : j > i => q[j] \notin K

\* Once the frames in q have come a guest that has joined sees the goal; one
\* that is only registered sees that or the state that needs no frame.
Follows(q, at, K, off, view, goal) ==
  /\ at = "joined" => Leads(q, K, view, goal)
  /\ at = "registered" => Leads(q, K, view, goal) \/ Leads(q, K, view, off)

\* What is owed is the state that holds; when nothing is owed every guest that
\* was never the speaker follows.
LocksArrive ==
  /\ \A m \in Moderators : sending[m].frame \in LockFrames => sending[m].frame = LockFrame(locked)
  /\ (\A m \in Moderators : sending[m].frame \notin LockFrames) =>
       \A g \in Guests \ spoke :
         Follows(inbox[g], seat[g], LockFrames, "unlock", LockFrame(page[g].locked), LockFrame(locked))
PausesArrive ==
  /\ \A m \in Moderators : sending[m].frame \in PauseFrames => sending[m].frame = PauseFrame(paused)
  /\ (\A m \in Moderators : sending[m].frame \notin PauseFrames) =>
       \A g \in Guests \ spoke :
         Follows(inbox[g], seat[g], PauseFrames, "resumed", PauseFrame(page[g].frozen), PauseFrame(paused))

\* What is owed is a frame, and the speaker it is not sent to is in the history.
FramesOwed ==
  \A m \in Moderators : /\ sending[m] # Nothing => sending[m].frame \in Frames
                        /\ sending[m].except \in spoke \cup {NoOne}

PagesInv == TypeOK /\ FramesOwed /\ MutedIsSilent
LectureInv == PagesInv /\ LocksArrive /\ PausesArrive
-----------------------------------------------------------------------------
(***************************************************************************)
(* Inboxes.                                                                *)
(***************************************************************************)
LEMMA AppendOther ==
  ASSUME NEW q \in Seq(Frames), NEW f \in Frames, NEW K, f \notin K, NEW view, NEW goal,
         Leads(q, K, view, goal)
  PROVE  Leads(Append(q, f), K, view, goal)
<1>1. /\ DOMAIN q = 1 .. Len(q) /\ Len(q) \in Nat
      /\ DOMAIN Append(q, f) = 1 .. Len(q) + 1
      /\ \A i \in 1 .. Len(q) : Append(q, f)[i] = q[i]
      /\ Append(q, f)[Len(q) + 1] = f
  BY AppendProperties, LenProperties
<1>2. \A j \in DOMAIN Append(q, f) :
        (j \in DOMAIN q /\ Append(q, f)[j] = q[j]) \/ Append(q, f)[j] \notin K
  BY <1>1
<1>3. CASE /\ \A i \in DOMAIN q : q[i] \notin K
           /\ view = goal
  BY <1>2, <1>3 DEF Leads
<1>4. ASSUME NEW i \in DOMAIN q, q[i] = goal, \A j \in DOMAIN q : j > i => q[j] \notin K
      PROVE  Leads(Append(q, f), K, view, goal)
  <2>1. i \in DOMAIN Append(q, f) /\ Append(q, f)[i] = goal
    BY <1>1, <1>4
  <2>2. \A j \in DOMAIN Append(q, f) : j > i => Append(q, f)[j] \notin K
    BY <1>2, <1>4
  <2> QED
    BY <2>1, <2>2 DEF Leads
<1> QED
  BY <1>3, <1>4 DEF Leads

LEMMA AppendGoal ==
  ASSUME NEW q \in Seq(Frames), NEW goal \in Frames, NEW K, NEW view
  PROVE  Leads(Append(q, goal), K, view, goal)
<1>1. /\ Len(q) \in Nat /\ DOMAIN Append(q, goal) = 1 .. Len(q) + 1
      /\ Append(q, goal)[Len(q) + 1] = goal
  BY AppendProperties, LenProperties
<1>2. /\ Len(q) + 1 \in DOMAIN Append(q, goal)
      /\ \A j \in DOMAIN Append(q, goal) : ~ (j > Len(q) + 1)
  BY <1>1
<1> QED
  BY <1>1, <1>2 DEF Leads

LEMMA TakeOther ==
  ASSUME NEW q \in Seq(Frames), q # <<>>, NEW K, Head(q) \notin K, NEW view, NEW goal,
         goal \in K, Leads(q, K, view, goal)
  PROVE  Leads(Tail(q), K, view, goal)
<1>1. /\ Len(q) \in Nat /\ Len(q) >= 1 /\ DOMAIN q = 1 .. Len(q) /\ DOMAIN Tail(q) = 1 .. Len(q) - 1
      /\ \A i \in 1 .. Len(q) - 1 : Tail(q)[i] = q[i + 1]
      /\ q[1] = Head(q)
  BY HeadTailProperties, LenProperties
<1>2. \A i \in DOMAIN Tail(q) : i + 1 \in DOMAIN q /\ Tail(q)[i] = q[i + 1]
  BY <1>1
<1>3. CASE /\ \A i \in DOMAIN q : q[i] \notin K
           /\ view = goal
  BY <1>2, <1>3 DEF Leads
<1>4. ASSUME NEW i \in DOMAIN q, q[i] = goal, \A j \in DOMAIN q : j > i => q[j] \notin K
      PROVE  Leads(Tail(q), K, view, goal)
  <2>1. i # 1
    BY <1>1, <1>4
  <2>2. i - 1 \in DOMAIN Tail(q) /\ Tail(q)[i - 1] = goal
    BY <1>1, <1>4, <2>1
  <2>3. \A j \in DOMAIN Tail(q) : j > i - 1 => Tail(q)[j] \notin K
    BY <1>1, <1>2, <1>4
  <2> QED
    BY <2>2, <2>3 DEF Leads
<1> QED
  BY <1>3, <1>4 DEF Leads

\* When the page takes a frame of K it shows that.
LEMMA TakeOne ==
  ASSUME NEW q \in Seq(Frames), q # <<>>, NEW K, Head(q) \in K, NEW view, NEW goal,
         Leads(q, K, view, goal)
  PROVE  Leads(Tail(q), K, Head(q), goal)
<1>1. /\ Len(q) \in Nat /\ Len(q) >= 1 /\ DOMAIN q = 1 .. Len(q) /\ DOMAIN Tail(q) = 1 .. Len(q) - 1
      /\ \A i \in 1 .. Len(q) - 1 : Tail(q)[i] = q[i + 1]
      /\ q[1] = Head(q)
  BY HeadTailProperties, LenProperties
<1>2. \A i \in DOMAIN Tail(q) : i + 1 \in DOMAIN q /\ Tail(q)[i] = q[i + 1]
  BY <1>1
<1>3. PICK i \in DOMAIN q : q[i] = goal /\ \A j \in DOMAIN q : j > i => q[j] \notin K
  <2>1. 1 \in DOMAIN q /\ q[1] \in K
    BY <1>1
  <2> QED
    BY <2>1 DEF Leads
<1>4. CASE i = 1
  <2>1. \A j \in DOMAIN Tail(q) : Tail(q)[j] \notin K
    BY <1>1, <1>2, <1>3, <1>4
  <2> QED
    BY <1>1, <1>3, <1>4, <2>1 DEF Leads
<1>5. CASE i # 1
  <2>1. i - 1 \in DOMAIN Tail(q) /\ Tail(q)[i - 1] = goal
    BY <1>1, <1>3, <1>5
  <2>2. \A j \in DOMAIN Tail(q) : j > i - 1 => Tail(q)[j] \notin K
    BY <1>1, <1>2, <1>3
  <2> QED
    BY <2>1, <2>2 DEF Leads
<1> QED
  BY <1>4, <1>5

LEMMA NothingLeft ==
  ASSUME NEW K, NEW view, NEW goal
  PROVE  Leads(<<>>, K, view, goal) <=> view = goal
BY DEF Leads

LEMMA KindsOfFrames ==
  /\ LockFrames \subseteq Frames /\ PauseFrames \subseteq Frames
  /\ "none" \notin LockFrames /\ "none" \notin PauseFrames
  /\ LockFrames \cap PauseFrames = {}
  /\ "mute" \in Frames \ (LockFrames \cup PauseFrames)
  /\ \A on \in BOOLEAN : LockFrame(on) \in LockFrames /\ PauseFrame(on) \in PauseFrames
  /\ \A on, up \in BOOLEAN : /\ LockFrame(on) = LockFrame(up) => on = up
                             /\ PauseFrame(on) = PauseFrame(up) => on = up
BY DEF Frames, LockFrames, PauseFrames, LockFrame, PauseFrame
-----------------------------------------------------------------------------
(***************************************************************************)
(* Pages.                                                                  *)
(***************************************************************************)
Silent(p) ==
  p.share # "capturing" /\ ~ p.swapped
    => /\ p.locked => p.muted
       /\ p.muted => ~ p.mic /\ ~ p.heard

\* q shows of the states of the room what p shows.
SameView(p, q) == q.locked = p.locked /\ q.frozen = p.frozen

LEMMA FreshPages ==
  ASSUME NEW g \in Guests
  PROVE  /\ FreshPage(g) \in Pages /\ Silent(FreshPage(g))
         /\ FreshPage(g).locked = FALSE /\ FreshPage(g).frozen = FALSE
<1>1. \A b \in BOOLEAN :
        LET q == [muted |-> b, mic |-> ~ b, heard |-> ~ b, locked |-> FALSE,
                  frozen |-> FALSE, share |-> "no", swapped |-> FALSE]
        IN  q \in Pages /\ Silent(q) /\ q.locked = FALSE /\ q.frozen = FALSE
  BY DEF Pages, Silent
<1>2. (g \in StartMuted) \in BOOLEAN
  OBVIOUS
<1> QED
  BY <1>1, <1>2, Zenon DEF FreshPage

LEMMA SwitchedPages ==
  ASSUME NEW p \in Pages, NEW on \in BOOLEAN
  PROVE  /\ Switched(p, on) \in Pages /\ SameView(p, Switched(p, on))
         /\ Switched(p, on).mic = on /\ (~ p.swapped => Switched(p, on).heard = on)
         /\ Switched(p, on).share = p.share /\ Switched(p, on).swapped = p.swapped
         /\ Switched(p, on).muted = p.muted
BY DEF Switched, Pages, SameView

LEMMA LockedPages ==
  ASSUME NEW p \in Pages
  PROVE  LET q == [Switched(p, FALSE) EXCEPT !.muted = TRUE, !.locked = TRUE]
         IN  q \in Pages /\ Silent(q) /\ q.locked = TRUE /\ q.frozen = p.frozen
<1> DEFINE s == Switched(p, FALSE)
<1>1. s \in Pages /\ SameView(p, s) /\ s.mic = FALSE /\ (~ s.swapped => s.heard = FALSE)
  BY SwitchedPages
<1> HIDE DEF s
<1>2. LET q == [s EXCEPT !.muted = TRUE, !.locked = TRUE]
      IN  q \in Pages /\ Silent(q) /\ q.locked = TRUE /\ q.frozen = p.frozen
  BY <1>1 DEF Pages, Silent, SameView
<1> QED
  BY <1>2 DEF s

LEMMA UnlockedPages ==
  ASSUME NEW p \in Pages
  PROVE  LET q == [Switched(p, TRUE) EXCEPT !.muted = FALSE, !.locked = FALSE]
         IN  q \in Pages /\ Silent(q) /\ q.locked = FALSE /\ q.frozen = p.frozen
<1> DEFINE s == Switched(p, TRUE)
<1>1. s \in Pages /\ SameView(p, s)
  BY SwitchedPages
<1> HIDE DEF s
<1>2. LET q == [s EXCEPT !.muted = FALSE, !.locked = FALSE]
      IN  q \in Pages /\ Silent(q) /\ q.locked = FALSE /\ q.frozen = p.frozen
  BY <1>1 DEF Pages, Silent, SameView
<1> QED
  BY <1>2 DEF s

LEMMA MutedPages ==
  ASSUME NEW p \in Pages
  PROVE  LET q == [Switched(p, FALSE) EXCEPT !.muted = TRUE]
         IN  q \in Pages /\ Silent(q) /\ SameView(p, q)
<1> DEFINE s == Switched(p, FALSE)
<1>1. s \in Pages /\ SameView(p, s) /\ s.mic = FALSE /\ (~ s.swapped => s.heard = FALSE)
  BY SwitchedPages
<1> HIDE DEF s
<1>2. LET q == [s EXCEPT !.muted = TRUE]
      IN  q \in Pages /\ Silent(q) /\ SameView(p, q)
  BY <1>1 DEF Pages, Silent, SameView
<1> QED
  BY <1>2 DEF s

LEMMA UnsharedPages ==
  ASSUME NEW g \in Guests, NEW p \in Pages, Silent(p)
  PROVE  /\ Unshared(g, p) \in Pages /\ Silent(Unshared(g, p)) /\ SameView(p, Unshared(g, p))
<1> DEFINE cleared == [p EXCEPT !.share = "capturing", !.muted = g \in StartMuted]
<1>1. (g \in StartMuted) \in BOOLEAN
  OBVIOUS
<1>2. cleared \in Pages /\ cleared.share = "capturing" /\ SameView(p, cleared)
  BY <1>1 DEF Pages, SameView
<1> QED
  BY <1>2 DEF Unshared, Silent, SameView

LEMMA PausedPages ==
  ASSUME NEW p \in Pages, Silent(p)
  PROVE  LET q == [Switched(p, FALSE) EXCEPT !.frozen = TRUE]
         IN  q \in Pages /\ Silent(q) /\ q.locked = p.locked /\ q.frozen = TRUE
<1> DEFINE s == Switched(p, FALSE)
<1>1. /\ s \in Pages /\ SameView(p, s) /\ s.mic = FALSE /\ (~ s.swapped => s.heard = FALSE)
      /\ s.share = p.share /\ s.swapped = p.swapped /\ s.muted = p.muted
  BY SwitchedPages
<1> HIDE DEF s
<1>2. LET q == [s EXCEPT !.frozen = TRUE]
      IN  q \in Pages /\ Silent(q) /\ q.locked = p.locked /\ q.frozen = TRUE
  BY <1>1 DEF Pages, Silent, SameView
<1> QED
  BY <1>2 DEF s

LEMMA ResumedPages ==
  ASSUME NEW p \in Pages, Silent(p)
  PROVE  LET q == [Switched(p, ~ p.muted) EXCEPT !.frozen = FALSE]
         IN  q \in Pages /\ Silent(q) /\ q.locked = p.locked /\ q.frozen = FALSE
<1> DEFINE s == Switched(p, ~ p.muted)
<1>1. /\ s \in Pages /\ SameView(p, s) /\ s.mic = ~ p.muted /\ (~ s.swapped => s.heard = ~ p.muted)
      /\ s.share = p.share /\ s.swapped = p.swapped /\ s.muted = p.muted
  BY DEF Switched, Pages, SameView
<1> HIDE DEF s
<1>2. LET q == [s EXCEPT !.frozen = FALSE]
      IN  q \in Pages /\ Silent(q) /\ q.locked = p.locked /\ q.frozen = FALSE
  BY <1>1 DEF Pages, Silent, SameView
<1> QED
  BY <1>2 DEF s

LEMMA ToggledPages ==
  ASSUME NEW p \in Pages, ~ p.locked
  PROVE  LET q == [Switched(p, p.muted) EXCEPT !.muted = ~ @]
         IN  q \in Pages /\ Silent(q) /\ SameView(p, q)
<1> DEFINE s == Switched(p, p.muted)
<1>1. /\ s \in Pages /\ SameView(p, s) /\ s.mic = p.muted /\ (~ s.swapped => s.heard = p.muted)
      /\ s.share = p.share /\ s.swapped = p.swapped /\ s.muted = p.muted
  BY SwitchedPages DEF Pages
<1> HIDE DEF s
<1>2. LET q == [s EXCEPT !.muted = ~ s.muted]
      IN  q \in Pages /\ Silent(q) /\ SameView(p, q)
  BY <1>1 DEF Pages, Silent, SameView
<1> QED
  BY <1>2 DEF s

LEMMA SharingPages ==
  ASSUME NEW p \in Pages, Silent(p), p.share # "capturing",
         NEW share \in {"no", "asking", "yes"}
  PROVE  LET q == [p EXCEPT !.share = share]
         IN  q \in Pages /\ Silent(q) /\ SameView(p, q)
BY DEF Pages, Silent, SameView

LEMMA CapturedPages ==
  ASSUME NEW p \in Pages
  PROVE  LET q == [p EXCEPT !.share = "no", !.swapped = TRUE, !.mic = ~ p.muted]
         IN  q \in Pages /\ Silent(q) /\ SameView(p, q)
BY DEF Pages, Silent, SameView
-----------------------------------------------------------------------------
(***************************************************************************)
(* What a step does, without EXCEPT.                                       *)
(***************************************************************************)
OthersKeep(f, h, g) == \A x \in Guests : x # g => h[x] = f[x]

Parts ==
  /\ locked \in BOOLEAN /\ paused \in BOOLEAN
  /\ speaker \in spoke \cup {NoOne} /\ spoke \subseteq Guests
  /\ sending \in [Moderators -> [frame : Frames \cup {"none"}, except : Guests \cup {NoOne}]]
  /\ seat \in [Guests -> {"away", "registered", "joined"}]
  /\ inbox \in [Guests -> Seq(Frames)]
  /\ page \in [Guests -> Pages]
  /\ commands \in 0 .. MaxCommands
  /\ \A g \in Guests : seat[g] = "away" => inbox[g] = <<>> /\ page[g] = FreshPage(g)

LEMMA TypeParts == (TypeOK <=> Parts) /\ (TypeOK' <=> Parts')
BY DEF TypeOK, Parts

LEMMA SilentParts == MutedIsSilent <=> \A g \in Guests : Silent(page[g])
BY DEF MutedIsSilent, Silent

LEMMA SilentPartsNext == MutedIsSilent' <=> \A g \in Guests : Silent(page'[g])
BY DEF MutedIsSilent, Silent

\* The page of g goes on, or takes a frame and shows what it says.
BrowseStep(g) ==
  LET f == Head(inbox[g])
      p == page[g]
      q == page'[g]
  IN  /\ UNCHANGED <<room, sending, seat, history>>
      /\ seat[g] # "away" /\ page' \in [Guests -> Pages] /\ OthersKeep(page, page', g)
      /\ Silent(q)
      /\ \/ inbox' = inbox /\ SameView(p, q)
         \/ /\ inbox[g] # <<>> /\ inbox'[g] = Tail(inbox[g]) /\ OthersKeep(inbox, inbox', g)
            /\ inbox' \in [Guests -> Seq(Frames)]
            /\ LockFrame(q.locked) = IF f \in LockFrames THEN f ELSE LockFrame(p.locked)
            /\ PauseFrame(q.frozen) = IF f \in PauseFrames THEN f ELSE PauseFrame(p.frozen)

LEMMA ActSteps ==
  ASSUME PagesInv, NEW g \in Guests, NEW q \in Pages, Silent(q), SameView(page[g], q), Acts(g, q)
  PROVE  BrowseStep(g)
BY TypeParts DEF Parts, PagesInv, Acts, BrowseStep, OthersKeep

LEMMA TakeSteps ==
  ASSUME PagesInv, NEW g \in Guests, NEW q \in Pages, Silent(q), NEW f, Takes(g, f, q),
         LockFrame(q.locked) = IF f \in LockFrames THEN f ELSE LockFrame(page[g].locked),
         PauseFrame(q.frozen) = IF f \in PauseFrames THEN f ELSE PauseFrame(page[g].frozen)
  PROVE  BrowseStep(g)
<1>1. /\ inbox \in [Guests -> Seq(Frames)] /\ page \in [Guests -> Pages]
      /\ inbox[g] # <<>> /\ Head(inbox[g]) = f
      /\ inbox' = [inbox EXCEPT ![g] = Tail(inbox[g])]
      /\ page' = [page EXCEPT ![g] = q] /\ UNCHANGED <<room, sending, seat, history>>
  BY TypeParts DEF Parts, PagesInv, Takes
<1>2. Tail(inbox[g]) \in Seq(Frames)
  BY <1>1, HeadTailProperties
<1>3. seat[g] # "away"
  BY <1>1, TypeParts DEF Parts, PagesInv
<1>4. /\ inbox'[g] = Tail(inbox[g]) /\ OthersKeep(inbox, inbox', g)
      /\ inbox' \in [Guests -> Seq(Frames)]
  BY <1>1, <1>2 DEF OthersKeep
<1>5. page'[g] = q /\ page' \in [Guests -> Pages] /\ OthersKeep(page, page', g)
  BY <1>1 DEF OthersKeep
<1> QED
  BY <1>1, <1>3, <1>4, <1>5 DEF BrowseStep

LEMMA BrowseSteps ==
  ASSUME PagesInv, NEW g \in Guests, Browse(g)
  PROVE  BrowseStep(g)
<1> DEFINE p == page[g]
<1>1. p \in Pages /\ Silent(p)
  BY TypeParts, SilentParts DEF PagesInv, Parts
<1> USE DEF LockFrame, PauseFrame, LockFrames, PauseFrames
<1>2. CASE OnLock(g)
  <2> DEFINE q == [Switched(p, FALSE) EXCEPT !.muted = TRUE, !.locked = TRUE]
  <2>1. q \in Pages /\ Silent(q) /\ q.locked = TRUE /\ q.frozen = p.frozen
    BY <1>1, LockedPages
  <2>2. Takes(g, "lock", q)
    BY <1>2 DEF OnLock
  <2> HIDE DEF q
  <2> QED
    BY <2>1, <2>2, TakeSteps
<1>3. CASE OnUnlock(g)
  <2> DEFINE q == [Switched(p, TRUE) EXCEPT !.muted = FALSE, !.locked = FALSE]
  <2>1. q \in Pages /\ Silent(q) /\ q.locked = FALSE /\ q.frozen = p.frozen
    BY <1>1, UnlockedPages
  <2>2. Takes(g, "unlock", q)
    BY <1>3 DEF OnUnlock
  <2> HIDE DEF q
  <2> QED
    BY <2>1, <2>2, TakeSteps
<1>4. CASE OnForceMute(g)
  <2> DEFINE q == [Switched(p, FALSE) EXCEPT !.muted = TRUE]
  <2>1. q \in Pages /\ Silent(q) /\ SameView(p, q)
    BY <1>1, MutedPages
  <2>2. Takes(g, "mute", q)
    BY <1>4 DEF OnForceMute
  <2> HIDE DEF q
  <2> QED
    BY <2>1, <2>2, TakeSteps DEF SameView
<1>5. CASE OnPaused(g)
  <2> DEFINE u == Unshared(g, p)
             q == [Switched(u, FALSE) EXCEPT !.frozen = TRUE]
  <2>1. u \in Pages /\ Silent(u) /\ SameView(p, u)
    BY <1>1, UnsharedPages
  <2> HIDE DEF u
  <2>2. q \in Pages /\ Silent(q) /\ q.locked = u.locked /\ q.frozen = TRUE
    BY <2>1, PausedPages
  <2>3. Takes(g, "paused", q)
    BY <1>5 DEF OnPaused, u
  <2> HIDE DEF q
  <2> QED
    BY <2>1, <2>2, <2>3, TakeSteps DEF SameView
<1>6. CASE OnResumed(g)
  <2> DEFINE q == [Switched(p, ~ p.muted) EXCEPT !.frozen = FALSE]
  <2>1. q \in Pages /\ Silent(q) /\ q.locked = p.locked /\ q.frozen = FALSE
    BY <1>1, ResumedPages
  <2>2. Takes(g, "resumed", q)
    BY <1>6 DEF OnResumed
  <2> HIDE DEF q
  <2> QED
    BY <2>1, <2>2, TakeSteps
<1>7. CASE ToggleAudio(g)
  <2> DEFINE q == [Switched(p, p.muted) EXCEPT !.muted = ~ @]
  <2>1. ~ p.locked
    BY <1>7 DEF ToggleAudio
  <2>2. q \in Pages /\ Silent(q) /\ SameView(p, q)
    BY <1>1, <2>1, ToggledPages
  <2>3. Acts(g, q)
    BY <1>7 DEF ToggleAudio
  <2> HIDE DEF q
  <2> QED
    BY <2>2, <2>3, ActSteps
<1>8. CASE ShareScreen(g)
  <2> DEFINE q == [p EXCEPT !.share = "asking"]
  <2>1. q \in Pages /\ Silent(q) /\ SameView(p, q)
    BY <1>1, <1>8, SharingPages DEF ShareScreen
  <2>2. Acts(g, q)
    BY <1>8 DEF ShareScreen
  <2> HIDE DEF q
  <2> QED
    BY <2>1, <2>2, ActSteps
<1>9. ASSUME NEW answer \in {"yes", "no"}, Shared(g, answer)
      PROVE  BrowseStep(g)
  <2> DEFINE q == [p EXCEPT !.share = answer]
  <2>1. q \in Pages /\ Silent(q) /\ SameView(p, q)
    BY <1>1, <1>9, SharingPages DEF Shared
  <2>2. Acts(g, q)
    BY <1>9 DEF Shared
  <2> HIDE DEF q
  <2> QED
    BY <2>1, <2>2, ActSteps
<1>10. CASE StopShare(g)
  <2>1. Unshared(g, p) \in Pages /\ Silent(Unshared(g, p)) /\ SameView(p, Unshared(g, p))
    BY <1>1, UnsharedPages
  <2> QED
    BY <1>10, <2>1, ActSteps DEF StopShare
<1>11. CASE Captured(g)
  <2> DEFINE q == [p EXCEPT !.share = "no", !.swapped = TRUE, !.mic = ~ p.muted]
  <2>1. q \in Pages /\ Silent(q) /\ SameView(p, q)
    BY <1>1, CapturedPages
  <2>2. Acts(g, q)
    BY <1>11 DEF Captured
  <2> HIDE DEF q
  <2> QED
    BY <2>1, <2>2, ActSteps
<1> QED
  BY <1>2, <1>3, <1>4, <1>5, <1>6, <1>7, <1>8, <1>9, <1>10, <1>11 DEF Browse

\* m flips a state and owes a frame.
OwesStep(m, frame) ==
  /\ sending[m] = Nothing /\ sending'[m].frame = frame /\ sending'[m].except \in spoke \cup {NoOne}
  /\ \A x \in Moderators : x # m => sending'[x] = sending[x]
  /\ sending' \in [Moderators -> [frame : Frames \cup {"none"}, except : Guests \cup {NoOne}]]
  /\ commands' \in 0 .. MaxCommands /\ UNCHANGED <<speaker, clients, spoke>>

LEMMA OwesSteps ==
  ASSUME PagesInv, NEW m \in Moderators, NEW frame \in Frames, NEW except \in spoke \cup {NoOne},
         Reads(m), Owes(m, frame, except), UNCHANGED <<speaker, clients, spoke>>
  PROVE  OwesStep(m, frame)
<1>1. Parts
  BY TypeParts DEF PagesInv
<1>2. [frame |-> frame, except |-> except] \in [frame : Frames \cup {"none"}, except : Guests \cup {NoOne}]
  BY <1>1 DEF Parts
<1>3. sending' = [sending EXCEPT ![m] = [frame |-> frame, except |-> except]]
  BY DEF Owes
<1>4. commands' \in 0 .. MaxCommands
  BY <1>1, LectureAssumption DEF Parts, Reads
<1> QED
  BY <1>1, <1>2, <1>3, <1>4 DEF Parts, OwesStep, Reads

ToggleStep(m) ==
  \/ /\ locked' \in BOOLEAN /\ OwesStep(m, LockFrame(locked')) /\ paused' = paused
  \/ /\ paused' \in BOOLEAN /\ OwesStep(m, PauseFrame(paused')) /\ locked' = locked

LEMMA ToggleSteps ==
  ASSUME PagesInv, NEW m \in Moderators, GlobalMuteAudio(m) \/ SetPause(m) \/ ResumeConference(m)
  PROVE  ToggleStep(m)
<1>1. /\ speaker \in spoke \cup {NoOne} /\ NoOne \in spoke \cup {NoOne}
      /\ locked \in BOOLEAN /\ paused \in BOOLEAN
  BY TypeParts DEF PagesInv, Parts
<1>2. CASE GlobalMuteAudio(m)
  <2>1. /\ locked' \in BOOLEAN /\ LockFrame(locked') \in Frames
        /\ Owes(m, LockFrame(locked'), speaker) /\ Reads(m)
        /\ UNCHANGED <<paused, speaker, clients, spoke>>
    BY <1>2, KindsOfFrames DEF GlobalMuteAudio, LockFrame
  <2> QED
    BY <1>1, <2>1, OwesSteps DEF ToggleStep
<1>3. CASE SetPause(m)
  <2>1. /\ paused' \in BOOLEAN /\ PauseFrame(paused') \in Frames
        /\ Owes(m, PauseFrame(paused'), speaker) /\ Reads(m)
        /\ UNCHANGED <<locked, speaker, clients, spoke>>
    BY <1>3, KindsOfFrames DEF SetPause, PauseFrame
  <2> QED
    BY <1>1, <2>1, OwesSteps DEF ToggleStep
<1>4. CASE ResumeConference(m)
  <2>1. /\ paused' \in BOOLEAN /\ PauseFrame(paused') = "resumed" /\ "resumed" \in Frames
        /\ Owes(m, "resumed", NoOne) /\ Reads(m)
        /\ UNCHANGED <<locked, speaker, clients, spoke>>
    BY <1>4 DEF ResumeConference, PauseFrame, Frames
  <2> QED
    BY <1>1, <2>1, OwesSteps DEF ToggleStep
<1> QED
  BY <1>2, <1>3, <1>4

LEMMA SingleFrames ==
  ASSUME NEW q \in Seq(Frames), NEW f \in Frames
  PROVE  q \o <<f>> = Append(q, f) /\ Append(q, f) \in Seq(Frames)
BY AppendIsConcat, AppendProperties

\* A guest is muted, or joins: frames are appended to its inbox.
LEMMA MuteSteps ==
  ASSUME PagesInv, NEW m \in Moderators, NEW g \in Guests, MuteAudio(m, g)
  PROVE  /\ inbox'[g] = Append(inbox[g], "mute") /\ OthersKeep(inbox, inbox', g)
         /\ inbox' \in [Guests -> Seq(Frames)] /\ seat[g] # "away"
         /\ commands' \in 0 .. MaxCommands
         /\ UNCHANGED <<room, sending, seat, page, spoke>>
<1>1. Parts
  BY TypeParts DEF PagesInv
<1>2. inbox' = [inbox EXCEPT ![g] = inbox[g] \o <<"mute">>]
  BY DEF MuteAudio, Written
<1>3. inbox[g] \o <<"mute">> = Append(inbox[g], "mute") /\ Append(inbox[g], "mute") \in Seq(Frames)
  BY <1>1, SingleFrames, KindsOfFrames DEF Parts
<1>4. commands' \in 0 .. MaxCommands
  BY <1>1, LectureAssumption DEF Parts, MuteAudio, Reads
<1> QED
  BY <1>1, <1>2, <1>3, <1>4 DEF Parts, MuteAudio, OthersKeep

StatesAfter(q, on, up) ==
  q \o ((IF on THEN <<"lock">> ELSE <<>>) \o (IF up THEN <<"paused">> ELSE <<>>))

LEMMA StatesArrive ==
  ASSUME NEW q \in Seq(Frames), NEW on \in BOOLEAN, NEW up \in BOOLEAN
  PROVE  /\ StatesAfter(q, on, up) \in Seq(Frames)
         /\ \A view : Leads(q, LockFrames, view, LockFrame(on)) \/ Leads(q, LockFrames, view, "unlock")
              => Leads(StatesAfter(q, on, up), LockFrames, view, LockFrame(on))
         /\ \A view : Leads(q, PauseFrames, view, PauseFrame(up)) \/ Leads(q, PauseFrames, view, "resumed")
              => Leads(StatesAfter(q, on, up), PauseFrames, view, PauseFrame(up))
<1> DEFINE s == IF on THEN Append(q, "lock") ELSE q
           r == IF up THEN Append(s, "paused") ELSE s
<1>1. "lock" \in Frames /\ "paused" \in Frames /\ "lock" \notin PauseFrames /\ "paused" \notin LockFrames
  BY DEF Frames, PauseFrames, LockFrames
<1>2. s \in Seq(Frames) /\ r \in Seq(Frames)
  BY <1>1, AppendProperties
<1>3. StatesAfter(q, on, up) = r
  <2>1. /\ <<"lock">> \in Seq(Frames) /\ <<"paused">> \in Seq(Frames) /\ <<>> \in Seq(Frames)
    BY <1>1
  <2>2. q \o <<"lock">> = Append(q, "lock") /\ s \o <<"paused">> = Append(s, "paused")
    BY <1>1, <1>2, SingleFrames
  <2>3. q \o (<<"lock">> \o <<"paused">>) = (q \o <<"lock">>) \o <<"paused">>
    BY <2>1, ConcatAssociative
  <2>4. /\ <<"lock">> \o <<>> = <<"lock">> /\ <<>> \o <<"paused">> = <<"paused">>
        /\ <<>> \o <<>> = <<>> /\ q \o <<>> = q
    BY <2>1, ConcatEmptySeq
  <2> QED
    BY <2>2, <2>3, <2>4 DEF StatesAfter
<1>4. ASSUME NEW view,
             Leads(q, LockFrames, view, LockFrame(on)) \/ Leads(q, LockFrames, view, "unlock")
      PROVE  Leads(r, LockFrames, view, LockFrame(on))
  <2>1. Leads(s, LockFrames, view, LockFrame(on))
    BY <1>1, <1>4, AppendGoal DEF LockFrame
  <2> HIDE DEF s
  <2> QED
    BY <1>1, <1>2, <2>1, AppendOther
<1>5. ASSUME NEW view,
             Leads(q, PauseFrames, view, PauseFrame(up)) \/ Leads(q, PauseFrames, view, "resumed")
      PROVE  Leads(r, PauseFrames, view, PauseFrame(up))
  <2>1. Leads(s, PauseFrames, view, PauseFrame(up)) \/ Leads(s, PauseFrames, view, "resumed")
    BY <1>1, <1>5, AppendOther
  <2> HIDE DEF s
  <2> QED
    BY <1>1, <1>2, <2>1, AppendGoal DEF PauseFrame
<1> HIDE DEF r
<1> QED
  BY <1>2, <1>3, <1>4, <1>5

LEMMA JoinSteps ==
  ASSUME PagesInv, NEW g \in Guests, Join(g)
  PROVE  /\ seat[g] = "registered" /\ seat'[g] = "joined" /\ OthersKeep(seat, seat', g)
         /\ seat' \in [Guests -> {"away", "registered", "joined"}]
         /\ inbox'[g] = StatesAfter(inbox[g], locked /\ g # speaker, paused)
         /\ OthersKeep(inbox, inbox', g) /\ inbox' \in [Guests -> Seq(Frames)]
         /\ UNCHANGED <<room, sending, page, history>>
<1>1. Parts
  BY TypeParts DEF PagesInv
<1>2. inbox' = [inbox EXCEPT ![g] = StatesAfter(inbox[g], locked /\ g # speaker, paused)]
  BY DEF Join, Written, StatesOf, StatesAfter
<1>3. StatesAfter(inbox[g], locked /\ g # speaker, paused) \in Seq(Frames)
  <2>1. inbox[g] \in Seq(Frames) /\ paused \in BOOLEAN /\ (locked /\ g # speaker) \in BOOLEAN
    BY <1>1 DEF Parts
  <2> QED
    BY <2>1, StatesArrive, Zenon
<1>4. inbox'[g] = StatesAfter(inbox[g], locked /\ g # speaker, paused)
      /\ OthersKeep(inbox, inbox', g) /\ inbox' \in [Guests -> Seq(Frames)]
  <2> DEFINE states == StatesAfter(inbox[g], locked /\ g # speaker, paused)
  <2> HIDE DEF states
  <2>1. states \in Seq(Frames) /\ inbox' = [inbox EXCEPT ![g] = states]
    BY <1>2, <1>3 DEF states
  <2>2. inbox'[g] = states /\ OthersKeep(inbox, inbox', g) /\ inbox' \in [Guests -> Seq(Frames)]
    BY <1>1, <2>1 DEF Parts, OthersKeep
  <2> QED
    BY <2>2 DEF states
<1>5. /\ seat[g] = "registered" /\ seat'[g] = "joined" /\ OthersKeep(seat, seat', g)
      /\ seat' \in [Guests -> {"away", "registered", "joined"}]
      /\ UNCHANGED <<room, sending, page, history>>
  BY <1>1 DEF Join, Parts, OthersKeep
<1> QED
  BY <1>4, <1>5

LEMMA BroadcastSteps ==
  ASSUME PagesInv, NEW m \in Moderators, Broadcast(m)
  PROVE  /\ sending[m].frame \in Frames /\ sending'[m] = Nothing
         /\ \A x \in Moderators : x # m => sending'[x] = sending[x]
         /\ sending' \in [Moderators -> [frame : Frames \cup {"none"}, except : Guests \cup {NoOne}]]
         /\ \A g \in Guests :
              inbox'[g] = IF seat[g] # "away" /\ g # sending[m].except
                            THEN Append(inbox[g], sending[m].frame) ELSE inbox[g]
         /\ inbox' \in [Guests -> Seq(Frames)]
         /\ UNCHANGED <<room, seat, page, history>>
<1>1. Parts
  BY TypeParts DEF PagesInv
<1>2. sending[m].frame \in Frames
  BY DEF PagesInv, FramesOwed, Broadcast, BroadcastTo
<1>3. Nothing \in [frame : Frames \cup {"none"}, except : Guests \cup {NoOne}]
  BY DEF Nothing
<1>4. \A g \in Guests : Append(inbox[g], sending[m].frame) \in Seq(Frames)
  BY <1>1, <1>2, AppendProperties DEF Parts
<1>5. inbox' = [g \in Guests |-> IF seat[g] # "away" /\ g # sending[m].except
                                   THEN Append(inbox[g], sending[m].frame) ELSE inbox[g]]
  BY DEF Broadcast, BroadcastTo
<1>6. inbox' \in [Guests -> Seq(Frames)]
  BY <1>1, <1>4, <1>5 DEF Parts
<1> QED
  BY <1>1, <1>2, <1>3, <1>5, <1>6 DEF Parts, Broadcast, BroadcastTo

LEMMA SpeakerSteps ==
  ASSUME PagesInv, NEW m \in Moderators,
         ResetSpeaker(m) \/ \E g \in Guests : SetSpeaker(m, g)
  PROVE  /\ speaker' \in spoke' \cup {NoOne} /\ spoke \subseteq spoke' /\ spoke' \subseteq Guests
         /\ commands' \in 0 .. MaxCommands /\ UNCHANGED <<locked, paused, sending, clients>>
<1>1. Parts /\ Reads(m)
  BY TypeParts DEF PagesInv, ResetSpeaker, SetSpeaker
<1>2. commands' \in 0 .. MaxCommands
  BY <1>1, LectureAssumption DEF Parts, Reads
<1> QED
  BY <1>1, <1>2 DEF Parts, ResetSpeaker, SetSpeaker

\* A guest connects to an empty inbox, and leaves with one.
LEMMA SeatSteps ==
  ASSUME PagesInv, NEW g \in Guests, Connect(g) \/ Leave(g)
  PROVE  /\ seat'[g] = (IF seat[g] = "away" THEN "registered" ELSE "away") /\ OthersKeep(seat, seat', g)
         /\ seat' \in [Guests -> {"away", "registered", "joined"}]
         /\ inbox'[g] = <<>> /\ OthersKeep(inbox, inbox', g) /\ inbox' \in [Guests -> Seq(Frames)]
         /\ page'[g] = FreshPage(g) /\ OthersKeep(page, page', g) /\ page' \in [Guests -> Pages]
         /\ UNCHANGED <<room, sending, history>>
<1>1. Parts
  BY TypeParts DEF PagesInv
<1>2. FreshPage(g) \in Pages /\ <<>> \in Seq(Frames)
  <2>1. FreshPage(g) \in Pages
    BY FreshPages
  <2>2. <<>> \in Seq(Frames)
    OBVIOUS
  <2> QED
    BY <2>1, <2>2
<1>3. CASE Connect(g)
  <2>1. /\ seat[g] = "away" /\ inbox[g] = <<>> /\ page[g] = FreshPage(g)
        /\ seat' = [seat EXCEPT ![g] = "registered"] /\ UNCHANGED <<room, sending, inbox, page, history>>
    BY <1>1, <1>3 DEF Parts, Connect
  <2> QED
    BY <1>1, <2>1 DEF Parts, OthersKeep
<1>4. CASE Leave(g)
  <2>1. /\ seat[g] # "away" /\ seat' = [seat EXCEPT ![g] = "away"]
        /\ inbox' = [inbox EXCEPT ![g] = <<>>] /\ page' = [page EXCEPT ![g] = FreshPage(g)]
        /\ UNCHANGED <<room, sending, history>>
    BY <1>4 DEF Leave
  <2> QED
    BY <1>1, <1>2, <2>1 DEF Parts, OthersKeep
<1> QED
  BY <1>3, <1>4
-----------------------------------------------------------------------------
(***************************************************************************)
(* What every page keeps to, with any number of moderators.                *)
(***************************************************************************)
LEMMA PagesStart == Init => PagesInv
<1> SUFFICES ASSUME Init PROVE PagesInv
  OBVIOUS
<1>1. \A g \in Guests : FreshPage(g) \in Pages /\ Silent(FreshPage(g))
  BY FreshPages
<1>2. Parts
  <2>1. Nothing \in [frame : Frames \cup {"none"}, except : Guests \cup {NoOne}]
    BY DEF Nothing
  <2>2. <<>> \in Seq(Frames)
    OBVIOUS
  <2>3. sending \in [Moderators -> [frame : Frames \cup {"none"}, except : Guests \cup {NoOne}]]
    BY <2>1 DEF Init
  <2>4. seat \in [Guests -> {"away", "registered", "joined"}] /\ inbox \in [Guests -> Seq(Frames)]
    BY <2>2 DEF Init
  <2>5. page \in [Guests -> Pages]
    BY <1>1 DEF Init
  <2>6. \A g \in Guests : inbox[g] = <<>> /\ page[g] = FreshPage(g)
    BY DEF Init
  <2>7. locked \in BOOLEAN /\ paused \in BOOLEAN
    BY DEF Init
  <2>8. speaker \in spoke \cup {NoOne} /\ spoke \subseteq Guests /\ commands \in 0 .. MaxCommands
    BY LectureAssumption DEF Init
  <2> QED
    BY <2>3, <2>4, <2>5, <2>6, <2>7, <2>8 DEF Parts
<1>3. FramesOwed
  BY DEF Init, FramesOwed, Nothing
<1>4. MutedIsSilent
  BY <1>1, SilentParts DEF Init
<1> QED
  BY <1>2, <1>3, <1>4, TypeParts DEF PagesInv

LEMMA PagesStep == PagesInv /\ [Next]_vars => PagesInv'
<1> SUFFICES ASSUME PagesInv, [Next]_vars PROVE PagesInv'
  OBVIOUS
<1>1. Parts /\ FramesOwed /\ \A g \in Guests : Silent(page[g])
  BY TypeParts, SilentParts DEF PagesInv
<1>2. SUFFICES Parts' /\ FramesOwed' /\ \A g \in Guests : Silent(page'[g])
  BY TypeParts, SilentPartsNext DEF PagesInv
<1>3. ASSUME NEW m \in Moderators, GlobalMuteAudio(m) \/ SetPause(m) \/ ResumeConference(m)
      PROVE  Parts' /\ FramesOwed' /\ \A g \in Guests : Silent(page'[g])
  <2>1. ToggleStep(m)
    BY <1>3, ToggleSteps
  <2>2. PICK frame \in Frames : OwesStep(m, frame)
    BY <2>1, KindsOfFrames DEF ToggleStep
  <2>3. locked' \in BOOLEAN /\ paused' \in BOOLEAN
    BY <1>1, <2>1 DEF ToggleStep, Parts
  <2>4. FramesOwed'
    BY <1>1, <2>2 DEF OwesStep, FramesOwed
  <2> QED
    BY <1>1, <2>2, <2>3, <2>4 DEF OwesStep, Parts, clients
<1>4. ASSUME NEW m \in Moderators, ResetSpeaker(m) \/ \E g \in Guests : SetSpeaker(m, g)
      PROVE  Parts' /\ FramesOwed' /\ \A g \in Guests : Silent(page'[g])
  BY <1>1, <1>4, SpeakerSteps DEF Parts, FramesOwed, clients
<1>5. ASSUME NEW m \in Moderators, NEW g \in Guests, MuteAudio(m, g)
      PROVE  Parts' /\ FramesOwed' /\ \A x \in Guests : Silent(page'[x])
  BY <1>1, <1>5, MuteSteps DEF Parts, FramesOwed, room, OthersKeep
<1>6. ASSUME NEW m \in Moderators, Broadcast(m)
      PROVE  Parts' /\ FramesOwed' /\ \A g \in Guests : Silent(page'[g])
  <2>1. /\ \A x \in Moderators : x # m => sending'[x] = sending[x]
        /\ sending'[m] = Nothing /\ UNCHANGED <<room, seat, page, history>>
        /\ sending' \in [Moderators -> [frame : Frames \cup {"none"}, except : Guests \cup {NoOne}]]
        /\ \A g \in Guests : seat[g] = "away" => inbox'[g] = inbox[g]
        /\ inbox' \in [Guests -> Seq(Frames)]
    BY <1>6, BroadcastSteps
  <2>2. FramesOwed'
    BY <1>1, <2>1 DEF FramesOwed, Nothing, history
  <2> QED
    BY <1>1, <2>1, <2>2 DEF Parts, room, history
<1>7. ASSUME NEW g \in Guests, Join(g)
      PROVE  Parts' /\ FramesOwed' /\ \A x \in Guests : Silent(page'[x])
  BY <1>1, <1>7, JoinSteps DEF Parts, FramesOwed, room, history, OthersKeep
<1>8. ASSUME NEW g \in Guests, Connect(g) \/ Leave(g)
      PROVE  Parts' /\ FramesOwed' /\ \A x \in Guests : Silent(page'[x])
  BY <1>1, <1>8, SeatSteps, FreshPages DEF Parts, FramesOwed, room, history, OthersKeep
<1>9. ASSUME NEW g \in Guests, Browse(g)
      PROVE  Parts' /\ FramesOwed' /\ \A x \in Guests : Silent(page'[x])
  <2>1. BrowseStep(g)
    BY <1>9, BrowseSteps
  <2>2. /\ UNCHANGED <<room, sending, seat, history>> /\ inbox' \in [Guests -> Seq(Frames)]
        /\ page' \in [Guests -> Pages] /\ OthersKeep(page, page', g) /\ Silent(page'[g])
        /\ seat[g] # "away" /\ OthersKeep(inbox, inbox', g)
    BY <1>1, <2>1 DEF BrowseStep, Parts, OthersKeep
  <2> QED
    BY <1>1, <2>2 DEF Parts, FramesOwed, room, history, OthersKeep
<1>10. CASE UNCHANGED vars
  BY <1>1, <1>10 DEF Parts, FramesOwed, vars, room, clients, history
<1> QED
  BY <1>3, <1>4, <1>5, <1>6, <1>7, <1>8, <1>9, <1>10 DEF Next, Moderate, Attend

(***************************************************************************)
(* In every reachable state the pages, the inboxes and the broadcasts that *)
(* the handlers owe have the types of the model, and a guest that is not   *)
(* in the room has an empty inbox and the page it will load.               *)
(***************************************************************************)
THEOREM LectureTyped == Spec => []TypeOK
<1>1. PagesInv => TypeOK
  BY DEF PagesInv
<1> QED
  BY PagesStart, PagesStep, <1>1, PTL DEF Spec

(***************************************************************************)
(* Whatever locks, pauses, mutes and clicks came before, and however many  *)
(* moderators sent them (toggle_mic.js, pause_room.js, socket_service.js): *)
(* a locked microphone is off and a muted one is not heard, until a screen *)
(* share of the guest has ended.                                           *)
(***************************************************************************)
THEOREM MutedStaysSilent == Spec => []MutedIsSilent
<1>1. PagesInv => MutedIsSilent
  BY DEF PagesInv
<1> QED
  BY PagesStart, PagesStep, <1>1, PTL DEF Spec
-----------------------------------------------------------------------------
(***************************************************************************)
(* One kind of state (the lock, or the pause) on its way to the guests: K  *)
(* are its frames, goal is the frame of the state that holds, off that of  *)
(* a fresh page, views what the pages show.                                *)
(***************************************************************************)
Arrive(K, off, goal, views, owed, boxes, seats, spoken) ==
  /\ \A m \in Moderators : owed[m].frame \in K => owed[m].frame = goal
  /\ (\A m \in Moderators : owed[m].frame \notin K) =>
       \A g \in Guests \ spoken : Follows(boxes[g], seats[g], K, off, views[g], goal)

LockViews == [g \in Guests |-> LockFrame(page[g].locked)]
PauseViews == [g \in Guests |-> PauseFrame(page[g].frozen)]
LockViewsNext == [g \in Guests |-> LockFrame(page'[g].locked)]
PauseViewsNext == [g \in Guests |-> PauseFrame(page'[g].frozen)]

LEMMA ArriveParts ==
  /\ LocksArrive <=> Arrive(LockFrames, "unlock", LockFrame(locked), LockViews,
                            sending, inbox, seat, spoke)
  /\ PausesArrive <=> Arrive(PauseFrames, "resumed", PauseFrame(paused), PauseViews,
                             sending, inbox, seat, spoke)
BY DEF LocksArrive, PausesArrive, Arrive, LockViews, PauseViews

LEMMA ArrivePartsNext ==
  /\ LocksArrive' <=> Arrive(LockFrames, "unlock", LockFrame(locked'), LockViewsNext,
                             sending', inbox', seat', spoke')
  /\ PausesArrive' <=> Arrive(PauseFrames, "resumed", PauseFrame(paused'), PauseViewsNext,
                              sending', inbox', seat', spoke')
BY DEF LocksArrive, PausesArrive, Arrive, LockViewsNext, PauseViewsNext

LEMMA FollowsTake ==
  ASSUME NEW q \in Seq(Frames), q # <<>>, NEW K, NEW at, NEW off \in K, NEW goal \in K, NEW view,
         Follows(q, at, K, off, view, goal)
  PROVE  Follows(Tail(q), at, K, off, IF Head(q) \in K THEN Head(q) ELSE view, goal)
<1>1. \A end \in K : Leads(q, K, view, end)
        => Leads(Tail(q), K, IF Head(q) \in K THEN Head(q) ELSE view, end)
  BY TakeOther, TakeOne
<1> QED
  BY <1>1 DEF Follows

LEMMA FollowsOther ==
  ASSUME NEW q \in Seq(Frames), NEW f \in Frames, NEW K, f \notin K, NEW at, NEW off, NEW goal,
         NEW view, Follows(q, at, K, off, view, goal)
  PROVE  Follows(Append(q, f), at, K, off, view, goal)
BY AppendOther DEF Follows

\* The step leaves alone what is owed and the state itself.
LEMMA ArriveKept ==
  ASSUME NEW K, NEW off, NEW goal, NEW views, NEW later,
         Arrive(K, off, goal, views, sending, inbox, seat, spoke),
         sending' = sending, spoke \subseteq spoke',
         \A g \in Guests \ spoke' :
           Follows(inbox[g], seat[g], K, off, views[g], goal)
             => Follows(inbox'[g], seat'[g], K, off, later[g], goal)
  PROVE  Arrive(K, off, goal, later, sending', inbox', seat', spoke')
BY DEF Arrive

\* The only moderator toggles the state: until its broadcast nobody follows.
LEMMA ArriveToggle ==
  ASSUME NEW m \in Moderators, Moderators = {m}, NEW K, NEW off, NEW goal \in K, NEW later,
         sending'[m].frame = goal
  PROVE  Arrive(K, off, goal, later, sending', inbox', seat', spoke')
BY DEF Arrive

\* It toggles the other state.
LEMMA ArriveOtherToggle ==
  ASSUME NEW m \in Moderators, Moderators = {m}, NEW K, "none" \notin K, NEW off, NEW goal, NEW views,
         NEW f, f \notin K, OwesStep(m, f),
         Arrive(K, off, goal, views, sending, inbox, seat, spoke)
  PROVE  Arrive(K, off, goal, views, sending', inbox', seat', spoke')
<1>1. /\ sending[m].frame \notin K /\ sending'[m].frame \notin K
      /\ UNCHANGED <<inbox, seat, spoke>>
  BY DEF OwesStep, Nothing, clients
<1> QED
  BY <1>1 DEF Arrive

\* It sends the broadcast: the new state to everyone but a speaker.
LEMMA ArriveBroadcast ==
  ASSUME PagesInv, NEW m \in Moderators, Moderators = {m}, Broadcast(m),
         NEW K, "none" \notin K, NEW off \in K, NEW goal \in K \cap Frames, NEW views,
         Arrive(K, off, goal, views, sending, inbox, seat, spoke)
  PROVE  Arrive(K, off, goal, views, sending', inbox', seat', spoke')
<1> DEFINE f == sending[m].frame
<1>1. /\ f \in Frames /\ sending'[m] = Nothing /\ UNCHANGED <<seat, spoke>>
      /\ \A g \in Guests : inbox'[g] = IF seat[g] # "away" /\ g # sending[m].except
                                         THEN Append(inbox[g], f) ELSE inbox[g]
  BY BroadcastSteps DEF history
<1>2. inbox \in [Guests -> Seq(Frames)] /\ spoke \subseteq Guests
  BY TypeParts DEF PagesInv, Parts
<1>3. \A g \in Guests \ spoke : g # sending[m].except
  <2>1. sending[m].except \in spoke \cup {NoOne}
    <3>1. FramesOwed
      BY DEF PagesInv
    <3> QED
      BY <3>1 DEF FramesOwed
  <2>2. NoOne \notin Guests
    BY LectureAssumption
  <2> QED
    BY <2>1, <2>2
<1>4. sending'[m].frame \notin K
  BY <1>1 DEF Nothing
<1>5. \A g \in Guests \ spoke : Follows(inbox'[g], seat[g], K, off, views[g], goal)
  <2> TAKE g \in Guests \ spoke
  <2> inbox[g] \in Seq(Frames)
    BY <1>2
  <2>1. CASE seat[g] = "away"
    BY <2>1 DEF Follows
  <2>2. CASE seat[g] # "away" /\ f \in K
    <3>1. f = goal /\ inbox'[g] = Append(inbox[g], goal)
      BY <1>1, <1>3, <2>2 DEF Arrive
    <3>2. Leads(inbox'[g], K, views[g], goal)
      BY <3>1, AppendGoal
    <3> QED
      BY <3>2 DEF Follows
  <2>3. CASE seat[g] # "away" /\ f \notin K
    <3>1. Follows(inbox[g], seat[g], K, off, views[g], goal)
      BY <2>3 DEF Arrive
    <3>2. inbox'[g] = Append(inbox[g], f)
      BY <1>1, <1>3, <2>3
    <3> QED
      BY <1>1, <2>3, <3>1, <3>2, FollowsOther
  <2> QED
    BY <2>1, <2>2, <2>3
<1> QED
  BY <1>1, <1>4, <1>5 DEF Arrive

-----------------------------------------------------------------------------
(***************************************************************************)
(* With one moderator every page ends up as the room is.                   *)
(***************************************************************************)
OneModerator == \A m1, m2 \in Moderators : m1 = m2

\* A page takes a frame, or goes on without one.
LEMMA BrowseArrives ==
  ASSUME PagesInv, NEW g \in Guests, BrowseStep(g), NEW K, NEW off \in K, NEW goal \in K,
         NEW views, NEW later,
         \A x \in Guests : x # g => later[x] = views[x],
         inbox' = inbox => later[g] = views[g],
         inbox' # inbox => later[g] = IF Head(inbox[g]) \in K THEN Head(inbox[g]) ELSE views[g],
         Arrive(K, off, goal, views, sending, inbox, seat, spoke)
  PROVE  Arrive(K, off, goal, later, sending', inbox', seat', spoke')
<1>1. UNCHANGED <<sending, seat, spoke>>
  BY DEF BrowseStep, history
<1>2. inbox \in [Guests -> Seq(Frames)]
  BY TypeParts DEF PagesInv, Parts
<1>3. CASE inbox' = inbox
  <2>1. \A x \in Guests : later[x] = views[x]
    BY <1>3
  <2> QED
    BY <1>1, <1>3, <2>1, ArriveKept
<1>4. CASE inbox' # inbox
  <2>1. inbox[g] # <<>> /\ inbox'[g] = Tail(inbox[g]) /\ OthersKeep(inbox, inbox', g)
    BY <1>4 DEF BrowseStep
  <2>2. ASSUME NEW x \in Guests \ spoke', Follows(inbox[x], seat[x], K, off, views[x], goal)
        PROVE  Follows(inbox'[x], seat'[x], K, off, later[x], goal)
    <3>1. CASE x = g
      <4>1. inbox[g] \in Seq(Frames) /\ Follows(inbox[g], seat[g], K, off, views[g], goal)
        BY <1>2, <2>2, <3>1
      <4>2. Follows(Tail(inbox[g]), seat[g], K, off,
                    IF Head(inbox[g]) \in K THEN Head(inbox[g]) ELSE views[g], goal)
        BY <2>1, <4>1, FollowsTake
      <4>3. later[g] = IF Head(inbox[g]) \in K THEN Head(inbox[g]) ELSE views[g]
        BY <1>4
      <4> QED
        BY <1>1, <2>1, <3>1, <4>2, <4>3
    <3>2. CASE x # g
      BY <1>1, <2>1, <2>2, <3>2 DEF OthersKeep
    <3> QED
      BY <3>1, <3>2
  <2> QED
    BY <1>1, <2>2, ArriveKept
<1> QED
  BY <1>3, <1>4

\* A guest is muted by the moderator.
LEMMA MuteArrives ==
  ASSUME PagesInv, NEW m \in Moderators, NEW g \in Guests, MuteAudio(m, g),
         NEW K, "mute" \notin K, NEW off, NEW goal, NEW views,
         Arrive(K, off, goal, views, sending, inbox, seat, spoke)
  PROVE  Arrive(K, off, goal, views, sending', inbox', seat', spoke')
<1>1. /\ inbox'[g] = Append(inbox[g], "mute") /\ OthersKeep(inbox, inbox', g)
      /\ UNCHANGED <<sending, seat, spoke>>
  BY MuteSteps
<1>2. inbox \in [Guests -> Seq(Frames)] /\ "mute" \in Frames
  BY TypeParts, KindsOfFrames DEF PagesInv, Parts
<1>3. ASSUME NEW x \in Guests \ spoke', Follows(inbox[x], seat[x], K, off, views[x], goal)
      PROVE  Follows(inbox'[x], seat'[x], K, off, views[x], goal)
  <2>1. CASE x = g
    <3>1. inbox[g] \in Seq(Frames) /\ Follows(inbox[g], seat[g], K, off, views[g], goal)
      BY <1>2, <1>3, <2>1
    <3>2. Follows(Append(inbox[g], "mute"), seat[g], K, off, views[g], goal)
      BY <1>2, <3>1, FollowsOther
    <3> QED
      BY <1>1, <2>1, <3>2
  <2>2. CASE x # g
    BY <1>1, <1>3, <2>2 DEF OthersKeep
  <2> QED
    BY <2>1, <2>2
<1> QED
  BY <1>1, <1>3, ArriveKept

\* A guest connects with a fresh page, or leaves.
LEMMA SeatArrives ==
  ASSUME PagesInv, NEW g \in Guests, Connect(g) \/ Leave(g),
         NEW K, NEW off, NEW goal, NEW views, NEW later,
         later[g] = off, \A x \in Guests : x # g => later[x] = views[x],
         Arrive(K, off, goal, views, sending, inbox, seat, spoke)
  PROVE  Arrive(K, off, goal, later, sending', inbox', seat', spoke')
<1>1. /\ seat'[g] = (IF seat[g] = "away" THEN "registered" ELSE "away") /\ OthersKeep(seat, seat', g)
      /\ inbox'[g] = <<>> /\ OthersKeep(inbox, inbox', g)
      /\ UNCHANGED <<sending, spoke>>
  BY SeatSteps DEF history
<1>2. Leads(<<>>, K, off, off)
  BY NothingLeft
<1>3. ASSUME NEW x \in Guests \ spoke', Follows(inbox[x], seat[x], K, off, views[x], goal)
      PROVE  Follows(inbox'[x], seat'[x], K, off, later[x], goal)
  <2>1. CASE x = g
    BY <1>1, <1>2, <2>1 DEF Follows
  <2>2. CASE x # g
    BY <1>1, <1>3, <2>2 DEF OthersKeep
  <2> QED
    BY <2>1, <2>2
<1> QED
  BY <1>1, <1>3, ArriveKept

\* A guest joins: it is sent what the room is now.
LEMMA JoinArrives ==
  ASSUME PagesInv, NEW g \in Guests, Join(g),
         NEW K, NEW off, NEW goal, NEW views,
         g \notin spoke =>
           \A view : Leads(inbox[g], K, view, goal) \/ Leads(inbox[g], K, view, off)
             => Leads(StatesAfter(inbox[g], locked /\ g # speaker, paused), K, view, goal),
         Arrive(K, off, goal, views, sending, inbox, seat, spoke)
  PROVE  Arrive(K, off, goal, views, sending', inbox', seat', spoke')
<1>1. /\ seat[g] = "registered" /\ seat'[g] = "joined" /\ OthersKeep(seat, seat', g)
      /\ inbox'[g] = StatesAfter(inbox[g], locked /\ g # speaker, paused)
      /\ OthersKeep(inbox, inbox', g) /\ UNCHANGED <<sending, spoke>>
  BY JoinSteps DEF history
<1>2. ASSUME NEW x \in Guests \ spoke', Follows(inbox[x], seat[x], K, off, views[x], goal)
      PROVE  Follows(inbox'[x], seat'[x], K, off, views[x], goal)
  <2>1. CASE x = g
    BY <1>1, <1>2, <2>1 DEF Follows
  <2>2. CASE x # g
    BY <1>1, <1>2, <2>2 DEF OthersKeep
  <2> QED
    BY <2>1, <2>2
<1> QED
  BY <1>1, <1>2, ArriveKept

LEMMA LectureStart == Init => LectureInv
<1> SUFFICES ASSUME Init PROVE LectureInv
  OBVIOUS
<1>1. \A g \in Guests : seat[g] = "away"
  BY DEF Init
<1>2. \A m \in Moderators : sending[m].frame = "none"
  BY DEF Init, Nothing
<1>3. LocksArrive
  BY <1>1, <1>2, KindsOfFrames DEF LocksArrive, Follows
<1>4. PausesArrive
  BY <1>1, <1>2, KindsOfFrames DEF PausesArrive, Follows
<1> QED
  BY <1>3, <1>4, PagesStart DEF LectureInv

LEMMA LectureStep == OneModerator /\ LectureInv /\ [Next]_vars => LectureInv'
<1> SUFFICES ASSUME OneModerator, LectureInv, [Next]_vars PROVE LectureInv'
  OBVIOUS
<1>1. PagesInv /\ Parts
  BY TypeParts DEF LectureInv, PagesInv
<1>2. /\ Arrive(LockFrames, "unlock", LockFrame(locked), LockViews, sending, inbox, seat, spoke)
      /\ Arrive(PauseFrames, "resumed", PauseFrame(paused), PauseViews, sending, inbox, seat, spoke)
  BY ArriveParts DEF LectureInv
<1>3. /\ "unlock" \in LockFrames /\ "resumed" \in PauseFrames
      /\ LockFrame(locked) \in LockFrames \cap Frames /\ PauseFrame(paused) \in PauseFrames \cap Frames
      /\ "none" \notin LockFrames /\ "none" \notin PauseFrames
      /\ "mute" \notin LockFrames /\ "mute" \notin PauseFrames
  BY <1>1, KindsOfFrames DEF Parts, LockFrames, PauseFrames
<1> DEFINE LocksLater == Arrive(LockFrames, "unlock", LockFrame(locked'), LockViewsNext,
                                sending', inbox', seat', spoke')
           PausesLater == Arrive(PauseFrames, "resumed", PauseFrame(paused'), PauseViewsNext,
                                 sending', inbox', seat', spoke')
<1>4. PagesInv'
  BY <1>1, PagesStep
<1>5. SUFFICES LocksLater /\ PausesLater
  BY <1>4, ArrivePartsNext DEF LectureInv
<1>6. page' = page => LockViewsNext = LockViews /\ PauseViewsNext = PauseViews
  BY DEF LockViews, LockViewsNext, PauseViews, PauseViewsNext
<1>7. \A m \in Moderators : Moderators = {m}
  BY DEF OneModerator
<1> HIDE DEF LocksLater, PausesLater
<1>8. ASSUME NEW m \in Moderators, GlobalMuteAudio(m) \/ SetPause(m) \/ ResumeConference(m)
      PROVE  LocksLater /\ PausesLater
  <2>1. ToggleStep(m) /\ Moderators = {m}
    BY <1>1, <1>7, <1>8, ToggleSteps
  <2>2. LockViewsNext = LockViews /\ PauseViewsNext = PauseViews
    BY <1>6, <2>1 DEF ToggleStep, OwesStep, clients
  <2>3. CASE locked' \in BOOLEAN /\ OwesStep(m, LockFrame(locked')) /\ paused' = paused
    <3>1. LockFrame(locked') \in LockFrames /\ LockFrame(locked') \notin PauseFrames
      BY <2>3, KindsOfFrames
    <3>2. sending'[m].frame = LockFrame(locked')
      BY <2>3 DEF OwesStep
    <3>3. LocksLater
      BY <2>1, <3>1, <3>2, ArriveToggle DEF LocksLater
    <3>4. Arrive(PauseFrames, "resumed", PauseFrame(paused), PauseViews, sending', inbox', seat', spoke')
      BY <1>2, <1>3, <2>1, <2>3, <3>1, ArriveOtherToggle
    <3> QED
      BY <2>2, <2>3, <3>3, <3>4 DEF PausesLater
  <2>4. CASE paused' \in BOOLEAN /\ OwesStep(m, PauseFrame(paused')) /\ locked' = locked
    <3>1. PauseFrame(paused') \in PauseFrames /\ PauseFrame(paused') \notin LockFrames
      BY <2>4, KindsOfFrames
    <3>2. sending'[m].frame = PauseFrame(paused')
      BY <2>4 DEF OwesStep
    <3>3. PausesLater
      BY <2>1, <3>1, <3>2, ArriveToggle DEF PausesLater
    <3>4. Arrive(LockFrames, "unlock", LockFrame(locked), LockViews, sending', inbox', seat', spoke')
      BY <1>2, <1>3, <2>1, <2>4, <3>1, ArriveOtherToggle
    <3> QED
      BY <2>2, <2>4, <3>3, <3>4 DEF LocksLater
  <2> QED
    BY <2>1, <2>3, <2>4 DEF ToggleStep
<1>9. ASSUME NEW m \in Moderators, ResetSpeaker(m) \/ \E g \in Guests : SetSpeaker(m, g)
      PROVE  LocksLater /\ PausesLater
  <2>1. spoke \subseteq spoke' /\ UNCHANGED <<locked, paused, sending, clients>>
    BY <1>1, <1>9, SpeakerSteps
  <2>2. /\ locked' = locked /\ paused' = paused /\ sending' = sending
        /\ inbox' = inbox /\ seat' = seat /\ page' = page
    BY <2>1 DEF clients
  <2>3. LocksLater
    BY <1>2, <1>6, <2>1, <2>2, ArriveKept DEF LocksLater
  <2>4. PausesLater
    BY <1>2, <1>6, <2>1, <2>2, ArriveKept DEF PausesLater
  <2> QED
    BY <2>3, <2>4
<1>10. ASSUME NEW m \in Moderators, NEW g \in Guests, MuteAudio(m, g)
       PROVE  LocksLater /\ PausesLater
  <2>1. locked' = locked /\ paused' = paused /\ page' = page
    BY <1>1, <1>10, MuteSteps DEF room
  <2>2. LocksLater
    BY <1>1, <1>2, <1>3, <1>6, <1>10, <2>1, MuteArrives DEF LocksLater
  <2>3. PausesLater
    BY <1>1, <1>2, <1>3, <1>6, <1>10, <2>1, MuteArrives DEF PausesLater
  <2> QED
    BY <2>2, <2>3
<1>11. ASSUME NEW m \in Moderators, Broadcast(m)
       PROVE  LocksLater /\ PausesLater
  <2>1. locked' = locked /\ paused' = paused /\ page' = page /\ Moderators = {m}
    BY <1>1, <1>7, <1>11, BroadcastSteps DEF room
  <2>2. LocksLater
    BY <1>1, <1>2, <1>3, <1>6, <1>11, <2>1, ArriveBroadcast DEF LocksLater
  <2>3. PausesLater
    BY <1>1, <1>2, <1>3, <1>6, <1>11, <2>1, ArriveBroadcast DEF PausesLater
  <2> QED
    BY <2>2, <2>3
<1>12. ASSUME NEW g \in Guests, Join(g)
       PROVE  LocksLater /\ PausesLater
  <2>1. locked' = locked /\ paused' = paused /\ page' = page
    BY <1>1, <1>12, JoinSteps DEF room
  <2> DEFINE told == locked /\ g # speaker
  <2>2. g \notin spoke => told = locked
    BY <1>1, LectureAssumption DEF Parts
  <2>3. inbox[g] \in Seq(Frames) /\ told \in BOOLEAN /\ paused \in BOOLEAN
    BY <1>1 DEF Parts
  <2> HIDE DEF told
  <2>4. g \notin spoke =>
          \A view : Leads(inbox[g], LockFrames, view, LockFrame(locked))
                      \/ Leads(inbox[g], LockFrames, view, "unlock")
            => Leads(StatesAfter(inbox[g], told, paused), LockFrames, view, LockFrame(locked))
    BY <2>2, <2>3, StatesArrive
  <2>5. \A view : Leads(inbox[g], PauseFrames, view, PauseFrame(paused))
                    \/ Leads(inbox[g], PauseFrames, view, "resumed")
          => Leads(StatesAfter(inbox[g], told, paused), PauseFrames, view, PauseFrame(paused))
    BY <2>3, StatesArrive
  <2>6. LocksLater
    BY <1>1, <1>2, <1>6, <1>12, <2>1, <2>4, JoinArrives DEF LocksLater, told
  <2>7. PausesLater
    BY <1>1, <1>2, <1>6, <1>12, <2>1, <2>5, JoinArrives DEF PausesLater, told
  <2> QED
    BY <2>6, <2>7
<1>13. ASSUME NEW g \in Guests, Connect(g) \/ Leave(g)
       PROVE  LocksLater /\ PausesLater
  <2>1. locked' = locked /\ paused' = paused /\ page'[g] = FreshPage(g) /\ OthersKeep(page, page', g)
    BY <1>1, <1>13, SeatSteps DEF room
  <2>2. FreshPage(g).locked = FALSE /\ FreshPage(g).frozen = FALSE
    BY FreshPages
  <2>3. LockViewsNext[g] = "unlock" /\ PauseViewsNext[g] = "resumed"
    BY <2>1, <2>2 DEF LockViewsNext, PauseViewsNext, LockFrame, PauseFrame
  <2>4. \A x \in Guests : x # g => /\ LockViewsNext[x] = LockViews[x]
                                   /\ PauseViewsNext[x] = PauseViews[x]
    BY <2>1 DEF LockViewsNext, PauseViewsNext, LockViews, PauseViews, OthersKeep
  <2>5. LocksLater
    BY <1>1, <1>2, <1>13, <2>1, <2>3, <2>4, SeatArrives DEF LocksLater
  <2>6. PausesLater
    BY <1>1, <1>2, <1>13, <2>1, <2>3, <2>4, SeatArrives DEF PausesLater
  <2> QED
    BY <2>5, <2>6
<1>14. ASSUME NEW g \in Guests, Browse(g)
       PROVE  LocksLater /\ PausesLater
  <2>1. BrowseStep(g)
    BY <1>1, <1>14, BrowseSteps
  <2>2. \/ inbox' = inbox /\ SameView(page[g], page'[g])
        \/ /\ inbox' # inbox
           /\ LockFrame(page'[g].locked) = IF Head(inbox[g]) \in LockFrames
                                             THEN Head(inbox[g]) ELSE LockFrame(page[g].locked)
           /\ PauseFrame(page'[g].frozen) = IF Head(inbox[g]) \in PauseFrames
                                              THEN Head(inbox[g]) ELSE PauseFrame(page[g].frozen)
    <3>1. inbox[g] \in Seq(Frames)
      BY <1>1 DEF Parts
    <3>2. inbox[g] # <<>> => Len(Tail(inbox[g])) = Len(inbox[g]) - 1 /\ Len(inbox[g]) \in Nat
      BY <3>1, HeadTailProperties, LenProperties
    <3>3. \A n \in Nat : n - 1 # n
      OBVIOUS
    <3> QED
      BY <2>1, <3>2, <3>3 DEF BrowseStep
  <2>3. locked' = locked /\ paused' = paused /\ OthersKeep(page, page', g)
    BY <2>1 DEF BrowseStep, room
  <2>4. \A x \in Guests : x # g => /\ LockViewsNext[x] = LockViews[x]
                                   /\ PauseViewsNext[x] = PauseViews[x]
    BY <2>3 DEF LockViewsNext, PauseViewsNext, LockViews, PauseViews, OthersKeep
  <2>5. /\ inbox' = inbox => LockViewsNext[g] = LockViews[g]
        /\ inbox' # inbox => LockViewsNext[g] = IF Head(inbox[g]) \in LockFrames
                                                  THEN Head(inbox[g]) ELSE LockViews[g]
    BY <2>2 DEF LockViewsNext, LockViews, SameView
  <2>6. /\ inbox' = inbox => PauseViewsNext[g] = PauseViews[g]
        /\ inbox' # inbox => PauseViewsNext[g] = IF Head(inbox[g]) \in PauseFrames
                                                   THEN Head(inbox[g]) ELSE PauseViews[g]
    BY <2>2 DEF PauseViewsNext, PauseViews, SameView
  <2>7. LocksLater
    BY <1>1, <1>2, <1>3, <2>1, <2>3, <2>4, <2>5, BrowseArrives DEF LocksLater
  <2>8. PausesLater
    BY <1>1, <1>2, <1>3, <2>1, <2>3, <2>4, <2>6, BrowseArrives DEF PausesLater
  <2> QED
    BY <2>7, <2>8
<1>15. CASE UNCHANGED vars
  <2>1. /\ locked' = locked /\ paused' = paused /\ sending' = sending
        /\ inbox' = inbox /\ seat' = seat /\ page' = page /\ spoke' = spoke
    BY <1>15 DEF vars, room, clients, history
  <2> QED
    BY <1>2, <1>6, <2>1 DEF LocksLater, PausesLater
<1> QED
  BY <1>8, <1>9, <1>10, <1>11, <1>12, <1>13, <1>14, <1>15 DEF Next, Moderate, Attend

(***************************************************************************)
(* "Mute States Preservation" (signaling-gateway-spec.md:44), when one     *)
(* moderator runs the lecture (moderation_business.go): for any guests,    *)
(* joining before, during or after a toggle or its broadcast, a page that  *)
(* has nothing on its way is locked if and only if the room is, and frozen *)
(* if and only if it is paused.  Every toggle is broadcast before the next *)
(* one of its moderator, so frames arrive in the order of the toggles; two *)
(* moderators can overtake each other after the unlock.                    *)
(***************************************************************************)
THEOREM PagesFollowTheRoom == OneModerator /\ Spec => []ControlsAgree
<1>1. LectureInv => ControlsAgree
  <2> SUFFICES ASSUME LectureInv, NEW g \in Guests \ spoke, Settled(g)
               PROVE  page[g].locked = locked /\ page[g].frozen = paused
    BY DEF ControlsAgree
  <2>1. /\ seat[g] = "joined" /\ inbox[g] = <<>>
        /\ \A m \in Moderators : sending[m].frame = "none"
    BY DEF Settled, Nothing
  <2>2. page[g] \in Pages /\ locked \in BOOLEAN /\ paused \in BOOLEAN
    BY TypeParts DEF LectureInv, PagesInv, Parts
  <2>3. Leads(<<>>, LockFrames, LockFrame(page[g].locked), LockFrame(locked))
    BY <2>1, KindsOfFrames DEF LectureInv, LocksArrive, Follows
  <2>4. Leads(<<>>, PauseFrames, PauseFrame(page[g].frozen), PauseFrame(paused))
    BY <2>1, KindsOfFrames DEF LectureInv, PausesArrive, Follows
  <2>5. page[g].locked \in BOOLEAN /\ page[g].frozen \in BOOLEAN
    BY <2>2 DEF Pages
  <2> QED
    BY <2>2, <2>3, <2>4, <2>5, NothingLeft, KindsOfFrames
<1>2. ASSUME OneModerator PROVE Spec => []ControlsAgree
  <2>1. LectureInv /\ [Next]_vars => LectureInv'
    BY <1>2, LectureStep
  <2> QED
    BY LectureStart, <1>1, <2>1, PTL DEF Spec
<1> QED
  BY <1>2
=============================================================================
