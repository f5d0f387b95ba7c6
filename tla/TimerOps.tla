------------------------------ MODULE TimerOps ------------------------------
(***************************************************************************)
(* What a minute wheel promises, as operators on a value t that gives for  *)
(* every key the set of distances (in ticks) at which it still will fire.  *)
(* A key may be armed several times.  A distance is counted on a ring of   *)
(* NumSlots minutes, so arming a key NumSlots + 1 minutes ahead fires it   *)
(* one minute ahead.                                                       *)
(* Users: TimerRing (the abstract wheel that TimeWheel implements) and     *)
(* RoomShard (whose handlers arm and disarm the timer of a room).          *)
(***************************************************************************)
EXTENDS Integers

CONSTANT NumSlots  \* minutes on the ring (300 in the code)

ASSUME NumSlotsAssumption == NumSlots \in Nat \ {0}

Distances == 1 .. NumSlots

\* Ticks until a timer set `minutes' ahead fires: minutes modulo the ring,
\* where 0 stands for a full turn.
Ahead(minutes) == IF minutes % NumSlots = 0 THEN NumSlots ELSE minutes % NumSlots

\* Key k is armed, keeping the timers it already has.
Armed(t, k, minutes) == [t EXCEPT ![k] = @ \cup {Ahead(minutes)}]

\* The possible results of disarming k: one of its timers goes, the ring does
\* not promise which one.
Disarmed(t, k) ==
  IF t[k] = {} THEN {t} ELSE {[t EXCEPT ![k] = @ \ {d}] : d \in t[k]}

\* The keys that fire at the next tick, and the timers after it.
Due(t) == {k \in DOMAIN t : 1 \in t[k]}
Turned(t) == [k \in DOMAIN t |-> {d \in Distances : d + 1 \in t[k]}]
=============================================================================
