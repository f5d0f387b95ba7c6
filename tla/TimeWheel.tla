------------------------------ MODULE TimeWheel ------------------------------
(***************************************************************************)
(* internal/pkg/timewheel/tw.go: the wheel of NumSlots one-minute slots    *)
(* that decides when a room dies.  A slot has a bucket of keys and one bit *)
(* of a bitmap of NumWords words; Tick looks at the bit alone, so a bit    *)
(* that disagrees with its bucket loses the timers of a whole minute.      *)
(* Every method runs under tw.mu and is one action.                        *)
(***************************************************************************)
EXTENDS Integers

CONSTANTS Keys,      \* room identifiers
          NumSlots,  \* minutes on the ring: 300
          WordBits,  \* bits of a word: 64
          NumWords,  \* words of the bitmap: 5
          MaxAhead   \* bound on the minutes a caller asks for

ASSUME WheelAssumption ==
  /\ NumSlots \in Nat \ {0}
  /\ WordBits \in Nat \ {0}
  /\ NumWords \in Nat \ {0}
  /\ NumSlots =< NumWords * WordBits
  /\ MaxAhead \in Nat

VARIABLES slots,    \* word -> the positions of its 1 bits
          pointer,  \* the minute hand
          buckets,  \* slot -> keys registered in it
          expired   \* the keys the last Tick returned

wheelVars == <<slots, pointer, buckets, expired>>

SlotRange == 0 .. NumSlots - 1
WordOf(slot) == slot \div WordBits
BitOf(slot) == slot % WordBits
Bitmap == [0 .. NumWords - 1 -> SUBSET (0 .. WordBits - 1)]

IsSet(bits, slot) == BitOf(slot) \in bits[WordOf(slot)]
SetBit(bits, slot) == [bits EXCEPT ![WordOf(slot)] = @ \cup {BitOf(slot)}]
ClearBit(bits, slot) == [bits EXCEPT ![WordOf(slot)] = @ \ {BitOf(slot)}]

SlotsOf(key) == {slot \in SlotRange : key \in buckets[slot]}
IsLowest(slot, set) == slot \in set /\ \A other \in set : slot =< other

TargetSlot(minutes) == (pointer + minutes) % NumSlots

\* NewBitmappedTimeWheel
Init == /\ slots = [w \in 0 .. NumWords - 1 |-> {}]
        /\ pointer = 0
        /\ buckets = [slot \in SlotRange |-> {}]
        /\ expired = {}

Add(key, minutes) ==
  /\ slots' = SetBit(slots, TargetSlot(minutes))
  /\ buckets' = [buckets EXCEPT ![TargetSlot(minutes)] = @ \cup {key}]
  /\ UNCHANGED <<pointer, expired>>

\* The bitmap once a key has left slot: the bit goes only with the last key.
BitsAfterDropAlways(slot, rest) == ClearBit(slots, slot)
BitsAfterDrop(slot, rest) == IF rest = {} THEN ClearBit(slots, slot) ELSE slots

\* Remove takes the key out of the first slot, counted from 0, that holds it.
Remove(key) ==
  /\ \/ SlotsOf(key) = {} /\ UNCHANGED <<slots, buckets>>
     \/ \E slot \in SlotRange :
          /\ IsLowest(slot, SlotsOf(key))
          /\ buckets' = [buckets EXCEPT ![slot] = @ \ {key}]
          /\ slots' = BitsAfterDrop(slot, buckets[slot] \ {key})
  /\ UNCHANGED <<pointer, expired>>

\* Move is Remove and Add under one lock.
Move(key, minutes) ==
  /\ \/ /\ SlotsOf(key) = {}
        /\ slots' = SetBit(slots, TargetSlot(minutes))
        /\ buckets' = [buckets EXCEPT ![TargetSlot(minutes)] = @ \cup {key}]
     \/ \E slot \in SlotRange :
          /\ IsLowest(slot, SlotsOf(key))
          /\ slots' = SetBit(BitsAfterDrop(slot, buckets[slot] \ {key}),
                             TargetSlot(minutes))
          /\ LET dropped == [buckets EXCEPT ![slot] = @ \ {key}]
             IN buckets' = [dropped EXCEPT ![TargetSlot(minutes)] = @ \cup {key}]
  /\ UNCHANGED <<pointer, expired>>

\* Two slips of Tick: the hand runs off the ring; the slot is read before the
\* hand moves.
TickNoWrap ==
  /\ pointer' = pointer + 1
  /\ IF IsSet(slots, pointer')
     THEN /\ expired' = buckets[pointer']
          /\ buckets' = [buckets EXCEPT ![pointer'] = {}]
          /\ slots' = ClearBit(slots, pointer')
     ELSE expired' = {} /\ UNCHANGED <<slots, buckets>>

TickReadsOldSlot ==
  /\ pointer' = (pointer + 1) % NumSlots
  /\ IF IsSet(slots, pointer)
     THEN /\ expired' = buckets[pointer]
          /\ buckets' = [buckets EXCEPT ![pointer] = {}]
          /\ slots' = ClearBit(slots, pointer)
     ELSE expired' = {} /\ UNCHANGED <<slots, buckets>>

Tick ==
  /\ pointer' = (pointer + 1) % NumSlots
  /\ IF IsSet(slots, pointer')
     THEN /\ expired' = buckets[pointer']
          /\ buckets' = [buckets EXCEPT ![pointer'] = {}]
          /\ slots' = ClearBit(slots, pointer')
     ELSE expired' = {} /\ UNCHANGED <<slots, buckets>>

Next == \/ \E key \in Keys, minutes \in 0 .. MaxAhead :
             Add(key, minutes) \/ Move(key, minutes)
        \/ \E key \in Keys : Remove(key)
        \/ Tick

Spec == Init /\ [][Next]_wheelVars
-----------------------------------------------------------------------------
TypeOK == /\ slots \in Bitmap
          /\ pointer \in SlotRange
          /\ buckets \in [SlotRange -> SUBSET Keys]
          /\ expired \in SUBSET Keys

(***************************************************************************)
(* The bitmap and the buckets always agree: a bit is 1 exactly when its    *)
(* bucket holds a key.  Tick (tw.go:87) trusts the bit and never looks at  *)
(* the bucket of a 0 bit; Add, Move and Remove each keep the pair in step. *)
(***************************************************************************)
BitmapAgrees ==
  \A slot \in SlotRange : IsSet(slots, slot) <=> buckets[slot] # {}

\* How many ticks until the hand reaches a slot; its own slot is a full turn away.
Distance(slot) == IF slot > pointer THEN slot - pointer
                                    ELSE slot - pointer + NumSlots

Ring == INSTANCE TimerRing
          WITH pending <- [key \in Keys |-> {Distance(slot) : slot \in SlotsOf(key)}]

(***************************************************************************)
(* The wheel implements TimerRing: each key fires at the tick it was armed *)
(* for, neither early nor late nor twice, whatever was added, moved and    *)
(* removed in between and wherever the ring wraps.                         *)
(***************************************************************************)
FiresOnTime == Ring!Spec
=============================================================================
