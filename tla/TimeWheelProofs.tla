--------------------------- MODULE TimeWheelProofs ---------------------------
(***************************************************************************)
(* Proofs about TimeWheel for every ring size, word size and key set.      *)
(***************************************************************************)
EXTENDS TimeWheel, TLAPS

\* A slot is determined by its word and its bit, and both lie in the bitmap.
LEMMA SlotCoordinates ==
  ASSUME NEW slot \in SlotRange
  PROVE  /\ WordOf(slot) \in 0 .. NumWords - 1
         /\ BitOf(slot) \in 0 .. WordBits - 1
         /\ slot = WordBits * WordOf(slot) + BitOf(slot)
<1> DEFINE w == slot \div WordBits
           b == slot % WordBits
<1>1. slot \in Int /\ WordBits \in Int /\ WordBits > 0 /\ 0 =< slot /\ slot < NumWords * WordBits
  BY WheelAssumption DEF SlotRange
<1>2. w \in Int /\ b \in 0 .. WordBits - 1 /\ slot = WordBits * w + b
  BY <1>1
<1>3. 0 =< w
  BY <1>1, <1>2
<1>4. w < NumWords
  BY <1>1, <1>2, WheelAssumption
<1> QED
  BY <1>2, <1>3, <1>4, WheelAssumption DEF WordOf, BitOf

LEMMA SlotIsItsCoordinates ==
  ASSUME NEW s \in SlotRange, NEW t \in SlotRange,
         WordOf(s) = WordOf(t), BitOf(s) = BitOf(t)
  PROVE  s = t
BY SlotCoordinates, WheelAssumption

LEMMA TargetInRange ==
  ASSUME TypeOK, NEW minutes \in 0 .. MaxAhead
  PROVE  TargetSlot(minutes) \in SlotRange
BY WheelAssumption DEF TypeOK, TargetSlot, SlotRange

\* SetBit and ClearBit change the bit of their own slot and of no other.
LEMMA SetBitEffect ==
  ASSUME NEW bits \in Bitmap, NEW slot \in SlotRange
  PROVE  /\ SetBit(bits, slot) \in Bitmap
         /\ \A other \in SlotRange :
              IsSet(SetBit(bits, slot), other) <=> other = slot \/ IsSet(bits, other)
<1>1. SetBit(bits, slot) \in Bitmap
  BY SlotCoordinates DEF SetBit, Bitmap
<1>2. ASSUME NEW other \in SlotRange
      PROVE  IsSet(SetBit(bits, slot), other) <=> other = slot \/ IsSet(bits, other)
  <2>1. WordOf(slot) \in 0 .. NumWords - 1 /\ WordOf(other) \in 0 .. NumWords - 1
    BY SlotCoordinates
  <2>2. other # slot => WordOf(other) # WordOf(slot) \/ BitOf(other) # BitOf(slot)
    BY SlotIsItsCoordinates
  <2> QED
    BY <2>1, <2>2 DEF SetBit, IsSet, Bitmap
<1> QED
  BY <1>1, <1>2

LEMMA ClearBitEffect ==
  ASSUME NEW bits \in Bitmap, NEW slot \in SlotRange
  PROVE  /\ ClearBit(bits, slot) \in Bitmap
         /\ \A other \in SlotRange :
              IsSet(ClearBit(bits, slot), other) <=> other # slot /\ IsSet(bits, other)
<1>1. ClearBit(bits, slot) \in Bitmap
  BY SlotCoordinates DEF ClearBit, Bitmap
<1>2. ASSUME NEW other \in SlotRange
      PROVE  IsSet(ClearBit(bits, slot), other) <=> other # slot /\ IsSet(bits, other)
  <2>1. WordOf(slot) \in 0 .. NumWords - 1 /\ WordOf(other) \in 0 .. NumWords - 1
    BY SlotCoordinates
  <2>2. other # slot => WordOf(other) # WordOf(slot) \/ BitOf(other) # BitOf(slot)
    BY SlotIsItsCoordinates
  <2> QED
    BY <2>1, <2>2 DEF ClearBit, IsSet, Bitmap
<1> QED
  BY <1>1, <1>2
-----------------------------------------------------------------------------
\* BitmapAgrees of a bitmap and buckets that need not be those of the state.
Buckets == [SlotRange -> SUBSET Keys]
Agrees(bits, bkts) == \A slot \in SlotRange : IsSet(bits, slot) <=> bkts[slot] # {}
With(bkts, slot, key) == [bkts EXCEPT ![slot] = @ \cup {key}]
Without(bkts, slot, key) == [bkts EXCEPT ![slot] = @ \ {key}]
BitsWithout(bits, bkts, slot, key) ==
  IF bkts[slot] \ {key} = {} THEN ClearBit(bits, slot) ELSE bits

LEMMA PutKeepsAgreement ==
  ASSUME NEW bits \in Bitmap, NEW bkts \in Buckets, Agrees(bits, bkts),
         NEW slot \in SlotRange, NEW key \in Keys
  PROVE  /\ SetBit(bits, slot) \in Bitmap
         /\ With(bkts, slot, key) \in Buckets
         /\ Agrees(SetBit(bits, slot), With(bkts, slot, key))
BY SetBitEffect DEF Agrees, With, Buckets

LEMMA DropKeepsAgreement ==
  ASSUME NEW bits \in Bitmap, NEW bkts \in Buckets, Agrees(bits, bkts),
         NEW slot \in SlotRange, NEW key \in bkts[slot]
  PROVE  /\ BitsWithout(bits, bkts, slot, key) \in Bitmap
         /\ Without(bkts, slot, key) \in Buckets
         /\ Agrees(BitsWithout(bits, bkts, slot, key), Without(bkts, slot, key))
BY ClearBitEffect DEF Agrees, Without, BitsWithout, Buckets

\* The invariant that one step preserves: neither conjunct is inductive alone.
WheelInv == TypeOK /\ BitmapAgrees

LEMMA InitEstablishes == Init => WheelInv
<1> SUFFICES ASSUME Init PROVE WheelInv
  OBVIOUS
<1>1. \A slot \in SlotRange : WordOf(slot) \in 0 .. NumWords - 1
  BY SlotCoordinates
<1>2. TypeOK
  BY WheelAssumption DEF Init, TypeOK, Bitmap, SlotRange
<1>3. BitmapAgrees
  BY <1>1 DEF Init, BitmapAgrees, IsSet
<1> QED
  BY <1>2, <1>3 DEF WheelInv

LEMMA AddPreserves ==
  ASSUME WheelInv, NEW key \in Keys, NEW minutes \in 0 .. MaxAhead, Add(key, minutes)
  PROVE  WheelInv'
<1> DEFINE target == TargetSlot(minutes)
<1>1. target \in SlotRange
  BY TargetInRange DEF WheelInv
<1>2. slots \in Bitmap /\ buckets \in Buckets /\ Agrees(slots, buckets)
  BY DEF WheelInv, TypeOK, BitmapAgrees, Agrees, Buckets
<1>3. slots' = SetBit(slots, target) /\ buckets' = With(buckets, target, key)
  BY DEF Add, With
<1>4. slots' \in Bitmap /\ buckets' \in Buckets /\ Agrees(slots', buckets')
  BY <1>1, <1>2, <1>3, PutKeepsAgreement
<1> QED
  BY <1>4 DEF WheelInv, TypeOK, BitmapAgrees, Agrees, Buckets, Add

LEMMA RemovePreserves ==
  ASSUME WheelInv, NEW key \in Keys, Remove(key)
  PROVE  WheelInv'
<1>1. CASE UNCHANGED <<slots, buckets>>
  BY <1>1 DEF WheelInv, TypeOK, BitmapAgrees, Remove
<1>2. CASE \E slot \in SlotRange :
             /\ IsLowest(slot, SlotsOf(key))
             /\ buckets' = [buckets EXCEPT ![slot] = @ \ {key}]
             /\ slots' = BitsAfterDrop(slot, buckets[slot] \ {key})
  <2>1. PICK slot \in SlotRange :
          /\ IsLowest(slot, SlotsOf(key))
          /\ buckets' = [buckets EXCEPT ![slot] = @ \ {key}]
          /\ slots' = BitsAfterDrop(slot, buckets[slot] \ {key})
    BY <1>2
  <2>2. key \in buckets[slot]
    BY <2>1 DEF IsLowest, SlotsOf
  <2>3. slots \in Bitmap /\ buckets \in Buckets /\ Agrees(slots, buckets)
    BY DEF WheelInv, TypeOK, BitmapAgrees, Agrees, Buckets
  <2>4. /\ slots' = BitsWithout(slots, buckets, slot, key)
        /\ buckets' = Without(buckets, slot, key)
    BY <2>1 DEF BitsWithout, Without, BitsAfterDrop
  <2>5. slots' \in Bitmap /\ buckets' \in Buckets /\ Agrees(slots', buckets')
    BY <2>2, <2>3, <2>4, DropKeepsAgreement
  <2> QED
    BY <2>5 DEF WheelInv, TypeOK, BitmapAgrees, Agrees, Buckets, Remove
<1> QED
  BY <1>1, <1>2 DEF Remove

LEMMA MovePreserves ==
  ASSUME WheelInv, NEW key \in Keys, NEW minutes \in 0 .. MaxAhead, Move(key, minutes)
  PROVE  WheelInv'
<1> DEFINE target == TargetSlot(minutes)
<1>1. target \in SlotRange
  BY TargetInRange DEF WheelInv
<1>2. slots \in Bitmap /\ buckets \in Buckets /\ Agrees(slots, buckets)
  BY DEF WheelInv, TypeOK, BitmapAgrees, Agrees, Buckets
<1>3. CASE slots' = SetBit(slots, target) /\ buckets' = With(buckets, target, key)
  <2>1. slots' \in Bitmap /\ buckets' \in Buckets /\ Agrees(slots', buckets')
    BY <1>1, <1>2, <1>3, PutKeepsAgreement
  <2> QED
    BY <2>1 DEF WheelInv, TypeOK, BitmapAgrees, Agrees, Buckets, Move
<1>4. CASE \E slot \in SlotRange :
             /\ key \in buckets[slot]
             /\ slots' = SetBit(BitsWithout(slots, buckets, slot, key), target)
             /\ buckets' = With(Without(buckets, slot, key), target, key)
  <2>1. PICK slot \in SlotRange :
          /\ key \in buckets[slot]
          /\ slots' = SetBit(BitsWithout(slots, buckets, slot, key), target)
          /\ buckets' = With(Without(buckets, slot, key), target, key)
    BY <1>4
  <2> DEFINE bits == BitsWithout(slots, buckets, slot, key)
             bkts == Without(buckets, slot, key)
  <2>2. bits \in Bitmap /\ bkts \in Buckets /\ Agrees(bits, bkts)
    BY <1>2, <2>1, DropKeepsAgreement
  <2>3. slots' \in Bitmap /\ buckets' \in Buckets /\ Agrees(slots', buckets')
    <3> HIDE DEF bits, bkts
    <3> QED
      BY <1>1, <2>1, <2>2, PutKeepsAgreement DEF bits, bkts
  <2> QED
    BY <2>3 DEF WheelInv, TypeOK, BitmapAgrees, Agrees, Buckets, Move
<1> QED
  BY <1>3, <1>4
     DEF Move, IsLowest, SlotsOf, With, Without, BitsWithout, BitsAfterDrop

LEMMA TickPreserves ==
  ASSUME WheelInv, Tick
  PROVE  WheelInv'
<1>1. pointer' \in SlotRange
  BY WheelAssumption DEF WheelInv, TypeOK, SlotRange, Tick
<1>2. CASE IsSet(slots, pointer')
  <2>1. /\ slots' = ClearBit(slots, pointer')
        /\ buckets' = [buckets EXCEPT ![pointer'] = {}]
        /\ expired' = buckets[pointer']
    BY <1>2 DEF Tick
  <2>2. slots' \in Bitmap /\ \A other \in SlotRange :
              IsSet(slots', other) <=> other # pointer' /\ IsSet(slots, other)
    BY <1>1, <2>1, ClearBitEffect DEF WheelInv, TypeOK
  <2> QED
    BY <1>1, <2>1, <2>2 DEF WheelInv, TypeOK, BitmapAgrees
<1>3. CASE ~IsSet(slots, pointer')
  BY <1>1, <1>3 DEF WheelInv, TypeOK, BitmapAgrees, Tick, IsSet
<1> QED
  BY <1>2, <1>3

LEMMA NextPreserves == WheelInv /\ [Next]_wheelVars => WheelInv'
<1> SUFFICES ASSUME WheelInv, [Next]_wheelVars PROVE WheelInv'
  OBVIOUS
<1>1. CASE UNCHANGED wheelVars
  BY <1>1 DEF WheelInv, TypeOK, BitmapAgrees, wheelVars, IsSet
<1>2. CASE Next
  BY <1>2, AddPreserves, MovePreserves, RemovePreserves, TickPreserves DEF Next
<1> QED
  BY <1>1, <1>2

(***************************************************************************)
(* Spec => []TypeOK: the hand, the bitmap and the buckets keep their types *)
(* (tw.go), in particular no method writes a word or a slot that does not  *)
(* exist.                                                                  *)
(***************************************************************************)
THEOREM WheelTyped == Spec => []TypeOK
<1>1. WheelInv => TypeOK
  BY DEF WheelInv
<1> QED
  BY InitEstablishes, NextPreserves, <1>1, PTL DEF Spec

(***************************************************************************)
(* Spec => []BitmapAgrees: Tick's one-bit test (tw.go:87) never skips a    *)
(* slot that holds a key, for every ring, word size and set of keys.       *)
(***************************************************************************)
THEOREM BitmapExact == Spec => []BitmapAgrees
<1>1. WheelInv => BitmapAgrees
  BY DEF WheelInv
<1> QED
  BY InitEstablishes, NextPreserves, <1>1, PTL DEF Spec
-----------------------------------------------------------------------------
(***************************************************************************)
(* The refinement.  PendingOf is the abstract state of the wheel.          *)
(***************************************************************************)
DistancesOf(key) == {Distance(slot) : slot \in SlotsOf(key)}
PendingOf == [key \in Keys |-> DistancesOf(key)]

LEMMA RemainderUnique ==
  ASSUME NEW q \in Int, NEW r \in SlotRange
  PROVE  (q * NumSlots + r) % NumSlots = r
BY WheelAssumption, Z3 DEF SlotRange

\* The slot that Add computes is as far from the hand as Ahead promises.
LEMMA TargetDistance ==
  ASSUME TypeOK, NEW minutes \in 0 .. MaxAhead
  PROVE  Distance(TargetSlot(minutes)) = Ring!Ahead(minutes)
<1> DEFINE q == minutes \div NumSlots
           r == minutes % NumSlots
<1>1. q \in Int /\ r \in SlotRange /\ minutes = q * NumSlots + r /\ NumSlots \in Int
  BY WheelAssumption DEF SlotRange
<1>2. pointer \in SlotRange
  BY DEF TypeOK
<1>3. Ring!Ahead(minutes) = IF r = 0 THEN NumSlots ELSE r
  BY DEF Ring!Ahead
<1> HIDE DEF q, r
<1>4. CASE pointer + r < NumSlots
  <2>1. pointer + r \in SlotRange /\ pointer + minutes = q * NumSlots + (pointer + r)
    BY <1>1, <1>2, <1>4 DEF SlotRange
  <2>2. TargetSlot(minutes) = pointer + r
    BY <2>1, <1>1, RemainderUnique DEF TargetSlot
  <2> QED
    BY <2>2, <1>1, <1>2, <1>3, <1>4 DEF Distance, SlotRange
<1>5. CASE ~(pointer + r < NumSlots)
  <2>1. /\ pointer + r - NumSlots \in SlotRange
        /\ q + 1 \in Int
        /\ pointer + minutes = (q + 1) * NumSlots + (pointer + r - NumSlots)
    BY <1>1, <1>2, <1>5 DEF SlotRange
  <2>2. TargetSlot(minutes) = pointer + r - NumSlots
    BY <2>1, <1>1, RemainderUnique DEF TargetSlot
  <2> QED
    BY <2>2, <1>1, <1>2, <1>3, <1>5 DEF Distance, SlotRange
<1> QED
  BY <1>4, <1>5

LEMMA DistanceInjective ==
  ASSUME TypeOK, NEW s \in SlotRange, NEW t \in SlotRange
  PROVE  /\ Distance(s) \in Ring!Distances
         /\ Distance(s) = Distance(t) => s = t
BY WheelAssumption DEF TypeOK, Distance, Ring!Distances, SlotRange

\* Turning the hand brings every slot but the new current one a tick closer,
\* and the slot it reaches was one tick away.
LEMMA DistanceAfterTick ==
  ASSUME TypeOK, pointer' = (pointer + 1) % NumSlots, NEW slot \in SlotRange
  PROVE  /\ slot = pointer' <=> Distance(slot) = 1
         /\ slot # pointer' => Distance(slot)' = Distance(slot) - 1
<1>1. pointer \in SlotRange /\ NumSlots \in Int /\ NumSlots > 0
  BY WheelAssumption DEF TypeOK
<1>2. pointer' = IF pointer + 1 = NumSlots THEN 0 ELSE pointer + 1
  BY <1>1, RemainderUnique DEF SlotRange
<1> QED
  BY <1>1, <1>2 DEF Distance, SlotRange

LEMMA AddRefines ==
  ASSUME WheelInv, NEW key \in Keys, NEW minutes \in 0 .. MaxAhead, Add(key, minutes)
  PROVE  Ring!Add(key, minutes)
<1> DEFINE target == TargetSlot(minutes)
<1>1. target \in SlotRange /\ buckets \in [SlotRange -> SUBSET Keys]
  BY TargetInRange DEF WheelInv, TypeOK
<1>2. SlotsOf(key)' = SlotsOf(key) \cup {target}
  BY <1>1 DEF SlotsOf, Add
<1>3. \A other \in Keys : other # key => SlotsOf(other)' = SlotsOf(other)
  BY <1>1 DEF SlotsOf, Add
<1>4. \A slot : Distance(slot)' = Distance(slot)
  BY DEF Distance, Add
<1>5. DistancesOf(key)' = DistancesOf(key) \cup {Ring!Ahead(minutes)}
  BY <1>2, <1>4, TargetDistance DEF DistancesOf, WheelInv
<1>6. \A other \in Keys : other # key => DistancesOf(other)' = DistancesOf(other)
  BY <1>3, <1>4 DEF DistancesOf
<1>7. PendingOf' = Ring!Armed(PendingOf, key, minutes)
  BY <1>5, <1>6 DEF PendingOf, Ring!Armed
<1> QED
  BY <1>7 DEF Ring!Add, Add, PendingOf, DistancesOf

\* Taking a key out of one slot cancels exactly the timer at that distance.
LEMMA DropIsDisarm ==
  ASSUME TypeOK, NEW key \in Keys, NEW slot \in SlotsOf(key)
  PROVE  /\ {Distance(s) : s \in SlotsOf(key) \ {slot}} = DistancesOf(key) \ {Distance(slot)}
         /\ [PendingOf EXCEPT ![key] = @ \ {Distance(slot)}] \in Ring!Disarmed(PendingOf, key)
<1>1. \A s \in SlotsOf(key) : s # slot => Distance(s) # Distance(slot)
  BY DistanceInjective DEF SlotsOf
<1>2. {Distance(s) : s \in SlotsOf(key) \ {slot}} = DistancesOf(key) \ {Distance(slot)}
  BY <1>1 DEF DistancesOf
<1>3. Distance(slot) \in DistancesOf(key) /\ PendingOf[key] = DistancesOf(key)
  BY DEF DistancesOf, PendingOf
<1>4. [PendingOf EXCEPT ![key] = @ \ {Distance(slot)}] \in Ring!Disarmed(PendingOf, key)
  BY <1>3 DEF Ring!Disarmed
<1> QED
  BY <1>2, <1>4

LEMMA RemoveRefines ==
  ASSUME WheelInv, NEW key \in Keys, Remove(key)
  PROVE  Ring!Remove(key)
<1>1. \A slot : Distance(slot)' = Distance(slot)
  BY DEF Distance, Remove
<1>2. CASE SlotsOf(key) = {} /\ UNCHANGED <<slots, buckets>>
  <2>1. PendingOf' = PendingOf
    BY <1>1, <1>2 DEF PendingOf, DistancesOf, SlotsOf
  <2>2. PendingOf[key] = {}
    BY <1>2 DEF PendingOf, DistancesOf
  <2>3. PendingOf' \in Ring!Disarmed(PendingOf, key)
    BY <2>1, <2>2 DEF Ring!Disarmed
  <2> QED
    BY <2>3 DEF Ring!Remove, Remove, PendingOf, DistancesOf
<1>3. ASSUME NEW slot \in SlotsOf(key),
             buckets' = [buckets EXCEPT ![slot] = @ \ {key}]
      PROVE  Ring!Remove(key)
  <2>1. buckets \in [SlotRange -> SUBSET Keys] /\ slot \in SlotRange /\ TypeOK
    BY DEF WheelInv, TypeOK, SlotsOf
  <2>2. SlotsOf(key)' = SlotsOf(key) \ {slot}
    BY <1>3, <2>1 DEF SlotsOf
  <2>3. \A other \in Keys : other # key => SlotsOf(other)' = SlotsOf(other)
    BY <1>3, <2>1 DEF SlotsOf
  <2>4. DistancesOf(key)' = DistancesOf(key) \ {Distance(slot)}
    <3>1. DistancesOf(key)' = {Distance(s) : s \in SlotsOf(key) \ {slot}}
      BY <1>1, <2>2 DEF DistancesOf
    <3> QED
      BY <2>1, <3>1, DropIsDisarm
  <2>5. \A other \in Keys : other # key => DistancesOf(other)' = DistancesOf(other)
    BY <1>1, <2>3 DEF DistancesOf
  <2>6. PendingOf' = [PendingOf EXCEPT ![key] = @ \ {Distance(slot)}]
    BY <2>4, <2>5 DEF PendingOf
  <2>7. PendingOf' \in Ring!Disarmed(PendingOf, key)
    BY <2>1, <2>6, DropIsDisarm
  <2> QED
    BY <2>7 DEF Ring!Remove, Remove, PendingOf, DistancesOf
<1> QED
  BY <1>2, <1>3 DEF Remove, IsLowest

LEMMA MoveRefines ==
  ASSUME WheelInv, NEW key \in Keys, NEW minutes \in 0 .. MaxAhead, Move(key, minutes)
  PROVE  Ring!Move(key, minutes)
<1> DEFINE target == TargetSlot(minutes)
<1>1. \A slot : Distance(slot)' = Distance(slot)
  BY DEF Distance, Move
<1>2. target \in SlotRange /\ buckets \in [SlotRange -> SUBSET Keys] /\ TypeOK
  BY TargetInRange DEF WheelInv, TypeOK
<1>3. Distance(target) = Ring!Ahead(minutes)
  BY <1>2, TargetDistance
<1> HIDE DEF target
<1>4. CASE SlotsOf(key) = {} /\ buckets' = [buckets EXCEPT ![target] = @ \cup {key}]
  <2>1. SlotsOf(key)' = {target}
    BY <1>2, <1>4 DEF SlotsOf
  <2>2. \A other \in Keys : other # key => SlotsOf(other)' = SlotsOf(other)
    BY <1>2, <1>4 DEF SlotsOf
  <2>3. DistancesOf(key) = {} /\ DistancesOf(key)' = {Ring!Ahead(minutes)}
    BY <1>1, <1>3, <1>4, <2>1 DEF DistancesOf
  <2>4. \A other \in Keys : other # key => DistancesOf(other)' = DistancesOf(other)
    BY <1>1, <2>2 DEF DistancesOf
  <2>5. PendingOf' = Ring!Armed(PendingOf, key, minutes)
    BY <2>3, <2>4 DEF PendingOf, Ring!Armed
  <2>6. PendingOf \in Ring!Disarmed(PendingOf, key)
    BY <2>3 DEF Ring!Disarmed, PendingOf
  <2> QED
    BY <2>5, <2>6 DEF Ring!Move, Move, PendingOf, DistancesOf
<1>5. ASSUME NEW slot \in SlotsOf(key),
             buckets' = [[buckets EXCEPT ![slot] = @ \ {key}] EXCEPT ![target] = @ \cup {key}]
      PROVE  Ring!Move(key, minutes)
  <2> DEFINE mid == [PendingOf EXCEPT ![key] = @ \ {Distance(slot)}]
  <2>1. slot \in SlotRange
    BY DEF SlotsOf
  <2>2. SlotsOf(key)' = (SlotsOf(key) \ {slot}) \cup {target}
    BY <1>2, <1>5, <2>1 DEF SlotsOf
  <2>3. \A other \in Keys : other # key => SlotsOf(other)' = SlotsOf(other)
    BY <1>2, <1>5, <2>1 DEF SlotsOf
  <2>4. DistancesOf(key)' = {Distance(s) : s \in SlotsOf(key) \ {slot}} \cup {Distance(target)}
    BY <1>1, <2>2 DEF DistancesOf
  <2>5. DistancesOf(key)' = (DistancesOf(key) \ {Distance(slot)}) \cup {Ring!Ahead(minutes)}
    BY <1>2, <1>3, <2>4, DropIsDisarm
  <2>6. \A other \in Keys : other # key => DistancesOf(other)' = DistancesOf(other)
    BY <1>1, <2>3 DEF DistancesOf
  <2>7. mid \in Ring!Disarmed(PendingOf, key)
    BY <1>2, DropIsDisarm
  <2>8. PendingOf' = Ring!Armed(mid, key, minutes)
    BY <2>5, <2>6 DEF PendingOf, Ring!Armed
  <2> HIDE DEF mid
  <2> QED
    BY <2>7, <2>8 DEF Ring!Move, Move, PendingOf, DistancesOf
<1> QED
  BY <1>4, <1>5 DEF Move, IsLowest, target

LEMMA TickRefines ==
  ASSUME WheelInv, Tick
  PROVE  Ring!Tick
<1>1. pointer' = (pointer + 1) % NumSlots /\ TypeOK /\ BitmapAgrees
  BY DEF Tick, WheelInv
<1>2. pointer' \in SlotRange
  BY <1>1, WheelAssumption DEF TypeOK, SlotRange
<1>3. expired' = buckets[pointer'] /\ buckets' = [buckets EXCEPT ![pointer'] = {}]
  BY <1>1, <1>2 DEF Tick, BitmapAgrees, TypeOK
<1>4. ASSUME NEW key \in Keys
      PROVE  SlotsOf(key)' = SlotsOf(key) \ {pointer'}
  BY <1>1, <1>2, <1>3 DEF SlotsOf, TypeOK
<1>5. ASSUME NEW key \in Keys
      PROVE  1 \in DistancesOf(key) <=> key \in buckets[pointer']
  BY <1>1, <1>2, DistanceAfterTick DEF DistancesOf, SlotsOf
<1>6. ASSUME NEW key \in Keys
      PROVE  DistancesOf(key)' = {d \in Ring!Distances : d + 1 \in DistancesOf(key)}
  <2>1. ASSUME NEW d \in DistancesOf(key)'
        PROVE  d \in Ring!Distances /\ d + 1 \in DistancesOf(key)
    <3>1. PICK slot \in SlotsOf(key) \ {pointer'} : d = Distance(slot)'
      BY <1>4, <2>1 DEF DistancesOf
    <3>2. slot \in SlotRange
      BY DEF SlotsOf
    <3>3. Distance(slot)' = Distance(slot) - 1 /\ Distance(slot) # 1
      BY <1>1, <3>1, <3>2, DistanceAfterTick
    <3>4. Distance(slot) \in Ring!Distances
      BY <1>1, <3>2, DistanceInjective
    <3> QED
      BY <3>1, <3>3, <3>4, WheelAssumption DEF DistancesOf, Ring!Distances
  <2>2. ASSUME NEW d \in Ring!Distances, d + 1 \in DistancesOf(key)
        PROVE  d \in DistancesOf(key)'
    <3>1. PICK slot \in SlotsOf(key) : d + 1 = Distance(slot)
      BY <2>2 DEF DistancesOf
    <3>2. slot \in SlotRange /\ d \in Int /\ d >= 1
      BY WheelAssumption DEF SlotsOf, Ring!Distances
    <3>3. slot # pointer'
      BY <1>1, <3>1, <3>2, DistanceAfterTick
    <3>4. Distance(slot)' = d
      BY <1>1, <3>1, <3>2, <3>3, DistanceAfterTick
    <3> QED
      BY <1>4, <3>1, <3>3, <3>4 DEF DistancesOf
  <2> QED
    BY <2>1, <2>2
<1>7. expired' = Ring!Due(PendingOf)
  BY <1>1, <1>2, <1>3, <1>5 DEF Ring!Due, PendingOf, TypeOK
<1>8. PendingOf' = Ring!Turned(PendingOf)
  BY <1>6 DEF Ring!Turned, PendingOf
<1> QED
  BY <1>7, <1>8 DEF Ring!Tick, PendingOf, DistancesOf

(***************************************************************************)
(* Spec => FiresOnTime: the bitmapped wheel implements TimerRing, so every *)
(* timer of every room fires at exactly the tick it was armed for          *)
(* (Add, Move, Remove and Tick of tw.go), for every ring and key set.      *)
(***************************************************************************)
THEOREM WheelImplementsRing == Spec => FiresOnTime
<1>1. Init => Ring!Init
  BY DEF Init, Ring!Init, SlotsOf
<1>2. WheelInv /\ [Next]_wheelVars => [Ring!Next]_(Ring!ringVars)
  <2> SUFFICES ASSUME WheelInv, [Next]_wheelVars
               PROVE  [Ring!Next]_(Ring!ringVars)
    OBVIOUS
  <2>1. CASE UNCHANGED wheelVars
    BY <2>1 DEF wheelVars, Ring!ringVars, Distance, SlotsOf
  <2>2. CASE Next
    BY <2>2, AddRefines, MoveRefines, RemoveRefines, TickRefines DEF Next, Ring!Next
  <2> QED
    BY <2>1, <2>2
<1> QED
  BY <1>1, <1>2, InitEstablishes, NextPreserves, PTL DEF Spec, FiresOnTime, Ring!Spec
=============================================================================
