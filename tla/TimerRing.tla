------------------------------ MODULE TimerRing ------------------------------
(***************************************************************************)
(* The abstract specification of the time wheel (internal/pkg/timewheel):  *)
(* every timer fires exactly after the number of ticks it was armed for,   *)
(* Remove and Move cancel one timer of the key and no other.  TimeWheel    *)
(* implements it with a bitmap and buckets.                                *)
(***************************************************************************)
EXTENDS TimerOps

CONSTANTS Keys,     \* room identifiers
          MaxAhead  \* bound on the minutes a caller asks for

VARIABLES pending,  \* key -> distances at which it will fire
          expired   \* what the last Tick returned

ringVars == <<pending, expired>>

Init == /\ pending = [k \in Keys |-> {}]
        /\ expired = {}

Add(k, minutes) == /\ pending' = Armed(pending, k, minutes)
                   /\ UNCHANGED expired

Move(k, minutes) == /\ \E t \in Disarmed(pending, k) : pending' = Armed(t, k, minutes)
                    /\ UNCHANGED expired

Remove(k) == /\ pending' \in Disarmed(pending, k)
             /\ UNCHANGED expired

Tick == /\ expired' = Due(pending)
        /\ pending' = Turned(pending)

Next == \/ \E k \in Keys, m \in 0 .. MaxAhead : Add(k, m) \/ Move(k, m)
        \/ \E k \in Keys : Remove(k)
        \/ Tick

Spec == Init /\ [][Next]_ringVars
=============================================================================
