--------------------------- MODULE PacketCounter ---------------------------
(***************************************************************************)
(* What a packet counter promises, whatever it is built from: frames are   *)
(* offered, each under some set of keys, and each is counted once under    *)
(* each of its keys, at some time after it was offered.  A count is never  *)
(* taken back, taken twice or taken for a frame that was not offered.      *)
(***************************************************************************)
EXTENDS Naturals

CONSTANT Keys

VARIABLES
  offered,  \* frames offered so far under each key
  counted   \* frames counted so far under each key

Init ==
  /\ offered = [k \in Keys |-> 0]
  /\ counted = [k \in Keys |-> 0]

Offer(ks) ==
  /\ offered' = [k \in Keys |-> offered[k] + IF k \in ks THEN 1 ELSE 0]
  /\ UNCHANGED counted

Count(k) ==
  /\ counted[k] < offered[k]
  /\ counted' = [counted EXCEPT ![k] = @ + 1]
  /\ UNCHANGED offered

Next ==
  \/ \E ks \in SUBSET Keys : Offer(ks)
  \/ \E k \in Keys : Count(k)

Spec == Init /\ [][Next]_<<offered, counted>>

=============================================================================
