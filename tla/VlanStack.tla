----------------------------- MODULE VlanStack -----------------------------
(***************************************************************************)
(* What the rewriting helpers promise of a frame, said of the frame as a   *)
(* value: VLAN tags are pushed and popped behind the addresses, and two    *)
(* addresses are swapped.  A call that fails returns -1 and changes        *)
(* nothing.                                                                *)
(*                                                                         *)
(* A frame is its addresses, its outer type and what follows, in units of  *)
(* two bytes; a tag in front of the rest is its TCI and the type behind.   *)
(***************************************************************************)
EXTENDS Integers, Sequences

CONSTANTS
  Vlids,     \* the ids pushed
  IsVlan(_), \* a type announces a tag
  Tagged,    \* the type a push leaves in front
  Swap(_)    \* byte order

VARIABLES
  frame,     \* [dest, source, type, rest]
  ret        \* what the last call returned

\* A caller of Pop may rely on the VLAN ID, the low 12 bits of the TCI.  The
\* priority bits above it may come along, so that the answer is the ID itself
\* only of a tag without priority.
GivesId(answer, tci) ==
  /\ answer % 4096 = tci % 4096
  /\ tci < 4096 => answer = tci

Pop ==
  /\ IsVlan(frame.type) /\ Len(frame.rest) >= 2
  /\ GivesId(ret', Swap(frame.rest[1]))
  /\ frame' = [frame EXCEPT !.type = frame.rest[2],
                            !.rest = SubSeq(@, 3, Len(@))]

Push(vlid) ==
  /\ ret' = 0
  /\ frame' = [frame EXCEPT !.type = Tagged,
                            !.rest = <<Swap(vlid), frame.type>> \o @]

SwapMac ==
  /\ frame' = [frame EXCEPT !.dest = frame.source, !.source = frame.dest]
  /\ UNCHANGED ret

\* Addresses of n units at i and at i + n of the network header.
SwapIp(i, n) ==
  /\ i + 2 * n - 1 <= Len(frame.rest)
  /\ frame' = [frame EXCEPT !.rest =
                 [k \in DOMAIN @ |-> IF k \in i .. i + n - 1 THEN @[k + n]
                                     ELSE IF k \in i + n .. i + 2 * n - 1 THEN @[k - n]
                                     ELSE @[k]]]
  /\ UNCHANGED ret

Fail == ret' = -1 /\ UNCHANGED frame

Next ==
  \/ Pop \/ Fail \/ SwapMac
  \/ \E vlid \in Vlids : Push(vlid)
  \/ \E at \in {<<7, 2>>, <<5, 8>>} : SwapIp(at[1], at[2])

Spec == ret = 0 /\ [][Next]_<<frame, ret>>

=============================================================================
