---------------------------- MODULE VlanRewrite ----------------------------
(***************************************************************************)
(* The rewriting helpers of common/rewrite_helpers.h, on the memory of one *)
(* packet.  An XDP program calls them one after the other, with a pointer  *)
(* to the Ethernet header that it has just read from ctx and checked.      *)
(*                                                                         *)
(* Memory is in units of two bytes: `mem' is the buffer with its headroom, *)
(* the frame lies between ctx.data and ctx.data_end, and a pointer is an   *)
(* index.  bpf_xdp_adjust_head moves ctx.data; a pointer read before does  *)
(* not move with it, and what it points to may lie outside the frame.      *)
(***************************************************************************)
EXTENDS Parsing

CONSTANTS
  Packets,   \* packets that may arrive: [headroom, cells]
  Vlids,     \* ids that programs push
  MaxCalls   \* bound: calls of a helper per packet

ASSUME PacketsAssumption ==
  /\ MaxCalls \in Nat
  /\ Vlids \subseteq Nat
  /\ \A k \in Packets : k.headroom \in Nat /\ k.cells \in Seq(Nat) /\ Len(k.cells) >= 7

\* sizeof() of the headers in units, and the place of the type field.
ETH     == 7
VLAN    == 2
h_proto == 6

VARIABLES
  mem, data, data_end,           \* the buffer and ctx
  pc,                            \* where the called helper is, "idle" outside
  eth, eth_cpy, vlid, inner,     \* its local variables: inner is pop's h_proto
  ret,                           \* what the last call returned
  calls,                         \* how many there were
  touched,                       \* the units the last step read or wrote
  before                         \* history: the frame when the helper was called

packet == <<mem, data, data_end>>
locals == <<eth, eth_cpy, vlid, inner>>
vars   == <<packet, pc, locals, ret, calls, touched, before>>

Span(i, n) == i .. i + n - 1

Header == [k \in 0 .. ETH - 1 |-> 0]

\* The frame as a value.
FrameAt(m, from, to) ==
  [dest |-> [k \in 1..3 |-> m[from + k - 1]],
   source |-> [k \in 1..3 |-> m[from + k + 2]],
   type |-> m[from + h_proto],
   rest |-> [k \in 1 .. to - from - ETH |-> m[from + ETH + k - 1]]]

\* The headroom holds whatever was there before.
Init ==
  /\ \E k \in Packets :
       /\ mem = [i \in 0 .. k.headroom + Len(k.cells) - 1 |->
                   IF i < k.headroom THEN 9999 ELSE k.cells[i - k.headroom + 1]]
       /\ data = k.headroom
       /\ data_end = k.headroom + Len(k.cells)
  /\ pc = "idle"
  /\ eth = 0 /\ eth_cpy = Header /\ vlid = 0 /\ inner = 0
  /\ ret = 0 /\ calls = 0 /\ touched = {}
  /\ before = FrameAt(mem, data, data_end)

-----------------------------------------------------------------------------
\* The program calls a helper: it has ctx.data in eth, and eth + 1 <= data_end.
Call(l) ==
  /\ pc = "idle" /\ calls < MaxCalls
  /\ calls' = calls + 1
  /\ pc' = l
  /\ eth' = data
  /\ before' = FrameAt(mem, data, data_end)
  /\ touched' = {}
  /\ UNCHANGED <<packet, eth_cpy, inner>>

CallPop == Call("pop") /\ UNCHANGED <<vlid, ret>>

CallPush(v) == Call("push") /\ vlid' = v /\ UNCHANGED ret

Return(r) == pc' = "idle" /\ ret' = r

\* bpf_xdp_adjust_head: the head stays in the buffer and leaves room for an
\* Ethernet header; otherwise, or without a reason, nothing happens.
AdjustHead(delta) ==
  /\ data + delta >= 0
  /\ data + delta <= data_end - ETH
  /\ data' = data + delta
  /\ UNCHANGED <<mem, data_end>>

-----------------------------------------------------------------------------
(* vlan_tag_pop.                                                           *)

\* The tag is read and the Ethernet header copied.
PopRead ==
  LET vlh == eth + ETH
  IN  /\ pc = "pop"
      /\ IF ~proto_is_vlan(mem[eth + h_proto])
         THEN Return(-1) /\ touched' = {eth + h_proto} /\ UNCHANGED locals
         ELSE IF vlh + VLAN > data_end
         THEN Return(-1) /\ touched' = {eth + h_proto} /\ UNCHANGED locals
         ELSE /\ vlid' = bpf_ntohs(mem[vlh])
              /\ inner' = mem[vlh + 1]
              /\ eth_cpy' = [k \in 0 .. ETH - 1 |-> mem[eth + k]]
              /\ touched' = Span(eth, ETH + VLAN)
              /\ pc' = "pop adjust"
              /\ UNCHANGED <<eth, ret>>
      /\ UNCHANGED <<packet, calls, before>>

PopAdjust ==
  /\ pc = "pop adjust"
  /\ \/ AdjustHead(VLAN) /\ pc' = "pop write" /\ UNCHANGED ret
     \/ Return(-1) /\ UNCHANGED packet
  /\ touched' = {}
  /\ UNCHANGED <<locals, calls, before>>

\* A header and its type written at e.
Written(e, type) ==
  [i \in DOMAIN mem |-> IF i = e + h_proto THEN type
                        ELSE IF i \in Span(e, ETH) THEN eth_cpy[i - e]
                        ELSE mem[i]]

\* Mutant of HeaderNow: the pointer from before the adjustment.
HeaderNow_Stale == eth

\* eth = ctx->data, read again after the adjustment.
HeaderNow == data

PopWrite ==
  LET e == HeaderNow
  IN  /\ pc = "pop write"
      /\ IF e + ETH > data_end
         THEN Return(-1) /\ touched' = {} /\ UNCHANGED mem
         ELSE Return(vlid) /\ touched' = Span(e, ETH) /\ mem' = Written(e, inner)
      /\ eth' = e
      /\ UNCHANGED <<data, data_end, eth_cpy, vlid, inner, calls, before>>

-----------------------------------------------------------------------------
(* vlan_tag_push.                                                          *)

PushAdjust ==
  /\ pc = "push"
  /\ eth_cpy' = [k \in 0 .. ETH - 1 |-> mem[eth + k]]
  /\ touched' = Span(eth, ETH)
  /\ \/ AdjustHead(-VLAN) /\ pc' = "push write" /\ UNCHANGED ret
     \/ Return(-1) /\ UNCHANGED packet
  /\ UNCHANGED <<eth, vlid, inner, calls, before>>

\* Mutant of Tag: the type in front of the tag is overwritten before it is
\* copied behind it.
Tag_TypeFirst(m, e) ==
  [m EXCEPT ![e + ETH] = bpf_htons(vlid % (256 * 256)),
            ![e + ETH + 1] = bpf_htons(ETH_P_8021Q),
            ![e + h_proto] = bpf_htons(ETH_P_8021Q)]

\* The tag behind the header at e, and the type that announces it.
Tag(m, e) ==
  [m EXCEPT ![e + ETH] = bpf_htons(vlid % (256 * 256)),
            ![e + ETH + 1] = m[e + h_proto],
            ![e + h_proto] = bpf_htons(ETH_P_8021Q)]

PushWrite ==
  LET e == HeaderNow
  IN  /\ pc = "push write"
      /\ IF e + ETH > data_end
         THEN Return(-1) /\ touched' = {} /\ UNCHANGED mem
         ELSE IF e + ETH + VLAN > data_end
         THEN Return(-1) /\ touched' = Span(e, ETH) /\ mem' = Written(e, eth_cpy[h_proto])
         ELSE /\ Return(0) /\ touched' = Span(e, ETH + VLAN)
              /\ mem' = Tag(Written(e, eth_cpy[h_proto]), e)
      /\ eth' = e
      /\ UNCHANGED <<data, data_end, eth_cpy, vlid, inner, calls, before>>

-----------------------------------------------------------------------------
(* Address swaps: n units at i and at j change places.                     *)

SwapCells(i, j, n) ==
  /\ pc = "idle" /\ calls < MaxCalls
  /\ mem' = [k \in DOMAIN mem |->
               IF k \in Span(i, n) THEN mem[k + j - i]
               ELSE IF k \in Span(j, n) THEN mem[k + i - j] ELSE mem[k]]
  /\ touched' = Span(i, n) \cup Span(j, n)
  /\ calls' = calls + 1
  /\ UNCHANGED <<data, data_end, pc, locals, ret, before>>

swap_src_dst_mac == SwapCells(data, data + 3, 3)

\* The program calls the next two on a header of their kind that fits.
swap_src_dst_ipv4 ==
  /\ mem[data + h_proto] = bpf_htons(ETH_P_IP) /\ data + ETH + 10 <= data_end
  /\ SwapCells(data + ETH + 6, data + ETH + 8, 2)

swap_src_dst_ipv6 ==
  /\ mem[data + h_proto] = bpf_htons(ETH_P_IPV6) /\ data + ETH + 20 <= data_end
  /\ SwapCells(data + ETH + 4, data + ETH + 12, 8)

-----------------------------------------------------------------------------
vlan_tag_pop  == PopRead \/ PopAdjust \/ PopWrite
vlan_tag_push == PushAdjust \/ PushWrite

Next ==
  \/ CallPop \/ (\E v \in Vlids : CallPush(v))
  \/ vlan_tag_pop \/ vlan_tag_push
  \/ swap_src_dst_mac \/ swap_src_dst_ipv4 \/ swap_src_dst_ipv6

Spec == Init /\ [][Next]_vars

-----------------------------------------------------------------------------
(* Properties.                                                             *)

\* No helper touches a byte outside the frame as it is at that moment, whether
\* the head has just been moved forwards or backwards.
TouchesFrameOnly == touched \subseteq data .. data_end - 1

\* A call takes effect when it returns, on the frame as a whole: a helper that
\* fails, at whatever step, has not changed the frame, and one that succeeds
\* has pushed or popped exactly one tag and kept everything else.  Of what
\* vlan_tag_pop returns, only the VLAN ID in the low 12 bits is promised: it
\* returns the whole TCI, where its comment says "the popped VLAN ID".
frame == IF pc = "idle" THEN FrameAt(mem, data, data_end) ELSE before

Stack == INSTANCE VlanStack WITH
  Vlids <- {v % (256 * 256) : v \in Vlids},
  IsVlan <- proto_is_vlan, Tagged <- bpf_htons(ETH_P_8021Q), Swap <- bpf_htons

ImplementsVlanStack == Stack!Spec

=============================================================================
