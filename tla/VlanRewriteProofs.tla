------------------------- MODULE VlanRewriteProofs -------------------------
(***************************************************************************)
(* Proofs about VlanRewrite, for packets of every length, headroom and     *)
(* content: the helpers touch the frame only, and what they do to memory   *)
(* is what VlanStack does to the frame as a value.                         *)
(***************************************************************************)
EXTENDS VlanRewrite, SequenceTheorems, TLAPS

-----------------------------------------------------------------------------
(* The inductive invariant.                                                *)

Idle == pc = "idle"

\* The buffer begins at 0 and ends with the frame, which holds at least an
\* Ethernet header.
Buffer ==
  /\ data \in Int /\ data_end \in Int
  /\ 0 <= data /\ data + ETH <= data_end
  /\ DOMAIN mem = 0 .. data_end - 1
  /\ pc \in {"idle", "pop", "pop adjust", "pop write", "push", "push write"}

\* While a helper runs, the frame it was called on is still in memory, at the
\* pointer it was given, whether or not the head has moved away.
Called ==
  ~Idle =>
    /\ eth \in Int /\ 0 <= eth /\ eth + ETH <= data_end
    /\ before = FrameAt(mem, eth, data_end)

Moved ==
  /\ pc \in {"pop", "pop adjust", "push"} => data = eth
  /\ pc = "pop write" => data = eth + VLAN
  /\ pc = "push write" => data = eth - VLAN

\* What it has read so far.
Copied ==
  pc \in {"pop adjust", "pop write", "push write"} =>
    \A k \in 0 .. ETH - 1 : eth_cpy[k] = mem[eth + k]

Popped ==
  pc \in {"pop adjust", "pop write"} =>
    /\ proto_is_vlan(mem[eth + h_proto])
    /\ eth + ETH + VLAN <= data_end
    /\ vlid = bpf_ntohs(mem[eth + ETH])
    /\ inner = mem[eth + ETH + 1]

Pushed == pc \in {"push", "push write"} => vlid \in Vlids

VInv == Buffer /\ Called /\ Moved /\ Copied /\ Popped /\ Pushed /\ TouchesFrameOnly

-----------------------------------------------------------------------------
(* The invariant holds.                                                    *)

\* The cells of an access inside a range.
LEMMA SpanIn ==
  ASSUME NEW i \in Int, NEW n \in Int, NEW a \in Int, NEW b \in Int, a <= i, i + n <= b
  PROVE  Span(i, n) \subseteq a .. b - 1
BY DEF Span

\* A packet in its buffer.
LEMMA InitVInv == Init => VInv
<1>. SUFFICES ASSUME Init PROVE VInv
  OBVIOUS
<1>1. PICK k \in Packets :
        /\ mem = [i \in 0 .. k.headroom + Len(k.cells) - 1 |->
                    IF i < k.headroom THEN 9999 ELSE k.cells[i - k.headroom + 1]]
        /\ data = k.headroom
        /\ data_end = k.headroom + Len(k.cells)
  BY DEF Init
<1>2. k.headroom \in Nat /\ Len(k.cells) \in Nat /\ Len(k.cells) >= 7
  BY PacketsAssumption
<1>3. pc = "idle" /\ touched = {}
  BY DEF Init
<1>4. Buffer
  <2>1. data \in Int /\ data_end \in Int /\ 0 <= data /\ data + 7 <= data_end
    BY <1>1, <1>2
  <2>2. DOMAIN mem = 0 .. data_end - 1
    BY <1>1, <1>2
  <2>. QED
    BY <2>1, <2>2, <1>3 DEF Buffer, ETH
<1>. QED
  BY <1>3, <1>4 DEF VInv, Called, Idle, Moved, Copied, Popped, Pushed, TouchesFrameOnly

\* A call sets the pointer to the head and remembers the frame.
LEMMA CallVInv ==
  ASSUME VInv, NEW l \in {"pop", "push"}, Call(l), l = "push" => vlid' \in Vlids
  PROVE  VInv'
<1>. USE DEF VInv, Call, packet
<1>1. Buffer' /\ Moved'
  BY DEF Buffer, Moved
<1>2. Called'
  BY DEF Buffer, Called, Idle, ETH, FrameAt
<1>3. Copied' /\ Popped' /\ Pushed' /\ TouchesFrameOnly'
  BY DEF Copied, Popped, Pushed, TouchesFrameOnly
<1>. QED
  BY <1>1, <1>2, <1>3

\* vlan_tag_pop copies the Ethernet header and reads the tag.
LEMMA PopReadVInv == ASSUME VInv, PopRead PROVE VInv'
<1>0. Buffer /\ Called /\ Moved /\ eth = data
  BY DEF VInv, Moved, PopRead
<1>1. mem' = mem /\ data' = data /\ data_end' = data_end /\ eth' = eth /\ before' = before
  BY DEF PopRead, packet, locals, Return
<1>2. Buffer' /\ Moved'
  BY <1>0, <1>1 DEF Buffer, Moved, PopRead, Return
<1>3. Called'
  BY <1>0, <1>1 DEF Called, Idle, FrameAt, PopRead
<1>4. Copied'
  BY <1>1 DEF Copied, PopRead, Return
<1>9. data \in Int /\ data_end \in Int /\ 0 <= data /\ data + 7 <= data_end
  BY <1>0 DEF Buffer, ETH
<1>. DEFINE Tagged == proto_is_vlan(mem[eth + h_proto]) /\ ~(eth + ETH + VLAN > data_end)
<1>5. Popped' /\ Pushed' /\ TouchesFrameOnly'
  <2>1. CASE Tagged
    <3>1. /\ vlid' = bpf_ntohs(mem[eth + ETH]) /\ inner' = mem[eth + ETH + 1]
          /\ touched' = Span(eth, ETH + VLAN) /\ pc' = "pop adjust"
      BY <2>1 DEF PopRead
    <3>2. eth + (ETH + VLAN) <= data_end /\ eth + ETH + VLAN <= data_end
      <4>1. eth \in Int /\ ~(eth + 7 + 2 > data_end)
        BY <2>1, <1>0, <1>9 DEF ETH, VLAN
      <4>. QED
        BY <4>1, <1>9 DEF ETH, VLAN
    <3>3. touched' \subseteq data .. data_end - 1
      <4>1. eth \in Int /\ data <= eth /\ ETH + VLAN \in Int
        BY <1>0, <1>9 DEF ETH, VLAN
      <4>. QED
        BY <3>1, <3>2, <4>1, <1>9, SpanIn
    <3>. QED
      BY <2>1, <3>1, <3>2, <3>3, <1>1 DEF Popped, Pushed, TouchesFrameOnly
  <2>2. CASE ~Tagged
    <3>1. pc' = "idle" /\ touched' = {eth + h_proto}
      BY <2>2 DEF PopRead, Return
    <3>2. eth + h_proto \in data .. data_end - 1
      <4>1. eth = data
        BY <1>0
      <4>. QED
        BY <4>1, <1>9 DEF h_proto
    <3>. QED
      BY <3>1, <3>2, <1>1 DEF Popped, Pushed, TouchesFrameOnly
  <2>. QED
    BY <2>1, <2>2
<1>. QED
  BY <1>2, <1>3, <1>4, <1>5 DEF VInv

\* vlan_tag_pop moves the start of the packet.
LEMMA PopAdjustVInv == ASSUME VInv, PopAdjust PROVE VInv'
<1>0. Buffer /\ Called /\ Moved /\ Copied /\ Popped /\ eth = data
  BY DEF VInv, Moved, PopAdjust
<1>1. /\ mem' = mem /\ data_end' = data_end /\ eth' = eth /\ before' = before
      /\ eth_cpy' = eth_cpy /\ vlid' = vlid /\ inner' = inner
      /\ pc = "pop adjust" /\ pc' \in {"pop write", "idle"} /\ touched' = {}
  BY DEF PopAdjust, AdjustHead, packet, locals, Return
<1>9. data \in Int /\ data_end \in Int /\ 0 <= data /\ data + 7 <= data_end
  BY <1>0 DEF Buffer, ETH
<1>2. Buffer' /\ Moved'
  <2>1. CASE AdjustHead(VLAN) /\ pc' = "pop write"
    <3>1. data' = data + VLAN /\ 0 <= data + VLAN /\ data + VLAN <= data_end - ETH
      BY <2>1, <1>0 DEF AdjustHead, Buffer, VLAN
    <3>2. data' \in Int /\ 0 <= data' /\ data' + ETH <= data_end
      BY <3>1, <1>9 DEF ETH, VLAN
    <3>. QED
      BY <2>1, <3>1, <3>2, <1>0, <1>1 DEF Buffer, Moved
  <2>2. CASE pc' = "idle" /\ data' = data
    BY <2>2, <1>0, <1>1 DEF Buffer, Moved
  <2>. QED
    BY <2>1, <2>2 DEF PopAdjust, Return, packet
<1>3. Called'
  BY <1>0, <1>1 DEF Called, Idle, FrameAt
<1>4. Copied' /\ Popped'
  BY <1>0, <1>1 DEF Copied, Popped
<1>5. Pushed' /\ TouchesFrameOnly'
  BY <1>1 DEF Pushed, TouchesFrameOnly
<1>. QED
  BY <1>2, <1>3, <1>4, <1>5 DEF VInv

\* vlan_tag_pop writes the header back.
LEMMA PopWriteVInv == ASSUME VInv, PopWrite PROVE VInv'
<1>0. Buffer
  BY DEF VInv
<1>1. pc' = "idle" /\ data' = data /\ data_end' = data_end
  BY DEF PopWrite, HeaderNow, Return
<1>2. DOMAIN mem' = DOMAIN mem
  BY DEF PopWrite, Written
<1>3. Buffer'
  BY <1>0, <1>1, <1>2 DEF Buffer
<1>9. data \in Int /\ data_end \in Int /\ 0 <= data /\ data + 7 <= data_end
  BY <1>0 DEF Buffer, ETH
<1>4. TouchesFrameOnly'
  <2>1. touched' \in {{}, Span(data, ETH)}
    BY DEF PopWrite, HeaderNow, Return
  <2>. QED
    <3>1. data + ETH <= data_end /\ ETH \in Int /\ data <= data
      BY <1>9 DEF ETH
    <3>. QED
      BY <2>1, <3>1, <1>1, <1>9, SpanIn DEF TouchesFrameOnly
<1>. QED
  BY <1>1, <1>3, <1>4 DEF VInv, Called, Idle, Moved, Copied, Popped, Pushed

\* vlan_tag_push copies the header and moves the start of the packet.
LEMMA PushAdjustVInv == ASSUME VInv, PushAdjust PROVE VInv'
<1>0. Buffer /\ Called /\ Pushed /\ eth = data
  BY DEF VInv, Moved, PushAdjust
<1>1. /\ mem' = mem /\ data_end' = data_end /\ eth' = eth /\ before' = before
      /\ vlid' = vlid /\ pc = "push" /\ pc' \in {"push write", "idle"}
      /\ touched' = Span(eth, ETH) /\ eth_cpy' = [k \in 0 .. ETH - 1 |-> mem[eth + k]]
  BY DEF PushAdjust, AdjustHead, packet, Return
<1>9. data \in Int /\ data_end \in Int /\ 0 <= data /\ data + 7 <= data_end
  BY <1>0 DEF Buffer, ETH
<1>2. Buffer' /\ Moved' /\ data' <= data
  <2>1. CASE AdjustHead(-VLAN) /\ pc' = "push write"
    <3>1. data' = data + (-VLAN) /\ 0 <= data + (-VLAN) /\ data + (-VLAN) <= data_end - ETH
      BY <2>1, <1>0 DEF AdjustHead, Buffer, VLAN
    <3>2. /\ data' \in Int /\ 0 <= data' /\ data' + ETH <= data_end
          /\ data' = data - VLAN /\ data' <= data
      BY <3>1, <1>9 DEF ETH, VLAN
    <3>. QED
      BY <2>1, <3>1, <3>2, <1>0, <1>1 DEF Buffer, Moved
  <2>2. CASE pc' = "idle" /\ data' = data
    BY <2>2, <1>0, <1>1 DEF Buffer, Moved
  <2>. QED
    BY <2>1, <2>2, <1>0 DEF PushAdjust, Return, packet, Buffer
<1>3. Called'
  BY <1>0, <1>1 DEF Called, Idle, FrameAt
<1>4. Copied' /\ Popped' /\ Pushed'
  BY <1>0, <1>1 DEF Copied, Popped, Pushed
<1>5. TouchesFrameOnly'
  <2>1. touched' = Span(eth, ETH) /\ data' <= eth /\ eth + ETH <= data_end'
    BY <1>0, <1>1, <1>2 DEF Buffer
  <2>. QED
    <3>1. eth \in Int /\ ETH \in Int /\ data_end' \in Int
      <4>1. eth = data /\ data_end' = data_end
        BY <1>0, <1>1
      <4>. QED
        BY <4>1, <1>9 DEF ETH
    <3>2. data' \in Int
      BY <1>2 DEF Buffer
    <3>. QED
      BY <2>1, <3>1, <3>2, SpanIn DEF TouchesFrameOnly
<1>. QED
  BY <1>2, <1>3, <1>4, <1>5 DEF VInv

\* vlan_tag_push writes the header and the tag.
LEMMA PushWriteVInv == ASSUME VInv, PushWrite PROVE VInv'
<1>0. Buffer
  BY DEF VInv
<1>1. pc' = "idle" /\ data' = data /\ data_end' = data_end
  BY DEF PushWrite, HeaderNow, Return
<1>2. DOMAIN mem' = DOMAIN mem
  BY DEF PushWrite, Written, Tag
<1>3. Buffer'
  BY <1>0, <1>1, <1>2 DEF Buffer
<1>9. data \in Int /\ data_end \in Int /\ 0 <= data /\ data + 7 <= data_end
  BY <1>0 DEF Buffer, ETH
<1>4. TouchesFrameOnly'
  <2>1. \/ touched' \in {{}, Span(data, ETH)}
        \/ touched' = Span(data, ETH + VLAN) /\ ~(data + ETH + VLAN > data_end)
    BY DEF PushWrite, HeaderNow, Return
  <2>2. ASSUME ~(data + ETH + VLAN > data_end) PROVE data + (ETH + VLAN) <= data_end
    BY <2>2, <1>9 DEF ETH, VLAN
  <2>. QED
    <3>1. data + ETH <= data_end /\ ETH \in Int /\ ETH + VLAN \in Int /\ data <= data
      BY <1>9 DEF ETH, VLAN
    <3>. QED
      BY <2>1, <2>2, <3>1, <1>1, <1>9, SpanIn DEF TouchesFrameOnly
<1>. QED
  BY <1>1, <1>3, <1>4 DEF VInv, Called, Idle, Moved, Copied, Popped, Pushed

\* The swaps move no pointer.
LEMMA SwapVInv ==
  ASSUME VInv, NEW i \in Int, NEW j \in Int, NEW n \in Nat, SwapCells(i, j, n),
         data <= i, i + n <= data_end, data <= j, j + n <= data_end
  PROVE  VInv'
<1>. USE DEF SwapCells
<1>0. Buffer
  BY DEF VInv
<1>1. pc' = "idle" /\ data' = data /\ data_end' = data_end /\ DOMAIN mem' = DOMAIN mem
  OBVIOUS
<1>2. Buffer'
  BY <1>0, <1>1 DEF Buffer
<1>3. TouchesFrameOnly'
  BY <1>0, <1>1 DEF TouchesFrameOnly, Buffer, Span
<1>. QED
  BY <1>1, <1>2, <1>3 DEF VInv, Called, Idle, Moved, Copied, Popped, Pushed

\* Every step keeps the invariant.
LEMMA NextVInv == VInv /\ [Next]_vars => VInv'
<1>. SUFFICES ASSUME VInv, [Next]_vars PROVE VInv'
  OBVIOUS
<1>0. data \in Int /\ data_end \in Int /\ data + ETH <= data_end
  BY DEF VInv, Buffer
<1>1. CASE CallPop
  BY <1>1, CallVInv DEF CallPop
<1>2. ASSUME NEW v \in Vlids, CallPush(v) PROVE VInv'
  BY <1>2, CallVInv DEF CallPush
<1>3. CASE vlan_tag_pop
  BY <1>3, PopReadVInv, PopAdjustVInv, PopWriteVInv DEF vlan_tag_pop
<1>4. CASE vlan_tag_push
  BY <1>4, PushAdjustVInv, PushWriteVInv DEF vlan_tag_push
<1>5. CASE swap_src_dst_mac
  BY <1>0, <1>5, SwapVInv DEF swap_src_dst_mac, ETH
<1>6. CASE swap_src_dst_ipv4
  BY <1>0, <1>6, SwapVInv DEF swap_src_dst_ipv4, ETH
<1>7. CASE swap_src_dst_ipv6
  BY <1>0, <1>7, SwapVInv DEF swap_src_dst_ipv6, ETH
<1>8. CASE UNCHANGED vars
  BY <1>8 DEF vars, packet, locals, VInv, Buffer, Called, Idle, Moved, Copied, Popped, Pushed,
              TouchesFrameOnly, FrameAt
<1>. QED
  BY <1>1, <1>2, <1>3, <1>4, <1>5, <1>6, <1>7, <1>8 DEF Next

\* The invariant holds in every reachable state.
LEMMA VInvHolds == Spec => []VInv
BY InitVInv, NextVInv, PTL DEF Spec

\* No helper touches a unit outside the frame as it is at that moment, for
\* packets of every length and any amount of headroom.
THEOREM TouchesFrameOnlyHolds == Spec => []TouchesFrameOnly
<1>1. VInv => TouchesFrameOnly
  BY DEF VInv
<1>. QED
  BY <1>1, VInvHolds, PTL

-----------------------------------------------------------------------------
(* The refinement of VlanStack.                                            *)

\* The frame a reader of VlanStack sees: the one in memory, at the head while
\* no helper runs, at the pointer it was given while one does.
LEMMA FrameSeen ==
  ASSUME VInv
  PROVE  /\ pc = "idle" => frame = FrameAt(mem, data, data_end)
         /\ pc # "idle" => frame = FrameAt(mem, eth, data_end)
BY DEF VInv, Called, Idle, frame

\* Calling a helper changes no frame.
LEMMA CallStutters ==
  ASSUME VInv, NEW l \in {"pop", "push"}, Call(l), ret' = ret
  PROVE  UNCHANGED <<frame, ret>>
BY DEF Call, frame

\* A helper that returns -1 leaves the frame as it was when called.
LEMMA PopReadRefines ==
  ASSUME VInv, PopRead
  PROVE  Stack!Fail \/ UNCHANGED <<frame, ret>>
<1>1. eth = data /\ mem' = mem /\ data' = data /\ data_end' = data_end /\ pc = "pop"
  BY DEF VInv, Moved, PopRead, packet
<1>2. frame = FrameAt(mem, data, data_end) /\ before' = before /\ frame = before
  BY <1>1, FrameSeen DEF PopRead, frame
<1>3. CASE pc' = "idle"
  <2>1. ret' = -1
    BY <1>3 DEF PopRead, Return
  <2>2. frame' = FrameAt(mem, data, data_end)
    BY <1>1, <1>3 DEF frame, FrameAt
  <2>. QED
    BY <2>1, <2>2, <1>2 DEF Stack!Fail
<1>4. CASE pc' # "idle"
  BY <1>2, <1>4 DEF PopRead, Return, frame
<1>. QED
  BY <1>3, <1>4

\* Moving the start of the packet is not seen before the header is written, or fails.
LEMMA AdjustRefines ==
  ASSUME VInv, PopAdjust \/ PushAdjust
  PROVE  Stack!Fail \/ UNCHANGED <<frame, ret>>
<1>1. eth = data /\ pc # "idle" /\ before' = before
  BY DEF VInv, Moved, PopAdjust, PushAdjust
<1>2. frame = FrameAt(mem, data, data_end) /\ frame = before
  BY <1>1, FrameSeen DEF frame
<1>3. CASE pc' = "idle"
  <2>1. ret' = -1 /\ mem' = mem /\ data' = data /\ data_end' = data_end
    BY <1>3 DEF PopAdjust, PushAdjust, Return, packet
  <2>2. frame' = FrameAt(mem, data, data_end)
    BY <2>1, <1>3 DEF frame, FrameAt
  <2>. QED
    BY <2>1, <2>2, <1>2 DEF Stack!Fail
<1>4. CASE pc' # "idle"
  BY <1>1, <1>2, <1>4 DEF PopAdjust, PushAdjust, Return, frame
<1>. QED
  BY <1>3, <1>4

-----------------------------------------------------------------------------
(* Frames as values.                                                       *)

\* What follows the Ethernet header, and its elements.
Rest(m, from, to) == [k \in 1 .. to - from - ETH |-> m[from + ETH + k - 1]]

\* What follows the Ethernet header is a sequence of cells.
LEMMA RestSeq ==
  ASSUME NEW m, NEW from \in Int, NEW to \in Int, from + ETH <= to,
         NEW S, \A i \in from + ETH .. to - 1 : m[i] \in S
  PROVE  /\ Rest(m, from, to) \in Seq(S)
         /\ Len(Rest(m, from, to)) = to - from - ETH
         /\ DOMAIN Rest(m, from, to) = 1 .. to - from - ETH
         /\ \A k \in 1 .. to - from - ETH : Rest(m, from, to)[k] = m[from + ETH + k - 1]
<1>. DEFINE n == to - from - ETH
            r == Rest(m, from, to)
<1>1. n \in Nat
  BY DEF ETH
<1>2. \A k \in 1 .. n : m[from + ETH + k - 1] \in S
  <2>1. ASSUME NEW k \in 1 .. n PROVE from + ETH + k - 1 \in from + ETH .. to - 1
    BY <1>1 DEF ETH
  <2>. QED
    BY <2>1
<1>3. r = [k \in 1 .. n |-> m[from + ETH + k - 1]]
  BY DEF Rest
<1>4. r \in [1 .. n -> S]
  BY <1>2, <1>3
<1>5. r \in Seq(S)
  BY <1>1, <1>4, SeqDef
<1>6. Len(r) = n
  BY <1>1, <1>4, <1>5, LenProperties
<1>. QED
  BY <1>3, <1>5, <1>6

\* The fields of the frame between two positions.
LEMMA FrameFields ==
  ASSUME NEW m, NEW from, NEW to
  PROVE  FrameAt(m, from, to) =
           [dest |-> [k \in 1..3 |-> m[from + k - 1]],
            source |-> [k \in 1..3 |-> m[from + k + 2]],
            type |-> m[from + h_proto],
            rest |-> Rest(m, from, to)]
BY DEF FrameAt, Rest

\* Memory from which the tag behind the header at f is cut out: the addresses
\* are moved up to it.
CutOut(m, w, f, t) ==
  /\ f \in Int /\ t \in Int /\ f + 9 <= t
  /\ \A k \in 0..5 : w[f + 2 + k] = m[f + k]
  /\ w[f + 8] = m[f + 8]
  /\ \A i \in f + 9 .. t - 1 : w[i] = m[i]

\* A frame F, and G without its tag.
WithoutTag(F, G, tci) ==
  /\ Len(F.rest) >= 2 /\ F.rest[1] = tci
  /\ G.dest = F.dest /\ G.source = F.source /\ G.type = F.rest[2]
  /\ G.rest = SubSeq(F.rest, 3, Len(F.rest))

\* What vlan_tag_pop has done to the cells is the frame without its tag.
LEMMA PopFrame ==
  ASSUME NEW m, NEW w, NEW f, NEW t, NEW g, CutOut(m, w, f, t), g = f + 2
  PROVE  WithoutTag(FrameAt(m, f, t), FrameAt(w, g, t), m[f + 7])
<1>0. /\ f \in Int /\ t \in Int /\ f + 9 <= t
      /\ \A k \in 0..5 : w[f + 2 + k] = m[f + k]
      /\ w[f + 8] = m[f + 8]
      /\ \A i \in f + 9 .. t - 1 : w[i] = m[i]
  BY DEF CutOut
<1>. USE <1>0
<1>. DEFINE S == {m[i] : i \in f .. t - 1}
            r == Rest(m, f, t)
            u == Rest(w, f + 2, t)
<1>1. /\ r \in Seq(S) /\ Len(r) = t - f - 7
      /\ \A k \in 1 .. t - f - 7 : r[k] = m[f + 7 + k - 1]
  <2>1. \A i \in f + 7 .. t - 1 : m[i] \in S
    <3>1. ASSUME NEW i \in f + 7 .. t - 1 PROVE i \in f .. t - 1
      OBVIOUS
    <3>. QED
      BY <3>1
  <2>2. f + ETH <= t /\ \A i \in f + ETH .. t - 1 : m[i] \in S
    BY <2>1 DEF ETH
  <2>. HIDE DEF S
  <2>3. /\ r \in Seq(S) /\ Len(r) = t - f - ETH
        /\ \A k \in 1 .. t - f - ETH : r[k] = m[f + ETH + k - 1]
    BY <2>2, RestSeq
  <2>. QED
    BY <2>3 DEF ETH
<1>2. /\ u \in Seq(S) /\ Len(u) = t - f - 9
      /\ \A k \in 1 .. t - f - 9 : u[k] = m[f + 9 + k - 1]
  <2>1. \A i \in f + 9 .. t - 1 : w[i] = m[i] /\ m[i] \in S
    <3>1. ASSUME NEW i \in f + 9 .. t - 1 PROVE i \in f .. t - 1
      OBVIOUS
    <3>. QED
      BY <3>1
  <2>2. /\ f + 2 \in Int /\ (f + 2) + ETH <= t
        /\ \A i \in (f + 2) + ETH .. t - 1 : w[i] \in S
    BY <2>1 DEF ETH
  <2>. HIDE DEF S
  <2>3. /\ u \in Seq(S) /\ Len(u) = t - (f + 2) - ETH
        /\ \A k \in 1 .. t - (f + 2) - ETH : u[k] = w[(f + 2) + ETH + k - 1]
    <3>1. ASSUME NEW h \in Int, t \in Int, h + ETH <= t, \A i \in h + ETH .. t - 1 : w[i] \in S
          PROVE  /\ Rest(w, h, t) \in Seq(S) /\ Len(Rest(w, h, t)) = t - h - ETH
                 /\ \A k \in 1 .. t - h - ETH : Rest(w, h, t)[k] = w[h + ETH + k - 1]
      BY ONLY <3>1, RestSeq
    <3>. QED
      BY <2>2, <3>1
  <2>4. t - (f + 2) - ETH = t - f - 9
    BY DEF ETH
  <2>5. ASSUME NEW k \in 1 .. t - f - 9
        PROVE  /\ (f + 2) + ETH + k - 1 = f + 9 + k - 1
               /\ f + 9 + k - 1 \in f + 9 .. t - 1
    BY DEF ETH
  <2>. QED
    BY <2>1, <2>3, <2>4, <2>5
<1>. HIDE DEF S, r, u
<1>. DEFINE v == SubSeq(r, 3, Len(r))
<1>3. /\ v \in Seq(S) /\ Len(v) = t - f - 9
      /\ \A k \in 1 .. t - f - 9 : v[k] = r[3 + k - 1]
  <2>1. \A i \in 3 .. Len(r) : r[i] \in S
    <3>1. ASSUME NEW i \in 3 .. Len(r) PROVE i \in 1 .. Len(r)
      BY <1>1
    <3>. QED
      BY ONLY <3>1, <1>1, ElementOfSeq
  <2>2. Len(r) \in Int /\ 3 \in Int
    BY <1>1
  <2>3. /\ v \in Seq(S)
        /\ Len(v) = IF 3 <= Len(r) THEN Len(r) - 3 + 1 ELSE 0
        /\ \A i \in 1 .. Len(r) - 3 + 1 : v[i] = r[3 + i - 1]
    BY <2>1, <2>2, SubSeqProperties
  <2>4. (IF 3 <= Len(r) THEN Len(r) - 3 + 1 ELSE 0) = t - f - 9 /\ Len(r) - 3 + 1 = t - f - 9
    BY <1>1
  <2>. QED
    BY <2>3, <2>4
<1>4. u = v
  <2>1. ASSUME NEW k \in 1 .. t - f - 9 PROVE u[k] = v[k]
    <3>1. 3 + k - 1 \in 1 .. t - f - 7 /\ f + 7 + (3 + k - 1) - 1 = f + 9 + k - 1
      OBVIOUS
    <3>. QED
      BY <3>1, <1>1, <1>2, <1>3
  <2>. QED
    BY <2>1, <1>2, <1>3, SeqEqual
<1>5. r[1] = m[f + 7] /\ r[2] = m[f + 8]
  <2>1. 1 \in 1 .. t - f - 7 /\ 2 \in 1 .. t - f - 7 /\ f + 7 + 1 - 1 = f + 7 /\ f + 7 + 2 - 1 = f + 8
    OBVIOUS
  <2>. QED
    BY <2>1, <1>1
<1>6. /\ \A k \in 1..3 : w[(f + 2) + k - 1] = m[f + k - 1]
      /\ \A k \in 1..3 : w[(f + 2) + k + 2] = m[f + k + 2]
      /\ w[(f + 2) + h_proto] = m[f + 8]
  <2>1. ASSUME NEW k \in 1..3
        PROVE  /\ k - 1 \in 0..5 /\ (f + 2) + k - 1 = f + 2 + (k - 1) /\ f + k - 1 = f + (k - 1)
               /\ k + 2 \in 0..5 /\ (f + 2) + k + 2 = f + 2 + (k + 2) /\ f + k + 2 = f + (k + 2)
    OBVIOUS
  <2>2. (f + 2) + h_proto = f + 8
    BY DEF h_proto
  <2>. QED
    BY <2>1, <2>2
<1>7. FrameAt(m, f, t) = [dest |-> [k \in 1..3 |-> m[f + k - 1]],
                          source |-> [k \in 1..3 |-> m[f + k + 2]],
                          type |-> m[f + h_proto], rest |-> r]
  BY FrameFields DEF r
<1>8. FrameAt(w, f + 2, t) = [dest |-> [k \in 1..3 |-> m[f + k - 1]],
                              source |-> [k \in 1..3 |-> m[f + k + 2]],
                              type |-> m[f + 8], rest |-> u]
  <2>1. FrameAt(w, f + 2, t) = [dest |-> [k \in 1..3 |-> w[(f + 2) + k - 1]],
                                source |-> [k \in 1..3 |-> w[(f + 2) + k + 2]],
                                type |-> w[(f + 2) + h_proto], rest |-> u]
    BY FrameFields DEF u
  <2>. QED
    BY <2>1, <1>6
<1>9. Len(r) >= 2
  BY <1>1
<1>. DEFINE F == FrameAt(m, f, t)
            G == FrameAt(w, g, t)
<1>10. F.rest = r /\ G.dest = F.dest /\ G.source = F.source /\ G.type = m[f + 8] /\ G.rest = u
  BY ONLY <1>7, <1>8, g = f + 2
<1>. HIDE DEF F, G, v
<1>11. G.rest = SubSeq(F.rest, 3, Len(F.rest))
  BY <1>4, <1>10 DEF v
<1>. QED
  BY <1>5, <1>9, <1>10, <1>11 DEF F, G, WithoutTag

\* Memory in which a tag is put behind the header at f: the addresses are
\* moved down to make room.
PutIn(m, w, f, t, type, x) ==
  /\ f \in Int /\ t \in Int /\ f + 7 <= t
  /\ \A k \in 0..5 : w[f - 2 + k] = m[f + k]
  /\ w[f + 4] = type /\ w[f + 5] = x /\ w[f + 6] = m[f + 6]
  /\ \A i \in f + 7 .. t - 1 : w[i] = m[i]

\* A frame F, and G with a tag in front of its rest.
WithTag(F, G, type, x) ==
  /\ G.dest = F.dest /\ G.source = F.source /\ G.type = type
  /\ G.rest = <<x, F.type>> \o F.rest

\* What vlan_tag_push has done to the cells is the frame with a tag.
LEMMA PushFrame ==
  ASSUME NEW m, NEW w, NEW f, NEW t, NEW g, NEW x, NEW type,
         PutIn(m, w, f, t, type, x), g = f - 2
  PROVE  WithTag(FrameAt(m, f, t), FrameAt(w, g, t), type, x)
<1>0. /\ f \in Int /\ t \in Int /\ f + 7 <= t
      /\ \A k \in 0..5 : w[f - 2 + k] = m[f + k]
      /\ w[f + 4] = type /\ w[f + 5] = x /\ w[f + 6] = m[f + 6]
      /\ \A i \in f + 7 .. t - 1 : w[i] = m[i]
  BY DEF PutIn
<1>. USE <1>0
<1>. DEFINE y == m[f + 6]
            S == {m[i] : i \in f .. t - 1} \cup {x, y}
            r == Rest(m, f, t)
            u == Rest(w, f - 2, t)
            v == <<x, y>> \o r
<1>1. /\ r \in Seq(S) /\ Len(r) = t - f - 7
      /\ \A k \in 1 .. t - f - 7 : r[k] = m[f + 7 + k - 1]
  <2>1. \A i \in f + 7 .. t - 1 : m[i] \in S
    <3>1. ASSUME NEW i \in f + 7 .. t - 1 PROVE i \in f .. t - 1
      OBVIOUS
    <3>. QED
      BY <3>1
  <2>2. f + ETH <= t /\ \A i \in f + ETH .. t - 1 : m[i] \in S
    BY <2>1 DEF ETH
  <2>. HIDE DEF S
  <2>3. /\ r \in Seq(S) /\ Len(r) = t - f - ETH
        /\ \A k \in 1 .. t - f - ETH : r[k] = m[f + ETH + k - 1]
    BY <2>2, RestSeq
  <2>. QED
    BY <2>3 DEF ETH
<1>2. /\ u \in Seq(S) /\ Len(u) = t - f - 5
      /\ \A k \in 1 .. t - f - 5 : u[k] = w[f + 5 + k - 1]
  <2>1. ASSUME NEW i \in f + 5 .. t - 1 PROVE w[i] \in S
    <3>1. i \in f .. t - 1 /\ (i = f + 5 \/ i = f + 6 \/ i \in f + 7 .. t - 1)
      OBVIOUS
    <3>. QED
      BY <3>1
  <2>2. f - 2 \in Int /\ (f - 2) + ETH <= t /\ (f - 2) + ETH = f + 5
    BY DEF ETH
  <2>. HIDE DEF S
  <2>3. /\ u \in Seq(S) /\ Len(u) = t - (f - 2) - ETH
        /\ \A k \in 1 .. t - (f - 2) - ETH : u[k] = w[(f - 2) + ETH + k - 1]
    <3>1. ASSUME NEW h \in Int, t \in Int, h + ETH <= t, \A i \in h + ETH .. t - 1 : w[i] \in S
          PROVE  /\ Rest(w, h, t) \in Seq(S) /\ Len(Rest(w, h, t)) = t - h - ETH
                 /\ \A k \in 1 .. t - h - ETH : Rest(w, h, t)[k] = w[h + ETH + k - 1]
      BY ONLY <3>1, RestSeq
    <3>. QED
      BY <2>1, <2>2, <3>1
  <2>4. t - (f - 2) - ETH = t - f - 5
    BY DEF ETH
  <2>. QED
    BY <2>2, <2>3, <2>4
<1>3. <<x, y>> \in Seq(S) /\ Len(<<x, y>>) = 2
  <2>1. x \in S /\ y \in S
    OBVIOUS
  <2>. HIDE DEF S, y
  <2>. QED
    BY <2>1
<1>. HIDE DEF S, r, u, y
<1>5. /\ v \in Seq(S) /\ Len(v) = t - f - 5
      /\ \A k \in 1 .. t - f - 5 : v[k] = IF k <= 2 THEN <<x, y>>[k] ELSE r[k - 2]
  <2>1. 2 + Len(r) = t - f - 5
    <3>1. f \in Int /\ t \in Int /\ Len(r) = t - f - 7
      BY <1>1
    <3>. QED
      BY ONLY <3>1
  <2>2. /\ v \in Seq(S) /\ Len(v) = Len(<<x, y>>) + Len(r)
        /\ \A k \in 1 .. Len(<<x, y>>) + Len(r) :
             v[k] = IF k <= Len(<<x, y>>) THEN <<x, y>>[k] ELSE r[k - Len(<<x, y>>)]
    <3>. DEFINE h == <<x, y>>
    <3>1. h \in Seq(S) /\ r \in Seq(S)
      BY <1>1, <1>3
    <3>. HIDE DEF h
    <3>2. /\ h \o r \in Seq(S) /\ Len(h \o r) = Len(h) + Len(r)
          /\ \A k \in 1 .. Len(h) + Len(r) :
               (h \o r)[k] = IF k <= Len(h) THEN h[k] ELSE r[k - Len(h)]
      BY ONLY <3>1, ConcatProperties
    <3>. QED
      BY <3>2 DEF h
  <2>. QED
    BY <1>3, <2>1, <2>2
<1>6. u = v
  <2>1. ASSUME NEW k \in 1 .. t - f - 5 PROVE u[k] = v[k]
    <3>1. CASE k = 1
      <4>1. f + 5 + k - 1 = f + 5 /\ k <= 2 /\ <<x, y>>[k] = x
        BY <3>1
      <4>. QED
        BY <4>1, <1>2, <1>5
    <3>2. CASE k = 2
      <4>1. f + 5 + k - 1 = f + 6 /\ k <= 2 /\ <<x, y>>[k] = y
        BY <3>2
      <4>. QED
        BY <4>1, <1>2, <1>5 DEF y
    <3>3. CASE k > 2
      <4>1. /\ ~(k <= 2) /\ k - 2 \in 1 .. t - f - 7 /\ f + 7 + (k - 2) - 1 = f + 5 + k - 1
            /\ f + 5 + k - 1 \in f + 7 .. t - 1
        BY <3>3
      <4>. QED
        BY <4>1, <1>1, <1>2, <1>5
    <3>4. k = 1 \/ k = 2 \/ k > 2
      OBVIOUS
    <3>. QED
      BY <3>1, <3>2, <3>3, <3>4
  <2>. QED
    BY <2>1, <1>2, <1>5, SeqEqual
<1>7. /\ \A k \in 1..3 : w[(f - 2) + k - 1] = m[f + k - 1]
      /\ \A k \in 1..3 : w[(f - 2) + k + 2] = m[f + k + 2]
      /\ w[(f - 2) + h_proto] = type
  <2>1. ASSUME NEW k \in 1..3
        PROVE  /\ k - 1 \in 0..5 /\ (f - 2) + k - 1 = f - 2 + (k - 1) /\ f + k - 1 = f + (k - 1)
               /\ k + 2 \in 0..5 /\ (f - 2) + k + 2 = f - 2 + (k + 2) /\ f + k + 2 = f + (k + 2)
    OBVIOUS
  <2>2. (f - 2) + h_proto = f + 4
    BY DEF h_proto
  <2>. QED
    BY <2>1, <2>2
<1>. DEFINE dd == [k \in 1..3 |-> m[f + k - 1]]
            ss == [k \in 1..3 |-> m[f + k + 2]]
            F  == FrameAt(m, f, t)
<1>8. F = [dest |-> dd, source |-> ss, type |-> y, rest |-> r]
  BY FrameFields DEF r, y, h_proto
<1>9. FrameAt(w, f - 2, t) = [dest |-> dd, source |-> ss, type |-> type, rest |-> v]
  <2>1. FrameAt(w, f - 2, t) = [dest |-> [k \in 1..3 |-> w[(f - 2) + k - 1]],
                                source |-> [k \in 1..3 |-> w[(f - 2) + k + 2]],
                                type |-> w[(f - 2) + h_proto], rest |-> u]
    BY FrameFields DEF u
  <2>. QED
    BY <2>1, <1>6, <1>7
<1>. HIDE DEF dd, ss, v, F
<1>. DEFINE G == FrameAt(w, g, t)
<1>10. /\ F.type = y /\ F.rest = r
       /\ G.dest = F.dest /\ G.source = F.source /\ G.type = type /\ G.rest = v
  BY ONLY <1>8, <1>9, g = f - 2
<1>. HIDE DEF G
<1>11. G.rest = <<x, F.type>> \o F.rest
  BY <1>10 DEF v
<1>. QED
  BY <1>10, <1>11 DEF F, G, WithTag

\* Memory in which the two addresses of the header at f change places.
MacSwapped(m, w, f, t) ==
  /\ f \in Int /\ t \in Int /\ f + 7 <= t
  /\ \A k \in 0..2 : w[f + k] = m[f + 3 + k] /\ w[f + 3 + k] = m[f + k]
  /\ \A i \in f + 6 .. t - 1 : w[i] = m[i]

WithMacs(F, G) ==
  G.dest = F.source /\ G.source = F.dest /\ G.type = F.type /\ G.rest = F.rest

\* Swapping the cells of the addresses swaps the addresses.
LEMMA SwapMacFrame ==
  ASSUME NEW m, NEW w, NEW f, NEW t, MacSwapped(m, w, f, t)
  PROVE  WithMacs(FrameAt(m, f, t), FrameAt(w, f, t))
<1>0. /\ f \in Int /\ t \in Int /\ f + 7 <= t
      /\ \A k \in 0..2 : w[f + k] = m[f + 3 + k] /\ w[f + 3 + k] = m[f + k]
      /\ \A i \in f + 6 .. t - 1 : w[i] = m[i]
  BY DEF MacSwapped
<1>. USE <1>0
<1>. DEFINE dd == [k \in 1..3 |-> m[f + k - 1]]
            ss == [k \in 1..3 |-> m[f + k + 2]]
            r == Rest(m, f, t)
            y == m[f + h_proto]
            F == FrameAt(m, f, t)
<1>1. F = [dest |-> dd, source |-> ss, type |-> y, rest |-> r]
  BY FrameFields
<1>2. Rest(w, f, t) = r
  <2>1. ASSUME NEW k \in 1 .. t - f - ETH PROVE f + ETH + k - 1 \in f + 6 .. t - 1
    BY DEF ETH
  <2>. QED
    BY <2>1 DEF Rest
<1>3. /\ \A k \in 1..3 : w[f + k - 1] = m[f + k + 2] /\ w[f + k + 2] = m[f + k - 1]
      /\ w[f + h_proto] = y
  <2>1. ASSUME NEW k \in 1..3
        PROVE  /\ k - 1 \in 0..2 /\ f + (k - 1) = f + k - 1 /\ f + 3 + (k - 1) = f + k + 2
    OBVIOUS
  <2>2. f + h_proto \in f + 6 .. t - 1
    BY DEF h_proto
  <2>. QED
    BY <2>1, <2>2
<1>4. FrameAt(w, f, t) = [dest |-> ss, source |-> dd, type |-> y, rest |-> r]
  <2>1. FrameAt(w, f, t) = [dest |-> [k \in 1..3 |-> w[f + k - 1]],
                            source |-> [k \in 1..3 |-> w[f + k + 2]],
                            type |-> w[f + h_proto], rest |-> Rest(w, f, t)]
    BY FrameFields
  <2>. QED
    BY <2>1, <1>2, <1>3
<1>. HIDE DEF dd, ss, r, y, F
<1>. QED
  BY <1>1, <1>4 DEF F, WithMacs

\* Two addresses of n units, from unit a of the rest on.
Swapped(r, a, n) ==
  [k \in DOMAIN r |-> IF k \in a .. a + n - 1 THEN r[k + n]
                      ELSE IF k \in a + n .. a + 2 * n - 1 THEN r[k - n]
                      ELSE r[k]]

IpSwapped(m, w, f, t, a, n) ==
  /\ f \in Int /\ t \in Int /\ a \in Int /\ n \in Int
  /\ 1 <= a /\ 0 <= n /\ f + 6 + a + 2 * n <= t
  /\ \A j \in f .. t - 1 :
       w[j] = IF j \in f + 6 + a .. f + 6 + a + n - 1 THEN m[j + n]
              ELSE IF j \in f + 6 + a + n .. f + 6 + a + 2 * n - 1 THEN m[j - n]
              ELSE m[j]

WithIps(F, G, a, n) ==
  /\ a + 2 * n - 1 <= Len(F.rest)
  /\ G.dest = F.dest /\ G.source = F.source /\ G.type = F.type
  /\ G.rest = Swapped(F.rest, a, n)

\* So for the addresses of the IP header.
LEMMA SwapIpFrame ==
  ASSUME NEW m, NEW w, NEW f, NEW t, NEW a, NEW n, IpSwapped(m, w, f, t, a, n)
  PROVE  WithIps(FrameAt(m, f, t), FrameAt(w, f, t), a, n)
<1>0. /\ f \in Int /\ t \in Int /\ a \in Int /\ n \in Int
      /\ 1 <= a /\ 0 <= n /\ f + 6 + a + 2 * n <= t
      /\ \A j \in f .. t - 1 :
           w[j] = IF j \in f + 6 + a .. f + 6 + a + n - 1 THEN m[j + n]
                  ELSE IF j \in f + 6 + a + n .. f + 6 + a + 2 * n - 1 THEN m[j - n]
                  ELSE m[j]
  BY DEF IpSwapped
<1>. USE <1>0
<1>. DEFINE dd == [k \in 1..3 |-> m[f + k - 1]]
            ss == [k \in 1..3 |-> m[f + k + 2]]
            r == Rest(m, f, t)
            y == m[f + h_proto]
            F == FrameAt(m, f, t)
            v == Swapped(r, a, n)
<1>1. F = [dest |-> dd, source |-> ss, type |-> y, rest |-> r]
  BY FrameFields
<1>2. /\ Len(r) = t - f - 7 /\ DOMAIN r = 1 .. t - f - 7
      /\ \A k \in 1 .. t - f - 7 : r[k] = m[f + 7 + k - 1]
  <2>. DEFINE S == {m[i] : i \in f + 7 .. t - 1}
  <2>1. f + ETH <= t /\ \A i \in f + ETH .. t - 1 : m[i] \in S
    BY DEF ETH
  <2>. HIDE DEF S
  <2>2. /\ Len(r) = t - f - ETH /\ DOMAIN r = 1 .. t - f - ETH
        /\ \A k \in 1 .. t - f - ETH : r[k] = m[f + ETH + k - 1]
    <3>1. f \in Int /\ t \in Int
      OBVIOUS
    <3>. QED
      BY ONLY <2>1, <3>1, RestSeq
  <2>. QED
    BY <2>2 DEF ETH
<1>3. Rest(w, f, t) = v
  <2>1. ASSUME NEW k \in 1 .. t - f - 7 PROVE w[f + 7 + k - 1] = v[k]
    <3>. DEFINE j == f + 7 + k - 1
    <3>1. j \in f .. t - 1 /\ j = f + 6 + k
      OBVIOUS
    <3>2. CASE k \in a .. a + n - 1
      <4>1. j \in f + 6 + a .. f + 6 + a + n - 1
        BY <3>2
      <4>2. k + n \in 1 .. t - f - 7 /\ f + 7 + (k + n) - 1 = j + n
        BY <3>2
      <4>. QED
        BY <3>1, <3>2, <4>1, <4>2, <1>2 DEF Swapped
    <3>3. CASE k \in a + n .. a + 2 * n - 1
      <4>1. ~(j \in f + 6 + a .. f + 6 + a + n - 1) /\ ~(k \in a .. a + n - 1)
        BY <3>3
      <4>2. j \in f + 6 + a + n .. f + 6 + a + 2 * n - 1
        BY <3>3
      <4>3. k - n \in 1 .. t - f - 7 /\ f + 7 + (k - n) - 1 = j - n
        BY <3>3
      <4>. QED
        BY <3>1, <3>3, <4>1, <4>2, <4>3, <1>2 DEF Swapped
    <3>4. CASE ~(k \in a .. a + n - 1) /\ ~(k \in a + n .. a + 2 * n - 1)
      <4>1. ~(j \in f + 6 + a .. f + 6 + a + n - 1)
        BY <3>4
      <4>2. ~(j \in f + 6 + a + n .. f + 6 + a + 2 * n - 1)
        BY <3>4
      <4>. QED
        BY <3>1, <3>4, <4>1, <4>2, <1>2 DEF Swapped
    <3>. QED
      BY <3>2, <3>3, <3>4
  <2>2. Rest(w, f, t) = [k \in 1 .. t - f - 7 |-> w[f + 7 + k - 1]]
    BY DEF Rest, ETH
  <2>3. v = [k \in 1 .. t - f - 7 |-> v[k]]
    BY <1>2 DEF Swapped
  <2>. HIDE DEF v
  <2>. QED
    BY <2>1, <2>2, <2>3
<1>4. /\ \A k \in 1..3 : w[f + k - 1] = m[f + k - 1] /\ w[f + k + 2] = m[f + k + 2]
      /\ w[f + h_proto] = y
  <2>1. ASSUME NEW j \in f .. f + 6 PROVE w[j] = m[j]
    <3>1. /\ j \in f .. t - 1
          /\ ~(j \in f + 6 + a .. f + 6 + a + n - 1)
          /\ ~(j \in f + 6 + a + n .. f + 6 + a + 2 * n - 1)
      OBVIOUS
    <3>. QED
      BY <3>1
  <2>2. ASSUME NEW k \in 1..3 PROVE f + k - 1 \in f .. f + 6 /\ f + k + 2 \in f .. f + 6
    OBVIOUS
  <2>3. f + h_proto \in f .. f + 6
    BY DEF h_proto
  <2>. QED
    BY <2>1, <2>2, <2>3
<1>5. FrameAt(w, f, t) = [dest |-> dd, source |-> ss, type |-> y, rest |-> v]
  <2>1. FrameAt(w, f, t) = [dest |-> [k \in 1..3 |-> w[f + k - 1]],
                            source |-> [k \in 1..3 |-> w[f + k + 2]],
                            type |-> w[f + h_proto], rest |-> Rest(w, f, t)]
    BY FrameFields
  <2>. HIDE DEF v
  <2>. QED
    BY <2>1, <1>3, <1>4
<1>6. a + 2 * n - 1 <= Len(r)
  BY <1>2
<1>. HIDE DEF dd, ss, r, y, F, v
<1>. QED
  BY <1>1, <1>5, <1>6 DEF F, v, WithIps

-----------------------------------------------------------------------------
(* The steps that change a frame, and the refinement.                      *)

\* The pop takes effect when the header is written.
LEMMA PopWriteRefines == ASSUME VInv, PopWrite PROVE Stack!Pop
<1>1. /\ eth \in Int /\ data_end \in Int /\ 0 <= eth /\ data = eth + 2 /\ eth + 9 <= data_end
      /\ DOMAIN mem = 0 .. data_end - 1
  <2>1. pc = "pop write"
    BY DEF PopWrite
  <2>2. eth \in Int /\ 0 <= eth
    BY <2>1 DEF VInv, Called, Idle
  <2>3. data_end \in Int /\ DOMAIN mem = 0 .. data_end - 1
    BY DEF VInv, Buffer
  <2>4. data = eth + 2 /\ eth + 7 + 2 <= data_end
    BY <2>1 DEF VInv, Moved, Popped, VLAN, ETH
  <2>5. eth + 7 + 2 = eth + 9
    BY <2>2
  <2>. QED
    BY <2>2, <2>3, <2>4, <2>5
<1>2. /\ proto_is_vlan(mem[eth + 6]) /\ vlid = bpf_ntohs(mem[eth + 7]) /\ inner = mem[eth + 8]
      /\ \A k \in 0..6 : eth_cpy[k] = mem[eth + k]
  <2>1. eth + 7 + 1 = eth + 8 /\ 7 - 1 = 6
    BY <1>1
  <2>. QED
    BY <2>1 DEF VInv, Copied, Popped, PopWrite, ETH, h_proto
<1>3. /\ ret' = vlid /\ mem' = Written(data, inner) /\ pc' = "idle" /\ pc # "idle"
      /\ data' = data /\ data_end' = data_end
  <2>1. ~(data + ETH > data_end)
    BY <1>1 DEF ETH
  <2>. QED
    BY <2>1 DEF PopWrite, HeaderNow, Return
<1>4. /\ \A k \in 0..5 : mem'[eth + 2 + k] = mem[eth + k]
      /\ mem'[eth + 8] = mem[eth + 8]
      /\ \A i \in eth + 9 .. data_end - 1 : mem'[i] = mem[i]
  <2>1. mem' = [i \in DOMAIN mem |-> IF i = eth + 8 THEN inner
                                     ELSE IF i \in eth + 2 .. eth + 8 THEN eth_cpy[i - (eth + 2)]
                                     ELSE mem[i]]
    <3>1. data + h_proto = eth + 8 /\ Span(data, ETH) = eth + 2 .. eth + 8 /\ data = eth + 2
      BY <1>1 DEF h_proto, Span, ETH
    <3>. QED
      BY <1>3, <3>1 DEF Written
  <2>2. ASSUME NEW k \in 0..5
        PROVE  /\ eth + 2 + k \in 0 .. data_end - 1 /\ eth + 2 + k # eth + 8
               /\ eth + 2 + k \in eth + 2 .. eth + 8 /\ eth + 2 + k - (eth + 2) = k /\ k \in 0..6
    BY <1>1
  <2>3. eth + 8 \in 0 .. data_end - 1
    BY <1>1
  <2>4. ASSUME NEW i \in eth + 9 .. data_end - 1
        PROVE  i \in 0 .. data_end - 1 /\ i # eth + 8 /\ ~(i \in eth + 2 .. eth + 8)
    BY <1>1
  <2>. QED
    BY <2>1, <2>2, <2>3, <2>4, <1>1, <1>2
<1>. DEFINE F == FrameAt(mem, eth, data_end)
            G == FrameAt(mem', data, data_end)
<1>5. WithoutTag(F, G, mem[eth + 7])
  <2>1. CutOut(mem, mem', eth, data_end)
    BY <1>1, <1>4 DEF CutOut
  <2>. QED
    BY <2>1, <1>1, PopFrame
<1>6. frame = F /\ frame' = G
  BY <1>1, <1>3, FrameSeen DEF frame
<1>7. /\ F.type = mem[eth + 6]
      /\ F = [dest |-> F.dest, source |-> F.source, type |-> F.type, rest |-> F.rest]
      /\ G = [dest |-> G.dest, source |-> G.source, type |-> G.type, rest |-> G.rest]
  BY FrameFields DEF h_proto
<1>. HIDE DEF F, G
<1>8. /\ proto_is_vlan(frame.type) /\ Len(frame.rest) >= 2
      /\ ret' = bpf_htons(frame.rest[1])
  BY <1>2, <1>3, <1>5, <1>6, <1>7 DEF bpf_ntohs, WithoutTag
<1>9. frame' = [frame EXCEPT !.type = frame.rest[2], !.rest = SubSeq(frame.rest, 3, Len(frame.rest))]
  <2>. DEFINE x == F.rest[2]
              v == SubSeq(F.rest, 3, Len(F.rest))
  <2>1. G = [dest |-> F.dest, source |-> F.source, type |-> x, rest |-> v]
    BY <1>5, <1>7 DEF WithoutTag
  <2>. HIDE DEF x, v
  <2>2. [F EXCEPT !.type = x, !.rest = v] =
          [i \in DOMAIN F |-> IF i = "rest" THEN v ELSE IF i = "type" THEN x ELSE F[i]]
    BY ONLY <1>7
  <2>3. [F EXCEPT !.type = x, !.rest = v] = G
    BY ONLY <1>7, <2>1, <2>2
  <2>. QED
    BY <2>3, <1>6 DEF x, v
<1>. QED
  BY <1>8, <1>9 DEF Stack!Pop, Stack!GivesId

\* So does the push.
LEMMA PushWriteRefines ==
  ASSUME VInv, PushWrite
  PROVE  \E v \in {v % (256 * 256) : v \in Vlids} : Stack!Push(v)
<1>1. /\ eth \in Int /\ data_end \in Int /\ 0 <= data /\ data = eth - 2 /\ eth + 7 <= data_end
      /\ DOMAIN mem = 0 .. data_end - 1
  <2>1. pc = "push write"
    BY DEF PushWrite
  <2>2. eth \in Int /\ eth + 7 <= data_end
    BY <2>1 DEF VInv, Called, Idle, ETH
  <2>3. data_end \in Int /\ 0 <= data /\ DOMAIN mem = 0 .. data_end - 1
    BY DEF VInv, Buffer
  <2>4. data = eth - 2
    BY <2>1 DEF VInv, Moved, VLAN
  <2>. QED
    BY <2>2, <2>3, <2>4
<1>2. vlid \in Vlids /\ \A k \in 0..6 : eth_cpy[k] = mem[eth + k]
  <2>1. 7 - 1 = 6
    OBVIOUS
  <2>. QED
    BY <2>1 DEF VInv, Copied, Pushed, PushWrite, ETH
<1>. DEFINE T == bpf_htons(ETH_P_8021Q)
            x == bpf_htons(vlid % (256 * 256))
            W == Written(data, eth_cpy[h_proto])
<1>3. /\ ret' = 0 /\ mem' = Tag(W, data) /\ pc' = "idle" /\ pc # "idle"
      /\ data' = data /\ data_end' = data_end
  <2>1. ~(data + ETH > data_end) /\ ~(data + ETH + VLAN > data_end)
    BY <1>1 DEF ETH, VLAN
  <2>. QED
    BY <2>1 DEF PushWrite, HeaderNow, Return
<1>4. PutIn(mem, mem', eth, data_end, T, x)
  <2>1. /\ data + h_proto = eth + 4 /\ Span(data, ETH) = eth - 2 .. eth + 4
        /\ data + ETH = eth + 5 /\ data + ETH + 1 = eth + 6
    BY <1>1 DEF h_proto, Span, ETH
  <2>2. W = [i \in DOMAIN mem |-> IF i = eth + 4 THEN eth_cpy[6]
                                  ELSE IF i \in eth - 2 .. eth + 4 THEN eth_cpy[i - (eth - 2)]
                                  ELSE mem[i]]
    BY <1>1, <2>1 DEF Written, h_proto
  <2>3. mem' = [W EXCEPT ![eth + 5] = x, ![eth + 6] = W[eth + 4], ![eth + 4] = T]
    BY <1>3, <2>1 DEF Tag
  <2>. HIDE DEF T, x, W
  <2>4. DOMAIN W = 0 .. data_end - 1
    BY <1>1, <2>2
  <2>5. ASSUME NEW i \in 0 .. data_end - 1
        PROVE  mem'[i] = IF i = eth + 4 THEN T ELSE IF i = eth + 6 THEN W[eth + 4]
                         ELSE IF i = eth + 5 THEN x ELSE W[i]
    BY <2>3, <2>4, <1>1
  <2>6. ASSUME NEW k \in 0..5 PROVE mem'[eth - 2 + k] = mem[eth + k]
    <3>1. /\ eth - 2 + k \in 0 .. data_end - 1 /\ eth - 2 + k # eth + 4 /\ eth - 2 + k # eth + 5
          /\ eth - 2 + k # eth + 6 /\ eth - 2 + k \in eth - 2 .. eth + 4
          /\ eth - 2 + k - (eth - 2) = k /\ k \in 0..6
      BY <1>1
    <3>2. W[eth - 2 + k] = eth_cpy[eth - 2 + k - (eth - 2)]
      BY ONLY <3>1, <2>2, <1>1
    <3>3. mem'[eth - 2 + k] = W[eth - 2 + k]
      BY ONLY <3>1, <2>5
    <3>. QED
      BY ONLY <3>1, <3>2, <3>3, <1>2
  <2>7. mem'[eth + 4] = T /\ mem'[eth + 5] = x /\ mem'[eth + 6] = mem[eth + 6]
    <3>1. /\ eth + 4 \in 0 .. data_end - 1 /\ eth + 5 \in 0 .. data_end - 1
          /\ eth + 6 \in 0 .. data_end - 1 /\ eth + 4 # eth + 5 /\ eth + 4 # eth + 6
          /\ eth + 5 # eth + 6
      BY <1>1
    <3>2. W[eth + 4] = mem[eth + 6]
      BY <3>1, <2>2, <1>1, <1>2
    <3>. QED
      BY <3>1, <3>2, <2>5
  <2>8. ASSUME NEW i \in eth + 7 .. data_end - 1 PROVE mem'[i] = mem[i]
    <3>1. /\ i \in 0 .. data_end - 1 /\ i # eth + 4 /\ i # eth + 5 /\ i # eth + 6
          /\ ~(i \in eth - 2 .. eth + 4)
      BY <1>1
    <3>. QED
      BY <3>1, <2>2, <2>5, <1>1
  <2>. QED
    BY <2>6, <2>7, <2>8, <1>1 DEF PutIn
<1>. DEFINE F == FrameAt(mem, eth, data_end)
            G == FrameAt(mem', data, data_end)
<1>. HIDE DEF T, x, W
<1>5. WithTag(F, G, T, x)
  BY <1>1, <1>4, PushFrame
<1>6. frame = F /\ frame' = G
  BY <1>1, <1>3, FrameSeen DEF frame
<1>7. /\ F = [dest |-> F.dest, source |-> F.source, type |-> F.type, rest |-> F.rest]
      /\ G = [dest |-> G.dest, source |-> G.source, type |-> G.type, rest |-> G.rest]
  BY FrameFields
<1>. HIDE DEF F, G
<1>8. frame' = [frame EXCEPT !.type = T, !.rest = <<x, frame.type>> \o frame.rest]
  <2>. DEFINE v == <<x, F.type>> \o F.rest
  <2>1. G = [dest |-> F.dest, source |-> F.source, type |-> T, rest |-> v]
    BY <1>5, <1>7 DEF WithTag
  <2>. HIDE DEF v
  <2>2. [F EXCEPT !.type = T, !.rest = v] =
          [i \in DOMAIN F |-> IF i = "rest" THEN v ELSE IF i = "type" THEN T ELSE F[i]]
    BY ONLY <1>7
  <2>3. [F EXCEPT !.type = T, !.rest = v] = G
    BY ONLY <1>7, <2>1, <2>2
  <2>. QED
    BY <2>3, <1>6 DEF v
<1>9. Stack!Push(vlid % (256 * 256))
  BY <1>3, <1>8 DEF Stack!Push, T, x
<1>. QED
  BY <1>2, <1>9

\* swap_src_dst_mac is the swap of the abstract frame.
LEMMA SwapMacRefines == ASSUME VInv, swap_src_dst_mac PROVE Stack!SwapMac
<1>1. /\ data \in Int /\ data_end \in Int /\ 0 <= data /\ data + 7 <= data_end
      /\ DOMAIN mem = 0 .. data_end - 1
  BY DEF VInv, Buffer, ETH
<1>2. /\ pc = "idle" /\ pc' = "idle" /\ ret' = ret /\ data' = data /\ data_end' = data_end
      /\ mem' = [k \in DOMAIN mem |->
                   IF k \in Span(data, 3) THEN mem[k + (data + 3) - data]
                   ELSE IF k \in Span(data + 3, 3) THEN mem[k + data - (data + 3)] ELSE mem[k]]
  BY DEF swap_src_dst_mac, SwapCells
<1>3. MacSwapped(mem, mem', data, data_end)
  <2>1. ASSUME NEW k \in 0..2
        PROVE  mem'[data + k] = mem[data + 3 + k] /\ mem'[data + 3 + k] = mem[data + k]
    <3>1. /\ data + k \in 0 .. data_end - 1 /\ data + k \in Span(data, 3)
          /\ data + k + (data + 3) - data = data + 3 + k
          /\ data + 3 + k \in 0 .. data_end - 1 /\ ~(data + 3 + k \in Span(data, 3))
          /\ data + 3 + k \in Span(data + 3, 3) /\ data + 3 + k + data - (data + 3) = data + k
      BY <1>1 DEF Span
    <3>. QED
      BY <3>1, <1>1, <1>2
  <2>2. ASSUME NEW i \in data + 6 .. data_end - 1 PROVE mem'[i] = mem[i]
    <3>1. i \in 0 .. data_end - 1 /\ ~(i \in Span(data, 3)) /\ ~(i \in Span(data + 3, 3))
      BY <1>1 DEF Span
    <3>. QED
      BY <3>1, <1>1, <1>2
  <2>. QED
    BY <2>1, <2>2, <1>1 DEF MacSwapped
<1>. DEFINE F == FrameAt(mem, data, data_end)
            G == FrameAt(mem', data, data_end)
<1>4. WithMacs(F, G)
  BY <1>3, SwapMacFrame
<1>5. frame = F /\ frame' = G
  BY <1>2 DEF frame
<1>6. /\ F = [dest |-> F.dest, source |-> F.source, type |-> F.type, rest |-> F.rest]
      /\ G = [dest |-> G.dest, source |-> G.source, type |-> G.type, rest |-> G.rest]
  BY FrameFields
<1>. HIDE DEF F, G
<1>7. frame' = [frame EXCEPT !.dest = frame.source, !.source = frame.dest]
  <2>. DEFINE a == F.source
              b == F.dest
  <2>1. G = [dest |-> a, source |-> b, type |-> F.type, rest |-> F.rest]
    BY <1>4, <1>6 DEF WithMacs
  <2>2. F = [dest |-> b, source |-> a, type |-> F.type, rest |-> F.rest]
    BY <1>6
  <2>. HIDE DEF a, b
  <2>3. [F EXCEPT !.dest = a, !.source = b] =
          [i \in DOMAIN F |-> IF i = "source" THEN b ELSE IF i = "dest" THEN a ELSE F[i]]
    BY ONLY <2>2
  <2>4. [F EXCEPT !.dest = a, !.source = b] = G
    BY ONLY <2>1, <2>2, <2>3
  <2>. QED
    BY <2>4, <1>5 DEF a, b
<1>. QED
  BY <1>2, <1>7 DEF Stack!SwapMac

\* swap_src_dst_ipv4 and swap_src_dst_ipv6 too.
LEMMA SwapIpRefines ==
  ASSUME VInv, NEW a \in Int, NEW n \in Int, 1 <= a, 0 <= n, data + 6 + a + 2 * n <= data_end,
         SwapCells(data + 6 + a, data + 6 + a + n, n)
  PROVE  Stack!SwapIp(a, n)
<1>1. data \in Int /\ data_end \in Int /\ 0 <= data /\ DOMAIN mem = 0 .. data_end - 1
  BY DEF VInv, Buffer
<1>. DEFINE b == data + 6 + a
<1>2. /\ pc = "idle" /\ pc' = "idle" /\ ret' = ret /\ data' = data /\ data_end' = data_end
      /\ mem' = [k \in DOMAIN mem |->
                   IF k \in Span(b, n) THEN mem[k + (b + n) - b]
                   ELSE IF k \in Span(b + n, n) THEN mem[k + b - (b + n)] ELSE mem[k]]
  BY DEF SwapCells
<1>3. IpSwapped(mem, mem', data, data_end, a, n)
  <2>1. ASSUME NEW j \in data .. data_end - 1
        PROVE  mem'[j] = IF j \in data + 6 + a .. data + 6 + a + n - 1 THEN mem[j + n]
                         ELSE IF j \in data + 6 + a + n .. data + 6 + a + 2 * n - 1 THEN mem[j - n]
                         ELSE mem[j]
    <3>1. j \in 0 .. data_end - 1 /\ j + (b + n) - b = j + n /\ j + b - (b + n) = j - n
      BY <1>1
    <3>2. /\ Span(b, n) = data + 6 + a .. data + 6 + a + n - 1
          /\ Span(b + n, n) = data + 6 + a + n .. data + 6 + a + 2 * n - 1
      BY <1>1 DEF Span
    <3>. HIDE DEF b
    <3>. QED
      BY <3>1, <3>2, <1>1, <1>2
  <2>. QED
    BY <2>1, <1>1 DEF IpSwapped
<1>. DEFINE F == FrameAt(mem, data, data_end)
            G == FrameAt(mem', data, data_end)
<1>4. WithIps(F, G, a, n)
  BY <1>3, SwapIpFrame
<1>5. frame = F /\ frame' = G
  BY <1>2 DEF frame
<1>6. /\ F = [dest |-> F.dest, source |-> F.source, type |-> F.type, rest |-> F.rest]
      /\ G = [dest |-> G.dest, source |-> G.source, type |-> G.type, rest |-> G.rest]
  BY FrameFields
<1>. HIDE DEF F, G
<1>7. frame' = [frame EXCEPT !.rest = Swapped(frame.rest, a, n)]
  <2>. DEFINE v == Swapped(F.rest, a, n)
  <2>1. G = [dest |-> F.dest, source |-> F.source, type |-> F.type, rest |-> v]
    BY <1>4, <1>6 DEF WithIps
  <2>. HIDE DEF v
  <2>2. [F EXCEPT !.rest = v] = G
    BY ONLY <2>1, <1>6
  <2>. QED
    BY <2>2, <1>5 DEF v
<1>8. a + 2 * n - 1 <= Len(frame.rest)
  BY <1>4, <1>5 DEF WithIps
<1>. QED
  BY <1>2, <1>7, <1>8 DEF Stack!SwapIp, Swapped

\* Every step is a step of VlanStack on the frame as a value, or changes
\* neither the frame nor the answer.
LEMMA StepRefines ==
  ASSUME VInv, [Next]_vars
  PROVE  [Stack!Next]_<<frame, ret>>
<1>0. data \in Int /\ data_end \in Int /\ data + 7 <= data_end
  BY DEF VInv, Buffer, ETH
<1>1. CASE CallPop
  BY <1>1, CallStutters DEF CallPop
<1>2. ASSUME NEW v \in Vlids, CallPush(v) PROVE UNCHANGED <<frame, ret>>
  BY <1>2, CallStutters DEF CallPush
<1>3. CASE vlan_tag_pop
  BY <1>3, PopReadRefines, AdjustRefines, PopWriteRefines DEF vlan_tag_pop, Stack!Next
<1>4. CASE vlan_tag_push
  BY <1>4, AdjustRefines, PushWriteRefines DEF vlan_tag_push, Stack!Next
<1>5. CASE swap_src_dst_mac
  BY <1>5, SwapMacRefines DEF Stack!Next
<1>6. CASE swap_src_dst_ipv4
  <2>1. /\ data + 6 + 7 + 2 * 2 <= data_end
        /\ data + ETH + 6 = data + 6 + 7 /\ data + ETH + 8 = data + 6 + 7 + 2
    BY <1>0, <1>6 DEF swap_src_dst_ipv4, ETH
  <2>2. SwapCells(data + 6 + 7, data + 6 + 7 + 2, 2)
    BY <1>6, <2>1 DEF swap_src_dst_ipv4
  <2>3. Stack!SwapIp(7, 2)
    BY <2>1, <2>2, SwapIpRefines
  <2>4. <<7, 2>>[1] = 7 /\ <<7, 2>>[2] = 2 /\ <<7, 2>> \in {<<7, 2>>, <<5, 8>>}
    OBVIOUS
  <2>. QED
    BY <2>3, <2>4 DEF Stack!Next
<1>7. CASE swap_src_dst_ipv6
  <2>1. /\ data + 6 + 5 + 2 * 8 <= data_end
        /\ data + ETH + 4 = data + 6 + 5 /\ data + ETH + 12 = data + 6 + 5 + 8
    BY <1>0, <1>7 DEF swap_src_dst_ipv6, ETH
  <2>2. SwapCells(data + 6 + 5, data + 6 + 5 + 8, 8)
    BY <1>7, <2>1 DEF swap_src_dst_ipv6
  <2>3. Stack!SwapIp(5, 8)
    BY <2>1, <2>2, SwapIpRefines
  <2>4. <<5, 8>>[1] = 5 /\ <<5, 8>>[2] = 8 /\ <<5, 8>> \in {<<7, 2>>, <<5, 8>>}
    OBVIOUS
  <2>. QED
    BY <2>3, <2>4 DEF Stack!Next
<1>8. CASE UNCHANGED vars
  BY <1>8 DEF vars, packet, frame
<1>. QED
  BY <1>1, <1>2, <1>3, <1>4, <1>5, <1>6, <1>7, <1>8 DEF Next

\* The helpers implement VlanStack, for packets of every length, headroom and
\* content and any number of calls: a call takes effect on the frame as a
\* whole when it returns, or, when it fails at whatever step, not at all.
THEOREM VlanRewriteRefines == Spec => ImplementsVlanStack
<1>1. Init => ret = 0
  BY DEF Init
<1>. QED
  BY <1>1, VInvHolds, StepRefines, PTL DEF Spec, ImplementsVlanStack, Stack!Spec

=============================================================================
