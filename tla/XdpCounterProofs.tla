------------------------- MODULE XdpCounterProofs -------------------------
(***************************************************************************)
(* Proofs that XdpCounter has its safety properties for every set of CPUs  *)
(* and frames, every VLAN_MAX_DEPTH and any number of frames.              *)
(*                                                                         *)
(* CountersExact speaks of idle CPUs only, so it is far from inductive.    *)
(* The inductive invariant says, at each location of xdp_parser_func,      *)
(* which part of the frame has been recognised (Position) and which of the *)
(* increments due to the frame are still to come (Ledger).  It relates the *)
(* state of one CPU only (location p, locals x, slot m of the map, history *)
(* u), so a step of another CPU cannot disturb it.                         *)
(***************************************************************************)
EXTENDS XdpTotals, FiniteSetTheorems, TLAPS

Transport == {ICMP, UDP, TCP}
Known     == {IPPROTO_ICMP, IPPROTO_UDP, IPPROTO_TCP}

\* About to increment the counter of key k.
AtBump(p, x, k) == p \in {"load", "store"} /\ x.key = k

\* The cursor is behind the Ethernet header and its n tags, or has not moved
\* because the frame has no Ethernet header.
AtL3(x) ==
  \/ x.frame.len < ETH_HLEN /\ x.pos = 0
  \/ \E n \in 0 .. VLAN_MAX_DEPTH : Depth(x.frame, n) /\ x.pos = L3(n)

\* The cursor is behind an IPv4 header of a known protocol.
AtL4(x) ==
  /\ x.nh_type = x.frame.protocol
  /\ \E n \in 0 .. VLAN_MAX_DEPTH :
       Depth(x.frame, n) /\ IsIpv4(x.frame, n) /\ x.pos = L4(x.frame, n)

Verdict(x) ==
  (x.action = XDP_DROP)
    <=> (CountsAs(x.frame, ICMP) /\ bpf_ntohs(x.frame.sequence) % 2 = 0)

\* How far the program has recognised its frame, by location.
Position(p, x) ==
  /\ p # "idle" => x.frame \in Frames
  /\ p = "eth" => x.pos = 0
  /\ p = "vlan" => /\ x.pos = L3(x.i)
                   /\ Skips(x.frame, x.i)
                   /\ x.h_proto = TypeAt(x.frame, x.i)
  /\ p = "ipv4" \/ AtBump(p, x, VLAN) => AtL3(x)
  /\ p = "l4" \/ AtBump(p, x, IPV4) => AtL4(x)
  /\ AtBump(p, x, VLAN) => x.next = "ipv4"
  /\ AtBump(p, x, IPV4) => x.next = "l4"
  /\ \A k \in Transport : AtBump(p, x, k) => x.next = "out"
  /\ p \in {"load", "store"} => CountsAs(x.frame, x.key)
  /\ p = "out" \/ (\E k \in Transport : AtBump(p, x, k)) => Verdict(x)
  /\ p # "out" /\ (\A k \in Transport : ~AtBump(p, x, k)) => x.action = XDP_PASS

\* The first key whose increment is still to come.
Floor(p, x) ==
  IF p \in {"eth", "vlan"} THEN VLAN
  ELSE IF p \in {"load", "store"} THEN x.key
  ELSE IF p = "ipv4" THEN IPV4
  ELSE IF p = "l4" THEN ICMP
  ELSE max_entries

Owed(p, x, k) == IF k >= Floor(p, x) /\ CountsAs(x.frame, k) THEN 1 ELSE 0

\* Each counter plus what is still owed to it is what is due.
Ledger(p, x, m, u) ==
  /\ \A k \in MapKeys : u[k] = m[k] + Owed(p, x, k)
  /\ p = "store" => x.reg = m[x.key]

InBounds(x) == x.top <= x.frame.len /\ x.pos <= x.frame.len

\* The IPv4 increment comes first: it is ahead while a transport-layer one
\* is to come.
Ahead(p, x, m) ==
  /\ m[ICMP] + m[UDP] + m[TCP] <= m[IPV4]
  /\ p = "l4" \/ (\E k \in Transport : AtBump(p, x, k))
       => m[ICMP] + m[UDP] + m[TCP] + 1 <= m[IPV4]

Typed(p, x, m, u) ==
  p \in Locations /\ x \in Locals /\ m \in [MapKeys -> Nat] /\ u \in [MapKeys -> Nat]

Good(p, x, m, u) ==
  /\ Typed(p, x, m, u)
  /\ Position(p, x)
  /\ InBounds(x)
  /\ Ledger(p, x, m, u)
  /\ Ahead(p, x, m)

IInv ==
  /\ TypeOK
  /\ \A c \in CPUs : Good(pc[c], ctx[c], xdp_hdr_map[c], due[c])

-----------------------------------------------------------------------------
(* The helpers.                                                            *)

\* The byte swap of bpf_ntohs yields a natural number.
LEMMA SwapType == \A v \in Nat : bpf_ntohs(v) \in Nat
BY DEF bpf_ntohs, bpf_htons

\* A 16-bit field is a natural number.
LEMMA Be16Type == __be16 \subseteq Nat
<1>1. \A n \in Nat : 0 .. n - 1 \subseteq Nat
  OBVIOUS
<1>2. 256 * 256 \in Nat
  OBVIOUS
<1>. QED
  BY <1>1, <1>2, Zenon DEF __be16

\* The keys of the map are the five header types.
LEMMA Keys ==
  /\ MapKeys = {VLAN, IPV4, ICMP, UDP, TCP}
  /\ MapKeys \subseteq Nat
BY DEF MapKeys, max_entries, VLAN, IPV4, ICMP, UDP, TCP

\* The fields of a frame that arithmetic is done on.
LEMMA FrameFields ==
  ASSUME NEW f \in Frames \cup {NoFrame}
  PROVE  /\ f.len \in Nat /\ f.ihl \in 0..15 /\ f.protocol \in 0..255
         /\ f.icmp_type \in 0..255 /\ f.udp_len \in Nat /\ f.doff \in 0..15
         /\ f.sequence \in Nat /\ f.h_proto \in Nat
<1>1. CASE f \in Frames
  <2>1. f \in Frame
    BY <1>1, FramesAssumption
  <2>. QED
    BY <2>1, Be16Type DEF Frame
<1>2. CASE f = NoFrame
  BY <1>2 DEF NoFrame
<1>. QED
  BY <1>1, <1>2

\* The number of tags in front of the network header is unique: the tags
\* that can be skipped are downward closed.
LEMMA DepthUnique ==
  ASSUME NEW f, f.len \in Nat, NEW n \in 0 .. VLAN_MAX_DEPTH,
         NEW m \in 0 .. VLAN_MAX_DEPTH, Depth(f, n), Depth(f, m)
  PROVE  n = m
<1>1. ASSUME NEW a \in 0 .. VLAN_MAX_DEPTH, NEW b \in 0 .. VLAN_MAX_DEPTH,
             Depth(f, a), Depth(f, b), a < b
      PROVE  FALSE
  <2>1. a < VLAN_MAX_DEPTH /\ a + 1 <= b
    BY <1>1, FramesAssumption
  <2>2. Skips(f, a + 1)
    BY <1>1, <2>1, FramesAssumption DEF Depth, Skips, ETH_HLEN, VLAN_HLEN
  <2>. QED
    BY <1>1, <2>1, <2>2 DEF Depth
<1>. QED
  BY <1>1, FramesAssumption

\* parse_ipv4hdr stays in the frame, and accepts exactly a complete header
\* of a sane length.
LEMMA Ipv4Result ==
  ASSUME NEW f \in Frames, NEW pos \in Nat, pos <= f.len
  PROVE  LET r == parse_ipv4hdr(f, pos)
         IN  /\ r.ret \in Int /\ r.pos \in Nat /\ r.top \in Nat
             /\ r.pos <= f.len /\ r.top <= f.len
             /\ r.ret \in Known <=> /\ f.protocol \in Known
                                    /\ f.ihl >= 5 /\ pos + 4 * f.ihl <= f.len
             /\ r.ret \in Known => r.ret = f.protocol /\ r.pos = pos + 4 * f.ihl
BY FrameFields DEF parse_ipv4hdr, ParseHeader, IPHDR_LEN, Known, IPPROTO_ICMP,
   IPPROTO_UDP, IPPROTO_TCP

\* The transport-layer helpers stay in the frame, and succeed exactly on a
\* complete header of a sane length.
LEMMA IcmpResult ==
  ASSUME NEW f \in Frames, NEW pos \in Nat, pos <= f.len
  PROVE  LET r == parse_icmphdr(f, pos)
         IN  /\ r.ret \in Int /\ r.pos \in Nat /\ r.top \in Nat
             /\ r.pos <= f.len /\ r.top <= f.len
             /\ r.ret = ICMP_ECHO <=> /\ f.icmp_type = ICMP_ECHO
                                      /\ pos + ICMPHDR_LEN <= f.len
BY FrameFields DEF parse_icmphdr, ParseHeader, ICMPHDR_LEN, ICMP_ECHO

\* The same of parse_udphdr: a complete header whose length field covers it.
LEMMA UdpResult ==
  ASSUME NEW f \in Frames, NEW pos \in Nat, pos <= f.len
  PROVE  LET r == parse_udphdr(f, pos)
         IN  /\ r.ret \in Int /\ r.pos \in Nat /\ r.top \in Nat
             /\ r.pos <= f.len /\ r.top <= f.len
             /\ r.ret # -1 <=> /\ bpf_ntohs(f.udp_len) >= UDPHDR_LEN
                               /\ pos + UDPHDR_LEN <= f.len
BY FrameFields, SwapType DEF parse_udphdr, ParseHeader, UDPHDR_LEN

\* The same of parse_tcphdr: a complete header of at least five words.
LEMMA TcpResult ==
  ASSUME NEW f \in Frames, NEW pos \in Nat, pos <= f.len
  PROVE  LET r == parse_tcphdr(f, pos)
         IN  /\ r.ret \in Int /\ r.pos \in Nat /\ r.top \in Nat
             /\ r.pos <= f.len /\ r.top <= f.len
             /\ r.ret # -1 <=> f.doff >= 5 /\ pos + 4 * f.doff <= f.len
BY FrameFields DEF parse_tcphdr, ParseHeader, TCPHDR_LEN

\* What a frame with n tags counts as.
LEMMA CountsAtDepth ==
  ASSUME NEW f \in Frames, NEW n \in 0 .. VLAN_MAX_DEPTH, Depth(f, n)
  PROVE  /\ CountsAs(f, IPV4) <=> IsIpv4(f, n)
         /\ CountsAs(f, ICMP) <=> IsEcho(f, n)
         /\ CountsAs(f, UDP)  <=> IsUdp(f, n)
         /\ CountsAs(f, TCP)  <=> IsTcp(f, n)
<1>1. ASSUME NEW m \in 0 .. VLAN_MAX_DEPTH, Depth(f, m) PROVE m = n
  BY <1>1, DepthUnique, FrameFields
<1>. QED
  BY <1>1 DEF CountsAs, Belongs, PassesFor, HeadersOf, VLAN, IPV4, ICMP, UDP, TCP

\* A frame without an Ethernet header counts as nothing.
LEMMA TooShort ==
  ASSUME NEW f \in Frames, f.len < ETH_HLEN, NEW k
  PROVE  ~CountsAs(f, k)
<1>1. ASSUME NEW n \in 0 .. VLAN_MAX_DEPTH PROVE ~Depth(f, n)
  <2>1. n \in Nat /\ f.len \in Nat
    BY <1>1, FrameFields, FramesAssumption
  <2>. QED
    BY <2>1 DEF Depth, Skips, ETH_HLEN, VLAN_HLEN
<1>2. ~(ETH_HLEN <= f.len)
  BY FrameFields DEF ETH_HLEN
<1>. QED
  BY <1>1, <1>2 DEF CountsAs, Belongs, PassesFor, HeadersOf

\* A frame counts under one transport protocol at most.
LEMMA OneTransport ==
  ASSUME NEW f, NEW j \in Transport, NEW k \in Transport,
         CountsAs(f, j), CountsAs(f, k)
  PROVE  j = k
<1>1. /\ CountsAs(f, ICMP) => f.protocol = IPPROTO_ICMP
      /\ CountsAs(f, UDP)  => f.protocol = IPPROTO_UDP
      /\ CountsAs(f, TCP)  => f.protocol = IPPROTO_TCP
  BY DEF CountsAs, Belongs, PassesFor, HeadersOf, IsEcho, IsUdp, IsTcp, VLAN, IPV4, ICMP, UDP, TCP
<1>. QED
  BY <1>1 DEF Transport, IPPROTO_ICMP, IPPROTO_UDP, IPPROTO_TCP

-----------------------------------------------------------------------------
(* Steps.                                                                  *)

\* A step of the program that leaves the map alone keeps the invariant if it
\* leaves its own CPU in a good state: the other CPUs do not move.
LEMMA ContinueKeeps ==
  ASSUME IInv, NEW c \in CPUs, NEW x, NEW l, Continue(c, x, l),
         Good(l, x, xdp_hdr_map[c], due[c])
  PROVE  IInv'
<1>1. /\ pc' = [pc EXCEPT ![c] = l] /\ ctx' = [ctx EXCEPT ![c] = x]
      /\ UNCHANGED <<xdp_hdr_map, arrived, due>>
  BY DEF Continue, Goto
<1>2. l \in Locations /\ x \in Locals
  BY DEF Good, Typed
<1>3. TypeOK'
  BY <1>1, <1>2 DEF IInv, TypeOK
<1>4. ASSUME NEW d \in CPUs
      PROVE  Good(pc[d], ctx[d], xdp_hdr_map[d], due[d])'
  <2>1. CASE d = c
    <3>1. pc'[d] = l /\ ctx'[d] = x
      BY <1>1, <2>1 DEF IInv, TypeOK
    <3>. QED
      BY <1>1, <2>1, <3>1
  <2>2. CASE d # c
    <3>1. pc'[d] = pc[d] /\ ctx'[d] = ctx[d]
      BY <1>1, <2>2 DEF IInv, TypeOK
    <3>2. Good(pc[d], ctx[d], xdp_hdr_map[d], due[d])
      BY DEF IInv
    <3>. QED
      BY <1>1, <3>1, <3>2
  <2>. QED
    BY <2>1, <2>2
<1>. QED
  BY <1>3, <1>4 DEF IInv

\* Entry: the frame's increments are due, and none has been made.
LEMMA EnterGood ==
  ASSUME NEW f \in Frames, NEW x, NEW m, NEW u, NEW v, Good("idle", x, m, u),
         v = [k \in MapKeys |-> u[k] + IF CountsAs(f, k) THEN 1 ELSE 0]
  PROVE  Good("eth", Enter(f), m, v)
<1>1. Typed("eth", Enter(f), m, v)
  <2>1. Enter(f) \in Locals
    BY Keys, FramesAssumption DEF Enter, Locals
  <2>2. v \in [MapKeys -> Nat]
    BY DEF Good, Typed
  <2>. QED
    BY <2>1, <2>2 DEF Good, Typed, Locations
<1>2. Position("eth", Enter(f)) /\ InBounds(Enter(f))
  BY FrameFields DEF Position, Enter, AtBump, InBounds
<1>3. \A k \in MapKeys : u[k] = m[k]
  BY Keys DEF Good, Ledger, Owed, Floor, MapKeys, max_entries, Typed
<1>4. Ledger("eth", Enter(f), m, v)
  BY <1>3, Keys DEF Ledger, Owed, Floor, Enter, VLAN, Good, Typed
<1>5. Ahead("eth", Enter(f), m)
  BY DEF Good, Ahead, AtBump
<1>. QED
  BY <1>1, <1>2, <1>4, <1>5 DEF Good

\* Leaving the program: the next state of the CPU is clean.
LEMMA ReturnGood ==
  ASSUME NEW x, NEW m, NEW u, Good("out", x, m, u)
  PROVE  Good("idle", Enter(NoFrame), m, u)
<1>1. Typed("idle", Enter(NoFrame), m, u)
  BY Keys, FramesAssumption DEF Good, Typed, Enter, Locals, Locations
<1>2. Position("idle", Enter(NoFrame)) /\ InBounds(Enter(NoFrame))
  BY FrameFields DEF Position, Enter, AtBump, InBounds
<1>3. Ledger("idle", Enter(NoFrame), m, u) /\ Ahead("idle", Enter(NoFrame), m)
  BY Keys DEF Good, Ledger, Owed, Floor, MapKeys, max_entries, Typed, Ahead, AtBump
<1>. QED
  BY <1>1, <1>2, <1>3 DEF Good

\* parse_VLAN without room for an Ethernet header.
LEMMA EthShortGood ==
  ASSUME NEW x, NEW m, NEW u, Good("eth", x, m, u), x.pos + ETH_HLEN > x.frame.len
  PROVE  Good("ipv4", [x EXCEPT !.nh_type = -1], m, u)
<1> DEFINE y == [x EXCEPT !.nh_type = -1]
<1>0. x \in Locals /\ x.frame \in Frames /\ x.pos = 0 /\ x.frame.len \in Nat
  BY FrameFields DEF Good, Typed, Position
<1>1. Typed("ipv4", y, m, u)
  BY <1>0 DEF Good, Typed, Locals, Locations
<1>2. Position("ipv4", y) /\ InBounds(y)
  BY <1>0 DEF Good, Typed, Position, InBounds, Locals, AtBump, AtL3, ETH_HLEN
<1>3. ~CountsAs(x.frame, VLAN)
  BY <1>0 DEF CountsAs, Belongs, PassesFor, HeadersOf, ETH_HLEN, VLAN, IPV4, ICMP, UDP, TCP
<1>4. Ledger("ipv4", y, m, u)
  BY <1>0, <1>3, Keys DEF Good, Ledger, Owed, Floor, Locals, VLAN, IPV4
<1>5. Ahead("ipv4", y, m)
  BY DEF Good, Ahead, AtBump
<1>. QED
  BY <1>1, <1>2, <1>4, <1>5 DEF Good

\* parse_VLAN with room for an Ethernet header: the loop over the tags begins.
LEMMA EthGood ==
  ASSUME NEW x, NEW m, NEW u, Good("eth", x, m, u), x.pos + ETH_HLEN <= x.frame.len
  PROVE  Good("vlan", [x EXCEPT !.pos = @ + ETH_HLEN, !.top = ETH_HLEN, !.i = 0,
                                !.h_proto = x.frame.h_proto], m, u)
<1> DEFINE y == [x EXCEPT !.pos = @ + ETH_HLEN, !.top = ETH_HLEN, !.i = 0,
                          !.h_proto = x.frame.h_proto]
<1>0. x \in Locals /\ x.frame \in Frames /\ x.pos = 0 /\ x.frame.len \in Nat
      /\ x.frame.h_proto \in Nat
  BY FrameFields DEF Good, Typed, Position
<1>1. Typed("vlan", y, m, u)
  <2>1. x.frame.h_proto \in Int
        /\ ETH_HLEN \in Nat /\ x.pos + ETH_HLEN \in Nat /\ 0 \in 0 .. VLAN_MAX_DEPTH
    BY <1>0, FramesAssumption DEF ETH_HLEN
  <2>2. y \in Locals
    BY <1>0, <2>1 DEF Locals
  <2>. QED
    BY <2>2 DEF Good, Typed, Locations
<1>2. y.pos = L3(0) /\ y.i = 0 /\ y.frame = x.frame /\ y.h_proto = TypeAt(y.frame, 0)
  BY <1>0 DEF Locals, L3, TypeAt, ETH_HLEN, VLAN_HLEN
<1>3. Skips(x.frame, 0)
  BY <1>0 DEF Skips, ETH_HLEN, VLAN_HLEN
<1>4. Position("vlan", y) /\ InBounds(y)
  BY <1>0, <1>2, <1>3 DEF Good, Typed, Position, InBounds, Locals, AtBump, ETH_HLEN
<1>5. Ledger("vlan", y, m, u) /\ Ahead("vlan", y, m)
  BY <1>2 DEF Good, Ledger, Owed, Floor, Ahead, AtBump
<1>. QED
  BY <1>1, <1>4, <1>5 DEF Good

\* One more tag.
LEMMA TagGood ==
  ASSUME NEW x, NEW m, NEW u, Good("vlan", x, m, u), MoreTags(x)
  PROVE  Good("vlan", [x EXCEPT !.h_proto = x.frame.tags[x.i + 1], !.i = @ + 1,
                                !.pos = @ + VLAN_HLEN, !.top = x.pos + VLAN_HLEN], m, u)
<1> DEFINE y == [x EXCEPT !.h_proto = x.frame.tags[x.i + 1], !.i = @ + 1,
                          !.pos = @ + VLAN_HLEN, !.top = x.pos + VLAN_HLEN]
<1>0. x \in Locals /\ x.frame \in Frames /\ x.frame.len \in Nat /\ x.pos \in Nat
      /\ x.i \in Nat
  BY FrameFields, FramesAssumption DEF Good, Typed, Position, Locals
<1>1. x.i < VLAN_MAX_DEPTH /\ x.frame.tags[x.i + 1] \in Int
  <2>1. x.frame.tags \in Seq(Nat) /\ Len(x.frame.tags) >= VLAN_MAX_DEPTH
    BY <1>0, FramesAssumption DEF Frame, TypeStack
  <2>2. x.i < VLAN_MAX_DEPTH /\ x.i + 1 \in 1 .. Len(x.frame.tags)
    BY <1>0, <2>1, FramesAssumption DEF MoreTags
  <2>. QED
    BY <2>1, <2>2
<1>2. Typed("vlan", y, m, u)
  <2>1. x.pos + VLAN_HLEN \in Nat /\ x.i + 1 \in 0 .. VLAN_MAX_DEPTH
    BY <1>0, <1>1, FramesAssumption DEF VLAN_HLEN
  <2>2. y \in Locals
    BY <1>0, <1>1, <2>1 DEF Locals
  <2>. QED
    BY <2>2 DEF Good, Typed, Locations
<1>3. /\ y.pos = L3(y.i) /\ y.i = x.i + 1 /\ y.frame = x.frame
      /\ y.h_proto = TypeAt(y.frame, y.i)
  BY <1>0 DEF Good, Position, Locals, L3, TypeAt, ETH_HLEN, VLAN_HLEN
<1>4. Skips(y.frame, y.i)
  <2>1. Skips(x.frame, x.i) /\ proto_is_vlan(TypeAt(x.frame, x.i))
        /\ L3(x.i) + VLAN_HLEN <= x.frame.len
    BY <1>0 DEF Good, Position, MoreTags
  <2>. QED
    BY <1>0, <1>3, <2>1 DEF Skips, L3, ETH_HLEN, VLAN_HLEN
<1>5. Position("vlan", y) /\ InBounds(y)
  BY <1>0, <1>3, <1>4 DEF Good, Typed, Position, InBounds, Locals, AtBump, MoreTags
<1>6. Ledger("vlan", y, m, u) /\ Ahead("vlan", y, m)
  BY <1>3 DEF Good, Ledger, Owed, Floor, Ahead, AtBump
<1>. QED
  BY <1>2, <1>5, <1>6 DEF Good

\* The end of parse_VLAN: the depth is known.
LEMMA EndTagsDepth ==
  ASSUME NEW x, NEW m, NEW u, Good("vlan", x, m, u), ~MoreTags(x)
  PROVE  /\ x \in Locals /\ x.frame \in Frames /\ x.i \in 0 .. VLAN_MAX_DEPTH
         /\ Depth(x.frame, x.i) /\ x.pos = L3(x.i) /\ ETH_HLEN <= x.frame.len
<1>1. /\ x \in Locals /\ x.frame \in Frames /\ x.frame.len \in Nat
      /\ x.i \in 0 .. VLAN_MAX_DEPTH /\ x.i \in Nat
      /\ x.pos = L3(x.i) /\ Skips(x.frame, x.i) /\ x.h_proto = TypeAt(x.frame, x.i)
  BY FrameFields, FramesAssumption DEF Good, Typed, Position, Locals
<1>2. ASSUME x.i < VLAN_MAX_DEPTH, Skips(x.frame, x.i + 1) PROVE FALSE
  <2>1. proto_is_vlan(TypeAt(x.frame, x.i))
    BY <1>1, <1>2 DEF Skips
  <2>2. x.pos + VLAN_HLEN <= x.frame.len
    BY <1>1, <1>2 DEF Skips, L3, ETH_HLEN, VLAN_HLEN
  <2>. QED
    BY <1>1, <1>2, <2>1, <2>2 DEF MoreTags
<1>3. ETH_HLEN <= x.frame.len
  BY <1>1 DEF Skips, ETH_HLEN, VLAN_HLEN
<1>. QED
  BY <1>1, <1>2, <1>3 DEF Depth

\* The program goes on behind the tags: to the VLAN increment, or straight to
\* the network header.
LEMMA EndTagsGood ==
  ASSUME NEW x, NEW m, NEW u, Good("vlan", x, m, u), ~MoreTags(x),
         NEW y, y = [x EXCEPT !.nh_type = x.h_proto]
  PROVE  /\ proto_is_vlan(x.frame.h_proto)
              => Good("load", [y EXCEPT !.key = VLAN, !.next = "ipv4"], m, u)
         /\ ~proto_is_vlan(x.frame.h_proto) => Good("ipv4", y, m, u)
<1>0. /\ x \in Locals /\ x.frame \in Frames /\ x.i \in 0 .. VLAN_MAX_DEPTH
      /\ Depth(x.frame, x.i) /\ x.pos = L3(x.i) /\ ETH_HLEN <= x.frame.len
  BY EndTagsDepth
<1>1. y \in Locals /\ y.frame = x.frame /\ y.pos = x.pos /\ y.top = x.top
      /\ y.action = XDP_PASS
  BY <1>0 DEF Good, Position, Locals, AtBump
<1>2. AtL3(y)
  BY <1>0, <1>1 DEF AtL3
<1>3. InBounds(y)
  BY <1>0, <1>1 DEF Good, InBounds
<1>4. CountsAs(x.frame, VLAN) <=> proto_is_vlan(x.frame.h_proto)
  BY <1>0 DEF CountsAs, Belongs, PassesFor, HeadersOf, VLAN, IPV4, ICMP, UDP, TCP
<1>5. ASSUME proto_is_vlan(x.frame.h_proto)
      PROVE  Good("load", [y EXCEPT !.key = VLAN, !.next = "ipv4"], m, u)
  <2> DEFINE z == [y EXCEPT !.key = VLAN, !.next = "ipv4"]
  <2>1. /\ z \in Locals /\ z.frame = y.frame /\ z.pos = y.pos /\ z.top = y.top
        /\ z.key = VLAN /\ z.next = "ipv4" /\ z.action = XDP_PASS
    BY <1>1, Keys DEF Locals
  <2>2. Typed("load", z, m, u) /\ InBounds(z) /\ AtL3(z)
    BY <1>2, <1>3, <2>1 DEF Good, Typed, Locations, InBounds, AtL3
  <2>3. Position("load", z)
    BY <1>0, <1>1, <1>4, <1>5, <2>1, <2>2
       DEF Position, AtBump, Transport, VLAN, IPV4, ICMP, UDP, TCP
  <2>4. Ledger("load", z, m, u) /\ Ahead("load", z, m)
    BY <1>1, <2>1 DEF Good, Ledger, Owed, Floor, Ahead, AtBump, Transport,
       VLAN, IPV4, ICMP, UDP, TCP
  <2>. QED
    BY <2>2, <2>3, <2>4 DEF Good
<1>6. ASSUME ~proto_is_vlan(x.frame.h_proto)
      PROVE  Good("ipv4", y, m, u)
  <2>1. Typed("ipv4", y, m, u) /\ Position("ipv4", y)
    BY <1>0, <1>1, <1>2 DEF Good, Typed, Locations, Position, AtBump
  <2>2. Ledger("ipv4", y, m, u)
    BY <1>1, <1>4, <1>6, Keys DEF Good, Ledger, Owed, Floor, VLAN, IPV4
  <2>3. Ahead("ipv4", y, m)
    BY DEF Good, Ahead, AtBump
  <2>. QED
    BY <1>3, <2>1, <2>2, <2>3 DEF Good
<1>. QED
  BY <1>5, <1>6

\* What After does to the locals, for a helper that stays in the frame.
LEMMA AfterLocals ==
  ASSUME NEW x \in Locals, InBounds(x), x.frame \in Frames, NEW r,
         r.ret \in Int, r.pos \in Nat, r.top \in Nat,
         r.pos <= x.frame.len, r.top <= x.frame.len
  PROVE  LET y == After(x, r)
         IN  /\ y \in Locals /\ InBounds(y)
             /\ y.frame = x.frame /\ y.pos = r.pos /\ y.nh_type = r.ret
             /\ y.action = x.action
<1>1. Higher(x.top, r.top) \in Nat /\ Higher(x.top, r.top) <= x.frame.len
  BY DEF Higher, InBounds, Locals
<1>. QED
  BY <1>1 DEF After, Locals, InBounds

\* From the transport header to its increment, and from either header out
\* of the program: what remains to be shown is about the frame alone.
LEMMA ToBump ==
  ASSUME NEW x, NEW m, NEW u, Good("l4", x, m, u),
         NEW y \in Locals, InBounds(y), y.frame = x.frame, NEW k \in Transport,
         CountsAs(x.frame, k), Verdict(y)
  PROVE  Good("load", [y EXCEPT !.key = k, !.next = "out"], m, u)
<1> DEFINE z == [y EXCEPT !.key = k, !.next = "out"]
<1>1. k \in MapKeys /\ k \in Nat /\ k >= ICMP
  BY Keys DEF Transport, ICMP, UDP, TCP
<1>2. /\ z \in Locals /\ z.frame = y.frame /\ z.pos = y.pos /\ z.top = y.top
      /\ z.key = k /\ z.next = "out" /\ z.action = y.action
  BY <1>1 DEF Locals
<1>3. Typed("load", z, m, u) /\ InBounds(z) /\ Verdict(z)
  BY <1>2 DEF Good, Typed, Locations, InBounds, Verdict
<1>4. Position("load", z)
  BY <1>2, <1>3 DEF Good, Position, AtBump, Transport, VLAN, IPV4, ICMP, UDP, TCP
<1>5. ASSUME NEW j \in MapKeys PROVE Owed("load", z, j) = Owed("l4", x, j)
  <2>1. CASE j \in Transport
    <3>1. CountsAs(x.frame, j) => j = k
      BY <2>1, OneTransport
    <3>2. CountsAs(x.frame, j) => j >= k /\ j >= ICMP
      BY <3>1, <1>1
    <3>. QED
      BY <1>2, <3>2 DEF Owed, Floor
  <2>2. CASE j \notin Transport
    <3>1. ~(j >= ICMP) /\ ~(j >= k)
      BY <2>2, <1>1, Keys DEF Transport, VLAN, IPV4, ICMP, UDP, TCP
    <3>. QED
      BY <1>2, <3>1 DEF Owed, Floor
  <2>. QED
    BY <2>1, <2>2
<1>6. Ledger("load", z, m, u)
  BY <1>5 DEF Good, Ledger
<1>7. Ahead("load", z, m)
  BY DEF Good, Ahead
<1>. QED
  BY <1>3, <1>4, <1>6, <1>7 DEF Good

\* A header that is refused leads out of the program with nothing due.
LEMMA ToOut ==
  ASSUME NEW p \in {"ipv4", "l4"}, NEW x, NEW m, NEW u, Good(p, x, m, u),
         NEW y \in Locals, InBounds(y), y.frame = x.frame, y.action = x.action,
         \A k \in Transport : ~CountsAs(x.frame, k),
         p = "ipv4" => ~CountsAs(x.frame, IPV4)
  PROVE  Good("out", y, m, u)
<1>1. Typed("out", y, m, u)
  BY DEF Good, Typed, Locations
<1>2. x.action = XDP_PASS
  BY DEF Good, Position, AtBump
<1>3. Verdict(y)
  BY <1>2 DEF Verdict, Transport, XDP_PASS, XDP_DROP
<1>4. Position("out", y)
  BY <1>3 DEF Good, Position, AtBump
<1>5. ASSUME NEW j \in MapKeys PROVE Owed(p, x, j) = 0 /\ Owed("out", y, j) = 0
  <2>1. CASE j \in Transport
    BY <2>1 DEF Owed
  <2>2. CASE j = IPV4
    BY <2>2 DEF Owed, Floor, IPV4, ICMP, max_entries
  <2>3. CASE j = VLAN
    BY <2>3 DEF Owed, Floor, VLAN, IPV4, ICMP, max_entries
  <2>. QED
    BY <2>1, <2>2, <2>3, Keys DEF Transport
<1>6. Ledger("out", y, m, u)
  BY <1>5 DEF Good, Ledger
<1>7. Ahead("out", y, m)
  BY DEF Good, Ahead, AtBump
<1>. QED
  BY <1>1, <1>4, <1>6, <1>7 DEF Good

\* parse_ipv4hdr: to the IPV4 increment, or out.
LEMMA Ipv4Good ==
  ASSUME NEW x, NEW m, NEW u, Good("ipv4", x, m, u), NEW r, NEW y,
         r = parse_ipv4hdr(x.frame, x.pos), y = After(x, r)
  PROVE  /\ r.ret \in Known
              => Good("load", [y EXCEPT !.key = IPV4, !.next = "l4"], m, u)
         /\ r.ret \notin Known => Good("out", y, m, u)
<1>1. /\ x \in Locals /\ x.frame \in Frames /\ x.pos \in Nat /\ x.pos <= x.frame.len
      /\ InBounds(x) /\ AtL3(x) /\ x.action = XDP_PASS
      /\ x.frame.len \in Nat /\ x.frame.ihl \in Nat
  BY FrameFields DEF Good, Typed, Position, InBounds, Locals, AtBump
<1>2. /\ r.ret \in Int /\ r.pos \in Nat /\ r.top \in Nat
      /\ r.pos <= x.frame.len /\ r.top <= x.frame.len
      /\ r.ret \in Known <=> /\ x.frame.protocol \in Known
                             /\ x.frame.ihl >= 5
                             /\ x.pos + 4 * x.frame.ihl <= x.frame.len
      /\ r.ret \in Known => /\ r.ret = x.frame.protocol
                            /\ r.pos = x.pos + 4 * x.frame.ihl
  BY <1>1, Ipv4Result
<1>3. /\ y \in Locals /\ InBounds(y) /\ y.frame = x.frame /\ y.pos = r.pos
      /\ y.nh_type = r.ret /\ y.action = x.action
  BY <1>1, <1>2, AfterLocals
<1>4. ASSUME NEW n \in 0 .. VLAN_MAX_DEPTH, Depth(x.frame, n), x.pos = L3(n)
      PROVE  /\ r.ret \in Known <=> IsIpv4(x.frame, n)
             /\ r.ret \in Known => y.pos = L4(x.frame, n)
  BY <1>1, <1>2, <1>3, <1>4 DEF IsIpv4, L4, Known
<1>5. ASSUME r.ret \in Known
      PROVE  Good("load", [y EXCEPT !.key = IPV4, !.next = "l4"], m, u)
  <2> DEFINE z == [y EXCEPT !.key = IPV4, !.next = "l4"]
  <2>1. /\ z \in Locals /\ z.frame = y.frame /\ z.pos = y.pos /\ z.top = y.top
        /\ z.key = IPV4 /\ z.next = "l4" /\ z.action = XDP_PASS
        /\ z.nh_type = y.nh_type
    BY <1>1, <1>3, Keys DEF Locals
  <2>2. ~(x.frame.len < ETH_HLEN /\ x.pos = 0)
    BY <1>1, <1>2, <1>5 DEF ETH_HLEN
  <2>3. PICK n \in 0 .. VLAN_MAX_DEPTH : Depth(x.frame, n) /\ x.pos = L3(n)
    BY <1>1, <2>2 DEF AtL3
  <2>4. IsIpv4(x.frame, n) /\ z.pos = L4(x.frame, n)
    BY <1>4, <1>5, <2>1, <2>3
  <2>5. AtL4(z)
    BY <1>2, <1>3, <1>5, <2>1, <2>3, <2>4 DEF AtL4
  <2>6. CountsAs(x.frame, IPV4)
    BY <1>1, <2>3, <2>4, CountsAtDepth
  <2>7. Typed("load", z, m, u) /\ InBounds(z)
    BY <1>3, <2>1 DEF Good, Typed, Locations, InBounds
  <2>8. Position("load", z)
    BY <1>1, <1>3, <2>1, <2>5, <2>6
       DEF Position, AtBump, Transport, VLAN, IPV4, ICMP, UDP, TCP
  <2>9. Ledger("load", z, m, u) /\ Ahead("load", z, m)
    BY <1>3, <2>1 DEF Good, Ledger, Owed, Floor, Ahead, AtBump, Transport,
       VLAN, IPV4, ICMP, UDP, TCP
  <2>. QED
    BY <2>7, <2>8, <2>9 DEF Good
<1>6. ASSUME r.ret \notin Known
      PROVE  Good("out", y, m, u)
  <2>1. /\ ~CountsAs(x.frame, IPV4) /\ ~CountsAs(x.frame, ICMP)
        /\ ~CountsAs(x.frame, UDP) /\ ~CountsAs(x.frame, TCP)
    <3>1. CASE x.frame.len < ETH_HLEN
      BY <1>1, <3>1, TooShort
    <3>2. CASE \E n \in 0 .. VLAN_MAX_DEPTH : Depth(x.frame, n) /\ x.pos = L3(n)
      <4>1. PICK n \in 0 .. VLAN_MAX_DEPTH : Depth(x.frame, n) /\ x.pos = L3(n)
        BY <3>2
      <4>2. ~IsIpv4(x.frame, n)
        BY <1>4, <1>6, <4>1
      <4>. QED
        BY <1>1, <4>1, <4>2, CountsAtDepth DEF IsEcho, IsUdp, IsTcp
    <3>. QED
      BY <1>1, <3>1, <3>2 DEF AtL3
  <2>2. \A k \in Transport : ~CountsAs(x.frame, k)
    BY <2>1 DEF Transport
  <2>. QED
    BY <1>3, <2>1, <2>2, ToOut
<1>. QED
  BY <1>5, <1>6

\* Behind the IPv4 header, the depth and the protocol are known.
LEMMA AtTransport ==
  ASSUME NEW x, NEW m, NEW u, Good("l4", x, m, u)
  PROVE  /\ x \in Locals /\ x.frame \in Frames /\ x.pos \in Nat
         /\ x.pos <= x.frame.len /\ InBounds(x)
         /\ x.nh_type = x.frame.protocol /\ x.action = XDP_PASS
         /\ \E n \in 0 .. VLAN_MAX_DEPTH :
              Depth(x.frame, n) /\ IsIpv4(x.frame, n) /\ x.pos = L4(x.frame, n)
BY DEF Good, Typed, Position, InBounds, Locals, AtBump, AtL4

\* parse_icmphdr: to the ICMP increment with the verdict set, or out.
LEMMA IcmpGood ==
  ASSUME NEW x, NEW m, NEW u, Good("l4", x, m, u), x.nh_type = IPPROTO_ICMP,
         NEW r, r = parse_icmphdr(x.frame, x.pos), NEW y, y = After(x, r),
         NEW z, z = [y EXCEPT !.action =
                       IF bpf_ntohs(x.frame.sequence) % 2 = 0 THEN XDP_DROP ELSE @]
  PROVE  /\ r.ret # ICMP_ECHO => Good("out", y, m, u)
         /\ r.ret = ICMP_ECHO
              => Good("load", [z EXCEPT !.key = ICMP, !.next = "out"], m, u)
<1>1. /\ x \in Locals /\ x.frame \in Frames /\ x.pos \in Nat
      /\ x.pos <= x.frame.len /\ InBounds(x)
      /\ x.nh_type = x.frame.protocol /\ x.action = XDP_PASS
  BY AtTransport
<1>2. PICK n \in 0 .. VLAN_MAX_DEPTH :
        Depth(x.frame, n) /\ IsIpv4(x.frame, n) /\ x.pos = L4(x.frame, n)
  BY AtTransport
<1>3. /\ r.ret \in Int /\ r.pos \in Nat /\ r.top \in Nat
      /\ r.pos <= x.frame.len /\ r.top <= x.frame.len
      /\ r.ret = ICMP_ECHO <=> /\ x.frame.icmp_type = ICMP_ECHO
                               /\ x.pos + ICMPHDR_LEN <= x.frame.len
  BY <1>1, IcmpResult
<1>4. /\ y \in Locals /\ InBounds(y) /\ y.frame = x.frame /\ y.pos = r.pos
      /\ y.action = XDP_PASS
  BY <1>1, <1>3, AfterLocals
<1>5. /\ CountsAs(x.frame, ICMP) <=> r.ret = ICMP_ECHO
      /\ ~CountsAs(x.frame, UDP) /\ ~CountsAs(x.frame, TCP)
  BY <1>1, <1>2, <1>3, CountsAtDepth
     DEF IsEcho, IsUdp, IsTcp, IPPROTO_ICMP, IPPROTO_UDP, IPPROTO_TCP
<1>6. ASSUME r.ret # ICMP_ECHO PROVE Good("out", y, m, u)
  <2>1. \A k \in Transport : ~CountsAs(x.frame, k)
    BY <1>5, <1>6 DEF Transport
  <2>. QED
    BY <1>1, <1>4, <2>1, ToOut
<1>7. ASSUME r.ret = ICMP_ECHO
      PROVE  Good("load", [z EXCEPT !.key = ICMP, !.next = "out"], m, u)
  <2>1. /\ z \in Locals /\ z.frame = x.frame /\ z.pos = y.pos /\ z.top = y.top
        /\ z.action = IF bpf_ntohs(x.frame.sequence) % 2 = 0
                      THEN XDP_DROP ELSE XDP_PASS
    BY <1>4 DEF Locals
  <2>2. InBounds(z)
    BY <1>4, <2>1 DEF InBounds
  <2>3. Verdict(z)
    BY <1>5, <1>7, <2>1 DEF Verdict, XDP_DROP, XDP_PASS
  <2>. QED
    BY <1>5, <1>7, <2>1, <2>2, <2>3, ToBump DEF Transport
<1>. QED
  BY <1>6, <1>7

\* parse_udphdr: to the UDP increment, or out.
LEMMA UdpGood ==
  ASSUME NEW x, NEW m, NEW u, Good("l4", x, m, u), x.nh_type = IPPROTO_UDP,
         NEW r, r = parse_udphdr(x.frame, x.pos), NEW y, y = After(x, r)
  PROVE  /\ r.ret = -1 => Good("out", y, m, u)
         /\ r.ret # -1 => Good("load", [y EXCEPT !.key = UDP, !.next = "out"], m, u)
<1>1. /\ x \in Locals /\ x.frame \in Frames /\ x.pos \in Nat
      /\ x.pos <= x.frame.len /\ InBounds(x)
      /\ x.nh_type = x.frame.protocol /\ x.action = XDP_PASS
  BY AtTransport
<1>2. PICK n \in 0 .. VLAN_MAX_DEPTH :
        Depth(x.frame, n) /\ IsIpv4(x.frame, n) /\ x.pos = L4(x.frame, n)
  BY AtTransport
<1>3. /\ r.ret \in Int /\ r.pos \in Nat /\ r.top \in Nat
      /\ r.pos <= x.frame.len /\ r.top <= x.frame.len
      /\ r.ret # -1 <=> /\ bpf_ntohs(x.frame.udp_len) >= UDPHDR_LEN
                        /\ x.pos + UDPHDR_LEN <= x.frame.len
  BY <1>1, UdpResult
<1>4. /\ y \in Locals /\ InBounds(y) /\ y.frame = x.frame /\ y.pos = r.pos
      /\ y.action = XDP_PASS
  BY <1>1, <1>3, AfterLocals
<1>5. /\ CountsAs(x.frame, UDP) <=> r.ret # -1
      /\ ~CountsAs(x.frame, ICMP) /\ ~CountsAs(x.frame, TCP)
  BY <1>1, <1>2, <1>3, CountsAtDepth
     DEF IsEcho, IsUdp, IsTcp, IPPROTO_ICMP, IPPROTO_UDP, IPPROTO_TCP
<1>6. ASSUME r.ret = -1 PROVE Good("out", y, m, u)
  <2>1. \A k \in Transport : ~CountsAs(x.frame, k)
    BY <1>5, <1>6 DEF Transport
  <2>. QED
    BY <1>1, <1>4, <2>1, ToOut
<1>7. ASSUME r.ret # -1
      PROVE  Good("load", [y EXCEPT !.key = UDP, !.next = "out"], m, u)
  <2>1. Verdict(y)
    BY <1>4, <1>5 DEF Verdict, XDP_DROP, XDP_PASS
  <2>. QED
    BY <1>4, <1>5, <1>7, <2>1, ToBump DEF Transport
<1>. QED
  BY <1>6, <1>7

\* parse_tcphdr: to the TCP increment, or out.
LEMMA TcpGood ==
  ASSUME NEW x, NEW m, NEW u, Good("l4", x, m, u), x.nh_type = IPPROTO_TCP,
         NEW r, r = parse_tcphdr(x.frame, x.pos), NEW y, y = After(x, r)
  PROVE  /\ r.ret = -1 => Good("out", y, m, u)
         /\ r.ret # -1 => Good("load", [y EXCEPT !.key = TCP, !.next = "out"], m, u)
<1>1. /\ x \in Locals /\ x.frame \in Frames /\ x.pos \in Nat
      /\ x.pos <= x.frame.len /\ InBounds(x)
      /\ x.nh_type = x.frame.protocol /\ x.action = XDP_PASS
  BY AtTransport
<1>2. PICK n \in 0 .. VLAN_MAX_DEPTH :
        Depth(x.frame, n) /\ IsIpv4(x.frame, n) /\ x.pos = L4(x.frame, n)
  BY AtTransport
<1>3. /\ r.ret \in Int /\ r.pos \in Nat /\ r.top \in Nat
      /\ r.pos <= x.frame.len /\ r.top <= x.frame.len
      /\ r.ret # -1 <=> /\ x.frame.doff >= 5
                        /\ x.pos + 4 * x.frame.doff <= x.frame.len
  BY <1>1, TcpResult
<1>4. /\ y \in Locals /\ InBounds(y) /\ y.frame = x.frame /\ y.pos = r.pos
      /\ y.action = XDP_PASS
  BY <1>1, <1>3, AfterLocals
<1>5. /\ CountsAs(x.frame, TCP) <=> r.ret # -1
      /\ ~CountsAs(x.frame, ICMP) /\ ~CountsAs(x.frame, UDP)
  BY <1>1, <1>2, <1>3, CountsAtDepth
     DEF IsEcho, IsUdp, IsTcp, IPPROTO_ICMP, IPPROTO_UDP, IPPROTO_TCP
<1>6. ASSUME r.ret = -1 PROVE Good("out", y, m, u)
  <2>1. \A k \in Transport : ~CountsAs(x.frame, k)
    BY <1>5, <1>6 DEF Transport
  <2>. QED
    BY <1>1, <1>4, <2>1, ToOut
<1>7. ASSUME r.ret # -1
      PROVE  Good("load", [y EXCEPT !.key = TCP, !.next = "out"], m, u)
  <2>1. Verdict(y)
    BY <1>4, <1>5 DEF Verdict, XDP_DROP, XDP_PASS
  <2>. QED
    BY <1>4, <1>5, <1>7, <2>1, ToBump DEF Transport
<1>. QED
  BY <1>6, <1>7

\* The two halves of rx_packets++.
LEMMA LoadGood ==
  ASSUME NEW x, NEW m, NEW u, Good("load", x, m, u)
  PROVE  Good("store", [x EXCEPT !.reg = m[x.key]], m, u)
<1> DEFINE y == [x EXCEPT !.reg = m[x.key]]
<1>1. /\ y \in Locals /\ y.frame = x.frame /\ y.pos = x.pos /\ y.top = x.top
      /\ y.key = x.key /\ y.next = x.next /\ y.action = x.action
      /\ y.nh_type = x.nh_type /\ y.reg = m[x.key]
  BY DEF Good, Typed, Locals
<1>2. Typed("store", y, m, u) /\ InBounds(y)
  BY <1>1 DEF Good, Typed, Locations, InBounds
<1>3. Position("store", y)
  BY <1>1 DEF Good, Position, AtBump, AtL3, AtL4, Verdict
<1>4. Ledger("store", y, m, u) /\ Ahead("store", y, m)
  BY <1>1 DEF Good, Ledger, Owed, Floor, Ahead, AtBump
<1>. QED
  BY <1>2, <1>3, <1>4 DEF Good

\* The store of an increment makes exactly the update that was due.
LEMMA StoreGood ==
  ASSUME NEW x, NEW m, NEW u, Good("store", x, m, u),
         NEW w, w = [m EXCEPT ![x.key] = x.reg + 1]
  PROVE  Good(x.next, x, w, u)
<1>1. /\ x \in Locals /\ x.key \in MapKeys /\ x.reg = m[x.key] /\ m \in [MapKeys -> Nat]
      /\ u \in [MapKeys -> Nat] /\ CountsAs(x.frame, x.key) /\ x.frame \in Frames
  BY DEF Good, Typed, Locals, Position, Ledger
<1>2. w \in [MapKeys -> Nat] /\ w[x.key] = m[x.key] + 1
      /\ \A k \in MapKeys : k # x.key => w[k] = m[k]
  BY <1>1
<1>3. x.next \in Locations
  BY <1>1 DEF Locals, Locations
<1>4. /\ x.key = VLAN => x.next = "ipv4"
      /\ x.key = IPV4 => x.next = "l4"
      /\ x.key \in Transport => x.next = "out"
  BY DEF Good, Position, AtBump
<1>5. Position(x.next, x)
  BY <1>1, <1>4, Keys DEF Good, Position, AtBump, Transport
<1>6. ASSUME NEW k \in MapKeys
      PROVE  u[k] = w[k] + Owed(x.next, x, k)
  <2>1. u[k] = m[k] + Owed("store", x, k)
    BY DEF Good, Ledger
  <2>2. CASE k = x.key
    <3>1. Owed("store", x, k) = 1
      BY <1>1, <2>2, Keys DEF Owed, Floor
    <3>2. Owed(x.next, x, k) = 0
      BY <1>4, <2>2, Keys DEF Owed, Floor, Transport, max_entries,
         VLAN, IPV4, ICMP, UDP, TCP
    <3>. QED
      BY <1>1, <1>2, <2>1, <2>2, <3>1, <3>2
  <2>3. CASE k # x.key
    <3>1. Owed(x.next, x, k) = Owed("store", x, k)
      <4>1. CASE x.key \in {VLAN, IPV4}
        BY <1>4, <2>3, <4>1, Keys DEF Owed, Floor, VLAN, IPV4, ICMP, UDP, TCP
      <4>2. CASE x.key \in Transport
        <5>1. k \in Transport => ~CountsAs(x.frame, k)
          BY <1>1, <2>3, <4>2, OneTransport
        <5>. QED
          BY <1>4, <4>2, <5>1, Keys DEF Owed, Floor, Transport, max_entries,
             VLAN, IPV4, ICMP, UDP, TCP
      <4>. QED
        BY <1>1, <4>1, <4>2, Keys DEF Transport
    <3>. QED
      BY <1>2, <2>1, <2>3, <3>1
  <2>. QED
    BY <2>2, <2>3
<1>7. Ahead(x.next, x, w)
  <2>1. m[ICMP] \in Nat /\ m[UDP] \in Nat /\ m[TCP] \in Nat /\ m[IPV4] \in Nat
    BY <1>1, Keys
  <2>2. CASE x.key = VLAN
    BY <1>2, <1>4, <2>1, <2>2, Keys DEF Good, Ahead, AtBump, VLAN, IPV4, ICMP, UDP, TCP
  <2>3. CASE x.key = IPV4
    BY <1>2, <1>4, <2>1, <2>3, Keys DEF Good, Ahead, AtBump, VLAN, IPV4, ICMP, UDP, TCP
  <2>4. CASE x.key \in Transport
    <3>1. m[ICMP] + m[UDP] + m[TCP] + 1 <= m[IPV4]
      BY <2>4 DEF Good, Ahead, AtBump
    <3>2. w[ICMP] + w[UDP] + w[TCP] = m[ICMP] + m[UDP] + m[TCP] + 1 /\ w[IPV4] = m[IPV4]
      BY <1>2, <2>1, <2>4, Keys DEF Transport, VLAN, IPV4, ICMP, UDP, TCP
    <3>. QED
      BY <1>4, <2>4, <3>1, <3>2 DEF Ahead, AtBump
  <2>. QED
    BY <1>1, <2>2, <2>3, <2>4, Keys DEF Transport
<1>. QED
  BY <1>1, <1>2, <1>3, <1>4, <1>5, <1>6, <1>7, Keys
     DEF Good, Typed, Ledger, Transport

-----------------------------------------------------------------------------
(* The theorems.                                                           *)

\* Every step of the specification preserves the invariant.
LEMMA Inductive == IInv /\ [Next]_vars => IInv'
<1> SUFFICES ASSUME IInv, [Next]_vars PROVE IInv'
  OBVIOUS
<1>1. CASE UNCHANGED vars
  <2>1. pc' = pc /\ ctx' = ctx /\ xdp_hdr_map' = xdp_hdr_map
        /\ arrived' = arrived /\ due' = due
    BY <1>1 DEF vars
  <2>. QED
    BY <2>1 DEF IInv, TypeOK
<1>2. ASSUME NEW c \in CPUs, NEW f \in Frames, Receive(c, f)
      PROVE  IInv'
  <2>1. /\ pc[c] = "idle" /\ pc' = [pc EXCEPT ![c] = "eth"]
        /\ ctx' = [ctx EXCEPT ![c] = Enter(f)]
        /\ arrived' \in Nat /\ xdp_hdr_map' = xdp_hdr_map
    BY <1>2, FramesAssumption DEF Receive, Goto, IInv, TypeOK
  <2>2. due' = [due EXCEPT ![c] = [k \in MapKeys |->
                  due[c][k] + IF CountsAs(f, k) THEN 1 ELSE 0]]
    BY <1>2 DEF Receive
  <2>3. due'[c] = [k \in MapKeys |-> due[c][k] + IF CountsAs(f, k) THEN 1 ELSE 0]
    BY <2>2 DEF IInv, TypeOK
  <2>4. Good("idle", ctx[c], xdp_hdr_map[c], due[c])
    BY <2>1 DEF IInv
  <2>5. Good("eth", Enter(f), xdp_hdr_map[c], due'[c])
    BY <2>3, <2>4, EnterGood
  <2>6. Enter(f) \in Locals /\ due'[c] \in [MapKeys -> Nat] /\ "eth" \in Locations
    BY <2>5 DEF Good, Typed
  <2>7. TypeOK'
    BY <2>1, <2>2, <2>3, <2>6 DEF IInv, TypeOK
  <2>8. ASSUME NEW d \in CPUs
        PROVE  Good(pc[d], ctx[d], xdp_hdr_map[d], due[d])'
    <3>1. CASE d = c
      <4>1. pc'[d] = "eth" /\ ctx'[d] = Enter(f)
        BY <2>1, <3>1 DEF IInv, TypeOK
      <4>. QED
        BY <2>1, <2>5, <3>1, <4>1
    <3>2. CASE d # c
      <4>1. pc'[d] = pc[d] /\ ctx'[d] = ctx[d] /\ due'[d] = due[d]
        BY <2>1, <2>2, <3>2 DEF IInv, TypeOK
      <4>2. Good(pc[d], ctx[d], xdp_hdr_map[d], due[d])
        BY DEF IInv
      <4>. QED
        BY <2>1, <4>1, <4>2
    <3>. QED
      BY <3>1, <3>2
  <2>. QED
    BY <2>7, <2>8 DEF IInv
<1>3. ASSUME NEW c \in CPUs, xdp_parser_func(c)
      PROVE  IInv'
  <2>0. Good(pc[c], ctx[c], xdp_hdr_map[c], due[c])
    BY DEF IInv
  <2>1. CASE ParseEth(c)
    <3>1. ctx[c].pos \in Nat /\ ctx[c].frame.len \in Nat
      <4>1. ctx[c] \in Locals
        BY <2>0 DEF Good, Typed
      <4>2. ctx[c].pos \in Nat /\ ctx[c].frame \in Frames \cup {NoFrame}
        BY <4>1 DEF Locals
      <4>. QED
        BY <4>2, FrameFields
    <3>2. CASE ctx[c].pos + ETH_HLEN > ctx[c].frame.len
      BY <2>0, <2>1, <3>2, EthShortGood, ContinueKeeps DEF ParseEth
    <3>3. CASE ~(ctx[c].pos + ETH_HLEN > ctx[c].frame.len)
      <4>1. ctx[c].pos + ETH_HLEN <= ctx[c].frame.len
        BY <3>1, <3>3 DEF ETH_HLEN
      <4>. QED
        BY <2>0, <2>1, <3>3, <4>1, EthGood, ContinueKeeps DEF ParseEth
    <3>. QED
      BY <3>2, <3>3
  <2>2. CASE ParseTag(c)
    BY <2>0, <2>2, TagGood, ContinueKeeps DEF ParseTag
  <2>3. CASE EndTags(c)
    <3> DEFINE y == [ctx[c] EXCEPT !.nh_type = ctx[c].h_proto]
    <3>1. pc[c] = "vlan" /\ ~MoreTags(ctx[c]) /\ y.frame = ctx[c].frame
      BY <2>3 DEF EndTags
    <3>2. CASE proto_is_vlan(ctx[c].frame.h_proto)
      <4>1. Continue(c, [y EXCEPT !.key = VLAN, !.next = "ipv4"], "load")
        BY <2>3, <3>1, <3>2, Keys DEF EndTags, Bump
      <4>. QED
        BY <2>0, <3>1, <3>2, <4>1, EndTagsGood, ContinueKeeps
    <3>3. CASE ~proto_is_vlan(ctx[c].frame.h_proto)
      <4>1. Continue(c, y, "ipv4")
        BY <2>3, <3>1, <3>3 DEF EndTags
      <4>. QED
        BY <2>0, <3>1, <3>3, <4>1, EndTagsGood, ContinueKeeps
    <3>. QED
      BY <3>2, <3>3
  <2>4. CASE ParseIpv4(c)
    <3> DEFINE r == parse_ipv4hdr(ctx[c].frame, ctx[c].pos)
               y == After(ctx[c], r)
    <3>1. CASE r.ret \in Known
      <4>1. Continue(c, [y EXCEPT !.key = IPV4, !.next = "l4"], "load")
        BY <2>4, <3>1, Keys DEF ParseIpv4, Bump, Known
      <4>. QED
        BY <2>0, <2>4, <3>1, <4>1, Ipv4Good, ContinueKeeps DEF ParseIpv4
    <3>2. CASE r.ret \notin Known
      <4>1. Continue(c, y, "out")
        BY <2>4, <3>2 DEF ParseIpv4, Known
      <4>. QED
        BY <2>0, <2>4, <3>2, <4>1, Ipv4Good, ContinueKeeps DEF ParseIpv4
    <3>. QED
      BY <3>1, <3>2
  <2>5. CASE ParseIcmp(c)
    <3> DEFINE r == parse_icmphdr(ctx[c].frame, ctx[c].pos)
               y == After(ctx[c], r)
               z == [y EXCEPT !.action =
                       IF bpf_ntohs(ctx[c].frame.sequence) % 2 = 0
                       THEN XDP_DROP ELSE @]
    <3>1. y.frame = ctx[c].frame
      BY DEF After
    <3>2. CASE r.ret # ICMP_ECHO
      <4>1. Continue(c, y, "out")
        BY <2>5, <3>2 DEF ParseIcmp
      <4>. QED
        BY <2>0, <2>5, <3>2, <4>1, IcmpGood, ContinueKeeps DEF ParseIcmp
    <3>3. CASE r.ret = ICMP_ECHO
      <4>1. Continue(c, [z EXCEPT !.key = ICMP, !.next = "out"], "load")
        BY <2>5, <3>1, <3>3, Keys DEF ParseIcmp, Bump
      <4>. QED
        BY <2>0, <2>5, <3>3, <4>1, IcmpGood, ContinueKeeps DEF ParseIcmp
    <3>. QED
      BY <3>2, <3>3
  <2>6. CASE ParseUdp(c)
    <3> DEFINE r == parse_udphdr(ctx[c].frame, ctx[c].pos)
               y == After(ctx[c], r)
    <3>1. CASE r.ret = -1
      BY <2>0, <2>6, <3>1, UdpGood, ContinueKeeps DEF ParseUdp
    <3>2. CASE r.ret # -1
      <4>1. Continue(c, [y EXCEPT !.key = UDP, !.next = "out"], "load")
        BY <2>6, <3>2, Keys DEF ParseUdp, Bump
      <4>. QED
        BY <2>0, <2>6, <3>2, <4>1, UdpGood, ContinueKeeps DEF ParseUdp
    <3>. QED
      BY <3>1, <3>2
  <2>7. CASE ParseTcp(c)
    <3> DEFINE r == parse_tcphdr(ctx[c].frame, ctx[c].pos)
               y == After(ctx[c], r)
    <3>1. CASE r.ret = -1
      BY <2>0, <2>7, <3>1, TcpGood, ContinueKeeps DEF ParseTcp
    <3>2. CASE r.ret # -1
      <4>1. Continue(c, [y EXCEPT !.key = TCP, !.next = "out"], "load")
        BY <2>7, <3>2, Keys DEF ParseTcp, Bump
      <4>. QED
        BY <2>0, <2>7, <3>2, <4>1, TcpGood, ContinueKeeps DEF ParseTcp
    <3>. QED
      BY <3>1, <3>2
  <2>8. CASE Load(c)
    BY <2>0, <2>8, LoadGood, ContinueKeeps DEF Load
  <2>9. CASE Store(c)
    <3> DEFINE w == [xdp_hdr_map[c] EXCEPT ![ctx[c].key] = ctx[c].reg + 1]
    <3>1. /\ pc[c] = "store" /\ xdp_hdr_map' = [xdp_hdr_map EXCEPT ![c] = w]
          /\ pc' = [pc EXCEPT ![c] = ctx[c].next]
          /\ ctx' = ctx /\ arrived' = arrived /\ due' = due
      BY <2>9 DEF Store, Goto
    <3>2. Good(ctx[c].next, ctx[c], w, due[c])
      BY <2>0, <3>1, StoreGood
    <3>3. w \in [MapKeys -> Nat] /\ ctx[c].next \in Locations
      BY <3>2 DEF Good, Typed
    <3>4. TypeOK'
      BY <3>1, <3>3 DEF IInv, TypeOK
    <3>5. ASSUME NEW d \in CPUs
          PROVE  Good(pc[d], ctx[d], xdp_hdr_map[d], due[d])'
      <4>1. CASE d = c
        <5>1. pc'[d] = ctx[c].next /\ xdp_hdr_map'[d] = w
          BY <3>1, <4>1 DEF IInv, TypeOK
        <5>. QED
          BY <3>1, <3>2, <4>1, <5>1
      <4>2. CASE d # c
        <5>1. pc'[d] = pc[d] /\ xdp_hdr_map'[d] = xdp_hdr_map[d]
          BY <3>1, <4>2 DEF IInv, TypeOK
        <5>2. Good(pc[d], ctx[d], xdp_hdr_map[d], due[d])
          BY DEF IInv
        <5>. QED
          BY <3>1, <5>1, <5>2
      <4>. QED
        BY <4>1, <4>2
    <3>. QED
      BY <3>4, <3>5 DEF IInv
  <2>10. CASE Return(c)
    BY <2>0, <2>10, ReturnGood, ContinueKeeps DEF Return
  <2>. QED
    BY <1>3, <2>1, <2>2, <2>3, <2>4, <2>5, <2>6, <2>7, <2>8, <2>9, <2>10
       DEF xdp_parser_func
<1>. QED
  BY <1>1, <1>2, <1>3, FramesAssumption DEF Next, MayArrive

\* The initial state satisfies the invariant.
LEMMA Initial == Init => IInv
<1> SUFFICES ASSUME Init PROVE IInv
  OBVIOUS
<1>1. Enter(NoFrame) \in Locals
  BY Keys, FramesAssumption DEF Enter, Locals
<1>2. TypeOK
  BY <1>1 DEF Init, TypeOK, Locations
<1>3. ASSUME NEW c \in CPUs
      PROVE  Good(pc[c], ctx[c], xdp_hdr_map[c], due[c])
  <2> DEFINE Zero == [k \in MapKeys |-> 0]
  <2>1. pc[c] = "idle" /\ ctx[c] = Enter(NoFrame) /\ xdp_hdr_map[c] = Zero /\ due[c] = Zero
    BY DEF Init
  <2>2. Typed("idle", Enter(NoFrame), Zero, Zero)
    BY <1>1 DEF Typed, Locations
  <2>3. Position("idle", Enter(NoFrame)) /\ InBounds(Enter(NoFrame))
    BY FrameFields DEF Position, Enter, AtBump, InBounds
  <2>4. Ledger("idle", Enter(NoFrame), Zero, Zero) /\ Ahead("idle", Enter(NoFrame), Zero)
    BY Keys DEF Ledger, Owed, Floor, MapKeys, max_entries, Ahead, AtBump
  <2>. QED
    BY <2>1, <2>2, <2>3, <2>4 DEF Good
<1>. QED
  BY <1>2, <1>3 DEF IInv

\* The invariant holds in every reachable state.
LEMMA Invariant == Spec => []IInv
BY Initial, Inductive, PTL DEF Spec

\* Every variable keeps its type in every reachable state.
THEOREM TypeCorrect == Spec => []TypeOK
<1>1. IInv => TypeOK
  BY DEF IInv
<1>. QED
  BY <1>1, Invariant, PTL

\* The parser reads no byte outside its frame, for any frame and any depth
\* of VLAN tags.
THEOREM MemorySafe == Spec => []ReadsInBounds
<1>1. IInv => ReadsInBounds
  BY DEF IInv, Good, InBounds, ReadsInBounds
<1>. QED
  BY <1>1, Invariant, PTL

\* A CPU between two frames has counted each of its frames exactly once
\* under each key it belongs to, for any number of CPUs and frames.
THEOREM CountsExactly == Spec => []CountersExact
<1>1. IInv => CountersExact
  <2> SUFFICES ASSUME IInv, NEW c \in CPUs, pc[c] = "idle"
               PROVE  xdp_hdr_map[c] = due[c]
    BY DEF CountersExact
  <2>1. /\ xdp_hdr_map[c] \in [MapKeys -> Nat] /\ due[c] \in [MapKeys -> Nat]
        /\ \A k \in MapKeys : due[c][k] = xdp_hdr_map[c][k] + Owed("idle", ctx[c], k)
    BY DEF IInv, Good, Typed, Ledger
  <2>2. \A k \in MapKeys : Owed("idle", ctx[c], k) = 0
    BY DEF Owed, Floor, MapKeys, max_entries
  <2>3. \A k \in MapKeys : due[c][k] = xdp_hdr_map[c][k]
    BY <2>1, <2>2, Keys
  <2>. QED
    BY <2>1, <2>3
<1>. QED
  BY <1>1, Invariant, PTL

\* No reader ever sees more transport-layer than IPv4 frames in a slot.
THEOREM L4NeverAhead == Spec => []L4WithinIpv4
<1>1. IInv => L4WithinIpv4
  BY DEF IInv, Good, Ahead, L4WithinIpv4
<1>. QED
  BY <1>1, Invariant, PTL

\* Every other ping is dropped, and nothing that is not counted as one.
THEOREM DropsExactly == Spec => []DropsEveryOtherPing
<1>1. \A n \in Nat : n % 2 \in {0, 1}
  OBVIOUS
<1>2. IInv => DropsEveryOtherPing
  <2> SUFFICES ASSUME IInv, NEW c \in CPUs, NEW d \in CPUs, pc[c] = "out", pc[d] = "out"
               PROVE  LET f == ctx[c].frame
                          g == ctx[d].frame
                      IN  /\ ctx[c].action = XDP_DROP => CountsAs(f, ICMP)
                          /\ CountsAs(f, ICMP) /\ CountsAs(g, ICMP)
                               => ( ctx[c].action = ctx[d].action
                                      <=> bpf_ntohs(f.sequence) % 2
                                            = bpf_ntohs(g.sequence) % 2 )
    BY DEF DropsEveryOtherPing
  <2>1. Verdict(ctx[c]) /\ Verdict(ctx[d])
    BY DEF IInv, Good, Position
  <2>2. /\ ctx[c].frame \in Frames \cup {NoFrame} /\ ctx[d].frame \in Frames \cup {NoFrame}
        /\ ctx[c].action \in {XDP_PASS, XDP_DROP} /\ ctx[d].action \in {XDP_PASS, XDP_DROP}
    BY DEF IInv, TypeOK, Locals
  <2>3. /\ bpf_ntohs(ctx[c].frame.sequence) % 2 \in {0, 1}
        /\ bpf_ntohs(ctx[d].frame.sequence) % 2 \in {0, 1}
    BY <1>1, <2>2, FrameFields, SwapType
  <2>. QED
    BY <2>1, <2>2, <2>3 DEF Verdict
<1>. QED
  BY <1>2, Invariant, PTL

\* The ignored -1 of parse_VLAN is harmless: an accepted IPv4 header always
\* lies behind a complete Ethernet header.
THEOREM Ipv4AlwaysBehindEthernet == Spec => []Ipv4BehindEthernet
<1>1. IInv => Ipv4BehindEthernet
  <2> SUFFICES ASSUME IInv, NEW c \in CPUs, pc[c] = "l4"
               PROVE  ctx[c].pos >= ETH_HLEN + IPHDR_LEN
    BY DEF Ipv4BehindEthernet
  <2>1. ctx[c].frame \in Frames /\ AtL4(ctx[c])
    BY DEF IInv, Good, Position
  <2>2. PICK n \in 0 .. VLAN_MAX_DEPTH :
          IsIpv4(ctx[c].frame, n) /\ ctx[c].pos = L4(ctx[c].frame, n)
    BY <2>1 DEF AtL4
  <2>3. n \in Nat
    BY FramesAssumption
  <2>4. ctx[c].frame.ihl \in Nat
    BY <2>1, FrameFields
  <2>. QED
    BY <2>2, <2>3, <2>4 DEF IsIpv4, L4, L3, ETH_HLEN, VLAN_HLEN, IPHDR_LEN
<1>. QED
  BY <1>1, Invariant, PTL

-----------------------------------------------------------------------------
(* Sums over the CPUs, as user space reads a per-CPU map.  SumOverCPUs is  *)
(* a fold: a recursive function over the sets of CPUs.                     *)

\* A set of numbers that is not empty has a least element.
LEMMA Least ==
  ASSUME NEW T \in SUBSET Nat, T # {}
  PROVE  \E m \in T : \A k \in T : m <= k
<1>. DEFINE R == OpToRel(<, Nat)
<1>1. IsWellFoundedOn(R, Nat)
  BY NatLessThanWellFounded
<1>2. \A k, m \in Nat : k < m => <<k, m>> \in R
  BY DEF OpToRel
<1>. HIDE DEF R
<1>3. PICK m \in T : \A k \in T : ~(<<k, m>> \in R)
  BY <1>1, WFMin
<1>4. ASSUME NEW k \in T PROVE m <= k
  <2>1. k \in Nat /\ m \in Nat
    OBVIOUS
  <2>2. ~(k < m)
    BY <1>2, <1>3, <2>1
  <2>. QED
    BY <2>1, <2>2
<1>. QED
  BY <1>4

\* Induction over the numbers, for a property given as a set.
LEMMA AllNumbers ==
  ASSUME NEW T, 0 \in T, \A j \in Nat : j \in T => j + 1 \in T
  PROVE  \A n \in Nat : n \in T
<1>. SUFFICES ASSUME NEW n \in Nat, n \notin T PROVE FALSE
  OBVIOUS
<1>. DEFINE U == {k \in Nat : k \notin T}
<1>1. n \in U /\ U \in SUBSET Nat
  OBVIOUS
<1>. HIDE DEF U
<1>2. PICK m \in U : \A k \in U : m <= k
  BY <1>1, Least
<1>3. m \in Nat /\ m \notin T /\ m # 0
  BY <1>2 DEF U
<1>4. m - 1 \in Nat /\ (m - 1) + 1 = m /\ ~(m <= m - 1)
  BY <1>3
<1>5. m - 1 \in T
  BY <1>2, <1>4 DEF U
<1>. QED
  BY <1>3, <1>4, <1>5

\* The element a fold takes out of a set first, and a sum with it taken out.
Pick(s) == CHOOSE x \in s : TRUE

Part(it, g, s) == IF s = {} THEN 0 ELSE g[Pick(s)] + it[s \ {Pick(s)}]

Partial(it, g) == it = [s \in SUBSET CPUs |-> Part(it, g, s)]

\* Induction over the sets of CPUs, for a property given as a set of sets.
LEMMA AllSets ==
  ASSUME NEW T, {} \in T,
         \A s \in SUBSET CPUs : s # {} /\ s \ {Pick(s)} \in T => s \in T
  PROVE  CPUs \in T
<1>1. \A s \in SUBSET CPUs : IsFiniteSet(s) /\ Cardinality(s) \in Nat
  BY CPUsAssumption, FS_Subset, FS_CardinalityType
<1>. DEFINE N == {n \in Nat : \A s \in SUBSET CPUs : Cardinality(s) = n => s \in T}
<1>2. 0 \in N
  BY <1>1, FS_EmptySet
<1>3. ASSUME NEW n \in Nat, n \in N PROVE n + 1 \in N
  <2>. SUFFICES ASSUME NEW s \in SUBSET CPUs, Cardinality(s) = n + 1 PROVE s \in T
    OBVIOUS
  <2>1. s # {}
    BY FS_EmptySet
  <2>2. Pick(s) \in s
    BY <2>1 DEF Pick
  <2>3. s \ {Pick(s)} \in SUBSET CPUs /\ Cardinality(s \ {Pick(s)}) = (n + 1) - 1
    BY <1>1, <2>2, FS_RemoveElement
  <2>4. (n + 1) - 1 = n
    OBVIOUS
  <2>5. s \ {Pick(s)} \in T
    BY <1>3, <2>3, <2>4
  <2>. QED
    BY <2>1, <2>5
<1>. HIDE DEF N
<1>4. Cardinality(CPUs) \in N
  BY <1>1, <1>2, <1>3, AllNumbers
<1>. QED
  BY <1>4 DEF N

\* The fold is well defined: its partial sums can be laid out by size.
LEMMA PartialExists == ASSUME NEW g PROVE \E it : Partial(it, g)
<1>. DEFINE Small(n) == {s \in SUBSET CPUs : Cardinality(s) <= n}
            Upto(it, n) == it = [s \in Small(n) |-> Part(it, g, s)]
            T == {n \in Nat : \E it : Upto(it, n)}
<1>1. \A s \in SUBSET CPUs : IsFiniteSet(s) /\ Cardinality(s) \in Nat
                             /\ Cardinality(s) <= Cardinality(CPUs)
  BY CPUsAssumption, FS_Subset, FS_CardinalityType
<1>2. 0 \in T
  <2>. DEFINE it == [s \in Small(0) |-> 0]
  <2>1. \A s \in Small(0) : s = {}
    BY <1>1, FS_EmptySet
  <2>2. Upto(it, 0)
    BY <2>1 DEF Part
  <2>. QED
    BY <2>2
<1>3. ASSUME NEW n \in Nat, n \in T PROVE n + 1 \in T
  <2>1. PICK it : Upto(it, n)
    BY <1>3
  <2>. DEFINE jt == [s \in Small(n + 1) |-> Part(it, g, s)]
  <2>2. Small(n) \subseteq Small(n + 1)
    BY <1>1
  <2>3. ASSUME NEW s \in Small(n + 1), s # {} PROVE s \ {Pick(s)} \in Small(n)
    <3>1. Pick(s) \in s /\ s \in SUBSET CPUs /\ Cardinality(s) <= n + 1
      BY <2>3 DEF Pick
    <3>2. s \ {Pick(s)} \in SUBSET CPUs /\ Cardinality(s \ {Pick(s)}) = Cardinality(s) - 1
      BY <1>1, <3>1, FS_RemoveElement
    <3>3. Cardinality(s) - 1 <= n
      BY <1>1, <3>1
    <3>. QED
      BY <3>2, <3>3
  <2>. HIDE DEF Small
  <2>4. \A s \in Small(n) : it[s] = Part(it, g, s)
    BY <2>1
  <2>5. \A s \in Small(n) : jt[s] = it[s]
    BY <2>2, <2>4
  <2>6. \A s \in Small(n + 1) : jt[s] = Part(it, g, s)
    OBVIOUS
  <2>. HIDE DEF jt
  <2>7. \A s \in Small(n + 1) : Part(jt, g, s) = Part(it, g, s)
    BY <2>3, <2>5 DEF Part
  <2>8. jt = [s \in Small(n + 1) |-> Part(jt, g, s)]
    BY <2>7 DEF jt
  <2>. QED
    BY <2>8
<1>4. Small(Cardinality(CPUs)) = SUBSET CPUs
  BY <1>1
<1>. HIDE DEF T
<1>5. Cardinality(CPUs) \in T
  BY <1>1, <1>2, <1>3, AllNumbers
<1>. QED
  BY <1>4, <1>5 DEF T, Partial

Sum(g) == FoldFunction(LAMBDA a, b : a + b, 0, g)

\* The fold over the CPUs is the last of the partial sums.
LEMMA SumPartial ==
  ASSUME NEW g, DOMAIN g = CPUs
  PROVE  \E it : Partial(it, g) /\ Sum(g) = it[CPUs]
<1>1. Sum(g) = (CHOOSE it : Partial(it, g))[CPUs]
  BY Zenon DEF Sum, FoldFunction, FoldFunctionOnSet, MapThenFoldSet, Partial, Part, Pick
<1>. QED
  BY <1>1, PartialExists

\* The partial sums of a set that is not empty.
AddsUp(it, g) ==
  /\ it[{}] = 0
  /\ \A s \in SUBSET CPUs : s # {} =>
       /\ Pick(s) \in s /\ Pick(s) \in CPUs
       /\ it[s] = g[Pick(s)] + it[s \ {Pick(s)}]

\* A partial sum is the one before it and one more value.
LEMMA PartialStep ==
  ASSUME NEW g, NEW it, Partial(it, g)
  PROVE  AddsUp(it, g)
<1>1. \A s \in SUBSET CPUs : it[s] = Part(it, g, s)
  BY DEF Partial
<1>2. \A s \in SUBSET CPUs : s # {} => Pick(s) \in s /\ Pick(s) \in CPUs
  BY DEF Pick
<1>. QED
  BY <1>1, <1>2 DEF Part, AddsUp

\* A sum of counters is a counter, and grows with each of them.
LEMMA SumGrows ==
  ASSUME NEW g \in [CPUs -> Nat], NEW h \in [CPUs -> Nat], \A c \in CPUs : g[c] <= h[c]
  PROVE  Sum(g) \in Nat /\ Sum(h) \in Nat /\ Sum(g) <= Sum(h)
<1>1. PICK it : Partial(it, g) /\ Sum(g) = it[CPUs]
  BY SumPartial
<1>2. PICK jt : Partial(jt, h) /\ Sum(h) = jt[CPUs]
  BY SumPartial
<1>0. AddsUp(it, g) /\ AddsUp(jt, h)
  BY <1>1, <1>2, PartialStep
<1>. DEFINE T == {s \in SUBSET CPUs : it[s] \in Nat /\ jt[s] \in Nat /\ it[s] <= jt[s]}
<1>3. {} \in T
  BY <1>0 DEF AddsUp
<1>4. ASSUME NEW s \in SUBSET CPUs, s # {}, s \ {Pick(s)} \in T PROVE s \in T
  <2>1. PICK x \in CPUs : x = Pick(s)
    BY <1>0, <1>4 DEF AddsUp
  <2>2. it[s] = g[x] + it[s \ {x}] /\ jt[s] = h[x] + jt[s \ {x}]
    BY <1>0, <1>4, <2>1 DEF AddsUp
  <2>3. it[s \ {x}] \in Nat /\ jt[s \ {x}] \in Nat /\ it[s \ {x}] <= jt[s \ {x}]
    BY <1>4, <2>1
  <2>4. g[x] \in Nat /\ h[x] \in Nat /\ g[x] <= h[x]
    OBVIOUS
  <2>5. it[s] \in Nat /\ jt[s] \in Nat /\ it[s] <= jt[s]
    BY ONLY <2>2, <2>3, <2>4
  <2>. QED
    BY <2>5
<1>. HIDE DEF T
<1>5. CPUs \in T
  BY <1>3, <1>4, AllSets
<1>. QED
  BY <1>1, <1>2, <1>5 DEF T

\* One more in one slot is one more in the sum.
LEMMA SumBumped ==
  ASSUME NEW g \in [CPUs -> Nat], NEW c \in CPUs,
         NEW h \in [CPUs -> Nat], h[c] = g[c] + 1, \A d \in CPUs : d # c => h[d] = g[d]
  PROVE  Sum(h) = Sum(g) + 1
<1>1. PICK it : Partial(it, g) /\ Sum(g) = it[CPUs]
  BY SumPartial
<1>2. PICK jt : Partial(jt, h) /\ Sum(h) = jt[CPUs]
  BY SumPartial
<1>0. AddsUp(it, g) /\ AddsUp(jt, h)
  BY <1>1, <1>2, PartialStep
<1>. DEFINE T == {s \in SUBSET CPUs :
                    /\ it[s] \in Nat /\ jt[s] \in Nat
                    /\ c \in s => jt[s] = it[s] + 1
                    /\ c \notin s => jt[s] = it[s]}
<1>3. {} \in T
  BY <1>0 DEF AddsUp
<1>4. ASSUME NEW s \in SUBSET CPUs, s # {}, s \ {Pick(s)} \in T PROVE s \in T
  <2>1. PICK x \in CPUs : x = Pick(s) /\ x \in s
    BY <1>0, <1>4 DEF AddsUp
  <2>2. it[s] = g[x] + it[s \ {x}] /\ jt[s] = h[x] + jt[s \ {x}]
    BY <1>0, <1>4, <2>1 DEF AddsUp
  <2>3. /\ it[s \ {x}] \in Nat /\ jt[s \ {x}] \in Nat
        /\ c \in s \ {x} => jt[s \ {x}] = it[s \ {x}] + 1
        /\ c \notin s \ {x} => jt[s \ {x}] = it[s \ {x}]
    BY <1>4, <2>1
  <2>4. g[x] \in Nat /\ h[x] \in Nat
    OBVIOUS
  <2>5. it[s] \in Nat /\ jt[s] \in Nat
    BY ONLY <2>2, <2>3, <2>4
  <2>6. CASE x = c
    <3>1. c \in s /\ jt[s \ {x}] = it[s \ {x}] /\ h[x] = g[x] + 1
      BY <2>1, <2>3, <2>6
    <3>2. jt[s] = it[s] + 1
      BY ONLY <2>2, <2>3, <2>4, <3>1
    <3>. QED
      BY <2>5, <3>1, <3>2
  <2>7. CASE x # c
    <3>1. h[x] = g[x] /\ (c \in s <=> c \in s \ {x})
      BY <2>7
    <3>2. CASE c \in s
      <4>1. jt[s \ {x}] = it[s \ {x}] + 1
        BY <2>3, <3>1, <3>2
      <4>2. jt[s] = it[s] + 1
        BY ONLY <2>2, <2>3, <2>4, <3>1, <4>1
      <4>. QED
        BY <2>5, <3>2, <4>2
    <3>3. CASE c \notin s
      <4>1. jt[s \ {x}] = it[s \ {x}]
        BY <2>3, <3>1, <3>3
      <4>2. jt[s] = it[s]
        BY <2>2, <3>1, <4>1
      <4>. QED
        BY <2>5, <3>3, <4>2
    <3>. QED
      BY <3>2, <3>3
  <2>. QED
    BY <2>6, <2>7
<1>. HIDE DEF T
<1>5. CPUs \in T
  BY <1>3, <1>4, AllSets
<1>. QED
  BY <1>1, <1>2, <1>5 DEF T

\* Zeros add up to zero.
LEMMA SumZero ==
  ASSUME NEW g, g = [c \in CPUs |-> 0]
  PROVE  Sum(g) = 0
<1>1. PICK it : Partial(it, g) /\ Sum(g) = it[CPUs]
  BY SumPartial
<1>0. AddsUp(it, g)
  BY <1>1, PartialStep
<1>. DEFINE T == {s \in SUBSET CPUs : it[s] = 0}
<1>2. {} \in T
  BY <1>0 DEF AddsUp
<1>3. ASSUME NEW s \in SUBSET CPUs, s # {}, s \ {Pick(s)} \in T PROVE s \in T
  <2>1. PICK x \in CPUs : x = Pick(s)
    BY <1>0, <1>3 DEF AddsUp
  <2>2. it[s] = g[x] + it[s \ {x}]
    BY <1>0, <1>3, <2>1 DEF AddsUp
  <2>3. it[s \ {x}] = 0 /\ g[x] = 0
    BY <1>3, <2>1
  <2>. QED
    BY <2>2, <2>3
<1>. HIDE DEF T
<1>4. CPUs \in T
  BY <1>2, <1>3, AllSets
<1>. QED
  BY <1>1, <1>4 DEF T

\* If every slot is within what is due, and one is short, then so is the sum.
LEMMA SumShort ==
  ASSUME NEW g \in [CPUs -> Nat], NEW h \in [CPUs -> Nat], NEW c \in CPUs,
         \A d \in CPUs : g[d] <= h[d], g[c] + 1 <= h[c]
  PROVE  Sum(g) < Sum(h)
<1>. DEFINE b == [d \in CPUs |-> IF d = c THEN g[d] + 1 ELSE g[d]]
<1>1. b \in [CPUs -> Nat] /\ b[c] = g[c] + 1 /\ \A d \in CPUs : d # c => b[d] = g[d]
  OBVIOUS
<1>2. \A d \in CPUs : b[d] <= h[d]
  BY <1>1
<1>. HIDE DEF b
<1>3. Sum(b) = Sum(g) + 1 /\ Sum(g) \in Nat
  BY <1>1, SumBumped, SumGrows
<1>4. Sum(b) <= Sum(h) /\ Sum(h) \in Nat
  BY <1>1, <1>2, SumGrows
<1>. QED
  BY <1>3, <1>4

-----------------------------------------------------------------------------
(* The refinement.                                                         *)

Column(slots, k) == [c \in CPUs |-> slots[c][k]]

\* What the reader adds up is a column of the CPUs' slots.
LEMMA ColumnSum == \A slots, k : SumOverCPUs(slots, k) = Sum(Column(slots, k))
BY Zenon DEF Sum, SumOverCPUs, Column

\* What the invariant says of the columns: each slot is within what is due.
LEMMA ColumnTypes ==
  ASSUME IInv, NEW k \in MapKeys
  PROVE  /\ Column(due, k) \in [CPUs -> Nat] /\ Column(xdp_hdr_map, k) \in [CPUs -> Nat]
         /\ \A c \in CPUs : Column(xdp_hdr_map, k)[c] <= Column(due, k)[c]
<1>1. ASSUME NEW c \in CPUs
      PROVE  due[c][k] \in Nat /\ xdp_hdr_map[c][k] \in Nat /\ xdp_hdr_map[c][k] <= due[c][k]
  <2>1. /\ due[c][k] \in Nat /\ xdp_hdr_map[c][k] \in Nat
        /\ due[c][k] = xdp_hdr_map[c][k] + Owed(pc[c], ctx[c], k)
    BY DEF IInv, Good, Typed, Ledger
  <2>2. Owed(pc[c], ctx[c], k) \in Nat
    BY DEF Owed
  <2>. QED
    BY <2>1, <2>2
<1>. QED
  BY <1>1 DEF Column

\* Counters that are all zero show totals of zero.
LEMMA InitTotals == Init => Totals!Init
<1>. SUFFICES ASSUME Init PROVE Totals!Init
  OBVIOUS
<1>1. ASSUME NEW k \in MapKeys
      PROVE  Column(due, k) = [c \in CPUs |-> 0] /\ Column(xdp_hdr_map, k) = [c \in CPUs |-> 0]
  BY DEF Init, Column
<1>2. \A k \in MapKeys : SumOverCPUs(due, k) = 0 /\ SumOverCPUs(xdp_hdr_map, k) = 0
  BY <1>1, ColumnSum, SumZero
<1>. QED
  BY <1>2 DEF Totals!Init

\* A frame that arrives is offered under its keys.
LEMMA ReceiveOffers ==
  ASSUME IInv, IInv', NEW c \in CPUs, NEW f \in Frames, Receive(c, f)
  PROVE  Totals!Next
<1>. DEFINE ks == {k \in MapKeys : CountsAs(f, k)}
<1>1. UNCHANGED xdp_hdr_map
  BY DEF Receive
<1>2. ASSUME NEW k \in MapKeys
      PROVE  SumOverCPUs(due', k) = SumOverCPUs(due, k) + IF k \in ks THEN 1 ELSE 0
  <2>1. /\ due'[c][k] = due[c][k] + IF CountsAs(f, k) THEN 1 ELSE 0
        /\ \A d \in CPUs : d # c => due'[d] = due[d]
    BY DEF Receive, IInv, TypeOK
  <2>2. Column(due, k) \in [CPUs -> Nat] /\ Column(due', k) \in [CPUs -> Nat]
    <3>1. \A d \in CPUs : due'[d][k] \in Nat
      BY DEF IInv, TypeOK
    <3>. QED
      BY <3>1, ColumnTypes DEF Column
  <2>3. CASE k \in ks
    <3>1. /\ Column(due', k)[c] = Column(due, k)[c] + 1
          /\ \A d \in CPUs : d # c => Column(due', k)[d] = Column(due, k)[d]
      BY <2>1, <2>3 DEF Column
    <3>2. Sum(Column(due', k)) = Sum(Column(due, k)) + 1
      BY <2>2, <3>1, SumBumped
    <3>. QED
      BY <2>3, <3>2, ColumnSum
  <2>4. CASE k \notin ks
    <3>1. due[c][k] \in Nat
      BY DEF IInv, TypeOK
    <3>2. due'[c][k] = due[c][k]
      BY <2>1, <2>4, <3>1
    <3>3. Column(due', k) = Column(due, k)
      BY <2>1, <3>2 DEF Column
    <3>4. SumOverCPUs(due, k) \in Nat
      BY <2>2, ColumnSum, SumGrows
    <3>. QED
      BY <2>4, <3>3, <3>4, ColumnSum
  <2>. QED
    BY <2>3, <2>4
<1>3. ks \in SUBSET MapKeys
  OBVIOUS
<1>. HIDE DEF ks
<1>4. Totals!Offer(ks)
  BY <1>1, <1>2 DEF Totals!Offer
<1>. QED
  BY <1>3, <1>4 DEF Totals!Next

\* A store counts one frame that was offered and not counted yet.
LEMMA StoreCounts ==
  ASSUME IInv, IInv', NEW c \in CPUs, Store(c)
  PROVE  Totals!Next
<1>. DEFINE k == ctx[c].key
<1>1. /\ pc[c] = "store" /\ k \in MapKeys /\ UNCHANGED due
      /\ xdp_hdr_map' = [xdp_hdr_map EXCEPT ![c][k] = ctx[c].reg + 1]
      /\ ctx[c].reg = xdp_hdr_map[c][k] /\ CountsAs(ctx[c].frame, k)
      /\ due[c][k] = xdp_hdr_map[c][k] + Owed("store", ctx[c], k)
      /\ xdp_hdr_map \in [CPUs -> [MapKeys -> Nat]]
  BY DEF Store, IInv, TypeOK, Good, Typed, Locals, Position, Ledger
<1>. HIDE DEF k
<1>2. /\ xdp_hdr_map'[c][k] = xdp_hdr_map[c][k] + 1
      /\ \A d \in CPUs, j \in MapKeys :
           d # c \/ j # k => xdp_hdr_map'[d][j] = xdp_hdr_map[d][j]
  BY <1>1
<1>3. due[c][k] = xdp_hdr_map[c][k] + 1
  <2>1. Owed("store", ctx[c], k) = 1
    BY <1>1, Keys DEF Owed, Floor, k
  <2>. QED
    BY <1>1, <2>1
<1>4. SumOverCPUs(xdp_hdr_map, k) < SumOverCPUs(due, k)
  <2>1. Column(xdp_hdr_map, k)[c] + 1 <= Column(due, k)[c]
    BY <1>1, <1>3 DEF Column
  <2>2. Sum(Column(xdp_hdr_map, k)) < Sum(Column(due, k))
    BY <1>1, <2>1, ColumnTypes, SumShort
  <2>. QED
    BY <2>2, ColumnSum
<1>5. SumOverCPUs(xdp_hdr_map', k) = SumOverCPUs(xdp_hdr_map, k) + 1
  <2>1. /\ Column(xdp_hdr_map', k)[c] = Column(xdp_hdr_map, k)[c] + 1
        /\ \A d \in CPUs : d # c => Column(xdp_hdr_map', k)[d] = Column(xdp_hdr_map, k)[d]
    BY <1>1, <1>2 DEF Column
  <2>2. Column(xdp_hdr_map, k) \in [CPUs -> Nat]
    BY <1>1, ColumnTypes
  <2>3. Column(xdp_hdr_map', k) \in [CPUs -> Nat]
    <3>1. \A d \in CPUs : xdp_hdr_map'[d][k] \in Nat
      BY <1>1 DEF IInv, TypeOK
    <3>. QED
      BY <3>1 DEF Column
  <2>4. Sum(Column(xdp_hdr_map', k)) = Sum(Column(xdp_hdr_map, k)) + 1
    BY <2>1, <2>2, <2>3, SumBumped
  <2>. QED
    BY <2>4, ColumnSum
<1>6. ASSUME NEW j \in MapKeys, j # k
      PROVE  SumOverCPUs(xdp_hdr_map', j) = SumOverCPUs(xdp_hdr_map, j)
  <2>1. Column(xdp_hdr_map', j) = Column(xdp_hdr_map, j)
    BY <1>2, <1>6 DEF Column
  <2>. QED
    BY <2>1, ColumnSum
<1>7. Totals!Count(k)
  BY <1>1, <1>4, <1>5, <1>6 DEF Totals!Count
<1>. QED
  BY <1>1, <1>7 DEF Totals!Next

\* Every other step is one that a reader of the map does not see.
LEMMA NextTotals ==
  ASSUME IInv, IInv', [Next]_vars
  PROVE  [Totals!Next]_<<[k \in MapKeys |-> SumOverCPUs(due, k)],
                         [k \in MapKeys |-> SumOverCPUs(xdp_hdr_map, k)]>>
<1>1. CASE UNCHANGED <<xdp_hdr_map, due>>
  BY <1>1
<1>2. ASSUME NEW c \in CPUs, NEW f \in Frames, Receive(c, f) PROVE Totals!Next
  BY <1>2, ReceiveOffers
<1>3. ASSUME NEW c \in CPUs, Store(c) PROVE Totals!Next
  BY <1>3, StoreCounts
<1>4. ASSUME NEW c \in CPUs, xdp_parser_func(c), ~Store(c)
      PROVE  UNCHANGED <<xdp_hdr_map, due>>
  BY <1>4 DEF xdp_parser_func, ParseEth, ParseTag, EndTags, ParseIpv4, ParseIcmp, ParseUdp,
     ParseTcp, Load, Return, Bump, Continue
<1>. QED
  BY <1>1, <1>2, <1>3, <1>4, FramesAssumption DEF Next, MayArrive, vars

\* The per-CPU map, summed by its reader at any moment, is a packet counter:
\* every frame is counted once, after it arrived, although no increment of
\* xdp_parser_func is atomic.  For any finite number of CPUs.
THEOREM ReaderSeesPacketCounter == Spec => ImplementsPacketCounter
<1>1. Spec => []IInv
  BY Invariant
<1>. QED
  BY <1>1, InitTotals, NextTotals, PTL DEF Spec, ImplementsPacketCounter, Totals!Spec

=============================================================================
