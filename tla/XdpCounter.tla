---------------------------- MODULE XdpCounter ----------------------------
(***************************************************************************)
(* The XDP packet counter (04-packet-counting): every CPU runs             *)
(* xdp_parser_func on the frames of its receive queue, walking the headers *)
(* with the parsing helpers and bumping the entries of xdp_hdr_map.        *)
(*                                                                         *)
(* xdp_hdr_map is a BPF_MAP_TYPE_PERCPU_ARRAY: bpf_map_lookup_elem hands a *)
(* program the slot of the CPU it runs on.  `rec->rx_packets++' is not     *)
(* atomic, so it is two steps here, Load and Store; the loop of parse_VLAN *)
(* is one step per tag.  XDP programs run under softirq and are not        *)
(* preempted by another XDP program on the same CPU, so a CPU has one      *)
(* frame in hand at a time.                                                *)
(***************************************************************************)
EXTENDS Parsing

CONSTANTS
  CPUs,            \* the CPUs with a receive queue of the interface
  Frames,          \* the frames that may arrive
  VLAN_MAX_DEPTH,  \* tags parse_VLAN looks through, 2 unless redefined
  Repeated,        \* those of them that others may follow in a behaviour
  MaxFrames        \* bound: frames that arrive in a behaviour

ASSUME FramesAssumption ==
  /\ Frames \subseteq Frame
  /\ VLAN_MAX_DEPTH \in Nat
  /\ MaxFrames \in Nat
  /\ Repeated \subseteq Frames
  /\ \A f \in Frames : Len(f.tags) >= VLAN_MAX_DEPTH

\* enum hdr_types, the keys of xdp_hdr_map.
VLAN == 0
IPV4 == 1
ICMP == 2
UDP  == 3
TCP  == 4

max_entries == 5
HdrTypes    == {VLAN, IPV4, ICMP, UDP, TCP}
MapKeys     == 0 .. max_entries - 1

XDP_DROP == "XDP_DROP"
XDP_PASS == "XDP_PASS"

VARIABLES
  pc,           \* where xdp_parser_func is on each CPU, "idle" between frames
  ctx,          \* its frame and local variables
  xdp_hdr_map,  \* the per-CPU array: rx_packets of each CPU's slot of each key
  arrived,      \* how many frames have arrived, on any CPU, or MaxFrames
  due           \* history: per CPU and key, the frames received that the
                \* classification below puts under that key

vars == <<pc, ctx, xdp_hdr_map, arrived, due>>

Locations == {"idle", "eth", "vlan", "ipv4", "l4", "load", "store", "out"}

\* The frame an idle CPU is left with, so that idle CPUs compare equal.
NoFrame ==
  [len |-> 0, h_proto |-> 0, tags |-> <<>>, ihl |-> 0, protocol |-> 0,
   icmp_type |-> 0, sequence |-> 0, udp_len |-> 0, doff |-> 0]

\* Entry of xdp_parser_func: nh.pos = data, action = XDP_PASS.
Enter(f) ==
  [frame |-> f, pos |-> 0, top |-> 0, nh_type |-> -1, h_proto |-> 0, i |-> 0,
   key |-> VLAN, reg |-> 0, next |-> "out", action |-> XDP_PASS]

Init ==
  /\ pc = [c \in CPUs |-> "idle"]
  /\ ctx = [c \in CPUs |-> Enter(NoFrame)]
  /\ xdp_hdr_map = [c \in CPUs |-> [k \in MapKeys |-> 0]]
  /\ arrived = 0
  /\ due = [c \in CPUs |-> [k \in MapKeys |-> 0]]

-----------------------------------------------------------------------------
(***************************************************************************)
(* What a frame is counted as, said of the frame as a whole and not by     *)
(* walking it.  The state machine below is checked against this.           *)
(***************************************************************************)

\* The type field in front of the header that follows n tags.
TypeAt(f, n) == IF n = 0 THEN f.h_proto ELSE f.tags[n]

\* n tags can be skipped: all of them are in the frame and announced.
Skips(f, n) ==
  /\ ETH_HLEN + VLAN_HLEN * n <= f.len
  /\ \A m \in 0 .. n - 1 : proto_is_vlan(TypeAt(f, m))

\* n is the number of tags in front of the network header.
Depth(f, n) ==
  /\ Skips(f, n)
  /\ n < VLAN_MAX_DEPTH => ~Skips(f, n + 1)

\* The bytes behind n tags are a complete IPv4 header of a protocol the
\* program knows, and the transport header would start at L4(f, n).
L3(n)    == ETH_HLEN + VLAN_HLEN * n
L4(f, n) == L3(n) + 4 * f.ihl
IsIpv4(f, n) ==
  /\ f.protocol \in {IPPROTO_ICMP, IPPROTO_UDP, IPPROTO_TCP}
  /\ f.ihl >= 5
  /\ L4(f, n) <= f.len

\* Of ICMP, an echo request.
IsEcho(f, n) ==
  /\ IsIpv4(f, n) /\ f.protocol = IPPROTO_ICMP
  /\ L4(f, n) + ICMPHDR_LEN <= f.len
  /\ f.icmp_type = ICMP_ECHO

IsUdp(f, n) ==
  /\ IsIpv4(f, n) /\ f.protocol = IPPROTO_UDP
  /\ L4(f, n) + UDPHDR_LEN <= f.len
  /\ bpf_ntohs(f.udp_len) >= UDPHDR_LEN

IsTcp(f, n) ==
  /\ IsIpv4(f, n) /\ f.protocol = IPPROTO_TCP
  /\ f.doff >= 5
  /\ L4(f, n) + 4 * f.doff <= f.len

\* The headers behind n tags are those counted under key k.
HeadersOf(f, n, k) ==
  \/ k = IPV4 /\ IsIpv4(f, n)
  \/ k = ICMP /\ IsEcho(f, n)
  \/ k = UDP  /\ IsUdp(f, n)
  \/ k = TCP  /\ IsTcp(f, n)

\* The frame belongs under key k: it has the headers, and its type fields
\* announce them.
Belongs(f, k) ==
  \/ k = VLAN /\ ETH_HLEN <= f.len /\ proto_is_vlan(f.h_proto)
  \/ \E n \in 0 .. VLAN_MAX_DEPTH :
       Depth(f, n) /\ TypeAt(f, n) = bpf_htons(ETH_P_IP) /\ HeadersOf(f, n, k)

\* The frame announces something else, and its bytes pass for such headers.
PassesFor(f, k) ==
  \E n \in 0 .. VLAN_MAX_DEPTH :
    Depth(f, n) /\ TypeAt(f, n) # bpf_htons(ETH_P_IP) /\ HeadersOf(f, n, k)

\* The program counts both under key k: it does not look at the type that
\* parse_VLAN returns.
CountsAs(f, k) == Belongs(f, k) \/ PassesFor(f, k)

-----------------------------------------------------------------------------
(* Control flow inside the program.                                        *)

Goto(c, l) == pc' = [pc EXCEPT ![c] = l]

Higher(a, b) == IF a < b THEN b ELSE a

\* The program continues at l with local variables x.
Continue(c, x, l) ==
  /\ ctx' = [ctx EXCEPT ![c] = x]
  /\ Goto(c, l)
  /\ UNCHANGED <<xdp_hdr_map, arrived, due>>

\* It bumps counter k first, when the lookup finds the entry.
Bump(c, x, k, l) ==
  IF k \in MapKeys
  THEN Continue(c, [x EXCEPT !.key = k, !.next = l], "load")
  ELSE Continue(c, x, l)

\* The local variables after a helper returned r.
After(x, r) ==
  [x EXCEPT !.nh_type = r.ret, !.pos = r.pos, !.top = Higher(@, r.top)]

-----------------------------------------------------------------------------
(* One action per step of xdp_parser_func.                                 *)

\* Any frame comes first; to bound the model, only the Repeated ones come
\* together with others.
MayArrive == IF arrived = 0 THEN Frames ELSE Repeated

Receive(c, f) ==
  /\ pc[c] = "idle"
  /\ arrived < MaxFrames
  /\ arrived' = IF f \in Repeated THEN arrived + 1 ELSE MaxFrames
  /\ due' = [due EXCEPT ![c] = [k \in MapKeys |->
                                 @[k] + IF CountsAs(f, k) THEN 1 ELSE 0]]
  /\ ctx' = [ctx EXCEPT ![c] = Enter(f)]
  /\ Goto(c, "eth")
  /\ UNCHANGED xdp_hdr_map

\* parse_VLAN: the Ethernet header must fit, or it returns -1 at once; the
\* program goes on to the IPv4 header in either case.
ParseEth(c) ==
  LET x == ctx[c]
  IN  /\ pc[c] = "eth"
      /\ IF x.pos + ETH_HLEN > x.frame.len
         THEN Continue(c, [x EXCEPT !.nh_type = -1], "ipv4")
         ELSE Continue(c, [x EXCEPT !.pos = @ + ETH_HLEN, !.top = ETH_HLEN, !.i = 0,
                                    !.h_proto = x.frame.h_proto], "vlan")

\* Mutant of MoreTags: one iteration too many.
MoreTags_OneTooMany(x) ==
  /\ x.i <= VLAN_MAX_DEPTH
  /\ proto_is_vlan(x.h_proto)
  /\ x.pos + VLAN_HLEN <= x.frame.len

\* Another tag to skip: within the depth, of a VLAN type, and in the frame.
MoreTags(x) ==
  /\ x.i < VLAN_MAX_DEPTH
  /\ proto_is_vlan(x.h_proto)
  /\ x.pos + VLAN_HLEN <= x.frame.len

\* Mutant of ParseTag: the loop reads a tag and does not step past it.
ParseTag_Stuck(c) ==
  /\ pc[c] = "vlan"
  /\ MoreTags(ctx[c])
  /\ Continue(c, [ctx[c] EXCEPT !.top = ctx[c].pos + VLAN_HLEN], "vlan")

ParseTag(c) ==
  LET x == ctx[c]
  IN  /\ pc[c] = "vlan"
      /\ MoreTags(x)
      /\ Continue(c, [x EXCEPT !.h_proto = x.frame.tags[x.i + 1], !.i = @ + 1,
                               !.pos = @ + VLAN_HLEN, !.top = x.pos + VLAN_HLEN],
                  "vlan")

\* parse_VLAN returns the last type it read; the outermost type says whether
\* the frame counts as a VLAN frame.
EndTags(c) ==
  LET x == [ctx[c] EXCEPT !.nh_type = ctx[c].h_proto]
  IN  /\ pc[c] = "vlan"
      /\ ~MoreTags(ctx[c])
      /\ IF proto_is_vlan(x.frame.h_proto)
         THEN Bump(c, x, VLAN, "ipv4")
         ELSE Continue(c, x, "ipv4")

\* Mutant of ParseIpv4: the header is accepted and not counted.
ParseIpv4_NotCounted(c) ==
  LET r == parse_ipv4hdr(ctx[c].frame, ctx[c].pos)
      x == After(ctx[c], r)
  IN  /\ pc[c] = "ipv4"
      /\ IF r.ret \in {IPPROTO_ICMP, IPPROTO_UDP, IPPROTO_TCP}
         THEN Continue(c, x, "l4")
         ELSE Continue(c, x, "out")

ParseIpv4(c) ==
  LET r == parse_ipv4hdr(ctx[c].frame, ctx[c].pos)
      x == After(ctx[c], r)
  IN  /\ pc[c] = "ipv4"
      /\ IF r.ret \in {IPPROTO_ICMP, IPPROTO_UDP, IPPROTO_TCP}
         THEN Bump(c, x, IPV4, "l4")
         ELSE Continue(c, x, "out")

\* Mutant of ParseIcmp: the parity is taken before the byte swap.
ParseIcmp_NoSwap(c) ==
  LET r == parse_icmphdr(ctx[c].frame, ctx[c].pos)
      x == After(ctx[c], r)
  IN  /\ pc[c] = "l4"
      /\ ctx[c].nh_type = IPPROTO_ICMP
      /\ IF r.ret # ICMP_ECHO
         THEN Continue(c, x, "out")
         ELSE Bump(c, [x EXCEPT !.action =
                         IF x.frame.sequence % 2 = 0 THEN XDP_DROP ELSE @],
                   ICMP, "out")

\* Echo requests are counted, and the ones with an even sequence number are
\* dropped.
ParseIcmp(c) ==
  LET r == parse_icmphdr(ctx[c].frame, ctx[c].pos)
      x == After(ctx[c], r)
      even == bpf_ntohs(x.frame.sequence) % 2 = 0
  IN  /\ pc[c] = "l4"
      /\ ctx[c].nh_type = IPPROTO_ICMP
      /\ IF r.ret # ICMP_ECHO
         THEN Continue(c, x, "out")
         ELSE Bump(c, [x EXCEPT !.action =
                         IF even /\ ICMP \in MapKeys THEN XDP_DROP ELSE @],
                   ICMP, "out")

ParseUdp(c) ==
  LET r == parse_udphdr(ctx[c].frame, ctx[c].pos)
      x == After(ctx[c], r)
  IN  /\ pc[c] = "l4"
      /\ ctx[c].nh_type = IPPROTO_UDP
      /\ IF r.ret = -1 THEN Continue(c, x, "out") ELSE Bump(c, x, UDP, "out")

ParseTcp(c) ==
  LET r == parse_tcphdr(ctx[c].frame, ctx[c].pos)
      x == After(ctx[c], r)
  IN  /\ pc[c] = "l4"
      /\ ctx[c].nh_type = IPPROTO_TCP
      /\ IF r.ret = -1 THEN Continue(c, x, "out") ELSE Bump(c, x, TCP, "out")

\* rec->rx_packets++ on the slot bpf_map_lookup_elem returned.
Load(c) ==
  /\ pc[c] = "load"
  /\ Continue(c, [ctx[c] EXCEPT !.reg = xdp_hdr_map[c][ctx[c].key]], "store")

\* Mutant of Store: a BPF_MAP_TYPE_ARRAY, one slot for all CPUs.
Store_SharedSlot(c) ==
  /\ pc[c] = "store"
  /\ xdp_hdr_map' = [d \in CPUs |->
                       [xdp_hdr_map[d] EXCEPT ![ctx[c].key] = ctx[c].reg + 1]]
  /\ Goto(c, ctx[c].next)
  /\ UNCHANGED <<ctx, arrived, due>>

Store(c) ==
  /\ pc[c] = "store"
  /\ xdp_hdr_map' = [xdp_hdr_map EXCEPT ![c][ctx[c].key] = ctx[c].reg + 1]
  /\ Goto(c, ctx[c].next)
  /\ UNCHANGED <<ctx, arrived, due>>

\* return action
Return(c) ==
  /\ pc[c] = "out"
  /\ Continue(c, Enter(NoFrame), "idle")

xdp_parser_func(c) ==
  \/ ParseEth(c) \/ ParseTag(c) \/ EndTags(c)
  \/ ParseIpv4(c) \/ ParseIcmp(c) \/ ParseUdp(c) \/ ParseTcp(c)
  \/ Load(c) \/ Store(c) \/ Return(c)

Next ==
  \E c \in CPUs : (\E f \in MayArrive : Receive(c, f)) \/ xdp_parser_func(c)

\* A program that was started runs to its return: the kernel does not
\* suspend it.  Nothing makes frames arrive.
Spec == Init /\ [][Next]_vars /\ \A c \in CPUs : WF_vars(xdp_parser_func(c))

-----------------------------------------------------------------------------
(* Properties.                                                             *)

\* Every variable has its type: in particular the cursor of a CPU stays a
\* natural number and a counter is never negative.
Locals ==
  [frame   : Frames \cup {NoFrame},
   pos     : Nat,
   top     : Nat,
   nh_type : Int,
   h_proto : Int,
   i       : 0 .. VLAN_MAX_DEPTH,
   key     : MapKeys,
   reg     : Nat,
   next    : {"ipv4", "l4", "out"},
   action  : {XDP_PASS, XDP_DROP}]

TypeOK ==
  /\ pc \in [CPUs -> Locations]
  /\ ctx \in [CPUs -> Locals]
  /\ xdp_hdr_map \in [CPUs -> [MapKeys -> Nat]]
  /\ arrived \in Nat
  /\ due \in [CPUs -> [MapKeys -> Nat]]

\* Memory safety of the parser: whatever the frame claims (ihl, doff, nested
\* tags), xdp_parser_func dereferences no byte at or past data_end, and the
\* cursor it hands from helper to helper never leaves the frame.
ReadsInBounds ==
  \A c \in CPUs : ctx[c].top <= ctx[c].frame.len /\ ctx[c].pos <= ctx[c].frame.len

\* The program ignores parse_VLAN's -1 and goes on to parse_ipv4hdr with the
\* cursor still on the Ethernet header.  All the same, a header it accepts as
\* IPv4 always lies behind a complete Ethernet header.
Ipv4BehindEthernet ==
  \A c \in CPUs : pc[c] = "l4" => ctx[c].pos >= ETH_HLEN + IPHDR_LEN

\* Whenever a CPU is between two frames, each of its counters equals the
\* number of frames it received that belong under the key (of ICMP, the echo
\* requests), plus those of another EtherType whose bytes pass for the same
\* headers, which xdp_parser_func cannot tell from them: no header is skipped,
\* counted twice, or lost to the unprotected increment.  That helpers check
\* the header type, as the comment before the first of them has it, is not
\* claimed here: CountersExact says how far the counts are off without it.
CountersExact ==
  \A c \in CPUs : pc[c] = "idle" => xdp_hdr_map[c] = due[c]

\* A reader of the map at any moment, between two increments of one frame
\* too, never finds more transport-layer frames than IPv4 frames in a slot.
L4WithinIpv4 ==
  \A c \in CPUs :
    xdp_hdr_map[c][ICMP] + xdp_hdr_map[c][UDP] + xdp_hdr_map[c][TCP]
      <= xdp_hdr_map[c][IPV4]

\* The sequence number of an echo request acts as a counter: of two requests
\* the program treats alike exactly those whose numbers, in host byte order,
\* have the same parity, so that every other ping is dropped.  Nothing but what
\* it counts as an echo request is ever dropped.
DropsEveryOtherPing ==
  \A c, d \in CPUs : pc[c] = "out" /\ pc[d] = "out" =>
    LET f == ctx[c].frame
        g == ctx[d].frame
    IN  /\ ctx[c].action = XDP_DROP => CountsAs(f, ICMP)
        /\ CountsAs(f, ICMP) /\ CountsAs(g, ICMP)
             => ( ctx[c].action = ctx[d].action
                    <=> bpf_ntohs(f.sequence) % 2 = bpf_ntohs(g.sequence) % 2 )

\* The comment of xdp_parser_func on the sequence number of an echo request:
\* "if it is odd, then drop the packet.  Else default action is to pass."
DropsOddPings ==
  \A c \in CPUs : pc[c] = "out" /\ CountsAs(ctx[c].frame, ICMP) =>
    ( ctx[c].action = XDP_DROP <=> bpf_ntohs(ctx[c].frame.sequence) % 2 = 1 )

\* Every frame handed to the program gets a verdict, so the CPU is free again.
FramesAreReturned == \A c \in CPUs : pc[c] = "eth" ~> pc[c] = "idle"

=============================================================================
