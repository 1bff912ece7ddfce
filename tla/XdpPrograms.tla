---------------------------- MODULE XdpPrograms ----------------------------
(***************************************************************************)
(* The small XDP programs of the tutorial: constant verdicts (01_kern,     *)
(* 02_kern), the parser of program 3 with its per-action statistics, and   *)
(* the TCP filter of program 6.  Interfaces with different programs share  *)
(* the CPUs; xdp_stats_map is a per-CPU array whose records have two       *)
(* fields, updated one after the other without atomic operations, while a  *)
(* reader may look at any moment.                                          *)
(***************************************************************************)
EXTENDS Parsing

CONSTANTS
  CPUs,            \* the CPUs that receive frames
  Frames,          \* the frames that may arrive
  VLAN_MAX_DEPTH,  \* tags parse_VLAN looks through
  MaxFrames        \* bound: frames that arrive in a behaviour

ASSUME ProgramsAssumption ==
  /\ Frames \subseteq Frame
  /\ VLAN_MAX_DEPTH \in Nat /\ MaxFrames \in Nat
  /\ \A f \in Frames : Len(f.tags) >= VLAN_MAX_DEPTH

\* enum xdp_action; the keys of xdp_stats_map are 0 .. XDP_ACTION_MAX - 1.
XDP_ABORTED    == 0
XDP_DROP       == 1
XDP_PASS       == 2
XDP_REDIRECT   == 4
XDP_ACTION_MAX == XDP_REDIRECT + 1
Actions        == 0 .. XDP_ACTION_MAX - 1

\* The programs, by the names of their sections.
Programs == {"xdp", "xdp_pass", "xdp_drop", "xdp_packet_parser", "xdp_packet_filter"}

datarec == [rx_packets : Nat, rx_bytes : Nat]
Zero    == [rx_packets |-> 0, rx_bytes |-> 0]

VARIABLES
  pc,             \* where the program on each CPU is, "idle" between frames
  run,            \* its program, the length of its frame, its action, a register
  xdp_stats_map,  \* a datarec per CPU and action
  arrived,        \* how many frames have arrived
  returned,       \* history: per CPU and action, what program 3 has returned
  judged          \* history: the frame that was just judged, how and by whom

vars == <<pc, run, xdp_stats_map, arrived, returned, judged>>

NoRun == [prog |-> "xdp", len |-> 0, action |-> XDP_PASS, reg |-> 0]

Init ==
  /\ pc = [c \in CPUs |-> "idle"]
  /\ run = [c \in CPUs |-> NoRun]
  /\ xdp_stats_map = [c \in CPUs |-> [a \in Actions |-> Zero]]
  /\ arrived = 0
  /\ returned = [c \in CPUs |-> [a \in Actions |-> Zero]]
  /\ judged = {}

-----------------------------------------------------------------------------
(* Verdicts.                                                               *)

\* Program 3 looks at the Ethernet header only: parse_ethhdr returns its type.
parse_ethhdr(f) ==
  ParseHeader(f, 0, ETH_HLEN, TRUE, ETH_HLEN, f.h_proto)

ParserAction(f) ==
  IF parse_ethhdr(f).ret # bpf_htons(ETH_P_IPV6) THEN XDP_PASS ELSE XDP_DROP

\* vlh + 1 <= data_end
TagFits(f, vlh) == vlh + VLAN_HLEN <= f.len

\* Mutant of Walk: the cursor is not moved behind the tags.
Walk_NotAdvanced(f) == [h_proto |-> f.h_proto, vlh |-> ETH_HLEN]

\* The loop of parse_VLAN after i rounds: the type read last and the cursor.
\* A round that breaks leaves both alone, and so do the rounds after it.
Walk(f) ==
  LET w[i \in 0 .. VLAN_MAX_DEPTH] ==
        IF i = 0 THEN [h_proto |-> f.h_proto, vlh |-> ETH_HLEN]
        ELSE IF proto_is_vlan(w[i - 1].h_proto) /\ TagFits(f, w[i - 1].vlh)
        THEN [h_proto |-> f.tags[i], vlh |-> w[i - 1].vlh + VLAN_HLEN]
        ELSE w[i - 1]
  IN  w[VLAN_MAX_DEPTH]

\* The cursor after parse_VLAN, which leaves it alone when it fails.
parse_VLAN(f) == IF ETH_HLEN > f.len THEN 0 ELSE Walk(f).vlh

\* Program 6 does not look at what parse_VLAN returned.
FilterAction(f) ==
  IF parse_ipv4hdr(f, parse_VLAN(f)).ret = IPPROTO_TCP THEN XDP_DROP ELSE XDP_PASS

Verdict(prog, f) ==
  CASE prog = "xdp_drop"          -> XDP_DROP
    [] prog = "xdp_packet_parser" -> ParserAction(f)
    [] prog = "xdp_packet_filter" -> FilterAction(f)
    [] OTHER                      -> XDP_PASS

-----------------------------------------------------------------------------
(* The programs on the CPUs.  Until the statistics they touch nothing that *)
(* is shared, so that parsing is one step.                                 *)

Goto(c, l) == pc' = [pc EXCEPT ![c] = l]

Receive(c, prog, f) ==
  LET action == Verdict(prog, f)
  IN  /\ pc[c] = "idle" /\ arrived < MaxFrames
      /\ arrived' = arrived + 1
      /\ judged' = {[prog |-> prog, frame |-> f, action |-> action]}
      /\ IF prog = "xdp_packet_parser"
         THEN /\ run' = [run EXCEPT ![c] = [prog |-> prog, len |-> f.len,
                                            action |-> action, reg |-> 0]]
              /\ Goto(c, "record")
         ELSE UNCHANGED <<pc, run>>
      /\ UNCHANGED <<xdp_stats_map, returned>>

\* xdp_stats_record_action: the guard on the action and the lookup, after
\* which rec is this CPU's slot; rx_packets is loaded.
LoadPackets(c) ==
  LET a == run[c].action
  IN  /\ pc[c] = "record"
      /\ IF a \in Actions
         THEN /\ run' = [run EXCEPT ![c].reg = xdp_stats_map[c][a].rx_packets]
              /\ Goto(c, "packets")
         ELSE run' = [run EXCEPT ![c].action = XDP_ABORTED] /\ Goto(c, "idle")
      /\ UNCHANGED <<xdp_stats_map, arrived, returned>>

\* Mutant of Slot: an array shared by the CPUs, kept in every slot.
Slot_Shared(c) == CPUs

\* The slots that a write through rec reaches.
Slot(c) == {c}

StorePackets(c) ==
  /\ pc[c] = "packets"
  /\ xdp_stats_map' = [d \in CPUs |->
       IF d \in Slot(c)
       THEN [xdp_stats_map[d] EXCEPT ![run[c].action].rx_packets = run[c].reg + 1]
       ELSE xdp_stats_map[d]]
  /\ Goto(c, "load bytes")
  /\ UNCHANGED <<run, arrived, returned>>

LoadBytes(c) ==
  /\ pc[c] = "load bytes"
  /\ run' = [run EXCEPT ![c].reg = xdp_stats_map[c][run[c].action].rx_bytes]
  /\ Goto(c, "bytes")
  /\ UNCHANGED <<xdp_stats_map, arrived, returned>>

\* rx_bytes += data_end - data, and the program returns.
StoreBytes(c) ==
  LET a == run[c].action
  IN  /\ pc[c] = "bytes"
      /\ xdp_stats_map' = [d \in CPUs |->
           IF d \in Slot(c)
           THEN [xdp_stats_map[d] EXCEPT ![a].rx_bytes = run[c].reg + run[c].len]
           ELSE xdp_stats_map[d]]
      /\ returned' = [returned EXCEPT ![c][a] =
           [rx_packets |-> @.rx_packets + 1, rx_bytes |-> @.rx_bytes + run[c].len]]
      /\ run' = [run EXCEPT ![c] = NoRun]
      /\ Goto(c, "idle")
      /\ UNCHANGED arrived

xdp_stats_record_action(c) ==
  /\ LoadPackets(c) \/ StorePackets(c) \/ LoadBytes(c) \/ StoreBytes(c)
  /\ judged' = {}

Next ==
  \E c \in CPUs :
    \/ \E prog \in Programs, f \in Frames : Receive(c, prog, f)
    \/ xdp_stats_record_action(c)

Spec == Init /\ [][Next]_vars

-----------------------------------------------------------------------------
(* Properties.                                                             *)

\* What a reader of xdp_stats_map finds in a CPU's record at any moment: the
\* frames program 3 has returned with that action on that CPU and, of the one
\* in hand, nothing, its packet only, or its packet and its bytes; no update
\* of one CPU is lost to another.
StatsExact ==
  \A c \in CPUs, a \in Actions :
    LET mine == pc[c] # "idle" /\ run[c].action = a
    IN  /\ xdp_stats_map[c][a].rx_bytes = returned[c][a].rx_bytes
        /\ xdp_stats_map[c][a].rx_packets = returned[c][a].rx_packets +
             (IF mine /\ pc[c] \in {"load bytes", "bytes"} THEN 1 ELSE 0)

\* What the programs drop, said of the frame as a whole.  The bytes behind n
\* tags, as many as are announced, fit and are looked through, are a complete
\* IPv4 header of protocol TCP.
TypeAt(f, n) == IF n = 0 THEN f.h_proto ELSE f.tags[n]
Skips(f, n) ==
  /\ ETH_HLEN + VLAN_HLEN * n <= f.len
  /\ \A m \in 0 .. n - 1 : proto_is_vlan(TypeAt(f, m))
TcpBehind(f, n) ==
  /\ Skips(f, n) /\ (n < VLAN_MAX_DEPTH => ~Skips(f, n + 1))
  /\ f.protocol = IPPROTO_TCP /\ f.ihl >= 5
  /\ ETH_HLEN + VLAN_HLEN * n + 4 * f.ihl <= f.len

\* TCP over IPv4 has these headers and announces IPv4; a frame that announces
\* another type may have bytes that pass for them.
IsTcp(f) ==
  \E n \in 0 .. VLAN_MAX_DEPTH : TcpBehind(f, n) /\ TypeAt(f, n) = bpf_htons(ETH_P_IP)
PassesForTcp(f) ==
  \E n \in 0 .. VLAN_MAX_DEPTH : TcpBehind(f, n) /\ TypeAt(f, n) # bpf_htons(ETH_P_IP)

IsIpv6(f) == ETH_HLEN <= f.len /\ f.h_proto = bpf_htons(ETH_P_IPV6)

\* No TCP over IPv4 gets past the filter, whatever the frame's length, tags
\* and options.  Beyond it the filter drops frames of another EtherType whose
\* bytes pass for an IPv4 header of protocol TCP, since it overwrites what
\* parse_VLAN returned, and no others; in particular none that parse_VLAN
\* found too short.  The parser drops untagged IPv6 and nothing else.
DropsTcp ==
  \A x \in judged :
    /\ x.prog = "xdp_packet_filter" =>
         /\ IsTcp(x.frame) => x.action = XDP_DROP
         /\ x.action = XDP_DROP => IsTcp(x.frame) \/ PassesForTcp(x.frame)
    /\ x.prog = "xdp_packet_parser" => (x.action = XDP_DROP <=> IsIpv6(x.frame))

=============================================================================
