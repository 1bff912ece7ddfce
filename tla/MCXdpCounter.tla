---------------------------- MODULE MCXdpCounter ----------------------------
(***************************************************************************)
(* Instances of XdpCounter for TLC.                                        *)
(***************************************************************************)
EXTENDS XdpTotals

Q  == bpf_htons(ETH_P_8021Q)
AD == bpf_htons(ETH_P_8021AD)
IP == bpf_htons(ETH_P_IP)
V6 == bpf_htons(ETH_P_IPV6)

\* A frame and its fields; a field that matters to one protocol only keeps a
\* valid value elsewhere.
MkFrame(len, types, ihl, protocol, l4) ==
  [len |-> len, h_proto |-> types[1], tags |-> Tail(types),
   ihl |-> ihl, protocol |-> protocol,
   icmp_type |-> IF l4 = "reply" THEN 0 ELSE ICMP_ECHO,
   sequence |-> bpf_htons(IF l4 = "even" THEN 2 ELSE 3),
   udp_len |-> bpf_htons(IF l4 = "short" THEN 7 ELSE 8),
   doff |-> CASE l4 = "short" -> 4 [] l4 = "options" -> 6 [] OTHER -> 5]

\* Untagged, tagged, double-tagged (802.1ad outside 802.1Q), one tag more
\* than the program skips, and a type that is not IPv4.
TypeStacks ==
  {<<IP, IP, IP, IP>>, <<V6, IP, IP, IP>>, <<Q, IP, IP, IP>>,
   <<AD, Q, IP, IP>>, <<Q, Q, Q, IP>>}

L4Variants ==
  {<<IPPROTO_ICMP, "even">>, <<IPPROTO_ICMP, "odd">>, <<IPPROTO_ICMP, "reply">>,
   <<IPPROTO_UDP, "ok">>, <<IPPROTO_UDP, "short">>,
   <<IPPROTO_TCP, "ok">>, <<IPPROTO_TCP, "short">>, <<IPPROTO_TCP, "options">>,
   <<41, "ok">>}

\* Every length at which a bounds check of some stack of headers changes its
\* mind, with its two neighbours: sums of header sizes up to two tags, an
\* IPv4 header with one word of options and a TCP header with one.
Ends ==
  {ETH_HLEN + VLAN_HLEN * n + l : n \in 0..2, l \in {0, 20, 24, 28, 32, 40, 44, 48}}
Lengths == UNION {{n - 1, n, n + 1} : n \in Ends}

\* All of the shapes above, at all those lengths.
ParsingFrames ==
  {MkFrame(len, types, ihl, l4[1], l4[2]) :
     len \in Lengths, types \in TypeStacks, ihl \in {0, 4, 5, 6}, l4 \in L4Variants}

\* Frames that come several at a time: between them they bump every key, one
\* carries a tag more than the program skips, and one is not announced as
\* the IPv4 it passes for.
CountingFrames ==
  {MkFrame(60, <<AD, Q, Q, IP>>, 5, IPPROTO_UDP, "ok"),
   MkFrame(60, <<IP, IP, IP, IP>>, 5, IPPROTO_TCP, "ok"),
   MkFrame(60, <<IP, IP, IP, IP>>, 5, IPPROTO_ICMP, "even"),
   MkFrame(60, <<V6, IP, IP, IP>>, 5, IPPROTO_ICMP, "odd")}

AllFrames == ParsingFrames \cup CountingFrames

\* One ping after the other.
PingFrames == {f \in CountingFrames : f.protocol = IPPROTO_ICMP}

=============================================================================
