--------------------------- MODULE MCXdpPrograms ---------------------------
(***************************************************************************)
(* Instances of XdpPrograms for TLC.                                       *)
(***************************************************************************)
EXTENDS XdpPrograms, TLC

Q  == bpf_htons(ETH_P_8021Q)
AD == bpf_htons(ETH_P_8021AD)
IP == bpf_htons(ETH_P_IP)
V6 == bpf_htons(ETH_P_IPV6)

MkFrame(len, types, ihl, protocol) ==
  [len |-> len, h_proto |-> types[1], tags |-> Tail(types), ihl |-> ihl,
   protocol |-> protocol, icmp_type |-> 0, sequence |-> 0, udp_len |-> 0, doff |-> 5]

\* Untagged, tagged once and twice, one tag more than the filter skips.
TypeStacks ==
  {<<IP, IP, IP>>, <<V6, IP, IP>>, <<Q, V6, IP>>, <<AD, Q, IP>>, <<Q, Q, Q>>}

\* Both sides of the end of the Ethernet header, and of an IPv4 header with
\* and without options behind no tag, one and two.
Ends    == {ETH_HLEN} \cup {ETH_HLEN + VLAN_HLEN * n + l : n \in 0..2, l \in {20, 24}}
Lengths == UNION {{n - 1, n} : n \in Ends}

AllFrames ==
  {MkFrame(len, types, ihl, protocol) :
     len \in Lengths, types \in TypeStacks, ihl \in {4, 5, 6}, protocol \in {IPPROTO_TCP}}
  \cup {MkFrame(60, types, 5, IPPROTO_UDP) : types \in TypeStacks}

Symmetry == Permutations(CPUs)

=============================================================================
