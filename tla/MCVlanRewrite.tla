--------------------------- MODULE MCVlanRewrite ---------------------------
(***************************************************************************)
(* Instances of VlanRewrite for TLC.                                       *)
(***************************************************************************)
EXTENDS VlanRewrite

\* A packet of n units: addresses, the given types and TCIs, then a payload
\* of units that differ.
MkPacket(headroom, types, n) ==
  LET start == <<11, 12, 13, 21, 22, 23>> \o types
  IN  [headroom |-> headroom,
       cells |-> [k \in 1..n |-> IF k <= Len(start) THEN start[k] ELSE 1000 + k]]

\* A TCI with priority bits: 3 in the top three, VLAN id 5.
TCI == bpf_htons(3 * 8192 + 5)

Untagged(t) == <<bpf_htons(t)>>
Single(t)   == <<bpf_htons(ETH_P_8021Q), TCI, bpf_htons(t)>>
Double(t)   == <<bpf_htons(ETH_P_8021AD), bpf_htons(7), bpf_htons(ETH_P_8021Q), TCI,
                 bpf_htons(t)>>

\* Lengths around the end of the Ethernet header and of one tag, and with a
\* whole IPv4 or IPv6 header; no room in front, room for one tag and for two.
AllPackets ==
  {MkPacket(h, types, n) :
     h \in {0, 1, 2, 4}, n \in {7, 8, 9, 10, 11, 12, 17, 27},
     types \in {Untagged(ETH_P_IP), Untagged(ETH_P_IPV6), Single(ETH_P_IP), Single(ETH_P_ARP),
                Double(ETH_P_IP)}}

=============================================================================
