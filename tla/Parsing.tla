------------------------------ MODULE Parsing ------------------------------
(***************************************************************************)
(* The header-parsing helpers that the XDP programs inline: bounds checks  *)
(* on a frame of `len' bytes, a cursor `pos' (struct hdr_cursor, as an     *)
(* offset from ctx->data) and the fields a helper reads once a header is   *)
(* known to fit.                                                           *)
(*                                                                         *)
(* A frame is abstracted to the fields the programs read.  `ihl',          *)
(* `protocol', `icmp_type', ... are whatever the bytes at the cursor hold, *)
(* whether or not the EtherType announced such a header: the programs      *)
(* decide, not the frame.  16-bit fields hold the value a load yields, in  *)
(* network byte order, as in the C structs.                                *)
(***************************************************************************)
EXTENDS Integers, Sequences

\* sizeof() of the header structs, in bytes.
ETH_HLEN     == 14
VLAN_HLEN    == 4
IPHDR_LEN    == 20
ICMPHDR_LEN  == 8
UDPHDR_LEN   == 8
TCPHDR_LEN   == 20

ETH_P_IP     == 2048     \* 0x0800
ETH_P_ARP    == 2054     \* 0x0806
ETH_P_8021Q  == 33024    \* 0x8100
ETH_P_IPV6   == 34525    \* 0x86DD
ETH_P_8021AD == 34984    \* 0x88A8

IPPROTO_ICMP == 1
IPPROTO_TCP  == 6
IPPROTO_UDP  == 17

ICMP_ECHO    == 8

\* Byte swap of a 16-bit value on a little-endian host; its own inverse.
bpf_htons(x) == (x % 256) * 256 + (x \div 256)
bpf_ntohs(x) == bpf_htons(x)

proto_is_vlan(h_proto) ==
  h_proto \in {bpf_htons(ETH_P_8021Q), bpf_htons(ETH_P_8021AD)}

__be16    == 0 .. 256 * 256 - 1
TypeStack == Seq(Nat)

Frame ==
  [len       : Nat,
   h_proto   : Nat,               \* EtherType of the Ethernet header
   tags      : TypeStack,         \* encapsulated protocol of each next VLAN tag
   ihl       : 0..15,             \* IPv4 header length, in 32-bit words
   protocol  : 0..255,
   icmp_type : 0..255,
   sequence  : __be16,
   udp_len   : __be16,
   doff      : 0..15]             \* TCP data offset, in 32-bit words

(***************************************************************************)
(* What a helper leaves behind: its return value, the cursor, and `top',   *)
(* the end of the bytes it dereferenced (0 when it read nothing).  Every   *)
(* helper first checks that the fixed part of its header fits, then that   *)
(* the fields it read are sane, and only then advances the cursor.         *)
(***************************************************************************)
ParseHeader(f, pos, size, sane, step, type) ==
  IF pos + size > f.len THEN [ret |-> -1, pos |-> pos, top |-> 0]
  ELSE IF ~sane         THEN [ret |-> -1, pos |-> pos, top |-> pos + size]
  ELSE                       [ret |-> type, pos |-> pos + step, top |-> pos + size]

\* Mutants of parse_ipv4hdr: the header with its options may run past the
\* end; a header length below the fixed part is accepted.
parse_ipv4hdr_NoEndCheck(f, pos) ==
  ParseHeader(f, pos, IPHDR_LEN, f.ihl * 4 >= IPHDR_LEN, f.ihl * 4, f.protocol)
parse_ipv4hdr_NoMinimum(f, pos) ==
  ParseHeader(f, pos, IPHDR_LEN, pos + f.ihl * 4 <= f.len, f.ihl * 4, f.protocol)

\* Variable-length header: ihl counts 32-bit words.
parse_ipv4hdr(f, pos) ==
  LET hdrsize == f.ihl * 4
  IN  ParseHeader(f, pos, IPHDR_LEN,
                  hdrsize >= IPHDR_LEN /\ pos + hdrsize <= f.len,
                  hdrsize, f.protocol)

parse_icmphdr(f, pos) ==
  ParseHeader(f, pos, ICMPHDR_LEN, TRUE, ICMPHDR_LEN, f.icmp_type)

\* Mutant of parse_udphdr: the length field is not checked.
parse_udphdr_NoLengthCheck(f, pos) ==
  ParseHeader(f, pos, UDPHDR_LEN, TRUE, UDPHDR_LEN, bpf_ntohs(f.udp_len))

\* Returns the length of the UDP payload.
parse_udphdr(f, pos) ==
  LET len == bpf_ntohs(f.udp_len) - UDPHDR_LEN
  IN  ParseHeader(f, pos, UDPHDR_LEN, len >= 0, UDPHDR_LEN, len)

\* Returns the length of the TCP header.
parse_tcphdr(f, pos) ==
  LET len == f.doff * 4
  IN  ParseHeader(f, pos, TCPHDR_LEN,
                  len >= TCPHDR_LEN /\ pos + len <= f.len,
                  len, len)

=============================================================================
