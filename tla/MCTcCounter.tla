---------------------------- MODULE MCTcCounter ----------------------------
(***************************************************************************)
(* Instances of TcCounter for TLC.                                         *)
(***************************************************************************)
EXTENDS TcCounter, TLC

MkFrame(len, type, protocol) ==
  [len |-> len, h_proto |-> bpf_htons(type), protocol |-> protocol]

\* One frame that two keys count, one that only the chain of filters sees.
ChainFrames ==
  {MkFrame(60, ETH_P_IP, IPPROTO_TCP), MkFrame(60, ETH_P_ARP, 0)}

TcpFrame == {MkFrame(60, ETH_P_IP, IPPROTO_TCP)}

\* Instances are interchangeable, and so are CPUs.
Symmetry == Permutations(Users) \cup Permutations(CPUs)

=============================================================================
