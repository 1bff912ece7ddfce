----------------------------- MODULE XdpTotals -----------------------------
(***************************************************************************)
(* The counters of XdpCounter as user space reads them: the value of a key *)
(* of a per-CPU map is the sum of the slots of all CPUs.  Under that       *)
(* mapping XdpCounter implements PacketCounter.                            *)
(***************************************************************************)
EXTENDS XdpCounter, Functions, FiniteSets

ASSUME CPUsAssumption == IsFiniteSet(CPUs)

SumOverCPUs(slots, k) ==
  FoldFunction(LAMBDA a, b : a + b, 0, [c \in CPUs |-> slots[c][k]])

Totals == INSTANCE PacketCounter WITH
  Keys    <- MapKeys,
  offered <- [k \in MapKeys |-> SumOverCPUs(due, k)],
  counted <- [k \in MapKeys |-> SumOverCPUs(xdp_hdr_map, k)]

\* The per-CPU map, summed, is a packet counter although no increment of the
\* program is atomic and several CPUs count at once.
ImplementsPacketCounter == Totals!Spec

=============================================================================
