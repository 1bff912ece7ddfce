------------------------- MODULE XdpProgramsProofs -------------------------
(***************************************************************************)
(* Proofs about XdpPrograms: the per-action statistics are exact at every  *)
(* moment, for any number of CPUs and frames, and the programs drop what   *)
(* they should, for any frame and any VLAN_MAX_DEPTH.                      *)
(***************************************************************************)
EXTENDS XdpPrograms, WellFoundedInduction, TLAPS

-----------------------------------------------------------------------------
(* The inductive invariant.                                                *)

Table == [CPUs -> [Actions -> datarec]]

Labels == {"idle", "record", "packets", "load bytes", "bytes"}

TypeOK ==
  /\ pc \in [CPUs -> Labels]
  /\ run \in [CPUs -> [prog : Programs, len : Nat, action : Actions, reg : Nat]]
  /\ xdp_stats_map \in Table
  /\ returned \in Table

\* Of one CPU: between a load and its store the slot stays what it was, since
\* nobody else writes to it; and of one of its records, StatsExact.
FreshAt(c) ==
  /\ pc[c] = "packets" => run[c].reg = xdp_stats_map[c][run[c].action].rx_packets
  /\ pc[c] = "bytes"   => run[c].reg = xdp_stats_map[c][run[c].action].rx_bytes

Half(c, a) == pc[c] \in {"load bytes", "bytes"} /\ run[c].action = a

ExactAt(c, a) ==
  /\ xdp_stats_map[c][a].rx_bytes = returned[c][a].rx_bytes
  /\ Half(c, a) => xdp_stats_map[c][a].rx_packets = returned[c][a].rx_packets + 1
  /\ ~Half(c, a) => xdp_stats_map[c][a].rx_packets = returned[c][a].rx_packets

CPUExact(c) == FreshAt(c) /\ \A a \in Actions : ExactAt(c, a)

IInv == TypeOK /\ \A c \in CPUs : CPUExact(c)

-----------------------------------------------------------------------------
\* Every verdict is an action there is a record for.
LEMMA ActionTypes ==
  /\ XDP_PASS \in Actions /\ XDP_DROP \in Actions
  /\ \A prog, f : Verdict(prog, f) \in Actions
<1>1. XDP_PASS \in Actions /\ XDP_DROP \in Actions
  BY DEF XDP_PASS, XDP_DROP, Actions, XDP_ACTION_MAX, XDP_REDIRECT
<1>. QED
  BY <1>1 DEF Verdict, ParserAction, FilterAction

\* What the invariant says of the statistics.
LEMMA IInvExact == IInv => StatsExact
<1>. SUFFICES ASSUME IInv, NEW c \in CPUs, NEW a \in Actions
              PROVE  /\ xdp_stats_map[c][a].rx_bytes = returned[c][a].rx_bytes
                     /\ xdp_stats_map[c][a].rx_packets = returned[c][a].rx_packets +
                          (IF (pc[c] # "idle" /\ run[c].action = a)
                               /\ pc[c] \in {"load bytes", "bytes"} THEN 1 ELSE 0)
  BY DEF StatsExact
<1>1. xdp_stats_map[c][a] \in datarec /\ returned[c][a] \in datarec
  BY DEF IInv, TypeOK, Table
<1>2. returned[c][a].rx_packets \in Nat
  BY <1>1 DEF datarec
<1>3. ExactAt(c, a)
  BY DEF IInv, CPUExact
<1>4. CASE Half(c, a)
  <2>1. pc[c] # "idle" /\ run[c].action = a /\ pc[c] \in {"load bytes", "bytes"}
    BY <1>4 DEF Half
  <2>. QED
    BY <1>3, <1>4, <2>1 DEF ExactAt
<1>5. CASE ~Half(c, a)
  <2>1. ~((pc[c] # "idle" /\ run[c].action = a) /\ pc[c] \in {"load bytes", "bytes"})
    BY <1>5 DEF Half
  <2>2. xdp_stats_map[c][a].rx_packets = returned[c][a].rx_packets + 0
    BY <1>2, <1>3, <1>5 DEF ExactAt
  <2>. QED
    BY <1>3, <2>1, <2>2 DEF ExactAt
<1>. QED
  BY <1>4, <1>5

\* No packet was returned.
LEMMA InitIInv == Init => IInv
<1>. SUFFICES ASSUME Init PROVE IInv
  OBVIOUS
<1>1. Zero \in datarec /\ Zero.rx_packets = 0 /\ Zero.rx_bytes = 0
  BY DEF Zero, datarec
<1>2. NoRun \in [prog : Programs, len : Nat, action : Actions, reg : Nat]
  BY ActionTypes DEF NoRun, Programs
<1>. HIDE DEF Zero, NoRun
<1>3. TypeOK
  BY <1>1, <1>2 DEF Init, TypeOK, Table, Labels
<1>. QED
  BY <1>1, <1>3 DEF Init, IInv, CPUExact, FreshAt, ExactAt, Half

\* A step that leaves what a CPU owns alone leaves it exact.
LEMMA OtherCPU ==
  ASSUME NEW d \in CPUs, CPUExact(d), pc'[d] = pc[d], run'[d] = run[d],
         xdp_stats_map'[d] = xdp_stats_map[d], returned'[d] = returned[d]
  PROVE  CPUExact(d)'
BY DEF CPUExact, FreshAt, ExactAt, Half

\* A new packet is in no record yet.
LEMMA ReceiveKeeps ==
  ASSUME IInv, NEW c \in CPUs, NEW prog \in Programs, NEW f \in Frames,
         Receive(c, prog, f)
  PROVE  IInv'
<1>1. Verdict(prog, f) \in Actions /\ f.len \in Nat
  BY ActionTypes, ProgramsAssumption DEF Frame
<1>2. TypeOK /\ pc[c] = "idle" /\ UNCHANGED <<xdp_stats_map, returned>>
  BY DEF IInv, Receive
<1>3. CASE UNCHANGED <<pc, run>>
  BY <1>2, <1>3 DEF IInv, TypeOK, CPUExact, FreshAt, ExactAt, Half
<1>4. CASE prog = "xdp_packet_parser"
  <2>1. PICK r \in [prog : Programs, len : Nat, action : Actions, reg : Nat] :
          /\ run' = [run EXCEPT ![c] = r]
          /\ pc' = [pc EXCEPT ![c] = "record"]
    BY <1>1, <1>4 DEF Receive, Goto
  <2>2. TypeOK'
    BY <1>2, <2>1 DEF TypeOK, Labels
  <2>3. /\ pc'[c] = "record"
        /\ \A d \in CPUs : d # c => pc'[d] = pc[d] /\ run'[d] = run[d]
    BY <1>2, <2>1 DEF TypeOK
  <2>4. CPUExact(c)'
    BY <1>2, <2>3 DEF IInv, CPUExact, FreshAt, ExactAt, Half
  <2>5. ASSUME NEW d \in CPUs, d # c PROVE CPUExact(d)'
    BY <1>2, <2>3, <2>5, OtherCPU DEF IInv
  <2>. QED
    BY <2>2, <2>4, <2>5 DEF IInv
<1>. QED
  BY <1>3, <1>4 DEF Receive

\* Writing one field of one record is writing that record.
LEMMA Slots ==
  ASSUME TypeOK, NEW d \in CPUs, NEW a \in Actions, NEW n
  PROVE  /\ [xdp_stats_map[d] EXCEPT ![a].rx_packets = n] =
              [xdp_stats_map[d] EXCEPT ![a] = [xdp_stats_map[d][a] EXCEPT !.rx_packets = n]]
         /\ [xdp_stats_map[d] EXCEPT ![a].rx_bytes = n] =
              [xdp_stats_map[d] EXCEPT ![a] = [xdp_stats_map[d][a] EXCEPT !.rx_bytes = n]]
BY DEF TypeOK, Table

\* A step of xdp_stats_record_action in a slot of its own.
LEMMA RecordKeeps ==
  ASSUME IInv, NEW c \in CPUs, xdp_stats_record_action(c),
         NEW a \in Actions, a = run[c].action
  PROVE  IInv'
<1>. DEFINE rec == xdp_stats_map[c][a]
<1>1. TypeOK /\ CPUExact(c) /\ rec \in datarec
      /\ run[c].reg \in Nat /\ run[c].len \in Nat /\ returned[c][a] \in datarec
      /\ rec.rx_packets \in Nat /\ rec.rx_bytes \in Nat
  BY DEF IInv, TypeOK, Table, datarec
<1>2. NoRun \in [prog : Programs, len : Nat, action : Actions, reg : Nat]
  BY ActionTypes DEF NoRun, Programs
<1>3. CASE LoadPackets(c)
  <2>1. /\ pc[c] = "record" /\ run' = [run EXCEPT ![c].reg = rec.rx_packets]
        /\ pc' = [pc EXCEPT ![c] = "packets"] /\ UNCHANGED <<xdp_stats_map, returned>>
    BY <1>1, <1>3 DEF LoadPackets, Goto
  <2>2. TypeOK'
    BY <1>1, <2>1 DEF TypeOK, Labels
  <2>3. /\ pc'[c] = "packets" /\ run'[c].reg = rec.rx_packets /\ run'[c].action = a
        /\ \A d \in CPUs : d # c => pc'[d] = pc[d] /\ run'[d] = run[d]
    BY <1>1, <2>1 DEF TypeOK
  <2>4. CPUExact(c)'
    BY <1>1, <2>1, <2>3 DEF CPUExact, FreshAt, ExactAt, Half
  <2>5. ASSUME NEW d \in CPUs, d # c PROVE CPUExact(d)'
    BY <2>1, <2>3, <2>5, OtherCPU DEF IInv
  <2>. QED
    BY <2>2, <2>4, <2>5 DEF IInv
<1>4. CASE LoadBytes(c)
  <2>1. /\ pc[c] = "load bytes" /\ run' = [run EXCEPT ![c].reg = rec.rx_bytes]
        /\ pc' = [pc EXCEPT ![c] = "bytes"] /\ UNCHANGED <<xdp_stats_map, returned>>
    BY <1>1, <1>4 DEF LoadBytes, Goto
  <2>2. TypeOK'
    BY <1>1, <2>1 DEF TypeOK, Labels
  <2>3. /\ pc'[c] = "bytes" /\ run'[c].reg = rec.rx_bytes /\ run'[c].action = a
        /\ \A d \in CPUs : d # c => pc'[d] = pc[d] /\ run'[d] = run[d]
    BY <1>1, <2>1 DEF TypeOK
  <2>4. CPUExact(c)'
    BY <1>1, <2>1, <2>3 DEF CPUExact, FreshAt, ExactAt, Half
  <2>5. ASSUME NEW d \in CPUs, d # c PROVE CPUExact(d)'
    BY <2>1, <2>3, <2>5, OtherCPU DEF IInv
  <2>. QED
    BY <2>2, <2>4, <2>5 DEF IInv
<1>5. ASSUME NEW new \in datarec,
             xdp_stats_map' = [d \in CPUs |->
               IF d \in Slot(c) THEN [xdp_stats_map[d] EXCEPT ![a] = new]
               ELSE xdp_stats_map[d]]
      PROVE  /\ xdp_stats_map' \in Table
             /\ xdp_stats_map'[c][a] = new
             /\ \A b \in Actions : b # a => xdp_stats_map'[c][b] = xdp_stats_map[c][b]
             /\ \A d \in CPUs : d # c => xdp_stats_map'[d] = xdp_stats_map[d]
  BY <1>1, <1>5 DEF TypeOK, Table, Slot
<1>6. CASE StorePackets(c)
  <2>. DEFINE new == [rec EXCEPT !.rx_packets = run[c].reg + 1]
  <2>1. /\ pc[c] = "packets" /\ pc' = [pc EXCEPT ![c] = "load bytes"]
        /\ UNCHANGED <<run, returned>>
    BY <1>6 DEF StorePackets, Goto
  <2>2. xdp_stats_map' = [d \in CPUs |->
          IF d \in Slot(c) THEN [xdp_stats_map[d] EXCEPT ![a] = new]
          ELSE xdp_stats_map[d]]
    <3>1. [xdp_stats_map[c] EXCEPT ![a].rx_packets = run[c].reg + 1] =
            [xdp_stats_map[c] EXCEPT ![a] = new]
      BY <1>1, Slots
    <3>. HIDE DEF new
    <3>. QED
      BY <1>6, <3>1 DEF StorePackets, Slot
  <2>3. /\ new \in datarec /\ new.rx_packets = rec.rx_packets + 1
        /\ new.rx_bytes = rec.rx_bytes
    <3>1. run[c].reg = rec.rx_packets
      BY <1>1, <2>1 DEF CPUExact, FreshAt
    <3>2. rec.rx_packets + 1 \in Nat
      BY <1>1
    <3>. QED
      BY <1>1, <3>1, <3>2 DEF datarec
  <2>. HIDE DEF new
  <2>4. /\ xdp_stats_map' \in Table /\ xdp_stats_map'[c][a] = new
        /\ \A b \in Actions : b # a => xdp_stats_map'[c][b] = xdp_stats_map[c][b]
        /\ \A d \in CPUs : d # c => xdp_stats_map'[d] = xdp_stats_map[d]
    BY <1>5, <2>2, <2>3
  <2>5. pc'[c] = "load bytes" /\ \A d \in CPUs : d # c => pc'[d] = pc[d]
    BY <1>1, <2>1 DEF TypeOK
  <2>6. TypeOK'
    BY <1>1, <2>1, <2>4 DEF TypeOK, Labels
  <2>7. CPUExact(c)'
    <3>1. FreshAt(c)'
      BY <2>5 DEF FreshAt
    <3>2. ExactAt(c, a)'
      BY <1>1, <2>1, <2>3, <2>4, <2>5 DEF CPUExact, ExactAt, Half
    <3>3. ASSUME NEW b \in Actions, b # a PROVE ExactAt(c, b)'
      <4>1. ~Half(c, b) /\ ~Half(c, b)' /\ ExactAt(c, b)
        BY <1>1, <2>1, <3>3 DEF CPUExact, Half
      <4>2. xdp_stats_map'[c][b] = xdp_stats_map[c][b] /\ UNCHANGED returned
        BY <2>1, <2>4, <3>3
      <4>. QED
        BY <4>1, <4>2 DEF ExactAt
    <3>. QED
      BY <3>1, <3>2, <3>3 DEF CPUExact
  <2>8. ASSUME NEW d \in CPUs, d # c PROVE CPUExact(d)'
    BY <2>1, <2>4, <2>5, <2>8, OtherCPU DEF IInv
  <2>. QED
    BY <2>6, <2>7, <2>8 DEF IInv
<1>7. CASE StoreBytes(c)
  <2>. DEFINE new == [rec EXCEPT !.rx_bytes = run[c].reg + run[c].len]
              done == [rx_packets |-> returned[c][a].rx_packets + 1,
                       rx_bytes |-> returned[c][a].rx_bytes + run[c].len]
  <2>1. /\ pc[c] = "bytes" /\ pc' = [pc EXCEPT ![c] = "idle"]
        /\ run' = [run EXCEPT ![c] = NoRun]
        /\ returned' = [returned EXCEPT ![c][a] = done]
    BY <1>7 DEF StoreBytes, Goto
  <2>2. xdp_stats_map' = [d \in CPUs |->
          IF d \in Slot(c) THEN [xdp_stats_map[d] EXCEPT ![a] = new]
          ELSE xdp_stats_map[d]]
    <3>1. [xdp_stats_map[c] EXCEPT ![a].rx_bytes = run[c].reg + run[c].len] =
            [xdp_stats_map[c] EXCEPT ![a] = new]
      BY <1>1, Slots
    <3>. HIDE DEF new
    <3>. QED
      BY <1>7, <3>1 DEF StoreBytes, Slot
  <2>3. /\ new \in datarec /\ new.rx_bytes = rec.rx_bytes + run[c].len
        /\ new.rx_packets = rec.rx_packets
    <3>1. run[c].reg = rec.rx_bytes
      BY <1>1, <2>1 DEF CPUExact, FreshAt
    <3>2. rec.rx_bytes + run[c].len \in Nat
      BY <1>1
    <3>. QED
      BY <1>1, <3>1, <3>2 DEF datarec
  <2>4. /\ done \in datarec /\ done.rx_packets = returned[c][a].rx_packets + 1
        /\ done.rx_bytes = returned[c][a].rx_bytes + run[c].len
    BY <1>1 DEF datarec
  <2>. HIDE DEF new, done
  <2>5. /\ xdp_stats_map' \in Table /\ xdp_stats_map'[c][a] = new
        /\ \A b \in Actions : b # a => xdp_stats_map'[c][b] = xdp_stats_map[c][b]
        /\ \A d \in CPUs : d # c => xdp_stats_map'[d] = xdp_stats_map[d]
    BY <1>5, <2>2, <2>3
  <2>6. /\ returned' \in Table /\ returned'[c][a] = done
        /\ \A b \in Actions : b # a => returned'[c][b] = returned[c][b]
        /\ \A d \in CPUs : d # c => returned'[d] = returned[d]
    BY <1>1, <2>1, <2>4 DEF TypeOK, Table
  <2>7. /\ pc'[c] = "idle"
        /\ \A d \in CPUs : d # c => pc'[d] = pc[d] /\ run'[d] = run[d]
    BY <1>1, <2>1 DEF TypeOK
  <2>8. TypeOK'
    BY <1>1, <1>2, <2>1, <2>5, <2>6 DEF TypeOK, Labels
  <2>9. CPUExact(c)'
    <3>1. FreshAt(c)'
      BY <2>7 DEF FreshAt
    <3>2. ExactAt(c, a)'
      <4>1. /\ rec.rx_bytes = returned[c][a].rx_bytes
            /\ rec.rx_packets = returned[c][a].rx_packets + 1
        BY <1>1, <2>1 DEF CPUExact, ExactAt, Half
      <4>2. new.rx_bytes = done.rx_bytes /\ new.rx_packets = done.rx_packets
        BY <2>3, <2>4, <4>1
      <4>3. ~Half(c, a)'
        BY <2>7 DEF Half
      <4>. QED
        BY <2>5, <2>6, <4>2, <4>3 DEF ExactAt
    <3>3. ASSUME NEW b \in Actions, b # a PROVE ExactAt(c, b)'
      BY <1>1, <2>5, <2>6, <2>7, <3>3 DEF CPUExact, ExactAt, Half
    <3>. QED
      BY <3>1, <3>2, <3>3 DEF CPUExact
  <2>10. ASSUME NEW d \in CPUs, d # c PROVE CPUExact(d)'
    BY <2>5, <2>6, <2>7, <2>10, OtherCPU DEF IInv
  <2>. QED
    BY <2>8, <2>9, <2>10 DEF IInv
<1>. QED
  BY <1>3, <1>4, <1>6, <1>7 DEF xdp_stats_record_action

\* Every step keeps the invariant.
LEMMA NextIInv == IInv /\ [Next]_vars => IInv'
<1>1. ASSUME IInv, UNCHANGED vars PROVE IInv'
  BY <1>1 DEF IInv, TypeOK, CPUExact, FreshAt, ExactAt, Half, vars
<1>2. ASSUME IInv, NEW c \in CPUs PROVE run[c].action \in Actions
  BY <1>2 DEF IInv, TypeOK
<1>. QED
  BY <1>1, <1>2, ReceiveKeeps, RecordKeeps DEF Next

-----------------------------------------------------------------------------
(* The loop of parse_VLAN, for any depth.                                  *)

\* A set of numbers that is not empty has a least element.
LEMMA Least ==
  ASSUME NEW T \in SUBSET Nat, T # {}
  PROVE  \E m \in T : \A k \in T : m <= k
<1>. DEFINE R == OpToRel(<, Nat)
<1>1. IsWellFoundedOn(R, Nat)
  BY NatLessThanWellFounded
<1>2. \A k, m \in Nat : k < m => <<k, m>> \in R
  BY DEF OpToRel
<1>. HIDE DEF R
<1>3. PICK m \in T : \A k \in T : ~(<<k, m>> \in R)
  BY <1>1, WFMin
<1>4. ASSUME NEW k \in T PROVE m <= k
  <2>1. k \in Nat /\ m \in Nat
    OBVIOUS
  <2>2. ~(k < m)
    BY <1>2, <1>3, <2>1
  <2>. QED
    BY <2>1, <2>2
<1>. QED
  BY <1>4

\* What holds at 0 and is handed on up to n holds up to n.
LEMMA UpTo ==
  ASSUME NEW n \in Nat, NEW T, 0 \in T,
         \A j \in Nat : j < n /\ j \in T => j + 1 \in T
  PROVE  \A j \in 0 .. n : j \in T
<1>. SUFFICES ASSUME NEW j \in 0 .. n, j \notin T PROVE FALSE
  OBVIOUS
<1>. DEFINE U == {k \in Nat : k \notin T /\ k <= n}
<1>1. j \in U /\ U \in SUBSET Nat
  OBVIOUS
<1>. HIDE DEF U
<1>2. PICK m \in U : \A k \in U : m <= k
  BY <1>1, Least
<1>3. m \in Nat /\ m \notin T /\ m <= n /\ m # 0
  BY <1>2 DEF U
<1>4. m - 1 \in Nat /\ m - 1 < n /\ (m - 1) + 1 = m /\ ~(m <= m - 1) /\ m - 1 <= n
  BY <1>3
<1>5. m - 1 \notin U
  BY <1>2, <1>4
<1>6. m - 1 \in T
  BY <1>4, <1>5 DEF U
<1>. QED
  BY <1>3, <1>4, <1>6

\* Round i of the loop, on what the rounds before it left behind.
Round(f, w, i) ==
  IF i = 0 THEN [h_proto |-> f.h_proto, vlh |-> ETH_HLEN]
  ELSE IF proto_is_vlan(w[i - 1].h_proto) /\ TagFits(f, w[i - 1].vlh)
  THEN [h_proto |-> f.tags[i], vlh |-> w[i - 1].vlh + VLAN_HLEN]
  ELSE w[i - 1]

Rounds(f, w, n) == w = [i \in 0 .. n |-> Round(f, w, i)]

\* The loop is well defined: its rounds can be laid out one after the other.
LEMMA RoundsExist ==
  ASSUME NEW f, NEW n \in Nat
  PROVE  \E w : Rounds(f, w, n)
<1>. DEFINE T == {j \in Nat : \E w : Rounds(f, w, j)}
<1>1. 0 \in T
  <2>. DEFINE w == [i \in 0 .. 0 |-> [h_proto |-> f.h_proto, vlh |-> ETH_HLEN]]
  <2>1. \A i \in 0 .. 0 : i = 0
    OBVIOUS
  <2>2. Rounds(f, w, 0)
    BY <2>1 DEF Rounds, Round
  <2>. QED
    BY <2>2
<1>2. ASSUME NEW j \in Nat, j \in T PROVE j + 1 \in T
  <2>1. PICK w : Rounds(f, w, j)
    BY <1>2
  <2>. DEFINE v == [i \in 0 .. j + 1 |-> Round(f, w, i)]
  <2>2. \A i \in 0 .. j : w[i] = Round(f, w, i) /\ v[i] = w[i]
    BY <2>1 DEF Rounds
  <2>3. \A i \in 0 .. j + 1 : i = 0 \/ i - 1 \in 0 .. j
    OBVIOUS
  <2>. HIDE DEF v
  <2>4. \A i \in 0 .. j + 1 : Round(f, v, i) = Round(f, w, i)
    BY <2>2, <2>3 DEF Round
  <2>5. v = [i \in 0 .. j + 1 |-> Round(f, v, i)]
    BY <2>4 DEF v
  <2>. QED
    BY <2>5 DEF Rounds
<1>. HIDE DEF T
<1>3. n \in T
  BY <1>1, <1>2, UpTo
<1>. QED
  BY <1>3 DEF T

\* What the loop computes is the value after its last round.
LEMMA WalkRounds ==
  ASSUME NEW f
  PROVE  \E w : Rounds(f, w, VLAN_MAX_DEPTH) /\ Walk(f) = w[VLAN_MAX_DEPTH]
<1>. DEFINE w == CHOOSE v : Rounds(f, v, VLAN_MAX_DEPTH)
<1>1. Rounds(f, w, VLAN_MAX_DEPTH)
  BY RoundsExist, ProgramsAssumption
<1>2. Walk(f) = w[VLAN_MAX_DEPTH]
  BY DEF Walk, Rounds, Round
<1>. QED
  BY <1>1, <1>2

\* After round i the loop is behind n tags: the first i, or all that can be
\* skipped if there are fewer.
Behind(f, r, i, n) ==
  /\ Skips(f, n)
  /\ r.vlh = ETH_HLEN + VLAN_HLEN * n
  /\ r.h_proto = TypeAt(f, n)
  /\ n < i => ~Skips(f, n + 1)

\* The ranges of the fields of a frame.
LEMMA FrameFields ==
  ASSUME NEW f \in Frames
  PROVE  f.len \in Nat /\ f.ihl \in 0 .. 15 /\ f.protocol \in 0 .. 255 /\ f.h_proto \in Nat
BY ProgramsAssumption DEF Frame

\* One tag more can be skipped if it is announced and fits.
LEMMA SkipsNext ==
  ASSUME NEW f, f.len \in Nat, NEW n \in Nat, Skips(f, n)
  PROVE  Skips(f, n + 1) <=>
           proto_is_vlan(TypeAt(f, n)) /\ TagFits(f, ETH_HLEN + VLAN_HLEN * n)
<1>1. TagFits(f, ETH_HLEN + VLAN_HLEN * n) <=> ETH_HLEN + VLAN_HLEN * (n + 1) <= f.len
  BY DEF TagFits, ETH_HLEN, VLAN_HLEN
<1>2. \A m : m \in 0 .. (n + 1) - 1 <=> m = n \/ m \in 0 .. n - 1
  OBVIOUS
<1>3. (\A m \in 0 .. (n + 1) - 1 : proto_is_vlan(TypeAt(f, m)))
        <=> proto_is_vlan(TypeAt(f, n)) /\ \A m \in 0 .. n - 1 : proto_is_vlan(TypeAt(f, m))
  BY <1>2
<1>. QED
  BY <1>1, <1>3 DEF Skips, TypeAt

\* The loop ends behind the tags it could skip.
LEMMA WalkBehind ==
  ASSUME NEW f \in Frames, ETH_HLEN <= f.len
  PROVE  \E n \in 0 .. VLAN_MAX_DEPTH : Behind(f, Walk(f), VLAN_MAX_DEPTH, n)
<1>1. PICK w : Rounds(f, w, VLAN_MAX_DEPTH) /\ Walk(f) = w[VLAN_MAX_DEPTH]
  BY WalkRounds
<1>. DEFINE D == VLAN_MAX_DEPTH
            T == {i \in Nat : \E n \in 0 .. i : Behind(f, w[i], i, n)}
<1>2. \A i \in 0 .. D : w[i] = Round(f, w, i)
  BY <1>1 DEF Rounds
<1>3. D \in Nat /\ f.len \in Nat
  BY FrameFields, ProgramsAssumption
<1>. HIDE DEF D
<1>4. 0 \in T
  <2>0. 0 \in 0 .. D
    BY <1>3
  <2>1. w[0] = [h_proto |-> f.h_proto, vlh |-> ETH_HLEN]
    BY <1>2, <2>0, Zenon DEF Round
  <2>2. ETH_HLEN + VLAN_HLEN * 0 = ETH_HLEN /\ 0 .. 0 - 1 = {}
    BY DEF ETH_HLEN, VLAN_HLEN
  <2>3. Skips(f, 0)
    BY <2>2 DEF Skips
  <2>4. Behind(f, w[0], 0, 0)
    BY <2>1, <2>2, <2>3 DEF Behind, TypeAt
  <2>. QED
    BY <2>4
<1>5. ASSUME NEW i \in Nat, i < D, i \in T PROVE i + 1 \in T
  <2>1. PICK n \in 0 .. i : Behind(f, w[i], i, n)
    BY <1>5
  <2>2. n \in Nat /\ n <= i /\ i + 1 \in 0 .. D /\ i + 1 # 0 /\ (i + 1) - 1 = i
        /\ n \in 0 .. i + 1 /\ n + 1 \in 0 .. i + 1
    BY <1>3, <1>5
  <2>3. w[i + 1] = IF proto_is_vlan(TypeAt(f, n)) /\ TagFits(f, ETH_HLEN + VLAN_HLEN * n)
                   THEN [h_proto |-> f.tags[i + 1],
                         vlh |-> ETH_HLEN + VLAN_HLEN * n + VLAN_HLEN]
                   ELSE w[i]
    BY <1>2, <2>1, <2>2 DEF Round, Behind
  <2>4. Skips(f, n + 1) <=>
          proto_is_vlan(TypeAt(f, n)) /\ TagFits(f, ETH_HLEN + VLAN_HLEN * n)
    BY <1>3, <2>1, <2>2, SkipsNext DEF Behind
  <2>5. CASE Skips(f, n + 1)
    <3>1. n = i
      BY <2>1, <2>2, <2>5 DEF Behind
    <3>2. ETH_HLEN + VLAN_HLEN * n + VLAN_HLEN = ETH_HLEN + VLAN_HLEN * (n + 1)
      BY <2>2 DEF ETH_HLEN, VLAN_HLEN
    <3>3. ~(n + 1 < i + 1) /\ n + 1 # 0
      BY <2>2, <3>1
    <3>4. Behind(f, w[i + 1], i + 1, n + 1)
      BY <2>3, <2>4, <2>5, <3>1, <3>2, <3>3 DEF Behind, TypeAt
    <3>. QED
      BY <2>2, <3>4
  <2>6. CASE ~Skips(f, n + 1)
    <3>1. Behind(f, w[i + 1], i + 1, n)
      BY <2>1, <2>3, <2>4, <2>6 DEF Behind
    <3>. QED
      BY <2>2, <3>1
  <2>. QED
    BY <2>5, <2>6
<1>. HIDE DEF T
<1>6. D \in T
  BY <1>3, <1>4, <1>5, UpTo
<1>. QED
  BY <1>1, <1>6 DEF T, D

\* The tags that can be skipped are downward closed, so that only one number
\* of them is the last.
LEMMA DepthUnique ==
  ASSUME NEW f, f.len \in Nat, NEW n \in 0 .. VLAN_MAX_DEPTH,
         NEW m \in 0 .. VLAN_MAX_DEPTH, Skips(f, n), Skips(f, m),
         n < VLAN_MAX_DEPTH => ~Skips(f, n + 1),
         m < VLAN_MAX_DEPTH => ~Skips(f, m + 1)
  PROVE  n = m
<1>1. VLAN_MAX_DEPTH \in Nat
  BY ProgramsAssumption
<1>2. ASSUME NEW a \in 0 .. VLAN_MAX_DEPTH, NEW b \in 0 .. VLAN_MAX_DEPTH,
             Skips(f, b), a < b
      PROVE  a < VLAN_MAX_DEPTH /\ Skips(f, a + 1)
  <2>1. a \in Nat /\ b \in Nat /\ a + 1 <= b /\ a < VLAN_MAX_DEPTH
    BY <1>1, <1>2
  <2>. QED
    BY <1>2, <2>1 DEF Skips, ETH_HLEN, VLAN_HLEN
<1>. QED
  BY <1>1, <1>2

\* parse_ipv4hdr returns TCP exactly on a complete IPv4 header of protocol TCP.
LEMMA Ipv4Tcp ==
  ASSUME NEW f \in Frames, NEW pos \in Nat
  PROVE  parse_ipv4hdr(f, pos).ret = IPPROTO_TCP <=>
           f.protocol = IPPROTO_TCP /\ f.ihl >= 5 /\ pos + 4 * f.ihl <= f.len
BY FrameFields DEF parse_ipv4hdr, ParseHeader, IPHDR_LEN, IPPROTO_TCP

\* The filter drops TCP, behind as many tags as it looks through.
LEMMA FilterDrops ==
  ASSUME NEW f \in Frames
  PROVE  FilterAction(f) = XDP_DROP <=> \E n \in 0 .. VLAN_MAX_DEPTH : TcpBehind(f, n)
<1>0. f.len \in Nat /\ VLAN_MAX_DEPTH \in Nat
  BY FrameFields, ProgramsAssumption
<1>1. FilterAction(f) = XDP_DROP <=> parse_ipv4hdr(f, parse_VLAN(f)).ret = IPPROTO_TCP
  BY DEF FilterAction, XDP_DROP, XDP_PASS
<1>2. CASE ETH_HLEN > f.len
  <2>1. ~\E n \in 0 .. VLAN_MAX_DEPTH : TcpBehind(f, n)
    <3>1. ASSUME NEW n \in 0 .. VLAN_MAX_DEPTH PROVE ~Skips(f, n)
      <4>1. n \in Nat
        BY <1>0
      <4>. QED
        BY <1>0, <1>2, <4>1 DEF Skips, ETH_HLEN, VLAN_HLEN
    <3>. QED
      BY <3>1 DEF TcpBehind
  <2>2. ~(f.ihl >= 5 /\ 0 + 4 * f.ihl <= f.len)
    BY <1>2, FrameFields DEF ETH_HLEN
  <2>3. parse_VLAN(f) = 0
    BY <1>2 DEF parse_VLAN
  <2>. QED
    BY <1>1, <2>1, <2>2, <2>3, Ipv4Tcp
<1>3. CASE ETH_HLEN <= f.len
  <2>1. PICK n \in 0 .. VLAN_MAX_DEPTH : Behind(f, Walk(f), VLAN_MAX_DEPTH, n)
    BY <1>3, WalkBehind
  <2>2. n \in Nat /\ ETH_HLEN + VLAN_HLEN * n \in Nat
    BY <1>0 DEF ETH_HLEN, VLAN_HLEN
  <2>3. parse_VLAN(f) = ETH_HLEN + VLAN_HLEN * n
    <3>1. ~(ETH_HLEN > f.len)
      BY <1>0, <1>3 DEF ETH_HLEN
    <3>. QED
      BY <2>1, <3>1 DEF parse_VLAN, Behind
  <2>4. (\E m \in 0 .. VLAN_MAX_DEPTH : TcpBehind(f, m)) <=>
          /\ f.protocol = IPPROTO_TCP /\ f.ihl >= 5
          /\ ETH_HLEN + VLAN_HLEN * n + 4 * f.ihl <= f.len
    BY <1>0, <2>1, DepthUnique DEF TcpBehind, Behind
  <2>. QED
    BY <1>1, <2>2, <2>3, <2>4, Ipv4Tcp
<1>. QED
  BY <1>0, <1>2, <1>3 DEF ETH_HLEN

\* The parser drops untagged IPv6.
LEMMA ParserDrops == ASSUME NEW f \in Frames PROVE ParserAction(f) = XDP_DROP <=> IsIpv6(f)
BY FrameFields DEF ParserAction, parse_ethhdr, ParseHeader, IsIpv6, XDP_DROP, XDP_PASS,
   ETH_HLEN, ETH_P_IPV6, bpf_htons

\* A frame that was just judged came from the wire, and got the verdict of the
\* program it was given to.
Judged ==
  \A x \in judged : x.frame \in Frames /\ x.action = Verdict(x.prog, x.frame)

\* What was judged rightly was dropped rightly.
LEMMA JudgedDrops == Judged => DropsTcp
<1>. SUFFICES ASSUME Judged, NEW x \in judged
              PROVE  /\ x.prog = "xdp_packet_filter" =>
                          /\ IsTcp(x.frame) => x.action = XDP_DROP
                          /\ x.action = XDP_DROP =>
                               IsTcp(x.frame) \/ PassesForTcp(x.frame)
                     /\ x.prog = "xdp_packet_parser" =>
                          (x.action = XDP_DROP <=> IsIpv6(x.frame))
  BY DEF DropsTcp
<1>1. x.frame \in Frames /\ x.action = Verdict(x.prog, x.frame)
  BY DEF Judged
<1>2. CASE x.prog = "xdp_packet_filter"
  <2>1. x.action = FilterAction(x.frame)
    BY <1>1, <1>2 DEF Verdict
  <2>. QED
    BY <1>1, <1>2, <2>1, FilterDrops DEF IsTcp, PassesForTcp
<1>3. CASE x.prog = "xdp_packet_parser"
  <2>1. x.action = ParserAction(x.frame)
    BY <1>1, <1>3 DEF Verdict
  <2>. QED
    BY <1>1, <1>3, <2>1, ParserDrops
<1>. QED
  BY <1>2, <1>3

\* Every verdict is the right one.
LEMMA NextJudged == Judged /\ [Next]_vars => Judged'
<1>. SUFFICES ASSUME Judged, [Next]_vars PROVE Judged'
  OBVIOUS
<1>1. CASE UNCHANGED vars
  BY <1>1 DEF Judged, vars
<1>2. ASSUME NEW c \in CPUs, NEW prog \in Programs, NEW f \in Frames, Receive(c, prog, f)
      PROVE  Judged'
  <2>1. judged' = {[prog |-> prog, frame |-> f, action |-> Verdict(prog, f)]}
    BY <1>2 DEF Receive
  <2>. QED
    BY <2>1 DEF Judged
<1>3. ASSUME NEW c \in CPUs, xdp_stats_record_action(c) PROVE Judged'
  BY <1>3 DEF xdp_stats_record_action, Judged
<1>. QED
  BY <1>1, <1>2, <1>3 DEF Next

-----------------------------------------------------------------------------
(* Theorems.                                                               *)

\* xdp_stats_record_action, without atomic operations on a per-CPU array: what
\* a reader finds is what was returned, with one packet in hand at most.
THEOREM StatisticsExact == Spec => []StatsExact
BY InitIInv, NextIInv, IInvExact, PTL DEF Spec

\* Whatever the frame claims and however many tags it has, program 6 drops
\* TCP over IPv4, and beyond it only frames of another EtherType whose bytes
\* pass for it; program 3 drops untagged IPv6 and nothing else.
THEOREM VerdictsExact == Spec => []DropsTcp
<1>1. Init => Judged
  BY DEF Init, Judged
<1>. QED
  BY <1>1, NextJudged, JudgedDrops, PTL DEF Spec

=============================================================================
