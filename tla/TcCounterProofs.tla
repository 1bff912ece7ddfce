-------------------------- MODULE TcCounterProofs --------------------------
(***************************************************************************)
(* Proofs about TcCounter, for any number of CPUs, instances of 05_user,   *)
(* frames and any width of the counter: a frame is counted once under each *)
(* of its keys, the shared counter never overcounts, and an interrupted    *)
(* instance leaves no filter behind.                                       *)
(***************************************************************************)
EXTENDS TcCounter, TLAPS

-----------------------------------------------------------------------------
(* The helpers.                                                            *)

\* The members of a range.
LEMMA Below == ASSUME NEW n \in Nat, NEW v \in 0 .. n - 1 PROVE v \in Nat /\ v < n
OBVIOUS

\* The byte swap is its own inverse, at the value that parse_pkt compares to.
LEMMA SwapIp == \A v \in __be16 : bpf_htons(v) = ETH_P_IP <=> v = bpf_htons(ETH_P_IP)
<1>. SUFFICES ASSUME NEW v \in __be16
              PROVE  bpf_htons(v) = ETH_P_IP <=> v = bpf_htons(ETH_P_IP)
  OBVIOUS
<1>. DEFINE a == v \div 256
            b == v % 256
<1>0. v \in Nat /\ v < 256 * 256
  <2>1. 256 * 256 \in Nat
    OBVIOUS
  <2>. QED
    BY <2>1, Below, Zenon DEF __be16
<1>1. a \in Nat /\ b \in Nat /\ b < 256 /\ v = 256 * a + b /\ a < 256
  <2>1. a \in Nat /\ b \in Nat /\ b < 256
    BY <1>0, SMTT(30)
  <2>2. v = 256 * a + b
    BY <1>0, SMTT(30)
  <2>. HIDE DEF a, b
  <2>. QED
    BY <1>0, <2>1, <2>2
<1>2. bpf_htons(v) = 256 * b + a
  BY <1>1 DEF bpf_htons
<1>3. bpf_htons(ETH_P_IP) = 8 /\ ETH_P_IP = 2048
  BY DEF bpf_htons, ETH_P_IP
<1>. HIDE DEF a, b
<1>. QED
  BY <1>1, <1>2, <1>3

\* The wrapped counter is in range, and not above the exact one.
LEMMA Wraps == \A n \in Nat : n % CounterMod \in 0 .. CounterMod - 1 /\ n % CounterMod <= n
<1>1. CounterMod \in Nat /\ CounterMod > 0
  BY TcAssumption
<1>. QED
  BY <1>1, Z3

\* Wrapping before the increment is wrapping after it.
LEMMA WrapsOnce ==
  ASSUME NEW n \in Nat, NEW m \in Nat, m > 0
  PROVE  ((n % m) + 1) % m = (n + 1) % m
<1>. DEFINE q == n \div m
            r == n % m
<1>1. q \in Nat /\ r \in Nat /\ r < m /\ n = m * q + r
  BY Z3T(30)
<1>. HIDE DEF q, r
<1>2. CASE r + 1 < m
  <2>1. (r + 1) % m = r + 1
    BY <1>1, <1>2, Z3T(30)
  <2>2. n + 1 = m * q + (r + 1)
    BY <1>1
  <2>3. (n + 1) % m = r + 1
    BY <1>1, <1>2, <2>2, Z3T(30)
  <2>. QED
    BY <2>1, <2>3 DEF r
<1>3. CASE r + 1 = m
  <2>1. (r + 1) % m = 0
    BY <1>1, <1>3, Z3T(30)
  <2>2. n + 1 = m * (q + 1)
    BY <1>1, <1>3
  <2>3. (n + 1) % m = 0
    BY <1>1, <1>3, <2>2, Z3T(30)
  <2>. QED
    BY <2>1, <2>3 DEF r
<1>. QED
  BY <1>1, <1>2, <1>3

\* The keys.
LEMMA Keys ==
  /\ MapKeys = {IP_PKT, ICMP_PKT, UDP_PKT, TCP_PKT}
  /\ MapKeys \subseteq Nat
BY DEF MapKeys, max_entries, IP_PKT, ICMP_PKT, UDP_PKT, TCP_PKT

\* The fields of a frame that arithmetic is done on.
LEMMA FrameFields ==
  \A f \in Frames : f.len \in Nat /\ f.h_proto \in __be16 /\ f.protocol \in Nat
BY TcAssumption DEF TcFrame

-----------------------------------------------------------------------------
(* The inductive invariant.                                                *)

Locations == {"idle", "l3", "l4", "load", "store", "done"}

Due(f) == {k \in MapKeys : CountsAs(f, k)}

\* What the classifier knows of its frame and has counted, by location.  Only
\* a filter that counted nothing hands the frame to the next one.
Position(p, x) ==
  /\ p # "idle" => x.frame \in Frames
  /\ p = "l3" => x.bumped = {}
  /\ p = "l4" => CountsAs(x.frame, IP_PKT) /\ x.bumped = {IP_PKT}
  /\ p \in {"load", "store"} =>
       /\ CountsAs(x.frame, x.key)
       /\ x.verdict = "TC_ACT_OK"
       /\ \/ x.key = IP_PKT /\ x.next = "l4" /\ x.bumped = {}
          \/ x.key # IP_PKT /\ x.next = "done" /\ x.bumped = {IP_PKT}
  /\ p = "done" =>
       /\ x.bumped = Due(x.frame)
       /\ x.verdict = "TC_ACT_UNSPEC" => x.bumped = {}

\* The value a CPU is about to add to is no larger than the exact count.
Good(p, x, h) ==
  /\ p \in Locations /\ x \in Locals
  /\ Position(p, x)
  /\ p = "store" => x.reg <= h[x.key]

Attached(u) == u \in {filters[j] : j \in DOMAIN filters}

\* An instance with a filter has not cleaned up, or was refused, or was not
\* given the time.
Tidy ==
  \A u \in Users : Attached(u) =>
    \/ upc[u] \in {"open", "print", "tc_cleanup", "failed", "killed"}
    \/ upc[u] \in {"map_cleanup", "zero", "exited"} /\ err[u] = -1

IInv ==
  /\ TypeOK
  /\ \A c \in CPUs : Good(pc[c], ctx[c], hits)
  /\ NeverOvercounts
  /\ Tidy

\* No frame has come, and there is no filter.
LEMMA InitIInv == Init => IInv
<1>. SUFFICES ASSUME Init PROVE IInv
  OBVIOUS
<1>1. Enter(NoFrame, <<>>) \in Locals
  BY Keys DEF Enter, Locals
<1>2. TypeOK
  <2>1. Zeroes \in [MapKeys -> 0 .. CounterMod - 1] /\ Zeroes \in [MapKeys -> Nat]
    BY TcAssumption DEF Zeroes
  <2>2. 0 \in MapKeys
    BY Keys DEF IP_PKT
  <2>3. /\ pc \in [CPUs -> {"idle", "l3", "l4", "load", "store", "done"}]
        /\ ctx \in [CPUs -> Locals] /\ filters \in Seq(Users) /\ arrived \in Nat
    BY <1>1 DEF Init
  <2>4. /\ upc \in [Users -> {"notrun", "hook", "rlimit", "signals", "load", "attach",
                              "open", "print", "tc_cleanup", "map_cleanup", "zero"}
                             \cup Gone]
        /\ masked \in [Users -> SUBSET Signals] /\ err \in [Users -> {0, -1}]
    BY DEF Init
  <2>5. value \in [Users -> Wild] /\ i \in [Users -> MapKeys] /\ shown \in [Users -> Nat]
    BY <2>2 DEF Init, Wild
  <2>6. pinned \in BOOLEAN /\ qdisc \in BOOLEAN /\ reset \in BOOLEAN
    BY DEF Init
  <2>. QED
    BY <2>1, <2>3, <2>4, <2>5, <2>6 DEF Init, TypeOK
<1>3. \A c \in CPUs : Good(pc[c], ctx[c], hits)
  BY <1>1 DEF Init, Good, Position, Locations
<1>4. NeverOvercounts
  BY DEF Init, NeverOvercounts, Zeroes
<1>5. Tidy
  BY DEF Init, Tidy, Attached
<1>. QED
  BY <1>2, <1>3, <1>4, <1>5 DEF IInv

-----------------------------------------------------------------------------
(* The classifier.                                                         *)

\* A step that leaves the map alone keeps the invariant if it leaves its own
\* CPU in a good state.
LEMMA ContinueKeeps ==
  ASSUME IInv, NEW c \in CPUs, NEW x, NEW l, Good(l, x, hits), Continue(c, x, l)
  PROVE  IInv'
<1>1. x \in Locals /\ l \in Locations
  BY DEF Good
<1>2. TypeOK'
  BY <1>1 DEF IInv, TypeOK, Continue, uservars, Locations
<1>3. \A d \in CPUs : Good(pc'[d], ctx'[d], hits')
  BY DEF IInv, TypeOK, Continue
<1>4. NeverOvercounts'
  BY DEF IInv, NeverOvercounts, Continue
<1>5. Tidy'
  BY DEF IInv, Tidy, Attached, Continue, uservars
<1>. QED
  BY <1>2, <1>3, <1>4, <1>5 DEF IInv

\* The locals with a verdict.
LEMMA LocalsVerdict ==
  ASSUME NEW x \in Locals, NEW v \in {"TC_ACT_OK", "TC_ACT_SHOT", "TC_ACT_UNSPEC"}
  PROVE  LET y == [x EXCEPT !.verdict = v]
         IN  /\ y \in Locals /\ y.frame = x.frame /\ y.bumped = x.bumped
             /\ y.verdict = v
BY DEF Locals

\* A verdict is due to a frame all of whose keys have been counted.
LEMMA VerdictKeeps ==
  ASSUME IInv, NEW c \in CPUs, pc[c] \in {"l3", "l4"},
         NEW v \in {"TC_ACT_OK", "TC_ACT_SHOT", "TC_ACT_UNSPEC"},
         ctx[c].bumped = Due(ctx[c].frame),
         v = "TC_ACT_UNSPEC" => ctx[c].bumped = {},
         Verdict(c, ctx[c], v)
  PROVE  IInv'
<1>. DEFINE x == ctx[c]
            y == [x EXCEPT !.verdict = v]
<1>1. x \in Locals /\ x.frame \in Frames
  BY DEF IInv, Good, Position
<1>2. y \in Locals /\ y.frame = x.frame /\ y.bumped = x.bumped /\ y.verdict = v
  BY <1>1, LocalsVerdict
<1>3. Good("done", y, hits)
  BY <1>1, <1>2 DEF Good, Position, Locations
<1>. QED
  BY <1>3, ContinueKeeps DEF Verdict

\* Counting under a key that is due, and was not counted yet.
LEMMA BumpKeeps ==
  ASSUME IInv, NEW c \in CPUs, pc[c] \in {"l3", "l4"},
         NEW k \in MapKeys, NEW l, CountsAs(ctx[c].frame, k),
         \/ k = IP_PKT /\ l = "l4" /\ ctx[c].bumped = {}
         \/ k # IP_PKT /\ l = "done" /\ ctx[c].bumped = {IP_PKT},
         Bump(c, ctx[c], k, l)
  PROVE  IInv'
<1>x. PICK x : x = ctx[c]
  OBVIOUS
<1>y. PICK y : y = [x EXCEPT !.key = k, !.next = l, !.verdict = "TC_ACT_OK"]
  OBVIOUS
<1>1. x \in Locals /\ x.frame \in Frames /\ l \in {"l4", "done"}
  BY <1>x DEF IInv, Good, Position
<1>2. /\ y \in Locals /\ y.frame = x.frame /\ y.bumped = x.bumped
      /\ y.key = k /\ y.next = l /\ y.verdict = "TC_ACT_OK"
  BY <1>1, <1>y DEF Locals
<1>3. Good("load", y, hits)
  BY <1>x, <1>1, <1>2 DEF Good, Position, Locations
<1>. QED
  BY <1>x, <1>y, <1>3, ContinueKeeps DEF Bump

\* The network header.
LEMMA ParseL3Keeps ==
  ASSUME IInv, NEW c \in CPUs, ParseL3(c)
  PROVE  IInv'
<1>. DEFINE x == ctx[c]
            f == x.frame
<1>1. pc[c] = "l3" /\ f \in Frames /\ x.bumped = {}
  BY DEF ParseL3, IInv, Good, Position
<1>2. f.len \in Nat /\ f.h_proto \in __be16
  BY <1>1, FrameFields
<1>3. bpf_htons(f.h_proto) = ETH_P_IP <=> f.h_proto = bpf_htons(ETH_P_IP)
  BY <1>2, SwapIp
<1>4. CASE f.len < ETH_HLEN + IPHDR_LEN \/ bpf_htons(f.h_proto) # ETH_P_IP
  <2>1. Due(f) = {}
    BY <1>2, <1>3, <1>4 DEF Due, CountsAs, ETH_HLEN, IPHDR_LEN
  <2>2. \E v \in {"TC_ACT_OK", "TC_ACT_SHOT", "TC_ACT_UNSPEC"} : Verdict(c, x, v)
    BY <1>2, <1>4 DEF ParseL3, ETH_HLEN, IPHDR_LEN
  <2>. QED
    BY <1>1, <2>1, <2>2, VerdictKeeps
<1>5. CASE f.len >= ETH_HLEN + IPHDR_LEN /\ bpf_htons(f.h_proto) = ETH_P_IP
  <2>1. CountsAs(f, IP_PKT) /\ IP_PKT \in MapKeys
    BY <1>3, <1>5, Keys DEF CountsAs
  <2>2. Bump(c, x, IP_PKT, "l4")
    BY <1>2, <1>5 DEF ParseL3, ETH_HLEN, IPHDR_LEN
  <2>. QED
    BY <1>1, <2>1, <2>2, BumpKeeps
<1>. QED
  BY <1>2, <1>4, <1>5 DEF ETH_HLEN, IPHDR_LEN

\* The transport header.
LEMMA ParseL4Keeps ==
  ASSUME IInv, NEW c \in CPUs, ParseL4(c)
  PROVE  IInv'
<1>. DEFINE x == ctx[c]
            f == x.frame
<1>1. /\ pc[c] = "l4" /\ f \in Frames /\ x.bumped = {IP_PKT}
      /\ CountsAs(f, IP_PKT)
  BY DEF ParseL4, IInv, Good, Position
<1>2. f.len \in Nat /\ f.protocol \in Nat
  BY <1>1, FrameFields
<1>3. ASSUME NEW p \in L4Keys, f.protocol = p.protocol
      PROVE  /\ p.key \in MapKeys /\ p.key # IP_PKT
             /\ f.len < ETH_HLEN + IPHDR_LEN + p.hdr => Due(f) = {IP_PKT}
             /\ f.len >= ETH_HLEN + IPHDR_LEN + p.hdr => CountsAs(f, p.key)
  BY <1>1, <1>2, <1>3, Keys
  DEF L4Keys, Due, CountsAs, IP_PKT, ICMP_PKT, UDP_PKT, TCP_PKT, ETH_HLEN, IPHDR_LEN,
      UDPHDR_LEN, TCPHDR_LEN, IPPROTO_ICMP, IPPROTO_UDP, IPPROTO_TCP
<1>4. (\A p \in L4Keys : f.protocol # p.protocol) => Due(f) = {IP_PKT}
  BY <1>1, Keys DEF L4Keys, Due, CountsAs
<1>5. ASSUME NEW p \in L4Keys, f.protocol = p.protocol,
             IF f.len < ETH_HLEN + IPHDR_LEN + p.hdr
             THEN Verdict(c, x, "TC_ACT_SHOT")
             ELSE Bump(c, x, p.key, "done")
      PROVE  IInv'
  <2>1. p.hdr \in Nat
    BY DEF L4Keys, TCPHDR_LEN, UDPHDR_LEN
  <2>2. CASE f.len < ETH_HLEN + IPHDR_LEN + p.hdr
    BY <1>1, <1>3, <1>5, <2>2, VerdictKeeps
  <2>3. CASE f.len >= ETH_HLEN + IPHDR_LEN + p.hdr
    <3>1. ~(f.len < ETH_HLEN + IPHDR_LEN + p.hdr)
      BY <1>2, <2>1, <2>3 DEF ETH_HLEN, IPHDR_LEN
    <3>. QED
      BY <1>1, <1>3, <1>5, <2>3, <3>1, BumpKeeps
  <2>. QED
    BY <1>2, <2>1, <2>2, <2>3 DEF ETH_HLEN, IPHDR_LEN
<1>6. CASE (\A p \in L4Keys : f.protocol # p.protocol) /\ Verdict(c, x, "TC_ACT_OK")
  BY <1>1, <1>4, <1>6, VerdictKeeps
<1>. QED
  BY <1>5, <1>6 DEF ParseL4

\* The load of the counter: it does not exceed the exact count.
LEMMA LoadKeeps ==
  ASSUME IInv, NEW c \in CPUs, Load(c)
  PROVE  IInv'
<1>. DEFINE x == ctx[c]
            n == packet_counter_map[x.key]
            y == [x EXCEPT !.reg = n]
<1>1. pc[c] = "load" /\ x \in Locals /\ Position("load", x) /\ x.key \in MapKeys
  BY DEF Load, IInv, Good, Locals
<1>2. n \in Nat /\ n <= hits[x.key]
  BY <1>1, TcAssumption DEF IInv, TypeOK, NeverOvercounts
<1>. HIDE DEF n
<1>3. /\ y \in Locals /\ y.reg = n /\ y.frame = x.frame /\ y.key = x.key
      /\ y.next = x.next /\ y.bumped = x.bumped /\ y.verdict = x.verdict
  BY <1>1, <1>2 DEF Locals
<1>. HIDE DEF y
<1>4. Good("store", y, hits)
  BY <1>1, <1>2, <1>3 DEF Good, Position, Locations
<1>. QED
  BY <1>4, ContinueKeeps DEF Load, y, n

\* The end of the classifier: only a filter that counted nothing is followed
\* by another one.
LEMMA ReturnKeeps ==
  ASSUME IInv, NEW c \in CPUs, Return(c)
  PROVE  IInv'
<1>. DEFINE x == ctx[c]
            y == [x EXCEPT !.chain = Tail(x.chain)]
            z == Enter(NoFrame, <<>>)
<1>1. pc[c] = "done" /\ x \in Locals /\ Position("done", x)
  BY DEF Return, IInv, Good
<1>2. Good("idle", z, hits)
  BY Keys DEF Good, Position, Locations, Enter, Locals
<1>3. CASE x.verdict = "TC_ACT_UNSPEC" /\ Len(x.chain) > 1
  <2>1. x.chain \in Seq(Users) /\ x.chain # <<>>
    BY <1>1, <1>3 DEF Locals
  <2>2. Tail(x.chain) \in Seq(Users)
    BY <2>1
  <2>3. y \in Locals /\ y.frame = x.frame /\ y.bumped = x.bumped
    BY <1>1, <2>2 DEF Locals
  <2>4. Good("l3", y, hits)
    BY <1>1, <1>3, <2>3 DEF Good, Position, Locations
  <2>. QED
    BY <1>3, <2>4, ContinueKeeps DEF Return
<1>4. CASE ~(x.verdict = "TC_ACT_UNSPEC" /\ Len(x.chain) > 1)
  BY <1>2, <1>4, ContinueKeeps DEF Return
<1>. QED
  BY <1>3, <1>4

\* The store of the counter, however stale what it adds to.
LEMMA StoreKeeps ==
  ASSUME IInv, NEW c \in CPUs, Store(c)
  PROVE  IInv'
<1>. DEFINE x == ctx[c]
            k == x.key
            y == [x EXCEPT !.bumped = @ \cup {k}]
            n == (x.reg + 1) % CounterMod
<1>1. /\ pc[c] = "store" /\ x \in Locals /\ Position("store", x)
      /\ k \in MapKeys /\ x.reg \in Nat /\ x.reg <= hits[k] /\ x.frame \in Frames
  BY DEF Store, IInv, Good, Position, Locals
<1>2. n \in 0 .. CounterMod - 1 /\ n \in Nat /\ n <= x.reg + 1
  <2>1. x.reg + 1 \in Nat
    BY <1>1
  <2>2. n \in 0 .. CounterMod - 1 /\ n <= x.reg + 1
    BY <2>1, Wraps
  <2>. QED
    BY <2>2, TcAssumption
<1>. HIDE DEF n
<1>3. /\ packet_counter_map \in [MapKeys -> 0 .. CounterMod - 1]
      /\ hits \in [MapKeys -> Nat] /\ ctx \in [CPUs -> Locals]
      /\ pc \in [CPUs -> Locations]
  BY DEF IInv, TypeOK, Locations
<1>4. /\ y \in Locals /\ y.frame = x.frame /\ y.bumped = x.bumped \cup {k}
      /\ y.verdict = x.verdict /\ y.key = k /\ y.next = x.next
  BY <1>1 DEF Locals
<1>. HIDE DEF y
<1>5. /\ packet_counter_map' = [packet_counter_map EXCEPT ![k] = n]
      /\ hits' = [hits EXCEPT ![k] = hits[k] + 1]
      /\ ctx' = [ctx EXCEPT ![c] = y]
      /\ pc' = [pc EXCEPT ![c] = x.next]
      /\ UNCHANGED <<pinned, qdisc, filters, uservars, arrived>>
  BY DEF Store, n, y
<1>6. x.next \in {"l4", "done"}
  BY <1>1 DEF Position
<1>7. TypeOK'
  <2>1. /\ packet_counter_map' \in [MapKeys -> 0 .. CounterMod - 1]
        /\ hits' \in [MapKeys -> Nat]
    BY <1>1, <1>2, <1>3, <1>5
  <2>2. ctx' \in [CPUs -> Locals] /\ pc' \in [CPUs -> Locations]
    BY <1>3, <1>4, <1>5, <1>6 DEF Locations
  <2>. QED
    BY <1>5, <2>1, <2>2 DEF IInv, TypeOK, uservars, Locations
<1>8. NeverOvercounts'
  <2>1. ASSUME NEW j \in MapKeys PROVE packet_counter_map'[j] <= hits'[j]
    <3>1. CASE j = k
      BY <1>1, <1>2, <1>3, <1>5, <3>1
    <3>2. CASE j # k
      BY <1>3, <1>5, <3>2 DEF IInv, NeverOvercounts
    <3>. QED
      BY <3>1, <3>2
  <2>. QED
    BY <2>1 DEF NeverOvercounts
<1>9. Position(x.next, y)
  <2>1. CASE k = IP_PKT
    BY <1>1, <1>4, <2>1 DEF Position
  <2>2. CASE k # IP_PKT
    <3>1. CountsAs(x.frame, k) /\ x.next = "done" /\ y.bumped = {IP_PKT, k}
      BY <1>1, <1>4, <2>2 DEF Position
    <3>2. Due(x.frame) = {IP_PKT, k}
      BY <1>1, <2>2, <3>1, Keys
      DEF Due, CountsAs, IP_PKT, ICMP_PKT, UDP_PKT, TCP_PKT,
          IPPROTO_ICMP, IPPROTO_UDP, IPPROTO_TCP
    <3>. QED
      BY <1>1, <1>4, <3>1, <3>2 DEF Position
  <2>. QED
    BY <2>1, <2>2
<1>10. ASSUME NEW d \in CPUs PROVE Good(pc'[d], ctx'[d], hits')
  <2>1. CASE d = c
    BY <1>3, <1>4, <1>5, <1>6, <1>9, <2>1 DEF Good, Locations
  <2>2. CASE d # c
    <3>1. pc'[d] = pc[d] /\ ctx'[d] = ctx[d] /\ Good(pc[d], ctx[d], hits)
      BY <1>3, <1>5, <2>2 DEF IInv
    <3>2. ctx[d].key \in MapKeys /\ ctx[d].reg \in Nat
      BY <1>3 DEF Locals
    <3>3. hits[ctx[d].key] <= hits'[ctx[d].key] /\ hits[ctx[d].key] \in Nat
          /\ hits'[ctx[d].key] \in Nat
      BY <1>1, <1>3, <1>5, <3>2
    <3>. QED
      BY <3>1, <3>2, <3>3 DEF Good
  <2>. QED
    BY <2>1, <2>2
<1>11. Tidy'
  BY <1>5 DEF IInv, Tidy, Attached, uservars
<1>. QED
  BY <1>7, <1>8, <1>10, <1>11 DEF IInv

\* A frame arrives.
LEMMA ReceiveKeeps ==
  ASSUME IInv, NEW c \in CPUs, NEW f \in Frames, Receive(c, f)
  PROVE  IInv'
<1>. DEFINE y == Enter(f, filters)
<1>1. filters \in Seq(Users) /\ arrived \in Nat /\ ctx \in [CPUs -> Locals]
      /\ pc \in [CPUs -> Locations]
  BY DEF IInv, TypeOK, Locations
<1>2. y \in Locals /\ y.frame = f /\ y.bumped = {}
  BY <1>1, Keys DEF Enter, Locals
<1>3. Good("l3", y, hits)
  BY <1>2 DEF Good, Position, Locations
<1>. HIDE DEF y
<1>4. /\ ctx' = [ctx EXCEPT ![c] = y] /\ pc' = [pc EXCEPT ![c] = "l3"]
      /\ arrived' = arrived + 1
      /\ UNCHANGED <<packet_counter_map, pinned, qdisc, filters, uservars, hits>>
  BY DEF Receive, y
<1>5. TypeOK'
  <2>1. ctx' \in [CPUs -> Locals] /\ pc' \in [CPUs -> Locations] /\ arrived' \in Nat
    BY <1>1, <1>2, <1>4 DEF Locations
  <2>. QED
    BY <1>4, <2>1 DEF IInv, TypeOK, uservars, Locations
<1>6. \A d \in CPUs : Good(pc'[d], ctx'[d], hits')
  BY <1>1, <1>3, <1>4 DEF IInv
<1>7. NeverOvercounts' /\ Tidy'
  BY <1>4 DEF IInv, NeverOvercounts, Tidy, Attached, uservars
<1>. QED
  BY <1>5, <1>6, <1>7 DEF IInv

-----------------------------------------------------------------------------
(* 05_user.                                                                *)

\* What a step of an instance may change.
UserTyped ==
  /\ packet_counter_map \in [MapKeys -> 0 .. CounterMod - 1]
  /\ pinned \in BOOLEAN /\ qdisc \in BOOLEAN /\ reset \in BOOLEAN
  /\ filters \in Seq(Users)
  /\ upc \in [Users -> {"notrun", "hook", "rlimit", "signals", "load", "attach", "open",
                        "print", "tc_cleanup", "map_cleanup", "zero"} \cup Gone]
  /\ masked \in [Users -> SUBSET Signals]
  /\ err \in [Users -> {0, -1}]
  /\ value \in [Users -> Wild]
  /\ i \in [Users -> MapKeys]
  /\ shown \in [Users -> Nat]

\* A step of an instance leaves the classifier alone.
LEMMA UserKeeps ==
  ASSUME IInv, UNCHANGED tcvars, UserTyped', NeverOvercounts', Tidy'
  PROVE  IInv'
<1>1. TypeOK'
  BY DEF IInv, TypeOK, tcvars, UserTyped
<1>2. \A c \in CPUs : Good(pc'[c], ctx'[c], hits')
  BY DEF IInv, tcvars
<1>. QED
  BY <1>1, <1>2 DEF IInv

\* The types that a step of an instance starts from.
LEMMA UserTypes == IInv => UserTyped
BY DEF IInv, TypeOK, UserTyped

\* A counter is a natural number, and so are the keys.
LEMMA CounterType ==
  ASSUME UserTyped, NEW k \in MapKeys
  PROVE  packet_counter_map[k] \in Nat /\ packet_counter_map[k] + CounterMod \in Nat
BY TcAssumption DEF UserTyped

\* The steps of main that do not touch the filters.
LEMMA MainTyped ==
  ASSUME UserTyped, NEW u \in Users,
         \/ Start(u) \/ HookCreate(u) \/ bump_memlock_rlimit(u) \/ InstallHandlers(u)
         \/ ProgLoad(u) \/ print_counter_open(u) \/ print_counter(u)
  PROVE  UserTyped'
<1>. USE DEF UserTyped, UGoto, OnlyUser, Gone
<1>1. CASE Start(u)
  BY <1>1 DEF Start
<1>2. CASE HookCreate(u)
  BY <1>2 DEF HookCreate
<1>3. CASE bump_memlock_rlimit(u)
  BY <1>3 DEF bump_memlock_rlimit
<1>4. CASE InstallHandlers(u)
  BY <1>4 DEF InstallHandlers
<1>5. CASE ProgLoad(u)
  BY <1>5 DEF ProgLoad
<1>6. CASE print_counter_open(u)
  <2>1. value' \in [Users -> Wild]
    BY <1>6 DEF print_counter_open, OpenMap, Wild
  <2>2. i' \in [Users -> MapKeys]
    BY <1>6, Keys DEF print_counter_open, IP_PKT
  <2>. QED
    BY <1>6, <2>1, <2>2 DEF print_counter_open
<1>7. CASE print_counter(u)
  <2>1. i[u] \in MapKeys /\ (i[u] + 1) % max_entries \in MapKeys
    BY DEF MapKeys, max_entries
  <2>2. i' \in [Users -> MapKeys]
    BY <1>7, <2>1 DEF print_counter
  <2>3. packet_counter_map[i[u]] \in Nat /\ packet_counter_map[i[u]] + CounterMod \in Nat
    BY <2>1, CounterType
  <2>4. value[u] \in {"fault", "clean", "dirty"}
    BY DEF Wild
  <2>5. shown' \in [Users -> Nat]
    BY <1>7, <2>3, <2>4 DEF print_counter
  <2>. QED
    BY <1>7, <2>2, <2>5 DEF print_counter
<1>. QED
  BY <1>1, <1>2, <1>3, <1>4, <1>5, <1>6, <1>7

\* The locals of a function that is left.
LEMMA ForgetTyped ==
  ASSUME UserTyped, NEW u \in Users, Forget(u)
  PROVE  /\ value' \in [Users -> Wild] /\ i' \in [Users -> MapKeys]
         /\ shown' \in [Users -> Nat]
<1>1. i' \in [Users -> MapKeys]
  BY Keys DEF Forget, UserTyped, IP_PKT
<1>2. value' \in [Users -> Wild] /\ shown' \in [Users -> Nat]
  BY DEF Forget, UserTyped, Wild
<1>. QED
  BY <1>1, <1>2

\* The end of a process.
LEMMA EndTyped ==
  ASSUME UserTyped, NEW u \in Users, NEW how \in Gone, End(u, how)
  PROVE  /\ masked' \in [Users -> SUBSET Signals] /\ value' \in [Users -> Wild]
         /\ i' \in [Users -> MapKeys] /\ shown' \in [Users -> Nat]
         /\ upc' = [upc EXCEPT ![u] = how]
BY ForgetTyped DEF End, UserTyped, UGoto

\* The steps that attach, signal, clean up and die.
LEMMA HandlerTyped ==
  ASSUME UserTyped, NEW u \in Users,
         \/ Attach(u) \/ tc_cleanup(u) \/ map_cleanup_open(u) \/ map_cleanup(u)
         \/ Kill(u) \/ \E s \in Signals : Signal(u, s)
  PROVE  UserTyped'
<1>0. 0 \in MapKeys /\ 0 \in 0 .. CounterMod - 1
  BY Keys, TcAssumption DEF IP_PKT
<1>. USE DEF UserTyped, UGoto, OnlyUser
<1>1. CASE Attach(u)
  <2>1. <<u>> \o filters \in Seq(Users)
    OBVIOUS
  <2>2. filters' \in Seq(Users)
    BY <1>1, <2>1 DEF Attach
  <2>. QED
    BY <1>1, <2>2 DEF Attach, Gone
<1>2. CASE tc_cleanup(u)
  <2>1. <<>> \in Seq(Users)
    OBVIOUS
  <2>2. filters' \in Seq(Users)
    BY <1>2, <2>1 DEF tc_cleanup
  <2>3. err' \in [Users -> {0, -1}]
    BY <1>2 DEF tc_cleanup
  <2>. QED
    BY <1>2, <2>2, <2>3 DEF tc_cleanup
<1>3. CASE map_cleanup_open(u)
  <2>1. value' \in [Users -> Wild]
    BY <1>3 DEF map_cleanup_open, OpenMap, Wild
  <2>2. i' \in [Users -> MapKeys]
    BY <1>0, <1>3 DEF map_cleanup_open
  <2>. QED
    BY <1>3, <2>1, <2>2 DEF map_cleanup_open
<1>4. CASE map_cleanup(u)
  <2>1. /\ packet_counter_map' \in [MapKeys -> 0 .. CounterMod - 1]
        /\ reset' \in BOOLEAN
    BY <1>0, <1>4 DEF map_cleanup
  <2>2. CASE i[u] = max_entries - 1
    <3>1. End(u, "exited") /\ "exited" \in Gone
      BY <1>4, <2>2 DEF map_cleanup, Gone
    <3>2. /\ masked' \in [Users -> SUBSET Signals] /\ value' \in [Users -> Wild]
          /\ i' \in [Users -> MapKeys] /\ shown' \in [Users -> Nat]
          /\ upc' = [upc EXCEPT ![u] = "exited"]
      BY <3>1, EndTyped
    <3>. QED
      BY <1>4, <2>1, <3>1, <3>2 DEF map_cleanup
  <2>3. CASE i[u] # max_entries - 1
    <3>1. i[u] + 1 \in MapKeys
      <4>1. i[u] \in MapKeys
        BY <1>0
      <4>. QED
        BY <2>3, <4>1 DEF MapKeys, max_entries
    <3>2. i' \in [Users -> MapKeys]
      BY <1>4, <2>3, <3>1 DEF map_cleanup
    <3>. QED
      BY <1>4, <2>1, <2>3, <3>2 DEF map_cleanup
  <2>. QED
    BY <2>2, <2>3
<1>5. CASE Kill(u)
  <2>1. End(u, "killed") /\ "killed" \in Gone
    BY <1>5 DEF Kill, Gone
  <2>2. /\ masked' \in [Users -> SUBSET Signals] /\ value' \in [Users -> Wild]
        /\ i' \in [Users -> MapKeys] /\ shown' \in [Users -> Nat]
        /\ upc' = [upc EXCEPT ![u] = "killed"]
    BY <2>1, EndTyped
  <2>. QED
    BY <1>5, <2>1, <2>2 DEF Kill
<1>6. ASSUME NEW s \in Signals, Signal(u, s) PROVE UserTyped'
  <2>1. CASE HandlerInstalled(u)
    <3>1. masked' \in [Users -> SUBSET Signals]
      <4>1. masked[u] \cup {s} \in SUBSET Signals
        BY <1>6
      <4>2. masked' = [masked EXCEPT ![u] = masked[u] \cup {s}]
        BY <1>6, <2>1 DEF Signal
      <4>. QED
        BY <4>1, <4>2
    <3>2. i' \in [Users -> MapKeys] /\ value' \in [Users -> Wild] /\ shown' \in [Users -> Nat]
      BY <1>6, <2>1, ForgetTyped DEF Signal
    <3>3. /\ upc' = [upc EXCEPT ![u] = "tc_cleanup"]
          /\ UNCHANGED <<err, reset, packet_counter_map, pinned, qdisc, filters>>
      BY <1>6, <2>1 DEF Signal
    <3>. QED
      BY <3>1, <3>2, <3>3
  <2>2. CASE ~HandlerInstalled(u)
    <3>1. End(u, "signalled") /\ "signalled" \in Gone
      BY <1>6, <2>2 DEF Signal, Gone
    <3>2. /\ masked' \in [Users -> SUBSET Signals] /\ value' \in [Users -> Wild]
          /\ i' \in [Users -> MapKeys] /\ shown' \in [Users -> Nat]
          /\ upc' = [upc EXCEPT ![u] = "signalled"]
      BY <3>1, EndTyped
    <3>. QED
      BY <1>6, <3>1, <3>2 DEF Signal
  <2>. QED
    BY <2>1, <2>2
<1>. QED
  BY <1>1, <1>2, <1>3, <1>4, <1>5, <1>6

\* Only the cleanup touches the map, and it only lowers a counter.
LEMMA UserCounts ==
  ASSUME IInv, NEW u \in Users,
         \/ Start(u) \/ main(u) \/ sig_handler(u) \/ Kill(u)
         \/ \E s \in Signals : Signal(u, s)
  PROVE  UNCHANGED tcvars /\ NeverOvercounts'
<1>1. UNCHANGED tcvars
  BY DEF Start, main, HookCreate, bump_memlock_rlimit, InstallHandlers, ProgLoad, Attach,
     print_counter_open, print_counter, sig_handler, tc_cleanup, map_cleanup_open,
     map_cleanup, Kill, Signal, OnlyUser
<1>2. CASE UNCHANGED packet_counter_map
  BY <1>1, <1>2 DEF IInv, NeverOvercounts, tcvars
<1>3. CASE map_cleanup(u)
  <2>1. /\ i[u] \in MapKeys /\ packet_counter_map \in [MapKeys -> 0 .. CounterMod - 1]
        /\ hits \in [MapKeys -> Nat]
    BY DEF IInv, TypeOK
  <2>. QED
    BY <1>1, <1>3, <2>1 DEF map_cleanup, IInv, NeverOvercounts, tcvars
<1>4. UNCHANGED packet_counter_map \/ map_cleanup(u)
  BY DEF Start, main, HookCreate, bump_memlock_rlimit, InstallHandlers, ProgLoad, Attach,
     print_counter_open, print_counter, sig_handler, tc_cleanup, map_cleanup_open,
     Kill, Signal, OnlyUser
<1>. QED
  BY <1>1, <1>2, <1>3, <1>4

\* The filters after bpf_tc_attach.
LEMMA AttachedAfter ==
  ASSUME filters \in Seq(Users), NEW u \in Users, filters' = <<u>> \o filters,
         NEW v, Attached(v)'
  PROVE  v = u \/ Attached(v)
<1>1. PICK j \in DOMAIN filters' : v = filters'[j]
  BY DEF Attached
<1>2. DOMAIN filters' = 1 .. Len(filters) + 1
  OBVIOUS
<1>3. CASE j = 1
  BY <1>1, <1>3
<1>4. CASE j # 1
  <2>1. j - 1 \in DOMAIN filters /\ filters'[j] = filters[j - 1]
    BY <1>1, <1>2, <1>4
  <2>. QED
    BY <1>1, <2>1 DEF Attached
<1>. QED
  BY <1>3, <1>4

\* No step leaves a filter behind that should be gone.
LEMMA UserTidy ==
  ASSUME IInv, NEW u \in Users,
         \/ Start(u) \/ main(u) \/ sig_handler(u) \/ Kill(u)
         \/ \E s \in Signals : Signal(u, s)
  PROVE  Tidy'
<1>0. /\ Tidy /\ filters \in Seq(Users) /\ err \in [Users -> {0, -1}]
      /\ upc \in [Users -> {"notrun", "hook", "rlimit", "signals", "load", "attach", "open",
                            "print", "tc_cleanup", "map_cleanup", "zero"} \cup Gone]
  BY DEF IInv, TypeOK
<1>1. ASSUME UNCHANGED <<filters, err>>, NEW l, upc' = [upc EXCEPT ![u] = l],
             \/ Attached(u) => l \in {"open", "print", "tc_cleanup", "failed", "killed"}
             \/ l \in {"map_cleanup", "zero", "exited"}
                  /\ upc[u] \in {"map_cleanup", "zero", "exited"}
      PROVE  Tidy'
  BY <1>0, <1>1 DEF Tidy, Attached
<1>2. CASE Start(u) \/ HookCreate(u) \/ bump_memlock_rlimit(u) \/ InstallHandlers(u)
             \/ ProgLoad(u)
  <2>1. ~Attached(u)
    BY <1>0, <1>2 DEF Tidy, Start, HookCreate, bump_memlock_rlimit, InstallHandlers,
       ProgLoad
  <2>. QED
    BY <1>1, <1>2, <2>1 DEF Start, HookCreate, bump_memlock_rlimit, InstallHandlers,
       ProgLoad, OnlyUser, UGoto
<1>3. CASE Attach(u)
  <2>1. /\ UNCHANGED err
        /\ \E l \in {"open", "failed"} : upc' = [upc EXCEPT ![u] = l]
        /\ filters' = filters \/ filters' = <<u>> \o filters
    BY <1>3 DEF Attach, UGoto
  <2>2. ASSUME NEW v \in Users, Attached(v)' PROVE v = u \/ Attached(v)
    BY <1>0, <2>1, <2>2, AttachedAfter DEF Attached
  <2>. QED
    BY <1>0, <2>1, <2>2 DEF Tidy
<1>4. CASE print_counter_open(u) \/ print_counter(u) \/ Kill(u)
  BY <1>0, <1>1, <1>4 DEF print_counter_open, print_counter, Kill, End, OnlyUser, UGoto, Tidy, Attached
<1>5. CASE tc_cleanup(u)
  <2>1. /\ upc' = [upc EXCEPT ![u] = "map_cleanup"]
        /\ \/ filters' = <<>>
           \/ filters' = filters /\ err' = [err EXCEPT ![u] = -1]
    BY <1>5 DEF tc_cleanup, UGoto
  <2>2. CASE filters' = <<>>
    BY <2>2 DEF Tidy, Attached
  <2>3. CASE filters' = filters /\ err' = [err EXCEPT ![u] = -1]
    BY <1>0, <2>1, <2>3 DEF Tidy, Attached
  <2>. QED
    BY <2>1, <2>2, <2>3
<1>6. CASE map_cleanup_open(u)
  BY <1>1, <1>6 DEF map_cleanup_open, UGoto, OnlyUser
<1>7. CASE map_cleanup(u)
  <2>1. UNCHANGED <<filters, err>> /\ upc[u] = "zero"
    BY <1>7 DEF map_cleanup
  <2>2. upc' = [upc EXCEPT ![u] = "exited"] \/ upc' = upc
    BY <1>7 DEF map_cleanup, End, UGoto
  <2>. QED
    BY <1>0, <1>1, <2>1, <2>2 DEF Tidy, Attached
<1>8. ASSUME NEW s \in Signals, Signal(u, s) PROVE Tidy'
  <2>1. UNCHANGED <<filters, err>>
    BY <1>8 DEF Signal, OnlyUser
  <2>2. CASE HandlerInstalled(u)
    <3>1. upc' = [upc EXCEPT ![u] = "tc_cleanup"]
      BY <1>8, <2>2 DEF Signal, UGoto
    <3>. QED
      BY <1>1, <2>1, <3>1
  <2>3. CASE ~HandlerInstalled(u)
    <3>1. upc' = [upc EXCEPT ![u] = "signalled"] /\ upc[u] \in {"hook", "rlimit", "signals"}
      BY <1>8, <2>3 DEF Signal, End, UGoto, HandlerInstalled
    <3>2. ~Attached(u)
      BY <1>0, <3>1 DEF Tidy
    <3>. QED
      BY <1>1, <2>1, <3>1, <3>2
  <2>. QED
    BY <2>2, <2>3
<1>. QED
  BY <1>2, <1>3, <1>4, <1>5, <1>6, <1>7, <1>8 DEF main, sig_handler

-----------------------------------------------------------------------------
(* The theorems.                                                           *)

\* Every step keeps the invariant.
LEMMA NextIInv == IInv /\ [Next]_vars => IInv'
<1>. SUFFICES ASSUME IInv, [Next]_vars PROVE IInv'
  OBVIOUS
<1>1. CASE UNCHANGED vars
  <2>1. TypeOK'
    BY <1>1 DEF IInv, vars, tcvars, uservars, TypeOK
  <2>2. (\A c \in CPUs : Good(pc'[c], ctx'[c], hits')) /\ NeverOvercounts' /\ Tidy'
    BY <1>1 DEF IInv, vars, tcvars, uservars, NeverOvercounts, Tidy, Attached
  <2>. QED
    BY <2>1, <2>2 DEF IInv
<1>2. ASSUME NEW c \in CPUs, (\E f \in Frames : Receive(c, f)) \/ parse_pkt(c)
      PROVE  IInv'
  BY <1>2, ReceiveKeeps, ParseL3Keeps, ParseL4Keeps, LoadKeeps, StoreKeeps, ReturnKeeps
  DEF parse_pkt
<1>3. ASSUME NEW u \in Users,
             \/ Start(u) \/ main(u) \/ sig_handler(u) \/ Kill(u)
             \/ \E s \in Signals : Signal(u, s)
      PROVE  IInv'
  <2>1. UserTyped'
    BY <1>3, UserTypes, MainTyped, HandlerTyped DEF main, sig_handler
  <2>2. UNCHANGED tcvars /\ NeverOvercounts' /\ Tidy'
    BY <1>3, UserCounts, UserTidy
  <2>. QED
    BY <2>1, <2>2, UserKeeps
<1>. QED
  BY <1>1, <1>2, <1>3 DEF Next

\* Every variable of the classifier and of 05_user has its type; rx_packets
\* stays in its 32 bits.
THEOREM TypeCorrect == Spec => []TypeOK
<1>1. IInv => TypeOK
  BY DEF IInv
<1>. QED
  BY <1>1, InitIInv, NextIInv, PTL DEF Spec

\* A frame is counted once under each key it belongs to and under no other,
\* through any chain of parse_pkt filters.
THEOREM CountedOnce == Spec => []CountedOncePerKey
<1>1. IInv => CountedOncePerKey
  BY DEF IInv, Good, Position, Due, CountedOncePerKey
<1>. QED
  BY <1>1, InitIInv, NextIInv, PTL DEF Spec

\* CPUs that share a counter may lose increments of rx_packets, and never
\* make one up.
THEOREM NoOvercount == Spec => []NeverOvercounts
<1>1. IInv => NeverOvercounts
  BY DEF IInv
<1>. QED
  BY <1>1, InitIInv, NextIInv, PTL DEF Spec

\* An instance of 05_user that a signal ended has no filter on the hook,
\* unless bpf_tc_hook_destroy failed.
THEOREM NoFilterLeft == Spec => []LeavesNoFilter
<1>1. IInv => LeavesNoFilter
  BY DEF IInv, Tidy, Attached, LeavesNoFilter
<1>. QED
  BY <1>1, InitIInv, NextIInv, PTL DEF Spec

-----------------------------------------------------------------------------
(* One CPU.  Then nothing comes between the load and the store of a        *)
(* counter but map_cleanup, and the count is exact until that has run.     *)

Fresh ==
  ~reset =>
    /\ \A k \in MapKeys : packet_counter_map[k] = hits[k] % CounterMod
    /\ \A c \in CPUs : pc[c] = "store" => ctx[c].reg = packet_counter_map[ctx[c].key]

\* Nothing is counted yet.
LEMMA InitFresh == Init => Fresh
<1>1. 0 % CounterMod = 0
  BY TcAssumption, Z3
<1>. QED
  BY <1>1 DEF Init, Fresh, Zeroes

\* 05_user touches a counter only to zero it.
LEMMA UserFresh ==
  ASSUME Fresh, UNCHANGED tcvars, reset' \/ UNCHANGED <<packet_counter_map, reset>>
  PROVE  Fresh'
BY DEF Fresh, tcvars

\* 05_user writes to the shared counter only to zero it.
LEMMA UserLeavesMap ==
  ASSUME NEW u \in Users,
         \/ Start(u) \/ main(u) \/ sig_handler(u) \/ Kill(u)
         \/ \E s \in Signals : Signal(u, s)
  PROVE  UNCHANGED tcvars /\ (reset' \/ UNCHANGED <<packet_counter_map, reset>>)
<1>1. CASE map_cleanup(u)
  BY <1>1 DEF map_cleanup
<1>2. CASE main(u)
  BY <1>2 DEF main, HookCreate, bump_memlock_rlimit, InstallHandlers, ProgLoad, Attach,
     print_counter_open, print_counter, OnlyUser
<1>3. CASE tc_cleanup(u) \/ map_cleanup_open(u)
  BY <1>3 DEF tc_cleanup, map_cleanup_open, OnlyUser
<1>4. CASE Start(u) \/ Kill(u) \/ \E s \in Signals : Signal(u, s)
  BY <1>4 DEF Start, Kill, Signal, OnlyUser
<1>. QED
  BY <1>1, <1>2, <1>3, <1>4 DEF sig_handler

\* A step of the only CPU that goes elsewhere than to the store.
LEMMA ContinueFresh ==
  ASSUME NEW c, CPUs = {c}, IInv, Fresh, NEW x, NEW l, l # "store", Continue(c, x, l)
  PROVE  Fresh'
<1>1. pc' = [pc EXCEPT ![c] = l] /\ pc \in [CPUs -> Locations]
  BY DEF Continue, IInv, TypeOK, Locations
<1>2. \A d \in CPUs : pc'[d] # "store"
  BY <1>1
<1>3. UNCHANGED <<packet_counter_map, hits, reset>>
  BY DEF Continue, uservars
<1>. QED
  BY <1>2, <1>3 DEF Fresh

\* Between the load and the store the counter is what was loaded.
LEMMA LoadFresh ==
  ASSUME NEW c, CPUs = {c}, IInv, Fresh, Load(c)
  PROVE  Fresh'
<1>1. ctx[c] \in Locals /\ ctx \in [CPUs -> Locals]
  BY DEF IInv, TypeOK
<1>. DEFINE n == packet_counter_map[ctx[c].key]
            y == [ctx[c] EXCEPT !.reg = n]
<1>2. y.reg = n /\ y.key = ctx[c].key
  BY <1>1 DEF Locals
<1>. HIDE DEF y
<1>3. ctx' = [ctx EXCEPT ![c] = y] /\ UNCHANGED <<packet_counter_map, hits, reset>>
  BY DEF Load, Continue, uservars, y
<1>4. ctx'[c] = y
  BY <1>1, <1>3
<1>. QED
  BY <1>2, <1>3, <1>4 DEF Fresh

\* The store adds one to what the counter still is.
LEMMA StoreFresh ==
  ASSUME NEW c, CPUs = {c}, IInv, Fresh, Store(c)
  PROVE  Fresh'
<1>. DEFINE x == ctx[c]
            k == x.key
            n == (x.reg + 1) % CounterMod
<1>1. /\ pc[c] = "store" /\ x \in Locals /\ Position("store", x) /\ k \in MapKeys
      /\ packet_counter_map \in [MapKeys -> 0 .. CounterMod - 1]
      /\ hits \in [MapKeys -> Nat] /\ pc \in [CPUs -> Locations]
  BY DEF Store, IInv, Good, Locals, TypeOK, Locations
<1>2. /\ packet_counter_map' = [packet_counter_map EXCEPT ![k] = n]
      /\ hits' = [hits EXCEPT ![k] = hits[k] + 1]
      /\ pc' = [pc EXCEPT ![c] = x.next]
      /\ UNCHANGED reset
  BY DEF Store, uservars
<1>3. \A d \in CPUs : pc'[d] # "store"
  <2>1. x.next \in {"l4", "done"}
    BY <1>1 DEF Position
  <2>. QED
    BY <1>1, <1>2, <2>1
<1>4. ASSUME ~reset PROVE n = (hits[k] + 1) % CounterMod
  <2>1. x.reg = packet_counter_map[k] /\ packet_counter_map[k] = hits[k] % CounterMod
    BY <1>1, <1>4 DEF Fresh
  <2>2. hits[k] \in Nat /\ CounterMod \in Nat /\ CounterMod > 0
    BY <1>1, TcAssumption
  <2>. QED
    BY <2>1, <2>2, WrapsOnce
<1>. HIDE DEF n, k, x
<1>5. ASSUME ~reset', NEW j \in MapKeys
      PROVE  packet_counter_map'[j] = hits'[j] % CounterMod
  <2>1. CASE j = k
    BY <1>1, <1>2, <1>4, <1>5, <2>1
  <2>2. CASE j # k
    <3>1. packet_counter_map'[j] = packet_counter_map[j] /\ hits'[j] = hits[j]
      BY <1>1, <1>2, <2>2
    <3>. QED
      BY <1>2, <1>5, <3>1 DEF Fresh
  <2>. QED
    BY <2>1, <2>2
<1>. QED
  BY <1>3, <1>5 DEF Fresh

\* With one CPU every step keeps what it has loaded fresh.
LEMMA NextFresh ==
  ASSUME NEW only, CPUs = {only}, IInv, Fresh, [Next]_vars
  PROVE  Fresh'
<1>1. CASE UNCHANGED vars
  BY <1>1 DEF Fresh, vars, tcvars, uservars
<1>2. ASSUME NEW f \in Frames, Receive(only, f) PROVE Fresh'
  <2>1. pc' = [pc EXCEPT ![only] = "l3"] /\ pc \in [CPUs -> Locations]
        /\ UNCHANGED <<packet_counter_map, hits, reset>>
    BY <1>2 DEF Receive, IInv, TypeOK, Locations, uservars
  <2>2. \A d \in CPUs : pc'[d] # "store"
    BY <2>1
  <2>. QED
    BY <2>1, <2>2 DEF Fresh
<1>3. CASE ParseL3(only) \/ ParseL4(only) \/ Return(only)
  <2>1. \E x : \E l \in {"load", "done", "l3", "idle"} : Continue(only, x, l)
    BY <1>3 DEF ParseL3, ParseL4, Return, Verdict, Bump
  <2>. QED
    BY <2>1, ContinueFresh
<1>4. CASE Load(only) \/ Store(only)
  BY <1>4, LoadFresh, StoreFresh
<1>5. ASSUME NEW u \in Users,
             \/ Start(u) \/ main(u) \/ sig_handler(u) \/ Kill(u)
             \/ \E s \in Signals : Signal(u, s)
      PROVE  Fresh'
  BY <1>5, UserLeavesMap, UserFresh
<1>. QED
  BY <1>1, <1>2, <1>3, <1>4, <1>5 DEF Next, parse_pkt

\* On a machine with one CPU the shared counter misses no packet, over any
\* number of wraps, filters and instances, until map_cleanup zeroes it.  With a
\* second CPU the increment of 05_kern.c is not enough.
THEOREM OneCPUCountsAll ==
  ASSUME NEW only, CPUs = {only}
  PROVE  Spec => []CountsEveryPacket
<1>1. Fresh => CountsEveryPacket
  BY DEF Fresh, CountsEveryPacket
<1>2. IInv /\ Fresh /\ [Next]_vars => Fresh'
  BY NextFresh
<1>. QED
  BY <1>1, <1>2, InitIInv, NextIInv, InitFresh, PTL DEF Spec

=============================================================================
