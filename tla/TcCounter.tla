----------------------------- MODULE TcCounter -----------------------------
(***************************************************************************)
(* The TC packet counter (05-tc-hook): parse_pkt, the classifier that      *)
(* 05_kern.c attaches to the ingress hook of an interface, and 05_user.c,  *)
(* the program that creates the hook, loads and attaches the classifier,   *)
(* prints packet_counter_map and cleans up on SIGINT or SIGTERM.           *)
(*                                                                         *)
(* packet_counter_map is a BPF_MAP_TYPE_ARRAY pinned by name: one slot for *)
(* all CPUs, shared by every instance of the program, kept until someone   *)
(* unlinks the pin.  `rx_packets = rx_packets + 1' on it is two steps.     *)
(*                                                                         *)
(* Several instances of 05_user may run one after the other or at once     *)
(* (Users); a filter stays attached when the process that attached it is   *)
(* gone.                                                                   *)
(***************************************************************************)
EXTENDS Parsing, FiniteSets

CONSTANTS
  CPUs,        \* the CPUs that deliver frames of the interface
  Users,       \* the instances of 05_user that are ever started
  Frames,      \* the frames that may arrive: len of the linear data, EtherType
               \* and IPv4 protocol (whatever the byte there holds)
  CounterMod,  \* the range of __u32 rx_packets, 2^32 in the code
  MaxFrames    \* bound: frames that arrive in a behaviour

TcFrame == [len : Nat, h_proto : __be16, protocol : Nat]

ASSUME TcAssumption ==
  /\ Frames \subseteq TcFrame
  /\ CounterMod \in Nat \ {0}
  /\ MaxFrames \in Nat

IP_PKT   == 0
ICMP_PKT == 1
UDP_PKT  == 2
TCP_PKT  == 3

max_entries == 4
MapKeys     == 0 .. max_entries - 1

Signals == {"SIGINT", "SIGTERM"}

VARIABLES
  pc,                  \* where the classifier is on each CPU
  ctx,                 \* its frame, local variables and the filters left to run
  packet_counter_map,  \* rx_packets of each key
  pinned,              \* the map exists, pinned under its name
  qdisc,               \* the interface has a clsact qdisc
  filters,             \* the ingress filters, first to run first
  upc,                 \* where each instance of 05_user is
  masked,              \* the signals blocked because their handler is running
  err,                 \* `err' of the instance's last tc_cleanup
  value,               \* where its uninitialised `struct datarec *value' points
  i,                   \* its loop variable
  shown,               \* the number it printed last
  arrived,             \* frames delivered to the filters so far
  hits,                \* history: increments made under each key
  reset                \* history: some map_cleanup has zeroed an entry

tcvars   == <<pc, ctx, arrived, hits>>
uservars == <<upc, masked, err, value, i, shown, reset>>
vars == <<tcvars, packet_counter_map, pinned, qdisc, filters, uservars>>

Zeroes == [k \in MapKeys |-> 0]

Enter(f, chain) ==
  [frame |-> f, chain |-> chain, key |-> IP_PKT, reg |-> 0, next |-> "done",
   bumped |-> {}, verdict |-> "TC_ACT_OK"]

NoFrame == [len |-> 0, h_proto |-> 0, protocol |-> 0]

Init ==
  /\ pc = [c \in CPUs |-> "idle"]
  /\ ctx = [c \in CPUs |-> Enter(NoFrame, <<>>)]
  /\ packet_counter_map = Zeroes
  /\ pinned = FALSE
  /\ qdisc \in BOOLEAN              \* another tool may have created it
  /\ filters = <<>>
  /\ upc = [u \in Users |-> "notrun"]
  /\ masked = [u \in Users |-> {}]
  /\ err = [u \in Users |-> 0]
  /\ value = [u \in Users |-> "fault"]
  /\ i = [u \in Users |-> 0]
  /\ shown = [u \in Users |-> 0]
  /\ arrived = 0
  /\ hits = Zeroes
  /\ reset = FALSE

-----------------------------------------------------------------------------
(* The classifier.                                                         *)

Continue(c, x, l) ==
  /\ ctx' = [ctx EXCEPT ![c] = x]
  /\ pc' = [pc EXCEPT ![c] = l]
  /\ UNCHANGED <<packet_counter_map, pinned, qdisc, filters, uservars, arrived, hits>>

\* return v
Verdict(c, x, v) == Continue(c, [x EXCEPT !.verdict = v], "done")

\* Mutant of Bump: a frame that was counted is left to the next filter.
Bump_Unspec(c, x, k, l) ==
  IF k \in MapKeys
  THEN Continue(c, [x EXCEPT !.key = k, !.next = l, !.verdict = "TC_ACT_UNSPEC"], "load")
  ELSE Verdict(c, x, "TC_ACT_SHOT")

\* Count under key k, then go on at l; a missing entry drops the frame.
Bump(c, x, k, l) ==
  IF k \in MapKeys
  THEN Continue(c, [x EXCEPT !.key = k, !.next = l, !.verdict = "TC_ACT_OK"], "load")
  ELSE Verdict(c, x, "TC_ACT_SHOT")

\* A frame meets the filters that are attached when it arrives: the list is
\* read under RCU, and a filter removed meanwhile is still run.
Receive(c, f) ==
  /\ pc[c] = "idle"
  /\ filters # <<>>
  /\ arrived < MaxFrames
  /\ arrived' = arrived + 1
  /\ ctx' = [ctx EXCEPT ![c] = Enter(f, filters)]
  /\ pc' = [pc EXCEPT ![c] = "l3"]
  /\ UNCHANGED <<packet_counter_map, pinned, qdisc, filters, uservars, hits>>

ParseL3(c) ==
  LET x == ctx[c]
      f == x.frame
  IN  /\ pc[c] = "l3"
      /\ \/ f.len = 0 /\ Verdict(c, x, "TC_ACT_OK")
         \/ f.len \in 1 .. ETH_HLEN - 1 /\ Verdict(c, x, "TC_ACT_SHOT")
         \/ /\ f.len >= ETH_HLEN
            /\ bpf_htons(f.h_proto) # ETH_P_IP
            /\ Verdict(c, x, "TC_ACT_UNSPEC")
         \/ /\ f.len >= ETH_HLEN
            /\ bpf_htons(f.h_proto) = ETH_P_IP
            /\ IF f.len < ETH_HLEN + IPHDR_LEN
               THEN Verdict(c, x, "TC_ACT_SHOT")
               ELSE Bump(c, x, IP_PKT, "l4")

\* The key of the transport protocol and the header that must be present.
\* The header is taken to follow 20 bytes of IPv4, whatever ihl says; ICMP is
\* counted without one.
L4Keys ==
  {[protocol |-> IPPROTO_TCP,  key |-> TCP_PKT,  hdr |-> TCPHDR_LEN],
   [protocol |-> IPPROTO_UDP,  key |-> UDP_PKT,  hdr |-> UDPHDR_LEN],
   [protocol |-> IPPROTO_ICMP, key |-> ICMP_PKT, hdr |-> 0]}

ParseL4(c) ==
  LET x == ctx[c]
      f == x.frame
  IN  /\ pc[c] = "l4"
      /\ \/ \E p \in L4Keys :
              /\ f.protocol = p.protocol
              /\ IF f.len < ETH_HLEN + IPHDR_LEN + p.hdr
                 THEN Verdict(c, x, "TC_ACT_SHOT")
                 ELSE Bump(c, x, p.key, "done")
         \/ /\ \A p \in L4Keys : f.protocol # p.protocol
            /\ Verdict(c, x, "TC_ACT_OK")

\* Mutant of Load: the program counts in a register it does not reload.
Load_Stale(c) ==
  /\ pc[c] = "load"
  /\ Continue(c, ctx[c], "store")

\* rec->rx_packets = rec->rx_packets + 1
Load(c) ==
  /\ pc[c] = "load"
  /\ Continue(c, [ctx[c] EXCEPT !.reg = packet_counter_map[ctx[c].key]], "store")

\* Mutants of Store: the counter is bumped twice; a __u32 that does not wrap.
Store_Twice(c) ==
  LET k == ctx[c].key
  IN  /\ pc[c] = "store"
      /\ packet_counter_map' =
           [packet_counter_map EXCEPT ![k] = (ctx[c].reg + 2) % CounterMod]
      /\ hits' = [hits EXCEPT ![k] = @ + 1]
      /\ ctx' = [ctx EXCEPT ![c].bumped = @ \cup {k}]
      /\ pc' = [pc EXCEPT ![c] = ctx[c].next]
      /\ UNCHANGED <<pinned, qdisc, filters, uservars, arrived>>
Store_NoWrap(c) ==
  LET k == ctx[c].key
  IN  /\ pc[c] = "store"
      /\ packet_counter_map' = [packet_counter_map EXCEPT ![k] = ctx[c].reg + 1]
      /\ hits' = [hits EXCEPT ![k] = @ + 1]
      /\ ctx' = [ctx EXCEPT ![c].bumped = @ \cup {k}]
      /\ pc' = [pc EXCEPT ![c] = ctx[c].next]
      /\ UNCHANGED <<pinned, qdisc, filters, uservars, arrived>>

Store(c) ==
  LET k == ctx[c].key
  IN  /\ pc[c] = "store"
      /\ packet_counter_map' =
           [packet_counter_map EXCEPT ![k] = (ctx[c].reg + 1) % CounterMod]
      /\ hits' = [hits EXCEPT ![k] = @ + 1]
      /\ ctx' = [ctx EXCEPT ![c].bumped = @ \cup {k}]
      /\ pc' = [pc EXCEPT ![c] = ctx[c].next]
      /\ UNCHANGED <<pinned, qdisc, filters, uservars, arrived>>

\* The kernel asks the next filter when this one returned TC_ACT_UNSPEC, and
\* acts on the verdict otherwise.
Return(c) ==
  LET x == ctx[c]
  IN  /\ pc[c] = "done"
      /\ IF x.verdict = "TC_ACT_UNSPEC" /\ Len(x.chain) > 1
         THEN Continue(c, [x EXCEPT !.chain = Tail(@)], "l3")
         ELSE Continue(c, Enter(NoFrame, <<>>), "idle")

parse_pkt(c) == ParseL3(c) \/ ParseL4(c) \/ Load(c) \/ Store(c) \/ Return(c)

-----------------------------------------------------------------------------
(* 05_user.                                                                *)

\* exit(1) from the handler, return 1 from main, an unhandled signal, SIGKILL.
Gone       == {"exited", "failed", "signalled", "killed"}
Running(u) == upc[u] \notin {"notrun"} \cup Gone

UGoto(u, l) == upc' = [upc EXCEPT ![u] = l]

\* The locals of a function that never resumes.
Forget(u) ==
  /\ value' = [value EXCEPT ![u] = "fault"]
  /\ i' = [i EXCEPT ![u] = 0]
  /\ shown' = [shown EXCEPT ![u] = 0]

\* The process is gone, with its memory.
End(u, how) ==
  /\ UGoto(u, how)
  /\ masked' = [masked EXCEPT ![u] = {}]
  /\ Forget(u)

\* The step changes nothing but the instance's own state.
OnlyUser ==
  UNCHANGED <<tcvars, packet_counter_map, pinned, qdisc, filters>>

Start(u) ==
  /\ upc[u] = "notrun"
  /\ UGoto(u, "hook")
  /\ UNCHANGED <<masked, err, value, i, shown, reset>>
  /\ OnlyUser

\* bpf_tc_hook_create: a qdisc that exists already (-EEXIST) is fine.  As in
\* the requests below, an error may also mean that the answer was lost and the
\* kernel did what it was asked.
HookCreate(u) ==
  /\ upc[u] = "hook"
  /\ \/ qdisc' = TRUE /\ UGoto(u, "rlimit")
     \/ qdisc' \in {qdisc, TRUE} /\ UGoto(u, "failed")
  /\ UNCHANGED <<tcvars, packet_counter_map, pinned, filters,
                 masked, err, value, i, shown, reset>>

bump_memlock_rlimit(u) ==
  /\ upc[u] = "rlimit"
  /\ UGoto(u, "signals") \/ UGoto(u, "failed")
  /\ UNCHANGED <<masked, err, value, i, shown, reset>>
  /\ OnlyUser

InstallHandlers(u) ==
  /\ upc[u] = "signals"
  /\ UGoto(u, "load")
  /\ UNCHANGED <<masked, err, value, i, shown, reset>>
  /\ OnlyUser

\* bpf_prog_load: the map is created and pinned, or the pinned one is reused;
\* when it fails, what it pinned is unpinned again (see MapPinning).  When it
\* succeeds and the program is not found in the object, main returns and the
\* pin stays.
ProgLoad(u) ==
  /\ upc[u] = "load"
  /\ \/ pinned' = TRUE /\ UGoto(u, "attach")
     \/ pinned' \in {pinned, TRUE} /\ UGoto(u, "failed")
  /\ UNCHANGED <<tcvars, packet_counter_map, qdisc, filters,
                 masked, err, value, i, shown, reset>>

\* bpf_tc_attach without handle or priority: the kernel picks a priority
\* ahead of the filters that are there.
Attach(u) ==
  /\ upc[u] = "attach"
  /\ \/ qdisc /\ filters' = <<u>> \o filters /\ (UGoto(u, "open") \/ UGoto(u, "failed"))
     \/ UNCHANGED filters /\ UGoto(u, "failed")
  /\ UNCHANGED <<tcvars, packet_counter_map, pinned, qdisc,
                 masked, err, value, i, shown, reset>>

\* Where an uninitialised pointer points: to memory the kernel cannot write,
\* or to memory whose next four bytes are zero, or are not.
Wild == {"fault", "clean", "dirty"}

\* open_bpf_map_file, and the pointer the lookups are given: with no map to
\* open (fd -1) every lookup fails, as it does on a pointer that faults.
OpenMap(u) ==
  \E w \in (IF pinned THEN Wild ELSE {"fault"}) : value' = [value EXCEPT ![u] = w]

print_counter_open(u) ==
  /\ upc[u] = "open"
  /\ UGoto(u, "print")
  /\ OpenMap(u)
  /\ i' = [i EXCEPT ![u] = 0]
  /\ UNCHANGED <<masked, err, shown, reset>>
  /\ OnlyUser

\* One turn of the loop.  The kernel fills in four bytes, and the program
\* prints the eight bytes of its own struct datarec.
print_counter(u) ==
  /\ upc[u] = "print"
  /\ i' = [i EXCEPT ![u] = (@ + 1) % max_entries]
  /\ shown' = [shown EXCEPT ![u] =
                 CASE value[u] = "fault" -> @
                   [] value[u] = "clean" -> packet_counter_map[i[u]]
                   [] value[u] = "dirty" -> packet_counter_map[i[u]] + CounterMod]
  /\ UNCHANGED <<upc, masked, err, value, reset>>
  /\ OnlyUser

\* Mutant of HandlerInstalled: signal() is called after bpf_tc_attach.
HandlerInstalled_Late(u) ==
  Running(u) /\ upc[u] \notin {"hook", "rlimit", "signals", "load", "attach", "open"}

HandlerInstalled(u) == Running(u) /\ upc[u] \notin {"hook", "rlimit", "signals"}

\* A signal interrupts the program, and the handler of the other signal too;
\* what it interrupts does not go on, because the handler exits.
Signal(u, s) ==
  /\ Running(u)
  /\ s \notin masked[u]
  /\ IF HandlerInstalled(u)
     THEN /\ UGoto(u, "tc_cleanup")
          /\ masked' = [masked EXCEPT ![u] = @ \cup {s}]
          /\ Forget(u)
     ELSE End(u, "signalled")
  /\ UNCHANGED <<err, reset>>
  /\ OnlyUser

\* bpf_tc_hook_destroy of the ingress hook flushes every filter of the hook
\* and leaves the qdisc; the program goes on when it fails.
tc_cleanup(u) ==
  /\ upc[u] = "tc_cleanup"
  /\ \/ qdisc /\ filters' = <<>> /\ err' = [err EXCEPT ![u] = 0]
     \/ filters' \in {filters, <<>>} /\ err' = [err EXCEPT ![u] = -1]
  /\ UGoto(u, "map_cleanup")
  /\ UNCHANGED <<tcvars, packet_counter_map, pinned, qdisc,
                 masked, value, i, shown, reset>>

map_cleanup_open(u) ==
  /\ upc[u] = "map_cleanup"
  /\ UGoto(u, "zero")
  /\ OpenMap(u)
  /\ i' = [i EXCEPT ![u] = 0]
  /\ UNCHANGED <<masked, err, shown, reset>>
  /\ OnlyUser

\* Mutant of map_cleanup: the loop starts over when an entry cannot be read.
map_cleanup_Retry(u) ==
  /\ upc[u] = "zero"
  /\ IF value[u] # "fault"
     THEN /\ packet_counter_map' = [packet_counter_map EXCEPT ![i[u]] = 0]
          /\ reset' = TRUE
          /\ IF i[u] = max_entries - 1
             THEN End(u, "exited")
             ELSE i' = [i EXCEPT ![u] = @ + 1] /\ UNCHANGED <<upc, masked, value, shown>>
     ELSE UNCHANGED <<packet_counter_map, reset, upc, masked, value, i, shown>>
  /\ UNCHANGED <<tcvars, pinned, qdisc, filters, err>>

\* One turn of the loop; exit(1) follows the last one.
map_cleanup(u) ==
  /\ upc[u] = "zero"
  /\ IF value[u] # "fault"
     THEN /\ packet_counter_map' = [packet_counter_map EXCEPT ![i[u]] = 0]
          /\ reset' = TRUE
     ELSE UNCHANGED <<packet_counter_map, reset>>
  /\ IF i[u] = max_entries - 1
     THEN End(u, "exited")
     ELSE i' = [i EXCEPT ![u] = @ + 1] /\ UNCHANGED <<upc, masked, value, shown>>
  /\ UNCHANGED <<tcvars, pinned, qdisc, filters, err>>

\* SIGKILL, or a crash.
Kill(u) ==
  /\ Running(u)
  /\ End(u, "killed")
  /\ UNCHANGED <<err, reset>>
  /\ OnlyUser

main(u) ==
  \/ HookCreate(u) \/ bump_memlock_rlimit(u) \/ InstallHandlers(u)
  \/ ProgLoad(u) \/ Attach(u) \/ print_counter_open(u) \/ print_counter(u)

sig_handler(u) == tc_cleanup(u) \/ map_cleanup_open(u) \/ map_cleanup(u)

Next ==
  \/ \E c \in CPUs : (\E f \in Frames : Receive(c, f)) \/ parse_pkt(c)
  \/ \E u \in Users :
       \/ Start(u) \/ main(u) \/ sig_handler(u) \/ Kill(u)
       \/ \E s \in Signals : Signal(u, s)

\* The kernel runs a classifier to its verdict, and a process that is ready
\* gets the processor.  Nothing makes frames arrive, processes start or
\* signals come.
Spec ==
  /\ Init /\ [][Next]_vars
  /\ \A c \in CPUs : WF_vars(parse_pkt(c))
  /\ \A u \in Users : WF_vars(main(u)) /\ WF_vars(sig_handler(u))

-----------------------------------------------------------------------------
(* Properties.                                                             *)

Locals ==
  [frame   : Frames \cup {NoFrame},
   chain   : Seq(Users),
   key     : MapKeys,
   reg     : Nat,
   next    : {"l4", "done"},
   bumped  : SUBSET MapKeys,
   verdict : {"TC_ACT_OK", "TC_ACT_SHOT", "TC_ACT_UNSPEC"}]

\* Every variable has its type; the counters fit their 32 bits.
TypeOK ==
  /\ pc \in [CPUs -> {"idle", "l3", "l4", "load", "store", "done"}]
  /\ ctx \in [CPUs -> Locals]
  /\ packet_counter_map \in [MapKeys -> 0 .. CounterMod - 1]
  /\ pinned \in BOOLEAN /\ qdisc \in BOOLEAN /\ reset \in BOOLEAN
  /\ filters \in Seq(Users)
  /\ upc \in [Users -> {"notrun", "hook", "rlimit", "signals", "load", "attach", "open",
                        "print", "tc_cleanup", "map_cleanup", "zero"} \cup Gone]
  /\ masked \in [Users -> SUBSET Signals]
  /\ err \in [Users -> {0, -1}]
  /\ value \in [Users -> Wild]
  /\ i \in [Users -> MapKeys]
  /\ shown \in [Users -> Nat]
  /\ arrived \in Nat
  /\ hits \in [MapKeys -> Nat]

\* What a frame should be counted as, said of the frame as a whole.
CountsAs(f, k) ==
  /\ f.len >= ETH_HLEN + IPHDR_LEN
  /\ f.h_proto = bpf_htons(ETH_P_IP)
  /\ \/ k = IP_PKT
     \/ k = ICMP_PKT /\ f.protocol = IPPROTO_ICMP
     \/ k = UDP_PKT /\ f.protocol = IPPROTO_UDP
                    /\ f.len >= ETH_HLEN + IPHDR_LEN + UDPHDR_LEN
     \/ k = TCP_PKT /\ f.protocol = IPPROTO_TCP
                    /\ f.len >= ETH_HLEN + IPHDR_LEN + TCPHDR_LEN

\* The filters count a frame under exactly the keys it belongs to and under
\* none of them twice, however many instances have attached a filter: a
\* filter that counts keeps the next one from seeing the frame.
CountedOncePerKey ==
  \A c \in CPUs :
    /\ pc[c] \in {"load", "store"} => ctx[c].key \notin ctx[c].bumped
    /\ pc[c] = "done" => ctx[c].bumped = {k \in MapKeys : CountsAs(ctx[c].frame, k)}

\* The shared counter never claims more than the increments that were made,
\* whatever the CPUs do to it at once and whenever it is zeroed.
NeverOvercounts == \A k \in MapKeys : packet_counter_map[k] <= hits[k]

\* Between frames, and as long as nobody has zeroed the map, each counter is
\* the number of increments, modulo the width of rx_packets: "This program
\* parses packets and counts the number of IPv4, ICMP, UDP and TCP packets".
CountsEveryPacket ==
  ~reset /\ (\A c \in CPUs : pc[c] = "idle")
    => \A k \in MapKeys : packet_counter_map[k] = hits[k] % CounterMod

\* An instance that is interrupted leaves none of its filters attached unless
\* the kernel refused the flush: the handlers are in place before there is
\* anything to clean up, and an interrupted handler starts over.
LeavesNoFilter ==
  \A u \in Users :
    upc[u] \in {"exited", "signalled"} /\ err[u] = 0
      => u \notin {filters[j] : j \in DOMAIN filters}

\* An instance that is interrupted exits, even if the handler is itself
\* interrupted by the other signal or the map cannot be opened.
InterruptedExits ==
  \A u \in Users : upc[u] = "tc_cleanup" ~> upc[u] \in Gone

=============================================================================
