# A TLA+ model of the eBPF tutorial

This directory holds a verification development for the C programs and the
test script of `eBPF/eBPF_tutorial`, and for the parts of libbpf whose state
several actors share: TLA+ modules that model them, configurations with which
TLC checks the modules on small instances, and proofs that TLAPS checks for
every instance. `PROJECT.json` maps every definition to the lines it models.

Paths below are relative to `eBPF/eBPF_tutorial/` unless they start with
`eBPF/`.

## 1. Inventory

### 1.1 The parts of the repository

The tutorial is a series of numbered programs. Each has a kernel side
(`NN_kern.c`, compiled to BPF) and is loaded either with `ip link`/`tc` or by a
user program that links libbpf. The programs meet in three places: the hook of
an interface (XDP or TC), a map in `/sys/fs/bpf`, and the libbpf calls that
change either.

| part | state it keeps | operations | meets |
|---|---|---|---|
| XDP packet counter, `04-packet-counting/04_kern.c` | `xdp_hdr_map`, one `rx_packets` per header type **and CPU** | `xdp_parser_func`: `parse_VLAN`, `parse_ipv4hdr`, `parse_icmphdr`, `parse_udphdr`, `parse_tcphdr`, five lookups and increments, a verdict | the frames of each CPU; a reader that sums the slots |
| TC packet counter, kernel side, `05-tc-hook/05_kern.c` | `packet_counter_map`, one `rx_packets` per protocol **for all CPUs**, pinned by name | `parse_pkt` | the frames of each CPU, the other filters of the hook, `05_user` |
| TC packet counter, user side, `05-tc-hook/05_user.c` | the hook, its signal handlers, `value`, `err` | `main` (create hook, raise rlimit, install handlers, load, attach, print for ever), `sig_handler` (`tc_cleanup`, `map_cleanup`, exit) | the qdisc and its filters, the pinned map, signals |
| loaders of pinned maps: `common/common_libbpf.c`, `common/common_user_bpf_xdp.c`, `bpf_object__load` of `eBPF/libbpf/src/libbpf.c` | the map's `fd`, `reused`, `pinned`, `map_fd`; the file under the path | open or reuse the pin, create, pin, load the programs, undo | other loaders of the same path |
| XDP hook, `common/common_user_bpf_xdp.c` | the program in each mode of the interface | `xdp_link_attach` with its fallback, `xdp_link_detach` with its check | other processes on the same interface |
| first XDP programs, `01-*`, `02-*`, `03-*`, `06-*` | none | constant verdicts; parse and filter | the hook, the statistics |
| per-action statistics, `common/xdp_stats_kern.h` | per-CPU `rx_packets`, `rx_bytes` per action | `xdp_stats_record_action` | programs that return through it, a reader |
| rewriting helpers, `common/rewrite_helpers.h` | the frame | `vlan_tag_pop`, `vlan_tag_push`, `swap_src_dst_*` | pointers into the frame |
| command line, `common/common_params.c` | `struct config` | `parse_cmdline_args` | the flags `load_bpf_and_xdp_attach` gives to `xdp_link_attach` |
| test environment, `testenv/testenv.sh` | state files, network namespaces, interfaces | setup, teardown, reset, the EXIT trap, commands that use an environment | other invocations of the script |
| ring buffer reader, `eBPF/libbpf/src/ringbuf.c` | `consumer_pos`; shared with the kernel: the data pages and `producer_pos` | `ring_buffer__poll`, `ring_buffer__consume`, `ringbuf_process_ring` | BPF programs that reserve and submit, epoll |
| the rest of libbpf, vendored twice | third-party | only what the programs call is modelled | |
| `istio`, `minikube`, `cilium` | none: manifests, transcripts, slides | | |

### 1.2 What is hard here

- **Concurrency without locks.** Both counters are incremented by an ordinary
  load and store. Program 4 keeps a slot per CPU, program 5 does not.
- **A parser that ignores an error.** `xdp_parser_func` overwrites what
  `parse_VLAN` returned and parses on; every later bounds check has to hold
  without it.
- **Lengths from the wire.** The IPv4 and TCP header lengths and the UDP length
  field steer the cursor.
- **A handler that can be interrupted by the other signal's handler**, at any
  point of the program, the clean-up included.
- **Instances that overlap or were killed.** Every `05_user` adds a filter, all
  of them share one pinned map, and every clean-up flushes the whole hook.
- **Check-then-act on the file system and on the link.** Looking for a pin and
  pinning, reading a program id and removing a program, unloading one mode and
  attaching another are two calls each.
- **Undo.** A failed load takes its pin back by path.
- **Requests whose answer is lost.** An error of a netlink call does not say
  that nothing was done.
- **An uninitialised pointer** that the kernel writes four bytes through and
  the program prints eight bytes from.
- **Memory that moves.** `bpf_xdp_adjust_head` moves the start of the frame, and
  pointers read before do not follow.
- **A script whose every command may fail**, with a trap that has to tidy up
  without knowing how far it came, and state files that nobody locks.
- **A reader that sleeps.** A producer decides whether to wake the reader of the
  ring buffer from a position whose store may not have arrived yet.

`PROJECT.json` lists each of them under `hazards` at the line where it bites,
with the property that would catch it going wrong.

### 1.3 What makes each part correct

- XDP counter: no byte outside the frame is read; between frames every slot is
  the number of frames of its type that its CPU received, with those of another
  EtherType that the program cannot tell from them; the sum over the CPUs
  behaves like one counter; every other ping is dropped; every frame gets a
  verdict.
- TC counter: a frame is counted once under each of its keys, whatever chain of
  filters it meets; a counter never shows more than was counted; an interrupted
  instance exits and leaves none of its filters behind.
- Loaders: those that succeed share the pinned map; a reused map has the
  declared shape; nobody takes another loader's pin away; everybody finishes.
- XDP hook: `UPDATE_IF_NOEXIST` displaces nothing; a forced attach replaces in
  place; an attach that leaves the interface without a program does not report
  success; from the command line, the last mode option decides and only
  `--force` displaces.
- First programs: the filter lets no TCP over IPv4 past, behind any number of
  tags it looks through, and drops besides only what it cannot tell from it.
  Statistics: a record is what was returned, with at most the frame in hand
  between its two fields.
- Rewriting: no byte outside the frame is touched; a call does all of what it
  promises or nothing.
- Test environment: an environment is there whole or not at all, except for what
  failed deletions and kills leave; prefixes are unique; a reset gets past
  whatever was left behind.
- Ring buffer: samples arrive whole, once, in order; a committed record is read.

## 2. Plan

The order is by importance.

1. `Parsing`, `XdpCounter`, `PacketCounter`, `XdpTotals` — program 4 and the
   abstract counter it implements. *Done, proved.*
2. `TcCounter` — program 5, both sides. *Done, proved.*
3. `MapPinning` — the loaders. *Done, proved.*
4. `XdpLink`, `XdpLoader` — the XDP hook, and the way from the command line to
   it. *Done, proved.*
5. `XdpPrograms` — programs 1, 2, 3 and 6 and the statistics. *Done, proved.*
6. `VlanRewrite`, `VlanStack` — the rewriting helpers and the stack of tags they
   implement. *Done, proved.*
7. `TestEnv` — the script. *Done, proved.*
8. `RingBuf`, `RecordQueue` — libbpf's ring buffer reader and the queue it
   implements. *Done, proved.*
9. Left: `TcCounter` composed with `MapPinning`, so that a second instance can
   lose the race for the pin.

## 3. Modules and the code

`MC*` modules only give the constants their values. `*Proofs` modules hold
theorems only. A definition named `X_Something` that a comment calls a mutant
of `X` is `X` with a plausible mistake; no specification uses it.

### `Parsing`

The helpers of `04_kern.c` as operators. A frame is a record of the fields that
the programs read plus its length; a field holds whatever the bytes at that
place are, whether or not the EtherType announced such a header. 16-bit fields
hold what a load yields, in network byte order, and `bpf_htons` swaps the bytes.
A helper returns its value, the cursor, and the end of what it dereferenced, so
that a bounds check that is missing shows.

### `XdpCounter`, `PacketCounter`, `XdpTotals`

`pc[c]` and `ctx[c]` are the location of `xdp_parser_func` on CPU `c` and its
locals. `Receive` delivers a frame; `parse_VLAN`, its loop, the IPv4 and the
transport header are a step each; an increment is two steps, the load and the
store, which other CPUs may come between. `xdp_hdr_map[c][k]` is a slot of the
per-CPU array. `due` is a history variable: what the frames that arrived count
as, said of the frame as a whole by `CountsAs`, not by the parser. `CountsAs` has
two parts: `Belongs`, whose type fields announce the headers that are there, and
`PassesFor`, whose type fields announce something else in front of bytes that
look like them. To bound the model any frame may come first, but only the
`Repeated` ones together with others (`MayArrive`).

`PacketCounter` is the abstract specification: one number per header type, and
a step that adds one to one of them. `XdpTotals` is the reader's view, the sum
of the slots over the CPUs, and the refinement mapping
`INSTANCE PacketCounter WITH ...`; `ImplementsPacketCounter` is the abstract
specification as a property of `XdpCounter`.

### `TcCounter`

`parse_pkt` on every CPU, and any number of instances of `05_user`. `filters` is
the list of ingress filters, each named after the instance that attached it. A
frame takes the list with it when it arrives, as the kernel reads it under RCU,
so a filter can run after it was removed. A verdict other than `TC_ACT_UNSPEC`
ends the chain. `rx_packets` wraps at `CounterMod` (2^32 in the code).

An instance's `upc` follows `main` call by call. A signal enters `sig_handler`
from anywhere once `signal()` was called, from the other signal's handler too,
and kills the process before; the signal being handled is blocked. Every
request to the kernel may fail, with or without having had its effect. `value`
stands for the uninitialised `struct datarec *value`: where it points is chosen
anew by each function that declares one, and is either memory the kernel cannot
write (`bpf_map_lookup_elem` fails) or memory whose other four bytes are zero or
not.

### `MapPinning`

One path, and processes that run one of three loaders: libbpf's
`bpf_object__load` with `LIBBPF_PIN_BY_NAME` (as `05_user` does),
`bpf_prog_load_xattr_maps`, `load_bpf_object_file_reuse_maps`. Each system call
is a step. A loader creates at most one map, so a map is named after its
creator. A process may die anywhere, and the file stays.

### `XdpLink`

The kernel's three slots and processes in `xdp_link_attach` or
`xdp_link_detach`. The kernel's rules (`Verdict`, `SetLink`, `GetXdpId`) are
modelled from the error codes the code distinguishes and from
`eBPF_tutorial/libbpf/src/netlink.c`; they are marked external in the map where
no line of the repository has them. The interface has all three modes. The
history variable `emptied_by` is the process whose request took the last program
off the interface, which the fallback of `xdp_link_attach` does on its way.

### `XdpLoader`

`XdpLink` with what comes before it. `ParseOption` is one round of the
`getopt_long` loop on `cfg[p]`, of which the model has `xdp_flags`, as a set of
bits, and `do_unload`. The program may exit there: at an option it does not know
(`"?"`) or for help (`Exits`), at a device that is not there (`MayFail`), or without
memory for the table of options (`OutOfMemory`). `load_bpf_and_xdp_attach` loads the object (one step,
which may fail; `MapPinning` has its inside) and turns the flags into the
request of `xdp_link_attach`; `DoUnload` does the same for `xdp_link_detach`. No
program of the repository calls `parse_cmdline_args`: the flags such a program
starts from are the constant `Default`, and that `do_unload` leads to a detach is
taken from the name of the field (option `-U`).

### `XdpPrograms`

Interfaces with different programs share the CPUs. Until the statistics a
program touches nothing that is shared, so that `Receive` takes a frame to its
verdict in one step. Program 3 then goes through `xdp_stats_record_action`,
which is four steps: two loads and two stores, each of which a reader may follow.
`parse_VLAN` of program 6 is a recursive function over the rounds of its loop,
and its result is compared with `IsTcp`, which says of the frame as a whole how
many tags announce a further header and fit, that the last type is IPv4 and that
the headers are there. `PassesForTcp` is the same behind another type, which the
filter does not look at. `returned` and `judged` are history variables.

### `VlanRewrite`, `VlanStack`

The buffer of one packet in units of two bytes, with headroom. Pointers are
indices, `data` and `data_end` are those of `ctx`, and `touched` records the units
a step reads or writes. A helper runs in up to three steps (read and copy, adjust the
head, write), and `bpf_xdp_adjust_head` may fail for no reason. `VlanStack` is
the abstract specification: the frame as a value, with tags pushed and popped
atomically or not at all. It promises of a pop that the answer has the VLAN ID in
its low 12 bits (`GivesId`), and is the ID if the tag has no priority. The mapping
shows the frame as it was while a helper is
at work.

### `TestEnv`

A step is one command of the script. `pc[p]`, `NS`, `NUM`, `CLEANUP_FUNC` are the
variables of an invocation; `statefile`, `highest_num`, `current` and `dir` are
the state directory; `netns` and `links` are the kernel's. An error goes to
`cleanup`, the EXIT trap, except in the teardown of a reset, where errexit is
off (the left side of `&&`). `Interrupt` is Ctrl-C, which runs the trap; `Kill`
does not. A prefix is its number. Deletions fail like everything else, of what is
not there always and of what is there at any time; `failed` has the invocations
whose deletions left something. `hurt`, `shared` and `overlapped` are history
variables as well, and say when the properties have an excuse: an environment is
`hurt` from the command that leaves a part of it without the others. An interrupt
while the trap runs is a kill: the trap does not run again.

### `RingBuf`, `RecordQueue`

The ring in units of eight bytes. Producers reserve (under the kernel's lock),
submit or discard, and then look whether the reader waits at their record. The
reader's steps are the loads and stores of `ringbuf_process_ring`; `stored` is
its own view of `consumer_pos`, and `Flush` makes it visible to the others, because
`smp_store_release` does not order a store before later loads. `EpollWait` is
level triggered, as `ring_buffer__add` asks for, and assumes that the locks
epoll takes make the reader's own store visible. The callback reads the units
of its sample when it runs, so that reuse of the space too early shows.
`RecordQueue` is the abstract specification; the mapping reads each record's
status from its header in the ring. There is one ring. `Wake` is a submission
with `flags = 0`: `BPF_RB_NO_WAKEUP` and `BPF_RB_FORCE_WAKEUP`
(`eBPF/libbpf/src/bpf_helper_defs.h:3138-3143`) are not modelled, and with the
first a program takes it on itself to wake the reader.

## 4. Runs

Every configuration says `CHECK_DEADLOCK FALSE`: in all these systems everything
may come to rest, when no more frames, records or commands come and all
processes have ended or sleep.

### 4.1 Passing

| run | instance | what it shows |
|---|---|---|
| `xdp_counting` | 2 CPUs; one frame of 5 type stacks, 9 transport variants, 4 values of `ihl`, at every length where a check changes its mind and its neighbours, or 4 frames of 4 shapes that bump all five keys | reads stay in the frame; IPv4 is only accepted behind a complete Ethernet header although `parse_VLAN`'s error is ignored; between frames each slot is what its CPU received, whatever the other counts meanwhile; the sum over the CPUs implements `PacketCounter` at every step; no slot shows more transport-layer than IPv4 frames; of the echo requests every other one is dropped; every frame gets a verdict |
| `tc_instances` | 1 CPU, 2 instances, 2 frames, counter of range 2 | through two filters, attached and flushed in any order, a frame is counted once per key; with one CPU nothing is lost, over a wrap too; an interrupted instance leaves no filter |
| `tc_sharing` | 2 CPUs, 1 instance, 3 frames, counter of range 3 | a shared counter loses increments and never invents one, zeroed or not; an interrupted instance exits |
| `pin_loaders` | 2 libbpf loaders, 1 of each other kind, one with a map of another shape | those that report the pinned map have it; reused maps fit; only the own pin is removed; everybody finishes |
| `xdp_link` | 3 processes with up to 2, 1 and 1 options, one of them unknown, on an interface with generic, native and offloaded mode | the promises of the XDP hook, from the command line on; whoever empties the interface on the way to an attach and fails says so |
| `xdp_programs` | 2 CPUs, 2 frames, any program; 5 type stacks, IPv6 among them, 3 values of `ihl`, every boundary length | no TCP over IPv4 gets past the filter, and what else it drops passes for it; the statistics are exact between any two stores |
| `vlan_rewrite` | 1 packet of every shape and headroom, up to 3 calls, one id above 16 bits | nothing outside the frame is touched; the helpers implement the stack of tags |
| `test_env` | 2 invocations at a time, 3 in all, 2 environments, errors at every command, deletions included, interrupts and kills | prefixes are unique; environments are whole, except where a deletion failed half-way or the script was stopped there; a reset works |
| `ringbuf` | 2 producers, 3 records of 2 or 4 units, a ring of 8 | order, integrity, positions, and that committed records are read |

### 4.2 Violations: where code and text disagree

Each of these checks one sentence of a comment, a message or the `commands`
file, and TLC finds a behaviour that contradicts it. `PROJECT.json` quotes the
sentence under `findings`.

| run | what the code does |
|---|---|
| `tc_counts_every_packet` | two CPUs at the same counter lose a packet |
| `xdp_link_race` | a program attached meanwhile is removed in place of the expected one |
| `xdp_drops_odd_pings` | an echo request with an odd sequence number is passed, and one with an even number dropped, where the comment says the reverse |

Other disagreements were met while modelling and have no run of their own:

- `04_kern.c:216-218` and `06_kern.c:137-140` say that each helper checks "is the
  header type in the packet correct?", and `06_kern.c:125-127` that what could not
  be parsed is passed up the stack. Both programs overwrite the type that
  `parse_VLAN` returned (`04_kern.c:242`), so that a frame of another EtherType
  whose bytes look like IPv4 is counted, and dropped by program 6 when they look
  like TCP. `PassesFor` and `PassesForTcp` name these frames;
  `CountersExact` and `DropsTcp` allow them beside `Belongs` and `IsTcp`, and no
  others.
- `commands:103` says that program 4 counts the number of ICMP packets. It counts
  echo requests only (`04_kern.c:264`), as `IsEcho` states.
- `commands:121` expects a VLAN frame to increment the counters at 0 and 4, VLAN and
  TCP. The program increments 0, and beside it those of the headers behind the
  tags: 1 for IPv4, and 4 for TCP only, as `Belongs` states.
- `print_counter` (`05_user.c:166`) prints eight bytes of which the lookup fills in
  four; `commands:137` promises the packet counter. `shown` in `TcCounter` has the
  cases.
- `bpf_prog_load_xattr_maps` warns "requested mapname ... not seen"
  (`common_libbpf.c:154`) also when only pinning failed, where the comment (`:150`)
  speaks of a name that doesn't exist. `warned` in `MapPinning` has the case.
- `xdp_link_detach` prints "removed XDP prog" (`common_user_bpf_xdp.c:96`) when it
  was asked for another mode than the program's, and the program stays.
- `-c -z` leaves both `XDP_COPY` and `XDP_ZEROCOPY` set: `common_params.c:134`,
  `:180` and `:184` clear with `&= FLAG` where `&= ~FLAG` is meant. No program
  reads `xsk_bind_flags`.
- `rewrite_helpers.h:19-20` says that `vlan_tag_pop` returns the VLAN ID. It returns
  the whole TCI, priority bits included. A caller can rely on the ID in the low
  12 bits only, and that is what `VlanStack` promises; the run has a tag with
  priority.
- `testenv/README.org:17-18` says that an unnamed setup generates a random name.
  It takes the name in `current` when there is one and `--gen-new` is not given,
  and then fails.
- `testenv.sh` has no lock. Two set-ups at once can take the same number
  (`get_num`), or the exit of one deletes `highest_num` under the other. Of two
  set-ups of one name, the one that fails removes the other's environment. A
  teardown killed halfway makes every later teardown of the environment fail at
  `ip link del`; a reset recovers. `local NUM=$(get_num)` hides a failure of
  `get_num`. `PrefixesUnique` and `EnvironmentsWhole` state what holds beside
  that.
- An application that calls both `ring_buffer__consume` and a sleeping
  `ring_buffer__poll` can miss a wake-up, when the store of `consumer_pos` is
  delayed past the producer's look, or a callback fails under consume.
  `CommittedAreTaken` is about applications that do one of them.
- `testenv.sh:142` warns after a failed teardown that a partial environment "may be
  left". It is left when `ip netns del` fails after `ip link del` worked; when the
  first of them fails, the environment is whole. The undo of a set-up and the first
  half of a reset go on after a deletion that failed and remove the state file
  too, without this warning. `hurt` in `TestEnv` has these cases, and `EnvironmentsWhole` no
  other.
- `tc_cleanup` prints "Destroyed all hooks" after a failed flush as well, with
  the filters in place. `LeavesNoFilter` is therefore about instances whose
  flush succeeded (`err = 0`).
- With an offloaded program beside another one, `bpf_get_link_xdp_id` returns 0
  for a request without a mode, and `xdp_link_detach` reports "no curr XDP
  prog" (`common_user_bpf_xdp.c:77`) and success while two are attached.
  `GetXdpId` has the case, with `"hw"` in `Supported`; no property claims what
  the message says.

### 4.3 Bounds, and why they are enough

- `MaxFrames` bounds the frames of a behaviour. One frame is enough for what is
  said of a frame; two wrap a counter of range two, three one of range three;
  four on two CPUs give every pair of locations at once.
- `Repeated` bounds which frames of `XdpCounter` come together: four that
  bump every key, one behind more tags than are skipped, one of another
  EtherType, an even and an odd ping. What the lengths decide is decided on one
  CPU, and the proofs take any frames on any CPUs.
- `CounterMod` is 2, 3 or 4 where the code has 2^32: only wrapping matters, and
  the proofs take any width.
- `VLAN_MAX_DEPTH` is the code's 2; one stack of types has a tag more.
- Two CPUs: an increment is disturbed by one other CPU or by none.
- Two instances, four loaders, three processes: one who acts, one who gets in
  between, and for the loaders and the link a third who already has what they
  fight over.
- Options: the first process has two, so that the second can undo the first;
  the proofs take command lines of any length. `"A"`, `"S"`, `"N"` and
  `"offload-mode"` are the modes, `"F"` and `"U"` are force and unload, `"d"` stands
  for the options that may fail and `"?"` for one that is not known.
- Calls of a rewriting helper: three, a push and a pop in either order with a
  swap between them.
- Invocations of `testenv.sh`: three, one that leaves something behind, one that
  meets it, and one at the same time as either.
- Ring buffer: records of two and four units in a ring of eight wrap at
  different places and fill it; three records put one behind an unfinished one
  and reuse the space of the first.
- Symmetry is used in safety runs only, over CPUs, instances, processes and
  invocations, which start alike (the requests of `XdpLink` and the command
  lines of `XdpLoader` are chosen in `Init`).

No other bound exists; the proofs of section 5 have none of them.

### 4.4 Fairness

Weak fairness on the steps of a program that is running, and on nothing from
outside. The kernel runs a BPF program to its end, and the verifier has
bounded its loops (`parse_pkt`, `xdp_parser_func`). A process that is ready
gets the processor (`main`, `sig_handler`, `Load`, `Step`). Frames, signals,
process starts and kills have no fairness. `FramesAreReturned`,
`InterruptedExits` and `LoadersFinish` rest on it.

In `RingBuf` the application calls the reader in a loop (`EpollWait`, or
`Consume` when it never polls), the reader's steps and a producer's look at the
reader are code that runs to its end, and a store becomes visible at some time
(`Flush`). Nothing says that a program reserves or commits, or that an
application that polls also consumes. `CommittedAreTaken` rests on it.

## 5. Proofs

All theorems are of the form *the specification implies the property*, for any
value of the constants that satisfies the named assumption in the module:
`Frames` is a set of well-formed frames, `CounterMod` is positive, there are
finitely many CPUs, programs are not called `"none"`, and so on. TLC evaluates
these assumptions in the runs. Every safety property a passing run checks has its
theorem, the refinements included. What is left to TLC is liveness (section 6).

Two of the arguments need an induction: over the rounds of `parse_VLAN`'s loop,
and over sets of CPUs. The provers cannot instantiate the
library's induction rules, which have the property as a parameter. Here the
property is a set instead, `T == {i \in Nat : ...}`, and the induction is `Least`:
a set of numbers that is not empty has a smallest element, which follows from
`NatLessThanWellFounded` and `WFMin` of `WellFoundedInduction`.

**`XdpCounterProofs`.** `CountersExact` speaks of idle CPUs only, and says
nothing in the middle of a frame. The inductive invariant `IInv` therefore
gives for each CPU, by location, what the program has recognised of its frame
(`Position`: the number of tags in front of the cursor, whether an IPv4 header
was accepted) and which of the increments due are still to come (`Ledger`:
counter + owed = due). It mentions one CPU only, so that a step of another CPU
cannot disturb it: that is the argument for the per-CPU map. The number of tags
is unique (`DepthUnique`), which ties the loop to the reference definition.
From it: `TypeCorrect`, `MemorySafe`, `Ipv4AlwaysBehindEthernet`,
`CountsExactly`, `L4NeverAhead`, `DropsExactly`.

`ReaderSeesPacketCounter` is the refinement. The mapping sums over the CPUs with a
fold, which is a choice of a function of partial sums (`Partial`); that there is
one is shown by induction over the size of a set of CPUs (`PartialExists`), and
that is where the CPUs have to be finite. `SumBumped` says that a sum with one
slot more by one is more by one, whichever order the fold takes. The step that
stores a counter is then the step of `PacketCounter` (`StoreCounts`), because the
ledger says that the value in the register is the slot's; all others stutter.

**`TcCounterProofs`.** With a shared map no ledger is possible. What survives is
an inequality: a counter, and the value a CPU has loaded and is about to store
plus one, are never above the exact count. `Position` says what was counted by
location; its key fact is that only a filter that counted nothing returns
`TC_ACT_UNSPEC`. `Tidy` says in which states an instance may still own a
filter. From it: `TypeCorrect`, `CountedOnce`, `NoOvercount`, `NoFilterLeft`.

`OneCPUCountsAll` assumes that there is one CPU, and then `CountsEveryPacket`
holds: `Fresh` says that what the CPU has loaded is what the map still holds, until
`map_cleanup` zeroes it. With a second CPU nothing of the kind is true, as the run
`tc_counts_every_packet` shows.

**`MapPinningProofs`.** `Holds` (what a loader's descriptor is), `Owns` (a loader
that could still undo its pin has it under the path) and `Shares` (what was
taken for the pinned map is the pinned map, while nobody has unlinked). `Owns`
is what makes the undo harmless: the path cannot have changed hands, because
only its owner may unlink it. From it: `LoadersShare`, `ReusedFits`,
`OwnPinOnly`, and `TypeCorrect`.

**`XdpLinkProofs`.** `Exclusive` (a generic and a native program never coexist),
`Offered` (a program only in a mode of the driver) and `Reached` (the fallback
is reached without `UPDATE_IF_NOEXIST` only, and from a mode that has another
opposite). `Offered` is needed for the request without a mode, whose opposite
would otherwise be its own slot. From it: `TypeCorrect`, `NoExistDisplaces`,
`AttachSwapsInPlace`. These three and `TypeOK` are `Core`. `LeftBareIsReported` adds
to it that whoever has emptied the interface has made a request (`Acted`). A
program that goes in leaves the interface with one (`PutIn`), so that only the
unload of the opposite mode can empty it in an attach; the second attempt
then fails with an error that `xdp_link_attach` returns, or refills the hook. A
step of somebody else that leaves it bare either found it so or takes over
(`StaysBare`).

The second half of the module is about `XdpLoader`. `LastWins` says
that after any number of options the mode bits are those of the last mode option
so far (there is never a second bit, or `ModeOf` would be a choice); `Protected`
that `XDP_FLAGS_UPDATE_IF_NOEXIST` is there until `--force`; `Asked` and `Placed`
carry that to the request and to the slot a program is in. Until the call of
`load_bpf_and_xdp_attach` a process has done nothing to the link (`NotCalled`), so
that what is proved of `XdpLink` holds on the way from the command line as well.
From it: `LastModeDecides`, `ForceDisplaces`, `BareReported`.

**`XdpProgramsProofs`.** `StatsExact` is not inductive: a store is exact only if
the value in the register is still that of the slot. `FreshAt` adds that, for
each CPU, and like the ledger of `XdpCounterProofs` it mentions one CPU only
(`OtherCPU`). From it: `StatisticsExact`.

`VerdictsExact` compares the loop of `parse_VLAN` with a definition that has no
loop. `Behind` says where the cursor is after `i` rounds: behind `n` tags that all
announce a further header and fit, and no further one does unless the rounds ran
out. It holds of every round (`WalkBehind`), for any bound of the loop and any
frame, so that the IPv4 header the filter reads is the one `IsTcp` and
`PassesForTcp` speak of; which of the two it is, is the type in front of it,
which the filter does not look at.

**`VlanRewriteProofs`.** `TouchesFrameOnly` is about pointers, and does not say
that the frame survives. The invariant adds that, while a helper runs, the frame
it was called on is still in memory behind the old pointer (`Called`), how far the
head has moved away from it (`Moved`), and that what was copied is what is there
(`Copied`, `Popped`). From it: `TouchesFrameOnlyHolds`, and `VlanRewriteRefines`:
the write at the end of a helper is the one step of `VlanStack`. The lemmas about
frames (`PopFrame`, `PushFrame`, `SwapMacFrame`, `SwapIpFrame`) are about memory
only and say that the cells, read from the new head, are the frame with a tag less
or more, or with its addresses swapped.

**`TestEnvProofs`.** `Knows` gives, for the only invocation at work on an
environment, which of its parts are there at each command; `Sole` that two at
work on one are in `shared`, which excuses them; `WholeUnless` that an environment
on which nobody is in the middle is whole. `Knows` holds of a `hurt` environment
too, where only less is known. `Gone` says what the deletions of an invocation
have removed while none has failed: that a reset reaches `netns add` with
everything gone is the reason it recovers. From it: `EnvironmentsWholeHolds`,
`ResetMeetsNoLeftoversHolds`. Prefixes need a second invariant, `PInv`: as long as
invocations do not overlap, all prefixes are at most `highest_num`, and the one an
invocation holds is no other environment's. From it: `PrefixesUniqueHolds`.

**`RingBufProofs`.** Positions only grow, and a unit of the ring is a position
modulo its size. `UnitsApart` is all that is needed of that: two positions less
than a ring apart are different units. The invariant `RInv` says that records
lie one behind the other (`Laid`); that the reader stands between two records or in
the one in hand (`Reading`), with `consumer_pos` behind it by as much as its
store is delayed; that every record whose space was not given back has its length
in its header and, unless marked as unfinished, itself in all units of its sample
(`Kept`); and that what a program has reserved is unfinished, ahead of the reader and
its own (`Owned`). A reservation then writes outside everything kept, and a commit
inside its own record only. From it: `PositionsOrderedHolds`,
`SamplesIntactHolds`, and `RingBufRefines`, where a step of the reader that passes a
record takes the head of the queue, and `Commit` finishes an entry anywhere in it.

## 6. Only model-checked

- Liveness: `FramesAreReturned`, `InterruptedExits`, `LoadersFinish`,
  `CommittedAreTaken`.

The prover has no rule for fairness, nor for `ENABLED`, on which these rest. The
runs that violate (section 4.2) are of course about instances too.

## 7. Not modelled

- `common/parsing_helpers.h`: no program includes it; 03, 04 and 06 have copies
  of their own, which are modelled.
- Third-party and generated code, which makes up nearly all lines of the
  repository: `vmlinux.h`, `bpf.h` and `bpf_helper_defs.h` are declarations, and
  libbpf's ELF, BTF, relocation, linker and skeleton code turns one file or
  buffer into another without state that others share. A model of it would be a
  transliteration. AF_XDP (`xsk.c`) and perf buffers are used by no program
  here. `PROJECT.json` therefore maps a small share of all lines, and most of
  the lines of the tutorial's own programs.
- Mapping and unmapping of ring buffers (`ring_buffer__new`, `__add`, `__free`),
  and several rings behind one epoll instance.
- Of the command line, names, MAC addresses, help and AF_XDP fields.
- Of the test script, addresses, routes and VLAN interfaces (one step that may
  fail) and what `exec`, `ping`, `tcpdump`, `load` and `stats` run.
- Text: what is printed is modelled where a property is about it.
- `getopt` in `05_user`, `sleep`, and the rlimit's value.
- The kernel: as far as the code depends on it (filter chains, the slots of the
  link, the pinned file, signals).
- Objects with several maps: the loaders treat them one after the other, and
  the model follows one of them.
