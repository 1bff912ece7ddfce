------------------------------ MODULE RingBuf ------------------------------
(***************************************************************************)
(* libbpf's BPF ring buffer reader (ringbuf.c) against BPF programs that   *)
(* reserve, fill and submit or discard records on several CPUs.            *)
(*                                                                         *)
(* The ring is shared memory: `data' has Size units of eight bytes, and    *)
(* positions only ever grow.  A record is a header of one unit, with its   *)
(* length, the BUSY and the DISCARD bit, and its sample.  The kernel's     *)
(* side is modelled from how the reader uses it: reservations take a lock, *)
(* a submission clears BUSY and then looks whether the reader is waiting   *)
(* at that record.  The reader sleeps in epoll_wait, level triggered.      *)
(*                                                                         *)
(* smp_store_release does not order a store before a later load: what the  *)
(* reader has stored in consumer_pos (`stored') reaches the other CPUs     *)
(* later, at the latest when it next waits.                                *)
(***************************************************************************)
EXTENDS Integers, Sequences

CONSTANTS
  Producers,   \* CPUs with a BPF program that writes to the ring
  Size,        \* units in the ring, r->mask + 1
  Lengths,     \* lengths of samples, in bytes
  MaxRecords   \* bound: records in a behaviour

ASSUME RingAssumption ==
  /\ Size \in Nat \ {0}
  /\ Lengths \subseteq Nat \ {0}
  /\ MaxRecords \in Nat

BPF_RINGBUF_HDR_SZ == 8

\* Units a record of len bytes takes, its header included.
roundup_len(len) == (len + BPF_RINGBUF_HDR_SZ + 7) \div 8

VARIABLES
  data,          \* the units: [busy, discard, len] of a header, id of a sample
  producer_pos, consumer_pos,   \* the shared positions
  ready,         \* the ring is on the ready list of the epoll instance
  at, rec,       \* where each producer is, and its record
  pc, cons_pos, prod_pos, got_new_data, len, err,  \* the reader's variables
  sample,        \* the position of the sample handed to sample_cb
  stored,        \* the reader's own view of consumer_pos
  calls,         \* what the application calls, "poll" or "consume" or both
  log,           \* history: position and length of each record reserved
  taken,         \* history: how many the reader has passed
  out            \* history: what sample_cb has been given, as read from data

ring   == <<data, producer_pos, consumer_pos, ready>>
reader == <<pc, cons_pos, prod_pos, got_new_data, len, err, sample, stored>>
vars   == <<ring, at, rec, reader, calls, log, taken, out>>

Blank        == [busy |-> FALSE, discard |-> FALSE, len |-> 0, id |-> 0]
Header(n)    == [busy |-> TRUE, discard |-> FALSE, len |-> n, id |-> 0]
SampleOf(id) == [busy |-> FALSE, discard |-> FALSE, len |-> 0, id |-> id]

\* r->data + (pos & r->mask); the data pages are mapped twice in a row, so
\* that a sample may run over the end.
Unit(pos) == pos % Size

\* The units of the sample of the record at pos.
SampleUnits(pos, n) == {Unit(k) : k \in pos + 1 .. pos + roundup_len(n) - 1}

Init ==
  /\ data = [u \in 0 .. Size - 1 |-> Blank]
  /\ producer_pos = 0 /\ consumer_pos = 0 /\ ready = FALSE
  /\ at = [p \in Producers |-> "idle"]
  /\ rec = [p \in Producers |-> 0]
  /\ pc = "poll" /\ cons_pos = 0 /\ prod_pos = 0 /\ got_new_data = FALSE
  /\ len = 0 /\ err = FALSE /\ sample = 0 /\ stored = 0
  /\ calls \in SUBSET {"poll", "consume"} \ {{}}
  /\ log = <<>> /\ taken = 0 /\ out = <<>>

-----------------------------------------------------------------------------
(* The kernel's side.                                                      *)

\* bpf_ringbuf_reserve: no room means no record.
Reserve(p, n) ==
  LET new == producer_pos + roundup_len(n)
  IN  /\ at[p] = "idle" /\ Len(log) < MaxRecords
      /\ new - consumer_pos < Size
      /\ data' = [data EXCEPT ![Unit(producer_pos)] = Header(n)]
      /\ producer_pos' = new
      /\ log' = Append(log, [pos |-> producer_pos, len |-> n])
      /\ at' = [at EXCEPT ![p] = "reserved"]
      /\ rec' = [rec EXCEPT ![p] = Len(log) + 1]
      /\ UNCHANGED <<consumer_pos, ready, reader, calls, taken, out>>

\* The program has written its sample; bpf_ringbuf_submit or _discard.
Commit(p, discard) ==
  LET r == log[rec[p]]
  IN  /\ at[p] = "reserved"
      /\ data' = [u \in DOMAIN data |->
                    IF u = Unit(r.pos)
                    THEN [Header(r.len) EXCEPT !.busy = FALSE, !.discard = discard]
                    ELSE IF u \in SampleUnits(r.pos, r.len) THEN SampleOf(rec[p])
                    ELSE data[u]]
      /\ at' = [at EXCEPT ![p] = "wake"]
      /\ UNCHANGED <<producer_pos, consumer_pos, ready, rec, reader, calls, log, taken,
                     out>>

\* bpf_ringbuf_submit and _discard with flags = 0, the adaptive notification:
\* the reader is woken when it waits at this record.  BPF_RB_NO_WAKEUP and
\* BPF_RB_FORCE_WAKEUP are not modelled.
Wake(p) ==
  /\ at[p] = "wake"
  /\ ready' = (ready \/ Unit(consumer_pos) = Unit(log[rec[p]].pos))
  /\ at' = [at EXCEPT ![p] = "idle"]
  /\ rec' = [rec EXCEPT ![p] = 0]
  /\ UNCHANGED <<data, producer_pos, consumer_pos, reader, calls, log, taken, out>>

\* The reader's store reaches the other CPUs.
Flush ==
  /\ consumer_pos # stored
  /\ consumer_pos' = stored
  /\ UNCHANGED <<data, producer_pos, ready, at, rec, reader, calls, log, taken, out>>

\* Mutant of StaysReady: EPOLLIN | EPOLLET.
StaysReady_Edge == FALSE

\* ring_buffer__add asks for EPOLLIN, level triggered: a ring that has been
\* reported stays on the ready list.
StaysReady == TRUE

\* epoll_wait asks a ring on the ready list whether there is data.  If so it
\* reports the ring and keeps it on the list, otherwise it takes it off.  The
\* kernel takes locks on the way, so the reader's own store is visible by then.
EpollWait ==
  /\ pc = "poll" /\ "poll" \in calls /\ ready /\ consumer_pos = stored
  /\ IF stored < producer_pos
     THEN pc' = "process" /\ ready' = StaysReady
     ELSE ready' = FALSE /\ UNCHANGED pc
  /\ UNCHANGED <<data, producer_pos, consumer_pos, at, rec, cons_pos, prod_pos,
                 got_new_data, len, err, sample, stored, calls, log, taken, out>>

-----------------------------------------------------------------------------
(* ringbuf_process_ring.                                                   *)

\* ring_buffer__consume processes the ring without asking epoll.
Consume ==
  /\ pc = "poll" /\ "consume" \in calls
  /\ pc' = "process"
  /\ UNCHANGED <<ring, at, rec, cons_pos, prod_pos, got_new_data, len, err, sample,
                 stored, calls, log, taken, out>>

LoadConsumer ==
  /\ pc = "process"
  /\ cons_pos' = stored
  /\ pc' = "do"
  /\ UNCHANGED <<ring, at, rec, prod_pos, got_new_data, len, err, sample, stored,
                 calls, log, taken, out>>

LoadProducer ==
  /\ pc = "do"
  /\ got_new_data' = FALSE
  /\ prod_pos' = producer_pos
  /\ pc' = "while"
  /\ UNCHANGED <<ring, at, rec, cons_pos, len, err, sample, stored, calls, log, taken,
                 out>>

\* Mutants of Finished and Busy: one record too many, the BUSY bit ignored.
Finished_Late == cons_pos > prod_pos
Busy_Ignored(hdr) == FALSE

\* The test of the inner loop.
Finished == cons_pos >= prod_pos

\* The sample is not committed yet.
Busy(hdr) == hdr.busy

\* The test of the inner loop, the header, and the two loops' ends.
LoadHeader ==
  LET hdr == data[Unit(cons_pos)]
  IN  /\ pc = "while"
      /\ IF Finished
         THEN /\ pc' = IF got_new_data THEN "do" ELSE "poll"
              /\ UNCHANGED <<cons_pos, got_new_data, len, sample, taken>>
         ELSE IF Busy(hdr)
         THEN pc' = "poll" /\ UNCHANGED <<cons_pos, got_new_data, len, sample, taken>>
         ELSE /\ got_new_data' = TRUE
              /\ len' = hdr.len
              /\ sample' = cons_pos + 1
              /\ cons_pos' = cons_pos + roundup_len(hdr.len)
              /\ pc' = IF hdr.discard THEN "store" ELSE "sample_cb"
              /\ taken' = IF hdr.discard THEN taken + 1 ELSE taken
      /\ UNCHANGED <<ring, at, rec, prod_pos, err, stored, calls, log, out>>

\* The callback reads the sample where it lies; it may return an error.
SampleCb ==
  /\ pc = "sample_cb"
  /\ out' = Append(out, {data[Unit(k)].id : k \in sample .. sample + roundup_len(len) - 2})
  /\ taken' = taken + 1
  /\ err' \in BOOLEAN
  /\ pc' = "store"
  /\ UNCHANGED <<ring, at, rec, cons_pos, prod_pos, got_new_data, len, sample, stored,
                 calls, log>>

\* Mutant of Released: the position before the record.
Released_Early == sample - 1

\* What is stored in consumer_pos once a record is done with.
Released == cons_pos

\* The record is given back, also when the callback failed, which ends the call.
StoreConsumer ==
  /\ pc = "store"
  /\ stored' = Released
  /\ pc' = IF err THEN "poll" ELSE "while"
  /\ err' = FALSE
  /\ UNCHANGED <<ring, at, rec, cons_pos, prod_pos, got_new_data, len, sample, calls,
                 log, taken, out>>

ringbuf_process_ring ==
  LoadConsumer \/ LoadProducer \/ LoadHeader \/ SampleCb \/ StoreConsumer

-----------------------------------------------------------------------------
Produce(p) ==
  \/ \E n \in Lengths : Reserve(p, n)
  \/ \E discard \in BOOLEAN : Commit(p, discard)
  \/ Wake(p)

Next ==
  \/ \E p \in Producers : Produce(p)
  \/ Flush \/ EpollWait \/ Consume \/ ringbuf_process_ring

\* The application calls the reader in a loop, stores become visible, and a
\* submission that has cleared BUSY goes on to look at the reader.  Programs
\* need not submit; an application that also polls may sleep for ever rather
\* than consume.
Spec ==
  /\ Init /\ [][Next]_vars
  /\ WF_vars(EpollWait) /\ WF_vars(calls = {"consume"} /\ Consume)
  /\ WF_vars(ringbuf_process_ring) /\ WF_vars(Flush)
  /\ \A p \in Producers : WF_vars(Wake(p))

-----------------------------------------------------------------------------
(* Properties.                                                             *)

\* The reader never passes the producers, and no unit between what it has
\* given back and what is reserved is reserved twice.
PositionsOrdered ==
  /\ consumer_pos <= stored
  /\ stored <= cons_pos
  /\ cons_pos <= producer_pos
  /\ producer_pos - consumer_pos < Size

\* Every sample the callback has been given was that of one record, whole: it
\* was not handed out before it was submitted, nor overwritten by a record
\* that reuses its space while the callback still looked at it.
SamplesIntact ==
  \A i \in DOMAIN out : \E r \in DOMAIN log : out[i] = {r}

\* The ring, seen through its headers, is a queue of records in the order of
\* their reservation.
StatusAt(pos) ==
  LET hdr == data[Unit(pos)]
  IN  IF hdr.busy THEN "busy" ELSE IF hdr.discard THEN "discarded" ELSE "committed"

Queue ==
  [i \in 1 .. Len(log) - taken |->
     [id |-> {i + taken}, status |-> StatusAt(log[i + taken].pos)]]

Records == INSTANCE RecordQueue WITH queue <- Queue, Ids <- {{i} : i \in 1 .. MaxRecords}

\* Records reach the callback in that order, each once, when committed.
ImplementsRecordQueue == Records!Spec

\* A record that is submitted, with no unfinished one in front of it, is read
\* and its space given back, in an application that always polls or always
\* consumes: the wake-up is not lost, however the look at consumer_pos and the
\* reader's store and its look at the header fall together.  This is about
\* submissions with flags = 0: with BPF_RB_NO_WAKEUP waking the reader is up to
\* the program.
CommittedAreTaken ==
  \A i \in 1 .. MaxRecords :
    (/\ calls # {"poll", "consume"}
     /\ i <= Len(log)
     /\ \A j \in 1 .. i : log[j].pos < stored \/ StatusAt(log[j].pos) # "busy")
    ~> (i <= Len(log) /\ log[i].pos < stored)

=============================================================================
