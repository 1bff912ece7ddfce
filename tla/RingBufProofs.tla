---------------------------- MODULE RingBufProofs ----------------------------
(***************************************************************************)
(* Proofs about RingBuf, for any number of producers, any size of the ring *)
(* and any records: the positions stay ordered, no sample is disturbed     *)
(* while the callback reads it, and the ring is a queue of records.        *)
(***************************************************************************)
EXTENDS RingBuf, SequenceTheorems, TLAPS

-----------------------------------------------------------------------------
(* The inductive invariant.                                                *)

Cells == [busy : BOOLEAN, discard : BOOLEAN, len : Nat, id : Nat]

Types ==
  /\ data \in [0 .. Size - 1 -> Cells]
  /\ producer_pos \in Nat /\ consumer_pos \in Nat /\ stored \in Nat
  /\ cons_pos \in Nat /\ prod_pos \in Nat /\ len \in Nat /\ taken \in Nat
  /\ at \in [Producers -> {"idle", "reserved", "wake"}] /\ rec \in [Producers -> Nat]
  /\ pc \in {"poll", "process", "do", "while", "sample_cb", "store"}
  /\ log \in Seq([pos : Nat, len : Lengths])
  /\ out \in Seq(SUBSET Nat)

\* Where record i ends, and where the reader is once it has passed t records.
End(i)   == log[i].pos + roundup_len(log[i].len)
Start(t) == IF t = Len(log) THEN producer_pos ELSE log[t + 1].pos

\* The records lie one behind the other, and end where the next one will be.
Laid ==
  /\ \A i \in DOMAIN log : End(i) = Start(i) /\ End(i) <= producer_pos
  /\ \A i, j \in DOMAIN log : i < j => End(i) <= log[j].pos

\* The reader stands between two records, or in the record it has in hand.
Reading ==
  /\ taken <= Len(log)
  /\ consumer_pos <= stored
  /\ producer_pos - consumer_pos < Size
  /\ prod_pos <= producer_pos
  /\ pc \notin {"sample_cb", "store"} => cons_pos = stored
  /\ pc # "store" => stored = Start(taken)
  /\ pc = "store" => cons_pos = Start(taken) /\ stored <= cons_pos
  /\ pc = "sample_cb" =>
       /\ taken < Len(log)
       /\ sample = stored + 1 /\ len = log[taken + 1].len /\ cons_pos = End(taken + 1)
       /\ ~data[Unit(stored)].busy /\ ~data[Unit(stored)].discard

\* A record has its length in its header and, once committed, itself in all
\* units of its sample.
Whole(i) ==
  /\ data[Unit(log[i].pos)].len = log[i].len
  /\ ~data[Unit(log[i].pos)].busy =>
       \A u \in SampleUnits(log[i].pos, log[i].len) : data[u].id = i

\* That is so of every record whose space was not given back.
Kept == \A i \in DOMAIN log : consumer_pos <= log[i].pos => Whole(i)

\* What a program has reserved is marked as unfinished, is not behind the
\* reader, and is nobody else's.
Mine(p) ==
  at[p] = "reserved" =>
    /\ rec[p] \in taken + 1 .. Len(log)
    /\ data[Unit(log[rec[p]].pos)].busy

Owned ==
  /\ \A p \in Producers : Mine(p)
  /\ \A p, q \in Producers :
       p # q /\ at[p] = "reserved" /\ at[q] = "reserved" => rec[p] # rec[q]

RInv == Types /\ Laid /\ Reading /\ Kept /\ Owned /\ SamplesIntact

-----------------------------------------------------------------------------
(* Arithmetic.                                                             *)

\* Two positions less than a ring apart are different units of it.
LEMMA UnitsApart ==
  ASSUME NEW a \in Nat, NEW b \in Nat, a < b, b - a < Size
  PROVE  Unit(a) # Unit(b)
<1>1. Size \in Nat /\ Size > 0
  BY RingAssumption
<1>. SUFFICES ASSUME a % Size = b % Size PROVE FALSE
  BY DEF Unit
<1>. DEFINE r == a % Size
            x == a \div Size
            y == b \div Size
<1>2. x \in Int /\ r \in Int /\ a = Size * x + r
  BY <1>1, Z3T(30)
<1>3. y \in Int /\ b = Size * y + r
  BY <1>1, Z3T(30)
<1>. HIDE DEF r, x, y
<1>4. b - a = Size * (y - x)
  BY <1>1, <1>2, <1>3, Z3T(30)
<1>5. CASE y - x <= 0
  <2>1. Size * (y - x) <= 0
    BY <1>1, <1>2, <1>3, <1>5, Z3T(30)
  <2>. QED
    BY <1>4, <2>1
<1>6. CASE y - x >= 1
  <2>1. Size * (y - x) >= Size
    BY <1>1, <1>2, <1>3, <1>6, Z3T(30)
  <2>. QED
    BY <1>1, <1>4, <2>1
<1>. QED
  BY <1>2, <1>3, <1>5, <1>6

\* A position has its unit in the ring.
LEMMA UnitType == \A a \in Nat : Unit(a) \in 0 .. Size - 1
<1>1. Size \in Nat /\ Size > 0
  BY RingAssumption
<1>. QED
  BY <1>1, Z3T(30) DEF Unit

\* A record has a header and at least one unit of sample.
LEMMA Rounded == \A n \in Lengths : n \in Nat /\ roundup_len(n) \in Nat /\ roundup_len(n) >= 2
<1>. SUFFICES ASSUME NEW n \in Lengths
              PROVE  n \in Nat /\ roundup_len(n) \in Nat /\ roundup_len(n) >= 2
  OBVIOUS
<1>1. n \in Nat /\ n >= 1
  BY RingAssumption
<1>. QED
  BY <1>1, Z3T(30) DEF roundup_len, BPF_RINGBUF_HDR_SZ

-----------------------------------------------------------------------------
(* Where records are.                                                      *)

\* What the history says of a record.
LEMMA LogTypes ==
  ASSUME Types, NEW i \in DOMAIN log
  PROVE  /\ DOMAIN log = 1 .. Len(log) /\ Len(log) \in Nat /\ i \in Nat
         /\ log[i].pos \in Nat /\ log[i].len \in Lengths /\ log[i].len \in Nat
         /\ roundup_len(log[i].len) \in Nat /\ roundup_len(log[i].len) >= 2
         /\ End(i) \in Nat /\ log[i].pos + 2 <= End(i)
<1>1. /\ DOMAIN log = 1 .. Len(log) /\ Len(log) \in Nat /\ i \in Nat
      /\ log[i] \in [pos : Nat, len : Lengths]
  <2>1. log \in Seq([pos : Nat, len : Lengths])
    BY DEF Types
  <2>2. DOMAIN log = 1 .. Len(log) /\ Len(log) \in Nat
    BY <2>1, LenProperties
  <2>3. i \in 1 .. Len(log)
    BY <2>2
  <2>4. i \in Nat
    BY ONLY <2>2, <2>3
  <2>5. log[i] \in [pos : Nat, len : Lengths]
    BY ONLY <2>1, <2>3, ElementOfSeq
  <2>. QED
    BY ONLY <2>2, <2>4, <2>5
<1>2. log[i].pos \in Nat /\ log[i].len \in Lengths
  BY <1>1
<1>3. log[i].len \in Nat /\ roundup_len(log[i].len) \in Nat /\ roundup_len(log[i].len) >= 2
  BY <1>2, Rounded
<1>4. End(i) \in Nat /\ log[i].pos + 2 <= End(i)
  BY <1>2, <1>3 DEF End
<1>. QED
  BY <1>1, <1>2, <1>3, <1>4

\* The positions of a record.
Area(i) == log[i].pos .. End(i) - 1

\* Records whose space was not given back have no unit in common.
LEMMA RecordsApart ==
  ASSUME Types, Laid, Reading, NEW i \in DOMAIN log, NEW j \in DOMAIN log, i # j,
         consumer_pos <= log[i].pos, consumer_pos <= log[j].pos,
         NEW a \in Area(i), NEW b \in Area(j)
  PROVE  Unit(a) # Unit(b)
<1>1. /\ i \in Nat /\ j \in Nat /\ log[i].pos \in Nat /\ log[j].pos \in Nat
      /\ End(i) \in Nat /\ End(j) \in Nat
      /\ producer_pos \in Nat /\ consumer_pos \in Nat /\ Size \in Nat
      /\ End(i) <= producer_pos /\ End(j) <= producer_pos
      /\ producer_pos - consumer_pos < Size
  BY LogTypes, RingAssumption DEF Types, Laid, Reading
<1>2. /\ a \in Nat /\ log[i].pos <= a /\ a < End(i)
      /\ b \in Nat /\ log[j].pos <= b /\ b < End(j)
  BY <1>1 DEF Area
<1>3. CASE i < j
  <2>1. End(i) <= log[j].pos
    BY <1>3 DEF Laid
  <2>2. a < b /\ b - a < Size
    BY <1>1, <1>2, <2>1
  <2>. QED
    BY <1>2, <2>2, UnitsApart
<1>4. CASE j < i
  <2>1. End(j) <= log[i].pos
    BY <1>4 DEF Laid
  <2>2. b < a /\ a - b < Size
    BY <1>1, <1>2, <2>1
  <2>. QED
    BY <1>2, <2>2, UnitsApart
<1>. QED
  BY <1>1, <1>3, <1>4

\* The units of a record: its header, and those of its sample.
LEMMA RecordUnits ==
  ASSUME Types, NEW i \in DOMAIN log
  PROVE  /\ log[i].pos \in Area(i)
         /\ \A u \in SampleUnits(log[i].pos, log[i].len) :
              \E a \in Area(i) : a # log[i].pos /\ u = Unit(a)
<1>1. log[i].pos \in Area(i)
  BY LogTypes DEF Area
<1>2. ASSUME NEW u \in SampleUnits(log[i].pos, log[i].len)
      PROVE  \E a \in Area(i) : a # log[i].pos /\ u = Unit(a)
  <2>1. PICK k \in log[i].pos + 1 .. log[i].pos + roundup_len(log[i].len) - 1 : u = Unit(k)
    BY DEF SampleUnits
  <2>2. k \in Area(i) /\ k # log[i].pos
    BY LogTypes DEF Area, End
  <2>. QED
    BY <2>1, <2>2
<1>. QED
  BY <1>1, <1>2

\* The header of a record is none of the units of its sample.
LEMMA HeaderApart ==
  ASSUME Types, Laid, Reading, NEW i \in DOMAIN log, consumer_pos <= log[i].pos
  PROVE  Unit(log[i].pos) \notin SampleUnits(log[i].pos, log[i].len)
<1>. SUFFICES ASSUME NEW a \in Area(i), a # log[i].pos PROVE Unit(a) # Unit(log[i].pos)
  BY RecordUnits
<1>1. /\ log[i].pos \in Nat /\ End(i) \in Nat /\ producer_pos \in Nat
      /\ consumer_pos \in Nat /\ Size \in Nat
      /\ End(i) <= producer_pos /\ producer_pos - consumer_pos < Size
  BY LogTypes, RingAssumption DEF Types, Laid, Reading
<1>2. a \in Nat /\ log[i].pos < a /\ a - log[i].pos < Size
  BY <1>1 DEF Area
<1>. QED
  BY <1>1, <1>2, UnitsApart

\* The reader has not passed the producers, and what it has not passed it has
\* not given back.
LEMMA StartBounds ==
  ASSUME Types, Laid, Reading
  PROVE  /\ Start(taken) \in Nat /\ Start(taken) <= producer_pos
         /\ \A i \in DOMAIN log : i > taken => Start(taken) <= log[i].pos
         /\ stored <= Start(taken) /\ consumer_pos <= Start(taken)
<1>0. DOMAIN log = 1 .. Len(log) /\ Len(log) \in Nat
  <2>1. log \in Seq([pos : Nat, len : Lengths])
    BY DEF Types
  <2>. QED
    BY <2>1, LenProperties
<1>1. /\ taken \in Nat /\ taken <= Len(log) /\ producer_pos \in Nat
      /\ stored \in Nat /\ consumer_pos \in Nat /\ cons_pos \in Nat /\ consumer_pos <= stored
  BY DEF Types, Reading
<1>2. /\ Start(taken) \in Nat /\ Start(taken) <= producer_pos
      /\ \A i \in DOMAIN log : i > taken => Start(taken) <= log[i].pos
  <2>1. CASE taken = Len(log)
    <3>1. Start(taken) = producer_pos
      BY <2>1 DEF Start
    <3>2. \A i \in DOMAIN log : ~(i > taken)
      BY <1>0, <1>1, <2>1
    <3>. QED
      BY <1>1, <3>1, <3>2
  <2>2. CASE taken # Len(log)
    <3>1. Start(taken) = log[taken + 1].pos
      BY <2>2 DEF Start
    <3>2. taken + 1 \in DOMAIN log
      <4>. DEFINE n == Len(log)
      <4>0. n \in Nat /\ taken \in Nat /\ taken <= n /\ taken # n
        BY <1>0, <1>1, <2>2
      <4>. HIDE DEF n
      <4>1. taken + 1 \in 1 .. n
        BY ONLY <4>0
      <4>. QED
        BY ONLY <1>0, <4>1, Zenon DEF n
    <3>3. /\ log[taken + 1].pos \in Nat /\ End(taken + 1) \in Nat
          /\ log[taken + 1].pos + 2 <= End(taken + 1) /\ End(taken + 1) <= producer_pos
      BY <3>2, LogTypes DEF Laid
    <3>4. ASSUME NEW i \in DOMAIN log, i > taken PROVE log[taken + 1].pos <= log[i].pos
      <4>1. CASE i = taken + 1
        BY <3>3, <4>1
      <4>2. CASE i # taken + 1
        <5>1. taken + 1 < i
          BY <1>0, <1>1, <3>4, <4>2
        <5>2. End(taken + 1) <= log[i].pos /\ log[i].pos \in Nat
          BY <3>2, <5>1, LogTypes DEF Laid
        <5>. QED
          BY ONLY <3>3, <5>2
      <4>. QED
        BY <4>1, <4>2
    <3>5. log[taken + 1].pos <= producer_pos
      BY ONLY <1>1, <3>3
    <3>. QED
      BY <3>1, <3>3, <3>4, <3>5
  <2>. QED
    BY <2>1, <2>2
<1>3. stored <= Start(taken)
  BY <1>1, <1>2 DEF Reading
<1>4. consumer_pos <= Start(taken)
  BY ONLY <1>1, <1>2, <1>3
<1>. QED
  BY <1>2, <1>3, <1>4

-----------------------------------------------------------------------------
(* The steps of the reader.                                                *)

\* The ring starts empty, with the reader at its start.
LEMMA InitRInv == Init => RInv
<1>. SUFFICES ASSUME Init PROVE RInv
  OBVIOUS
<1>1. Size \in Nat /\ Size > 0
  BY RingAssumption
<1>2. log = <<>> /\ Len(log) = 0 /\ DOMAIN log = {} /\ out = <<>> /\ DOMAIN out = {}
  BY EmptySeq DEF Init
<1>3. Types
  <2>1. log \in Seq([pos : Nat, len : Lengths]) /\ out \in Seq(SUBSET Nat)
    BY <1>2, EmptySeq
  <2>2. data \in [0 .. Size - 1 -> Cells]
    BY DEF Init, Cells, Blank
  <2>. QED
    BY <2>1, <2>2 DEF Init, Types
<1>4. Laid /\ Kept /\ SamplesIntact
  BY <1>2 DEF Laid, Kept, SamplesIntact
<1>5. Reading
  BY <1>1, <1>2 DEF Init, Reading, Start
<1>6. Owned
  BY DEF Init, Owned, Mine
<1>. QED
  BY <1>3, <1>4, <1>5, <1>6 DEF RInv

\* A step that moves no record, and gives back space if anything.
Still ==
  /\ UNCHANGED <<data, producer_pos, at, rec, log, out>>
  /\ consumer_pos <= consumer_pos'

\* Space that is given back no longer has to hold its record.
LEMMA StillKept ==
  ASSUME Types, Types', Still, Kept
  PROVE  Kept'
<1>1. data' = data /\ log' = log
  BY DEF Still
<1>2. consumer_pos \in Nat /\ consumer_pos' \in Nat /\ consumer_pos <= consumer_pos'
  BY DEF Types, Still
<1>3. SUFFICES ASSUME NEW i \in DOMAIN log, consumer_pos' <= log[i].pos PROVE Whole(i)
  BY <1>1 DEF Kept, Whole, Unit, SampleUnits, roundup_len
<1>4. log[i].pos \in Nat
  BY LogTypes
<1>5. consumer_pos <= log[i].pos
  BY ONLY <1>2, <1>3, <1>4
<1>. QED
  BY <1>5 DEF Kept

\* Where the records lie, and what was handed out, depends on no more than this.
LEMMA StillLaid ==
  ASSUME Still
  PROVE  /\ Laid => Laid'
         /\ SamplesIntact => SamplesIntact'
         /\ \A t : Start(t)' = Start(t)
         /\ \A t : End(t)' = End(t)
<1>1. log' = log /\ producer_pos' = producer_pos /\ out' = out
  BY DEF Still
<1>2. \A t : Start(t)' = Start(t)
  BY <1>1 DEF Start
<1>3. \A t : End(t)' = End(t)
  BY <1>1 DEF End, roundup_len, BPF_RINGBUF_HDR_SZ
<1>4. Laid => Laid'
  BY <1>1, <1>2, <1>3 DEF Laid
<1>. QED
  BY <1>1, <1>2, <1>3, <1>4 DEF SamplesIntact

\* It leaves the producers their records as long as it takes none of them.
LEMMA StillOwned ==
  ASSUME Still, Owned, taken' = taken
  PROVE  Owned'
BY DEF Still, Owned, Mine, Unit

Quiet == RInv /\ Still /\ taken' = taken /\ Types' /\ Reading'

\* So only where the reader stands is left to show for such a step.
LEMMA QuietRInv ==
  ASSUME Quiet
  PROVE  RInv'
<1>1. Types /\ Types' /\ Kept /\ Still /\ Laid /\ Owned /\ SamplesIntact /\ Reading'
      /\ taken' = taken
  BY DEF Quiet, RInv
<1>. QED
  BY <1>1, StillKept, StillLaid, StillOwned DEF RInv

\* The reader's store becomes visible: space is given back.
LEMMA FlushQuiet == RInv /\ Flush => RInv'
<1>. SUFFICES ASSUME RInv, Flush PROVE Quiet
  BY QuietRInv
<1>1. /\ consumer_pos \in Nat /\ stored \in Nat /\ producer_pos \in Nat /\ Size \in Nat
      /\ consumer_pos <= stored /\ producer_pos - consumer_pos < Size
  BY RingAssumption DEF RInv, Types, Reading
<1>2. Still
  BY <1>1 DEF Still, Flush
<1>3. Types'
  BY DEF RInv, Types, Flush, reader
<1>4. Reading'
  <2>1. consumer_pos' <= stored' /\ producer_pos' - consumer_pos' < Size
    BY <1>1 DEF Flush, reader
  <2>. QED
    BY <2>1, <1>2, StillLaid DEF RInv, Reading, Flush, reader, Unit
<1>. QED
  BY <1>2, <1>3, <1>4 DEF Quiet, Flush

\* epoll_wait moves no position.
LEMMA EpollWaitQuiet == RInv /\ EpollWait => RInv'
<1>. SUFFICES ASSUME RInv, EpollWait PROVE Quiet
  BY QuietRInv
<1>1. consumer_pos \in Nat /\ consumer_pos' = consumer_pos
  BY DEF RInv, Types, EpollWait
<1>2. Still
  BY <1>1 DEF Still, EpollWait
<1>3. Types'
  BY DEF RInv, Types, EpollWait
<1>4. Reading'
  BY <1>2, StillLaid DEF RInv, Reading, EpollWait
<1>. QED
  BY <1>2, <1>3, <1>4 DEF Quiet, EpollWait

\* ring_buffer__consume starts where the reader stopped.
LEMMA ConsumeQuiet == RInv /\ Consume => RInv'
<1>. SUFFICES ASSUME RInv, Consume PROVE Quiet
  BY QuietRInv
<1>1. consumer_pos \in Nat /\ consumer_pos' = consumer_pos
  BY DEF RInv, Types, Consume, ring
<1>2. Still
  BY <1>1 DEF Still, Consume, ring
<1>3. Types'
  BY DEF RInv, Types, Consume, ring
<1>4. Reading'
  BY <1>2, StillLaid DEF RInv, Reading, Consume, ring
<1>. QED
  BY <1>2, <1>3, <1>4 DEF Quiet, Consume

\* The reader takes up its own position.
LEMMA LoadConsumerQuiet == RInv /\ LoadConsumer => RInv'
<1>. SUFFICES ASSUME RInv, LoadConsumer PROVE Quiet
  BY QuietRInv
<1>1. consumer_pos \in Nat /\ consumer_pos' = consumer_pos
  BY DEF RInv, Types, LoadConsumer, ring
<1>2. Still
  BY <1>1 DEF Still, LoadConsumer, ring
<1>3. Types'
  BY DEF RInv, Types, LoadConsumer, ring
<1>4. Reading'
  BY <1>2, StillLaid DEF RInv, Reading, LoadConsumer, ring
<1>. QED
  BY <1>2, <1>3, <1>4 DEF Quiet, LoadConsumer

\* The reader reads how far there are records.
LEMMA LoadProducerQuiet == RInv /\ LoadProducer => RInv'
<1>. SUFFICES ASSUME RInv, LoadProducer PROVE Quiet
  BY QuietRInv
<1>1. /\ consumer_pos \in Nat /\ consumer_pos' = consumer_pos
      /\ producer_pos \in Nat /\ producer_pos' = producer_pos
  BY DEF RInv, Types, LoadProducer, ring
<1>2. Still
  BY <1>1 DEF Still, LoadProducer, ring
<1>3. Types'
  BY DEF RInv, Types, LoadProducer, ring
<1>4. Reading'
  BY <1>1, <1>2, StillLaid DEF RInv, Reading, LoadProducer, ring
<1>. QED
  BY <1>2, <1>3, <1>4 DEF Quiet, LoadProducer

\* The reader gives back the record it has in hand.
LEMMA StoreConsumerQuiet == RInv /\ StoreConsumer => RInv'
<1>. SUFFICES ASSUME RInv, StoreConsumer PROVE Quiet
  BY QuietRInv
<1>1. /\ consumer_pos \in Nat /\ consumer_pos' = consumer_pos /\ stored \in Nat
      /\ cons_pos \in Nat /\ consumer_pos <= stored /\ stored <= cons_pos
      /\ stored' = cons_pos /\ cons_pos' = cons_pos
  BY DEF RInv, Types, Reading, StoreConsumer, ring, Released
<1>2. Still
  BY <1>1 DEF Still, StoreConsumer, ring
<1>3. Types'
  BY DEF RInv, Types, StoreConsumer, ring, Released
<1>4. Reading'
  <2>1. consumer_pos' <= stored'
    BY ONLY <1>1
  <2>2. pc = "store" /\ pc' \in {"poll", "while"}
    BY DEF StoreConsumer
  <2>3. stored' = Start(taken)
    BY <1>1, <2>2 DEF RInv, Reading
  <2>4. /\ taken' = taken /\ log' = log /\ producer_pos' = producer_pos
        /\ prod_pos' = prod_pos
    BY DEF StoreConsumer, ring
  <2>5. stored' = Start(taken)'
    BY <2>3, <2>4 DEF Start
  <2>. QED
    BY <1>1, <2>1, <2>2, <2>4, <2>5 DEF RInv, Reading
<1>. QED
  BY <1>2, <1>3, <1>4 DEF Quiet, StoreConsumer

\* The record the reader stands at, when there is one.
AtRecord(i) ==
  /\ taken < Len(log) /\ i = taken + 1 /\ i \in DOMAIN log
  /\ stored = log[i].pos /\ consumer_pos <= log[i].pos
  /\ Whole(i)
  /\ End(i) \in Nat /\ stored + 2 <= End(i) /\ End(i) = Start(i)

\* A reader that has not read all stands at the header of a record.
LEMMA StandsAt ==
  ASSUME RInv, taken < Len(log), stored = Start(taken)
  PROVE  AtRecord(taken + 1)
<1>0. Types /\ Laid /\ Reading /\ Kept
  BY DEF RInv
<1>1. DOMAIN log = 1 .. Len(log) /\ Len(log) \in Nat /\ taken \in Nat
  <2>1. log \in Seq([pos : Nat, len : Lengths]) /\ taken \in Nat
    BY <1>0 DEF Types
  <2>. QED
    BY <2>1, LenProperties
<1>2. taken + 1 \in DOMAIN log
  <2>. DEFINE n == Len(log)
  <2>0. n \in Nat /\ taken \in Nat /\ taken < n
    BY <1>1
  <2>. HIDE DEF n
  <2>1. taken + 1 \in 1 .. n
    BY ONLY <2>0
  <2>. QED
    BY ONLY <1>1, <2>1, Zenon DEF n
<1>3. stored = log[taken + 1].pos
  <2>1. taken # Len(log)
    <3>. DEFINE n == Len(log)
    <3>0. n \in Nat /\ taken \in Nat /\ taken < n
      BY <1>1
    <3>. HIDE DEF n
    <3>1. taken # n
      BY ONLY <3>0
    <3>. QED
      BY <3>1 DEF n
  <2>. QED
    BY <2>1 DEF Start
<1>4. consumer_pos <= log[taken + 1].pos
  BY <1>0, <1>3 DEF Reading
<1>5. Whole(taken + 1)
  BY <1>0, <1>2, <1>4 DEF Kept
<1>6. End(taken + 1) \in Nat /\ stored + 2 <= End(taken + 1)
  BY <1>0, <1>2, <1>3, LogTypes
<1>7. End(taken + 1) = Start(taken + 1)
  BY <1>0, <1>2 DEF Laid
<1>. QED
  BY <1>2, <1>3, <1>4, <1>5, <1>6, <1>7 DEF AtRecord

\* The record the reader passes is finished, so it is no producer's.
LEMMA PassedOwned ==
  ASSUME RInv, AtRecord(taken + 1), taken' = taken + 1,
         ~data[Unit(log[taken + 1].pos)].busy, UNCHANGED <<data, log, at, rec>>
  PROVE  Owned'
<1>1. data' = data /\ log' = log /\ at' = at /\ rec' = rec
  OBVIOUS
<1>2. taken \in Nat /\ Len(log) \in Nat
  <2>1. log \in Seq([pos : Nat, len : Lengths]) /\ taken \in Nat
    BY DEF RInv, Types
  <2>. QED
    BY <2>1, LenProperties
<1>3. ASSUME NEW p \in Producers, at[p] = "reserved"
      PROVE  rec[p] \in taken + 2 .. Len(log) /\ data[Unit(log[rec[p]].pos)].busy
  <2>1. rec[p] \in taken + 1 .. Len(log) /\ data[Unit(log[rec[p]].pos)].busy
    BY <1>3 DEF RInv, Owned, Mine
  <2>2. rec[p] # taken + 1
    BY <2>1
  <2>. QED
    BY <1>2, <2>1, <2>2
<1>4. ASSUME NEW p \in Producers PROVE Mine(p)'
  <2>1. CASE at[p] # "reserved"
    BY <1>1, <2>1 DEF Mine
  <2>2. CASE at[p] = "reserved"
    <3>1. rec[p] \in (taken + 1) + 1 .. Len(log) /\ data[Unit(log[rec[p]].pos)].busy
      BY <1>2, <1>3, <2>2
    <3>. QED
      BY <1>1, <3>1 DEF Mine, Unit
  <2>. QED
    BY <2>1, <2>2
<1>5. \A p, q \in Producers :
        p # q /\ at[p] = "reserved" /\ at[q] = "reserved" => rec[p] # rec[q]
  BY DEF RInv, Owned
<1>. QED
  BY <1>1, <1>4, <1>5 DEF Owned

\* The header tells the length of the record and whether it is finished.
LEMMA LoadHeaderRInv == RInv /\ LoadHeader => RInv'
<1>. SUFFICES ASSUME RInv, LoadHeader PROVE RInv'
  OBVIOUS
<1>. DEFINE hdr == data[Unit(cons_pos)]
<1>0. Types /\ Laid /\ Reading /\ Kept /\ Owned /\ SamplesIntact
  BY DEF RInv
<1>1. /\ pc = "while" /\ UNCHANGED <<data, producer_pos, consumer_pos, at, rec, prod_pos,
                                     stored, log, out>>
  BY DEF LoadHeader, ring
<1>2. consumer_pos \in Nat
  BY <1>0 DEF Types
<1>3. Still
  BY <1>1, <1>2 DEF Still
<1>4. CASE Finished \/ Busy(hdr)
  <2>1. UNCHANGED <<cons_pos, len, sample, taken>> /\ pc' \in {"do", "poll"}
    BY <1>4 DEF LoadHeader
  <2>2. Types'
    BY <1>0, <1>1, <2>1 DEF Types
  <2>3. Reading'
    BY <1>0, <1>1, <1>3, <2>1, StillLaid DEF Reading
  <2>. QED
    BY <1>3, <2>1, <2>2, <2>3, QuietRInv DEF Quiet
<1>5. CASE ~Finished /\ ~Busy(hdr)
  <2>. DEFINE i == taken + 1
  <2>1. cons_pos = stored /\ stored = Start(taken)
    BY <1>0, <1>1 DEF Reading
  <2>2. taken < Len(log)
    <3>1. /\ cons_pos \in Nat /\ prod_pos \in Nat /\ producer_pos \in Nat
          /\ ~(cons_pos >= prod_pos) /\ prod_pos <= producer_pos
      BY <1>0, <1>5 DEF Types, Reading, Finished
    <3>2. cons_pos # producer_pos
      BY ONLY <3>1
    <3>3. taken # Len(log)
      BY <2>1, <3>2 DEF Start
    <3>4. log \in Seq([pos : Nat, len : Lengths]) /\ taken \in Nat /\ taken <= Len(log)
      BY <1>0 DEF Types, Reading
    <3>5. Len(log) \in Nat
      BY <3>4, LenProperties
    <3>. QED
      BY ONLY <3>3, <3>4, <3>5
  <2>3. AtRecord(i)
    BY <2>1, <2>2, StandsAt
  <2>4. hdr.len = log[i].len /\ ~data[Unit(log[i].pos)].busy /\ log[i].pos = cons_pos
    BY <1>5, <2>1, <2>3 DEF AtRecord, Whole, Busy
  <2>5. /\ len' = log[i].len /\ sample' = cons_pos + 1
        /\ cons_pos' = End(i)
        /\ pc' = IF hdr.discard THEN "store" ELSE "sample_cb"
        /\ taken' = IF hdr.discard THEN taken + 1 ELSE taken
    BY <1>5, <2>4 DEF LoadHeader, End
  <2>6. taken \in Nat /\ log[i].len \in Nat /\ End(i) \in Nat
    BY <1>0, <2>3, LogTypes DEF AtRecord, Types
  <2>7. Types'
    BY <1>0, <1>1, <2>5, <2>6 DEF Types
  <2>8. /\ Laid' /\ SamplesIntact' /\ (\A t : Start(t)' = Start(t))
        /\ (\A t : End(t)' = End(t))
    BY <1>0, <1>3, StillLaid
  <2>9. Kept'
    BY <1>0, <1>3, <2>7, StillKept
  <2>10. CASE hdr.discard
    <3>1. Owned'
      BY <1>1, <2>3, <2>4, <2>5, <2>10, PassedOwned
    <3>2. taken' <= Len(log')
      <4>1. log \in Seq([pos : Nat, len : Lengths])
        BY <1>0 DEF Types
      <4>2. Len(log) \in Nat
        BY <4>1, LenProperties
      <4>. QED
        BY <1>1, <2>2, <2>5, <2>6, <2>10, <4>2
    <3>3. cons_pos' = Start(taken)'
      <4>1. cons_pos' = Start(taken + 1) /\ taken' = taken + 1
        BY <2>3, <2>5, <2>10 DEF AtRecord
      <4>. QED
        BY <1>1, <4>1 DEF Start
    <3>4. stored' <= cons_pos'
      <4>1. stored \in Nat /\ stored + 2 <= End(i)
        BY <1>0, <2>3 DEF Types, AtRecord
      <4>. QED
        BY <1>1, <2>5, <2>6, <4>1
    <3>5. pc' = "store"
      BY <2>5, <2>10
    <3>6. Reading'
      BY <1>0, <1>1, <3>2, <3>3, <3>4, <3>5 DEF Reading
    <3>. QED
      BY <2>7, <2>8, <2>9, <3>1, <3>6 DEF RInv
  <2>11. CASE ~hdr.discard
    <3>1. taken' = taken /\ pc' = "sample_cb"
      BY <2>5, <2>11
    <3>2. Owned'
      BY <1>0, <1>3, <3>1, StillOwned
    <3>3. stored' = Start(taken)'
      BY <1>1, <2>1, <3>1 DEF Start
    <3>4. ~data'[Unit(stored')].busy /\ ~data'[Unit(stored')].discard
      BY <1>1, <1>5, <2>1, <2>11 DEF Busy
    <3>5. /\ taken' < Len(log') /\ sample' = stored' + 1 /\ len' = log'[taken' + 1].len
          /\ cons_pos' = End(taken + 1)'
      BY <1>1, <2>1, <2>2, <2>5, <2>8, <3>1
    <3>6. Reading'
      BY <1>0, <1>1, <3>1, <3>3, <3>4, <3>5 DEF Reading, Unit
    <3>. QED
      BY <2>7, <2>8, <2>9, <3>2, <3>6 DEF RInv
  <2>. QED
    BY <2>10, <2>11
<1>. QED
  BY <1>4, <1>5

\* The callback reads the record it stands at and nothing else.
LEMMA ReadsRecord ==
  ASSUME RInv, pc = "sample_cb"
  PROVE  /\ AtRecord(taken + 1)
         /\ ~data[Unit(log[taken + 1].pos)].busy /\ ~data[Unit(log[taken + 1].pos)].discard
         /\ {data[Unit(k)].id : k \in sample .. sample + roundup_len(len) - 2} = {taken + 1}
<1>. DEFINE i == taken + 1
            m == roundup_len(len)
            S == {data[Unit(k)].id : k \in sample .. sample + m - 2}
<1>1. /\ taken < Len(log) /\ stored = Start(taken)
      /\ sample = stored + 1 /\ len = log[i].len
      /\ ~data[Unit(stored)].busy /\ ~data[Unit(stored)].discard
  BY DEF RInv, Reading
<1>2. AtRecord(i)
  BY <1>1, StandsAt
<1>3. stored = log[i].pos /\ i \in DOMAIN log /\ Whole(i) /\ Types
  BY <1>2 DEF AtRecord, RInv
<1>4. m \in Nat /\ m >= 2 /\ stored \in Nat
  BY <1>1, <1>3, LogTypes
<1>. HIDE DEF m
<1>5. sample .. sample + m - 2 = stored + 1 .. stored + m - 1
  BY ONLY <1>1, <1>4
<1>6. ASSUME NEW k \in stored + 1 .. stored + m - 1 PROVE data[Unit(k)].id = i
  <2>1. Unit(k) \in SampleUnits(log[i].pos, log[i].len)
    BY <1>1, <1>3 DEF SampleUnits, m
  <2>. QED
    BY <1>1, <1>3, <2>1 DEF Whole
<1>7. stored + 1 \in stored + 1 .. stored + m - 1
  BY ONLY <1>4
<1>8. S = {i}
  <2>1. ASSUME NEW x \in S PROVE x = i
    <3>1. PICK k \in stored + 1 .. stored + m - 1 : x = data[Unit(k)].id
      BY ONLY <1>5, <2>1, Zenon
    <3>. QED
      BY ONLY <3>1, <1>6, Zenon
  <2>2. i \in S
    BY ONLY <1>5, <1>6, <1>7, Zenon
  <2>. QED
    BY ONLY <2>1, <2>2
<1>. QED
  BY <1>1, <1>2, <1>3, <1>8 DEF m

\* The callback is given the sample of that record.
LEMMA SampleCbRInv == RInv /\ SampleCb => RInv'
<1>. SUFFICES ASSUME RInv, SampleCb PROVE RInv'
  OBVIOUS
<1>. DEFINE i == taken + 1
<1>0. Types /\ Laid /\ Reading /\ Kept /\ Owned /\ SamplesIntact
  BY DEF RInv
<1>1. /\ pc = "sample_cb" /\ pc' = "store" /\ taken' = taken + 1
      /\ UNCHANGED <<data, producer_pos, consumer_pos, at, rec, cons_pos, prod_pos, len,
                     sample, stored, log>>
      /\ out' = Append(out, {data[Unit(k)].id : k \in sample .. sample + roundup_len(len) - 2})
  BY DEF SampleCb, ring
<1>2. out' = Append(out, {i}) /\ AtRecord(i) /\ ~data[Unit(log[i].pos)].busy
  BY <1>1, ReadsRecord
<1>3. /\ i \in DOMAIN log /\ taken < Len(log) /\ End(i) = Start(i) /\ End(i) \in Nat
      /\ stored + 2 <= End(i) /\ cons_pos = End(i) /\ taken \in Nat /\ i \in Nat
      /\ stored \in Nat
  BY <1>0, <1>1, <1>2 DEF AtRecord, Reading, Types
<1>4. Types'
  <2>1. out \in Seq(SUBSET Nat) /\ {i} \in SUBSET Nat
    BY <1>0, <1>3 DEF Types
  <2>2. out' \in Seq(SUBSET Nat)
    BY <1>2, <2>1, AppendProperties
  <2>. QED
    BY <1>0, <1>1, <1>3, <2>2 DEF Types
<1>5. Laid'
  BY <1>0, <1>1 DEF Laid, End, Start, roundup_len
<1>6. Kept'
  BY <1>0, <1>1 DEF Kept, Whole, Unit, SampleUnits, roundup_len
<1>7. Owned'
  BY <1>1, <1>2, PassedOwned
<1>8. SamplesIntact'
  <2>1. out \in Seq(SUBSET Nat)
    BY <1>0 DEF Types
  <2>2. Len(out) \in Nat /\ DOMAIN out = 1 .. Len(out)
    BY <2>1, LenProperties
  <2>3. /\ DOMAIN out' = 1 .. Len(out) + 1
        /\ \A k \in 1 .. Len(out) : out'[k] = out[k]
        /\ out'[Len(out) + 1] = {i}
    BY <1>2, <2>1, <2>2
  <2>4. ASSUME NEW k \in DOMAIN out' PROVE \E r \in DOMAIN log' : out'[k] = {r}
    <3>1. CASE k = Len(out) + 1
      BY <1>1, <1>3, <2>3, <3>1
    <3>2. CASE k # Len(out) + 1
      <4>1. k \in 1 .. Len(out)
        BY <2>2, <2>3, <3>2
      <4>. QED
        BY <1>0, <1>1, <2>2, <2>3, <4>1 DEF SamplesIntact
    <3>. QED
      BY <3>1, <3>2
  <2>. QED
    BY <2>4 DEF SamplesIntact
<1>9. Reading'
  <2>1. taken' <= Len(log')
    <3>1. log \in Seq([pos : Nat, len : Lengths])
      BY <1>0 DEF Types
    <3>2. Len(log) \in Nat
      BY <3>1, LenProperties
    <3>. QED
      BY <1>1, <1>3, <3>2
  <2>2. cons_pos' = Start(taken)'
    <3>1. cons_pos' = Start(taken + 1) /\ taken' = taken + 1
      BY <1>1, <1>3
    <3>. QED
      BY <1>1, <3>1 DEF Start
  <2>3. stored' <= cons_pos'
    BY <1>1, <1>3
  <2>. QED
    BY <1>0, <1>1, <2>1, <2>2, <2>3 DEF Reading
<1>. QED
  BY <1>4, <1>5, <1>6, <1>7, <1>8, <1>9 DEF RInv

-----------------------------------------------------------------------------
(* The steps of the producers.                                             *)

\* Looking at the reader changes nothing it relies on.
LEMMA WakeRInv == ASSUME NEW p \in Producers PROVE RInv /\ Wake(p) => RInv'
<1>. SUFFICES ASSUME RInv, Wake(p) PROVE RInv'
  OBVIOUS
<1>0. Types /\ Laid /\ Reading /\ Kept /\ Owned /\ SamplesIntact
  BY DEF RInv
<1>1. /\ at' = [at EXCEPT ![p] = "idle"] /\ rec' = [rec EXCEPT ![p] = 0]
      /\ UNCHANGED <<data, producer_pos, consumer_pos, pc, cons_pos, prod_pos, len, sample,
                     stored, log, taken, out>>
  BY DEF Wake, reader
<1>2. Types'
  BY <1>0, <1>1 DEF Types
<1>3. Laid' /\ Kept' /\ SamplesIntact'
  BY <1>0, <1>1 DEF Laid, End, Start, roundup_len, Kept, Whole, Unit, SampleUnits, SamplesIntact
<1>4. Reading'
  BY <1>0, <1>1 DEF Reading, Start, End, Unit
<1>5. Owned'
  <2>1. ASSUME NEW q \in Producers, at'[q] = "reserved"
        PROVE  at[q] = "reserved" /\ rec'[q] = rec[q]
    BY <1>0, <1>1, <2>1 DEF Types
  <2>. QED
    BY <1>0, <1>1, <2>1 DEF Owned, Mine, Unit
<1>. QED
  BY <1>2, <1>3, <1>4, <1>5 DEF RInv

\* A step leaves all units of a record alone.
Undisturbed(i) ==
  /\ log'[i] = log[i]
  /\ \A a \in Area(i) : data'[Unit(a)] = data[Unit(a)]

\* Such a record keeps its header and its sample.
LEMMA UndisturbedWhole ==
  ASSUME Types, NEW i \in DOMAIN log, Undisturbed(i)
  PROVE  /\ data'[Unit(log[i].pos)] = data[Unit(log[i].pos)]
         /\ Whole(i) => Whole(i)'
<1>1. /\ log'[i] = log[i]
      /\ \A a \in Area(i) : data'[Unit(a)] = data[Unit(a)]
  BY DEF Undisturbed
<1>2. data'[Unit(log[i].pos)] = data[Unit(log[i].pos)]
  BY <1>1, RecordUnits
<1>3. ASSUME NEW u \in SampleUnits(log[i].pos, log[i].len) PROVE data'[u] = data[u]
  BY <1>1, RecordUnits
<1>4. ASSUME Whole(i) PROVE Whole(i)'
  <2>1. data'[Unit(log'[i].pos)].len = log'[i].len
    BY <1>1, <1>2, <1>4 DEF Whole
  <2>2. ASSUME ~data'[Unit(log'[i].pos)].busy,
               NEW u \in SampleUnits(log'[i].pos, log'[i].len)
        PROVE  data'[u].id = i
    <3>1. u \in SampleUnits(log[i].pos, log[i].len) /\ ~data[Unit(log[i].pos)].busy
      BY <1>1, <1>2, <2>2
    <3>. QED
      BY <1>3, <1>4, <3>1 DEF Whole
  <2>. QED
    BY <2>1, <2>2 DEF Whole, Unit, SampleUnits, roundup_len
<1>. QED
  BY <1>2, <1>4

\* A new record lies behind all others and is written to where none of those
\* that were not given back lies.
Reserved(p, n) ==
  /\ DOMAIN log' = 1 .. Len(log) + 1 /\ Len(log') = Len(log) + 1
  /\ \A i \in DOMAIN log : log'[i] = log[i]
  /\ log'[Len(log) + 1].pos = producer_pos /\ log'[Len(log) + 1].len = n
  /\ \A i \in DOMAIN log : consumer_pos <= log[i].pos => Undisturbed(i)
  /\ data'[Unit(producer_pos)] = Header(n)

\* bpf_ringbuf_reserve, where there is room.
LEMMA ReserveWrites ==
  ASSUME RInv, NEW p \in Producers, NEW n \in Lengths, Reserve(p, n)
  PROVE  Reserved(p, n)
<1>0. Types /\ Laid /\ Reading
  BY DEF RInv
<1>1. /\ data' = [data EXCEPT ![Unit(producer_pos)] = Header(n)]
      /\ log' = Append(log, [pos |-> producer_pos, len |-> n])
  BY DEF Reserve
<1>2. log \in Seq([pos : Nat, len : Lengths]) /\ producer_pos \in Nat
  BY <1>0 DEF Types
<1>3. Len(log) \in Nat /\ DOMAIN log = 1 .. Len(log)
  BY <1>2, LenProperties
<1>4. /\ DOMAIN log' = 1 .. Len(log) + 1 /\ Len(log') = Len(log) + 1
      /\ \A i \in 1 .. Len(log) : log'[i] = log[i]
      /\ log'[Len(log) + 1] = [pos |-> producer_pos, len |-> n]
  <2>1. [pos |-> producer_pos, len |-> n] \in [pos : Nat, len : Lengths]
    BY <1>2
  <2>. QED
    BY <1>1, <1>2, <1>3, <2>1
<1>5. \A i \in DOMAIN log : log'[i] = log[i]
  BY <1>3, <1>4
<1>6. data \in [0 .. Size - 1 -> Cells] /\ Unit(producer_pos) \in 0 .. Size - 1
  BY <1>0, <1>2, UnitType DEF Types
<1>7. data'[Unit(producer_pos)] = Header(n)
  BY <1>1, <1>6
<1>8. ASSUME NEW i \in DOMAIN log, consumer_pos <= log[i].pos, NEW a \in Area(i)
      PROVE  data'[Unit(a)] = data[Unit(a)]
  <2>1. /\ log[i].pos \in Nat /\ End(i) \in Nat /\ consumer_pos \in Nat /\ Size \in Nat
        /\ End(i) <= producer_pos /\ producer_pos - consumer_pos < Size
    BY <1>0, LogTypes, RingAssumption DEF Types, Laid, Reading
  <2>2. a \in Nat /\ a < producer_pos /\ producer_pos - a < Size
    BY <1>2, <1>8, <2>1 DEF Area
  <2>3. Unit(a) # Unit(producer_pos)
    BY <1>2, <2>2, UnitsApart
  <2>. QED
    BY <1>1, <1>6, <2>3
<1>. QED
  BY <1>4, <1>5, <1>7, <1>8 DEF Reserved, Undisturbed

\* A reservation keeps the invariant.
LEMMA ReserveRInv ==
  ASSUME NEW p \in Producers, NEW n \in Lengths
  PROVE  RInv /\ Reserve(p, n) => RInv'
<1>. SUFFICES ASSUME RInv, Reserve(p, n) PROVE RInv'
  OBVIOUS
<1>. DEFINE L == Len(log)
<1>0. Types /\ Laid /\ Reading /\ Kept /\ Owned /\ SamplesIntact
  BY DEF RInv
<1>1. /\ at[p] = "idle" /\ producer_pos' = producer_pos + roundup_len(n)
      /\ producer_pos' - consumer_pos < Size
      /\ data' = [data EXCEPT ![Unit(producer_pos)] = Header(n)]
      /\ log' = Append(log, [pos |-> producer_pos, len |-> n])
      /\ at' = [at EXCEPT ![p] = "reserved"] /\ rec' = [rec EXCEPT ![p] = L + 1]
      /\ UNCHANGED <<consumer_pos, pc, cons_pos, prod_pos, len, sample, stored, taken, out>>
  BY DEF Reserve, reader
<1>2. Reserved(p, n)
  BY ReserveWrites
<1>3. /\ roundup_len(n) \in Nat /\ roundup_len(n) >= 2 /\ n \in Nat
      /\ producer_pos \in Nat /\ producer_pos' \in Nat /\ producer_pos <= producer_pos'
      /\ log \in Seq([pos : Nat, len : Lengths])
  BY <1>0, <1>1, Rounded DEF Types
<1>4. L \in Nat /\ DOMAIN log = 1 .. L /\ L + 1 \in Nat /\ L + 1 \notin DOMAIN log
  BY <1>3, LenProperties
<1>5. /\ DOMAIN log' = 1 .. L + 1 /\ Len(log') = L + 1
      /\ (\A i \in DOMAIN log : log'[i] = log[i])
      /\ log'[L + 1].pos = producer_pos /\ log'[L + 1].len = n
      /\ data'[Unit(producer_pos)] = Header(n)
  BY <1>2 DEF Reserved
<1>. HIDE DEF L
<1>6. \A i \in DOMAIN log' : i \in DOMAIN log \/ i = L + 1
  BY ONLY <1>4, <1>5
<1>7. Types'
  <2>1. Header(n) \in Cells
    BY <1>3 DEF Header, Cells
  <2>2. data' \in [0 .. Size - 1 -> Cells]
    BY <1>0, <1>1, <2>1 DEF Types
  <2>3. [pos |-> producer_pos, len |-> n] \in [pos : Nat, len : Lengths]
    BY <1>3
  <2>4. log' \in Seq([pos : Nat, len : Lengths])
    BY <1>1, <1>3, <2>3, AppendProperties
  <2>. QED
    BY <1>0, <1>1, <1>3, <1>4, <2>2, <2>4 DEF Types
<1>8. \A i \in DOMAIN log : End(i)' = End(i)
  BY <1>5 DEF End, roundup_len, BPF_RINGBUF_HDR_SZ
<1>9. \A k : k = L + 1 => End(k)' = producer_pos'
  BY <1>1, <1>4, <1>5 DEF End, roundup_len, BPF_RINGBUF_HDR_SZ
<1>10. \A i \in DOMAIN log : Start(i)' = End(i)
  <2>. SUFFICES ASSUME NEW i \in DOMAIN log PROVE Start(i)' = End(i)
    OBVIOUS
  <2>1. End(i) = Start(i) /\ i \in Nat /\ i <= L
    BY <1>0, <1>4 DEF Laid
  <2>2. i # L + 1
    BY ONLY <1>4, <2>1
  <2>3. Start(i)' = log'[i + 1].pos
    BY <1>5, <2>2 DEF Start
  <2>4. CASE i = L
    BY <1>5, <2>1, <2>3, <2>4 DEF Start, L
  <2>5. CASE i # L
    <3>1. i + 1 \in 1 .. L
      BY ONLY <1>4, <2>1, <2>5
    <3>2. log'[i + 1] = log[i + 1]
      BY <1>4, <1>5, <3>1
    <3>. QED
      BY <2>1, <2>3, <2>5, <3>2 DEF Start, L
  <2>. QED
    BY <2>4, <2>5
<1>11. Laid'
  <2>1. ASSUME NEW i \in DOMAIN log' PROVE End(i)' = Start(i)' /\ End(i)' <= producer_pos'
    <3>1. CASE i \in DOMAIN log
      <4>1. End(i) \in Nat /\ End(i) <= producer_pos
        BY <1>0, <3>1, LogTypes DEF Laid
      <4>2. End(i) <= producer_pos'
        BY ONLY <1>3, <4>1
      <4>. QED
        BY <1>8, <1>10, <3>1, <4>2
    <3>2. CASE i = L + 1
      <4>1. Start(i)' = producer_pos'
        BY <1>5, <3>2 DEF Start
      <4>. QED
        BY <1>3, <1>9, <3>2, <4>1
    <3>. QED
      BY <1>6, <3>1, <3>2
  <2>2. ASSUME NEW i \in DOMAIN log', NEW j \in DOMAIN log', i < j
        PROVE  End(i)' <= log'[j].pos
    <3>1. i \in 1 .. L + 1 /\ j \in 1 .. L + 1
      BY <1>5
    <3>2. i # L + 1
      BY ONLY <1>4, <2>2, <3>1
    <3>3. i \in DOMAIN log /\ End(i)' = End(i) /\ End(i) <= producer_pos
      BY <1>0, <1>6, <1>8, <3>2 DEF Laid
    <3>4. CASE j \in DOMAIN log
      BY <1>0, <1>5, <2>2, <3>3, <3>4 DEF Laid
    <3>5. CASE j = L + 1
      BY <1>5, <3>3, <3>5
    <3>. QED
      BY <1>6, <3>4, <3>5
  <2>. QED
    BY <2>1, <2>2 DEF Laid
<1>12. /\ taken \in Nat /\ taken <= L /\ Start(taken) \in Nat
       /\ (\A i \in DOMAIN log : i > taken => Start(taken) <= log[i].pos)
       /\ stored <= Start(taken) /\ consumer_pos <= Start(taken)
       /\ consumer_pos \in Nat /\ stored \in Nat
  BY <1>0, StartBounds DEF Reading, Types, L
<1>13. ASSUME NEW i \in DOMAIN log, i > taken
       PROVE  data'[Unit(log[i].pos)] = data[Unit(log[i].pos)]
  <2>1. Start(taken) <= log[i].pos /\ log[i].pos \in Nat
    BY <1>0, <1>12, <1>13, LogTypes
  <2>2. consumer_pos <= log[i].pos
    BY ONLY <1>12, <2>1
  <2>3. Undisturbed(i)
    BY <1>2, <2>2 DEF Reserved
  <2>. QED
    BY <1>0, <2>3, UndisturbedWhole
<1>14. Kept'
  <2>. SUFFICES ASSUME NEW i \in DOMAIN log', consumer_pos' <= log'[i].pos
                PROVE  Whole(i)'
    BY DEF Kept
  <2>1. CASE i \in DOMAIN log
    <3>1. consumer_pos <= log[i].pos
      BY <1>1, <1>5, <2>1
    <3>2. Undisturbed(i) /\ Whole(i)
      BY <1>0, <1>2, <2>1, <3>1 DEF Reserved, Kept
    <3>. QED
      BY <1>0, <2>1, <3>2, UndisturbedWhole
  <2>2. CASE i = L + 1
    <3>1. data'[Unit(log'[i].pos)].len = log'[i].len /\ data'[Unit(log'[i].pos)].busy
      BY <1>5, <2>2 DEF Header
    <3>. QED
      BY <3>1 DEF Whole, Unit
  <2>. QED
    BY <1>6, <2>1, <2>2
<1>15. Owned'
  <2>1. ASSUME NEW q \in Producers, q # p, at'[q] = "reserved"
        PROVE  /\ at[q] = "reserved" /\ rec'[q] = rec[q] /\ rec[q] \in taken + 1 .. L
               /\ data'[Unit(log'[rec[q]].pos)].busy
    <3>1. at[q] = "reserved" /\ rec'[q] = rec[q]
      BY <1>0, <1>1, <2>1 DEF Types
    <3>2. rec[q] \in taken + 1 .. L /\ data[Unit(log[rec[q]].pos)].busy
      BY <1>0, <3>1 DEF Owned, Mine, L
    <3>3. rec[q] \in 1 .. L /\ rec[q] > taken
      BY ONLY <1>4, <1>12, <3>2
    <3>4. rec[q] \in DOMAIN log
      BY <1>4, <3>3
    <3>. QED
      BY <1>5, <1>13, <3>1, <3>2, <3>3, <3>4
  <2>2. at'[p] = "reserved" /\ rec'[p] = L + 1
    BY <1>0, <1>1 DEF Types
  <2>3. ASSUME NEW q \in Producers PROVE Mine(q)'
    <3>1. CASE q = p
      <4>1. L + 1 \in taken + 1 .. L + 1
        BY ONLY <1>4, <1>12
      <4>2. data'[Unit(log'[L + 1].pos)].busy
        BY <1>5 DEF Header
      <4>. QED
        BY <1>1, <1>5, <2>2, <3>1, <4>1, <4>2 DEF Mine, Unit
    <3>2. CASE q # p /\ at'[q] = "reserved"
      <4>1. /\ rec'[q] = rec[q] /\ rec[q] \in taken + 1 .. L
            /\ data'[Unit(log'[rec[q]].pos)].busy
        BY <2>1, <3>2
      <4>2. rec[q] \in taken + 1 .. L + 1
        BY ONLY <1>4, <1>12, <4>1
      <4>. QED
        BY <1>1, <1>5, <4>1, <4>2 DEF Mine, Unit
    <3>3. CASE at'[q] # "reserved"
      BY <3>3 DEF Mine
    <3>. QED
      BY <3>1, <3>2, <3>3
  <2>4. ASSUME NEW q \in Producers, q # p, at'[q] = "reserved" PROVE rec'[q] # L + 1
    BY <1>4, <1>12, <2>1, <2>4
  <2>5. ASSUME NEW q \in Producers, NEW s \in Producers, q # s, at'[q] = "reserved",
               at'[s] = "reserved"
        PROVE  rec'[q] # rec'[s]
    <3>1. CASE q = p
      BY <2>2, <2>4, <2>5, <3>1
    <3>2. CASE s = p
      BY <2>2, <2>4, <2>5, <3>2
    <3>3. CASE q # p /\ s # p
      BY <1>0, <2>1, <2>5, <3>3 DEF Owned
    <3>. QED
      BY <3>1, <3>2, <3>3
  <2>. QED
    BY <2>3, <2>5 DEF Owned
<1>16. SamplesIntact'
  <2>1. DOMAIN log \subseteq DOMAIN log'
    BY ONLY <1>4, <1>5
  <2>2. out' = out
    BY <1>1
  <2>. QED
    BY <1>0, <2>1, <2>2 DEF SamplesIntact
<1>17. Reading'
  <2>1. Start(taken)' = Start(taken)
    <3>1. taken # L + 1 /\ taken' = taken
      BY <1>1, <1>4, <1>12
    <3>2. Start(taken)' = log'[taken + 1].pos
      BY <1>5, <3>1 DEF Start
    <3>3. CASE taken = L
      BY <1>5, <3>2, <3>3 DEF Start, L
    <3>4. CASE taken # L
      <4>1. taken + 1 \in 1 .. L
        BY ONLY <1>4, <1>12, <3>4
      <4>2. log'[taken + 1] = log[taken + 1]
        BY <1>4, <1>5, <4>1
      <4>. QED
        BY <3>2, <3>4, <4>2 DEF Start, L
    <3>. QED
      BY <3>3, <3>4
  <2>2. taken' <= Len(log') /\ prod_pos' <= producer_pos'
    <3>1. taken <= L + 1
      BY ONLY <1>4, <1>12
    <3>2. prod_pos \in Nat /\ prod_pos <= producer_pos
      BY <1>0 DEF Types, Reading
    <3>3. prod_pos <= producer_pos'
      BY ONLY <1>3, <3>2
    <3>. QED
      BY <1>1, <1>5, <3>1, <3>3
  <2>3. producer_pos' - consumer_pos' < Size /\ consumer_pos' <= stored'
    BY <1>0, <1>1 DEF Reading
  <2>4. ASSUME pc = "sample_cb"
        PROVE  /\ taken' < Len(log') /\ sample' = stored' + 1
               /\ len' = log'[taken' + 1].len /\ cons_pos' = End(taken + 1)'
               /\ ~data'[Unit(stored')].busy /\ ~data'[Unit(stored')].discard
    <3>1. AtRecord(taken + 1)
      BY <2>4, ReadsRecord
    <3>2. taken + 1 \in DOMAIN log /\ stored = log[taken + 1].pos
      BY <3>1 DEF AtRecord
    <3>3. taken + 1 > taken
      BY ONLY <1>12
    <3>4. data'[Unit(stored)] = data[Unit(stored)]
      BY <1>13, <3>2, <3>3
    <3>5. log'[taken + 1] = log[taken + 1]
      BY <1>5, <3>2
    <3>6. End(taken + 1)' = End(taken + 1)
      BY <1>1, <3>5 DEF End, roundup_len, BPF_RINGBUF_HDR_SZ
    <3>7. taken < L + 1
      BY ONLY <1>4, <1>12
    <3>. QED
      BY <1>0, <1>1, <1>5, <2>4, <3>4, <3>5, <3>6, <3>7 DEF Reading
  <2>. QED
    BY <1>0, <1>1, <2>1, <2>2, <2>3, <2>4 DEF Reading, Unit
<1>. QED
  BY <1>7, <1>11, <1>14, <1>15, <1>16, <1>17 DEF RInv

\* A record that is committed is that of its producer; no other record whose
\* space was not given back is written to.
Committed(p, discard) ==
  /\ rec[p] \in DOMAIN log /\ rec[p] \in taken + 1 .. Len(log)
  /\ consumer_pos <= log[rec[p]].pos
  /\ data[Unit(log[rec[p]].pos)].busy
  /\ ~data'[Unit(log[rec[p]].pos)].busy
  /\ data'[Unit(log[rec[p]].pos)].discard = discard
  /\ Whole(rec[p])'
  /\ \A i \in DOMAIN log : i # rec[p] /\ consumer_pos <= log[i].pos => Undisturbed(i)

\* Records that were not given back are apart, the header and sample of one too.
LEMMA CommitWrites ==
  ASSUME RInv, NEW p \in Producers, NEW discard \in BOOLEAN, Commit(p, discard)
  PROVE  Committed(p, discard)
<1>. DEFINE c == rec[p]
            S == SampleUnits(log[c].pos, log[c].len)
            hdr == [Header(log[c].len) EXCEPT !.busy = FALSE, !.discard = discard]
<1>0. Types /\ Laid /\ Reading /\ Kept /\ Owned
  BY DEF RInv
<1>1. /\ at[p] = "reserved" /\ log' = log /\ rec' = rec
      /\ data' = [u \in DOMAIN data |->
                    IF u = Unit(log[c].pos) THEN hdr
                    ELSE IF u \in S THEN SampleOf(c) ELSE data[u]]
  BY DEF Commit
<1>2. c \in taken + 1 .. Len(log) /\ data[Unit(log[c].pos)].busy
  BY <1>0, <1>1 DEF Owned, Mine
<1>3. c \in DOMAIN log /\ c > taken
  <2>1. log \in Seq([pos : Nat, len : Lengths]) /\ taken \in Nat
    BY <1>0 DEF Types
  <2>2. DOMAIN log = 1 .. Len(log) /\ Len(log) \in Nat
    BY <2>1, LenProperties
  <2>3. c \in 1 .. Len(log) /\ c > taken
    BY <1>2, <2>1, <2>2
  <2>. QED
    BY <2>2, <2>3
<1>4. consumer_pos <= log[c].pos
  <2>1. /\ Start(taken) <= log[c].pos /\ consumer_pos <= Start(taken)
        /\ Start(taken) \in Nat /\ consumer_pos \in Nat /\ log[c].pos \in Nat
    BY <1>0, <1>3, StartBounds, LogTypes DEF Types
  <2>. QED
    BY ONLY <2>1
<1>5. DOMAIN data = 0 .. Size - 1 /\ \A a \in Nat : Unit(a) \in 0 .. Size - 1
  BY <1>0, UnitType DEF Types
<1>6. Area(c) \subseteq Nat /\ log[c].pos \in Area(c) /\ log[c].pos \in Nat
  <2>1. log[c].pos \in Nat /\ End(c) \in Nat
    BY <1>0, <1>3, LogTypes
  <2>2. Area(c) \subseteq Nat
    BY <2>1 DEF Area
  <2>. QED
    BY <1>0, <1>3, <2>1, <2>2, RecordUnits
<1>. HIDE DEF c, S, hdr
<1>7. /\ ~data'[Unit(log[c].pos)].busy /\ data'[Unit(log[c].pos)].discard = discard
      /\ data'[Unit(log[c].pos)].len = log[c].len
  <2>1. data'[Unit(log[c].pos)] = hdr
    BY <1>1, <1>5, <1>6
  <2>2. ~hdr.busy /\ hdr.discard = discard /\ hdr.len = log[c].len
    BY DEF hdr, Header
  <2>. QED
    BY <2>1, <2>2
<1>8. Unit(log[c].pos) \notin S
  BY <1>0, <1>3, <1>4, HeaderApart DEF S
<1>9. ASSUME NEW u \in S PROVE data'[u].id = c
  <2>1. PICK a \in Area(c) : u = Unit(a)
    BY <1>0, <1>3, RecordUnits DEF S
  <2>2. u \in DOMAIN data /\ u # Unit(log[c].pos)
    BY <1>5, <1>6, <1>8, <2>1
  <2>3. data'[u] = SampleOf(c)
    BY <1>1, <2>2
  <2>. QED
    BY <2>3 DEF SampleOf
<1>10. Whole(rec[p])'
  <2>1. rec'[p] = c /\ log'[c] = log[c]
    BY <1>1 DEF c
  <2>2. data'[Unit(log'[c].pos)].len = log'[c].len
    BY <1>7, <2>1
  <2>3. \A u \in SampleUnits(log'[c].pos, log'[c].len) : data'[u].id = c
    BY <1>9, <2>1 DEF S
  <2>. QED
    BY <2>1, <2>2, <2>3 DEF Whole, Unit, SampleUnits, roundup_len
<1>11. ASSUME NEW i \in DOMAIN log, i # c, consumer_pos <= log[i].pos PROVE Undisturbed(i)
  <2>1. log'[i] = log[i]
    BY <1>1
  <2>2. ASSUME NEW a \in Area(i) PROVE data'[Unit(a)] = data[Unit(a)]
    <3>1. a \in Nat
      <4>1. log[i].pos \in Nat /\ End(i) \in Nat
        BY <1>0, LogTypes
      <4>. QED
        BY <4>1 DEF Area
    <3>2. \A b \in Area(c) : Unit(a) # Unit(b)
      BY <1>0, <1>3, <1>4, <1>11, RecordsApart
    <3>3. Unit(a) # Unit(log[c].pos)
      BY <1>6, <3>2
    <3>4. Unit(a) \notin S
      BY <1>0, <1>3, <3>2, RecordUnits DEF S
    <3>. QED
      BY <1>1, <1>5, <3>1, <3>3, <3>4
  <2>. QED
    BY <2>1, <2>2 DEF Undisturbed
<1>. QED
  BY <1>2, <1>3, <1>4, <1>7, <1>10, <1>11 DEF Committed, c

\* A commit or a discard keeps the invariant.
LEMMA CommitRInv ==
  ASSUME NEW p \in Producers, NEW discard \in BOOLEAN
  PROVE  RInv /\ Commit(p, discard) => RInv'
<1>. SUFFICES ASSUME RInv, Commit(p, discard) PROVE RInv'
  OBVIOUS
<1>. DEFINE c == rec[p]
<1>0. Types /\ Laid /\ Reading /\ Kept /\ Owned /\ SamplesIntact
  BY DEF RInv
<1>1. /\ at' = [at EXCEPT ![p] = "wake"]
      /\ UNCHANGED <<producer_pos, consumer_pos, rec, pc, cons_pos, prod_pos, len, sample,
                     stored, log, taken, out>>
  BY DEF Commit, reader
<1>2. Committed(p, discard)
  BY CommitWrites
<1>3. /\ c \in DOMAIN log /\ data[Unit(log[c].pos)].busy /\ Whole(rec[p])'
      /\ \A i \in DOMAIN log : i # c /\ consumer_pos <= log[i].pos => Undisturbed(i)
  BY <1>2 DEF Committed
<1>4. ASSUME NEW i \in DOMAIN log, i > taken, i # c
      PROVE  data'[Unit(log[i].pos)] = data[Unit(log[i].pos)]
  <2>1. /\ Start(taken) <= log[i].pos /\ log[i].pos \in Nat /\ Start(taken) \in Nat
        /\ consumer_pos <= Start(taken) /\ consumer_pos \in Nat
    BY <1>0, <1>4, LogTypes, StartBounds DEF Types
  <2>2. consumer_pos <= log[i].pos
    BY ONLY <2>1
  <2>3. Undisturbed(i)
    BY <1>3, <1>4, <2>2
  <2>. QED
    BY <1>0, <2>3, UndisturbedWhole
<1>5. Types'
  <2>1. /\ log[c].len \in Nat /\ c \in Nat
    BY <1>0, <1>3, LogTypes
  <2>2. ASSUME NEW n \in Nat
        PROVE  [Header(n) EXCEPT !.busy = FALSE, !.discard = discard] \in Cells
    BY DEF Header, Cells
  <2>3. SampleOf(c) \in Cells
    BY <2>1 DEF SampleOf, Cells
  <2>4. data \in [0 .. Size - 1 -> Cells]
    BY <1>0 DEF Types
  <2>5. data' \in [0 .. Size - 1 -> Cells]
    BY <2>1, <2>2, <2>3, <2>4 DEF Commit
  <2>. QED
    BY <1>0, <1>1, <2>5 DEF Types
<1>6. Laid' /\ SamplesIntact'
  BY <1>0, <1>1 DEF Laid, End, Start, roundup_len, SamplesIntact
<1>7. Kept'
  <2>. SUFFICES ASSUME NEW i \in DOMAIN log, consumer_pos <= log[i].pos
                PROVE  Whole(i)'
    BY <1>1 DEF Kept
  <2>1. CASE i = c
    BY <1>1, <1>3, <2>1 DEF Whole, Unit, SampleUnits, roundup_len
  <2>2. CASE i # c
    BY <1>0, <1>3, <2>2, UndisturbedWhole DEF Kept
  <2>. QED
    BY <2>1, <2>2
<1>8. Owned'
  <2>1. ASSUME NEW q \in Producers, at'[q] = "reserved"
        PROVE  /\ at[q] = "reserved" /\ rec[q] \in taken + 1 .. Len(log)
               /\ data'[Unit(log[rec[q]].pos)].busy
    <3>1. at[q] = "reserved" /\ q # p /\ at[p] = "reserved"
      BY <1>0, <1>1, <2>1 DEF Types, Commit
    <3>2. /\ rec[q] \in taken + 1 .. Len(log) /\ data[Unit(log[rec[q]].pos)].busy
          /\ rec[q] # c
      BY <1>0, <3>1 DEF Owned, Mine
    <3>3. log \in Seq([pos : Nat, len : Lengths]) /\ taken \in Nat
      BY <1>0 DEF Types
    <3>4. DOMAIN log = 1 .. Len(log) /\ Len(log) \in Nat
      BY <3>3, LenProperties
    <3>5. rec[q] \in 1 .. Len(log) /\ rec[q] > taken
      BY <3>2, <3>3, <3>4
    <3>. QED
      BY <1>4, <3>1, <3>2, <3>4, <3>5
  <2>. QED
    BY <1>0, <1>1, <2>1 DEF Owned, Mine, Unit
<1>9. Reading'
  <2>1. ASSUME pc = "sample_cb" PROVE data'[Unit(stored)] = data[Unit(stored)]
    <3>1. AtRecord(taken + 1) /\ ~data[Unit(log[taken + 1].pos)].busy
      BY <2>1, ReadsRecord
    <3>2. /\ taken + 1 \in DOMAIN log /\ stored = log[taken + 1].pos /\ taken + 1 # c
          /\ taken \in Nat
      BY <1>0, <1>3, <3>1 DEF AtRecord, Types
    <3>3. taken + 1 > taken
      BY ONLY <3>2
    <3>. QED
      BY <1>4, <3>2, <3>3
  <2>. QED
    BY <1>0, <1>1, <2>1 DEF Reading, Start, End, Unit, roundup_len
<1>. QED
  BY <1>5, <1>6, <1>7, <1>8, <1>9 DEF RInv

-----------------------------------------------------------------------------
(* The invariant, and the properties that follow from it.                  *)

\* Every step keeps the invariant.
LEMMA StepRInv == RInv /\ [Next]_vars => RInv'
<1>1. ASSUME RInv, NEW p \in Producers, Produce(p) PROVE RInv'
  BY <1>1, ReserveRInv, CommitRInv, WakeRInv DEF Produce
<1>2. ASSUME RInv, UNCHANGED vars PROVE RInv'
  <2>1. /\ UNCHANGED <<data, producer_pos, at, rec, log, out, consumer_pos>>
        /\ UNCHANGED <<pc, cons_pos, prod_pos, len, sample, stored, taken>>
    BY <1>2 DEF vars, ring, reader
  <2>2. consumer_pos \in Nat
    BY <1>2 DEF RInv, Types
  <2>3. Still /\ Types'
    BY <1>2, <2>1, <2>2 DEF Still, RInv, Types
  <2>4. Reading'
    BY <1>2, <2>1 DEF RInv, Reading, Start, End, Unit
  <2>. QED
    BY <1>2, <2>1, <2>3, <2>4, QuietRInv DEF Quiet
<1>. QED
  BY <1>1, <1>2, FlushQuiet, EpollWaitQuiet, ConsumeQuiet, LoadConsumerQuiet,
     LoadProducerQuiet, LoadHeaderRInv, SampleCbRInv, StoreConsumerQuiet
     DEF Next, ringbuf_process_ring

\* The inductive invariant holds in every reachable state.
LEMMA AlwaysRInv == Spec => []RInv
<1>. QED
  BY InitRInv, StepRInv, PTL DEF Spec

\* What the invariant says of the positions.
LEMMA RInvOrdered == RInv => PositionsOrdered
<1>. SUFFICES ASSUME RInv PROVE PositionsOrdered
  OBVIOUS
<1>0. Types /\ Laid /\ Reading
  BY DEF RInv
<1>1. /\ consumer_pos <= stored /\ producer_pos - consumer_pos < Size
      /\ stored \in Nat /\ cons_pos \in Nat /\ producer_pos \in Nat
  BY <1>0 DEF Types, Reading
<1>2. Start(taken) \in Nat /\ Start(taken) <= producer_pos
  BY <1>0, StartBounds
<1>3. CASE pc = "sample_cb"
  <2>1. AtRecord(taken + 1) /\ cons_pos = End(taken + 1)
    BY <1>0, <1>3, ReadsRecord DEF Reading
  <2>2. /\ stored + 2 <= End(taken + 1) /\ End(taken + 1) <= producer_pos
        /\ End(taken + 1) \in Nat
    BY <1>0, <2>1 DEF AtRecord, Laid
  <2>3. stored <= cons_pos /\ cons_pos <= producer_pos
    BY <1>1, <2>1, <2>2
  <2>. QED
    BY <1>1, <2>3 DEF PositionsOrdered
<1>4. CASE pc # "sample_cb"
  <2>1. stored <= cons_pos /\ cons_pos = Start(taken)
    BY <1>0, <1>1, <1>4 DEF Reading
  <2>. QED
    BY <1>1, <1>2, <2>1 DEF PositionsOrdered
<1>. QED
  BY <1>3, <1>4

\* The reader never passes the producers, nor do they reserve what it has not
\* given back, however its store of consumer_pos is delayed.
THEOREM PositionsOrderedHolds == Spec => []PositionsOrdered
<1>. QED
  BY AlwaysRInv, RInvOrdered, PTL

\* Every sample handed to sample_cb is the whole sample of one record: it was
\* complete, and stays so until the reader gives its space back.
THEOREM SamplesIntactHolds == Spec => []SamplesIntact
<1>1. RInv => SamplesIntact
  BY DEF RInv
<1>. QED
  BY <1>1, AlwaysRInv, PTL

-----------------------------------------------------------------------------
(* The ring is a queue of records.                                         *)

Entries == [id : SUBSET Nat, status : {"busy", "committed", "discarded"}]

Entry(k) == [id |-> {k}, status |-> StatusAt(log[k].pos)]

\* The queue as a sequence.
IsQueue ==
  /\ Len(log) - taken \in Nat
  /\ Queue \in Seq(Entries) /\ Len(Queue) = Len(log) - taken
  /\ \A i \in 1 .. Len(log) - taken : Queue[i] = Entry(i + taken)

\* The refinement mapping is a sequence of entries, one for each record not passed.
LEMMA QueueSeq == RInv => IsQueue
<1>. SUFFICES ASSUME RInv PROVE IsQueue
  OBVIOUS
<1>. DEFINE n == Len(log) - taken
<1>1. log \in Seq([pos : Nat, len : Lengths]) /\ taken \in Nat /\ taken <= Len(log)
  BY DEF RInv, Types, Reading
<1>2. Len(log) \in Nat
  BY <1>1, LenProperties
<1>3. n \in Nat
  BY <1>1, <1>2
<1>4. Queue = [i \in 1 .. n |-> Entry(i + taken)]
  BY DEF Queue, Entry
<1>. HIDE DEF n
<1>5. ASSUME NEW i \in 1 .. n PROVE Entry(i + taken) \in Entries
  <2>1. i + taken \in Nat
    BY <1>1, <1>3
  <2>. QED
    BY <2>1 DEF Entry, Entries, StatusAt
<1>6. Queue \in [1 .. n -> Entries]
  BY <1>4, <1>5
<1>7. Queue \in Seq(Entries) /\ Len(Queue) = n
  BY <1>3, <1>6, SeqDef
<1>8. \A i \in 1 .. n : Queue[i] = Entry(i + taken)
  BY <1>4
<1>. QED
  BY <1>3, <1>7, <1>8 DEF IsQueue, n

\* So it is after a step.
LEMMA QueueSeqNext == RInv' => IsQueue'
BY QueueSeq, PTL

\* t is s with e behind it.
Grows(s, t, e) ==
  /\ Len(t) = Len(s) + 1
  /\ \A i \in 1 .. Len(s) : t[i] = s[i]
  /\ t[Len(s) + 1] = e

\* That is Append.
LEMMA GrowsAppend ==
  ASSUME NEW S, NEW s \in Seq(S), NEW t \in Seq(S), NEW e \in S, Grows(s, t, e)
  PROVE  t = Append(s, e)
<1>1. Len(s) \in Nat /\ Len(t) \in Nat
  BY LenProperties
<1>2. /\ Append(s, e) \in Seq(S) /\ Len(Append(s, e)) = Len(s) + 1
      /\ \A i \in 1 .. Len(s) : Append(s, e)[i] = s[i]
      /\ Append(s, e)[Len(s) + 1] = e
  BY <1>1, AppendProperties
<1>3. ASSUME NEW i \in 1 .. Len(t) PROVE t[i] = Append(s, e)[i]
  <2>1. CASE i = Len(s) + 1
    BY <1>2, <2>1 DEF Grows
  <2>2. CASE i # Len(s) + 1
    <3>1. i \in 1 .. Len(s)
      BY <1>1, <2>2 DEF Grows
    <3>. QED
      BY <1>2, <3>1 DEF Grows
  <2>. QED
    BY <2>1, <2>2
<1>4. Len(t) = Len(Append(s, e))
  BY <1>2 DEF Grows
<1>. QED
  BY <1>2, <1>3, <1>4, SeqEqual

\* t is s without its first element.
Shrinks(s, t) ==
  /\ Len(s) = Len(t) + 1
  /\ \A i \in 1 .. Len(t) : t[i] = s[i + 1]

\* That is Tail.
LEMMA ShrinksTail ==
  ASSUME NEW S, NEW s \in Seq(S), NEW t \in Seq(S), Shrinks(s, t)
  PROVE  s # <<>> /\ Head(s) = s[1] /\ t = Tail(s)
<1>1. Len(s) \in Nat /\ Len(t) \in Nat /\ Len(s) = Len(t) + 1
  BY LenProperties DEF Shrinks
<1>2. s # <<>>
  BY <1>1, EmptySeq
<1>3. /\ Tail(s) \in Seq(S) /\ Len(Tail(s)) = Len(s) - 1
      /\ \A i \in 1 .. Len(Tail(s)) : Tail(s)[i] = s[i + 1]
  BY <1>2, HeadTailProperties
<1>4. Len(t) = Len(Tail(s))
  BY <1>1, <1>3
<1>5. \A i \in 1 .. Len(t) : t[i] = Tail(s)[i]
  BY <1>3, <1>4 DEF Shrinks
<1>. QED
  BY <1>2, <1>3, <1>4, <1>5, SeqEqual

\* An empty ring is an empty queue.
LEMMA InitRecords == Init => Records!Init
<1>. SUFFICES ASSUME Init PROVE Queue = <<>> /\ out = <<>>
  BY DEF Records!Init
<1>1. RInv /\ Len(log) = 0 /\ taken = 0 /\ out = <<>>
  BY InitRInv, EmptySeq DEF Init
<1>2. Queue \in Seq(Entries) /\ Len(Queue) = 0
  BY <1>1, QueueSeq DEF IsQueue
<1>. QED
  BY <1>1, <1>2, EmptySeq

\* A step that writes no unit and passes no record is none of the queue.
LEMMA StutterRecords ==
  ASSUME UNCHANGED <<data, log, taken, out>>
  PROVE  UNCHANGED <<Queue, out>>
BY DEF Queue, StatusAt, Unit

\* The reader passes the first record.
LEMMA PassRecord ==
  ASSUME RInv, RInv', AtRecord(taken + 1), taken' = taken + 1, UNCHANGED <<data, log>>
  PROVE  /\ Queue # <<>> /\ Head(Queue) = Entry(taken + 1)
         /\ Queue' = Tail(Queue)
<1>1. IsQueue /\ IsQueue'
  BY QueueSeq, QueueSeqNext
<1>2. taken \in Nat /\ Len(log) \in Nat /\ Len(log') = Len(log)
  <2>1. log \in Seq([pos : Nat, len : Lengths]) /\ taken \in Nat
    BY DEF RInv, Types
  <2>. QED
    BY <2>1, LenProperties
<1>. DEFINE n == Len(log) - taken
            m == Len(log') - taken'
<1>3. n \in Nat /\ m \in Nat /\ n = m + 1
  BY <1>1, <1>2 DEF IsQueue
<1>4. /\ Queue \in Seq(Entries) /\ Len(Queue) = n
      /\ \A i \in 1 .. n : Queue[i] = Entry(i + taken)
  BY <1>1 DEF IsQueue
<1>5. /\ Queue' \in Seq(Entries) /\ Len(Queue') = m
      /\ \A i \in 1 .. m : Queue'[i] = Entry(i + taken)'
  BY <1>1 DEF IsQueue, Entries
<1>. HIDE DEF n, m
<1>6. ASSUME NEW i \in 1 .. m PROVE Queue'[i] = Queue[i + 1]
  <2>1. i + 1 \in 1 .. n /\ i + (taken + 1) = (i + 1) + taken
    BY <1>2, <1>3
  <2>2. Entry(i + taken)' = Entry(i + (taken + 1))
    BY DEF Entry, StatusAt, Unit
  <2>. QED
    BY <1>4, <1>5, <2>1, <2>2
<1>7. Shrinks(Queue, Queue')
  BY <1>3, <1>4, <1>5, <1>6 DEF Shrinks
<1>8. Queue # <<>> /\ Head(Queue) = Queue[1] /\ Queue' = Tail(Queue)
  BY <1>4, <1>5, <1>7, ShrinksTail
<1>9. Queue[1] = Entry(taken + 1)
  <2>1. 1 \in 1 .. n /\ 1 + taken = taken + 1
    BY <1>2, <1>3
  <2>. QED
    BY <1>4, <2>1
<1>. QED
  BY <1>8, <1>9

\* The reader passes over a discarded record, or looks at the header only.
LEMMA LoadHeaderRecords ==
  ASSUME RInv, LoadHeader
  PROVE  Records!PassOver \/ UNCHANGED <<Queue, out>>
<1>1. pc = "while" /\ UNCHANGED <<data, log, out>>
  BY DEF LoadHeader, ring
<1>2. CASE taken' = taken
  BY <1>1, <1>2, StutterRecords
<1>3. CASE taken' # taken
  <2>. DEFINE hdr == data[Unit(cons_pos)]
  <2>1. ~Finished /\ ~Busy(hdr) /\ hdr.discard /\ taken' = taken + 1
    BY <1>3 DEF LoadHeader
  <2>2. RInv'
    BY LoadHeaderRInv
  <2>3. taken' <= Len(log) /\ taken \in Nat
    BY <1>1, <2>2 DEF RInv, Reading, Types
  <2>4. taken < Len(log)
    <3>1. log \in Seq([pos : Nat, len : Lengths])
      BY DEF RInv, Types
    <3>2. Len(log) \in Nat
      BY <3>1, LenProperties
    <3>. QED
      BY <2>1, <2>3, <3>2
  <2>5. cons_pos = stored /\ stored = Start(taken)
    BY <1>1 DEF RInv, Reading
  <2>6. AtRecord(taken + 1)
    BY <2>4, <2>5, StandsAt
  <2>7. Queue # <<>> /\ Head(Queue) = Entry(taken + 1) /\ Queue' = Tail(Queue)
    BY <1>1, <2>1, <2>2, <2>6, PassRecord
  <2>8. Entry(taken + 1).status = "discarded"
    BY <2>1, <2>5, <2>6 DEF Entry, StatusAt, AtRecord, Busy
  <2>. QED
    BY <1>1, <2>7, <2>8 DEF Records!PassOver
<1>. QED
  BY <1>2, <1>3

\* The callback delivers the first record, which is committed.
LEMMA SampleCbRecords ==
  ASSUME RInv, SampleCb
  PROVE  Records!Deliver
<1>1. /\ pc = "sample_cb" /\ UNCHANGED <<data, log>> /\ taken' = taken + 1
      /\ out' = Append(out, {data[Unit(k)].id : k \in sample .. sample + roundup_len(len) - 2})
  BY DEF SampleCb, ring
<1>2. /\ AtRecord(taken + 1) /\ out' = Append(out, {taken + 1})
      /\ ~data[Unit(log[taken + 1].pos)].busy /\ ~data[Unit(log[taken + 1].pos)].discard
  BY <1>1, ReadsRecord
<1>3. Queue # <<>> /\ Head(Queue) = Entry(taken + 1) /\ Queue' = Tail(Queue)
  BY <1>1, <1>2, SampleCbRInv, PassRecord
<1>4. Entry(taken + 1).status = "committed" /\ Entry(taken + 1).id = {taken + 1}
  BY <1>2 DEF Entry, StatusAt
<1>. QED
  BY <1>2, <1>3, <1>4 DEF Records!Deliver

\* A reservation is one at the end of the queue.
LEMMA ReserveRecords ==
  ASSUME RInv, NEW p \in Producers, NEW n \in Lengths, Reserve(p, n)
  PROVE  \E id \in {{i} : i \in 1 .. MaxRecords} : Records!Reserve(id)
<1>. DEFINE L == Len(log)
            k == Len(log) - taken
            new == [id |-> {L + 1}, status |-> "busy"]
<1>0. Types /\ Laid /\ Reading
  BY DEF RInv
<1>1. Reserved(p, n) /\ RInv'
  BY ReserveWrites, ReserveRInv
<1>2. /\ DOMAIN log = 1 .. L /\ L \in Nat /\ taken \in Nat /\ taken' = taken /\ out' = out
      /\ L < MaxRecords /\ MaxRecords \in Nat
  <2>1. log \in Seq([pos : Nat, len : Lengths]) /\ taken \in Nat
    BY DEF RInv, Types
  <2>. QED
    BY <2>1, LenProperties, RingAssumption DEF Reserve
<1>3. /\ Len(log') = L + 1
      /\ (\A i \in DOMAIN log : log'[i] = log[i])
      /\ (\A i \in DOMAIN log : consumer_pos <= log[i].pos => Undisturbed(i))
      /\ log'[L + 1].pos = producer_pos /\ data'[Unit(producer_pos)] = Header(n)
  BY <1>1 DEF Reserved
<1>4. /\ k \in Nat /\ Queue \in Seq(Entries) /\ Len(Queue) = k
      /\ \A i \in 1 .. k : Queue[i] = Entry(i + taken)
  BY QueueSeq DEF IsQueue
<1>5. /\ Queue' \in Seq(Entries) /\ Len(Queue') = (L + 1) - taken
      /\ \A i \in 1 .. (L + 1) - taken : Queue'[i] = Entry(i + taken)'
  BY <1>1, <1>2, <1>3, QueueSeqNext DEF IsQueue, Entries
<1>6. (L + 1) - taken = k + 1 /\ (k + 1) + taken = L + 1 /\ L + 1 \in 1 .. MaxRecords
  BY <1>2
<1>. HIDE DEF k
<1>7. ASSUME NEW i \in 1 .. k PROVE Queue'[i] = Queue[i]
  <2>1. i + taken \in 1 .. L /\ i + taken > taken /\ i \in 1 .. (L + 1) - taken
    BY <1>2, <1>4 DEF k
  <2>2. i + taken \in DOMAIN log
    BY <1>2, <2>1
  <2>3. /\ Start(taken) <= log[i + taken].pos /\ consumer_pos <= Start(taken)
        /\ Start(taken) \in Nat /\ consumer_pos \in Nat /\ log[i + taken].pos \in Nat
    BY <1>0, <2>1, <2>2, StartBounds, LogTypes DEF Types
  <2>4. consumer_pos <= log[i + taken].pos
    BY ONLY <2>3
  <2>5. /\ log'[i + taken] = log[i + taken]
        /\ data'[Unit(log[i + taken].pos)] = data[Unit(log[i + taken].pos)]
    BY <1>0, <1>3, <2>2, <2>4, UndisturbedWhole
  <2>6. Entry(i + taken)' = Entry(i + taken)
    BY <1>2, <2>5 DEF Entry, StatusAt, Unit
  <2>. QED
    BY <1>4, <1>5, <2>1, <2>6
<1>8. Queue'[k + 1] = new
  <2>1. k + 1 \in 1 .. (L + 1) - taken
    BY <1>4, <1>6
  <2>2. ASSUME NEW i \in 1 .. (L + 1) - taken, i = k + 1 PROVE Queue'[i] = new
    <3>1. i + taken' = L + 1
      BY <1>2, <1>6, <2>2
    <3>2. Entry(i + taken)' = new
      <4>1. data'[Unit(log'[i + taken'].pos)].busy
        BY <1>3, <3>1 DEF Header
      <4>2. StatusAt(log[i + taken].pos)' = "busy"
        BY <4>1 DEF StatusAt, Unit
      <4>. QED
        BY <3>1, <4>2 DEF Entry
    <3>. QED
      BY <1>5, <3>2
  <2>. QED
    BY <2>1, <2>2
<1>9. new \in Entries
  BY <1>2 DEF Entries
<1>10. Grows(Queue, Queue', new)
  BY <1>4, <1>5, <1>6, <1>7, <1>8 DEF Grows
<1>11. Queue' = Append(Queue, new)
  BY <1>4, <1>5, <1>9, <1>10, GrowsAppend
<1>12. Records!Reserve({L + 1})
  BY <1>2, <1>11 DEF Records!Reserve
<1>. QED
  BY <1>6, <1>12

\* A commit or a discard finishes one record, wherever it is in the queue.
LEMMA CommitRecords ==
  ASSUME RInv, NEW p \in Producers, NEW discard \in BOOLEAN, Commit(p, discard)
  PROVE  \E i \in DOMAIN Queue, s \in {"committed", "discarded"} : Records!Finish(i, s)
<1>. DEFINE c == rec[p]
            k == Len(log) - taken
            i == c - taken
            s == IF discard THEN "discarded" ELSE "committed"
<1>0. Types /\ Laid /\ Reading
  BY DEF RInv
<1>1. Committed(p, discard) /\ RInv' /\ UNCHANGED <<log, taken, out>>
  BY CommitWrites, CommitRInv DEF Commit
<1>2. DOMAIN log = 1 .. Len(log) /\ Len(log) \in Nat /\ taken \in Nat
  <2>1. log \in Seq([pos : Nat, len : Lengths]) /\ taken \in Nat
    BY DEF RInv, Types
  <2>. QED
    BY <2>1, LenProperties
<1>3. /\ c \in taken + 1 .. Len(log) /\ c \in DOMAIN log
      /\ data[Unit(log[c].pos)].busy /\ ~data'[Unit(log[c].pos)].busy
      /\ data'[Unit(log[c].pos)].discard = discard
      /\ \A j \in DOMAIN log : j # c /\ consumer_pos <= log[j].pos => Undisturbed(j)
  BY <1>1 DEF Committed
<1>4. k \in Nat /\ i \in 1 .. k /\ i + taken = c
  BY <1>2, <1>3
<1>. HIDE DEF c, i, k
<1>5. Queue = [j \in 1 .. k |-> Entry(j + taken)]
  BY DEF Queue, Entry, k
<1>6. Queue' = [j \in 1 .. k |-> Entry(j + taken)']
  BY <1>1 DEF Queue, Entry, StatusAt, Unit, k
<1>7. ASSUME NEW j \in 1 .. k, j # i PROVE Entry(j + taken)' = Entry(j + taken)
  <2>1. j + taken \in 1 .. Len(log) /\ j + taken > taken /\ j + taken # c
    BY <1>2, <1>4, <1>7 DEF k
  <2>2. j + taken \in DOMAIN log
    BY <1>2, <2>1
  <2>3. /\ Start(taken) <= log[j + taken].pos /\ consumer_pos <= Start(taken)
        /\ Start(taken) \in Nat /\ consumer_pos \in Nat /\ log[j + taken].pos \in Nat
    BY <1>0, <2>1, <2>2, StartBounds, LogTypes DEF Types
  <2>4. consumer_pos <= log[j + taken].pos
    BY ONLY <2>3
  <2>5. data'[Unit(log[j + taken].pos)] = data[Unit(log[j + taken].pos)]
    BY <1>0, <1>3, <2>1, <2>2, <2>4, UndisturbedWhole
  <2>. QED
    BY <1>1, <2>5 DEF Entry, StatusAt, Unit
<1>8. Queue[i] = [id |-> {c}, status |-> "busy"]
  BY <1>3, <1>4, <1>5 DEF Entry, StatusAt
<1>9. ASSUME NEW j \in 1 .. k, j = i PROVE Entry(j + taken)' = [id |-> {c}, status |-> s]
  <2>1. j + taken' = c /\ log' = log
    BY <1>1, <1>4, <1>9
  <2>. QED
    BY <1>3, <2>1 DEF Entry, StatusAt, Unit
<1>10. [Queue[i] EXCEPT !.status = s] = [id |-> {c}, status |-> s]
  BY <1>8
<1>11. Queue' = [Queue EXCEPT ![i] = [id |-> {c}, status |-> s]]
  BY <1>4, <1>5, <1>6, <1>7, <1>9
<1>12. Queue' = [Queue EXCEPT ![i].status = s]
  BY <1>10, <1>11
<1>13. i \in DOMAIN Queue /\ Queue[i].status = "busy" /\ s \in {"committed", "discarded"}
  BY <1>4, <1>5, <1>8
<1>. QED
  BY <1>1, <1>12, <1>13 DEF Records!Finish

\* Every step is one of the queue, or none.
LEMMA StepRecords ==
  ASSUME RInv, [Next]_vars
  PROVE  [Records!Next]_<<Queue, out>>
<1>1. ASSUME NEW p \in Producers, Produce(p)
      PROVE  [Records!Next]_<<Queue, out>>
  <2>1. ASSUME NEW n \in Lengths, Reserve(p, n) PROVE Records!Next
    BY <2>1, ReserveRecords DEF Records!Next
  <2>2. ASSUME NEW discard \in BOOLEAN, Commit(p, discard) PROVE Records!Next
    BY <2>2, CommitRecords DEF Records!Next
  <2>3. ASSUME Wake(p) PROVE UNCHANGED <<Queue, out>>
    BY <2>3, StutterRecords DEF Wake
  <2>. QED
    BY <1>1, <2>1, <2>2, <2>3 DEF Produce
<1>2. ASSUME LoadHeader PROVE [Records!Next]_<<Queue, out>>
  BY <1>2, LoadHeaderRecords DEF Records!Next
<1>3. ASSUME SampleCb PROVE [Records!Next]_<<Queue, out>>
  BY <1>3, SampleCbRecords DEF Records!Next
<1>4. ASSUME Flush \/ EpollWait \/ Consume \/ LoadConsumer \/ LoadProducer
             \/ StoreConsumer \/ UNCHANGED vars
      PROVE  UNCHANGED <<Queue, out>>
  <2>1. UNCHANGED <<data, log, taken, out>>
    BY <1>4 DEF Flush, EpollWait, Consume, LoadConsumer, LoadProducer, StoreConsumer, vars, ring
  <2>. QED
    BY <2>1, StutterRecords
<1>. QED
  BY <1>1, <1>2, <1>3, <1>4 DEF Next, ringbuf_process_ring

\* The ring implements the queue of records: each record reaches the callback
\* once, in the order of its reservation, when it is committed and not before.
THEOREM RingBufRefines == Spec => ImplementsRecordQueue
<1>1. Init => Records!Init
  BY InitRecords
<1>2. RInv /\ [Next]_vars => [Records!Next]_<<Queue, out>>
  BY StepRecords
<1>. QED
  BY <1>1, <1>2, AlwaysRInv, PTL DEF Spec, ImplementsRecordQueue, Records!Spec

=============================================================================
