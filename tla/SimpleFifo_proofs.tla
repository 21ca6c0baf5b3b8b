--------------------------- MODULE SimpleFifo_proofs ---------------------------
(***************************************************************************)
(* Proofs about SimpleFifo, for every capacity, burst length and pause.    *)
(***************************************************************************)
EXTENDS SimpleFifo, SequenceTheorems, TLAPS

\* The ring index of an offset smaller than two capacities.
LEMMA RingIndex ==
  ASSUME NEW n \in Nat \ {0}, NEW a \in Nat, a < n + n
  PROVE  a % n = IF a < n THEN a ELSE a - n
<1>1. CASE a < n
  BY <1>1, SMT
<1>2. CASE a >= n
  BY <1>2, SMT
<1> QED BY <1>1, <1>2, SMT

\* Two offsets of a ring of n slots are in the same slot only if equal.
LEMMA RingDistinct ==
  ASSUME NEW n \in Nat \ {0}, NEW f \in 0..n-1, NEW j \in 0..n-1, NEW k \in 0..n-1, j # k
  PROVE  /\ (f + j) % n \in 0..n-1
         /\ (f + j) % n # (f + k) % n
<1> DEFINE a == f + j
           b == f + k
<1>1. a \in Nat /\ a < n + n /\ b \in Nat /\ b < n + n /\ a # b /\ a - n # b /\ b - n # a
  OBVIOUS
<1> HIDE DEF a, b
<1>2. a % n = IF a < n THEN a ELSE a - n
  BY <1>1, RingIndex
<1>3. b % n = IF b < n THEN b ELSE b - n
  BY <1>1, RingIndex
<1>4. a % n \in 0..n-1 /\ a % n # b % n
  BY <1>1, <1>2, <1>3
<1> QED BY <1>4 DEF a, b

\* Moving the start of a ring by one shifts the offsets by one.
LEMMA RingShift ==
  ASSUME NEW n \in Nat \ {0}, NEW f \in 0..n-1, NEW k \in 0..n-2
  PROVE  /\ (f + 1) % n \in 0..n-1
         /\ (((f + 1) % n) + k) % n = (f + (k + 1)) % n
<1> DEFINE h == f + 1
           g == h % n
           a == g + k
           b == f + (k + 1)
<1>1. h \in Nat /\ h < n + n /\ b \in Nat /\ b < n + n /\ h = f + 1 /\ b = f + k + 1
  OBVIOUS
<1> HIDE DEF h, b
<1>2. h % n = IF h < n THEN h ELSE h - n
  BY <1>1, RingIndex
<1>3. b % n = IF b < n THEN b ELSE b - n
  BY <1>1, RingIndex
<1>4. g \in 0..n-1 /\ g = IF h < n THEN h ELSE h - n
  BY <1>1, <1>2
<1> HIDE DEF g
<1>5. a \in Nat /\ a < n + n /\ a = g + k
  BY <1>4
<1> HIDE DEF a
<1>6. a % n = IF a < n THEN a ELSE a - n
  BY <1>5, RingIndex
<1>7. a % n = b % n
  BY <1>1, <1>3, <1>4, <1>5, <1>6
<1> QED BY <1>4, <1>7 DEF a, b, g, h

\* The initial state satisfies the inductive invariant.
LEMMA InitIInv == Init => IInv
  BY SizeAssumption, TotalAssumption, PauseAssumption
  DEF Init, IInv, TypeOK, InOrder, NoLostWakeup, BurstAccounted, Idle

\* The invariant is inductive.
LEMMA NextIInv == IInv /\ [Next]_vars => IInv'
<1> SUFFICES ASSUME IInv, [Next]_vars PROVE IInv'
  OBVIOUS
<1> USE SizeAssumption, TotalAssumption, PauseAssumption
<1> USE DEF IInv, NoLostWakeup, BurstAccounted, Idle, fifo, stats, locals
<1>1. CASE Dispatch
  BY <1>1 DEF Dispatch, TypeOK, InOrder, ReadyP, ReadyC
<1>2. CASE AdvanceTime
  BY <1>2 DEF AdvanceTime, TypeOK, InOrder
<1>3. CASE StartBurst
  <2>1. UNCHANGED <<fifo, stats, p, total, pcC, timeP, timeC, running>> /\ pcP' = "write"
    BY <1>3 DEF StartBurst
  <2>2. i' \in 1..MaxBurst /\ total >= 0
    BY <1>3 DEF StartBurst
  <2>3. TypeOK'
    BY <2>1, <2>2 DEF TypeOK
  <2>4. InOrder'
    BY <2>1 DEF InOrder
  <2>5. NoLostWakeup'
    BY <2>1 DEF TypeOK
  <2>6. p' + total' = Total /\ total' - i' >= -MaxBurst
    <3>1. PICK n \in 1..MaxBurst : i' = n
      BY <2>2
    <3>2. total - n >= -MaxBurst
      BY <2>2 DEF TypeOK
    <3> QED BY <2>1, <3>1, <3>2
  <2>7. BurstAccounted'
    BY <2>1, <2>6
  <2> QED BY <2>3, <2>4, <2>5, <2>7
<1>4. CASE WriteBlocks
  BY <1>4 DEF WriteBlocks, Full, TypeOK, InOrder
<1>5. CASE WritePuts
  <2>1. nr_elm < Size /\ i > 0
    BY <1>5 DEF WritePuts, Full, TypeOK, InOrder
  <2>2. Slot \in 0..Size-1
    BY DEF Slot, TypeOK, InOrder
  <2>3. TypeOK'
    BY <1>5, <2>1, <2>2 DEF WritePuts, Full, TypeOK, InOrder
  <2>4. (nr_elm \in 0..Size /\ p = nr_read + nr_elm)'
    BY <1>5, <2>1 DEF WritePuts, Full, TypeOK, InOrder
  <2>5. ASSUME NEW k \in 0..nr_elm PROVE data'[(first + k) % Size] = nr_read + k
    <3>1. CASE k = nr_elm
      BY <1>5, <2>2, <3>1 DEF WritePuts, Full, Slot, TypeOK, InOrder
    <3>2. CASE k < nr_elm
      <4>1. k \in 0..Size-1 /\ nr_elm \in 0..Size-1 /\ k # nr_elm /\ first \in 0..Size-1
        BY <2>1, <3>2 DEF TypeOK, InOrder
      <4>2. (first + k) % Size \in 0..Size-1 /\ (first + k) % Size # Slot
        BY ONLY <4>1, SizeAssumption, RingDistinct DEF Slot
      <4>3. data' = [data EXCEPT ![Slot] = p]
        BY <1>5 DEF WritePuts
      <4>4. data'[(first + k) % Size] = data[(first + k) % Size]
        BY ONLY <4>2, <4>3, TypeOK DEF TypeOK
      <4>5. data[(first + k) % Size] = nr_read + k
        BY <3>2 DEF InOrder, TypeOK
      <4> QED BY <4>4, <4>5
    <3> QED BY <3>1, <3>2 DEF InOrder
  <2>6. InOrder'
    BY <1>5, <2>1, <2>4, <2>5 DEF WritePuts, Full, TypeOK, InOrder
  <2>7. NoLostWakeup'
    BY <1>5, <2>1 DEF WritePuts, Full, TypeOK, InOrder
  <2>8. BurstAccounted'
    BY <1>5, <2>1 DEF WritePuts, Full, TypeOK, InOrder
  <2> QED BY <2>3, <2>6, <2>7, <2>8
<1>6. CASE EndBurst
  BY <1>6 DEF EndBurst, TypeOK, InOrder
<1>7. CASE ReadBlocks
  BY <1>7 DEF ReadBlocks, TypeOK, InOrder
<1>8. CASE ReadGets
  <2>1. nr_elm > 0
    BY <1>8 DEF ReadGets, NextFirst, Sample, NotifyProducer, TypeOK, InOrder
  <2>2. first' \in 0..Size-1
    BY <1>8, RingShift DEF ReadGets, NextFirst, Sample, NotifyProducer, TypeOK
  <2>3. TypeOK'
    BY <1>8, <2>1, <2>2 DEF ReadGets, NextFirst, Sample, NotifyProducer, TypeOK, InOrder
  <2>4. (nr_elm \in 0..Size /\ p = nr_read + nr_elm)'
    BY <1>8, <2>1 DEF ReadGets, NextFirst, Sample, NotifyProducer, TypeOK, InOrder
  <2>5. ASSUME NEW k \in 0..nr_elm-2 PROVE data[(first' + k) % Size] = nr_read + 1 + k
    <3>1. first' = (first + 1) % Size /\ first \in 0..Size-1 /\ k \in 0..Size-2
      BY <1>8 DEF ReadGets, NextFirst, Sample, NotifyProducer, TypeOK, InOrder
    <3>2. (first' + k) % Size = (first + (k + 1)) % Size
      BY ONLY <3>1, SizeAssumption, RingShift
    <3>3. k + 1 \in 0..nr_elm-1
      BY DEF TypeOK
    <3>4. data[(first + (k + 1)) % Size] = nr_read + (k + 1)
      BY ONLY <3>3, InOrder DEF InOrder
    <3> QED BY <3>2, <3>4 DEF TypeOK
  <2>6. InOrder'
    BY <1>8, <2>1, <2>4, <2>5 DEF ReadGets, NextFirst, Sample, NotifyProducer, TypeOK, InOrder
  <2>7. (NoLostWakeup /\ BurstAccounted)'
    BY <1>8, <2>1 DEF ReadGets, NextFirst, Sample, NotifyProducer, TypeOK, InOrder
  <2> QED BY <2>3, <2>6, <2>7
<1>9. CASE UNCHANGED vars
  BY <1>9 DEF vars, TypeOK, InOrder
<1> QED
  BY <1>1, <1>2, <1>3, <1>4, <1>5, <1>6, <1>7, <1>8, <1>9 DEF Next, Producer, Consumer

-----------------------------------------------------------------------------
\* The variables keep their types: in particular `first' stays inside the ring.
THEOREM TypeCorrect == Spec => []TypeOK
<1>1. IInv => TypeOK
  BY DEF IInv
<1> QED BY InitIInv, NextIInv, <1>1, PTL DEF Spec

\* fifo::read returns the characters in the order fifo::write took them, and
\* the fifo never holds more than Size, for every Size and every burst.
THEOREM FifoOrder == Spec => []InOrder
<1>1. IInv => InOrder
  BY DEF IInv
<1> QED BY InitIInv, NextIInv, <1>1, PTL DEF Spec

\* With one writer and one reader the `if' before each wait is enough: neither
\* thread is left waiting for a condition that already holds, and neither is
\* resumed to one that does not.
THEOREM WakeupsSound == Spec => []NoLostWakeup
<1>1. IInv => NoLostWakeup
  BY DEF IInv
<1> QED BY InitIInv, NextIInv, <1>1, PTL DEF Spec

-----------------------------------------------------------------------------
(* The statistics of compute_stats. *)

\* The mean of samples is at most their maximum.
LEMMA MeanStep ==
  ASSUME NEW n \in Nat, NEW a \in Int, NEW m \in Nat, NEW k \in Nat, NEW s \in Nat,
         a <= n * m, m <= k, s <= k
  PROVE  a + s <= (n + 1) * k
<1>1. PICK d \in Nat : k = m + d
  <2>1. k - m \in Nat /\ k = m + (k - m)
    OBVIOUS
  <2> QED BY <2>1
<1>2. n * d \in Nat /\ n * k = n * m + n * d /\ n * m \in Nat
  BY <1>1
<1>3. (n + 1) * k = n * k + k
  OBVIOUS
<1> QED BY <1>2, <1>3

\* A sample is only taken of a fifo that is not empty: see InOrder and
\* NoLostWakeup.
StatsInv == StatsMeaningful /\ max_used \in Nat

\* The statistics' invariant is inductive, given the fifo's.
LEMMA NextStats == IInv /\ StatsInv /\ [Next]_vars => StatsInv'
<1> SUFFICES ASSUME IInv, StatsInv, [Next]_vars PROVE StatsInv'
  OBVIOUS
<1>1. CASE ReadGets
  <2>1. nr_elm \in 1..Size
    BY <1>1 DEF ReadGets, IInv, InOrder, NoLostWakeup
  <2>2. /\ nr_read' = nr_read + 1 /\ average' = average + nr_elm
        /\ max_used' = IF nr_elm > max_used THEN nr_elm ELSE max_used
    BY <1>1 DEF ReadGets, Sample
  <2>3. nr_read \in Nat /\ average \in Int /\ max_used \in Nat
    BY DEF IInv, TypeOK, StatsInv
  <2>4. max_used' \in Nat /\ max_used <= max_used' /\ nr_elm <= max_used' /\ max_used' <= Size
    BY <2>1, <2>2, <2>3, SizeAssumption DEF StatsInv, StatsMeaningful
  <2>5. average + nr_elm <= (nr_read + 1) * max_used'
    <3>1. average <= nr_read * max_used /\ nr_elm \in Nat
      BY <2>1, SizeAssumption DEF StatsInv, StatsMeaningful
    <3> QED BY ONLY <3>1, <2>3, <2>4, MeanStep
  <2>6. nr_read' <= average'
    BY <2>1, <2>2, <2>3 DEF StatsInv, StatsMeaningful
  <2> QED BY <2>2, <2>4, <2>5, <2>6 DEF StatsInv, StatsMeaningful
<1>2. CASE UNCHANGED stats
  BY <1>2 DEF stats, StatsInv, StatsMeaningful
<1> QED
  BY <1>1, <1>2 DEF Next, vars, Producer, Consumer, Dispatch, AdvanceTime, StartBurst,
                    WriteBlocks, WritePuts, EndBurst, ReadBlocks

\* compute_stats of sc_simple_fifo.h: the fill depths printed at the end are
\* between one and Size, and the average is not above the maximum.
THEOREM StatsSound == Spec => []StatsMeaningful
<1>1. Init => StatsInv
  BY SizeAssumption DEF Init, StatsInv, StatsMeaningful
<1>2. StatsInv => StatsMeaningful
  BY DEF StatsInv
<1> QED BY InitIInv, NextIInv, NextStats, <1>1, <1>2, PTL DEF Spec

-----------------------------------------------------------------------------
(* The ring buffer implements the bounded queue. *)

\* The contents are a run of consecutive values, the oldest the next to be read.
LEMMA ContentsSeq ==
  ASSUME IInv
  PROVE  /\ Contents \in Seq(Nat) /\ Len(Contents) = nr_elm
         /\ \A k \in 1..nr_elm : Contents[k] = nr_read + k - 1
<1>1. nr_elm \in Nat /\ nr_read \in Nat
  BY DEF IInv, TypeOK, InOrder
<1>2. ASSUME NEW k \in 1..nr_elm PROVE data[(first + k - 1) % Size] = nr_read + k - 1
  <2>1. k - 1 \in 0..nr_elm-1
    BY <1>1, <1>2
  <2>2. data[(first + (k - 1)) % Size] = nr_read + (k - 1)
    BY ONLY <2>1, IInv DEF IInv, InOrder
  <2>3. first + (k - 1) = first + k - 1 /\ nr_read + (k - 1) = nr_read + k - 1
    BY <1>1, <1>2 DEF IInv, TypeOK
  <2> QED BY ONLY <2>2, <2>3
<1>3. \A k \in 1..nr_elm : Contents[k] = nr_read + k - 1 /\ Contents[k] \in Nat
  BY <1>1, <1>2 DEF Contents
<1>4. Contents = [k \in 1..nr_elm |-> Contents[k]]
  BY DEF Contents
<1> QED BY <1>1, <1>3, <1>4

\* A sequence of successive numbers, without its first or with one more.
LEMMA IntervalTail ==
  ASSUME NEW s \in Seq(Nat), NEW t \in Seq(Nat), NEW n \in Nat, NEW a \in Nat,
         n > 0, Len(s) = n, Len(t) = n - 1,
         \A k \in 1..n : s[k] = a + k - 1,
         \A k \in 1..n-1 : t[k] = a + 1 + k - 1
  PROVE  t = Tail(s) /\ s # << >>
<1>1. s # << >>
  OBVIOUS
<1>2. Tail(s) \in Seq(Nat) /\ Len(Tail(s)) = n - 1
  BY <1>1
<1>3. ASSUME NEW k \in 1..n-1 PROVE t[k] = Tail(s)[k]
  <2>1. Tail(s)[k] = s[k + 1] /\ k + 1 \in 1..n
    BY <1>1
  <2>2. s[k + 1] = a + (k + 1) - 1
    BY <2>1
  <2>3. t[k] = a + 1 + k - 1
    OBVIOUS
  <2>4. a + (k + 1) - 1 = a + 1 + k - 1
    OBVIOUS
  <2> QED BY ONLY <2>1, <2>2, <2>3, <2>4, Zenon
<1>4. t = Tail(s)
  BY <1>2, <1>3, SeqEqual
<1> QED BY <1>1, <1>4

\* What a step does to the contents depends on nr_read and nr_elm only: by
\* InOrder they are the interval from nr_read on.
LEMMA StepQueue == IInv /\ IInv' /\ [Next]_vars => [Queue!Next]_Contents
<1> SUFFICES ASSUME IInv, IInv', [Next]_vars PROVE [Queue!Next]_Contents
  OBVIOUS
<1>1. /\ Contents \in Seq(Nat) /\ Len(Contents) = nr_elm
      /\ \A k \in 1..nr_elm : Contents[k] = nr_read + k - 1
  BY ContentsSeq
<1>2. /\ Contents' \in Seq(Nat) /\ Len(Contents') = nr_elm'
      /\ \A k \in 1..nr_elm' : Contents'[k] = nr_read' + k - 1
  <2>1. ASSUME IInv' PROVE
          (/\ Contents \in Seq(Nat) /\ Len(Contents) = nr_elm
           /\ \A k \in 1..nr_elm : Contents[k] = nr_read + k - 1)'
    BY <2>1, ContentsSeq, PTL
  <2> QED BY <2>1
<1>3. nr_elm \in Nat /\ nr_read \in Nat /\ p = nr_read + nr_elm
  BY DEF IInv, TypeOK, InOrder
<1>4. CASE WritePuts
  <2>1. nr_elm' = nr_elm + 1 /\ nr_read' = nr_read /\ nr_elm < Size
    <3>1. nr_elm' = nr_elm + 1 /\ nr_read' = nr_read
      BY <1>4 DEF WritePuts, stats
    <3>2. nr_elm < Size
      BY <1>4, <1>3, SizeAssumption DEF WritePuts, Full, IInv, InOrder, NoLostWakeup
    <3> QED BY <3>1, <3>2
  <2>2. p \in 0..(Total + MaxBurst)
    BY <1>4, TotalAssumption DEF WritePuts, IInv, TypeOK, BurstAccounted
  <2>3. Contents' = Append(Contents, p)
    BY <1>1, <1>2, <1>3, <2>1
  <2> QED BY <1>1, <2>1, <2>2, <2>3 DEF Queue!Next, Queue!Put
<1>5. CASE ReadGets
  <2>1. nr_elm' = nr_elm - 1 /\ nr_read' = nr_read + 1 /\ nr_elm > 0
    BY <1>5 DEF ReadGets, IInv, TypeOK, InOrder, NoLostWakeup
  <2>2. Contents' = Tail(Contents) /\ Contents # << >>
    <3> DEFINE c == Contents
               d == Contents'
    <3>1. /\ c \in Seq(Nat) /\ d \in Seq(Nat) /\ Len(c) = nr_elm /\ Len(d) = nr_elm - 1
          /\ \A k \in 1..nr_elm : c[k] = nr_read + k - 1
          /\ \A k \in 1..nr_elm-1 : d[k] = nr_read + 1 + k - 1
      BY <1>1, <1>2, <2>1
    <3> HIDE DEF c, d
    <3>2. d = Tail(c) /\ c # << >>
      BY <1>3, <2>1, <3>1, IntervalTail
    <3> QED BY <3>2 DEF c, d
  <2> QED BY <2>2 DEF Queue!Next, Queue!Get
<1>6. CASE UNCHANGED <<data, nr_elm, first>>
  BY <1>6 DEF Contents
<1>7. WritePuts \/ ReadGets \/ UNCHANGED <<data, nr_elm, first>>
  BY DEF Next, Producer, Consumer, Dispatch, AdvanceTime, StartBurst, WriteBlocks, EndBurst,
         ReadBlocks, vars, fifo
<1> QED BY <1>4, <1>5, <1>6, <1>7

\* fifo::write and fifo::read, with their waits and whatever the two threads do,
\* implement the put and the get of a queue bounded by Size.
THEOREM Refinement == Spec => ImplementsQueue
<1>1. Init => Queue!Init
  BY DEF Init, Queue!Init, Contents
<1>2. IInv /\ IInv' /\ [Next]_vars => [Queue!Next]_Contents
  BY StepQueue
<1> QED BY InitIInv, NextIInv, <1>1, <1>2, PTL DEF Spec, ImplementsQueue, Queue!Spec
=============================================================================
