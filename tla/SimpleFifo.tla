------------------------------ MODULE SimpleFifo ------------------------------
(***************************************************************************)
(* The character fifo of sc_simple_fifo.h between the producer thread and  *)
(* the consumer thread of testbench/sc_simple_fifo.                        *)
(*                                                                         *)
(* Threads are coroutines: a thread keeps the processor until it waits, so *)
(* `running' holds the thread whose segment is in progress and no action   *)
(* of the other one may fall inside it.  A thread blocked in wait(event)   *)
(* becomes ready when the event is notified (immediate notification) and   *)
(* is dispatched later; what it does then is decided by the state it finds *)
(* at that moment, not by the state that made it ready.                    *)
(***************************************************************************)
EXTENDS Integers

CONSTANTS
  Size,         \* capacity of the fifo
  MaxBurst,     \* most characters written without a pause
  Total,        \* characters after which the producer ends its last burst
  WritePause,   \* wait after a burst, in units of the consumer's pause
  ReadPause     \* wait after a read

ASSUME SizeAssumption  == Size \in Nat \ {0}
ASSUME TotalAssumption == Total \in Nat /\ MaxBurst \in Nat \ {0}
ASSUME PauseAssumption == WritePause \in Nat \ {0} /\ ReadPause \in Nat \ {0}

VARIABLES
  data, nr_elm, first,         \* class fifo: the ring buffer
  nr_read, max_used, average,  \* class fifo: the statistics of compute_stats
  p, i, total,                 \* locals of producer::worker; a character is
                               \* known by its place p in the stream
  pcP, pcC,                    \* where producer and consumer are
  timeP, timeC,                \* time left of their timed waits
  running                      \* the thread in execution

fifo   == <<data, nr_elm, first>>
stats  == <<nr_read, max_used, average>>
locals == <<p, i, total>>
vars   == <<fifo, stats, locals, pcP, pcC, timeP, timeC, running>>

Idle == "idle"

\* The values the variables take: `first' stays inside the ring.
TypeOK ==
  /\ data \in [0..Size-1 -> Nat]
  /\ nr_elm \in Int
  /\ first \in 0..Size-1
  /\ nr_read \in Nat /\ max_used \in Int /\ average \in Int
  /\ p \in Nat
  /\ i \in 0..MaxBurst
  /\ total \in (-MaxBurst)..Total
  /\ pcP \in {"burst", "write", "r_event", "resumed", "sleep", "done"}
  /\ pcC \in {"read", "w_event", "resumed", "sleep"}
  /\ timeP \in 0..WritePause /\ timeC \in 0..ReadPause
  /\ running \in {Idle, "producer", "consumer"}

Init ==
  /\ data = [k \in 0..Size-1 |-> 0]       \* the bytes of new char[size] are never read first
  /\ nr_elm = 0 /\ first = 0
  /\ p = 0 /\ i = 0 /\ total = Total
  /\ nr_read = 0 /\ max_used = 0 /\ average = 0
  /\ pcP = "burst" /\ pcC = "read"     \* both threads are made runnable at start
  /\ timeP = 0 /\ timeC = 0
  /\ running = Idle

-----------------------------------------------------------------------------
(* The scheduler *)

ReadyP == pcP \in {"burst", "write", "resumed"}
ReadyC == pcC \in {"read", "resumed"}

Dispatch ==
  /\ running = Idle
  /\ \/ ReadyP /\ running' = "producer"
     \/ ReadyC /\ running' = "consumer"
  /\ UNCHANGED <<fifo, stats, locals, pcP, pcC, timeP, timeC>>

\* Time moves to the earliest timed wait once nothing is ready.
AdvanceTime ==
  /\ running = Idle /\ ~ReadyP /\ ~ReadyC
  /\ \E d \in 1..(WritePause + ReadPause) :
       /\ pcP = "sleep" => d <= timeP
       /\ pcC = "sleep" => d <= timeC
       /\ \/ pcP = "sleep" /\ d = timeP
          \/ pcC = "sleep" /\ d = timeC
       /\ timeP' = IF pcP = "sleep" THEN timeP - d ELSE timeP
       /\ timeC' = IF pcC = "sleep" THEN timeC - d ELSE timeC
       /\ pcP' = IF pcP = "sleep" /\ d = timeP THEN "burst" ELSE pcP
       /\ pcC' = IF pcC = "sleep" /\ d = timeC THEN "read" ELSE pcC
  /\ UNCHANGED <<fifo, stats, locals, running>>

-----------------------------------------------------------------------------
(* producer::worker and fifo::write *)

StartBurst ==
  /\ running = "producer" /\ pcP = "burst"
  /\ i' \in 1..MaxBurst
  /\ pcP' = "write"
  /\ UNCHANGED <<fifo, stats, p, total, pcC, timeP, timeC, running>>

\* Faulty: the test lets one more character in.
FullMutant == nr_elm > Size
\* Faulty: the last slot is never used.
FullEarlyMutant == nr_elm >= Size - 1
Full == nr_elm = Size

\* if (nr_elm == size) wait(r_event);
WriteBlocks ==
  /\ running = "producer" /\ pcP = "write" /\ i > 0
  /\ Full
  /\ pcP' = "r_event" /\ running' = Idle
  /\ UNCHANGED <<fifo, stats, locals, pcC, timeP, timeC>>

\* Faulty: one slot too far.
SlotMutant == (first + nr_elm + 1) % Size
Slot == (first + nr_elm) % Size

\* The rest of write: reached directly, or after the wait without a new test
\* of nr_elm.  The notification makes a waiting consumer ready.
WritePuts ==
  /\ running = "producer"
  /\ \/ pcP = "write" /\ i > 0 /\ ~Full
     \/ pcP = "resumed"
  /\ data' = [data EXCEPT ![Slot] = p]
  /\ nr_elm' = nr_elm + 1
  /\ pcC' = IF pcC = "w_event" THEN "resumed" ELSE pcC
  /\ p' = p + 1
  /\ total' = total - 1
  /\ i' = i - 1
  /\ pcP' = "write"
  /\ UNCHANGED <<first, stats, timeP, timeC, running>>

EndBurst ==
  /\ running = "producer" /\ pcP = "write" /\ i = 0
  /\ IF total <= 0
       THEN pcP' = "done" /\ timeP' = timeP
       ELSE pcP' = "sleep" /\ timeP' = WritePause
  /\ running' = Idle
  /\ UNCHANGED <<fifo, stats, locals, pcC, timeC>>

-----------------------------------------------------------------------------
(* consumer::worker and fifo::read *)

\* if (nr_elm == 0) wait(w_event);
ReadBlocks ==
  /\ running = "consumer" /\ pcC = "read"
  /\ nr_elm = 0
  /\ pcC' = "w_event" /\ running' = Idle
  /\ UNCHANGED <<fifo, stats, locals, pcP, timeP, timeC>>

\* Faulty: the ring does not close.
NextFirstMutant == first + 1
NextFirst == (first + 1) % Size

\* Faulty: the sample is taken after the character has left.
SampleMutant == nr_elm - 1
\* compute_stats counts the characters in the fifo, the one being read included.
Sample == nr_elm

\* Faulty: r_event is not notified.
NotifyProducerMutant == pcP
\* r_event.notify()
NotifyProducer == IF pcP = "r_event" THEN "resumed" ELSE pcP

\* The rest of read, then the consumer's wait(100, SC_NS).
ReadGets ==
  /\ running = "consumer"
  /\ \/ pcC = "read" /\ nr_elm # 0
     \/ pcC = "resumed"
  /\ average' = average + Sample
  /\ max_used' = IF Sample > max_used THEN Sample ELSE max_used
  /\ nr_read' = nr_read + 1
  /\ nr_elm' = nr_elm - 1
  /\ first' = NextFirst
  /\ pcP' = NotifyProducer
  /\ pcC' = "sleep" /\ timeC' = ReadPause /\ running' = Idle
  /\ UNCHANGED <<data, locals, timeP>>

-----------------------------------------------------------------------------
Producer == StartBurst \/ WriteBlocks \/ WritePuts \/ EndBurst
Consumer == ReadBlocks \/ ReadGets
Next == Dispatch \/ AdvanceTime \/ Producer \/ Consumer

\* The kernel keeps running while anything can run.  Nothing is assumed about
\* which of two ready threads goes first.
Fairness == WF_vars(Next)

Spec == Init /\ [][Next]_vars /\ Fairness

-----------------------------------------------------------------------------
(* Properties *)

\* What the ring buffer holds, oldest first.
Contents == [k \in 1..nr_elm |-> data[(first + k - 1) % Size]]

\* The buffer holds exactly the characters written and not yet read, in the
\* order they were written: none lost, none doubled, none overwritten.  It is
\* what could fail because write and read do not test nr_elm again after wait.
InOrder ==
  /\ nr_elm \in 0..Size
  /\ p = nr_read + nr_elm
  /\ \A k \in 0..nr_elm-1 : data[(first + k) % Size] = nr_read + k

\* A thread blocked on an event is one whose condition still fails, so the
\* other thread's next call notifies it; a thread made ready finds its
\* condition true when it is dispatched.
NoLostWakeup ==
  /\ pcP = "r_event" => nr_elm = Size
  /\ pcC = "w_event" => nr_elm = 0
  /\ pcP = "resumed" => nr_elm < Size
  /\ pcC = "resumed" => nr_elm > 0

\* The producer's count-down: it never runs below the last burst, whatever is
\* left of that burst, and a call of write is part of a burst.
BurstAccounted ==
  /\ p + total = Total
  /\ total - i >= -MaxBurst
  /\ pcP \in {"burst", "sleep"} => total >= 0 /\ i = 0
  /\ pcP \in {"r_event", "resumed"} => i > 0

\* The strengthening under which InOrder and NoLostWakeup are inductive.
IInv == TypeOK /\ InOrder /\ NoLostWakeup /\ BurstAccounted

\* The statistics printed at the end are those of a fifo that never held more
\* than Size characters, and never less than one when read.
StatsMeaningful ==
  /\ nr_read <= average /\ average <= nr_read * max_used
  /\ max_used <= Size

\* Whatever the bursts and the speeds, the producer ends and every character
\* it wrote is read; the simulation then stops with an empty fifo.
AllDelivered == <>[](pcP = "done" /\ pcC = "w_event" /\ nr_read = p)

Queue == INSTANCE BoundedQueue WITH q <- Contents, Item <- 0..(Total + MaxBurst)

\* write and read implement a bounded queue: each adds at the end or takes from
\* the front, and nothing is added to a full queue or taken from an empty one.
ImplementsQueue == Queue!Spec

=============================================================================
