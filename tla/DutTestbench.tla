---------------------------- MODULE DutTestbench ----------------------------
(***************************************************************************)
(* The sc_dut testbench: the producer and the consumer of tb_dut.cpp with  *)
(* the DUT between them, over two sc_rvd channels, all three threads on    *)
(* one clock and one reset.  A step of a thread is its segment from one    *)
(* wait to the next.  sc_main holds the reset for one edge; here it may    *)
(* come back, for up to Resets edges in all.  The first reset is one edge  *)
(* here too: a thread that starts in reset has m_throw_status THROW_NONE   *)
(* and would not be restarted at a second one.                             *)
(***************************************************************************)
EXTENDS RvdPort, Naturals

CONSTANTS
  BufSize,     \* outer_i stays below it (10)
  Reads,       \* values the consumer reads (40)
  PauseEvery,  \* the producer waits once more after that many values (6)
  Width,       \* values of sc_uint<8> (256)
  Resets,      \* edges with the reset active (1)
  MaxItems     \* bound of the producer's counter; TypeOK says it is not reached

ASSUME SizesAssumption ==
  /\ BufSize \in Nat \ {0, 1} /\ Reads \in Nat \ {0}
  /\ PauseEvery \in Nat \ {0} /\ Width \in Nat \ {0} /\ Resets \in Nat \ {0}
  /\ MaxItems \in Nat

VARIABLES
  toDut, toTb,     \* the channels tb_to_dut and dut_to_tb
  producer,        \* "start", in "write", or the extra "pause"
  value,           \* its loop counter i
  dut,             \* "start", in "read" or in "write"
  outer, inner,    \* outer_i and inner_i of work_thread
  buf,             \* data of work_thread
  consumer,        \* "start", in "read", or "stopped" (sc_stop)
  reads,           \* its loop counter i
  due, inReset,    \* as in Rvd, for the three threads
  resets,          \* edges with the reset active so far
  rounds           \* history: values that went through in finished rounds

producerVars == <<producer, value>>
dutVars == <<dut, outer, inner, buf, rounds>>
consumerVars == <<consumer, reads>>
vars == <<toDut, toTb, producerVars, dutVars, consumerVars, due, inReset, resets>>

Threads == {"producer", "dut", "consumer"}
Stopped == consumer = "stopped"

EmptyBuf == [n \in 0 .. BufSize - 1 |-> 0]

Init ==
  /\ toDut = Channel /\ toTb = Channel
  /\ producer = "start" /\ value = 0
  /\ dut = "start" /\ outer = 0 /\ inner = 0 /\ buf = EmptyBuf /\ rounds = 0
  /\ consumer = "start" /\ reads = 0
  /\ due = {} /\ inReset = TRUE /\ resets = 0

\* The update and the next clock edge, unless the simulation was stopped.  inReset
\* is THROW_SYNC_RESET in every thread; a reset at the second edge was away between.
Edge ==
  /\ due = {} /\ ~Stopped
  /\ toDut' = Updated(toDut) /\ toTb' = Updated(toTb)
  /\ due' = Threads
  /\ \/ resets > 0 /\ inReset' = FALSE /\ UNCHANGED resets
     \/ resets < Resets /\ inReset' = TRUE /\ resets' = resets + 1
  /\ UNCHANGED <<producerVars, dutVars, consumerVars>>

Runs(t) == t \in due /\ due' = due \ {t} /\ UNCHANGED <<inReset, resets>>

-----------------------------------------------------------------------------
(* TB_DUT::producer *)

ProducerRuns == Runs("producer") /\ UNCHANGED <<toTb, dutVars, consumerVars>>

ProducerResets ==
  /\ ProducerRuns /\ inReset
  /\ toDut' = Withdraw(toDut) /\ producer' = "start" /\ value' = 0

\* The first segment after the reset, and the one after the extra wait.
ProducerWrites ==
  /\ ProducerRuns /\ ~inReset
  /\ producer \in {"start", "pause"}
  /\ toDut' = Offer(toDut, value % Width) /\ producer' = "write"
  /\ UNCHANGED value

ProducerWaits ==
  /\ ProducerRuns /\ ~inReset
  /\ producer = "write" /\ ~Taken(toDut)
  /\ UNCHANGED <<toDut, producerVars>>

PauseDue == value > 0 /\ value % PauseEvery = 0

\* write() returns: the next one follows at once, or after one more wait.
ProducerWritten ==
  /\ ProducerRuns /\ ~inReset
  /\ producer = "write" /\ Taken(toDut) /\ value < MaxItems
  /\ value' = value + 1
  /\ IF PauseDue
     THEN toDut' = Withdraw(toDut) /\ producer' = "pause"
     ELSE toDut' = Offer(Withdraw(toDut), value' % Width) /\ producer' = "write"

-----------------------------------------------------------------------------
(* DUT::work_thread *)

DutRuns == Runs("dut") /\ UNCHANGED <<producerVars, consumerVars>>

DutResets ==
  /\ DutRuns /\ inReset
  /\ toDut' = Retire(toDut) /\ toTb' = Withdraw(toTb)
  /\ dut' = "start" /\ outer' = 0 /\ inner' = 0 /\ buf' = EmptyBuf /\ rounds' = 0

\* Round 0 reads nothing and writes nothing: read() of round 1 is called.
DutStarts ==
  /\ DutRuns /\ ~inReset
  /\ dut = "start"
  /\ toDut' = Request(toDut) /\ dut' = "read" /\ outer' = 1 /\ inner' = 0
  /\ UNCHANGED <<toTb, buf, rounds>>

DutWaits ==
  /\ DutRuns /\ ~inReset
  /\ \/ dut = "read" /\ ~Available(toDut)
     \/ dut = "write" /\ ~Taken(toTb)
  /\ UNCHANGED <<toDut, toTb, dutVars>>

\* Faulty: the first loop stores each value in the place of the one before.
StoredMutant == [buf EXCEPT ![IF inner = 0 THEN 0 ELSE inner - 1] = toDut.cur.data]
Stored == [buf EXCEPT ![inner] = toDut.cur.data]

\* read() returns.
DutReads ==
  /\ DutRuns /\ ~inReset
  /\ dut = "read" /\ Available(toDut)
  /\ buf' = Stored
  /\ IF inner + 1 < outer
     THEN /\ toDut' = Request(Retire(toDut)) /\ inner' = inner + 1
          /\ UNCHANGED <<toTb, dut>>
     ELSE /\ toDut' = Retire(toDut) /\ toTb' = Offer(toTb, buf'[0])
          /\ dut' = "write" /\ inner' = 0
  /\ UNCHANGED <<outer, rounds>>

\* Faulty: the rounds do not start again after the last.
NextOuterMutant == outer + 1
\* The next round; after the last one, round 0 goes by at once.
NextOuter == IF outer + 1 < BufSize THEN outer + 1 ELSE 1

\* write() returns.
DutWrites ==
  /\ DutRuns /\ ~inReset
  /\ dut = "write" /\ Taken(toTb)
  /\ IF inner + 1 < outer
     THEN /\ toTb' = Offer(Withdraw(toTb), buf[inner + 1]) /\ inner' = inner + 1
          /\ UNCHANGED <<toDut, dut, outer, rounds>>
     ELSE /\ toTb' = Withdraw(toTb) /\ toDut' = Request(toDut)
          /\ dut' = "read" /\ inner' = 0 /\ outer' = NextOuter
          /\ rounds' = rounds + outer
  /\ UNCHANGED buf

-----------------------------------------------------------------------------
(* TB_DUT::consumer *)

ConsumerRuns == Runs("consumer") /\ UNCHANGED <<toDut, producerVars, dutVars>>

ConsumerResets ==
  /\ ConsumerRuns /\ inReset
  /\ toTb' = Retire(toTb) /\ consumer' = "start" /\ reads' = 0

ConsumerStarts ==
  /\ ConsumerRuns /\ ~inReset
  /\ consumer = "start"
  /\ toTb' = Request(toTb) /\ consumer' = "read"
  /\ UNCHANGED reads

ConsumerWaits ==
  /\ ConsumerRuns /\ ~inReset
  /\ consumer = "read" /\ ~Available(toTb)
  /\ UNCHANGED <<toTb, consumerVars>>

\* read() returns, and after the last one the consumer calls sc_stop().
ConsumerReads ==
  /\ ConsumerRuns /\ ~inReset
  /\ consumer = "read" /\ Available(toTb)
  /\ reads' = reads + 1
  /\ IF reads' < Reads
     THEN toTb' = Request(Retire(toTb)) /\ UNCHANGED consumer
     ELSE toTb' = Retire(toTb) /\ consumer' = "stopped"

-----------------------------------------------------------------------------
Next ==
  \/ Edge
  \/ ProducerResets \/ ProducerWrites \/ ProducerWaits \/ ProducerWritten
  \/ DutResets \/ DutStarts \/ DutWaits \/ DutReads \/ DutWrites
  \/ ConsumerResets \/ ConsumerStarts \/ ConsumerWaits \/ ConsumerReads

\* The clock goes on and every thread runs at each edge.
Spec == Init /\ [][Next]_vars /\ WF_vars(Next)

-----------------------------------------------------------------------------
TypeOK ==
  /\ toDut.cur.data \in 0 .. Width - 1 /\ toTb.cur.data \in 0 .. Width - 1
  /\ producer \in {"start", "write", "pause"} /\ value \in 0 .. MaxItems - 1
  /\ dut \in {"start", "read", "write"}
  /\ outer \in 0 .. BufSize - 1
  /\ inner \in 0 .. BufSize - 1 /\ (dut # "start" => inner < outer)
  /\ buf \in [0 .. BufSize - 1 -> 0 .. Width - 1]
  /\ consumer \in {"start", "read", "stopped"} /\ reads \in 0 .. Reads
  /\ due \subseteq Threads /\ inReset \in BOOLEAN
  /\ resets \in 0 .. Resets /\ rounds \in Nat

\* The DUT between its channels: what it has read and what it has written.
DutGot  == IF dut = "write" THEN rounds + outer ELSE rounds + inner
DutSent == IF dut = "write" THEN rounds + inner ELSE rounds

\* The threads as writer and reader of a channel.
Call(inCall) == IF inCall THEN "in" ELSE "out"
DueAs(writer, reader) ==
  (IF writer \in due THEN {"writer"} ELSE {}) \cup (IF reader \in due THEN {"reader"} ELSE {})

ProducerCall == Call(producer = "write")
DutReadCall  == Call(dut = "read")
DutWriteCall == Call(dut = "write")
ConsumerCall == Call(consumer = "read")
InDue  == DueAs("producer", "dut")
OutDue == DueAs("dut", "consumer")

In == INSTANCE Rvd WITH
  c <- toDut, w <- ProducerCall, r <- DutReadCall, sent <- value, got <- DutGot, due <- InDue

Out == INSTANCE Rvd WITH
  c <- toTb, w <- DutWriteCall, r <- ConsumerCall, sent <- DutSent, got <- reads, due <- OutDue

\* Both channels are used as Rvd describes: what holds of any writer and reader of
\* an sc_rvd holds of the DUT and its testbench.
ImplementsRvd == In!Spec /\ Out!Spec

\* The DUT takes from the producer, and the consumer takes from the DUT, each value
\* once and in the order of the producer, also after a reset in mid-transfer.
TakesNext == In!TakesNext /\ Out!TakesNext

\* Both ends of each channel finish a transfer at the same clock edge.
SameEdge == In!SameEdge /\ Out!SameEdge

\* The consumer gets all its values and stops the simulation: the waits of the
\* three threads for each other never close to a cycle.
AllConsumed == <>Stopped
=============================================================================
