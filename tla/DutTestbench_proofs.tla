------------------------- MODULE DutTestbench_proofs -------------------------
(***************************************************************************)
(* The sc_dut testbench uses its two channels as Rvd describes, and every  *)
(* value passes once and in order, for all sizes of rounds, widths, pauses *)
(* and numbers of resets.  That the DUT writes what it has read rests on   *)
(* the order of the values it reads, hence on the invariant of the channel *)
(* before it, which Rvd_proofs gives.                                      *)
(***************************************************************************)
EXTENDS DutTestbench, TLAPS

InP == INSTANCE Rvd_proofs WITH
  c <- toDut, w <- ProducerCall, r <- DutReadCall, sent <- value, got <- DutGot, due <- InDue

OutP == INSTANCE Rvd_proofs WITH
  c <- toTb, w <- DutWriteCall, r <- ConsumerCall, sent <- DutSent, got <- reads, due <- OutDue

\* Where the DUT is in its round.
RoundInv ==
  /\ producer \in {"start", "write", "pause"} /\ value \in Nat
  /\ dut \in {"start", "read", "write"}
  /\ rounds \in Nat /\ inner \in Nat /\ outer \in Nat
  /\ dut = "start" => inner = 0
  /\ dut # "start" => inner < outer /\ outer < BufSize
  /\ consumer \in {"start", "read", "stopped"} /\ reads \in Nat
  /\ due \subseteq Threads

\* What the DUT has stored of its round is what the producer sent at those places.
Held == IF dut = "write" THEN outer ELSE inner
BufInv ==
  /\ DOMAIN buf = 0 .. BufSize - 1
  /\ \A k \in 0 .. BufSize - 1 : k < Held => buf[k] = (rounds + k) % Width

IInv == RoundInv /\ BufInv /\ InP!IInv /\ OutP!IInv

-----------------------------------------------------------------------------
(* In and InP, Out and OutP are the same actions. *)

\* A step of the channel into sc_dut is one of the channel proved about.
LEMMA SameIn == [In!Next]_(In!vars) => [InP!Next]_(InP!vars)
BY DEF In!Next, InP!Next, In!vars, InP!vars, In!Edge, InP!Edge,
       In!WriterRuns, InP!WriterRuns, In!WriterResets, InP!WriterResets,
       In!WriteWaits, InP!WriteWaits, In!WriterPauses, InP!WriterPauses,
       In!WriterOffers, InP!WriterOffers, In!ReaderRuns, InP!ReaderRuns,
       In!ReaderResets, InP!ReaderResets, In!ReadWaits, InP!ReadWaits,
       In!ReaderPauses, InP!ReaderPauses,
       In!ReaderRequests, InP!ReaderRequests, In!Written, InP!Written,
       In!Withdrawn, InP!Withdrawn, In!SentNow, InP!SentNow,
       In!Read, InP!Read, In!Retired, InP!Retired, In!GotNow, InP!GotNow,
       In!Updated, InP!Updated, In!Offer, InP!Offer,
       In!Withdraw, InP!Withdraw, In!Request, InP!Request,
       In!Retire, InP!Retire, In!Taken, InP!Taken,
       In!Available, InP!Available

\* A step of the channel out of sc_dut is one of the channel proved about.
LEMMA SameOut == [Out!Next]_(Out!vars) => [OutP!Next]_(OutP!vars)
BY DEF Out!Next, OutP!Next, Out!vars, OutP!vars, Out!Edge, OutP!Edge,
       Out!WriterRuns, OutP!WriterRuns,
       Out!WriterResets, OutP!WriterResets,
       Out!WriteWaits, OutP!WriteWaits,
       Out!WriterPauses, OutP!WriterPauses,
       Out!WriterOffers, OutP!WriterOffers,
       Out!ReaderRuns, OutP!ReaderRuns,
       Out!ReaderResets, OutP!ReaderResets, Out!ReadWaits, OutP!ReadWaits,
       Out!ReaderPauses, OutP!ReaderPauses,
       Out!ReaderRequests, OutP!ReaderRequests, Out!Written, OutP!Written,
       Out!Withdrawn, OutP!Withdrawn, Out!SentNow, OutP!SentNow,
       Out!Read, OutP!Read, Out!Retired, OutP!Retired,
       Out!GotNow, OutP!GotNow, Out!Updated, OutP!Updated,
       Out!Offer, OutP!Offer, Out!Withdraw, OutP!Withdraw,
       Out!Request, OutP!Request, Out!Retire, OutP!Retire,
       Out!Taken, OutP!Taken, Out!Available, OutP!Available

-----------------------------------------------------------------------------
(* The steps of the testbench as steps of its channels. *)

\* Which ports a process's step takes from the edge's work.
LEMMA Dues ==
  /\ Runs("producer") => /\ "writer" \in InDue /\ InDue' = InDue \ {"writer"}
                         /\ OutDue' = OutDue
  /\ Runs("dut") => /\ "reader" \in InDue /\ InDue' = InDue \ {"reader"}
                    /\ "writer" \in OutDue /\ OutDue' = OutDue \ {"writer"}
  /\ Runs("consumer") => /\ "reader" \in OutDue /\ OutDue' = OutDue \ {"reader"}
                         /\ InDue' = InDue
BY DEF Runs, InDue, OutDue, DueAs

\* A clock edge is one on both channels.
LEMMA EdgeMaps == Edge => In!Edge /\ Out!Edge
BY DEF Edge, In!Edge, Out!Edge, In!Updated, Out!Updated, Updated, InDue, OutDue, DueAs,
       Threads, producerVars, dutVars, consumerVars, ProducerCall, DutReadCall,
       DutWriteCall, ConsumerCall, Call, DutGot, DutSent

\* The producer is the writer of tb_to_dut, and nothing to dut_to_tb.
LEMMA ProducerMaps ==
  ASSUME ProducerResets \/ ProducerWrites \/ ProducerWaits \/ ProducerWritten
  PROVE  In!Next /\ UNCHANGED Out!vars
<1>1. /\ Runs("producer") /\ inReset' = inReset
      /\ UNCHANGED <<toTb, dut, outer, inner, buf, rounds, consumer, reads>>
  BY DEF ProducerResets, ProducerWrites, ProducerWaits, ProducerWritten, ProducerRuns,
         Runs, dutVars, consumerVars
<1>2. UNCHANGED Out!vars
  BY <1>1, Dues DEF Out!vars, DutWriteCall, ConsumerCall, Call, DutSent
<1>3. In!WriterRuns
  BY <1>1, Dues DEF In!WriterRuns, DutReadCall, Call, DutGot
<1>4. CASE ProducerResets
  <2>1. In!WriterResets
    BY <1>3, <1>4 DEF ProducerResets, In!WriterResets, In!Withdraw, Withdraw, ProducerCall, Call
  <2> QED BY <1>2, <2>1 DEF In!Next
<1>5. CASE ProducerWrites
  <2>1. In!WriterOffers
    BY <1>3, <1>5
    DEF ProducerWrites, In!WriterOffers, In!Withdrawn, In!SentNow, In!Written, In!Offer,
        Offer, ProducerCall, Call
  <2> QED BY <1>2, <2>1 DEF In!Next
<1>6. CASE ProducerWaits
  <2>1. In!WriteWaits
    BY <1>3, <1>6
    DEF ProducerWaits, In!WriteWaits, In!Taken, Taken, ProducerCall, Call, producerVars
  <2> QED BY <1>2, <2>1 DEF In!Next
<1>7. CASE ProducerWritten
  <2>1. In!Withdrawn = Withdraw(toDut) /\ In!SentNow = value + 1 /\ In!Taken(toDut)
    BY <1>7 DEF ProducerWritten, In!Withdrawn, In!SentNow, In!Written, In!Withdraw,
                Withdraw, In!Taken, Taken, ProducerCall, Call
  <2>2. CASE PauseDue
    <3>1. In!WriterPauses
      BY <1>3, <1>7, <2>1, <2>2 DEF ProducerWritten, In!WriterPauses, ProducerCall, Call
    <3> QED BY <1>2, <3>1 DEF In!Next
  <2>3. CASE ~PauseDue
    <3>1. In!WriterOffers
      BY <1>3, <1>7, <2>1, <2>3
      DEF ProducerWritten, In!WriterOffers, In!Offer, Offer, ProducerCall, Call
    <3> QED BY <1>2, <3>1 DEF In!Next
  <2> QED BY <2>2, <2>3
<1> QED
  BY <1>4, <1>5, <1>6, <1>7

\* The consumer is the reader of dut_to_tb, and nothing to tb_to_dut.
LEMMA ConsumerMaps ==
  ASSUME ConsumerResets \/ ConsumerStarts \/ ConsumerWaits \/ ConsumerReads
  PROVE  Out!Next /\ UNCHANGED In!vars
<1>1. /\ Runs("consumer") /\ inReset' = inReset
      /\ UNCHANGED <<toDut, dut, outer, inner, buf, rounds, producer, value>>
  BY DEF ConsumerResets, ConsumerStarts, ConsumerWaits, ConsumerReads, ConsumerRuns,
         Runs, dutVars, producerVars
<1>2. UNCHANGED In!vars
  BY <1>1, Dues DEF In!vars, DutReadCall, ProducerCall, Call, DutGot
<1>3. Out!ReaderRuns
  BY <1>1, Dues DEF Out!ReaderRuns, DutWriteCall, Call, DutSent
<1>4. CASE ConsumerResets
  <2>1. Out!ReaderResets
    BY <1>3, <1>4 DEF ConsumerResets, Out!ReaderResets, Out!Retire, Retire, ConsumerCall, Call
  <2> QED BY <1>2, <2>1 DEF Out!Next
<1>5. CASE ConsumerStarts
  <2>1. Out!ReaderRequests
    BY <1>3, <1>5
    DEF ConsumerStarts, Out!ReaderRequests, Out!Retired, Out!GotNow, Out!Read, Out!Request,
        Request, ConsumerCall, Call
  <2> QED BY <1>2, <2>1 DEF Out!Next
<1>6. CASE ConsumerWaits
  <2>1. Out!ReadWaits
    BY <1>3, <1>6
    DEF ConsumerWaits, Out!ReadWaits, Out!Available, Available, ConsumerCall, Call, consumerVars
  <2> QED BY <1>2, <2>1 DEF Out!Next
<1>7. CASE ConsumerReads
  <2>1. Out!Retired = Retire(toTb) /\ Out!GotNow = reads + 1 /\ Out!Available(toTb)
    BY <1>7 DEF ConsumerReads, Out!Retired, Out!GotNow, Out!Read, Out!Retire,
                Retire, Out!Available, Available, ConsumerCall, Call
  <2>2. CASE reads' < Reads
    <3>1. Out!ReaderRequests
      BY <1>3, <1>7, <2>1, <2>2
      DEF ConsumerReads, Out!ReaderRequests, Out!Request, Request, ConsumerCall, Call
    <3> QED BY <1>2, <3>1 DEF Out!Next
  <2>3. CASE ~(reads' < Reads)
    <3>1. Out!ReaderPauses
      BY <1>3, <1>7, <2>1, <2>3 DEF ConsumerReads, Out!ReaderPauses, ConsumerCall, Call
    <3> QED BY <1>2, <3>1 DEF Out!Next
  <2> QED BY <2>2, <2>3
<1> QED
  BY <1>4, <1>5, <1>6, <1>7

\* The value the DUT reads is the next one of its round, wherever it stores it.
LEMMA ReadsNext ==
  ASSUME RoundInv, BufInv, InP!IInv, DutReads
  PROVE  /\ DOMAIN Stored = 0 .. BufSize - 1
         /\ \A k \in 0 .. inner : Stored[k] = (rounds + k) % Width
<1>1. dut = "read" /\ Runs("dut") /\ ~inReset /\ Available(toDut)
  BY DEF DutReads, DutRuns
<1>2. InP!Read /\ "reader" \in InDue
  BY <1>1, Dues DEF InP!Read, InP!Available, Available, DutReadCall, Call
<1>3. toDut.cur.data = (rounds + inner) % Width
  BY <1>1, <1>2, InP!InvTakesNext DEF InP!TakesNext, DutGot
<1>4. inner \in 0 .. BufSize - 1 /\ rounds \in Nat
  BY <1>1, SizesAssumption DEF RoundInv
<1>5. \A k \in 0 .. inner : k # inner => Stored[k] = (rounds + k) % Width
  BY <1>1, <1>4, SizesAssumption DEF Stored, BufInv, Held
<1>6. Stored[inner] = (rounds + inner) % Width /\ DOMAIN Stored = 0 .. BufSize - 1
  BY <1>3, <1>4 DEF Stored, BufInv
<1> QED
  BY <1>5, <1>6

\* The DUT is the reader of the one channel and the writer of the other.
LEMMA DutMaps ==
  ASSUME RoundInv, BufInv, InP!IInv,
         DutResets \/ DutStarts \/ DutWaits \/ DutReads \/ DutWrites
  PROVE  In!Next /\ Out!Next
<1>1. /\ Runs("dut") /\ inReset' = inReset
      /\ UNCHANGED <<producer, value, consumer, reads>>
  BY DEF DutResets, DutStarts, DutWaits, DutReads, DutWrites, DutRuns, Runs,
         producerVars, consumerVars
<1>2. In!ReaderRuns /\ Out!WriterRuns
  BY <1>1, Dues DEF In!ReaderRuns, Out!WriterRuns, ProducerCall, ConsumerCall, Call
<1>3. rounds \in Nat /\ inner \in Nat /\ outer \in Nat
  BY DEF RoundInv
<1>4. SUFFICES (In!ReaderResets \/ In!ReadWaits \/ In!ReaderPauses \/ In!ReaderRequests)
               /\ (Out!WriterResets \/ Out!WriteWaits \/ Out!WriterPauses \/ Out!WriterOffers)
  BY DEF In!Next, Out!Next
<1> USE DEF DutReadCall, DutWriteCall, Call, DutGot, DutSent
<1>5. CASE DutResets
  <2>1. In!ReaderResets
    BY <1>2, <1>5 DEF DutResets, In!ReaderResets, In!Retire, Retire
  <2>2. Out!WriterResets
    BY <1>2, <1>5 DEF DutResets, Out!WriterResets, Out!Withdraw, Withdraw
  <2> QED BY <2>1, <2>2
<1>6. CASE DutStarts
  <2>1. inner = 0
    BY <1>6 DEF DutStarts, RoundInv
  <2>2. In!ReaderRequests
    BY <1>2, <1>6, <2>1
    DEF DutStarts, In!ReaderRequests, In!Retired, In!GotNow, In!Read, In!Request, Request
  <2>3. Out!WriterPauses
    BY <1>2, <1>6 DEF DutStarts, Out!WriterPauses, Out!Withdrawn, Out!SentNow, Out!Written
  <2> QED BY <2>2, <2>3
<1>7. CASE DutWaits
  <2>1. dut' = dut /\ outer' = outer /\ inner' = inner /\ rounds' = rounds
        /\ toDut' = toDut /\ toTb' = toTb /\ ~inReset
    BY <1>7 DEF DutWaits, dutVars
  <2>2. CASE dut = "read" /\ ~Available(toDut)
    <3>1. In!ReadWaits
      BY <1>2, <2>1, <2>2 DEF In!ReadWaits, In!Available, Available
    <3>2. Out!WriterPauses
      BY <1>2, <2>1, <2>2 DEF Out!WriterPauses, Out!Withdrawn, Out!SentNow, Out!Written
    <3> QED BY <3>1, <3>2
  <2>3. CASE dut = "write" /\ ~Taken(toTb)
    <3>1. In!ReaderPauses
      BY <1>2, <2>1, <2>3 DEF In!ReaderPauses, In!Retired, In!GotNow, In!Read
    <3>2. Out!WriteWaits
      BY <1>2, <2>1, <2>3 DEF Out!WriteWaits, Out!Taken, Taken
    <3> QED BY <3>1, <3>2
  <2> QED BY <1>7, <2>2, <2>3 DEF DutWaits
<1>8. CASE DutReads
  <2>1. dut = "read" /\ ~inReset /\ inner < outer /\ rounds' = rounds /\ outer' = outer
    BY <1>8 DEF DutReads, RoundInv
  <2>2. /\ In!Retired = Retire(toDut) /\ In!GotNow = rounds + inner + 1
        /\ In!Available(toDut)
    BY <1>8 DEF DutReads, In!Retired, In!GotNow, In!Read, In!Retire, Retire,
                In!Available, Available
  <2>3. Out!Withdrawn = toTb /\ Out!SentNow = rounds
    BY <2>1 DEF Out!Withdrawn, Out!SentNow, Out!Written
  <2>4. CASE inner + 1 < outer
    <3>1. /\ toDut' = Request(Retire(toDut)) /\ inner' = inner + 1
          /\ toTb' = toTb /\ dut' = dut
      BY <1>8, <2>4 DEF DutReads
    <3>2. In!ReaderRequests
      <4>1. (rounds + inner) + 1 = rounds + (inner + 1)
        BY <1>3
      <4> QED
        BY <1>2, <2>1, <2>2, <3>1, <4>1 DEF In!ReaderRequests, In!Request, Request
    <3>3. Out!WriterPauses
      BY <1>2, <2>1, <2>3, <3>1 DEF Out!WriterPauses
    <3> QED BY <3>2, <3>3
  <2>5. CASE ~(inner + 1 < outer)
    <3>1. /\ toDut' = Retire(toDut) /\ toTb' = Offer(toTb, buf'[0])
          /\ dut' = "write" /\ inner' = 0 /\ buf' = Stored
      BY <1>8, <2>5 DEF DutReads
    <3>2. outer = inner + 1
      BY <1>3, <2>1, <2>5
    <3>3. In!ReaderPauses
      <4>1. (rounds + inner) + 1 = rounds + (inner + 1)
        BY <1>3
      <4> QED
        BY <1>2, <2>1, <2>2, <3>1, <3>2, <4>1 DEF In!ReaderPauses
    <3>4. buf'[0] = rounds % Width
      BY <1>3, <1>8, <3>1, ReadsNext
    <3>5. rounds + inner' = rounds
      BY <1>3, <3>1
    <3>6. Out!WriterOffers
      BY <1>2, <2>1, <2>3, <3>1, <3>4, <3>5 DEF Out!WriterOffers, Out!Offer, Offer
    <3> QED BY <3>3, <3>6
  <2> QED BY <2>4, <2>5
<1>9. CASE DutWrites
  <2>1. dut = "write" /\ ~inReset /\ inner < outer /\ outer < BufSize
    BY <1>9 DEF DutWrites, RoundInv
  <2>2. /\ Out!Withdrawn = Withdraw(toTb) /\ Out!SentNow = rounds + inner + 1
        /\ Out!Taken(toTb)
    BY <1>9 DEF DutWrites, Out!Withdrawn, Out!SentNow, Out!Written, Out!Withdraw, Withdraw,
                Out!Taken, Taken
  <2>3. In!Retired = toDut /\ In!GotNow = rounds + outer
    BY <2>1 DEF In!Retired, In!GotNow, In!Read
  <2>4. (rounds + inner) + 1 = rounds + (inner + 1)
    BY <1>3
  <2>5. CASE inner + 1 < outer
    <3>1. /\ toTb' = Offer(Withdraw(toTb), buf[inner + 1]) /\ inner' = inner + 1
          /\ toDut' = toDut /\ dut' = dut /\ outer' = outer /\ rounds' = rounds
      BY <1>9, <2>5 DEF DutWrites
    <3>2. In!ReaderPauses
      BY <1>2, <2>1, <2>3, <3>1 DEF In!ReaderPauses
    <3>3. buf[inner + 1] = (rounds + (inner + 1)) % Width
      BY <1>3, <2>1, <2>5, SizesAssumption DEF BufInv, Held
    <3>4. Out!WriterOffers
      BY <1>2, <2>1, <2>2, <2>4, <3>1, <3>3 DEF Out!WriterOffers, Out!Offer, Offer
    <3> QED BY <3>2, <3>4
  <2>6. CASE ~(inner + 1 < outer)
    <3>1. /\ toTb' = Withdraw(toTb) /\ toDut' = Request(toDut)
          /\ dut' = "read" /\ inner' = 0 /\ rounds' = rounds + outer
      BY <1>9, <2>6 DEF DutWrites
    <3>2. outer = inner + 1
      BY <1>3, <2>1, <2>6
    <3>3. rounds' + inner' = rounds + outer
      BY <1>3, <3>1
    <3>4. In!ReaderRequests
      BY <1>2, <2>1, <2>3, <3>1, <3>3 DEF In!ReaderRequests, In!Request, Request
    <3>5. Out!WriterPauses
      BY <1>2, <2>1, <2>2, <2>4, <3>1, <3>2 DEF Out!WriterPauses
    <3> QED BY <3>4, <3>5
  <2> QED BY <2>5, <2>6
<1> QED
  BY <1>5, <1>6, <1>7, <1>8, <1>9

\* Every step of the testbench is a step of each channel, or leaves it alone.
LEMMA StepMaps ==
  ASSUME IInv, [Next]_vars
  PROVE  [In!Next]_(In!vars) /\ [Out!Next]_(Out!vars)
<1>1. CASE Edge
  BY <1>1, EdgeMaps DEF In!Next, Out!Next
<1>2. CASE ProducerResets \/ ProducerWrites \/ ProducerWaits \/ ProducerWritten
  BY <1>2, ProducerMaps
<1>3. CASE DutResets \/ DutStarts \/ DutWaits \/ DutReads \/ DutWrites
  BY <1>3, DutMaps DEF IInv
<1>4. CASE ConsumerResets \/ ConsumerStarts \/ ConsumerWaits \/ ConsumerReads
  BY <1>4, ConsumerMaps
<1>5. CASE UNCHANGED vars
  BY <1>5 DEF vars, producerVars, dutVars, consumerVars, In!vars, Out!vars, ProducerCall,
     DutReadCall, DutWriteCall, ConsumerCall, Call, DutGot, DutSent, InDue, OutDue, DueAs
<1> QED
  BY <1>1, <1>2, <1>3, <1>4, <1>5 DEF Next

-----------------------------------------------------------------------------
(* The invariant. *)

\* The testbench starts with both channels in their initial states.
LEMMA InitMaps == Init => In!Init /\ Out!Init
BY DEF Init, In!Init, Out!Init, Channel, Signals, In!Channel, In!Signals, Out!Channel,
   Out!Signals, ProducerCall, DutReadCall, DutWriteCall, ConsumerCall, Call, DutGot,
   DutSent, InDue, OutDue, DueAs

\* The invariant holds when the simulation starts.
LEMMA InitInv == Init => IInv
<1> SUFFICES ASSUME Init PROVE IInv
  OBVIOUS
<1>1. InP!Init /\ OutP!Init
  BY InitMaps DEF In!Init, InP!Init, Out!Init, OutP!Init, In!Channel, InP!Channel,
     In!Signals, InP!Signals, Out!Channel, OutP!Channel, Out!Signals, OutP!Signals
<1>2. InP!IInv /\ OutP!IInv
  BY <1>1, InP!InitInv, OutP!InitInv
<1>3. RoundInv
  BY DEF Init, RoundInv
<1>4. BufInv
  BY SizesAssumption DEF Init, BufInv, Held, EmptyBuf
<1> QED
  BY <1>2, <1>3, <1>4 DEF IInv

\* Each step keeps the order of the processes within an edge.
LEMMA RoundNext == RoundInv /\ [Next]_vars => RoundInv'
<1> SUFFICES ASSUME RoundInv, [Next]_vars PROVE RoundInv'
  OBVIOUS
<1> USE SizesAssumption DEF RoundInv, Runs, producerVars, dutVars, consumerVars
<1>1. CASE Edge
  BY <1>1 DEF Edge
<1>2. CASE ProducerResets \/ ProducerWrites \/ ProducerWaits \/ ProducerWritten
  BY <1>2 DEF ProducerResets, ProducerWrites, ProducerWaits, ProducerWritten, ProducerRuns
<1>3. CASE DutResets \/ DutStarts \/ DutWaits
  BY <1>3 DEF DutResets, DutStarts, DutWaits, DutRuns
<1>4. CASE DutReads
  BY <1>4 DEF DutReads, DutRuns
<1>5. CASE DutWrites
  BY <1>5 DEF DutWrites, DutRuns, NextOuter
<1>6. CASE ConsumerResets \/ ConsumerStarts \/ ConsumerWaits \/ ConsumerReads
  BY <1>6 DEF ConsumerResets, ConsumerStarts, ConsumerWaits, ConsumerReads, ConsumerRuns
<1>7. CASE UNCHANGED vars
  BY <1>7 DEF vars
<1> QED
  BY <1>1, <1>2, <1>3, <1>4, <1>5, <1>6, <1>7 DEF Next

\* Each step keeps what is buffered between the two channels.
LEMMA BufNext ==
  ASSUME RoundInv, BufInv, InP!IInv, [Next]_vars
  PROVE  BufInv'
<1>1. CASE Edge \/ UNCHANGED vars
  BY <1>1 DEF BufInv, Held, Edge, vars, dutVars
<1>2. CASE ProducerResets \/ ProducerWrites \/ ProducerWaits \/ ProducerWritten
  BY <1>2 DEF BufInv, Held, ProducerResets, ProducerWrites, ProducerWaits, ProducerWritten,
              ProducerRuns, dutVars
<1>3. CASE ConsumerResets \/ ConsumerStarts \/ ConsumerWaits \/ ConsumerReads
  BY <1>3 DEF BufInv, Held, ConsumerResets, ConsumerStarts, ConsumerWaits, ConsumerReads,
              ConsumerRuns, dutVars
<1>4. CASE DutResets
  BY <1>4 DEF DutResets, BufInv, Held, EmptyBuf
<1>5. CASE DutStarts
  BY <1>5 DEF DutStarts, BufInv, Held
<1>6. CASE DutWaits
  BY <1>6 DEF DutWaits, BufInv, Held, dutVars
<1>7. CASE DutReads
  <2>1. /\ buf' = Stored /\ rounds' = rounds /\ outer' = outer
        /\ dut = "read" /\ inner < outer /\ inner \in Nat /\ outer \in Nat
    BY <1>7 DEF DutReads, RoundInv
  <2>2. Held' = inner + 1
    <3>1. CASE inner + 1 < outer
      BY <1>7, <2>1, <3>1 DEF DutReads, Held
    <3>2. CASE ~(inner + 1 < outer)
      <4>1. dut' = "write" /\ outer = inner + 1
        BY <1>7, <2>1, <3>2 DEF DutReads
      <4> QED BY <2>1, <4>1 DEF Held
    <3> QED BY <3>1, <3>2
  <2> QED BY <1>7, <2>1, <2>2, ReadsNext, SizesAssumption DEF BufInv
<1>8. CASE DutWrites
  <2>1. CASE inner + 1 < outer
    BY <1>8, <2>1 DEF DutWrites, BufInv, Held
  <2>2. CASE ~(inner + 1 < outer)
    BY <1>8, <2>2 DEF DutWrites, BufInv, Held
  <2> QED BY <2>1, <2>2
<1> QED
  BY <1>1, <1>2, <1>3, <1>4, <1>5, <1>6, <1>7, <1>8 DEF Next

\* The invariant is inductive.
LEMMA NextInv == IInv /\ [Next]_vars => IInv'
<1> SUFFICES ASSUME IInv, [Next]_vars PROVE IInv'
  OBVIOUS
<1>1. [InP!Next]_(InP!vars) /\ [OutP!Next]_(OutP!vars)
  BY StepMaps, SameIn, SameOut
<1>2. InP!IInv' /\ OutP!IInv'
  BY <1>1, InP!NextInv, OutP!NextInv DEF IInv
<1> QED
  BY <1>2, RoundNext, BufNext DEF IInv

\* The invariant holds throughout.
LEMMA InvHolds == Spec => []IInv
BY InitInv, NextInv, PTL DEF Spec

-----------------------------------------------------------------------------
\* The DUT and the consumer take each value once and in the order of the producer.
THEOREM EveryValueInOrder == Spec => []TakesNext
<1>1. IInv => TakesNext
  BY InP!InvTakesNext, OutP!InvTakesNext
  DEF IInv, TakesNext, In!TakesNext, InP!TakesNext, Out!TakesNext, OutP!TakesNext,
      In!Read, InP!Read, In!Available, InP!Available, Out!Read, OutP!Read,
      Out!Available, OutP!Available
<1> QED
  BY <1>1, InvHolds, PTL

\* Both ends of each channel finish a transfer at the same clock edge.
THEOREM EndsAgree == Spec => []SameEdge
<1>1. IInv => SameEdge
  BY InP!InvSameEdge, OutP!InvSameEdge
  DEF IInv, SameEdge, In!SameEdge, InP!SameEdge, Out!SameEdge, OutP!SameEdge
<1> QED
  BY <1>1, InvHolds, PTL

\* The testbench uses its channels as Rvd describes.
THEOREM UsesRvd == Spec => ImplementsRvd
<1>1. Init => In!Init /\ Out!Init
  BY InitMaps
<1>2. IInv /\ [Next]_vars => [In!Next]_(In!vars) /\ [Out!Next]_(Out!vars)
  BY StepMaps
<1> QED
  BY <1>1, <1>2, InvHolds, PTL DEF Spec, ImplementsRvd, In!Spec, Out!Spec
=============================================================================
