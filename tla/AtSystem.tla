------------------------------- MODULE AtSystem -------------------------------
(***************************************************************************)
(* An AT platform: traffic generators, AT initiators, a SimpleBusAT         *)
(* (or direct bindings) and AT targets, run by the SystemC kernel.         *)
(***************************************************************************)
EXTENDS TrafficGenerator, AtInitiator, SimpleBusAT, AtTarget

CONSTANTS IniKinds     \* the choices of a kind for every initiator

ASSUME IniKindAssumption == IniKinds \subseteq [Initiator -> {"select", "explicit", "annotated"}]

\* The sockets are bound through a SimpleBusAT or directly, and no generator's
\* addresses reach the last word of a memory, which check_address rejects.
ASSUME AtPlatformAssumption == ~Blocking /\ NI * TxnsPerPass + 1 < MemorySize

vars == <<shared, tg, ini, bus, tgt>>

\* The methods have dont_initialize().
Init == SharedInit(ThreadOrder) /\ TgInit /\ BusInit /\ TgtInit
          /\ \E kinds \in IniKinds : IniInit(kinds)

\* sc_start returns: nothing can run and nothing is pending, or a fatal report.
Stopped ==
  \/ fatal
  \/ /\ Evaluated(simc) /\ simc.update = << >>
     /\ DeltaPending(simc) = {} /\ TimedPending(simc) = {}

Step ==
  \/ Scheduler /\ UNCHANGED <<tg, ini, bus, tgt>>
  \/ \E n \in Initiator : TgStep(n) /\ UNCHANGED <<ini, bus, tgt>>
  \/ \E n \in Initiator : IniStep(n) /\ UNCHANGED <<tg, bus, tgt>>
  \/ BusStep /\ UNCHANGED <<tg, ini, tgt>>
  \/ \E m \in Target : TgtStep(m) /\ UNCHANGED <<tg, ini, bus>>

Next == Step \/ (Stopped /\ UNCHANGED vars)

\* The kernel runs until it has stopped.  This is WF_vars(Step), with ~Stopped
\* for ENABLED Step: the deadlock check of the runs shows they agree.
Fairness == []<>Stopped \/ []<><<Step>>_vars

Spec == Init /\ [][Next]_vars /\ Fairness

-----------------------------------------------------------------------------
(* Type invariant *)

LongestDelay == AcceptDelay + ReadDelay + WriteDelay + EndRspDelay

\* Every component's state has the shape its code can give it: queued times are
\* non-negative and bounded by the platform's delays, fifos and their counters
\* agree, and the bus's iterators name payloads and sockets of this platform.
TypeOK ==
  /\ simc.cur \in Process \union {Nobody}
  /\ simc.runnable \subseteq Process
  /\ simc.pend \in [Event -> -1..LongestDelay]
  /\ \A e \in Event : Waiters(simc, e) \subseteq Process
  /\ \A q \in Peq : \A j \in DOMAIN peq[q] :
       peq[q][j].txn \in Txn /\ peq[q][j].left \in 0..LongestDelay
  /\ \A ch \in Channel :
       /\ Range(fifo[ch].items) \subseteq Txn
       /\ Len(fifo[ch].items) = fifo[ch].readable - fifo[ch].read + fifo[ch].written
       /\ NumAvailable(ch) >= 0 /\ (fatal \/ NumFree(ch) >= 0)
  /\ \A tx \in Txn : gp[tx].rc \in 0..2 /\ bus.pending[tx].to \in -1..NT-1
  /\ \A n \in Initiator : tg[n].active \in 0..MaxTxns /\ tg[n].j \in 0..TxnsPerPass

-----------------------------------------------------------------------------
(* Safety *)

\* No component reaches a REPORT_FATAL, a failed assert, a blocking fifo write in
\* a callback or an iterator that was erased during a wait: every phase, status
\* and payload a handler meets is one it knows how to handle, and every read
\* returns a word that was written at its address.
NoFatal == ~fatal

Own(n) == {n} \X (1..MaxTxns)
BusHolds(tx) == IF Known(tx) THEN 1 ELSE 0
Held(tx) == gp[tx].rc - BusHolds(tx)     \* references of the generator

\* The reference counts of tlm_gp.h add up: the bus holds one reference of each
\* pending payload, the generator one of each active payload, m_active_txn_count
\* counts those, and a payload is in the pool, once, exactly when nobody holds it.
RefCounts ==
  \A n \in Initiator :
    /\ \A tx \in Own(n) : Held(tx) \in {0, 1}
    /\ tg[n].active = Cardinality({tx \in Own(n) : Held(tx) = 1})
    /\ IsInjective(pool[n]) /\ Range(pool[n]) = {tx \in Own(n) : gp[tx].rc = 0}

Busy == {"sent", "ended", "told"}
Referenced ==
  {link.txn : x \in {link.status} \ {"none"}}
    \union UNION {Range(fifo[ch].items) : ch \in Channel}
    \union UNION {{peq[q][j].txn : j \in DOMAIN peq[q]} : q \in Peq}
    \union {tg[n].txn : n \in {m \in Initiator : tg[m].pc = "put"}}
    \union {ini[n].txn : n \in {m \in Initiator : ini[m].pc \in {"respond", "begun"}}}
    \union {bus.req.txn : x \in {bus.req.pc} \intersect Busy}
    \union {bus.rsp.txn : x \in {bus.rsp.pc} \intersect Busy}
    \union {tx \in Txn : Known(tx) \/ ini[Owner(tx)].map[tx] # "absent"}

\* A payload the generator may reuse is in no fifo, event queue, map, call or
\* local variable of a waiting process: free() never returns one still in use.
FreeIsUnreferenced == \A tx \in Referenced : gp[tx].rc > 0

\* An initiator has one request in progress: it starts the next only after the
\* END_REQ, or the response, of the one before.
RequestExclusion ==
  \A n \in Initiator : Cardinality({tx \in Own(n) : ini[n].map[tx] = "ACCEPTED"}) <= 1

\* An initiator has one response in progress: no BEGIN_RESP before the END_RESP
\* of the one before.
ResponseExclusion == \A n \in Initiator : Len(peq[EndRspPeq(n)]) <= 1

Queued(q) == {peq[q][j].txn : j \in DOMAIN peq[q]}

\* ResponseThread leaves its wait, and erases the pending entry, only when the
\* END_RESP it was woken by is that of its own payload, though
\* mEndResponseEvent is shared by all of them.
ResponseEnded ==
  Executing(ResponseThread) /\ bus.rsp.pc = "ended"
    => bus.rsp.txn \notin UNION {Queued(EndRspPeq(n)) : n \in Initiator}

\* Outside a call about it, the bus remembers who asked for a payload exactly
\* while that initiator's map says it waits for a response.
TrackingAgrees ==
  \A tx \in Txn :
    link.status = "none" \/ link.txn # tx
      => (Known(tx) /\ bus.pending[tx].from # 0
            <=> ini[Owner(tx)].map[tx] \in {"ACCEPTED", "END_REQ"})

Consumer(q) ==
  CASE q = requestPEQ -> RequestThread
    [] q = responsePEQ -> ResponseThread
    [] OTHER -> <<MethodOf[q[1]], q[2]>>
Awaits(p, q) ==
  /\ p # simc.cur /\ p \notin simc.runnable
  /\ p \in Waiters(simc, q) \/ (p \in Method /\ Unwaiting(simc, p))

\* No wakeup of a peq_with_get is lost: when its consumer sleeps on its event
\* and the queue is not empty, the event is pending, no later than the head.
PeqArmed ==
  \A q \in Peq : peq[q] # << >> /\ Awaits(Consumer(q), q) /\ ~fatal
                   => simc.pend[q] \in 0..Head(peq[q]).left

\* If the kernel stops without a fatal report then all traffic is done: no
\* process waits for ever, all payloads are back in their pools and nothing
\* still names one.
EndsClean ==
  Stopped /\ ~fatal =>
    /\ \A n \in Initiator : TgDone(n) /\ Len(pool[n]) = MaxTxns
    /\ Referenced = {}

\* Every one of the iterations of a loop sends a transaction, as in the recorded
\* log: the pool is never empty when an iteration begins.
EveryIterationSends ==
  \A n \in Initiator : tg[n].j = TxnsPerPass => tg[n].sent = TxnsPerPass

\* A read that completed in the second pass returns the inverted word written in
\* that pass, not the plain one, which the generator's check would also accept.
ReadsOwnPass ==
  \A n \in Initiator : \A tx \in Own(n) :
    Held(tx) = 1 /\ gp[tx].cmd = "read" /\ gp[tx].status = "OK"
      => gp[tx].data = IF tg[n].pass = 0 THEN gp[tx].addr ELSE -gp[tx].addr

-----------------------------------------------------------------------------
(* Refinement and liveness *)

Carried(tx) ==
  LET served == gp[tx].status = "OK" IN
  IF Held(tx) = 0
  THEN [phase |-> "idle", cmd |-> "none", target |-> 0, addr |-> 0, data |-> 0]
  ELSE [phase |-> IF served THEN "served" ELSE "issued", cmd |-> gp[tx].cmd,
        target |-> IF Direct THEN Owner(tx) - 1 ELSE PortOf(tg[Owner(tx)].pass),
        addr |-> gp[tx].addr,
        data |-> IF served \/ gp[tx].cmd = "write" THEN gp[tx].data ELSE 0]

Memories ==
  INSTANCE MemoryService
    WITH Address <- 1..MemorySize, Word <- -MemorySize..MemorySize,
         mem <- [m \in Target |-> tgt[m].mem], req <- [tx \in Txn |-> Carried(tx)]

\* The platform is a set of atomic memories: every transaction is carried out
\* once, at the target its address names, between its issue and its acceptance.
ImplementsMemory == Memories!Spec

\* Both passes of every generator come to their end.
AllComplete == <>(\A n \in Initiator : TgDone(n))
=============================================================================
