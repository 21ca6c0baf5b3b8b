------------------------------- MODULE LtSystem -------------------------------
(***************************************************************************)
(* A loosely-timed (LT) platform: traffic generators, LT initiators, a     *)
(* SimpleBusLT and LT targets, run by the SystemC kernel.                  *)
(***************************************************************************)
EXTENDS TrafficGenerator, LtInitiator

CONSTANTS Platforms     \* pairs of the initiators' and the targets' kinds

ASSUME PlatformAssumption ==
  \A p \in Platforms : /\ p.initiators \in [Initiator -> {"lt", "td", "dmi"}]
                       /\ p.targets \in [Target -> {"lt", "synch", "dmi"}]

\* The addresses of the generators fit in a memory (4 KB in the examples), and a
\* memory in what the bus maps to a port (2^28 bytes).
ASSUME MapAssumption == Blocking /\ NI * TxnsPerPass + 1 < MemorySize /\ MemorySize < Span

\* The two fifos (16 places each) have room for the payloads of a generator.
ASSUME PoolAssumption == MaxTxns <= 2 * FifoDepth + 1

VARIABLE spent     \* history: spent[n]: the time initiator n's transactions took

vars == <<shared, tg, lti, lt, now, spent>>

\* The toggle_dmi_methods are initialized, ahead of the threads, in the order of
\* their targets.
Toggles(kinds) ==
  {s \in SetToSeqs({ToggleDmi(m) : m \in {k \in Target : kinds[k] = "dmi"}}) :
     \A i, j \in DOMAIN s : i < j => s[i][2] < s[j][2]}

Init ==
  \E p \in Platforms : \E toggles \in Toggles(p.targets) :
    /\ LtInit(p.targets) /\ LtiInit(p.initiators) /\ TgInit
    /\ SharedInit(toggles \o ThreadOrder)
    /\ spent = [n \in Initiator |-> 0]

\* A target that disables DMI invalidates all of its memory: the bus translates
\* the range and passes it to every initiator; only lt_dmi_initiator listens.
InvalidateDirectMemPtr(m) ==
  LET range == LimitRange(m, 0, MemorySize) IN
  [n \in Initiator |->
     IF range.ok /\ lti[n].kind = "dmi"
       THEN [lti[n] EXCEPT !.dmi = InvalidateDmiPtr(@, range.low, range.high)]
       ELSE lti[n]]

toggle_dmi_method(m) ==
  /\ Executing(ToggleDmi(m))
  /\ lt' = Toggled(m)
  /\ lti' = IF lt[m].dmi_enabled THEN InvalidateDirectMemPtr(m) ELSE lti
  /\ simc' = ToggleReturns(m)
  /\ UNCHANGED <<link, peq, fifo, gp, pool, fatal>>

\* What the transaction in initiator n's hands takes: over the bus with the
\* accept delay, with direct access without it.
Cost(n) == OperationDelay(lti[n].txn) + IF HasDmi(n) THEN 0 ELSE AcceptDelay

Stopped ==
  \/ fatal
  \/ /\ Evaluated(simc) /\ simc.update = << >>
     /\ DeltaPending(simc) = {} /\ TimedPending(simc) = {}

Step ==
  \/ AdvanceTime /\ now' = now + NextTime(simc) /\ UNCHANGED <<tg, lti, lt, spent>>
  \/ (Dispatch \/ DeltaCycle) /\ UNCHANGED <<tg, lti, lt, now, spent>>
  \/ \E n \in Initiator : TgStep(n) /\ UNCHANGED <<lti, lt, now, spent>>
  \/ \E n \in Initiator :
       /\ LtiStep(n) /\ UNCHANGED <<tg, now>>
       /\ spent' = IF At(n, "request") THEN [spent EXCEPT ![n] = @ + Cost(n)] ELSE spent
  \/ \E m \in Target : toggle_dmi_method(m) /\ UNCHANGED <<tg, now, spent>>

Next == Step \/ (Stopped /\ UNCHANGED vars)

\* The kernel runs until it has stopped.
Fairness == []<>Stopped \/ []<><<Step>>_vars

Spec == Init /\ [][Next]_vars /\ Fairness

-----------------------------------------------------------------------------
(* Properties *)

LongestCall == Quantum + AcceptDelay + ReadDelay + WriteDelay

\* The state of every component has the shape its code can give it: delays are
\* bounded by the quantum and one call, regions by the address map of the bus.
TypeOK ==
  /\ simc.cur \in Process \union {Nobody} /\ simc.runnable \subseteq Process
  /\ simc.pend \in [Event -> -1..LongestCall + StartDmiDelay + DmiDuration]
  /\ \A n \in Initiator :
       /\ lti[n].delay \in 0..LongestCall /\ lti[n].keeper.local \in 0..LongestCall
       /\ lti[n].dmi.ptr \in -1..NT-1 /\ lti[n].dmi.base \in {AddressOffset(m) : m \in Target}
       /\ lti[n].dmi.size \in {0, MemorySize}
  /\ \A m \in Target : lt[m].toggle_count \in 0..MaxDmiToggleCount
  /\ \A tx \in Txn : gp[tx].rc \in 0..1

\* A decoupled initiator between two transactions is ahead of time but still
\* within the current quantum, so the memory accesses of two initiators are never
\* out of order by more than a quantum and a call.
KeepsToQuantum ==
  \A n \in Initiator :
    lti[n].pc \in {"get", "request", "respond"} /\ ~TgDone(n)
      => (now + lti[n].keeper.local) \div Quantum = now \div Quantum

\* Temporal decoupling and waits inside the target change when an access happens,
\* never how long it takes: at the end of a transaction the initiator's own time
\* (get_current_time) is the sum of the times of all its transactions.
TimingPreserved ==
  \A n \in Initiator :
    lti[n].pc = "get" /\ ~TgDone(n) => now + lti[n].keeper.local = spent[n]

\* After a target has invalidated its DMI pointers, and until it grants one
\* again, no initiator takes an address of that target for one with direct access
\* ("Invalidates a dmi pointer associated with an address range", dmi_memory.h).
InvalidatedUnused ==
  \A m \in Target : lt[m].kind = "dmi" /\ ~lt[m].dmi_enabled /\ lt[m].toggle_count > 0 =>
    \A n \in Initiator : \A a \in 0..MemorySize-1 :
      ~(lti[n].kind = "dmi" /\ IsAddressDmi(lti[n].dmi, AddressOffset(m) + a))

Carried(tx) ==
  LET served == gp[tx].status = "OK" IN
  IF gp[tx].rc = 0
  THEN [phase |-> "idle", cmd |-> "none", target |-> 0, addr |-> 0, data |-> 0]
  ELSE [phase |-> IF served THEN "served" ELSE "issued", cmd |-> gp[tx].cmd,
        target |-> PortOf(tg[Owner(tx)].pass), addr |-> gp[tx].addr,
        data |-> IF served \/ gp[tx].cmd = "write" THEN gp[tx].data ELSE 0]

Memories ==
  INSTANCE MemoryService
    WITH Address <- 1..MemorySize, Word <- -MemorySize..MemorySize,
         mem <- [m \in Target |-> lt[m].mem], req <- [tx \in Txn |-> Carried(tx)]

\* Over b_transport or by direct access, each transaction is carried out once, at
\* the target and the word its address names.
ImplementsMemory == Memories!Spec

\* Both passes of every generator come to their end.
AllComplete == <>(\A n \in Initiator : TgDone(n))
=============================================================================
