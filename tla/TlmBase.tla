------------------------------- MODULE TlmBase -------------------------------
(***************************************************************************)
(* What the components of the TLM platforms share: payloads and their      *)
(* reference counts, the nb_transport call in progress, peq_with_get,      *)
(* sc_fifo, and the kernel that runs them.                                 *)
(*                                                                         *)
(* A call of nb_transport_fw or nb_transport_bw is two steps: the caller   *)
(* fills `link', the callee's handler answers in `link', and the caller    *)
(* goes on.  No handler calls another component, so one call is in         *)
(* progress at most, and no other process runs meanwhile (SystemC          *)
(* processes are not pre-empted).                                          *)
(***************************************************************************)
EXTENDS Integers, Sequences

CONSTANTS
  NI,            \* initiators are 1..NI
  NT,            \* targets are 0..NT-1
  MaxTxns,       \* payloads in each traffic generator's pool
  FifoDepth,     \* depth of the request and the response fifo
  Wiring,        \* "bus": a SimpleBusAT in between; "direct": initiator n is bound
                 \* to target n-1; "blocking": loosely timed, over a SimpleBusLT
  ExactOrder     \* TRUE: the kernel's own order of processes; FALSE: any order

ASSUME SizesAssumption == NI \in Nat \ {0} /\ NT \in Nat \ {0} /\ MaxTxns \in Nat \ {0}
ASSUME DepthAssumption == FifoDepth \in Nat \ {0}
ASSUME WiringAssumption ==
  /\ Wiring \in {"bus", "direct", "blocking"} /\ (Wiring = "direct" => NT = NI)
  /\ ExactOrder \in BOOLEAN

Direct == Wiring = "direct"
Blocking == Wiring = "blocking"

Initiator == 1..NI
Target == 0..NT-1
Txn == Initiator \X (1..MaxTxns)     \* <<owner, number>>
Owner(tx) == tx[1]
NoTxn == <<0, 0>>

-----------------------------------------------------------------------------
(* Processes and events of the platform, in the order of construction *)

Bus == IF Wiring = "bus" THEN {0} ELSE {}

BusThread(name) == <<name, 0>>
ThreadOrder ==
  (IF Wiring = "bus" THEN <<BusThread("request"), BusThread("response")>> ELSE << >>)
    \o [j \in 1..(2*NI) |-> <<IF j % 2 = 1 THEN "initiator" ELSE "generator", (j + 1) \div 2>>]

Thread == {ThreadOrder[j] : j \in 1..Len(ThreadOrder)}
ToggleDmi(m) == <<"toggle_dmi", m>>
Method ==
  IF Blocking THEN {ToggleDmi(m) : m \in Target}
  ELSE ({"send_end_rsp"} \X Initiator) \union ({"begin_response", "end_request"} \X Target)
Process == Thread \union Method

Channel == {"req", "rsp"} \X Initiator
DataWritten(ch) == <<"data_written", ch[1], ch[2]>>
DataRead(ch)    == <<"data_read", ch[1], ch[2]>>

\* A peq_with_get is named by its event.
Peq ==
  IF Blocking THEN {}
  ELSE ({"send_end_rsp_PEQ"} \X Initiator) \union ({"response_PEQ", "end_request_PEQ"} \X Target)
         \union ({"requestPEQ", "responsePEQ"} \X Bus)
Plain ==
  IF Blocking THEN {}
  ELSE ({"enable_next_request"} \X Initiator) \union ({"end_resp_rcvd"} \X Target)
         \union ({"mEndRequest", "mEndResponse"} \X Bus)
Timeout == [p \in Process |-> <<"timeout", p[1], p[2]>>]
Event == Peq \union Plain \union {Timeout[p] : p \in Process}
           \union UNION {{DataWritten(ch), DataRead(ch)} : ch \in Channel}

MethodOf == [send_end_rsp_PEQ |-> "send_end_rsp", response_PEQ |-> "begin_response",
             end_request_PEQ |-> "end_request"]
StaticMethods == [e \in Event |-> IF e[1] \in DOMAIN MethodOf
                                    THEN << <<MethodOf[e[1]], e[2]>> >> ELSE << >>]

INSTANCE ScKernel

-----------------------------------------------------------------------------
VARIABLES
  simc,    \* the kernel
  link,    \* the nb_transport call in progress
  peq,     \* peq[q]: <<time left, payload>> pairs, earliest first
  fifo,    \* fifo[ch]: an sc_fifo of payloads
  gp,      \* gp[tx]: the payload's fields the components read or write
  pool,    \* pool[n]: the free payloads of generator n (tg_queue_c)
  fatal    \* a REPORT_FATAL or a failed assert has ended the simulation

shared == <<simc, link, peq, fifo, gp, pool, fatal>>

Executing(p) == simc.cur = p /\ ~fatal

NoCall == [callee |-> Nobody, status |-> "none"]
Phases == {"BEGIN_REQ", "END_REQ", "BEGIN_RESP", "END_RESP"}
Call(callee, tx, phase) ==
  [callee |-> callee, txn |-> tx, phase |-> phase, delay |-> 0, status |-> "called"]
Answer(status, phase, delay) ==
  [link EXCEPT !.status = status, !.phase = phase, !.delay = delay]
Called(callee) == link.callee = callee /\ link.status = "called" /\ ~fatal
Answered == link.status \notin {"none", "called"}

\* Who answers a forward call of initiator n, a forward call of the bus to
\* target m, a backward call of target m, and one of the bus to initiator n.
FromInitiator(n) == IF Direct THEN <<"target", n-1>> ELSE <<"bus_fw", n>>
ToTarget(m)      == <<"target", m>>
FromTarget(m)    == IF Direct THEN <<"initiator", m+1>> ELSE <<"bus_bw", m>>
ToInitiator(n)   == <<"initiator", n>>

-----------------------------------------------------------------------------
(* peq_with_get: a multimap ordered by time, entries of equal time in the  *)
(* order they were notified.                                               *)

\* multimap::insert: behind the entries that are not later.
PeqInsert(q, tx, t) ==
  InsertAt(q, Cardinality({j \in DOMAIN q : q[j].left <= t}) + 1, [left |-> t, txn |-> tx])

PeqDue(q) == peq[q] # << >> /\ Head(peq[q]).left = 0
PeqPop(q) == [peq EXCEPT ![q] = Tail(@)]
\* Faulty: the event is not notified again for a later entry.
PeqRearmMutant(k, q) == k
\* get_next_transaction with nothing due: it re-arms the event for the head.
PeqRearm(k, q) == IF peq[q] = << >> THEN k ELSE Notify(k, q, Head(peq[q]).left)

-----------------------------------------------------------------------------
(* sc_fifo: what is written in an evaluation phase is readable, and what   *)
(* is read frees its place, after the next update.                         *)

EmptyFifo == [items |-> << >>, readable |-> 0, read |-> 0, written |-> 0]
NumAvailable(ch) == fifo[ch].readable - fifo[ch].read
NumFree(ch)      == FifoDepth - fifo[ch].readable - fifo[ch].written

FifoWrite(ch, tx) ==
  [fifo EXCEPT ![ch].items = Append(@, tx), ![ch].written = @ + 1]
FifoRead(ch) ==
  [fifo EXCEPT ![ch].items = Tail(@), ![ch].read = @ + 1]

\* Faulty: the count of written items survives the update.
UpdatedMutant(f) == [f EXCEPT !.readable = Len(f.items), !.read = 0]
Updated(f) == [f EXCEPT !.readable = Len(f.items), !.read = 0, !.written = 0]
\* Faulty: a writer that found the fifo full is not notified.
NotifyUpdateMutant(k, ch) ==
  IF fifo[ch].written > 0 THEN Notify(k, DataWritten(ch), 0) ELSE k
NotifyUpdate(k, ch) ==
  LET k1 == IF fifo[ch].read > 0 THEN Notify(k, DataRead(ch), 0) ELSE k
  IN  IF fifo[ch].written > 0 THEN Notify(k1, DataWritten(ch), 0) ELSE k1

-----------------------------------------------------------------------------
(* tlm_generic_payload with a memory manager *)

\* Faulty: no reference is taken.
AcquiredMutant(g, tx) == g
Acquired(g, tx) == [g EXCEPT ![tx].rc = @ + 1]
\* release: the last reference gives the payload back to its pool.
Released(g, tx) == [g EXCEPT ![tx].rc = @ - 1]
\* Faulty: any release gives the payload back.
PoolAfterReleaseMutant(tx) == [pool EXCEPT ![Owner(tx)] = Append(@, tx)]
PoolAfterRelease(tx) ==
  IF gp[tx].rc = 1 THEN [pool EXCEPT ![Owner(tx)] = Append(@, tx)] ELSE pool

-----------------------------------------------------------------------------
(* The scheduler *)

Dispatch ==
  /\ ~fatal
  /\ \E p \in MayRun(simc) : simc' = Run(simc, p)
  /\ UNCHANGED <<link, peq, fifo, gp, pool, fatal>>

\* Evaluation over: update the fifos, then trigger the delta events.
DeltaCycle ==
  /\ Evaluated(simc) /\ ~fatal
  /\ simc.update # << >> \/ DeltaPending(simc) # {}
  /\ LET k == FoldLeft(NotifyUpdate, simc, simc.update)
     IN  simc' = TriggerDelta([k EXCEPT !.update = << >>])
  /\ fifo' = [ch \in Channel |-> Updated(fifo[ch])]
  /\ UNCHANGED <<link, peq, gp, pool, fatal>>

\* Nothing left at this time: go to the next one.
AdvanceTime ==
  /\ Evaluated(simc) /\ ~fatal
  /\ simc.update = << >> /\ DeltaPending(simc) = {} /\ TimedPending(simc) # {}
  /\ LET d == NextTime(simc) IN
     /\ \E due \in SetToSeqs(DueAt(simc, d)) : simc' = TriggerTimed(simc, d, due)
     /\ peq' = [q \in Peq |->
                  [j \in DOMAIN peq[q] |->
                    [peq[q][j] EXCEPT !.left = IF @ > d THEN @ - d ELSE 0]]]
  /\ UNCHANGED <<link, fifo, gp, pool, fatal>>

Scheduler == Dispatch \/ DeltaCycle \/ AdvanceTime

EmptyPayload == [cmd |-> "none", port |-> 0, addr |-> 0, data |-> 0, status |-> "none", rc |-> 0]

\* `ready' are the processes the first evaluation phase runs.
SharedInit(ready) ==
  /\ simc = InitKernel(ready)
  /\ link = NoCall
  /\ peq = [q \in Peq |-> << >>]
  /\ fifo = [ch \in Channel |-> EmptyFifo]
  /\ gp = [tx \in Txn |-> EmptyPayload]
  /\ pool = [n \in Initiator |-> [j \in 1..MaxTxns |-> <<n, j>>]]
  /\ fatal = FALSE
=============================================================================
