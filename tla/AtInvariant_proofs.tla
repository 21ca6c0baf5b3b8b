-------------------------- MODULE AtInvariant_proofs --------------------------
(***************************************************************************)
(* The inductive invariant of the AT platform, AtCore, and the first half  *)
(* of the proof that it is inductive: what its parts say, the frame of the *)
(* steps that do not touch a payload, and the steps of the kernel, of the  *)
(* generators, of the initiators and of the targets.  The last part is     *)
(* AtWaits, which rests on AtCore: who sleeps until which event, and what  *)
(* the kernel does to that between two processes.  AtSystem_proofs has the *)
(* steps of the bus, the steps of all processes for AtWaits, and the       *)
(* theorems.                                                               *)
(***************************************************************************)
EXTENDS AtSystem, TrafficGenerator_proofs

-----------------------------------------------------------------------------
(* Shapes *)

Word == -MemorySize..MemorySize
Addresses == 1..NI*TxnsPerPass

GpShape ==
  [cmd : {"none", "read", "write"}, port : Target, addr : Int, data : Word,
   status : {"none", "incomplete", "OK"}, rc : Nat]

IniShape(n) ==
  [kind : {"select", "explicit", "annotated"}, pc : {"get", "sent", "respond"},
   txn : Txn \union {NoTxn}, mpc : {"next", "sent"},
   map : [Payloads(n) -> {"absent", "ACCEPTED", "END_REQ", "UPDATED"}]]

PendingShape == [from : 0..NI, to : {-1} \union Target, known : BOOLEAN]
BusThreadShape == [pc : {"start", "next"} \union Busy, txn : Txn \union {NoTxn}]
BusShape == [pending : [Txn -> PendingShape], req : BusThreadShape, rsp : BusThreadShape]

TgtShape ==
  [count : Nat, mem : [1..MemorySize -> Word], rpc : {"next", "sent"}, epc : {"next", "sent"}]

Entry == [left : 0..LongestDelay, txn : Txn]

LinkShape ==
  [callee : {"bus_fw", "bus_bw", "initiator", "target"} \X Nat, txn : Txn, phase : Phases,
   delay : 0..LongestDelay, status : {"called", "ACCEPTED", "UPDATED", "COMPLETED"}]

\* The state has the shape the code gives it.
GpOK == gp \in [Txn -> GpShape]
IniOK ==
  /\ DOMAIN ini = Initiator
  /\ \A n \in Initiator : ini[n] \in IniShape(n) /\ (ini[n].pc # "get" => ini[n].txn \in Payloads(n))
BusOK ==
  /\ bus \in BusShape
  /\ bus.req.pc \in Busy => bus.req.txn \in Txn
  /\ bus.rsp.pc \in Busy => bus.rsp.txn \in Txn
TgtOK == tgt \in [Target -> TgtShape]
PeqOK == peq \in [Peq -> Seq(Entry)]
Types == /\ KernelInv(LongestDelay, simc) /\ Shapes /\ fatal \in BOOLEAN
         /\ GpOK /\ IniOK /\ BusOK /\ TgtOK /\ PeqOK

-----------------------------------------------------------------------------
(* The call in progress *)

\* Process p is in a call of nb_transport.
Calling(p) ==
  \/ p \in {"initiator"} \X Initiator /\ ini[p[2]].pc = "sent"
  \/ p \in {"send_end_rsp"} \X Initiator /\ ini[p[2]].mpc = "sent"
  \/ p \in {"begin_response"} \X Target /\ tgt[p[2]].rpc = "sent"
  \/ p \in {"end_request"} \X Target /\ tgt[p[2]].epc = "sent"
  \/ p = RequestThread /\ bus.req.pc \in {"sent", "told"}
  \/ p = ResponseThread /\ bus.rsp.pc \in {"sent", "told"}

\* The states of a call: made, or answered in one of the ways its callee has.
Open(phase)     == link.status = "called" /\ link.phase = phase /\ link.delay = 0
Accepted(phase) == link.status = "ACCEPTED" /\ link.phase = phase /\ link.delay = 0
ReqEnds  == link.status = "UPDATED" /\ link.phase = "END_REQ" /\ link.delay = AcceptDelay
Complete ==
  link.status = "COMPLETED" /\ link.phase = "BEGIN_REQ" /\ link.delay + EndRspDelay <= LongestDelay
RspEnds  == link.status = "COMPLETED" /\ link.phase = "END_RESP" /\ link.delay = EndRspDelay
Closed   == link.status = "COMPLETED" /\ link.phase = "END_RESP" /\ link.delay = 0

\* The calls of each process.
RequestCall(n) ==
  /\ link.callee = FromInitiator(n) /\ link.txn = ini[n].txn
  /\ Open("BEGIN_REQ") \/ Accepted("BEGIN_REQ") \/ (Direct /\ (ReqEnds \/ Complete))
CloseCall(n) ==
  link.callee = FromInitiator(n) /\ link.txn \in Payloads(n) /\ (Open("END_RESP") \/ Closed)
ForwardCall ==
  /\ bus.req.pc = "sent" /\ link.callee[1] = "target" /\ link.txn = bus.req.txn
  /\ Open("BEGIN_REQ") \/ Accepted("BEGIN_REQ") \/ ReqEnds \/ Complete
EndReqCall ==
  /\ bus.req.pc = "told" /\ link.callee = ToInitiator(Owner(link.txn)) /\ link.txn = bus.req.txn
  /\ Open("END_REQ") \/ Accepted("END_REQ")
ReplyCall ==
  /\ bus.rsp.pc = "sent" /\ link.callee = ToInitiator(Owner(link.txn)) /\ link.txn = bus.rsp.txn
  /\ Open("BEGIN_RESP") \/ Accepted("BEGIN_RESP") \/ RspEnds
EndRspCall ==
  /\ bus.rsp.pc = "told" /\ link.callee[1] = "target" /\ link.txn = bus.rsp.txn
  /\ Open("END_RESP") \/ Closed
BeginRespCall(m) ==
  /\ link.callee = FromTarget(m) /\ (Direct => Owner(link.txn) = m + 1)
  /\ Open("BEGIN_RESP") \/ Accepted("BEGIN_RESP") \/ (Direct /\ RspEnds)
TargetEndReqCall(m) ==
  /\ link.callee = FromTarget(m) /\ (Direct => Owner(link.txn) = m + 1)
  /\ Open("END_REQ") \/ Accepted("END_REQ")

\* Process p makes one of its calls.
CallOf(p) ==
  /\ p \in {"initiator"} \X Initiator => RequestCall(p[2])
  /\ p \in {"send_end_rsp"} \X Initiator => CloseCall(p[2])
  /\ p \in {"begin_response"} \X Target => BeginRespCall(p[2])
  /\ p \in {"end_request"} \X Target => TargetEndReqCall(p[2])
  /\ p = RequestThread => ForwardCall \/ EndReqCall
  /\ p = ResponseThread => ReplyCall \/ EndRspCall

\* The process in a call, if there is one, has the processor; `link' is its call.
Calls ==
  /\ \A p \in Process : Calling(p) => link # NoCall /\ simc.cur = p
  /\ link # NoCall =>
       link \in LinkShape /\ simc.cur \in Process /\ Calling(simc.cur) /\ CallOf(simc.cur)

-----------------------------------------------------------------------------
(* Where the payloads are *)

\* A payload between the two fifos is in one of five hands of its initiator: in
\* the call that sends it, waiting for the delay of a completed call, in
\* m_waiting_bw_path_map, in m_send_end_rsp_PEQ, or in the call of END_RESP.
Sending(tx)   == ini[Owner(tx)].pc = "sent" /\ ini[Owner(tx)].txn = tx
Returning(tx) == ini[Owner(tx)].pc = "respond" /\ ini[Owner(tx)].txn = tx
Heard(tx)     == ini[Owner(tx)].map[tx] # "absent"
Ending(tx)    == tx \in Queued(EndRspPeq(Owner(tx)))
Closing(tx)   == ini[Owner(tx)].mpc = "sent" /\ link.txn = tx
InHand(tx)    == Sending(tx) \/ Returning(tx) \/ Heard(tx) \/ Ending(tx) \/ Closing(tx)

OneHand(tx) ==
  /\ Sending(tx) \/ Returning(tx) => ~Heard(tx) /\ ~Ending(tx) /\ ~Closing(tx)
  /\ Heard(tx) => ~Ending(tx) /\ ~Closing(tx)
  /\ Ending(tx) => ~Closing(tx)

Away(n)   == {tx \in Payloads(n) : InHand(tx)}
HeldBy(n) == {tx \in Payloads(n) : Held(tx) = 1}

Asked(tx)      == gp[tx].status = "incomplete"
CarriedOut(tx) == gp[tx].status = "OK"
Pooled(tx)     == tx \in Range(pool[Owner(tx)])
Outgoing(tx)   == tx \in Putting(Owner(tx)) \/ tx \in Requested(Owner(tx))
Incoming(tx)   == tx \in Responded(Owner(tx))
Port(tx)       == PortOf(tg[Owner(tx)].pass)
Where(tx)      == IF Direct THEN Owner(tx) - 1 ELSE Port(tx)

\* A payload is in its pool, with nobody holding it, or in one other place; what
\* it carries goes with the place.
Contents(tx) ==
  /\ Held(tx) \in {0, 1} /\ (Pooled(tx) <=> gp[tx].rc = 0)
  /\ Held(tx) = 1 => /\ gp[tx].cmd \in {"read", "write"} /\ gp[tx].addr \in Addresses
                     /\ Asked(tx) \/ CarriedOut(tx)
  /\ Outgoing(tx) => Asked(tx) /\ gp[tx].port = Port(tx) /\ ~Known(tx)
  /\ Incoming(tx) \/ Returning(tx) \/ Closing(tx) => CarriedOut(tx)

\* The initiator of a payload waits for its response.
Waiting(tx) == Sending(tx) \/ Heard(tx)

\* What the call in progress does with a payload: asks for it to be carried out,
\* reports that in its answer, begins its response, or ends its request.
About(tx)     == link # NoCall /\ link.txn = tx
Asks(tx)      == About(tx) /\ link.status = "called" /\ link.phase = "BEGIN_REQ"
Reports(tx)   == About(tx) /\ link.status = "COMPLETED" /\ link.phase = "BEGIN_REQ"
Responds(tx)  == About(tx) /\ link.status = "called" /\ link.phase = "BEGIN_RESP"
EndsReq(tx)   == About(tx) /\ link.status = "called" /\ link.phase = "END_REQ"
Telling(tx)   == Responds(tx) /\ link.callee = ToInitiator(Owner(tx))

InTransit(tx) ==
  /\ Asks(tx) =>
       /\ Asked(tx) /\ Waiting(tx)
       /\ link.callee[1] = "bus_fw" => gp[tx].port = Port(tx) /\ ~Known(tx)
       /\ link.callee[1] = "target" => link.callee[2] = Where(tx)
  /\ Reports(tx) \/ Responds(tx) => CarriedOut(tx) /\ Waiting(tx)
  /\ EndsReq(tx) => Waiting(tx)

\* What is true of a payload in queue q.
Fits(q, tx) ==
  /\ q = requestPEQ => Asked(tx) /\ gp[tx].port = Port(tx) /\ Waiting(tx)
  /\ q \in {"end_request_PEQ", "response_PEQ"} \X Target => Asked(tx) /\ q[2] = Where(tx) /\ Waiting(tx)
  /\ q = responsePEQ => CarriedOut(tx) /\ Waiting(tx)
  /\ q \in {"send_end_rsp_PEQ"} \X Initiator => CarriedOut(tx) /\ q[2] = Owner(tx)

\* A payload is in one queue, or in a call that hands it over.
InQueues(tx) ==
  \A q \in Peq : tx \in Queued(q) =>
    /\ Fits(q, tx) /\ ~Asks(tx) /\ ~Reports(tx) /\ ~Responds(tx)
    /\ \A r \in Peq : tx \in Queued(r) => q = r

\* The bus knows the initiator of a payload from its request to its response,
\* and the payload until that response is over.
Tracked(tx)    == bus.pending[tx].from # 0
Responding(tx) == bus.rsp.pc \in Busy /\ bus.rsp.txn = tx
Tracking(tx) ==
  /\ Tracked(tx) => Known(tx) /\ bus.pending[tx].from = Owner(tx)
  /\ Wiring # "bus" => ~Known(tx)
  /\ Wiring = "bus" => /\ ini[Owner(tx)].map[tx] # "UPDATED"
                       /\ Tracked(tx) <=> \/ Heard(tx) /\ ~Telling(tx)
                                          \/ Sending(tx) /\ About(tx) /\ link.status # "called"
  /\ Known(tx) /\ ~Tracked(tx) <=> Responding(tx)

PayloadInv(tx) == OneHand(tx) /\ Contents(tx) /\ InTransit(tx) /\ InQueues(tx) /\ Tracking(tx)

\* No payload is twice in a queue.
Once(s) == \A i, j \in DOMAIN s : s[i].txn = s[j].txn => i = j

AtCore ==
  /\ Types /\ Calls
  /\ \A n \in Initiator : Accounted(n, Away(n), HeldBy(n))
  /\ \A tx \in Txn : PayloadInv(tx)
  /\ \A q \in Peq : Once(peq[q])

-----------------------------------------------------------------------------
(* Names and numbers *)

\* The processes, queues and events of the platform exist; the bus's threads and
\* queues do where there is a bus.
LEMMA AtNames ==
  /\ ~Blocking /\ Peq \subseteq Event
  /\ \A n \in Initiator : /\ Ini(n) \in Thread /\ Ini(n) \in Process /\ EndRsp(n) \in Process
                          /\ EndRspPeq(n) \in Peq /\ EndRspPeq(n) \in Event /\ Enable(n) \in Event
                          /\ Timeout[Ini(n)] \in Event
  /\ \A m \in Target : /\ BeginResponse(m) \in Process /\ EndRequest(m) \in Process
                       /\ ResponsePeq(m) \in Peq /\ EndRequestPeq(m) \in Peq
                       /\ ResponsePeq(m) \in Event /\ EndRequestPeq(m) \in Event
                       /\ EndRespRcvd(m) \in Event
  /\ \A p \in {RequestThread, ResponseThread} :
       p \in Process => Wiring = "bus" /\ p \in Thread /\ Timeout[p] \in Event
  /\ Wiring = "bus" => /\ requestPEQ \in Peq /\ responsePEQ \in Peq
                       /\ requestPEQ \in Event /\ responsePEQ \in Event
                       /\ mEndRequestEvent \in Event /\ mEndResponseEvent \in Event
<1>1. ~Blocking
  BY AtPlatformAssumption
<1>2. Peq \subseteq Event /\ Plain \subseteq Event
  BY DEF Event
<1>3. /\ Peq = ({"send_end_rsp_PEQ"} \X Initiator) \union ({"response_PEQ", "end_request_PEQ"} \X Target)
               \union ({"requestPEQ", "responsePEQ"} \X Bus)
      /\ Plain = ({"enable_next_request"} \X Initiator) \union ({"end_resp_rcvd"} \X Target)
                 \union ({"mEndRequest", "mEndResponse"} \X Bus)
      /\ Method = ({"send_end_rsp"} \X Initiator) \union ({"begin_response", "end_request"} \X Target)
  BY <1>1 DEF Peq, Plain, Method
<1>4. Thread \subseteq Process /\ Method \subseteq Process /\ \A p \in Process : Timeout[p] \in Event
  BY EventFacts DEF Process
<1>5. ASSUME NEW n \in Initiator
      PROVE  /\ Ini(n) \in Thread /\ EndRsp(n) \in Method /\ EndRspPeq(n) \in Peq /\ Enable(n) \in Plain
  BY <1>3, ThreadFacts DEF Ini, EndRsp, EndRspPeq, Enable
<1>6. ASSUME NEW m \in Target
      PROVE  /\ BeginResponse(m) \in Method /\ EndRequest(m) \in Method
             /\ ResponsePeq(m) \in Peq /\ EndRequestPeq(m) \in Peq /\ EndRespRcvd(m) \in Plain
  BY <1>3 DEF BeginResponse, EndRequest, ResponsePeq, EndRequestPeq, EndRespRcvd
<1>7. ASSUME NEW p \in {RequestThread, ResponseThread}, p \in Process PROVE Wiring = "bus" /\ p \in Thread
  <2>1. p \notin Method /\ p \notin {"initiator", "generator"} \X Initiator
    BY <1>3 DEF RequestThread, ResponseThread
  <2> QED BY <1>7, <2>1, ThreadFacts DEF Process
<1>8. Wiring = "bus" => /\ requestPEQ \in Peq /\ responsePEQ \in Peq
                        /\ mEndRequestEvent \in Plain /\ mEndResponseEvent \in Plain
  BY <1>3 DEF requestPEQ, responsePEQ, mEndRequestEvent, mEndResponseEvent, Bus
<1> HIDE DEF Process, Thread, Method, Event, Peq, Plain, Timeout
<1> QED BY <1>1, <1>2, <1>4, <1>5, <1>6, <1>7, <1>8

\* The queues are those of one initiator, of one target or of the bus.
LEMMA PeqNames ==
  /\ \A q \in Peq : \/ q \in {"send_end_rsp_PEQ"} \X Initiator
                    \/ q \in {"response_PEQ", "end_request_PEQ"} \X Target
                    \/ Wiring = "bus" /\ q \in {requestPEQ, responsePEQ}
  /\ \A n, m \in Initiator : EndRspPeq(n) = EndRspPeq(m) => n = m
BY AtPlatformAssumption DEF Peq, Bus, requestPEQ, responsePEQ, EndRspPeq

\* The delays, addresses and indices of the platform are numbers.
LEMMA AtNumbers ==
  /\ LongestDelay \in Nat /\ AcceptDelay \in Nat /\ EndRspDelay \in Nat
  /\ ReadDelay \in Nat /\ WriteDelay \in Nat /\ MemorySize \in Nat /\ Period \in Nat \ {0}
  /\ NI \in Nat \ {0} /\ NT \in Nat \ {0} /\ 0 \in Target /\ Target \subseteq Nat /\ Initiator \subseteq Nat
  /\ 0 \in 0..LongestDelay /\ AcceptDelay \in 0..LongestDelay /\ EndRspDelay \in 0..LongestDelay
  /\ \A n \in Initiator : Base(n)..Base(n)+TxnsPerPass-1 \subseteq Addresses
  /\ \A a \in Addresses : /\ a < MemorySize /\ a + 1 < MemorySize /\ a \in 1..MemorySize
                          /\ a \in Word /\ -a \in Word /\ a \in Int
<1>1. /\ NI \in Nat \ {0} /\ TxnsPerPass \in Nat /\ NT \in Nat \ {0}
      /\ AcceptDelay \in Nat /\ EndRspDelay \in Nat
      /\ ReadDelay \in Nat /\ WriteDelay \in Nat /\ MemorySize \in Nat /\ Period \in Nat \ {0}
  BY SizesAssumption, PassAssumption, EndRspAssumption, AcceptAssumption, MemoryAssumption
<1>2. NI * TxnsPerPass \in Nat /\ NI * TxnsPerPass + 1 < MemorySize
  BY <1>1, AtPlatformAssumption
<1>3. ASSUME NEW n \in Initiator
      PROVE  Base(n)..Base(n)+TxnsPerPass-1 \subseteq Addresses
  <2>1. n \in 1..NI /\ n - 1 \in Nat
    BY <1>1 DEF Initiator
  <2>2. (n - 1) * TxnsPerPass >= 0 /\ (n - 1) * TxnsPerPass \in Int
    BY <1>1, <2>1
  <2>3. n * TxnsPerPass <= NI * TxnsPerPass
    BY <1>1, <2>1
  <2>4. n * TxnsPerPass = (n - 1) * TxnsPerPass + TxnsPerPass
    BY <1>1, <2>1
  <2> QED BY <1>1, <1>2, <2>2, <2>3, <2>4 DEF Base, Addresses
<1>4. \A a \in Addresses : /\ a < MemorySize /\ a + 1 < MemorySize /\ a \in 1..MemorySize
                           /\ a \in Word /\ -a \in Word /\ a \in Int
  BY <1>1, <1>2 DEF Addresses, Word
<1>5. 0 \in Target /\ Target \subseteq Nat /\ Initiator \subseteq Nat
  BY <1>1 DEF Target, Initiator
<1>6. /\ LongestDelay \in Nat /\ 0 \in 0..LongestDelay /\ AcceptDelay \in 0..LongestDelay
      /\ EndRspDelay \in 0..LongestDelay
  BY <1>1 DEF LongestDelay
<1> QED BY <1>1, <1>3, <1>4, <1>5, <1>6

\* A payload belongs to one initiator.
LEMMA OwnerFacts ==
  /\ \A tx \in Txn : Owner(tx) \in Initiator /\ tx \in Payloads(Owner(tx))
  /\ \A n \in Initiator : \A tx \in Payloads(n) : tx \in Txn /\ Owner(tx) = n
  /\ \A n \in Initiator : Payloads(n) \subseteq Txn
BY DEF Txn, Owner, Payloads

\* A port names a target.
LEMMA PortType ==
  ASSUME Shapes, NEW tx \in Txn
  PROVE  Port(tx) \in Target /\ Where(tx) \in Target
<1>1. Owner(tx) \in Initiator /\ NT \in Nat \ {0} /\ NI \in Nat
  BY OwnerFacts, SizesAssumption
<1>2. tg[Owner(tx)].pass \in 0..1
  BY <1>1 DEF Shapes, TgShape
<1>3. Port(tx) \in Target
  BY <1>1, <1>2 DEF Port, PortOf, Target
<1>4. Direct => Owner(tx) - 1 \in Target
  BY <1>1, WiringAssumption DEF Direct, Initiator, Target
<1> QED BY <1>3, <1>4 DEF Where

-----------------------------------------------------------------------------
(* Queues of events *)

Contained(s) == {s[j].txn : j \in DOMAIN s}

\* An insertion: the sequence up to a place, the entry, and the rest.
LEMMA Inserted ==
  ASSUME NEW S, NEW s \in Seq(S), NEW e \in S, NEW i \in 1..Len(s)+1
  PROVE  LET z == InsertAt(s, i, e) IN
         /\ z \in Seq(S) /\ Len(z) = Len(s) + 1
         /\ \A j \in 1..Len(s)+1 : z[j] = IF j < i THEN s[j] ELSE IF j = i THEN e ELSE s[j-1]
<1> DEFINE a == SubSeq(s, 1, i-1)
           c == SubSeq(s, i, Len(s))
           b == <<e>>
           z == InsertAt(s, i, e)
<1>0. Len(s) \in Nat /\ i - 1 \in 0..Len(s)
  OBVIOUS
<1>1. a \in Seq(S) /\ Len(a) = i - 1 /\ \A j \in 1..i-1 : a[j] = s[j]
  BY <1>0, SubSeqProperties
<1>2. c \in Seq(S) /\ Len(c) = Len(s) - i + 1 /\ \A j \in 1..Len(s)-i+1 : c[j] = s[i+j-1]
  BY <1>0, SubSeqProperties
<1>3. b \in Seq(S) /\ Len(b) = 1 /\ b[1] = e
  OBVIOUS
<1>4. z = (a \o b) \o c
  BY DEF InsertAt
<1> HIDE DEF a, b, c
<1>5. a \o b \in Seq(S) /\ Len(a \o b) = i /\ \A j \in 1..i : (a \o b)[j] = IF j < i THEN s[j] ELSE e
  <2>1. /\ a \o b \in Seq(S) /\ Len(a \o b) = Len(a) + Len(b)
        /\ \A j \in 1..Len(a)+Len(b) : (a \o b)[j] = IF j <= Len(a) THEN a[j] ELSE b[j-Len(a)]
    BY ONLY <1>1, <1>3, ConcatProperties
  <2>2. \A j \in 1..i : j < i \/ (j = i /\ j - (i - 1) = 1)
    BY <1>0
  <2>3. (a \o b)[i] = e
    BY <1>0, <1>1, <1>3, <2>1
  <2>4. \A j \in 1..i-1 : (a \o b)[j] = s[j]
    BY <1>0, <1>1, <1>3, <2>1
  <2> QED BY <1>0, <1>1, <1>3, <2>1, <2>3, <2>4
<1> DEFINE d == a \o b
<1> HIDE DEF d
<1>6. d \o c \in Seq(S) /\ Len(d \o c) = Len(s) + 1
      /\ \A j \in 1..Len(s)+1 : (d \o c)[j] = IF j <= i THEN d[j] ELSE c[j-i]
  BY <1>0, <1>2, <1>5 DEF d
<1>7. \A j \in 1..Len(s)+1 : (d \o c)[j] = IF j < i THEN s[j] ELSE IF j = i THEN e ELSE s[j-1]
  <2> SUFFICES ASSUME NEW j \in 1..Len(s)+1
               PROVE  (d \o c)[j] = IF j < i THEN s[j] ELSE IF j = i THEN e ELSE s[j-1]
    BY Zenon
  <2>1. CASE j <= i
    <3>1. j \in 1..i
      BY <2>1
    <3>2. d[j] = IF j < i THEN s[j] ELSE e
      BY <1>5, <3>1, Zenon DEF d
    <3>3. (d \o c)[j] = d[j]
      BY <1>6, <2>1
    <3>4. j < i \/ (~(j < i) /\ j = i)
      BY <1>0, <2>1
    <3> QED BY <3>2, <3>3, <3>4, Zenon
  <2>2. CASE j > i
    <3>1. j - i \in 1..Len(s)-i+1 /\ i + (j - i) - 1 = j - 1
      BY <1>0, <2>2
    <3>2. c[j-i] = s[j-1]
      BY <1>2, <3>1, Zenon
    <3> QED BY <1>0, <1>6, <2>2, <3>2
  <2>3. j <= i \/ j > i
    BY <1>0
  <2> QED BY <2>1, <2>2, <2>3, Zenon
<1> QED BY <1>4, <1>6, <1>7 DEF d

\* What peq_with_get::notify puts into a queue.
LEMMA PeqInserted ==
  ASSUME NEW s \in Seq(Entry), NEW tx \in Txn, NEW t \in 0..LongestDelay
  PROVE  /\ PeqInsert(s, tx, t) \in Seq(Entry)
         /\ Contained(PeqInsert(s, tx, t)) = Contained(s) \union {tx}
         /\ Once(s) /\ tx \notin Contained(s) => Once(PeqInsert(s, tx, t))
<1> DEFINE n == Cardinality({j \in DOMAIN s : s[j].left <= t})
           e == [left |-> t, txn |-> tx]
           z == PeqInsert(s, tx, t)
<1>1. DOMAIN s = 1..Len(s) /\ Len(s) \in Nat
  OBVIOUS
<1>2. n \in Nat /\ n <= Len(s)
  <2>1. IsFiniteSet(1..Len(s)) /\ Cardinality(1..Len(s)) = Len(s)
    <3>1. Len(s) \in Nat
      BY <1>1
    <3> DEFINE l == Len(s)
    <3> HIDE DEF l
    <3>2. l \in Nat => IsFiniteSet(1..l) /\ Cardinality(1..l) = l
      BY FS_Interval
    <3> QED BY <3>1, <3>2 DEF l
  <2>2. {j \in DOMAIN s : s[j].left <= t} \subseteq 1..Len(s)
    BY <1>1
  <2>3. /\ IsFiniteSet({j \in DOMAIN s : s[j].left <= t})
        /\ Cardinality({j \in DOMAIN s : s[j].left <= t}) <= Cardinality(1..Len(s))
    BY ONLY <2>1, <2>2, FS_Subset
  <2>4. n \in Nat
    BY <2>3, FS_CardinalityType
  <2> QED BY <2>1, <2>3, <2>4
<1>3. e \in Entry
  BY DEF Entry
<1> HIDE DEF n
<1>4. PICK i \in 1..Len(s)+1 : i = n + 1
  BY <1>1, <1>2
<1>5. z = InsertAt(s, i, e)
  BY <1>4 DEF PeqInsert, n
<1> HIDE DEF e, Entry
<1>6. /\ z \in Seq(Entry) /\ Len(z) = Len(s) + 1
      /\ \A j \in 1..Len(s)+1 : z[j] = IF j < i THEN s[j] ELSE IF j = i THEN e ELSE s[j-1]
  BY <1>3, <1>5, Inserted
<1> HIDE DEF z
<1>7. DOMAIN z = 1..Len(s)+1 /\ e.txn = tx
  BY <1>6 DEF e
<1>8. ASSUME NEW u \in Contained(z) PROVE u \in Contained(s) \union {tx}
  <2>1. PICK j \in 1..Len(s)+1 : u = z[j].txn
    BY <1>7 DEF Contained
  <2>2. CASE j < i
    <3>1. j \in DOMAIN s /\ u = s[j].txn
      BY <1>1, <1>6, <2>1, <2>2
    <3> QED BY <3>1, Zenon DEF Contained
  <2>3. CASE j = i
    BY <1>6, <1>7, <2>1, <2>3
  <2>4. CASE j > i
    <3>1. j - 1 \in DOMAIN s /\ u = s[j-1].txn
      BY <1>1, <1>6, <2>1, <2>4
    <3> QED BY <3>1, Zenon DEF Contained
  <2> QED BY <2>2, <2>3, <2>4
<1>9. ASSUME NEW u \in Contained(s) \union {tx} PROVE u \in Contained(z)
  <2>1. CASE u = tx
    <3>1. z[i] = e /\ i \in DOMAIN z
      BY <1>6, <1>7
    <3> QED BY <1>7, <2>1, <3>1, Zenon DEF Contained
  <2>2. CASE u # tx
    <3>1. PICK j \in DOMAIN s : u = s[j].txn
      BY <2>2 DEF Contained
    <3>2. CASE j < i
      <4>1. j \in DOMAIN z /\ z[j] = s[j]
        BY <1>1, <1>6, <1>7, <3>1, <3>2
      <4> QED BY <3>1, <4>1, Zenon DEF Contained
    <3>3. CASE j >= i
      <4>1. j + 1 \in 1..Len(s)+1 /\ ~(j + 1 < i) /\ j + 1 # i /\ (j + 1) - 1 = j
        BY <1>1, <3>1, <3>3
      <4>2. j + 1 \in DOMAIN z /\ z[j+1] = s[j]
        BY <1>6, <1>7, <4>1
      <4> QED BY <3>1, <4>2, Zenon DEF Contained
    <3> QED BY <1>1, <3>1, <3>2, <3>3
  <2> QED BY <2>1, <2>2
<1>10. ASSUME Once(s), tx \notin Contained(s) PROVE Once(z)
  <2>0. \A j \in 1..Len(s) : s[j].txn # tx
    BY <1>1, <1>10 DEF Contained
  <2> SUFFICES ASSUME NEW j \in 1..Len(s)+1, NEW k \in 1..Len(s)+1, z[j].txn = z[k].txn PROVE j = k
    BY <1>7, Zenon DEF Once
  <2>1. \A l \in 1..Len(s)+1 : \/ l < i /\ l \in 1..Len(s) /\ z[l] = s[l]
                               \/ l = i /\ z[l].txn = tx
                               \/ l > i /\ l - 1 \in 1..Len(s) /\ z[l] = s[l-1]
    <3> SUFFICES ASSUME NEW l \in 1..Len(s)+1
                 PROVE  \/ l < i /\ l \in 1..Len(s) /\ z[l] = s[l]
                        \/ l = i /\ z[l].txn = tx
                        \/ l > i /\ l - 1 \in 1..Len(s) /\ z[l] = s[l-1]
      OBVIOUS
    <3>1. l < i => l \in 1..Len(s) /\ z[l] = s[l]
      BY <1>1, <1>6
    <3>2. l = i => z[l] = e
      BY <1>6
    <3>3. l > i => l - 1 \in 1..Len(s) /\ z[l] = s[l-1]
      BY <1>1, <1>6
    <3> QED BY <1>7, <3>1, <3>2, <3>3
  <2>2. \A k1, k2 \in 1..Len(s) : s[k1].txn = s[k2].txn => k1 = k2
    BY <1>1, <1>10 DEF Once
  <2>3. CASE j < i
    <3>1. j \in 1..Len(s) /\ z[j] = s[j]
      BY <2>1, <2>3
    <3>2. CASE k < i
      BY <2>1, <2>2, <3>1, <3>2
    <3>3. CASE k = i
      BY <2>0, <2>1, <3>1, <3>3
    <3>4. CASE k > i
      <4>1. j = k - 1
        BY <2>1, <2>2, <3>1, <3>4
      <4> QED BY <2>3, <3>4, <4>1
    <3> QED BY <3>2, <3>3, <3>4
  <2>4. CASE j = i
    <3>1. z[j].txn = tx
      BY <2>1, <2>4
    <3>2. k = i
      BY <2>0, <2>1, <3>1
    <3> QED BY <2>4, <3>2
  <2>5. CASE j > i
    <3>1. j - 1 \in 1..Len(s) /\ z[j] = s[j-1]
      BY <2>1, <2>5
    <3>2. CASE k < i
      <4>1. j - 1 = k
        BY <2>1, <2>2, <3>1, <3>2
      <4> QED BY <2>5, <3>2, <4>1
    <3>3. CASE k = i
      BY <2>0, <2>1, <3>1, <3>3
    <3>4. CASE k > i
      <4>1. j - 1 = k - 1
        BY <2>1, <2>2, <3>1, <3>4
      <4> QED BY <4>1
    <3> QED BY <3>2, <3>3, <3>4
  <2> QED BY <2>3, <2>4, <2>5
<1> QED BY <1>6, <1>8, <1>9, <1>10 DEF z

\* What is left of a queue when its head is taken.
LEMMA PeqTail ==
  ASSUME NEW s \in Seq(Entry), s # << >>
  PROVE  /\ Tail(s) \in Seq(Entry) /\ Head(s) \in Entry /\ Head(s).txn \in Contained(s)
         /\ Once(s) => Once(Tail(s)) /\ Contained(Tail(s)) = Contained(s) \ {Head(s).txn}
<1> HIDE DEF Entry
<1>1. /\ Head(s) \in Entry /\ Tail(s) \in Seq(Entry) /\ Head(s) = s[1] /\ Len(s) \in Nat \ {0}
      /\ Len(Tail(s)) = Len(s) - 1 /\ \A i \in 1..Len(s)-1 : Tail(s)[i] = s[i+1]
  BY HeadTailProperties, EmptySeq
<1>2. DOMAIN s = 1..Len(s) /\ DOMAIN Tail(s) = 1..Len(s)-1 /\ 1 \in DOMAIN s
  BY <1>1
<1>3. Head(s).txn \in Contained(s)
  BY <1>1, <1>2, Zenon DEF Contained
<1>4. ASSUME Once(s) PROVE Once(Tail(s)) /\ Contained(Tail(s)) = Contained(s) \ {Head(s).txn}
  <2>1. \A i, j \in 1..Len(s) : s[i].txn = s[j].txn => i = j
    BY <1>2, <1>4 DEF Once
  <2>2. ASSUME NEW i \in 1..Len(s)-1, NEW j \in 1..Len(s)-1, Tail(s)[i].txn = Tail(s)[j].txn PROVE i = j
    <3>1. i + 1 \in 1..Len(s) /\ j + 1 \in 1..Len(s)
      BY <1>1
    <3>2. i + 1 = j + 1
      BY <1>1, <2>1, <2>2, <3>1
    <3> QED BY <3>2
  <2>3. ASSUME NEW u \in Contained(Tail(s)) PROVE u \in Contained(s) \ {Head(s).txn}
    <3>1. PICK i \in 1..Len(s)-1 : u = Tail(s)[i].txn
      BY <1>2 DEF Contained
    <3>2. i + 1 \in DOMAIN s /\ u = s[i+1].txn /\ i + 1 # 1
      BY <1>1, <1>2, <3>1
    <3>3. u # s[1].txn
      BY <1>2, <2>1, <3>2
    <3> QED BY <1>1, <3>2, <3>3, Zenon DEF Contained
  <2>4. ASSUME NEW u \in Contained(s), u # Head(s).txn PROVE u \in Contained(Tail(s))
    <3>1. PICK i \in 1..Len(s) : u = s[i].txn
      BY <1>2 DEF Contained
    <3>2. i # 1
      BY <1>1, <2>4, <3>1
    <3>3. i - 1 \in 1..Len(s)-1 /\ (i - 1) + 1 = i
      BY <1>1, <3>1, <3>2
    <3>4. i - 1 \in DOMAIN Tail(s) /\ u = Tail(s)[i-1].txn
      BY <1>1, <1>2, <3>1, <3>3
    <3> QED BY <3>4, Zenon DEF Contained
  <2>5. Once(Tail(s))
    BY <1>2, <2>2, Zenon DEF Once
  <2> QED BY <2>3, <2>4, <2>5
<1> QED BY <1>1, <1>3, <1>4

\* A payload is put into a queue.
LEMMA PeqPut ==
  ASSUME PeqOK, NEW q \in Peq, NEW tx \in Txn, NEW t \in 0..LongestDelay,
         peq' = [peq EXCEPT ![q] = PeqInsert(@, tx, t)]
  PROVE  /\ PeqOK'
         /\ \A r \in Peq : \A u : (u \in Queued(r))' <=> u \in Queued(r) \/ (r = q /\ u = tx)
         /\ tx \notin Queued(q) /\ (\A r \in Peq : Once(peq[r])) => \A r \in Peq : Once(peq'[r])
<1> HIDE DEF Entry, Peq
<1>1. PICK s \in Seq(Entry) : s = peq[q]
  BY DEF PeqOK
<1>2. PICK z : z = PeqInsert(s, tx, t)
  OBVIOUS
<1>3. /\ z \in Seq(Entry) /\ Contained(z) = Contained(s) \union {tx}
      /\ Once(s) /\ tx \notin Contained(s) => Once(z)
  BY <1>2, PeqInserted
<1>4. peq' = [peq EXCEPT ![q] = z]
  BY <1>1, <1>2
<1>5. peq'[q] = z /\ \A r \in Peq : r # q => peq'[r] = peq[r]
  BY <1>4 DEF PeqOK
<1>6. PeqOK'
  BY <1>3, <1>4 DEF PeqOK
<1>7. /\ Queued(q) = Contained(s) /\ Queued(q)' = Contained(z)
      /\ \A r \in Peq : r # q => Queued(r)' = Queued(r)
  BY <1>1, <1>5 DEF Queued, Contained
<1> QED BY <1>1, <1>3, <1>5, <1>6, <1>7, Zenon

\* The head of a queue is taken.
LEMMA PeqTaken ==
  ASSUME PeqOK, \A r \in Peq : Once(peq[r]), NEW q \in Peq, PeqDue(q),
         NEW tx, tx = Head(peq[q]).txn, peq' = PeqPop(q)
  PROVE  /\ PeqOK' /\ tx \in Txn /\ tx \in Queued(q)
         /\ \A r \in Peq : \A u : (u \in Queued(r))' <=> u \in Queued(r) /\ ~(r = q /\ u = tx)
         /\ \A r \in Peq : Once(peq'[r])
<1> HIDE DEF Peq
<1>1. PICK s \in Seq(Entry) : s = peq[q]
  BY DEF PeqOK
<1>2. s # << >> /\ Once(s)
  BY <1>1 DEF PeqDue
<1>3. /\ Tail(s) \in Seq(Entry) /\ Head(s) \in Entry /\ Head(s).txn \in Contained(s)
      /\ Once(Tail(s)) /\ Contained(Tail(s)) = Contained(s) \ {Head(s).txn}
  BY <1>2, PeqTail
<1>4. tx \in Txn /\ tx = Head(s).txn
  BY <1>1, <1>3 DEF Entry
<1> HIDE DEF Entry
<1>5. peq' = [peq EXCEPT ![q] = Tail(s)]
  BY <1>1 DEF PeqPop
<1>6. peq'[q] = Tail(s) /\ \A r \in Peq : r # q => peq'[r] = peq[r]
  BY <1>5 DEF PeqOK
<1>7. PeqOK'
  BY <1>3, <1>5 DEF PeqOK
<1>8. /\ Queued(q) = Contained(s) /\ Queued(q)' = Contained(Tail(s))
      /\ \A r \in Peq : r # q => Queued(r)' = Queued(r)
  BY <1>1, <1>6 DEF Queued, Contained
<1> QED BY <1>1, <1>3, <1>4, <1>6, <1>7, <1>8, Zenon

\* The advance of time moves no payload.
LEMMA PeqAged ==
  ASSUME PeqOK, \A r \in Peq : Once(peq[r]), NEW d \in Nat,
         peq' = [q \in Peq |-> [j \in DOMAIN peq[q] |->
                   [peq[q][j] EXCEPT !.left = IF @ > d THEN @ - d ELSE 0]]]
  PROVE  /\ PeqOK' /\ (\A r \in Peq : Once(peq'[r]))
         /\ \A r \in Peq : \A u : (u \in Queued(r))' <=> u \in Queued(r)
<1> HIDE DEF Peq
<1>1. ASSUME NEW q \in Peq
      PROVE  /\ peq'[q] \in Seq(Entry) /\ DOMAIN peq'[q] = DOMAIN peq[q]
             /\ \A j \in DOMAIN peq[q] : peq'[q][j].txn = peq[q][j].txn
  <2>1. PICK s \in Seq(Entry) : s = peq[q]
    BY DEF PeqOK
  <2> DEFINE aged(x) == [x EXCEPT !.left = IF @ > d THEN @ - d ELSE 0]
             z == [j \in DOMAIN s |-> aged(s[j])]
  <2>2. Len(s) \in Nat /\ DOMAIN s = 1..Len(s)
    OBVIOUS
  <2>3. ASSUME NEW x \in Entry PROVE aged(x) \in Entry /\ aged(x).txn = x.txn
    <3>1. PICK l \in 0..LongestDelay : l = IF x.left > d THEN x.left - d ELSE 0
      BY AtNumbers DEF Entry
    <3>2. aged(x) = [x EXCEPT !.left = l]
      BY <3>1
    <3> QED BY <3>1, <3>2 DEF Entry
  <2>4. \A j \in DOMAIN s : s[j] \in Entry
    OBVIOUS
  <2> HIDE DEF aged, Entry
  <2>5. z \in Seq(Entry) /\ DOMAIN z = DOMAIN s /\ \A j \in DOMAIN s : z[j].txn = s[j].txn
    BY <2>2, <2>3, <2>4
  <2>6. peq'[q] = z
    BY <2>1 DEF aged
  <2> QED BY <2>1, <2>5, <2>6, Zenon
<1> HIDE DEF Entry
<1>2. PeqOK'
  BY <1>1 DEF PeqOK
<1>3. ASSUME NEW r \in Peq PROVE Once(peq'[r])
  <2>1. Once(peq[r])
    OBVIOUS
  <2> QED BY <1>1, <2>1 DEF Once
<1>4. \A r \in Peq : Queued(r)' = Queued(r)
  BY <1>1 DEF Queued
<1> QED BY <1>2, <1>3, <1>4

-----------------------------------------------------------------------------
(* Calls *)

\* Which program counter tells whether a process is in a call, before a step and
\* after it, and which call is its.
LEMMA CallingNames ==
  /\ \A n \in Initiator :
       /\ Calling(Ini(n)) <=> ini[n].pc = "sent"
       /\ Calling(Ini(n))' <=> ini'[n].pc = "sent"
       /\ Calling(EndRsp(n)) <=> ini[n].mpc = "sent"
       /\ Calling(EndRsp(n))' <=> ini'[n].mpc = "sent"
       /\ ~Calling(Tg(n))
       /\ CallOf(Ini(n)) <=> RequestCall(n)
       /\ CallOf(Ini(n))' <=> RequestCall(n)'
       /\ CallOf(EndRsp(n)) <=> CloseCall(n)
       /\ CallOf(EndRsp(n))' <=> CloseCall(n)'
  /\ \A m \in Target :
       /\ Calling(BeginResponse(m)) <=> tgt[m].rpc = "sent"
       /\ Calling(BeginResponse(m))' <=> tgt'[m].rpc = "sent"
       /\ Calling(EndRequest(m)) <=> tgt[m].epc = "sent"
       /\ Calling(EndRequest(m))' <=> tgt'[m].epc = "sent"
       /\ CallOf(BeginResponse(m)) <=> BeginRespCall(m)
       /\ CallOf(BeginResponse(m))' <=> BeginRespCall(m)'
       /\ CallOf(EndRequest(m)) <=> TargetEndReqCall(m)
       /\ CallOf(EndRequest(m))' <=> TargetEndReqCall(m)'
  /\ Calling(RequestThread) <=> bus.req.pc \in {"sent", "told"}
  /\ Calling(RequestThread)' <=> bus'.req.pc \in {"sent", "told"}
  /\ Calling(ResponseThread) <=> bus.rsp.pc \in {"sent", "told"}
  /\ Calling(ResponseThread)' <=> bus'.rsp.pc \in {"sent", "told"}
  /\ CallOf(RequestThread) <=> ForwardCall \/ EndReqCall
  /\ CallOf(RequestThread)' <=> ForwardCall' \/ EndReqCall'
  /\ CallOf(ResponseThread) <=> ReplyCall \/ EndRspCall
  /\ CallOf(ResponseThread)' <=> ReplyCall' \/ EndRspCall'
<1> USE DEF Ini, EndRsp, BeginResponse, EndRequest, RequestThread, ResponseThread, Tg
<1>1. ASSUME NEW n \in Initiator
      PROVE  /\ Calling(<<"initiator", n>>) <=> ini[n].pc = "sent"
             /\ Calling(<<"initiator", n>>)' <=> ini'[n].pc = "sent"
             /\ Calling(<<"send_end_rsp", n>>) <=> ini[n].mpc = "sent"
             /\ Calling(<<"send_end_rsp", n>>)' <=> ini'[n].mpc = "sent"
             /\ ~Calling(<<"generator", n>>)
  BY DEF Calling
<1>2. ASSUME NEW m \in Target
      PROVE  /\ Calling(<<"begin_response", m>>) <=> tgt[m].rpc = "sent"
             /\ Calling(<<"begin_response", m>>)' <=> tgt'[m].rpc = "sent"
             /\ Calling(<<"end_request", m>>) <=> tgt[m].epc = "sent"
             /\ Calling(<<"end_request", m>>)' <=> tgt'[m].epc = "sent"
  BY DEF Calling
<1>3. /\ Calling(<<"request", 0>>) <=> bus.req.pc \in {"sent", "told"}
      /\ Calling(<<"request", 0>>)' <=> bus'.req.pc \in {"sent", "told"}
      /\ Calling(<<"response", 0>>) <=> bus.rsp.pc \in {"sent", "told"}
      /\ Calling(<<"response", 0>>)' <=> bus'.rsp.pc \in {"sent", "told"}
  BY DEF Calling
<1> HIDE DEF RequestCall, CloseCall, BeginRespCall, TargetEndReqCall, ForwardCall, EndReqCall, ReplyCall,
             EndRspCall
<1>4. ASSUME NEW n \in Initiator
      PROVE  /\ CallOf(<<"initiator", n>>) <=> RequestCall(n)
             /\ CallOf(<<"initiator", n>>)' <=> RequestCall(n)'
             /\ CallOf(<<"send_end_rsp", n>>) <=> CloseCall(n)
             /\ CallOf(<<"send_end_rsp", n>>)' <=> CloseCall(n)'
  BY DEF CallOf
<1>5. ASSUME NEW m \in Target
      PROVE  /\ CallOf(<<"begin_response", m>>) <=> BeginRespCall(m)
             /\ CallOf(<<"begin_response", m>>)' <=> BeginRespCall(m)'
             /\ CallOf(<<"end_request", m>>) <=> TargetEndReqCall(m)
             /\ CallOf(<<"end_request", m>>)' <=> TargetEndReqCall(m)'
  BY DEF CallOf
<1>6. /\ CallOf(<<"request", 0>>) <=> ForwardCall \/ EndReqCall
      /\ CallOf(<<"request", 0>>)' <=> ForwardCall' \/ EndReqCall'
      /\ CallOf(<<"response", 0>>) <=> ReplyCall \/ EndRspCall
      /\ CallOf(<<"response", 0>>)' <=> ReplyCall' \/ EndRspCall'
  BY DEF CallOf
<1> QED BY <1>1, <1>2, <1>3, <1>4, <1>5, <1>6, Zenon

\* A step that changes the program counter of one process only.
LEMMA OnlyInitiator ==
  ASSUME DOMAIN ini = Initiator, NEW n \in Initiator, NEW r, ini' = [ini EXCEPT ![n] = r],
         tgt' = tgt, bus' = bus
  PROVE  /\ r.mpc = ini[n].mpc => \A p \in Process : p # Ini(n) => (Calling(p)' <=> Calling(p))
         /\ r.pc = ini[n].pc => \A p \in Process : p # EndRsp(n) => (Calling(p)' <=> Calling(p))
         /\ ini'[n] = r /\ \A m \in Initiator : m # n => ini'[m] = ini[m]
<1>1. ini'[n] = r /\ \A m \in Initiator : m # n => ini'[m] = ini[m]
  OBVIOUS
<1>2. \A p \in {"initiator", "send_end_rsp"} \X Initiator : p = <<p[1], p[2]>> /\ p[2] \in Initiator
  OBVIOUS
<1>3. ASSUME NEW p \in Process, r.mpc = ini[n].mpc, p # Ini(n) PROVE Calling(p)' <=> Calling(p)
  BY <1>1, <1>3 DEF Calling, Ini
<1>4. ASSUME NEW p \in Process, r.pc = ini[n].pc, p # EndRsp(n) PROVE Calling(p)' <=> Calling(p)
  BY <1>1, <1>4 DEF Calling, EndRsp
<1> QED BY <1>1, <1>3, <1>4

LEMMA OnlyTarget ==
  ASSUME DOMAIN tgt = Target, NEW m \in Target, NEW r, tgt' = [tgt EXCEPT ![m] = r],
         ini' = ini, bus' = bus
  PROVE  /\ r.epc = tgt[m].epc => \A p \in Process : p # BeginResponse(m) => (Calling(p)' <=> Calling(p))
         /\ r.rpc = tgt[m].rpc => \A p \in Process : p # EndRequest(m) => (Calling(p)' <=> Calling(p))
         /\ tgt'[m] = r /\ \A k \in Target : k # m => tgt'[k] = tgt[k]
<1>1. tgt'[m] = r /\ \A k \in Target : k # m => tgt'[k] = tgt[k]
  OBVIOUS
<1>3. ASSUME NEW p \in Process, r.epc = tgt[m].epc, p # BeginResponse(m) PROVE Calling(p)' <=> Calling(p)
  BY <1>1, <1>3 DEF Calling, BeginResponse
<1>4. ASSUME NEW p \in Process, r.rpc = tgt[m].rpc, p # EndRequest(m) PROVE Calling(p)' <=> Calling(p)
  BY <1>1, <1>4 DEF Calling, EndRequest
<1> QED BY <1>1, <1>3, <1>4

LEMMA OnlyBus ==
  ASSUME ini' = ini, tgt' = tgt
  PROVE  /\ bus'.rsp = bus.rsp => \A p \in Process : p # RequestThread => (Calling(p)' <=> Calling(p))
         /\ bus'.req = bus.req => \A p \in Process : p # ResponseThread => (Calling(p)' <=> Calling(p))
BY Zenon DEF Calling

\* A process that is not in a call runs while there is none.
LEMMA NotCalling ==
  ASSUME Calls, simc.cur \notin Process \/ ~Calling(simc.cur)
  PROVE  link = NoCall /\ \A p \in Process : ~Calling(p)
BY DEF Calls

\* A process runs that is in a call.
LEMMA InCall ==
  ASSUME Calls, NEW p \in Process, Calling(p)
  PROVE  /\ link # NoCall /\ link \in LinkShape /\ simc.cur = p /\ CallOf(p)
         /\ \A q \in Process : q # p => ~Calling(q)
BY DEF Calls

\* Steps outside a call, the step that makes one, and the caller's return from it.
LEMMA CallsQuiet ==
  ASSUME Calls, link = NoCall, link' = NoCall, \A p \in Process : Calling(p)' => Calling(p)
  PROVE  Calls'
<1>1. \A p \in Process : ~Calling(p)
  BY DEF Calls
<1>2. \A p \in Process : ~Calling(p)'
  BY <1>1
<1> HIDE DEF Calling, CallOf
<1> QED BY <1>2, Zenon DEF Calls

LEMMA CallsMade ==
  ASSUME Calls, link = NoCall, NEW p \in Process, simc'.cur = p,
         \A q \in Process : q # p => (Calling(q)' <=> Calling(q)),
         Calling(p)', link' \in LinkShape, CallOf(p)'
  PROVE  Calls'
<1>1. \A q \in Process : ~Calling(q)
  BY DEF Calls
<1>2. \A q \in Process : Calling(q)' => q = p
  BY <1>1
<1>3. link'.status # "none"
  BY DEF LinkShape
<1>4. link' # NoCall
  BY <1>3 DEF NoCall
<1> HIDE DEF Calling, CallOf, LinkShape, NoCall, Process
<1> QED BY <1>2, <1>4 DEF Calls

LEMMA CallsReturned ==
  ASSUME Calls, NEW p \in Process, simc.cur = p, link' = NoCall, ~Calling(p)',
         \A q \in Process : q # p => (Calling(q)' <=> Calling(q))
  PROVE  Calls'
<1>1. \A q \in Process : ~Calling(q)'
  BY DEF Calls
<1> HIDE DEF Calling, CallOf
<1> QED BY <1>1, Zenon DEF Calls

\* The program counters of the callers stay.
SamePcs ==
  /\ \A n \in Initiator : ini'[n].pc = ini[n].pc /\ ini'[n].txn = ini[n].txn /\ ini'[n].mpc = ini[n].mpc
  /\ \A m \in Target : tgt'[m].rpc = tgt[m].rpc /\ tgt'[m].epc = tgt[m].epc
  /\ bus'.req = bus.req /\ bus'.rsp = bus.rsp

\* The answers a callee may give to a call.
Valid(status, phase, delay) ==
  \/ status = "ACCEPTED" /\ phase = link.phase /\ delay = link.delay /\ phase # "END_RESP"
  \/ status = "COMPLETED" /\ phase = link.phase /\ delay = link.delay /\ phase = "END_RESP"
  \/ /\ link.callee[1] = "target" /\ link.phase = "BEGIN_REQ"
     /\ \/ status = "UPDATED" /\ phase = "END_REQ" /\ delay = AcceptDelay
        \/ status = "COMPLETED" /\ phase = "BEGIN_REQ" /\ delay + EndRspDelay <= LongestDelay
  \/ /\ link.callee[1] = "initiator" /\ link.phase = "BEGIN_RESP"
     /\ status = "COMPLETED" /\ phase = "END_RESP" /\ delay = EndRspDelay

\* The callee answers.
LEMMA CallsAnswered ==
  ASSUME Calls, link # NoCall, link.status = "called", SamePcs, simc'.cur = simc.cur,
         NEW status, NEW phase, NEW delay \in 0..LongestDelay, link' = Answer(status, phase, delay),
         Valid(status, phase, delay)
  PROVE  /\ Calls' /\ link'.status # "called" /\ link' # NoCall /\ link'.txn = link.txn
         /\ link'.status = status /\ link'.phase = phase /\ link'.delay = delay
<1>1. PICK c : c = simc.cur
  OBVIOUS
<1>2. PICK l \in LinkShape : l = link
  BY DEF Calls
<1>3. c \in Process /\ Calling(c) /\ CallOf(c) /\ \A q \in Process : Calling(q) => q = c
  BY <1>1 DEF Calls
<1>4. status \in {"ACCEPTED", "UPDATED", "COMPLETED"} /\ phase \in Phases
  BY <1>2 DEF Valid, LinkShape, Phases
<1>5. /\ link' \in LinkShape /\ link'.txn = l.txn /\ link'.callee = l.callee
      /\ link'.status = status /\ link'.phase = phase /\ link'.delay = delay
  <2>1. link' = [l EXCEPT !.status = status, !.phase = phase, !.delay = delay]
    BY <1>2 DEF Answer
  <2> QED BY <1>4, <2>1 DEF LinkShape
<1>6. link'.status # "called" /\ link' # NoCall
  BY <1>4, <1>5 DEF NoCall
<1>7. \A q \in Process : Calling(q)' <=> Calling(q)
  <2>1. ASSUME NEW q \in Process PROVE Calling(q)' <=> Calling(q)
    <3>1. q \in ({"initiator", "send_end_rsp"} \X Initiator) => q[2] \in Initiator
      OBVIOUS
    <3>2. q \in ({"begin_response", "end_request"} \X Target) => q[2] \in Target
      OBVIOUS
    <3> QED BY <3>1, <3>2 DEF Calling, SamePcs
  <2> QED BY <2>1
<1>8. CallOf(c)'
  <2>1. /\ c \in {"initiator"} \X Initiator => RequestCall(c[2])'
        /\ c \in {"send_end_rsp"} \X Initiator => CloseCall(c[2])'
    <3>1. ASSUME NEW n \in Initiator, RequestCall(n) PROVE RequestCall(n)'
      BY <1>2, <1>5, <3>1
      DEF RequestCall, Open, Accepted, ReqEnds, Complete, Valid, SamePcs, FromInitiator
    <3>2. ASSUME NEW n \in Initiator, CloseCall(n) PROVE CloseCall(n)'
      BY <1>2, <1>5, <3>2 DEF CloseCall, Open, Closed, Valid, FromInitiator
    <3> HIDE DEF RequestCall, CloseCall
    <3> QED BY <1>3, <3>1, <3>2 DEF CallOf
  <2>2. /\ c \in {"begin_response"} \X Target => BeginRespCall(c[2])'
        /\ c \in {"end_request"} \X Target => TargetEndReqCall(c[2])'
    <3>1. ASSUME NEW m \in Target, BeginRespCall(m) PROVE BeginRespCall(m)'
      BY <1>2, <1>5, <3>1 DEF BeginRespCall, Open, Accepted, RspEnds, Valid, FromTarget
    <3>2. ASSUME NEW m \in Target, TargetEndReqCall(m) PROVE TargetEndReqCall(m)'
      BY <1>2, <1>5, <3>2 DEF TargetEndReqCall, Open, Accepted, Valid, FromTarget
    <3> HIDE DEF BeginRespCall, TargetEndReqCall
    <3> QED BY <1>3, <3>1, <3>2 DEF CallOf
  <2>3. c = RequestThread => ForwardCall' \/ EndReqCall'
    <3>1. ForwardCall => ForwardCall'
      BY <1>2, <1>5 DEF ForwardCall, Open, Accepted, ReqEnds, Complete, Valid, SamePcs
    <3>2. EndReqCall => EndReqCall'
      BY <1>2, <1>5 DEF EndReqCall, Open, Accepted, Valid, SamePcs, ToInitiator
    <3> HIDE DEF ForwardCall, EndReqCall
    <3> QED BY <1>3, <3>1, <3>2 DEF CallOf
  <2>4. c = ResponseThread => ReplyCall' \/ EndRspCall'
    <3>1. ReplyCall => ReplyCall'
      BY <1>2, <1>5 DEF ReplyCall, Open, Accepted, RspEnds, Valid, SamePcs, ToInitiator
    <3>2. EndRspCall => EndRspCall'
      BY <1>2, <1>5 DEF EndRspCall, Open, Closed, Valid, SamePcs
    <3> HIDE DEF ReplyCall, EndRspCall
    <3> QED BY <1>3, <3>1, <3>2 DEF CallOf
  <2> HIDE DEF RequestCall, CloseCall, BeginRespCall, TargetEndReqCall, ForwardCall, EndReqCall, ReplyCall,
               EndRspCall
  <2> QED BY <2>1, <2>2, <2>3, <2>4 DEF CallOf
<1> HIDE DEF Calling, CallOf, LinkShape, NoCall, Process
<1>9. Calls'
  BY <1>1, <1>3, <1>5, <1>6, <1>7, <1>8 DEF Calls
<1> QED BY <1>2, <1>5, <1>6, <1>9

-----------------------------------------------------------------------------
(* Payloads a step does not touch *)

\* Nothing about payload tx changes but, it may be, the call it is in.
Unmoved(tx) ==
  /\ gp'[tx] = gp[tx] /\ tg'[Owner(tx)].pass = tg[Owner(tx)].pass
  /\ Pooled(tx)' <=> Pooled(tx)
  /\ Outgoing(tx)' <=> Outgoing(tx)
  /\ Incoming(tx)' <=> Incoming(tx)
  /\ Sending(tx)' <=> Sending(tx)
  /\ Returning(tx)' <=> Returning(tx)
  /\ ini'[Owner(tx)].map[tx] = ini[Owner(tx)].map[tx]
  /\ Closing(tx)' <=> Closing(tx)
  /\ \A q \in Peq : (tx \in Queued(q))' <=> tx \in Queued(q)
  /\ bus'.pending[tx].known = bus.pending[tx].known /\ bus'.pending[tx].from = bus.pending[tx].from
  /\ Responding(tx)' <=> Responding(tx)

Untouched(tx) == Unmoved(tx) /\ (About(tx)' <=> About(tx)) /\ (About(tx) => link' = link)

\* What follows for the parts of the payload's invariant.
LEMMA UnmovedParts ==
  ASSUME NEW tx \in Txn, Unmoved(tx)
  PROVE  /\ Heard(tx)' <=> Heard(tx)
         /\ Ending(tx)' <=> Ending(tx)
         /\ InHand(tx)' <=> InHand(tx)
         /\ Held(tx)' = Held(tx) /\ Port(tx)' = Port(tx) /\ Where(tx)' = Where(tx)
         /\ Asked(tx)' <=> Asked(tx)
         /\ CarriedOut(tx)' <=> CarriedOut(tx)
         /\ Waiting(tx)' <=> Waiting(tx)
         /\ Known(tx)' <=> Known(tx)
         /\ Tracked(tx)' <=> Tracked(tx)
         /\ \A q \in Peq : Fits(q, tx)' <=> Fits(q, tx)
<1>1. Heard(tx)' <=> Heard(tx)
  BY DEF Unmoved, Heard
<1>2. Ending(tx)' <=> Ending(tx)
  <2>1. Owner(tx) \in Initiator
    BY OwnerFacts
  <2>2. EndRspPeq(Owner(tx)) \in Peq
    BY <2>1, AtNames
  <2> QED BY <2>2 DEF Unmoved, Ending
<1>3. Known(tx)' <=> Known(tx)
  BY DEF Unmoved, Known
<1>4. Tracked(tx)' <=> Tracked(tx)
  BY DEF Unmoved, Tracked
<1>5. Held(tx)' = Held(tx)
  BY <1>3 DEF Unmoved, Held, BusHolds
<1>6. Port(tx)' = Port(tx) /\ Where(tx)' = Where(tx)
  BY DEF Unmoved, Port, Where
<1>7. (Asked(tx)' <=> Asked(tx)) /\ (CarriedOut(tx)' <=> CarriedOut(tx)) /\ gp'[tx] = gp[tx]
  BY DEF Unmoved, Asked, CarriedOut
<1>8. /\ Waiting(tx)' <=> Waiting(tx)
      /\ InHand(tx)' <=> InHand(tx)
  BY <1>1, <1>2, Zenon DEF Unmoved, Waiting, InHand
<1>9. \A q \in Peq : Fits(q, tx)' <=> Fits(q, tx)
  BY <1>6, <1>7, <1>8, Zenon DEF Fits
<1> QED BY <1>1, <1>2, <1>3, <1>4, <1>5, <1>6, <1>7, <1>8, <1>9

\* A payload that was not moved keeps all of its invariant that does not speak of
\* a call.
LEMMA UnmovedInv ==
  ASSUME NEW tx \in Txn, Unmoved(tx), PayloadInv(tx)
  PROVE  /\ OneHand(tx)' /\ Contents(tx)'
         /\ \A q \in Peq : tx \in Queued(q)' => /\ tx \in Queued(q) /\ Fits(q, tx)'
                                                /\ \A r \in Peq : tx \in Queued(r)' => q = r
<1> HIDE DEF Heard, Ending, Closing, Sending, Returning, Asked, CarriedOut, Pooled, Outgoing, Incoming, Port,
             Where, Known, Waiting, Fits, Queued, Held, Peq
<1>1. OneHand(tx)'
  BY UnmovedParts, Zenon DEF Unmoved, PayloadInv, OneHand
<1>2. Contents(tx)'
  BY UnmovedParts, Zenon DEF Unmoved, PayloadInv, Contents
<1>3. \A q \in Peq : tx \in Queued(q)' => tx \in Queued(q) /\ Fits(q, tx)'
  BY UnmovedParts, Zenon DEF Unmoved, PayloadInv, InQueues
<1>4. \A q, r \in Peq : tx \in Queued(q)' /\ tx \in Queued(r)' => q = r
  BY Zenon DEF Unmoved, PayloadInv, InQueues
<1> QED BY <1>1, <1>2, <1>3, <1>4, Zenon

\* A payload the step does not touch.
LEMMA UntouchedInv ==
  ASSUME NEW tx \in Txn, Untouched(tx), PayloadInv(tx)
  PROVE  PayloadInv(tx)'
<1>1. Unmoved(tx)
  BY DEF Untouched
<1>2. /\ About(tx)' <=> About(tx)
      /\ About(tx) => link' = link
      /\ Asks(tx)' <=> Asks(tx)
      /\ Reports(tx)' <=> Reports(tx)
      /\ Responds(tx)' <=> Responds(tx)
      /\ EndsReq(tx)' <=> EndsReq(tx)
      /\ Telling(tx)' <=> Telling(tx)
  BY Zenon DEF Untouched, Asks, Reports, Responds, EndsReq, Telling
<1>3. InTransit(tx)'
  <2>1. Asks(tx) => link' = link
    BY <1>2 DEF Asks
  <2> HIDE DEF Asks, Reports, Responds, EndsReq, Known, Asked, CarriedOut, Waiting, Port, Where
  <2> QED BY <1>1, <1>2, <2>1, UnmovedParts, Zenon DEF Unmoved, PayloadInv, InTransit
<1>4. InQueues(tx)'
  <2> HIDE DEF Asks, Reports, Responds, Fits, Queued, Peq
  <2> QED BY <1>1, <1>2, UnmovedInv, Zenon DEF PayloadInv, InQueues
<1>5. Tracking(tx)'
  <2> HIDE DEF Telling, Responding, Sending, Heard, Tracked, Known, About
  <2> QED BY <1>1, <1>2, UnmovedParts, Zenon DEF Unmoved, PayloadInv, Tracking
<1> QED BY <1>1, <1>3, <1>4, <1>5, UnmovedInv DEF PayloadInv

\* Parts of the state that a step leaves alone.
LEMMA GeneratorSame ==
  ASSUME tg' = tg, pool' = pool, fifo' = fifo
  PROVE  \A tx \in Txn : /\ Pooled(tx)' <=> Pooled(tx)
                         /\ Outgoing(tx)' <=> Outgoing(tx)
                         /\ Incoming(tx)' <=> Incoming(tx)
                         /\ tg'[Owner(tx)].pass = tg[Owner(tx)].pass
                         /\ Port(tx)' = Port(tx) /\ Where(tx)' = Where(tx)
BY DEF Pooled, Outgoing, Incoming, Port, Where, Putting, Requested, Responded

LEMMA InitiatorSame ==
  ASSUME ini' = ini
  PROVE  \A tx \in Txn : /\ Sending(tx)' <=> Sending(tx)
                         /\ Returning(tx)' <=> Returning(tx)
                         /\ Heard(tx)' <=> Heard(tx)
                         /\ ini'[Owner(tx)].map[tx] = ini[Owner(tx)].map[tx]
BY DEF Sending, Returning, Heard

LEMMA BusSame ==
  ASSUME bus' = bus
  PROVE  \A tx \in Txn : /\ Known(tx)' <=> Known(tx)
                         /\ Tracked(tx)' <=> Tracked(tx)
                         /\ Responding(tx)' <=> Responding(tx)
                         /\ bus'.pending[tx].known = bus.pending[tx].known
                         /\ bus'.pending[tx].from = bus.pending[tx].from
BY DEF Known, Tracked, Responding

LEMMA PeqSame ==
  ASSUME peq' = peq
  PROVE  \A q \in Peq : \A tx : (tx \in Queued(q))' <=> tx \in Queued(q)
BY DEF Queued

\* With no process in a call no payload is in one.
LEMMA NobodyCalls ==
  /\ (\A p \in Process : ~Calling(p)) => \A tx \in Txn : ~Sending(tx) /\ ~Closing(tx)
  /\ (\A p \in Process : ~Calling(p)') => \A tx \in Txn : ~Sending(tx)' /\ ~Closing(tx)'
<1>1. \A tx \in Txn : Owner(tx) \in Initiator
  BY OwnerFacts
<1>2. \A n \in Initiator : Ini(n) \in Process /\ EndRsp(n) \in Process
  BY AtNames
<1> HIDE DEF Process, Calling
<1> QED BY <1>1, <1>2, CallingNames, Zenon DEF Sending, Closing

\* A call is about its payload only.
LEMMA CallMade ==
  ASSUME NEW c, NEW tx \in Txn, NEW phase, link' = Call(c, tx, phase)
  PROVE  /\ link' # NoCall /\ link'.txn = tx /\ link'.status = "called" /\ link'.phase = phase
         /\ link'.callee = c /\ link'.delay = 0
         /\ About(tx)' /\ ~Reports(tx)'
         /\ Asks(tx)' <=> phase = "BEGIN_REQ"
         /\ Responds(tx)' <=> phase = "BEGIN_RESP"
         /\ EndsReq(tx)' <=> phase = "END_REQ"
         /\ Telling(tx)' <=> phase = "BEGIN_RESP" /\ c = ToInitiator(Owner(tx))
         /\ \A u \in Txn : u # tx => ~About(u)'
<1>1. /\ link'.txn = tx /\ link'.status = "called" /\ link'.phase = phase /\ link'.callee = c /\ link'.delay = 0
  BY DEF Call
<1>2. link' # NoCall
  BY <1>1 DEF NoCall
<1> QED BY <1>1, <1>2 DEF About, Asks, Reports, Responds, EndsReq, Telling

LEMMA CallOver ==
  /\ link = NoCall => \A tx : /\ ~About(tx) /\ ~Asks(tx) /\ ~Reports(tx) /\ ~Responds(tx) /\ ~EndsReq(tx)
                              /\ ~Telling(tx)
  /\ link' = NoCall => \A tx : /\ ~About(tx)' /\ ~Asks(tx)' /\ ~Reports(tx)' /\ ~Responds(tx)' /\ ~EndsReq(tx)'
                               /\ ~Telling(tx)'
BY DEF About, Asks, Reports, Responds, EndsReq, Telling

\* Steps that keep what the initiators have in hand, and what the generators hold.
LEMMA HandsSame ==
  ASSUME NEW n \in Initiator,
         \A tx \in Payloads(n) : (InHand(tx)' <=> InHand(tx)) /\ Held(tx)' = Held(tx)
  PROVE  Away(n)' = Away(n) /\ HeldBy(n)' = HeldBy(n)
BY DEF Away, HeldBy

LEMMA AccountedSame ==
  ASSUME \A n \in Initiator : Accounted(n, Away(n), HeldBy(n)),
         tg' = tg, pool' = pool, fifo' = fifo,
         \A tx \in Txn : (InHand(tx)' <=> InHand(tx)) /\ Held(tx)' = Held(tx)
  PROVE  \A n \in Initiator : Accounted(n, Away(n), HeldBy(n))'
<1> SUFFICES ASSUME NEW n \in Initiator PROVE Accounted(n, Away(n), HeldBy(n))'
  OBVIOUS
<1>1. Payloads(n) \subseteq Txn
  BY OwnerFacts
<1>2. Away(n)' = Away(n) /\ HeldBy(n)' = HeldBy(n)
  <2> HIDE DEF InHand, Held
  <2> QED BY <1>1, HandsSame
<1>3. PICK away, held : away = Away(n) /\ held = HeldBy(n)
  OBVIOUS
<1>4. Accounted(n, away, held)
  BY <1>3
<1>5. Accounted(n, away, held)'
  BY <1>4, AccountedFrame
<1> QED BY <1>2, <1>3, <1>5

\* No payload is touched.
LEMMA AllUntouched ==
  ASSUME AtCore, Types', Calls', \A q \in Peq : Once(peq'[q]), \A tx \in Txn : Untouched(tx),
         tg' = tg, pool' = pool, fifo' = fifo
  PROVE  AtCore'
<1>1. \A tx \in Txn : PayloadInv(tx)'
  BY UntouchedInv DEF AtCore
<1>2. \A tx \in Txn : (InHand(tx)' <=> InHand(tx)) /\ Held(tx)' = Held(tx)
  BY UnmovedParts DEF Untouched
<1>3. \A n \in Initiator : Accounted(n, Away(n), HeldBy(n))'
  BY <1>2, AccountedSame, Zenon DEF AtCore
<1> QED BY <1>1, <1>3 DEF AtCore

-----------------------------------------------------------------------------
(* The kernel's part of the steps *)

\* What the processes do to the kernel keeps its record in shape, and only a wait
\* or a return gives up the processor.
LEMMA AtKernel ==
  ASSUME NEW k, KernelInv(LongestDelay, k)
  PROVE  /\ \A e \in Event, t \in 0..LongestDelay :
              KernelInv(LongestDelay, Notify(k, e, t)) /\ Notify(k, e, t).cur = k.cur
         /\ \A c \in Channel :
              KernelInv(LongestDelay, RequestUpdate(k, c)) /\ RequestUpdate(k, c).cur = k.cur
         /\ \A p \in Process, e \in Event :
              KernelInv(LongestDelay, NextTrigger(k, p, e)) /\ NextTrigger(k, p, e).cur = k.cur
         /\ \A p \in Thread, e \in Event : KernelInv(LongestDelay, Wait(k, p, e)) /\ Wait(k, p, e).cur = Nobody
         /\ \A p \in Thread, t \in 0..LongestDelay :
              KernelInv(LongestDelay, WaitTime(k, p, t)) /\ WaitTime(k, p, t).cur = Nobody
         /\ KernelInv(LongestDelay, Yield(k)) /\ Yield(k).cur = Nobody
<1>1. PICK b \in Nat : b = LongestDelay
  BY AtNumbers
<1>2. KernelInv(b, k)
  BY <1>1
<1> HIDE DEF KernelInv, Process, Thread, Event, Channel, Notify, RequestUpdate, NextTrigger, Wait, WaitTime, Yield
<1>3. ASSUME NEW e \in Event, NEW t \in 0..b PROVE KernelInv(b, Notify(k, e, t)) /\ Notify(k, e, t).cur = k.cur
  <2> DEFINE x == Notify(k, e, t)
  <2>1. /\ KernelInv(b, x) /\ x.pend = [k.pend EXCEPT ![e] = Earlier(k.pend[e], t)]
        /\ x.cur = k.cur /\ x.update = k.update /\ x.runnable = k.runnable
        /\ x.methods_dynamic = k.methods_dynamic /\ x.threads_dynamic = k.threads_dynamic
    BY <1>2, NotifyOK
  <2> QED BY <2>1
<1>4. ASSUME NEW c \in Channel PROVE KernelInv(b, RequestUpdate(k, c)) /\ RequestUpdate(k, c).cur = k.cur
  BY <1>2, RequestUpdateOK
<1>5. ASSUME NEW p \in Process, NEW e \in Event
      PROVE  KernelInv(b, NextTrigger(k, p, e)) /\ NextTrigger(k, p, e).cur = k.cur
  BY <1>2, NextTriggerOK
<1>6. ASSUME NEW p \in Thread, NEW e \in Event PROVE KernelInv(b, Wait(k, p, e)) /\ Wait(k, p, e).cur = Nobody
  BY <1>2, WaitOK
<1>7. ASSUME NEW p \in Thread, NEW t \in 0..b PROVE KernelInv(b, WaitTime(k, p, t)) /\ WaitTime(k, p, t).cur = Nobody
  <2> DEFINE x == WaitTime(k, p, t)
  <2>1. /\ KernelInv(b, x) /\ x.cur = Nobody
        /\ x.pend = [k.pend EXCEPT ![Timeout[p]] = Earlier(k.pend[Timeout[p]], t)]
        /\ x.update = k.update /\ x.runnable = k.runnable
        /\ x.threads_dynamic = Joined(k.threads_dynamic, Timeout[p], p)
        /\ x.methods_dynamic = k.methods_dynamic
    BY <1>2, WaitTimeOK
  <2> QED BY <2>1
<1>8. KernelInv(b, Yield(k)) /\ Yield(k).cur = Nobody
  BY <1>2, YieldOK
<1> QED BY <1>1, <1>3, <1>4, <1>5, <1>6, <1>7, <1>8

\* get_next_transaction with nothing due.
LEMMA RearmKernel ==
  ASSUME NEW k, KernelInv(LongestDelay, k), PeqOK, NEW q \in Peq
  PROVE  KernelInv(LongestDelay, PeqRearm(k, q)) /\ PeqRearm(k, q).cur = k.cur
<1>1. CASE peq[q] = << >>
  BY <1>1 DEF PeqRearm
<1>2. CASE peq[q] # << >>
  <2>1. PICK s \in Seq(Entry) : s = peq[q]
    BY DEF PeqOK
  <2>2. Head(s) \in Entry
    <3> HIDE DEF Entry
    <3> QED BY <1>2, <2>1, HeadAndTail
  <2>3. Head(peq[q]).left \in 0..LongestDelay /\ q \in Event
    BY <2>1, <2>2, AtNames DEF Entry
  <2> HIDE DEF KernelInv, Event, Peq, Notify
  <2> QED BY <1>2, <2>3, AtKernel DEF PeqRearm
<1> QED BY <1>1, <1>2

-----------------------------------------------------------------------------
(* Steps that move no payload *)

\* A process that is in no call, or the scheduler, changes what no payload's place
\* depends on.
LEMMA QuietCore ==
  ASSUME AtCore, simc.cur \notin Process \/ ~Calling(simc.cur), KernelInv(LongestDelay, simc'),
         UNCHANGED <<link, peq, fifo, gp, pool, fatal, tg, ini, tgt>>, BusOK',
         bus'.pending = bus.pending, \A tx \in Txn : Responding(tx)' <=> Responding(tx),
         \A p \in Process : Calling(p)' => Calling(p)
  PROVE  AtCore'
<1>1. link = NoCall /\ link' = NoCall /\ Calls'
  <2>1. Calls
    BY DEF AtCore
  <2>2. link = NoCall
    BY <2>1, NotCalling
  <2> HIDE DEF Calling, Process, Calls
  <2> QED BY <2>1, <2>2, CallsQuiet
<1>2. Types'
  <2>1. GpOK' /\ IniOK' /\ TgtOK' /\ PeqOK' /\ Shapes'
    BY DEF AtCore, Types, GpOK, IniOK, TgtOK, PeqOK, Shapes
  <2> QED BY <2>1 DEF Types, AtCore
<1>3. ASSUME NEW tx \in Txn PROVE Untouched(tx)
  <2>1. ~Closing(tx) /\ ~Closing(tx)'
    <3>1. \A p \in Process : ~Calling(p)
      BY NotCalling DEF AtCore
    <3>2. \A p \in Process : ~Calling(p)'
      BY <3>1
    <3> HIDE DEF Process, Calling
    <3> QED BY <3>1, <3>2, NobodyCalls
  <2>2. ~About(tx) /\ ~About(tx)'
    BY <1>1, CallOver
  <2> HIDE DEF Pooled, Outgoing, Incoming, Sending, Returning, Closing, Queued, Responding, About, Peq
  <2> QED BY <2>1, <2>2, GeneratorSame, InitiatorSame, PeqSame, Zenon DEF Untouched, Unmoved
<1>4. \A q \in Peq : Once(peq'[q])
  BY DEF AtCore
<1> QED BY <1>1, <1>2, <1>3, <1>4, AllUntouched

\* The processes of the platform that are in no call.
LEMMA Idle ==
  ASSUME AtCore
  PROVE  /\ \A n \in Initiator : /\ simc.cur = Ini(n) /\ ini[n].pc # "sent" => ~Calling(simc.cur)
                                 /\ simc.cur = EndRsp(n) /\ ini[n].mpc # "sent" => ~Calling(simc.cur)
                                 /\ simc.cur = Tg(n) => ~Calling(simc.cur)
         /\ \A m \in Target : /\ simc.cur = BeginResponse(m) /\ tgt[m].rpc # "sent" => ~Calling(simc.cur)
                              /\ simc.cur = EndRequest(m) /\ tgt[m].epc # "sent" => ~Calling(simc.cur)
         /\ simc.cur = RequestThread /\ bus.req.pc \notin {"sent", "told"} => ~Calling(simc.cur)
         /\ simc.cur = ResponseThread /\ bus.rsp.pc \notin {"sent", "told"} => ~Calling(simc.cur)
         /\ simc.cur = Nobody => simc.cur \notin Process
<1> HIDE DEF Calling
<1> QED BY CallingNames, NobodyRuns

\* The process in execution is one of the platform's, which has a bus's threads only
\* with a bus.
LEMMA Runs ==
  ASSUME AtCore, simc.cur # Nobody
  PROVE  simc.cur \in Process /\ (simc.cur \in {RequestThread, ResponseThread} => Wiring = "bus")
<1>1. simc.cur \in Process
  BY DEF AtCore, Types, KernelInv, KernelOK, KernelShape
<1> QED BY <1>1, AtNames

\* A thread of the bus begins to wait.
LEMMA BusWaiting ==
  ASSUME AtCore, UNCHANGED <<tg, ini, tgt>>, RequestWaits \/ ResponseWaits
  PROVE  AtCore'
<1>1. KernelInv(LongestDelay, simc) /\ PeqOK /\ BusOK /\ bus \in BusShape
  BY DEF AtCore, Types, BusOK
<1>2. ASSUME NEW thread, NEW b, NEW q \in Peq, q \in Event, thread \in Thread, ThreadWaits(thread, b, q)
      PROVE  /\ KernelInv(LongestDelay, simc') /\ UNCHANGED <<link, peq, fifo, gp, pool, fatal>>
             /\ simc.cur = thread /\ b.pc \in {"start", "next"}
  <2>1. KernelInv(LongestDelay, PeqRearm(simc, q))
    BY <1>1, RearmKernel
  <2>2. PICK k : k = IF b.pc = "next" THEN PeqRearm(simc, q) ELSE simc
    OBVIOUS
  <2>3. KernelInv(LongestDelay, k)
    BY <1>1, <2>1, <2>2
  <2>4. simc' = Wait(k, thread, q)
    BY <1>2, <2>2 DEF ThreadWaits
  <2> HIDE DEF KernelInv, Wait, Event, Thread
  <2>5. KernelInv(LongestDelay, simc')
    BY <1>2, <2>3, <2>4, AtKernel
  <2> QED BY <1>2, <2>5 DEF ThreadWaits, Executing
<1>3. CASE RequestWaits
  <2>1. simc.cur = RequestThread
    BY <1>3 DEF RequestWaits, ThreadWaits, Executing
  <2>2. Wiring = "bus" /\ RequestThread \in Thread /\ RequestThread \in Process
    BY <2>1, Runs, AtNames DEF RequestThread, Nobody
  <2>3. requestPEQ \in Peq /\ requestPEQ \in Event
    BY <2>2, AtNames
  <2>4. PICK s \in BusThreadShape : s = bus.req
    BY <1>1 DEF BusShape
  <2>5. ThreadWaits(RequestThread, s, requestPEQ)
    BY <1>3, <2>4 DEF RequestWaits
  <2>6. /\ KernelInv(LongestDelay, simc') /\ UNCHANGED <<link, peq, fifo, gp, pool, fatal>>
        /\ s.pc \in {"start", "next"}
    <3> HIDE DEF KernelInv, ThreadWaits, Event, Thread, Peq
    <3> QED BY <1>2, <2>2, <2>3, <2>5, Zenon
  <2>7. bus' = [bus EXCEPT !.req = [s EXCEPT !.pc = "next"]] /\ [s EXCEPT !.pc = "next"] \in BusThreadShape
    BY <1>1, <1>3, <2>4 DEF RequestWaits, BusThreadShape, BusShape
  <2>8. /\ bus' \in BusShape /\ bus'.req.pc = "next" /\ bus'.rsp = bus.rsp /\ bus'.pending = bus.pending
    BY <1>1, <2>7 DEF BusShape, BusThreadShape
  <2>9. BusOK'
    BY <1>1, <2>8 DEF BusOK, Busy
  <2>10. ~Calling(simc.cur)
    BY <2>1, <2>4, <2>6, Idle
  <2>11. \A p \in Process : Calling(p)' => Calling(p)
    <3>1. ~Calling(RequestThread)'
      BY <2>8, CallingNames
    <3>2. \A p \in Process : p # RequestThread => (Calling(p)' <=> Calling(p))
      BY <2>8, OnlyBus
    <3> HIDE DEF Calling
    <3> QED BY <3>1, <3>2
  <2>12. \A tx \in Txn : Responding(tx)' <=> Responding(tx)
    BY <2>8 DEF Responding
  <2> HIDE DEF KernelInv, Calling, Process, BusOK
  <2> QED BY <2>6, <2>8, <2>9, <2>10, <2>11, <2>12, QuietCore, Zenon
<1>4. CASE ResponseWaits
  <2>1. simc.cur = ResponseThread
    BY <1>4 DEF ResponseWaits, ThreadWaits, Executing
  <2>2. Wiring = "bus" /\ ResponseThread \in Thread /\ ResponseThread \in Process
    BY <2>1, Runs, AtNames DEF ResponseThread, Nobody
  <2>3. responsePEQ \in Peq /\ responsePEQ \in Event
    BY <2>2, AtNames
  <2>4. PICK s \in BusThreadShape : s = bus.rsp
    BY <1>1 DEF BusShape
  <2>5. ThreadWaits(ResponseThread, s, responsePEQ)
    BY <1>4, <2>4 DEF ResponseWaits
  <2>6. /\ KernelInv(LongestDelay, simc') /\ UNCHANGED <<link, peq, fifo, gp, pool, fatal>>
        /\ s.pc \in {"start", "next"}
    <3> HIDE DEF KernelInv, ThreadWaits, Event, Thread, Peq
    <3> QED BY <1>2, <2>2, <2>3, <2>5, Zenon
  <2>7. bus' = [bus EXCEPT !.rsp = [s EXCEPT !.pc = "next"]] /\ [s EXCEPT !.pc = "next"] \in BusThreadShape
    BY <1>1, <1>4, <2>4 DEF ResponseWaits, BusThreadShape, BusShape
  <2>8. /\ bus' \in BusShape /\ bus'.rsp.pc = "next" /\ bus'.req = bus.req /\ bus'.pending = bus.pending
    BY <1>1, <2>7 DEF BusShape, BusThreadShape
  <2>9. BusOK'
    BY <1>1, <2>8 DEF BusOK, Busy
  <2>10. ~Calling(simc.cur)
    BY <2>1, <2>4, <2>6, Idle
  <2>11. \A p \in Process : Calling(p)' => Calling(p)
    <3>1. ~Calling(ResponseThread)'
      BY <2>8, CallingNames
    <3>2. \A p \in Process : p # ResponseThread => (Calling(p)' <=> Calling(p))
      BY <2>8, OnlyBus
    <3> HIDE DEF Calling
    <3> QED BY <3>1, <3>2
  <2>12. \A tx \in Txn : Responding(tx)' <=> Responding(tx)
    BY <2>4, <2>6, <2>8 DEF Responding, Busy
  <2> HIDE DEF KernelInv, Calling, Process, BusOK
  <2> QED BY <2>6, <2>8, <2>9, <2>10, <2>11, <2>12, QuietCore, Zenon
<1> QED BY <1>3, <1>4

\* A process of an initiator or of a target waits or returns with nothing to do, or
\* the kernel chooses the next one.
LEMMA WaitingSteps ==
  ASSUME AtCore, UNCHANGED <<tg, ini, tgt, bus>>,
         \/ \E n \in Initiator : GetRequestBlocks(n) \/ EndRspReturn(n)
         \/ \E m \in Target : BeginResponseReturns(m) \/ EndRequestReturns(m)
         \/ Dispatch
  PROVE  AtCore'
<1>1. KernelInv(LongestDelay, simc) /\ PeqOK /\ BusOK'
  BY DEF AtCore, Types, BusOK
<1>2. \A p \in Process : Calling(p)' => Calling(p)
  BY DEF Calling
<1>3. \A tx \in Txn : Responding(tx)' <=> Responding(tx)
  BY BusSame
<1> HIDE DEF KernelInv, Calling, Process, BusOK, Responding, Event, Thread, Peq
<1>4. ASSUME NEW n \in Initiator, GetRequestBlocks(n) PROVE AtCore'
  <2>1. Req(n) \in Channel
    BY ChannelFacts DEF Req, ReqCh
  <2>2. DataWritten(Req(n)) \in Event /\ Ini(n) \in Thread
    BY <2>1, EventFacts, AtNames
  <2>3. KernelInv(LongestDelay, simc')
    BY <1>1, <1>4, <2>2, AtKernel DEF GetRequestBlocks
  <2>4. ~Calling(simc.cur)
    BY <1>4, Idle DEF GetRequestBlocks, Executing
  <2> QED BY <1>1, <1>2, <1>3, <1>4, <2>3, <2>4, QuietCore DEF GetRequestBlocks
<1>5. ASSUME NEW n \in Initiator, EndRspReturn(n) PROVE AtCore'
  <2>1. KernelInv(LongestDelay, PeqRearm(simc, EndRspPeq(n)))
    BY <1>1, RearmKernel, AtNames
  <2>3. KernelInv(LongestDelay, simc')
    BY <1>5, <2>1, AtKernel DEF EndRspReturn
  <2>4. ~Calling(simc.cur)
    BY <1>5, Idle DEF EndRspReturn, Executing
  <2> QED BY <1>1, <1>2, <1>3, <1>5, <2>3, <2>4, QuietCore DEF EndRspReturn
<1>6. ASSUME NEW m \in Target, BeginResponseReturns(m) PROVE AtCore'
  <2>1. PICK k : k = PeqRearm(simc, ResponsePeq(m))
    OBVIOUS
  <2>2. KernelInv(LongestDelay, k)
    BY <1>1, <2>1, RearmKernel, AtNames
  <2>3. PICK k2 : k2 = NextTrigger(k, BeginResponse(m), ResponsePeq(m))
    OBVIOUS
  <2>4. KernelInv(LongestDelay, k2)
    BY <2>2, <2>3, AtKernel, AtNames
  <2>5. KernelInv(LongestDelay, simc')
    BY <1>6, <2>1, <2>3, <2>4, AtKernel DEF BeginResponseReturns
  <2>6. ~Calling(simc.cur)
    BY <1>6, Idle DEF BeginResponseReturns, Executing
  <2> QED BY <1>1, <1>2, <1>3, <1>6, <2>5, <2>6, QuietCore DEF BeginResponseReturns
<1>7. ASSUME NEW m \in Target, EndRequestReturns(m) PROVE AtCore'
  <2>1. KernelInv(LongestDelay, PeqRearm(simc, EndRequestPeq(m)))
    BY <1>1, RearmKernel, AtNames
  <2>3. KernelInv(LongestDelay, simc')
    BY <1>7, <2>1, AtKernel DEF EndRequestReturns
  <2>4. ~Calling(simc.cur)
    BY <1>7, Idle DEF EndRequestReturns, Executing
  <2> QED BY <1>1, <1>2, <1>3, <1>7, <2>3, <2>4, QuietCore DEF EndRequestReturns
<1>8. CASE Dispatch
  <2>1. PICK b \in Nat : b = LongestDelay
    BY AtNumbers
  <2>2. PICK p \in MayRun(simc) : simc' = Run(simc, p)
    BY <1>8 DEF Dispatch
  <2>3. KernelInv(b, simc)
    BY <1>1, <2>1
  <2>4. KernelInv(b, simc') /\ simc.cur = Nobody
    BY <2>2, <2>3, RunOK
  <2>5. simc.cur \notin Process
    BY <2>4, NobodyRuns
  <2> QED BY <1>1, <1>2, <1>3, <1>8, <2>1, <2>4, <2>5, QuietCore DEF Dispatch
<1> QED BY <1>4, <1>5, <1>6, <1>7, <1>8

\* A step of a process that is in no call moves no payload.
LEMMA NobodyMoves ==
  ASSUME AtCore, simc.cur \notin Process \/ ~Calling(simc.cur), Types',
         UNCHANGED <<link, gp, ini, bus, tgt>>,
         \A q \in Peq : Once(peq'[q]) /\ \A tx \in Txn : (tx \in Queued(q))' <=> tx \in Queued(q),
         \A tx \in Txn : /\ Pooled(tx)' <=> Pooled(tx)
                         /\ Outgoing(tx)' <=> Outgoing(tx)
                         /\ Incoming(tx)' <=> Incoming(tx)
                         /\ tg'[Owner(tx)].pass = tg[Owner(tx)].pass,
         \A n \in Initiator : \A away, held : Accounted(n, away, held) => Accounted(n, away, held)'
  PROVE  AtCore'
<1>1. link = NoCall /\ link' = NoCall /\ (\A p \in Process : ~Calling(p)) /\ \A p \in Process : ~Calling(p)'
  <2>1. Calls
    BY DEF AtCore
  <2>2. link = NoCall /\ \A p \in Process : ~Calling(p)
    BY <2>1, NotCalling
  <2>3. \A p \in Process : Calling(p)' <=> Calling(p)
    BY Zenon DEF Calling
  <2> HIDE DEF Calling, Process, Calls
  <2> QED BY <2>2, <2>3
<1>2. Calls'
  <2>1. Calls
    BY DEF AtCore
  <2> HIDE DEF Calling, Process, Calls
  <2> QED BY <1>1, <2>1, CallsQuiet
<1>3. ASSUME NEW tx \in Txn PROVE Untouched(tx)
  <2>1. ~Closing(tx) /\ ~Closing(tx)'
    <3> HIDE DEF Process, Calling
    <3> QED BY <1>1, NobodyCalls
  <2>2. ~About(tx) /\ ~About(tx)'
    BY <1>1, CallOver
  <2> HIDE DEF Pooled, Outgoing, Incoming, Sending, Returning, Closing, Queued, Responding, About, Peq
  <2> QED BY <2>1, <2>2, InitiatorSame, BusSame, Zenon DEF Untouched, Unmoved
<1>4. \A tx \in Txn : PayloadInv(tx)'
  BY <1>3, UntouchedInv DEF AtCore
<1>5. ASSUME NEW n \in Initiator PROVE Accounted(n, Away(n), HeldBy(n))'
  <2>1. Payloads(n) \subseteq Txn
    BY OwnerFacts
  <2>2. \A tx \in Txn : (InHand(tx)' <=> InHand(tx)) /\ Held(tx)' = Held(tx)
    BY <1>3, UnmovedParts DEF Untouched
  <2>3. Away(n)' = Away(n) /\ HeldBy(n)' = HeldBy(n)
    <3> HIDE DEF InHand, Held
    <3> QED BY <2>1, <2>2, HandsSame
  <2>4. PICK away, held : away = Away(n) /\ held = HeldBy(n)
    OBVIOUS
  <2>5. Accounted(n, away, held)'
    BY <2>4 DEF AtCore
  <2> QED BY <2>3, <2>4, <2>5
<1> QED BY <1>2, <1>4, <1>5 DEF AtCore

\* The kernel updates the fifos or lets time pass.
LEMMA PassingSteps ==
  ASSUME AtCore, UNCHANGED <<tg, ini, bus, tgt>>, DeltaCycle \/ AdvanceTime
  PROVE  AtCore'
<1>0. PICK b \in Nat : b = LongestDelay
  BY AtNumbers
<1>1. /\ KernelInv(b, simc) /\ PeqOK /\ Shapes /\ GpOK /\ IniOK /\ BusOK /\ TgtOK
      /\ \A n \in Initiator : Accounted(n, Away(n), HeldBy(n))
      /\ \A q \in Peq : Once(peq[q])
  BY <1>0 DEF AtCore, Types
<1>2. /\ simc.cur \notin Process /\ UNCHANGED <<link, gp, pool, fatal>>
      /\ GpOK' /\ IniOK' /\ BusOK' /\ TgtOK' /\ fatal' \in BOOLEAN
  <2>1. simc.cur = Nobody /\ UNCHANGED <<link, gp, pool, fatal>>
    BY DEF DeltaCycle, AdvanceTime, Evaluated
  <2>2. GpOK' /\ IniOK' /\ BusOK' /\ TgtOK'
    BY <1>1, <2>1 DEF GpOK, IniOK, BusOK, TgtOK
  <2> QED BY <2>1, <2>2, NobodyRuns DEF AtCore, Types
<1>3. CASE DeltaCycle
  <2>1. KernelInv(b, simc')
    BY <1>1, <1>3, DeltaCycleOK
  <2>2. peq' = peq /\ PeqOK'
    BY <1>1, <1>3 DEF DeltaCycle, PeqOK
  <2>3. Shapes' /\ \A n \in Initiator : \A away, held : Accounted(n, away, held) => Accounted(n, away, held)'
    BY <1>1, <1>3, DeltaStep
  <2>4. Types'
    BY <1>0, <1>2, <2>1, <2>2, <2>3 DEF Types
  <2>5. ASSUME NEW n \in Initiator
        PROVE  Requested(n)' = Requested(n) /\ Responded(n)' = Responded(n) /\ Putting(n)' = Putting(n)
    <3>1. fifo[ReqCh(n)] \in FifoShape(n) /\ fifo[RspCh(n)] \in FifoShape(n)
      BY <1>1 DEF Accounted
    <3>2. fifo'[ReqCh(n)] = Updated(fifo[ReqCh(n)]) /\ fifo'[RspCh(n)] = Updated(fifo[RspCh(n)])
      BY <1>3, ChannelFacts DEF DeltaCycle
    <3>3. fifo'[ReqCh(n)].items = fifo[ReqCh(n)].items /\ fifo'[RspCh(n)].items = fifo[RspCh(n)].items
      BY <3>1, <3>2, UpdatedShape
    <3> QED BY <3>3 DEF Requested, Responded, Putting
  <2>6. \A tx \in Txn : /\ Pooled(tx)' <=> Pooled(tx)
                        /\ Outgoing(tx)' <=> Outgoing(tx)
                        /\ Incoming(tx)' <=> Incoming(tx)
                        /\ tg'[Owner(tx)].pass = tg[Owner(tx)].pass
    BY <1>2, <2>5, OwnerFacts DEF Pooled, Outgoing, Incoming
  <2>7. \A q \in Peq : Once(peq'[q]) /\ \A tx \in Txn : (tx \in Queued(q))' <=> tx \in Queued(q)
    BY <1>1, <2>2, PeqSame
  <2> HIDE DEF Process, Calling, Types, Pooled, Outgoing, Incoming, Queued, Peq
  <2> QED BY <1>2, <2>3, <2>4, <2>6, <2>7, NobodyMoves
<1>4. CASE AdvanceTime
  <2>1. PICK d : d = NextTime(simc)
    OBVIOUS
  <2>2. KernelInv(b, simc') /\ d \in 1..b
    BY <1>1, <1>4, <2>1, AdvanceTimeOK, Zenon
  <2>3. d \in Nat
    BY <2>2
  <2>4. /\ peq' = [q \in Peq |-> [j \in DOMAIN peq[q] |->
                     [peq[q][j] EXCEPT !.left = IF @ > d THEN @ - d ELSE 0]]]
        /\ fifo' = fifo
    BY <1>4, <2>1 DEF AdvanceTime
  <2>5. /\ PeqOK' /\ (\A r \in Peq : Once(peq'[r]))
        /\ \A r \in Peq : \A u : (u \in Queued(r))' <=> u \in Queued(r)
    <3> HIDE DEF PeqOK, Once, Queued, Peq
    <3> QED BY <1>1, <2>3, <2>4, PeqAged
  <2>6. Shapes' /\ \A n \in Initiator : \A away, held : Accounted(n, away, held) => Accounted(n, away, held)'
    <3>1. Shapes'
      BY <1>1, <1>2, <2>4 DEF Shapes
    <3> QED BY <1>2, <2>4, <3>1, AccountedFrame
  <2>7. Types'
    BY <1>0, <1>2, <2>2, <2>5, <2>6 DEF Types
  <2>8. \A tx \in Txn : /\ Pooled(tx)' <=> Pooled(tx)
                        /\ Outgoing(tx)' <=> Outgoing(tx)
                        /\ Incoming(tx)' <=> Incoming(tx)
                        /\ tg'[Owner(tx)].pass = tg[Owner(tx)].pass
    BY <1>2, <2>4, GeneratorSame
  <2> HIDE DEF Process, Calling, Types, Pooled, Outgoing, Incoming, Queued, Peq, Once
  <2> QED BY <1>2, <2>5, <2>6, <2>7, <2>8, NobodyMoves
<1> QED BY <1>3, <1>4

\* A step that changes nothing.
LEMMA StutterCore ==
  ASSUME AtCore, UNCHANGED vars
  PROVE  AtCore'
<1>1. UNCHANGED <<simc, link, peq, fifo, gp, pool, fatal, tg, ini, bus, tgt>>
  BY DEF vars, shared
<1>2. Types'
  BY <1>1 DEF AtCore, Types, Shapes, GpOK, IniOK, BusOK, TgtOK, PeqOK
<1>3. Calls'
  <2>1. \A p \in Process : Calling(p)' <=> Calling(p)
    BY <1>1, Zenon DEF Calling
  <2>2. ASSUME NEW p, CallOf(p) PROVE CallOf(p)'
    BY <1>1, <2>2, Zenon DEF CallOf, RequestCall, CloseCall, BeginRespCall, TargetEndReqCall, ForwardCall, EndReqCall,
                             ReplyCall, EndRspCall, Open, Accepted, ReqEnds, Complete, RspEnds, Closed
  <2> HIDE DEF Calling, CallOf, Process
  <2> QED BY <1>1, <2>1, <2>2 DEF AtCore, Calls
<1>4. ASSUME NEW tx \in Txn PROVE Untouched(tx)
  <2>1. (Closing(tx)' <=> Closing(tx)) /\ (About(tx)' <=> About(tx))
    BY <1>1 DEF Closing, About
  <2> HIDE DEF Pooled, Outgoing, Incoming, Sending, Returning, Closing, Queued, Responding, About, Peq
  <2> QED BY <1>1, <2>1, GeneratorSame, InitiatorSame, BusSame, PeqSame, Zenon DEF Untouched, Unmoved
<1>5. \A q \in Peq : Once(peq'[q])
  BY <1>1 DEF AtCore
<1> QED BY <1>1, <1>2, <1>3, <1>4, <1>5, AllUntouched

-----------------------------------------------------------------------------
(* Steps that move one payload *)

\* A payload's part of the state that only the step about it changes.
Apart(tx) ==
  /\ gp'[tx] = gp[tx] /\ tg'[Owner(tx)].pass = tg[Owner(tx)].pass
  /\ Pooled(tx)' <=> Pooled(tx)
  /\ Outgoing(tx)' <=> Outgoing(tx)
  /\ Incoming(tx)' <=> Incoming(tx)
  /\ Returning(tx)' <=> Returning(tx)
  /\ ini'[Owner(tx)].map[tx] = ini[Owner(tx)].map[tx]
  /\ \A q \in Peq : (tx \in Queued(q))' <=> tx \in Queued(q)
  /\ bus'.pending[tx].known = bus.pending[tx].known /\ bus'.pending[tx].from = bus.pending[tx].from
  /\ Responding(tx)' <=> Responding(tx)

\* A payload that is being sent or whose response is being ended is in the call.
LEMMA InTheCall ==
  /\ Calls => \A tx \in Txn : Sending(tx) \/ Closing(tx) => About(tx)
  /\ Calls' => \A tx \in Txn : Sending(tx)' \/ Closing(tx)' => About(tx)'
<1>1. \A tx \in Txn : Owner(tx) \in Initiator
  BY OwnerFacts
<1>2. \A n \in Initiator : Ini(n) \in Process /\ EndRsp(n) \in Process
  BY AtNames
<1>3. ASSUME Calls, NEW tx \in Txn PROVE Sending(tx) \/ Closing(tx) => About(tx)
  <2>1. PICK n \in Initiator : n = Owner(tx)
    BY <1>1
  <2>2. ini[n].pc = "sent" => link # NoCall /\ simc.cur = Ini(n) /\ RequestCall(n)
    <3> HIDE DEF Process, Calling, CallOf, RequestCall
    <3> QED BY <1>2, <1>3, CallingNames DEF Calls
  <2>3. ini[n].mpc = "sent" => link # NoCall
    <3> HIDE DEF Process, Calling, CallOf
    <3> QED BY <1>2, <1>3, CallingNames DEF Calls
  <2> QED BY <2>1, <2>2, <2>3 DEF Sending, Closing, About, RequestCall
<1>4. ASSUME Calls', NEW tx \in Txn PROVE Sending(tx)' \/ Closing(tx)' => About(tx)'
  <2>1. PICK n \in Initiator : n = Owner(tx)
    BY <1>1
  <2>2. ini'[n].pc = "sent" => link' # NoCall /\ simc'.cur = Ini(n) /\ RequestCall(n)'
    <3> HIDE DEF Process, Calling, CallOf, RequestCall
    <3> QED BY <1>2, <1>4, CallingNames DEF Calls
  <2>3. ini'[n].mpc = "sent" => link' # NoCall
    <3> HIDE DEF Process, Calling, CallOf
    <3> QED BY <1>2, <1>4, CallingNames DEF Calls
  <2> QED BY <2>1, <2>2, <2>3 DEF Sending, Closing, About, RequestCall
<1> QED BY <1>3, <1>4

\* A payload in a queue is in the hands of its initiator.
LEMMA QueuedInHand ==
  ASSUME NEW tx \in Txn, PayloadInv(tx), NEW q \in Peq, tx \in Queued(q)
  PROVE  InHand(tx)
<1>1. Fits(q, tx)
  BY DEF PayloadInv, InQueues
<1>2. Waiting(tx) => InHand(tx)
  BY Zenon DEF Waiting, InHand
<1>3. ASSUME q \in {"send_end_rsp_PEQ"} \X Initiator PROVE InHand(tx)
  <2>1. q = EndRspPeq(Owner(tx))
    BY <1>1, <1>3 DEF Fits, EndRspPeq
  <2> QED BY <2>1 DEF InHand, Ending
<1> HIDE DEF Waiting, InHand, Asked, CarriedOut, Port, Where
<1> QED BY <1>1, <1>2, <1>3, PeqNames DEF Fits

\* One payload moves and the others stay.
LEMMA OneMoves ==
  ASSUME AtCore, Types', Calls', \A q \in Peq : Once(peq'[q]), NEW t \in Txn, PayloadInv(t)',
         link = NoCall \/ link.txn = t, link' = NoCall \/ link'.txn = t,
         \A tx \in Txn : tx # t => Apart(tx),
         NEW away, NEW held, Accounted(Owner(t), away, held)',
         away = IF InHand(t)' THEN Away(Owner(t)) \union {t} ELSE Away(Owner(t)) \ {t},
         held = IF Held(t)' = 1 THEN HeldBy(Owner(t)) \union {t} ELSE HeldBy(Owner(t)) \ {t},
         \A n \in Initiator : n # Owner(t) => \A a, h : Accounted(n, a, h) => Accounted(n, a, h)'
  PROVE  AtCore'
<1>1. ASSUME NEW tx \in Txn, tx # t PROVE Untouched(tx)
  <2>1. ~About(tx) /\ ~About(tx)'
    BY <1>1 DEF About
  <2>2. ~Sending(tx) /\ ~Sending(tx)' /\ ~Closing(tx) /\ ~Closing(tx)'
    <3> HIDE DEF Sending, Closing, About, Calls
    <3> QED BY <2>1, InTheCall, Zenon DEF AtCore
  <2>3. Apart(tx)
    BY <1>1
  <2> HIDE DEF Pooled, Outgoing, Incoming, Sending, Returning, Closing, Queued, Responding, About, Peq
  <2> QED BY <2>1, <2>2, <2>3, Zenon DEF Untouched, Unmoved, Apart
<1>2. \A tx \in Txn : PayloadInv(tx)'
  BY <1>1, UntouchedInv, Zenon DEF AtCore
<1>3. \A tx \in Txn : tx # t => (InHand(tx)' <=> InHand(tx)) /\ Held(tx)' = Held(tx)
  BY <1>1, UnmovedParts DEF Untouched
<1>4. ASSUME NEW n \in Initiator, n # Owner(t) PROVE Accounted(n, Away(n), HeldBy(n))'
  <2>1. \A tx \in Payloads(n) : tx \in Txn /\ tx # t
    BY <1>4, OwnerFacts
  <2>2. Away(n)' = Away(n) /\ HeldBy(n)' = HeldBy(n)
    <3> HIDE DEF InHand, Held
    <3> QED BY <1>3, <2>1, HandsSame
  <2>3. PICK a, h : a = Away(n) /\ h = HeldBy(n)
    OBVIOUS
  <2>4. Accounted(n, a, h)'
    BY <1>4, <2>3 DEF AtCore
  <2> QED BY <2>2, <2>3, <2>4
<1>5. Accounted(Owner(t), Away(Owner(t)), HeldBy(Owner(t)))'
  <2>1. PICK n \in Initiator : n = Owner(t) /\ t \in Payloads(n) /\ Payloads(n) \subseteq Txn
    BY OwnerFacts
  <2> HIDE DEF InHand, Held, Payloads, Txn
  <2>2. away = Away(n)'
    BY <1>3, <2>1 DEF Away
  <2>3. held = HeldBy(n)'
    BY <1>3, <2>1 DEF HeldBy
  <2>4. Accounted(n, away, held)'
    BY <2>1
  <2> QED BY <2>1, <2>2, <2>3, <2>4
<1> QED BY <1>2, <1>4, <1>5 DEF AtCore

-----------------------------------------------------------------------------
(* The generators *)

\* A generator runs while there is no call.
LEMMA GeneratorRuns ==
  ASSUME AtCore, NEW n \in Initiator, TgStep(n), UNCHANGED <<ini, bus, tgt>>
  PROVE  /\ simc.cur = Tg(n) /\ ~Calling(simc.cur) /\ KernelInv(LongestDelay, simc')
         /\ link = NoCall /\ link' = NoCall /\ peq' = peq /\ Calls'
         /\ IniOK' /\ BusOK' /\ TgtOK' /\ PeqOK' /\ fatal' \in BOOLEAN
         /\ \A q \in Peq : Once(peq'[q]) /\ \A tx : (tx \in Queued(q))' <=> tx \in Queued(q)
         /\ \A tx \in Txn : /\ Returning(tx)' <=> Returning(tx)
                            /\ ini'[Owner(tx)].map[tx] = ini[Owner(tx)].map[tx]
                            /\ bus'.pending[tx].known = bus.pending[tx].known
                            /\ bus'.pending[tx].from = bus.pending[tx].from
                            /\ Responding(tx)' <=> Responding(tx)
<1>1. simc.cur = Tg(n)
  BY DEF TgStep, Issue, Skip, PutBlocks, Put, Check, GetBlocks, Get, Drain, Drained, Executing
<1>2. ~Calling(simc.cur)
  BY <1>1, CallingNames
<1>3. KernelInv(LongestDelay, simc')
  <2>1. PICK b \in Nat : b = LongestDelay
    BY AtNumbers
  <2>2. KernelInv(b, simc)
    BY <2>1 DEF AtCore, Types
  <2> HIDE DEF KernelInv, TgStep
  <2> QED BY <2>1, <2>2, GeneratorKernel
<1>4. link = NoCall /\ \A p \in Process : ~Calling(p)
  <2>1. Calls
    BY DEF AtCore
  <2> HIDE DEF Calls, Calling, Process
  <2> QED BY <1>2, <2>1, NotCalling
<1>5. link' = link /\ peq' = peq /\ fatal' \in BOOLEAN
  <2>1. link' = link /\ peq' = peq
    BY DEF TgStep, Issue, Skip, PutBlocks, Put, Check, GetBlocks, Get, Drain, Drained, shared
  <2>2. fatal' \in BOOLEAN
    <3>1. fatal \in BOOLEAN
      BY DEF AtCore, Types
    <3>2. CASE Get(n)
      BY <3>2 DEF Get
    <3>3. CASE ~Get(n)
      BY <3>1, <3>3 DEF TgStep, Issue, Skip, PutBlocks, Put, Check, GetBlocks, Drain, Drained, shared
    <3> QED BY <3>2, <3>3
  <2> QED BY <2>1, <2>2
<1>6. Calls'
  <2>1. \A p \in Process : Calling(p)' <=> Calling(p)
    BY Zenon DEF Calling
  <2>2. Calls
    BY DEF AtCore
  <2> HIDE DEF Calling, Process, Calls
  <2> QED BY <1>4, <1>5, <2>1, <2>2, CallsQuiet
<1>7. IniOK' /\ BusOK' /\ TgtOK' /\ PeqOK'
  BY <1>5 DEF AtCore, Types, IniOK, BusOK, TgtOK, PeqOK
<1>8. \A q \in Peq : Once(peq'[q]) /\ \A tx : (tx \in Queued(q))' <=> tx \in Queued(q)
  BY <1>5, PeqSame DEF AtCore
<1>9. \A tx \in Txn : /\ Returning(tx)' <=> Returning(tx)
                      /\ ini'[Owner(tx)].map[tx] = ini[Owner(tx)].map[tx]
                      /\ bus'.pending[tx].known = bus.pending[tx].known
                      /\ bus'.pending[tx].from = bus.pending[tx].from
                      /\ Responding(tx)' <=> Responding(tx)
  <2> HIDE DEF Returning, Responding
  <2> QED BY InitiatorSame, BusSame
<1> HIDE DEF Calls, Calling, KernelInv
<1> QED BY <1>1, <1>2, <1>3, <1>4, <1>5, <1>6, <1>7, <1>8, <1>9

\* A payload in no one's hands is in no queue and the bus knows nothing of it but,
\* perhaps, that its response is not over.
LEMMA Resting ==
  ASSUME NEW tx \in Txn, PayloadInv(tx), ~InHand(tx), link = NoCall
  PROVE  /\ ~Tracked(tx) /\ ~Heard(tx) /\ ~Sending(tx) /\ ~Returning(tx) /\ ~Ending(tx) /\ ~Closing(tx)
         /\ ~Waiting(tx) /\ (\A q \in Peq : tx \notin Queued(q)) /\ (Known(tx) <=> Responding(tx))
<1>1. ~Heard(tx) /\ ~Sending(tx) /\ ~Returning(tx) /\ ~Ending(tx) /\ ~Closing(tx)
  BY Zenon DEF InHand
<1>2. \A q \in Peq : tx \notin Queued(q)
  BY QueuedInHand
<1>3. ~About(tx)
  BY CallOver
<1>4. ~Tracked(tx)
  <2>1. Wiring # "bus" => ~Known(tx)
    BY DEF PayloadInv, Tracking
  <2>2. Tracked(tx) => Known(tx)
    BY DEF PayloadInv, Tracking
  <2>3. Wiring = "bus" => ~Tracked(tx)
    <3> HIDE DEF Heard, Sending, About, Tracked, Known, Telling
    <3> QED BY <1>1, <1>3, Zenon DEF PayloadInv, Tracking
  <2> QED BY <2>1, <2>2, <2>3
<1>5. Known(tx) <=> Responding(tx)
  <2> HIDE DEF Known, Tracked, Responding
  <2> QED BY <1>4, Zenon DEF PayloadInv, Tracking
<1>6. ~Waiting(tx)
  BY <1>1 DEF Waiting
<1> QED BY <1>1, <1>2, <1>4, <1>5, <1>6

\* What is left to show of a payload that nobody has in hand.
LEMMA RestingInv ==
  ASSUME NEW tx \in Txn, PayloadInv(tx), ~InHand(tx), link = NoCall, link' = NoCall, Contents(tx)',
         UNCHANGED <<ini, bus, peq>>, Calls, Calls'
  PROVE  PayloadInv(tx)' /\ ~InHand(tx)' /\ (Known(tx)' <=> Known(tx))
<1>1. /\ ~Tracked(tx) /\ ~Heard(tx) /\ ~Sending(tx) /\ ~Returning(tx) /\ ~Ending(tx) /\ ~Closing(tx)
      /\ ~Waiting(tx) /\ (\A q \in Peq : tx \notin Queued(q)) /\ (Known(tx) <=> Responding(tx))
  BY Resting
<1>2. ~About(tx)' /\ ~Asks(tx)' /\ ~Reports(tx)' /\ ~Responds(tx)' /\ ~EndsReq(tx)' /\ ~Telling(tx)'
  BY CallOver
<1>3. ~Tracked(tx)' /\ ~Heard(tx)' /\ ~Sending(tx)' /\ ~Returning(tx)' /\ (Known(tx)' <=> Responding(tx)')
      /\ (Known(tx)' <=> Known(tx))
  <2> HIDE DEF Tracked, Heard, Sending, Returning, Known, Responding
  <2> QED BY <1>1, InitiatorSame, BusSame
<1>4. ~Closing(tx)'
  <2> HIDE DEF Closing, About, Calls
  <2> QED BY <1>2, InTheCall
<1>5. ~Ending(tx)' /\ \A q \in Peq : tx \notin Queued(q)'
  <2>1. \A q \in Peq : tx \notin Queued(q)'
    <3> HIDE DEF Queued, Peq
    <3> QED BY <1>1, PeqSame
  <2>2. EndRspPeq(Owner(tx)) \in Peq
    BY OwnerFacts, AtNames
  <2>3. ~(tx \in Queued(EndRspPeq(Owner(tx))))'
    <3> HIDE DEF Queued, Peq
    <3> QED BY <1>1, <2>2, PeqSame
  <2> QED BY <2>1, <2>3 DEF Ending
<1> HIDE DEF Tracked, Heard, Sending, Returning, Known, Responding, Closing, About, Asks, Reports, Responds,
             EndsReq, Telling, Ending, Queued, Peq, Contents, Fits
<1>6. OneHand(tx)' /\ ~InHand(tx)'
  BY <1>3, <1>4, <1>5 DEF OneHand, InHand
<1>7. InTransit(tx)'
  BY <1>2 DEF InTransit
<1>8. InQueues(tx)'
  BY <1>5 DEF InQueues
<1>9. Tracking(tx)'
  <2>1. Wiring # "bus" => ~Known(tx)
    BY DEF PayloadInv, Tracking
  <2>2. Wiring = "bus" => ini[Owner(tx)].map[tx] # "UPDATED"
    BY DEF PayloadInv, Tracking
  <2>3. ini'[Owner(tx)].map[tx] = ini[Owner(tx)].map[tx]
    OBVIOUS
  <2> QED BY <1>2, <1>3, <2>1, <2>2, <2>3 DEF Tracking
<1> QED BY <1>3, <1>6, <1>7, <1>8, <1>9 DEF PayloadInv

\* The generator goes on, waits, or puts its payload into the request fifo.
LEMMA GeneratorQuiet ==
  ASSUME AtCore, NEW n \in Initiator, UNCHANGED <<ini, bus, tgt>>,
         Skip(n) \/ PutBlocks(n) \/ Check(n) \/ GetBlocks(n) \/ Drain(n) \/ Put(n)
  PROVE  AtCore'
<1>0. TgStep(n) /\ ~Get(n)
  BY DEF TgStep, Get, Skip, PutBlocks, Check, GetBlocks, Drain, Put
<1>1. /\ simc.cur = Tg(n) /\ ~Calling(simc.cur) /\ KernelInv(LongestDelay, simc')
      /\ link = NoCall /\ link' = NoCall /\ peq' = peq
      /\ IniOK' /\ BusOK' /\ TgtOK' /\ PeqOK' /\ fatal' \in BOOLEAN
      /\ \A q \in Peq : Once(peq'[q]) /\ \A tx : (tx \in Queued(q))' <=> tx \in Queued(q)
  <2> HIDE DEF TgStep, KernelInv, Calling, IniOK, BusOK, TgtOK, PeqOK, Peq, Queued
  <2> QED BY <1>0, GeneratorRuns
<1>2. PICK a, h : a = Away(n) /\ h = HeldBy(n)
  OBVIOUS
<1>3. Shapes /\ Accounted(n, a, h)
  BY <1>2 DEF AtCore, Types
<1>4. /\ Accounted(n, a, h)' /\ Shapes'
      /\ gp' = gp /\ pool' = pool /\ tg' = [tg EXCEPT ![n] = tg'[n]] /\ tg'[n].pass = tg[n].pass
      /\ Responded(n)' = Responded(n)
      /\ Putting(n)' \union Requested(n)' = Putting(n) \union Requested(n)
  <2>1. CASE Put(n)
    <3>1. /\ Accounted(n, a, h)' /\ Shapes'
          /\ gp' = gp /\ pool' = pool /\ tg' = [tg EXCEPT ![n] = tg'[n]] /\ tg'[n].pass = tg[n].pass
          /\ Putting(n)' = {} /\ Putting(n) = {tg[n].txn}
          /\ Requested(n)' = Requested(n) \union {tg[n].txn}
      BY <1>3, <2>1, PutStep
    <3>2. fifo'[RspCh(n)] = fifo[RspCh(n)]
      BY <1>3, <2>1, ChannelFacts DEF Put, FifoWrite, Shapes
    <3> QED BY <3>1, <3>2 DEF Responded
  <2>2. CASE Skip(n) \/ PutBlocks(n) \/ Check(n) \/ GetBlocks(n) \/ Drain(n)
    <3>1. /\ Accounted(n, a, h)' /\ Shapes' /\ fifo' = fifo
          /\ gp' = gp /\ pool' = pool /\ tg' = [tg EXCEPT ![n] = tg'[n]] /\ tg'[n].pass = tg[n].pass
          /\ Putting(n)' = Putting(n)
      BY <1>3, <2>2, QuietStep
    <3> QED BY <3>1 DEF Responded, Requested
  <2> QED BY <2>1, <2>2
<1>5. ASSUME NEW m \in Initiator, m # n
      PROVE  /\ \A b, g : Accounted(m, b, g) => Accounted(m, b, g)'
             /\ tg'[m] = tg[m]
             /\ Requested(m)' = Requested(m) /\ Responded(m)' = Responded(m) /\ Putting(m)' = Putting(m)
  <2>1. ASSUME NEW b, NEW g, Accounted(m, b, g)
        PROVE  /\ Accounted(m, b, g)' /\ tg'[m] = tg[m]
               /\ fifo'[ReqCh(m)] = fifo[ReqCh(m)] /\ fifo'[RspCh(m)] = fifo[RspCh(m)]
    BY <1>0, <1>3, <1>5, <2>1, OtherGenerators
  <2>2. PICK b, g : Accounted(m, b, g)
    BY DEF AtCore
  <2>3. /\ tg'[m] = tg[m] /\ fifo'[ReqCh(m)] = fifo[ReqCh(m)] /\ fifo'[RspCh(m)] = fifo[RspCh(m)]
    BY <2>1, <2>2
  <2>4. Requested(m)' = Requested(m) /\ Responded(m)' = Responded(m) /\ Putting(m)' = Putting(m)
    BY <2>3 DEF Requested, Responded, Putting
  <2> QED BY <2>1, <2>3, <2>4
<1>6. \A m \in Initiator : \A b, g : Accounted(m, b, g) => Accounted(m, b, g)'
  <2>1. ASSUME NEW b, NEW g, Accounted(n, b, g) PROVE Accounted(n, b, g)'
    <3>1. CASE Put(n)
      BY <1>3, <2>1, <3>1, PutStep
    <3>2. CASE Skip(n) \/ PutBlocks(n) \/ Check(n) \/ GetBlocks(n) \/ Drain(n)
      BY <1>3, <2>1, <3>2, QuietStep
    <3> QED BY <3>1, <3>2
  <2> QED BY <1>5, <2>1
<1>7. Types'
  <2>1. GpOK'
    BY <1>4 DEF AtCore, Types, GpOK
  <2> QED BY <1>1, <1>4, <2>1 DEF Types
<1>8. ASSUME NEW tx \in Txn
      PROVE  /\ Pooled(tx)' <=> Pooled(tx)
             /\ Outgoing(tx)' <=> Outgoing(tx)
             /\ Incoming(tx)' <=> Incoming(tx)
             /\ tg'[Owner(tx)].pass = tg[Owner(tx)].pass
  <2>1. PICK m \in Initiator : m = Owner(tx)
    BY OwnerFacts
  <2>2. /\ tg'[m].pass = tg[m].pass /\ Responded(m)' = Responded(m)
        /\ Putting(m)' \union Requested(m)' = Putting(m) \union Requested(m)
    BY <1>4, <1>5
  <2>3. Outgoing(tx)' <=> Outgoing(tx)
    BY <2>1, <2>2 DEF Outgoing
  <2> QED BY <1>4, <2>1, <2>2, <2>3 DEF Pooled, Incoming
<1> HIDE DEF Calling, Types, Pooled, Outgoing, Incoming, Peq, Queued, Process
<1> QED BY <1>1, <1>4, <1>6, <1>7, <1>8, NobodyMoves

\* The generator takes a free payload.
LEMMA IssueCore ==
  ASSUME AtCore, NEW n \in Initiator, UNCHANGED <<ini, bus, tgt>>, Issue(n), NEW t, t = Head(pool[n])
  PROVE  /\ AtCore' /\ t \in Txn /\ Owner(t) = n /\ Held(t) = 0 /\ Held(t)' = 1
         /\ gp' = [gp EXCEPT ![t] = gp'[t]] /\ gp'[t].status = "incomplete"
         /\ gp'[t].cmd \in {"read", "write"} /\ gp'[t].addr \in Addresses /\ gp'[t].data \in Word
         /\ \A m \in Initiator : tg'[m].pass = tg[m].pass
<1>0. TgStep(n) /\ ~Get(n)
  BY DEF TgStep, Get, Issue
<1>1. /\ KernelInv(LongestDelay, simc')
      /\ link = NoCall /\ link' = NoCall /\ peq' = peq /\ Calls'
      /\ IniOK' /\ BusOK' /\ TgtOK' /\ PeqOK' /\ fatal' \in BOOLEAN
      /\ \A q \in Peq : Once(peq'[q]) /\ \A tx : (tx \in Queued(q))' <=> tx \in Queued(q)
      /\ \A tx \in Txn : /\ Returning(tx)' <=> Returning(tx)
                         /\ ini'[Owner(tx)].map[tx] = ini[Owner(tx)].map[tx]
                         /\ bus'.pending[tx].known = bus.pending[tx].known
                         /\ bus'.pending[tx].from = bus.pending[tx].from
                         /\ Responding(tx)' <=> Responding(tx)
  <2> HIDE DEF TgStep, KernelInv, Calling, IniOK, BusOK, TgtOK, PeqOK, Peq, Queued, Responding, Returning, Calls
  <2> QED BY <1>0, GeneratorRuns
<1>2. PICK a, h : a = Away(n) /\ h = HeldBy(n)
  OBVIOUS
<1>3. Shapes /\ Accounted(n, a, h) /\ gp \in [Txn -> GpShape]
  BY <1>2 DEF AtCore, Types, GpOK
<1>4. /\ t \in Payloads(n) \ h /\ t \in Range(pool[n]) /\ tg[n].addr \in Base(n)..Base(n)+TxnsPerPass-1
      /\ Accounted(n, a, h \union {t})' /\ Shapes'
  BY <1>3, IssueStep
<1>5. t \in Txn /\ Owner(t) = n /\ PayloadInv(t) /\ h \in SUBSET Payloads(n)
  BY <1>3, <1>4, OwnerFacts, AccountedSubset DEF AtCore
<1>6. Held(t) = 0 /\ gp[t].rc = 0 /\ ~Known(t)
  <2>1. Held(t) \in {0, 1} /\ Held(t) # 1
    <3> HIDE DEF Held
    <3> QED BY <1>2, <1>4, <1>5 DEF HeldBy, PayloadInv, Contents
  <2>2. gp[t].rc = 0
    <3>1. Pooled(t)
      BY <1>4, <1>5 DEF Pooled
    <3> HIDE DEF Pooled
    <3> QED BY <1>5, <3>1 DEF PayloadInv, Contents
  <2> QED BY <2>1, <2>2 DEF Held, BusHolds
<1>7. ~InHand(t) /\ a \subseteq h
  <2>1. a \subseteq h
    BY <1>3 DEF Accounted
  <2> HIDE DEF InHand
  <2> QED BY <1>2, <1>4, <2>1 DEF Away
<1>8. PICK s \in TgShape, g \in GpShape : s = tg[n] /\ g = gp[t]
  BY <1>3, <1>5 DEF Shapes
<1>9. PICK d \in Word : d = IF s.cmd = "write" THEN WriteData(n) ELSE g.data
  <2>1. s.addr \in Addresses
    BY <1>4, <1>8, AtNumbers
  <2>2. WriteData(n) \in Word
    BY <1>8, <2>1, AtNumbers DEF WriteData
  <2> QED BY <1>8, <2>2 DEF GpShape
<1>10. PICK port \in Target : port = PortOf(s.pass) /\ port = Port(t)
  BY <1>3, <1>5, <1>8, PortType DEF Port
<1>11. PICK z : z = [cmd |-> s.cmd, port |-> port, addr |-> s.addr, data |-> d, status |-> "incomplete", rc |-> 1]
  OBVIOUS
<1>12. gp' = [gp EXCEPT ![t] = z]
  BY <1>6, <1>8, <1>9, <1>10, <1>11 DEF Issue
<1>13. s.addr \in Addresses /\ s.addr \in Int /\ s.cmd \in {"read", "write"}
  BY <1>4, <1>8, AtNumbers DEF TgShape
<1>14. z \in GpShape
  BY <1>11, <1>13 DEF GpShape
<1>15. GpOK' /\ gp'[t] = z
  BY <1>3, <1>5, <1>12, <1>14 DEF GpOK
<1>16. tg' = [tg EXCEPT ![n] = tg'[n]] /\ tg'[n].pass = s.pass /\ tg'[n].pc = "put" /\ tg'[n].txn = t
  <2> DEFINE s2 == [s EXCEPT !.pc = "put", !.addr = @ + 1, !.active = @ + 1, !.txn = t, !.sent = @ + 1]
  <2>1. tg' = [tg EXCEPT ![n] = s2]
    BY <1>8 DEF Issue, Set
  <2>2. s2.pass = s.pass /\ s2.pc = "put" /\ s2.txn = t
    BY DEF TgShape
  <2> HIDE DEF s2
  <2> QED BY <1>3, <2>1, <2>2 DEF Shapes
<1>17. \A m \in Initiator : tg'[m].pass = tg[m].pass
  BY <1>3, <1>8, <1>16 DEF Shapes
<1>18. fifo' = fifo /\ pool' = [pool EXCEPT ![n] = Tail(@)]
  BY DEF Issue
<1>19. Contents(t)' /\ Held(t)' = 1
  <2>1. gp'[t].rc = 1 /\ ~Known(t)'
    BY <1>6, <1>11, <1>15 DEF Known
  <2>2. Held(t)' = 1
    BY <2>1 DEF Held, BusHolds
  <2>3. ~Pooled(t)'
    <3>1. h \union {t} \subseteq Payloads(n) /\ (h \union {t}) \intersect Range(pool[n])' = {}
      BY <1>4, <1>5 DEF Accounted
    <3> QED BY <1>5, <3>1 DEF Pooled
  <2>4. ~Incoming(t)' /\ ~Returning(t)' /\ ~Closing(t)'
    <3>1. ~Incoming(t)'
      <4>1. t \in Putting(n)'
        BY <1>16 DEF Putting
      <4>2. Putting(n)' \intersect Responded(n)' = {}
        BY <1>4 DEF Accounted
      <4> QED BY <1>5, <4>1, <4>2 DEF Incoming
    <3>2. ~Returning(t)'
      <4> HIDE DEF Returning
      <4> QED BY <1>1, <1>5, <1>7 DEF InHand
    <3>3. ~Closing(t)'
      <4>1. ~About(t)'
        BY <1>1, CallOver
      <4> HIDE DEF Closing, About, Calls
      <4> QED BY <1>1, <1>5, <4>1, InTheCall
    <3> QED BY <3>1, <3>2, <3>3
  <2>5. gp'[t].port = Port(t)' /\ Asked(t)' /\ gp'[t].cmd \in {"read", "write"} /\ gp'[t].addr \in Addresses
    <3>1. gp'[t].port = port /\ gp'[t].status = "incomplete" /\ gp'[t].cmd = s.cmd /\ gp'[t].addr = s.addr
      BY <1>11, <1>15
    <3>2. Port(t)' = PortOf(s.pass)
      BY <1>5, <1>16 DEF Port
    <3>3. gp'[t].port = Port(t)'
      BY <1>10, <3>1, <3>2
    <3> QED BY <1>13, <3>1, <3>3 DEF Asked
  <2> HIDE DEF Held, Known, Pooled, Incoming, Returning, Closing, Asked, CarriedOut, Port, Outgoing
  <2> QED BY <2>1, <2>2, <2>3, <2>4, <2>5 DEF Contents
<1>20. PayloadInv(t)' /\ ~InHand(t)'
  <2>1. Calls
    BY DEF AtCore
  <2> HIDE DEF InHand, PayloadInv, Contents, Calls
  <2> QED BY <1>1, <1>5, <1>7, <1>19, <2>1, RestingInv
<1>21. ASSUME NEW tx \in Txn, tx # t PROVE Apart(tx)
  <2>1. PICK m \in Initiator : m = Owner(tx)
    BY OwnerFacts
  <2>2. gp'[tx] = gp[tx] /\ tg'[m].pass = tg[m].pass
    BY <1>3, <1>12, <1>17, <1>21
  <2>3. Pooled(tx)' <=> Pooled(tx)
    <3>1. CASE m = n
      <4>1. pool[n] \in Line(Payloads(n)) /\ pool[n] # << >>
        BY <1>3 DEF Accounted, Issue
      <4>2. Range(Tail(pool[n])) = Range(pool[n]) \ {t}
        BY <4>1, TailOfLine
      <4>3. pool'[n] = Tail(pool[n])
        BY <1>3, <1>18 DEF Shapes
      <4> QED BY <1>21, <2>1, <3>1, <4>2, <4>3 DEF Pooled
    <3>2. CASE m # n
      <4>1. pool'[m] = pool[m]
        BY <1>3, <1>18, <3>2 DEF Shapes
      <4> QED BY <2>1, <4>1 DEF Pooled
    <3> QED BY <3>1, <3>2
  <2>4. Outgoing(tx)' <=> Outgoing(tx)
    <3>1. CASE m = n
      <4>1. Putting(n) = {} /\ Putting(n)' = {t}
        BY <1>16 DEF Putting, Issue
      <4> QED BY <1>18, <1>21, <2>1, <3>1, <4>1 DEF Outgoing, Requested
    <3>2. CASE m # n
      <4>1. tg'[m] = tg[m]
        BY <1>3, <1>16, <3>2 DEF Shapes
      <4> QED BY <1>18, <2>1, <4>1 DEF Outgoing, Requested, Putting
    <3> QED BY <3>1, <3>2
  <2>5. Incoming(tx)' <=> Incoming(tx)
    BY <1>18 DEF Incoming, Responded
  <2> HIDE DEF Pooled, Outgoing, Incoming, Returning, Peq, Queued, Responding
  <2> QED BY <1>1, <2>1, <2>2, <2>3, <2>4, <2>5 DEF Apart
<1>22. Types'
  BY <1>1, <1>4, <1>15 DEF Types
<1>23. \A m \in Initiator : m # n => \A b, g2 : Accounted(m, b, g2) => Accounted(m, b, g2)'
  BY <1>0, <1>3, OtherGenerators
<1>24. AtCore'
  <2>1. a = IF InHand(t)' THEN Away(Owner(t)) \union {t} ELSE Away(Owner(t)) \ {t}
    <3> HIDE DEF InHand
    <3> QED BY <1>2, <1>4, <1>5, <1>7, <1>20
  <2>2. h \union {t} = IF Held(t)' = 1 THEN HeldBy(Owner(t)) \union {t} ELSE HeldBy(Owner(t)) \ {t}
    BY <1>2, <1>5, <1>19
  <2> DEFINE h2 == h \union {t}
  <2>3. Accounted(Owner(t), a, h2)'
    BY <1>4, <1>5
  <2> HIDE DEF h2, InHand, Held, Calls, Types, PayloadInv, Apart, Peq, Once
  <2> QED BY <1>1, <1>5, <1>20, <1>21, <1>22, <1>23, <2>1, <2>2, <2>3, OneMoves DEF h2
<1>25. gp'[t].status = "incomplete" /\ gp'[t].cmd = s.cmd /\ gp'[t].addr = s.addr /\ gp'[t].data = d
  BY <1>11, <1>15
<1>26. gp' = [gp EXCEPT ![t] = gp'[t]]
  BY <1>12, <1>15
<1>27. gp'[t].cmd \in {"read", "write"} /\ gp'[t].addr \in Addresses /\ gp'[t].data \in Word
  BY <1>9, <1>13, <1>25
<1> HIDE DEF AtCore, Held
<1> QED BY <1>5, <1>6, <1>17, <1>19, <1>24, <1>25, <1>26, <1>27

\* The generator takes back a payload whose transaction was carried out.
LEMMA GetCore ==
  ASSUME AtCore, NEW n \in Initiator, UNCHANGED <<ini, bus, tgt>>, Get(n),
         NEW t, t = Head(fifo[RspCh(n)].items)
  PROVE  /\ AtCore' /\ t \in Txn /\ Owner(t) = n /\ Held(t) = 1 /\ Held(t)' = 0 /\ CarriedOut(t)
         /\ gp' = [gp EXCEPT ![t] = gp'[t]]
         /\ \A m \in Initiator : tg'[m].pass = tg[m].pass
<1>0. TgStep(n)
  BY DEF TgStep
<1>1. /\ KernelInv(LongestDelay, simc')
      /\ link = NoCall /\ link' = NoCall /\ peq' = peq /\ Calls'
      /\ IniOK' /\ BusOK' /\ TgtOK' /\ PeqOK' /\ fatal' \in BOOLEAN
      /\ \A q \in Peq : Once(peq'[q]) /\ \A tx : (tx \in Queued(q))' <=> tx \in Queued(q)
      /\ \A tx \in Txn : /\ Returning(tx)' <=> Returning(tx)
                         /\ ini'[Owner(tx)].map[tx] = ini[Owner(tx)].map[tx]
                         /\ bus'.pending[tx].known = bus.pending[tx].known
                         /\ bus'.pending[tx].from = bus.pending[tx].from
                         /\ Responding(tx)' <=> Responding(tx)
  <2> HIDE DEF TgStep, KernelInv, Calling, IniOK, BusOK, TgtOK, PeqOK, Peq, Queued, Responding, Returning, Calls
  <2> QED BY <1>0, GeneratorRuns
<1>2. PICK a, h : a = Away(n) /\ h = HeldBy(n)
  OBVIOUS
<1>3. Shapes /\ Accounted(n, a, h) /\ gp \in [Txn -> GpShape]
  BY <1>2 DEF AtCore, Types, GpOK
<1>4. /\ t \in h /\ t \in Responded(n) /\ t \in Payloads(n)
      /\ Accounted(n, a, h \ {t})' /\ Shapes'
      /\ tg' = [tg EXCEPT ![n] = tg'[n]] /\ tg'[n].pass = tg[n].pass /\ Putting(n)' = {}
      /\ pool' = IF gp[t].rc = 1 THEN [pool EXCEPT ![n] = Append(@, t)] ELSE pool
  BY <1>3, GetStep
<1>5. t \in Txn /\ Owner(t) = n /\ PayloadInv(t)
  BY <1>4, OwnerFacts DEF AtCore
<1>6. Held(t) = 1 /\ CarriedOut(t) /\ gp[t].cmd \in {"read", "write"} /\ gp[t].addr \in Addresses
  <2>1. Held(t) = 1
    BY <1>2, <1>4 DEF HeldBy
  <2>2. Incoming(t)
    BY <1>4, <1>5 DEF Incoming
  <2> HIDE DEF Held, Incoming, CarriedOut
  <2> QED BY <1>5, <2>1, <2>2 DEF PayloadInv, Contents
<1>7. ~InHand(t) /\ a \subseteq h /\ t \notin a
  <2>1. a \subseteq h /\ t \notin a
    BY <1>3, <1>4 DEF Accounted
  <2> HIDE DEF InHand
  <2> QED BY <1>2, <1>4, <2>1 DEF Away
<1>8. PICK g \in GpShape : g = gp[t]
  BY <1>3, <1>5
<1>9. PICK r \in Nat : r = g.rc - 1 /\ g.rc = r + 1
  <2>1. g.rc \in Nat /\ g.rc - BusHolds(t) = 1 /\ BusHolds(t) \in {0, 1}
    BY <1>6, <1>8 DEF Held, BusHolds, GpShape
  <2>2. g.rc - 1 \in Nat /\ g.rc = (g.rc - 1) + 1
    BY <2>1
  <2> QED BY <2>2
<1>10. PICK z \in GpShape : z = [g EXCEPT !.rc = r] /\ z.rc = r /\ z.status = g.status /\ z.cmd = g.cmd
                            /\ z.addr = g.addr /\ z.data = g.data /\ z.port = g.port
  <2> DEFINE x == [g EXCEPT !.rc = r]
  <2>1. x \in GpShape /\ x.rc = r /\ x.status = g.status /\ x.cmd = g.cmd /\ x.addr = g.addr
        /\ x.data = g.data /\ x.port = g.port
    BY Zenon DEF GpShape
  <2> HIDE DEF x
  <2>2. x = x /\ x = [g EXCEPT !.rc = r]
    BY DEF x
  <2> QED BY <2>1, <2>2
<1>11. gp' = [gp EXCEPT ![t] = z]
  BY <1>8, <1>9, <1>10 DEF Get, Released
<1>12. GpOK' /\ gp'[t] = z
  BY <1>3, <1>5, <1>11 DEF GpOK
<1>13. \A m \in Initiator : tg'[m].pass = tg[m].pass
  BY <1>3, <1>4 DEF Shapes
<1>14. /\ Responded(n)' = Responded(n) \ {t} /\ Requested(n)' = Requested(n) /\ Putting(n) = {}
       /\ \A m \in Initiator : m # n => /\ Responded(m)' = Responded(m) /\ Requested(m)' = Requested(m)
  <2>1. PICK f \in FifoShape(n) : f = fifo[RspCh(n)]
    BY <1>3 DEF Accounted
  <2>2. f.readable - f.read # 0 /\ t = Head(f.items)
    BY <2>1 DEF Get, NumAvailable
  <2> DEFINE f2 == [f EXCEPT !.items = Tail(@), !.read = @ + 1]
  <2>3. f2.items = Tail(f.items) /\ Range(Tail(f.items)) = Range(f.items) \ {t}
    <3>1. Range(Tail(f.items)) = Range(f.items) \ {t}
      BY <2>2, ReadShape
    <3> QED BY <3>1 DEF FifoShape, FifoFields
  <2>4. fifo' = [fifo EXCEPT ![RspCh(n)] = f2]
    BY <2>1, Zenon DEF Get, FifoRead
  <2> HIDE DEF f2
  <2>5. /\ fifo'[RspCh(n)] = f2 /\ fifo'[ReqCh(n)] = fifo[ReqCh(n)]
        /\ \A m \in Initiator : m # n => fifo'[RspCh(m)] = fifo[RspCh(m)] /\ fifo'[ReqCh(m)] = fifo[ReqCh(m)]
    BY <1>3, <2>4, ChannelFacts DEF Shapes
  <2>6. Putting(n) = {}
    BY DEF Putting, Get
  <2> QED BY <2>1, <2>3, <2>5, <2>6 DEF Responded, Requested
<1>15. Contents(t)' /\ Held(t)' = 0
  <2>1. gp'[t].rc = r /\ BusHolds(t)' = BusHolds(t) /\ (Known(t)' <=> Known(t))
    BY <1>5, <1>10, <1>12 DEF BusHolds, Known
  <2>2. Held(t)' = 0
    <3>1. g.rc - BusHolds(t) = 1 /\ BusHolds(t) \in {0, 1}
      BY <1>6, <1>8 DEF Held, BusHolds
    <3>2. r - BusHolds(t) = 0
      BY <1>9, <3>1
    <3> QED BY <2>1, <3>2 DEF Held
  <2>3. Pooled(t)' <=> gp'[t].rc = 0
    <3>1. pool[n] \in Line(Payloads(n)) /\ t \notin Range(pool[n]) /\ pool \in [Initiator -> Seq(Txn)]
      BY <1>3, <1>4 DEF Accounted, Shapes
    <3>2. CASE r = 0
      <4>1. Range(Append(pool[n], t)) = Range(pool[n]) \union {t}
        BY <1>4, <3>1, AppendToLine
      <4>2. pool'[n] = Append(pool[n], t)
        BY <1>4, <1>8, <1>9, <3>1, <3>2
      <4> QED BY <1>5, <2>1, <3>2, <4>1, <4>2 DEF Pooled
    <3>3. CASE r # 0
      <4>1. pool' = pool
        BY <1>4, <1>8, <1>9, <3>3
      <4> QED BY <1>5, <2>1, <3>1, <3>3, <4>1 DEF Pooled
    <3> QED BY <3>2, <3>3
  <2>4. ~Outgoing(t)'
    <3>1. t \notin Requested(n)
      BY <1>3, <1>4 DEF Accounted
    <3> QED BY <1>4, <1>5, <1>14, <3>1 DEF Outgoing
  <2>5. CarriedOut(t)'
    BY <1>6, <1>8, <1>10, <1>12 DEF CarriedOut
  <2> HIDE DEF Held, Known, Pooled, Incoming, Returning, Closing, Asked, CarriedOut, Port, Outgoing
  <2> QED BY <2>2, <2>3, <2>4, <2>5 DEF Contents
<1>16. PayloadInv(t)' /\ ~InHand(t)'
  <2>1. Calls
    BY DEF AtCore
  <2> HIDE DEF InHand, PayloadInv, Contents, Calls
  <2> QED BY <1>1, <1>5, <1>7, <1>15, <2>1, RestingInv
<1>17. ASSUME NEW tx \in Txn, tx # t PROVE Apart(tx)
  <2>1. PICK m \in Initiator : m = Owner(tx)
    BY OwnerFacts
  <2>2. gp'[tx] = gp[tx] /\ tg'[m].pass = tg[m].pass
    BY <1>3, <1>11, <1>13, <1>17
  <2>3. Pooled(tx)' <=> Pooled(tx)
    <3>1. pool[n] \in Line(Payloads(n)) /\ t \notin Range(pool[n]) /\ pool \in [Initiator -> Seq(Txn)]
      BY <1>3, <1>4 DEF Accounted, Shapes
    <3>2. CASE pool' = pool
      BY <3>2 DEF Pooled
    <3>3. CASE pool' = [pool EXCEPT ![n] = Append(@, t)]
      <4>1. Range(Append(pool[n], t)) = Range(pool[n]) \union {t}
        BY <1>4, <3>1, AppendToLine
      <4>2. pool'[n] = Append(pool[n], t) /\ (m # n => pool'[m] = pool[m])
        BY <3>1, <3>3
      <4>3. tx \in Range(pool'[m]) <=> tx \in Range(pool[m])
        <5>1. CASE m = n
          <6>1. pool'[m] = Append(pool[m], t) /\ Range(Append(pool[m], t)) = Range(pool[m]) \union {t}
            BY <4>1, <4>2, <5>1
          <6> QED BY <1>17, <6>1
        <5>2. CASE m # n
          BY <4>2, <5>2
        <5> QED BY <5>1, <5>2
      <4>4. Owner(tx)' = m
        BY <2>1
      <4> QED BY <2>1, <4>3 DEF Pooled
    <3> QED BY <1>4, <3>2, <3>3
  <2>4. Outgoing(tx)' <=> Outgoing(tx)
    <3>1. CASE m = n
      BY <1>4, <1>14, <2>1, <3>1 DEF Outgoing
    <3>2. CASE m # n
      <4>1. tg'[m] = tg[m]
        BY <1>3, <1>4, <3>2 DEF Shapes
      <4> QED BY <1>14, <2>1, <3>2, <4>1 DEF Outgoing, Putting
    <3> QED BY <3>1, <3>2
  <2>5. Incoming(tx)' <=> Incoming(tx)
    BY <1>14, <1>17, <2>1 DEF Incoming
  <2> HIDE DEF Pooled, Outgoing, Incoming, Returning, Peq, Queued, Responding
  <2> QED BY <1>1, <2>1, <2>2, <2>3, <2>4, <2>5 DEF Apart
<1>18. Types'
  BY <1>1, <1>4, <1>12 DEF Types
<1>19. \A m \in Initiator : m # n => \A b, g2 : Accounted(m, b, g2) => Accounted(m, b, g2)'
  BY <1>0, <1>3, <1>4, OtherGenerators
<1>20. AtCore'
  <2>1. a = IF InHand(t)' THEN Away(Owner(t)) \union {t} ELSE Away(Owner(t)) \ {t}
    <3> HIDE DEF InHand
    <3> QED BY <1>2, <1>5, <1>7, <1>16
  <2>2. h \ {t} = IF Held(t)' = 1 THEN HeldBy(Owner(t)) \union {t} ELSE HeldBy(Owner(t)) \ {t}
    BY <1>2, <1>5, <1>15
  <2> DEFINE h2 == h \ {t}
  <2>3. Accounted(Owner(t), a, h2)'
    BY <1>4, <1>5
  <2> HIDE DEF h2, InHand, Held, Calls, Types, PayloadInv, Apart, Peq, Once
  <2> QED BY <1>1, <1>5, <1>16, <1>17, <1>18, <1>19, <2>1, <2>2, <2>3, OneMoves DEF h2
<1>21. gp' = [gp EXCEPT ![t] = gp'[t]]
  BY <1>11, <1>12
<1> HIDE DEF AtCore, Held, CarriedOut
<1> QED BY <1>5, <1>6, <1>13, <1>15, <1>20, <1>21

\* With no payload held the generator goes on to its reads, its second pass or the
\* end.
LEMMA DrainedCore ==
  ASSUME AtCore, NEW n \in Initiator, UNCHANGED <<ini, bus, tgt>>, Drained(n)
  PROVE  /\ AtCore' /\ gp' = gp
         /\ \A tx \in Txn : Held(tx) # 0 => tg'[Owner(tx)].pass = tg[Owner(tx)].pass
<1>0. TgStep(n) /\ ~Get(n)
  BY DEF TgStep, Get, Drained
<1>1. /\ KernelInv(LongestDelay, simc')
      /\ link = NoCall /\ link' = NoCall /\ peq' = peq /\ Calls'
      /\ IniOK' /\ BusOK' /\ TgtOK' /\ PeqOK' /\ fatal' \in BOOLEAN
      /\ \A q \in Peq : Once(peq'[q]) /\ \A tx : (tx \in Queued(q))' <=> tx \in Queued(q)
      /\ \A tx \in Txn : /\ Returning(tx)' <=> Returning(tx)
                         /\ ini'[Owner(tx)].map[tx] = ini[Owner(tx)].map[tx]
                         /\ bus'.pending[tx].known = bus.pending[tx].known
                         /\ bus'.pending[tx].from = bus.pending[tx].from
                         /\ Responding(tx)' <=> Responding(tx)
  <2> HIDE DEF TgStep, KernelInv, Calling, IniOK, BusOK, TgtOK, PeqOK, Peq, Queued, Responding, Returning, Calls
  <2> QED BY <1>0, GeneratorRuns
<1>2. PICK a, h : a = Away(n) /\ h = HeldBy(n)
  OBVIOUS
<1>3. Shapes /\ Accounted(n, a, h) /\ Calls
  BY <1>2 DEF AtCore, Types
<1>4. /\ h = {} /\ Accounted(n, a, h)' /\ Shapes'
      /\ gp' = gp /\ pool' = pool /\ fifo' = fifo
      /\ tg' = [tg EXCEPT ![n] = tg'[n]] /\ Putting(n)' = {}
  BY <1>3, DrainedStep
<1>5. Putting(n) = {} /\ Requested(n) = {} /\ Responded(n) = {} /\ a = {}
  BY <1>3, <1>4 DEF Accounted
<1>6. \A m \in Initiator : m # n => tg'[m] = tg[m]
  BY <1>3, <1>4 DEF Shapes
<1>7. /\ Requested(n)' = {} /\ Responded(n)' = {}
      /\ \A m \in Initiator : m # n => /\ Requested(m)' = Requested(m) /\ Responded(m)' = Responded(m)
                                       /\ Putting(m)' = Putting(m)
  BY <1>4, <1>5, <1>6 DEF Requested, Responded, Putting
<1>8. ASSUME NEW tx \in Txn
      PROVE  /\ Pooled(tx)' <=> Pooled(tx)
             /\ Outgoing(tx)' <=> Outgoing(tx)
             /\ Incoming(tx)' <=> Incoming(tx)
             /\ Owner(tx) = n => ~Outgoing(tx)' /\ ~Incoming(tx)
  <2>1. PICK m \in Initiator : m = Owner(tx)
    BY OwnerFacts
  <2>2. Pooled(tx)' <=> Pooled(tx)
    BY <1>4 DEF Pooled
  <2>3. CASE m = n
    BY <1>4, <1>5, <1>7, <2>1, <2>2, <2>3 DEF Outgoing, Incoming
  <2>4. CASE m # n
    BY <1>7, <2>1, <2>2, <2>4 DEF Outgoing, Incoming
  <2> QED BY <2>3, <2>4
<1>9. \A p \in Process : ~Calling(p) /\ ~Calling(p)'
  <2>1. \A p \in Process : ~Calling(p)
    <3> HIDE DEF Process, Calling
    <3> QED BY <1>1, <1>3 DEF Calls
  <2>2. \A p \in Process : Calling(p)' <=> Calling(p)
    BY Zenon DEF Calling
  <2> HIDE DEF Process, Calling
  <2> QED BY <2>1, <2>2
<1>10. ASSUME NEW tx \in Txn
       PROVE  /\ PayloadInv(tx)' /\ (InHand(tx)' <=> InHand(tx)) /\ Held(tx)' = Held(tx)
              /\ Held(tx) # 0 => tg'[Owner(tx)].pass = tg[Owner(tx)].pass
  <2>1. PayloadInv(tx)
    BY DEF AtCore
  <2>2. CASE Owner(tx) = n
    <3>1. tx \in Payloads(n) /\ Held(tx) \in {0, 1}
      <4> HIDE DEF Held
      <4> QED BY <2>1, <2>2, OwnerFacts DEF PayloadInv, Contents
    <3>2. ~InHand(tx) /\ Held(tx) = 0
      <4> HIDE DEF InHand, Held
      <4> QED BY <1>2, <1>4, <1>5, <3>1 DEF Away, HeldBy
    <3>3. Held(tx)' = Held(tx)
      BY <1>4 DEF Held, BusHolds, Known
    <3>4. Contents(tx)'
      <4>1. gp'[tx] = gp[tx] /\ ~Returning(tx)' /\ ~Closing(tx)'
        <5>1. ~Returning(tx)'
          <6> HIDE DEF Returning
          <6> QED BY <1>1, <3>2 DEF InHand
        <5>2. ~Closing(tx)'
          <6> HIDE DEF Closing, Calling, Process
          <6> QED BY <1>9, NobodyCalls
        <5> QED BY <1>4, <5>1, <5>2
      <4> HIDE DEF Held, Known, Pooled, Incoming, Returning, Closing, Asked, CarriedOut, Port, Outgoing
      <4> QED BY <1>8, <2>1, <2>2, <3>2, <3>3, <4>1 DEF Contents, PayloadInv
    <3> HIDE DEF InHand, PayloadInv, Contents, Calls, Held
    <3> QED BY <1>1, <1>3, <2>1, <3>2, <3>3, <3>4, RestingInv
  <2>3. CASE Owner(tx) # n
    <3>1. ~Sending(tx) /\ ~Sending(tx)' /\ ~Closing(tx) /\ ~Closing(tx)' /\ ~About(tx) /\ ~About(tx)'
      <4>1. ~About(tx) /\ ~About(tx)'
        BY <1>1, CallOver
      <4> HIDE DEF Closing, Sending, Calling, Process, About
      <4> QED BY <1>9, <4>1, NobodyCalls
    <3>2. tg'[Owner(tx)].pass = tg[Owner(tx)].pass /\ gp'[tx] = gp[tx]
      BY <1>4, <1>6, <2>3, OwnerFacts
    <3>3. Untouched(tx)
      <4> HIDE DEF Pooled, Outgoing, Incoming, Sending, Returning, Closing, Queued, Responding, About, Peq
      <4> QED BY <1>1, <1>8, <3>1, <3>2, Zenon DEF Untouched, Unmoved
    <3>4. (InHand(tx)' <=> InHand(tx)) /\ Held(tx)' = Held(tx)
      BY <3>3, UnmovedParts DEF Untouched
    <3> QED BY <2>1, <3>2, <3>3, <3>4, UntouchedInv
  <2> QED BY <2>2, <2>3
<1>11. ASSUME NEW m \in Initiator PROVE Accounted(m, Away(m), HeldBy(m))'
  <2>1. Away(m)' = Away(m) /\ HeldBy(m)' = HeldBy(m)
    <3> HIDE DEF InHand, Held, Payloads, Txn
    <3> QED BY <1>10, OwnerFacts, HandsSame
  <2>2. PICK b, g : b = Away(m) /\ g = HeldBy(m)
    OBVIOUS
  <2>3. Accounted(m, b, g)
    BY <2>2 DEF AtCore
  <2>4. Accounted(m, b, g)'
    <3>1. CASE m = n
      BY <1>2, <1>4, <2>2, <3>1
    <3>2. CASE m # n
      BY <1>0, <1>3, <2>3, <3>2, OtherGenerators
    <3> QED BY <3>1, <3>2
  <2> QED BY <2>1, <2>2, <2>4
<1>12. Types'
  <2>1. GpOK'
    BY <1>4 DEF AtCore, Types, GpOK
  <2> QED BY <1>1, <1>4, <2>1 DEF Types
<1>13. AtCore'
  BY <1>1, <1>10, <1>11, <1>12 DEF AtCore
<1> QED BY <1>4, <1>10, <1>13

-----------------------------------------------------------------------------
(* Who calls whom *)

\* The callers.
LEMMA Callers ==
  ASSUME AtCore, link # NoCall
  PROVE  /\ link \in LinkShape /\ link.txn \in Txn
         /\ \/ \E n \in Initiator : simc.cur = Ini(n) /\ ini[n].pc = "sent" /\ RequestCall(n)
            \/ \E n \in Initiator : simc.cur = EndRsp(n) /\ ini[n].mpc = "sent" /\ CloseCall(n)
            \/ simc.cur = RequestThread /\ Wiring = "bus" /\ (ForwardCall \/ EndReqCall)
            \/ simc.cur = ResponseThread /\ Wiring = "bus" /\ (ReplyCall \/ EndRspCall)
            \/ \E m \in Target : simc.cur = BeginResponse(m) /\ BeginRespCall(m)
            \/ \E m \in Target : simc.cur = EndRequest(m) /\ TargetEndReqCall(m)
         /\ \A n \in Initiator : /\ ini[n].pc = "sent" => simc.cur = Ini(n)
                                 /\ ini[n].mpc = "sent" => simc.cur = EndRsp(n)
<1>1. link \in LinkShape /\ simc.cur \in Process /\ Calling(simc.cur) /\ CallOf(simc.cur)
  BY DEF AtCore, Calls
<1>2. link.txn \in Txn
  BY <1>1 DEF LinkShape
<1>3. \A n \in Initiator : /\ ini[n].pc = "sent" => simc.cur = Ini(n)
                           /\ ini[n].mpc = "sent" => simc.cur = EndRsp(n)
  <2> HIDE DEF Calling, CallOf, Process
  <2> QED BY CallingNames, AtNames DEF AtCore, Calls
<1>4. simc.cur \in {RequestThread, ResponseThread} => Wiring = "bus"
  BY <1>1, AtNames
<1>5. \/ \E n \in Initiator : simc.cur = Ini(n)
      \/ \E n \in Initiator : simc.cur = EndRsp(n)
      \/ simc.cur = RequestThread
      \/ simc.cur = ResponseThread
      \/ \E m \in Target : simc.cur = BeginResponse(m)
      \/ \E m \in Target : simc.cur = EndRequest(m)
  BY <1>1 DEF Calling, Ini, EndRsp, BeginResponse, EndRequest
<1> HIDE DEF Calling, CallOf, Process, LinkShape, RequestCall, CloseCall, ForwardCall, EndReqCall, ReplyCall,
             EndRspCall, BeginRespCall, TargetEndReqCall, Ini, EndRsp, BeginResponse, EndRequest
<1>6. ASSUME NEW n \in Initiator, simc.cur = Ini(n) PROVE ini[n].pc = "sent" /\ RequestCall(n)
  BY <1>1, <1>6, CallingNames
<1>7. ASSUME NEW n \in Initiator, simc.cur = EndRsp(n) PROVE ini[n].mpc = "sent" /\ CloseCall(n)
  BY <1>1, <1>7, CallingNames
<1>8. ASSUME NEW m \in Target, simc.cur = BeginResponse(m) PROVE BeginRespCall(m)
  BY <1>1, <1>8, CallingNames
<1>9. ASSUME NEW m \in Target, simc.cur = EndRequest(m) PROVE TargetEndReqCall(m)
  BY <1>1, <1>9, CallingNames
<1>10. simc.cur = RequestThread => ForwardCall \/ EndReqCall
  BY <1>1, CallingNames
<1>11. simc.cur = ResponseThread => ReplyCall \/ EndRspCall
  BY <1>1, CallingNames
<1> QED BY <1>1, <1>2, <1>3, <1>4, <1>5, <1>6, <1>7, <1>8, <1>9, <1>10, <1>11, Zenon

\* The bindings of the sockets.
LEMMA Bindings ==
  /\ Direct \/ Wiring = "bus"
  /\ Wiring = "bus" => ~Direct
  /\ \A n \in Initiator : /\ Direct => FromInitiator(n) = ToTarget(n - 1)
                          /\ ~Direct => FromInitiator(n) = <<"bus_fw", n>>
  /\ \A m \in Target : /\ Direct => FromTarget(m) = ToInitiator(m + 1) /\ m + 1 \in Initiator
                       /\ ~Direct => FromTarget(m) = <<"bus_bw", m>>
  /\ \A n, m \in Initiator : FromInitiator(n) = FromInitiator(m) => n = m
<1>1. Direct \/ Wiring = "bus"
  BY WiringAssumption, AtPlatformAssumption DEF Direct, Blocking
<1>2. ASSUME NEW m \in Target, Direct PROVE m + 1 \in Initiator
  BY <1>2, WiringAssumption, AtNumbers DEF Direct, Target, Initiator
<1>3. \A n, m \in Initiator : FromInitiator(n) = FromInitiator(m) => n = m
  BY AtNumbers DEF FromInitiator
<1> QED BY <1>1, <1>2, <1>3 DEF FromInitiator, FromTarget, ToTarget, ToInitiator, Direct

\* Whom the calls may reach.
LEMMA Reached ==
  /\ \A n \in Initiator : RequestCall(n) \/ CloseCall(n) => link.callee[1] \in {"target", "bus_fw"}
  /\ ForwardCall \/ EndRspCall => link.callee[1] = "target"
  /\ EndReqCall \/ ReplyCall => link.callee[1] = "initiator"
  /\ \A m \in Target : BeginRespCall(m) \/ TargetEndReqCall(m) => link.callee[1] \in {"initiator", "bus_bw"}
<1>1. ASSUME NEW n \in Initiator PROVE FromInitiator(n)[1] \in {"target", "bus_fw"}
  BY DEF FromInitiator
<1>2. ASSUME NEW m \in Target PROVE FromTarget(m)[1] \in {"initiator", "bus_bw"}
  BY DEF FromTarget
<1>3. ASSUME NEW n PROVE ToInitiator(n)[1] = "initiator"
  BY DEF ToInitiator
<1>4. ASSUME NEW n \in Initiator, RequestCall(n) \/ CloseCall(n)
      PROVE  link.callee[1] \in {"target", "bus_fw"}
  <2>1. link.callee = FromInitiator(n)
    BY <1>4, Zenon DEF RequestCall, CloseCall
  <2> QED BY <1>1, <2>1
<1>5. ASSUME NEW m \in Target, BeginRespCall(m) \/ TargetEndReqCall(m)
      PROVE  link.callee[1] \in {"initiator", "bus_bw"}
  <2>1. link.callee = FromTarget(m)
    BY <1>5, Zenon DEF BeginRespCall, TargetEndReqCall
  <2> QED BY <1>2, <2>1
<1>6. ForwardCall \/ EndRspCall => link.callee[1] = "target"
  BY Zenon DEF ForwardCall, EndRspCall
<1>7. EndReqCall \/ ReplyCall => link.callee[1] = "initiator"
  BY <1>3, Zenon DEF EndReqCall, ReplyCall
<1> QED BY <1>4, <1>5, <1>6, <1>7

\* The calls each callee gets.
LEMMA InitiatorCalled ==
  ASSUME AtCore, NEW n \in Initiator, Called(ToInitiator(n))
  PROVE  /\ link # NoCall /\ link \in LinkShape /\ link.txn \in Payloads(n) /\ link.txn \in Txn
         /\ Owner(link.txn) = n /\ link.phase \in {"END_REQ", "BEGIN_RESP"} /\ link.delay = 0
         /\ ini[n].pc # "sent" /\ ini[n].mpc # "sent"
<1>1. link # NoCall /\ link.callee = <<"initiator", n>> /\ link.status = "called"
  BY DEF Called, ToInitiator, NoCall
<1>2. ~(\E m \in Initiator : RequestCall(m) \/ CloseCall(m))
  <2> HIDE DEF RequestCall, CloseCall
  <2> QED BY <1>1, Reached
<1>3. Owner(link.txn) = n /\ link.phase \in {"END_REQ", "BEGIN_RESP"} /\ link.delay = 0
  <2>1. CASE \E m \in Target : BeginRespCall(m)
    BY <1>1, <2>1, Bindings, AtNumbers DEF BeginRespCall, Open, Accepted, RspEnds, ToInitiator
  <2>2. CASE \E m \in Target : TargetEndReqCall(m)
    BY <1>1, <2>2, Bindings, AtNumbers DEF TargetEndReqCall, Open, Accepted, ToInitiator
  <2>3. CASE ForwardCall \/ EndReqCall
    BY <1>1, <2>3 DEF ForwardCall, EndReqCall, Open, Accepted, ToInitiator
  <2>4. CASE ReplyCall \/ EndRspCall
    BY <1>1, <2>4 DEF ReplyCall, EndRspCall, Open, Accepted, RspEnds, ToInitiator
  <2> HIDE DEF RequestCall, CloseCall, ForwardCall, EndReqCall, ReplyCall, EndRspCall, BeginRespCall,
               TargetEndReqCall, AtCore, NoCall
  <2> QED BY <1>1, <1>2, <2>1, <2>2, <2>3, <2>4, Callers, Zenon
<1>4. ini[n].pc # "sent" /\ ini[n].mpc # "sent"
  <2> HIDE DEF RequestCall, CloseCall, ForwardCall, EndReqCall, ReplyCall, EndRspCall, BeginRespCall,
               TargetEndReqCall, AtCore, NoCall
  <2>1. simc.cur # Ini(n) /\ simc.cur # EndRsp(n)
    BY <1>1, <1>2, Callers DEF Ini, EndRsp, RequestThread, ResponseThread, BeginResponse, EndRequest
  <2> QED BY <1>1, <2>1, Callers
<1>5. link.txn \in Txn /\ link \in LinkShape
  <2> HIDE DEF AtCore, NoCall, LinkShape
  <2> QED BY <1>1, Callers
<1> QED BY <1>1, <1>3, <1>4, <1>5, OwnerFacts

LEMMA BusCalledForward ==
  ASSUME AtCore, NEW n \in Initiator, Called(<<"bus_fw", n>>)
  PROVE  /\ link # NoCall /\ link \in LinkShape /\ link.txn \in Txn /\ Owner(link.txn) = n
         /\ Wiring = "bus" /\ link.delay = 0 /\ link.callee = <<"bus_fw", n>> /\ link.status = "called"
         /\ \/ link.phase = "BEGIN_REQ" /\ Sending(link.txn)
            \/ link.phase = "END_RESP" /\ Closing(link.txn)
<1>1. link # NoCall /\ link.callee = <<"bus_fw", n>> /\ link.status = "called"
  BY DEF Called, NoCall
<1>2. /\ ~ForwardCall /\ ~EndReqCall /\ ~ReplyCall /\ ~EndRspCall
      /\ ~\E m \in Target : BeginRespCall(m) \/ TargetEndReqCall(m)
  <2> HIDE DEF ForwardCall, EndReqCall, ReplyCall, EndRspCall, BeginRespCall, TargetEndReqCall
  <2> QED BY <1>1, Reached
<1>3. PICK m \in Initiator : \/ ini[m].pc = "sent" /\ RequestCall(m)
                             \/ ini[m].mpc = "sent" /\ CloseCall(m)
  <2> HIDE DEF RequestCall, CloseCall, ForwardCall, EndReqCall, ReplyCall, EndRspCall, BeginRespCall,
               TargetEndReqCall, AtCore, NoCall
  <2> QED BY <1>1, <1>2, Callers
<1>4. Wiring = "bus" /\ m = n
  <2>1. link.callee = FromInitiator(m)
    BY <1>3 DEF RequestCall, CloseCall
  <2>2. ~Direct
    BY <1>1, <2>1 DEF FromInitiator
  <2> QED BY <1>1, <2>1, <2>2, Bindings
<1>5. CASE ini[n].pc = "sent" /\ RequestCall(n)
  <2>1. ini[n].txn \in Payloads(n)
    BY <1>5 DEF AtCore, Types, IniOK
  <2>2. link.txn = ini[n].txn /\ link.phase = "BEGIN_REQ" /\ link.delay = 0
    BY <1>1, <1>5 DEF RequestCall, Open, Accepted, ReqEnds, Complete
  <2>3. Owner(link.txn) = n
    BY <2>1, <2>2, OwnerFacts
  <2>4. Sending(link.txn)
    BY <1>5, <2>2, <2>3 DEF Sending
  <2> HIDE DEF AtCore, NoCall, LinkShape, RequestCall
  <2> QED BY <1>1, <1>4, <2>2, <2>3, <2>4, Callers
<1>6. CASE ini[n].mpc = "sent" /\ CloseCall(n)
  <2>1. link.txn \in Payloads(n) /\ link.phase = "END_RESP" /\ link.delay = 0
    BY <1>1, <1>6 DEF CloseCall, Open, Closed
  <2>2. Owner(link.txn) = n
    BY <2>1, OwnerFacts
  <2>3. Closing(link.txn)
    BY <1>6, <2>2 DEF Closing
  <2> HIDE DEF AtCore, NoCall, LinkShape, CloseCall
  <2> QED BY <1>1, <1>4, <2>1, <2>2, <2>3, Callers
<1> QED BY <1>3, <1>4, <1>5, <1>6

LEMMA BusCalledBackward ==
  ASSUME AtCore, NEW m \in Target, Called(<<"bus_bw", m>>)
  PROVE  /\ link # NoCall /\ link \in LinkShape /\ link.txn \in Txn
         /\ Wiring = "bus" /\ link.delay = 0 /\ link.callee = <<"bus_bw", m>> /\ link.status = "called"
         /\ link.phase \in {"END_REQ", "BEGIN_RESP"}
         /\ \A n \in Initiator : ini[n].pc # "sent" /\ ini[n].mpc # "sent"
<1>1. link # NoCall /\ link.callee = <<"bus_bw", m>> /\ link.status = "called"
  BY DEF Called, NoCall
<1>2. /\ ~ForwardCall /\ ~EndReqCall /\ ~ReplyCall /\ ~EndRspCall
      /\ ~\E n \in Initiator : RequestCall(n) \/ CloseCall(n)
  <2> HIDE DEF ForwardCall, EndReqCall, ReplyCall, EndRspCall, RequestCall, CloseCall
  <2> QED BY <1>1, Reached
<1>3. PICK k \in Target : \/ simc.cur = BeginResponse(k) /\ BeginRespCall(k)
                          \/ simc.cur = EndRequest(k) /\ TargetEndReqCall(k)
  <2> HIDE DEF RequestCall, CloseCall, ForwardCall, EndReqCall, ReplyCall, EndRspCall, BeginRespCall,
               TargetEndReqCall, AtCore, NoCall
  <2> QED BY <1>1, <1>2, Callers
<1>4. Wiring = "bus"
  <2>1. link.callee = FromTarget(k)
    BY <1>3 DEF BeginRespCall, TargetEndReqCall
  <2>2. ~Direct
    BY <1>1, <2>1 DEF FromTarget
  <2> QED BY <2>2, Bindings
<1>5. link.phase \in {"END_REQ", "BEGIN_RESP"} /\ link.delay = 0
  BY <1>1, <1>3 DEF BeginRespCall, TargetEndReqCall, Open, Accepted, RspEnds
<1>6. \A n \in Initiator : simc.cur # Ini(n) /\ simc.cur # EndRsp(n)
  BY <1>3 DEF Ini, EndRsp, BeginResponse, EndRequest
<1> HIDE DEF AtCore, NoCall, LinkShape
<1> QED BY <1>1, <1>4, <1>5, <1>6, Callers

LEMMA TargetCalled ==
  ASSUME AtCore, NEW m \in Target, Called(ToTarget(m))
  PROVE  /\ link # NoCall /\ link \in LinkShape /\ link.txn \in Txn
         /\ link.delay = 0 /\ link.callee = ToTarget(m) /\ link.status = "called"
         /\ link.phase \in {"BEGIN_REQ", "END_RESP"}
         /\ ~Direct => \A n \in Initiator : ini[n].pc # "sent" /\ ini[n].mpc # "sent"
<1>1. link # NoCall /\ link.callee = <<"target", m>> /\ link.status = "called"
  BY DEF Called, NoCall, ToTarget
<1>2. ~EndReqCall /\ ~ReplyCall /\ ~\E k \in Target : BeginRespCall(k) \/ TargetEndReqCall(k)
  <2> HIDE DEF EndReqCall, ReplyCall, BeginRespCall, TargetEndReqCall
  <2> QED BY <1>1, Reached
<1>3. \/ \E n \in Initiator : RequestCall(n) \/ CloseCall(n)
      \/ simc.cur = RequestThread /\ ForwardCall
      \/ simc.cur = ResponseThread /\ EndRspCall
  <2> HIDE DEF RequestCall, CloseCall, ForwardCall, EndReqCall, ReplyCall, EndRspCall, BeginRespCall,
               TargetEndReqCall, AtCore, NoCall
  <2> QED BY <1>1, <1>2, Callers, Zenon
<1>4. link.phase \in {"BEGIN_REQ", "END_RESP"} /\ link.delay = 0
  BY <1>1, <1>3 DEF RequestCall, CloseCall, ForwardCall, EndRspCall, Open, Accepted, Closed, ReqEnds, Complete
<1>5. ASSUME ~Direct, NEW n \in Initiator PROVE simc.cur # Ini(n) /\ simc.cur # EndRsp(n)
  <2>1. ~\E k \in Initiator : RequestCall(k) \/ CloseCall(k)
    BY <1>1, <1>5 DEF RequestCall, CloseCall, FromInitiator
  <2> QED BY <1>3, <2>1 DEF Ini, EndRsp, RequestThread, ResponseThread
<1> HIDE DEF AtCore, NoCall, LinkShape
<1> QED BY <1>1, <1>4, <1>5, Callers DEF ToTarget

-----------------------------------------------------------------------------
(* Steps about a payload that its initiator keeps in hand *)

\* The parts of the state a step leaves alone keep their shapes.
LEMMA TypesKept ==
  ASSUME Types
  PROVE  /\ gp' = gp => GpOK'
         /\ ini' = ini => IniOK'
         /\ bus' = bus => BusOK'
         /\ tgt' = tgt => TgtOK'
         /\ peq' = peq => PeqOK'
         /\ tg' = tg /\ pool' = pool /\ fifo' = fifo => Shapes'
BY DEF Types, GpOK, IniOK, BusOK, TgtOK, PeqOK, Shapes

\* A payload in hand is held, and is neither in its pool nor in a fifo.
LEMMA InHandFacts ==
  ASSUME AtCore, NEW t \in Txn, InHand(t)
  PROVE  /\ PayloadInv(t) /\ Held(t) = 1 /\ t \in Away(Owner(t)) /\ t \in HeldBy(Owner(t))
         /\ ~Outgoing(t) /\ ~Incoming(t) /\ ~Pooled(t) /\ gp[t].rc # 0
         /\ gp[t].cmd \in {"read", "write"} /\ gp[t].addr \in Addresses
         /\ Asked(t) \/ CarriedOut(t)
<1>1. PICK n \in Initiator : n = Owner(t) /\ t \in Payloads(n)
  BY OwnerFacts
<1>2. PICK a, h : a = Away(n) /\ h = HeldBy(n)
  OBVIOUS
<1>3. Accounted(n, a, h) /\ PayloadInv(t)
  BY <1>2 DEF AtCore
<1>4. t \in a
  <2> HIDE DEF InHand
  <2> QED BY <1>1, <1>2 DEF Away
<1>5. t \in h /\ t \notin Putting(n) /\ t \notin Requested(n) /\ t \notin Responded(n) /\ t \notin Range(pool[n])
  BY <1>3, <1>4 DEF Accounted
<1>6. Held(t) = 1
  <2> HIDE DEF Held
  <2> QED BY <1>2, <1>5 DEF HeldBy
<1>7. ~Outgoing(t) /\ ~Incoming(t) /\ ~Pooled(t)
  BY <1>1, <1>5 DEF Outgoing, Incoming, Pooled
<1>8. gp[t].rc # 0 /\ gp[t].cmd \in {"read", "write"} /\ gp[t].addr \in Addresses /\ (Asked(t) \/ CarriedOut(t))
  <2> HIDE DEF Held, Pooled, Asked, CarriedOut, Outgoing, Incoming
  <2> QED BY <1>3, <1>6, <1>7 DEF PayloadInv, Contents
<1> HIDE DEF PayloadInv, Held, Away, HeldBy, Outgoing, Incoming, Pooled, Asked, CarriedOut
<1> QED BY <1>1, <1>2, <1>3, <1>4, <1>5, <1>6, <1>7, <1>8

\* What is to be shown of a step that leaves payload t in the hands of its
\* initiator and concerns no other.
LEMMA StaysInHand ==
  ASSUME AtCore, Types', Calls', \A q \in Peq : Once(peq'[q]), NEW t \in Txn,
         link = NoCall \/ link.txn = t, link' = NoCall \/ link'.txn = t,
         UNCHANGED <<tg, pool, fifo>>, InHand(t), InHand(t)',
         Held(t)' = 1, gp'[t].rc # 0, gp'[t].cmd = gp[t].cmd, gp'[t].addr = gp[t].addr,
         Asked(t)' \/ CarriedOut(t)', Returning(t)' \/ Closing(t)' => CarriedOut(t)',
         OneHand(t)', InTransit(t)', InQueues(t)', Tracking(t)',
         \A tx \in Txn : tx # t =>
            /\ gp'[tx] = gp[tx]
            /\ Returning(tx)' <=> Returning(tx)
            /\ ini'[Owner(tx)].map[tx] = ini[Owner(tx)].map[tx]
            /\ bus'.pending[tx].known = bus.pending[tx].known
            /\ bus'.pending[tx].from = bus.pending[tx].from
            /\ Responding(tx)' <=> Responding(tx)
            /\ \A q \in Peq : (tx \in Queued(q))' <=> tx \in Queued(q)
  PROVE  AtCore'
<1>1. /\ PayloadInv(t) /\ Held(t) = 1 /\ t \in Away(Owner(t)) /\ t \in HeldBy(Owner(t))
      /\ ~Outgoing(t) /\ ~Incoming(t) /\ ~Pooled(t)
      /\ gp[t].cmd \in {"read", "write"} /\ gp[t].addr \in Addresses
  <2> HIDE DEF PayloadInv, Held, Away, HeldBy, Outgoing, Incoming, Pooled, Asked, CarriedOut, AtCore, InHand
  <2> QED BY InHandFacts
<1>2. ~Outgoing(t)' /\ ~Incoming(t)' /\ ~Pooled(t)'
  <2> HIDE DEF Outgoing, Incoming, Pooled
  <2> QED BY <1>1, GeneratorSame
<1>3. Contents(t)'
  <2> HIDE DEF Held, Known, Pooled, Incoming, Returning, Closing, Asked, CarriedOut, Port, Outgoing
  <2> QED BY <1>1, <1>2, Zenon DEF Contents
<1>4. PayloadInv(t)'
  <2> HIDE DEF OneHand, Contents, InTransit, InQueues, Tracking
  <2> QED BY <1>3 DEF PayloadInv
<1>5. ASSUME NEW tx \in Txn, tx # t PROVE Apart(tx)
  <2> HIDE DEF Pooled, Outgoing, Incoming, Returning, Queued, Responding, Peq
  <2> QED BY <1>5, GeneratorSame, Zenon DEF Apart
<1>6. PICK n \in Initiator : n = Owner(t)
  BY OwnerFacts
<1>7. PICK a, h : a = Away(n) /\ h = HeldBy(n)
  OBVIOUS
<1>8. \A m \in Initiator : \A b, g : Accounted(m, b, g) => Accounted(m, b, g)'
  BY AccountedFrame
<1>9. Accounted(Owner(t), a, h)'
  BY <1>6, <1>7, <1>8 DEF AtCore
<1>10. /\ a = IF InHand(t)' THEN Away(Owner(t)) \union {t} ELSE Away(Owner(t)) \ {t}
       /\ h = IF Held(t)' = 1 THEN HeldBy(Owner(t)) \union {t} ELSE HeldBy(Owner(t)) \ {t}
  <2> HIDE DEF Away, HeldBy, InHand, Held
  <2> QED BY <1>1, <1>6, <1>7
<1> HIDE DEF InHand, Held, Calls, Types, PayloadInv, Apart, Peq, Once, Away, HeldBy, NoCall
<1> QED BY <1>4, <1>5, <1>8, <1>9, <1>10, OneMoves

\* The places of the payloads in the queues.
LEMMA QueueFacts ==
  ASSUME NEW tx \in Txn, PayloadInv(tx)
  PROVE  /\ \A q \in Peq : tx \in Queued(q) => Fits(q, tx) /\ \A r \in Peq : tx \in Queued(r) <=> r = q
         /\ Asks(tx) \/ Reports(tx) \/ Responds(tx) => \A q \in Peq : tx \notin Queued(q)
         /\ Returning(tx) \/ Closing(tx) => \A q \in Peq : tx \notin Queued(q)
         /\ Ending(tx) => \A q \in Peq : tx \in Queued(q) <=> q = EndRspPeq(Owner(tx))
<1> HIDE DEF Peq
<1>1. \A q \in Peq : tx \in Queued(q) => Fits(q, tx) /\ \A r \in Peq : tx \in Queued(r) <=> r = q
  <2> HIDE DEF Fits, Queued, Asks, Reports, Responds
  <2> QED BY Zenon DEF PayloadInv, InQueues
<1>2. Asks(tx) \/ Reports(tx) \/ Responds(tx) => \A q \in Peq : tx \notin Queued(q)
  <2> HIDE DEF Fits, Queued, Asks, Reports, Responds
  <2> QED BY Zenon DEF PayloadInv, InQueues
<1>3. ASSUME Returning(tx) \/ Closing(tx), NEW q \in Peq, tx \in Queued(q) PROVE FALSE
  <2>1. ~Heard(tx) /\ ~Ending(tx) /\ ~Sending(tx)
    <3>1. ~(Returning(tx) /\ Sending(tx))
      BY DEF Returning, Sending
    <3> HIDE DEF Heard, Ending, Sending, Returning, Closing
    <3> QED BY <1>3, <3>1 DEF PayloadInv, OneHand
  <2>2. ~Waiting(tx)
    BY <2>1 DEF Waiting
  <2>3. Fits(q, tx)
    BY <1>1, <1>3
  <2>4. q \in {"send_end_rsp_PEQ"} \X Initiator
    <3> HIDE DEF Waiting, Asked, CarriedOut, Port, Where
    <3> QED BY <2>2, <2>3, PeqNames DEF Fits
  <2>5. q = EndRspPeq(Owner(tx))
    BY <2>3, <2>4 DEF Fits, EndRspPeq
  <2> QED BY <1>3, <2>1, <2>5 DEF Ending
<1>4. Ending(tx) => \A q \in Peq : tx \in Queued(q) <=> q = EndRspPeq(Owner(tx))
  <2>1. EndRspPeq(Owner(tx)) \in Peq
    BY OwnerFacts, AtNames
  <2> HIDE DEF Queued, Fits
  <2> QED BY <1>1, <2>1 DEF Ending
<1> HIDE DEF Queued, Fits, Asks, Reports, Responds, Returning, Closing, Ending
<1> QED BY <1>1, <1>2, <1>3, <1>4

\* One initiator moves, and of its payloads only t.
LEMMA InitiatorMoves ==
  ASSUME NEW t \in Txn, NEW n \in Initiator, n = Owner(t), NEW r,
         ini'[n] = r, \A m \in Initiator : m # n => ini'[m] = ini[m],
         \A tx \in Payloads(n) : tx # t => /\ r.map[tx] = ini[n].map[tx]
                                           /\ r.pc = "respond" /\ r.txn = tx <=> ini[n].pc = "respond" /\ ini[n].txn = tx
  PROVE  \A tx \in Txn : tx # t => /\ Returning(tx)' <=> Returning(tx)
                                   /\ ini'[Owner(tx)].map[tx] = ini[Owner(tx)].map[tx]
<1>2. ASSUME NEW tx \in Txn, tx # t
      PROVE  /\ Returning(tx)' <=> Returning(tx)
             /\ ini'[Owner(tx)].map[tx] = ini[Owner(tx)].map[tx]
  <2>1. PICK m \in Initiator : m = Owner(tx) /\ tx \in Payloads(m)
    BY OwnerFacts
  <2>2. CASE m = n
    <3>1. r.map[tx] = ini[n].map[tx] /\ (r.pc = "respond" /\ r.txn = tx <=> ini[n].pc = "respond" /\ ini[n].txn = tx)
      BY <1>2, <2>1, <2>2
    <3>2. ini'[Owner(tx)] = r /\ ini[Owner(tx)] = ini[n]
      BY <2>1, <2>2
    <3> QED BY <3>1, <3>2 DEF Returning
  <2>3. CASE m # n
    BY <2>1, <2>3 DEF Returning
  <2> QED BY <2>2, <2>3
<1> QED BY <1>2

\* The payload of a call stays where it is while the call is answered or ends.
LEMMA LinkOnly ==
  ASSUME NEW t \in Txn, Unmoved(t), PayloadInv(t), Wiring = "bus" => ~Sending(t), ~Telling(t), ~Telling(t)',
         ~Asks(t)', ~Reports(t)', ~Responds(t)', EndsReq(t)' => Waiting(t)
  PROVE  PayloadInv(t)'
<1>1. OneHand(t)' /\ Contents(t)'
  BY UnmovedInv
<1>2. InTransit(t)'
  <2> HIDE DEF Asks, Reports, Responds, EndsReq, Waiting
  <2> QED BY UnmovedParts, Zenon DEF InTransit
<1>3. InQueues(t)'
  <2>1. \A q \in Peq : t \in Queued(q)' => Fits(q, t)' /\ \A r \in Peq : t \in Queued(r)' => q = r
    BY UnmovedInv
  <2> HIDE DEF Asks, Reports, Responds, Queued, Fits, Peq
  <2> QED BY <2>1 DEF InQueues
<1>4. Tracking(t)'
  <2> HIDE DEF Telling, Responding, Sending, Heard, Tracked, Known, About
  <2> QED BY UnmovedParts, Zenon DEF Unmoved, PayloadInv, Tracking
<1> HIDE DEF OneHand, Contents, InTransit, InQueues, Tracking
<1> QED BY <1>1, <1>2, <1>3, <1>4 DEF PayloadInv

\* The payload of a call stays where it is, and so do the others.
LEMMA LinkMoves ==
  ASSUME AtCore, Types', Calls', UNCHANGED <<peq, gp, pool, fifo, tg>>, NEW t \in Txn,
         link = NoCall \/ link.txn = t, link' = NoCall \/ link'.txn = t,
         Sending(t)' <=> Sending(t), Closing(t)' <=> Closing(t),
         \A tx \in Txn : /\ Returning(tx)' <=> Returning(tx)
                         /\ ini'[Owner(tx)].map[tx] = ini[Owner(tx)].map[tx]
                         /\ bus'.pending[tx].known = bus.pending[tx].known
                         /\ bus'.pending[tx].from = bus.pending[tx].from
                         /\ Responding(tx)' <=> Responding(tx),
         Wiring = "bus" => ~Sending(t), ~Telling(t), ~Telling(t)',
         ~Asks(t)', ~Reports(t)', ~Responds(t)', EndsReq(t)' => Waiting(t)
  PROVE  AtCore'
<1>1. ASSUME NEW tx \in Txn, Sending(tx)' <=> Sending(tx), Closing(tx)' <=> Closing(tx) PROVE Unmoved(tx)
  <2> HIDE DEF Pooled, Outgoing, Incoming, Sending, Returning, Closing, Queued, Responding, Peq
  <2> QED BY <1>1, GeneratorSame, PeqSame, Zenon DEF Unmoved
<1>2. Unmoved(t)
  <2> HIDE DEF Unmoved, Sending, Closing
  <2> QED BY <1>1
<1>3. PayloadInv(t)'
  <2>1. PayloadInv(t)
    BY DEF AtCore
  <2> HIDE DEF Unmoved, PayloadInv, Sending, Telling, Asks, Reports, Responds, EndsReq, Waiting
  <2> QED BY <1>2, <2>1, LinkOnly
<1>4. ASSUME NEW tx \in Txn, tx # t PROVE Untouched(tx)
  <2>1. ~About(tx) /\ ~About(tx)'
    BY <1>4 DEF About
  <2>2. ~Sending(tx) /\ ~Sending(tx)' /\ ~Closing(tx) /\ ~Closing(tx)'
    <3> HIDE DEF Sending, Closing, About, Calls
    <3> QED BY <2>1, InTheCall, Zenon DEF AtCore
  <2>3. Unmoved(tx)
    <3> HIDE DEF Sending, Closing, Unmoved
    <3> QED BY <1>1, <2>2
  <2> HIDE DEF About, Unmoved
  <2> QED BY <2>1, <2>3, Zenon DEF Untouched
<1>5. \A tx \in Txn : PayloadInv(tx)'
  BY <1>3, <1>4, UntouchedInv, Zenon DEF AtCore
<1>6. \A tx \in Txn : (InHand(tx)' <=> InHand(tx)) /\ Held(tx)' = Held(tx)
  BY <1>2, <1>4, UnmovedParts, Zenon DEF Untouched
<1>7. \A n \in Initiator : Accounted(n, Away(n), HeldBy(n))'
  BY <1>6, AccountedSame, Zenon DEF AtCore
<1>8. \A q \in Peq : Once(peq'[q])
  BY DEF AtCore
<1> QED BY <1>5, <1>7, <1>8 DEF AtCore

\* What an answered call says of its payload.
LEMMA AnswerFacts ==
  /\ link.status # "called" => \A tx : ~Asks(tx) /\ ~Responds(tx) /\ ~EndsReq(tx) /\ ~Telling(tx)
  /\ link'.status # "called" => \A tx : ~Asks(tx)' /\ ~Responds(tx)' /\ ~EndsReq(tx)' /\ ~Telling(tx)'
  /\ link'.phase # "BEGIN_REQ" \/ link'.status # "COMPLETED" => \A tx : ~Reports(tx)'
  /\ link.phase # "BEGIN_RESP" => \A tx : ~Telling(tx)
BY DEF Asks, Responds, EndsReq, Telling, Reports

\* Which call each caller is in.
LEMMA CallerFacts ==
  ASSUME AtCore
  PROVE  /\ \A n \in Initiator : ini[n].pc = "sent" => link # NoCall /\ simc.cur = Ini(n) /\ RequestCall(n)
         /\ \A n \in Initiator : ini[n].mpc = "sent" => link # NoCall /\ simc.cur = EndRsp(n) /\ CloseCall(n)
         /\ \A m \in Target :
              tgt[m].rpc = "sent" => link # NoCall /\ simc.cur = BeginResponse(m) /\ BeginRespCall(m)
         /\ \A m \in Target :
              tgt[m].epc = "sent" => link # NoCall /\ simc.cur = EndRequest(m) /\ TargetEndReqCall(m)
         /\ simc.cur = RequestThread /\ bus.req.pc = "sent" => link # NoCall /\ ForwardCall
         /\ simc.cur = RequestThread /\ bus.req.pc = "told" => link # NoCall /\ EndReqCall
         /\ simc.cur = ResponseThread /\ bus.rsp.pc = "sent" => link # NoCall /\ ReplyCall
         /\ simc.cur = ResponseThread /\ bus.rsp.pc = "told" => link # NoCall /\ EndRspCall
<1>1. \A p \in Process : Calling(p) => link # NoCall /\ simc.cur = p /\ CallOf(p)
  BY DEF AtCore, Calls
<1>2. simc.cur \in {RequestThread, ResponseThread} => simc.cur \in Process
  <2>1. RequestThread # Nobody /\ ResponseThread # Nobody
    BY DEF RequestThread, ResponseThread, Nobody
  <2> QED BY <2>1, Runs
<1>3. ForwardCall => bus.req.pc = "sent"
  BY DEF ForwardCall
<1>4. EndReqCall => bus.req.pc = "told"
  BY DEF EndReqCall
<1>5. ReplyCall => bus.rsp.pc = "sent"
  BY DEF ReplyCall
<1>6. EndRspCall => bus.rsp.pc = "told"
  BY DEF EndRspCall
<1> HIDE DEF Calling, CallOf, Process, NoCall, RequestCall, CloseCall, ForwardCall, EndReqCall, ReplyCall,
             EndRspCall, BeginRespCall, TargetEndReqCall, AtCore
<1>7. \A n \in Initiator :
        /\ ini[n].pc = "sent" => link # NoCall /\ simc.cur = Ini(n) /\ RequestCall(n)
        /\ ini[n].mpc = "sent" => link # NoCall /\ simc.cur = EndRsp(n) /\ CloseCall(n)
  BY <1>1, CallingNames, AtNames
<1>8. \A m \in Target :
        /\ tgt[m].rpc = "sent" => link # NoCall /\ simc.cur = BeginResponse(m) /\ BeginRespCall(m)
        /\ tgt[m].epc = "sent" => link # NoCall /\ simc.cur = EndRequest(m) /\ TargetEndReqCall(m)
  BY <1>1, CallingNames, AtNames
<1>9. simc.cur = RequestThread /\ bus.req.pc \in {"sent", "told"} => link # NoCall /\ (ForwardCall \/ EndReqCall)
  BY <1>1, <1>2, CallingNames
<1>10. simc.cur = ResponseThread /\ bus.rsp.pc \in {"sent", "told"} => link # NoCall /\ (ReplyCall \/ EndRspCall)
  BY <1>1, <1>2, CallingNames
<1> QED BY <1>3, <1>4, <1>5, <1>6, <1>7, <1>8, <1>9, <1>10

-----------------------------------------------------------------------------
(* Steps that only answer a call, or return from one *)

\* A callee answers END_RESP or END_REQ, and wakes somebody.
LEMMA AnswersCore ==
  ASSUME AtCore,
         \/ UNCHANGED <<tg, ini, tgt>> /\ \E n \in Initiator : BusEndResp(n)
         \/ UNCHANGED <<tg, ini, tgt>> /\ \E m \in Target : targetNBTransport(m) /\ link.phase # "BEGIN_RESP"
         \/ UNCHANGED <<tg, ini, bus>> /\ \E m \in Target : EndResp(m)
  PROVE  AtCore'
<1>1. /\ Calls /\ Types /\ KernelInv(LongestDelay, simc) /\ fatal \in BOOLEAN
      /\ UNCHANGED <<tg, ini, bus, peq, gp, pool, fifo, tgt>>
  BY DEF AtCore, Types, BusEndResp, targetNBTransport, EndResp
<1>2. GpOK' /\ IniOK' /\ BusOK' /\ TgtOK' /\ PeqOK' /\ Shapes'
  <2> HIDE DEF Types, GpOK, IniOK, BusOK, TgtOK, PeqOK, Shapes
  <2> QED BY <1>1, TypesKept
<1>3. 0 \in 0..LongestDelay
  BY AtNumbers
<1> HIDE DEF KernelInv, Event
<1>4. SamePcs
  BY <1>1 DEF SamePcs
<1>5. ASSUME link # NoCall, link.txn \in Txn, link.status = "called", simc'.cur = simc.cur, link.delay = 0,
             KernelInv(LongestDelay, simc'), fatal' \in BOOLEAN, link.phase # "BEGIN_RESP",
             NEW status, link' = Answer(status, link.phase, link.delay),
             Valid(status, link.phase, link.delay), Wiring = "bus" => ~Sending(link.txn),
             status = "COMPLETED" => link.phase = "END_RESP"
      PROVE  AtCore'
  <2> HIDE DEF Calls, Types, NoCall, Valid, SamePcs, AtCore
  <2>1. /\ Calls' /\ link'.status # "called" /\ link' # NoCall /\ link'.txn = link.txn
        /\ link'.status = status /\ link'.phase = link.phase
    <3> DEFINE phase == link.phase
               delay == link.delay
    <3>1. delay \in 0..LongestDelay /\ link' = Answer(status, phase, delay) /\ Valid(status, phase, delay)
      BY <1>3, <1>5
    <3> HIDE DEF phase, delay
    <3>2. /\ Calls' /\ link'.status # "called" /\ link' # NoCall /\ link'.txn = link.txn
          /\ link'.status = status /\ link'.phase = phase
      BY <1>1, <1>4, <1>5, <3>1, CallsAnswered
    <3> QED BY <3>2 DEF phase
  <2>2. Types'
    BY <1>2, <1>5 DEF Types
  <2>3. PICK t \in Txn : t = link.txn
    BY <1>5
  <2>4. ~Asks(t)' /\ ~Responds(t)' /\ ~EndsReq(t)' /\ ~Telling(t)' /\ ~Reports(t)' /\ ~Telling(t)
    BY <1>5, <2>1, AnswerFacts
  <2>5. Closing(t)' <=> Closing(t)
    BY <1>1, <2>1 DEF Closing
  <2>6. \A tx \in Txn : /\ Returning(tx)' <=> Returning(tx)
                        /\ ini'[Owner(tx)].map[tx] = ini[Owner(tx)].map[tx]
                        /\ bus'.pending[tx].known = bus.pending[tx].known
                        /\ bus'.pending[tx].from = bus.pending[tx].from
                        /\ Responding(tx)' <=> Responding(tx)
                        /\ Sending(tx)' <=> Sending(tx)
    <3> HIDE DEF Returning, Responding, Sending
    <3> QED BY <1>1, InitiatorSame, BusSame
  <2> HIDE DEF Sending, Closing, Returning, Responding, Telling, Asks, Reports, Responds, EndsReq
  <2> QED BY <1>1, <1>5, <2>1, <2>2, <2>3, <2>4, <2>5, <2>6, LinkMoves
<1>6. ASSUME NEW n \in Initiator, BusEndResp(n) PROVE AtCore'
  <2>1. Called(<<"bus_fw", n>>) /\ link.phase = "END_RESP" /\ fatal' = fatal
    BY <1>6 DEF BusEndResp
  <2>2. /\ link # NoCall /\ link.txn \in Txn /\ Wiring = "bus" /\ link.delay = 0 /\ link.status = "called"
        /\ Closing(link.txn)
    <3> HIDE DEF AtCore, NoCall, Closing
    <3> QED BY <2>1, BusCalledForward
  <2>3. ~Sending(link.txn)
    <3>1. PayloadInv(link.txn)
      BY <2>2 DEF AtCore
    <3> HIDE DEF Closing, Sending
    <3> QED BY <2>2, <3>1 DEF PayloadInv, OneHand
  <2>4. mEndResponseEvent \in Event
    BY <2>2, AtNames
  <2>5. simc' = Notify(simc, mEndResponseEvent, 0)
    BY <1>6, <2>2 DEF BusEndResp
  <2>6. KernelInv(LongestDelay, simc') /\ simc'.cur = simc.cur
    BY <1>1, <1>3, <2>4, <2>5, AtKernel
  <2>7. link' = Answer("COMPLETED", link.phase, link.delay)
    BY <1>6 DEF BusEndResp
  <2>8. Valid("COMPLETED", link.phase, link.delay)
    BY <2>1 DEF Valid
  <2> HIDE DEF AtCore, NoCall, Valid, Sending
  <2> QED BY <1>1, <1>5, <2>1, <2>2, <2>3, <2>6, <2>7, <2>8
<1>7. ASSUME NEW m \in Target, targetNBTransport(m), link.phase # "BEGIN_RESP" PROVE AtCore'
  <2>1. Called(<<"bus_bw", m>>) /\ fatal' \in BOOLEAN
    BY <1>7 DEF targetNBTransport
  <2>2. /\ link # NoCall /\ link.txn \in Txn /\ Wiring = "bus" /\ link.delay = 0 /\ link.status = "called"
        /\ link.phase = "END_REQ"
        /\ \A n \in Initiator : ini[n].pc # "sent" /\ ini[n].mpc # "sent"
    <3> HIDE DEF AtCore, NoCall
    <3> QED BY <1>7, <2>1, BusCalledBackward
  <2>3. ~Sending(link.txn)
    BY <2>2, OwnerFacts DEF Sending
  <2>4. mEndRequestEvent \in Event
    BY <2>2, AtNames
  <2>5. simc' = Notify(simc, mEndRequestEvent, 0)
    BY <1>7, <2>2 DEF targetNBTransport
  <2>6. KernelInv(LongestDelay, simc') /\ simc'.cur = simc.cur
    BY <1>1, <1>3, <2>4, <2>5, AtKernel
  <2>7. link' = Answer("ACCEPTED", link.phase, link.delay)
    BY <1>7 DEF targetNBTransport
  <2>8. Valid("ACCEPTED", link.phase, link.delay)
    BY <2>2 DEF Valid
  <2> HIDE DEF AtCore, NoCall, Valid, Sending
  <2> QED BY <1>1, <1>5, <1>7, <2>1, <2>2, <2>3, <2>6, <2>7, <2>8
<1>8. ASSUME NEW m \in Target, EndResp(m) PROVE AtCore'
  <2>1. Called(ToTarget(m)) /\ link.phase = "END_RESP" /\ fatal' = fatal
    BY <1>8 DEF EndResp
  <2>2. /\ link # NoCall /\ link.txn \in Txn /\ link.delay = 0 /\ link.status = "called"
        /\ ~Direct => \A n \in Initiator : ini[n].pc # "sent" /\ ini[n].mpc # "sent"
    <3> HIDE DEF AtCore, NoCall
    <3> QED BY <2>1, TargetCalled
  <2>3. Wiring = "bus" => ~Sending(link.txn)
    BY <2>2, OwnerFacts, Bindings DEF Sending
  <2>4. EndRespRcvd(m) \in Event
    BY AtNames
  <2>5. simc' = Notify(simc, EndRespRcvd(m), 0)
    BY <1>8, <2>2 DEF EndResp
  <2>6. KernelInv(LongestDelay, simc') /\ simc'.cur = simc.cur
    BY <1>1, <1>3, <2>4, <2>5, AtKernel
  <2>7. link' = Answer("COMPLETED", link.phase, link.delay)
    BY <1>8 DEF EndResp
  <2>8. Valid("COMPLETED", link.phase, link.delay)
    BY <2>1 DEF Valid
  <2> HIDE DEF AtCore, NoCall, Valid, Sending
  <2> QED BY <1>1, <1>5, <2>1, <2>2, <2>3, <2>6, <2>7, <2>8
<1> QED BY <1>6, <1>7, <1>8

\* A caller that is no initiator returns from a call that leaves the payload where
\* it is.
LEMMA ReturnCore ==
  ASSUME AtCore, UNCHANGED <<peq, gp, pool, fifo, tg, ini>>, link # NoCall, link.status # "called", link' = NoCall,
         KernelInv(LongestDelay, simc'), fatal' \in BOOLEAN, BusOK', TgtOK',
         NEW p \in Process, simc.cur = p, \A n \in Initiator : p # Ini(n) /\ p # EndRsp(n),
         ~Calling(p)', \A q \in Process : q # p => (Calling(q)' <=> Calling(q)),
         bus'.pending = bus.pending, bus'.rsp.txn = bus.rsp.txn, bus'.rsp.pc \in Busy <=> bus.rsp.pc \in Busy
  PROVE  AtCore'
<1>1. Calls /\ Types /\ link.txn \in Txn /\ \A n \in Initiator : ini[n].pc # "sent" /\ ini[n].mpc # "sent"
  <2>1. Calls /\ Types
    BY DEF AtCore
  <2> HIDE DEF AtCore, NoCall
  <2> QED BY <2>1, Callers
<1>2. Calls'
  <2> HIDE DEF Calls, Calling, Process, NoCall
  <2> QED BY <1>1, CallsReturned
<1>3. Types'
  <2>1. GpOK' /\ IniOK' /\ PeqOK' /\ Shapes'
    <3> HIDE DEF Types, GpOK, IniOK, BusOK, TgtOK, PeqOK, Shapes
    <3> QED BY <1>1, TypesKept
  <2> QED BY <2>1 DEF Types
<1>4. PICK t \in Txn : t = link.txn
  BY <1>1
<1>5. ~Telling(t) /\ ~Asks(t)' /\ ~Reports(t)' /\ ~Responds(t)' /\ ~EndsReq(t)' /\ ~Telling(t)'
  <2> HIDE DEF Telling, Asks, Reports, Responds, EndsReq
  <2> QED BY AnswerFacts, CallOver
<1>6. ~Sending(t) /\ ~Sending(t)' /\ ~Closing(t) /\ ~Closing(t)'
  BY <1>1, OwnerFacts DEF Sending, Closing
<1>7. \A tx \in Txn : /\ Returning(tx)' <=> Returning(tx)
                      /\ ini'[Owner(tx)].map[tx] = ini[Owner(tx)].map[tx]
                      /\ bus'.pending[tx].known = bus.pending[tx].known
                      /\ bus'.pending[tx].from = bus.pending[tx].from
                      /\ Responding(tx)' <=> Responding(tx)
  <2>1. \A tx \in Txn : Responding(tx)' <=> Responding(tx)
    BY Zenon DEF Responding
  <2> HIDE DEF Returning, Responding
  <2> QED BY <2>1, InitiatorSame
<1> HIDE DEF Sending, Closing, Returning, Responding, Telling, Asks, Reports, Responds, EndsReq, Calls, Types, AtCore,
             Calling, Process, KernelInv, NoCall
<1> QED BY <1>2, <1>3, <1>4, <1>5, <1>6, <1>7, LinkMoves

\* A thread of the bus goes on.
LEMMA BusThreadMoves ==
  ASSUME BusOK, NEW x \in {"start", "next"} \union Busy
  PROVE  /\ bus' = [bus EXCEPT !.req.pc = x] /\ (x \in Busy => bus.req.pc \in Busy) =>
              BusOK' /\ bus'.req.pc = x /\ bus'.req.txn = bus.req.txn /\ bus'.rsp = bus.rsp /\ bus'.pending = bus.pending
         /\ bus' = [bus EXCEPT !.rsp.pc = x] /\ (x \in Busy => bus.rsp.pc \in Busy) =>
              BusOK' /\ bus'.rsp.pc = x /\ bus'.rsp.txn = bus.rsp.txn /\ bus'.req = bus.req /\ bus'.pending = bus.pending
<1>1. PICK p \in [Txn -> PendingShape], r \in BusThreadShape, s \in BusThreadShape :
        /\ bus = [pending |-> p, req |-> r, rsp |-> s]
        /\ p = bus.pending /\ r = bus.req /\ s = bus.rsp
        /\ (r.pc \in Busy => r.txn \in Txn) /\ (s.pc \in Busy => s.txn \in Txn)
  <2>1. bus \in BusShape
    BY DEF BusOK
  <2>2. /\ bus.pending \in [Txn -> PendingShape] /\ bus.req \in BusThreadShape /\ bus.rsp \in BusThreadShape
        /\ bus = [pending |-> bus.pending, req |-> bus.req, rsp |-> bus.rsp]
    <3> HIDE DEF BusThreadShape, PendingShape
    <3> QED BY <2>1, Zenon DEF BusShape
  <2> HIDE DEF BusThreadShape, PendingShape
  <2> QED BY <2>2, Zenon DEF BusOK
<1>2. ASSUME NEW y \in BusThreadShape
      PROVE  /\ [y EXCEPT !.pc = x] \in BusThreadShape /\ [y EXCEPT !.pc = x].pc = x
             /\ [y EXCEPT !.pc = x].txn = y.txn
  BY DEF BusThreadShape
<1>3. ASSUME bus' = [bus EXCEPT !.req.pc = x], x \in Busy => bus.req.pc \in Busy
      PROVE  BusOK' /\ bus'.req.pc = x /\ bus'.req.txn = bus.req.txn /\ bus'.rsp = bus.rsp /\ bus'.pending = bus.pending
  <2>1. PICK y : y = [r EXCEPT !.pc = x]
    OBVIOUS
  <2>2. y \in BusThreadShape /\ y.pc = x /\ y.txn = r.txn
    <3> HIDE DEF BusThreadShape
    <3> QED BY <1>2, <2>1, Zenon
  <2> HIDE DEF BusThreadShape, PendingShape
  <2>3. bus' = [pending |-> p, req |-> y, rsp |-> s]
    BY <1>1, <1>3, <2>1
  <2>4. bus'.req = y /\ bus'.rsp = s /\ bus'.pending = p /\ bus' \in BusShape
    BY <1>1, <2>2, <2>3 DEF BusShape
  <2> QED BY <1>1, <1>3, <2>2, <2>4 DEF BusOK
<1>4. ASSUME bus' = [bus EXCEPT !.rsp.pc = x], x \in Busy => bus.rsp.pc \in Busy
      PROVE  BusOK' /\ bus'.rsp.pc = x /\ bus'.rsp.txn = bus.rsp.txn /\ bus'.req = bus.req /\ bus'.pending = bus.pending
  <2>1. PICK y : y = [s EXCEPT !.pc = x]
    OBVIOUS
  <2>2. y \in BusThreadShape /\ y.pc = x /\ y.txn = s.txn
    <3> HIDE DEF BusThreadShape
    <3> QED BY <1>2, <2>1, Zenon
  <2> HIDE DEF BusThreadShape, PendingShape
  <2>3. bus' = [pending |-> p, req |-> r, rsp |-> y]
    BY <1>1, <1>4, <2>1
  <2>4. bus'.req = r /\ bus'.rsp = y /\ bus'.pending = p /\ bus' \in BusShape
    BY <1>1, <2>2, <2>3 DEF BusShape
  <2> QED BY <1>1, <1>4, <2>2, <2>4 DEF BusOK
<1> QED BY <1>3, <1>4

\* The bus's threads return from their calls.
LEMMA BusReturns ==
  ASSUME AtCore, UNCHANGED <<tg, ini, tgt>>, RequestOngoing \/ EndReqPassed \/ ResponseAnswered
  PROVE  AtCore'
<1>1. Calls /\ Types /\ KernelInv(LongestDelay, simc) /\ fatal \in BOOLEAN /\ BusOK /\ TgtOK
  BY DEF AtCore, Types
<1>2. TgtOK' /\ ini' = ini /\ tgt' = tgt /\ tg' = tg
  BY <1>1 DEF TgtOK
<1>3. \A n \in Initiator : /\ RequestThread # Ini(n) /\ RequestThread # EndRsp(n)
                           /\ ResponseThread # Ini(n) /\ ResponseThread # EndRsp(n)
  BY DEF RequestThread, ResponseThread, Ini, EndRsp
<1>4. RequestThread # Nobody /\ ResponseThread # Nobody
  BY DEF RequestThread, ResponseThread, Nobody
<1> HIDE DEF KernelInv, Event, Thread, Process, Calling, Types, Calls, NoCall, AtCore, BusOK, TgtOK, Timeout
<1>5. CASE EndReqPassed
  <2>1. /\ simc.cur = RequestThread /\ bus.req.pc = "told" /\ Answered
        /\ bus' = [bus EXCEPT !.req.pc = "next"] /\ link' = NoCall
        /\ UNCHANGED <<simc, peq, fifo, gp, pool, fatal>>
    BY <1>5 DEF EndReqPassed, Executing
  <2>2. link # NoCall /\ link.status # "called" /\ RequestThread \in Process
    BY <1>4, <2>1, CallerFacts, Runs DEF Answered
  <2>3. BusOK' /\ bus'.req.pc = "next" /\ bus'.rsp = bus.rsp /\ bus'.pending = bus.pending
    BY <1>1, <2>1, BusThreadMoves DEF Busy
  <2>4. ~Calling(RequestThread)' /\ \A q \in Process : q # RequestThread => (Calling(q)' <=> Calling(q))
    BY <1>2, <2>3, CallingNames, OnlyBus
  <2> QED BY <1>1, <1>2, <1>3, <2>1, <2>2, <2>3, <2>4, ReturnCore
<1>6. CASE ResponseAnswered
  <2>1. /\ simc.cur = ResponseThread /\ bus.rsp.pc = "sent" /\ Answered
        /\ simc' = IF link.status = "COMPLETED" THEN WaitTime(simc, ResponseThread, link.delay)
                   ELSE Wait(simc, ResponseThread, mEndResponseEvent)
        /\ bus' = [bus EXCEPT !.rsp.pc = "ended"] /\ link' = NoCall
        /\ UNCHANGED <<peq, fifo, gp, pool, fatal>>
    BY <1>6 DEF ResponseAnswered, Executing, AwaitEndResp
  <2>2. link # NoCall /\ link.status # "called" /\ ResponseThread \in Process /\ Wiring = "bus"
    BY <1>4, <2>1, CallerFacts, Runs DEF Answered
  <2>3. BusOK' /\ bus'.rsp.pc = "ended" /\ bus'.req = bus.req /\ bus'.pending = bus.pending /\ bus'.rsp.txn = bus.rsp.txn
    BY <1>1, <2>1, BusThreadMoves DEF Busy
  <2>4. ~Calling(ResponseThread)' /\ \A q \in Process : q # ResponseThread => (Calling(q)' <=> Calling(q))
    BY <1>2, <2>3, CallingNames, OnlyBus
  <2>5. ResponseThread \in Thread /\ mEndResponseEvent \in Event /\ link.delay \in 0..LongestDelay
    <3>1. link \in LinkShape
      BY <2>2, Callers
    <3> QED BY <2>2, <3>1, AtNames DEF LinkShape
  <2>6. KernelInv(LongestDelay, simc')
    BY <1>1, <2>1, <2>5, AtKernel
  <2>7. bus'.rsp.pc \in Busy <=> bus.rsp.pc \in Busy
    BY <2>1, <2>3 DEF Busy
  <2> QED BY <1>1, <1>2, <1>3, <2>1, <2>2, <2>3, <2>4, <2>6, <2>7, ReturnCore
<1>7. CASE RequestOngoing
  <2>1. /\ simc.cur = RequestThread /\ bus.req.pc = "sent" /\ Answered /\ link.status \in {"ACCEPTED", "UPDATED"}
        /\ link' = NoCall /\ UNCHANGED <<fifo, gp, pool>> /\ fatal' \in BOOLEAN
    BY <1>7 DEF RequestOngoing, Executing
  <2>2. link # NoCall /\ link.status # "called" /\ RequestThread \in Process /\ Wiring = "bus" /\ ForwardCall
    BY <1>4, <2>1, CallerFacts, Runs
  <2>3. link.phase \in {"BEGIN_REQ", "END_REQ"}
    BY <2>1, <2>2 DEF ForwardCall, Open, Accepted, ReqEnds, Complete
  <2>4. /\ simc' = IF link.phase = "BEGIN_REQ" THEN Wait(simc, RequestThread, mEndRequestEvent)
                   ELSE WaitTime(simc, RequestThread, link.delay)
        /\ peq' = peq /\ bus' = [bus EXCEPT !.req.pc = "ended"]
    <3>1. CASE link.phase = "BEGIN_REQ"
      BY <1>7, <3>1 DEF RequestOngoing
    <3>2. CASE link.phase = "END_REQ"
      BY <1>7, <3>2 DEF RequestOngoing
    <3> QED BY <2>3, <3>1, <3>2
  <2>5. BusOK' /\ bus'.req.pc = "ended" /\ bus'.rsp = bus.rsp /\ bus'.pending = bus.pending
    BY <1>1, <2>1, <2>4, BusThreadMoves DEF Busy
  <2>6. ~Calling(RequestThread)' /\ \A q \in Process : q # RequestThread => (Calling(q)' <=> Calling(q))
    BY <1>2, <2>5, CallingNames, OnlyBus
  <2>7. RequestThread \in Thread /\ mEndRequestEvent \in Event /\ link.delay \in 0..LongestDelay
    <3>1. link \in LinkShape
      BY <2>2, Callers
    <3> QED BY <2>2, <3>1, AtNames DEF LinkShape
  <2>8. KernelInv(LongestDelay, simc')
    BY <1>1, <2>4, <2>7, AtKernel
  <2> QED BY <1>1, <1>2, <1>3, <2>1, <2>2, <2>4, <2>5, <2>6, <2>8, ReturnCore
<1> QED BY <1>5, <1>6, <1>7

\* The methods of the targets return from theirs.
LEMMA TargetReturns ==
  ASSUME AtCore, UNCHANGED <<tg, ini, bus>>, NEW m \in Target, BeginRespAnswered(m) \/ EndReqAnswered(m)
  PROVE  AtCore'
<1>1. Calls /\ Types /\ KernelInv(LongestDelay, simc) /\ fatal \in BOOLEAN /\ BusOK /\ TgtOK
  BY DEF AtCore, Types
<1>2. BusOK' /\ bus' = bus /\ ini' = ini /\ tg' = tg
  BY <1>1 DEF BusOK
<1>3. \A n \in Initiator : /\ BeginResponse(m) # Ini(n) /\ BeginResponse(m) # EndRsp(n)
                           /\ EndRequest(m) # Ini(n) /\ EndRequest(m) # EndRsp(n)
  BY DEF BeginResponse, EndRequest, Ini, EndRsp
<1>4. BeginResponse(m) \in Process /\ EndRequest(m) \in Process
  BY AtNames
<1>5. PICK s \in TgtShape : s = tgt[m]
  BY <1>1 DEF TgtOK
<1>6. DOMAIN tgt = Target
  BY <1>1 DEF TgtOK
<1>7. CASE BeginRespAnswered(m)
  <2>1. /\ simc.cur = BeginResponse(m) /\ s.rpc = "sent" /\ Answered
        /\ link' = NoCall /\ UNCHANGED <<peq, fifo, gp, pool>> /\ fatal' \in BOOLEAN
    BY <1>5, <1>7 DEF BeginRespAnswered, Executing
  <2>2. link # NoCall /\ BeginRespCall(m)
    BY <1>5, <2>1, CallerFacts
  <2>3. link.status # "called" /\ link.status \in {"ACCEPTED", "COMPLETED"}
    BY <2>1, <2>2 DEF BeginRespCall, Open, Accepted, RspEnds, Answered
  <2> DEFINE r == [s EXCEPT !.rpc = "next"]
  <2>4. r \in TgtShape /\ r.rpc = "next" /\ r.epc = s.epc
    BY Zenon DEF TgtShape
  <2>5. tgt' = [tgt EXCEPT ![m] = r]
    BY <1>5, <1>7 DEF BeginRespAnswered
  <2> HIDE DEF r
  <2>6. TgtOK' /\ tgt'[m] = r
    BY <1>1, <2>4, <2>5 DEF TgtOK
  <2>7. ~Calling(BeginResponse(m))' /\ \A q \in Process : q # BeginResponse(m) => (Calling(q)' <=> Calling(q))
    <3>1. \A q \in Process : q # BeginResponse(m) => (Calling(q)' <=> Calling(q))
      BY <1>2, <1>5, <1>6, <2>4, <2>5, OnlyTarget
    <3> HIDE DEF Calling, Process
    <3> QED BY <2>4, <2>6, <3>1, CallingNames
  <2>8. KernelInv(LongestDelay, simc')
    <3>1. link.delay \in 0..LongestDelay
      <4>1. link \in LinkShape
        BY <2>2, Callers
      <4> QED BY <4>1 DEF LinkShape
    <3>2. EndRespRcvd(m) \in Event /\ Timeout[BeginResponse(m)] \in Event
      BY <1>4, AtNames, EventFacts
    <3> HIDE DEF KernelInv, Event, Process, Timeout
    <3>3. CASE link.status = "COMPLETED"
      <4>1. PICK k : k = Notify(simc, Timeout[BeginResponse(m)], link.delay)
        OBVIOUS
      <4>2. KernelInv(LongestDelay, k)
        BY <1>1, <3>1, <3>2, <4>1, AtKernel
      <4>3. PICK k2 : k2 = NextTrigger(k, BeginResponse(m), Timeout[BeginResponse(m)])
        OBVIOUS
      <4>4. KernelInv(LongestDelay, k2)
        BY <1>4, <3>2, <4>2, <4>3, AtKernel
      <4>5. simc' = Yield(k2)
        BY <1>7, <3>3, <4>1, <4>3 DEF BeginRespAnswered, NextTriggerTime
      <4> QED BY <4>4, <4>5, AtKernel
    <3>4. CASE link.status = "ACCEPTED"
      <4>1. PICK k : k = NextTrigger(simc, BeginResponse(m), EndRespRcvd(m))
        OBVIOUS
      <4>2. KernelInv(LongestDelay, k)
        BY <1>1, <1>4, <3>2, <4>1, AtKernel
      <4>3. simc' = Yield(k)
        BY <1>7, <3>4, <4>1 DEF BeginRespAnswered, UntilEndResp
      <4> QED BY <4>2, <4>3, AtKernel
    <3> QED BY <2>3, <3>3, <3>4
  <2> HIDE DEF KernelInv, Event, Thread, Process, Calling, Types, Calls, NoCall, AtCore, BusOK, TgtOK, Timeout
  <2> QED BY <1>2, <1>3, <1>4, <2>1, <2>2, <2>3, <2>6, <2>7, <2>8, ReturnCore
<1>8. CASE EndReqAnswered(m)
  <2>1. /\ simc.cur = EndRequest(m) /\ s.epc = "sent" /\ Answered
        /\ link' = NoCall /\ UNCHANGED <<simc, peq, fifo, gp, pool>> /\ fatal' \in BOOLEAN
    BY <1>5, <1>8 DEF EndReqAnswered, Executing
  <2>2. link # NoCall /\ link.status # "called"
    BY <1>5, <2>1, CallerFacts DEF Answered
  <2> DEFINE r == [s EXCEPT !.epc = "next"]
  <2>4. r \in TgtShape /\ r.epc = "next" /\ r.rpc = s.rpc
    BY Zenon DEF TgtShape
  <2>5. tgt' = [tgt EXCEPT ![m] = r]
    BY <1>5, <1>8 DEF EndReqAnswered
  <2> HIDE DEF r
  <2>6. TgtOK' /\ tgt'[m] = r
    BY <1>1, <2>4, <2>5 DEF TgtOK
  <2>7. ~Calling(EndRequest(m))' /\ \A q \in Process : q # EndRequest(m) => (Calling(q)' <=> Calling(q))
    <3>1. \A q \in Process : q # EndRequest(m) => (Calling(q)' <=> Calling(q))
      BY <1>2, <1>5, <1>6, <2>4, <2>5, OnlyTarget
    <3> HIDE DEF Calling, Process
    <3> QED BY <2>4, <2>6, <3>1, CallingNames
  <2> HIDE DEF KernelInv, Event, Thread, Process, Calling, Types, Calls, NoCall, AtCore, BusOK, TgtOK, Timeout
  <2> QED BY <1>1, <1>2, <1>3, <1>4, <2>1, <2>2, <2>6, <2>7, ReturnCore
<1> QED BY <1>7, <1>8

-----------------------------------------------------------------------------
(* Steps that take a payload in hand, keep it, and hand it on *)

\* Which payloads the fifos hold after a read of a request and a write of a response.
LEMMA FifoMoves ==
  ASSUME Shapes, NEW n \in Initiator, NEW a, NEW h, Accounted(n, a, h), NEW t
  PROVE  /\ /\ NumAvailable(ReqCh(n)) # 0 /\ t = Head(fifo[ReqCh(n)].items)
            /\ fifo' = FifoRead(ReqCh(n))
            => /\ Requested(n)' = Requested(n) \ {t} /\ Responded(n)' = Responded(n)
               /\ \A m \in Initiator : m # n => /\ fifo'[ReqCh(m)] = fifo[ReqCh(m)]
                                                /\ fifo'[RspCh(m)] = fifo[RspCh(m)]
         /\ t \in a /\ fifo' = FifoWrite(RspCh(n), t)
            => /\ Requested(n)' = Requested(n) /\ Responded(n)' = Responded(n) \union {t}
               /\ \A m \in Initiator : m # n => /\ fifo'[ReqCh(m)] = fifo[ReqCh(m)]
                                                /\ fifo'[RspCh(m)] = fifo[RspCh(m)]
<1>1. ASSUME NumAvailable(ReqCh(n)) # 0, t = Head(fifo[ReqCh(n)].items), fifo' = FifoRead(ReqCh(n))
      PROVE  /\ Requested(n)' = Requested(n) \ {t} /\ Responded(n)' = Responded(n)
             /\ \A m \in Initiator : m # n => /\ fifo'[ReqCh(m)] = fifo[ReqCh(m)]
                                              /\ fifo'[RspCh(m)] = fifo[RspCh(m)]
  <2>1. PICK f \in FifoShape(n) : f = fifo[ReqCh(n)]
    BY DEF Accounted
  <2>2. f.readable - f.read # 0 /\ t = Head(f.items)
    BY <1>1, <2>1 DEF NumAvailable
  <2> DEFINE f2 == [f EXCEPT !.items = Tail(@), !.read = @ + 1]
  <2>3. f2.items = Tail(f.items) /\ Range(Tail(f.items)) = Range(f.items) \ {t}
    <3>1. Range(Tail(f.items)) = Range(f.items) \ {t}
      BY <2>2, ReadShape
    <3> QED BY <3>1 DEF FifoShape, FifoFields
  <2>4. fifo' = [fifo EXCEPT ![ReqCh(n)] = f2]
    BY <1>1, <2>1, Zenon DEF FifoRead
  <2> HIDE DEF f2
  <2>5. /\ fifo'[ReqCh(n)] = f2 /\ fifo'[RspCh(n)] = fifo[RspCh(n)]
        /\ \A m \in Initiator : m # n => fifo'[RspCh(m)] = fifo[RspCh(m)] /\ fifo'[ReqCh(m)] = fifo[ReqCh(m)]
    BY <2>4, ChannelFacts DEF Shapes
  <2> QED BY <2>1, <2>3, <2>5 DEF Responded, Requested
<1>2. ASSUME t \in a, fifo' = FifoWrite(RspCh(n), t)
      PROVE  /\ Requested(n)' = Requested(n) /\ Responded(n)' = Responded(n) \union {t}
             /\ \A m \in Initiator : m # n => /\ fifo'[ReqCh(m)] = fifo[ReqCh(m)]
                                              /\ fifo'[RspCh(m)] = fifo[RspCh(m)]
  <2>1. PICK f \in FifoShape(n) : f = fifo[RspCh(n)]
    BY DEF Accounted
  <2> DEFINE f2 == [f EXCEPT !.items = Append(@, t), !.written = @ + 1]
  <2>2. f2.items = Append(f.items, t) /\ Range(Append(f.items, t)) = Range(f.items) \union {t}
    <3>1. f \in FifoFields(n) /\ t \in Payloads(n)
      BY <1>2, <2>1 DEF FifoShape, Accounted
    <3>2. f2.items = Append(f.items, t) /\ f.items \in Line(Payloads(n))
      BY <3>1 DEF FifoFields
    <3>3. t \notin Range(f.items)
      BY <1>2, <2>1 DEF Responded, Accounted
    <3> HIDE DEF f2
    <3> QED BY <3>1, <3>2, <3>3, AppendToLine
  <2>4. fifo' = [fifo EXCEPT ![RspCh(n)] = f2]
    BY <1>2, <2>1, Zenon DEF FifoWrite
  <2> HIDE DEF f2
  <2>5. /\ fifo'[RspCh(n)] = f2 /\ fifo'[ReqCh(n)] = fifo[ReqCh(n)]
        /\ \A m \in Initiator : m # n => fifo'[RspCh(m)] = fifo[RspCh(m)] /\ fifo'[ReqCh(m)] = fifo[ReqCh(m)]
    BY <2>4, ChannelFacts DEF Shapes
  <2> QED BY <2>1, <2>2, <2>5 DEF Responded, Requested
<1> QED BY <1>1, <1>2

\* A payload in hand after a step is neither in its pool nor in a fifo then.
LEMMA InHandAfter ==
  ASSUME NEW n \in Initiator, NEW a, NEW h, Accounted(n, a, h)', NEW t \in Txn, Owner(t) = n, t \in h
  PROVE  /\ t \in a => ~Outgoing(t)' /\ ~Incoming(t)'
         /\ (t \in Responded(n))' => ~Outgoing(t)'
         /\ ~Pooled(t)'
<1>1. t \notin Range(pool'[n])
  BY DEF Accounted
<1>2. t \in a => t \notin Putting(n)' /\ t \notin Requested(n)' /\ t \notin Responded(n)'
  BY DEF Accounted
<1>3. t \in Responded(n)' => t \notin Putting(n)' /\ t \notin Requested(n)'
  BY DEF Accounted
<1>4. Owner(t)' = n
  OBVIOUS
<1> HIDE DEF Putting, Requested, Responded
<1> QED BY <1>1, <1>2, <1>3, <1>4 DEF Outgoing, Incoming, Pooled

\* The initiator hands a payload to its generator.
LEMMA HandsOver ==
  ASSUME AtCore, Types', Calls', NEW t \in Txn, NEW n \in Initiator, n = Owner(t),
         link = NoCall \/ link.txn = t, link' = NoCall \/ link'.txn = t,
         UNCHANGED <<tg, pool, gp, bus, peq>>, fifo' = FifoWrite(RspCh(n), t), InHand(t), CarriedOut(t),
         ~Sending(t)', ~Returning(t)', ~Heard(t)', ~Closing(t)', \A q \in Peq : t \notin Queued(q),
         Wiring = "bus" => ~Tracked(t),
         ~Asks(t)', ~Reports(t)', ~Responds(t)', ~EndsReq(t)',
         \A tx \in Txn : tx # t => /\ Returning(tx)' <=> Returning(tx)
                                   /\ ini'[Owner(tx)].map[tx] = ini[Owner(tx)].map[tx]
  PROVE  AtCore'
<1>1. /\ PayloadInv(t) /\ Held(t) = 1 /\ t \in Away(n) /\ t \in HeldBy(n) /\ gp[t].rc # 0
      /\ gp[t].cmd \in {"read", "write"} /\ gp[t].addr \in Addresses
  <2> HIDE DEF PayloadInv, Held, Away, HeldBy, Outgoing, Incoming, Pooled, Asked, CarriedOut, AtCore, InHand
  <2> QED BY InHandFacts
<1>2. PICK a, h : a = Away(n) /\ h = HeldBy(n)
  OBVIOUS
<1>3. Shapes /\ Accounted(n, a, h) /\ t \in a /\ t \in h
  BY <1>1, <1>2 DEF AtCore, Types
<1>4. PICK a2 : a2 = a \ {t}
  OBVIOUS
<1>5. Accounted(n, a2, h)'
  BY <1>3, <1>4, ResponseGiven
<1>6. /\ Requested(n)' = Requested(n) /\ Responded(n)' = Responded(n) \union {t}
      /\ \A m \in Initiator : m # n => fifo'[ReqCh(m)] = fifo[ReqCh(m)] /\ fifo'[RspCh(m)] = fifo[RspCh(m)]
  BY <1>3, FifoMoves
<1>7. ~Outgoing(t)' /\ ~Pooled(t)'
  BY <1>3, <1>5, <1>6, InHandAfter
<1>8. /\ \A q \in Peq : t \notin Queued(q)'
      /\ ~Ending(t)'
  <2>1. \A q \in Peq : t \notin Queued(q)'
    <3> HIDE DEF Queued, Peq
    <3> QED BY PeqSame
  <2>2. EndRspPeq(Owner(t)) \in Peq
    BY AtNames
  <2>3. ~(t \in Queued(EndRspPeq(Owner(t))))'
    <3> HIDE DEF Queued, Peq
    <3> QED BY <2>2, PeqSame
  <2> QED BY <2>1, <2>3 DEF Ending
<1>9. (Known(t)' <=> Known(t)) /\ (Tracked(t)' <=> Tracked(t)) /\ (Responding(t)' <=> Responding(t))
  <2> HIDE DEF Known, Tracked, Responding
  <2> QED BY BusSame
<1>10. Held(t)' = 1 /\ gp'[t] = gp[t] /\ CarriedOut(t)'
  BY <1>1, <1>9 DEF Held, BusHolds, CarriedOut
<1> HIDE DEF Held, Known, Tracked, Responding, Outgoing, Incoming, Pooled, Sending, Returning, Heard, Closing, Ending,
             Queued, Asked, CarriedOut, Port, Peq, Asks, Reports, Responds, EndsReq
<1>11. Contents(t)'
  BY <1>1, <1>7, <1>10, Zenon DEF Contents
<1>12. OneHand(t)' /\ ~InHand(t)'
  BY <1>8, Zenon DEF OneHand, InHand
<1>13. InTransit(t)' /\ InQueues(t)'
  BY <1>8, Zenon DEF InTransit, InQueues
<1>14. Tracking(t)'
  <2>1. Wiring # "bus" => ~Known(t)
    BY <1>1 DEF PayloadInv, Tracking
  <2>2. (Tracked(t) => Known(t)) /\ (Known(t) /\ ~Tracked(t) <=> Responding(t))
    BY <1>1 DEF PayloadInv, Tracking
  <2>3. Wiring # "bus" => ~Tracked(t)
    BY <2>1, <2>2
  <2>4. ini'[Owner(t)].map[t] # "UPDATED"
    BY DEF Heard
  <2> QED BY <1>9, <2>1, <2>2, <2>3, <2>4 DEF Tracking
<1>15. PayloadInv(t)'
  BY <1>11, <1>12, <1>13, <1>14 DEF PayloadInv
<1>16. ASSUME NEW tx \in Txn, tx # t PROVE Apart(tx)
  <2>1. PICK m \in Initiator : m = Owner(tx)
    BY OwnerFacts
  <2>2. (Outgoing(tx)' <=> Outgoing(tx)) /\ (Incoming(tx)' <=> Incoming(tx)) /\ (Pooled(tx)' <=> Pooled(tx))
    <3>1. CASE m = n
      BY <1>6, <1>16, <2>1, <3>1 DEF Outgoing, Incoming, Pooled, Putting
    <3>2. CASE m # n
      BY <1>6, <2>1, <3>2 DEF Outgoing, Incoming, Pooled, Putting, Requested, Responded
    <3> QED BY <3>1, <3>2
  <2>3. \A q \in Peq : (tx \in Queued(q))' <=> tx \in Queued(q)
    BY PeqSame
  <2>4. (Responding(tx)' <=> Responding(tx)) /\ gp'[tx] = gp[tx] /\ tg' = tg /\ bus' = bus
    BY BusSame
  <2> QED BY <1>16, <2>2, <2>3, <2>4 DEF Apart
<1>17. \A m \in Initiator : m # n => \A b, g : Accounted(m, b, g) => Accounted(m, b, g)'
  BY <1>6, AccountedFrame
<1>18. /\ a2 = IF InHand(t)' THEN Away(Owner(t)) \union {t} ELSE Away(Owner(t)) \ {t}
       /\ h = IF Held(t)' = 1 THEN HeldBy(Owner(t)) \union {t} ELSE HeldBy(Owner(t)) \ {t}
  <2> HIDE DEF Away, HeldBy, InHand
  <2> QED BY <1>1, <1>2, <1>4, <1>10, <1>12
<1>19. \A q \in Peq : Once(peq'[q])
  BY DEF AtCore
<1> HIDE DEF InHand, Calls, Types, PayloadInv, Apart, Once, Away, HeldBy, NoCall
<1> QED BY <1>5, <1>15, <1>16, <1>17, <1>18, <1>19, OneMoves

\* The initiator's map tells that it waits for the response of a payload.
LEMMA HearsCore ==
  ASSUME AtCore, Types', Calls', NEW t \in Txn, UNCHANGED <<tg, pool, gp, bus, peq, fifo>>,
         link = NoCall \/ link.txn = t, link' = NoCall \/ link'.txn = t,
         Waiting(t), ~Reports(t), Heard(t)', ~Sending(t)', ~Returning(t)', ~Closing(t)',
         Wiring = "bus" => Tracked(t) /\ ini'[Owner(t)].map[t] # "UPDATED",
         ~Asks(t)', ~Reports(t)', ~Responds(t)', ~EndsReq(t)', ~Telling(t)',
         \A tx \in Txn : tx # t => /\ Returning(tx)' <=> Returning(tx)
                                   /\ ini'[Owner(tx)].map[tx] = ini[Owner(tx)].map[tx]
  PROVE  AtCore'
<1>1. InHand(t) /\ ~Ending(t)
  <2>1. InHand(t)
    BY Zenon DEF Waiting, InHand
  <2>2. OneHand(t)
    BY DEF AtCore, PayloadInv
  <2> HIDE DEF Heard, Sending, Ending, Returning, Closing
  <2> QED BY <2>1, <2>2 DEF Waiting, OneHand
<1>2. /\ PayloadInv(t) /\ Held(t) = 1 /\ gp[t].rc # 0 /\ (Asked(t) \/ CarriedOut(t))
  <2> HIDE DEF PayloadInv, Held, Away, HeldBy, Outgoing, Incoming, Pooled, Asked, CarriedOut, AtCore, InHand
  <2> QED BY <1>1, InHandFacts
<1>3. \A q \in Peq : \A tx : (tx \in Queued(q))' <=> tx \in Queued(q)
  BY PeqSame
<1>4. ~Ending(t)'
  <2>1. EndRspPeq(Owner(t)) \in Peq
    BY OwnerFacts, AtNames
  <2> HIDE DEF Queued, Peq
  <2> QED BY <1>1, <1>3, <2>1 DEF Ending
<1>5. \A tx \in Txn : (Known(tx)' <=> Known(tx)) /\ (Tracked(tx)' <=> Tracked(tx)) /\ (Responding(tx)' <=> Responding(tx))
  <2> HIDE DEF Known, Tracked, Responding
  <2> QED BY BusSame
<1>6. Held(t)' = 1 /\ gp'[t] = gp[t] /\ (Asked(t)' <=> Asked(t)) /\ (CarriedOut(t)' <=> CarriedOut(t))
  BY <1>2, <1>5 DEF Held, BusHolds, Asked, CarriedOut
<1>7. Port(t)' = Port(t) /\ Where(t)' = Where(t)
  BY GeneratorSame
<1> HIDE DEF Held, Known, Tracked, Responding, Outgoing, Incoming, Pooled, Sending, Returning, Heard, Closing, Ending,
             Queued, Asked, CarriedOut, Port, Where, Peq, Asks, Reports, Responds, EndsReq, Telling
<1>8. OneHand(t)' /\ InHand(t)' /\ Waiting(t)' /\ InTransit(t)'
  BY <1>4, Zenon DEF OneHand, InHand, Waiting, InTransit
<1>9. InQueues(t)'
  <2>1. ASSUME NEW q \in Peq, t \in Queued(q) PROVE Fits(q, t)'
    <3>1. Fits(q, t)
      BY <1>2, <2>1, QueueFacts
    <3> QED BY <1>6, <1>7, <1>8, <3>1 DEF Fits
  <2>2. \A q, r \in Peq : t \in Queued(q) /\ t \in Queued(r) => q = r
    BY <1>2, QueueFacts
  <2> HIDE DEF Fits
  <2> QED BY <1>3, <2>1, <2>2 DEF InQueues
<1>10. Tracking(t)'
  <2>1. Wiring # "bus" => ~Known(t)
    BY <1>2 DEF PayloadInv, Tracking
  <2>2. (Tracked(t) => Known(t) /\ bus.pending[t].from = Owner(t)) /\ (Known(t) /\ ~Tracked(t) <=> Responding(t))
    BY <1>2 DEF PayloadInv, Tracking
  <2>3. (Wiring = "bus" => Tracked(t)') /\ bus'.pending[t].from = bus.pending[t].from
    BY <1>5
  <2> QED BY <1>5, <2>1, <2>2, <2>3 DEF Tracking
<1>11. \A q \in Peq : Once(peq'[q])
  BY DEF AtCore
<1> HIDE DEF InHand, Calls, Types, PayloadInv, Once, NoCall, OneHand, InTransit, InQueues, Tracking, Waiting
<1>12. \A tx \in Txn : tx # t =>
            /\ gp'[tx] = gp[tx]
            /\ Returning(tx)' <=> Returning(tx)
            /\ ini'[Owner(tx)].map[tx] = ini[Owner(tx)].map[tx]
            /\ bus'.pending[tx].known = bus.pending[tx].known
            /\ bus'.pending[tx].from = bus.pending[tx].from
            /\ Responding(tx)' <=> Responding(tx)
            /\ \A q \in Peq : (tx \in Queued(q))' <=> tx \in Queued(q)
  BY <1>3, <1>5
<1>13. gp'[t].rc # 0 /\ gp'[t].cmd = gp[t].cmd /\ gp'[t].addr = gp[t].addr /\ (Asked(t)' \/ CarriedOut(t)')
  BY <1>2, <1>6
<1> HIDE DEF AtCore
<1> QED BY <1>1, <1>6, <1>8, <1>9, <1>10, <1>11, <1>12, <1>13, StaysInHand

-----------------------------------------------------------------------------
(* The initiators *)

LEMMA IniMoved ==
  ASSUME IniOK, NEW n \in Initiator, NEW r \in IniShape(n), r.pc # "get" => r.txn \in Payloads(n),
         ini' = [ini EXCEPT ![n] = r]
  PROVE  /\ IniOK' /\ ini'[n] = r /\ DOMAIN ini = Initiator /\ \A m \in Initiator : m # n => ini'[m] = ini[m]
<1> HIDE DEF IniShape, Payloads
<1>1. DOMAIN ini = Initiator
  BY DEF IniOK
<1>2. ini'[n] = r /\ \A m \in Initiator : m # n => ini'[m] = ini[m]
  BY <1>1
<1>3. IniOK'
  <2>1. DOMAIN ini' = Initiator
    BY <1>1
  <2>2. \A m \in Initiator : ini'[m] \in IniShape(m) /\ (ini'[m].pc # "get" => ini'[m].txn \in Payloads(m))
    <3>1. ASSUME NEW m \in Initiator
          PROVE ini'[m] \in IniShape(m) /\ (ini'[m].pc # "get" => ini'[m].txn \in Payloads(m))
      <4>1. CASE m = n
        BY <1>2, <4>1
      <4>2. CASE m # n
        BY <1>2, <4>2 DEF IniOK
      <4> QED BY <4>1, <4>2
    <3> QED BY <3>1
  <2> QED BY <2>1, <2>2 DEF IniOK
<1> QED BY <1>1, <1>2, <1>3

\* The thread takes a request and makes the call of BEGIN_REQ.
LEMMA SendCore ==
  ASSUME AtCore, NEW n \in Initiator, SendRequest(n), UNCHANGED <<tg, bus, tgt>>
  PROVE  AtCore'
<1>1. PICK t : t = Head(fifo[ReqCh(n)].items)
  OBVIOUS
<1>2. /\ simc.cur = Ini(n) /\ ini[n].pc = "get" /\ NumAvailable(ReqCh(n)) # 0 /\ fifo' = FifoRead(ReqCh(n))
      /\ simc' = RequestUpdate(simc, ReqCh(n)) /\ link' = Call(FromInitiator(n), t, "BEGIN_REQ")
      /\ ini' = [ini EXCEPT ![n].pc = "sent", ![n].txn = t] /\ UNCHANGED <<peq, gp, pool, fatal>>
  BY <1>1 DEF SendRequest, Executing, Req, ReqCh
<1>3. /\ Calls /\ Types /\ KernelInv(LongestDelay, simc) /\ fatal \in BOOLEAN /\ IniOK /\ Shapes
  BY DEF AtCore, Types
<1>4. /\ link = NoCall /\ \A p \in Process : ~Calling(p)
  <2>1. ~Calling(simc.cur)
    BY <1>2, Idle
  <2> HIDE DEF Calls, Calling, Process
  <2> QED BY <1>3, <2>1, NotCalling
<1>5. PICK a, h : a = Away(n) /\ h = HeldBy(n)
  OBVIOUS
<1>6. Accounted(n, a, h)
  BY <1>5 DEF AtCore
<1>7. PICK a2 : a2 = a \union {t}
  OBVIOUS
<1>8. /\ t \in Requested(n) /\ t \in Payloads(n) /\ t \in h \ a /\ t \notin Responded(n)
      /\ Accounted(n, a2, h)' /\ Shapes'
  BY <1>1, <1>2, <1>3, <1>6, <1>7, RequestTaken
<1>9. /\ Requested(n)' = Requested(n) \ {t} /\ Responded(n)' = Responded(n)
      /\ \A m \in Initiator : m # n => fifo'[ReqCh(m)] = fifo[ReqCh(m)] /\ fifo'[RspCh(m)] = fifo[RspCh(m)]
  BY <1>1, <1>2, <1>3, <1>6, FifoMoves
<1>10. t \in Txn /\ Owner(t) = n /\ PayloadInv(t)
  BY <1>8, OwnerFacts DEF AtCore
<1>11. Held(t) = 1 /\ ~InHand(t)
  <2> HIDE DEF Held, InHand
  <2> QED BY <1>5, <1>8, <1>10 DEF HeldBy, Away
<1>12. /\ ~Tracked(t) /\ ~Heard(t) /\ ~Sending(t) /\ ~Returning(t) /\ ~Ending(t) /\ ~Closing(t)
       /\ ~Waiting(t) /\ (\A q \in Peq : t \notin Queued(q)) /\ (Known(t) <=> Responding(t))
  <2> HIDE DEF PayloadInv, InHand, NoCall
  <2> QED BY <1>4, <1>10, <1>11, Resting
<1>13. /\ Asked(t) /\ gp[t].port = Port(t) /\ ~Known(t) /\ gp[t].rc # 0
       /\ gp[t].cmd \in {"read", "write"} /\ gp[t].addr \in Addresses
  <2>1. Outgoing(t)
    BY <1>8, <1>10 DEF Outgoing
  <2>2. ~Pooled(t)
    BY <1>6, <1>8, <1>10 DEF Pooled, Accounted
  <2> HIDE DEF Held, Outgoing, Asked, Port, Known, Pooled
  <2> QED BY <1>10, <1>11, <2>1, <2>2 DEF PayloadInv, Contents
<1>14. PICK s \in IniShape(n) : s = ini[n]
  BY <1>3 DEF IniOK
<1>15. PICK r : r = [s EXCEPT !.pc = "sent", !.txn = t]
  OBVIOUS
<1>16. r \in IniShape(n) /\ r.pc = "sent" /\ r.txn = t /\ r.mpc = s.mpc /\ r.map = s.map
  <2>1. t \in Txn \union {NoTxn}
    BY <1>10
  <2> HIDE DEF Txn, NoTxn, Payloads
  <2> QED BY <1>14, <1>15, <2>1, Zenon DEF IniShape
<1>17. ini' = [ini EXCEPT ![n] = r]
  BY <1>2, <1>3, <1>14, <1>15 DEF IniOK
<1>18. IniOK' /\ ini'[n] = r /\ DOMAIN ini = Initiator /\ \A m \in Initiator : m # n => ini'[m] = ini[m]
  BY <1>3, <1>8, <1>16, <1>17, IniMoved
<1>19. /\ link' # NoCall /\ link'.txn = t /\ link'.status = "called" /\ link'.phase = "BEGIN_REQ"
       /\ link'.callee = FromInitiator(n) /\ link'.delay = 0
       /\ About(t)' /\ ~Reports(t)' /\ Asks(t)' /\ ~Responds(t)' /\ ~EndsReq(t)' /\ ~Telling(t)'
  <2>1. PICK c : c = FromInitiator(n)
    OBVIOUS
  <2> HIDE DEF About, Reports, Asks, Responds, EndsReq, Telling, NoCall
  <2> QED BY <1>2, <1>10, <2>1, CallMade
<1>20. KernelInv(LongestDelay, simc') /\ simc'.cur = simc.cur
  <2> HIDE DEF KernelInv, Channel
  <2> QED BY <1>2, <1>3, ChannelFacts, AtKernel
<1>21. Calls'
  <2>1. Ini(n) \in Process
    BY AtNames
  <2>2. \A p \in Process : p # Ini(n) => (Calling(p)' <=> Calling(p))
    BY <1>14, <1>16, <1>17, <1>18, OnlyInitiator
  <2>3. Calling(Ini(n))' /\ (CallOf(Ini(n))' <=> RequestCall(n)')
    BY <1>16, <1>18, CallingNames
  <2>4. RequestCall(n)'
    BY <1>16, <1>18, <1>19 DEF RequestCall, Open, FromInitiator
  <2>5. link' \in LinkShape
    <3>1. /\ FromInitiator(n) \in {"bus_fw", "bus_bw", "initiator", "target"} \X Nat /\ 0 \in 0..LongestDelay
      <4>1. n \in Nat /\ n - 1 \in Nat
        BY AtNumbers DEF Initiator
      <4> QED BY <4>1, AtNumbers DEF FromInitiator
    <3> QED BY <1>2, <1>10, <3>1 DEF LinkShape, Call, Phases
  <2> HIDE DEF Calls, Calling, CallOf, Process, NoCall, RequestCall, LinkShape
  <2> QED BY <1>2, <1>3, <1>4, <1>20, <2>1, <2>2, <2>3, <2>4, <2>5, CallsMade
<1>22. Types'
  <2>1. GpOK' /\ BusOK' /\ TgtOK' /\ PeqOK'
    <3> HIDE DEF Types, GpOK, BusOK, TgtOK, PeqOK
    <3> QED BY <1>2, <1>3, TypesKept
  <2> QED BY <1>2, <1>3, <1>8, <1>18, <1>20, <2>1 DEF Types
<1>23. Sending(t)' /\ ~Heard(t)' /\ ~Returning(t)' /\ ~Closing(t)' /\ ~Ending(t)' /\ \A q \in Peq : t \notin Queued(q)'
  <2>1. Sending(t)' /\ ~Returning(t)'
    BY <1>10, <1>16, <1>18 DEF Sending, Returning
  <2>2. ~Heard(t)'
    BY <1>10, <1>12, <1>14, <1>16, <1>18 DEF Heard
  <2>3. ~Closing(t)'
    <3>1. ini[n].mpc # "sent"
      <4> HIDE DEF Calling, Process
      <4> QED BY <1>4, CallingNames, AtNames
    <3> QED BY <1>10, <1>14, <1>16, <1>18, <3>1 DEF Closing
  <2>4. \A q \in Peq : t \notin Queued(q)'
    <3> HIDE DEF Queued, Peq
    <3> QED BY <1>2, <1>12, PeqSame
  <2>5. ~(t \in Queued(EndRspPeq(Owner(t))))'
    <3>1. EndRspPeq(Owner(t)) \in Peq
      BY <1>10, AtNames
    <3> HIDE DEF Queued, Peq
    <3> QED BY <1>2, <1>12, <3>1, PeqSame
  <2> QED BY <2>1, <2>2, <2>3, <2>4, <2>5 DEF Ending
<1>24. ~Outgoing(t)' /\ ~Incoming(t)' /\ ~Pooled(t)'
  BY <1>7, <1>8, <1>10, InHandAfter
<1>25. /\ (Known(t)' <=> Known(t)) /\ (Tracked(t)' <=> Tracked(t)) /\ (Responding(t)' <=> Responding(t))
       /\ Port(t)' = Port(t) /\ Where(t)' = Where(t)
  <2>1. tg' = tg
    OBVIOUS
  <2>2. Port(t)' = Port(t) /\ Where(t)' = Where(t)
    BY <2>1 DEF Port, Where
  <2> HIDE DEF Known, Tracked, Responding, Port, Where
  <2> QED BY <1>10, <2>2, BusSame
<1>26. Held(t)' = 1 /\ gp'[t] = gp[t] /\ Asked(t)'
  BY <1>2, <1>11, <1>13, <1>25 DEF Held, BusHolds, Asked
<1>27. link'.callee[1] = "target" => link'.callee[2] = Where(t)
  <2>1. CASE Direct
    BY <1>10, <1>19, <2>1 DEF FromInitiator, Where
  <2>2. CASE ~Direct
    BY <1>19, <2>2 DEF FromInitiator
  <2> QED BY <2>1, <2>2
<1>28. ini'[Owner(t)].map[t] # "UPDATED"
  <2>1. ini[n].map[t] = "absent"
    BY <1>10, <1>12 DEF Heard
  <2> QED BY <1>10, <1>14, <1>16, <1>18, <2>1
<1>29. \A tx \in Txn : tx # t => (Returning(tx)' <=> Returning(tx)) /\ ini'[Owner(tx)].map[tx] = ini[Owner(tx)].map[tx]
  <2>1. \A tx \in Payloads(n) : tx # t => /\ r.map[tx] = ini[n].map[tx]
                                          /\ r.pc = "respond" /\ r.txn = tx <=> ini[n].pc = "respond" /\ ini[n].txn = tx
    BY <1>2, <1>14, <1>16
  <2> HIDE DEF Payloads, Returning, Txn, Owner, Initiator, IniShape
  <2> QED BY <1>10, <1>18, <2>1, InitiatorMoves
<1> HIDE DEF Held, Known, Tracked, Responding, Outgoing, Incoming, Pooled, Sending, Returning, Heard, Closing, Ending,
             Queued, Asked, CarriedOut, Port, Where, Peq, Asks, Reports, Responds, EndsReq, Telling, About
<1>30. Contents(t)'
  BY <1>13, <1>23, <1>24, <1>26, Zenon DEF Contents
<1>31. OneHand(t)' /\ InHand(t)' /\ Waiting(t)' /\ InQueues(t)'
  BY <1>23, Zenon DEF OneHand, InHand, Waiting, InQueues
<1>32. InTransit(t)'
  BY <1>13, <1>19, <1>25, <1>26, <1>27, <1>31 DEF InTransit
<1>33. Tracking(t)'
  BY <1>12, <1>13, <1>19, <1>23, <1>25, <1>28 DEF Tracking
<1>34. PayloadInv(t)'
  BY <1>30, <1>31, <1>32, <1>33 DEF PayloadInv
<1>35. ASSUME NEW tx \in Txn, tx # t PROVE Apart(tx)
  <2>1. PICK m \in Initiator : m = Owner(tx)
    BY OwnerFacts
  <2>2. (Outgoing(tx)' <=> Outgoing(tx)) /\ (Incoming(tx)' <=> Incoming(tx)) /\ (Pooled(tx)' <=> Pooled(tx))
    <3>1. CASE m = n
      BY <1>2, <1>9, <1>35, <2>1, <3>1 DEF Outgoing, Incoming, Pooled, Putting
    <3>2. CASE m # n
      BY <1>2, <1>9, <2>1, <3>2 DEF Outgoing, Incoming, Pooled, Putting, Requested, Responded
    <3> QED BY <3>1, <3>2
  <2>3. \A q \in Peq : (tx \in Queued(q))' <=> tx \in Queued(q)
    BY <1>2, PeqSame
  <2>4. (Responding(tx)' <=> Responding(tx)) /\ gp'[tx] = gp[tx] /\ tg' = tg /\ bus' = bus
    BY <1>2, BusSame
  <2> QED BY <1>29, <1>35, <2>2, <2>3, <2>4 DEF Apart
<1>36. \A m \in Initiator : m # n => \A b, g : Accounted(m, b, g) => Accounted(m, b, g)'
  BY <1>2, <1>9, AccountedFrame
<1>37. /\ a2 = IF InHand(t)' THEN Away(Owner(t)) \union {t} ELSE Away(Owner(t)) \ {t}
       /\ h = IF Held(t)' = 1 THEN HeldBy(Owner(t)) \union {t} ELSE HeldBy(Owner(t)) \ {t}
  <2> HIDE DEF Away, HeldBy, InHand
  <2> QED BY <1>5, <1>7, <1>8, <1>10, <1>26, <1>31
<1>38. \A q \in Peq : Once(peq'[q])
  BY <1>2 DEF AtCore
<1> HIDE DEF InHand, Calls, Types, PayloadInv, Apart, Once, Away, HeldBy, NoCall
<1> QED BY <1>4, <1>8, <1>10, <1>19, <1>21, <1>22, <1>34, <1>35, <1>36, <1>37, <1>38, OneMoves

\* The changes an initiator makes to its record, besides taking a request, and
\* what they leave.
IniPc(n, x)        == [ini EXCEPT ![n].pc = x]
IniMpc(n, y)       == [ini EXCEPT ![n].mpc = y]
IniMap(n, t, v)    == [ini EXCEPT ![n].map[t] = v]
IniHears(n, t, v)  == [ini EXCEPT ![n].pc = "get", ![n].map[t] = v]
Changed(n, x, y, t, v) ==
  /\ IniOK' /\ \A m \in Initiator : m # n => ini'[m] = ini[m]
  /\ ini'[n].pc = x /\ ini'[n].mpc = y /\ ini'[n].txn = ini[n].txn /\ ini'[n].map[t] = v
  /\ \A tx \in Payloads(n) : tx # t => ini'[n].map[tx] = ini[n].map[tx]

LEMMA IniChanges ==
  ASSUME IniOK, NEW n \in Initiator, NEW t \in Payloads(n),
         NEW v \in {"absent", "ACCEPTED", "END_REQ", "UPDATED"}, NEW x \in {"get", "respond"}, NEW y \in {"next", "sent"}
  PROVE  /\ ini' = IniPc(n, x) /\ (x # "get" => ini[n].txn \in Payloads(n)) =>
              Changed(n, x, ini[n].mpc, t, ini[n].map[t])
         /\ ini' = IniMpc(n, y) => Changed(n, ini[n].pc, y, t, ini[n].map[t])
         /\ ini' = IniMap(n, t, v) => Changed(n, ini[n].pc, ini[n].mpc, t, v)
         /\ ini' = IniHears(n, t, v) => Changed(n, "get", ini[n].mpc, t, v)
<1>1. PICK s \in IniShape(n) : s = ini[n]
  BY DEF IniOK
<1>2. s.pc # "get" => s.txn \in Payloads(n)
  BY <1>1 DEF IniOK
<1>3. PICK g : g = [s.map EXCEPT ![t] = v]
  OBVIOUS
<1>4. /\ g \in [Payloads(n) -> {"absent", "ACCEPTED", "END_REQ", "UPDATED"}] /\ g[t] = v
      /\ \A tx \in Payloads(n) : tx # t => g[tx] = s.map[tx]
  <2>1. s.map \in [Payloads(n) -> {"absent", "ACCEPTED", "END_REQ", "UPDATED"}]
    BY DEF IniShape
  <2> HIDE DEF Payloads
  <2> QED BY <1>3, <2>1
<1>5. ASSUME NEW r \in IniShape(n), r.pc # "get" => r.txn \in Payloads(n), ini' = [ini EXCEPT ![n] = r]
      PROVE  IniOK' /\ ini'[n] = r /\ \A m \in Initiator : m # n => ini'[m] = ini[m]
  <2> HIDE DEF IniOK, IniShape, Payloads
  <2> QED BY <1>5, IniMoved, Zenon
<1>6. ASSUME ini' = IniPc(n, x), x # "get" => ini[n].txn \in Payloads(n)
      PROVE  Changed(n, x, ini[n].mpc, t, ini[n].map[t])
  <2>1. PICK r : r = [s EXCEPT !.pc = x]
    OBVIOUS
  <2>2. r \in IniShape(n) /\ r.pc = x /\ r.txn = s.txn /\ r.mpc = s.mpc /\ r.map = s.map
    <3> HIDE DEF Payloads
    <3> QED BY <2>1, Zenon DEF IniShape
  <2>3. ini' = [ini EXCEPT ![n] = r]
    BY <1>1, <1>6, <2>1 DEF IniOK, IniPc
  <2> HIDE DEF IniOK, IniShape, Payloads
  <2>4. IniOK' /\ ini'[n] = r /\ \A m \in Initiator : m # n => ini'[m] = ini[m]
    BY <1>1, <1>5, <1>6, <2>2, <2>3, Zenon
  <2> QED BY <1>1, <2>2, <2>4 DEF Changed
<1>7. ASSUME ini' = IniMpc(n, y)
      PROVE  Changed(n, ini[n].pc, y, t, ini[n].map[t])
  <2>1. PICK r : r = [s EXCEPT !.mpc = y]
    OBVIOUS
  <2>2. r \in IniShape(n) /\ r.pc = s.pc /\ r.txn = s.txn /\ r.mpc = y /\ r.map = s.map
    <3> HIDE DEF Payloads
    <3> QED BY <2>1, Zenon DEF IniShape
  <2>3. ini' = [ini EXCEPT ![n] = r]
    BY <1>1, <1>7, <2>1 DEF IniOK, IniMpc
  <2> HIDE DEF IniOK, IniShape, Payloads
  <2>4. IniOK' /\ ini'[n] = r /\ \A m \in Initiator : m # n => ini'[m] = ini[m]
    BY <1>2, <1>5, <2>2, <2>3, Zenon
  <2> QED BY <1>1, <2>2, <2>4 DEF Changed
<1>8. ASSUME ini' = IniMap(n, t, v)
      PROVE  Changed(n, ini[n].pc, ini[n].mpc, t, v)
  <2>1. PICK r : r = [s EXCEPT !.map = g]
    OBVIOUS
  <2>2. r \in IniShape(n) /\ r.pc = s.pc /\ r.txn = s.txn /\ r.mpc = s.mpc /\ r.map = g
    <3> HIDE DEF Payloads
    <3> QED BY <1>4, <2>1, Zenon DEF IniShape
  <2>3. ini' = [ini EXCEPT ![n] = r]
    BY <1>1, <1>3, <1>8, <2>1 DEF IniOK, IniMap
  <2> HIDE DEF IniOK, IniShape, Payloads
  <2>4. IniOK' /\ ini'[n] = r /\ \A m \in Initiator : m # n => ini'[m] = ini[m]
    BY <1>2, <1>5, <2>2, <2>3, Zenon
  <2> QED BY <1>1, <1>4, <2>2, <2>4 DEF Changed
<1>9. ASSUME ini' = IniHears(n, t, v)
      PROVE  Changed(n, "get", ini[n].mpc, t, v)
  <2>1. PICK r : r = [s EXCEPT !.pc = "get", !.map = g]
    OBVIOUS
  <2>2. r \in IniShape(n) /\ r.pc = "get" /\ r.txn = s.txn /\ r.mpc = s.mpc /\ r.map = g
    <3> HIDE DEF Payloads
    <3> QED BY <1>4, <2>1, Zenon DEF IniShape
  <2>3. ini' = [ini EXCEPT ![n] = r]
    BY <1>1, <1>3, <1>9, <2>1 DEF IniOK, IniHears
  <2> HIDE DEF IniOK, IniShape, Payloads
  <2>4. IniOK' /\ ini'[n] = r /\ \A m \in Initiator : m # n => ini'[m] = ini[m]
    BY <1>5, <2>2, <2>3, Zenon
  <2> QED BY <1>1, <1>4, <2>2, <2>4 DEF Changed
<1> HIDE DEF Changed, IniPc, IniMpc, IniMap, IniHears
<1> QED BY <1>6, <1>7, <1>8, <1>9

\* What follows for the payload it concerns.
LEMMA ChangedPlaces ==
  ASSUME NEW n \in Initiator, NEW x, NEW y, NEW t \in Txn, NEW v, Changed(n, x, y, t, v), Owner(t) = n
  PROVE  /\ Sending(t)' <=> (x = "sent" /\ ini[n].txn = t)
         /\ Returning(t)' <=> (x = "respond" /\ ini[n].txn = t)
         /\ Heard(t)' <=> v # "absent"
         /\ Closing(t)' <=> (y = "sent" /\ link'.txn = t)
         /\ ini'[Owner(t)].map[t] = v
BY DEF Changed, Sending, Returning, Heard, Closing

\* What follows for the others.
LEMMA ChangedOthers ==
  ASSUME NEW n \in Initiator, NEW x, NEW y, NEW t \in Txn, NEW v, Changed(n, x, y, t, v), Owner(t) = n,
         ini[n].pc = "respond" /\ ini[n].txn # t => x = "respond",
         x = "respond" => ini[n].pc = "respond" \/ ini[n].txn = t
  PROVE  \A tx \in Txn : tx # t => /\ Returning(tx)' <=> Returning(tx)
                                   /\ ini'[Owner(tx)].map[tx] = ini[Owner(tx)].map[tx]
<1>1. /\ ini'[n].pc = x /\ ini'[n].txn = ini[n].txn
      /\ \A m \in Initiator : m # n => ini'[m] = ini[m]
      /\ \A tx \in Payloads(n) : tx # t => ini'[n].map[tx] = ini[n].map[tx]
  BY DEF Changed
<1>2. PICK r : r = ini'[n]
  OBVIOUS
<1>3. \A tx \in Payloads(n) : tx # t => /\ r.map[tx] = ini[n].map[tx]
                                        /\ r.pc = "respond" /\ r.txn = tx <=> ini[n].pc = "respond" /\ ini[n].txn = tx
  BY <1>1, <1>2
<1> QED BY <1>1, <1>2, <1>3, InitiatorMoves

\* What follows for the callers.
LEMMA ChangedCallers ==
  ASSUME NEW n \in Initiator, NEW x, NEW y, NEW t, NEW v, Changed(n, x, y, t, v), tgt' = tgt, bus' = bus
  PROVE  /\ y = ini[n].mpc => \A p \in Process : p # Ini(n) => (Calling(p)' <=> Calling(p))
         /\ x = ini[n].pc => \A p \in Process : p # EndRsp(n) => (Calling(p)' <=> Calling(p))
<1>1. /\ ini'[n].pc = x /\ ini'[n].mpc = y /\ \A m \in Initiator : m # n => ini'[m] = ini[m]
  BY DEF Changed
<1>2. y = ini[n].mpc => \A p \in Process : p # Ini(n) => (Calling(p)' <=> Calling(p))
  BY <1>1 DEF Calling, Ini
<1>3. x = ini[n].pc => \A p \in Process : p # EndRsp(n) => (Calling(p)' <=> Calling(p))
  BY <1>1 DEF Calling, EndRsp
<1> QED BY <1>2, <1>3

\* The thread returns from its call.
LEMMA RequestReturns ==
  ASSUME AtCore, NEW n \in Initiator, simc.cur = Ini(n), ini[n].pc = "sent", Answered, link' = NoCall,
         UNCHANGED <<tg, bus, tgt, gp, pool, peq, fifo>>, KernelInv(LongestDelay, simc'), fatal' \in BOOLEAN,
         NEW x \in {"get", "respond"}, NEW v, Changed(n, x, ini[n].mpc, link.txn, v)
  PROVE  Types' /\ Calls'
<1>1. Types /\ Calls
  BY DEF AtCore
<1>2. Ini(n) \in Process /\ ~Calling(Ini(n))'
  <2>1. ini'[n].pc # "sent"
    BY DEF Changed
  <2> HIDE DEF Calling, Process
  <2> QED BY <2>1, CallingNames, AtNames
<1>3. \A p \in Process : p # Ini(n) => (Calling(p)' <=> Calling(p))
  <2>1. ini'[n].mpc = ini[n].mpc /\ \A m \in Initiator : m # n => ini'[m] = ini[m]
    BY DEF Changed
  <2> QED BY <2>1 DEF Calling, Ini
<1>4. Calls'
  <2> HIDE DEF Calls, Calling, Process, NoCall, AtCore
  <2> QED BY <1>1, <1>2, <1>3, CallsReturned
<1>5. GpOK' /\ BusOK' /\ TgtOK' /\ PeqOK' /\ Shapes' /\ IniOK'
  <2>1. IniOK'
    BY DEF Changed
  <2> HIDE DEF Types, GpOK, IniOK, BusOK, TgtOK, PeqOK, Shapes, AtCore, Changed
  <2> QED BY <1>1, <2>1, TypesKept
<1> QED BY <1>4, <1>5 DEF Types

\* What it knows of the payload of its call.
LEMMA SendingFacts ==
  ASSUME AtCore, NEW n \in Initiator, ini[n].pc = "sent", Answered
  PROVE  /\ link # NoCall /\ link.status # "called" /\ link.txn = ini[n].txn /\ link.txn \in Txn
         /\ link.txn \in Payloads(n) /\ Owner(link.txn) = n /\ Sending(link.txn) /\ About(link.txn)
         /\ ini[n].mpc # "sent" /\ simc.cur = Ini(n) /\ KernelInv(LongestDelay, simc) /\ fatal \in BOOLEAN /\ IniOK
         /\ \/ Accepted("BEGIN_REQ")
            \/ Direct /\ Wiring # "bus" /\ ReqEnds
            \/ Direct /\ Wiring # "bus" /\ Complete
<1>1. Types /\ Calls
  BY DEF AtCore
<1>2. link # NoCall /\ simc.cur = Ini(n) /\ RequestCall(n)
  <2> HIDE DEF NoCall, AtCore, RequestCall
  <2> QED BY CallerFacts
<1>3. link.status # "called" /\ link.txn = ini[n].txn
  BY <1>2 DEF Answered, RequestCall
<1>4. IniOK /\ link.txn \in Payloads(n) /\ KernelInv(LongestDelay, simc) /\ fatal \in BOOLEAN
  BY <1>1, <1>3 DEF Types, IniOK
<1>5. link.txn \in Txn /\ Owner(link.txn) = n
  BY <1>4, OwnerFacts
<1>6. ini[n].mpc # "sent"
  <2>1. Calling(Ini(n)) /\ Ini(n) \in Process /\ EndRsp(n) \in Process /\ Ini(n) # EndRsp(n)
    <3>1. Ini(n) # EndRsp(n)
      BY DEF Ini, EndRsp
    <3> HIDE DEF Calling, Process
    <3> QED BY <3>1, CallingNames, AtNames
  <2>2. ~Calling(EndRsp(n))
    <3> HIDE DEF Calling, Process, Calls
    <3> QED BY <1>1, <2>1, InCall
  <2> HIDE DEF Calling
  <2> QED BY <2>2, CallingNames
<1>7. Sending(link.txn) /\ About(link.txn)
  BY <1>2, <1>3, <1>5 DEF Sending, About
<1>8. \/ Accepted("BEGIN_REQ")
      \/ Direct /\ Wiring # "bus" /\ ReqEnds
      \/ Direct /\ Wiring # "bus" /\ Complete
  BY <1>2, <1>3, Bindings DEF RequestCall, Open
<1> QED BY <1>2, <1>3, <1>4, <1>5, <1>6, <1>7, <1>8

\* The answer begins no wait for END_REQ: the request goes on in the target, and
\* the map tells that the response is to come.
LEMMA RequestHeard ==
  ASSUME AtCore, NEW n \in Initiator, UNCHANGED <<tg, bus, tgt>>, RequestUpdated(n) \/ RequestAccepted(n)
  PROVE  AtCore'
<1>1. /\ simc.cur = Ini(n) /\ ini[n].pc = "sent" /\ Answered /\ link' = NoCall /\ UNCHANGED <<peq, fifo, gp, pool>>
  BY DEF RequestUpdated, RequestAccepted, Executing
<1>2. PICK t \in Txn : t = link.txn
  BY <1>1, SendingFacts
<1>3. /\ link # NoCall /\ link.status # "called" /\ t = ini[n].txn
      /\ t \in Payloads(n) /\ Owner(t) = n /\ Sending(t) /\ About(t)
      /\ ini[n].mpc # "sent" /\ KernelInv(LongestDelay, simc) /\ fatal \in BOOLEAN /\ IniOK
      /\ \/ Accepted("BEGIN_REQ")
         \/ Direct /\ Wiring # "bus" /\ ReqEnds
         \/ Direct /\ Wiring # "bus" /\ Complete
  <2> HIDE DEF AtCore, Sending, About, KernelInv, IniOK, Accepted, ReqEnds, Complete, NoCall
  <2> QED BY <1>1, <1>2, SendingFacts
<1>4. Ini(n) \in Thread /\ Enable(n) \in Event /\ AcceptDelay \in 0..LongestDelay
  BY AtNames, AtNumbers
<1>5. PICK v \in {"ACCEPTED", "END_REQ", "UPDATED"} :
        /\ ini' = IniHears(n, t, v) /\ (Wiring = "bus" => v # "UPDATED")
        /\ KernelInv(LongestDelay, simc') /\ fatal' \in BOOLEAN
        /\ ~Reports(t)
  <2>1. CASE RequestAccepted(n)
    <3>1. link.status = "ACCEPTED" /\ ini' = IniHears(n, t, "ACCEPTED") /\ simc' = Wait(simc, Ini(n), Enable(n)) /\ fatal' = fatal
      BY <1>2, <2>1 DEF RequestAccepted, AwaitEnable, IniHears
    <3>2. KernelInv(LongestDelay, simc')
      <4> HIDE DEF KernelInv, Thread, Event
      <4> QED BY <1>3, <1>4, <3>1, AtKernel
    <3>3. ~Reports(t)
      BY <3>1 DEF Reports
    <3> HIDE DEF KernelInv, Reports, IniHears
    <3> QED BY <1>3, <3>1, <3>2, <3>3
  <2>2. CASE RequestUpdated(n)
    <3>1. link.status = "UPDATED"
      BY <2>2 DEF RequestUpdated
    <3>2. Direct /\ Wiring # "bus" /\ ReqEnds
      BY <1>3, <3>1 DEF Accepted, Complete
    <3>3. link.phase = "END_REQ" /\ link.delay = AcceptDelay
      BY <3>2 DEF ReqEnds
    <3>4. /\ ini' = IniHears(n, t, IF ini[n].kind = "select" THEN "UPDATED" ELSE "END_REQ")
          /\ simc' = WaitTime(simc, Ini(n), AcceptDelay) /\ fatal' \in BOOLEAN
      BY <1>2, <2>2, <3>3 DEF RequestUpdated, IniHears
    <3>5. KernelInv(LongestDelay, simc')
      <4> HIDE DEF KernelInv, Thread, Event
      <4> QED BY <1>3, <1>4, <3>4, AtKernel
    <3>6. ~Reports(t)
      BY <3>1 DEF Reports
    <3> HIDE DEF KernelInv, Reports, IniHears
    <3> QED BY <3>2, <3>4, <3>5, <3>6
  <2> QED BY <2>1, <2>2
<1>6. Changed(n, "get", ini[n].mpc, t, v)
  <2> HIDE DEF IniOK, Payloads, Changed, IniHears, IniPc, IniMpc, IniMap
  <2> QED BY <1>3, <1>5, IniChanges
<1>7. Types' /\ Calls'
  <2> HIDE DEF AtCore, Types, Calls, Changed, NoCall, KernelInv, Answered
  <2> QED BY <1>1, <1>2, <1>5, <1>6, RequestReturns
<1>8. /\ ~Sending(t)' /\ ~Returning(t)' /\ Heard(t)' /\ ~Closing(t)'
      /\ (Wiring = "bus" => ini'[Owner(t)].map[t] # "UPDATED")
      /\ \A tx \in Txn : tx # t => /\ Returning(tx)' <=> Returning(tx)
                                   /\ ini'[Owner(tx)].map[tx] = ini[Owner(tx)].map[tx]
  <2>1. PICK x, y : x = "get" /\ y = ini[n].mpc
    OBVIOUS
  <2>2. Changed(n, x, y, t, v) /\ tgt' = tgt /\ bus' = bus
    BY <1>6, <2>1
  <2> HIDE DEF Changed, Sending, Returning, Heard, Closing
  <2>3. /\ Sending(t)' <=> (x = "sent" /\ ini[n].txn = t)
        /\ Returning(t)' <=> (x = "respond" /\ ini[n].txn = t)
        /\ Heard(t)' <=> v # "absent"
        /\ Closing(t)' <=> (y = "sent" /\ link'.txn = t)
        /\ ini'[Owner(t)].map[t] = v
    BY <1>3, <2>2, ChangedPlaces
  <2>4. \A tx \in Txn : tx # t => /\ Returning(tx)' <=> Returning(tx)
                                  /\ ini'[Owner(tx)].map[tx] = ini[Owner(tx)].map[tx]
    BY <1>1, <1>3, <2>1, <2>2, ChangedOthers
  <2> QED BY <1>3, <1>5, <2>1, <2>3, <2>4
<1>9. Wiring = "bus" => Tracked(t)
  <2>1. Tracking(t)
    BY <1>2 DEF AtCore, PayloadInv
  <2> HIDE DEF Tracked, Sending, About, Heard, Telling, Known, Responding
  <2> QED BY <1>3, <2>1 DEF Tracking
<1>10. /\ ~Asks(t)' /\ ~Reports(t)' /\ ~Responds(t)' /\ ~EndsReq(t)' /\ ~Telling(t)'
  <2> HIDE DEF Asks, Reports, Responds, EndsReq, Telling
  <2> QED BY <1>1, CallOver
<1>11. Waiting(t)
  BY <1>3 DEF Waiting
<1> HIDE DEF AtCore, Types, Calls, Waiting, Reports, Heard, Sending, Returning, Closing, Tracked, Asks, Responds, EndsReq,
             Telling, NoCall
<1> QED BY <1>1, <1>2, <1>5, <1>7, <1>8, <1>9, <1>10, <1>11, HearsCore

\* The answer says that the request was carried out: the response waits for its
\* delay.
LEMMA RequestDone ==
  ASSUME AtCore, NEW n \in Initiator, UNCHANGED <<tg, bus, tgt>>, RequestCompleted(n)
  PROVE  AtCore'
<1>1. /\ simc.cur = Ini(n) /\ ini[n].pc = "sent" /\ Answered /\ link.status = "COMPLETED"
      /\ link' = NoCall /\ UNCHANGED <<peq, fifo, gp, pool, fatal>>
      /\ ini' = IniPc(n, "respond") /\ simc' = WaitTime(simc, Ini(n), link.delay + EndRspDelay)
  BY DEF RequestCompleted, Executing, IniPc
<1>2. PICK t \in Txn : t = link.txn
  BY <1>1, SendingFacts
<1>3. /\ link # NoCall /\ link.status # "called" /\ t = ini[n].txn
      /\ t \in Payloads(n) /\ Owner(t) = n /\ Sending(t) /\ About(t)
      /\ ini[n].mpc # "sent" /\ KernelInv(LongestDelay, simc) /\ fatal \in BOOLEAN /\ IniOK
      /\ \/ Accepted("BEGIN_REQ")
         \/ Direct /\ Wiring # "bus" /\ ReqEnds
         \/ Direct /\ Wiring # "bus" /\ Complete
  <2> HIDE DEF AtCore, Sending, About, KernelInv, IniOK, Accepted, ReqEnds, Complete, NoCall
  <2> QED BY <1>1, <1>2, SendingFacts
<1>4. Wiring # "bus" /\ link.phase = "BEGIN_REQ" /\ link.delay + EndRspDelay <= LongestDelay
  BY <1>1, <1>3 DEF Accepted, ReqEnds, Complete
<1>5. KernelInv(LongestDelay, simc')
  <2>1. link \in LinkShape
    <3> HIDE DEF AtCore, NoCall
    <3> QED BY <1>3, Callers
  <2>2. PICK d : d = link.delay + EndRspDelay
    OBVIOUS
  <2>3. d \in 0..LongestDelay
    BY <1>4, <2>1, <2>2, AtNumbers DEF LinkShape
  <2>4. Ini(n) \in Thread
    BY AtNames
  <2> HIDE DEF KernelInv, Thread
  <2> QED BY <1>1, <1>3, <2>2, <2>3, <2>4, AtKernel
<1>6. PICK v : v = ini[n].map[t]
  OBVIOUS
<1>7. Changed(n, "respond", ini[n].mpc, t, v)
  <2>1. PICK w \in {"absent", "ACCEPTED", "END_REQ", "UPDATED"} : TRUE
    OBVIOUS
  <2>2. ini[n].txn \in Payloads(n)
    BY <1>3
  <2> HIDE DEF IniOK, Payloads, Changed, IniHears, IniPc, IniMpc, IniMap
  <2> QED BY <1>1, <1>3, <1>6, <2>1, <2>2, IniChanges
<1>8. Types' /\ Calls'
  <2> HIDE DEF AtCore, Types, Calls, Changed, NoCall, KernelInv, Answered
  <2> QED BY <1>1, <1>2, <1>3, <1>5, <1>7, RequestReturns
<1>9. PayloadInv(t)
  BY DEF AtCore
<1>10. Reports(t) /\ CarriedOut(t) /\ ~Heard(t) /\ ~Ending(t) /\ (\A q \in Peq : t \notin Queued(q))
  <2>1. Reports(t)
    BY <1>1, <1>3, <1>4 DEF Reports
  <2>2. CarriedOut(t) /\ ~Heard(t) /\ ~Ending(t)
    <3> HIDE DEF Reports, CarriedOut, Heard, Ending, Sending, Returning, Closing
    <3> QED BY <1>3, <1>9, <2>1 DEF PayloadInv, InTransit, OneHand
  <2> HIDE DEF Reports, CarriedOut, Heard, Ending, Queued, Peq, PayloadInv
  <2> QED BY <1>9, <2>1, <2>2, QueueFacts
<1>11. PICK x, y : x = "respond" /\ y = ini[n].mpc
  OBVIOUS
<1>12. Changed(n, x, y, t, v)
  BY <1>7, <1>11
<1>13. ~Sending(t)' /\ Returning(t)' /\ ~Heard(t)' /\ ~Closing(t)'
  <2> HIDE DEF Changed, Sending, Returning, Heard, Closing
  <2>1. /\ Sending(t)' <=> (x = "sent" /\ ini[n].txn = t)
        /\ Returning(t)' <=> (x = "respond" /\ ini[n].txn = t)
        /\ Heard(t)' <=> v # "absent"
        /\ Closing(t)' <=> (y = "sent" /\ link'.txn = t)
        /\ ini'[Owner(t)].map[t] = v
    BY <1>3, <1>12, ChangedPlaces
  <2>2. v = "absent"
    BY <1>3, <1>6, <1>10 DEF Heard
  <2> QED BY <1>3, <1>11, <2>1, <2>2
<1>14. \A tx \in Txn : tx # t => /\ Returning(tx)' <=> Returning(tx)
                                 /\ ini'[Owner(tx)].map[tx] = ini[Owner(tx)].map[tx]
  <2> HIDE DEF Changed, Returning
  <2> QED BY <1>1, <1>3, <1>11, <1>12, ChangedOthers
<1>15. \A tx \in Txn : /\ Known(tx)' <=> Known(tx)
                       /\ Tracked(tx)' <=> Tracked(tx)
                       /\ Responding(tx)' <=> Responding(tx)
                       /\ \A q \in Peq : (tx \in Queued(q))' <=> tx \in Queued(q)
                       /\ gp'[tx] = gp[tx]
                       /\ bus'.pending[tx].known = bus.pending[tx].known
                       /\ bus'.pending[tx].from = bus.pending[tx].from
  <2> HIDE DEF Known, Tracked, Responding, Queued, Peq
  <2> QED BY <1>1, BusSame, PeqSame
<1>16. ~Ending(t)' /\ (\A q \in Peq : t \notin Queued(q)')
  <2>1. EndRspPeq(Owner(t)) \in Peq
    BY OwnerFacts, AtNames
  <2> HIDE DEF Queued, Peq
  <2> QED BY <1>10, <1>15, <2>1 DEF Ending
<1>17. InHand(t)
  BY <1>3 DEF InHand
<1>18. Held(t) = 1 /\ gp[t].rc # 0
  <2> HIDE DEF PayloadInv, Held, Away, HeldBy, Outgoing, Incoming, Pooled, Asked, CarriedOut, AtCore, InHand
  <2> QED BY <1>17, InHandFacts
<1>19. Held(t)' = 1 /\ gp'[t] = gp[t] /\ CarriedOut(t)'
  BY <1>10, <1>15, <1>18 DEF Held, BusHolds, CarriedOut
<1>20. \A tx : ~About(tx)' /\ ~Asks(tx)' /\ ~Reports(tx)' /\ ~Responds(tx)' /\ ~EndsReq(tx)' /\ ~Telling(tx)'
  <2> HIDE DEF About, Asks, Reports, Responds, EndsReq, Telling, NoCall
  <2> QED BY <1>1, CallOver
<1> HIDE DEF Known, Tracked, Responding, Sending, Returning, Heard, Closing, Ending, Queued, CarriedOut, Peq,
             Asks, Reports, Responds, EndsReq, Telling, About, NoCall, Asked, Held
<1>21. OneHand(t)' /\ InHand(t)' /\ InTransit(t)' /\ InQueues(t)'
  <2>1. OneHand(t)' /\ InHand(t)'
    BY <1>13, <1>16, Zenon DEF OneHand, InHand
  <2>2. InTransit(t)' /\ InQueues(t)'
    BY <1>16, <1>20 DEF InTransit, InQueues
  <2> QED BY <2>1, <2>2
<1>22. Tracking(t)'
  <2>1. ~Known(t) /\ ~Tracked(t) /\ ~Responding(t)
    BY <1>4, <1>9 DEF PayloadInv, Tracking
  <2> QED BY <1>4, <1>15, <2>1 DEF Tracking
<1>23. \A q \in Peq : Once(peq'[q])
  BY <1>1 DEF AtCore
<1> HIDE DEF InHand, Calls, Types, PayloadInv, Once, OneHand, InTransit, InQueues, Tracking, AtCore
<1>24. gp'[t].rc # 0 /\ gp'[t].cmd = gp[t].cmd /\ gp'[t].addr = gp[t].addr /\ CarriedOut(t)'
  BY <1>18, <1>19
<1> QED BY <1>1, <1>2, <1>8, <1>14, <1>15, <1>17, <1>19, <1>21, <1>22, <1>23, <1>24, StaysInHand

\* What is left to show of the shapes when a payload goes to the response fifo.
LEMMA HandsTypes ==
  ASSUME AtCore, UNCHANGED <<tg, pool, gp, bus, peq, tgt>>, NEW t \in Txn, InHand(t), NEW n \in Initiator, n = Owner(t),
         fifo' = FifoWrite(RspCh(n), t), IniOK', KernelInv(LongestDelay, simc'), fatal' \in BOOLEAN
  PROVE  Types'
<1>1. t \in Away(n) /\ Types
  <2>1. t \in Away(Owner(t))
    <3> HIDE DEF AtCore, InHand, Away, PayloadInv, Held, HeldBy, Outgoing, Incoming, Pooled, Asked, CarriedOut
    <3> QED BY InHandFacts
  <2> QED BY <2>1 DEF AtCore
<1>2. PICK a, h : a = Away(n) /\ h = HeldBy(n)
  OBVIOUS
<1>3. Shapes /\ Accounted(n, a, h) /\ t \in a
  BY <1>1, <1>2 DEF AtCore, Types
<1>4. Shapes'
  <2> HIDE DEF Shapes, Accounted
  <2> QED BY <1>3, ResponseGiven
<1>5. GpOK' /\ BusOK' /\ TgtOK' /\ PeqOK'
  <2> HIDE DEF Types, GpOK, IniOK, BusOK, TgtOK, PeqOK, Shapes, AtCore
  <2> QED BY <1>1, TypesKept
<1> QED BY <1>4, <1>5 DEF Types

\* After the delay the payload goes back to its generator.
LEMMA ReturnedCore ==
  ASSUME AtCore, NEW n \in Initiator, UNCHANGED <<tg, bus, tgt>>, AfterDelay(n)
  PROVE  AtCore'
<1>0. Types /\ Calls
  BY DEF AtCore
<1>1. simc.cur = Ini(n) /\ ini[n].pc = "respond" /\ IniOK
  <2>1. IniOK
    BY <1>0 DEF Types
  <2>2. ini[n].pc \in {"get", "sent", "respond"}
    BY <2>1 DEF IniOK, IniShape
  <2> QED BY <2>1, <2>2 DEF AfterDelay, Executing
<1>2. PICK t \in Txn : t = ini[n].txn /\ t \in Payloads(n) /\ Owner(t) = n
  <2>1. ini[n].txn \in Payloads(n)
    BY <1>1 DEF IniOK
  <2> QED BY <2>1, OwnerFacts
<1>3. /\ fatal' \in BOOLEAN /\ fifo' = FifoWrite(RspCh(n), t) /\ simc' = RequestUpdate(simc, RspCh(n)) /\ peq' = peq
      /\ ini' = IniPc(n, "get") /\ UNCHANGED <<link, gp, pool>>
  BY <1>1, <1>2 DEF AfterDelay, Respond, Rsp, RspCh, IniPc
<1>4. /\ link = NoCall /\ \A p \in Process : ~Calling(p)
  <2>1. ~Calling(simc.cur)
    BY <1>1, Idle
  <2> HIDE DEF Calls, Calling, Process
  <2> QED BY <1>0, <2>1, NotCalling
<1>5. PICK x, y, v : x = "get" /\ y = ini[n].mpc /\ v = ini[n].map[t]
  OBVIOUS
<1>6. Changed(n, x, y, t, v)
  <2>1. PICK w \in {"absent", "ACCEPTED", "END_REQ", "UPDATED"} : TRUE
    OBVIOUS
  <2> HIDE DEF IniOK, Payloads, Changed, IniHears, IniPc, IniMpc, IniMap
  <2> QED BY <1>1, <1>2, <1>3, <1>5, <2>1, IniChanges
<1>7. PayloadInv(t) /\ Returning(t)
  BY <1>1, <1>2 DEF AtCore, Returning
<1>8. /\ InHand(t) /\ CarriedOut(t) /\ ~Heard(t) /\ ~Sending(t) /\ (\A q \in Peq : t \notin Queued(q))
      /\ (Wiring = "bus" => ~Tracked(t))
  <2>1. CarriedOut(t) /\ ~Heard(t) /\ InHand(t)
    <3> HIDE DEF CarriedOut, Heard, Ending, Sending, Returning, Closing
    <3> QED BY <1>7 DEF PayloadInv, Contents, OneHand, InHand
  <2>2. ~Sending(t)
    BY <1>1, <1>2 DEF Sending
  <2>3. \A q \in Peq : t \notin Queued(q)
    <3> HIDE DEF Returning, Closing, Ending, Queued, Peq, PayloadInv
    <3> QED BY <1>7, QueueFacts
  <2>4. Wiring = "bus" => ~Tracked(t)
    <3> HIDE DEF Tracked, Heard, Sending, About, Telling, Known, Responding
    <3> QED BY <1>7, <2>1, <2>2 DEF PayloadInv, Tracking
  <2> QED BY <2>1, <2>2, <2>3, <2>4
<1>9. IniOK' /\ \A p \in Process : Calling(p)' => Calling(p)
  <2>1. IniOK' /\ ini'[n].pc = "get"
    BY <1>5, <1>6 DEF Changed
  <2>2. \A p \in Process : p # Ini(n) => (Calling(p)' <=> Calling(p))
    <3> HIDE DEF Changed, Calling, Process
    <3> QED BY <1>5, <1>6, ChangedCallers
  <2>3. ~Calling(Ini(n))'
    <3> HIDE DEF Calling
    <3> QED BY <2>1, CallingNames
  <2> HIDE DEF IniOK, Calling, Process
  <2> QED BY <2>1, <2>2, <2>3
<1>10. Calls'
  <2> HIDE DEF Calls, Calling, Process, NoCall
  <2> QED BY <1>0, <1>3, <1>4, <1>9, CallsQuiet
<1>11. KernelInv(LongestDelay, simc')
  <2>1. KernelInv(LongestDelay, simc)
    BY <1>0 DEF Types
  <2> HIDE DEF KernelInv, Channel
  <2> QED BY <1>3, <2>1, ChannelFacts, AtKernel
<1>12. Types'
  <2> HIDE DEF AtCore, Types, KernelInv, IniOK, InHand
  <2> QED BY <1>2, <1>3, <1>8, <1>9, <1>11, HandsTypes
<1>13. ~Sending(t)' /\ ~Returning(t)' /\ ~Heard(t)' /\ ~Closing(t)'
  <2>1. Ini(n) \in Process /\ EndRsp(n) \in Process
    BY AtNames
  <2>2. y # "sent"
    <3> HIDE DEF Calling, Process
    <3> QED BY <1>4, <1>5, <2>1, CallingNames
  <2>3. v = "absent"
    BY <1>2, <1>5, <1>8 DEF Heard
  <2> HIDE DEF Changed, Sending, Returning, Heard, Closing
  <2>4. /\ Sending(t)' <=> (x = "sent" /\ ini[n].txn = t)
        /\ Returning(t)' <=> (x = "respond" /\ ini[n].txn = t)
        /\ Heard(t)' <=> v # "absent"
        /\ Closing(t)' <=> (y = "sent" /\ link'.txn = t)
        /\ ini'[Owner(t)].map[t] = v
    BY <1>2, <1>6, ChangedPlaces
  <2> QED BY <1>5, <2>2, <2>3, <2>4
<1>14. \A tx \in Txn : tx # t => /\ Returning(tx)' <=> Returning(tx)
                                 /\ ini'[Owner(tx)].map[tx] = ini[Owner(tx)].map[tx]
  <2> HIDE DEF Changed, Returning
  <2> QED BY <1>1, <1>2, <1>5, <1>6, ChangedOthers
<1>15. \A tx : ~Asks(tx)' /\ ~Reports(tx)' /\ ~Responds(tx)' /\ ~EndsReq(tx)'
  <2> HIDE DEF Asks, Reports, Responds, EndsReq, NoCall
  <2> QED BY <1>3, <1>4, CallOver
<1> HIDE DEF InHand, CarriedOut, Heard, Sending, Returning, Closing, Tracked, Asks, Reports, Responds, EndsReq, Queued, Peq,
             AtCore, Types, Calls, NoCall
<1> QED BY <1>2, <1>3, <1>4, <1>8, <1>10, <1>12, <1>13, <1>14, <1>15, HandsOver

\* An initiator answers a call.
LEMMA InitiatorAnswers ==
  ASSUME AtCore, NEW n \in Initiator, Called(ToInitiator(n)), NEW t, NEW v, Changed(n, ini[n].pc, ini[n].mpc, t, v),
         NEW status, NEW phase, NEW delay \in 0..LongestDelay, link' = Answer(status, phase, delay),
         Valid(status, phase, delay), simc'.cur = simc.cur, tgt' = tgt, bus' = bus
  PROVE  /\ Calls' /\ link'.status # "called" /\ link' # NoCall /\ link'.txn = link.txn
         /\ link'.status = status /\ link'.phase = phase
<1>1. Calls
  BY DEF AtCore
<1>2. SamePcs
  BY DEF SamePcs, Changed
<1>3. link # NoCall /\ link.status = "called"
  <2>1. link # NoCall
    <3> HIDE DEF AtCore, NoCall, Called
    <3> QED BY InitiatorCalled
  <2> QED BY <2>1 DEF Called
<1> HIDE DEF Calls, NoCall, SamePcs, Valid, AtCore, Changed
<1> QED BY <1>1, <1>2, <1>3, CallsAnswered

\* What the initiator knows of the payload of a call it gets.
LEMMA CalledFacts ==
  ASSUME AtCore, NEW n \in Initiator, Called(ToInitiator(n)), NEW t, t = link.txn
  PROVE  /\ link # NoCall /\ t \in Txn /\ t \in Payloads(n) /\ Owner(t) = n /\ link.delay = 0
         /\ ini[n].pc # "sent" /\ ini[n].mpc # "sent" /\ link.status = "called" /\ link.callee = ToInitiator(n)
         /\ PayloadInv(t) /\ IniOK /\ KernelInv(LongestDelay, simc) /\ Enable(n) \in Event /\ PeqOK
         /\ link.phase = "END_REQ" => EndsReq(t) /\ ~Telling(t)
         /\ link.phase = "BEGIN_RESP" => Responds(t) /\ Telling(t) /\ CarriedOut(t) /\ \A q \in Peq : t \notin Queued(q)
         /\ Heard(t) /\ ~Sending(t) /\ ~Returning(t) /\ ~Closing(t) /\ ~Reports(t) /\ ~Ending(t)
         /\ InHand(t) /\ Waiting(t) /\ link.phase \in {"END_REQ", "BEGIN_RESP"}
<1>1. /\ link # NoCall /\ t \in Txn /\ t \in Payloads(n) /\ Owner(t) = n /\ link.delay = 0
      /\ ini[n].pc # "sent" /\ ini[n].mpc # "sent" /\ link.phase \in {"END_REQ", "BEGIN_RESP"}
  <2> HIDE DEF AtCore, NoCall, Called, Payloads
  <2> QED BY InitiatorCalled
<1>2. link.status = "called" /\ link.callee = ToInitiator(n)
  BY DEF Called
<1>3. PayloadInv(t) /\ IniOK /\ KernelInv(LongestDelay, simc) /\ Enable(n) \in Event /\ PeqOK
  BY <1>1, AtNames DEF AtCore, Types
<1>4. About(t) /\ ~Reports(t)
  BY <1>1, <1>2 DEF About, Reports
<1>5. /\ link.phase = "END_REQ" => EndsReq(t) /\ ~Telling(t)
      /\ link.phase = "BEGIN_RESP" => Responds(t) /\ Telling(t)
  BY <1>1, <1>2, <1>4 DEF EndsReq, Responds, Telling
<1>6. ~Sending(t) /\ ~Closing(t)
  BY <1>1 DEF Sending, Closing
<1>7. Waiting(t) /\ (link.phase = "BEGIN_RESP" => CarriedOut(t))
  <2> HIDE DEF EndsReq, Responds, Telling, Waiting, CarriedOut
  <2> QED BY <1>1, <1>3, <1>5 DEF PayloadInv, InTransit
<1>8. Heard(t)
  BY <1>6, <1>7 DEF Waiting
<1>9. ~Returning(t) /\ ~Ending(t) /\ InHand(t)
  <2> HIDE DEF Heard, Ending, Sending, Returning, Closing
  <2> QED BY <1>3, <1>8 DEF PayloadInv, OneHand, InHand
<1>10. link.phase = "BEGIN_RESP" => \A q \in Peq : t \notin Queued(q)
  <2> HIDE DEF Responds, Queued, Peq, PayloadInv
  <2> QED BY <1>1, <1>3, <1>5, QueueFacts
<1> QED BY <1>1, <1>2, <1>3, <1>4, <1>5, <1>6, <1>7, <1>8, <1>9, <1>10

\* The initiator hears that its request has ended.
LEMMA EndReqHeard ==
  ASSUME AtCore, NEW n \in Initiator, UNCHANGED <<tg, bus, tgt>>, BwEndReq(n)
  PROVE  AtCore'
<1>1. PICK t : t = link.txn
  OBVIOUS
<1>2. /\ Called(ToInitiator(n)) /\ link.phase = "END_REQ" /\ fatal' \in BOOLEAN
      /\ simc' = Notify(simc, Enable(n), 0) /\ ini' = IniMap(n, t, "END_REQ")
      /\ link' = Answer("ACCEPTED", link.phase, link.delay) /\ UNCHANGED <<peq, fifo, gp, pool>>
  BY <1>1 DEF BwEndReq, IniMap
<1>3. /\ link # NoCall /\ t \in Txn /\ t \in Payloads(n) /\ Owner(t) = n /\ link.delay = 0
      /\ ini[n].pc # "sent" /\ ini[n].mpc # "sent" /\ link.status = "called" /\ link.callee = ToInitiator(n)
      /\ PayloadInv(t) /\ IniOK /\ KernelInv(LongestDelay, simc) /\ Enable(n) \in Event
      /\ EndsReq(t) /\ ~Telling(t)
      /\ Heard(t) /\ ~Sending(t) /\ ~Returning(t) /\ ~Closing(t) /\ ~Reports(t) /\ Waiting(t)
  <2> HIDE DEF AtCore, NoCall, Called, Payloads, PayloadInv, IniOK, KernelInv, Event, EndsReq, Telling, Heard, Sending,
               Returning, Closing, Reports, Waiting, Responds, CarriedOut, Queued, Peq, Ending, InHand, PeqOK
  <2> QED BY <1>1, <1>2, CalledFacts
<1>4. PICK x, y, v : x = ini[n].pc /\ y = ini[n].mpc /\ v = "END_REQ"
  OBVIOUS
<1>5. Changed(n, x, y, t, v)
  <2>1. v \in {"absent", "ACCEPTED", "END_REQ", "UPDATED"}
    BY <1>4
  <2> HIDE DEF IniOK, Payloads, Changed, IniHears, IniPc, IniMpc, IniMap
  <2> QED BY <1>2, <1>3, <1>4, <2>1, IniChanges
<1>6. KernelInv(LongestDelay, simc') /\ simc'.cur = simc.cur
  <2> HIDE DEF KernelInv, Event
  <2> QED BY <1>2, <1>3, AtNumbers, AtKernel
<1>7. /\ Calls' /\ link'.status # "called" /\ link' # NoCall /\ link'.txn = t /\ link'.status = "ACCEPTED"
  <2> DEFINE phase == "END_REQ"
             delay == 0
             status == "ACCEPTED"
  <2>1. Valid(status, phase, delay) /\ link' = Answer(status, phase, delay) /\ delay \in 0..LongestDelay
    BY <1>2, <1>3, AtNumbers DEF Valid
  <2> HIDE DEF status, phase, delay
  <2>2. /\ Calls' /\ link'.status # "called" /\ link' # NoCall /\ link'.txn = link.txn
        /\ link'.status = status /\ link'.phase = phase
    <3> HIDE DEF Calls, NoCall, Valid, AtCore, Changed, Called
    <3> QED BY <1>2, <1>4, <1>5, <1>6, <2>1, InitiatorAnswers
  <2> QED BY <1>1, <2>2 DEF status
<1>8. Types'
  <2>1. IniOK'
    BY <1>5 DEF Changed
  <2>2. GpOK' /\ BusOK' /\ TgtOK' /\ PeqOK' /\ Shapes'
    <3>1. Types
      BY DEF AtCore
    <3> HIDE DEF Types, GpOK, IniOK, BusOK, TgtOK, PeqOK, Shapes, AtCore
    <3> QED BY <1>2, <3>1, TypesKept
  <2> QED BY <1>2, <1>6, <2>1, <2>2 DEF Types
<1>9. ~Sending(t)' /\ ~Returning(t)' /\ Heard(t)' /\ ~Closing(t)' /\ ini'[Owner(t)].map[t] # "UPDATED"
  <2>1. /\ Sending(t)' <=> (x = "sent" /\ ini[n].txn = t)
        /\ Returning(t)' <=> (x = "respond" /\ ini[n].txn = t)
        /\ Heard(t)' <=> v # "absent"
        /\ Closing(t)' <=> (y = "sent" /\ link'.txn = t)
        /\ ini'[Owner(t)].map[t] = v
    <3> HIDE DEF Changed, Sending, Returning, Heard, Closing
    <3> QED BY <1>3, <1>5, ChangedPlaces
  <2>2. ~(ini[n].pc = "respond" /\ ini[n].txn = t)
    BY <1>3 DEF Returning
  <2> HIDE DEF Sending, Returning, Heard, Closing
  <2> QED BY <1>3, <1>4, <2>1, <2>2
<1>10. \A tx \in Txn : tx # t => /\ Returning(tx)' <=> Returning(tx)
                                 /\ ini'[Owner(tx)].map[tx] = ini[Owner(tx)].map[tx]
  <2>1. ~(ini[n].pc = "respond" /\ ini[n].txn = t)
    BY <1>3 DEF Returning
  <2> HIDE DEF Changed, Returning
  <2> QED BY <1>3, <1>4, <1>5, <2>1, ChangedOthers
<1>11. Wiring = "bus" => Tracked(t)
  <2> HIDE DEF Tracked, Heard, Sending, About, Telling, Known, Responding
  <2> QED BY <1>3 DEF PayloadInv, Tracking
<1>12. /\ ~Asks(t)' /\ ~Reports(t)' /\ ~Responds(t)' /\ ~EndsReq(t)' /\ ~Telling(t)'
  <2> HIDE DEF Asks, Reports, Responds, EndsReq, Telling
  <2> QED BY <1>7, AnswerFacts
<1> HIDE DEF AtCore, Types, Calls, Waiting, Reports, Heard, Sending, Returning, Closing, Tracked, Asks, Responds, EndsReq,
             Telling, NoCall
<1> QED BY <1>1, <1>2, <1>3, <1>7, <1>8, <1>9, <1>10, <1>11, <1>12, HearsCore

\* The initiator ends the response in its answer.
LEMMA RespEndsCore ==
  ASSUME AtCore, NEW n \in Initiator, UNCHANGED <<tg, bus, tgt>>, BwBeginRespEnds(n)
  PROVE  AtCore'
<1>1. PICK t : t = link.txn
  OBVIOUS
<1>2. PICK en \in BOOLEAN :
      /\ Called(ToInitiator(n)) /\ link.phase = "BEGIN_RESP" /\ fatal' \in BOOLEAN
      /\ simc' = RequestUpdate(IF en THEN Notify(simc, Enable(n), 0) ELSE simc, RspCh(n))
      /\ ini' = IniMap(n, t, "absent") /\ fifo' = FifoWrite(RspCh(n), t)
      /\ link' = Answer("COMPLETED", "END_RESP", EndRspDelay) /\ UNCHANGED <<peq, gp, pool>>
  <2>1. PICK en \in BOOLEAN : en = (ini[n].kind = "select" \/ EnablesNext(ini[n].map[link.txn]))
    OBVIOUS
  <2>2. simc' = RequestUpdate(IF en THEN Notify(simc, Enable(n), 0) ELSE simc, RspCh(n))
    BY <2>1 DEF BwBeginRespEnds, Rsp, RspCh
  <2> QED BY <1>1, <2>2 DEF BwBeginRespEnds, IniMap, Erased, Rsp, RspCh
<1>3. /\ link # NoCall /\ t \in Txn /\ t \in Payloads(n) /\ Owner(t) = n /\ link.delay = 0
      /\ ini[n].pc # "sent" /\ ini[n].mpc # "sent" /\ link.status = "called" /\ link.callee = ToInitiator(n)
      /\ PayloadInv(t) /\ IniOK /\ KernelInv(LongestDelay, simc) /\ Enable(n) \in Event
      /\ Responds(t) /\ Telling(t) /\ CarriedOut(t) /\ \A q \in Peq : t \notin Queued(q)
  <2> HIDE DEF AtCore, NoCall, Called, Payloads, PayloadInv, IniOK, KernelInv, Event, EndsReq, Telling, Heard, Sending,
               Returning, Closing, Reports, Waiting, Responds, CarriedOut, Queued, Peq, Ending, InHand, PeqOK
  <2> QED BY <1>1, <1>2, CalledFacts
<1>30. Heard(t) /\ ~Sending(t) /\ ~Returning(t) /\ ~Closing(t) /\ InHand(t)
  <2> HIDE DEF AtCore, NoCall, Called, Payloads, PayloadInv, IniOK, KernelInv, Event, EndsReq, Telling, Heard, Sending,
               Returning, Closing, Reports, Waiting, Responds, CarriedOut, Queued, Peq, Ending, InHand, PeqOK
  <2> QED BY <1>1, <1>2, CalledFacts
<1>4. PICK x, y, v : x = ini[n].pc /\ y = ini[n].mpc /\ v = "absent"
  OBVIOUS
<1>5. Changed(n, x, y, t, v)
  <2>1. v \in {"absent", "ACCEPTED", "END_REQ", "UPDATED"}
    BY <1>4
  <2> HIDE DEF IniOK, Payloads, Changed, IniHears, IniPc, IniMpc, IniMap
  <2> QED BY <1>2, <1>3, <1>4, <2>1, IniChanges
<1>6. KernelInv(LongestDelay, simc') /\ simc'.cur = simc.cur
  <2>1. PICK k : k = IF en THEN Notify(simc, Enable(n), 0) ELSE simc
    OBVIOUS
  <2> HIDE DEF KernelInv, Event, Channel
  <2>2. KernelInv(LongestDelay, k) /\ k.cur = simc.cur
    BY <1>3, <2>1, AtNumbers, AtKernel
  <2>3. simc' = RequestUpdate(k, RspCh(n))
    BY <1>2, <2>1
  <2> QED BY <2>2, <2>3, ChannelFacts, AtKernel
<1>7. /\ Calls' /\ link'.status # "called" /\ link' # NoCall /\ link'.txn = t /\ link'.status = "COMPLETED"
      /\ link'.phase = "END_RESP"
  <2> DEFINE phase == "END_RESP"
             delay == EndRspDelay
             status == "COMPLETED"
  <2>1. Valid(status, phase, delay) /\ link' = Answer(status, phase, delay) /\ delay \in 0..LongestDelay
    BY <1>2, <1>3, AtNumbers DEF Valid, ToInitiator
  <2> HIDE DEF status, phase, delay
  <2>2. /\ Calls' /\ link'.status # "called" /\ link' # NoCall /\ link'.txn = link.txn
        /\ link'.status = status /\ link'.phase = phase
    <3> HIDE DEF Calls, NoCall, Valid, AtCore, Changed, Called
    <3> QED BY <1>2, <1>4, <1>5, <1>6, <2>1, InitiatorAnswers
  <2> QED BY <1>1, <2>2 DEF status, phase
<1>8. Types'
  <2>1. IniOK'
    BY <1>5 DEF Changed
  <2> HIDE DEF AtCore, Types, KernelInv, IniOK, InHand
  <2> QED BY <1>2, <1>3, <1>30, <1>6, <2>1, HandsTypes
<1>9. ~Sending(t)' /\ ~Returning(t)' /\ ~Heard(t)' /\ ~Closing(t)'
  <2>1. /\ Sending(t)' <=> (x = "sent" /\ ini[n].txn = t)
        /\ Returning(t)' <=> (x = "respond" /\ ini[n].txn = t)
        /\ Heard(t)' <=> v # "absent"
        /\ Closing(t)' <=> (y = "sent" /\ link'.txn = t)
        /\ ini'[Owner(t)].map[t] = v
    <3> HIDE DEF Changed, Sending, Returning, Heard, Closing
    <3> QED BY <1>3, <1>5, ChangedPlaces
  <2>2. ~(ini[n].pc = "respond" /\ ini[n].txn = t)
    BY <1>3, <1>30 DEF Returning
  <2> HIDE DEF Sending, Returning, Heard, Closing
  <2> QED BY <1>3, <1>4, <2>1, <2>2
<1>10. \A tx \in Txn : tx # t => /\ Returning(tx)' <=> Returning(tx)
                                 /\ ini'[Owner(tx)].map[tx] = ini[Owner(tx)].map[tx]
  <2>1. ~(ini[n].pc = "respond" /\ ini[n].txn = t)
    BY <1>3, <1>30 DEF Returning
  <2> HIDE DEF Changed, Returning
  <2> QED BY <1>3, <1>4, <1>5, <2>1, ChangedOthers
<1>11. Wiring = "bus" => ~Tracked(t)
  <2> HIDE DEF Tracked, Heard, Sending, About, Telling, Known, Responding
  <2> QED BY <1>3, <1>30 DEF PayloadInv, Tracking
<1>12. /\ ~Asks(t)' /\ ~Reports(t)' /\ ~Responds(t)' /\ ~EndsReq(t)' /\ ~Telling(t)'
  <2> HIDE DEF Asks, Reports, Responds, EndsReq, Telling
  <2> QED BY <1>7, AnswerFacts
<1> HIDE DEF AtCore, Types, Calls, CarriedOut, Reports, Heard, Sending, Returning, Closing, Tracked, Asks, Responds, EndsReq,
             Telling, NoCall, InHand, Queued, Peq
<1> QED BY <1>1, <1>2, <1>3, <1>30, <1>7, <1>8, <1>9, <1>10, <1>11, <1>12, HandsOver

\* What is to be shown of a step in which payload t, whose response has come, stays
\* with its initiator until the response is over.
LEMMA EndsInHand ==
  ASSUME AtCore, Types', Calls', \A q \in Peq : Once(peq'[q]), NEW t \in Txn, PayloadInv(t),
         link = NoCall \/ link.txn = t, link' = NoCall \/ link'.txn = t,
         UNCHANGED <<tg, pool, fifo, gp, bus>>, InHand(t), CarriedOut(t), Wiring = "bus" => ~Tracked(t),
         ~Sending(t)', ~Returning(t)', ~Heard(t)',
         \/ ~Closing(t)' /\ Ending(t)' /\ \A q \in Peq : t \in Queued(q)' => q = EndRspPeq(Owner(t))
         \/ Closing(t)' /\ ~Ending(t)' /\ \A q \in Peq : t \notin Queued(q)',
         ~Asks(t)', ~Reports(t)', ~Responds(t)', ~EndsReq(t)',
         \A tx \in Txn : tx # t => /\ Returning(tx)' <=> Returning(tx)
                                   /\ ini'[Owner(tx)].map[tx] = ini[Owner(tx)].map[tx]
                                   /\ \A q \in Peq : (tx \in Queued(q))' <=> tx \in Queued(q)
  PROVE  AtCore'
<1>1. \A tx \in Txn : /\ Known(tx)' <=> Known(tx)
                      /\ Tracked(tx)' <=> Tracked(tx)
                      /\ Responding(tx)' <=> Responding(tx)
                      /\ gp'[tx] = gp[tx]
                      /\ bus'.pending[tx].known = bus.pending[tx].known
                      /\ bus'.pending[tx].from = bus.pending[tx].from
  <2> HIDE DEF Known, Tracked, Responding
  <2> QED BY BusSame
<1>2. Held(t) = 1 /\ gp[t].rc # 0
  <2> HIDE DEF PayloadInv, Held, Away, HeldBy, Outgoing, Incoming, Pooled, Asked, CarriedOut, AtCore, InHand
  <2> QED BY InHandFacts
<1>3. Held(t)' = 1 /\ gp'[t] = gp[t] /\ CarriedOut(t)'
  BY <1>1, <1>2 DEF Held, BusHolds, CarriedOut
<1>4. \A q \in Peq : t \in Queued(q)' => Fits(q, t)'
  <2>1. Owner(t) \in Initiator
    BY OwnerFacts
  <2>2. Fits(EndRspPeq(Owner(t)), t)'
    BY <1>3 DEF Fits, EndRspPeq, requestPEQ, responsePEQ
  <2> HIDE DEF Fits, Queued, Peq
  <2>3. \A q \in Peq : t \in Queued(q)' => q = EndRspPeq(Owner(t))
    OBVIOUS
  <2>4. ASSUME NEW q \in Peq, t \in Queued(q)' PROVE Fits(q, t)'
    <3>1. q = EndRspPeq(Owner(t))
      BY <2>3, <2>4
    <3>2. PICK o : o = Owner(t)
      OBVIOUS
    <3>3. q = EndRspPeq(o) /\ Fits(EndRspPeq(o), t)'
      BY <2>2, <3>1, <3>2
    <3>4. PICK e : e = EndRspPeq(o)
      OBVIOUS
    <3> QED BY <3>3, <3>4
  <2> QED BY <2>4
<1> HIDE DEF Known, Tracked, Responding, Sending, Returning, Heard, Closing, Ending, Queued, CarriedOut, Peq,
             Asks, Reports, Responds, EndsReq, Telling, About, NoCall, Asked, Held, Fits
<1>5. OneHand(t)' /\ InHand(t)' /\ InTransit(t)'
  BY Zenon DEF OneHand, InHand, InTransit
<1>6. InQueues(t)'
  <2>1. \A q, r \in Peq : t \in Queued(q)' /\ t \in Queued(r)' => q = r
    OBVIOUS
  <2> QED BY <1>4, <2>1 DEF InQueues
<1>7. Tracking(t)'
  <2>1. Wiring # "bus" => ~Known(t)
    BY DEF PayloadInv, Tracking
  <2>2. (Tracked(t) => Known(t)) /\ (Known(t) /\ ~Tracked(t) <=> Responding(t))
    BY DEF PayloadInv, Tracking
  <2>3. Wiring # "bus" => ~Tracked(t)
    BY <2>1, <2>2
  <2>4. ini'[Owner(t)].map[t] # "UPDATED"
    BY DEF Heard
  <2> QED BY <1>1, <2>1, <2>2, <2>3, <2>4 DEF Tracking
<1>8. gp'[t].rc # 0 /\ gp'[t].cmd = gp[t].cmd /\ gp'[t].addr = gp[t].addr
  BY <1>2
<1> HIDE DEF InHand, Calls, Types, PayloadInv, Once, OneHand, InTransit, InQueues, Tracking, AtCore
<1> QED BY <1>1, <1>3, <1>5, <1>6, <1>7, <1>8, StaysInHand

\* The initiator accepts the response; its method ends it later.
LEMMA RespBeginsCore ==
  ASSUME AtCore, NEW n \in Initiator, UNCHANGED <<tg, bus, tgt>>, BwBeginResp(n)
  PROVE  AtCore'
<1>1. PICK t : t = link.txn
  OBVIOUS
<1>2. PICK en \in BOOLEAN :
      /\ Called(ToInitiator(n)) /\ link.phase = "BEGIN_RESP" /\ fatal' \in BOOLEAN
      /\ peq' = [peq EXCEPT ![EndRspPeq(n)] = PeqInsert(@, t, EndRspDelay)]
      /\ simc' = IF en THEN Notify(Notify(simc, EndRspPeq(n), EndRspDelay), Enable(n), 0)
                 ELSE Notify(simc, EndRspPeq(n), EndRspDelay)
      /\ ini' = IniMap(n, t, "absent")
      /\ link' = Answer("ACCEPTED", link.phase, link.delay) /\ UNCHANGED <<fifo, gp, pool>>
  <2>1. PICK en \in BOOLEAN : en = EnablesNext(ini[n].map[link.txn])
    BY DEF EnablesNext
  <2>2. simc' = IF en THEN Notify(Notify(simc, EndRspPeq(n), EndRspDelay), Enable(n), 0)
                ELSE Notify(simc, EndRspPeq(n), EndRspDelay)
    BY <2>1 DEF BwBeginResp
  <2> QED BY <1>1, <2>2 DEF BwBeginResp, IniMap, Erased
<1>3. /\ link # NoCall /\ t \in Txn /\ t \in Payloads(n) /\ Owner(t) = n /\ link.delay = 0
      /\ ini[n].pc # "sent" /\ ini[n].mpc # "sent" /\ link.status = "called" /\ link.callee = ToInitiator(n)
      /\ PayloadInv(t) /\ IniOK /\ KernelInv(LongestDelay, simc) /\ Enable(n) \in Event /\ PeqOK
      /\ Responds(t) /\ Telling(t) /\ CarriedOut(t) /\ \A q \in Peq : t \notin Queued(q)
  <2> HIDE DEF AtCore, NoCall, Called, Payloads, PayloadInv, IniOK, KernelInv, Event, EndsReq, Telling, Heard, Sending,
               Returning, Closing, Reports, Waiting, Responds, CarriedOut, Queued, Peq, Ending, InHand, PeqOK
  <2> QED BY <1>1, <1>2, CalledFacts
<1>30. Heard(t) /\ ~Sending(t) /\ ~Returning(t) /\ ~Closing(t) /\ InHand(t)
  <2> HIDE DEF AtCore, NoCall, Called, Payloads, PayloadInv, IniOK, KernelInv, Event, EndsReq, Telling, Heard, Sending,
               Returning, Closing, Reports, Waiting, Responds, CarriedOut, Queued, Peq, Ending, InHand, PeqOK
  <2> QED BY <1>1, <1>2, CalledFacts
<1>4. PICK x, y, v : x = ini[n].pc /\ y = ini[n].mpc /\ v = "absent"
  OBVIOUS
<1>5. Changed(n, x, y, t, v)
  <2>1. v \in {"absent", "ACCEPTED", "END_REQ", "UPDATED"}
    BY <1>4
  <2> HIDE DEF IniOK, Payloads, Changed, IniHears, IniPc, IniMpc, IniMap
  <2> QED BY <1>2, <1>3, <1>4, <2>1, IniChanges
<1>6. KernelInv(LongestDelay, simc') /\ simc'.cur = simc.cur
  <2>1. PICK k : k = Notify(simc, EndRspPeq(n), EndRspDelay)
    OBVIOUS
  <2>2. EndRspPeq(n) \in Event /\ EndRspDelay \in 0..LongestDelay /\ 0 \in 0..LongestDelay
    BY AtNames, AtNumbers
  <2> HIDE DEF KernelInv, Event
  <2>3. KernelInv(LongestDelay, k) /\ k.cur = simc.cur
    BY <1>3, <2>1, <2>2, AtKernel
  <2>4. simc' = IF en THEN Notify(k, Enable(n), 0) ELSE k
    BY <1>2, <2>1
  <2> QED BY <1>3, <2>2, <2>3, <2>4, AtKernel
<1>7. /\ Calls' /\ link'.status # "called" /\ link' # NoCall /\ link'.txn = t /\ link'.status = "ACCEPTED"
  <2> DEFINE phase == "BEGIN_RESP"
             delay == 0
             status == "ACCEPTED"
  <2>1. Valid(status, phase, delay) /\ link' = Answer(status, phase, delay) /\ delay \in 0..LongestDelay
    BY <1>2, <1>3, AtNumbers DEF Valid
  <2> HIDE DEF status, phase, delay
  <2>2. /\ Calls' /\ link'.status # "called" /\ link' # NoCall /\ link'.txn = link.txn
        /\ link'.status = status /\ link'.phase = phase
    <3> HIDE DEF Calls, NoCall, Valid, AtCore, Changed, Called
    <3> QED BY <1>2, <1>4, <1>5, <1>6, <2>1, InitiatorAnswers
  <2> QED BY <1>1, <2>2 DEF status
<1>8. /\ PeqOK' /\ \A q \in Peq : Once(peq'[q])
      /\ \A r \in Peq : \A u : (u \in Queued(r))' <=> u \in Queued(r) \/ (r = EndRspPeq(n) /\ u = t)
  <2>1. PICK q \in Peq : q = EndRspPeq(n)
    BY AtNames
  <2>2. EndRspDelay \in 0..LongestDelay /\ t \notin Queued(q) /\ \A r \in Peq : Once(peq[r])
    BY <1>3, AtNumbers DEF AtCore
  <2>3. peq' = [peq EXCEPT ![q] = PeqInsert(@, t, EndRspDelay)]
    BY <1>2, <2>1
  <2> HIDE DEF PeqOK, Once, Queued, Peq, PeqInsert, LongestDelay
  <2>4. /\ PeqOK' /\ \A r \in Peq : Once(peq'[r])
        /\ \A r \in Peq : \A u : (u \in Queued(r))' <=> u \in Queued(r) \/ (r = q /\ u = t)
    BY <1>3, <2>2, <2>3, PeqPut, Zenon
  <2> QED BY <2>1, <2>4
<1>9. Types'
  <2>1. IniOK'
    BY <1>5 DEF Changed
  <2>2. GpOK' /\ BusOK' /\ TgtOK' /\ Shapes'
    <3>1. Types
      BY DEF AtCore
    <3> HIDE DEF Types, GpOK, IniOK, BusOK, TgtOK, PeqOK, Shapes, AtCore
    <3> QED BY <1>2, <3>1, TypesKept
  <2> QED BY <1>2, <1>6, <1>8, <2>1, <2>2 DEF Types
<1>10. ~Sending(t)' /\ ~Returning(t)' /\ ~Heard(t)' /\ ~Closing(t)'
  <2>1. /\ Sending(t)' <=> (x = "sent" /\ ini[n].txn = t)
        /\ Returning(t)' <=> (x = "respond" /\ ini[n].txn = t)
        /\ Heard(t)' <=> v # "absent"
        /\ Closing(t)' <=> (y = "sent" /\ link'.txn = t)
        /\ ini'[Owner(t)].map[t] = v
    <3> HIDE DEF Changed, Sending, Returning, Heard, Closing
    <3> QED BY <1>3, <1>5, ChangedPlaces
  <2>2. ~(ini[n].pc = "respond" /\ ini[n].txn = t)
    BY <1>3, <1>30 DEF Returning
  <2> HIDE DEF Sending, Returning, Heard, Closing
  <2> QED BY <1>3, <1>4, <2>1, <2>2
<1>11. \A tx \in Txn : tx # t => /\ Returning(tx)' <=> Returning(tx)
                                 /\ ini'[Owner(tx)].map[tx] = ini[Owner(tx)].map[tx]
  <2>1. ~(ini[n].pc = "respond" /\ ini[n].txn = t)
    BY <1>3, <1>30 DEF Returning
  <2> HIDE DEF Changed, Returning
  <2> QED BY <1>3, <1>4, <1>5, <2>1, ChangedOthers
<1>12. Wiring = "bus" => ~Tracked(t)
  <2> HIDE DEF Tracked, Heard, Sending, About, Telling, Known, Responding
  <2> QED BY <1>3, <1>30 DEF PayloadInv, Tracking
<1>13. /\ ~Asks(t)' /\ ~Reports(t)' /\ ~Responds(t)' /\ ~EndsReq(t)'
  <2> HIDE DEF Asks, Reports, Responds, EndsReq, Telling
  <2> QED BY <1>7, AnswerFacts
<1>14. /\ \A q \in Peq : t \in Queued(q)' => q = EndRspPeq(Owner(t))
       /\ \A tx \in Txn : tx # t => \A q \in Peq : (tx \in Queued(q))' <=> tx \in Queued(q)
  <2> HIDE DEF Queued, Peq
  <2> QED BY <1>3, <1>8
<1>15. Ending(t)'
  <2>1. EndRspPeq(n) \in Peq
    BY AtNames
  <2>2. (t \in Queued(EndRspPeq(n)))'
    <3> HIDE DEF Queued, Peq
    <3> QED BY <1>8, <2>1
  <2> QED BY <1>3, <2>2 DEF Ending
<1> HIDE DEF AtCore, Types, Calls, CarriedOut, Reports, Heard, Sending, Returning, Closing, Tracked, Asks, Responds, EndsReq,
             Telling, NoCall, InHand, Queued, Peq, Ending, Once, PayloadInv
<1> QED BY <1>1, <1>2, <1>3, <1>30, <1>7, <1>8, <1>9, <1>10, <1>11, <1>12, <1>13, <1>14, <1>15, EndsInHand

\* The method takes a payload and makes the call of END_RESP.
LEMMA CloseCore ==
  ASSUME AtCore, NEW n \in Initiator, UNCHANGED <<tg, bus, tgt>>, EndRspNext(n)
  PROVE  AtCore'
<1>0. Types /\ Calls /\ IniOK /\ PeqOK /\ KernelInv(LongestDelay, simc) /\ fatal \in BOOLEAN
  BY DEF AtCore, Types
<1>1. PICK t : t = Head(peq[EndRspPeq(n)]).txn
  OBVIOUS
<1>2. /\ simc.cur = EndRsp(n) /\ ini[n].mpc = "next" /\ PeqDue(EndRspPeq(n))
      /\ link' = Call(FromInitiator(n), t, "END_RESP") /\ peq' = PeqPop(EndRspPeq(n))
      /\ ini' = IniMpc(n, "sent") /\ UNCHANGED <<simc, fifo, gp, pool, fatal>>
  BY <1>1 DEF EndRspNext, Executing, IniMpc
<1>3. /\ link = NoCall /\ \A p \in Process : ~Calling(p)
  <2>1. ~Calling(simc.cur)
    BY <1>2, Idle
  <2> HIDE DEF Calls, Calling, Process
  <2> QED BY <1>0, <2>1, NotCalling
<1>4. /\ PeqOK' /\ t \in Txn /\ t \in Queued(EndRspPeq(n)) /\ \A q \in Peq : Once(peq'[q])
      /\ \A q \in Peq : \A u : (u \in Queued(q))' <=> u \in Queued(q) /\ ~(q = EndRspPeq(n) /\ u = t)
  <2>1. PICK q \in Peq : q = EndRspPeq(n)
    BY AtNames
  <2>2. \A r \in Peq : Once(peq[r])
    BY DEF AtCore
  <2>3. peq' = PeqPop(q) /\ PeqDue(q) /\ t = Head(peq[q]).txn
    BY <1>1, <1>2, <2>1
  <2> HIDE DEF PeqOK, Once, Queued, Peq, PeqPop, PeqDue
  <2>4. /\ PeqOK' /\ t \in Txn /\ t \in Queued(q) /\ \A r \in Peq : Once(peq'[r])
        /\ \A r \in Peq : \A u : (u \in Queued(r))' <=> u \in Queued(r) /\ ~(r = q /\ u = t)
    BY <1>0, <2>2, <2>3, PeqTaken
  <2> QED BY <2>1, <2>4
<1>5. PayloadInv(t)
  BY <1>4 DEF AtCore
<1>6. CarriedOut(t) /\ Owner(t) = n /\ t \in Payloads(n) /\ Ending(t) /\ InHand(t)
      /\ \A q \in Peq : t \in Queued(q) => q = EndRspPeq(n)
  <2>1. PICK q \in Peq : q = EndRspPeq(n)
    BY AtNames
  <2>2. Fits(q, t) /\ \A r \in Peq : t \in Queued(r) <=> r = q
    <3> HIDE DEF Fits, Queued, Peq, PayloadInv
    <3> QED BY <1>4, <1>5, <2>1, QueueFacts
  <2>3. CarriedOut(t) /\ Owner(t) = n
    <3>1. q \in {"send_end_rsp_PEQ"} \X Initiator /\ q[2] = n
      BY <2>1 DEF EndRspPeq
    <3> HIDE DEF CarriedOut
    <3> QED BY <2>2, <3>1 DEF Fits
  <2>4. t \in Payloads(n)
    BY <1>4, <2>3, OwnerFacts
  <2>5. Ending(t)
    BY <1>4, <2>3 DEF Ending
  <2>6. InHand(t)
    BY <2>5, Zenon DEF InHand
  <2> HIDE DEF Queued, Peq
  <2> QED BY <2>1, <2>2, <2>3, <2>4, <2>5, <2>6
<1>7. ~Sending(t) /\ ~Returning(t) /\ ~Heard(t) /\ ~Closing(t)
  <2> HIDE DEF Heard, Ending, Sending, Returning, Closing
  <2> QED BY <1>5, <1>6 DEF PayloadInv, OneHand
<1>8. PICK x, y, v : x = ini[n].pc /\ y = "sent" /\ v = ini[n].map[t]
  OBVIOUS
<1>9. Changed(n, x, y, t, v)
  <2>1. PICK w \in {"absent", "ACCEPTED", "END_REQ", "UPDATED"} : TRUE
    OBVIOUS
  <2> HIDE DEF IniOK, Payloads, Changed, IniHears, IniPc, IniMpc, IniMap
  <2> QED BY <1>0, <1>2, <1>6, <1>8, <2>1, IniChanges
<1>10. /\ link' # NoCall /\ link'.txn = t /\ link'.status = "called" /\ link'.phase = "END_RESP"
       /\ link'.callee = FromInitiator(n) /\ link'.delay = 0
       /\ About(t)' /\ ~Reports(t)' /\ ~Asks(t)' /\ ~Responds(t)' /\ ~EndsReq(t)'
  <2>1. PICK c, phase : c = FromInitiator(n) /\ phase = "END_RESP"
    OBVIOUS
  <2>2. link' = Call(c, t, phase)
    BY <1>2, <2>1
  <2> HIDE DEF About, Reports, Asks, Responds, EndsReq, Telling, NoCall
  <2>3. /\ link' # NoCall /\ link'.txn = t /\ link'.status = "called" /\ link'.phase = phase
        /\ link'.callee = c /\ link'.delay = 0
        /\ About(t)' /\ ~Reports(t)'
        /\ Asks(t)' <=> phase = "BEGIN_REQ"
        /\ Responds(t)' <=> phase = "BEGIN_RESP"
        /\ EndsReq(t)' <=> phase = "END_REQ"
    BY <1>4, <2>2, CallMade
  <2> QED BY <2>1, <2>3
<1>11. Calls'
  <2>1. EndRsp(n) \in Process
    BY AtNames
  <2>2. \A p \in Process : p # EndRsp(n) => (Calling(p)' <=> Calling(p))
    <3> HIDE DEF Changed, Calling, Process
    <3> QED BY <1>2, <1>8, <1>9, ChangedCallers
  <2>3. ini'[n].mpc = "sent"
    BY <1>8, <1>9 DEF Changed
  <2>4. Calling(EndRsp(n))' /\ (CallOf(EndRsp(n))' <=> CloseCall(n)')
    <3> HIDE DEF Calling, CallOf, CloseCall
    <3> QED BY <2>3, CallingNames
  <2>5. CloseCall(n)'
    BY <1>6, <1>10 DEF CloseCall, Open, FromInitiator
  <2>6. link' \in LinkShape
    <3>1. /\ FromInitiator(n) \in {"bus_fw", "bus_bw", "initiator", "target"} \X Nat /\ 0 \in 0..LongestDelay
      <4>1. n \in Nat /\ n - 1 \in Nat
        BY AtNumbers DEF Initiator
      <4> QED BY <4>1, AtNumbers DEF FromInitiator
    <3> QED BY <1>2, <1>4, <3>1 DEF LinkShape, Call, Phases
  <2> HIDE DEF Calls, Calling, CallOf, Process, NoCall, CloseCall, LinkShape
  <2> QED BY <1>0, <1>2, <1>3, <2>1, <2>2, <2>4, <2>5, <2>6, CallsMade
<1>12. Types'
  <2>1. IniOK'
    BY <1>9 DEF Changed
  <2>2. GpOK' /\ BusOK' /\ TgtOK' /\ Shapes'
    <3> HIDE DEF Types, GpOK, IniOK, BusOK, TgtOK, PeqOK, Shapes
    <3> QED BY <1>0, <1>2, TypesKept
  <2> QED BY <1>0, <1>2, <1>4, <2>1, <2>2 DEF Types
<1>13. ~Sending(t)' /\ ~Returning(t)' /\ ~Heard(t)' /\ Closing(t)'
  <2>1. /\ Sending(t)' <=> (x = "sent" /\ ini[n].txn = t)
        /\ Returning(t)' <=> (x = "respond" /\ ini[n].txn = t)
        /\ Heard(t)' <=> v # "absent"
        /\ Closing(t)' <=> (y = "sent" /\ link'.txn = t)
        /\ ini'[Owner(t)].map[t] = v
    <3> HIDE DEF Changed, Sending, Returning, Heard, Closing
    <3> QED BY <1>4, <1>6, <1>9, ChangedPlaces
  <2>2. ~(ini[n].pc = "respond" /\ ini[n].txn = t) /\ ~(ini[n].pc = "sent" /\ ini[n].txn = t) /\ v = "absent"
    BY <1>6, <1>7, <1>8 DEF Returning, Sending, Heard
  <2> HIDE DEF Sending, Returning, Heard, Closing
  <2> QED BY <1>8, <1>10, <2>1, <2>2
<1>14. \A tx \in Txn : tx # t => /\ Returning(tx)' <=> Returning(tx)
                                 /\ ini'[Owner(tx)].map[tx] = ini[Owner(tx)].map[tx]
  <2>1. ~(ini[n].pc = "respond" /\ ini[n].txn = t)
    BY <1>6, <1>7 DEF Returning
  <2> HIDE DEF Changed, Returning
  <2> QED BY <1>4, <1>6, <1>8, <1>9, <2>1, ChangedOthers
<1>15. Wiring = "bus" => ~Tracked(t)
  <2> HIDE DEF Tracked, Heard, Sending, About, Telling, Known, Responding
  <2> QED BY <1>5, <1>7 DEF PayloadInv, Tracking
<1>16. /\ \A q \in Peq : t \notin Queued(q)'
       /\ \A tx \in Txn : tx # t => \A q \in Peq : (tx \in Queued(q))' <=> tx \in Queued(q)
  <2> HIDE DEF Queued, Peq
  <2> QED BY <1>4, <1>6
<1>17. ~Ending(t)'
  <2>1. EndRspPeq(n) \in Peq
    BY AtNames
  <2>2. ~(t \in Queued(EndRspPeq(n)))'
    <3> HIDE DEF Queued, Peq
    <3> QED BY <1>4, <2>1
  <2> QED BY <1>6, <2>2 DEF Ending
<1> HIDE DEF AtCore, Types, Calls, CarriedOut, Reports, Heard, Sending, Returning, Closing, Tracked, Asks, Responds, EndsReq,
             Telling, NoCall, InHand, Queued, Peq, Ending, Once, PayloadInv
<1> QED BY <1>2, <1>3, <1>4, <1>5, <1>6, <1>10, <1>11, <1>12, <1>13, <1>14, <1>15, <1>16, <1>17, EndsInHand

\* The method returns from the call and hands the payload on.
LEMMA ClosedCore ==
  ASSUME AtCore, NEW n \in Initiator, UNCHANGED <<tg, bus, tgt>>, EndRspSent(n)
  PROVE  AtCore'
<1>0. Types /\ Calls /\ IniOK /\ KernelInv(LongestDelay, simc)
  BY DEF AtCore, Types
<1>1. simc.cur = EndRsp(n) /\ ini[n].mpc = "sent" /\ Answered
  BY DEF EndRspSent, Executing
<1>2. link # NoCall /\ CloseCall(n)
  <2> HIDE DEF NoCall, AtCore, CloseCall
  <2> QED BY <1>1, CallerFacts
<1>3. PICK t \in Txn : t = link.txn /\ t \in Payloads(n) /\ Owner(t) = n
  BY <1>2, OwnerFacts DEF CloseCall
<1>4. link.status = "COMPLETED" /\ link.phase = "END_RESP"
  BY <1>1, <1>2 DEF CloseCall, Open, Closed, Answered
<1>5. /\ fatal' \in BOOLEAN /\ fifo' = FifoWrite(RspCh(n), t) /\ simc' = RequestUpdate(simc, RspCh(n)) /\ peq' = peq
      /\ ini' = IniMpc(n, "next") /\ link' = NoCall /\ UNCHANGED <<gp, pool>>
  BY <1>3, <1>4 DEF EndRspSent, Respond, Rsp, RspCh, IniMpc
<1>6. PICK x, y, v : x = ini[n].pc /\ y = "next" /\ v = ini[n].map[t]
  OBVIOUS
<1>7. Changed(n, x, y, t, v)
  <2>1. PICK w \in {"absent", "ACCEPTED", "END_REQ", "UPDATED"} : TRUE
    OBVIOUS
  <2> HIDE DEF IniOK, Payloads, Changed, IniHears, IniPc, IniMpc, IniMap
  <2> QED BY <1>0, <1>3, <1>5, <1>6, <2>1, IniChanges
<1>8. PayloadInv(t) /\ Closing(t)
  BY <1>1, <1>3 DEF AtCore, Closing
<1>9. /\ InHand(t) /\ CarriedOut(t) /\ ~Heard(t) /\ ~Sending(t) /\ ~Returning(t)
      /\ (\A q \in Peq : t \notin Queued(q)) /\ (Wiring = "bus" => ~Tracked(t))
  <2>1. CarriedOut(t) /\ ~Heard(t) /\ InHand(t) /\ ~Sending(t) /\ ~Returning(t)
    <3> HIDE DEF CarriedOut, Heard, Ending, Sending, Returning, Closing
    <3> QED BY <1>8 DEF PayloadInv, Contents, OneHand, InHand
  <2>3. \A q \in Peq : t \notin Queued(q)
    <3> HIDE DEF Returning, Closing, Ending, Queued, Peq, PayloadInv
    <3> QED BY <1>8, QueueFacts
  <2>4. Wiring = "bus" => ~Tracked(t)
    <3> HIDE DEF Tracked, Heard, Sending, About, Telling, Known, Responding
    <3> QED BY <1>8, <2>1 DEF PayloadInv, Tracking
  <2> QED BY <2>1, <2>3, <2>4
<1>10. Calls'
  <2>1. EndRsp(n) \in Process
    BY AtNames
  <2>2. \A p \in Process : p # EndRsp(n) => (Calling(p)' <=> Calling(p))
    <3> HIDE DEF Changed, Calling, Process
    <3> QED BY <1>6, <1>7, ChangedCallers
  <2>3. ini'[n].mpc # "sent"
    BY <1>6, <1>7 DEF Changed
  <2>4. ~Calling(EndRsp(n))'
    <3> HIDE DEF Calling
    <3> QED BY <2>3, CallingNames
  <2> HIDE DEF Calls, Calling, Process, NoCall
  <2> QED BY <1>0, <1>1, <1>5, <2>1, <2>2, <2>4, CallsReturned
<1>11. KernelInv(LongestDelay, simc')
  <2> HIDE DEF KernelInv, Channel
  <2> QED BY <1>0, <1>5, ChannelFacts, AtKernel
<1>12. Types'
  <2>1. IniOK'
    BY <1>7 DEF Changed
  <2> HIDE DEF AtCore, Types, KernelInv, IniOK, InHand
  <2> QED BY <1>3, <1>5, <1>9, <1>11, <2>1, HandsTypes
<1>13. ~Sending(t)' /\ ~Returning(t)' /\ ~Heard(t)' /\ ~Closing(t)'
  <2>1. /\ Sending(t)' <=> (x = "sent" /\ ini[n].txn = t)
        /\ Returning(t)' <=> (x = "respond" /\ ini[n].txn = t)
        /\ Heard(t)' <=> v # "absent"
        /\ Closing(t)' <=> (y = "sent" /\ link'.txn = t)
        /\ ini'[Owner(t)].map[t] = v
    <3> HIDE DEF Changed, Sending, Returning, Heard, Closing
    <3> QED BY <1>3, <1>7, ChangedPlaces
  <2>2. ~(ini[n].pc = "respond" /\ ini[n].txn = t) /\ ~(ini[n].pc = "sent" /\ ini[n].txn = t) /\ v = "absent"
    BY <1>3, <1>6, <1>9 DEF Returning, Sending, Heard
  <2> HIDE DEF Sending, Returning, Heard, Closing
  <2> QED BY <1>6, <2>1, <2>2
<1>14. \A tx \in Txn : tx # t => /\ Returning(tx)' <=> Returning(tx)
                                 /\ ini'[Owner(tx)].map[tx] = ini[Owner(tx)].map[tx]
  <2>1. ~(ini[n].pc = "respond" /\ ini[n].txn = t)
    BY <1>3, <1>9 DEF Returning
  <2> HIDE DEF Changed, Returning
  <2> QED BY <1>3, <1>6, <1>7, <2>1, ChangedOthers
<1>15. \A tx : ~Asks(tx)' /\ ~Reports(tx)' /\ ~Responds(tx)' /\ ~EndsReq(tx)'
  <2> HIDE DEF Asks, Reports, Responds, EndsReq, NoCall
  <2> QED BY <1>5, CallOver
<1> HIDE DEF InHand, CarriedOut, Heard, Sending, Returning, Closing, Tracked, Asks, Reports, Responds, EndsReq, Queued, Peq,
             AtCore, Types, Calls, NoCall
<1> QED BY <1>3, <1>5, <1>9, <1>10, <1>12, <1>13, <1>14, <1>15, HandsOver

\* Every step of an initiator.
LEMMA InitiatorCore ==
  ASSUME AtCore, NEW n \in Initiator, UNCHANGED <<tg, bus, tgt>>, IniStep(n)
  PROVE  AtCore'
<1> HIDE DEF AtCore
<1>1. CASE GetRequestBlocks(n) \/ EndRspReturn(n)
  <2>1. UNCHANGED <<tg, ini, tgt, bus>>
    BY <1>1 DEF GetRequestBlocks, EndRspReturn
  <2> QED BY <1>1, <2>1, WaitingSteps
<1>2. CASE SendRequest(n)
  BY <1>2, SendCore
<1>3. CASE AfterDelay(n)
  BY <1>3, ReturnedCore
<1>4. CASE RequestCompleted(n)
  BY <1>4, RequestDone
<1>5. CASE RequestUpdated(n) \/ RequestAccepted(n)
  BY <1>5, RequestHeard
<1>6. CASE BwEndReq(n)
  BY <1>6, EndReqHeard
<1>7. CASE BwBeginRespEnds(n)
  BY <1>7, RespEndsCore
<1>8. CASE BwBeginResp(n)
  BY <1>8, RespBeginsCore
<1>9. CASE EndRspNext(n)
  BY <1>9, CloseCore
<1>10. CASE EndRspSent(n)
  BY <1>10, ClosedCore
<1> QED BY <1>1, <1>2, <1>3, <1>4, <1>5, <1>6, <1>7, <1>8, <1>9, <1>10 DEF IniStep

-----------------------------------------------------------------------------
(* Steps on the way of a payload whose initiator waits for its response *)

\* The bus's part in the invariant stays.
LEMMA TrackingKept ==
  ASSUME NEW t \in Txn, Tracking(t), UNCHANGED <<ini, bus>>,
         Wiring = "bus" => ~Sending(t) /\ ~Telling(t) /\ ~Telling(t)'
  PROVE  Tracking(t)'
<1>1. /\ Known(t)' <=> Known(t)
      /\ Tracked(t)' <=> Tracked(t)
      /\ Responding(t)' <=> Responding(t)
      /\ Sending(t)' <=> Sending(t)
      /\ Heard(t)' <=> Heard(t)
  <2> HIDE DEF Known, Tracked, Responding, Sending, Heard
  <2> QED BY BusSame, InitiatorSame
<1> HIDE DEF Known, Tracked, Responding, Sending, Heard, Telling, About
<1> QED BY <1>1, Zenon DEF Tracking

\* An initiator that waits for a response has the payload in one of two hands.
LEMMA WaitingHand ==
  ASSUME AtCore, NEW t \in Txn, Waiting(t)
  PROVE  /\ PayloadInv(t) /\ InHand(t) /\ ~Ending(t) /\ ~Returning(t) /\ ~Closing(t)
         /\ Held(t) = 1 /\ gp[t].rc # 0 /\ (Asked(t) \/ CarriedOut(t))
         /\ gp[t].cmd \in {"read", "write"} /\ gp[t].addr \in Addresses
         /\ link = NoCall => Heard(t) /\ ~Sending(t)
<1>1. PayloadInv(t) /\ Calls
  BY DEF AtCore
<1>2. InHand(t)
  BY Zenon DEF Waiting, InHand
<1>3. ~Ending(t) /\ ~Returning(t) /\ ~Closing(t)
  <2>1. ~(Returning(t) /\ Sending(t))
    BY DEF Returning, Sending
  <2> HIDE DEF Heard, Sending, Ending, Returning, Closing
  <2> QED BY <1>1, <2>1 DEF PayloadInv, OneHand, Waiting
<1>4. /\ Held(t) = 1 /\ gp[t].rc # 0 /\ (Asked(t) \/ CarriedOut(t))
      /\ gp[t].cmd \in {"read", "write"} /\ gp[t].addr \in Addresses
  <2> HIDE DEF PayloadInv, Held, Away, HeldBy, Outgoing, Incoming, Pooled, Asked, CarriedOut, AtCore, InHand
  <2> QED BY <1>2, InHandFacts
<1>5. link = NoCall => ~Sending(t)
  <2> HIDE DEF Sending, About, Calls, NoCall
  <2> QED BY <1>1, InTheCall, CallOver
<1>6. link = NoCall => Heard(t)
  <2> HIDE DEF Sending, Heard, NoCall
  <2> QED BY <1>5 DEF Waiting
<1> HIDE DEF PayloadInv, InHand, Held, Heard, Sending, Ending, Returning, Closing, Asked, CarriedOut, NoCall
<1> QED BY <1>1, <1>2, <1>3, <1>4, <1>5, <1>6

\* What is to be shown of such a step: where the payload is then.
LEMMA WaitsOn ==
  ASSUME AtCore, Types', Calls', \A r \in Peq : Once(peq'[r]), NEW t \in Txn, Waiting(t),
         link = NoCall \/ link.txn = t, link' = NoCall \/ link'.txn = t,
         UNCHANGED <<tg, pool, fifo, ini>>,
         Held(t)' = 1, gp'[t].rc # 0, gp'[t].cmd = gp[t].cmd, gp'[t].addr = gp[t].addr,
         Asked(t)' \/ CarriedOut(t)',
         Asks(t)' => Asked(t)' /\ link'.callee = ToTarget(Where(t)),
         Reports(t)' \/ Responds(t)' => CarriedOut(t)',
         NEW q, q[1] # "send_end_rsp_PEQ", \A r \in Peq : (t \in Queued(r))' => r = q,
         q \in Peq /\ (t \in Queued(q))' => Fits(q, t)' /\ ~Asks(t)' /\ ~Reports(t)' /\ ~Responds(t)',
         Tracking(t)',
         \A tx \in Txn : tx # t =>
            /\ gp'[tx] = gp[tx]
            /\ bus'.pending[tx].known = bus.pending[tx].known
            /\ bus'.pending[tx].from = bus.pending[tx].from
            /\ Responding(tx)' <=> Responding(tx)
            /\ \A r \in Peq : (tx \in Queued(r))' <=> tx \in Queued(r)
  PROVE  AtCore'
<1>1. /\ InHand(t) /\ ~Returning(t) /\ ~Closing(t) /\ PayloadInv(t)
  <2> HIDE DEF AtCore, InHand, Returning, Closing, Waiting, PayloadInv
  <2> QED BY WaitingHand
<1>2. \A tx \in Txn : /\ Sending(tx)' <=> Sending(tx)
                      /\ Returning(tx)' <=> Returning(tx)
                      /\ Heard(tx)' <=> Heard(tx)
                      /\ ini'[Owner(tx)].map[tx] = ini[Owner(tx)].map[tx]
  <2> HIDE DEF Sending, Returning, Heard
  <2> QED BY InitiatorSame
<1>3. ~Closing(t)'
  <2>1. CASE link.txn = t
    BY <1>1, <2>1 DEF Closing
  <2>2. CASE link = NoCall
    <3>1. Owner(t) \in Initiator
      BY OwnerFacts
    <3>2. ini[Owner(t)].mpc # "sent"
      <4> HIDE DEF AtCore, NoCall
      <4> QED BY <2>2, <3>1, CallerFacts
    <3> QED BY <3>2 DEF Closing
  <2> QED BY <2>1, <2>2
<1>4. ~Ending(t)'
  <2>1. PICK e \in Peq : e = EndRspPeq(Owner(t))
    BY OwnerFacts, AtNames
  <2>2. e[1] = "send_end_rsp_PEQ"
    BY <2>1 DEF EndRspPeq
  <2>3. ~(t \in Queued(e))'
    <3> HIDE DEF Queued, Peq
    <3> QED BY <2>2
  <2> QED BY <2>1, <2>3 DEF Ending
<1>5. OneHand(t)' /\ InHand(t)' /\ Waiting(t)'
  <2>1. (Sending(t)' => ~Heard(t)')
    <3> HIDE DEF Sending, Heard, Ending, Returning, Closing
    <3> QED BY <1>1, <1>2 DEF PayloadInv, OneHand
  <2> HIDE DEF Sending, Heard, Ending, Returning, Closing
  <2> QED BY <1>1, <1>2, <1>3, <1>4, <2>1, Zenon DEF OneHand, InHand, Waiting
<1>6. InTransit(t)'
  <2>1. Asks(t)' => link'.callee[1] = "target" /\ link'.callee[2] = Where(t)
    <3> HIDE DEF Asks, Where
    <3> QED BY DEF ToTarget
  <2>2. Where(t)' = Where(t)
    BY GeneratorSame
  <2> HIDE DEF Asks, Reports, Responds, EndsReq, Waiting, Where, Asked, CarriedOut
  <2> QED BY <1>5, <2>1, <2>2 DEF InTransit
<1>7. InQueues(t)'
  <2>1. \A r \in Peq : t \in Queued(r)' => r = q /\ Fits(r, t)' /\ ~Asks(t)' /\ ~Reports(t)' /\ ~Responds(t)'
    <3>1. ASSUME NEW r \in Peq, t \in Queued(r)'
          PROVE  r = q /\ Fits(r, t)' /\ ~Asks(t)' /\ ~Reports(t)' /\ ~Responds(t)'
      <4>1. r = q
        BY <3>1
      <4> HIDE DEF Fits, Queued, Peq, Asks, Reports, Responds
      <4> QED BY <3>1, <4>1
    <3> QED BY <3>1
  <2> HIDE DEF Asks, Reports, Responds, Fits, Queued, Peq
  <2> QED BY <2>1 DEF InQueues
<1> HIDE DEF InHand, Calls, Types, PayloadInv, Once, NoCall, OneHand, InTransit, InQueues, Tracking, Waiting, Held, Returning,
             Closing, Responding, Queued, Peq, Asked, CarriedOut, AtCore, Sending, Heard, Asks, Reports, Responds
<1>8. \A tx \in Txn : tx # t =>
            /\ gp'[tx] = gp[tx]
            /\ Returning(tx)' <=> Returning(tx)
            /\ ini'[Owner(tx)].map[tx] = ini[Owner(tx)].map[tx]
            /\ bus'.pending[tx].known = bus.pending[tx].known
            /\ bus'.pending[tx].from = bus.pending[tx].from
            /\ Responding(tx)' <=> Responding(tx)
            /\ \A r \in Peq : (tx \in Queued(r))' <=> tx \in Queued(r)
  BY <1>2
<1>9. Returning(t)' \/ Closing(t)' => CarriedOut(t)'
  BY <1>1, <1>2, <1>3
<1> QED BY <1>1, <1>5, <1>6, <1>7, <1>8, <1>9, StaysInHand

-----------------------------------------------------------------------------
(* The targets *)

\* A target carries a transaction out.
LEMMA Operates ==
  ASSUME GpOK, TgtOK, NEW m \in Target, NEW t \in Txn, gp[t].addr \in Addresses,
         gp[t].cmd \in {"read", "write"}, gp' = OperationGp(tgt[m].mem, t)
  PROVE  /\ GpOK' /\ CarriedOut(t)' /\ gp'[t].rc = gp[t].rc /\ gp'[t].cmd = gp[t].cmd
         /\ gp'[t].addr = gp[t].addr /\ gp'[t].port = gp[t].port
         /\ \A tx \in Txn : tx # t => gp'[tx] = gp[tx]
         /\ OperationMem(tgt[m].mem, t) \in [1..MemorySize -> Word]
         /\ gp'[t].data = IF gp[t].cmd = "read" THEN tgt[m].mem[gp[t].addr] ELSE gp[t].data
         /\ gp[t].cmd = "read" => OperationMem(tgt[m].mem, t) = tgt[m].mem
         /\ gp[t].cmd = "write" => OperationMem(tgt[m].mem, t) = [tgt[m].mem EXCEPT ![gp[t].addr] = gp[t].data]
<1>1. PICK g \in GpShape : g = gp[t]
  BY DEF GpOK
<1>2. PICK w \in [1..MemorySize -> Word] : w = tgt[m].mem
  BY DEF TgtOK, TgtShape
<1>3. AddressOK(t) /\ g.addr \in 1..MemorySize
  BY <1>1, AtNumbers DEF AddressOK
<1>4. PICK d \in Word : d = IF g.cmd = "read" THEN w[g.addr] ELSE g.data
  <2>1. w[g.addr] \in Word /\ g.data \in Word
    BY <1>3 DEF GpShape
  <2> QED BY <2>1
<1> DEFINE z == [g EXCEPT !.status = "OK", !.data = d]
<1>5. z \in GpShape /\ z.status = "OK" /\ z.data = d /\ z.rc = g.rc /\ z.cmd = g.cmd /\ z.addr = g.addr /\ z.port = g.port
  <2> HIDE DEF Word
  <2> QED BY Zenon DEF GpShape
<1>6. gp' = [gp EXCEPT ![t] = z]
  <2>1. PICK s, d2 : /\ s = IF AddressOK(t) THEN "OK" ELSE "address error"
                     /\ d2 = IF AddressOK(t) /\ gp[t].cmd = "read" THEN w[gp[t].addr] ELSE gp[t].data
    OBVIOUS
  <2>2. s = "OK" /\ d2 = d
    BY <1>1, <1>3, <1>4, <2>1
  <2>3. gp' = [gp EXCEPT ![t].status = s, ![t].data = d2]
    <3> HIDE DEF AddressOK
    <3> QED BY <1>2, <2>1, Zenon DEF OperationGp
  <2> QED BY <1>1, <2>2, <2>3
<1> HIDE DEF z
<1>7. GpOK' /\ gp'[t] = z /\ \A tx \in Txn : tx # t => gp'[tx] = gp[tx]
  BY <1>5, <1>6 DEF GpOK
<1>8. OperationMem(w, t) \in [1..MemorySize -> Word]
  <2>1. CASE g.cmd = "write"
    <3>1. OperationMem(w, t) = [w EXCEPT ![g.addr] = g.data]
      BY <1>1, <1>3, <2>1 DEF OperationMem
    <3>2. g.data \in Word
      BY DEF GpShape
    <3> HIDE DEF Word
    <3> QED BY <3>1, <3>2
  <2>2. CASE g.cmd # "write"
    BY <1>1, <2>2 DEF OperationMem
  <2> QED BY <2>1, <2>2
<1>9. /\ g.cmd = "read" => OperationMem(w, t) = w
      /\ g.cmd = "write" => OperationMem(w, t) = [w EXCEPT ![g.addr] = g.data]
  BY <1>1, <1>3 DEF OperationMem
<1> QED BY <1>1, <1>2, <1>4, <1>5, <1>7, <1>8, <1>9 DEF CarriedOut

\* One target changes.
LEMMA TargetMoves ==
  ASSUME TgtOK, NEW m \in Target, NEW r \in TgtShape, tgt' = [tgt EXCEPT ![m] = r], UNCHANGED <<ini, bus>>
  PROVE  /\ TgtOK' /\ tgt'[m] = r /\ \A k \in Target : k # m => tgt'[k] = tgt[k]
         /\ r.rpc = tgt[m].rpc /\ r.epc = tgt[m].epc => SamePcs
<1>1. TgtOK' /\ tgt'[m] = r /\ \A k \in Target : k # m => tgt'[k] = tgt[k]
  <2> HIDE DEF TgtShape
  <2> QED BY DEF TgtOK
<1>2. ASSUME r.rpc = tgt[m].rpc, r.epc = tgt[m].epc PROVE SamePcs
  BY <1>1, <1>2 DEF SamePcs
<1> QED BY <1>1, <1>2

\* What a target knows of the payload of a request.
LEMMA AskedFacts ==
  ASSUME AtCore, NEW m \in Target, Called(ToTarget(m)), link.phase = "BEGIN_REQ", NEW t, t = link.txn
  PROVE  /\ link # NoCall /\ t \in Txn /\ link.delay = 0 /\ link.status = "called" /\ link.callee[1] = "target"
         /\ PayloadInv(t) /\ Asks(t) /\ Asked(t) /\ Waiting(t) /\ m = Where(t)
         /\ \A q \in Peq : t \notin Queued(q)
         /\ Wiring = "bus" => ~Sending(t) /\ ~Telling(t)
<1>1. /\ link # NoCall /\ t \in Txn /\ link.delay = 0 /\ link.callee = ToTarget(m) /\ link.status = "called"
      /\ ~Direct => \A n \in Initiator : ini[n].pc # "sent" /\ ini[n].mpc # "sent"
  <2> HIDE DEF AtCore, NoCall
  <2> QED BY TargetCalled
<1>2. PayloadInv(t)
  BY <1>1 DEF AtCore
<1>3. Asks(t) /\ link.callee[1] = "target" /\ link.callee[2] = m
  BY <1>1 DEF Asks, About, ToTarget
<1>4. Asked(t) /\ Waiting(t) /\ m = Where(t)
  <2> HIDE DEF Asks, Asked, Waiting, Where
  <2> QED BY <1>2, <1>3 DEF PayloadInv, InTransit
<1>5. \A q \in Peq : t \notin Queued(q)
  <2> HIDE DEF Asks, Queued, Peq, PayloadInv
  <2> QED BY <1>1, <1>2, <1>3, QueueFacts
<1>6. Wiring = "bus" => ~Sending(t)
  BY <1>1, OwnerFacts, Bindings DEF Sending
<1>7. ~Telling(t)
  BY DEF Telling, Responds
<1> HIDE DEF PayloadInv, Asks, Asked, Waiting, Where, Queued, Peq, Sending, Telling, NoCall
<1> QED BY <1>1, <1>2, <1>3, <1>4, <1>5, <1>6, <1>7

\* A target answers a request.
LEMMA TargetAnswers ==
  ASSUME AtCore, link # NoCall, link.status = "called", SamePcs, simc'.cur = simc.cur, NEW t, t = link.txn,
         NEW status, NEW phase, NEW delay \in 0..LongestDelay, link' = Answer(status, phase, delay),
         Valid(status, phase, delay)
  PROVE  /\ Calls' /\ link' # NoCall /\ link'.txn = t
         /\ ~Asks(t)' /\ ~Responds(t)' /\ ~EndsReq(t)' /\ ~Telling(t)'
         /\ status # "COMPLETED" => ~Reports(t)'
<1>1. Calls
  BY DEF AtCore
<1>2. /\ Calls' /\ link'.status # "called" /\ link' # NoCall /\ link'.txn = link.txn
      /\ link'.status = status /\ link'.phase = phase
  <2> HIDE DEF Calls, NoCall, SamePcs, Valid, AtCore
  <2> QED BY <1>1, CallsAnswered
<1> HIDE DEF Asks, Responds, EndsReq, Telling, Reports, Calls, NoCall
<1> QED BY <1>2, AnswerFacts

\* The times of a target.
LEMMA TargetTimes ==
  ASSUME NEW t \in Txn, gp[t].addr \in Addresses, gp[t].cmd \in {"read", "write"}
  PROVE  /\ OperationDelay(t) \in 0..LongestDelay /\ OperationDelay(t) + AcceptDelay \in 0..LongestDelay
         /\ AcceptDelay + OperationTime(t) \in 0..LongestDelay
         /\ AcceptDelay + OperationTime(t) + EndRspDelay <= LongestDelay
<1>1. PICK o \in Nat : o = OperationDelay(t) /\ o \in {ReadDelay, WriteDelay}
  BY AtNumbers DEF OperationDelay
<1>2. OperationTime(t) = o
  BY <1>1, AtNumbers DEF OperationTime, AddressOK
<1>3. PICK a, e, r, w \in Nat : a = AcceptDelay /\ e = EndRspDelay /\ r = ReadDelay /\ w = WriteDelay
  BY AtNumbers
<1>4. LongestDelay = a + r + w + e /\ o \in {r, w}
  BY <1>1, <1>3 DEF LongestDelay
<1>5. o \in 0..a+r+w+e /\ o + a \in 0..a+r+w+e /\ a + o \in 0..a+r+w+e /\ a + o + e <= a+r+w+e
  BY <1>3, <1>4
<1> QED BY <1>1, <1>2, <1>3, <1>4, <1>5

\* The count of the requests of a target.
LEMMA CountedType ==
  ASSUME TgtOK, NEW m \in Target
  PROVE  Counted(m) \in Nat
<1>1. tgt[m].count \in Nat
  BY DEF TgtOK, TgtShape
<1>2. PICK c \in Nat, p \in Nat \ {0} : c = tgt[m].count /\ p = Period
  BY <1>1, AtNumbers
<1>3. (c + 1) % p \in Nat
  BY <1>2
<1> QED BY <1>2, <1>3 DEF Counted

\* The request is carried out in the call.
LEMMA CompletesCore ==
  ASSUME AtCore, NEW m \in Target, UNCHANGED <<tg, ini, bus>>, BeginReqCompletes(m)
  PROVE  AtCore'
<1>0. Types /\ GpOK /\ TgtOK /\ KernelInv(LongestDelay, simc) /\ \A q \in Peq : Once(peq[q])
  BY DEF AtCore, Types
<1>1. PICK t : t = link.txn
  OBVIOUS
<1>2. PICK d : d = AcceptDelay + OperationTime(t)
  OBVIOUS
<1>3. /\ link # NoCall /\ t \in Txn /\ link.delay = 0 /\ link.status = "called" /\ link.callee[1] = "target"
      /\ PayloadInv(t) /\ Asks(t) /\ Asked(t) /\ Waiting(t) /\ m = Where(t)
      /\ \A q \in Peq : t \notin Queued(q)
      /\ Wiring = "bus" => ~Sending(t) /\ ~Telling(t)
  <2>1. Called(ToTarget(m)) /\ link.phase = "BEGIN_REQ"
    BY DEF BeginReqCompletes
  <2> HIDE DEF AtCore, NoCall, Called, PayloadInv, Asks, Asked, Waiting, Where, Queued, Peq, Sending, Telling
  <2> QED BY <1>1, <2>1, AskedFacts
<1>4. /\ Held(t) = 1 /\ gp[t].rc # 0 /\ gp[t].cmd \in {"read", "write"} /\ gp[t].addr \in Addresses
  <2> HIDE DEF AtCore, PayloadInv, Held, Asked, CarriedOut, InHand, Ending, Returning, Closing, Waiting
  <2> QED BY <1>3, WaitingHand
<1>5. d \in 0..LongestDelay /\ d + EndRspDelay <= LongestDelay
  BY <1>2, <1>3, <1>4, TargetTimes
<1>6. /\ link.phase = "BEGIN_REQ" /\ gp' = OperationGp(tgt[m].mem, t) /\ UNCHANGED <<simc, peq, fifo, pool, fatal>>
      /\ tgt' = [tgt EXCEPT ![m].count = Counted(m), ![m].mem = OperationMem(tgt[m].mem, t)]
      /\ link' = Answer("COMPLETED", "BEGIN_REQ", d)
  <2>1. link.delay + AcceptDelay + OperationTime(t) = d
    <3>1. PICK a \in Nat : a = AcceptDelay
      BY AtNumbers
    <3>2. link.delay + a = a
      BY <1>3, <3>1
    <3> QED BY <1>2, <3>1, <3>2
  <2> QED BY <1>1, <2>1 DEF BeginReqCompletes
<1>7. /\ GpOK' /\ CarriedOut(t)' /\ gp'[t].rc = gp[t].rc /\ gp'[t].cmd = gp[t].cmd
      /\ gp'[t].addr = gp[t].addr /\ gp'[t].port = gp[t].port
      /\ \A tx \in Txn : tx # t => gp'[tx] = gp[tx]
      /\ OperationMem(tgt[m].mem, t) \in [1..MemorySize -> Word]
  <2> HIDE DEF GpOK, TgtOK, OperationGp, OperationMem, CarriedOut, Word
  <2> QED BY <1>0, <1>3, <1>4, <1>6, Operates
<1>8. PICK s \in TgtShape : s = tgt[m]
  BY <1>0 DEF TgtOK
<1>9. PICK c \in Nat, w \in [1..MemorySize -> Word] : c = Counted(m) /\ w = OperationMem(tgt[m].mem, t)
  <2>1. Counted(m) \in Nat
    BY <1>0, CountedType
  <2> HIDE DEF Counted, OperationMem, Word
  <2> QED BY <1>7, <2>1
<1> DEFINE r == [s EXCEPT !.count = c, !.mem = w]
<1>10. r \in TgtShape /\ r.rpc = s.rpc /\ r.epc = s.epc
  <2> HIDE DEF Word
  <2> QED BY Zenon DEF TgtShape
<1>11. tgt' = [tgt EXCEPT ![m] = r]
  <2>1. tgt' = [tgt EXCEPT ![m].count = c, ![m].mem = w]
    <3> HIDE DEF Counted, OperationMem
    <3> QED BY <1>6, <1>9, Zenon
  <2> QED BY <1>8, <2>1
<1> HIDE DEF r
<1>12. TgtOK' /\ SamePcs
  <2> HIDE DEF TgtOK, TgtShape, SamePcs
  <2> QED BY <1>0, <1>8, <1>10, <1>11, TargetMoves
<1>13. /\ Calls' /\ link' # NoCall /\ link'.txn = t /\ ~Asks(t)' /\ ~Responds(t)' /\ ~EndsReq(t)' /\ ~Telling(t)'
  <2> DEFINE phase == "BEGIN_REQ"
             status == "COMPLETED"
  <2>1. Valid(status, phase, d) /\ link' = Answer(status, phase, d)
    BY <1>3, <1>5, <1>6 DEF Valid
  <2> HIDE DEF status, phase, AtCore, NoCall, SamePcs, Valid, Calls, Asks, Responds, EndsReq, Telling, Reports
  <2> QED BY <1>1, <1>3, <1>5, <1>6, <1>12, <2>1, TargetAnswers
<1>14. Types'
  <2>1. IniOK' /\ BusOK' /\ PeqOK' /\ Shapes'
    <3> HIDE DEF Types, GpOK, IniOK, BusOK, TgtOK, PeqOK, Shapes
    <3> QED BY <1>0, <1>6, TypesKept
  <2>2. KernelInv(LongestDelay, simc)' /\ fatal' \in BOOLEAN
    BY <1>0, <1>6 DEF Types
  <2> QED BY <1>7, <1>12, <2>1, <2>2 DEF Types
<1>15. \A q \in Peq : \A u : (u \in Queued(q))' <=> u \in Queued(q)
  BY <1>6, PeqSame
<1>16. \A tx \in Txn : /\ Responding(tx)' <=> Responding(tx)
                       /\ bus'.pending[tx].known = bus.pending[tx].known
                       /\ bus'.pending[tx].from = bus.pending[tx].from
                       /\ Known(tx)' <=> Known(tx)
  <2> HIDE DEF Responding, Known
  <2> QED BY BusSame
<1>17. Held(t)' = 1
  <2>1. BusHolds(t)' = BusHolds(t)
    BY <1>3, <1>16 DEF BusHolds
  <2> QED BY <1>4, <1>7, <2>1 DEF Held
<1>18. Tracking(t)'
  <2>1. Tracking(t)
    BY <1>3 DEF PayloadInv
  <2> HIDE DEF Tracking, Sending, Telling
  <2> QED BY <1>3, <1>13, <2>1, TrackingKept
<1>19. PICK q : q = requestPEQ
  OBVIOUS
<1>20. q[1] # "send_end_rsp_PEQ"
  BY <1>19 DEF requestPEQ
<1>21. \A p \in Peq : ~(t \in Queued(p))'
  <2> HIDE DEF Queued, Peq
  <2> QED BY <1>3, <1>15
<1> HIDE DEF AtCore, Types, Calls, Waiting, Reports, CarriedOut, Asked, Held, Sending, Asks, Responds, EndsReq, Tracking,
             Telling, NoCall, Responding, Queued, Peq, Fits, Once
<1> QED BY <1>0, <1>1, <1>3, <1>4, <1>6, <1>7, <1>13, <1>14, <1>15, <1>16, <1>17, <1>18, <1>20, <1>21, WaitsOn

\* The request waits in a queue of the target.
LEMMA QueuedAtTarget ==
  ASSUME AtCore, NEW m \in Target, UNCHANGED <<tg, ini, bus, fifo, gp, pool, fatal>>,
         Called(ToTarget(m)), link.phase = "BEGIN_REQ", NEW t, t = link.txn,
         NEW q \in Peq, NEW d \in 0..LongestDelay, NEW a \in 0..LongestDelay, NEW status, NEW phase, NEW r \in TgtShape,
         q \in {ResponsePeq(m), EndRequestPeq(m)},
         peq' = [peq EXCEPT ![q] = PeqInsert(@, t, d)], simc' = Notify(simc, q, d),
         link' = Answer(status, phase, a), Valid(status, phase, a), status # "COMPLETED",
         tgt' = [tgt EXCEPT ![m] = r], r.rpc = tgt[m].rpc, r.epc = tgt[m].epc
  PROVE  AtCore'
<1>0. Types /\ GpOK /\ TgtOK /\ PeqOK /\ KernelInv(LongestDelay, simc) /\ \A p \in Peq : Once(peq[p])
  BY DEF AtCore, Types
<1>3. /\ link # NoCall /\ t \in Txn /\ link.delay = 0 /\ link.status = "called" /\ link.callee[1] = "target"
      /\ PayloadInv(t) /\ Asks(t) /\ Asked(t) /\ Waiting(t) /\ m = Where(t)
      /\ \A p \in Peq : t \notin Queued(p)
      /\ Wiring = "bus" => ~Sending(t) /\ ~Telling(t)
  <2> HIDE DEF AtCore, NoCall, Called, PayloadInv, Asks, Asked, Waiting, Where, Queued, Peq, Sending, Telling
  <2> QED BY AskedFacts
<1>4. /\ Held(t) = 1 /\ gp[t].rc # 0 /\ gp[t].cmd \in {"read", "write"} /\ gp[t].addr \in Addresses
  <2> HIDE DEF AtCore, PayloadInv, Held, Asked, CarriedOut, InHand, Ending, Returning, Closing, Waiting
  <2> QED BY <1>3, WaitingHand
<1>7. /\ PeqOK' /\ \A p \in Peq : Once(peq'[p])
      /\ \A p \in Peq : \A u : (u \in Queued(p))' <=> u \in Queued(p) \/ (p = q /\ u = t)
  <2>1. t \notin Queued(q)
    BY <1>3
  <2> HIDE DEF PeqOK, Once, Queued, Peq, PeqInsert, LongestDelay
  <2> QED BY <1>0, <1>3, <2>1, PeqPut, Zenon
<1>8. KernelInv(LongestDelay, simc') /\ simc'.cur = simc.cur
  <2>1. q \in Event
    BY AtNames
  <2> HIDE DEF KernelInv, Event
  <2> QED BY <1>0, <2>1, AtKernel
<1>9. TgtOK' /\ SamePcs
  <2> HIDE DEF TgtOK, TgtShape, SamePcs
  <2> QED BY <1>0, TargetMoves
<1>10. /\ Calls' /\ link' # NoCall /\ link'.txn = t /\ ~Asks(t)' /\ ~Responds(t)' /\ ~EndsReq(t)' /\ ~Telling(t)' /\ ~Reports(t)'
  <2> HIDE DEF AtCore, NoCall, SamePcs, Valid, Calls, Asks, Responds, EndsReq, Telling, Reports
  <2> QED BY <1>3, <1>8, <1>9, TargetAnswers
<1>11. Types'
  <2>1. IniOK' /\ BusOK' /\ GpOK' /\ Shapes'
    <3> HIDE DEF Types, GpOK, IniOK, BusOK, TgtOK, PeqOK, Shapes
    <3> QED BY <1>0, TypesKept
  <2>2. fatal' \in BOOLEAN
    BY <1>0 DEF Types
  <2> QED BY <1>7, <1>8, <1>9, <2>1, <2>2 DEF Types
<1>12. \A tx \in Txn : /\ Responding(tx)' <=> Responding(tx)
                       /\ bus'.pending[tx].known = bus.pending[tx].known
                       /\ bus'.pending[tx].from = bus.pending[tx].from
                       /\ Known(tx)' <=> Known(tx)
                       /\ gp'[tx] = gp[tx]
  <2> HIDE DEF Responding, Known
  <2> QED BY BusSame
<1>13. Held(t)' = 1 /\ Asked(t)'
  <2>1. BusHolds(t)' = BusHolds(t)
    BY <1>3, <1>12 DEF BusHolds
  <2> QED BY <1>3, <1>4, <2>1 DEF Held, Asked
<1>14. Tracking(t)'
  <2>1. Tracking(t)
    BY <1>3 DEF PayloadInv
  <2> HIDE DEF Tracking, Sending, Telling
  <2> QED BY <1>3, <1>10, <2>1, TrackingKept
<1>15. q[1] # "send_end_rsp_PEQ" /\ Fits(q, t)'
  <2>1. q \in {"end_request_PEQ", "response_PEQ"} \X Target /\ q[2] = m /\ q[1] # "send_end_rsp_PEQ"
    BY DEF ResponsePeq, EndRequestPeq
  <2>2. q # requestPEQ /\ q # responsePEQ
    BY <2>1 DEF requestPEQ, responsePEQ
  <2>3. Waiting(t)' /\ m = Where(t)'
    <3>1. (Sending(t)' <=> Sending(t)) /\ (Heard(t)' <=> Heard(t)) /\ Where(t)' = Where(t)
      <4> HIDE DEF Sending, Heard, Where
      <4> QED BY <1>3, InitiatorSame, GeneratorSame
    <3> HIDE DEF Sending, Heard, Where
    <3> QED BY <1>3, <3>1 DEF Waiting
  <2> HIDE DEF Waiting, Where, Asked
  <2> QED BY <1>13, <2>1, <2>2, <2>3 DEF Fits
<1>16. gp'[t].rc # 0 /\ gp'[t].cmd = gp[t].cmd /\ gp'[t].addr = gp[t].addr
  BY <1>4
<1>17. /\ \A p \in Peq : (t \in Queued(p))' => p = q
       /\ \A tx \in Txn : tx # t => \A p \in Peq : (tx \in Queued(p))' <=> tx \in Queued(p)
  <2> HIDE DEF Queued, Peq
  <2> QED BY <1>3, <1>7
<1> HIDE DEF AtCore, Types, Calls, Waiting, Reports, CarriedOut, Asked, Held, Sending, Asks, Responds, EndsReq, Tracking,
             Telling, NoCall, Responding, Queued, Peq, Fits, Once, TgtOK, TgtShape, KernelInv, GpOK, PeqOK, PayloadInv, Valid
<1> QED BY <1>3, <1>7, <1>10, <1>11, <1>12, <1>13, <1>14, <1>15, <1>16, <1>17, WaitsOn

\* A target takes a request it does not complete in the call.
LEMMA QueuesCore ==
  ASSUME AtCore, NEW m \in Target, UNCHANGED <<tg, ini, bus>>, BeginReqUpdates(m) \/ BeginReqAccepted(m)
  PROVE  AtCore'
<1>0. Types /\ GpOK /\ TgtOK
  BY DEF AtCore, Types
<1>1. PICK t : t = link.txn
  OBVIOUS
<1>2. Called(ToTarget(m)) /\ link.phase = "BEGIN_REQ" /\ UNCHANGED <<fifo, gp, pool, fatal>>
  BY DEF BeginReqUpdates, BeginReqAccepted
<1>3. /\ link # NoCall /\ t \in Txn /\ link.delay = 0 /\ link.status = "called" /\ link.callee[1] = "target"
      /\ PayloadInv(t) /\ Asks(t) /\ Asked(t) /\ Waiting(t) /\ m = Where(t)
      /\ \A q \in Peq : t \notin Queued(q)
      /\ Wiring = "bus" => ~Sending(t) /\ ~Telling(t)
  <2> HIDE DEF AtCore, NoCall, Called, PayloadInv, Asks, Asked, Waiting, Where, Queued, Peq, Sending, Telling
  <2> QED BY <1>1, <1>2, AskedFacts
<1>4. /\ Held(t) = 1 /\ gp[t].rc # 0 /\ gp[t].cmd \in {"read", "write"} /\ gp[t].addr \in Addresses
  <2> HIDE DEF AtCore, PayloadInv, Held, Asked, CarriedOut, InHand, Ending, Returning, Closing, Waiting
  <2> QED BY <1>3, WaitingHand
<1>5. PICK s \in TgtShape : s = tgt[m]
  BY <1>0 DEF TgtOK
<1>6. CASE BeginReqUpdates(m)
  <2>1. PICK d : d = OperationDelay(t) + AcceptDelay
    OBVIOUS
  <2>2. d \in 0..LongestDelay /\ link.delay + OperationDelay(t) + AcceptDelay = d
    <3>1. d \in 0..LongestDelay /\ OperationDelay(t) \in 0..LongestDelay
      BY <1>3, <1>4, <2>1, TargetTimes
    <3>2. link.delay + OperationDelay(t) = OperationDelay(t)
      BY <1>3, <3>1, AtNumbers
    <3> QED BY <2>1, <3>1, <3>2
  <2>3. /\ peq' = [peq EXCEPT ![ResponsePeq(m)] = PeqInsert(@, t, d)] /\ simc' = Notify(simc, ResponsePeq(m), d)
        /\ link' = Answer("UPDATED", "END_REQ", AcceptDelay) /\ tgt' = [tgt EXCEPT ![m].count = Counted(m)]
    BY <1>1, <1>6, <2>2 DEF BeginReqUpdates
  <2>4. Valid("UPDATED", "END_REQ", AcceptDelay)
    BY <1>2, <1>3 DEF Valid
  <2>5. PICK c \in Nat : c = Counted(m)
    BY <1>0, CountedType
  <2> DEFINE r == [s EXCEPT !.count = c]
  <2>6. r \in TgtShape /\ r.rpc = s.rpc /\ r.epc = s.epc
    <3> HIDE DEF Word
    <3> QED BY Zenon DEF TgtShape
  <2>7. tgt' = [tgt EXCEPT ![m] = r]
    BY <1>5, <2>3, <2>5
  <2> HIDE DEF r, Valid
  <2>8. PICK q \in Peq : q = ResponsePeq(m)
    BY AtNames
  <2>9. PICK status, phase : status = "UPDATED" /\ phase = "END_REQ"
    OBVIOUS
  <2>10. AcceptDelay \in 0..LongestDelay
    BY AtNumbers
  <2>11. /\ q \in {ResponsePeq(m), EndRequestPeq(m)}
         /\ peq' = [peq EXCEPT ![q] = PeqInsert(@, t, d)] /\ simc' = Notify(simc, q, d)
         /\ link' = Answer(status, phase, AcceptDelay) /\ Valid(status, phase, AcceptDelay) /\ status # "COMPLETED"
         /\ tgt' = [tgt EXCEPT ![m] = r] /\ r.rpc = s.rpc /\ r.epc = s.epc
    BY <2>3, <2>4, <2>6, <2>7, <2>8, <2>9
  <2> HIDE DEF AtCore, Called, TgtShape, Peq, PeqInsert, LongestDelay, ResponsePeq, EndRequestPeq, Notify
  <2> QED BY <1>1, <1>2, <1>5, <2>2, <2>6, <2>8, <2>10, <2>11, QueuedAtTarget
<1>7. CASE BeginReqAccepted(m)
  <2>1. PICK d \in 0..LongestDelay : d = AcceptDelay
    BY AtNumbers
  <2>2. link.delay + AcceptDelay = d
    BY <1>3, <2>1, AtNumbers
  <2>3. PICK a \in 0..LongestDelay : a = link.delay
    BY <1>3, AtNumbers
  <2>4. /\ peq' = [peq EXCEPT ![EndRequestPeq(m)] = PeqInsert(@, t, d)] /\ simc' = Notify(simc, EndRequestPeq(m), d)
        /\ link' = Answer("ACCEPTED", link.phase, a) /\ tgt' = tgt
    BY <1>1, <1>7, <2>2, <2>3 DEF BeginReqAccepted
  <2>5. Valid("ACCEPTED", link.phase, a)
    BY <1>2, <2>3 DEF Valid
  <2>6. tgt' = [tgt EXCEPT ![m] = s]
    BY <1>0, <1>5, <2>4 DEF TgtOK
  <2>7. PICK q \in Peq : q = EndRequestPeq(m)
    BY AtNames
  <2> HIDE DEF Valid
  <2>8. PICK status, phase : status = "ACCEPTED" /\ phase = link.phase
    OBVIOUS
  <2>9. /\ q \in {ResponsePeq(m), EndRequestPeq(m)}
        /\ peq' = [peq EXCEPT ![q] = PeqInsert(@, t, d)] /\ simc' = Notify(simc, q, d)
        /\ link' = Answer(status, phase, a) /\ Valid(status, phase, a) /\ status # "COMPLETED"
    BY <2>4, <2>5, <2>7, <2>8
  <2> HIDE DEF AtCore, Called, TgtShape, Peq, PeqInsert, LongestDelay, ResponsePeq, EndRequestPeq, Notify
  <2> QED BY <1>1, <1>2, <1>5, <2>1, <2>3, <2>6, <2>7, <2>9, QueuedAtTarget
<1> QED BY <1>6, <1>7

\* A payload is taken from one queue and put into another.
PeqMove(q1, q2, tx, t) == [PeqPop(q1) EXCEPT ![q2] = PeqInsert(@, tx, t)]

LEMMA PeqMoved ==
  ASSUME PeqOK, \A r \in Peq : Once(peq[r]), NEW q1 \in Peq, NEW q2 \in Peq, q1 # q2, PeqDue(q1),
         NEW tx, tx = Head(peq[q1]).txn, NEW t \in 0..LongestDelay, tx \notin Queued(q2),
         peq' = PeqMove(q1, q2, tx, t)
  PROVE  /\ PeqOK' /\ tx \in Txn /\ tx \in Queued(q1)
         /\ \A r \in Peq : \A u : (u \in Queued(r))' <=> (u \in Queued(r) /\ ~(r = q1 /\ u = tx)) \/ (r = q2 /\ u = tx)
         /\ \A r \in Peq : Once(peq'[r])
<1> HIDE DEF Peq
<1>1. PICK s \in Seq(Entry), s2 \in Seq(Entry) : s = peq[q1] /\ s2 = peq[q2]
  BY DEF PeqOK
<1>2. s # << >> /\ Once(s) /\ Once(s2)
  BY <1>1 DEF PeqDue
<1>3. /\ Tail(s) \in Seq(Entry) /\ Head(s) \in Entry /\ Head(s).txn \in Contained(s)
      /\ Once(Tail(s)) /\ Contained(Tail(s)) = Contained(s) \ {Head(s).txn}
  BY <1>2, PeqTail
<1>4. tx \in Txn /\ tx = Head(s).txn
  BY <1>1, <1>3 DEF Entry
<1> HIDE DEF Entry
<1>5. PICK z : z = PeqInsert(s2, tx, t)
  OBVIOUS
<1>6. tx \notin Contained(s2)
  BY <1>1 DEF Queued, Contained
<1>7. /\ z \in Seq(Entry) /\ Contained(z) = Contained(s2) \union {tx} /\ Once(z)
  BY <1>2, <1>4, <1>5, <1>6, PeqInserted
<1>8. peq' = [[peq EXCEPT ![q1] = Tail(s)] EXCEPT ![q2] = z]
  BY <1>1, <1>5 DEF PeqMove, PeqPop, PeqOK
<1>9. peq'[q1] = Tail(s) /\ peq'[q2] = z /\ \A r \in Peq : r # q1 /\ r # q2 => peq'[r] = peq[r]
  BY <1>8 DEF PeqOK
<1>10. PeqOK'
  BY <1>3, <1>7, <1>8 DEF PeqOK
<1>11. /\ Queued(q1) = Contained(s) /\ Queued(q1)' = Contained(Tail(s))
       /\ Queued(q2) = Contained(s2) /\ Queued(q2)' = Contained(z)
       /\ \A r \in Peq : r # q1 /\ r # q2 => Queued(r)' = Queued(r)
  <2>1. PICK v : v = Tail(s)
    OBVIOUS
  <2>2. peq'[q1] = v
    BY <1>9, <2>1
  <2>3. Queued(q1) = Contained(s) /\ Queued(q1)' = Contained(v)
    BY <1>1, <2>2 DEF Queued, Contained
  <2>4. Queued(q2) = Contained(s2) /\ Queued(q2)' = Contained(z)
    BY <1>1, <1>9 DEF Queued, Contained
  <2>5. \A r \in Peq : r # q1 /\ r # q2 => Queued(r)' = Queued(r)
    BY <1>9 DEF Queued
  <2> QED BY <2>1, <2>3, <2>4, <2>5
<1>12. \A r \in Peq : Once(peq'[r])
  BY <1>3, <1>7, <1>9
<1>13. \A r \in Peq : \A u : (u \in Queued(r))' <=> (u \in Queued(r) /\ ~(r = q1 /\ u = tx)) \/ (r = q2 /\ u = tx)
  <2>1. \A u : /\ (u \in Queued(q1))' <=> u \in Queued(q1) /\ u # tx
               /\ (u \in Queued(q2))' <=> u \in Queued(q2) \/ u = tx
    BY <1>3, <1>4, <1>7, <1>11
  <2> HIDE DEF Queued
  <2> QED BY <1>11, <2>1
<1> QED BY <1>1, <1>3, <1>4, <1>10, <1>11, <1>12, <1>13

\* The payload at the head of a queue that is not an initiator's.
LEMMA HeadFacts ==
  ASSUME AtCore, link = NoCall, NEW q \in Peq, q[1] # "send_end_rsp_PEQ", PeqDue(q), NEW t, t = Head(peq[q]).txn
  PROVE  /\ t \in Txn /\ t \in Queued(q) /\ PayloadInv(t) /\ Fits(q, t)
         /\ \A r \in Peq : t \in Queued(r) <=> r = q
         /\ Waiting(t) /\ Heard(t) /\ ~Sending(t) /\ ~Closing(t) /\ Held(t) = 1 /\ gp[t].rc # 0
         /\ gp[t].cmd \in {"read", "write"} /\ gp[t].addr \in Addresses
         /\ ~Telling(t) /\ ~Responding(t) /\ (Asked(t) \/ CarriedOut(t))
         /\ Wiring = "bus" => Known(t) /\ bus.pending[t].from = Owner(t) /\ Tracked(t)
<1>1. PICK s \in Seq(Entry) : s = peq[q]
  BY DEF AtCore, Types, PeqOK
<1>2. s # << >>
  BY <1>1 DEF PeqDue
<1>3. Head(s) \in Entry /\ Head(s).txn \in Contained(s)
  BY <1>2, PeqTail
<1>4. t \in Txn /\ t \in Queued(q)
  BY <1>1, <1>3 DEF Entry, Queued, Contained
<1>5. PayloadInv(t)
  BY <1>4 DEF AtCore
<1>6. Fits(q, t) /\ \A r \in Peq : t \in Queued(r) <=> r = q
  <2> HIDE DEF Fits, Queued, Peq, PayloadInv
  <2> QED BY <1>4, <1>5, QueueFacts
<1>7. Waiting(t)
  <2>1. q = requestPEQ \/ q = responsePEQ \/ q \in {"end_request_PEQ", "response_PEQ"} \X Target
    <3>1. q \notin {"send_end_rsp_PEQ"} \X Initiator
      OBVIOUS
    <3> HIDE DEF Peq
    <3> QED BY <3>1, PeqNames
  <2> HIDE DEF Waiting, Asked, CarriedOut
  <2> QED BY <1>6, <2>1 DEF Fits
<1>8. /\ Heard(t) /\ ~Sending(t) /\ ~Closing(t) /\ Held(t) = 1 /\ gp[t].rc # 0
      /\ gp[t].cmd \in {"read", "write"} /\ gp[t].addr \in Addresses /\ (Asked(t) \/ CarriedOut(t))
  <2> HIDE DEF AtCore, PayloadInv, Held, Asked, CarriedOut, InHand, Ending, Returning, Closing, Waiting, Heard, Sending, NoCall
  <2> QED BY <1>4, <1>7, WaitingHand
<1>9. ~Telling(t)
  <2> HIDE DEF Telling, NoCall
  <2> QED BY CallOver
<1>10. Wiring = "bus" => Known(t) /\ bus.pending[t].from = Owner(t) /\ Tracked(t)
  <2> HIDE DEF Known, Tracked, Responding, Telling, Heard, Sending, About
  <2> QED BY <1>5, <1>8, <1>9 DEF PayloadInv, Tracking
<1>11. ~Responding(t)
  <2> HIDE DEF Known, Tracked, Responding, Telling, Heard, Sending, About
  <2> QED BY <1>5, <1>10 DEF PayloadInv, Tracking
<1> HIDE DEF PayloadInv, Fits, Queued, Peq, Waiting, Heard, Sending, Closing, Held, Telling, Responding, Known, Tracked, AtCore,
             Asked, CarriedOut
<1> QED BY <1>4, <1>5, <1>6, <1>7, <1>8, <1>9, <1>10, <1>11

\* The shape of a call that is made.
LEMMA CallShape ==
  ASSUME NEW t \in Txn, NEW phase \in Phases
  PROVE  /\ \A m \in Target : /\ link' = Call(FromTarget(m), t, phase) => link' \in LinkShape
                              /\ link' = Call(ToTarget(m), t, phase) => link' \in LinkShape
         /\ \A n \in Initiator : link' = Call(ToInitiator(n), t, phase) => link' \in LinkShape
<1>1. 0 \in 0..LongestDelay
  BY AtNumbers
<1>2. ASSUME NEW c \in {"bus_fw", "bus_bw", "initiator", "target"} \X Nat, link' = Call(c, t, phase)
      PROVE  link' \in LinkShape
  BY <1>1, <1>2 DEF LinkShape, Call
<1>3. ASSUME NEW m \in Target
      PROVE  {FromTarget(m), ToTarget(m)} \subseteq {"bus_fw", "bus_bw", "initiator", "target"} \X Nat
  <2>1. m \in Nat /\ m + 1 \in Nat
    BY AtNumbers DEF Target
  <2> QED BY <2>1 DEF FromTarget, ToTarget
<1>4. ASSUME NEW n \in Initiator
      PROVE  ToInitiator(n) \in {"bus_fw", "bus_bw", "initiator", "target"} \X Nat
  <2>1. n \in Nat
    BY AtNumbers DEF Initiator
  <2> QED BY <2>1 DEF ToInitiator
<1> HIDE DEF Call, LinkShape, FromTarget, ToTarget, ToInitiator, Target, Initiator
<1> QED BY <1>2, <1>3, <1>4

\* A target makes a call.
LEMMA TargetCalling ==
  ASSUME AtCore, NEW m \in Target, NEW t \in Txn, m = Where(t), link = NoCall,
         NEW phase, link' = Call(FromTarget(m), t, phase), simc'.cur = simc.cur, UNCHANGED <<ini, bus>>,
         NEW r \in TgtShape, tgt' = [tgt EXCEPT ![m] = r],
         \/ phase = "BEGIN_RESP" /\ simc.cur = BeginResponse(m) /\ r.rpc = "sent" /\ r.epc = tgt[m].epc
         \/ phase = "END_REQ" /\ simc.cur = EndRequest(m) /\ r.epc = "sent" /\ r.rpc = tgt[m].rpc
  PROVE  /\ Calls' /\ TgtOK' /\ link'.txn = t /\ ~Reports(t)' /\ ~Asks(t)' /\ (Wiring = "bus" => ~Telling(t)')
         /\ Responds(t)' <=> phase = "BEGIN_RESP"
<1>0. t \in Txn
  OBVIOUS
<1>1. Calls /\ TgtOK /\ DOMAIN tgt = Target
  BY DEF AtCore, Types, TgtOK
<1>2. /\ link' # NoCall /\ link'.txn = t /\ link'.status = "called" /\ link'.phase = phase
      /\ link'.callee = FromTarget(m) /\ link'.delay = 0 /\ ~Reports(t)'
      /\ Asks(t)' <=> phase = "BEGIN_REQ"
      /\ Responds(t)' <=> phase = "BEGIN_RESP"
      /\ Telling(t)' <=> phase = "BEGIN_RESP" /\ FromTarget(m) = ToInitiator(Owner(t))
  <2>1. PICK c : c = FromTarget(m)
    OBVIOUS
  <2>2. link' = Call(c, t, phase)
    BY <2>1
  <2> HIDE DEF About, Reports, Asks, Responds, EndsReq, Telling, NoCall, ToInitiator, FromTarget
  <2>3. /\ link' # NoCall /\ link'.txn = t /\ link'.status = "called" /\ link'.phase = phase
        /\ link'.callee = c /\ link'.delay = 0 /\ ~Reports(t)'
        /\ Asks(t)' <=> phase = "BEGIN_REQ"
        /\ Responds(t)' <=> phase = "BEGIN_RESP"
        /\ Telling(t)' <=> phase = "BEGIN_RESP" /\ c = ToInitiator(Owner(t))
    BY ONLY <1>0, <2>2, CallMade
  <2> QED BY <2>1, <2>3
<1>3. Wiring = "bus" => FromTarget(m) # ToInitiator(Owner(t))
  <2>1. ASSUME Wiring = "bus" PROVE FromTarget(m)[1] = "bus_bw"
    BY <2>1, Bindings DEF FromTarget
  <2>2. ToInitiator(Owner(t))[1] = "initiator"
    BY DEF ToInitiator
  <2> HIDE DEF FromTarget, ToInitiator
  <2> QED BY <2>1, <2>2
<1>4. TgtOK' /\ tgt'[m] = r
  <2> HIDE DEF TgtOK, TgtShape
  <2> QED BY <1>1, TargetMoves
<1>5. Direct => Owner(t) = m + 1
  <2>1. Owner(t) \in Nat
    BY OwnerFacts, AtNumbers
  <2> QED BY <2>1 DEF Where
<1>6. link' \in LinkShape
  <2>1. phase \in Phases
    BY DEF Phases
  <2> HIDE DEF LinkShape, FromTarget
  <2> QED BY <2>1, CallShape
<1>7. /\ (r.epc = tgt[m].epc => \A p \in Process : p # BeginResponse(m) => (Calling(p)' <=> Calling(p)))
      /\ (r.rpc = tgt[m].rpc => \A p \in Process : p # EndRequest(m) => (Calling(p)' <=> Calling(p)))
  <2> HIDE DEF Calling, Process
  <2> QED BY <1>1, OnlyTarget
<1>8. ASSUME phase = "BEGIN_RESP" /\ simc.cur = BeginResponse(m) /\ r.rpc = "sent" /\ r.epc = tgt[m].epc
      PROVE  Calls'
  <2>1. PICK p \in Process : p = BeginResponse(m)
    BY AtNames
  <2>2. BeginRespCall(m)'
    BY <1>2, <1>5, <1>8 DEF BeginRespCall, Open
  <2>3. Calling(BeginResponse(m))' /\ (CallOf(BeginResponse(m))' <=> BeginRespCall(m)')
    <3> HIDE DEF Calling, CallOf, BeginRespCall
    <3> QED BY <1>4, <1>8, CallingNames
  <2>4. Calling(p)' /\ CallOf(p)' /\ simc'.cur = p /\ \A x \in Process : x # p => (Calling(x)' <=> Calling(x))
    BY <1>7, <1>8, <2>1, <2>2, <2>3
  <2> HIDE DEF Calls, Calling, CallOf, Process, NoCall, BeginRespCall, LinkShape
  <2> QED BY <1>1, <1>6, <2>4, CallsMade
<1>9. ASSUME phase = "END_REQ" /\ simc.cur = EndRequest(m) /\ r.epc = "sent" /\ r.rpc = tgt[m].rpc
      PROVE  Calls'
  <2>1. PICK p \in Process : p = EndRequest(m)
    BY AtNames
  <2>2. TargetEndReqCall(m)'
    BY <1>2, <1>5, <1>9 DEF TargetEndReqCall, Open
  <2>3. Calling(EndRequest(m))' /\ (CallOf(EndRequest(m))' <=> TargetEndReqCall(m)')
    <3> HIDE DEF Calling, CallOf, TargetEndReqCall
    <3> QED BY <1>4, <1>9, CallingNames
  <2>4. Calling(p)' /\ CallOf(p)' /\ simc'.cur = p /\ \A x \in Process : x # p => (Calling(x)' <=> Calling(x))
    BY <1>7, <1>9, <2>1, <2>2, <2>3
  <2> HIDE DEF Calls, Calling, CallOf, Process, NoCall, TargetEndReqCall, LinkShape
  <2> QED BY <1>1, <1>6, <2>4, CallsMade
<1>10. Calls' /\ ~Asks(t)'
  <2>1. phase # "BEGIN_REQ"
    OBVIOUS
  <2>2. ~Asks(t)'
    <3> HIDE DEF Asks
    <3> QED BY <1>2, <2>1
  <2>3. Calls'
    <3> HIDE DEF Calls
    <3> QED BY <1>8, <1>9
  <2> QED BY <2>2, <2>3
<1> HIDE DEF Calls, Asks, Reports, Telling, Responds, TgtOK, NoCall, FromTarget, ToInitiator
<1> QED BY <1>2, <1>3, <1>4, <1>10

\* A target carries a transaction out and makes the call of BEGIN_RESP.
LEMMA BeginRespCore ==
  ASSUME AtCore, NEW m \in Target, UNCHANGED <<tg, ini, bus>>, BeginResp(m)
  PROVE  AtCore'
<1>0. /\ Types /\ Calls /\ GpOK /\ TgtOK /\ PeqOK /\ KernelInv(LongestDelay, simc) /\ fatal \in BOOLEAN
      /\ \A p \in Peq : Once(peq[p])
  BY DEF AtCore, Types
<1>1. PICK q \in Peq : q = ResponsePeq(m)
  BY AtNames
<1>2. PICK t : t = Head(peq[q]).txn
  OBVIOUS
<1>3. /\ simc.cur = BeginResponse(m) /\ tgt[m].rpc = "next" /\ PeqDue(q) /\ peq' = PeqPop(q)
      /\ gp' = OperationGp(tgt[m].mem, t) /\ link' = Call(FromTarget(m), t, "BEGIN_RESP")
      /\ tgt' = [tgt EXCEPT ![m].rpc = "sent", ![m].mem = OperationMem(tgt[m].mem, t)]
      /\ UNCHANGED <<simc, fifo, pool, fatal>>
  BY <1>1, <1>2 DEF BeginResp, Executing
<1>4. link = NoCall
  <2>1. ~Calling(simc.cur)
    BY <1>3, Idle
  <2> HIDE DEF Calls, Calling, Process, NoCall
  <2> QED BY <1>0, <2>1, NotCalling
<1>5. q \in {"end_request_PEQ", "response_PEQ"} \X Target /\ q[2] = m /\ q[1] # "send_end_rsp_PEQ"
  BY <1>1 DEF ResponsePeq
<1>6. /\ t \in Txn /\ t \in Queued(q) /\ PayloadInv(t) /\ Fits(q, t)
      /\ \A r \in Peq : t \in Queued(r) <=> r = q
      /\ Waiting(t) /\ Heard(t) /\ ~Sending(t) /\ Held(t) = 1 /\ gp[t].rc # 0
      /\ gp[t].cmd \in {"read", "write"} /\ gp[t].addr \in Addresses /\ ~Telling(t)
  <2> HIDE DEF AtCore, NoCall, Peq, PeqDue, Queued, PayloadInv, Fits, Waiting, Heard, Sending, Held, Telling, Closing, Responding,
               Asked, CarriedOut, Known, Tracked
  <2> QED BY <1>2, <1>3, <1>4, <1>5, HeadFacts
<1>7. m = Where(t) /\ Asked(t)
  <2> HIDE DEF Asked, Where
  <2> QED BY <1>5, <1>6 DEF Fits
<1>8. /\ PeqOK' /\ \A r \in Peq : Once(peq'[r])
      /\ \A r \in Peq : \A u : (u \in Queued(r))' <=> u \in Queued(r) /\ ~(r = q /\ u = t)
  <2> HIDE DEF PeqOK, Once, Queued, Peq, PeqPop, PeqDue
  <2> QED BY <1>0, <1>2, <1>3, PeqTaken
<1>9. /\ GpOK' /\ CarriedOut(t)' /\ gp'[t].rc = gp[t].rc /\ gp'[t].cmd = gp[t].cmd
      /\ gp'[t].addr = gp[t].addr /\ gp'[t].port = gp[t].port
      /\ \A tx \in Txn : tx # t => gp'[tx] = gp[tx]
      /\ OperationMem(tgt[m].mem, t) \in [1..MemorySize -> Word]
  <2> HIDE DEF GpOK, TgtOK, OperationGp, OperationMem, CarriedOut, Word
  <2> QED BY <1>0, <1>3, <1>6, Operates
<1>10. PICK s \in TgtShape : s = tgt[m]
  BY <1>0 DEF TgtOK
<1>11. PICK w \in [1..MemorySize -> Word] : w = OperationMem(tgt[m].mem, t)
  BY <1>9
<1> DEFINE z == [s EXCEPT !.rpc = "sent", !.mem = w]
<1>12. z \in TgtShape /\ z.rpc = "sent" /\ z.epc = s.epc
  <2> HIDE DEF Word
  <2> QED BY Zenon DEF TgtShape
<1>13. tgt' = [tgt EXCEPT ![m] = z]
  <2>1. tgt' = [tgt EXCEPT ![m].rpc = "sent", ![m].mem = w]
    <3> HIDE DEF OperationMem
    <3> QED BY <1>3, <1>11, Zenon
  <2> QED BY <1>10, <2>1
<1> HIDE DEF z
<1>14. PICK phase : phase = "BEGIN_RESP"
  OBVIOUS
<1>15. /\ Calls' /\ TgtOK' /\ link'.txn = t /\ ~Reports(t)' /\ ~Asks(t)' /\ (Wiring = "bus" => ~Telling(t)')
       /\ Responds(t)'
  <2>1. link' = Call(FromTarget(m), t, phase)
    BY <1>3, <1>14
  <2>2. phase = "BEGIN_RESP" /\ simc.cur = BeginResponse(m) /\ z.rpc = "sent" /\ z.epc = tgt[m].epc
    BY <1>3, <1>10, <1>12, <1>14
  <2>3. AtCore /\ m \in Target /\ t \in Txn /\ m = Where(t) /\ UNCHANGED <<ini, bus>> /\ simc'.cur = simc.cur
    BY <1>3, <1>6, <1>7
  <2> HIDE DEF AtCore, Calls, NoCall, Call, FromTarget, TgtShape, TgtOK, Reports, Asks, Telling, Responds, Where
  <2>4. /\ Calls' /\ TgtOK' /\ link'.txn = t /\ ~Reports(t)' /\ ~Asks(t)' /\ (Wiring = "bus" => ~Telling(t)')
        /\ Responds(t)' <=> phase = "BEGIN_RESP"
    BY ONLY <1>4, <1>12, <1>13, <2>1, <2>2, <2>3, TargetCalling
  <2> QED BY <1>14, <2>4
<1>16. Types'
  <2>1. IniOK' /\ BusOK' /\ Shapes'
    <3> HIDE DEF Types, GpOK, IniOK, BusOK, TgtOK, PeqOK, Shapes
    <3> QED BY <1>0, <1>3, TypesKept
  <2> QED BY <1>0, <1>3, <1>8, <1>9, <1>15, <2>1 DEF Types
<1>17. \A tx \in Txn : /\ Responding(tx)' <=> Responding(tx)
                       /\ bus'.pending[tx].known = bus.pending[tx].known
                       /\ bus'.pending[tx].from = bus.pending[tx].from
                       /\ Known(tx)' <=> Known(tx)
  <2> HIDE DEF Responding, Known
  <2> QED BY BusSame
<1>18. Held(t)' = 1
  <2>1. BusHolds(t)' = BusHolds(t)
    BY <1>6, <1>17 DEF BusHolds
  <2> QED BY <1>6, <1>9, <2>1 DEF Held
<1>19. Tracking(t)'
  <2>1. Tracking(t)
    BY <1>6 DEF PayloadInv
  <2> HIDE DEF Tracking, Sending, Telling
  <2> QED BY <1>6, <1>15, <2>1, TrackingKept
<1>20. /\ \A r \in Peq : ~(t \in Queued(r))'
       /\ \A tx \in Txn : tx # t => \A r \in Peq : (tx \in Queued(r))' <=> tx \in Queued(r)
  <2> HIDE DEF Queued, Peq
  <2> QED BY <1>6, <1>8
<1> HIDE DEF AtCore, Types, Calls, Waiting, Reports, CarriedOut, Asked, Held, Sending, Asks, Responds, EndsReq, Tracking,
             Telling, NoCall, Responding, Queued, Peq, Fits, Once, Known
<1> QED BY <1>3, <1>4, <1>5, <1>6, <1>8, <1>9, <1>15, <1>16, <1>17, <1>18, <1>19, <1>20, WaitsOn

\* A target ends a request and queues its payload for the response.
LEMMA EndReqCore ==
  ASSUME AtCore, NEW m \in Target, UNCHANGED <<tg, ini, bus>>, EndReq(m)
  PROVE  AtCore'
<1>0. /\ Types /\ Calls /\ GpOK /\ TgtOK /\ PeqOK /\ KernelInv(LongestDelay, simc) /\ fatal \in BOOLEAN
      /\ \A p \in Peq : Once(peq[p])
  BY DEF AtCore, Types
<1>1. PICK q \in Peq, q2 \in Peq : q = EndRequestPeq(m) /\ q2 = ResponsePeq(m)
  BY AtNames
<1>2. PICK t : t = Head(peq[q]).txn
  OBVIOUS
<1>3. PICK d : d = OperationDelay(t)
  OBVIOUS
<1>4. /\ simc.cur = EndRequest(m) /\ tgt[m].epc = "next" /\ PeqDue(q)
      /\ peq' = PeqMove(q, q2, t, d) /\ simc' = Notify(simc, q2, d)
      /\ link' = Call(FromTarget(m), t, "END_REQ")
      /\ tgt' = [tgt EXCEPT ![m].epc = "sent"] /\ UNCHANGED <<fifo, gp, pool, fatal>>
  BY <1>1, <1>2, <1>3 DEF EndReq, Executing, PeqMove
<1>5. link = NoCall
  <2>1. ~Calling(simc.cur)
    BY <1>4, Idle
  <2> HIDE DEF Calls, Calling, Process, NoCall
  <2> QED BY <1>0, <2>1, NotCalling
<1>6. /\ q \in {"end_request_PEQ", "response_PEQ"} \X Target /\ q[2] = m /\ q[1] # "send_end_rsp_PEQ" /\ q # q2
      /\ q2 \in {"end_request_PEQ", "response_PEQ"} \X Target /\ q2[2] = m /\ q2[1] # "send_end_rsp_PEQ"
      /\ q2 # requestPEQ /\ q2 # responsePEQ
  <2>1. q[1] = "end_request_PEQ" /\ q2[1] = "response_PEQ" /\ requestPEQ[1] = "requestPEQ" /\ responsePEQ[1] = "responsePEQ"
    BY <1>1 DEF ResponsePeq, EndRequestPeq, requestPEQ, responsePEQ
  <2>2. q # q2 /\ q2 # requestPEQ /\ q2 # responsePEQ
    BY ONLY <2>1
  <2> QED BY <1>1, <2>1, <2>2 DEF ResponsePeq, EndRequestPeq
<1>7. /\ t \in Txn /\ t \in Queued(q) /\ PayloadInv(t) /\ Fits(q, t)
      /\ \A r \in Peq : t \in Queued(r) <=> r = q
      /\ Waiting(t) /\ Heard(t) /\ ~Sending(t) /\ Held(t) = 1 /\ gp[t].rc # 0
      /\ gp[t].cmd \in {"read", "write"} /\ gp[t].addr \in Addresses /\ ~Telling(t)
  <2> HIDE DEF AtCore, NoCall, Peq, PeqDue, Queued, PayloadInv, Fits, Waiting, Heard, Sending, Held, Telling, Closing, Responding,
               Asked, CarriedOut, Known, Tracked
  <2> QED BY <1>2, <1>4, <1>5, <1>6, HeadFacts
<1>8. m = Where(t) /\ Asked(t)
  <2> HIDE DEF Asked, Where
  <2> QED BY <1>6, <1>7 DEF Fits
<1>9. d \in 0..LongestDelay
  BY <1>3, <1>7, TargetTimes
<1>10. /\ PeqOK' /\ \A r \in Peq : Once(peq'[r])
       /\ \A r \in Peq : \A u : (u \in Queued(r))' <=> (u \in Queued(r) /\ ~(r = q /\ u = t)) \/ (r = q2 /\ u = t)
  <2>1. t \notin Queued(q2)
    <3> HIDE DEF Queued, Peq
    <3> QED BY <1>6, <1>7
  <2> HIDE DEF PeqOK, Once, Queued, Peq, PeqMove, PeqDue, LongestDelay
  <2> QED BY <1>0, <1>2, <1>4, <1>6, <1>9, <2>1, PeqMoved
<1>11. KernelInv(LongestDelay, simc') /\ simc'.cur = simc.cur
  <2>1. q2 \in Event
    BY AtNames
  <2> HIDE DEF KernelInv, Event
  <2> QED BY <1>0, <1>4, <1>9, <2>1, AtKernel
<1>12. PICK s \in TgtShape : s = tgt[m]
  BY <1>0 DEF TgtOK
<1> DEFINE z == [s EXCEPT !.epc = "sent"]
<1>13. z \in TgtShape /\ z.epc = "sent" /\ z.rpc = s.rpc
  <2> HIDE DEF Word
  <2> QED BY Zenon DEF TgtShape
<1>14. tgt' = [tgt EXCEPT ![m] = z]
  BY <1>4, <1>12
<1> HIDE DEF z
<1>15. PICK phase : phase = "END_REQ"
  OBVIOUS
<1>16. /\ Calls' /\ TgtOK' /\ link'.txn = t /\ ~Reports(t)' /\ ~Asks(t)' /\ (Wiring = "bus" => ~Telling(t)')
       /\ ~Responds(t)'
  <2>1. link' = Call(FromTarget(m), t, phase)
    BY <1>4, <1>15
  <2>2. phase = "END_REQ" /\ simc.cur = EndRequest(m) /\ z.epc = "sent" /\ z.rpc = tgt[m].rpc
    BY <1>4, <1>12, <1>13, <1>15
  <2>3. AtCore /\ m \in Target /\ t \in Txn /\ m = Where(t) /\ UNCHANGED <<ini, bus>> /\ simc'.cur = simc.cur
    BY <1>7, <1>8, <1>11
  <2> HIDE DEF AtCore, Calls, NoCall, Call, FromTarget, TgtShape, TgtOK, Reports, Asks, Telling, Responds, Where
  <2>4. /\ Calls' /\ TgtOK' /\ link'.txn = t /\ ~Reports(t)' /\ ~Asks(t)' /\ (Wiring = "bus" => ~Telling(t)')
        /\ Responds(t)' <=> phase = "BEGIN_RESP"
    BY ONLY <1>5, <1>13, <1>14, <2>1, <2>2, <2>3, TargetCalling
  <2>5. phase # "BEGIN_RESP"
    BY <1>15
  <2> QED BY <2>4, <2>5
<1>17. Types'
  <2>1. IniOK' /\ BusOK' /\ GpOK' /\ Shapes'
    <3> HIDE DEF Types, GpOK, IniOK, BusOK, TgtOK, PeqOK, Shapes
    <3> QED BY <1>0, <1>4, TypesKept
  <2> QED BY <1>0, <1>4, <1>10, <1>11, <1>16, <2>1 DEF Types
<1>18. \A tx \in Txn : /\ Responding(tx)' <=> Responding(tx)
                       /\ bus'.pending[tx].known = bus.pending[tx].known
                       /\ bus'.pending[tx].from = bus.pending[tx].from
                       /\ Known(tx)' <=> Known(tx)
                       /\ gp'[tx] = gp[tx]
  <2> HIDE DEF Responding, Known
  <2> QED BY <1>4, BusSame
<1>19. Held(t)' = 1 /\ Asked(t)'
  <2>1. BusHolds(t)' = BusHolds(t)
    BY <1>7, <1>18 DEF BusHolds
  <2> QED BY <1>7, <1>8, <1>18, <2>1 DEF Held, Asked
<1>20. Tracking(t)'
  <2>1. Tracking(t)
    BY <1>7 DEF PayloadInv
  <2> HIDE DEF Tracking, Sending, Telling
  <2> QED BY <1>7, <1>16, <2>1, TrackingKept
<1>21. /\ \A r \in Peq : (t \in Queued(r))' => r = q2
       /\ \A tx \in Txn : tx # t => \A r \in Peq : (tx \in Queued(r))' <=> tx \in Queued(r)
  <2> HIDE DEF Queued, Peq
  <2> QED BY <1>7, <1>10
<1>22. Fits(q2, t)'
  <2>1. Waiting(t)' /\ m = Where(t)'
    <3>1. (Sending(t)' <=> Sending(t)) /\ (Heard(t)' <=> Heard(t)) /\ Where(t)' = Where(t)
      <4> HIDE DEF Sending, Heard, Where
      <4> QED BY <1>4, <1>7, InitiatorSame, GeneratorSame
    <3> HIDE DEF Sending, Heard, Where
    <3> QED BY <1>7, <1>8, <3>1 DEF Waiting
  <2> HIDE DEF Waiting, Where, Asked
  <2> QED BY <1>6, <1>19, <2>1 DEF Fits
<1>23. gp'[t].rc # 0 /\ gp'[t].cmd = gp[t].cmd /\ gp'[t].addr = gp[t].addr
  BY <1>7, <1>18
<1> HIDE DEF AtCore, Types, Calls, Waiting, Reports, CarriedOut, Asked, Held, Sending, Asks, Responds, EndsReq, Tracking,
             Telling, NoCall, Responding, Queued, Peq, Fits, Once, Known
<1> QED BY <1>4, <1>5, <1>6, <1>7, <1>10, <1>16, <1>17, <1>18, <1>19, <1>20, <1>21, <1>22, <1>23, WaitsOn

\* Every step of a target.
LEMMA TargetCore ==
  ASSUME AtCore, NEW m \in Target, UNCHANGED <<tg, ini, bus>>, TgtStep(m)
  PROVE  AtCore'
<1>1. CASE BeginReqCompletes(m)
  <2> HIDE DEF AtCore, BeginReqCompletes
  <2> QED BY <1>1, CompletesCore
<1>2. CASE BeginReqUpdates(m) \/ BeginReqAccepted(m)
  <2> HIDE DEF AtCore, BeginReqUpdates, BeginReqAccepted
  <2> QED BY <1>2, QueuesCore
<1>3. CASE EndResp(m)
  <2> HIDE DEF AtCore, EndResp
  <2> QED BY <1>3, AnswersCore
<1>4. CASE BeginResp(m)
  <2> HIDE DEF AtCore, BeginResp
  <2> QED BY <1>4, BeginRespCore
<1>5. CASE BeginRespAnswered(m) \/ EndReqAnswered(m)
  <2> HIDE DEF AtCore, BeginRespAnswered, EndReqAnswered
  <2> QED BY <1>5, TargetReturns
<1>6. CASE BeginResponseReturns(m) \/ EndRequestReturns(m)
  <2> HIDE DEF AtCore
  <2>1. UNCHANGED tgt
    BY <1>6 DEF BeginResponseReturns, EndRequestReturns
  <2> HIDE DEF BeginResponseReturns, EndRequestReturns
  <2> QED BY <1>6, <2>1, WaitingSteps
<1>7. CASE EndReq(m)
  <2> HIDE DEF AtCore, EndReq
  <2> QED BY <1>7, EndReqCore
<1> HIDE DEF AtCore
<1> QED BY <1>1, <1>2, <1>3, <1>4, <1>5, <1>6, <1>7, Zenon DEF TgtStep

-----------------------------------------------------------------------------
(* Who waits for which event *)

\* Process c sleeps until queue q's event: it waits for it, or is a method that waits
\* for nothing else and so runs again when the event it is sensitive to is triggered.
Idles(k, c, q) ==
  Asleep(k, c) /\ (q \in WaitsFor(k, c) \/ (c \in Method /\ WaitsFor(k, c) = {}))

\* The bus thread that empties queue q has not begun to wait for it.
Fresh(q) == \/ q = requestPEQ /\ bus.req.pc = "start"
            \/ q = responsePEQ /\ bus.rsp.pc = "start"
Starting ==
  /\ bus.req.pc = "start" => ~Asleep(simc, RequestThread)
  /\ bus.rsp.pc = "start" => ~Asleep(simc, ResponseThread)

\* If queue q holds something, its event is pending no later than the head, unless its
\* consumer is about to look.
Armed(q) ==
  peq[q] # << >> /\ (Idles(simc, Consumer(q), q) \/ Fresh(q)) => simc.pend[q] \in 0..Head(peq[q]).left

AtArmed == OnePlace(simc) /\ (Wiring = "bus" => Starting) /\ \A q \in Peq : Armed(q)

\* A responder begins one response after the other, and waits for the end of each: the
\* bus's thread, or the method of each target.
Responder == IF Direct THEN {BeginResponse(m) : m \in Target} ELSE {ResponseThread}
EndOf(r) == IF Direct THEN EndRespRcvd(r[2]) ELSE mEndResponseEvent
Serves(r, tx) == Direct => r[2] = Owner(tx) - 1

\* Its call is answered, and the end of its response will be a call.
Replying(r) ==
  (IF Direct THEN tgt[r[2]].rpc = "sent" ELSE bus.rsp.pc = "sent") /\ link.status = "ACCEPTED"

\* The payloads of responder r whose initiator has not yet ended their response.
Late(r) == {tx \in Txn : Serves(r, tx) /\ (Ending(tx) \/ (Closing(tx) /\ link.status = "called"))}

\* There is one at most, while r waits for it, or is about to.  The event that ends the
\* wait is pending only after that.
OneLate(r) ==
  /\ \A t, u \in Late(r) : t = u
  /\ Late(r) # {} => simc.pend[EndOf(r)] = NotPending /\ (EndOf(r) \in WaitsFor(simc, r) \/ Replying(r))
  /\ simc.pend[EndOf(r)] # NotPending => EndOf(r) \in WaitsFor(simc, r)

AtWaits == AtArmed /\ \A r \in Responder : OneLate(r)

\* k differs from k0 in what is pending or to be updated.
Alike(k0, k) ==
  /\ k.cur = k0.cur /\ k.runnable = k0.runnable
  /\ k.methods_dynamic = k0.methods_dynamic /\ k.threads_dynamic = k0.threads_dynamic

\* From k to k2 process p stops, and waits for the events of E.
Rests(k, k2, p, E) ==
  /\ k2.cur = Nobody /\ k2.runnable = k.runnable
  /\ \A c \in Process : WaitsFor(k2, c) = IF c = p THEN E ELSE WaitsFor(k, c)

\* Two records of which one is like the other have the same processes waiting.
LEMMA AlikePlaces ==
  ASSUME NEW k0, NEW k, Alike(k0, k), OnePlace(k0)
  PROVE  OnePlace(k) /\ \A c \in Process : WaitsFor(k, c) = WaitsFor(k0, c)
<1> HIDE DEF Process, Event
<1> QED BY SamePlaces DEF Alike

\* The processor is given up from a record like k0 by process p, which waits for E.
LEMMA RestsAlike ==
  ASSUME NEW k0, NEW k, Alike(k0, k), OnePlace(k0), NEW p \in Process, k0.cur = p,
         NEW k2, NEW E \in SUBSET Event, \A e, f \in E : e = f,
         k2.cur = Nobody, k2.runnable = k.runnable, k2.update = k.update,
         \A f \in Event : Waiters(k2, f) = IF f \in E THEN Waiters(k, f) \union {p} ELSE Waiters(k, f)
  PROVE  OnePlace(k2) /\ Rests(k0, k2, p, E)
<1> HIDE DEF Process, Event
<1>1. OnePlace(k) /\ (\A c \in Process : WaitsFor(k, c) = WaitsFor(k0, c)) /\ k.cur = p /\ k.runnable = k0.runnable
  BY AlikePlaces DEF Alike
<1>2. OnePlace(k2) /\ Sleeps(k, k2, p, E)
  BY <1>1, SleepPlaces
<1> QED BY <1>1, <1>2 DEF Sleeps, Rests

\* The ways a process stops: wait(e) and wait(t) of a thread, and the return of a
\* method, with next_trigger(e), next_trigger(t) or without.
LEMMA StopsWith ==
  ASSUME NEW b \in Nat, NEW k0, NEW k, Alike(k0, k), OnePlace(k0), KernelInv(b, k),
         NEW p \in Process, k0.cur = p, NEW e \in Event
  PROVE  LET k2 == Yield(NextTrigger(k, p, e)) IN
         OnePlace(k2) /\ Rests(k0, k2, p, {e}) /\ k2.pend = k.pend
<1> HIDE DEF Process, Thread, Event
<1>1. PICK k1 : k1 = NextTrigger(k, p, e)
  OBVIOUS
<1>2. /\ KernelInv(b, k1) /\ k1.pend = k.pend /\ k1.update = k.update /\ k1.runnable = k.runnable
      /\ \/ k1.threads_dynamic = Joined(k.threads_dynamic, e, p) /\ k1.methods_dynamic = k.methods_dynamic
         \/ k1.methods_dynamic = Joined(k.methods_dynamic, e, p) /\ k1.threads_dynamic = k.threads_dynamic
  BY <1>1, NextTriggerOK
<1>3. PICK k2 : k2 = Yield(k1)
  OBVIOUS
<1>4. /\ k2.cur = Nobody /\ k2.pend = k1.pend /\ k2.update = k1.update /\ k2.runnable = k1.runnable
      /\ k2.methods_dynamic = k1.methods_dynamic /\ k2.threads_dynamic = k1.threads_dynamic
  BY <1>2, <1>3, YieldOK
<1>5. \/ k2.threads_dynamic = Joined(k.threads_dynamic, e, p) /\ k2.methods_dynamic = k.methods_dynamic
      \/ k2.methods_dynamic = Joined(k.methods_dynamic, e, p) /\ k2.threads_dynamic = k.threads_dynamic
  BY <1>2, <1>4
<1>6. \A f \in Event : Waiters(k2, f) = IF f \in {e} THEN Waiters(k, f) \union {p} ELSE Waiters(k, f)
  BY <1>5, JoinedWaiters
<1>7. k2.cur = Nobody /\ k2.runnable = k.runnable /\ k2.update = k.update /\ k2.pend = k.pend
  BY <1>2, <1>4
<1>8. {e} \in SUBSET Event /\ \A x, y \in {e} : x = y
  OBVIOUS
<1>9. OnePlace(k2) /\ Rests(k0, k2, p, {e})
  BY <1>6, <1>7, <1>8, RestsAlike
<1> QED BY <1>1, <1>3, <1>7, <1>9

LEMMA StopsBare ==
  ASSUME NEW b \in Nat, NEW k0, NEW k, Alike(k0, k), OnePlace(k0), KernelInv(b, k),
         NEW p \in Process, k0.cur = p
  PROVE  LET k2 == Yield(k) IN OnePlace(k2) /\ Rests(k0, k2, p, {}) /\ k2.pend = k.pend
<1> HIDE DEF Process, Thread, Event
<1>1. PICK k2 : k2 = Yield(k)
  OBVIOUS
<1>2. /\ k2.cur = Nobody /\ k2.pend = k.pend /\ k2.update = k.update /\ k2.runnable = k.runnable
      /\ k2.methods_dynamic = k.methods_dynamic /\ k2.threads_dynamic = k.threads_dynamic
  BY <1>1, YieldOK
<1>3. \A f \in Event : Waiters(k2, f) = IF f \in {} THEN Waiters(k, f) \union {p} ELSE Waiters(k, f)
  BY <1>2 DEF Waiters
<1>4. {} \in SUBSET Event /\ \A x, y \in {} : x = y
  OBVIOUS
<1>5. OnePlace(k2) /\ Rests(k0, k2, p, {})
  BY <1>2, <1>3, <1>4, RestsAlike
<1> QED BY <1>1, <1>2, <1>5

\* A notification leaves the processes where they are.
LEMMA NotifyAlike ==
  ASSUME NEW b \in Nat, NEW k0, NEW k, Alike(k0, k), KernelInv(b, k), NEW e \in Event, NEW t \in 0..b
  PROVE  LET k2 == Notify(k, e, t) IN
         /\ Alike(k0, k2) /\ KernelInv(b, k2)
         /\ k2.pend[e] = Earlier(k.pend[e], t)
         /\ \A f \in Event : f # e => k2.pend[f] = k.pend[f]
<1> HIDE DEF Process, Thread, Event
<1>1. PICK k2 : k2 = Notify(k, e, t)
  OBVIOUS
<1>2. /\ KernelInv(b, k2)
      /\ k2.pend = [k.pend EXCEPT ![e] = Earlier(k.pend[e], t)]
      /\ k2.cur = k.cur /\ k2.runnable = k.runnable
      /\ k2.methods_dynamic = k.methods_dynamic /\ k2.threads_dynamic = k.threads_dynamic
  BY <1>1, NotifyOK
<1>3. DOMAIN k.pend = Event
  BY DEF KernelInv, KernelOK, KernelShape
<1>4. k2.pend[e] = Earlier(k.pend[e], t) /\ \A f \in Event : f # e => k2.pend[f] = k.pend[f]
  BY <1>2, <1>3
<1>5. Alike(k0, k2)
  BY <1>2 DEF Alike
<1> QED BY <1>1, <1>2, <1>4, <1>5

\* wait(t) and next_trigger(t).
LEMMA StopsTimed ==
  ASSUME NEW b \in Nat, NEW k0, NEW k, Alike(k0, k), OnePlace(k0), KernelInv(b, k),
         NEW p \in Process, k0.cur = p, NEW t \in 0..b, NEW e \in Event, e = Timeout[p]
  PROVE  LET k2 == Yield(NextTriggerTime(k, p, t)) IN
         /\ OnePlace(k2) /\ Rests(k0, k2, p, {e}) /\ \A f \in Event : f # e => k2.pend[f] = k.pend[f]
<1> HIDE DEF Process, Thread, Event, Timeout
<1>1. PICK k1 : k1 = Notify(k, e, t)
  OBVIOUS
<1>2. Alike(k0, k1) /\ KernelInv(b, k1) /\ \A f \in Event : f # e => k1.pend[f] = k.pend[f]
  BY <1>1, NotifyAlike
<1>3. PICK k2 : k2 = Yield(NextTrigger(k1, p, e))
  OBVIOUS
<1>4. OnePlace(k2) /\ Rests(k0, k2, p, {e}) /\ k2.pend = k1.pend
  BY <1>2, <1>3, StopsWith
<1>5. k2 = Yield(NextTriggerTime(k, p, t))
  BY <1>1, <1>3 DEF NextTriggerTime
<1> QED BY <1>2, <1>4, <1>5

-----------------------------------------------------------------------------
(* Names of consumers and of the events that end a response *)

\* Over the bus, its two threads are threads of the platform.
LEMMA BusThreads ==
  ASSUME Wiring = "bus"
  PROVE  RequestThread \in Thread /\ ResponseThread \in Thread
<1> DEFINE rest == [j \in 1..(2*NI) |-> <<IF j % 2 = 1 THEN "initiator" ELSE "generator", (j + 1) \div 2>>]
           S == {RequestThread, ResponseThread} \union {rest[j] : j \in 1..(2*NI)}
           first == <<RequestThread, ResponseThread>>
<1>1. NI \in Nat /\ 2*NI \in Nat
  BY SizesAssumption
<1>2. ThreadOrder = first \o rest
  BY DEF ThreadOrder, BusThread, RequestThread, ResponseThread
<1>3. rest \in Seq(S) /\ Len(rest) = 2*NI
  <2>1. \A j \in 1..(2*NI) : rest[j] \in S
    BY Zenon DEF S
  <2>2. rest = [j \in 1..(2*NI) |-> rest[j]]
    OBVIOUS
  <2> HIDE DEF rest, S
  <2> QED BY <1>1, <2>1, <2>2
<1> HIDE DEF rest, S
<1>4. first \in Seq(S) /\ Len(first) = 2 /\ first[1] = RequestThread /\ first[2] = ResponseThread
  BY DEF S
<1> HIDE DEF first
<1>5. /\ first \o rest \in Seq(S) /\ Len(first \o rest) = Len(first) + Len(rest)
      /\ \A i \in 1..Len(first)+Len(rest) :
           (first \o rest)[i] = IF i <= Len(first) THEN first[i] ELSE rest[i-Len(first)]
  BY ONLY <1>3, <1>4, ConcatProperties
<1>6. 1 \in 1..Len(ThreadOrder) /\ 2 \in 1..Len(ThreadOrder)
      /\ ThreadOrder[1] = RequestThread /\ ThreadOrder[2] = ResponseThread
  BY <1>1, <1>2, <1>3, <1>4, <1>5
<1> QED BY <1>6, Zenon DEF Thread

\* Each queue has one consumer, and a method is sensitive to its queue's event.
LEMMA ConsumerFacts ==
  /\ \A q \in Peq : /\ Consumer(q) \in Process
                    /\ Consumer(q) \in Method => StaticMethods[q] = <<Consumer(q)>>
                    /\ Consumer(q) = RequestThread <=> q = requestPEQ
                    /\ Consumer(q) = ResponseThread <=> q = responsePEQ
                    /\ \A n \in Initiator : /\ Consumer(q) # Ini(n) /\ Consumer(q) # Tg(n)
                                            /\ Consumer(q) = EndRsp(n) <=> q = EndRspPeq(n)
                    /\ \A m \in Target : /\ Consumer(q) = BeginResponse(m) <=> q = ResponsePeq(m)
                                         /\ Consumer(q) = EndRequest(m) <=> q = EndRequestPeq(m)
  /\ \A p \in Thread : p \notin Method
<1>1. DOMAIN MethodOf = {"send_end_rsp_PEQ", "response_PEQ", "end_request_PEQ"}
      /\ MethodOf["send_end_rsp_PEQ"] = "send_end_rsp" /\ MethodOf["response_PEQ"] = "begin_response"
      /\ MethodOf["end_request_PEQ"] = "end_request"
  BY DEF MethodOf
<1>2. \A p \in Thread : p[1] \in {"request", "response", "initiator", "generator"}
  BY ThreadFacts
<1>3. Method = ({"send_end_rsp"} \X Initiator) \union ({"begin_response", "end_request"} \X Target)
  BY AtNames DEF Method
<1>4. Thread \subseteq Process /\ Method \subseteq Process /\ Peq \subseteq Event
  BY AtNames DEF Process
<1>5. ASSUME NEW q \in Peq
      PROVE  /\ Consumer(q) \in Process
             /\ Consumer(q) \in Method => StaticMethods[q] = <<Consumer(q)>>
             /\ Consumer(q) = RequestThread <=> q = requestPEQ
             /\ Consumer(q) = ResponseThread <=> q = responsePEQ
             /\ \A n \in Initiator : /\ Consumer(q) # Ini(n) /\ Consumer(q) # Tg(n)
                                     /\ Consumer(q) = EndRsp(n) <=> q = EndRspPeq(n)
             /\ \A m \in Target : /\ Consumer(q) = BeginResponse(m) <=> q = ResponsePeq(m)
                                  /\ Consumer(q) = EndRequest(m) <=> q = EndRequestPeq(m)
  <2> USE DEF Tg, Ini, EndRsp, EndRspPeq, BeginResponse, ResponsePeq, EndRequest, EndRequestPeq,
              RequestThread, ResponseThread, requestPEQ, responsePEQ
  <2>1. CASE q \in {"send_end_rsp_PEQ"} \X Initiator
    <3>1. q = <<"send_end_rsp_PEQ", q[2]>> /\ q[2] \in Initiator
      BY <2>1
    <3>2. Consumer(q) = <<"send_end_rsp", q[2]>>
      BY <1>1, <3>1 DEF Consumer
    <3>3. Consumer(q) \in Method
      BY <1>3, <3>1, <3>2
    <3>4. StaticMethods[q] = <<Consumer(q)>>
      BY <1>1, <1>4, <3>1, <3>2 DEF StaticMethods
    <3> HIDE DEF Method, Consumer, StaticMethods
    <3> QED BY <1>4, <3>1, <3>2, <3>3, <3>4
  <2>2. CASE q \in {"response_PEQ", "end_request_PEQ"} \X Target
    <3>1. q \in {<<"response_PEQ", q[2]>>, <<"end_request_PEQ", q[2]>>} /\ q[2] \in Target
      BY <2>2
    <3>2. /\ q = <<"response_PEQ", q[2]>> => Consumer(q) = <<"begin_response", q[2]>>
          /\ q = <<"end_request_PEQ", q[2]>> => Consumer(q) = <<"end_request", q[2]>>
      BY <1>1, <3>1 DEF Consumer
    <3>3. Consumer(q) \in Method
      BY <1>3, <3>1, <3>2
    <3>4. StaticMethods[q] = <<Consumer(q)>>
      BY <1>1, <1>4, <3>1, <3>2 DEF StaticMethods
    <3> HIDE DEF Method, Consumer, StaticMethods
    <3>5. CASE q = <<"response_PEQ", q[2]>>
      BY <1>4, <3>1, <3>2, <3>3, <3>4, <3>5
    <3>6. CASE q = <<"end_request_PEQ", q[2]>>
      BY <1>4, <3>1, <3>2, <3>3, <3>4, <3>6
    <3> QED BY <3>1, <3>5, <3>6
  <2>3. CASE Wiring = "bus" /\ q \in {<<"requestPEQ", 0>>, <<"responsePEQ", 0>>}
    <3>1. /\ q = <<"requestPEQ", 0>> => Consumer(q) = <<"request", 0>>
          /\ q = <<"responsePEQ", 0>> => Consumer(q) = <<"response", 0>>
      BY DEF Consumer
    <3>2. <<"request", 0>> \in Process /\ <<"response", 0>> \in Process
      BY <1>4, <2>3, BusThreads
    <3>3. <<"request", 0>> \notin Method /\ <<"response", 0>> \notin Method
      BY <1>3
    <3> HIDE DEF Method, Consumer, StaticMethods
    <3>4. CASE q = <<"requestPEQ", 0>>
      BY <3>1, <3>2, <3>3, <3>4
    <3>5. CASE q = <<"responsePEQ", 0>>
      BY <3>1, <3>2, <3>3, <3>5
    <3> QED BY <2>3, <3>4, <3>5
  <2>4. \/ q \in {"send_end_rsp_PEQ"} \X Initiator
        \/ q \in {"response_PEQ", "end_request_PEQ"} \X Target
        \/ Wiring = "bus" /\ q \in {<<"requestPEQ", 0>>, <<"responsePEQ", 0>>}
    BY PeqNames
  <2> QED BY <2>1, <2>2, <2>3, <2>4
<1>6. \A p \in Thread : p \notin Method
  BY <1>2, <1>3
<1> QED BY <1>5, <1>6

\* Responders are processes; the events that end their waits are no other events.
LEMMA ResponderFacts ==
  ASSUME NEW r \in Responder
  PROVE  /\ r \in Process /\ EndOf(r) \in Event /\ EndOf(r) \notin Peq
         /\ \A p \in Process : EndOf(r) # Timeout[p]
         /\ \A c \in Channel : EndOf(r) # DataWritten(c) /\ EndOf(r) # DataRead(c)
         /\ \A n \in Initiator : EndOf(r) # Enable(n)
         /\ EndOf(r) # mEndRequestEvent
         /\ ~Direct => /\ Wiring = "bus" /\ r = ResponseThread /\ EndOf(r) = mEndResponseEvent
                       /\ \A m \in Target : EndOf(r) # EndRespRcvd(m)
         /\ Direct => /\ r[2] \in Target /\ r = BeginResponse(r[2]) /\ EndOf(r) # mEndResponseEvent
                      /\ EndOf(r) = EndRespRcvd(r[2]) /\ \A m \in Target : EndOf(r) = EndRespRcvd(m) => m = r[2]
<1>1. CASE Direct
  <2>1. PICK m \in Target : r = BeginResponse(m)
    BY <1>1 DEF Responder
  <2>2. r[2] = m /\ EndOf(r) = <<"end_resp_rcvd", m>>
    BY <1>1, <2>1 DEF BeginResponse, EndOf, EndRespRcvd
  <2>3. r \in Process /\ EndRespRcvd(m) \in Event
    BY <2>1, AtNames
  <2>4. <<"end_resp_rcvd", m>> \notin Peq
    BY PeqNames DEF requestPEQ, responsePEQ
  <2>5. \A p \in Process : <<"end_resp_rcvd", m>> # Timeout[p]
    BY DEF Timeout
  <2> HIDE DEF Process, Event, Peq, Timeout, Channel, EndOf
  <2> QED BY <1>1, <2>1, <2>2, <2>3, <2>4, <2>5
          DEF EndRespRcvd, DataWritten, DataRead, Enable, mEndRequestEvent, mEndResponseEvent
<1>2. CASE ~Direct
  <2>1. r = ResponseThread /\ EndOf(r) = <<"mEndResponse", 0>>
    BY <1>2 DEF Responder, EndOf, mEndResponseEvent
  <2>2. Wiring = "bus"
    BY <1>2, Bindings
  <2>3. r \in Process /\ mEndResponseEvent \in Event
    BY <2>1, <2>2, AtNames, BusThreads DEF Process
  <2>4. <<"mEndResponse", 0>> \notin Peq
    BY PeqNames DEF requestPEQ, responsePEQ
  <2>5. \A p \in Process : <<"mEndResponse", 0>> # Timeout[p]
    BY DEF Timeout
  <2> HIDE DEF Process, Event, Peq, Timeout, Channel, EndOf
  <2> QED BY <1>2, <2>1, <2>2, <2>3, <2>4, <2>5
          DEF EndRespRcvd, DataWritten, DataRead, Enable, mEndRequestEvent, mEndResponseEvent
<1> QED BY <1>1, <1>2

-----------------------------------------------------------------------------
(* The queues stay armed *)

\* What Armed says of the next state.
LEMMA ArmedLater ==
  ASSUME NEW q \in Peq, NEW c, c = Consumer(q),
         peq'[q] # << >> /\ (Idles(simc', c, q) \/ Fresh(q)') => simc'.pend[q] \in 0..Head(peq'[q]).left
  PROVE  Armed(q)'
<1>1. Consumer(q)' = c
  BY DEF Consumer, RequestThread, ResponseThread, requestPEQ, responsePEQ
<1>2. Idles(simc, Consumer(q), q)' => Idles(simc', c, q)
  BY <1>1 DEF Idles, Asleep, WaitsFor, Waiters
<1> QED BY <1>2 DEF Armed

\* The head of a queue after an insertion is the new payload or the head of before,
\* and the event is pending for the earlier of the two.
LEMMA ArmedInsert ==
  ASSUME NEW s \in Seq(Entry), NEW tx \in Txn, NEW t \in 0..LongestDelay, NEW old \in -1..LongestDelay,
         s # << >> => old \in 0..Head(s).left
  PROVE  Earlier(old, t) \in 0..Head(PeqInsert(s, tx, t)).left
<1> DEFINE e == [left |-> t, txn |-> tx]
           i == Cardinality({j \in DOMAIN s : s[j].left <= t}) + 1
<1>1. DOMAIN s = 1..Len(s) /\ Len(s) \in Nat
  OBVIOUS
<1>2. i \in 1..Len(s)+1
  <2>1. IsFiniteSet(1..Len(s)) /\ Cardinality(1..Len(s)) = Len(s)
    <3> DEFINE n == Len(s)
    <3>1. n \in Nat
      BY <1>1
    <3> HIDE DEF n
    <3>2. IsFiniteSet(1..n) /\ Cardinality(1..n) = IF 1 > n THEN 0 ELSE n - 1 + 1
      BY ONLY <3>1, FS_Interval
    <3> QED BY <3>1, <3>2 DEF n
  <2> DEFINE A == {j \in 1..Len(s) : s[j].left <= t}
  <2>2. A \subseteq 1..Len(s)
    OBVIOUS
  <2> HIDE DEF A
  <2>3. IsFiniteSet(A) /\ Cardinality(A) <= Cardinality(1..Len(s))
    BY <2>1, <2>2, FS_Subset
  <2>4. PICK c \in Nat : c = Cardinality(A) /\ c <= Len(s)
    BY <2>1, <2>3, FS_CardinalityType
  <2>5. i = c + 1
    BY <1>1, <2>4 DEF A
  <2> HIDE DEF i
  <2> QED BY <1>1, <2>4, <2>5
<1>3. e \in Entry /\ e.left = t
  BY DEF Entry
<1>4. \A j \in 1..Len(s) : s[j].left \in 0..LongestDelay
  <2>1. \A j \in 1..Len(s) : s[j] \in Entry
    BY <1>1, Zenon, ElementOfSeq
  <2>2. \A x \in Entry : x.left \in 0..LongestDelay
    BY DEF Entry
  <2> QED BY <2>1, <2>2, Zenon
<1> HIDE DEF i, e, Entry
<1>5. PICK z : z = InsertAt(s, i, e)
  OBVIOUS
<1>6. /\ z \in Seq(Entry) /\ Len(z) = Len(s) + 1
      /\ \A j \in 1..Len(s)+1 : z[j] = IF j < i THEN s[j] ELSE IF j = i THEN e ELSE s[j-1]
  BY <1>2, <1>3, <1>5, Inserted
<1>7. Head(z) = z[1] /\ z[1] = IF i = 1 THEN e ELSE s[1]
  BY <1>1, <1>2, <1>6
<1>8. z = PeqInsert(s, tx, t)
  BY <1>5 DEF PeqInsert, i, e
<1>9. CASE i = 1
  BY <1>3, <1>7, <1>8, <1>9 DEF Earlier, NotPending
<1>10. CASE i # 1
  <2>1. s # << >> /\ Head(s) = s[1] /\ 1 \in 1..Len(s)
    BY <1>1, <1>2, <1>10
  <2>2. Head(z).left = s[1].left /\ old \in 0..s[1].left
    BY <1>7, <1>10, <2>1
  <2> QED BY <1>4, <1>8, <2>1, <2>2 DEF Earlier, NotPending
<1> QED BY <1>9, <1>10

\* What can happen to a queue: nothing; a payload is put in, with a notification; its
\* consumer, who runs, takes from it.
Kept(q) == peq'[q] = peq[q] /\ simc'.pend[q] = simc.pend[q]
Gets(q) == \E tx \in Txn, t \in 0..LongestDelay :
             peq'[q] = PeqInsert(peq[q], tx, t) /\ simc'.pend[q] = Earlier(simc.pend[q], t)
Looked(q) == simc.cur = Consumer(q) /\ ~Fresh(q)'

\* The bus's threads begin once.
Begun ==
  /\ bus'.req.pc = "start" => bus.req.pc = "start"
  /\ bus'.rsp.pc = "start" => bus.rsp.pc = "start"

\* A queue stays armed if nothing happens to it, or it gets a payload, and its consumer
\* does not begin to wait.
LEMMA ArmedStays ==
  ASSUME NEW q \in Peq, KernelInv(LongestDelay, simc), PeqOK, NEW c, c = Consumer(q), Armed(q), Begun,
         Kept(q) \/ Gets(q), Idles(simc', c, q) => Idles(simc, c, q)
  PROVE  Armed(q)'
<1>1. simc.pend[q] \in -1..LongestDelay /\ peq[q] \in Seq(Entry)
  BY AtNames DEF KernelInv, KernelOK, KernelShape, PeqOK
<1>2. Fresh(q)' => Fresh(q)
  BY DEF Fresh, Begun, requestPEQ, responsePEQ
<1> SUFFICES ASSUME peq'[q] # << >>, Idles(simc', c, q) \/ Fresh(q)'
             PROVE  simc'.pend[q] \in 0..Head(peq'[q]).left
  BY ArmedLater
<1>3. peq[q] # << >> => simc.pend[q] \in 0..Head(peq[q]).left
  BY <1>2 DEF Armed
<1> HIDE DEF Peq, Consumer, KernelInv, PeqOK, Entry, Txn
<1>4. CASE Kept(q)
  BY <1>3, <1>4 DEF Kept
<1>5. CASE Gets(q)
  <2>1. PICK tx \in Txn, t \in 0..LongestDelay :
               peq'[q] = PeqInsert(peq[q], tx, t) /\ simc'.pend[q] = Earlier(simc.pend[q], t)
    BY <1>5 DEF Gets
  <2>2. PICK s, old : s = peq[q] /\ old = simc.pend[q]
    OBVIOUS
  <2>3. Earlier(old, t) \in 0..Head(PeqInsert(s, tx, t)).left
    BY <1>1, <1>3, <2>2, ArmedInsert
  <2> QED BY <2>1, <2>2, <2>3
<1> QED BY <1>4, <1>5

\* The process in execution goes on.
GoesOnOK == /\ OnePlace(simc') /\ simc'.cur = simc.cur /\ simc'.runnable = simc.runnable
            /\ \A c \in Process : WaitsFor(simc', c) = WaitsFor(simc, c)
\* Process p stops, and waits for E.
StopsOK(p, E) == OnePlace(simc') /\ p \in Process /\ simc.cur = p /\ Rests(simc, simc', p, E)

\* While a process goes on, queues stay armed, whoever puts something in.
LEMMA ArmedGoesOn ==
  ASSUME AtCore, AtArmed, GoesOnOK, Begun, \A q \in Peq : Kept(q) \/ Gets(q) \/ Looked(q)
  PROVE  AtArmed'
<1>1. Wiring = "bus" => Starting'
  BY DEF AtArmed, Starting, GoesOnOK, Begun, Asleep, RequestThread, ResponseThread
<1>2. OnePlace(simc)'
  BY DEF GoesOnOK, OnePlace, WaitsFor, Waiters
<1>3. ASSUME NEW q \in Peq PROVE Armed(q)'
  <2>1. PICK c : c = Consumer(q) /\ c \in Process
    BY ConsumerFacts
  <2>2. /\ c # simc'.cur <=> c # simc.cur
        /\ c \notin simc'.runnable <=> c \notin simc.runnable
        /\ WaitsFor(simc', c) = WaitsFor(simc, c)
    BY <2>1 DEF GoesOnOK
  <2>3. Idles(simc', c, q) <=> Idles(simc, c, q)
    BY <2>2 DEF Idles, Asleep
  <2>4. CASE Looked(q)
    <3>1. ~Idles(simc', c, q) /\ ~Fresh(q)'
      BY <2>1, <2>2, <2>4 DEF Looked, Idles, Asleep
    <3> QED BY <2>1, <3>1, ArmedLater
  <2>5. CASE Kept(q) \/ Gets(q)
    <3>1. KernelInv(LongestDelay, simc) /\ PeqOK /\ Armed(q)
      BY DEF AtCore, Types, AtArmed
    <3> QED BY <2>1, <2>3, <2>5, <3>1, ArmedStays
  <2> QED BY <2>4, <2>5
<1> QED BY <1>1, <1>2, <1>3 DEF AtArmed

\* When a process stops, its queue, if it has one, is armed again before it waits for it.
Rearmed(q) == peq'[q] = peq[q] /\ (peq[q] # << >> => simc'.pend[q] \in 0..Head(peq[q]).left)
Elsewhere(p, E, q) == ~Fresh(q)' /\ q \notin E /\ (p \in Method => E # {})

LEMMA ArmedStops ==
  ASSUME AtCore, AtArmed, NEW p, NEW E, StopsOK(p, E), Begun,
         p = RequestThread => bus'.req.pc # "start", p = ResponseThread => bus'.rsp.pc # "start",
         \A q \in Peq : IF Consumer(q) = p THEN Rearmed(q) \/ Elsewhere(p, E, q) ELSE Kept(q) \/ Gets(q)
  PROVE  AtArmed'
<1>0. Nobody \notin Process
  BY NobodyRuns
<1>1. Wiring = "bus" => Starting'
  <2> SUFFICES ASSUME Wiring = "bus" PROVE Starting'
    OBVIOUS
  <2>1. RequestThread \in Process /\ ResponseThread \in Process
    BY BusThreads DEF Process
  <2> HIDE DEF Process
  <2> QED BY <1>0, <2>1 DEF AtArmed, Starting, StopsOK, Rests, Begun, Asleep, RequestThread, ResponseThread
<1>2. OnePlace(simc)'
  BY DEF StopsOK, OnePlace, WaitsFor, Waiters
<1>3. ASSUME NEW q \in Peq PROVE Armed(q)'
  <2>1. PICK c : c = Consumer(q) /\ c \in Process
    BY ConsumerFacts
  <2> HIDE DEF Peq, Process, Consumer, Method
  <2>2. CASE c = p
    <3>1. CASE Rearmed(q)
      BY <2>1, <3>1, ArmedLater DEF Rearmed
    <3>2. CASE Elsewhere(p, E, q)
      <4>1. WaitsFor(simc', c) = E
        BY <2>1, <2>2 DEF StopsOK, Rests
      <4>2. ~Idles(simc', c, q) /\ ~Fresh(q)'
        BY <2>2, <3>2, <4>1 DEF Elsewhere, Idles
      <4> QED BY <2>1, <4>2, ArmedLater
    <3> QED BY <2>1, <2>2, <3>1, <3>2
  <2>3. CASE c # p
    <3>1. WaitsFor(simc', c) = WaitsFor(simc, c) /\ (Asleep(simc', c) <=> Asleep(simc, c))
      BY <1>0, <2>1, <2>3 DEF StopsOK, Rests, Asleep
    <3>2. Idles(simc', c, q) <=> Idles(simc, c, q)
      BY <3>1 DEF Idles
    <3>3. KernelInv(LongestDelay, simc) /\ PeqOK /\ Armed(q)
      BY DEF AtCore, Types, AtArmed
    <3> QED BY <2>1, <2>3, <3>2, <3>3, ArmedStays
  <2> QED BY <2>2, <2>3
<1> QED BY <1>1, <1>2, <1>3 DEF AtArmed

-----------------------------------------------------------------------------
(* The kernel between two processes *)

\* The events of D wake the consumer of a queue whose event is among them.
LEMMA WokeIdles ==
  ASSUME NEW k, NEW k2, OnePlace(k), NEW D \in SUBSET Event, Woke(k, D, k2), k.cur = Nobody,
         k.runnable = {}, DOMAIN k.pend = Event, NEW q \in Peq, NEW c, c = Consumer(q), Idles(k2, c, q)
  PROVE  Idles(k, c, q) /\ q \notin D
<1>1. c \in Process /\ c # Nobody /\ (c \in Method => StaticMethods[q] = <<c>>)
  BY NobodyRuns, ConsumerFacts
<1> HIDE DEF Process, Event, Peq, Consumer, Method, StaticMethods
<1>2. /\ WaitsFor(k2, c) = WaitsFor(k, c) \ D
      /\ WaitsFor(k, c) \intersect D # {} => ~Asleep(k2, c) /\ WaitsFor(k2, c) = {}
  <2>1. /\ OnePlace(k2)
        /\ \A p \in Process : /\ WaitsFor(k2, p) = WaitsFor(k, p) \ D
                              /\ WaitsFor(k, p) \intersect D # {} => ~Asleep(k2, p) /\ WaitsFor(k2, p) = {}
                              /\ Blocking /\ WaitsFor(k, p) \intersect D = {} => Asleep(k2, p)
    BY WokePlaces
  <2> QED BY <1>1, <2>1, Zenon
<1>3. Asleep(k2, c) /\ WaitsFor(k2, c) = WaitsFor(k, c) /\ WaitsFor(k, c) \intersect D = {}
  BY <1>2 DEF Idles
<1>4. Asleep(k, c)
  BY <1>1 DEF Asleep
<1>5. CASE q \in WaitsFor(k, c)
  BY <1>3, <1>4, <1>5 DEF Idles
<1>6. CASE c \in Method /\ WaitsFor(k, c) = {}
  <2>1. Unwaiting(k, c)
    BY <1>6 DEF Unwaiting, WaitsFor
  <2>2. c \in Range(StaticMethods[q])
    BY <1>1, <1>6 DEF Range
  <2>3. q \in D => c \in k2.runnable
    BY <1>1, <2>1, <2>2 DEF Woke
  <2> QED BY <1>3, <1>4, <1>6, <2>3 DEF Idles, Asleep
<1> QED BY <1>3, <1>5, <1>6 DEF Idles

\* When no process can run, the bus's threads have begun.
LEMMA EvaluatedBegun ==
  ASSUME AtArmed, Evaluated(simc)
  PROVE  \A q \in Peq : ~Fresh(q)
<1>1. RequestThread # Nobody /\ ResponseThread # Nobody
  BY DEF RequestThread, ResponseThread, Nobody
<1>2. \A q \in Peq : q \in {requestPEQ, responsePEQ} => Wiring = "bus"
  BY PeqNames DEF requestPEQ, responsePEQ
<1> HIDE DEF Peq
<1> QED BY <1>1, <1>2 DEF AtArmed, Starting, Evaluated, Asleep, Fresh

\* The events a delta cycle triggers: those of the fifos, and those that were notified.
LEMMA DeltaEvents ==
  ASSUME KernelInv(LongestDelay, simc), NEW W, W = Woken(Range(simc.update))
  PROVE  /\ W \subseteq Event
         /\ \A e \in W : \E ch \in Channel : e = DataRead(ch) \/ e = DataWritten(ch)
         /\ \A e \in Event : e \in DeltaPending(simc) <=> simc.pend[e] = 0
         /\ DeltaPending(simc) \subseteq Event
<1>1. \A ch \in Channel : DataWritten(ch) \in Event /\ DataRead(ch) \in Event
  BY EventFacts
<1>2. simc.update \in Seq(Channel) /\ DOMAIN simc.pend = Event
  BY DEF KernelInv, KernelOK, KernelShape
<1> HIDE DEF Event, Channel
<1>3. Range(simc.update) \subseteq Channel
  BY <1>2, RangeOfSeq
<1>4. \A e \in W : \E ch \in Channel : e \in {DataRead(ch), DataWritten(ch)}
  BY <1>3 DEF Woken, WokenBy
<1> QED BY <1>1, <1>2, <1>4 DEF DeltaPending

\* A queue's event is no event of a fifo.
LEMMA PeqQuiet ==
  \A q \in Peq, ch \in Channel : q # DataRead(ch) /\ q # DataWritten(ch)
BY PeqNames DEF requestPEQ, responsePEQ, DataRead, DataWritten

\* The queues stay armed while the kernel takes the next process, ...
LEMMA ArmedDispatch ==
  ASSUME AtCore, AtArmed, Dispatch, bus' = bus
  PROVE  AtArmed'
<1>1. KernelInv(LongestDelay, simc) /\ PeqOK /\ OnePlace(simc) /\ LongestDelay \in Nat
  BY AtNumbers DEF AtCore, Types, AtArmed
<1>2. PICK p \in MayRun(simc) : simc' = Run(simc, p)
  BY DEF Dispatch
<1>3. PICK k, k2 : k = simc /\ k2 = simc'
  OBVIOUS
<1>4. /\ OnePlace(k2) /\ k2.pend = k.pend
      /\ \A c \in Process : WaitsFor(k2, c) = WaitsFor(k, c) /\ (Asleep(k2, c) <=> Asleep(k, c))
  BY <1>1, <1>2, <1>3, RunPlaces
<1>5. OnePlace(simc)'
  BY <1>3, <1>4 DEF OnePlace, WaitsFor, Waiters
<1>6. Wiring = "bus" => Starting'
  <2> SUFFICES ASSUME Wiring = "bus" PROVE Starting'
    OBVIOUS
  <2>1. RequestThread \in Process /\ ResponseThread \in Process
    BY BusThreads DEF Process
  <2>2. Starting /\ (Asleep(simc', RequestThread) <=> Asleep(simc, RequestThread))
        /\ (Asleep(simc', ResponseThread) <=> Asleep(simc, ResponseThread))
    BY <1>3, <1>4, <2>1 DEF AtArmed
  <2> QED BY <2>2 DEF Starting, Asleep, RequestThread, ResponseThread
<1>7. ASSUME NEW q \in Peq PROVE Armed(q)'
  <2>1. PICK c : c = Consumer(q) /\ c \in Process
    BY ConsumerFacts
  <2>2. Idles(simc', c, q) <=> Idles(simc, c, q)
    BY <1>3, <1>4, <2>1 DEF Idles
  <2>3. Kept(q) /\ Begun /\ Armed(q)
    BY <1>3, <1>4 DEF Kept, Dispatch, Begun, AtArmed
  <2> QED BY <1>1, <2>1, <2>2, <2>3, ArmedStays
<1> QED BY <1>5, <1>6, <1>7 DEF AtArmed

\* ... while it ends a delta cycle, ...
LEMMA ArmedDelta ==
  ASSUME AtCore, AtArmed, DeltaCycle, bus' = bus
  PROVE  AtArmed'
<1>1. KernelInv(LongestDelay, simc) /\ PeqOK /\ OnePlace(simc) /\ LongestDelay \in Nat
  BY AtNumbers DEF AtCore, Types, AtArmed
<1>2. Evaluated(simc) /\ peq' = peq
  BY DEF DeltaCycle
<1>3. PICK W : W = Woken(Range(simc.update))
  OBVIOUS
<1>4. PICK D : D = DeltaPending(simc) \union W
  OBVIOUS
<1>5. Triggered(simc, D, simc')
  BY <1>1, <1>3, <1>4, DeltaCycleOK
<1>6. D \subseteq Event /\ \A q \in Peq : q \in D <=> simc.pend[q] = 0
  BY <1>1, <1>3, <1>4, DeltaEvents, PeqQuiet, AtNames
<1>7. PICK k, k2 : k = simc /\ k2 = simc'
  OBVIOUS
<1>8. /\ Woke(k, D, k2) /\ k.cur = Nobody /\ k.runnable = {} /\ DOMAIN k.pend = Event /\ OnePlace(k)
      /\ k2.pend = [e \in Event |-> IF e \in D THEN NotPending ELSE k.pend[e]]
  BY <1>1, <1>2, <1>5, <1>7 DEF Triggered, Evaluated, KernelInv, KernelOK, KernelShape
<1>9. OnePlace(k2)
  BY <1>6, <1>8, WokePlaces
<1>10. OnePlace(simc)'
  BY <1>7, <1>9 DEF OnePlace, WaitsFor, Waiters
<1>11. \A q \in Peq : ~Fresh(q) /\ ~Fresh(q)'
  BY <1>2, EvaluatedBegun DEF Fresh, requestPEQ, responsePEQ
<1>12. Wiring = "bus" => Starting'
  BY <1>11, AtNames DEF Fresh, Starting
<1>13. ASSUME NEW q \in Peq PROVE Armed(q)'
  <2>1. PICK c : c = Consumer(q) /\ c \in Process
    BY ConsumerFacts
  <2>2. CASE ~Idles(k2, c, q)
    BY <1>7, <1>11, <2>1, <2>2, ArmedLater
  <2>3. CASE Idles(k2, c, q)
    <3>1. Idles(k, c, q) /\ q \notin D
      BY <1>6, <1>8, <2>1, <2>3, WokeIdles
    <3>2. simc'.pend[q] = simc.pend[q]
      BY <1>7, <1>8, <3>1, AtNames
    <3>3. Kept(q) /\ Begun /\ Armed(q)
      BY <1>2, <3>2 DEF Kept, Begun, AtArmed
    <3> QED BY <1>1, <1>7, <2>1, <3>1, <3>3, ArmedStays
  <2> QED BY <2>2, <2>3
<1> QED BY <1>10, <1>12, <1>13 DEF AtArmed

\* ... and while it advances the time, by which both the head of the queue and its event
\* come nearer.
LEMMA ArmedTime ==
  ASSUME AtCore, AtArmed, AdvanceTime, bus' = bus
  PROVE  AtArmed'
<1>1. KernelInv(LongestDelay, simc) /\ PeqOK /\ OnePlace(simc) /\ LongestDelay \in Nat
  BY AtNumbers DEF AtCore, Types, AtArmed
<1>2. PICK d : d = NextTime(simc)
  OBVIOUS
<1>3. /\ Evaluated(simc) /\ DeltaPending(simc) = {}
      /\ peq' = [q \in Peq |->
                  [j \in DOMAIN peq[q] |->
                    [peq[q][j] EXCEPT !.left = IF @ > d THEN @ - d ELSE 0]]]
  BY <1>2 DEF AdvanceTime
<1>4. PICK D : D = DueAt(simc, d)
  OBVIOUS
<1>5. /\ d \in 1..LongestDelay
      /\ \A e \in Event : simc.pend[e] > 0 => d <= simc.pend[e]
      /\ simc'.pend = [e \in Event |-> IF simc.pend[e] > d THEN simc.pend[e] - d ELSE NotPending]
      /\ Woke(simc, D, simc')
  BY <1>1, <1>2, <1>4, AdvanceTimeOK
<1>6. D \subseteq Event /\ simc.pend \in [Event -> -1..LongestDelay]
      /\ (\A e \in Event : e \in D <=> simc.pend[e] = d) /\ \A e \in Event : simc.pend[e] # 0
  BY <1>1, <1>3, <1>4 DEF DueAt, DeltaPending, KernelInv, KernelOK, KernelShape
<1>7. PICK k, k2 : k = simc /\ k2 = simc'
  OBVIOUS
<1>8. Woke(k, D, k2) /\ k.cur = Nobody /\ k.runnable = {} /\ DOMAIN k.pend = Event /\ OnePlace(k)
  BY <1>1, <1>3, <1>5, <1>6, <1>7 DEF Evaluated
<1>9. OnePlace(k2)
  BY <1>6, <1>8, WokePlaces
<1>10. OnePlace(simc)'
  BY <1>7, <1>9 DEF OnePlace, WaitsFor, Waiters
<1>11. \A q \in Peq : ~Fresh(q) /\ ~Fresh(q)'
  BY <1>3, EvaluatedBegun DEF Fresh, requestPEQ, responsePEQ
<1>12. Wiring = "bus" => Starting'
  BY <1>11, AtNames DEF Fresh, Starting
<1>13. ASSUME NEW q \in Peq PROVE Armed(q)'
  <2>1. PICK c : c = Consumer(q) /\ c \in Process
    BY ConsumerFacts
  <2>2. CASE ~Idles(k2, c, q) \/ peq'[q] = << >>
    BY <1>7, <1>11, <2>1, <2>2, ArmedLater
  <2>3. CASE Idles(k2, c, q) /\ peq'[q] # << >>
    <3>1. Idles(k, c, q) /\ q \notin D /\ q \in Event
      BY <1>6, <1>8, <2>1, <2>3, WokeIdles, AtNames
    <3>2. PICK s \in Seq(Entry) : s = peq[q]
      BY <1>1 DEF PeqOK
    <3>3. peq'[q] = [j \in DOMAIN s |-> [s[j] EXCEPT !.left = IF @ > d THEN @ - d ELSE 0]]
      BY <1>3, <3>2
    <3>4. s # << >>
      BY <2>3, <3>3
    <3>5. Len(s) \in Nat /\ DOMAIN s = 1..Len(s) /\ 1 \in 1..Len(s) /\ Head(s) = s[1]
      BY <3>4
    <3>6. PICK x \in Entry : x = s[1]
      BY <3>5, Zenon, ElementOfSeq
    <3>7. peq'[q][1] = [x EXCEPT !.left = IF @ > d THEN @ - d ELSE 0] /\ Head(peq'[q]) = peq'[q][1]
      BY <3>3, <3>5, <3>6
    <3>8. x.left \in 0..LongestDelay /\ peq'[q][1].left = IF x.left > d THEN x.left - d ELSE 0
      BY <3>6, <3>7 DEF Entry
    <3>9. simc.pend[q] \in 0..x.left
      BY <1>7, <2>1, <3>1, <3>2, <3>4, <3>5, <3>6 DEF AtArmed, Armed
    <3>10. simc'.pend[q] \in 0..Head(peq'[q]).left
      <4>1. PICK a, b, l : a = simc.pend[q] /\ b = simc'.pend[q] /\ l = x.left
        OBVIOUS
      <4>2. a \in 0..l /\ a # 0 /\ a # d /\ (a > 0 => d <= a) /\ b = IF a > d THEN a - d ELSE NotPending
        BY <1>5, <1>6, <3>1, <3>9, <4>1
      <4>3. b = a - d /\ a > d /\ d \in Nat /\ a \in Nat /\ l \in Nat
        BY <1>1, <1>5, <3>8, <4>1, <4>2
      <4>4. peq'[q][1].left = l - d
        BY <3>8, <4>1, <4>2, <4>3
      <4>5. b \in 0..(l - d)
        BY <4>2, <4>3
      <4>6. Head(peq'[q]).left = l - d
        BY <3>7, <4>4, Zenon
      <4> QED BY <4>1, <4>5, <4>6, Zenon
    <3> QED BY <2>1, <3>10, ArmedLater
  <2> QED BY <2>2, <2>3
<1> QED BY <1>10, <1>12, <1>13 DEF AtArmed
=============================================================================
