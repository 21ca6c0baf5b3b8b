------------------------------ MODULE SimpleBusAT ------------------------------
(***************************************************************************)
(* SimpleBusAT: RequestThread takes the requests one at a time to their    *)
(* targets, ResponseThread the responses one at a time to their            *)
(* initiators.  mPendingTransactions remembers where a payload came from   *)
(* and, until its response has ended, where it went.                       *)
(***************************************************************************)
EXTENDS TlmBase

CONSTANTS NDebug      \* TRUE: built with NDEBUG, which drops the END_RESP call

ASSUME NDebugAssumption == NDebug \in BOOLEAN

VARIABLE bus    \* .pending: mPendingTransactions; .req, .rsp: the two threads

RequestThread  == <<"request", 0>>
ResponseThread == <<"response", 0>>
requestPEQ  == <<"requestPEQ", 0>>
responsePEQ == <<"responsePEQ", 0>>
mEndRequestEvent  == <<"mEndRequest", 0>>
mEndResponseEvent == <<"mEndResponse", 0>>

Absent == [from |-> 0, to |-> -1, known |-> FALSE]

BusInit ==
  bus = [pending |-> [tx \in Txn |-> Absent],
         req |-> [pc |-> "start", txn |-> NoTxn],
         rsp |-> [pc |-> "start", txn |-> NoTxn]]

Known(tx) == bus.pending[tx].known

-----------------------------------------------------------------------------
(* nb_transport handlers *)

\* BEGIN_REQ: the payload is acquired and queued for RequestThread.
BusBeginReq(n) ==
  /\ Called(<<"bus_fw", n>>) /\ link.phase = "BEGIN_REQ"
  /\ gp' = Acquired(gp, link.txn)
  /\ fatal' = Known(link.txn)
  /\ bus' = [bus EXCEPT !.pending[link.txn] = [from |-> n, to |-> -1, known |-> TRUE]]
  /\ peq' = [peq EXCEPT ![requestPEQ] = PeqInsert(@, link.txn, link.delay)]
  /\ simc' = Notify(simc, requestPEQ, link.delay)
  /\ link' = Answer("ACCEPTED", link.phase, link.delay)
  /\ UNCHANGED <<fifo, pool>>

\* END_RESP: whatever its payload, it wakes ResponseThread.
BusEndResp(n) ==
  /\ Called(<<"bus_fw", n>>) /\ link.phase = "END_RESP"
  /\ simc' = Notify(simc, mEndResponseEvent, link.delay)
  /\ link' = Answer("COMPLETED", link.phase, link.delay)
  /\ UNCHANGED <<peq, fifo, gp, pool, fatal, bus>>

\* END_REQ or BEGIN_RESP from a target: both end a request, that of any payload.
targetNBTransport(m) ==
  /\ Called(<<"bus_bw", m>>)
  /\ fatal' = (link.phase \notin {"END_REQ", "BEGIN_RESP"})
  /\ LET k == Notify(simc, mEndRequestEvent, link.delay) IN
     IF link.phase = "BEGIN_RESP"
       THEN /\ peq' = [peq EXCEPT ![responsePEQ] = PeqInsert(@, link.txn, link.delay)]
            /\ simc' = Notify(k, responsePEQ, link.delay)
       ELSE peq' = peq /\ simc' = k
  /\ link' = Answer("ACCEPTED", link.phase, link.delay)
  /\ UNCHANGED <<fifo, gp, pool, bus>>

-----------------------------------------------------------------------------
(* Both threads: wait for the queue's event, then empty the queue *)

ThreadWaits(thread, b, q) ==
  /\ Executing(thread)
  /\ b.pc = "start" \/ (b.pc = "next" /\ ~PeqDue(q))
  /\ simc' = Wait(IF b.pc = "next" THEN PeqRearm(simc, q) ELSE simc, thread, q)
  /\ UNCHANGED <<link, peq, fifo, gp, pool, fatal>>

RequestWaits ==
  /\ ThreadWaits(RequestThread, bus.req, requestPEQ)
  /\ bus' = [bus EXCEPT !.req.pc = "next"]

ResponseWaits ==
  /\ ThreadWaits(ResponseThread, bus.rsp, responsePEQ)
  /\ bus' = [bus EXCEPT !.rsp.pc = "next"]

-----------------------------------------------------------------------------
(* RequestThread *)

\* Decode, mask the address for good and send BEGIN_REQ to the target.
SendToTarget ==
  LET tx == Head(peq[requestPEQ]).txn
      port == gp[tx].port
  IN
  /\ Executing(RequestThread) /\ bus.req.pc = "next" /\ PeqDue(requestPEQ)
  /\ peq' = PeqPop(requestPEQ)
  /\ fatal' = (port >= NT \/ ~Known(tx))
  /\ gp' = [gp EXCEPT ![tx].port = 0]
  /\ bus' = [bus EXCEPT !.req = [pc |-> "sent", txn |-> tx], !.pending[tx].to = port]
  /\ link' = Call(ToTarget(port), tx, "BEGIN_REQ")
  /\ UNCHANGED <<simc, fifo, pool>>

\* ACCEPTED or UPDATED: by the phase, the request is not over, over after the
\* delay, or over with the response already begun.
RequestOngoing ==
  /\ Executing(RequestThread) /\ bus.req.pc = "sent" /\ Answered
  /\ link.status \in {"ACCEPTED", "UPDATED"}
  /\ fatal' = (link.phase \notin {"BEGIN_REQ", "END_REQ", "BEGIN_RESP"})
  /\ CASE link.phase = "BEGIN_REQ" ->
            simc' = Wait(simc, RequestThread, mEndRequestEvent) /\ peq' = peq
       [] link.phase = "END_REQ" ->
            simc' = WaitTime(simc, RequestThread, link.delay) /\ peq' = peq
       [] OTHER ->
            /\ simc' = Notify(simc, responsePEQ, link.delay)
            /\ peq' = [peq EXCEPT ![responsePEQ] = PeqInsert(@, link.txn, link.delay)]
  /\ bus' = [bus EXCEPT !.req.pc = IF link.phase = "BEGIN_RESP" THEN "next" ELSE "ended"]
  /\ link' = NoCall
  /\ UNCHANGED <<fifo, gp, pool>>

\* COMPLETED: the response is queued and the target is out of the exchange.
RequestCompletedByTarget ==
  /\ Executing(RequestThread) /\ bus.req.pc = "sent" /\ Answered
  /\ link.status = "COMPLETED"
  /\ peq' = [peq EXCEPT ![responsePEQ] = PeqInsert(@, link.txn, link.delay)]
  /\ simc' = WaitTime(Notify(simc, responsePEQ, link.delay), RequestThread, link.delay)
  /\ bus' = [bus EXCEPT !.req.pc = "next", !.pending[link.txn].to = -1]
  /\ link' = NoCall
  /\ UNCHANGED <<fifo, gp, pool, fatal>>

\* The wait is over: END_REQ to the initiator unless its response has begun.
\* `it' was looked up before the wait; an erased entry is used after its end.
PassEndReq ==
  LET tx == bus.req.txn IN
  /\ Executing(RequestThread) /\ bus.req.pc = "ended"
  /\ fatal' = ~Known(tx)
  /\ IF bus.pending[tx].from # 0
       THEN /\ link' = Call(ToInitiator(bus.pending[tx].from), tx, "END_REQ")
            /\ bus' = [bus EXCEPT !.req.pc = "told"]
       ELSE /\ link' = link
            /\ bus' = [bus EXCEPT !.req.pc = "next"]
  /\ UNCHANGED <<simc, peq, fifo, gp, pool>>

EndReqPassed ==
  /\ Executing(RequestThread) /\ bus.req.pc = "told" /\ Answered
  /\ bus' = [bus EXCEPT !.req.pc = "next"]
  /\ link' = NoCall
  /\ UNCHANGED <<simc, peq, fifo, gp, pool, fatal>>

-----------------------------------------------------------------------------
(* ResponseThread *)

\* Faulty: the initiator's place is kept.
AnsweringMutant(tx) == [bus EXCEPT !.rsp = [pc |-> "sent", txn |-> tx]]
\* it->second.from = 0
Answering(tx) == [bus EXCEPT !.rsp = [pc |-> "sent", txn |-> tx], !.pending[tx].from = 0]

\* BEGIN_RESP to the initiator; from then on it gets no END_REQ.
SendToInitiator ==
  LET tx == Head(peq[responsePEQ]).txn IN
  /\ Executing(ResponseThread) /\ bus.rsp.pc = "next" /\ PeqDue(responsePEQ)
  /\ peq' = PeqPop(responsePEQ)
  /\ fatal' = (~Known(tx) \/ bus.pending[tx].from = 0)
  /\ bus' = Answering(tx)
  /\ link' = Call(ToInitiator(bus.pending[tx].from), tx, "BEGIN_RESP")
  /\ UNCHANGED <<simc, fifo, gp, pool>>

\* Faulty: the next response need not wait for END_RESP.
AwaitEndRespMutant == WaitTime(simc, ResponseThread, 0)
AwaitEndResp == Wait(simc, ResponseThread, mEndResponseEvent)

ResponseAnswered ==
  /\ Executing(ResponseThread) /\ bus.rsp.pc = "sent" /\ Answered
  /\ simc' = IF link.status = "COMPLETED"
               THEN WaitTime(simc, ResponseThread, link.delay)
               ELSE AwaitEndResp
  /\ bus' = [bus EXCEPT !.rsp.pc = "ended"]
  /\ link' = NoCall
  /\ UNCHANGED <<peq, fifo, gp, pool, fatal>>

Forget(tx) ==
  /\ bus' = [bus EXCEPT !.rsp.pc = "next", !.pending[tx] = Absent]
  /\ gp' = Released(gp, tx)
  /\ pool' = PoolAfterRelease(tx)

\* END_RESP to a target that began the response.
PassEndResp ==
  LET tx == bus.rsp.txn IN
  /\ Executing(ResponseThread) /\ bus.rsp.pc = "ended"
  /\ bus.pending[tx].to # -1 /\ ~NDebug
  /\ link' = Call(ToTarget(bus.pending[tx].to), tx, "END_RESP")
  /\ bus' = [bus EXCEPT !.rsp.pc = "told"]
  /\ UNCHANGED <<simc, peq, fifo, gp, pool, fatal>>

\* The entry is erased and the payload released.
ResponseOver ==
  /\ Executing(ResponseThread)
  /\ \/ bus.rsp.pc = "ended" /\ (bus.pending[bus.rsp.txn].to = -1 \/ NDebug)
        /\ fatal' = FALSE /\ link' = link
     \/ bus.rsp.pc = "told" /\ Answered
        /\ fatal' = (link.status # "COMPLETED") /\ link' = NoCall
  /\ Forget(bus.rsp.txn)
  /\ UNCHANGED <<simc, peq, fifo>>

BusStep ==
  \/ \E n \in Initiator : BusBeginReq(n) \/ BusEndResp(n)
  \/ \E m \in Target : targetNBTransport(m)
  \/ RequestWaits \/ SendToTarget \/ RequestOngoing \/ RequestCompletedByTarget
  \/ PassEndReq \/ EndReqPassed
  \/ ResponseWaits \/ SendToInitiator \/ ResponseAnswered \/ PassEndResp \/ ResponseOver
=============================================================================
