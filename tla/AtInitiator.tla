------------------------------ MODULE AtInitiator ------------------------------
(***************************************************************************)
(* The AT initiators of common/src: select_initiator ("select"),           *)
(* at_initiator_explicit ("explicit") and at_initiator_annotated           *)
(* ("annotated").  Each sends the requests of its request fifo one after   *)
(* the other, keeps in m_waiting_bw_path_map what it last heard about each *)
(* and passes the completed payloads to the response fifo.  They differ in *)
(* how they end a response: by a call of END_RESP, in the answer to        *)
(* BEGIN_RESP, or, select_initiator, by what the target did before.        *)
(***************************************************************************)
EXTENDS TlmBase

CONSTANTS EndRspDelay      \* m_end_rsp_delay

ASSUME EndRspAssumption == EndRspDelay \in Nat

VARIABLE ini    \* ini[n]: initiator n

Ini(n) == <<"initiator", n>>
EndRsp(n) == <<"send_end_rsp", n>>
EndRspPeq(n) == <<"send_end_rsp_PEQ", n>>
Enable(n) == <<"enable_next_request", n>>

IniInit(kinds) ==
  ini = [n \in Initiator |->
          [kind |-> kinds[n], pc |-> "get", txn |-> NoTxn, mpc |-> "next",
           map |-> [tx \in {n} \X (1..MaxTxns) |-> "absent"]]]

Req(n) == <<"req", n>>
Rsp(n) == <<"rsp", n>>

\* response_out_port->write.  On a full fifo a method may not wait, which is an
\* error, and a thread would block; the model stops as fatal in both cases, so
\* that NoFatal, and AllComplete of a run with fewer places than payloads, show that
\* no response ever meets a full fifo.
Respond(n, tx) ==
  /\ fatal' = (NumFree(Rsp(n)) = 0)
  /\ fifo' = FifoWrite(Rsp(n), tx)

-----------------------------------------------------------------------------
(* initiator_thread *)

GetRequestBlocks(n) ==
  /\ Executing(Ini(n)) /\ ini[n].pc = "get" /\ NumAvailable(Req(n)) = 0
  /\ simc' = Wait(simc, Ini(n), DataWritten(Req(n)))
  /\ UNCHANGED <<link, peq, fifo, gp, pool, fatal, ini>>

SendRequest(n) ==
  LET tx == Head(fifo[Req(n)].items) IN
  /\ Executing(Ini(n)) /\ ini[n].pc = "get" /\ NumAvailable(Req(n)) # 0
  /\ fifo' = FifoRead(Req(n))
  /\ simc' = RequestUpdate(simc, Req(n))
  /\ link' = Call(FromInitiator(n), tx, "BEGIN_REQ")
  /\ ini' = [ini EXCEPT ![n].pc = "sent", ![n].txn = tx]
  /\ UNCHANGED <<peq, gp, pool, fatal>>

\* COMPLETED: the response comes with the answer.
RequestCompleted(n) ==
  /\ Executing(Ini(n)) /\ ini[n].pc = "sent" /\ Answered
  /\ link.status = "COMPLETED"
  /\ simc' = WaitTime(simc, Ini(n), link.delay + EndRspDelay)
  /\ ini' = [ini EXCEPT ![n].pc = "respond"]
  /\ link' = NoCall
  /\ UNCHANGED <<peq, fifo, gp, pool, fatal>>

\* UPDATED: END_REQ ends the request after the delay, the response is still to
\* come; BEGIN_RESP begins the response after it, which select_initiator ignores.
RequestUpdated(n) ==
  LET ended  == link.phase = "END_REQ"
      select == ini[n].kind = "select"
  IN
  /\ Executing(Ini(n)) /\ ini[n].pc = "sent" /\ Answered
  /\ link.status = "UPDATED"
  /\ fatal' = (link.phase \notin {"END_REQ", "BEGIN_RESP"})
  /\ ini' = IF ended
              THEN [ini EXCEPT ![n].pc = "get",
                               ![n].map[link.txn] = IF select THEN "UPDATED" ELSE "END_REQ"]
              ELSE [ini EXCEPT ![n].pc = IF select THEN "get" ELSE "begun"]
  /\ simc' = IF ended \/ ~select THEN WaitTime(simc, Ini(n), link.delay) ELSE simc
  /\ link' = NoCall
  /\ UNCHANGED <<peq, fifo, gp, pool>>

\* Faulty: the thread goes on at the next delta cycle.
AwaitEnableMutant(n) == WaitTime(simc, Ini(n), 0)
\* The END REQUEST rule: wait(m_enable_next_request_event).
AwaitEnable(n) == Wait(simc, Ini(n), Enable(n))

\* ACCEPTED: the next request waits for m_enable_next_request_event.
RequestAccepted(n) ==
  /\ Executing(Ini(n)) /\ ini[n].pc = "sent" /\ Answered
  /\ link.status = "ACCEPTED"
  /\ ini' = [ini EXCEPT ![n].pc = "get", ![n].map[link.txn] = "ACCEPTED"]
  /\ simc' = AwaitEnable(n)
  /\ link' = NoCall
  /\ UNCHANGED <<peq, fifo, gp, pool, fatal>>

\* After its delay a response that came with the answer is handed on, or, if it
\* only began, queued for send_end_rsp_method.
AfterDelay(n) ==
  /\ Executing(Ini(n)) /\ ini[n].pc \in {"respond", "begun"}
  /\ IF ini[n].pc = "respond"
       THEN Respond(n, ini[n].txn) /\ simc' = RequestUpdate(simc, Rsp(n)) /\ peq' = peq
       ELSE /\ peq' = [peq EXCEPT ![EndRspPeq(n)] = PeqInsert(@, ini[n].txn, EndRspDelay)]
            /\ simc' = Notify(simc, EndRspPeq(n), EndRspDelay)
            /\ UNCHANGED <<fatal, fifo>>
  /\ ini' = [ini EXCEPT ![n].pc = "get"]
  /\ UNCHANGED <<link, gp, pool>>

-----------------------------------------------------------------------------
(* nb_transport_bw *)

\* m_waiting_bw_path_map.erase
Erased(n, tx) == [ini EXCEPT ![n].map[tx] = "absent"]

\* Faulty: only END_REQ enables the next request.
EnablesNextMutant(heard) == FALSE
\* A response that comes without END_REQ ends the request too.
EnablesNext(heard) == heard = "ACCEPTED"

\* select_initiator expects END_REQ only once, the others for any payload they
\* know.
BwEndReq(n) ==
  LET heard == ini[n].map[link.txn] IN
  /\ Called(ToInitiator(n)) /\ link.phase = "END_REQ"
  /\ fatal' = IF ini[n].kind = "select" THEN heard # "ACCEPTED" ELSE heard = "absent"
  /\ simc' = Notify(simc, Enable(n), 0)
  /\ ini' = [ini EXCEPT ![n].map[link.txn] = "END_REQ"]
  /\ link' = Answer("ACCEPTED", link.phase, link.delay)
  /\ UNCHANGED <<peq, fifo, gp, pool>>

\* Whether the answer to BEGIN_RESP ends the response: always in the annotated
\* initiator, after UPDATED in select_initiator.
EndsInAnswer(n, heard) ==
  \/ ini[n].kind = "annotated"
  \/ ini[n].kind = "select" /\ heard = "UPDATED"

\* The response ends here, END_RESP goes back at once with its delay.
BwBeginRespEnds(n) ==
  LET heard == ini[n].map[link.txn]
      enable == ini[n].kind = "select" \/ EnablesNext(heard)
  IN
  /\ Called(ToInitiator(n)) /\ link.phase = "BEGIN_RESP" /\ EndsInAnswer(n, heard)
  /\ simc' = RequestUpdate(IF enable THEN Notify(simc, Enable(n), 0) ELSE simc, Rsp(n))
  /\ fifo' = FifoWrite(Rsp(n), link.txn)
  /\ fatal' = (heard = "absent" \/ NumFree(Rsp(n)) = 0)
  /\ ini' = Erased(n, link.txn)
  /\ link' = Answer("COMPLETED", "END_RESP", EndRspDelay)
  /\ UNCHANGED <<peq, gp, pool>>

\* The response is accepted; send_end_rsp_method ends it EndRspDelay later.  If
\* END_REQ was omitted, the response enables the next request.  A payload the
\* map does not hold is fatal.
BwBeginResp(n) ==
  LET heard == ini[n].map[link.txn]
      k == Notify(simc, EndRspPeq(n), EndRspDelay)
  IN
  /\ Called(ToInitiator(n)) /\ link.phase = "BEGIN_RESP" /\ ~EndsInAnswer(n, heard)
  /\ fatal' = (heard = "absent")
  /\ peq' = [peq EXCEPT ![EndRspPeq(n)] = PeqInsert(@, link.txn, EndRspDelay)]
  /\ simc' = IF EnablesNext(heard) THEN Notify(k, Enable(n), 0) ELSE k
  /\ ini' = Erased(n, link.txn)
  /\ link' = Answer("ACCEPTED", link.phase, link.delay)
  /\ UNCHANGED <<fifo, gp, pool>>

-----------------------------------------------------------------------------
(* send_end_rsp_method *)

EndRspNext(n) ==
  /\ Executing(EndRsp(n)) /\ ini[n].mpc = "next" /\ PeqDue(EndRspPeq(n))
  /\ link' = Call(FromInitiator(n), Head(peq[EndRspPeq(n)]).txn, "END_RESP")
  /\ peq' = PeqPop(EndRspPeq(n))
  /\ ini' = [ini EXCEPT ![n].mpc = "sent"]
  /\ UNCHANGED <<simc, fifo, gp, pool, fatal>>

\* COMPLETED hands the payload on; with any other answer select_initiator drops
\* it, for the others that is fatal.
EndRspSent(n) ==
  /\ Executing(EndRsp(n)) /\ ini[n].mpc = "sent" /\ Answered
  /\ IF link.status = "COMPLETED"
       THEN Respond(n, link.txn) /\ simc' = RequestUpdate(simc, Rsp(n))
       ELSE fatal' = (ini[n].kind # "select") /\ UNCHANGED <<fifo, simc>>
  /\ ini' = [ini EXCEPT ![n].mpc = "next"]
  /\ link' = NoCall
  /\ UNCHANGED <<peq, gp, pool>>

EndRspReturn(n) ==
  /\ Executing(EndRsp(n)) /\ ini[n].mpc = "next" /\ ~PeqDue(EndRspPeq(n))
  /\ simc' = Yield(PeqRearm(simc, EndRspPeq(n)))
  /\ UNCHANGED <<link, peq, fifo, gp, pool, fatal, ini>>

IniStep(n) ==
  \/ GetRequestBlocks(n) \/ SendRequest(n) \/ AfterDelay(n)
  \/ RequestCompleted(n) \/ RequestUpdated(n) \/ RequestAccepted(n)
  \/ BwEndReq(n) \/ BwBeginRespEnds(n) \/ BwBeginResp(n)
  \/ EndRspNext(n) \/ EndRspSent(n) \/ EndRspReturn(n)
=============================================================================
