------------------------------- MODULE AtTarget -------------------------------
(***************************************************************************)
(* The three AT targets of common/src, by the number of timing points they *)
(* use: at_target_1_phase (most requests complete in the call; one in      *)
(* Period is answered like a 2-phase request), at_target_2_phase and       *)
(* at_target_4_phase, each over its own memory.                            *)
(***************************************************************************)
EXTENDS Memory

CONSTANTS
  Kind,            \* Kind[m]: 1, 2 or 4 timing points of target m
  Period,          \* 20 in at_target_1_phase
  AcceptDelay

ASSUME KindAssumption == \A m \in Target : Kind[m] \in {1, 2, 4}
ASSUME AcceptAssumption == Period \in Nat \ {0} /\ AcceptDelay \in Nat

VARIABLE tgt    \* tgt[m]: target m

BeginResponse(m) == <<"begin_response", m>>
EndRequest(m)    == <<"end_request", m>>
ResponsePeq(m)   == <<"response_PEQ", m>>
EndRequestPeq(m) == <<"end_request_PEQ", m>>
EndRespRcvd(m)   == <<"end_resp_rcvd", m>>

TgtInit ==
  tgt = [m \in Target |-> [count |-> 1, mem |-> ZeroMemory,
                           rpc |-> "next", epc |-> "next"]]

-----------------------------------------------------------------------------
(* nb_transport_fw *)

Completes(m) == Kind[m] = 1 /\ tgt[m].count % Period # 0
Counted(m) == IF Kind[m] = 1 THEN (tgt[m].count + 1) % Period ELSE tgt[m].count

\* The request is carried out in the call.
BeginReqCompletes(m) ==
  /\ Called(ToTarget(m)) /\ link.phase = "BEGIN_REQ" /\ Completes(m)
  /\ gp' = OperationGp(tgt[m].mem, link.txn)
  /\ tgt' = [tgt EXCEPT ![m].count = Counted(m), ![m].mem = OperationMem(tgt[m].mem, link.txn)]
  /\ link' = Answer("COMPLETED", link.phase,
                    link.delay + AcceptDelay + OperationTime(link.txn))
  /\ UNCHANGED <<simc, peq, fifo, pool, fatal>>

\* The request ends after the accept delay, the response follows.
BeginReqUpdates(m) ==
  LET t == link.delay + OperationDelay(link.txn) + AcceptDelay IN
  /\ Called(ToTarget(m)) /\ link.phase = "BEGIN_REQ" /\ Kind[m] # 4 /\ ~Completes(m)
  /\ tgt' = [tgt EXCEPT ![m].count = Counted(m)]
  /\ peq' = [peq EXCEPT ![ResponsePeq(m)] = PeqInsert(@, link.txn, t)]
  /\ simc' = Notify(simc, ResponsePeq(m), t)
  /\ link' = Answer("UPDATED", "END_REQ", AcceptDelay)
  /\ UNCHANGED <<fifo, gp, pool, fatal>>

\* The request is accepted; end_request_method ends it.
BeginReqAccepted(m) ==
  LET t == link.delay + AcceptDelay IN
  /\ Called(ToTarget(m)) /\ link.phase = "BEGIN_REQ" /\ Kind[m] = 4
  /\ peq' = [peq EXCEPT ![EndRequestPeq(m)] = PeqInsert(@, link.txn, t)]
  /\ simc' = Notify(simc, EndRequestPeq(m), t)
  /\ link' = Answer("ACCEPTED", link.phase, link.delay)
  /\ UNCHANGED <<fifo, gp, pool, fatal, tgt>>

\* 1 and 2 phases notify with SC_ZERO_TIME, 4 phases with the caller's delay.
EndResp(m) ==
  /\ Called(ToTarget(m)) /\ link.phase = "END_RESP"
  /\ simc' = Notify(simc, EndRespRcvd(m), IF Kind[m] = 4 THEN link.delay ELSE 0)
  /\ link' = Answer("COMPLETED", link.phase, link.delay)
  /\ UNCHANGED <<peq, fifo, gp, pool, fatal, tgt>>

-----------------------------------------------------------------------------
(* begin_response_method *)

BeginResp(m) ==
  LET tx == Head(peq[ResponsePeq(m)]).txn IN
  /\ Executing(BeginResponse(m)) /\ tgt[m].rpc = "next" /\ PeqDue(ResponsePeq(m))
  /\ peq' = PeqPop(ResponsePeq(m))
  /\ gp' = OperationGp(tgt[m].mem, tx)
  /\ tgt' = [tgt EXCEPT ![m].rpc = "sent", ![m].mem = OperationMem(tgt[m].mem, tx)]
  /\ link' = Call(FromTarget(m), tx, "BEGIN_RESP")
  /\ UNCHANGED <<simc, fifo, pool, fatal>>

\* Faulty: the next response need not wait for END_RESP.
UntilEndRespMutant(m) == simc
\* next_trigger(m_end_resp_rcvd_event), and return
UntilEndResp(m) == Yield(NextTrigger(simc, BeginResponse(m), EndRespRcvd(m)))

\* The method returns until the response is over: after the delay, or at END_RESP.
BeginRespAnswered(m) ==
  /\ Executing(BeginResponse(m)) /\ tgt[m].rpc = "sent" /\ Answered
  /\ simc' = CASE link.status = "COMPLETED" ->
                    Yield(NextTriggerTime(simc, BeginResponse(m), link.delay))
               [] link.status = "ACCEPTED" ->
                    UntilEndResp(m)
               [] OTHER -> simc
  /\ fatal' = (link.status = "UPDATED" /\ Kind[m] = 4)
  /\ tgt' = [tgt EXCEPT ![m].rpc = "next"]
  /\ link' = NoCall
  /\ UNCHANGED <<peq, fifo, gp, pool>>

\* Nothing due: next_trigger(m_response_PEQ.get_event()).
BeginResponseReturns(m) ==
  /\ Executing(BeginResponse(m)) /\ tgt[m].rpc = "next" /\ ~PeqDue(ResponsePeq(m))
  /\ simc' = Yield(NextTrigger(PeqRearm(simc, ResponsePeq(m)), BeginResponse(m), ResponsePeq(m)))
  /\ UNCHANGED <<link, peq, fifo, gp, pool, fatal, tgt>>

-----------------------------------------------------------------------------
(* end_request_method of at_target_4_phase *)

EndReq(m) ==
  LET tx == Head(peq[EndRequestPeq(m)]).txn IN
  /\ Executing(EndRequest(m)) /\ tgt[m].epc = "next" /\ PeqDue(EndRequestPeq(m))
  /\ peq' = [PeqPop(EndRequestPeq(m)) EXCEPT
               ![ResponsePeq(m)] = PeqInsert(@, tx, OperationDelay(tx))]
  /\ simc' = Notify(simc, ResponsePeq(m), OperationDelay(tx))
  /\ tgt' = [tgt EXCEPT ![m].epc = "sent"]
  /\ link' = Call(FromTarget(m), tx, "END_REQ")
  /\ UNCHANGED <<fifo, gp, pool, fatal>>

EndReqAnswered(m) ==
  /\ Executing(EndRequest(m)) /\ tgt[m].epc = "sent" /\ Answered
  /\ fatal' = (link.status # "ACCEPTED")
  /\ tgt' = [tgt EXCEPT ![m].epc = "next"]
  /\ link' = NoCall
  /\ UNCHANGED <<simc, peq, fifo, gp, pool>>

EndRequestReturns(m) ==
  /\ Executing(EndRequest(m)) /\ tgt[m].epc = "next" /\ ~PeqDue(EndRequestPeq(m))
  /\ simc' = Yield(PeqRearm(simc, EndRequestPeq(m)))
  /\ UNCHANGED <<link, peq, fifo, gp, pool, fatal, tgt>>

TgtStep(m) ==
  \/ BeginReqCompletes(m) \/ BeginReqUpdates(m) \/ BeginReqAccepted(m) \/ EndResp(m)
  \/ BeginResp(m) \/ BeginRespAnswered(m) \/ BeginResponseReturns(m)
  \/ EndReq(m) \/ EndReqAnswered(m) \/ EndRequestReturns(m)
=============================================================================
