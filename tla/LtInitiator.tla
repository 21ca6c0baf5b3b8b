----------------------------- MODULE LtInitiator -----------------------------
(***************************************************************************)
(* The loosely-timed initiators of common/src: lt_initiator ("lt"), which  *)
(* waits for the delay of every call; lt_td_initiator ("td"), which runs   *)
(* ahead of time within the quantum; lt_dmi_initiator ("dmi"), which uses  *)
(* direct memory access where it was granted.  A call of b_transport runs  *)
(* in the caller's thread, through the bus and the target, up to a wait in *)
(* lt_synch_target.                                                        *)
(***************************************************************************)
EXTENDS LtTarget, QuantumKeeper

VARIABLES
  lti,     \* lti[n]: initiator n
  now      \* sc_time_stamp()

Ini(n) == <<"initiator", n>>
Req(n) == <<"req", n>>
Rsp(n) == <<"rsp", n>>

LtiInit(kinds) ==
  /\ lti = [n \in Initiator |->
             [kind |-> kinds[n], pc |-> "get", txn |-> NoTxn, delay |-> 0, dmi_allowed |-> FALSE,
              port |-> 0, keeper |-> NewKeeper, dmi |-> NoRegion]]
  /\ now = 0

At(n, pc) == Executing(Ini(n)) /\ lti[n].pc = pc
SetLti(n, rec) == lti' = [lti EXCEPT ![n] = rec]

\* request_in_port->read
ReceiveBlocks(n) ==
  /\ At(n, "get") /\ NumAvailable(Req(n)) = 0
  /\ simc' = Wait(simc, Ini(n), DataWritten(Req(n)))
  /\ UNCHANGED <<link, peq, fifo, gp, pool, fatal, lti, lt>>

\* A decoupled initiator starts from the time it is ahead, the others from 0.
Receive(n) ==
  /\ At(n, "get") /\ NumAvailable(Req(n)) # 0
  /\ fifo' = FifoRead(Req(n))
  /\ simc' = RequestUpdate(simc, Req(n))
  /\ SetLti(n, [lti[n] EXCEPT !.pc = "request", !.txn = Head(fifo[Req(n)].items),
                              !.delay = lti[n].keeper.local])
  /\ UNCHANGED <<link, peq, gp, pool, fatal, lt>>

HasDmi(n) == lti[n].kind = "dmi" /\ IsAddressDmi(lti[n].dmi, FullAddress(lti[n].txn))

\* Faulty: the port is decoded from the masked address.
DecodeMutant(tx) == 0
\* SimpleBusLT::decode
Decode(tx) == gp[tx].port

\* b_transport through the bus, which takes the port out of the address for
\* good, into the target.
Transport(n) ==
  LET s == lti[n]
      port == Decode(s.txn)
      delay == s.delay + TransportTime(s.txn)
  IN
  /\ At(n, "request") /\ ~HasDmi(n)
  /\ fatal' = (port >= NT)
  /\ gp' = [OperationGp(lt[port].mem, s.txn) EXCEPT ![s.txn].port = 0]
  /\ lt' = [lt EXCEPT ![port].mem = OperationMem(@, s.txn)]
  /\ SetLti(n, [s EXCEPT !.pc = IF lt[port].kind = "synch" THEN "inside" ELSE "returned",
                         !.delay = delay, !.dmi_allowed = AllowsDmi(port), !.port = port,
                         !.dmi = IF s.kind = "dmi" THEN Noted(@, FullAddress(s.txn)) ELSE @])
  /\ simc' = IF lt[port].kind = "synch" THEN WaitTime(simc, Ini(n), delay) ELSE simc
  /\ UNCHANGED <<link, peq, fifo, pool>>

\* lt_synch_target returns from its wait with no delay left.
SynchReturn(n) ==
  /\ At(n, "inside")
  /\ SetLti(n, [lti[n] EXCEPT !.pc = "returned", !.delay = 0])
  /\ UNCHANGED <<shared, lt>>

Succeeded(n) == gp[lti[n].txn].status = "OK"

\* lt_initiator and lt_dmi_initiator wait for the delay; after a call that failed
\* nobody waits.
ReturnedWaits(n) ==
  /\ At(n, "returned") /\ lti[n].kind # "td"
  /\ SetLti(n, [lti[n] EXCEPT !.pc = IF lti[n].kind = "dmi" THEN "ask" ELSE "respond"])
  /\ simc' = IF Succeeded(n) THEN WaitTime(simc, Ini(n), lti[n].delay) ELSE simc
  /\ UNCHANGED <<link, peq, fifo, gp, pool, fatal, lt>>

\* lt_td_initiator takes the delay as its local time, and waits if that has come
\* to the sync point.
ReturnedDecoupled(n) ==
  LET keeper == [lti[n].keeper EXCEPT !.local = IF Succeeded(n) THEN lti[n].delay ELSE @]
      sync == Succeeded(n) /\ NeedSync(keeper, now)
  IN
  /\ At(n, "returned") /\ lti[n].kind = "td"
  /\ SetLti(n, [lti[n] EXCEPT !.keeper = keeper, !.pc = IF sync THEN "sync" ELSE "respond"])
  /\ simc' = IF sync THEN WaitTime(simc, Ini(n), keeper.local) ELSE simc
  /\ UNCHANGED <<link, peq, fifo, gp, pool, fatal, lt>>

Synced(n) ==
  /\ At(n, "sync")
  /\ SetLti(n, [lti[n] EXCEPT !.pc = "respond", !.keeper = Reset(@, now)])
  /\ UNCHANGED <<shared, lt>>

\* After the wait: the payload was returned with dmi_allowed, but the target may
\* refuse by now.  The bus translates the range of a grant; it asserts that the
\* range holds the address.
AskDmi(n) ==
  LET s == lti[n]
      granted == s.dmi_allowed /\ GrantsDmi(s.port, gp[s.txn].addr)
      range == LimitRange(s.port, 0, MemorySize)
  IN
  /\ At(n, "ask")
  /\ fatal' = (granted /\ gp[s.txn].addr > MemorySize)
  /\ SetLti(n, [s EXCEPT !.pc = "respond",
                         !.dmi = IF granted THEN LoadDmiPtr(@, s.port, range.low, range.high)
                                            ELSE @])
  /\ UNCHANGED <<simc, link, peq, fifo, gp, pool, lt>>

\* dmi_memory::operation on the target's memory, and wait(delay).  The payload
\* keeps its full address.
DmiOperation(n) ==
  LET s == lti[n]
      offset == FullAddress(s.txn) - s.dmi.base
      write == gp[s.txn].cmd = "write"
  IN
  /\ At(n, "request") /\ HasDmi(n)
  /\ lt' = IF write THEN [lt EXCEPT ![s.dmi.ptr].mem[offset] = gp[s.txn].data] ELSE lt
  /\ gp' = [gp EXCEPT ![s.txn].status = "OK",
                      ![s.txn].data = IF write THEN @ ELSE lt[s.dmi.ptr].mem[offset]]
  /\ SetLti(n, [s EXCEPT !.pc = "respond", !.dmi = Noted(@, FullAddress(s.txn))])
  /\ simc' = WaitTime(simc, Ini(n), s.delay + OperationDelay(s.txn))
  /\ UNCHANGED <<link, peq, fifo, pool, fatal>>

\* response_out_port->write, which may block a thread.
RespondBlocks(n) ==
  /\ At(n, "respond") /\ NumFree(Rsp(n)) = 0
  /\ simc' = Wait(simc, Ini(n), DataRead(Rsp(n)))
  /\ UNCHANGED <<link, peq, fifo, gp, pool, fatal, lti, lt>>

Respond(n) ==
  /\ At(n, "respond") /\ NumFree(Rsp(n)) # 0
  /\ fifo' = FifoWrite(Rsp(n), lti[n].txn)
  /\ simc' = RequestUpdate(simc, Rsp(n))
  /\ SetLti(n, [lti[n] EXCEPT !.pc = "get", !.txn = NoTxn, !.delay = 0])
  /\ UNCHANGED <<link, peq, gp, pool, fatal, lt>>

LtiStep(n) ==
  \/ ReceiveBlocks(n) \/ Receive(n) \/ Transport(n) \/ SynchReturn(n)
  \/ ReturnedWaits(n) \/ ReturnedDecoupled(n) \/ Synced(n)
  \/ AskDmi(n) \/ DmiOperation(n) \/ RespondBlocks(n) \/ Respond(n)
=============================================================================
