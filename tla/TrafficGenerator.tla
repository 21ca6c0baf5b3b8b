--------------------------- MODULE TrafficGenerator ---------------------------
(***************************************************************************)
(* traffic_generator_thread: two passes, each of TxnsPerPass iterations    *)
(* that write and TxnsPerPass that read, over a pool of MaxTxns payloads.  *)
(* Generator n owns the addresses Base(n), Base(n)+1, ...; a plain word    *)
(* holds its own address, an inverted one (second pass) minus it.          *)
(***************************************************************************)
EXTENDS TlmBase

CONSTANTS TxnsPerPass     \* 16 in the source

ASSUME PassAssumption == TxnsPerPass \in Nat \ {0}

VARIABLE tg    \* tg[n]: locals and members of traffic_generator n

Base(n) == (n - 1) * TxnsPerPass + 1
PortOf(pass) == pass % NT          \* m_base_address_1 and m_base_address_2
Tg(n) == <<"generator", n>>
ReqCh(n) == <<"req", n>>
RspCh(n) == <<"rsp", n>>

TgInit ==
  tg = [n \in Initiator |->
         [pc |-> "issue", pass |-> 0, cmd |-> "write", j |-> 0, addr |-> Base(n), txn |-> NoTxn,
          active |-> 0, check_all |-> TRUE, draining |-> FALSE, sent |-> 0]]

\* Faulty: the second pass does not invert its words.
WriteDataMutant(n) == tg[n].addr
\* The word an iteration writes, inverted on the second pass.
WriteData(n) == IF tg[n].pass = 0 THEN tg[n].addr ELSE -tg[n].addr

Set(n, rec) == tg' = [tg EXCEPT ![n] = rec]

\* One iteration: take a free payload, fill it and go on to request_out_port.
\* mem_address moves only when a payload was available.
Issue(n) ==
  LET s == tg[n]
      tx == Head(pool[n])
      data == IF s.cmd = "write" THEN WriteData(n) ELSE gp[tx].data
  IN
  /\ Executing(Tg(n)) /\ s.pc = "issue" /\ s.j < TxnsPerPass
  /\ pool[n] # << >>
  /\ pool' = [pool EXCEPT ![n] = Tail(@)]
  /\ gp' = [gp EXCEPT ![tx] = [cmd |-> s.cmd, port |-> PortOf(s.pass), addr |-> s.addr,
                               data |-> data, status |-> "incomplete", rc |-> @.rc + 1]]
  /\ Set(n, [s EXCEPT !.pc = "put", !.addr = @ + 1, !.active = @ + 1, !.txn = tx, !.sent = @ + 1])
  /\ UNCHANGED <<simc, link, peq, fifo, fatal>>

\* The iteration in which the pool is empty sends nothing.
Skip(n) ==
  /\ Executing(Tg(n)) /\ tg[n].pc = "issue" /\ tg[n].j < TxnsPerPass
  /\ pool[n] = << >>
  /\ Set(n, [tg[n] EXCEPT !.pc = "check"])
  /\ UNCHANGED shared

\* request_out_port->write, blocking while the fifo is full.
PutBlocks(n) ==
  /\ Executing(Tg(n)) /\ tg[n].pc = "put" /\ NumFree(ReqCh(n)) = 0
  /\ simc' = Wait(simc, Tg(n), DataRead(ReqCh(n)))
  /\ UNCHANGED <<link, peq, fifo, gp, pool, fatal, tg>>

Put(n) ==
  /\ Executing(Tg(n)) /\ tg[n].pc = "put" /\ NumFree(ReqCh(n)) # 0
  /\ fifo' = FifoWrite(ReqCh(n), tg[n].txn)
  /\ simc' = RequestUpdate(simc, ReqCh(n))
  /\ Set(n, [tg[n] EXCEPT !.pc = "check", !.txn = NoTxn])
  /\ UNCHANGED <<link, peq, gp, pool, fatal>>

\* Faulty: an empty pool alone does not make check_complete wait.
WantedMutant(n) == tg[n].check_all \/ NumAvailable(RspCh(n)) > 0
\* check_complete reads a response when the pool is empty, when m_check_all is
\* set or when one is available; otherwise the next iteration starts.
Wanted(n) == pool[n] = << >> \/ tg[n].check_all \/ NumAvailable(RspCh(n)) > 0

Check(n) ==
  /\ Executing(Tg(n)) /\ tg[n].pc = "check"
  /\ Set(n, IF Wanted(n) THEN [tg[n] EXCEPT !.pc = "get"]
                         ELSE [tg[n] EXCEPT !.pc = "issue", !.j = @ + 1])
  /\ UNCHANGED shared

GetBlocks(n) ==
  /\ Executing(Tg(n)) /\ tg[n].pc = "get" /\ NumAvailable(RspCh(n)) = 0
  /\ simc' = Wait(simc, Tg(n), DataWritten(RspCh(n)))
  /\ UNCHANGED <<link, peq, fifo, gp, pool, fatal, tg>>

\* A response is accepted if its status is OK and a read returned the word that
\* belongs to its address, plain or inverted; anything else is fatal.
GoodResponse(tx) ==
  /\ gp[tx].status = "OK"
  /\ gp[tx].cmd = "read" => gp[tx].data \in {gp[tx].addr, -gp[tx].addr}

Get(n) ==
  LET tx == Head(fifo[RspCh(n)].items) IN
  /\ Executing(Tg(n)) /\ tg[n].pc = "get" /\ NumAvailable(RspCh(n)) # 0
  /\ fifo' = FifoRead(RspCh(n))
  /\ simc' = RequestUpdate(simc, RspCh(n))
  /\ fatal' = ~GoodResponse(tx)
  /\ gp' = Released(gp, tx)
  /\ pool' = PoolAfterRelease(tx)
  /\ Set(n, IF tg[n].draining
              THEN [tg[n] EXCEPT !.active = @ - 1, !.pc = "drain"]
              ELSE [tg[n] EXCEPT !.active = @ - 1, !.pc = "issue", !.j = @ + 1])
  /\ UNCHANGED <<link, peq>>

\* check_all_complete after the last iteration: m_check_all makes every further
\* check_complete read, until no transaction is active.
Drain(n) ==
  /\ Executing(Tg(n))
  /\ \/ tg[n].pc = "issue" /\ tg[n].j = TxnsPerPass
     \/ tg[n].pc = "drain"
  /\ tg[n].active > 0
  /\ Set(n, [tg[n] EXCEPT !.check_all = TRUE, !.draining = TRUE, !.pc = "get"])
  /\ UNCHANGED shared

\* No transaction is active: from writes to reads, to the second pass, or the end.
Drained(n) ==
  LET s == [tg[n] EXCEPT !.check_all = FALSE, !.draining = FALSE, !.j = 0, !.addr = Base(n),
                         !.pc = "issue", !.sent = 0]
  IN
  /\ Executing(Tg(n))
  /\ \/ tg[n].pc = "issue" /\ tg[n].j = TxnsPerPass
     \/ tg[n].pc = "drain"
  /\ tg[n].active = 0
  /\ \/ tg[n].cmd = "write" /\ Set(n, [s EXCEPT !.cmd = "read"]) /\ simc' = simc
     \/ tg[n].cmd = "read" /\ tg[n].pass = 0
          /\ Set(n, [s EXCEPT !.cmd = "write", !.pass = 1]) /\ simc' = simc
     \/ tg[n].cmd = "read" /\ tg[n].pass = 1
          /\ Set(n, [s EXCEPT !.pc = "done"]) /\ simc' = Yield(simc)
  /\ UNCHANGED <<link, peq, fifo, gp, pool, fatal>>

TgStep(n) ==
  Issue(n) \/ Skip(n) \/ PutBlocks(n) \/ Put(n) \/ Check(n) \/ GetBlocks(n) \/ Get(n)
    \/ Drain(n) \/ Drained(n)

TgDone(n) == tg[n].pc = "done"
=============================================================================
