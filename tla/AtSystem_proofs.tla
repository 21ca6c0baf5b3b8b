--------------------------- MODULE AtSystem_proofs ---------------------------
(***************************************************************************)
(* The AT platform keeps hold of every payload, carries every transaction  *)
(* out once, and its bus and initiators agree on what is outstanding, for  *)
(* any number and mixture of initiators and targets, over the bus or bound *)
(* directly, and in any order of processes; no queue that holds a payload  *)
(* is left without its event, and each responder has at most one response  *)
(* that is not over.  The invariants AtCore and AtWaits and their parts    *)
(* are those of AtInvariant_proofs; here are the steps of the bus for the  *)
(* first, those of all processes for the second, and the theorems.         *)
(***************************************************************************)
EXTENDS AtInvariant_proofs


-----------------------------------------------------------------------------
(* The bus *)

\* What the bus's state is after a change of one pending entry and its threads.
LEMMA BusMoved ==
  ASSUME BusOK, NEW t \in Txn, NEW e \in PendingShape, NEW x \in BusThreadShape, NEW y \in BusThreadShape,
         x.pc \in Busy => x.txn \in Txn, y.pc \in Busy => y.txn \in Txn,
         bus' = [pending |-> [bus.pending EXCEPT ![t] = e], req |-> x, rsp |-> y]
  PROVE  /\ BusOK' /\ bus'.req = x /\ bus'.rsp = y /\ bus'.pending[t] = e
         /\ \A u \in Txn : u # t => bus'.pending[u] = bus.pending[u]
<1>1. PICK p \in [Txn -> PendingShape] : p = bus.pending
  BY DEF BusOK, BusShape
<1>2. PICK r \in [Txn -> PendingShape] : r = [p EXCEPT ![t] = e]
  <2> HIDE DEF PendingShape
  <2> QED OBVIOUS
<1>3. r[t] = e /\ \A u \in Txn : u # t => r[u] = p[u]
  BY <1>2
<1>4. bus' = [pending |-> r, req |-> x, rsp |-> y]
  BY <1>1, <1>2
<1>5. bus'.pending = r /\ bus'.req = x /\ bus'.rsp = y /\ bus' \in BusShape
  <2>1. bus'.pending = r /\ bus'.req = x /\ bus'.rsp = y
    BY ONLY <1>4
  <2>2. bus' \in BusShape
    <3>1. PICK f : f = [Txn -> PendingShape]
      OBVIOUS
    <3>2. r \in f /\ x \in BusThreadShape /\ y \in BusThreadShape
      BY <1>2, <3>1
    <3> HIDE DEF BusThreadShape
    <3>3. [pending |-> r, req |-> x, rsp |-> y] \in [pending : f, req : BusThreadShape, rsp : BusThreadShape]
      BY ONLY <3>2
    <3> QED BY <1>4, <3>1, <3>3 DEF BusShape
  <2> QED BY <2>1, <2>2
<1> HIDE DEF PendingShape, BusThreadShape, BusShape
<1> QED BY <1>1, <1>3, <1>5 DEF BusOK

\* What it is before.
LEMMA BusParts ==
  ASSUME BusOK
  PROVE  /\ bus = [pending |-> bus.pending, req |-> bus.req, rsp |-> bus.rsp]
         /\ bus.pending \in [Txn -> PendingShape]
         /\ bus.req \in BusThreadShape /\ bus.rsp \in BusThreadShape
         /\ (bus.req.pc \in Busy => bus.req.txn \in Txn) /\ (bus.rsp.pc \in Busy => bus.rsp.txn \in Txn)
<1>1. bus \in BusShape
  BY DEF BusOK
<1>2. /\ bus.pending \in [Txn -> PendingShape] /\ bus.req \in BusThreadShape /\ bus.rsp \in BusThreadShape
      /\ bus = [pending |-> bus.pending, req |-> bus.req, rsp |-> bus.rsp]
  <2> HIDE DEF BusThreadShape, PendingShape
  <2> QED BY <1>1, Zenon DEF BusShape
<1> HIDE DEF BusThreadShape, PendingShape
<1> QED BY <1>2, Zenon DEF BusOK

\* The bus's part in the invariant stays if it keeps where the payload is from.
LEMMA TrackingStays ==
  ASSUME NEW t \in Txn, Tracking(t), UNCHANGED ini,
         bus'.pending[t].known = bus.pending[t].known, bus'.pending[t].from = bus.pending[t].from,
         Responding(t)' <=> Responding(t),
         Wiring = "bus" => ~Sending(t) /\ ~Telling(t) /\ ~Telling(t)'
  PROVE  Tracking(t)'
<1>1. /\ Known(t)' <=> Known(t)
      /\ Tracked(t)' <=> Tracked(t)
  BY DEF Known, Tracked
<1>2. /\ Sending(t)' <=> Sending(t)
      /\ Heard(t)' <=> Heard(t)
  <2> HIDE DEF Sending, Heard
  <2> QED BY InitiatorSame
<1> HIDE DEF Known, Tracked, Responding, Sending, Heard, Telling, About
<1> QED BY <1>1, <1>2, Zenon DEF Tracking

\* The bus takes a reference of a payload.
LEMMA AcquiredFacts ==
  ASSUME GpOK, NEW t \in Txn, gp' = Acquired(gp, t)
  PROVE  /\ GpOK' /\ gp'[t].rc = gp[t].rc + 1 /\ gp'[t].cmd = gp[t].cmd /\ gp'[t].addr = gp[t].addr
         /\ gp'[t].port = gp[t].port /\ gp'[t].status = gp[t].status /\ gp[t].rc \in Nat
         /\ \A tx \in Txn : tx # t => gp'[tx] = gp[tx]
<1>1. PICK g \in GpShape : g = gp[t]
  BY DEF GpOK
<1>2. PICK c \in Nat : c = g.rc + 1 /\ g.rc \in Nat
  BY DEF GpShape
<1> DEFINE z == [g EXCEPT !.rc = c]
<1>3. /\ z \in GpShape /\ z.rc = c /\ z.cmd = g.cmd /\ z.addr = g.addr /\ z.port = g.port /\ z.status = g.status
  <2> HIDE DEF Word
  <2> QED BY Zenon DEF GpShape
<1>4. gp' = [gp EXCEPT ![t] = z]
  BY <1>1, <1>2 DEF Acquired
<1> HIDE DEF z
<1>5. GpOK' /\ gp'[t] = z /\ \A tx \in Txn : tx # t => gp'[tx] = gp[tx]
  BY <1>3, <1>4 DEF GpOK
<1> QED BY <1>1, <1>2, <1>3, <1>5

\* A call of the bus's handlers is answered.
LEMMA BusAnswers ==
  ASSUME AtCore, link # NoCall, link.status = "called", simc'.cur = simc.cur, NEW t, t = link.txn,
         UNCHANGED <<ini, tgt>>, bus'.req = bus.req, bus'.rsp = bus.rsp, link.delay = 0,
         NEW phase, phase = link.phase, phase # "END_RESP", link' = Answer("ACCEPTED", phase, link.delay)
  PROVE  /\ Calls' /\ link' # NoCall /\ link'.txn = t /\ link'.status = "ACCEPTED"
         /\ ~Asks(t)' /\ ~Responds(t)' /\ ~EndsReq(t)' /\ ~Telling(t)' /\ ~Reports(t)'
<1>1. Calls
  BY DEF AtCore
<1>2. SamePcs
  BY DEF SamePcs
<1>3. PICK status, delay : status = "ACCEPTED" /\ delay = link.delay
  OBVIOUS
<1>4. Valid(status, phase, delay) /\ link' = Answer(status, phase, delay) /\ delay \in 0..LongestDelay
  BY <1>3, AtNumbers DEF Valid
<1>5. /\ Calls' /\ link'.status # "called" /\ link' # NoCall /\ link'.txn = link.txn
      /\ link'.status = status /\ link'.phase = phase
  <2> HIDE DEF Calls, NoCall, SamePcs, Valid, AtCore
  <2> QED BY <1>1, <1>2, <1>4, CallsAnswered
<1> HIDE DEF Asks, Responds, EndsReq, Telling, Reports, Calls, NoCall
<1> QED BY <1>3, <1>5, AnswerFacts

\* The bus takes a request.
LEMMA BusBeginReqCore ==
  ASSUME AtCore, NEW n \in Initiator, UNCHANGED <<tg, ini, tgt>>, BusBeginReq(n)
  PROVE  AtCore'
<1>0. /\ Types /\ GpOK /\ BusOK /\ PeqOK /\ KernelInv(LongestDelay, simc) /\ \A p \in Peq : Once(peq[p])
  BY DEF AtCore, Types
<1>1. PICK t : t = link.txn
  OBVIOUS
<1>2. /\ Called(<<"bus_fw", n>>) /\ link.phase = "BEGIN_REQ"
  BY DEF BusBeginReq
<1>3. /\ link # NoCall /\ t \in Txn /\ Owner(t) = n /\ Wiring = "bus" /\ link.delay = 0
      /\ link.callee = <<"bus_fw", n>> /\ link.status = "called" /\ Sending(t)
  <2> HIDE DEF AtCore, NoCall, Called, Sending
  <2> QED BY <1>1, <1>2, BusCalledForward
<1>4. /\ gp' = Acquired(gp, t) /\ fatal' \in BOOLEAN
      /\ bus' = [bus EXCEPT !.pending[t] = [from |-> n, to |-> -1, known |-> TRUE]]
      /\ peq' = [peq EXCEPT ![requestPEQ] = PeqInsert(@, t, 0)] /\ simc' = Notify(simc, requestPEQ, 0)
      /\ link' = Answer("ACCEPTED", link.phase, link.delay) /\ UNCHANGED <<fifo, pool>>
  <2>1. Known(t) \in BOOLEAN
    <3>1. bus.pending[t] \in PendingShape
      <4> HIDE DEF PendingShape, BusOK
      <4> QED BY <1>0, <1>3, BusParts
    <3> QED BY <3>1 DEF PendingShape, Known
  <2> QED BY <1>1, <1>3, <2>1, Zenon DEF BusBeginReq
<1>5. PayloadInv(t)
  BY <1>3 DEF AtCore
<1>6. Asks(t) /\ Waiting(t) /\ Asked(t) /\ gp[t].port = Port(t) /\ ~Known(t)
  <2>1. Asks(t) /\ link.callee[1] = "bus_fw"
    BY <1>1, <1>2, <1>3 DEF Asks, About
  <2> HIDE DEF Asks, Waiting, Asked, Port, Known
  <2> QED BY <1>5, <2>1 DEF PayloadInv, InTransit
<1>7. /\ \A q \in Peq : t \notin Queued(q)
  <2> HIDE DEF Asks, Queued, Peq, PayloadInv
  <2> QED BY <1>3, <1>5, <1>6, QueueFacts
<1>8. /\ Held(t) = 1 /\ gp[t].rc # 0 /\ gp[t].cmd \in {"read", "write"} /\ gp[t].addr \in Addresses
  <2> HIDE DEF AtCore, PayloadInv, Held, Asked, CarriedOut, InHand, Ending, Returning, Closing, Waiting
  <2> QED BY <1>3, <1>6, WaitingHand
<1>9. /\ GpOK' /\ gp'[t].rc = gp[t].rc + 1 /\ gp'[t].cmd = gp[t].cmd /\ gp'[t].addr = gp[t].addr
      /\ gp'[t].port = gp[t].port /\ gp'[t].status = gp[t].status /\ gp[t].rc \in Nat
      /\ \A tx \in Txn : tx # t => gp'[tx] = gp[tx]
  <2> HIDE DEF GpOK, Acquired
  <2> QED BY <1>0, <1>3, <1>4, AcquiredFacts
<1>10. PICK e \in PendingShape : e = [from |-> n, to |-> -1, known |-> TRUE]
  <2>1. n \in 0..NI /\ -1 \in {-1} \union Target /\ TRUE \in BOOLEAN
    BY AtNumbers DEF Initiator
  <2> HIDE DEF Target
  <2> QED BY <2>1 DEF PendingShape
<1>11. /\ BusOK' /\ bus'.req = bus.req /\ bus'.rsp = bus.rsp /\ bus'.pending[t] = e
       /\ \A u \in Txn : u # t => bus'.pending[u] = bus.pending[u]
  <2>1. bus' = [pending |-> [bus.pending EXCEPT ![t] = e], req |-> bus.req, rsp |-> bus.rsp]
    <3>1. bus' = [bus EXCEPT !.pending[t] = e]
      BY <1>4, <1>10
    <3> QED BY <1>0, <3>1, BusParts
  <2>2. PICK x \in BusThreadShape, y \in BusThreadShape :
          x = bus.req /\ y = bus.rsp /\ (x.pc \in Busy => x.txn \in Txn) /\ (y.pc \in Busy => y.txn \in Txn)
    <3> HIDE DEF BusOK, BusThreadShape, PendingShape
    <3> QED BY <1>0, BusParts
  <2> HIDE DEF BusOK, BusThreadShape, PendingShape, Busy
  <2> QED BY <1>0, <1>3, <2>1, <2>2, BusMoved
<1>12. PICK q \in Peq : q = requestPEQ
  BY <1>3, AtNames
<1>13. /\ PeqOK' /\ \A p \in Peq : Once(peq'[p])
       /\ \A p \in Peq : \A u : (u \in Queued(p))' <=> u \in Queued(p) \/ (p = q /\ u = t)
  <2>1. t \notin Queued(q) /\ 0 \in 0..LongestDelay /\ peq' = [peq EXCEPT ![q] = PeqInsert(@, t, 0)]
    BY <1>4, <1>7, <1>12, AtNumbers
  <2> HIDE DEF PeqOK, Once, Queued, Peq, PeqInsert, LongestDelay
  <2> QED BY <1>0, <1>3, <2>1, PeqPut, Zenon
<1>14. KernelInv(LongestDelay, simc') /\ simc'.cur = simc.cur
  <2>1. requestPEQ \in Event
    BY <1>3, AtNames
  <2> HIDE DEF KernelInv, Event
  <2> QED BY <1>0, <1>4, <2>1, AtNumbers, AtKernel
<1>15. /\ Calls' /\ link' # NoCall /\ link'.txn = t /\ link'.status = "ACCEPTED"
       /\ ~Asks(t)' /\ ~Responds(t)' /\ ~EndsReq(t)' /\ ~Telling(t)' /\ ~Reports(t)'
  <2>1. PICK phase : phase = link.phase
    OBVIOUS
  <2>2. phase # "END_RESP" /\ link' = Answer("ACCEPTED", phase, link.delay)
    BY <1>2, <1>4, <2>1
  <2> HIDE DEF AtCore, Calls, NoCall, Asks, Responds, EndsReq, Telling, Reports, Answer
  <2> QED BY <1>1, <1>3, <1>11, <1>14, <2>1, <2>2, BusAnswers
<1>16. Types'
  <2>1. IniOK' /\ TgtOK' /\ Shapes'
    <3> HIDE DEF Types, GpOK, IniOK, BusOK, TgtOK, PeqOK, Shapes
    <3> QED BY <1>0, <1>4, TypesKept
  <2> QED BY <1>4, <1>9, <1>11, <1>13, <1>14, <2>1 DEF Types
<1>17. Known(t)' /\ bus'.pending[t].from = n /\ n # 0 /\ Tracked(t)'
  <2>1. n # 0
    BY DEF Initiator
  <2> QED BY <1>10, <1>11, <2>1 DEF Known, Tracked
<1>18. Held(t)' = 1 /\ Asked(t)' /\ gp'[t].rc # 0
  <2>1. PICK c \in Nat : c = gp[t].rc
    BY <1>9
  <2>2. c = 1
    BY <1>6, <1>8, <2>1 DEF Held, BusHolds
  <2>3. gp'[t].rc = 2
    BY <1>9, <2>1, <2>2
  <2>4. Held(t)' = 1
    BY <1>17, <2>3 DEF Held, BusHolds
  <2> QED BY <1>6, <1>9, <2>3, <2>4 DEF Asked
<1>19. \A tx \in Txn : /\ Responding(tx)' <=> Responding(tx)
                       /\ tx # t => /\ bus'.pending[tx].known = bus.pending[tx].known
                                    /\ bus'.pending[tx].from = bus.pending[tx].from
  BY <1>11 DEF Responding
<1>20. (Sending(t)' <=> Sending(t)) /\ (Heard(t)' <=> Heard(t)) /\ Port(t)' = Port(t)
       /\ ini'[Owner(t)].map[t] = ini[Owner(t)].map[t]
  <2> HIDE DEF Sending, Heard, Port
  <2> QED BY <1>3, <1>4, InitiatorSame, GeneratorSame
<1>21. Tracking(t)'
  <2>1. About(t)' /\ link'.status # "called"
    BY <1>15 DEF About
  <2>2. ~Responding(t)' /\ ini'[Owner(t)].map[t] # "UPDATED"
    <3> HIDE DEF Responding, Known, Tracked, Sending, Heard, Telling, About
    <3> QED BY <1>3, <1>5, <1>6, <1>19, <1>20 DEF PayloadInv, Tracking
  <2> HIDE DEF Responding, Known, Tracked, Sending, Heard, Telling, About
  <2> QED BY <1>3, <1>17, <1>20, <2>1, <2>2 DEF Tracking
<1>22. q[1] # "send_end_rsp_PEQ" /\ Fits(q, t)'
  <2>1. q[1] = "requestPEQ" /\ responsePEQ[1] = "responsePEQ"
    BY <1>12 DEF requestPEQ, responsePEQ
  <2>2. Waiting(t)' /\ gp'[t].port = Port(t)'
    <3> HIDE DEF Sending, Heard, Port
    <3> QED BY <1>3, <1>6, <1>9, <1>20 DEF Waiting
  <2> HIDE DEF Waiting, Where, Asked, CarriedOut, Port
  <2> QED BY <1>12, <1>18, <2>1, <2>2 DEF Fits
<1>23. /\ \A p \in Peq : (t \in Queued(p))' => p = q
       /\ \A tx \in Txn : tx # t => \A p \in Peq : (tx \in Queued(p))' <=> tx \in Queued(p)
  <2> HIDE DEF Queued, Peq
  <2> QED BY <1>7, <1>13
<1> HIDE DEF AtCore, Types, Calls, Waiting, Reports, CarriedOut, Asked, Held, Sending, Asks, Responds, EndsReq, Tracking,
             Telling, NoCall, Responding, Queued, Peq, Fits, Once, Known, GpOK, BusOK, PeqOK, KernelInv
<1> QED BY <1>1, <1>3, <1>4, <1>6, <1>9, <1>13, <1>15, <1>16, <1>18, <1>19, <1>21, <1>22, <1>23, WaitsOn

\* The bus takes a response.
LEMMA BusBeginRespCore ==
  ASSUME AtCore, NEW m \in Target, UNCHANGED <<tg, ini, tgt>>, targetNBTransport(m), link.phase = "BEGIN_RESP"
  PROVE  AtCore'
<1>0. /\ Types /\ PeqOK /\ KernelInv(LongestDelay, simc) /\ \A p \in Peq : Once(peq[p])
  BY DEF AtCore, Types
<1>1. PICK t : t = link.txn
  OBVIOUS
<1>2. Called(<<"bus_bw", m>>)
  BY DEF targetNBTransport
<1>3. /\ link # NoCall /\ t \in Txn /\ Wiring = "bus" /\ link.delay = 0
      /\ link.callee = <<"bus_bw", m>> /\ link.status = "called"
      /\ \A n \in Initiator : ini[n].pc # "sent" /\ ini[n].mpc # "sent"
  <2> HIDE DEF AtCore, NoCall, Called
  <2> QED BY <1>1, <1>2, BusCalledBackward
<1>4. /\ fatal' \in BOOLEAN /\ UNCHANGED <<fifo, gp, pool, bus>>
      /\ peq' = [peq EXCEPT ![responsePEQ] = PeqInsert(@, t, 0)]
      /\ simc' = Notify(Notify(simc, mEndRequestEvent, 0), responsePEQ, 0)
      /\ link' = Answer("ACCEPTED", link.phase, link.delay)
  BY <1>1, <1>3 DEF targetNBTransport
<1>5. PayloadInv(t)
  BY <1>3 DEF AtCore
<1>6. Responds(t) /\ Waiting(t) /\ CarriedOut(t)
  <2>1. Responds(t)
    BY <1>1, <1>3 DEF Responds, About
  <2> HIDE DEF Asks, Waiting, Asked, Port, Known, Reports, Responds, CarriedOut
  <2> QED BY <1>5, <2>1 DEF PayloadInv, InTransit
<1>7. /\ \A q \in Peq : t \notin Queued(q)
  <2> HIDE DEF Responds, Queued, Peq, PayloadInv
  <2> QED BY <1>3, <1>5, <1>6, QueueFacts
<1>8. /\ Held(t) = 1 /\ gp[t].rc # 0 /\ gp[t].cmd \in {"read", "write"} /\ gp[t].addr \in Addresses
  <2> HIDE DEF AtCore, PayloadInv, Held, Asked, CarriedOut, InHand, Ending, Returning, Closing, Waiting
  <2> QED BY <1>3, <1>6, WaitingHand
<1>12. PICK q \in Peq : q = responsePEQ
  BY <1>3, AtNames
<1>13. /\ PeqOK' /\ \A p \in Peq : Once(peq'[p])
       /\ \A p \in Peq : \A u : (u \in Queued(p))' <=> u \in Queued(p) \/ (p = q /\ u = t)
  <2>1. t \notin Queued(q) /\ 0 \in 0..LongestDelay /\ peq' = [peq EXCEPT ![q] = PeqInsert(@, t, 0)]
    BY <1>4, <1>7, <1>12, AtNumbers
  <2> HIDE DEF PeqOK, Once, Queued, Peq, PeqInsert, LongestDelay
  <2> QED BY <1>0, <1>3, <2>1, PeqPut, Zenon
<1>14. KernelInv(LongestDelay, simc') /\ simc'.cur = simc.cur
  <2>1. responsePEQ \in Event /\ mEndRequestEvent \in Event
    BY <1>3, AtNames
  <2>2. PICK k : k = Notify(simc, mEndRequestEvent, 0)
    OBVIOUS
  <2> HIDE DEF KernelInv, Event
  <2>3. KernelInv(LongestDelay, k) /\ k.cur = simc.cur
    BY <1>0, <2>1, <2>2, AtNumbers, AtKernel
  <2> QED BY <1>4, <2>1, <2>2, <2>3, AtNumbers, AtKernel
<1>15. /\ Calls' /\ link' # NoCall /\ link'.txn = t /\ link'.status = "ACCEPTED"
       /\ ~Asks(t)' /\ ~Responds(t)' /\ ~EndsReq(t)' /\ ~Telling(t)' /\ ~Reports(t)'
  <2>1. PICK phase : phase = link.phase
    OBVIOUS
  <2>2. phase # "END_RESP" /\ link' = Answer("ACCEPTED", phase, link.delay)
    BY <1>2, <1>4, <2>1
  <2>3. UNCHANGED <<ini, tgt>> /\ bus'.req = bus.req /\ bus'.rsp = bus.rsp
    BY <1>4
  <2> HIDE DEF AtCore, Calls, NoCall, Asks, Responds, EndsReq, Telling, Reports, Answer
  <2> QED BY <1>1, <1>3, <1>14, <2>1, <2>2, <2>3, BusAnswers
<1>16. Types'
  <2>1. IniOK' /\ TgtOK' /\ Shapes' /\ GpOK' /\ BusOK'
    <3> HIDE DEF Types, GpOK, IniOK, BusOK, TgtOK, PeqOK, Shapes
    <3> QED BY <1>0, <1>4, TypesKept
  <2> QED BY <1>4, <1>13, <1>14, <2>1 DEF Types
<1>17. \A tx \in Txn : /\ Responding(tx)' <=> Responding(tx)
                       /\ bus'.pending[tx].known = bus.pending[tx].known
                       /\ bus'.pending[tx].from = bus.pending[tx].from
                       /\ Known(tx)' <=> Known(tx)
                       /\ gp'[tx] = gp[tx]
  <2> HIDE DEF Responding, Known
  <2> QED BY <1>4, BusSame
<1>18. Held(t)' = 1 /\ CarriedOut(t)'
  <2>1. BusHolds(t)' = BusHolds(t)
    BY <1>3, <1>17 DEF BusHolds
  <2> QED BY <1>3, <1>6, <1>8, <1>17, <2>1 DEF Held, CarriedOut
<1>19. Tracking(t)'
  <2>1. Tracking(t) /\ UNCHANGED <<ini, bus>>
    BY <1>4, <1>5 DEF PayloadInv
  <2>2. ~Sending(t)
    BY <1>3, OwnerFacts DEF Sending
  <2>3. ~Telling(t)
    <3>1. link.callee[1] # "initiator"
      BY <1>3
    <3> QED BY <3>1 DEF Telling, ToInitiator
  <2> HIDE DEF Tracking, Sending, Telling
  <2> QED BY <1>3, <1>15, <2>1, <2>2, <2>3, TrackingKept
<1>20. q[1] # "send_end_rsp_PEQ" /\ Fits(q, t)'
  <2>1. q[1] = "responsePEQ" /\ requestPEQ[1] = "requestPEQ"
    BY <1>12 DEF requestPEQ, responsePEQ
  <2>2. Waiting(t)'
    <3>1. (Sending(t)' <=> Sending(t)) /\ (Heard(t)' <=> Heard(t))
      <4> HIDE DEF Sending, Heard
      <4> QED BY <1>3, InitiatorSame
    <3> HIDE DEF Sending, Heard
    <3> QED BY <1>6, <3>1 DEF Waiting
  <2> HIDE DEF Waiting, Where, Asked, CarriedOut, Port
  <2> QED BY <1>12, <1>18, <2>1, <2>2 DEF Fits
<1>21. /\ \A p \in Peq : (t \in Queued(p))' => p = q
       /\ \A tx \in Txn : tx # t => \A p \in Peq : (tx \in Queued(p))' <=> tx \in Queued(p)
  <2> HIDE DEF Queued, Peq
  <2> QED BY <1>7, <1>13
<1>22. gp'[t].rc # 0 /\ gp'[t].cmd = gp[t].cmd /\ gp'[t].addr = gp[t].addr
  BY <1>3, <1>8, <1>17
<1> HIDE DEF AtCore, Types, Calls, Waiting, Reports, CarriedOut, Asked, Held, Sending, Asks, Responds, EndsReq, Tracking,
             Telling, NoCall, Responding, Queued, Peq, Fits, Once, Known, GpOK, BusOK, PeqOK, KernelInv
<1> QED BY <1>1, <1>3, <1>4, <1>6, <1>13, <1>15, <1>16, <1>17, <1>18, <1>19, <1>20, <1>21, <1>22, WaitsOn

\* A thread of the bus makes a call.
LEMMA BusCalling ==
  ASSUME AtCore, link = NoCall, simc.cur # Nobody, simc'.cur = simc.cur, UNCHANGED <<ini, tgt>>, link' \in LinkShape,
         \/ /\ simc.cur = RequestThread /\ bus'.rsp = bus.rsp /\ bus'.req.pc \in {"sent", "told"}
            /\ ForwardCall' \/ EndReqCall'
         \/ /\ simc.cur = ResponseThread /\ bus'.req = bus.req /\ bus'.rsp.pc \in {"sent", "told"}
            /\ ReplyCall' \/ EndRspCall'
  PROVE  Calls'
<1>1. Calls /\ simc.cur \in Process
  BY Runs DEF AtCore
<1>2. PICK p \in Process : p = simc.cur
  BY <1>1
<1> HIDE DEF Calls, Calling, CallOf, Process, NoCall, ForwardCall, EndReqCall, ReplyCall, EndRspCall, LinkShape, AtCore
<1>3. Calling(p)' /\ CallOf(p)' /\ \A x \in Process : x # p => (Calling(x)' <=> Calling(x))
  <2>1. CASE /\ simc.cur = RequestThread /\ bus'.rsp = bus.rsp /\ bus'.req.pc \in {"sent", "told"}
             /\ ForwardCall' \/ EndReqCall'
    <3>1. Calling(RequestThread)' /\ CallOf(RequestThread)'
      BY <2>1, CallingNames
    <3>2. \A x \in Process : x # RequestThread => (Calling(x)' <=> Calling(x))
      BY <2>1, OnlyBus
    <3>3. p = RequestThread
      BY <1>2, <2>1
    <3> QED BY <3>1, <3>2, <3>3
  <2>2. CASE /\ simc.cur = ResponseThread /\ bus'.req = bus.req /\ bus'.rsp.pc \in {"sent", "told"}
             /\ ReplyCall' \/ EndRspCall'
    <3>1. Calling(ResponseThread)' /\ CallOf(ResponseThread)'
      BY <2>2, CallingNames
    <3>2. \A x \in Process : x # ResponseThread => (Calling(x)' <=> Calling(x))
      BY <2>2, OnlyBus
    <3>3. p = ResponseThread
      BY <1>2, <2>2
    <3> QED BY <3>1, <3>2, <3>3
  <2> QED BY <2>1, <2>2
<1>4. link' \in LinkShape /\ link = NoCall /\ simc'.cur = p
  BY <1>2
<1> QED BY ONLY <1>1, <1>2, <1>3, <1>4, CallsMade

\* Which call it makes.
LEMMA BusCallMade ==
  ASSUME NEW t \in Txn, NEW c, NEW phase \in Phases, link' = Call(c, t, phase)
  PROVE  /\ link' # NoCall /\ link'.txn = t /\ link'.status = "called" /\ link'.phase = phase
         /\ link'.callee = c /\ link'.delay = 0 /\ ~Reports(t)'
         /\ Asks(t)' <=> phase = "BEGIN_REQ"
         /\ Responds(t)' <=> phase = "BEGIN_RESP"
         /\ EndsReq(t)' <=> phase = "END_REQ"
         /\ Telling(t)' <=> phase = "BEGIN_RESP" /\ c = ToInitiator(Owner(t))
         /\ c \in {ToTarget(m) : m \in Target} \union {ToInitiator(n) : n \in Initiator} => link' \in LinkShape
<1>1. t \in Txn /\ link' = Call(c, t, phase)
  OBVIOUS
<1>2. /\ link' # NoCall /\ link'.txn = t /\ link'.status = "called" /\ link'.phase = phase
      /\ link'.callee = c /\ link'.delay = 0 /\ ~Reports(t)'
      /\ Asks(t)' <=> phase = "BEGIN_REQ"
      /\ Responds(t)' <=> phase = "BEGIN_RESP"
      /\ EndsReq(t)' <=> phase = "END_REQ"
      /\ Telling(t)' <=> phase = "BEGIN_RESP" /\ c = ToInitiator(Owner(t))
  <2> HIDE DEF About, Reports, Asks, Responds, EndsReq, Telling, NoCall, ToInitiator, Call
  <2> QED BY ONLY <1>1, CallMade
<1>3. ASSUME c \in {ToTarget(m) : m \in Target} \union {ToInitiator(n) : n \in Initiator}
      PROVE  link' \in LinkShape
  <2>1. CASE \E m \in Target : c = ToTarget(m)
    <3>1. PICK m \in Target : c = ToTarget(m)
      BY <2>1
    <3>2. link' = Call(ToTarget(m), t, phase)
      BY <1>1, <3>1
    <3> HIDE DEF LinkShape, Call, ToTarget, Phases, Target
    <3> QED BY <3>2, CallShape
  <2>2. CASE \E n \in Initiator : c = ToInitiator(n)
    <3>1. PICK n \in Initiator : c = ToInitiator(n)
      BY <2>2
    <3>2. link' = Call(ToInitiator(n), t, phase)
      BY <1>1, <3>1
    <3> HIDE DEF LinkShape, Call, ToInitiator, Phases, Initiator
    <3> QED BY <3>2, CallShape
  <2> QED BY <1>3, <2>1, <2>2
<1> HIDE DEF About, Reports, Asks, Responds, EndsReq, Telling, NoCall, ToInitiator, ToTarget, Call, LinkShape
<1> QED BY <1>2, <1>3

\* The bus sends a request on.
LEMMA SendToTargetCore ==
  ASSUME AtCore, UNCHANGED <<tg, ini, tgt>>, SendToTarget
  PROVE  AtCore'
<1>0. /\ Types /\ Calls /\ GpOK /\ BusOK /\ PeqOK /\ KernelInv(LongestDelay, simc) /\ fatal \in BOOLEAN /\ Shapes
      /\ \A p \in Peq : Once(peq[p])
  BY DEF AtCore, Types
<1>1. PICK t : t = Head(peq[requestPEQ]).txn
  OBVIOUS
<1>2. PICK port : port = gp[t].port
  OBVIOUS
<1>3. /\ simc.cur = RequestThread /\ bus.req.pc = "next" /\ PeqDue(requestPEQ) /\ peq' = PeqPop(requestPEQ)
      /\ fatal' = (port >= NT \/ ~Known(t)) /\ gp' = [gp EXCEPT ![t].port = 0]
      /\ bus' = [bus EXCEPT !.req = [pc |-> "sent", txn |-> t], !.pending[t].to = port]
      /\ link' = Call(ToTarget(port), t, "BEGIN_REQ") /\ UNCHANGED <<simc, fifo, pool>>
  BY <1>1, <1>2 DEF SendToTarget, Executing
<1>4. simc.cur # Nobody /\ Wiring = "bus" /\ ~Direct
  <2>1. simc.cur # Nobody
    BY <1>3 DEF RequestThread, Nobody
  <2> HIDE DEF AtCore
  <2> QED BY <1>3, <2>1, Runs, Bindings
<1>5. link = NoCall
  <2>1. ~Calling(simc.cur)
    BY <1>3, Idle
  <2> HIDE DEF Calls, Calling, Process, NoCall
  <2> QED BY <1>0, <2>1, NotCalling
<1>6. PICK q \in Peq : q = requestPEQ
  BY <1>4, AtNames
<1>7. q[1] # "send_end_rsp_PEQ" /\ q = requestPEQ
  BY <1>6 DEF requestPEQ
<1>8. /\ t \in Txn /\ t \in Queued(q) /\ PayloadInv(t) /\ Fits(q, t)
      /\ \A r \in Peq : t \in Queued(r) <=> r = q
      /\ Waiting(t) /\ Heard(t) /\ ~Sending(t) /\ Held(t) = 1 /\ gp[t].rc # 0
      /\ gp[t].cmd \in {"read", "write"} /\ gp[t].addr \in Addresses /\ ~Telling(t) /\ Known(t)
  <2> HIDE DEF AtCore, NoCall, Peq, PeqDue, Queued, PayloadInv, Fits, Waiting, Heard, Sending, Held, Telling, Closing, Responding,
               Asked, CarriedOut, Known, Tracked
  <2>1. link = NoCall /\ PeqDue(q) /\ t = Head(peq[q]).txn /\ q \in Peq /\ q[1] # "send_end_rsp_PEQ"
    BY <1>1, <1>3, <1>4, <1>5, <1>6, <1>7
  <2>2. /\ t \in Txn /\ t \in Queued(q) /\ PayloadInv(t) /\ Fits(q, t)
        /\ \A r \in Peq : t \in Queued(r) <=> r = q
        /\ Waiting(t) /\ Heard(t) /\ ~Sending(t) /\ ~Closing(t) /\ Held(t) = 1 /\ gp[t].rc # 0
        /\ gp[t].cmd \in {"read", "write"} /\ gp[t].addr \in Addresses
        /\ ~Telling(t) /\ ~Responding(t) /\ (Asked(t) \/ CarriedOut(t))
        /\ Wiring = "bus" => Known(t) /\ bus.pending[t].from = Owner(t) /\ Tracked(t)
    BY ONLY AtCore, <2>1, HeadFacts
  <2> QED BY <1>4, <2>2, Zenon
<1>9. Asked(t) /\ port = Port(t)
  <2> HIDE DEF Asked, Port
  <2> QED BY <1>2, <1>7, <1>8 DEF Fits
<1>10. port \in Target /\ port = Where(t)
  <2>1. Where(t) = Port(t)
    BY <1>4 DEF Where
  <2> HIDE DEF Shapes, Port, Where
  <2> QED BY <1>0, <1>8, <1>9, <2>1, PortType
<1>11. /\ PeqOK' /\ \A r \in Peq : Once(peq'[r])
       /\ \A r \in Peq : \A u : (u \in Queued(r))' <=> u \in Queued(r) /\ ~(r = q /\ u = t)
  <2>1. PeqDue(q) /\ t = Head(peq[q]).txn /\ peq' = PeqPop(q)
    BY <1>1, <1>3, <1>7
  <2> HIDE DEF PeqOK, Once, Queued, Peq, PeqPop, PeqDue
  <2> QED BY <1>0, <2>1, PeqTaken
<1>12. PICK g \in GpShape : g = gp[t]
  BY <1>0, <1>8 DEF GpOK
<1> DEFINE h == [g EXCEPT !.port = 0]
<1>13. /\ h \in GpShape /\ h.rc = g.rc /\ h.cmd = g.cmd /\ h.addr = g.addr /\ h.status = g.status
  <2>1. 0 \in Target
    BY AtNumbers
  <2> HIDE DEF Word, Target
  <2> QED BY <2>1, Zenon DEF GpShape
<1>14. gp' = [gp EXCEPT ![t] = h]
  BY <1>3, <1>12
<1> HIDE DEF h
<1>15. GpOK' /\ gp'[t] = h /\ \A tx \in Txn : tx # t => gp'[tx] = gp[tx]
  BY <1>0, <1>8, <1>13, <1>14 DEF GpOK
<1>16. PICK f \in PendingShape : f = bus.pending[t]
  <2> HIDE DEF PendingShape, BusOK
  <2> QED BY <1>0, <1>8, BusParts
<1> DEFINE e == [f EXCEPT !.to = port]
           x == [pc |-> "sent", txn |-> t]
<1>17. e \in PendingShape /\ e.known = f.known /\ e.from = f.from
  <2> HIDE DEF Target
  <2> QED BY <1>10, Zenon DEF PendingShape
<1>18. x \in BusThreadShape /\ x.pc = "sent" /\ x.txn = t /\ (x.pc \in Busy => x.txn \in Txn)
  BY <1>8 DEF BusThreadShape, Busy
<1>19. bus' = [pending |-> [bus.pending EXCEPT ![t] = e], req |-> x, rsp |-> bus.rsp]
  <2>1. PICK p, y, z : p = bus.pending /\ y = bus.req /\ z = bus.rsp
    OBVIOUS
  <2>2. bus = [pending |-> p, req |-> y, rsp |-> z]
    BY <1>0, <2>1, BusParts
  <2>3. PICK x2 : x2 = x
    OBVIOUS
  <2>4. bus' = [bus EXCEPT !.req = x2, !.pending[t].to = port]
    BY <1>3, <2>3
  <2> HIDE DEF x
  <2>5. bus' = [pending |-> [p EXCEPT ![t].to = port], req |-> x2, rsp |-> z]
    BY <2>2, <2>4
  <2>6. [p EXCEPT ![t].to = port] = [p EXCEPT ![t] = e]
    BY <1>16, <2>1
  <2> QED BY <2>1, <2>3, <2>5, <2>6
<1> HIDE DEF e, x
<1>20. /\ BusOK' /\ bus'.req = x /\ bus'.rsp = bus.rsp /\ bus'.pending[t] = e
       /\ \A u \in Txn : u # t => bus'.pending[u] = bus.pending[u]
  <2>1. PICK y \in BusThreadShape : y = bus.rsp /\ (y.pc \in Busy => y.txn \in Txn)
    <3> HIDE DEF BusOK, BusThreadShape, PendingShape
    <3> QED BY <1>0, BusParts
  <2> HIDE DEF BusOK, BusThreadShape, PendingShape, Busy
  <2> QED BY <1>0, <1>8, <1>17, <1>18, <1>19, <2>1, BusMoved
<1>21. /\ link' # NoCall /\ link'.txn = t /\ link'.status = "called" /\ link'.phase = "BEGIN_REQ"
       /\ link'.callee = ToTarget(port) /\ link'.delay = 0 /\ ~Reports(t)' /\ ~Responds(t)' /\ ~Telling(t)' /\ link' \in LinkShape
  <2>0. PICK phase \in Phases : phase = "BEGIN_REQ"
    BY DEF Phases
  <2>1. PICK c : c = ToTarget(port) /\ phase = "BEGIN_REQ"
    BY <2>0
  <2>2. link' = Call(c, t, phase) /\ c \in {ToTarget(m) : m \in Target} \union {ToInitiator(n) : n \in Initiator} /\ t \in Txn
    BY <1>3, <1>8, <1>10, <2>1
  <2> HIDE DEF About, Reports, Asks, Responds, EndsReq, Telling, NoCall, ToInitiator, Call, LinkShape, Phases
  <2>4. /\ link' # NoCall /\ link'.txn = t /\ link'.status = "called" /\ link'.phase = phase
        /\ link'.callee = c /\ link'.delay = 0 /\ ~Reports(t)'
        /\ Asks(t)' <=> phase = "BEGIN_REQ"
        /\ Responds(t)' <=> phase = "BEGIN_RESP"
        /\ EndsReq(t)' <=> phase = "END_REQ"
        /\ Telling(t)' <=> phase = "BEGIN_RESP" /\ c = ToInitiator(Owner(t))
        /\ c \in {ToTarget(m) : m \in Target} \union {ToInitiator(n) : n \in Initiator} => link' \in LinkShape
    BY ONLY <2>1, <2>2, BusCallMade
  <2> QED BY <2>1, <2>2, <2>4
<1>22. Calls'
  <2>1. ForwardCall' /\ bus'.req.pc \in {"sent", "told"}
    BY <1>18, <1>20, <1>21 DEF ForwardCall, Open, ToTarget
  <2>2. UNCHANGED <<ini, tgt>> /\ simc'.cur = simc.cur
    BY <1>3
  <2> HIDE DEF Calls, AtCore, NoCall, ForwardCall, EndReqCall, LinkShape
  <2> QED BY <1>3, <1>4, <1>5, <1>20, <1>21, <2>1, <2>2, BusCalling
<1>23. Types'
  <2>1. IniOK' /\ TgtOK' /\ Shapes'
    <3> HIDE DEF Types, GpOK, IniOK, BusOK, TgtOK, PeqOK, Shapes
    <3> QED BY <1>0, <1>3, TypesKept
  <2>2. fatal' \in BOOLEAN
    <3> HIDE DEF Known
    <3> QED BY <1>3, <1>8
  <2> QED BY <1>0, <1>3, <1>11, <1>15, <1>20, <2>1, <2>2 DEF Types
<1>24. \A tx \in Txn : /\ Responding(tx)' <=> Responding(tx)
                       /\ bus'.pending[tx].known = bus.pending[tx].known
                       /\ bus'.pending[tx].from = bus.pending[tx].from
  BY <1>16, <1>17, <1>20 DEF Responding
<1>25. Held(t)' = 1 /\ Asked(t)' /\ gp'[t].rc # 0 /\ gp'[t].cmd = gp[t].cmd /\ gp'[t].addr = gp[t].addr
  <2>1. BusHolds(t)' = BusHolds(t)
    BY <1>8, <1>24 DEF BusHolds, Known
  <2> QED BY <1>8, <1>9, <1>12, <1>13, <1>15, <2>1 DEF Held, Asked
<1>26. Tracking(t)'
  <2>1. Tracking(t)
    BY <1>8 DEF PayloadInv
  <2> HIDE DEF Tracking, Sending, Telling, Responding
  <2> QED BY <1>8, <1>21, <1>24, <2>1, TrackingStays
<1>27. /\ \A r \in Peq : ~(t \in Queued(r))'
       /\ \A tx \in Txn : tx # t => \A r \in Peq : (tx \in Queued(r))' <=> tx \in Queued(r)
  <2> HIDE DEF Queued, Peq
  <2> QED BY <1>8, <1>11
<1> HIDE DEF AtCore, Types, Calls, Waiting, Reports, CarriedOut, Asked, Held, Sending, Asks, Responds, EndsReq, Tracking,
             Telling, NoCall, Responding, Queued, Peq, Fits, Once, Known, GpOK, BusOK, PeqOK, KernelInv, LinkShape
<1> QED BY <1>3, <1>5, <1>7, <1>8, <1>10, <1>11, <1>15, <1>21, <1>22, <1>23, <1>24, <1>25, <1>26, <1>27, WaitsOn

\* The target has completed the request in its answer.
LEMMA CompletedByTargetCore ==
  ASSUME AtCore, UNCHANGED <<tg, ini, tgt>>, RequestCompletedByTarget
  PROVE  AtCore'
<1>0. /\ Types /\ Calls /\ BusOK /\ PeqOK /\ KernelInv(LongestDelay, simc) /\ fatal \in BOOLEAN
      /\ \A p \in Peq : Once(peq[p])
  BY DEF AtCore, Types
<1>1. PICK t, d : t = link.txn /\ d = link.delay
  OBVIOUS
<1>2. /\ simc.cur = RequestThread /\ bus.req.pc = "sent" /\ Answered /\ link.status = "COMPLETED"
      /\ peq' = [peq EXCEPT ![responsePEQ] = PeqInsert(@, t, d)]
      /\ simc' = WaitTime(Notify(simc, responsePEQ, d), RequestThread, d)
      /\ bus' = [bus EXCEPT !.req.pc = "next", !.pending[t].to = -1]
      /\ link' = NoCall /\ UNCHANGED <<fifo, gp, pool, fatal>>
  BY <1>1 DEF RequestCompletedByTarget, Executing
<1>3. simc.cur # Nobody /\ Wiring = "bus" /\ simc.cur \in Process /\ link # NoCall /\ ForwardCall
  <2>1. simc.cur # Nobody
    BY <1>2 DEF RequestThread, Nobody
  <2> HIDE DEF AtCore, NoCall, ForwardCall, Process
  <2> QED BY <1>2, <2>1, Runs, CallerFacts
<1>4. link \in LinkShape /\ t \in Txn /\ d \in 0..LongestDelay /\ link.phase = "BEGIN_REQ" /\ t = bus.req.txn
  <2>1. link \in LinkShape /\ link.txn \in Txn
    <3> HIDE DEF AtCore, NoCall, LinkShape
    <3> QED BY <1>3, Callers
  <2>2. link.phase = "BEGIN_REQ" /\ link.txn = bus.req.txn
    BY <1>2, <1>3 DEF ForwardCall, Open, Accepted, ReqEnds, Complete
  <2> QED BY <1>1, <2>1, <2>2 DEF LinkShape
<1>5. PayloadInv(t)
  BY <1>4 DEF AtCore
<1>6. Reports(t) /\ Waiting(t) /\ CarriedOut(t)
  <2>1. Reports(t)
    BY <1>1, <1>2, <1>3, <1>4 DEF Reports, About
  <2> HIDE DEF Asks, Waiting, Asked, Port, Known, Reports, Responds, CarriedOut
  <2> QED BY <1>5, <2>1 DEF PayloadInv, InTransit
<1>7. /\ \A q \in Peq : t \notin Queued(q)
  <2> HIDE DEF Reports, Queued, Peq, PayloadInv
  <2> QED BY <1>4, <1>5, <1>6, QueueFacts
<1>8. /\ Held(t) = 1 /\ gp[t].rc # 0 /\ gp[t].cmd \in {"read", "write"} /\ gp[t].addr \in Addresses
  <2> HIDE DEF AtCore, PayloadInv, Held, Asked, CarriedOut, InHand, Ending, Returning, Closing, Waiting
  <2> QED BY <1>4, <1>6, WaitingHand
<1>9. ~Sending(t) /\ ~Telling(t)
  <2>1. \A n \in Initiator : ini[n].pc # "sent"
    <3>1. \A n \in Initiator : simc.cur # Ini(n)
      BY <1>2 DEF RequestThread, Ini
    <3> HIDE DEF AtCore, NoCall
    <3> QED BY <1>3, <3>1, Callers
  <2> QED BY <1>2, <1>4, <2>1, OwnerFacts DEF Sending, Telling, Responds
<1>10. PICK f \in PendingShape, x \in BusThreadShape : f = bus.pending[t] /\ x = bus.req
  <2> HIDE DEF PendingShape, BusOK, BusThreadShape
  <2> QED BY <1>0, <1>4, BusParts
<1> DEFINE e == [f EXCEPT !.to = -1]
           y == [x EXCEPT !.pc = "next"]
<1>11. e \in PendingShape /\ e.known = f.known /\ e.from = f.from
  <2> HIDE DEF Target
  <2> QED BY Zenon DEF PendingShape
<1>12. y \in BusThreadShape /\ y.pc = "next" /\ (y.pc \in Busy => y.txn \in Txn)
  <2>1. y \in BusThreadShape /\ y.pc = "next"
    BY Zenon DEF BusThreadShape
  <2> HIDE DEF y
  <2> QED BY <2>1 DEF Busy
<1>13. bus' = [pending |-> [bus.pending EXCEPT ![t] = e], req |-> y, rsp |-> bus.rsp]
  <2>1. PICK p, z : p = bus.pending /\ z = bus.rsp
    OBVIOUS
  <2>2. bus = [pending |-> p, req |-> x, rsp |-> z]
    BY <1>0, <1>10, <2>1, BusParts
  <2>3. bus' = [pending |-> [p EXCEPT ![t].to = -1], req |-> y, rsp |-> z]
    BY <1>2, <2>2
  <2>4. [p EXCEPT ![t].to = -1] = [p EXCEPT ![t] = e]
    BY <1>10, <2>1
  <2> QED BY <2>1, <2>3, <2>4
<1> HIDE DEF e, y
<1>14. /\ BusOK' /\ bus'.req = y /\ bus'.rsp = bus.rsp /\ bus'.pending[t] = e
       /\ \A u \in Txn : u # t => bus'.pending[u] = bus.pending[u]
  <2>1. PICK z \in BusThreadShape : z = bus.rsp /\ (z.pc \in Busy => z.txn \in Txn)
    <3> HIDE DEF BusOK, BusThreadShape, PendingShape
    <3> QED BY <1>0, BusParts
  <2> HIDE DEF BusOK, BusThreadShape, PendingShape, Busy
  <2> QED BY <1>0, <1>4, <1>11, <1>12, <1>13, <2>1, BusMoved
<1>15. PICK q \in Peq : q = responsePEQ
  BY <1>3, AtNames
<1>16. /\ PeqOK' /\ \A p \in Peq : Once(peq'[p])
       /\ \A p \in Peq : \A u : (u \in Queued(p))' <=> u \in Queued(p) \/ (p = q /\ u = t)
  <2>1. t \notin Queued(q) /\ peq' = [peq EXCEPT ![q] = PeqInsert(@, t, d)]
    BY <1>2, <1>7, <1>15
  <2> HIDE DEF PeqOK, Once, Queued, Peq, PeqInsert, LongestDelay
  <2> QED BY <1>0, <1>4, <2>1, PeqPut, Zenon
<1>17. KernelInv(LongestDelay, simc')
  <2>1. responsePEQ \in Event /\ RequestThread \in Thread
    BY <1>2, <1>3, AtNames
  <2>2. PICK k : k = Notify(simc, responsePEQ, d)
    OBVIOUS
  <2> HIDE DEF KernelInv, Event, Thread
  <2>3. KernelInv(LongestDelay, k)
    BY <1>0, <1>4, <2>1, <2>2, AtKernel
  <2> QED BY <1>2, <1>4, <2>1, <2>2, <2>3, AtKernel
<1>18. Calls'
  <2>1. ~Calling(RequestThread)' /\ \A p \in Process : p # RequestThread => (Calling(p)' <=> Calling(p))
    <3>1. bus'.req.pc \notin {"sent", "told"}
      BY <1>12, <1>14
    <3> HIDE DEF Calling, Process
    <3> QED BY <1>14, <3>1, CallingNames, OnlyBus
  <2> HIDE DEF Calls, Calling, Process, NoCall
  <2> QED BY <1>0, <1>2, <1>3, <2>1, CallsReturned
<1>19. Types'
  <2>1. IniOK' /\ TgtOK' /\ Shapes' /\ GpOK'
    <3> HIDE DEF Types, GpOK, IniOK, BusOK, TgtOK, PeqOK, Shapes
    <3> QED BY <1>0, <1>2, TypesKept
  <2> QED BY <1>0, <1>2, <1>14, <1>16, <1>17, <2>1 DEF Types
<1>20. \A tx \in Txn : /\ Responding(tx)' <=> Responding(tx)
                       /\ bus'.pending[tx].known = bus.pending[tx].known
                       /\ bus'.pending[tx].from = bus.pending[tx].from
                       /\ gp'[tx] = gp[tx]
  BY <1>2, <1>10, <1>11, <1>14 DEF Responding
<1>21. Held(t)' = 1 /\ CarriedOut(t)' /\ gp'[t].rc # 0 /\ gp'[t].cmd = gp[t].cmd /\ gp'[t].addr = gp[t].addr
  <2>1. BusHolds(t)' = BusHolds(t)
    BY <1>4, <1>20 DEF BusHolds, Known
  <2> QED BY <1>4, <1>6, <1>8, <1>20, <2>1 DEF Held, CarriedOut
<1>22. ~Asks(t)' /\ ~Reports(t)' /\ ~Responds(t)' /\ ~EndsReq(t)' /\ ~Telling(t)'
  <2> HIDE DEF Asks, Responds, EndsReq, Telling, Reports, NoCall
  <2> QED BY <1>2, CallOver
<1>23. Tracking(t)'
  <2>1. Tracking(t)
    BY <1>5 DEF PayloadInv
  <2> HIDE DEF Tracking, Sending, Telling, Responding
  <2> QED BY <1>4, <1>9, <1>20, <1>22, <2>1, TrackingStays
<1>24. q[1] # "send_end_rsp_PEQ" /\ Fits(q, t)'
  <2>1. q[1] = "responsePEQ" /\ requestPEQ[1] = "requestPEQ"
    BY <1>15 DEF requestPEQ, responsePEQ
  <2>2. Waiting(t)'
    <3>1. (Sending(t)' <=> Sending(t)) /\ (Heard(t)' <=> Heard(t))
      <4> HIDE DEF Sending, Heard
      <4> QED BY <1>4, InitiatorSame
    <3> HIDE DEF Sending, Heard
    <3> QED BY <1>6, <3>1 DEF Waiting
  <2> HIDE DEF Waiting, Where, Asked, CarriedOut, Port
  <2> QED BY <1>15, <1>21, <2>1, <2>2 DEF Fits
<1>25. /\ \A p \in Peq : (t \in Queued(p))' => p = q
       /\ \A tx \in Txn : tx # t => \A p \in Peq : (tx \in Queued(p))' <=> tx \in Queued(p)
  <2> HIDE DEF Queued, Peq
  <2> QED BY <1>7, <1>16
<1> HIDE DEF AtCore, Types, Calls, Waiting, Reports, CarriedOut, Asked, Held, Sending, Asks, Responds, EndsReq, Tracking,
             Telling, NoCall, Responding, Queued, Peq, Fits, Once, Known, GpOK, BusOK, PeqOK, KernelInv
<1> QED BY <1>1, <1>2, <1>4, <1>6, <1>16, <1>18, <1>19, <1>20, <1>21, <1>22, <1>23, <1>24, <1>25, WaitsOn

\* The threads of the bus while they are in no call.
LEMMA BusFree ==
  ASSUME AtCore, \/ simc.cur = RequestThread /\ bus.req.pc \notin {"sent", "told"}
                 \/ simc.cur = ResponseThread /\ bus.rsp.pc \notin {"sent", "told"}
  PROVE  /\ link = NoCall /\ simc.cur # Nobody /\ Wiring = "bus" /\ simc.cur \in Process
         /\ \A tx \in Txn : ~Sending(tx) /\ ~Closing(tx) /\ ~Telling(tx) /\ ~About(tx)
         /\ \A tx : ~Asks(tx) /\ ~Reports(tx) /\ ~Responds(tx) /\ ~EndsReq(tx)
         /\ \A n \in Initiator : ini[n].pc # "sent" /\ ini[n].mpc # "sent"
<1>1. simc.cur # Nobody
  BY DEF RequestThread, ResponseThread, Nobody
<1>2. Wiring = "bus" /\ simc.cur \in Process
  <2> HIDE DEF AtCore, Process
  <2> QED BY <1>1, Runs
<1>3. link = NoCall /\ \A p \in Process : ~Calling(p)
  <2>1. ~Calling(simc.cur)
    <3> HIDE DEF AtCore, Calling
    <3> QED BY Idle
  <2>2. Calls
    BY DEF AtCore
  <2> HIDE DEF Calls, Calling, Process, NoCall, AtCore
  <2> QED BY <2>1, <2>2, NotCalling
<1>4. \A tx \in Txn : ~Sending(tx) /\ ~Closing(tx)
  <2> HIDE DEF Sending, Closing, Calling, Process
  <2> QED BY <1>3, NobodyCalls
<1>5. \A tx : ~Telling(tx) /\ ~About(tx) /\ ~Asks(tx) /\ ~Reports(tx) /\ ~Responds(tx) /\ ~EndsReq(tx)
  <2> HIDE DEF Telling, About, Asks, Reports, Responds, EndsReq, NoCall
  <2> QED BY <1>3, CallOver
<1>6. \A n \in Initiator : ini[n].pc # "sent" /\ ini[n].mpc # "sent"
  <2> HIDE DEF Calling, Process
  <2> QED BY <1>3, CallingNames, AtNames
<1> HIDE DEF Telling, About, Sending, Closing, NoCall, Asks, Reports, Responds, EndsReq
<1> QED BY <1>1, <1>2, <1>3, <1>4, <1>5, <1>6

\* The bus passes END_REQ on, unless the response has begun.
LEMMA PassEndReqCore ==
  ASSUME AtCore, UNCHANGED <<tg, ini, tgt>>, PassEndReq
  PROVE  AtCore'
<1>0. /\ Types /\ Calls /\ BusOK /\ KernelInv(LongestDelay, simc) /\ fatal \in BOOLEAN
  BY DEF AtCore, Types
<1>1. PICK t : t = bus.req.txn
  OBVIOUS
<1>2. /\ simc.cur = RequestThread /\ bus.req.pc = "ended" /\ fatal' = ~Known(t)
      /\ IF bus.pending[t].from # 0
           THEN link' = Call(ToInitiator(bus.pending[t].from), t, "END_REQ") /\ bus' = [bus EXCEPT !.req.pc = "told"]
           ELSE link' = link /\ bus' = [bus EXCEPT !.req.pc = "next"]
      /\ UNCHANGED <<simc, peq, fifo, gp, pool>>
  BY <1>1 DEF PassEndReq, Executing
<1>3. /\ link = NoCall /\ simc.cur # Nobody /\ Wiring = "bus" /\ simc.cur \in Process
      /\ \A tx \in Txn : ~Sending(tx) /\ ~Closing(tx) /\ ~Telling(tx) /\ ~About(tx)
      /\ \A n \in Initiator : ini[n].pc # "sent" /\ ini[n].mpc # "sent"
  <2>1. bus.req.pc \notin {"sent", "told"}
    BY <1>2
  <2> HIDE DEF AtCore, NoCall, Process, Sending, Closing, Telling, About, Asks, Reports, Responds, EndsReq
  <2> QED BY <1>2, <2>1, BusFree
<1>4. t \in Txn /\ PayloadInv(t)
  <2>1. t \in Txn
    BY <1>0, <1>1, <1>2 DEF BusOK, Busy
  <2> QED BY <2>1 DEF AtCore
<1>5. PICK x \in {"next", "told"} : bus' = [bus EXCEPT !.req.pc = x] /\ (x = "told" <=> bus.pending[t].from # 0)
  BY <1>2
<1>6. BusOK' /\ bus'.req.pc = x /\ bus'.req.txn = t /\ bus'.rsp = bus.rsp /\ bus'.pending = bus.pending
  <2>1. x \in {"start", "next"} \union Busy /\ bus.req.pc \in Busy
    BY <1>2 DEF Busy
  <2> HIDE DEF BusOK, Busy
  <2> QED BY <1>0, <1>1, <1>5, <2>1, BusThreadMoves
<1>7. fatal' \in BOOLEAN
  BY <1>2
<1>8. Types'
  <2>1. IniOK' /\ TgtOK' /\ Shapes' /\ GpOK' /\ PeqOK'
    <3> HIDE DEF Types, GpOK, IniOK, BusOK, TgtOK, PeqOK, Shapes
    <3> QED BY <1>0, <1>2, TypesKept
  <2> QED BY <1>0, <1>2, <1>6, <1>7, <2>1 DEF Types
<1>9. \A tx \in Txn : /\ Returning(tx)' <=> Returning(tx)
                      /\ ini'[Owner(tx)].map[tx] = ini[Owner(tx)].map[tx]
                      /\ bus'.pending[tx].known = bus.pending[tx].known
                      /\ bus'.pending[tx].from = bus.pending[tx].from
                      /\ Responding(tx)' <=> Responding(tx)
                      /\ Sending(tx)' <=> Sending(tx)
                      /\ ~Closing(tx)'
  <2>1. \A tx \in Txn : /\ Returning(tx)' <=> Returning(tx)
                        /\ ini'[Owner(tx)].map[tx] = ini[Owner(tx)].map[tx]
                        /\ Sending(tx)' <=> Sending(tx)
    <3> HIDE DEF Returning, Sending, Heard
    <3> QED BY InitiatorSame
  <2>2. \A tx \in Txn : ~Closing(tx)'
    BY <1>3, OwnerFacts DEF Closing
  <2>3. \A tx \in Txn : Responding(tx)' <=> Responding(tx)
    BY <1>6 DEF Responding
  <2> HIDE DEF Returning, Sending, Closing, Responding
  <2> QED BY <1>6, <2>1, <2>2, <2>3
<1>10. /\ Calls' /\ (link' = NoCall \/ link'.txn = t)
       /\ ~Asks(t)' /\ ~Reports(t)' /\ ~Responds(t)' /\ ~Telling(t)' /\ (EndsReq(t)' => Waiting(t))
  <2>1. CASE bus.pending[t].from # 0
    <3>1. bus.pending[t].from = Owner(t) /\ Waiting(t) /\ Known(t)
      <4>1. Tracked(t)
        BY <2>1 DEF Tracked
      <4> HIDE DEF Tracked, Known, Heard, Sending, About, Telling, Responding
      <4> QED BY <1>3, <1>4, <4>1 DEF PayloadInv, Tracking, Waiting
    <3>2. PICK c : c = ToInitiator(Owner(t))
      OBVIOUS
    <3>3. PICK phase \in Phases : phase = "END_REQ"
      BY DEF Phases
    <3>4. link' = Call(c, t, phase) /\ t \in Txn /\ c \in {ToTarget(m) : m \in Target} \union {ToInitiator(n) : n \in Initiator}
      BY <1>2, <1>4, <2>1, <3>1, <3>2, <3>3, OwnerFacts
    <3>5. /\ link' # NoCall /\ link'.txn = t /\ link'.status = "called" /\ link'.phase = phase
          /\ link'.callee = c /\ link'.delay = 0 /\ ~Reports(t)'
          /\ Asks(t)' <=> phase = "BEGIN_REQ"
          /\ Responds(t)' <=> phase = "BEGIN_RESP"
          /\ EndsReq(t)' <=> phase = "END_REQ"
          /\ Telling(t)' <=> phase = "BEGIN_RESP" /\ c = ToInitiator(Owner(t))
          /\ c \in {ToTarget(m) : m \in Target} \union {ToInitiator(n) : n \in Initiator} => link' \in LinkShape
      <4> HIDE DEF About, Reports, Asks, Responds, EndsReq, Telling, NoCall, ToInitiator, Call, LinkShape, Phases
      <4> QED BY ONLY <3>3, <3>4, BusCallMade
    <3>6. Calls'
      <4>1. EndReqCall' /\ bus'.req.pc \in {"sent", "told"}
        BY <1>5, <1>6, <2>1, <3>2, <3>3, <3>5 DEF EndReqCall, Open
      <4>2. UNCHANGED <<ini, tgt>> /\ simc'.cur = simc.cur
        BY <1>2
      <4> HIDE DEF Calls, AtCore, NoCall, ForwardCall, EndReqCall, LinkShape
      <4> QED BY <1>2, <1>3, <1>6, <3>4, <3>5, <4>1, <4>2, BusCalling
    <3> HIDE DEF Calls, Asks, Reports, Responds, EndsReq, Telling, Waiting, NoCall
    <3> QED BY <3>1, <3>3, <3>5, <3>6
  <2>2. CASE bus.pending[t].from = 0
    <3>1. link' = NoCall
      BY <1>2, <1>3, <2>2
    <3>2. \A p \in Process : Calling(p)' => Calling(p)
      <4>1. ~Calling(RequestThread)' /\ \A p \in Process : p # RequestThread => (Calling(p)' <=> Calling(p))
        <5>1. bus'.req.pc \notin {"sent", "told"}
          BY <1>5, <1>6, <2>2
        <5> HIDE DEF Calling, Process
        <5> QED BY <1>6, <5>1, CallingNames, OnlyBus
      <4> HIDE DEF Calling, Process
      <4> QED BY <4>1
    <3>3. Calls'
      <4> HIDE DEF Calls, Calling, Process, NoCall
      <4> QED BY <1>0, <1>3, <3>1, <3>2, CallsQuiet
    <3> HIDE DEF Calls, Asks, Reports, Responds, EndsReq, Telling, Waiting, NoCall
    <3> QED BY <3>1, <3>3, CallOver
  <2> HIDE DEF Calls, Asks, Reports, Responds, EndsReq, Telling, Waiting, NoCall
  <2> QED BY <2>1, <2>2
<1> HIDE DEF AtCore, Types, Calls, Waiting, Reports, Sending, Closing, Returning, Asks, Responds, EndsReq, Telling, NoCall, Responding
<1> QED BY <1>2, <1>3, <1>4, <1>8, <1>9, <1>10, LinkMoves

\* The bus sends a response on.
LEMMA SendToInitiatorCore ==
  ASSUME AtCore, UNCHANGED <<tg, ini, tgt>>, SendToInitiator
  PROVE  AtCore'
<1>0. /\ Types /\ Calls /\ BusOK /\ PeqOK /\ KernelInv(LongestDelay, simc) /\ fatal \in BOOLEAN
      /\ \A p \in Peq : Once(peq[p])
  BY DEF AtCore, Types
<1>1. PICK t : t = Head(peq[responsePEQ]).txn
  OBVIOUS
<1>3. /\ simc.cur = ResponseThread /\ bus.rsp.pc = "next" /\ PeqDue(responsePEQ) /\ peq' = PeqPop(responsePEQ)
      /\ fatal' = (~Known(t) \/ bus.pending[t].from = 0)
      /\ bus' = [bus EXCEPT !.rsp = [pc |-> "sent", txn |-> t], !.pending[t].from = 0]
      /\ link' = Call(ToInitiator(bus.pending[t].from), t, "BEGIN_RESP") /\ UNCHANGED <<simc, fifo, gp, pool>>
  BY <1>1 DEF SendToInitiator, Executing, Answering
<1>4. link = NoCall /\ simc.cur # Nobody /\ Wiring = "bus"
  <2>1. bus.rsp.pc \notin {"sent", "told"}
    BY <1>3
  <2> HIDE DEF AtCore, NoCall, Process, Sending, Closing, Telling, About, Asks, Reports, Responds, EndsReq
  <2> QED BY <1>3, <2>1, BusFree
<1>6. PICK q \in Peq : q = responsePEQ
  BY <1>4, AtNames
<1>7. q[1] # "send_end_rsp_PEQ" /\ q = responsePEQ
  BY <1>6 DEF responsePEQ
<1>8. /\ t \in Txn /\ t \in Queued(q) /\ PayloadInv(t) /\ Fits(q, t)
      /\ \A r \in Peq : t \in Queued(r) <=> r = q
      /\ Waiting(t) /\ Heard(t) /\ ~Sending(t) /\ Held(t) = 1 /\ gp[t].rc # 0
      /\ gp[t].cmd \in {"read", "write"} /\ gp[t].addr \in Addresses
      /\ Known(t) /\ bus.pending[t].from = Owner(t) /\ Tracked(t)
  <2> HIDE DEF AtCore, NoCall, Peq, PeqDue, Queued, PayloadInv, Fits, Waiting, Heard, Sending, Held, Telling, Closing, Responding,
               Asked, CarriedOut, Known, Tracked
  <2>1. link = NoCall /\ PeqDue(q) /\ t = Head(peq[q]).txn /\ q \in Peq /\ q[1] # "send_end_rsp_PEQ"
    BY <1>1, <1>3, <1>4, <1>6, <1>7
  <2>2. /\ t \in Txn /\ t \in Queued(q) /\ PayloadInv(t) /\ Fits(q, t)
        /\ \A r \in Peq : t \in Queued(r) <=> r = q
        /\ Waiting(t) /\ Heard(t) /\ ~Sending(t) /\ ~Closing(t) /\ Held(t) = 1 /\ gp[t].rc # 0
        /\ gp[t].cmd \in {"read", "write"} /\ gp[t].addr \in Addresses
        /\ ~Telling(t) /\ ~Responding(t) /\ (Asked(t) \/ CarriedOut(t))
        /\ Wiring = "bus" => Known(t) /\ bus.pending[t].from = Owner(t) /\ Tracked(t)
    BY ONLY AtCore, <2>1, HeadFacts
  <2> QED BY <1>4, <2>2, Zenon
<1>9. CarriedOut(t)
  <2> HIDE DEF CarriedOut
  <2> QED BY <1>7, <1>8 DEF Fits
<1>11. /\ PeqOK' /\ \A r \in Peq : Once(peq'[r])
       /\ \A r \in Peq : \A u : (u \in Queued(r))' <=> u \in Queued(r) /\ ~(r = q /\ u = t)
  <2>1. PeqDue(q) /\ t = Head(peq[q]).txn /\ peq' = PeqPop(q)
    BY <1>1, <1>3, <1>7
  <2> HIDE DEF PeqOK, Once, Queued, Peq, PeqPop, PeqDue
  <2> QED BY <1>0, <2>1, PeqTaken
<1>16. PICK f \in PendingShape : f = bus.pending[t]
  <2> HIDE DEF PendingShape, BusOK
  <2> QED BY <1>0, <1>8, BusParts
<1> DEFINE e == [f EXCEPT !.from = 0]
           x == [pc |-> "sent", txn |-> t]
<1>17. e \in PendingShape /\ e.known = f.known /\ e.from = 0
  <2>1. 0 \in 0..NI
    BY AtNumbers
  <2> HIDE DEF Target
  <2> QED BY <2>1, Zenon DEF PendingShape
<1>18. x \in BusThreadShape /\ x.pc = "sent" /\ x.pc \in Busy /\ x.txn = t /\ (x.pc \in Busy => x.txn \in Txn)
  BY <1>8 DEF BusThreadShape, Busy
<1>19. bus' = [pending |-> [bus.pending EXCEPT ![t] = e], req |-> bus.req, rsp |-> x]
  <2>1. PICK p, y, z : p = bus.pending /\ y = bus.req /\ z = bus.rsp
    OBVIOUS
  <2>2. bus = [pending |-> p, req |-> y, rsp |-> z]
    BY <1>0, <2>1, BusParts
  <2>3. PICK x2 : x2 = x
    OBVIOUS
  <2>4. bus' = [bus EXCEPT !.rsp = x2, !.pending[t].from = 0]
    BY <1>3, <2>3
  <2> HIDE DEF x
  <2>5. bus' = [pending |-> [p EXCEPT ![t].from = 0], req |-> y, rsp |-> x2]
    BY <2>2, <2>4
  <2>6. [p EXCEPT ![t].from = 0] = [p EXCEPT ![t] = e]
    BY <1>16, <2>1
  <2> QED BY <2>1, <2>3, <2>5, <2>6
<1> HIDE DEF e, x
<1>20. /\ BusOK' /\ bus'.req = bus.req /\ bus'.rsp = x /\ bus'.pending[t] = e
       /\ \A u \in Txn : u # t => bus'.pending[u] = bus.pending[u]
  <2>1. PICK y \in BusThreadShape : y = bus.req /\ (y.pc \in Busy => y.txn \in Txn)
    <3> HIDE DEF BusOK, BusThreadShape, PendingShape
    <3> QED BY <1>0, BusParts
  <2> HIDE DEF BusOK, BusThreadShape, PendingShape, Busy
  <2> QED BY <1>0, <1>8, <1>17, <1>18, <1>19, <2>1, BusMoved
<1>21. /\ link' # NoCall /\ link'.txn = t /\ link'.status = "called" /\ link'.phase = "BEGIN_RESP"
       /\ link'.callee = ToInitiator(Owner(t)) /\ link'.delay = 0 /\ ~Reports(t)' /\ ~Asks(t)' /\ Telling(t)' /\ link' \in LinkShape
  <2>0. PICK phase \in Phases : phase = "BEGIN_RESP"
    BY DEF Phases
  <2>1. PICK c : c = ToInitiator(Owner(t)) /\ phase = "BEGIN_RESP"
    BY <2>0
  <2>2. link' = Call(c, t, phase) /\ c \in {ToTarget(m) : m \in Target} \union {ToInitiator(n) : n \in Initiator} /\ t \in Txn
    BY <1>3, <1>8, <2>1, OwnerFacts
  <2> HIDE DEF About, Reports, Asks, Responds, EndsReq, Telling, NoCall, ToInitiator, Call, LinkShape, Phases
  <2>4. /\ link' # NoCall /\ link'.txn = t /\ link'.status = "called" /\ link'.phase = phase
        /\ link'.callee = c /\ link'.delay = 0 /\ ~Reports(t)'
        /\ Asks(t)' <=> phase = "BEGIN_REQ"
        /\ Responds(t)' <=> phase = "BEGIN_RESP"
        /\ EndsReq(t)' <=> phase = "END_REQ"
        /\ Telling(t)' <=> phase = "BEGIN_RESP" /\ c = ToInitiator(Owner(t))
        /\ c \in {ToTarget(m) : m \in Target} \union {ToInitiator(n) : n \in Initiator} => link' \in LinkShape
    BY ONLY <2>1, <2>2, BusCallMade
  <2>5. ~Asks(t)'
    BY <2>0, <2>4
  <2> QED BY <2>0, <2>1, <2>2, <2>4, <2>5
<1>22. Calls'
  <2>1. ReplyCall' /\ bus'.rsp.pc \in {"sent", "told"}
    BY <1>18, <1>20, <1>21 DEF ReplyCall, Open
  <2>2. UNCHANGED <<ini, tgt>> /\ simc'.cur = simc.cur
    BY <1>3
  <2> HIDE DEF Calls, AtCore, NoCall, ReplyCall, EndRspCall, LinkShape
  <2> QED BY <1>3, <1>4, <1>20, <1>21, <2>1, <2>2, BusCalling
<1>23. Types'
  <2>1. IniOK' /\ TgtOK' /\ Shapes' /\ GpOK'
    <3> HIDE DEF Types, GpOK, IniOK, BusOK, TgtOK, PeqOK, Shapes
    <3> QED BY <1>0, <1>3, TypesKept
  <2>2. fatal' \in BOOLEAN
    <3> HIDE DEF Known
    <3> QED BY <1>3, <1>8
  <2> QED BY <1>0, <1>3, <1>11, <1>20, <2>1, <2>2 DEF Types
<1>24. \A tx \in Txn : tx # t => /\ Responding(tx)' <=> Responding(tx)
                                 /\ bus'.pending[tx].known = bus.pending[tx].known
                                 /\ bus'.pending[tx].from = bus.pending[tx].from
  BY <1>3, <1>18, <1>20 DEF Responding, Busy
<1>25. Held(t)' = 1 /\ CarriedOut(t)' /\ gp' = gp
  <2>1. BusHolds(t)' = BusHolds(t)
    BY <1>8, <1>16, <1>17, <1>20 DEF BusHolds, Known
  <2> QED BY <1>3, <1>8, <1>9, <2>1 DEF Held, CarriedOut
<1>26. Tracking(t)'
  <2>1. Tracking(t)
    BY <1>8 DEF PayloadInv
  <2>2. Known(t)' /\ ~Tracked(t)' /\ Responding(t)'
    BY <1>8, <1>16, <1>17, <1>18, <1>20 DEF Known, Tracked, Responding
  <2>3. ~Sending(t)' /\ ini'[Owner(t)].map[t] = ini[Owner(t)].map[t]
    <3> HIDE DEF Sending, Heard
    <3> QED BY <1>8, InitiatorSame
  <2> HIDE DEF Known, Tracked, Responding, Sending, Heard, Telling, About
  <2> QED BY <1>4, <1>21, <2>1, <2>2, <2>3 DEF Tracking
<1>27. /\ \A r \in Peq : ~(t \in Queued(r))'
       /\ \A tx \in Txn : tx # t => \A r \in Peq : (tx \in Queued(r))' <=> tx \in Queued(r)
  <2> HIDE DEF Queued, Peq
  <2> QED BY <1>8, <1>11
<1> HIDE DEF AtCore, Types, Calls, Waiting, Reports, CarriedOut, Asked, Held, Sending, Asks, Responds, EndsReq, Tracking,
             Telling, NoCall, Responding, Queued, Peq, Fits, Once, Known, GpOK, BusOK, PeqOK, KernelInv, LinkShape
<1> QED BY <1>3, <1>4, <1>7, <1>8, <1>11, <1>21, <1>22, <1>23, <1>24, <1>25, <1>26, <1>27, WaitsOn

\* The bus ends a response at its target.
LEMMA PassEndRespCore ==
  ASSUME AtCore, UNCHANGED <<tg, ini, tgt>>, PassEndResp
  PROVE  AtCore'
<1>0. /\ Types /\ Calls /\ BusOK /\ KernelInv(LongestDelay, simc) /\ fatal \in BOOLEAN
  BY DEF AtCore, Types
<1>1. PICK t : t = bus.rsp.txn
  OBVIOUS
<1>2. /\ simc.cur = ResponseThread /\ bus.rsp.pc = "ended" /\ fatal' = fatal /\ bus.pending[t].to # -1
      /\ link' = Call(ToTarget(bus.pending[t].to), t, "END_RESP") /\ bus' = [bus EXCEPT !.rsp.pc = "told"]
      /\ UNCHANGED <<simc, peq, fifo, gp, pool>>
  BY <1>1 DEF PassEndResp, Executing
<1>3. /\ link = NoCall /\ simc.cur # Nobody /\ Wiring = "bus" /\ simc.cur \in Process
      /\ \A tx \in Txn : ~Sending(tx) /\ ~Closing(tx) /\ ~Telling(tx) /\ ~About(tx)
      /\ \A n \in Initiator : ini[n].pc # "sent" /\ ini[n].mpc # "sent"
  <2>1. bus.rsp.pc \notin {"sent", "told"}
    BY <1>2
  <2> HIDE DEF AtCore, NoCall, Process, Sending, Closing, Telling, About, Asks, Reports, Responds, EndsReq
  <2> QED BY <1>2, <2>1, BusFree
<1>4. t \in Txn /\ bus.pending[t].to \in Target
  <2>1. t \in Txn
    BY <1>0, <1>1, <1>2 DEF BusOK, Busy
  <2>2. PICK f \in PendingShape : f = bus.pending[t]
    <3> HIDE DEF PendingShape, BusOK
    <3> QED BY <1>0, <2>1, BusParts
  <2>3. f.to \in {-1} \union Target
    BY DEF PendingShape
  <2> HIDE DEF Target
  <2> QED BY <1>2, <2>1, <2>2, <2>3
<1>6. BusOK' /\ bus'.rsp.pc = "told" /\ bus'.rsp.txn = t /\ bus'.req = bus.req /\ bus'.pending = bus.pending
  <2>1. PICK x \in {"start", "next"} \union Busy : x = "told"
    BY DEF Busy
  <2>2. bus.rsp.pc \in Busy /\ bus' = [bus EXCEPT !.rsp.pc = x]
    BY <1>2, <2>1 DEF Busy
  <2> HIDE DEF BusOK, Busy
  <2> QED BY <1>0, <1>1, <2>1, <2>2, BusThreadMoves
<1>8. Types'
  <2>1. IniOK' /\ TgtOK' /\ Shapes' /\ GpOK' /\ PeqOK'
    <3> HIDE DEF Types, GpOK, IniOK, BusOK, TgtOK, PeqOK, Shapes
    <3> QED BY <1>0, <1>2, TypesKept
  <2> QED BY <1>0, <1>2, <1>6, <2>1 DEF Types
<1>9. \A tx \in Txn : /\ Returning(tx)' <=> Returning(tx)
                      /\ ini'[Owner(tx)].map[tx] = ini[Owner(tx)].map[tx]
                      /\ bus'.pending[tx].known = bus.pending[tx].known
                      /\ bus'.pending[tx].from = bus.pending[tx].from
                      /\ Responding(tx)' <=> Responding(tx)
                      /\ Sending(tx)' <=> Sending(tx)
                      /\ ~Closing(tx)'
  <2>1. \A tx \in Txn : /\ Returning(tx)' <=> Returning(tx)
                        /\ ini'[Owner(tx)].map[tx] = ini[Owner(tx)].map[tx]
                        /\ Sending(tx)' <=> Sending(tx)
    <3> HIDE DEF Returning, Sending, Heard
    <3> QED BY InitiatorSame
  <2>2. \A tx \in Txn : ~Closing(tx)'
    BY <1>3, OwnerFacts DEF Closing
  <2>3. \A tx \in Txn : Responding(tx)' <=> Responding(tx)
    BY <1>1, <1>2, <1>6 DEF Responding, Busy
  <2> HIDE DEF Returning, Sending, Closing, Responding
  <2> QED BY <1>6, <2>1, <2>2, <2>3
<1>10. PICK c : c = ToTarget(bus.pending[t].to)
  OBVIOUS
<1>11. PICK phase \in Phases : phase = "END_RESP"
  BY DEF Phases
<1>12. link' = Call(c, t, phase) /\ t \in Txn /\ c \in {ToTarget(m) : m \in Target} \union {ToInitiator(n) : n \in Initiator}
  BY <1>2, <1>4, <1>10, <1>11
<1>13. /\ link' # NoCall /\ link'.txn = t /\ link'.status = "called" /\ link'.phase = phase
       /\ link'.callee = c /\ link'.delay = 0 /\ ~Reports(t)'
       /\ Asks(t)' <=> phase = "BEGIN_REQ"
       /\ Responds(t)' <=> phase = "BEGIN_RESP"
       /\ EndsReq(t)' <=> phase = "END_REQ"
       /\ Telling(t)' <=> phase = "BEGIN_RESP" /\ c = ToInitiator(Owner(t))
       /\ c \in {ToTarget(m) : m \in Target} \union {ToInitiator(n) : n \in Initiator} => link' \in LinkShape
  <2> HIDE DEF About, Reports, Asks, Responds, EndsReq, Telling, NoCall, ToInitiator, Call, LinkShape, Phases
  <2> QED BY ONLY <1>11, <1>12, BusCallMade
<1>14. Calls'
  <2>1. EndRspCall' /\ bus'.rsp.pc \in {"sent", "told"}
    BY <1>6, <1>10, <1>11, <1>13 DEF EndRspCall, Open, ToTarget
  <2>2. UNCHANGED <<ini, tgt>> /\ simc'.cur = simc.cur
    BY <1>2
  <2> HIDE DEF Calls, AtCore, NoCall, ReplyCall, EndRspCall, LinkShape
  <2> QED BY <1>2, <1>3, <1>6, <1>12, <1>13, <2>1, <2>2, BusCalling
<1>15. ~Asks(t)' /\ ~Reports(t)' /\ ~Responds(t)' /\ ~Telling(t)' /\ ~EndsReq(t)'
  <2> HIDE DEF Asks, Reports, Responds, EndsReq, Telling, NoCall, LinkShape, ToInitiator, ToTarget
  <2> QED BY <1>11, <1>13
<1> HIDE DEF AtCore, Types, Calls, Waiting, Reports, Sending, Closing, Returning, Asks, Responds, EndsReq, Telling, NoCall, Responding
<1> QED BY <1>2, <1>3, <1>4, <1>8, <1>9, <1>13, <1>14, <1>15, LinkMoves

\* A payload nobody holds joins its pool.
LEMMA PoolGrows ==
  ASSUME Shapes, NEW n \in Initiator, NEW away, NEW held, Accounted(n, away, held), NEW t \in Payloads(n), t \notin held,
         t \notin Range(pool[n]), UNCHANGED <<tg, fifo>>, pool' = [pool EXCEPT ![n] = Append(@, t)]
  PROVE  /\ Accounted(n, away, held)' /\ Shapes' /\ Range(pool'[n]) = Range(pool[n]) \union {t}
         /\ \A m \in Initiator : m # n => pool'[m] = pool[m]
<1>1. pool \in [Initiator -> Seq(Txn)] /\ pool[n] \in Line(Payloads(n)) /\ t \in Txn
  BY OwnerFacts DEF Shapes, Accounted
<1>2. /\ Append(pool[n], t) \in Line(Payloads(n))
      /\ Range(Append(pool[n], t)) = Range(pool[n]) \union {t}
  BY <1>1, AppendToLine
<1>3. pool'[n] = Append(pool[n], t) /\ pool' \in [Initiator -> Seq(Txn)] /\ \A m \in Initiator : m # n => pool'[m] = pool[m]
  BY <1>1
<1>4. /\ Putting(n)' = Putting(n) /\ Requested(n)' = Requested(n) /\ Responded(n)' = Responded(n)
      /\ TgPlace(n)' <=> TgPlace(n)
  BY DEF Putting, Requested, Responded, TgPlace
<1>5. held \intersect Range(pool'[n]) = {} /\ pool'[n] \in Line(Payloads(n))
  <2>1. held \intersect Range(pool[n]) = {}
    BY DEF Accounted
  <2> QED BY <1>2, <1>3, <2>1
<1>6. Accounted(n, away, held)'
  <2> HIDE DEF Putting, Requested, Responded, TgPlace, Line, Payloads
  <2> QED BY <1>4, <1>5, Zenon DEF Accounted
<1>7. Shapes'
  BY <1>3 DEF Shapes
<1> QED BY <1>2, <1>3, <1>6, <1>7

\* The bus gives up its reference of a payload.
LEMMA ReleasedFacts ==
  ASSUME GpOK, NEW t \in Txn, gp[t].rc # 0, gp' = Released(gp, t)
  PROVE  /\ GpOK' /\ gp[t].rc \in Nat /\ gp'[t].rc \in Nat /\ gp[t].rc = gp'[t].rc + 1 /\ gp'[t].cmd = gp[t].cmd
         /\ gp'[t].addr = gp[t].addr /\ gp'[t].port = gp[t].port /\ gp'[t].status = gp[t].status
         /\ \A tx \in Txn : tx # t => gp'[tx] = gp[tx]
<1>1. PICK g \in GpShape : g = gp[t]
  BY DEF GpOK
<1>2. PICK c \in Nat : c = g.rc - 1 /\ g.rc = c + 1
  <2>1. g.rc \in Nat /\ g.rc # 0
    BY <1>1 DEF GpShape
  <2>2. g.rc - 1 \in Nat /\ g.rc = (g.rc - 1) + 1
    BY <2>1
  <2> QED BY <2>2
<1> DEFINE z == [g EXCEPT !.rc = c]
<1>3. /\ z \in GpShape /\ z.rc = c /\ z.cmd = g.cmd /\ z.addr = g.addr /\ z.port = g.port /\ z.status = g.status
  <2> HIDE DEF Word
  <2> QED BY Zenon DEF GpShape
<1>4. gp' = [gp EXCEPT ![t] = z]
  BY <1>1, <1>2 DEF Released
<1> HIDE DEF z
<1>5. GpOK' /\ gp'[t] = z /\ \A tx \in Txn : tx # t => gp'[tx] = gp[tx]
  BY <1>3, <1>4 DEF GpOK
<1> QED BY <1>1, <1>2, <1>3, <1>5

\* The bus is done with a payload.
LEMMA ForgetParts ==
  ASSUME AtCore, Forget(bus.rsp.txn), NEW t, t = bus.rsp.txn, bus.rsp.pc \in Busy, UNCHANGED <<tg, fifo>>
  PROVE  /\ t \in Txn /\ PayloadInv(t) /\ Known(t) /\ ~Tracked(t) /\ GpOK' /\ BusOK' /\ bus'.req = bus.req
         /\ bus'.rsp.pc = "next" /\ ~Known(t)' /\ ~Tracked(t)'
         /\ gp'[t].cmd = gp[t].cmd /\ gp'[t].addr = gp[t].addr /\ gp'[t].port = gp[t].port /\ gp'[t].status = gp[t].status
         /\ Held(t)' = Held(t) /\ (Pooled(t)' <=> gp'[t].rc = 0) /\ Shapes'
         /\ \A tx \in Txn : tx # t => /\ gp'[tx] = gp[tx] /\ (Pooled(tx)' <=> Pooled(tx))
                                      /\ bus'.pending[tx].known = bus.pending[tx].known
                                      /\ bus'.pending[tx].from = bus.pending[tx].from
         /\ \A tx \in Txn : ~Responding(tx)' /\ (tx # t => ~Responding(tx))
         /\ \A n \in Initiator : Accounted(n, Away(n), HeldBy(n)) => \A a, h : a = Away(n) /\ h = HeldBy(n) => Accounted(n, a, h)'
         /\ \A n \in Initiator : n # Owner(t) => \A a, h : Accounted(n, a, h) => Accounted(n, a, h)'
<1>0. Types /\ GpOK /\ BusOK /\ Shapes
  BY DEF AtCore, Types
<1>1. t \in Txn /\ PayloadInv(t) /\ Responding(t)
  <2>1. t \in Txn
    BY <1>0 DEF BusOK
  <2> QED BY <2>1 DEF AtCore, Responding
<1>2. Known(t) /\ ~Tracked(t)
  <2> HIDE DEF Known, Tracked, Responding, Sending, Heard, Telling, About
  <2> QED BY <1>1 DEF PayloadInv, Tracking
<1>3. /\ bus' = [bus EXCEPT !.rsp.pc = "next", !.pending[t] = Absent] /\ gp' = Released(gp, t)
      /\ pool' = IF gp[t].rc = 1 THEN [pool EXCEPT ![Owner(t)] = Append(@, t)] ELSE pool
  BY DEF Forget, PoolAfterRelease
<1>4. Held(t) \in {0, 1} /\ (Pooled(t) <=> gp[t].rc = 0)
  <2> HIDE DEF Held, Pooled
  <2> QED BY <1>1 DEF PayloadInv, Contents
<1>5. PICK r \in Nat : r = gp[t].rc
  BY <1>0, <1>1 DEF GpOK, GpShape
<1>6. Held(t) = r - 1 /\ r # 0
  BY <1>2, <1>4, <1>5 DEF Held, BusHolds
<1>7. /\ GpOK' /\ gp'[t].rc \in Nat /\ r = gp'[t].rc + 1 /\ gp'[t].cmd = gp[t].cmd
      /\ gp'[t].addr = gp[t].addr /\ gp'[t].port = gp[t].port /\ gp'[t].status = gp[t].status
      /\ \A tx \in Txn : tx # t => gp'[tx] = gp[tx]
  <2> HIDE DEF GpOK, Released
  <2> QED BY <1>0, <1>1, <1>3, <1>5, <1>6, ReleasedFacts
<1>8. PICK e \in PendingShape : e = Absent /\ ~e.known /\ e.from = 0
  <2> DEFINE z == Absent
  <2>1. 0 \in 0..NI /\ -1 \in {-1} \union Target /\ FALSE \in BOOLEAN
    BY AtNumbers
  <2>2. z \in PendingShape /\ ~z.known /\ z.from = 0 /\ z = Absent
    <3> HIDE DEF Target
    <3> QED BY <2>1 DEF PendingShape, Absent
  <2> HIDE DEF z, PendingShape
  <2> QED BY <2>2
<1>9. PICK x \in BusThreadShape : x = bus.rsp
  <2> HIDE DEF PendingShape, BusOK, BusThreadShape
  <2> QED BY <1>0, BusParts
<1> DEFINE y == [x EXCEPT !.pc = "next"]
<1>10. y \in BusThreadShape /\ y.pc = "next" /\ (y.pc \in Busy => y.txn \in Txn)
  <2>1. y \in BusThreadShape /\ y.pc = "next"
    BY Zenon DEF BusThreadShape
  <2> HIDE DEF y
  <2> QED BY <2>1 DEF Busy
<1>11. bus' = [pending |-> [bus.pending EXCEPT ![t] = e], req |-> bus.req, rsp |-> y]
  <2>1. PICK p, z : p = bus.pending /\ z = bus.req
    OBVIOUS
  <2>2. bus = [pending |-> p, req |-> z, rsp |-> x]
    BY <1>0, <1>9, <2>1, BusParts
  <2>3. bus' = [bus EXCEPT !.rsp.pc = "next", !.pending[t] = e]
    BY <1>3, <1>8
  <2>4. bus' = [pending |-> [p EXCEPT ![t] = e], req |-> z, rsp |-> y]
    BY <2>2, <2>3
  <2> HIDE DEF y
  <2> QED BY <2>1, <2>4
<1> HIDE DEF y
<1>12. /\ BusOK' /\ bus'.req = bus.req /\ bus'.rsp = y /\ bus'.pending[t] = e
       /\ \A u \in Txn : u # t => bus'.pending[u] = bus.pending[u]
  <2>1. PICK z \in BusThreadShape : z = bus.req /\ (z.pc \in Busy => z.txn \in Txn)
    <3> HIDE DEF BusOK, BusThreadShape, PendingShape
    <3> QED BY <1>0, BusParts
  <2> HIDE DEF BusOK, BusThreadShape, PendingShape, Busy
  <2> QED BY <1>0, <1>1, <1>10, <1>11, <2>1, BusMoved
<1>13. ~Known(t)' /\ ~Tracked(t)'
  BY <1>8, <1>12 DEF Known, Tracked
<1>14. \A tx \in Txn : ~Responding(tx)' /\ (tx # t => ~Responding(tx))
  BY <1>10, <1>12 DEF Responding, Busy
<1>15. Held(t)' = Held(t)
  <2>1. PICK c \in Nat : c = gp'[t].rc /\ r = c + 1
    BY <1>7
  <2>2. c = r - 1
    BY <2>1
  <2>3. Held(t)' = c
    BY <1>13, <2>1 DEF Held, BusHolds
  <2> QED BY <1>6, <2>2, <2>3
<1>16. PICK n \in Initiator : n = Owner(t) /\ t \in Payloads(n) /\ t \notin Range(pool[n])
  <2>1. ~Pooled(t)
    BY <1>4, <1>5, <1>6
  <2> QED BY <1>1, <2>1, OwnerFacts DEF Pooled
<1>17. /\ Shapes' /\ (t \in Range(pool'[n]) <=> gp'[t].rc = 0)
       /\ \A m \in Initiator : \A tx : tx # t => (tx \in Range(pool'[m]) <=> tx \in Range(pool[m]))
       /\ \A m \in Initiator : m # n => pool'[m] = pool[m]
       /\ \A a, h : Accounted(n, a, h) /\ h = HeldBy(n) => Accounted(n, a, h)'
  <2>1. CASE r = 1
    <3>1. gp'[t].rc = 0 /\ Held(t) # 1
      BY <1>6, <1>7, <2>1
    <3>2. pool' = [pool EXCEPT ![n] = Append(@, t)]
      BY <1>3, <1>5, <1>16, <2>1
    <3>3. t \notin HeldBy(n)
      <4> HIDE DEF Held
      <4> QED BY <3>1 DEF HeldBy
    <3>4. PICK a, h : Accounted(n, a, h) /\ h = HeldBy(n)
      <4> HIDE DEF Accounted, HeldBy, Away
      <4> QED BY Zenon DEF AtCore
    <3>5. /\ Shapes' /\ Range(pool'[n]) = Range(pool[n]) \union {t}
          /\ \A m \in Initiator : m # n => pool'[m] = pool[m]
      <4>1. Accounted(n, a, h) /\ t \notin h /\ t \notin Range(pool[n]) /\ t \in Payloads(n)
        BY <1>16, <3>3, <3>4
      <4>2. UNCHANGED <<tg, fifo>>
        OBVIOUS
      <4> HIDE DEF Shapes, Accounted, HeldBy, Payloads
      <4>3. /\ Accounted(n, a, h)' /\ Shapes' /\ Range(pool'[n]) = Range(pool[n]) \union {t}
            /\ \A m \in Initiator : m # n => pool'[m] = pool[m]
        BY ONLY n \in Initiator, <1>0, <3>2, <4>1, <4>2, PoolGrows
      <4> QED BY <4>3
    <3>6. ASSUME NEW b, NEW g, Accounted(n, b, g), g = HeldBy(n) PROVE Accounted(n, b, g)'
      <4> HIDE DEF Shapes, Accounted, HeldBy
      <4> QED BY <1>0, <1>16, <3>2, <3>3, <3>6, PoolGrows
    <3>7. \A m \in Initiator : \A tx : tx # t => (tx \in Range(pool'[m]) <=> tx \in Range(pool[m]))
      <4> SUFFICES ASSUME NEW m \in Initiator, NEW tx, tx # t PROVE tx \in Range(pool'[m]) <=> tx \in Range(pool[m])
        OBVIOUS
      <4>1. CASE m = n
        BY <3>5, <4>1
      <4>2. CASE m # n
        BY <3>5, <4>2
      <4> QED BY <4>1, <4>2
    <3> HIDE DEF Shapes, Accounted, HeldBy
    <3> QED BY <3>1, <3>5, <3>6, <3>7
  <2>2. CASE r # 1
    <3>1. gp'[t].rc # 0
      BY <1>7, <2>2
    <3>2. pool' = pool
      BY <1>3, <1>5, <2>2
    <3>3. Shapes'
      BY <1>0, <3>2 DEF Shapes
    <3>4. ASSUME NEW b, NEW g, Accounted(n, b, g) PROVE Accounted(n, b, g)'
      <4> HIDE DEF Accounted
      <4> QED BY <3>2, <3>4, AccountedFrame
    <3> HIDE DEF Shapes, Accounted, HeldBy
    <3> QED BY <1>16, <3>1, <3>2, <3>3, <3>4
  <2> QED BY <2>1, <2>2
<1>18. Pooled(t)' <=> gp'[t].rc = 0
  BY <1>16, <1>17 DEF Pooled
<1>19. \A tx \in Txn : tx # t => (Pooled(tx)' <=> Pooled(tx))
  BY <1>17, OwnerFacts DEF Pooled
<1>20. ASSUME NEW m \in Initiator, m # n, NEW a, NEW h, Accounted(m, a, h) PROVE Accounted(m, a, h)'
  <2>1. pool'[m] = pool[m]
    BY <1>17, <1>20
  <2> HIDE DEF Accounted
  <2> QED BY <1>20, <2>1, AccountedFrame
<1>21. \A m \in Initiator : Accounted(m, Away(m), HeldBy(m)) => \A a, h : a = Away(m) /\ h = HeldBy(m) => Accounted(m, a, h)'
  <2> SUFFICES ASSUME NEW m \in Initiator, Accounted(m, Away(m), HeldBy(m)), NEW a, NEW h, a = Away(m), h = HeldBy(m)
               PROVE  Accounted(m, a, h)'
    OBVIOUS
  <2>1. Accounted(m, a, h)
    OBVIOUS
  <2> HIDE DEF Accounted, HeldBy, Away
  <2>2. CASE m = n
    BY <1>17, <2>1, <2>2
  <2>3. CASE m # n
    BY <1>20, <2>1, <2>3
  <2> QED BY <2>2, <2>3
<1> HIDE DEF Shapes, Accounted, HeldBy, Away, GpOK, BusOK, Responding, Known, Tracked, Held, Pooled, PayloadInv
<1> QED BY <1>1, <1>2, <1>7, <1>10, <1>12, <1>13, <1>14, <1>15, <1>16, <1>17, <1>18, <1>19, <1>20, <1>21

\* The bus has ended a response.
LEMMA ResponseOverCore ==
  ASSUME AtCore, UNCHANGED <<tg, ini, tgt>>, ResponseOver
  PROVE  AtCore'
<1>0. Types /\ Calls /\ KernelInv(LongestDelay, simc) /\ \A q \in Peq : Once(peq[q])
  BY DEF AtCore, Types
<1>1. PICK t : t = bus.rsp.txn
  OBVIOUS
<1>2. /\ simc.cur = ResponseThread /\ bus.rsp.pc \in {"ended", "told"} /\ bus.rsp.pc \in Busy /\ fatal' \in BOOLEAN
      /\ Forget(bus.rsp.txn) /\ UNCHANGED <<simc, peq, fifo, tg, ini, tgt>>
  BY DEF ResponseOver, Executing, Busy
<1>3. /\ link' = NoCall /\ (link = NoCall \/ link.txn = t) /\ ~Telling(t) /\ Wiring = "bus" /\ simc.cur \in Process
      /\ \A n \in Initiator : ini[n].pc # "sent" /\ ini[n].mpc # "sent"
  <2>1. CASE bus.rsp.pc = "ended"
    <3>1. link' = link
      BY <2>1 DEF ResponseOver
    <3>2. /\ link = NoCall /\ Wiring = "bus" /\ simc.cur \in Process /\ \A tx \in Txn : ~Telling(tx)
          /\ \A n \in Initiator : ini[n].pc # "sent" /\ ini[n].mpc # "sent"
      <4>1. bus.rsp.pc \notin {"sent", "told"}
        BY <2>1
      <4> HIDE DEF AtCore, NoCall, Process, Sending, Closing, Telling, About, Asks, Reports, Responds, EndsReq
      <4> QED BY <1>2, <4>1, BusFree
    <3>3. ~Telling(t)
      BY <3>2, CallOver
    <3> HIDE DEF Telling, NoCall
    <3> QED BY <3>1, <3>2, <3>3
  <2>2. CASE bus.rsp.pc = "told"
    <3>1. link' = NoCall /\ Answered
      BY <2>2 DEF ResponseOver
    <3>2. link # NoCall /\ EndRspCall /\ simc.cur # Nobody
      <4>1. simc.cur # Nobody
        BY <1>2 DEF ResponseThread, Nobody
      <4> HIDE DEF AtCore, NoCall, EndRspCall
      <4> QED BY <1>2, <2>2, <4>1, CallerFacts
    <3>3. link.txn = t /\ link.status # "called"
      BY <1>1, <3>1, <3>2 DEF EndRspCall, Answered
    <3>4. ~Telling(t)
      BY <3>3 DEF Telling, Responds
    <3>5. Wiring = "bus" /\ simc.cur \in Process
      <4> HIDE DEF AtCore, Process
      <4> QED BY <1>2, <3>2, Runs
    <3>6. \A n \in Initiator : ini[n].pc # "sent" /\ ini[n].mpc # "sent"
      <4>1. \A n \in Initiator : simc.cur # Ini(n) /\ simc.cur # EndRsp(n)
        BY <1>2 DEF ResponseThread, Ini, EndRsp
      <4> HIDE DEF AtCore, NoCall
      <4> QED BY <3>2, <4>1, Callers
    <3> HIDE DEF Telling, NoCall
    <3> QED BY <3>1, <3>3, <3>4, <3>5, <3>6
  <2> QED BY <1>2, <2>1, <2>2
<1>4. /\ t \in Txn /\ PayloadInv(t) /\ Known(t) /\ ~Tracked(t) /\ GpOK' /\ BusOK' /\ bus'.req = bus.req
      /\ bus'.rsp.pc = "next" /\ ~Known(t)' /\ ~Tracked(t)'
      /\ gp'[t].cmd = gp[t].cmd /\ gp'[t].addr = gp[t].addr /\ gp'[t].port = gp[t].port /\ gp'[t].status = gp[t].status
      /\ Held(t)' = Held(t) /\ (Pooled(t)' <=> gp'[t].rc = 0) /\ Shapes'
      /\ \A tx \in Txn : tx # t => /\ gp'[tx] = gp[tx] /\ (Pooled(tx)' <=> Pooled(tx))
                                   /\ bus'.pending[tx].known = bus.pending[tx].known
                                   /\ bus'.pending[tx].from = bus.pending[tx].from
      /\ \A tx \in Txn : ~Responding(tx)' /\ (tx # t => ~Responding(tx))
      /\ \A n \in Initiator : Accounted(n, Away(n), HeldBy(n)) => \A a, h : a = Away(n) /\ h = HeldBy(n) => Accounted(n, a, h)'
      /\ \A n \in Initiator : n # Owner(t) => \A a, h : Accounted(n, a, h) => Accounted(n, a, h)'
  <2> HIDE DEF AtCore, Forget, Busy, PayloadInv, Known, Tracked, GpOK, BusOK, Held, Pooled, Shapes, Responding, Accounted, Away, HeldBy
  <2> QED BY <1>1, <1>2, ForgetParts
<1>5. \A tx \in Txn : /\ Outgoing(tx)' <=> Outgoing(tx)
                      /\ Incoming(tx)' <=> Incoming(tx)
                      /\ Port(tx)' = Port(tx) /\ Where(tx)' = Where(tx)
                      /\ tg'[Owner(tx)].pass = tg[Owner(tx)].pass
                      /\ Returning(tx)' <=> Returning(tx)
                      /\ Heard(tx)' <=> Heard(tx)
                      /\ Ending(tx)' <=> Ending(tx)
                      /\ ini'[Owner(tx)].map[tx] = ini[Owner(tx)].map[tx]
                      /\ ~Sending(tx) /\ ~Sending(tx)' /\ ~Closing(tx) /\ ~Closing(tx)'
                      /\ \A q \in Peq : (tx \in Queued(q))' <=> tx \in Queued(q)
  <2>1. \A tx \in Txn : /\ Outgoing(tx)' <=> Outgoing(tx)
                        /\ Incoming(tx)' <=> Incoming(tx)
                        /\ Port(tx)' = Port(tx) /\ Where(tx)' = Where(tx)
                        /\ tg'[Owner(tx)].pass = tg[Owner(tx)].pass
    BY <1>2 DEF Outgoing, Incoming, Port, Where, Putting, Requested, Responded
  <2>2. \A tx \in Txn : /\ Returning(tx)' <=> Returning(tx)
                        /\ Heard(tx)' <=> Heard(tx)
                        /\ ini'[Owner(tx)].map[tx] = ini[Owner(tx)].map[tx]
    <3> HIDE DEF Returning, Sending, Heard
    <3> QED BY InitiatorSame
  <2>3. \A tx \in Txn : ~Sending(tx) /\ ~Sending(tx)' /\ ~Closing(tx) /\ ~Closing(tx)'
    BY <1>2, <1>3, OwnerFacts DEF Sending, Closing
  <2>4. \A q \in Peq : \A tx : (tx \in Queued(q))' <=> tx \in Queued(q)
    BY <1>2, PeqSame
  <2>5. \A tx \in Txn : Ending(tx)' <=> Ending(tx)
    BY <1>2 DEF Ending, Queued
  <2> HIDE DEF Outgoing, Incoming, Port, Where, Returning, Heard, Ending, Sending, Closing, Queued, Peq
  <2> QED BY <2>1, <2>2, <2>3, <2>4, <2>5
<1>6. ~Heard(t)
  <2> HIDE DEF Known, Tracked, Responding, Sending, Heard, Telling, About
  <2> QED BY <1>3, <1>4, <1>5 DEF PayloadInv, Tracking
<1>7. Calls'
  <2>1. ~Calling(ResponseThread)' /\ \A p \in Process : p # ResponseThread => (Calling(p)' <=> Calling(p))
    <3>1. bus'.rsp.pc \notin {"sent", "told"} /\ UNCHANGED <<ini, tgt>>
      BY <1>4
    <3> HIDE DEF Calling, Process
    <3> QED BY <1>4, <3>1, CallingNames, OnlyBus
  <2> HIDE DEF Calls, Calling, Process, NoCall
  <2> QED BY <1>0, <1>2, <1>3, <2>1, CallsReturned
<1>8. Types'
  <2>1. IniOK' /\ TgtOK' /\ PeqOK'
    <3> HIDE DEF Types, GpOK, IniOK, BusOK, TgtOK, PeqOK, Shapes
    <3> QED BY <1>0, <1>2, TypesKept
  <2> QED BY <1>0, <1>2, <1>4, <2>1 DEF Types
<1>9. PayloadInv(t)' /\ (InHand(t)' <=> InHand(t))
  <2>1. /\ ~Asks(t)' /\ ~Reports(t)' /\ ~Responds(t)' /\ ~EndsReq(t)' /\ ~Telling(t)' /\ ~About(t)'
        /\ Asked(t)' <=> Asked(t)
        /\ CarriedOut(t)' <=> CarriedOut(t)
        /\ Waiting(t)' <=> Waiting(t)
    <3>1. ~Asks(t)' /\ ~Reports(t)' /\ ~Responds(t)' /\ ~EndsReq(t)' /\ ~Telling(t)' /\ ~About(t)'
      <4> HIDE DEF Asks, Reports, Responds, EndsReq, Telling, About, NoCall
      <4> QED BY <1>3, CallOver
    <3>2. (Asked(t)' <=> Asked(t)) /\ (CarriedOut(t)' <=> CarriedOut(t))
      BY <1>4 DEF Asked, CarriedOut
    <3>3. Waiting(t)' <=> Waiting(t)
      <4> HIDE DEF Sending, Heard
      <4> QED BY <1>4, <1>5 DEF Waiting
    <3> HIDE DEF Asks, Reports, Responds, EndsReq, Telling, About, Asked, CarriedOut, Waiting
    <3> QED BY <3>1, <3>2, <3>3
  <2>2. OneHand(t)' /\ (InHand(t)' <=> InHand(t))
    <3> HIDE DEF Sending, Returning, Heard, Ending, Closing
    <3> QED BY <1>4, <1>5 DEF PayloadInv, OneHand, InHand
  <2>3. Contents(t)'
    <3>1. /\ Held(t) \in {0, 1}
          /\ Held(t) = 1 => /\ gp[t].cmd \in {"read", "write"} /\ gp[t].addr \in Addresses /\ (Asked(t) \/ CarriedOut(t))
          /\ ~Outgoing(t)
          /\ Incoming(t) \/ Returning(t) \/ Closing(t) => CarriedOut(t)
      <4> HIDE DEF Held, Pooled, Asked, CarriedOut, Outgoing, Incoming, Returning, Closing, Known, Port
      <4> QED BY <1>4 DEF PayloadInv, Contents
    <3> HIDE DEF Held, Pooled, Asked, CarriedOut, Outgoing, Incoming, Returning, Closing, Known, Port
    <3> QED BY <1>4, <1>5, <2>1, <3>1 DEF Contents
  <2>4. InTransit(t)'
    <3> HIDE DEF Asks, Reports, Responds, EndsReq
    <3> QED BY <2>1 DEF InTransit
  <2>5. InQueues(t)'
    <3>1. \A q \in Peq : Fits(q, t)' <=> Fits(q, t)
      <4> HIDE DEF Asked, CarriedOut, Waiting, Port, Where
      <4> QED BY <1>4, <1>5, <2>1 DEF Fits
    <3>2. InQueues(t)
      BY <1>4 DEF PayloadInv
    <3> HIDE DEF Fits, Asks, Reports, Responds, Queued, Peq
    <3> QED BY <1>4, <1>5, <2>1, <3>1, <3>2 DEF InQueues
  <2>6. Tracking(t)'
    <3>1. ini[Owner(t)].map[t] # "UPDATED"
      <4> HIDE DEF Known, Tracked, Responding, Sending, Heard, Telling, About
      <4> QED BY <1>3, <1>4 DEF PayloadInv, Tracking
    <3> HIDE DEF Known, Tracked, Responding, Sending, Heard, Telling, About
    <3> QED BY <1>3, <1>4, <1>5, <1>6, <2>1, <3>1 DEF Tracking
  <2> HIDE DEF OneHand, Contents, InTransit, InQueues, Tracking, InHand
  <2> QED BY <2>2, <2>3, <2>4, <2>5, <2>6 DEF PayloadInv
<1>10. ASSUME NEW tx \in Txn, tx # t PROVE Apart(tx)
  <2> HIDE DEF Pooled, Outgoing, Incoming, Returning, Peq, Queued, Responding
  <2> QED BY <1>4, <1>5, <1>10, Zenon DEF Apart
<1>11. PICK n \in Initiator : n = Owner(t) /\ t \in Payloads(n)
  BY <1>4, OwnerFacts
<1>12. PICK a, h : a = Away(n) /\ h = HeldBy(n)
  OBVIOUS
<1>13. Accounted(Owner(t), a, h)'
  <2>1. Accounted(n, Away(n), HeldBy(n))
    BY DEF AtCore
  <2> HIDE DEF Accounted, Away, HeldBy
  <2>2. Accounted(n, a, h)'
    BY <1>4, <1>12, <2>1
  <2> QED BY <1>11, <2>2
<1>14. a = IF InHand(t)' THEN Away(Owner(t)) \union {t} ELSE Away(Owner(t)) \ {t}
  <2> HIDE DEF InHand
  <2> QED BY <1>9, <1>11, <1>12 DEF Away
<1>15. h = IF Held(t)' = 1 THEN HeldBy(Owner(t)) \union {t} ELSE HeldBy(Owner(t)) \ {t}
  <2> HIDE DEF Held
  <2> QED BY <1>4, <1>11, <1>12 DEF HeldBy
<1>16. \A q \in Peq : Once(peq'[q])
  BY <1>0, <1>2
<1> HIDE DEF AtCore, InHand, Held, Calls, Types, PayloadInv, Apart, Peq, Once, Accounted, Away, HeldBy, NoCall
<1> QED BY <1>3, <1>4, <1>7, <1>8, <1>9, <1>10, <1>13, <1>14, <1>15, <1>16, OneMoves

\* The steps of the bus.
LEMMA BusCore ==
  ASSUME AtCore, UNCHANGED <<tg, ini, tgt>>, BusStep
  PROVE  AtCore'
<1>1. CASE \E n \in Initiator : BusBeginReq(n)
  <2> HIDE DEF AtCore, BusBeginReq
  <2> QED BY <1>1, BusBeginReqCore
<1>2. CASE \E n \in Initiator : BusEndResp(n)
  <2> HIDE DEF AtCore, BusEndResp
  <2> QED BY <1>2, AnswersCore
<1>3. CASE \E m \in Target : targetNBTransport(m)
  <2> HIDE DEF AtCore, targetNBTransport
  <2>1. PICK m \in Target : targetNBTransport(m)
    BY <1>3
  <2>2. CASE link.phase = "BEGIN_RESP"
    BY <2>1, <2>2, BusBeginRespCore
  <2>3. CASE link.phase # "BEGIN_RESP"
    BY <2>1, <2>3, AnswersCore
  <2> QED BY <2>2, <2>3
<1> HIDE DEF AtCore, RequestWaits, SendToTarget, RequestOngoing, RequestCompletedByTarget, PassEndReq, EndReqPassed,
             ResponseWaits, SendToInitiator, ResponseAnswered, PassEndResp, ResponseOver
<1>4. CASE RequestWaits \/ ResponseWaits
  BY <1>4, BusWaiting
<1>5. CASE RequestOngoing \/ EndReqPassed \/ ResponseAnswered
  BY <1>5, BusReturns
<1> QED BY <1>1, <1>2, <1>3, <1>4, <1>5, SendToTargetCore, CompletedByTargetCore, PassEndReqCore, SendToInitiatorCore,
           PassEndRespCore, ResponseOverCore, Zenon DEF BusStep

-----------------------------------------------------------------------------
(* The invariant *)

\* The invariant holds when the simulation starts.
LEMMA AtCoreInit ==
  ASSUME Init
  PROVE  AtCore /\ (\A tx \in Txn : Held(tx) = 0) /\ \A m \in Target : tgt[m].mem = ZeroMemory
<1>0. PICK kinds \in IniKinds : IniInit(kinds)
  BY DEF Init
<1>1. /\ SharedInit(ThreadOrder) /\ TgInit /\ BusInit /\ TgtInit
      /\ link = NoCall /\ fatal = FALSE /\ peq = [q \in Peq |-> << >>] /\ gp = [tx \in Txn |-> EmptyPayload]
      /\ simc = InitKernel(ThreadOrder)
  BY DEF Init, SharedInit
<1>2. Shapes /\ \A n \in Initiator : Accounted(n, {}, {}) /\ Range(pool[n]) = Payloads(n)
  BY <1>1, AccountedInit
<1>3. KernelInv(LongestDelay, simc)
  <2>1. ThreadOrder \in Line(Process)
    <3>1. Thread \subseteq Process /\ ThreadOrder \in Line(Thread)
      BY ThreadFacts DEF Process
    <3> HIDE DEF Thread, Process, ThreadOrder
    <3> QED BY <3>1 DEF Line
  <2>2. PICK b \in Nat : b = LongestDelay
    BY AtNumbers
  <2>3. PICK ready \in Line(Process) : ready = ThreadOrder
    BY <2>1
  <2> HIDE DEF KernelInv, Process, ThreadOrder, InitKernel
  <2>4. KernelInv(b, InitKernel(ready))
    BY InitKernelOK
  <2> QED BY <1>1, <2>2, <2>3, <2>4
<1>4. PICK g \in GpShape : g = EmptyPayload /\ g.rc = 0
  <2>1. 0 \in Target /\ 0 \in Word /\ 0 \in Int /\ 0 \in Nat
    BY AtNumbers DEF Word
  <2> DEFINE z == EmptyPayload
  <2>2. z \in GpShape /\ z.rc = 0
    <3> HIDE DEF Target, Word
    <3> QED BY <2>1 DEF EmptyPayload, GpShape
  <2> HIDE DEF z
  <2>3. z = EmptyPayload
    BY DEF z
  <2> QED BY <2>2, <2>3
<1>5. GpOK /\ \A tx \in Txn : gp[tx].rc = 0
  BY <1>1, <1>4 DEF GpOK
<1>6. /\ IniOK /\ \A n \in Initiator : /\ ini[n].pc = "get" /\ ini[n].mpc = "next"
                                       /\ \A tx \in Payloads(n) : ini[n].map[tx] = "absent"
  <2>1. kinds \in [Initiator -> {"select", "explicit", "annotated"}]
    BY IniKindAssumption
  <2>2. ini = [n \in Initiator |-> [kind |-> kinds[n], pc |-> "get", txn |-> NoTxn, mpc |-> "next",
                                    map |-> [tx \in Payloads(n) |-> "absent"]]]
    BY <1>0 DEF IniInit, Payloads
  <2>3. ASSUME NEW n \in Initiator
        PROVE  /\ ini[n] \in IniShape(n) /\ ini[n].pc = "get" /\ ini[n].mpc = "next"
               /\ \A tx \in Payloads(n) : ini[n].map[tx] = "absent"
    <3>1. PICK f \in [Payloads(n) -> {"absent", "ACCEPTED", "END_REQ", "UPDATED"}] : f = [tx \in Payloads(n) |-> "absent"]
      OBVIOUS
    <3>2. PICK k \in {"select", "explicit", "annotated"} : k = kinds[n]
      BY <2>1
    <3>3. ini[n] = [kind |-> k, pc |-> "get", txn |-> NoTxn, mpc |-> "next", map |-> f]
      BY <2>2, <3>1, <3>2
    <3>4. NoTxn \in Txn \union {NoTxn}
      OBVIOUS
    <3>5. \A tx \in Payloads(n) : f[tx] = "absent"
      BY <3>1
    <3>6. ini[n] \in IniShape(n)
      <4> DEFINE S == [Payloads(n) -> {"absent", "ACCEPTED", "END_REQ", "UPDATED"}]
      <4>1. f \in S
        OBVIOUS
      <4> HIDE DEF S
      <4> QED BY <3>3, <3>4, <4>1 DEF IniShape, S
    <3> QED BY <3>3, <3>5, <3>6
  <2>4. DOMAIN ini = Initiator
    BY <2>2
  <2> HIDE DEF Payloads
  <2> QED BY <2>3, <2>4 DEF IniOK
<1>7. /\ BusOK /\ bus.req.pc = "start" /\ bus.rsp.pc = "start"
      /\ \A tx \in Txn : ~bus.pending[tx].known /\ bus.pending[tx].from = 0
  <2>1. Absent \in PendingShape
    <3>1. 0 \in 0..NI /\ -1 \in {-1} \union Target /\ FALSE \in BOOLEAN
      BY AtNumbers
    <3> HIDE DEF Target
    <3> QED BY <3>1 DEF PendingShape, Absent
  <2>2. PICK p \in [Txn -> PendingShape] : p = [tx \in Txn |-> Absent]
    BY <2>1
  <2>3. PICK x \in BusThreadShape : x = [pc |-> "start", txn |-> NoTxn] /\ x.pc = "start"
    <3> DEFINE z == [pc |-> "start", txn |-> NoTxn]
    <3>1. z \in BusThreadShape /\ z.pc = "start"
      BY DEF BusThreadShape
    <3> HIDE DEF z
    <3>2. z = [pc |-> "start", txn |-> NoTxn]
      BY DEF z
    <3> QED BY <3>1, <3>2
  <2>4. bus = [pending |-> p, req |-> x, rsp |-> x]
    BY <1>1, <2>2, <2>3 DEF BusInit
  <2>5. bus.pending = p /\ bus.req = x /\ bus.rsp = x
    BY ONLY <2>4
  <2>6. bus \in BusShape
    <3>1. PICK f : f = [Txn -> PendingShape]
      OBVIOUS
    <3>2. p \in f /\ x \in BusThreadShape
      BY <2>2, <3>1
    <3> HIDE DEF BusThreadShape
    <3>3. [pending |-> p, req |-> x, rsp |-> x] \in [pending : f, req : BusThreadShape, rsp : BusThreadShape]
      BY ONLY <3>2
    <3> QED BY <2>4, <3>1, <3>3 DEF BusShape
  <2>7. \A tx \in Txn : ~p[tx].known /\ p[tx].from = 0
    BY <2>2 DEF Absent
  <2> HIDE DEF BusShape, BusThreadShape, PendingShape
  <2> QED BY <2>3, <2>5, <2>6, <2>7 DEF BusOK, Busy
<1>8. TgtOK /\ \A m \in Target : tgt[m].rpc = "next" /\ tgt[m].epc = "next" /\ tgt[m].mem = ZeroMemory
  <2>1. ZeroMemory \in [1..MemorySize -> Word]
    BY AtNumbers DEF ZeroMemory, Word
  <2>2. PICK z \in [1..MemorySize -> Word] : z = ZeroMemory
    BY <2>1
  <2>3. tgt = [m \in Target |-> [count |-> 1, mem |-> z, rpc |-> "next", epc |-> "next"]]
    BY <1>1, <2>2 DEF TgtInit
  <2>4. [count |-> 1, mem |-> z, rpc |-> "next", epc |-> "next"] \in TgtShape
    BY DEF TgtShape
  <2> QED BY <2>2, <2>3, <2>4 DEF TgtOK
<1>9. PeqOK /\ \A q \in Peq : Once(peq[q]) /\ Queued(q) = {}
  BY <1>1 DEF PeqOK, Once, Queued
<1>10. Types
  BY <1>1, <1>2, <1>3, <1>5, <1>6, <1>7, <1>8, <1>9 DEF Types
<1>11. \A p \in Process : ~Calling(p)
  BY <1>6, <1>7, <1>8 DEF Calling
<1>12. Calls
  <2> HIDE DEF Calling, Process, NoCall
  <2> QED BY <1>1, <1>11 DEF Calls
<1>13. ASSUME NEW tx \in Txn
       PROVE  /\ ~Sending(tx) /\ ~Returning(tx) /\ ~Heard(tx) /\ ~Ending(tx) /\ ~Closing(tx) /\ ~InHand(tx)
              /\ ~Known(tx) /\ ~Tracked(tx) /\ ~Responding(tx) /\ ~About(tx) /\ Pooled(tx) /\ Held(tx) = 0
              /\ ~Outgoing(tx) /\ ~Incoming(tx) /\ ini[Owner(tx)].map[tx] = "absent"
  <2>1. PICK n \in Initiator : n = Owner(tx) /\ tx \in Payloads(n)
    BY OwnerFacts
  <2>2. /\ ~Sending(tx) /\ ~Returning(tx) /\ ~Heard(tx) /\ ~Closing(tx) /\ ini[Owner(tx)].map[tx] = "absent"
    BY <1>6, <2>1 DEF Sending, Returning, Heard, Closing
  <2>3. ~Ending(tx)
    <3>1. EndRspPeq(n) \in Peq
      BY AtNames
    <3>2. Queued(EndRspPeq(n)) = {}
      BY <1>9, <3>1
    <3> QED BY <2>1, <3>2 DEF Ending
  <2>4. ~InHand(tx)
    BY <2>2, <2>3, Zenon DEF InHand
  <2>5. ~Known(tx) /\ ~Tracked(tx) /\ ~Responding(tx) /\ ~About(tx)
    BY <1>1, <1>7 DEF Known, Tracked, Responding, About, Busy
  <2>6. Held(tx) = 0
    BY <1>5, <2>5 DEF Held, BusHolds
  <2>7. Pooled(tx)
    BY <1>2, <2>1 DEF Pooled
  <2>8. ~Outgoing(tx) /\ ~Incoming(tx)
    <3>1. Accounted(n, {}, {})
      BY <1>2
    <3>2. Putting(n) = {} /\ Requested(n) = {} /\ Responded(n) = {}
      BY <3>1 DEF Accounted
    <3> QED BY <2>1, <3>2 DEF Outgoing, Incoming
  <2> QED BY <2>2, <2>3, <2>4, <2>5, <2>6, <2>7, <2>8
<1>14. ASSUME NEW tx \in Txn PROVE PayloadInv(tx)
  <2>1. ~Asks(tx) /\ ~Reports(tx) /\ ~Responds(tx) /\ ~EndsReq(tx) /\ \A q \in Peq : tx \notin Queued(q)
    BY <1>9, <1>13, Zenon DEF Asks, Reports, Responds, EndsReq
  <2>2. OneHand(tx)
    BY <1>13, Zenon DEF OneHand
  <2>3. Contents(tx)
    <3> HIDE DEF Held, Pooled, Asked, CarriedOut, Outgoing, Incoming, Returning, Closing, Known, Port
    <3> QED BY <1>5, <1>13 DEF Contents
  <2>4. InTransit(tx) /\ InQueues(tx)
    BY <2>1, Zenon DEF InTransit, InQueues
  <2>5. Tracking(tx)
    <3> HIDE DEF Known, Tracked, Responding, Sending, Heard, Telling, About
    <3> QED BY <1>13 DEF Tracking
  <2> QED BY <2>2, <2>3, <2>4, <2>5, Zenon DEF PayloadInv
<1>15. ASSUME NEW n \in Initiator PROVE Accounted(n, Away(n), HeldBy(n))
  <2>1. Away(n) = {} /\ HeldBy(n) = {}
    <3> HIDE DEF InHand, Held
    <3> QED BY <1>13, OwnerFacts DEF Away, HeldBy
  <2> QED BY <1>2, <2>1
<1> HIDE DEF Types, Calls, Accounted, PayloadInv, Once, Held, Away, HeldBy
<1> QED BY <1>8, <1>9, <1>10, <1>12, <1>13, <1>14, <1>15 DEF AtCore

\* The invariant is inductive.
LEMMA AtCoreNext == AtCore /\ [Next]_vars => AtCore'
<1> SUFFICES ASSUME AtCore, [Next]_vars PROVE AtCore'
  OBVIOUS
<1> HIDE DEF AtCore
<1>1. CASE UNCHANGED vars
  BY <1>1, StutterCore
<1>2. CASE Scheduler /\ UNCHANGED <<tg, ini, bus, tgt>>
  <2>1. CASE Dispatch
    BY <1>2, <2>1, WaitingSteps
  <2>2. CASE DeltaCycle \/ AdvanceTime
    BY <1>2, <2>2, PassingSteps
  <2> QED BY <1>2, <2>1, <2>2 DEF Scheduler
<1>3. ASSUME NEW n \in Initiator, TgStep(n), UNCHANGED <<ini, bus, tgt>> PROVE AtCore'
  <2>1. CASE Issue(n)
    BY <1>3, <2>1, IssueCore
  <2>2. CASE Get(n)
    BY <1>3, <2>2, GetCore
  <2>3. CASE Drained(n)
    BY <1>3, <2>3, DrainedCore
  <2>4. CASE Skip(n) \/ PutBlocks(n) \/ Check(n) \/ GetBlocks(n) \/ Drain(n) \/ Put(n)
    BY <1>3, <2>4, GeneratorQuiet
  <2> QED BY <1>3, <2>1, <2>2, <2>3, <2>4, Zenon DEF TgStep
<1>4. ASSUME NEW n \in Initiator, IniStep(n), UNCHANGED <<tg, bus, tgt>> PROVE AtCore'
  BY <1>4, InitiatorCore
<1>5. CASE BusStep /\ UNCHANGED <<tg, ini, tgt>>
  BY <1>5, BusCore
<1>6. ASSUME NEW m \in Target, TgtStep(m), UNCHANGED <<tg, ini, bus>> PROVE AtCore'
  BY <1>6, TargetCore
<1> QED BY <1>1, <1>2, <1>3, <1>4, <1>5, <1>6, Zenon DEF Next, Step

\* The payloads are accounted for, each in one place with what belongs there, and the
\* bus tracks those that wait for a response: AtCore.
THEOREM AtCoreInvariant == Spec => []AtCore
<1>1. Init => AtCore
  BY AtCoreInit
<1> QED BY <1>1, AtCoreNext, PTL DEF Spec

-----------------------------------------------------------------------------
(* What follows from the invariant *)

\* The reference counts add up: RefCounts.
THEOREM AtRefCounts == Spec => []RefCounts
<1>1. AtCore => RefCounts
  <2> SUFFICES ASSUME AtCore, NEW n \in Initiator
               PROVE  /\ \A tx \in Own(n) : Held(tx) \in {0, 1}
                      /\ tg[n].active = Cardinality({tx \in Own(n) : Held(tx) = 1})
                      /\ IsInjective(pool[n]) /\ Range(pool[n]) = {tx \in Own(n) : gp[tx].rc = 0}
    BY DEF RefCounts
  <2>1. Own(n) = Payloads(n)
    BY DEF Own, Payloads
  <2>2. Accounted(n, Away(n), HeldBy(n))
    BY DEF AtCore
  <2>3. /\ pool[n] \in Line(Payloads(n)) /\ tg[n].active = Cardinality(HeldBy(n))
    BY <2>2 DEF Accounted
  <2>4. \A tx \in Payloads(n) : Held(tx) \in {0, 1} /\ (tx \in Range(pool[n]) <=> gp[tx].rc = 0)
    <3> SUFFICES ASSUME NEW tx \in Payloads(n) PROVE Held(tx) \in {0, 1} /\ (tx \in Range(pool[n]) <=> gp[tx].rc = 0)
      OBVIOUS
    <3>1. tx \in Txn /\ Owner(tx) = n
      BY OwnerFacts
    <3>2. PayloadInv(tx)
      BY <3>1 DEF AtCore
    <3> HIDE DEF Held
    <3> QED BY <3>1, <3>2 DEF PayloadInv, Contents, Pooled
  <2>5. IsInjective(pool[n]) /\ Range(pool[n]) \subseteq Payloads(n)
    BY <2>3, RangeOfLine DEF Line
  <2> HIDE DEF Held, Payloads
  <2> QED BY <2>1, <2>3, <2>4, <2>5, Zenon DEF HeldBy
<1> QED BY <1>1, AtCoreInvariant, PTL

\* The bus remembers who waits for a response: TrackingAgrees.
THEOREM AtTrackingAgrees == ASSUME Wiring = "bus" PROVE Spec => []TrackingAgrees
<1>1. AtCore => TrackingAgrees
  <2> SUFFICES ASSUME AtCore, NEW tx \in Txn, link.status = "none" \/ link.txn # tx
               PROVE  Known(tx) /\ bus.pending[tx].from # 0 <=> ini[Owner(tx)].map[tx] \in {"ACCEPTED", "END_REQ"}
    BY DEF TrackingAgrees
  <2>1. Tracking(tx) /\ IniOK
    BY DEF AtCore, PayloadInv, Types
  <2>2. ~About(tx)
    <3>1. CASE link.status = "none"
      <4>1. link \notin LinkShape
        BY <3>1 DEF LinkShape
      <4> HIDE DEF LinkShape, NoCall
      <4> QED BY <4>1 DEF AtCore, Calls, About
    <3>2. CASE link.txn # tx
      BY <3>2 DEF About
    <3> QED BY <3>1, <3>2
  <2>3. ~Telling(tx)
    BY <2>2, Zenon DEF Telling, Responds
  <2>4. PICK n \in Initiator : n = Owner(tx) /\ tx \in Payloads(n)
    BY OwnerFacts
  <2>5. ini[n].map[tx] \in {"absent", "ACCEPTED", "END_REQ", "UPDATED"}
    <3> HIDE DEF Payloads
    <3> QED BY <2>1, <2>4 DEF IniOK, IniShape
  <2>6. Tracked(tx) <=> Heard(tx)
    <3> HIDE DEF Tracked, Heard, Telling, About, Known, Sending, Responding
    <3> QED BY <2>1, <2>2, <2>3 DEF Tracking
  <2>7. ini[Owner(tx)].map[tx] # "UPDATED" /\ (Tracked(tx) => Known(tx))
    <3> HIDE DEF Tracked, Heard, Telling, About, Known, Sending, Responding
    <3> QED BY <2>1 DEF Tracking
  <2> QED BY <2>4, <2>5, <2>6, <2>7 DEF Tracked, Heard
<1> QED BY <1>1, AtCoreInvariant, PTL

-----------------------------------------------------------------------------
(* The platform implements the memory service *)

\* What the refinement mapping makes of the memories and of the payloads.
Words == [m \in Target |-> tgt[m].mem]
Requests == [tx \in Txn |-> Carried(tx)]

\* What a payload carries stays while its fields, the generator's reference and pass do.
LEMMA CarriedSame ==
  ASSUME NEW tx \in Txn, gp'[tx].cmd = gp[tx].cmd, gp'[tx].addr = gp[tx].addr, gp'[tx].data = gp[tx].data,
         gp'[tx].status = gp[tx].status, Held(tx)' = Held(tx),
         Held(tx) # 0 => tg'[Owner(tx)].pass = tg[Owner(tx)].pass
  PROVE  Carried(tx)' = Carried(tx)
<1> HIDE DEF Held
<1> QED BY DEF Carried

\* So it does in a step that leaves the payload and the bus alone.
LEMMA CarriedFrame ==
  ASSUME NEW tx \in Txn, gp'[tx] = gp[tx], bus' = bus, Held(tx) # 0 => tg'[Owner(tx)].pass = tg[Owner(tx)].pass
  PROVE  Carried(tx)' = Carried(tx)
<1>1. Held(tx)' = Held(tx)
  BY DEF Held, BusHolds, Known
<1> HIDE DEF Held
<1> QED BY <1>1, CarriedSame

\* A step that changes no payload and no word.
LEMMA ServiceStutters ==
  ASSUME gp' = gp, bus' = bus, \A m \in Target : tgt'[m].mem = tgt[m].mem,
         \A tx \in Txn : Held(tx) # 0 => tg'[Owner(tx)].pass = tg[Owner(tx)].pass
  PROVE  Words' = Words /\ Requests' = Requests
<1>1. \A tx \in Txn : Carried(tx)' = Carried(tx)
  <2> HIDE DEF Held, Carried
  <2> QED BY CarriedFrame
<1> HIDE DEF Carried
<1> QED BY <1>1 DEF Words, Requests

\* A step that changes one payload.
LEMMA RequestsChange ==
  ASSUME NEW tx \in Txn, \A u \in Txn : u # tx => gp'[u] = gp[u], bus' = bus,
         \A u \in Txn : tg'[Owner(u)].pass = tg[Owner(u)].pass
  PROVE  Requests' = [Requests EXCEPT ![tx] = Carried(tx)'] /\ Requests'[tx] = Carried(tx)'
<1>1. \A u \in Txn : u # tx => Carried(u)' = Carried(u)
  <2> HIDE DEF Held, Carried
  <2> QED BY CarriedFrame
<1> HIDE DEF Carried
<1> QED BY <1>1, Zenon DEF Requests

\* The generators issue free payloads and accept those that were served.
LEMMA GeneratorService ==
  ASSUME AtCore, NEW n \in Initiator, TgStep(n), UNCHANGED <<ini, bus, tgt>>
  PROVE  \/ \E tx \in Txn : Memories!Issue(tx) \/ Memories!Accept(tx)
         \/ Words' = Words /\ Requests' = Requests
<1>1. Shapes /\ Words' = Words
  BY DEF AtCore, Types, Words
<1>2. CASE Issue(n)
  <2>1. PICK t : t = Head(pool[n])
    OBVIOUS
  <2>2. /\ AtCore' /\ t \in Txn /\ Owner(t) = n /\ Held(t) = 0 /\ Held(t)' = 1
        /\ gp' = [gp EXCEPT ![t] = gp'[t]] /\ gp'[t].status = "incomplete"
        /\ gp'[t].cmd \in {"read", "write"} /\ gp'[t].addr \in Addresses /\ gp'[t].data \in Word
        /\ \A m \in Initiator : tg'[m].pass = tg[m].pass
    <3> HIDE DEF AtCore, Held, Issue
    <3> QED BY <1>2, <2>1, IssueCore
  <2>3. /\ Requests' = [Requests EXCEPT ![t] = Carried(t)'] /\ Requests'[t] = Carried(t)'
    <3>1. (\A u \in Txn : u # t => gp'[u] = gp[u]) /\ \A u \in Txn : tg'[Owner(u)].pass = tg[Owner(u)].pass
      BY <1>1, <2>2, OwnerFacts DEF AtCore, Types, GpOK
    <3> HIDE DEF Requests, Carried
    <3> QED BY <2>2, <3>1, RequestsChange
  <2>4. Requests[t] = Memories!Idle
    <3> HIDE DEF Held
    <3> QED BY <2>2 DEF Requests, Carried, Memories!Idle
  <2>5. PICK r : r = Carried(t)'
    OBVIOUS
  <2>6. r \in Memories!Request
    <3>1. PICK port \in Target : port = Where(t)'
      <4>1. Where(t)' = Where(t)
        BY <2>2, OwnerFacts DEF Where, Port
      <4>2. Where(t) \in Target
        BY <1>1, <2>2, PortType
      <4> QED BY <4>1, <4>2
    <3>2. PICK d \in Word : d = IF gp'[t].cmd = "write" THEN gp'[t].data ELSE 0
      <4>1. 0 \in Word
        BY AtNumbers DEF Word
      <4> QED BY <2>2, <4>1
    <3>3. r = [phase |-> "issued", cmd |-> gp'[t].cmd, target |-> port, addr |-> gp'[t].addr, data |-> d]
      <4> HIDE DEF Held
      <4> QED BY <2>2, <2>5, <3>1, <3>2 DEF Carried, Where, Port
    <3>4. gp'[t].addr \in 1..MemorySize
      BY <2>2, AtNumbers
    <3> QED BY <2>2, <3>2, <3>3, <3>4 DEF Memories!Request, Word
  <2>7. Memories!Issue(t)
    <3> HIDE DEF Carried
    <3> QED BY <1>1, <2>3, <2>4, <2>5, <2>6, Zenon DEF Memories!Issue, Words, Requests
  <2> QED BY <2>2, <2>7
<1>3. CASE Get(n)
  <2>1. PICK t : t = Head(fifo[RspCh(n)].items)
    OBVIOUS
  <2>2. /\ AtCore' /\ t \in Txn /\ Owner(t) = n /\ Held(t) = 1 /\ Held(t)' = 0 /\ CarriedOut(t)
        /\ gp' = [gp EXCEPT ![t] = gp'[t]]
        /\ \A m \in Initiator : tg'[m].pass = tg[m].pass
    <3> HIDE DEF AtCore, Held, Get, CarriedOut
    <3> QED BY <1>3, <2>1, GetCore
  <2>3. Requests' = [Requests EXCEPT ![t] = Carried(t)']
    <3>1. (\A u \in Txn : u # t => gp'[u] = gp[u]) /\ \A u \in Txn : tg'[Owner(u)].pass = tg[Owner(u)].pass
      BY <1>1, <2>2, OwnerFacts DEF AtCore, Types, GpOK
    <3> HIDE DEF Requests, Carried
    <3> QED BY <2>2, <3>1, RequestsChange
  <2>4. Carried(t)' = Memories!Idle /\ Requests[t].phase = "served"
    <3> HIDE DEF Held
    <3> QED BY <2>2 DEF Requests, Carried, CarriedOut, Memories!Idle
  <2>5. Memories!Accept(t)
    <3> HIDE DEF Carried
    <3> QED BY <1>1, <2>3, <2>4 DEF Memories!Accept, Words, Requests
  <2> QED BY <2>2, <2>5
<1>4. CASE Drained(n)
  <2>1. gp' = gp /\ \A tx \in Txn : Held(tx) # 0 => tg'[Owner(tx)].pass = tg[Owner(tx)].pass
    <3> HIDE DEF AtCore, Held, Drained
    <3> QED BY <1>4, DrainedCore
  <2> HIDE DEF Held, Words, Requests
  <2> QED BY <2>1, ServiceStutters
<1>5. CASE Skip(n) \/ PutBlocks(n) \/ Check(n) \/ GetBlocks(n) \/ Drain(n) \/ Put(n)
  <2>1. PICK a, h : Accounted(n, a, h)
    BY DEF AtCore
  <2>2. gp' = gp /\ \A m \in Initiator : tg'[m].pass = tg[m].pass
    <3>1. gp' = gp /\ tg' = [tg EXCEPT ![n] = tg'[n]] /\ tg'[n].pass = tg[n].pass
      <4>1. CASE Put(n)
        BY <1>1, <2>1, <4>1, PutStep
      <4>2. CASE Skip(n) \/ PutBlocks(n) \/ Check(n) \/ GetBlocks(n) \/ Drain(n)
        BY <1>1, <2>1, <4>2, QuietStep
      <4> QED BY <1>5, <4>1, <4>2
    <3> QED BY <1>1, <3>1 DEF Shapes
  <2>3. \A tx \in Txn : tg'[Owner(tx)].pass = tg[Owner(tx)].pass
    BY <2>2, OwnerFacts
  <2> HIDE DEF Held, Words, Requests
  <2> QED BY <2>2, <2>3, ServiceStutters
<1> QED BY <1>2, <1>3, <1>4, <1>5, Zenon DEF TgStep

\* A transaction is carried out at the target of its payload.
LEMMA OperationService ==
  ASSUME AtCore, NEW m \in Target, NEW t \in Txn, m = Where(t), Asked(t), Waiting(t),
         gp' = OperationGp(tgt[m].mem, t), tgt'[m].mem = OperationMem(tgt[m].mem, t),
         \A k \in Target : k # m => tgt'[k].mem = tgt[k].mem, UNCHANGED <<tg, bus>>
  PROVE  Memories!Read(t) \/ Memories!Write(t)
<1>0. GpOK /\ TgtOK
  BY DEF AtCore, Types
<1>1. Held(t) = 1 /\ gp[t].cmd \in {"read", "write"} /\ gp[t].addr \in Addresses
  <2> HIDE DEF AtCore, PayloadInv, Held, Asked, CarriedOut, InHand, Ending, Returning, Closing, Waiting
  <2> QED BY WaitingHand
<1>2. PICK w : w = tgt[m].mem
  OBVIOUS
<1>3. /\ CarriedOut(t)' /\ gp'[t].rc = gp[t].rc /\ gp'[t].cmd = gp[t].cmd
      /\ gp'[t].addr = gp[t].addr /\ \A u \in Txn : u # t => gp'[u] = gp[u]
      /\ gp'[t].data = IF gp[t].cmd = "read" THEN w[gp[t].addr] ELSE gp[t].data
      /\ gp[t].cmd = "read" => tgt'[m].mem = w
      /\ gp[t].cmd = "write" => tgt'[m].mem = [w EXCEPT ![gp[t].addr] = gp[t].data]
  <2> HIDE DEF GpOK, TgtOK, OperationGp, OperationMem, CarriedOut
  <2> QED BY <1>0, <1>1, <1>2, Operates
<1>4. Held(t)' = 1 /\ Where(t)' = m
  BY <1>1, <1>3 DEF Held, BusHolds, Known, Where, Port
<1>5. /\ Requests' = [Requests EXCEPT ![t] = Carried(t)']
  <2> HIDE DEF Requests, Carried
  <2> QED BY <1>3, RequestsChange
<1>6. PICK g, r : g = gp[t] /\ r = Requests[t]
  OBVIOUS
<1>7. r = [phase |-> "issued", cmd |-> g.cmd, target |-> m, addr |-> g.addr,
           data |-> IF g.cmd = "write" THEN g.data ELSE 0]
  <2>1. r = Carried(t) /\ Held(t) # 0 /\ gp[t].status # "OK"
    <3> HIDE DEF Held, Carried
    <3> QED BY <1>1, <1>6 DEF Requests, Asked
  <2> HIDE DEF Held
  <2> QED BY <1>6, <2>1 DEF Carried, Where, Port
<1>8. Carried(t)' = [phase |-> "served", cmd |-> g.cmd, target |-> m, addr |-> g.addr,
                     data |-> IF g.cmd = "read" THEN w[g.addr] ELSE g.data]
  <2>1. PICK d : d = IF g.cmd = "read" THEN w[g.addr] ELSE g.data
    OBVIOUS
  <2>2. /\ gp'[t].status = "OK" /\ gp'[t].cmd = g.cmd /\ gp'[t].addr = g.addr /\ gp'[t].data = d
    BY <1>3, <1>6, <2>1 DEF CarriedOut
  <2>3. Held(t)' # 0 /\ (IF Direct THEN Owner(t) - 1 ELSE PortOf(tg'[Owner(t)].pass)) = m
    <3> HIDE DEF Held
    <3> QED BY <1>4 DEF Where, Port
  <2> HIDE DEF Held
  <2> QED BY ONLY <2>1, <2>2, <2>3, Zenon DEF Carried
<1> HIDE DEF Carried
<1>9. CASE g.cmd = "read"
  <2>1. Words' = Words
    BY <1>2, <1>3, <1>6, <1>9 DEF Words
  <2>2. PICK v : v = Words[r.target][r.addr]
    OBVIOUS
  <2>3. /\ r = [phase |-> "issued", cmd |-> "read", target |-> m, addr |-> g.addr, data |-> 0]
        /\ Carried(t)' = [phase |-> "served", cmd |-> "read", target |-> m, addr |-> g.addr, data |-> v]
    BY <1>2, <1>7, <1>8, <1>9, <2>2 DEF Words
  <2>4. Carried(t)' = [r EXCEPT !.phase = "served", !.data = v]
    <3> DEFINE s == [r EXCEPT !.phase = "served"]
    <3>1. s = [phase |-> "served", cmd |-> "read", target |-> m, addr |-> g.addr, data |-> 0]
      BY <2>3
    <3>2. [r EXCEPT !.phase = "served", !.data = v] = [s EXCEPT !.data = v]
      OBVIOUS
    <3> HIDE DEF s
    <3>3. [s EXCEPT !.data = v] = [phase |-> "served", cmd |-> "read", target |-> m, addr |-> g.addr, data |-> v]
      BY <3>1
    <3> QED BY <2>3, <3>2, <3>3, Zenon
  <2>5. Requests' = [Requests EXCEPT ![t].phase = "served", ![t].data = v]
    BY <1>5, <1>6, <2>4, Zenon
  <2>6. Memories!Read(t) <=>
          /\ Requests[t].phase = "issued" /\ Requests[t].cmd = "read"
          /\ Requests' = [Requests EXCEPT ![t].phase = "served",
                                          ![t].data = Words[Requests[t].target][Requests[t].addr]]
          /\ Words' = Words
    BY DEF Memories!Read, Words, Requests
  <2>7. r.phase = "issued" /\ r.cmd = "read"
    BY <2>3
  <2>8. Requests' = [Requests EXCEPT ![t].phase = "served",
                                     ![t].data = Words[Requests[t].target][Requests[t].addr]]
    BY <1>6, <2>2, <2>5, Zenon
  <2> QED BY <1>6, <2>1, <2>6, <2>7, <2>8, Zenon
<1>10. CASE g.cmd = "write"
  <2>1. Words' = [Words EXCEPT ![r.target][r.addr] = r.data]
    <3>1. r.target = m /\ r.addr = g.addr /\ r.data = g.data /\ Words[m] = w
      BY <1>2, <1>7, <1>10 DEF Words
    <3>2. tgt'[m].mem = [w EXCEPT ![g.addr] = g.data]
      BY <1>3, <1>6, <1>10
    <3> QED BY <3>1, <3>2, Zenon DEF Words
  <2>2. Carried(t)' = [r EXCEPT !.phase = "served"]
    BY <1>7, <1>8, <1>10
  <2>3. Requests' = [Requests EXCEPT ![t].phase = "served"]
    BY <1>5, <1>6, <2>2
  <2>4. Memories!Write(t) <=>
          /\ Requests[t].phase = "issued" /\ Requests[t].cmd = "write"
          /\ Words' = [Words EXCEPT ![Requests[t].target][Requests[t].addr] = Requests[t].data]
          /\ Requests' = [Requests EXCEPT ![t].phase = "served"]
    BY DEF Memories!Write, Words, Requests
  <2>5. r.phase = "issued" /\ r.cmd = "write"
    BY <1>7, <1>10
  <2> QED BY <1>6, <2>1, <2>3, <2>4, <2>5
<1> QED BY <1>1, <1>6, <1>9, <1>10

\* The targets carry transactions out.
LEMMA TargetService ==
  ASSUME AtCore, NEW m \in Target, TgtStep(m), UNCHANGED <<tg, ini, bus>>
  PROVE  (\E t \in Txn : Memories!Read(t) \/ Memories!Write(t)) \/ (Words' = Words /\ Requests' = Requests)
<1>0. TgtOK /\ Calls
  BY DEF AtCore, Types
<1>1. ASSUME NEW t, tgt' = [tgt EXCEPT ![m].count = Counted(m), ![m].mem = OperationMem(tgt[m].mem, t)]
             \/ tgt' = [tgt EXCEPT ![m].rpc = "sent", ![m].mem = OperationMem(tgt[m].mem, t)]
      PROVE  tgt'[m].mem = OperationMem(tgt[m].mem, t) /\ \A k \in Target : k # m => tgt'[k].mem = tgt[k].mem
  <2>1. PICK s \in TgtShape : s = tgt[m]
    BY <1>0 DEF TgtOK
  <2>2. PICK w, c : w = OperationMem(tgt[m].mem, t) /\ c = Counted(m)
    OBVIOUS
  <2>3. tgt' = [tgt EXCEPT ![m].count = c, ![m].mem = w] \/ tgt' = [tgt EXCEPT ![m].rpc = "sent", ![m].mem = w]
    <3> HIDE DEF OperationMem, Counted
    <3> QED BY <1>1, <2>2
  <2>4. DOMAIN tgt = Target /\ DOMAIN s = {"count", "mem", "rpc", "epc"}
    BY <1>0 DEF TgtOK, TgtShape
  <2>5. tgt'[m].mem = w /\ \A k \in Target : k # m => tgt'[k].mem = tgt[k].mem
    BY ONLY m \in Target, <2>1, <2>3, <2>4
  <2> QED BY <2>2, <2>5
<1>2. CASE BeginReqCompletes(m)
  <2>1. PICK t : t = link.txn
    OBVIOUS
  <2>2. t \in Txn /\ Asked(t) /\ Waiting(t) /\ m = Where(t)
    <3>1. Called(ToTarget(m)) /\ link.phase = "BEGIN_REQ"
      BY <1>2 DEF BeginReqCompletes
    <3> HIDE DEF AtCore, NoCall, Called, PayloadInv, Asks, Asked, Waiting, Where, Queued, Peq, Sending, Telling
    <3> QED BY <2>1, <3>1, AskedFacts
  <2>3. /\ gp' = OperationGp(tgt[m].mem, t)
        /\ tgt' = [tgt EXCEPT ![m].count = Counted(m), ![m].mem = OperationMem(tgt[m].mem, t)]
    BY <1>2, <2>1 DEF BeginReqCompletes
  <2> HIDE DEF AtCore, Asked, Waiting, Where, OperationGp, OperationMem
  <2>4. Memories!Read(t) \/ Memories!Write(t)
    BY <1>1, <2>2, <2>3, OperationService
  <2> QED BY <2>2, <2>4
<1>3. CASE BeginResp(m)
  <2>1. PICK q \in Peq : q = ResponsePeq(m)
    BY AtNames
  <2>2. PICK t : t = Head(peq[q]).txn
    OBVIOUS
  <2>3. /\ simc.cur = BeginResponse(m) /\ tgt[m].rpc = "next" /\ PeqDue(q) /\ gp' = OperationGp(tgt[m].mem, t)
        /\ tgt' = [tgt EXCEPT ![m].rpc = "sent", ![m].mem = OperationMem(tgt[m].mem, t)]
    BY <1>3, <2>1, <2>2 DEF BeginResp, Executing
  <2>4. link = NoCall
    <3>1. ~Calling(simc.cur)
      BY <2>3, Idle
    <3> HIDE DEF Calls, Calling, Process, NoCall
    <3> QED BY <1>0, <3>1, NotCalling
  <2>5. q \in {"end_request_PEQ", "response_PEQ"} \X Target /\ q[2] = m /\ q[1] # "send_end_rsp_PEQ"
    BY <2>1 DEF ResponsePeq
  <2>6. t \in Txn /\ Fits(q, t) /\ Waiting(t)
    <3> HIDE DEF AtCore, NoCall, Peq, PeqDue, Queued, PayloadInv, Fits, Waiting, Heard, Sending, Held, Telling, Closing, Responding,
                 Asked, CarriedOut, Known, Tracked
    <3> QED BY <2>2, <2>3, <2>4, <2>5, HeadFacts
  <2>7. m = Where(t) /\ Asked(t)
    <3> HIDE DEF Asked, Where
    <3> QED BY <2>5, <2>6 DEF Fits
  <2> HIDE DEF AtCore, Asked, Waiting, Where, OperationGp, OperationMem
  <2>8. Memories!Read(t) \/ Memories!Write(t)
    BY <1>1, <2>3, <2>6, <2>7, OperationService
  <2> QED BY <2>6, <2>8
<1>4. CASE BeginReqUpdates(m) \/ BeginReqAccepted(m) \/ EndResp(m) \/ BeginRespAnswered(m) \/ BeginResponseReturns(m)
           \/ EndReq(m) \/ EndReqAnswered(m) \/ EndRequestReturns(m)
  <2>1. gp' = gp
    BY <1>4, Zenon DEF BeginReqUpdates, BeginReqAccepted, EndResp, BeginRespAnswered, BeginResponseReturns,
                       EndReq, EndReqAnswered, EndRequestReturns
  <2>2. \A k \in Target : tgt'[k].mem = tgt[k].mem
    <3>1. \/ tgt' = tgt \/ tgt' = [tgt EXCEPT ![m].count = Counted(m)]
          \/ tgt' = [tgt EXCEPT ![m].rpc = "next"] \/ tgt' = [tgt EXCEPT ![m].epc = "sent"]
          \/ tgt' = [tgt EXCEPT ![m].epc = "next"]
      BY <1>4, Zenon DEF BeginReqUpdates, BeginReqAccepted, EndResp, BeginRespAnswered, BeginResponseReturns,
                         EndReq, EndReqAnswered, EndRequestReturns
    <3>2. \A c : tgt' = [tgt EXCEPT ![m].count = c] \/ tgt' = [tgt EXCEPT ![m].rpc = c] \/ tgt' = [tgt EXCEPT ![m].epc = c]
                 => \A k \in Target : tgt'[k].mem = tgt[k].mem
      <4> HIDE DEF Counted
      <4> QED BY <1>0 DEF TgtOK, TgtShape
    <3> HIDE DEF Counted
    <3> QED BY <3>1, <3>2
  <2> HIDE DEF Held, Words, Requests
  <2> QED BY <2>1, <2>2, ServiceStutters
<1> QED BY <1>2, <1>3, <1>4, Zenon DEF TgtStep

\* The bus carries payloads, not what they carry.
LEMMA BusService ==
  ASSUME AtCore, BusStep, UNCHANGED <<tg, ini, tgt>>
  PROVE  Words' = Words /\ Requests' = Requests
<1>0. GpOK /\ BusOK /\ Words' = Words
  BY DEF AtCore, Types, Words
<1>1. SUFFICES \A tx \in Txn : Carried(tx)' = Carried(tx)
  <2> HIDE DEF Carried
  <2> QED BY <1>0 DEF Requests
<1>2. SUFFICES ASSUME NEW tx \in Txn
               PROVE  /\ gp'[tx].cmd = gp[tx].cmd /\ gp'[tx].addr = gp[tx].addr /\ gp'[tx].data = gp[tx].data
                      /\ gp'[tx].status = gp[tx].status /\ Held(tx)' = Held(tx)
  <2> HIDE DEF Held, Carried
  <2> QED BY CarriedSame
<1>3. PICK p \in [Txn -> PendingShape], x \in BusThreadShape, y \in BusThreadShape : bus = [pending |-> p, req |-> x, rsp |-> y]
  BY <1>0, BusParts
<1>4. PICK g \in GpShape : g = gp[tx]
  BY <1>0 DEF GpOK
<1>5. ASSUME gp'[tx].rc = gp[tx].rc, bus'.pending[tx].known = bus.pending[tx].known PROVE Held(tx)' = Held(tx)
  BY <1>5 DEF Held, BusHolds, Known
<1>6. ASSUME NEW n \in Initiator, BusBeginReq(n)
      PROVE  /\ gp'[tx].cmd = gp[tx].cmd /\ gp'[tx].addr = gp[tx].addr /\ gp'[tx].data = gp[tx].data
             /\ gp'[tx].status = gp[tx].status /\ Held(tx)' = Held(tx)
  <2>1. PICK t : t = link.txn
    OBVIOUS
  <2>2. /\ Called(<<"bus_fw", n>>) /\ link.phase = "BEGIN_REQ" /\ gp' = Acquired(gp, t)
        /\ bus' = [bus EXCEPT !.pending[t] = [from |-> n, to |-> -1, known |-> TRUE]]
    BY <1>6, <2>1 DEF BusBeginReq
  <2>3. /\ link # NoCall /\ t \in Txn /\ link.callee = <<"bus_fw", n>> /\ link.status = "called"
    <3> HIDE DEF AtCore, NoCall, Called, Sending
    <3> QED BY <2>1, <2>2, BusCalledForward
  <2>4. ~Known(t)
    <3>1. Asks(t) /\ link.callee[1] = "bus_fw"
      BY <2>1, <2>2, <2>3 DEF Asks, About
    <3> HIDE DEF Asks, Waiting, Asked, Port, Known
    <3> QED BY <2>3, <3>1 DEF AtCore, PayloadInv, InTransit
  <2>5. gp'[tx] = IF tx = t THEN [g EXCEPT !.rc = @ + 1] ELSE g
    BY <1>0, <1>4, <2>2 DEF GpOK, Acquired
  <2>6. bus'.pending[tx].known = (tx = t \/ bus.pending[tx].known)
    BY <1>3, <2>2, <2>3 DEF PendingShape
  <2>7. CASE tx = t
    <3>1. PICK c \in Nat : c = gp[tx].rc
      BY <1>4 DEF GpShape
    <3>2. gp'[tx].rc = c + 1 /\ bus'.pending[tx].known /\ ~bus.pending[tx].known
      BY <1>4, <2>4, <2>5, <2>6, <2>7, <3>1 DEF Known, GpShape
    <3>3. Held(tx)' = Held(tx)
      BY <3>1, <3>2 DEF Held, BusHolds, Known
    <3> QED BY <1>4, <2>5, <2>7, <3>3 DEF GpShape
  <2>8. CASE tx # t
    BY <1>3, <1>4, <1>5, <2>5, <2>6, <2>8 DEF PendingShape
  <2> QED BY <2>7, <2>8
<1>7. CASE ResponseOver
  <2>1. PICK t : t = bus.rsp.txn
    OBVIOUS
  <2>2. Forget(bus.rsp.txn) /\ bus.rsp.pc \in Busy /\ UNCHANGED <<tg, fifo>> /\ gp' = Released(gp, t)
    BY <1>7, <2>1 DEF ResponseOver, Forget, Busy
  <2>3. /\ Held(t)' = Held(t)
        /\ \A u \in Txn : u # t => gp'[u] = gp[u] /\ bus'.pending[u].known = bus.pending[u].known
    <3> HIDE DEF AtCore, PayloadInv, Known, Tracked, GpOK, BusOK, Held, Pooled, Shapes, Responding, Accounted, Away, HeldBy, Forget
    <3> QED BY <2>1, <2>2, ForgetParts
  <2>4. gp'[tx] = IF tx = t THEN [g EXCEPT !.rc = @ - 1] ELSE g
    BY <1>0, <1>4, <2>2 DEF GpOK, Released
  <2> HIDE DEF Held
  <2>5. Held(tx)' = Held(tx)
    BY <1>5, <2>3
  <2> QED BY <1>4, <2>4, <2>5 DEF GpShape
<1>8. CASE SendToTarget
  <2>1. PICK t, port : /\ gp' = [gp EXCEPT ![t].port = 0]
                       /\ bus' = [bus EXCEPT !.req = [pc |-> "sent", txn |-> t], !.pending[t].to = port]
    BY <1>8 DEF SendToTarget
  <2>2. gp'[tx] = IF tx = t THEN [g EXCEPT !.port = 0] ELSE g
    BY <1>0, <1>4, <2>1 DEF GpOK
  <2>3. bus'.pending[tx].known = bus.pending[tx].known
    BY <1>3, <2>1 DEF PendingShape
  <2> QED BY <1>4, <1>5, <2>2, <2>3 DEF GpShape
<1>9. CASE \/ \E n \in Initiator : BusEndResp(n)
           \/ \E m \in Target : targetNBTransport(m)
           \/ RequestWaits \/ ResponseWaits \/ RequestOngoing \/ RequestCompletedByTarget \/ PassEndReq
           \/ EndReqPassed \/ SendToInitiator \/ ResponseAnswered \/ PassEndResp
  <2>1. gp' = gp
    BY <1>9, Zenon DEF BusEndResp, targetNBTransport, RequestWaits, ResponseWaits, ThreadWaits, RequestOngoing,
       RequestCompletedByTarget, PassEndReq, EndReqPassed, SendToInitiator, ResponseAnswered, PassEndResp
  <2>2. \/ bus' = bus \/ \E c : bus' = [bus EXCEPT !.req.pc = c] \/ bus' = [bus EXCEPT !.rsp.pc = c]
        \/ \E t : bus' = [bus EXCEPT !.req.pc = "next", !.pending[t].to = -1]
        \/ \E t : bus' = [bus EXCEPT !.rsp = [pc |-> "sent", txn |-> t], !.pending[t].from = 0]
    BY <1>9, Zenon DEF BusEndResp, targetNBTransport, RequestWaits, ResponseWaits, ThreadWaits, RequestOngoing,
       RequestCompletedByTarget, PassEndReq, EndReqPassed, SendToInitiator, Answering, ResponseAnswered, PassEndResp
  <2>3. ASSUME NEW t PROVE [p EXCEPT ![t].to = -1][tx].known = p[tx].known /\ [p EXCEPT ![t].from = 0][tx].known = p[tx].known
    BY DEF PendingShape
  <2>4. \/ bus'.pending = p \/ \E t : bus'.pending = [p EXCEPT ![t].to = -1] \/ bus'.pending = [p EXCEPT ![t].from = 0]
    <3>1. CASE bus' = bus \/ \E c : bus' = [bus EXCEPT !.req.pc = c] \/ bus' = [bus EXCEPT !.rsp.pc = c]
      BY <1>3, <3>1
    <3>2. ASSUME NEW t, bus' = [bus EXCEPT !.req.pc = "next", !.pending[t].to = -1] PROVE bus'.pending = [p EXCEPT ![t].to = -1]
      BY <1>3, <3>2
    <3>3. ASSUME NEW t, bus' = [bus EXCEPT !.rsp = [pc |-> "sent", txn |-> t], !.pending[t].from = 0]
          PROVE  bus'.pending = [p EXCEPT ![t].from = 0]
      BY <1>3, <3>3
    <3> QED BY <2>2, <3>1, <3>2, <3>3, Zenon
  <2>5. bus'.pending[tx].known = bus.pending[tx].known
    BY <1>3, <2>3, <2>4
  <2> QED BY <1>5, <2>1, <2>5
<1> QED BY <1>6, <1>7, <1>8, <1>9 DEF BusStep

\* At the start the memories are zero and every payload is idle.
LEMMA ServiceInit == Init => Memories!Init
<1> SUFFICES ASSUME Init PROVE Memories!Init
  OBVIOUS
<1>1. (\A tx \in Txn : Held(tx) = 0) /\ \A m \in Target : tgt[m].mem = ZeroMemory
  <2> HIDE DEF Init, AtCore, Held
  <2> QED BY AtCoreInit
<1>2. Words = [m \in Target |-> [a \in 1..MemorySize |-> 0]]
  BY <1>1, Zenon DEF Words, ZeroMemory
<1>3. Requests = [tx \in Txn |-> Memories!Idle]
  <2> HIDE DEF Held
  <2> QED BY <1>1 DEF Requests, Carried, Memories!Idle
<1>4. Memories!Init <=> /\ Words = [m \in Target |-> [a \in 1..MemorySize |-> 0]]
                        /\ Requests = [tx \in Txn |-> Memories!Idle]
  BY DEF Memories!Init, Words, Requests
<1> QED BY <1>2, <1>3, <1>4

\* Every step of the platform is a step of the service, or none.
LEMMA ServiceNext ==
  ASSUME AtCore, [Next]_vars
  PROVE  \/ \E tx \in Txn : Memories!Issue(tx) \/ Memories!Write(tx) \/ Memories!Read(tx) \/ Memories!Accept(tx)
         \/ Words' = Words /\ Requests' = Requests
<1>1. ASSUME gp' = gp, UNCHANGED <<tg, bus, tgt>> PROVE Words' = Words /\ Requests' = Requests
  <2> HIDE DEF Held, Words, Requests
  <2> QED BY <1>1, ServiceStutters
<1>2. CASE UNCHANGED vars
  BY <1>1, <1>2 DEF vars, shared
<1>3. CASE Scheduler /\ UNCHANGED <<tg, ini, bus, tgt>>
  BY <1>1, <1>3 DEF Scheduler, AdvanceTime, Dispatch, DeltaCycle
<1>4. ASSUME NEW n \in Initiator, TgStep(n), UNCHANGED <<ini, bus, tgt>>
      PROVE  \/ \E tx \in Txn : Memories!Issue(tx) \/ Memories!Accept(tx)
             \/ Words' = Words /\ Requests' = Requests
  BY <1>4, GeneratorService
<1>5. ASSUME NEW n \in Initiator, IniStep(n), UNCHANGED <<tg, bus, tgt>> PROVE Words' = Words /\ Requests' = Requests
  <2>1. gp' = gp
    BY <1>5, Zenon DEF IniStep, GetRequestBlocks, SendRequest, AfterDelay, RequestCompleted, RequestUpdated,
       RequestAccepted, BwEndReq, BwBeginRespEnds, BwBeginResp, EndRspNext, EndRspSent, EndRspReturn
  <2> QED BY <1>1, <1>5, <2>1
<1>6. ASSUME BusStep, UNCHANGED <<tg, ini, tgt>> PROVE Words' = Words /\ Requests' = Requests
  BY <1>6, BusService
<1>7. ASSUME NEW m \in Target, TgtStep(m), UNCHANGED <<tg, ini, bus>>
      PROVE  (\E t \in Txn : Memories!Read(t) \/ Memories!Write(t)) \/ (Words' = Words /\ Requests' = Requests)
  BY <1>7, TargetService
<1> HIDE DEF Memories!Issue, Memories!Write, Memories!Read, Memories!Accept, Words, Requests
<1> QED BY <1>2, <1>3, <1>4, <1>5, <1>6, <1>7, Zenon DEF Next, Step

\* Over the bus or bound directly, in any mixture of initiators and targets and any
\* order of processes, each transaction is carried out once, on the word its address
\* names, before its generator accepts the response: ImplementsMemory.
THEOREM AtImplementsMemory == Spec => ImplementsMemory
<1>1. AtCore /\ [Next]_vars => [Memories!Next]_<<Words, Requests>>
  BY ServiceNext DEF Memories!Next
<1>2. ImplementsMemory <=> Memories!Init /\ [][Memories!Next]_<<Words, Requests>>
  BY DEF ImplementsMemory, Memories!Spec, Words, Requests
<1> QED BY <1>1, <1>2, AtCoreInvariant, ServiceInit, PTL DEF Spec

-----------------------------------------------------------------------------
(* The types of the platform *)

\* No fifo holds more than its places, stale or new, until a fatal report.
RoomOK == fatal \/ \A ch \in Channel : NumFree(ch) >= 0

\* The counts of a fifo.
LEMMA FifoCounts ==
  ASSUME AtCore, NEW ch \in Channel
  PROVE  /\ DOMAIN fifo = Channel
         /\ \E n \in Initiator : fifo[ch] \in FifoShape(n) /\ ch \in {ReqCh(n), RspCh(n)}
         /\ fifo[ch] = [items |-> fifo[ch].items, readable |-> fifo[ch].readable,
                        read |-> fifo[ch].read, written |-> fifo[ch].written]
         /\ fifo[ch].readable \in Nat /\ fifo[ch].read \in Nat /\ fifo[ch].written \in Nat
         /\ fifo[ch].read <= fifo[ch].readable /\ Range(fifo[ch].items) \subseteq Txn
         /\ Len(fifo[ch].items) = fifo[ch].readable - fifo[ch].read + fifo[ch].written
<1>1. PICK n \in Initiator : ch \in {ReqCh(n), RspCh(n)}
  BY DEF Channel, ReqCh, RspCh
<1>2. DOMAIN fifo = Channel /\ Accounted(n, Away(n), HeldBy(n))
  BY DEF AtCore, Types, Shapes
<1>3. fifo[ch] \in FifoShape(n)
  BY <1>1, <1>2 DEF Accounted
<1>4. PICK f \in FifoShape(n) : f = fifo[ch]
  BY <1>3
<1>5. /\ f = [items |-> f.items, readable |-> f.readable, read |-> f.read, written |-> f.written]
      /\ f.readable \in Nat /\ f.read \in Nat /\ f.written \in Nat /\ f.items \in Line(Payloads(n))
      /\ f.read <= f.readable /\ Len(f.items) = f.readable - f.read + f.written
  BY DEF FifoShape, FifoFields
<1>6. Range(f.items) \subseteq Txn
  BY <1>5, RangeOfLine, OwnerFacts
<1> QED BY <1>1, <1>2, <1>3, <1>4, <1>5, <1>6, Zenon

\* A step that reads no fifo's place away keeps the room: it leaves the fifos alone,
\* reads one, writes one that has a free place, or is the update.
LEMMA RoomKept ==
  ASSUME AtCore, RoomOK, ~fatal,
         \/ fifo' = fifo
         \/ \E ch \in Channel : fifo' = FifoRead(ch)
         \/ \E ch \in Channel : \E tx : fifo' = FifoWrite(ch, tx) /\ (fatal' \/ NumFree(ch) # 0)
         \/ fifo' = [ch \in Channel |-> Updated(fifo[ch])]
  PROVE  RoomOK'
<1> SUFFICES ASSUME ~fatal', NEW ch \in Channel PROVE NumFree(ch)' >= 0
  BY DEF RoomOK
<1> DEFINE f == fifo[ch]
           room(g) == FifoDepth - g.readable - g.written
<1>1. /\ DOMAIN fifo = Channel
      /\ f.readable \in Nat /\ f.read \in Nat /\ f.written \in Nat
      /\ Len(f.items) = f.readable - f.read + f.written
      /\ f = [items |-> f.items, readable |-> f.readable, read |-> f.read, written |-> f.written]
  BY FifoCounts
<1>2. NumFree(ch) >= 0 /\ NumFree(ch) = room(f) /\ NumFree(ch)' = room(fifo[ch]')
  BY DEF RoomOK, NumFree
<1>3. FifoDepth \in Nat
  BY DepthAssumption
<1>4. CASE fifo' = fifo
  BY <1>2, <1>4
<1>5. ASSUME NEW d \in Channel, fifo' = FifoRead(d) PROVE NumFree(ch)' >= 0
  <2>1. CASE d = ch
    <3>1. fifo[ch]' = [f EXCEPT !.items = Tail(@), !.read = @ + 1]
      BY <1>1, <1>5, <2>1, Zenon DEF FifoRead
    <3>2. fifo[ch]'.readable = f.readable /\ fifo[ch]'.written = f.written
      BY <1>1, <3>1, Zenon
    <3> QED BY <1>2, <3>2
  <2>2. CASE d # ch
    <3>1. fifo[ch]' = f
      BY <1>1, <1>5, <2>2, Zenon DEF FifoRead
    <3> QED BY <1>2, <3>1
  <2> QED BY <2>1, <2>2
<1>6. ASSUME NEW d \in Channel, NEW tx, fifo' = FifoWrite(d, tx), NumFree(d) # 0 PROVE NumFree(ch)' >= 0
  <2>1. CASE d = ch
    <3>1. fifo[ch]' = [f EXCEPT !.items = Append(@, tx), !.written = @ + 1]
      BY <1>1, <1>6, <2>1, Zenon DEF FifoWrite
    <3>2. fifo[ch]'.readable = f.readable /\ fifo[ch]'.written = f.written + 1
      BY <1>1, <3>1, Zenon
    <3> HIDE DEF f
    <3> QED BY <1>1, <1>2, <1>3, <1>6, <2>1, <3>2
  <2>2. CASE d # ch
    <3>1. fifo[ch]' = f
      BY <1>1, <1>6, <2>2, Zenon DEF FifoWrite
    <3> QED BY <1>2, <3>1
  <2> QED BY <2>1, <2>2
<1>7. CASE fifo' = [d \in Channel |-> Updated(fifo[d])]
  <2>1. fifo[ch]' = [f EXCEPT !.readable = Len(f.items), !.read = 0, !.written = 0]
    BY <1>7 DEF Updated
  <2>2. fifo[ch]'.readable = Len(f.items) /\ fifo[ch]'.written = 0
    BY <1>1, <2>1, Zenon
  <2> HIDE DEF f
  <2> QED BY <1>1, <1>2, <1>3, <2>2
<1> QED BY <1>4, <1>5, <1>6, <1>7

\* Every step keeps the room.
LEMMA RoomNext == ASSUME AtCore, RoomOK, [Next]_vars PROVE RoomOK'
<1> HIDE DEF AtCore
<1>1. CASE UNCHANGED vars
  BY <1>1 DEF vars, shared, RoomOK, NumFree
<1>2. CASE Scheduler
  <2>1. ~fatal /\ (fifo' = fifo \/ fifo' = [ch \in Channel |-> Updated(fifo[ch])])
    BY <1>2, Zenon DEF Scheduler, Dispatch, DeltaCycle, AdvanceTime
  <2> QED BY <2>1, RoomKept
<1>3. ASSUME NEW n \in Initiator, TgStep(n) PROVE RoomOK'
  <2>0. ReqCh(n) \in Channel /\ RspCh(n) \in Channel
    BY ChannelFacts
  <2>1. CASE Put(n)
    <3>1. ~fatal /\ fifo' = FifoWrite(ReqCh(n), tg[n].txn) /\ NumFree(ReqCh(n)) # 0
      BY <2>1, Zenon DEF Put, Executing
    <3> QED BY <2>0, <3>1, RoomKept, Zenon
  <2>2. CASE Get(n)
    <3>1. ~fatal /\ fifo' = FifoRead(RspCh(n))
      BY <2>2, Zenon DEF Get, Executing
    <3> QED BY <2>0, <3>1, RoomKept, Zenon
  <2>3. CASE Issue(n) \/ Skip(n) \/ PutBlocks(n) \/ Check(n) \/ GetBlocks(n) \/ Drain(n) \/ Drained(n)
    <3>1. ~fatal /\ fifo' = fifo
      BY <2>3, Zenon DEF Issue, Skip, PutBlocks, Check, GetBlocks, Drain, Drained, Executing, shared
    <3> QED BY <3>1, RoomKept
  <2> QED BY <1>3, <2>1, <2>2, <2>3, Zenon DEF TgStep
<1>4. ASSUME NEW n \in Initiator, IniStep(n) PROVE RoomOK'
  <2>0. Req(n) \in Channel /\ Rsp(n) \in Channel
    BY DEF Channel, Req, Rsp
  <2>1. CASE SendRequest(n)
    <3>1. ~fatal /\ fifo' = FifoRead(Req(n))
      BY <2>1, Zenon DEF SendRequest, Executing
    <3> QED BY <2>0, <3>1, RoomKept, Zenon
  <2>2. ASSUME NEW tx, Respond(n, tx), ~fatal PROVE RoomOK'
    <3>1. fifo' = FifoWrite(Rsp(n), tx) /\ (fatal' \/ NumFree(Rsp(n)) # 0)
      BY <2>2, Zenon DEF Respond
    <3> QED BY <2>0, <2>2, <3>1, RoomKept, Zenon
  <2>3. ASSUME ~fatal, fifo' = fifo PROVE RoomOK'
    BY <2>3, RoomKept
  <2>4. CASE AfterDelay(n)
    <3>1. ~fatal /\ (Respond(n, ini[n].txn) \/ fifo' = fifo)
      BY <2>4, Zenon DEF AfterDelay, Executing
    <3> QED BY <2>2, <2>3, <3>1, Zenon
  <2>5. CASE EndRspSent(n)
    <3>1. ~fatal /\ (Respond(n, link.txn) \/ fifo' = fifo)
      BY <2>5, Zenon DEF EndRspSent, Executing
    <3> QED BY <2>2, <2>3, <3>1, Zenon
  <2>6. CASE BwBeginRespEnds(n)
    <3>1. ~fatal /\ fifo' = FifoWrite(Rsp(n), link.txn) /\ (fatal' \/ NumFree(Rsp(n)) # 0)
      BY <2>6, Zenon DEF BwBeginRespEnds, Called
    <3> QED BY <2>0, <3>1, RoomKept, Zenon
  <2>7. CASE \/ GetRequestBlocks(n) \/ RequestCompleted(n) \/ RequestUpdated(n) \/ RequestAccepted(n)
             \/ BwEndReq(n) \/ BwBeginResp(n) \/ EndRspNext(n) \/ EndRspReturn(n)
    <3>1. ~fatal /\ fifo' = fifo
      BY <2>7, Zenon DEF GetRequestBlocks, RequestCompleted, RequestUpdated, RequestAccepted,
                         BwEndReq, BwBeginResp, EndRspNext, EndRspReturn, Executing, Called
    <3> QED BY <2>3, <3>1
  <2> QED BY <1>4, <2>1, <2>4, <2>5, <2>6, <2>7, Zenon DEF IniStep
<1>5. CASE BusStep
  <2> SUFFICES ~fatal /\ fifo' = fifo
    BY RoomKept
  <2>1. CASE \/ \E n \in Initiator : BusBeginReq(n) \/ BusEndResp(n)
             \/ \E m \in Target : targetNBTransport(m)
    BY <2>1, Zenon DEF BusBeginReq, BusEndResp, targetNBTransport, Called
  <2>2. CASE RequestWaits \/ ResponseWaits
    BY <2>2, Zenon DEF RequestWaits, ResponseWaits, ThreadWaits, Executing
  <2>3. CASE SendToTarget \/ PassEndReq \/ EndReqPassed \/ RequestCompletedByTarget
    BY <2>3, Zenon DEF SendToTarget, RequestCompletedByTarget, PassEndReq, EndReqPassed, Executing
  <2>4. CASE RequestOngoing
    BY <2>4 DEF RequestOngoing, Executing
  <2>5. CASE SendToInitiator \/ ResponseAnswered \/ PassEndResp \/ ResponseOver
    BY <2>5, Zenon DEF SendToInitiator, ResponseAnswered, PassEndResp, ResponseOver, Executing
  <2> QED BY <1>5, <2>1, <2>2, <2>3, <2>4, <2>5, Zenon DEF BusStep
<1>6. ASSUME NEW m \in Target, TgtStep(m) PROVE RoomOK'
  <2>1. ~fatal /\ fifo' = fifo
    BY <1>6, Zenon DEF TgtStep, BeginReqCompletes, BeginReqUpdates, BeginReqAccepted, EndResp, BeginResp,
         BeginRespAnswered, BeginResponseReturns, EndReq, EndReqAnswered, EndRequestReturns, Executing, Called
  <2> QED BY <2>1, RoomKept
<1>7. CASE Stopped /\ UNCHANGED vars
  BY <1>1, <1>7
<1> QED BY <1>1, <1>2, <1>3, <1>4, <1>5, <1>6, <1>7, Zenon DEF Next, Step

\* The state has the types, and its counts the bounds, of the code: TypeOK.
THEOREM AtTypeCorrect == Spec => []TypeOK
<1>1. Init => RoomOK
  <2> SUFFICES ASSUME Init, NEW ch \in Channel PROVE NumFree(ch) >= 0
    BY DEF RoomOK
  <2>1. fifo = [d \in Channel |-> EmptyFifo]
    BY DEF Init, SharedInit
  <2>2. fifo[ch].readable = 0 /\ fifo[ch].written = 0
    BY <2>1 DEF EmptyFifo
  <2> QED BY <2>2, DepthAssumption DEF NumFree
<1>2. AtCore /\ RoomOK => TypeOK
  <2> SUFFICES ASSUME AtCore, RoomOK PROVE TypeOK
    OBVIOUS
  <2>1. Types /\ \A tx \in Txn : PayloadInv(tx)
    BY DEF AtCore
  <2>2. /\ simc.cur \in Process \union {Nobody} /\ simc.runnable \subseteq Process
        /\ simc.pend \in [Event -> -1..LongestDelay]
        /\ \A e \in Event : Waiters(simc, e) \subseteq Process
    <3>1. simc \in KernelShape(LongestDelay)
      BY <2>1 DEF Types, KernelInv, KernelOK
    <3>2. PICK k \in KernelShape(LongestDelay) : k = simc
      BY <3>1
    <3>3. /\ k.cur \in Process \union {Nobody} /\ k.runnable \in SUBSET Process
          /\ k.pend \in [Event -> -1..LongestDelay]
          /\ k.methods_dynamic \in [Event -> Seq(Process)]
          /\ k.threads_dynamic \in [Event -> Seq(Process)]
      BY Zenon DEF KernelShape
    <3>4. ASSUME NEW e \in Event PROVE Waiters(k, e) \subseteq Process
      <4>1. PICK s \in Seq(Process), t \in Seq(Process) : s = k.methods_dynamic[e] /\ t = k.threads_dynamic[e]
        BY <3>3
      <4>2. Range(s) \subseteq Process /\ Range(t) \subseteq Process
        BY DEF Range
      <4> QED BY <4>1, <4>2 DEF Waiters
    <3> QED BY <3>2, <3>3, <3>4
  <2>3. ASSUME NEW q \in Peq, NEW j \in DOMAIN peq[q]
        PROVE  peq[q][j].txn \in Txn /\ peq[q][j].left \in 0..LongestDelay
    <3>1. peq[q] \in Seq(Entry)
      BY <2>1 DEF Types, PeqOK
    <3>2. peq[q][j] \in Entry
      BY <3>1
    <3> QED BY <3>2 DEF Entry
  <2>4. ASSUME NEW ch \in Channel
        PROVE  /\ Range(fifo[ch].items) \subseteq Txn
               /\ Len(fifo[ch].items) = fifo[ch].readable - fifo[ch].read + fifo[ch].written
               /\ NumAvailable(ch) >= 0 /\ (fatal \/ NumFree(ch) >= 0)
    <3>1. /\ fifo[ch].readable \in Nat /\ fifo[ch].read \in Nat /\ fifo[ch].read <= fifo[ch].readable
          /\ Range(fifo[ch].items) \subseteq Txn
          /\ Len(fifo[ch].items) = fifo[ch].readable - fifo[ch].read + fifo[ch].written
      BY FifoCounts
    <3>2. NumAvailable(ch) >= 0
      BY <3>1 DEF NumAvailable
    <3>3. fatal \/ NumFree(ch) >= 0
      BY DEF RoomOK
    <3> QED BY <3>1, <3>2, <3>3
  <2>5. ASSUME NEW tx \in Txn PROVE gp[tx].rc \in 0..2 /\ bus.pending[tx].to \in -1..NT-1
    <3>1. Held(tx) \in {0, 1}
      BY <2>1 DEF PayloadInv, Contents
    <3>2. gp[tx].rc \in Nat /\ bus.pending[tx] \in PendingShape
      <4>1. gp[tx] \in GpShape /\ bus.pending \in [Txn -> PendingShape]
        BY <2>1 DEF Types, GpOK, BusOK, BusShape
      <4> QED BY <4>1 DEF GpShape
    <3>3. PICK r \in Nat, b \in {0, 1} : r = gp[tx].rc /\ b = BusHolds(tx)
      BY <3>2 DEF BusHolds
    <3>4. r - b \in {0, 1}
      BY <3>1, <3>3 DEF Held
    <3>5. r \in 0..2
      BY <3>4
    <3>6. bus.pending[tx].to \in {-1} \union Target
      BY <3>2 DEF PendingShape
    <3>7. bus.pending[tx].to \in -1..NT-1
      BY <3>6, SizesAssumption DEF Target
    <3> QED BY <3>3, <3>5, <3>7
  <2>6. ASSUME NEW n \in Initiator PROVE tg[n].active \in 0..MaxTxns /\ tg[n].j \in 0..TxnsPerPass
    <3>1. Accounted(n, Away(n), HeldBy(n))
      BY DEF AtCore
    <3>2. tg[n].j \in 0..TxnsPerPass
      BY <3>1 DEF Accounted, TgShape
    <3>3. HeldBy(n) \in SUBSET Payloads(n) /\ tg[n].active = Cardinality(HeldBy(n))
      BY <3>1, AccountedSubset
    <3> DEFINE N == 1..MaxTxns
    <3>4. IsFiniteSet(N) /\ Cardinality(N) = MaxTxns
      <4>1. IsFiniteSet(N) /\ Cardinality(N) = IF 1 > MaxTxns THEN 0 ELSE MaxTxns - 1 + 1
        BY FS_Interval, SizesAssumption
      <4> QED BY <4>1, SizesAssumption
    <3>5. IsFiniteSet({n}) /\ Cardinality({n}) = 1
      BY FS_Singleton
    <3> HIDE DEF N
    <3>6. IsFiniteSet({n} \X N) /\ Cardinality({n} \X N) = Cardinality({n}) * Cardinality(N)
      BY ONLY <3>4, <3>5, FS_Product
    <3>7. Payloads(n) = {n} \X N
      BY DEF Payloads, N
    <3>8. Cardinality(HeldBy(n)) <= Cardinality({n} \X N) /\ Cardinality(HeldBy(n)) \in Nat
      <4> DEFINE S == {n} \X N
      <4>1. HeldBy(n) \in SUBSET S /\ IsFiniteSet(S)
        BY <3>3, <3>6, <3>7
      <4> HIDE DEF S, HeldBy
      <4>2. Cardinality(HeldBy(n)) <= Cardinality(S) /\ IsFiniteSet(HeldBy(n))
        BY ONLY <4>1, FS_Subset
      <4>3. Cardinality(HeldBy(n)) \in Nat
        BY ONLY <4>2, FS_CardinalityType
      <4> QED BY <4>2, <4>3 DEF S
    <3> QED BY <3>2, <3>3, <3>4, <3>5, <3>6, <3>8, SizesAssumption
  <2> QED BY <2>2, <2>3, <2>4, <2>5, <2>6 DEF TypeOK
<1>3. AtCore /\ RoomOK /\ [Next]_vars => RoomOK'
  BY RoomNext
<1> QED BY <1>1, <1>2, <1>3, AtCoreInvariant, PTL DEF Spec

-----------------------------------------------------------------------------
(* What the steps of processes do to the kernel *)

\* The event that ends a response is left alone, and only the process in execution stops.
Calm ==
  \A r \in Responder : /\ simc'.pend[EndOf(r)] = simc.pend[EndOf(r)]
                       /\ simc.cur # r => WaitsFor(simc', r) = WaitsFor(simc, r)

\* The bus's threads, once they have stopped, have begun.
StopsBegun(p) ==
  /\ p = RequestThread => bus'.req.pc # "start"
  /\ p = ResponseThread => bus'.rsp.pc # "start"

\* The state of the kernel while a process goes on.
LEMMA GoesOnAlike ==
  ASSUME OnePlace(simc), Alike(simc, simc')
  PROVE  /\ GoesOnOK
         /\ \A r \in Responder : WaitsFor(simc', r) = WaitsFor(simc, r)
<1>1. \A r \in Responder : r \in Process
  BY ResponderFacts
<1> HIDE DEF Process, Responder
<1>2. PICK k, k2 : k = simc /\ k2 = simc'
  OBVIOUS
<1>3. OnePlace(k2) /\ \A c \in Process : WaitsFor(k2, c) = WaitsFor(k, c)
  BY <1>2, AlikePlaces
<1> QED BY <1>1, <1>2, <1>3 DEF GoesOnOK, Alike

\* When a process stops, every other responder waits as before.
LEMMA StopsAlike ==
  ASSUME NEW p \in Process, simc.cur = p, NEW E, OnePlace(simc'), Rests(simc, simc', p, E)
  PROVE  /\ StopsOK(p, E)
         /\ \A r \in Responder : simc.cur # r => WaitsFor(simc', r) = WaitsFor(simc, r)
<1>1. \A r \in Responder : r \in Process
  BY ResponderFacts
<1> HIDE DEF Process, Responder
<1> QED BY <1>1 DEF StopsOK, Rests

\* What the invariants give.
LEMMA KernelFacts ==
  ASSUME AtCore, AtArmed
  PROVE  /\ KernelInv(LongestDelay, simc) /\ OnePlace(simc) /\ Alike(simc, simc) /\ LongestDelay \in Nat
         /\ PeqOK /\ \A q \in Peq : q \in Event
BY AtNumbers, AtNames DEF AtCore, Types, AtArmed, Alike

\* A step that uses the kernel for nothing, or asks for an update.
LEMMA QuietWaits ==
  ASSUME AtCore, AtArmed, Begun, peq' = peq, simc' = simc \/ \E c \in Channel : simc' = RequestUpdate(simc, c)
  PROVE  AtArmed' /\ Calm /\ GoesOnOK
<1>1. KernelInv(LongestDelay, simc) /\ OnePlace(simc) /\ LongestDelay \in Nat /\ \A q \in Peq : q \in Event
  BY KernelFacts
<1> HIDE DEF Process, Channel, Event, Peq
<1>2. Alike(simc, simc') /\ simc'.pend = simc.pend
  <2>1. CASE simc' = simc
    BY <2>1 DEF Alike
  <2>2. CASE \E c \in Channel : simc' = RequestUpdate(simc, c)
    <3>1. PICK c \in Channel : simc' = RequestUpdate(simc, c)
      BY <2>2
    <3> QED BY <1>1, <3>1, RequestUpdateOK DEF Alike
  <2> QED BY <2>1, <2>2
<1>3. GoesOnOK /\ \A r \in Responder : WaitsFor(simc', r) = WaitsFor(simc, r)
  BY <1>1, <1>2, GoesOnAlike
<1>4. \A q \in Peq : Kept(q)
  BY <1>2 DEF Kept
<1> QED BY <1>2, <1>3, <1>4, ArmedGoesOn DEF Calm

\* A step that notifies an event e that belongs to no queue.
LEMMA NotifyWaits ==
  ASSUME AtCore, AtArmed, Begun, peq' = peq, NEW e \in Event, e \notin Peq, NEW t \in 0..LongestDelay,
         \/ simc' = Notify(simc, e, t)
         \/ \E c \in Channel : simc' = RequestUpdate(Notify(simc, e, t), c)
  PROVE  /\ AtArmed' /\ GoesOnOK /\ (\A r \in Responder : WaitsFor(simc', r) = WaitsFor(simc, r))
         /\ \A f \in Event : f # e => simc'.pend[f] = simc.pend[f]
         /\ (\A r \in Responder : e # EndOf(r)) => Calm
<1>1. KernelInv(LongestDelay, simc) /\ OnePlace(simc) /\ Alike(simc, simc) /\ LongestDelay \in Nat
      /\ \A q \in Peq : q \in Event
  BY KernelFacts
<1>0. \A r \in Responder : EndOf(r) \in Event
  BY ResponderFacts
<1> HIDE DEF Process, Channel, Event, Peq, Responder, EndOf
<1>2. PICK k : k = Notify(simc, e, t)
  OBVIOUS
<1>3. Alike(simc, k) /\ KernelInv(LongestDelay, k) /\ \A f \in Event : f # e => k.pend[f] = simc.pend[f]
  BY <1>1, <1>2, NotifyAlike
<1>4. Alike(simc, simc') /\ simc'.pend = k.pend
  <2>1. CASE simc' = k
    BY <1>3, <2>1
  <2>2. CASE \E c \in Channel : simc' = RequestUpdate(k, c)
    <3>1. PICK c \in Channel : simc' = RequestUpdate(k, c)
      BY <2>2
    <3> QED BY <1>1, <1>3, <3>1, RequestUpdateOK DEF Alike
  <2> QED BY <1>2, <2>1, <2>2
<1>5. GoesOnOK /\ \A r \in Responder : WaitsFor(simc', r) = WaitsFor(simc, r)
  BY <1>1, <1>4, GoesOnAlike
<1>6. \A q \in Peq : Kept(q)
  BY <1>1, <1>3, <1>4 DEF Kept
<1>7. AtArmed'
  BY <1>5, <1>6, ArmedGoesOn
<1> QED BY <1>0, <1>3, <1>4, <1>5, <1>7 DEF Calm

\* A step that puts a payload into queue q, and may notify another event.
LEMMA PutWaits ==
  ASSUME AtCore, AtArmed, Begun, NEW q \in Peq, NEW tx \in Txn, NEW t \in 0..LongestDelay,
         peq' = [peq EXCEPT ![q] = PeqInsert(@, tx, t)],
         NEW e \in Event, e \notin Peq, \A r \in Responder : e # EndOf(r), NEW u \in 0..LongestDelay,
         \/ simc' = Notify(simc, q, t)
         \/ simc' = Notify(Notify(simc, q, t), e, u)
         \/ simc' = Notify(Notify(simc, e, u), q, t)
  PROVE  AtArmed' /\ Calm /\ GoesOnOK
<1>1. KernelInv(LongestDelay, simc) /\ OnePlace(simc) /\ Alike(simc, simc) /\ LongestDelay \in Nat
      /\ (\A r \in Peq : r \in Event) /\ DOMAIN peq = Peq
  BY KernelFacts DEF PeqOK
<1>0. \A r \in Responder : EndOf(r) \in Event /\ EndOf(r) \notin Peq
  BY ResponderFacts
<1> HIDE DEF Process, Channel, Event, Peq, Responder, EndOf, Txn
<1>2. /\ Alike(simc, simc') /\ simc'.pend[q] = Earlier(simc.pend[q], t)
      /\ \A f \in Event : f \notin {q, e} => simc'.pend[f] = simc.pend[f]
  <2>0. /\ KernelInv(LongestDelay, simc) /\ Alike(simc, simc) /\ LongestDelay \in Nat
        /\ q \in Event /\ e \in Event /\ e # q /\ t \in 0..LongestDelay /\ u \in 0..LongestDelay
    BY <1>1
  <2>1. CASE simc' = Notify(simc, q, t)
    <3>1. PICK k : k = Notify(simc, q, t)
      OBVIOUS
    <3>2. /\ Alike(simc, k) /\ k.pend[q] = Earlier(simc.pend[q], t)
          /\ \A f \in Event : f # q => k.pend[f] = simc.pend[f]
      BY <1>1, <3>1, NotifyAlike
    <3> QED BY <2>1, <3>1, <3>2
  <2>2. CASE simc' = Notify(Notify(simc, q, t), e, u)
    <3>1. PICK k : k = Notify(simc, q, t)
      OBVIOUS
    <3>2. /\ Alike(simc, k) /\ KernelInv(LongestDelay, k) /\ k.pend[q] = Earlier(simc.pend[q], t)
          /\ \A f \in Event : f # q => k.pend[f] = simc.pend[f]
      BY ONLY <2>0, <3>1, NotifyAlike
    <3>3. PICK k2 : k2 = Notify(k, e, u)
      OBVIOUS
    <3>5. /\ Alike(k, k2) /\ KernelInv(LongestDelay, k2) /\ k2.pend[e] = Earlier(k.pend[e], u)
          /\ \A f \in Event : f # e => k2.pend[f] = k.pend[f]
      <4>1. KernelInv(LongestDelay, k) /\ Alike(k, k)
        BY <3>2 DEF Alike
      <4> QED BY ONLY <2>0, <3>3, <4>1, NotifyAlike
    <3>4. Alike(simc, k2)
      BY <3>2, <3>5 DEF Alike
    <3> QED BY <2>0, <2>2, <3>1, <3>2, <3>3, <3>4, <3>5
  <2>3. CASE simc' = Notify(Notify(simc, e, u), q, t)
    <3>1. PICK k : k = Notify(simc, e, u)
      OBVIOUS
    <3>2. /\ Alike(simc, k) /\ KernelInv(LongestDelay, k) /\ k.pend[e] = Earlier(simc.pend[e], u)
          /\ \A f \in Event : f # e => k.pend[f] = simc.pend[f]
      BY ONLY <2>0, <3>1, NotifyAlike
    <3>3. PICK k2 : k2 = Notify(k, q, t)
      OBVIOUS
    <3>5. /\ Alike(k, k2) /\ KernelInv(LongestDelay, k2) /\ k2.pend[q] = Earlier(k.pend[q], t)
          /\ \A f \in Event : f # q => k2.pend[f] = k.pend[f]
      <4>1. KernelInv(LongestDelay, k) /\ Alike(k, k)
        BY <3>2 DEF Alike
      <4> QED BY ONLY <2>0, <3>3, <4>1, NotifyAlike
    <3>4. Alike(simc, k2)
      BY <3>2, <3>5 DEF Alike
    <3> QED BY <2>0, <2>3, <3>1, <3>2, <3>3, <3>4, <3>5
  <2> QED BY <2>1, <2>2, <2>3
<1>3. GoesOnOK /\ \A r \in Responder : WaitsFor(simc', r) = WaitsFor(simc, r)
  BY <1>1, <1>2, GoesOnAlike
<1>4. \A r \in Peq : Kept(r) \/ Gets(r)
  <2>1. peq'[q] = PeqInsert(peq[q], tx, t) /\ \A r \in Peq : r # q => peq'[r] = peq[r]
    BY <1>1
  <2>2. Gets(q)
    BY <1>2, <2>1 DEF Gets
  <2>3. \A r \in Peq : r # q => Kept(r)
    BY <1>1, <1>2, <2>1 DEF Kept
  <2> QED BY <2>2, <2>3
<1>5. AtArmed'
  BY <1>3, <1>4, ArmedGoesOn
<1>6. Calm
  BY <1>0, <1>2, <1>3 DEF Calm
<1> QED BY <1>3, <1>5, <1>6

\* A step in which the consumer of queue q, who runs, takes its head.
LEMMA TakeWaits ==
  ASSUME AtCore, AtArmed, Begun, NEW q \in Peq, simc.cur = Consumer(q), ~Fresh(q)',
         peq' = PeqPop(q), simc' = simc
  PROVE  AtArmed' /\ Calm /\ GoesOnOK
<1>1. OnePlace(simc) /\ Alike(simc, simc') /\ DOMAIN peq = Peq
  BY KernelFacts DEF PeqOK, Alike
<1> HIDE DEF Process, Channel, Event, Peq, Responder, EndOf, Consumer
<1>2. GoesOnOK /\ \A r \in Responder : WaitsFor(simc', r) = WaitsFor(simc, r)
  BY <1>1, GoesOnAlike
<1>3. \A r \in Peq : Kept(r) \/ Looked(r)
  BY <1>1 DEF Kept, Looked, PeqPop
<1> QED BY <1>2, <1>3, ArmedGoesOn DEF Calm

\* A step in which process p stops, and waits for an event that belongs to no queue.
LEMMA StopWaits ==
  ASSUME AtCore, AtArmed, Begun, peq' = peq, NEW p \in Process, simc.cur = p, StopsBegun(p),
         \/ \E e \in Event : e \notin Peq /\ simc' = Yield(NextTrigger(simc, p, e))
         \/ \E t \in 0..LongestDelay : simc' = Yield(NextTriggerTime(simc, p, t))
  PROVE  /\ AtArmed' /\ Calm
         /\ \A e \in Event : simc' = Yield(NextTrigger(simc, p, e)) => WaitsFor(simc', p) = {e}
<1>1. /\ KernelInv(LongestDelay, simc) /\ OnePlace(simc) /\ Alike(simc, simc) /\ LongestDelay \in Nat
      /\ (\A r \in Peq : r \in Event) /\ Timeout[p] \in Event
  BY KernelFacts, EventFacts
<1>0. \A r \in Responder : EndOf(r) \in Event /\ EndOf(r) # Timeout[p]
  BY ResponderFacts
<1>2. Timeout[p] \notin Peq
  BY PeqNames DEF Timeout, requestPEQ, responsePEQ
<1>3. \A q \in Peq : Consumer(q) = p => ~Fresh(q)'
  BY ConsumerFacts DEF StopsBegun, Fresh, RequestThread, ResponseThread, requestPEQ, responsePEQ
<1> HIDE DEF Process, Channel, Event, Peq, Responder, EndOf, Consumer, Timeout
<1>4. ASSUME NEW E, StopsOK(p, E), E # {}, \A q \in Peq : q \notin E,
             \A f \in Event : f # Timeout[p] => simc'.pend[f] = simc.pend[f]
      PROVE  AtArmed' /\ Calm
  <2>1. \A q \in Peq : IF Consumer(q) = p THEN Rearmed(q) \/ Elsewhere(p, E, q) ELSE Kept(q) \/ Gets(q)
    <3> SUFFICES ASSUME NEW q \in Peq
                 PROVE  IF Consumer(q) = p THEN Rearmed(q) \/ Elsewhere(p, E, q) ELSE Kept(q) \/ Gets(q)
      OBVIOUS
    <3>1. Kept(q)
      BY <1>1, <1>2, <1>4 DEF Kept
    <3>2. Consumer(q) = p => Elsewhere(p, E, q)
      BY <1>3, <1>4 DEF Elsewhere
    <3> QED BY <3>1, <3>2
  <2>2. AtArmed'
    BY <1>4, <2>1, ArmedStops DEF StopsBegun
  <2>3. \A r \in Responder : simc.cur # r => WaitsFor(simc', r) = WaitsFor(simc, r)
    BY <1>4, StopsAlike DEF StopsOK
  <2> QED BY <1>0, <1>4, <2>2, <2>3 DEF Calm
<1>5. ASSUME NEW e \in Event, simc' = Yield(NextTrigger(simc, p, e))
      PROVE  StopsOK(p, {e}) /\ simc'.pend = simc.pend /\ WaitsFor(simc', p) = {e}
  <2>1. PICK k2 : k2 = Yield(NextTrigger(simc, p, e))
    OBVIOUS
  <2>2. OnePlace(k2) /\ Rests(simc, k2, p, {e}) /\ k2.pend = simc.pend
    BY <1>1, <2>1, StopsWith
  <2> QED BY <1>5, <2>1, <2>2 DEF StopsOK, Rests
<1>6. ASSUME NEW t \in 0..LongestDelay, simc' = Yield(NextTriggerTime(simc, p, t))
      PROVE  StopsOK(p, {Timeout[p]}) /\ \A f \in Event : f # Timeout[p] => simc'.pend[f] = simc.pend[f]
  <2>1. PICK k2, e : k2 = Yield(NextTriggerTime(simc, p, t)) /\ e = Timeout[p]
    OBVIOUS
  <2>3. e \in Event
    BY <1>1, <2>1
  <2>4. /\ KernelInv(LongestDelay, simc) /\ OnePlace(simc) /\ Alike(simc, simc) /\ LongestDelay \in Nat
        /\ p \in Process /\ simc.cur = p /\ t \in 0..LongestDelay
    BY <1>1, <1>6
  <2>2. OnePlace(k2) /\ Rests(simc, k2, p, {e}) /\ \A f \in Event : f # e => k2.pend[f] = simc.pend[f]
    BY ONLY <2>1, <2>3, <2>4, StopsTimed
  <2> QED BY <1>6, <2>1, <2>2 DEF StopsOK
<1>7. AtArmed' /\ Calm
  <2>1. CASE \E e \in Event : e \notin Peq /\ simc' = Yield(NextTrigger(simc, p, e))
    <3>1. PICK e \in Event : e \notin Peq /\ simc' = Yield(NextTrigger(simc, p, e))
      BY <2>1
    <3>2. StopsOK(p, {e}) /\ simc'.pend = simc.pend
      BY <1>5, <3>1
    <3>3. {e} # {} /\ \A q \in Peq : q \notin {e}
      BY <3>1
    <3> QED BY <1>4, <3>2, <3>3
  <2>2. CASE \E t \in 0..LongestDelay : simc' = Yield(NextTriggerTime(simc, p, t))
    <3>1. PICK t \in 0..LongestDelay : simc' = Yield(NextTriggerTime(simc, p, t))
      BY <2>2
    <3>2. StopsOK(p, {Timeout[p]}) /\ \A f \in Event : f # Timeout[p] => simc'.pend[f] = simc.pend[f]
      BY <1>6, <3>1
    <3>3. {Timeout[p]} # {} /\ \A q \in Peq : q \notin {Timeout[p]}
      BY <1>2
    <3> QED BY <1>4, <3>2, <3>3
  <2> QED BY <2>1, <2>2
<1> QED BY <1>5, <1>7

\* A step in which the consumer of queue q arms it again and waits for its event, or
\* returns, which for a method is the same.
LEMMA RearmWaits ==
  ASSUME AtCore, AtArmed, Begun, peq' = peq, NEW q \in Peq, NEW p \in Process, p = Consumer(q),
         simc.cur = p, StopsBegun(p),
         NEW k, k = PeqRearm(simc, q) \/ (k = simc /\ Fresh(q)),
         \/ simc' = Yield(NextTrigger(k, p, q))
         \/ simc' = Yield(k)
  PROVE  AtArmed' /\ Calm
<1>1. /\ KernelInv(LongestDelay, simc) /\ OnePlace(simc) /\ Alike(simc, simc) /\ LongestDelay \in Nat
      /\ (\A r \in Peq : r \in Event) /\ PeqOK /\ peq[q] \in Seq(Entry)
  BY KernelFacts DEF PeqOK
<1>0. \A r \in Responder : EndOf(r) \in Event /\ EndOf(r) # q
  BY ResponderFacts
<1>2. /\ \A r \in Peq : Consumer(r) = p => ~Fresh(r)' /\ r = q
  <2>1. \A r \in Peq : Consumer(r) = p => r = q
    <3>1. \/ \E n \in Initiator : q = EndRspPeq(n)
          \/ \E m \in Target : q \in {ResponsePeq(m), EndRequestPeq(m)}
          \/ q \in {requestPEQ, responsePEQ}
      BY PeqNames DEF EndRspPeq, ResponsePeq, EndRequestPeq
    <3> HIDE DEF Peq, Consumer
    <3> QED BY <3>1, ConsumerFacts
  <2>2. ~Fresh(q)'
    BY ConsumerFacts DEF StopsBegun, Fresh, RequestThread, ResponseThread, requestPEQ, responsePEQ
  <2> QED BY <2>1, <2>2
<1>3. peq[q] # << >> /\ Fresh(q) => simc.pend[q] \in 0..Head(peq[q]).left
  BY DEF AtArmed, Armed
<1> HIDE DEF Process, Channel, Event, Peq, Responder, EndOf, Consumer, Entry
<1>4. /\ Alike(simc, k) /\ KernelInv(LongestDelay, k) /\ \A f \in Event : f # q => k.pend[f] = simc.pend[f]
      /\ peq[q] # << >> => k.pend[q] \in 0..Head(peq[q]).left
  <2>1. CASE k = PeqRearm(simc, q) /\ peq[q] # << >>
    <3>1. PICK s \in Seq(Entry) : s = peq[q] /\ s # << >>
      BY <1>1, <2>1
    <3>2. Head(s) \in Entry
      BY <3>1, HeadAndTail
    <3>3. PICK t \in 0..LongestDelay : t = Head(s).left
      BY <3>2 DEF Entry
    <3>4. k = Notify(simc, q, t)
      BY <2>1, <3>1, <3>3 DEF PeqRearm
    <3>5. /\ Alike(simc, k) /\ KernelInv(LongestDelay, k) /\ k.pend[q] = Earlier(simc.pend[q], t)
          /\ \A f \in Event : f # q => k.pend[f] = simc.pend[f]
      BY <1>1, <3>4, NotifyAlike
    <3>6. PICK x \in -1..LongestDelay : x = simc.pend[q]
      BY <1>1 DEF KernelInv, KernelOK, KernelShape
    <3>7. Earlier(x, t) \in 0..t
      BY <1>1 DEF Earlier, NotPending
    <3> QED BY <3>1, <3>3, <3>5, <3>6, <3>7
  <2>2. CASE k = simc /\ (peq[q] = << >> \/ Fresh(q))
    BY <1>1, <1>3, <2>2
  <2>3. k = PeqRearm(simc, q) /\ peq[q] = << >> => k = simc
    BY DEF PeqRearm
  <2> QED BY <2>1, <2>2, <2>3
<1>5. PICK k2 : k2 = simc'
  OBVIOUS
<1>6. \E E : OnePlace(k2) /\ Rests(simc, k2, p, E) /\ k2.pend = k.pend
  <2>1. CASE simc' = Yield(NextTrigger(k, p, q))
    <3>2. k2 = Yield(NextTrigger(k, p, q)) /\ q \in Event
      BY <1>1, <1>5, <2>1
    <3>3. /\ KernelInv(LongestDelay, k) /\ OnePlace(simc) /\ Alike(simc, k) /\ LongestDelay \in Nat
          /\ p \in Process /\ simc.cur = p
      BY <1>1, <1>4
    <3>1. OnePlace(k2) /\ Rests(simc, k2, p, {q}) /\ k2.pend = k.pend
      BY ONLY <3>2, <3>3, StopsWith
    <3> QED BY <3>1
  <2>2. CASE simc' = Yield(k)
    <3>1. OnePlace(k2) /\ Rests(simc, k2, p, {}) /\ k2.pend = k.pend
      BY <1>1, <1>4, <1>5, <2>2, StopsBare
    <3> QED BY <3>1
  <2> QED BY <2>1, <2>2
<1>7. PICK E : OnePlace(simc') /\ Rests(simc, simc', p, E) /\ simc'.pend = k.pend
  BY <1>5, <1>6
<1>8. StopsOK(p, E) /\ \A r \in Responder : simc.cur # r => WaitsFor(simc', r) = WaitsFor(simc, r)
  BY <1>7, StopsAlike
<1>9. Rearmed(q)
  BY <1>4, <1>7 DEF Rearmed
<1>10. \A r \in Peq : IF Consumer(r) = p THEN Rearmed(r) \/ Elsewhere(p, E, r) ELSE Kept(r) \/ Gets(r)
  <2> SUFFICES ASSUME NEW r \in Peq
               PROVE  IF Consumer(r) = p THEN Rearmed(r) \/ Elsewhere(p, E, r) ELSE Kept(r) \/ Gets(r)
    OBVIOUS
  <2>1. CASE Consumer(r) = p
    BY <1>2, <1>9, <2>1
  <2>2. CASE Consumer(r) # p
    <3>1. Kept(r)
      BY <1>1, <1>4, <1>7, <2>2 DEF Kept
    <3> QED BY <2>2, <3>1
  <2> QED BY <2>1, <2>2
<1>11. AtArmed'
  BY <1>8, <1>10, ArmedStops DEF StopsBegun
<1> QED BY <1>0, <1>4, <1>7, <1>8, <1>11 DEF Calm

\* The responders are not the other processes.
LEMMA ResponderNames ==
  ASSUME NEW r \in Responder
  PROVE  /\ r # Nobody /\ r # RequestThread
         /\ \A n \in Initiator : r # Ini(n) /\ r # EndRsp(n) /\ r # Tg(n)
         /\ \A m \in Target : r # EndRequest(m)
         /\ \A m \in Target : r = BeginResponse(m) => Direct /\ r[2] = m
         /\ r = ResponseThread => ~Direct
<1>1. r[1] \in {"begin_response", "response"}
  BY ResponderFacts DEF BeginResponse, ResponseThread
<1>2. Nobody[1] = "nobody" /\ RequestThread[1] = "request"
  BY DEF Nobody, RequestThread
<1>3. \A n \in Initiator : Ini(n)[1] = "initiator" /\ EndRsp(n)[1] = "send_end_rsp" /\ Tg(n)[1] = "generator"
  BY DEF Ini, EndRsp, Tg
<1>4. \A m \in Target : EndRequest(m)[1] = "end_request" /\ BeginResponse(m)[1] = "begin_response" /\ BeginResponse(m)[2] = m
  BY DEF EndRequest, BeginResponse
<1>5. ResponseThread[1] = "response"
  BY DEF ResponseThread
<1>6. (~Direct => r = ResponseThread) /\ (Direct => r = BeginResponse(r[2]) /\ r[2] \in Target)
  BY ResponderFacts
<1> HIDE DEF Responder, Nobody, RequestThread, ResponseThread, Ini, EndRsp, Tg, EndRequest, BeginResponse
<1> QED BY <1>1, <1>2, <1>3, <1>4, <1>5, <1>6

\* The events that belong to no queue.
LEMMA OtherEvents ==
  /\ \A n \in Initiator : /\ Enable(n) \in Event /\ Enable(n) \notin Peq
                          /\ \A r \in Responder : Enable(n) # EndOf(r)
  /\ \A c \in Channel : DataWritten(c) \in Event /\ DataRead(c) \in Event /\ DataWritten(c) \notin Peq /\ DataRead(c) \notin Peq
  /\ Wiring = "bus" => /\ mEndRequestEvent \in Event /\ mEndRequestEvent \notin Peq
                       /\ mEndResponseEvent \in Event /\ mEndResponseEvent \notin Peq
                       /\ \A r \in Responder : mEndRequestEvent # EndOf(r)
  /\ \A m \in Target : EndRespRcvd(m) \in Event /\ EndRespRcvd(m) \notin Peq
<1>1. \A q \in Peq : q[1] \in {"send_end_rsp_PEQ", "response_PEQ", "end_request_PEQ", "requestPEQ", "responsePEQ"}
  BY PeqNames DEF requestPEQ, responsePEQ
<1>2. \A n \in Initiator : Enable(n)[1] = "enable_next_request"
  BY DEF Enable
<1>3. \A c \in Channel : DataWritten(c)[1] = "data_written" /\ DataRead(c)[1] = "data_read"
  BY DEF DataWritten, DataRead
<1>4. mEndRequestEvent[1] = "mEndRequest" /\ mEndResponseEvent[1] = "mEndResponse"
  BY DEF mEndRequestEvent, mEndResponseEvent
<1>5. \A m \in Target : EndRespRcvd(m)[1] = "end_resp_rcvd"
  BY DEF EndRespRcvd
<1>6. \A c \in Channel : DataWritten(c) \in Event /\ DataRead(c) \in Event
  BY EventFacts
<1> HIDE DEF Peq, Event, Channel, Responder, EndOf, Enable, DataWritten, DataRead, mEndRequestEvent, mEndResponseEvent, EndRespRcvd
<1>7. \A r \in Responder : mEndRequestEvent # EndOf(r) /\ \A n \in Initiator : Enable(n) # EndOf(r)
  BY ResponderFacts, Zenon
<1>8. /\ \A n \in Initiator : Enable(n) \in Event
      /\ \A m \in Target : EndRespRcvd(m) \in Event
      /\ Wiring = "bus" => mEndRequestEvent \in Event /\ mEndResponseEvent \in Event
  BY AtNames
<1> QED BY <1>1, <1>2, <1>3, <1>4, <1>5, <1>6, <1>7, <1>8

\* A step that puts a payload into queue q and does nothing else to the kernel.
LEMMA PutOnlyWaits ==
  ASSUME AtCore, AtArmed, Begun, NEW q \in Peq, NEW tx \in Txn, NEW t \in 0..LongestDelay,
         peq' = [peq EXCEPT ![q] = PeqInsert(@, tx, t)], simc' = Notify(simc, q, t)
  PROVE  AtArmed' /\ Calm /\ GoesOnOK
<1>1. PICK n \in Initiator : TRUE
  BY AtNumbers DEF Initiator
<1>2. PICK e \in Event : e = Enable(n) /\ e \notin Peq /\ \A r \in Responder : e # EndOf(r)
  BY <1>1, OtherEvents
<1>3. PICK u \in 0..LongestDelay : u = 0
  BY AtNumbers
<1> HIDE DEF AtArmed, Calm, GoesOnOK, AtCore, Begun, Peq, Event, Responder, EndOf
<1> QED BY <1>2, <1>3, PutWaits

\* A step in which the consumer of queue q1, who runs, takes a payload from it and puts
\* it into queue q2.
LEMMA MoveWaits ==
  ASSUME AtCore, AtArmed, Begun, NEW q1 \in Peq, simc.cur = Consumer(q1), ~Fresh(q1)',
         NEW q2 \in Peq, q1 # q2, NEW tx \in Txn, NEW t \in 0..LongestDelay,
         peq' = PeqMove(q1, q2, tx, t), simc' = Notify(simc, q2, t)
  PROVE  AtArmed' /\ Calm /\ GoesOnOK
<1>1. KernelInv(LongestDelay, simc) /\ OnePlace(simc) /\ Alike(simc, simc) /\ LongestDelay \in Nat
      /\ (\A r \in Peq : r \in Event) /\ DOMAIN peq = Peq
  BY KernelFacts DEF PeqOK
<1>0. \A r \in Responder : EndOf(r) \in Event /\ EndOf(r) \notin Peq
  BY ResponderFacts
<1> HIDE DEF Process, Channel, Event, Peq, Responder, EndOf, Consumer, Txn, Fresh
<1>2. PICK k : k = Notify(simc, q2, t)
  OBVIOUS
<1>3. /\ Alike(simc, k) /\ KernelInv(LongestDelay, k) /\ k.pend[q2] = Earlier(simc.pend[q2], t)
      /\ \A f \in Event : f # q2 => k.pend[f] = simc.pend[f]
  BY <1>1, <1>2, NotifyAlike
<1>4. Alike(simc, simc')
  BY <1>2, <1>3
<1>5. GoesOnOK /\ \A r \in Responder : WaitsFor(simc', r) = WaitsFor(simc, r)
  BY <1>1, <1>4, GoesOnAlike
<1>6. \A r \in Peq : Kept(r) \/ Gets(r) \/ Looked(r)
  <2>1. PICK m : m = PeqPop(q1)
    OBVIOUS
  <2>2. DOMAIN m = Peq /\ \A r \in Peq : r # q1 => m[r] = peq[r]
    BY <1>1, <2>1 DEF PeqPop
  <2>3. peq' = [m EXCEPT ![q2] = PeqInsert(m[q2], tx, t)]
    BY <2>1 DEF PeqMove
  <2>4. peq'[q2] = PeqInsert(peq[q2], tx, t) /\ \A r \in Peq : r # q1 /\ r # q2 => peq'[r] = peq[r]
    BY <2>2, <2>3
  <2>5. Gets(q2)
    BY <1>2, <1>3, <2>4 DEF Gets
  <2>6. \A r \in Peq : r # q1 /\ r # q2 => Kept(r)
    BY <1>1, <1>2, <1>3, <2>4 DEF Kept
  <2>7. Looked(q1)
    BY DEF Looked
  <2> QED BY <2>5, <2>6, <2>7
<1>7. AtArmed'
  BY <1>5, <1>6, ArmedGoesOn
<1>8. Calm
  BY <1>0, <1>2, <1>3, <1>5 DEF Calm
<1> QED BY <1>5, <1>7, <1>8

\* A step in which process p puts a payload into queue q, which is another's, and waits
\* for a time.
LEMMA PutAndWaits ==
  ASSUME AtCore, AtArmed, Begun, NEW q \in Peq, NEW tx \in Txn, NEW t \in 0..LongestDelay,
         NEW u \in 0..LongestDelay, NEW p \in Process, simc.cur = p, StopsBegun(p), Consumer(q) # p,
         peq' = [peq EXCEPT ![q] = PeqInsert(@, tx, t)],
         simc' = Yield(NextTriggerTime(Notify(simc, q, t), p, u))
  PROVE  AtArmed' /\ Calm
<1>1. /\ KernelInv(LongestDelay, simc) /\ OnePlace(simc) /\ Alike(simc, simc) /\ LongestDelay \in Nat
      /\ (\A r \in Peq : r \in Event) /\ Timeout[p] \in Event /\ DOMAIN peq = Peq
  BY KernelFacts, EventFacts DEF PeqOK
<1>0. \A r \in Responder : EndOf(r) \in Event /\ EndOf(r) # Timeout[p] /\ EndOf(r) \notin Peq
  BY ResponderFacts
<1>2. Timeout[p] \notin Peq
  BY PeqNames DEF Timeout, requestPEQ, responsePEQ
<1>3. \A r \in Peq : Consumer(r) = p => ~Fresh(r)'
  BY ConsumerFacts DEF StopsBegun, Fresh, RequestThread, ResponseThread, requestPEQ, responsePEQ
<1> HIDE DEF Process, Channel, Event, Peq, Responder, EndOf, Consumer, Timeout, Txn
<1>4. PICK k : k = Notify(simc, q, t)
  OBVIOUS
<1>5. /\ Alike(simc, k) /\ KernelInv(LongestDelay, k) /\ k.pend[q] = Earlier(simc.pend[q], t)
      /\ \A f \in Event : f # q => k.pend[f] = simc.pend[f]
  BY <1>1, <1>4, NotifyAlike
<1>6. PICK k2, e : k2 = Yield(NextTriggerTime(k, p, u)) /\ e = Timeout[p]
  OBVIOUS
<1>7. /\ KernelInv(LongestDelay, k) /\ OnePlace(simc) /\ Alike(simc, k) /\ LongestDelay \in Nat
      /\ p \in Process /\ simc.cur = p /\ u \in 0..LongestDelay /\ e \in Event
  BY <1>1, <1>5, <1>6
<1>8. OnePlace(k2) /\ Rests(simc, k2, p, {e}) /\ \A f \in Event : f # e => k2.pend[f] = k.pend[f]
  <2>1. OnePlace(k) /\ (\A c \in Process : WaitsFor(k, c) = WaitsFor(simc, c)) /\ k.runnable = simc.runnable
    BY <1>7, AlikePlaces DEF Alike
  <2>2. Alike(k, k) /\ k.cur = p
    BY <1>7 DEF Alike
  <2>3. OnePlace(k2) /\ Rests(k, k2, p, {e}) /\ \A f \in Event : f # e => k2.pend[f] = k.pend[f]
    BY ONLY <1>6, <1>7, <2>1, <2>2, StopsTimed
  <2> QED BY <2>1, <2>3 DEF Rests
<1>9. /\ OnePlace(simc') /\ Rests(simc, simc', p, {e}) /\ e \notin Peq
      /\ \A f \in Event : f # e => simc'.pend[f] = k.pend[f]
  BY <1>2, <1>4, <1>6, <1>8
<1>10. StopsOK(p, {e}) /\ \A r \in Responder : simc.cur # r => WaitsFor(simc', r) = WaitsFor(simc, r)
  BY <1>9, StopsAlike
<1>11. \A r \in Peq : IF Consumer(r) = p THEN Rearmed(r) \/ Elsewhere(p, {e}, r) ELSE Kept(r) \/ Gets(r)
  <2> SUFFICES ASSUME NEW r \in Peq
               PROVE  IF Consumer(r) = p THEN Rearmed(r) \/ Elsewhere(p, {e}, r) ELSE Kept(r) \/ Gets(r)
    OBVIOUS
  <2>1. CASE Consumer(r) = p
    <3>1. Elsewhere(p, {e}, r)
      BY <1>3, <1>9, <2>1 DEF Elsewhere
    <3> QED BY <2>1, <3>1
  <2>2. CASE Consumer(r) # p /\ r # q
    <3>1. Kept(r)
      BY <1>1, <1>5, <1>9, <2>2 DEF Kept
    <3> QED BY <2>2, <3>1
  <2>3. CASE Consumer(r) # p /\ r = q
    <3>1. Gets(q)
      BY <1>1, <1>5, <1>9 DEF Gets
    <3> QED BY <2>3, <3>1
  <2> QED BY <2>1, <2>2, <2>3
<1>12. AtArmed'
  BY <1>10, <1>11, ArmedStops DEF StopsBegun
<1>13. Calm
  BY <1>0, <1>1, <1>5, <1>6, <1>9, <1>10 DEF Calm
<1> QED BY <1>12, <1>13

\* A generator that is done stops for good.
LEMMA YieldWaits ==
  ASSUME AtCore, AtArmed, Begun, peq' = peq, NEW n \in Initiator, simc.cur = Tg(n), simc' = Yield(simc)
  PROVE  AtArmed' /\ Calm
<1>1. /\ KernelInv(LongestDelay, simc) /\ OnePlace(simc) /\ Alike(simc, simc) /\ LongestDelay \in Nat
      /\ (\A r \in Peq : r \in Event)
  BY KernelFacts
<1>2. PICK p \in Process : p = Tg(n) /\ p # RequestThread /\ p # ResponseThread
  <2>1. Tg(n) \in Process
    BY ThreadFacts, Zenon DEF Process, Tg
  <2>2. Tg(n)[1] = "generator" /\ RequestThread[1] = "request" /\ ResponseThread[1] = "response"
    BY DEF Tg, RequestThread, ResponseThread
  <2> HIDE DEF Process, Tg, RequestThread, ResponseThread
  <2> QED BY <2>1, <2>2
<1>3. \A q \in Peq : Consumer(q) # p
  BY <1>2, ConsumerFacts
<1>0. \A r \in Responder : EndOf(r) \in Event
  BY ResponderFacts
<1> HIDE DEF Process, Channel, Event, Peq, Responder, EndOf, Consumer, Tg
<1>4. PICK k2 : k2 = Yield(simc)
  OBVIOUS
<1>5. OnePlace(k2) /\ Rests(simc, k2, p, {}) /\ k2.pend = simc.pend
  BY <1>1, <1>2, <1>4, StopsBare
<1>6. OnePlace(simc') /\ Rests(simc, simc', p, {}) /\ simc'.pend = simc.pend /\ simc.cur = p
  BY <1>2, <1>4, <1>5
<1>7. StopsOK(p, {}) /\ \A r \in Responder : simc.cur # r => WaitsFor(simc', r) = WaitsFor(simc, r)
  BY <1>6, StopsAlike
<1>8. \A q \in Peq : IF Consumer(q) = p THEN Rearmed(q) \/ Elsewhere(p, {}, q) ELSE Kept(q) \/ Gets(q)
  BY <1>3, <1>6 DEF Kept
<1>9. AtArmed'
  BY <1>2, <1>7, <1>8, ArmedStops
<1> QED BY <1>6, <1>7, <1>9 DEF Calm

-----------------------------------------------------------------------------
(* Late responses in the steps of processes *)

\* No responder waits for the answer of a call that was accepted, and no payload joins
\* those whose response is late.
Lately == \A r \in Responder : ~Replying(r) /\ \A tx : (tx \in Late(r))' => tx \in Late(r)

LEMMA LateFrame ==
  ASSUME AtCore', \A n \in Initiator : \A tx : (tx \in Queued(EndRspPeq(n)))' => tx \in Queued(EndRspPeq(n)),
         \/ link' = link /\ \A n \in Initiator : ini'[n].mpc = ini[n].mpc
         \/ link'.status # "called"
         \/ \A n \in Initiator : simc'.cur # EndRsp(n)
  PROVE  \A r \in Responder : \A tx : (tx \in Late(r))' => tx \in Late(r)
<1>1. \A n \in Initiator : ini'[n].mpc = "sent" => simc'.cur = EndRsp(n)
  <2>1. \A n \in Initiator : EndRsp(n) \in Process /\ (Calling(EndRsp(n))' <=> ini'[n].mpc = "sent")
    BY AtNames, CallingNames
  <2>2. \A p \in Process : Calling(p)' => simc'.cur = p
    BY DEF AtCore, Calls
  <2> HIDE DEF Process, Calling
  <2> QED BY <2>1, <2>2
<1>2. ASSUME NEW tx \in Txn PROVE Ending(tx)' => Ending(tx)
  <2>1. PICK n \in Initiator : n = Owner(tx)
    BY OwnerFacts
  <2> HIDE DEF Queued, Owner
  <2> QED BY <2>1 DEF Ending
<1>3. ASSUME NEW tx \in Txn, Closing(tx)', link'.status = "called" PROVE Closing(tx) /\ link.status = "called"
  <2>1. PICK n \in Initiator : n = Owner(tx)
    BY OwnerFacts
  <2>2. ini'[n].mpc = "sent" /\ link'.txn = tx
    BY <1>3, <2>1 DEF Closing
  <2>3. link' = link /\ ini'[n].mpc = ini[n].mpc
    BY <1>1, <1>3, <2>2
  <2> QED BY <1>3, <2>1, <2>2, <2>3 DEF Closing
<1> SUFFICES ASSUME NEW r \in Responder, NEW tx, (tx \in Late(r))' PROVE tx \in Late(r)
  OBVIOUS
<1>4. tx \in Txn /\ Serves(r, tx) /\ (Ending(tx)' \/ (Closing(tx)' /\ link'.status = "called"))
  BY DEF Late, Serves
<1> QED BY <1>2, <1>3, <1>4 DEF Late

\* A responder whose call is answered runs.
LEMMA ReplyingRuns ==
  ASSUME AtCore, NEW r \in Responder, Replying(r)
  PROVE  simc.cur = r
<1>1. link.status = "ACCEPTED" /\ IF Direct THEN tgt[r[2]].rpc = "sent" ELSE bus.rsp.pc = "sent"
  BY DEF Replying
<1>2. CASE Direct
  <2>1. PICK m \in Target : m = r[2] /\ r = BeginResponse(m)
    BY <1>2, ResponderFacts
  <2> QED BY <1>1, <1>2, <2>1, CallerFacts
<1>3. CASE ~Direct
  <2>1. r \in Process /\ r = ResponseThread
    BY <1>3, ResponderFacts
  <2>2. Calling(r)
    BY <1>1, <1>3, <2>1, CallingNames
  <2> HIDE DEF Process, Calling
  <2> QED BY <2>1, <2>2 DEF AtCore, Calls
<1> QED BY <1>2, <1>3

LEMMA NotReplying ==
  ASSUME AtCore, \/ link.status # "ACCEPTED" \/ simc.cur \notin Responder
                 \/ \E m \in Target : simc.cur = BeginResponse(m) /\ tgt[m].rpc # "sent"
                 \/ simc.cur = ResponseThread /\ bus.rsp.pc # "sent"
  PROVE  \A r \in Responder : ~Replying(r)
<1> SUFFICES ASSUME NEW r \in Responder, Replying(r) PROVE FALSE
  OBVIOUS
<1>1. link.status = "ACCEPTED" /\ IF Direct THEN tgt[r[2]].rpc = "sent" ELSE bus.rsp.pc = "sent"
  BY DEF Replying
<1>2. simc.cur = r
  BY ReplyingRuns
<1>3. \A m \in Target : r = BeginResponse(m) => Direct /\ r[2] = m
  BY ResponderNames
<1>4. r = ResponseThread => ~Direct
  BY ResponderNames
<1> HIDE DEF Responder, BeginResponse, ResponseThread
<1> QED BY <1>1, <1>2, <1>3, <1>4

\* A response that is late stays awaited.
LEMMA OneLateFrame ==
  ASSUME OnePlace(simc), NEW r \in Responder, OneLate(r), simc'.pend[EndOf(r)] = simc.pend[EndOf(r)],
         simc.cur # r => WaitsFor(simc', r) = WaitsFor(simc, r),
         ~Replying(r), \A tx : (tx \in Late(r))' => tx \in Late(r)
  PROVE  OneLate(r)'
<1>1. r \in Process
  BY ResponderFacts
<1>4. PICK e : e = EndOf(r)
  OBVIOUS
<1>5. simc'.pend[e] = simc.pend[e] /\ (simc.cur # r => WaitsFor(simc', r) = WaitsFor(simc, r))
  BY <1>4
<1>6. simc.cur = r => WaitsFor(simc, r) = {}
  BY <1>1 DEF OnePlace
<1>7. /\ \A t, u \in Late(r) : t = u
      /\ Late(r) # {} => simc.pend[e] = NotPending /\ e \in WaitsFor(simc, r)
      /\ simc.pend[e] # NotPending => e \in WaitsFor(simc, r)
  BY <1>4 DEF OneLate
<1>8. e \in WaitsFor(simc, r) => simc.cur # r /\ e \in WaitsFor(simc', r)
  BY <1>5, <1>6
<1>9. PICK late2 : \A tx : tx \in late2 <=> (tx \in Late(r))'
  OBVIOUS
<1>10. late2 = Late(r)'
  BY <1>9
<1>11. EndOf(r)' = e
  BY <1>4 DEF EndOf, mEndResponseEvent, EndRespRcvd
<1> HIDE DEF Late, WaitsFor, EndOf, Replying
<1>12. /\ \A t, u \in late2 : t = u
       /\ late2 # {} => simc'.pend[e] = NotPending /\ e \in WaitsFor(simc', r)
       /\ simc'.pend[e] # NotPending => e \in WaitsFor(simc', r)
  BY <1>5, <1>7, <1>8, <1>9
<1> QED BY <1>10, <1>11, <1>12, Zenon DEF OneLate

\* The kernel wakes a responder by the event that ends its response only.
LEMMA OneLateWoken ==
  ASSUME NEW r \in Responder, OneLate(r), Lately, NEW e, e = EndOf(r), NEW D,
         WaitsFor(simc', r) = WaitsFor(simc, r) \ D,
         simc.pend[e] = NotPending => e \notin D /\ simc'.pend[e] = NotPending,
         simc'.pend[e] # NotPending => e \notin D
  PROVE  OneLate(r)'
<1>1. \A tx : (tx \in Late(r))' => tx \in Late(r)
  BY DEF Lately
<1>2. ~Replying(r)
  BY DEF Lately
<1>3. /\ \A t, u \in Late(r) : t = u
      /\ Late(r) # {} => simc.pend[e] = NotPending /\ e \in WaitsFor(simc, r)
      /\ simc.pend[e] # NotPending => e \in WaitsFor(simc, r)
  BY <1>2 DEF OneLate
<1>4. PICK late2 : \A tx : tx \in late2 <=> (tx \in Late(r))'
  OBVIOUS
<1>5. late2 = Late(r)'
  BY <1>4
<1>6. EndOf(r)' = e
  BY DEF EndOf, mEndResponseEvent, EndRespRcvd
<1> HIDE DEF Late, WaitsFor, EndOf, Replying
<1>7. /\ \A t, u \in late2 : t = u
      /\ late2 # {} => simc'.pend[e] = NotPending /\ e \in WaitsFor(simc', r)
      /\ simc'.pend[e] # NotPending => e \in WaitsFor(simc', r)
  BY <1>1, <1>3, <1>4
<1> QED BY <1>5, <1>6, <1>7, Zenon DEF OneLate

\* The kernel.
LEMMA SchedulerWaits ==
  ASSUME AtCore, AtCore', AtWaits, Scheduler, UNCHANGED <<tg, ini, bus, tgt>>
  PROVE  AtWaits'
<1>0. /\ KernelInv(LongestDelay, simc) /\ PeqOK /\ OnePlace(simc) /\ LongestDelay \in Nat /\ AtArmed
      /\ \A r \in Responder : OneLate(r)
  BY AtNumbers DEF AtCore, Types, AtArmed, AtWaits
<1>1. simc.cur = Nobody /\ link' = link
  BY <1>0, RunOK DEF Scheduler, Dispatch, DeltaCycle, AdvanceTime, Evaluated, MayRun
<1>2. \A n \in Initiator : \A tx : (tx \in Queued(EndRspPeq(n)))' => tx \in Queued(EndRspPeq(n))
  <2>1. CASE peq' = peq
    BY <2>1 DEF Queued, EndRspPeq
  <2>2. CASE AdvanceTime
    <3>1. PICK d \in Nat : d = NextTime(simc)
      <4>1. PICK d : d = NextTime(simc)
        OBVIOUS
      <4>2. d \in 1..LongestDelay
        BY <1>0, <2>2, <4>1, AdvanceTimeOK
      <4>3. d \in Nat
        BY <4>2
      <4> QED BY <4>1, <4>3
    <3>2. peq' = [q \in Peq |-> [j \in DOMAIN peq[q] |->
                     [peq[q][j] EXCEPT !.left = IF @ > d THEN @ - d ELSE 0]]]
      BY <2>2, <3>1 DEF AdvanceTime
    <3>3. \A r \in Peq : Once(peq[r])
      BY DEF AtCore
    <3>4. \A r \in Peq : \A u : (u \in Queued(r))' <=> u \in Queued(r)
      BY <1>0, <3>2, <3>3, PeqAged
    <3>5. \A n \in Initiator : EndRspPeq(n) \in Peq
      BY AtNames
    <3> HIDE DEF Peq, Queued, EndRspPeq
    <3> QED BY <3>4, <3>5
  <2> QED BY <2>1, <2>2 DEF Scheduler, Dispatch, DeltaCycle
<1>3. Lately
  <2>1. \A r \in Responder : ~Replying(r)
    BY <1>1, ResponderNames, NotReplying
  <2>2. \A r \in Responder : \A tx : (tx \in Late(r))' => tx \in Late(r)
    BY <1>1, <1>2, LateFrame
  <2> QED BY <2>1, <2>2 DEF Lately
<1>4. AtArmed'
  BY <1>0, ArmedDispatch, ArmedDelta, ArmedTime DEF Scheduler
<1>5. \A r \in Responder : r \in Process /\ EndOf(r) \in Event
                           /\ \A c \in Channel : EndOf(r) # DataWritten(c) /\ EndOf(r) # DataRead(c)
  BY ResponderFacts
<1>6. ASSUME NEW r \in Responder PROVE OneLate(r)'
  <2>1. PICK e : e = EndOf(r)
    OBVIOUS
  <2>2. PICK k, k2 : k = simc /\ k2 = simc'
    OBVIOUS
  <2>3. CASE Dispatch
    <3>1. PICK p \in MayRun(k) : k2 = Run(k, p)
      BY <2>2, <2>3 DEF Dispatch
    <3>2. KernelInv(LongestDelay, k) /\ OnePlace(k)
      BY <1>0, <2>2
    <3>3. k2.pend = k.pend /\ \A c \in Process : WaitsFor(k2, c) = WaitsFor(k, c)
      BY <1>0, <3>1, <3>2, RunPlaces
    <3>4. PICK D : D = {}
      OBVIOUS
    <3>5. WaitsFor(simc', r) = WaitsFor(simc, r)
      BY <1>5, <2>2, <3>3
    <3>6. WaitsFor(simc', r) = WaitsFor(simc, r) \ D /\ e \notin D /\ simc'.pend[e] = simc.pend[e]
      BY <2>2, <3>3, <3>4, <3>5
    <3> HIDE DEF NotPending
    <3> QED BY <1>0, <1>3, <2>1, <3>6, OneLateWoken
  <2>4. CASE DeltaCycle
    <3>1. PICK W : W = Woken(Range(simc.update))
      OBVIOUS
    <3>2. PICK D : D = DeltaPending(simc) \union W
      OBVIOUS
    <3>3. Triggered(simc, D, simc')
      BY <1>0, <2>4, <3>1, <3>2, DeltaCycleOK
    <3>4. D \subseteq Event /\ (e \in D <=> simc.pend[e] = 0)
      BY <1>0, <1>5, <2>1, <3>1, <3>2, DeltaEvents
    <3>5. /\ Woke(k, D, k2) /\ k.cur = Nobody /\ k.runnable = {} /\ DOMAIN k.pend = Event /\ OnePlace(k)
          /\ k2.pend = [f \in Event |-> IF f \in D THEN NotPending ELSE k.pend[f]]
      BY <1>0, <2>2, <2>4, <3>3 DEF Triggered, DeltaCycle, Evaluated, KernelInv, KernelOK, KernelShape
    <3>6. \A p \in Process : WaitsFor(k2, p) = WaitsFor(k, p) \ D
      BY <3>4, <3>5, WokePlaces
    <3>7. WaitsFor(simc', r) = WaitsFor(simc, r) \ D
      BY <1>5, <2>2, <3>6
    <3>8. simc'.pend[e] = IF e \in D THEN NotPending ELSE simc.pend[e]
      BY <1>5, <2>1, <2>2, <3>5
    <3>9. NotPending # 0
      BY DEF NotPending
    <3> HIDE DEF NotPending
    <3> QED BY <1>0, <1>3, <2>1, <3>4, <3>7, <3>8, <3>9, OneLateWoken
  <2>5. CASE AdvanceTime
    <3>1. PICK d : d = NextTime(simc)
      OBVIOUS
    <3>2. PICK D : D = DueAt(simc, d)
      OBVIOUS
    <3>3. /\ d \in 1..LongestDelay
          /\ simc'.pend = [f \in Event |-> IF simc.pend[f] > d THEN simc.pend[f] - d ELSE NotPending]
          /\ Woke(simc, D, simc')
      BY <1>0, <2>5, <3>1, <3>2, AdvanceTimeOK
    <3>4. D \subseteq Event /\ simc.pend \in [Event -> -1..LongestDelay] /\ e \in Event
          /\ (\A f \in Event : f \in D <=> simc.pend[f] = d)
      BY <1>0, <1>5, <2>1, <3>2 DEF DueAt, KernelInv, KernelOK, KernelShape
    <3>5. Woke(k, D, k2) /\ k.cur = Nobody /\ k.runnable = {} /\ DOMAIN k.pend = Event /\ OnePlace(k)
      BY <1>0, <2>2, <2>5, <3>3, <3>4 DEF AdvanceTime, Evaluated
    <3>6. \A p \in Process : WaitsFor(k2, p) = WaitsFor(k, p) \ D
      BY <3>4, <3>5, WokePlaces
    <3>7. WaitsFor(simc', r) = WaitsFor(simc, r) \ D
      BY <1>5, <2>2, <3>6
    <3>8. PICK a \in -1..LongestDelay : a = simc.pend[e]
      BY <3>4
    <3>11. PICK b : b = simc'.pend[e]
      OBVIOUS
    <3>9. b = (IF a > d THEN a - d ELSE NotPending) /\ (e \in D <=> a = d)
      BY <3>3, <3>4, <3>8, <3>11
    <3>10. (a = NotPending => e \notin D /\ b = NotPending) /\ (b # NotPending => e \notin D)
      BY <1>0, <3>3, <3>8, <3>9 DEF NotPending
    <3> HIDE DEF NotPending
    <3> QED BY <1>0, <1>3, <2>1, <3>7, <3>8, <3>10, <3>11, OneLateWoken
  <2> QED BY <2>3, <2>4, <2>5 DEF Scheduler
<1> QED BY <1>4, <1>6 DEF AtWaits

\* The generators.
LEMMA GeneratorWaits ==
  ASSUME AtCore, AtCore', AtArmed, NEW n \in Initiator, TgStep(n), UNCHANGED <<ini, bus, tgt>>
  PROVE  AtArmed' /\ Calm /\ Lately
<1>1. simc.cur = Tg(n) /\ link' = link /\ peq' = peq
  BY Zenon DEF TgStep, Issue, Skip, PutBlocks, Put, Check, GetBlocks, Get, Drain, Drained, Executing, shared
<1>2. Tg(n) \in Thread /\ Tg(n) \in Process /\ ReqCh(n) \in Channel /\ RspCh(n) \in Channel
  BY ThreadFacts, ChannelFacts, Zenon DEF Tg, Process
<1>3. Begun
  BY DEF Begun
<1>4. Lately
  <2>1. \A r \in Responder : ~Replying(r)
    BY <1>1, ResponderNames, NotReplying
  <2>2. \A m \in Initiator : \A tx : (tx \in Queued(EndRspPeq(m)))' => tx \in Queued(EndRspPeq(m))
    BY <1>1 DEF Queued, EndRspPeq
  <2>3. \A r \in Responder : \A tx : (tx \in Late(r))' => tx \in Late(r)
    BY <1>1, <2>2, LateFrame
  <2> QED BY <2>1, <2>3 DEF Lately
<1>5. \/ simc' = simc
      \/ simc' \in {RequestUpdate(simc, ReqCh(n)), RequestUpdate(simc, RspCh(n))}
      \/ simc' \in {Wait(simc, Tg(n), DataRead(ReqCh(n))), Wait(simc, Tg(n), DataWritten(RspCh(n)))}
      \/ simc' = Yield(simc)
  BY DEF TgStep, Issue, Skip, PutBlocks, Put, Check, GetBlocks, Get, Drain, Drained, shared
<1> HIDE DEF AtCore, AtArmed, Calm, Lately, Tg, ReqCh, RspCh, Process, Thread, Channel, Event, Peq, Begun
<1>6. CASE simc' = simc \/ simc' \in {RequestUpdate(simc, ReqCh(n)), RequestUpdate(simc, RspCh(n))}
  <2>1. simc' = simc \/ \E c \in Channel : simc' = RequestUpdate(simc, c)
    BY <1>2, <1>6
  <2> QED BY <1>1, <1>3, <1>4, <2>1, QuietWaits
<1>7. CASE simc' \in {Wait(simc, Tg(n), DataRead(ReqCh(n))), Wait(simc, Tg(n), DataWritten(RspCh(n)))}
  <2>1. PICK e \in Event : e \notin Peq /\ simc' = Yield(NextTrigger(simc, Tg(n), e))
    BY <1>2, <1>7, OtherEvents DEF Wait
  <2>2. StopsBegun(Tg(n))
    <3>1. Tg(n)[1] = "generator" /\ RequestThread[1] = "request" /\ ResponseThread[1] = "response"
      BY DEF Tg, RequestThread, ResponseThread
    <3> HIDE DEF RequestThread, ResponseThread
    <3> QED BY <3>1 DEF StopsBegun
  <2> QED BY <1>1, <1>2, <1>3, <1>4, <2>1, <2>2, StopWaits
<1>8. CASE simc' = Yield(simc)
  BY <1>1, <1>3, <1>4, <1>8, YieldWaits
<1> QED BY <1>5, <1>6, <1>7, <1>8

-----------------------------------------------------------------------------
(* The steps of the initiators *)

LEMMA LatelyKept ==
  ASSUME AtCore, AtCore', link.status # "ACCEPTED" \/ simc.cur \notin Responder,
         \A n \in Initiator : \A tx : (tx \in Queued(EndRspPeq(n)))' => tx \in Queued(EndRspPeq(n)),
         \/ link' = link /\ \A n \in Initiator : ini'[n].mpc = ini[n].mpc
         \/ link'.status # "called"
         \/ \A n \in Initiator : simc'.cur # EndRsp(n)
  PROVE  Lately
<1>1. \A r \in Responder : ~Replying(r)
  BY NotReplying
<1>2. \A r \in Responder : \A tx : (tx \in Late(r))' => tx \in Late(r)
  BY LateFrame
<1> QED BY <1>1, <1>2 DEF Lately

\* The queues of late responses are left alone if all queues are, or only another one is not.
LEMMA EndingsSame ==
  /\ peq' = peq => \A n \in Initiator : \A tx : (tx \in Queued(EndRspPeq(n)))' => tx \in Queued(EndRspPeq(n))
  /\ (\A n \in Initiator : peq'[EndRspPeq(n)] = peq[EndRspPeq(n)])
       => \A n \in Initiator : \A tx : (tx \in Queued(EndRspPeq(n)))' => tx \in Queued(EndRspPeq(n))
BY DEF Queued, EndRspPeq

\* What an answer changes.
LEMMA AnswerShape ==
  ASSUME link \in LinkShape, NEW status, NEW phase, NEW d, link' = Answer(status, phase, d)
  PROVE  link'.status = status /\ link'.txn = link.txn /\ link'.callee = link.callee
<1>1. PICK l \in LinkShape : l = link
  OBVIOUS
<1>2. link' = [l EXCEPT !.status = status, !.phase = phase, !.delay = d]
  BY <1>1 DEF Answer
<1> QED BY <1>1, <1>2 DEF LinkShape

\* The threads of the bus are other processes.
LEMMA OthersBegun ==
  /\ \A n \in Initiator : StopsBegun(Ini(n)) /\ StopsBegun(EndRsp(n))
  /\ \A m \in Target : StopsBegun(BeginResponse(m)) /\ StopsBegun(EndRequest(m))
<1>1. RequestThread[1] = "request" /\ ResponseThread[1] = "response"
  BY DEF RequestThread, ResponseThread
<1>2. \A n \in Initiator : Ini(n)[1] = "initiator" /\ EndRsp(n)[1] = "send_end_rsp"
  BY DEF Ini, EndRsp
<1>3. \A m \in Target : EndRequest(m)[1] = "end_request" /\ BeginResponse(m)[1] = "begin_response"
  BY DEF EndRequest, BeginResponse
<1> HIDE DEF RequestThread, ResponseThread, Ini, EndRsp, EndRequest, BeginResponse
<1> QED BY <1>1, <1>2, <1>3, Zenon DEF StopsBegun

\* The queue of an initiator and its consumer.
LEMMA EndRspQueue ==
  ASSUME NEW n \in Initiator
  PROVE  EndRspPeq(n) \in Peq /\ Consumer(EndRspPeq(n)) = EndRsp(n) /\ EndRsp(n) \in Process
         /\ ~Fresh(EndRspPeq(n))' /\ ~Fresh(EndRspPeq(n))
<1>1. EndRspPeq(n) \in Peq /\ Consumer(EndRspPeq(n)) = EndRsp(n) /\ EndRsp(n) \in Process
  BY AtNames, ConsumerFacts
<1>2. EndRspPeq(n) # requestPEQ /\ EndRspPeq(n) # responsePEQ
  BY DEF EndRspPeq, requestPEQ, responsePEQ
<1>3. ~Fresh(EndRspPeq(n))
  BY <1>2 DEF Fresh
<1>4. ~Fresh(EndRspPeq(n))'
  BY <1>2 DEF Fresh, EndRspPeq, requestPEQ, responsePEQ
<1> QED BY <1>1, <1>3, <1>4

\* initiator_thread.
LEMMA InitiatorThreadWaits ==
  ASSUME AtCore, AtCore', AtArmed, NEW n \in Initiator, UNCHANGED <<tg, bus, tgt>>,
         \/ GetRequestBlocks(n) \/ SendRequest(n) \/ AfterDelay(n)
         \/ RequestCompleted(n) \/ RequestUpdated(n) \/ RequestAccepted(n)
  PROVE  AtArmed' /\ Calm /\ Lately
<1>0. /\ Ini(n) \in Process /\ Req(n) \in Channel /\ Rsp(n) \in Channel /\ StopsBegun(Ini(n)) /\ Begun
      /\ Enable(n) \in Event /\ Enable(n) \notin Peq
      /\ DataWritten(Req(n)) \in Event /\ DataWritten(Req(n)) \notin Peq
  <2>1. Req(n) \in Channel /\ Rsp(n) \in Channel
    BY DEF Req, Rsp, Channel
  <2>2. Begun
    BY DEF Begun
  <2> HIDE DEF Channel, Begun, Process, Event, Peq, Req, Rsp
  <2> QED BY <2>1, <2>2, AtNames, OtherEvents, OthersBegun
<1>1. simc.cur = Ini(n) /\ peq' = peq
  <2>1. IniOK
    BY DEF AtCore, Types
  <2>2. ini[n].pc # "begun"
    BY <2>1 DEF IniOK, IniShape
  <2> QED BY <2>2 DEF GetRequestBlocks, SendRequest, AfterDelay, RequestCompleted, RequestUpdated, RequestAccepted, Executing
<1>2. simc.cur \notin Responder
  BY <1>1, ResponderNames
<1>3. \A m \in Initiator : Ini(n) # EndRsp(m)
  BY DEF Ini, EndRsp
<1>4. CASE GetRequestBlocks(n)
  <2>1. link' = link /\ ini' = ini /\ simc' = Yield(NextTrigger(simc, Ini(n), DataWritten(Req(n))))
    BY <1>4 DEF GetRequestBlocks, Wait
  <2>2. Lately
    BY <1>1, <1>2, <2>1, EndingsSame, LatelyKept
  <2> HIDE DEF AtCore, AtArmed, Calm, Lately, Begun, Process, Event, Peq, Req
  <2> QED BY <1>0, <1>1, <2>1, <2>2, StopWaits
<1>5. CASE SendRequest(n)
  <2>1. simc' = RequestUpdate(simc, Req(n))
    BY <1>5 DEF SendRequest
  <2>2. AtArmed' /\ Calm /\ GoesOnOK
    BY <1>0, <1>1, <2>1, QuietWaits
  <2>3. simc'.cur = Ini(n)
    BY <1>1, <2>2 DEF GoesOnOK
  <2>4. Lately
    BY <1>1, <1>2, <1>3, <2>3, EndingsSame, LatelyKept
  <2> QED BY <2>2, <2>4
<1>6. CASE AfterDelay(n)
  <2>1. ini[n] \in IniShape(n) /\ DOMAIN ini = Initiator
    BY DEF AtCore, Types, IniOK
  <2>2. link' = link /\ simc' = RequestUpdate(simc, Rsp(n)) /\ ini' = [ini EXCEPT ![n].pc = "get"]
    BY <1>6, <2>1 DEF AfterDelay, IniShape
  <2>3. \A m \in Initiator : ini'[m].mpc = ini[m].mpc
    <3>1. PICK s \in IniShape(n) : s = ini[n]
      BY <2>1
    <3>2. ini'[n] = [s EXCEPT !.pc = "get"] /\ \A m \in Initiator : m # n => ini'[m] = ini[m]
      BY <2>1, <2>2, <3>1
    <3>3. ini'[n].mpc = s.mpc
      BY <3>2 DEF IniShape
    <3> QED BY <3>1, <3>2, <3>3
  <2>4. Lately
    BY <1>1, <1>2, <2>2, <2>3, EndingsSame, LatelyKept
  <2> QED BY <1>0, <1>1, <2>2, <2>4, QuietWaits
<1>7. CASE RequestCompleted(n) \/ RequestUpdated(n) \/ RequestAccepted(n)
  <2>1. link' = NoCall /\ ini[n].pc = "sent" /\ Answered
    BY <1>7 DEF RequestCompleted, RequestUpdated, RequestAccepted
  <2>2. Lately
    <3>1. link'.status # "called"
      BY <2>1 DEF NoCall
    <3> QED BY <1>1, <1>2, <3>1, EndingsSame, LatelyKept
  <2>3. \/ Accepted("BEGIN_REQ")
        \/ ReqEnds
        \/ Complete
    BY <2>1, SendingFacts
  <2>4. \/ simc' = Yield(NextTrigger(simc, Ini(n), Enable(n)))
        \/ simc' = Yield(NextTriggerTime(simc, Ini(n), link.delay + EndRspDelay)) /\ Complete
        \/ simc' = Yield(NextTriggerTime(simc, Ini(n), link.delay)) /\ ReqEnds
    <3>1. CASE RequestCompleted(n)
      BY <2>3, <3>1 DEF RequestCompleted, WaitTime, Accepted, ReqEnds
    <3>2. CASE RequestUpdated(n)
      BY <2>3, <3>2 DEF RequestUpdated, WaitTime, Accepted, ReqEnds, Complete
    <3>3. CASE RequestAccepted(n)
      BY <3>3 DEF RequestAccepted, AwaitEnable, Wait
    <3> QED BY <1>7, <3>1, <3>2, <3>3
  <2>5. \/ \E e \in Event : e \notin Peq /\ simc' = Yield(NextTrigger(simc, Ini(n), e))
        \/ \E t \in 0..LongestDelay : simc' = Yield(NextTriggerTime(simc, Ini(n), t))
    <3>1. CASE simc' = Yield(NextTrigger(simc, Ini(n), Enable(n)))
      <4> HIDE DEF Event, Peq, Enable
      <4> QED BY <1>0, <3>1
    <3>2. CASE simc' = Yield(NextTriggerTime(simc, Ini(n), link.delay + EndRspDelay)) /\ Complete
      <4>0. link \in LinkShape
        BY <2>1, SendingFacts DEF AtCore, Calls
      <4>1. PICK d \in Nat : d = link.delay
        BY <4>0, AtNumbers DEF LinkShape
      <4>2. d + EndRspDelay \in 0..LongestDelay
        BY <3>2, <4>1, AtNumbers DEF Complete
      <4> QED BY <3>2, <4>1, <4>2
    <3>3. CASE simc' = Yield(NextTriggerTime(simc, Ini(n), link.delay)) /\ ReqEnds
      BY <3>3, AtNumbers DEF ReqEnds
    <3> QED BY <2>4, <3>1, <3>2, <3>3
  <2> HIDE DEF AtCore, AtArmed, Calm, Lately, Begun, Process, Event, Peq, Req
  <2> QED BY <1>0, <1>1, <2>2, <2>5, StopWaits
<1> QED BY <1>4, <1>5, <1>6, <1>7

-----------------------------------------------------------------------------
(* AtWaits: the steps of the initiators and of the targets *)

\* nb_transport_bw, but for a response that is accepted.
LEMMA BackwardWaits ==
  ASSUME AtCore, AtCore', AtArmed, NEW n \in Initiator, UNCHANGED <<tg, bus, tgt>>,
         BwEndReq(n) \/ BwBeginRespEnds(n)
  PROVE  AtArmed' /\ Calm /\ Lately
<1>0. /\ Rsp(n) \in Channel /\ Begun /\ Enable(n) \in Event /\ Enable(n) \notin Peq
      /\ (\A r \in Responder : Enable(n) # EndOf(r)) /\ 0 \in 0..LongestDelay
  <2>1. Rsp(n) \in Channel
    BY DEF Rsp, Channel
  <2>2. Begun
    BY DEF Begun
  <2> HIDE DEF Channel, Begun, Event, Peq, Rsp, Responder, EndOf
  <2> QED BY <2>1, <2>2, OtherEvents, AtNumbers
<1>1. Called(ToInitiator(n)) /\ peq' = peq
  BY DEF BwEndReq, BwBeginRespEnds
<1>2. link \in LinkShape /\ link.status = "called"
  BY <1>1, InitiatorCalled DEF Called
<1>3. Lately
  <2>1. link'.status \in {"ACCEPTED", "COMPLETED"}
    BY <1>2, AnswerShape DEF BwEndReq, BwBeginRespEnds
  <2> QED BY <1>1, <1>2, <2>1, EndingsSame, LatelyKept
<1>4. \/ simc' = Notify(simc, Enable(n), 0)
      \/ simc' = RequestUpdate(Notify(simc, Enable(n), 0), Rsp(n))
      \/ simc' = RequestUpdate(simc, Rsp(n))
  BY DEF BwEndReq, BwBeginRespEnds
<1> HIDE DEF AtCore, AtArmed, Calm, Lately, Begun, Process, Event, Peq, Rsp, Channel, Responder, EndOf, Enable
<1>5. CASE \/ simc' = Notify(simc, Enable(n), 0)
           \/ simc' = RequestUpdate(Notify(simc, Enable(n), 0), Rsp(n))
  <2>1. PICK e \in Event, t \in 0..LongestDelay : e = Enable(n) /\ t = 0
    BY <1>0
  <2>2. e \notin Peq /\ \A r \in Responder : e # EndOf(r)
    BY <1>0, <2>1
  <2>3. simc' = Notify(simc, e, t) \/ \E c \in Channel : simc' = RequestUpdate(Notify(simc, e, t), c)
    BY <1>0, <1>5, <2>1
  <2>4. AtArmed' /\ Calm
    BY <1>0, <1>1, <2>2, <2>3, NotifyWaits
  <2> QED BY <1>3, <2>4
<1>6. CASE simc' = RequestUpdate(simc, Rsp(n))
  BY <1>0, <1>1, <1>3, <1>6, QuietWaits
<1> QED BY <1>4, <1>5, <1>6

\* Who makes a call of an initiator's nb_transport_bw to begin a response.
LEMMA ReplierCalls ==
  ASSUME AtCore, NEW n \in Initiator, Called(ToInitiator(n)), link.phase = "BEGIN_RESP"
  PROVE  \E r \in Responder : /\ simc.cur = r /\ \A q \in Responder : Serves(q, link.txn) => q = r
                              /\ IF Direct THEN tgt[r[2]].rpc = "sent" ELSE bus.rsp.pc = "sent"
<1>1. link # NoCall /\ link.callee = <<"initiator", n>> /\ link.status = "called" /\ Owner(link.txn) = n
  BY InitiatorCalled DEF Called, ToInitiator
<1>2. \/ simc.cur = ResponseThread /\ Wiring = "bus" /\ ReplyCall
      \/ \E m \in Target : simc.cur = BeginResponse(m) /\ BeginRespCall(m)
  <2>1. \A m \in Initiator : ~RequestCall(m) /\ ~CloseCall(m)
    BY <1>1, Reached
  <2>2. ~ForwardCall /\ ~EndRspCall
    BY <1>1, Reached
  <2>3. ~EndReqCall /\ \A m \in Target : ~TargetEndReqCall(m)
    BY DEF EndReqCall, TargetEndReqCall, Open, Accepted
  <2> QED BY <1>1, <2>1, <2>2, <2>3, Callers
<1>3. CASE simc.cur = ResponseThread /\ Wiring = "bus" /\ ReplyCall
  <2>1. ~Direct /\ bus.rsp.pc = "sent"
    BY <1>3, Bindings DEF ReplyCall
  <2> QED BY <1>3, <2>1 DEF Responder
<1>4. CASE \E m \in Target : simc.cur = BeginResponse(m) /\ BeginRespCall(m)
  <2>1. PICK m \in Target : simc.cur = BeginResponse(m) /\ BeginRespCall(m)
    BY <1>4
  <2>2. Direct
    <3>1. link.callee = FromTarget(m)
      BY <2>1 DEF BeginRespCall
    <3>2. ~Direct => link.callee[1] = "bus_bw"
      BY <3>1, Bindings
    <3> QED BY <1>1, <3>2
  <2>3. n = m + 1
    BY <1>1, <2>1, <2>2 DEF BeginRespCall
  <2>4. tgt[m].rpc = "sent"
    <3>1. Calling(BeginResponse(m))
      BY <1>1, <2>1 DEF AtCore, Calls
    <3> QED BY <3>1, CallingNames
  <2>5. PICK r \in Responder : r = BeginResponse(m)
    BY <2>2 DEF Responder
  <2>6. r[2] = m
    BY <2>5 DEF BeginResponse
  <2>7. \A q \in Responder : Serves(q, link.txn) => q = r
    <3> SUFFICES ASSUME NEW q \in Responder, Serves(q, link.txn) PROVE q = r
      OBVIOUS
    <3>1. q[2] = n - 1 /\ q = BeginResponse(q[2])
      BY <1>1, <2>2, ResponderFacts DEF Serves
    <3>2. n - 1 = m
      BY <2>3, AtNumbers
    <3> QED BY <2>5, <3>1, <3>2
  <2> QED BY <2>1, <2>2, <2>4, <2>5, <2>6, <2>7
<1> QED BY <1>2, <1>3, <1>4

\* The initiator accepts a response, and will end it later: the responder, who runs,
\* had no response that was late, and is about to wait.
LEMMA BeginsLate ==
  ASSUME AtCore, AtCore', AtWaits, NEW n \in Initiator, UNCHANGED <<tg, bus, tgt>>, BwBeginResp(n)
  PROVE  AtWaits'
<1>0. /\ Begun /\ Enable(n) \in Event /\ Enable(n) \notin Peq
      /\ (\A r \in Responder : Enable(n) # EndOf(r)) /\ 0 \in 0..LongestDelay /\ EndRspDelay \in 0..LongestDelay
      /\ EndRspPeq(n) \in Peq /\ AtArmed /\ OnePlace(simc)
  <2>2. Begun
    BY DEF Begun
  <2> HIDE DEF Begun, Event, Peq, Responder, EndOf
  <2> QED BY <2>2, OtherEvents, AtNumbers, AtNames DEF AtWaits, AtArmed
<1>1. PICK t : t = link.txn
  OBVIOUS
<1>2. /\ Called(ToInitiator(n)) /\ link.phase = "BEGIN_RESP"
      /\ peq' = [peq EXCEPT ![EndRspPeq(n)] = PeqInsert(@, t, EndRspDelay)]
      /\ \/ simc' = Notify(simc, EndRspPeq(n), EndRspDelay)
         \/ simc' = Notify(Notify(simc, EndRspPeq(n), EndRspDelay), Enable(n), 0)
      /\ link' = Answer("ACCEPTED", link.phase, link.delay)
  BY <1>1 DEF BwBeginResp
<1>3. link \in LinkShape /\ link.status = "called" /\ t \in Txn /\ Owner(t) = n
  BY <1>1, <1>2, InitiatorCalled DEF Called
<1>4. AtArmed' /\ Calm
  <2> HIDE DEF AtCore, AtArmed, Calm, Begun, Peq, Event, Responder, EndOf, Enable, EndRspPeq, Txn
  <2>1. PICK q \in Peq, d \in 0..LongestDelay, e \in Event, u \in 0..LongestDelay :
          q = EndRspPeq(n) /\ d = EndRspDelay /\ e = Enable(n) /\ u = 0
    BY <1>0
  <2>2. e \notin Peq /\ \A r \in Responder : e # EndOf(r)
    BY <1>0, <2>1
  <2>3. peq' = [peq EXCEPT ![q] = PeqInsert(@, t, d)]
        /\ (simc' = Notify(simc, q, d) \/ simc' = Notify(Notify(simc, q, d), e, u))
    BY <1>2, <2>1
  <2> QED BY <1>0, <1>3, <2>2, <2>3, PutWaits
<1>5. link'.status = "ACCEPTED"
  BY <1>2, <1>3, AnswerShape
<1>6. PICK r0 \in Responder : /\ simc.cur = r0 /\ \A q \in Responder : Serves(q, t) => q = r0
                              /\ IF Direct THEN tgt[r0[2]].rpc = "sent" ELSE bus.rsp.pc = "sent"
  BY <1>1, <1>2, ReplierCalls
<1>7. \A r \in Responder : ~Replying(r)
  BY <1>3, NotReplying
<1>8. \A r \in Responder : \A tx : (tx \in Late(r))' => tx \in Late(r) \/ (tx = t /\ r = r0)
  <2>1. \A r \in Peq : \A u : (u \in Queued(r))' <=> u \in Queued(r) \/ (r = EndRspPeq(n) /\ u = t)
    <3>1. PeqOK
      BY DEF AtCore, Types
    <3> HIDE DEF Peq, PeqOK, Queued
    <3> QED BY <1>0, <1>2, <1>3, <3>1, PeqPut
  <2>2. ASSUME NEW tx \in Txn PROVE Ending(tx)' => Ending(tx) \/ tx = t
    <3>1. PICK m \in Initiator : m = Owner(tx)
      BY OwnerFacts
    <3>2. EndRspPeq(m) \in Peq
      BY AtNames
    <3> HIDE DEF Queued, Peq, Owner, EndRspPeq
    <3>3. (tx \in Queued(EndRspPeq(m)))' => tx \in Queued(EndRspPeq(m)) \/ tx = t
      BY <2>1, <3>2 DEF EndRspPeq
    <3> QED BY <3>1, <3>3 DEF Ending
  <2> SUFFICES ASSUME NEW r \in Responder, NEW tx, (tx \in Late(r))' PROVE tx \in Late(r) \/ (tx = t /\ r = r0)
    OBVIOUS
  <2>3. tx \in Txn /\ Serves(r, tx) /\ Ending(tx)'
    BY <1>5 DEF Late, Serves
  <2>4. tx = t => r = r0
    BY <1>6, <2>3
  <2> QED BY <2>2, <2>3, <2>4 DEF Late
<1>9. ASSUME NEW r \in Responder PROVE OneLate(r)'
  <2>1. OneLate(r)
    BY DEF AtWaits
  <2>2. PICK late2 : \A tx : tx \in late2 <=> (tx \in Late(r))'
    OBVIOUS
  <2>3. late2 = Late(r)'
    BY <2>2
  <2>4. PICK e : e = EndOf(r)
    OBVIOUS
  <2>5. EndOf(r)' = e
    BY <2>4 DEF EndOf, mEndResponseEvent, EndRespRcvd
  <2>6. simc'.pend[e] = simc.pend[e]
    BY <1>4, <2>4 DEF Calm
  <2>7. CASE r = r0
    <3>1. WaitsFor(simc, r) = {}
      BY <1>0, <1>6, <2>7, ResponderFacts DEF OnePlace
    <3>2. Late(r) = {} /\ simc.pend[e] = NotPending
      BY <1>7, <2>1, <2>4, <3>1 DEF OneLate
    <3>3. Replying(r)'
      BY <1>5, <1>6, <2>7 DEF Replying
    <3>4. \A x, y \in late2 : x = y
      BY <1>8, <2>2, <3>2
    <3> HIDE DEF Late, WaitsFor, EndOf, Replying, NotPending
    <3> QED BY <2>3, <2>5, <2>6, <3>2, <3>3, <3>4 DEF OneLate
  <2>8. CASE r # r0
    <3>1. simc.cur # r => WaitsFor(simc', r) = WaitsFor(simc, r)
      BY <1>4 DEF Calm
    <3>2. \A tx : (tx \in Late(r))' => tx \in Late(r)
      BY <1>8, <2>8
    <3> QED BY <1>0, <1>7, <2>1, <2>4, <2>6, <3>1, <3>2, OneLateFrame
  <2> QED BY <2>7, <2>8
<1> QED BY <1>4, <1>9 DEF AtWaits

\* send_end_rsp_method.
LEMMA EndRspWaits ==
  ASSUME AtCore, AtCore', AtArmed, NEW n \in Initiator, UNCHANGED <<tg, bus, tgt>>,
         EndRspNext(n) \/ EndRspSent(n) \/ EndRspReturn(n)
  PROVE  AtArmed' /\ Calm /\ Lately
<1>0. /\ Rsp(n) \in Channel /\ Begun /\ StopsBegun(EndRsp(n)) /\ EndRspPeq(n) \in Peq /\ EndRsp(n) \in Process
      /\ Consumer(EndRspPeq(n)) = EndRsp(n) /\ ~Fresh(EndRspPeq(n))'
  <2>1. Rsp(n) \in Channel
    BY DEF Rsp, Channel
  <2>2. Begun
    BY DEF Begun
  <2>3. StopsBegun(EndRsp(n))
    BY OthersBegun
  <2> HIDE DEF Channel, Begun, Peq, Process, Fresh, Consumer, StopsBegun
  <2> QED BY <2>1, <2>2, <2>3, EndRspQueue
<1>1. simc.cur = EndRsp(n)
  BY DEF EndRspNext, EndRspSent, EndRspReturn, Executing
<1>2. simc.cur \notin Responder
  BY <1>1, ResponderNames
<1>3. CASE EndRspNext(n)
  <2>1. PICK t : t = Head(peq[EndRspPeq(n)]).txn
    OBVIOUS
  <2>2. peq' = PeqPop(EndRspPeq(n)) /\ simc' = simc /\ PeqDue(EndRspPeq(n)) /\ link' = Call(FromInitiator(n), t, "END_RESP")
    BY <1>3, <2>1 DEF EndRspNext
  <2>3. /\ t \in Txn /\ t \in Queued(EndRspPeq(n))
        /\ \A r \in Peq : \A u : (u \in Queued(r))' <=> u \in Queued(r) /\ ~(r = EndRspPeq(n) /\ u = t)
    <3>1. PeqOK /\ \A r \in Peq : Once(peq[r])
      BY DEF AtCore, Types
    <3> HIDE DEF Peq, PeqOK, Once, Queued, PeqDue
    <3> QED BY <1>0, <2>1, <2>2, <3>1, PeqTaken
  <2>4. Owner(t) = n
    <3>1. PayloadInv(t)
      BY <2>3 DEF AtCore
    <3>2. Fits(EndRspPeq(n), t)
      BY <1>0, <2>3, <3>1, QueueFacts
    <3> QED BY <3>2 DEF Fits, EndRspPeq
  <2>5. ASSUME NEW tx \in Txn PROVE Ending(tx)' => Ending(tx)
    <3>1. PICK m \in Initiator : m = Owner(tx)
      BY OwnerFacts
    <3>2. EndRspPeq(m) \in Peq
      BY AtNames
    <3> HIDE DEF Queued, Peq, Owner, EndRspPeq
    <3>3. (tx \in Queued(EndRspPeq(m)))' => tx \in Queued(EndRspPeq(m))
      BY <2>3, <3>2 DEF EndRspPeq
    <3> QED BY <3>1, <3>3 DEF Ending
  <2>6. \A r \in Responder : \A tx : (tx \in Late(r))' => tx \in Late(r)
    <3> SUFFICES ASSUME NEW r \in Responder, NEW tx, (tx \in Late(r))' PROVE tx \in Late(r)
      OBVIOUS
    <3>1. tx \in Txn /\ Serves(r, tx) /\ (Ending(tx)' \/ Closing(tx)')
      BY DEF Late, Serves
    <3>2. Closing(tx)' => tx = t
      BY <2>2 DEF Closing, Call
    <3>3. Ending(t)
      BY <2>3, <2>4 DEF Ending
    <3> QED BY <2>5, <3>1, <3>2, <3>3 DEF Late
  <2>7. Lately
    <3>1. \A r \in Responder : ~Replying(r)
      BY <1>2, NotReplying
    <3> QED BY <2>6, <3>1 DEF Lately
  <2> HIDE DEF AtCore, AtArmed, Calm, Lately, Begun, Peq, Fresh, Consumer
  <2> QED BY <1>0, <1>1, <2>2, <2>7, TakeWaits
<1>4. CASE EndRspSent(n)
  <2>1. link' = NoCall /\ peq' = peq /\ (simc' = simc \/ simc' = RequestUpdate(simc, Rsp(n)))
    BY <1>4 DEF EndRspSent
  <2>2. Lately
    <3>1. link'.status # "called"
      BY <2>1 DEF NoCall
    <3> QED BY <1>2, <2>1, <3>1, EndingsSame, LatelyKept
  <2> QED BY <1>0, <2>1, <2>2, QuietWaits
<1>5. CASE EndRspReturn(n)
  <2>1. link' = link /\ ini' = ini /\ peq' = peq
    BY <1>5 DEF EndRspReturn
  <2>2. Lately
    BY <1>2, <2>1, EndingsSame, LatelyKept
  <2>3. PICK k : k = PeqRearm(simc, EndRspPeq(n))
    OBVIOUS
  <2>4. simc' = Yield(k)
    BY <1>5, <2>3 DEF EndRspReturn
  <2>5. PICK q \in Peq, p \in Process : q = EndRspPeq(n) /\ p = EndRsp(n)
    BY <1>0
  <2> HIDE DEF AtCore, AtArmed, Calm, Lately, Begun, Peq, Fresh, Consumer, Process, EndRsp, EndRspPeq, StopsBegun
  <2> QED BY <1>0, <1>1, <2>1, <2>2, <2>3, <2>4, <2>5, RearmWaits
<1> QED BY <1>3, <1>4, <1>5

\* Responses that are late in a step that leaves them so.
LEMMA WaitsKept ==
  ASSUME AtWaits, AtArmed', Calm, Lately
  PROVE  AtWaits'
<1>1. \A r \in Responder : OneLate(r)'
  BY OneLateFrame DEF AtWaits, AtArmed, Calm, Lately
<1> HIDE DEF OneLate, AtArmed
<1> QED BY <1>1 DEF AtWaits, Responder, BeginResponse, ResponseThread

\* The initiators.
LEMMA InitiatorWaits ==
  ASSUME AtCore, AtCore', AtWaits, NEW n \in Initiator, IniStep(n), UNCHANGED <<tg, bus, tgt>>
  PROVE  AtWaits'
<1>1. AtArmed
  BY DEF AtWaits
<1> HIDE DEF AtCore, AtWaits, AtArmed, Calm, Lately
<1>2. CASE \/ GetRequestBlocks(n) \/ SendRequest(n) \/ AfterDelay(n)
           \/ RequestCompleted(n) \/ RequestUpdated(n) \/ RequestAccepted(n)
  BY <1>1, <1>2, InitiatorThreadWaits, WaitsKept
<1>3. CASE BwEndReq(n) \/ BwBeginRespEnds(n)
  BY <1>1, <1>3, BackwardWaits, WaitsKept
<1>4. CASE BwBeginResp(n)
  BY <1>4, BeginsLate
<1>5. CASE EndRspNext(n) \/ EndRspSent(n) \/ EndRspReturn(n)
  BY <1>1, <1>5, EndRspWaits, WaitsKept
<1> QED BY <1>2, <1>3, <1>4, <1>5, Zenon DEF IniStep

-----------------------------------------------------------------------------
(* The end of a response, and the wait for it *)

\* END_RESP reaches responder r0, which waits for it: its one late response is over.
LEMMA EndsLate ==
  ASSUME AtCore, AtWaits, AtArmed', GoesOnOK, peq' = peq, ini' = ini,
         NEW r0 \in Responder, NEW n \in Initiator, simc.cur = EndRsp(n), link.status = "called",
         link.txn \in Txn, Closing(link.txn), Serves(r0, link.txn), link'.status # "called",
         \A r \in Responder : r # r0 => simc'.pend[EndOf(r)] = simc.pend[EndOf(r)]
  PROVE  AtWaits'
<1>1. PICK t \in Txn : t = link.txn /\ Closing(t) /\ Serves(r0, t)
  OBVIOUS
<1>2. \A tx \in Txn : Ending(tx)' => Ending(tx)
  BY DEF Ending, Queued, EndRspPeq
<1>3. \A r \in Responder : \A tx : (tx \in Late(r))' => tx \in Late(r)
  BY <1>2 DEF Late, Serves
<1>4. ~Ending(t)
  BY <1>1 DEF AtCore, PayloadInv, OneHand
<1>5. \A r \in Responder : ~Replying(r)
  BY NotReplying
<1>6. OnePlace(simc) /\ \A r \in Responder : r \in Process /\ OneLate(r)
  BY ResponderFacts DEF AtWaits, AtArmed
<1>7. \A r \in Responder : WaitsFor(simc', r) = WaitsFor(simc, r)
  BY <1>6 DEF GoesOnOK
<1>8. ASSUME NEW r \in Responder PROVE OneLate(r)'
  <2>1. CASE r # r0
    BY <1>3, <1>5, <1>6, <1>7, <2>1, OneLateFrame
  <2>2. CASE r = r0
    <3>1. PICK late2 : \A tx : tx \in late2 <=> (tx \in Late(r))'
      OBVIOUS
    <3>2. late2 = Late(r)'
      BY <3>1
    <3>3. PICK e : e = EndOf(r)
      OBVIOUS
    <3>4. EndOf(r)' = e
      BY <3>3 DEF EndOf, mEndResponseEvent, EndRespRcvd
    <3>5. t \in Late(r)
      BY <1>1, <2>2 DEF Late
    <3>6. e \in WaitsFor(simc, r) /\ \A x, y \in Late(r) : x = y
      BY <1>5, <1>6, <3>3, <3>5 DEF OneLate
    <3>7. late2 = {}
      <4> SUFFICES ASSUME NEW tx \in late2 PROVE FALSE
        OBVIOUS
      <4>1. tx \in Txn /\ Ending(tx)'
        BY <3>1 DEF Late
      <4>2. tx = t
        BY <1>3, <3>1, <3>5, <3>6
      <4> QED BY <1>2, <1>4, <4>1, <4>2
    <3> HIDE DEF Late, WaitsFor, EndOf, Replying, NotPending
    <3>8. e \in WaitsFor(simc', r)
      BY <1>7, <3>6
    <3>9. /\ \A x, y \in late2 : x = y
          /\ late2 # {} => simc'.pend[e] = NotPending /\ e \in WaitsFor(simc', r)
          /\ simc'.pend[e] # NotPending => e \in WaitsFor(simc', r)
      BY <3>7, <3>8
    <3> QED BY <3>2, <3>4, <3>9, Zenon DEF OneLate
  <2> QED BY <2>1, <2>2
<1> HIDE DEF OneLate, AtArmed
<1> QED BY <1>8 DEF AtWaits, Responder, BeginResponse, ResponseThread

\* Responder r0 begins to wait for the end of its response.
LEMMA AwaitsEnd ==
  ASSUME AtCore, AtCore', AtWaits, AtArmed', Calm, peq' = peq, link'.status # "called",
         NEW r0 \in Responder, simc.cur = r0, WaitsFor(simc', r0) = {EndOf(r0)}
  PROVE  AtWaits'
<1>1. \A r \in Responder : \A tx : (tx \in Late(r))' => tx \in Late(r)
  BY EndingsSame, LateFrame
<1>2. OnePlace(simc) /\ \A r \in Responder : r \in Process /\ OneLate(r)
  BY ResponderFacts DEF AtWaits, AtArmed
<1>3. ASSUME NEW r \in Responder PROVE OneLate(r)'
  <2>1. simc'.pend[EndOf(r)] = simc.pend[EndOf(r)]
    BY DEF Calm
  <2>2. CASE r # r0
    <3>1. ~Replying(r)
      BY <2>2, ReplyingRuns
    <3>2. WaitsFor(simc', r) = WaitsFor(simc, r)
      BY <2>2 DEF Calm
    <3> QED BY <1>1, <1>2, <2>1, <3>1, <3>2, OneLateFrame
  <2>3. CASE r = r0
    <3>1. PICK late2 : \A tx : tx \in late2 <=> (tx \in Late(r))'
      OBVIOUS
    <3>2. late2 = Late(r)'
      BY <3>1
    <3>3. PICK e : e = EndOf(r)
      OBVIOUS
    <3>4. EndOf(r)' = e
      BY <3>3 DEF EndOf, mEndResponseEvent, EndRespRcvd
    <3>5. WaitsFor(simc, r) = {}
      BY <1>2, <2>3 DEF OnePlace
    <3>6. simc.pend[e] = NotPending /\ \A x, y \in Late(r) : x = y
      BY <1>2, <3>3, <3>5 DEF OneLate
    <3> HIDE DEF Late, WaitsFor, EndOf, Replying, NotPending
    <3>7. simc'.pend[e] = NotPending /\ e \in WaitsFor(simc', r)
      BY <2>1, <2>3, <3>3, <3>6
    <3>8. /\ \A x, y \in late2 : x = y
          /\ late2 # {} => simc'.pend[e] = NotPending /\ e \in WaitsFor(simc', r)
          /\ simc'.pend[e] # NotPending => e \in WaitsFor(simc', r)
      BY <1>1, <3>1, <3>6, <3>7
    <3> QED BY <3>2, <3>4, <3>8, Zenon DEF OneLate
  <2> QED BY <2>2, <2>3
<1> HIDE DEF OneLate, AtArmed
<1> QED BY <1>3 DEF AtWaits, Responder, BeginResponse, ResponseThread

-----------------------------------------------------------------------------
(* The steps of the targets *)

\* The queues of a target and their consumers.
LEMMA TargetQueues ==
  ASSUME NEW m \in Target
  PROVE  /\ ResponsePeq(m) \in Peq /\ Consumer(ResponsePeq(m)) = BeginResponse(m) /\ BeginResponse(m) \in Process
         /\ ~Fresh(ResponsePeq(m))'
         /\ EndRequestPeq(m) \in Peq /\ Consumer(EndRequestPeq(m)) = EndRequest(m) /\ EndRequest(m) \in Process
         /\ ~Fresh(EndRequestPeq(m))' /\ ResponsePeq(m) # EndRequestPeq(m)
         /\ \A n \in Initiator : /\ EndRspPeq(n) # ResponsePeq(m) /\ EndRspPeq(n) # EndRequestPeq(m)
                                 /\ EndRsp(n) # BeginResponse(m) /\ EndRsp(n) # EndRequest(m)
         /\ EndRequest(m) \notin Responder
<1>1. /\ ResponsePeq(m) \in Peq /\ Consumer(ResponsePeq(m)) = BeginResponse(m) /\ BeginResponse(m) \in Process
      /\ EndRequestPeq(m) \in Peq /\ Consumer(EndRequestPeq(m)) = EndRequest(m) /\ EndRequest(m) \in Process
  BY AtNames, ConsumerFacts
<1>2. ~Fresh(ResponsePeq(m))' /\ ~Fresh(EndRequestPeq(m))'
  BY DEF Fresh, EndRequestPeq, ResponsePeq, requestPEQ, responsePEQ
<1>3. ResponsePeq(m) # EndRequestPeq(m)
      /\ \A n \in Initiator : EndRspPeq(n) # ResponsePeq(m) /\ EndRspPeq(n) # EndRequestPeq(m)
  BY DEF EndRequestPeq, ResponsePeq, EndRspPeq
<1>4. \A n \in Initiator : EndRsp(n) # BeginResponse(m) /\ EndRsp(n) # EndRequest(m)
  BY DEF EndRsp, EndRequest, BeginResponse
<1>5. EndRequest(m) \notin Responder
  BY ResponderNames
<1> QED BY <1>1, <1>2, <1>3, <1>4, <1>5

\* BEGIN_REQ.
LEMMA BeginReqWaits ==
  ASSUME AtCore, AtCore', AtArmed, NEW m \in Target, UNCHANGED <<tg, ini, bus>>,
         BeginReqCompletes(m) \/ BeginReqUpdates(m) \/ BeginReqAccepted(m)
  PROVE  AtArmed' /\ Calm /\ Lately
<1>0. Begun
  BY DEF Begun
<1>1. Called(ToTarget(m)) /\ link.phase = "BEGIN_REQ"
  BY DEF BeginReqCompletes, BeginReqUpdates, BeginReqAccepted
<1>2. PICK t \in Txn : t = link.txn
  BY <1>1, TargetCalled
<1>3. link \in LinkShape /\ link.status = "called" /\ link.delay = 0 /\ Waiting(t)
  BY <1>1, <1>2, TargetCalled, AskedFacts
<1>4. OperationDelay(t) + AcceptDelay \in 0..LongestDelay /\ AcceptDelay \in 0..LongestDelay /\ OperationDelay(t) \in Nat
  <2>1. InHand(t)
    BY <1>3 DEF Waiting, InHand
  <2>2. gp[t].addr \in Addresses /\ gp[t].cmd \in {"read", "write"}
    BY <2>1, InHandFacts
  <2> QED BY <2>2, TargetTimes, AtNumbers
<1>5. link'.status \in {"ACCEPTED", "UPDATED", "COMPLETED"}
  BY <1>3, AnswerShape DEF BeginReqCompletes, BeginReqUpdates, BeginReqAccepted
<1>6. CASE BeginReqCompletes(m)
  <2>1. peq' = peq /\ simc' = simc
    BY <1>6 DEF BeginReqCompletes
  <2>2. Lately
    BY <1>3, <1>5, <2>1, EndingsSame, LatelyKept
  <2> QED BY <1>0, <2>1, <2>2, QuietWaits
<1>7. CASE BeginReqUpdates(m) \/ BeginReqAccepted(m)
  <2>1. PICK q \in Peq, d \in 0..LongestDelay :
          /\ peq' = [peq EXCEPT ![q] = PeqInsert(@, t, d)] /\ simc' = Notify(simc, q, d)
          /\ \A n \in Initiator : EndRspPeq(n) # q
    <3>1. CASE BeginReqUpdates(m)
      <4>1. PICK d \in 0..LongestDelay : d = OperationDelay(t) + AcceptDelay
        BY <1>4
      <4>2. link.delay + OperationDelay(t) + AcceptDelay = d
        BY <1>3, <1>4, <4>1, AtNumbers
      <4>3. peq' = [peq EXCEPT ![ResponsePeq(m)] = PeqInsert(@, t, d)] /\ simc' = Notify(simc, ResponsePeq(m), d)
        BY <1>2, <3>1, <4>2 DEF BeginReqUpdates
      <4> QED BY <4>3, TargetQueues
    <3>2. CASE BeginReqAccepted(m)
      <4>1. PICK d \in 0..LongestDelay : d = AcceptDelay
        BY <1>4
      <4>2. link.delay + AcceptDelay = d
        BY <1>3, <4>1, AtNumbers
      <4>3. peq' = [peq EXCEPT ![EndRequestPeq(m)] = PeqInsert(@, t, d)] /\ simc' = Notify(simc, EndRequestPeq(m), d)
        BY <1>2, <3>2, <4>2 DEF BeginReqAccepted
      <4> QED BY <4>3, TargetQueues
    <3> QED BY <1>7, <3>1, <3>2
  <2>2. \A n \in Initiator : peq'[EndRspPeq(n)] = peq[EndRspPeq(n)]
    <3>1. DOMAIN peq = Peq /\ \A n \in Initiator : EndRspPeq(n) \in Peq
      BY AtNames DEF AtCore, Types, PeqOK
    <3> HIDE DEF Peq, EndRspPeq
    <3> QED BY <2>1, <3>1
  <2>3. Lately
    BY <1>3, <1>5, <2>2, EndingsSame, LatelyKept
  <2> HIDE DEF AtCore, AtArmed, Begun, Calm, Lately, Peq
  <2> QED BY <1>0, <2>1, <2>3, PutOnlyWaits
<1> QED BY <1>6, <1>7

\* begin_response_method and end_request_method, but for the wait for END_RESP.
LEMMA TargetMethodWaits ==
  ASSUME AtCore, AtCore', AtArmed, NEW m \in Target, UNCHANGED <<tg, ini, bus>>,
         \/ BeginResp(m) \/ BeginResponseReturns(m) \/ EndReq(m) \/ EndReqAnswered(m) \/ EndRequestReturns(m)
  PROVE  AtArmed' /\ Calm /\ Lately
<1>0. /\ Begun /\ StopsBegun(BeginResponse(m)) /\ StopsBegun(EndRequest(m))
      /\ ResponsePeq(m) \in Peq /\ Consumer(ResponsePeq(m)) = BeginResponse(m) /\ BeginResponse(m) \in Process
      /\ ~Fresh(ResponsePeq(m))'
      /\ EndRequestPeq(m) \in Peq /\ Consumer(EndRequestPeq(m)) = EndRequest(m) /\ EndRequest(m) \in Process
      /\ ~Fresh(EndRequestPeq(m))' /\ ResponsePeq(m) # EndRequestPeq(m)
      /\ \A n \in Initiator : /\ EndRspPeq(n) # ResponsePeq(m) /\ EndRspPeq(n) # EndRequestPeq(m)
                              /\ EndRsp(n) # BeginResponse(m) /\ EndRsp(n) # EndRequest(m)
  <2>1. Begun
    BY DEF Begun
  <2>2. StopsBegun(BeginResponse(m)) /\ StopsBegun(EndRequest(m))
    BY OthersBegun
  <2> HIDE DEF Begun, Peq, Process, Fresh, Consumer, StopsBegun
  <2> QED BY <2>1, <2>2, TargetQueues
<1>1. /\ BeginResp(m) \/ BeginResponseReturns(m) => simc.cur = BeginResponse(m) /\ tgt[m].rpc = "next"
      /\ EndReq(m) \/ EndReqAnswered(m) \/ EndRequestReturns(m) => simc.cur = EndRequest(m) /\ simc.cur \notin Responder
  BY TargetQueues DEF BeginResp, BeginResponseReturns, EndReq, EndReqAnswered, EndRequestReturns, Executing
<1>2. \A r \in Responder : ~Replying(r)
  BY <1>1, NotReplying
<1>3. DOMAIN peq = Peq /\ \A n \in Initiator : EndRspPeq(n) \in Peq
  BY AtNames DEF AtCore, Types, PeqOK
<1>4. ASSUME \A n \in Initiator : peq'[EndRspPeq(n)] = peq[EndRspPeq(n)],
             link' = link \/ link'.status # "called" \/ \A n \in Initiator : simc'.cur # EndRsp(n)
      PROVE  Lately
  <2>1. \A n \in Initiator : \A tx : (tx \in Queued(EndRspPeq(n)))' => tx \in Queued(EndRspPeq(n))
    BY <1>4, EndingsSame
  <2>2. \A r \in Responder : \A tx : (tx \in Late(r))' => tx \in Late(r)
    BY <1>4, <2>1, LateFrame
  <2> QED BY <1>2, <2>2 DEF Lately
<1>5. CASE BeginResp(m)
  <2>1. peq' = PeqPop(ResponsePeq(m)) /\ simc' = simc
    BY <1>5 DEF BeginResp
  <2>2. Lately
    <3>1. \A n \in Initiator : peq'[EndRspPeq(n)] = peq[EndRspPeq(n)]
      <4> HIDE DEF Peq, EndRspPeq, ResponsePeq
      <4> QED BY <1>0, <1>3, <2>1 DEF PeqPop
    <3>2. \A n \in Initiator : simc'.cur # EndRsp(n)
      BY <1>0, <1>1, <1>5, <2>1
    <3> QED BY <1>4, <3>1, <3>2
  <2>3. simc.cur = Consumer(ResponsePeq(m))
    BY <1>0, <1>1, <1>5
  <2> HIDE DEF AtCore, AtArmed, Calm, Lately, Begun, Peq, Fresh, Consumer, ResponsePeq
  <2> QED BY <1>0, <2>1, <2>2, <2>3, TakeWaits
<1>6. CASE BeginResponseReturns(m)
  <2>1. link' = link /\ peq' = peq
    BY <1>6 DEF BeginResponseReturns
  <2>2. Lately
    BY <1>4, <2>1
  <2>3. PICK q \in Peq, p \in Process : q = ResponsePeq(m) /\ p = BeginResponse(m)
    BY <1>0
  <2>4. PICK k : k = PeqRearm(simc, q)
    OBVIOUS
  <2>5. simc' = Yield(NextTrigger(k, p, q))
    BY <1>6, <2>3, <2>4 DEF BeginResponseReturns
  <2> HIDE DEF AtCore, AtArmed, Calm, Lately, Begun, Peq, Fresh, Consumer, Process, BeginResponse, ResponsePeq, StopsBegun
  <2> QED BY <1>0, <1>1, <1>6, <2>1, <2>2, <2>3, <2>4, <2>5, RearmWaits
<1>7. CASE EndReq(m)
  <2>1. PICK t : t = Head(peq[EndRequestPeq(m)]).txn
    OBVIOUS
  <2>2. /\ peq' = PeqMove(EndRequestPeq(m), ResponsePeq(m), t, OperationDelay(t))
        /\ simc' = Notify(simc, ResponsePeq(m), OperationDelay(t)) /\ PeqDue(EndRequestPeq(m)) /\ tgt[m].epc = "next"
    BY <1>7, <2>1 DEF EndReq, PeqMove
  <2>3. t \in Txn /\ OperationDelay(t) \in 0..LongestDelay
    <3>1. link = NoCall
      <4>1. ~Calling(EndRequest(m))
        BY <2>2, CallingNames
      <4>2. Calls
        BY DEF AtCore
      <4> HIDE DEF Calling, Process, Calls, EndRequest
      <4> QED BY <1>1, <1>7, <4>1, <4>2, NotCalling
    <3>2. EndRequestPeq(m)[1] # "send_end_rsp_PEQ"
      BY DEF EndRequestPeq
    <3>3. t \in Txn /\ gp[t].cmd \in {"read", "write"} /\ gp[t].addr \in Addresses
      BY <1>0, <2>1, <2>2, <3>1, <3>2, HeadFacts
    <3> QED BY <3>3, TargetTimes
  <2>4. PICK d \in 0..LongestDelay : d = OperationDelay(t)
    BY <2>3
  <2>5. PICK q1 \in Peq, q2 \in Peq : q1 = EndRequestPeq(m) /\ q2 = ResponsePeq(m)
    BY <1>0
  <2>6. AtArmed' /\ Calm /\ GoesOnOK
    <3>1. peq' = PeqMove(q1, q2, t, d) /\ simc' = Notify(simc, q2, d) /\ simc.cur = Consumer(q1) /\ q1 # q2
      BY <1>0, <1>1, <1>7, <2>2, <2>4, <2>5
    <3>2. ~Fresh(q1)'
      BY <1>0, <2>5
    <3> HIDE DEF AtCore, AtArmed, Calm, Begun, Peq, Fresh, Consumer, PeqMove, Txn
    <3> QED BY <1>0, <2>3, <3>1, <3>2, MoveWaits
  <2>7. Lately
    <3>1. \A n \in Initiator : peq'[EndRspPeq(n)] = peq[EndRspPeq(n)]
      <4>1. PICK k : k = PeqPop(EndRequestPeq(m))
        OBVIOUS
      <4> HIDE DEF Peq, EndRspPeq, ResponsePeq, EndRequestPeq
      <4>2. DOMAIN k = Peq /\ \A q \in Peq : q # EndRequestPeq(m) => k[q] = peq[q]
        BY <1>3, <4>1 DEF PeqPop
      <4> QED BY <1>0, <1>3, <2>2, <4>1, <4>2 DEF PeqMove
    <3>2. \A n \in Initiator : simc'.cur # EndRsp(n)
      BY <1>0, <1>1, <1>7, <2>6 DEF GoesOnOK
    <3> QED BY <1>4, <3>1, <3>2
  <2> QED BY <2>6, <2>7
<1>8. CASE EndReqAnswered(m)
  <2>1. link' = NoCall /\ peq' = peq /\ simc' = simc
    BY <1>8 DEF EndReqAnswered
  <2>2. Lately
    <3>1. link'.status # "called"
      BY <2>1 DEF NoCall
    <3> QED BY <1>4, <2>1, <3>1
  <2> QED BY <1>0, <2>1, <2>2, QuietWaits
<1>9. CASE EndRequestReturns(m)
  <2>1. link' = link /\ peq' = peq
    BY <1>9 DEF EndRequestReturns
  <2>2. Lately
    BY <1>4, <2>1
  <2>3. PICK q \in Peq, p \in Process : q = EndRequestPeq(m) /\ p = EndRequest(m)
    BY <1>0
  <2>4. PICK k : k = PeqRearm(simc, q)
    OBVIOUS
  <2>5. simc' = Yield(k)
    BY <1>9, <2>3, <2>4 DEF EndRequestReturns
  <2> HIDE DEF AtCore, AtArmed, Calm, Lately, Begun, Peq, Fresh, Consumer, Process, EndRequest, EndRequestPeq, StopsBegun
  <2> QED BY <1>0, <1>1, <1>9, <2>1, <2>2, <2>3, <2>4, <2>5, RearmWaits
<1> QED BY <1>5, <1>6, <1>7, <1>8, <1>9

\* END_RESP at a target: it comes from the bus, whose responder is another, or from the
\* initiator this target answered.
LEMMA EndRespWaits ==
  ASSUME AtCore, AtCore', AtWaits, NEW m \in Target, UNCHANGED <<tg, ini, bus>>, EndResp(m)
  PROVE  AtWaits'
<1>0. Begun /\ AtArmed
  BY DEF Begun, AtWaits
<1>1. Called(ToTarget(m)) /\ link.phase = "END_RESP" /\ peq' = peq /\ link' = Answer("COMPLETED", link.phase, link.delay)
  BY DEF EndResp
<1>2. link # NoCall /\ link \in LinkShape /\ link.txn \in Txn /\ link.delay = 0 /\ link.status = "called"
      /\ link.callee = ToTarget(m)
  BY <1>1, TargetCalled
<1>3. PICK e \in Event, t \in 0..LongestDelay : e = EndRespRcvd(m) /\ e \notin Peq /\ t = 0
  BY OtherEvents, AtNumbers
<1>4. simc' = Notify(simc, e, t)
  BY <1>2, <1>3 DEF EndResp
<1>5. link'.status # "called"
  BY <1>1, <1>2, AnswerShape
<1>6. /\ AtArmed' /\ GoesOnOK /\ (\A r \in Responder : WaitsFor(simc', r) = WaitsFor(simc, r))
      /\ \A f \in Event : f # e => simc'.pend[f] = simc.pend[f]
      /\ (\A r \in Responder : e # EndOf(r)) => Calm
  <2> HIDE DEF AtCore, AtArmed, GoesOnOK, Calm, Begun, Peq, Event, Responder, EndOf
  <2> QED BY <1>0, <1>1, <1>3, <1>4, NotifyWaits
<1>7. CASE ~Direct
  <2>1. Calm
    BY <1>3, <1>6, <1>7, ResponderFacts
  <2>2. Lately
    BY <1>1, <1>2, <1>5, EndingsSame, LatelyKept
  <2> QED BY <1>6, <2>1, <2>2, WaitsKept
<1>8. CASE Direct
  <2>1. PICK n \in Initiator : simc.cur = EndRsp(n) /\ CloseCall(n) /\ ini[n].mpc = "sent"
    <3>2. Wiring # "bus"
      BY <1>8, Bindings
    <3>3. \A q \in Target : ~BeginRespCall(q) /\ ~TargetEndReqCall(q)
      BY <1>1, <1>2 DEF BeginRespCall, TargetEndReqCall, Open, Accepted, RspEnds
    <3>4. \A n \in Initiator : ~RequestCall(n)
      BY <1>1, <1>2 DEF RequestCall, Open, Accepted, ReqEnds, Complete
    <3> QED BY <1>2, <3>2, <3>3, <3>4, Callers
  <2>2. m = n - 1 /\ Owner(link.txn) = n /\ Closing(link.txn)
    <3>1. link.callee = ToTarget(n - 1)
      BY <1>8, <2>1, Bindings DEF CloseCall
    <3>2. m = n - 1
      BY <1>2, <3>1 DEF ToTarget
    <3>3. Owner(link.txn) = n
      BY <2>1, OwnerFacts DEF CloseCall
    <3> QED BY <2>1, <3>2, <3>3 DEF Closing
  <2>3. PICK r0 \in Responder : r0 = BeginResponse(m)
    BY <1>8 DEF Responder
  <2>4. Serves(r0, link.txn)
    BY <2>2, <2>3 DEF Serves, BeginResponse
  <2>5. ASSUME NEW r \in Responder, r # r0 PROVE simc'.pend[EndOf(r)] = simc.pend[EndOf(r)]
    <3>1. EndOf(r) \in Event /\ EndOf(r) # e
      BY <1>3, <1>8, <2>3, <2>5, ResponderFacts
    <3> QED BY <1>6, <3>1
  <2> HIDE DEF AtCore, AtWaits, AtArmed, GoesOnOK, Responder, EndOf, Closing, Serves
  <2> QED BY <1>1, <1>2, <1>5, <1>6, <2>1, <2>2, <2>3, <2>4, <2>5, EndsLate
<1> QED BY <1>7, <1>8

\* The answer to BEGIN_RESP.
LEMMA BeginRespAnsweredWaits ==
  ASSUME AtCore, AtCore', AtWaits, NEW m \in Target, UNCHANGED <<tg, ini, bus>>, BeginRespAnswered(m)
  PROVE  AtWaits'
<1>0. Begun /\ AtArmed /\ StopsBegun(BeginResponse(m)) /\ BeginResponse(m) \in Process
  BY OthersBegun, AtNames DEF Begun, AtWaits
<1>1. simc.cur = BeginResponse(m) /\ tgt[m].rpc = "sent" /\ Answered /\ peq' = peq /\ link' = NoCall
  BY DEF BeginRespAnswered, Executing
<1>2. link # NoCall /\ BeginRespCall(m)
  BY <1>1, CallerFacts
<1>3. \/ link.status = "ACCEPTED"
      \/ Direct /\ RspEnds
  BY <1>1, <1>2 DEF BeginRespCall, Open, Accepted, Answered
<1>4. link'.status # "called"
  BY <1>1 DEF NoCall
<1>5. PICK p \in Process : p = BeginResponse(m)
  BY <1>0
<1>6. PICK e \in Event : e = EndRespRcvd(m) /\ e \notin Peq
  BY OtherEvents
<1>7. CASE link.status = "ACCEPTED"
  <2>1. simc' = Yield(NextTrigger(simc, p, e))
    BY <1>5, <1>6, <1>7 DEF BeginRespAnswered, UntilEndResp
  <2>2. /\ AtArmed' /\ Calm
        /\ \A f \in Event : simc' = Yield(NextTrigger(simc, p, f)) => WaitsFor(simc', p) = {f}
    <3> HIDE DEF AtCore, AtArmed, Calm, Begun, Peq, Event, Process, StopsBegun
    <3> QED BY <1>0, <1>1, <1>5, <1>6, <2>1, StopWaits
  <2>3. WaitsFor(simc', p) = {e}
    BY <2>1, <2>2
  <2>4. CASE ~Direct
    <3>1. simc.cur \notin Responder
      BY <1>1, <2>4, ResponderNames
    <3>2. Lately
      BY <1>1, <1>4, <3>1, EndingsSame, LatelyKept
    <3> QED BY <2>2, <3>2, WaitsKept
  <2>5. CASE Direct
    <3>1. PICK r0 \in Responder : r0 = p
      BY <1>5, <2>5 DEF Responder
    <3>2. EndOf(r0) = e
      BY <1>5, <1>6, <2>5, <3>1 DEF EndOf, BeginResponse
    <3> HIDE DEF AtCore, AtWaits, AtArmed, Calm, Responder, EndOf
    <3> QED BY <1>1, <1>4, <1>5, <2>2, <2>3, <3>1, <3>2, AwaitsEnd
  <2> QED BY <2>4, <2>5
<1>8. CASE Direct /\ RspEnds
  <2>1. PICK t \in 0..LongestDelay : t = EndRspDelay
    BY AtNumbers
  <2>2. simc' = Yield(NextTriggerTime(simc, p, t)) /\ link.status = "COMPLETED"
    BY <1>5, <1>8, <2>1 DEF BeginRespAnswered, RspEnds
  <2>3. AtArmed' /\ Calm
    <3> HIDE DEF AtCore, AtArmed, Calm, Begun, Peq, Event, Process, StopsBegun
    <3> QED BY <1>0, <1>1, <1>5, <2>2, StopWaits
  <2>4. Lately
    BY <1>1, <1>4, <2>2, EndingsSame, LatelyKept
  <2> QED BY <2>3, <2>4, WaitsKept
<1> QED BY <1>3, <1>7, <1>8

\* The targets.
LEMMA TargetWaits ==
  ASSUME AtCore, AtCore', AtWaits, NEW m \in Target, TgtStep(m), UNCHANGED <<tg, ini, bus>>
  PROVE  AtWaits'
<1>1. AtArmed
  BY DEF AtWaits
<1> HIDE DEF AtCore, AtWaits, AtArmed, Calm, Lately
<1>2. CASE BeginReqCompletes(m) \/ BeginReqUpdates(m) \/ BeginReqAccepted(m)
  BY <1>1, <1>2, BeginReqWaits, WaitsKept
<1>3. CASE EndResp(m)
  BY <1>3, EndRespWaits
<1>4. CASE BeginRespAnswered(m)
  BY <1>4, BeginRespAnsweredWaits
<1>5. CASE \/ BeginResp(m) \/ BeginResponseReturns(m)
           \/ EndReq(m) \/ EndReqAnswered(m) \/ EndRequestReturns(m)
  BY <1>1, <1>5, TargetMethodWaits, WaitsKept
<1> QED BY <1>2, <1>3, <1>4, <1>5, Zenon DEF TgtStep

-----------------------------------------------------------------------------
(* The steps of the bus *)

\* A thread of the bus that is past its start is so for the waits.
LEMMA BusStarts ==
  /\ bus'.req.pc # "start" /\ bus'.rsp = bus.rsp => Begun /\ StopsBegun(RequestThread) /\ ~Fresh(requestPEQ)'
  /\ bus'.rsp.pc # "start" /\ bus'.req = bus.req => Begun /\ StopsBegun(ResponseThread) /\ ~Fresh(responsePEQ)'
<1>1. RequestThread # ResponseThread /\ requestPEQ # responsePEQ
  BY DEF RequestThread, ResponseThread, requestPEQ, responsePEQ
<1> QED BY <1>1 DEF Begun, StopsBegun, Fresh, requestPEQ, responsePEQ

\* Where the bus's threads are after each step, and what that is to the waits.
LEMMA RequestBegun ==
  ASSUME AtCore, \/ RequestWaits \/ SendToTarget \/ RequestOngoing \/ RequestCompletedByTarget
                 \/ PassEndReq \/ EndReqPassed
  PROVE  Begun /\ StopsBegun(RequestThread) /\ ~Fresh(requestPEQ)'
<1>1. PICK p0, r0, s0 : bus = [pending |-> p0, req |-> r0, rsp |-> s0] /\ r0 \in BusThreadShape /\ s0 \in BusThreadShape
  BY BusParts DEF AtCore, Types
<1>2. PICK a, t0 : r0 = [pc |-> a, txn |-> t0]
  BY <1>1 DEF BusThreadShape
<1>3. CASE RequestWaits \/ RequestOngoing \/ PassEndReq \/ EndReqPassed
  <2>1. \E x \in {"next", "ended", "told"} : bus' = [bus EXCEPT !.req.pc = x]
    BY <1>3 DEF RequestWaits, RequestOngoing, PassEndReq, EndReqPassed
  <2>2. bus'.req.pc # "start" /\ bus'.rsp = bus.rsp
    BY <1>1, <1>2, <2>1
  <2> QED BY <2>2, BusStarts
<1>4. CASE SendToTarget
  <2>1. \E p, t : bus' = [pending |-> p, req |-> [pc |-> "sent", txn |-> t], rsp |-> s0]
    BY <1>1, <1>4 DEF SendToTarget
  <2>2. bus'.req.pc # "start" /\ bus'.rsp = bus.rsp
    BY <1>1, <2>1
  <2> QED BY <2>2, BusStarts
<1>5. CASE RequestCompletedByTarget
  <2>1. \E p, t : bus' = [pending |-> p, req |-> [pc |-> "next", txn |-> t], rsp |-> s0]
    BY <1>1, <1>2, <1>5 DEF RequestCompletedByTarget
  <2>2. bus'.req.pc # "start" /\ bus'.rsp = bus.rsp
    BY <1>1, <2>1
  <2> QED BY <2>2, BusStarts
<1> QED BY <1>3, <1>4, <1>5

LEMMA ResponseBegun ==
  ASSUME AtCore, ResponseWaits \/ SendToInitiator \/ ResponseAnswered \/ PassEndResp \/ ResponseOver
  PROVE  Begun /\ StopsBegun(ResponseThread) /\ ~Fresh(responsePEQ)'
<1>1. PICK p0, r0, s0 : bus = [pending |-> p0, req |-> r0, rsp |-> s0] /\ r0 \in BusThreadShape /\ s0 \in BusThreadShape
  BY BusParts DEF AtCore, Types
<1>2. PICK a, t0 : s0 = [pc |-> a, txn |-> t0]
  BY <1>1 DEF BusThreadShape
<1>3. CASE ResponseWaits \/ ResponseAnswered \/ PassEndResp
  <2>1. \E x \in {"next", "ended", "told"} : bus' = [bus EXCEPT !.rsp.pc = x]
    BY <1>3 DEF ResponseWaits, ResponseAnswered, PassEndResp
  <2>2. bus'.rsp.pc # "start" /\ bus'.req = bus.req
    BY <1>1, <1>2, <2>1
  <2> QED BY <2>2, BusStarts
<1>4. CASE SendToInitiator
  <2>1. \E p, t : bus' = [pending |-> p, req |-> r0, rsp |-> [pc |-> "sent", txn |-> t]]
    BY <1>1, <1>4 DEF SendToInitiator, Answering
  <2>2. bus'.rsp.pc # "start" /\ bus'.req = bus.req
    BY <1>1, <2>1
  <2> QED BY <2>2, BusStarts
<1>5. CASE ResponseOver
  <2>1. \E p, t : bus' = [pending |-> p, req |-> r0, rsp |-> [pc |-> "next", txn |-> t]]
    BY <1>1, <1>2, <1>5 DEF ResponseOver, Forget
  <2>2. bus'.rsp.pc # "start" /\ bus'.req = bus.req
    BY <1>1, <2>1
  <2> QED BY <2>2, BusStarts
<1> QED BY <1>3, <1>4, <1>5

LEMMA HandlersBegun ==
  ASSUME AtCore, \/ \E n \in Initiator : BusBeginReq(n) \/ BusEndResp(n)
                 \/ \E m \in Target : targetNBTransport(m)
  PROVE  Begun
<1>1. PICK p0, r0, s0 : bus = [pending |-> p0, req |-> r0, rsp |-> s0]
  BY BusParts DEF AtCore, Types
<1>2. \/ bus' = bus
      \/ \E t, x : bus' = [bus EXCEPT !.pending[t] = x]
  BY DEF BusBeginReq, BusEndResp, targetNBTransport
<1>3. bus'.req = bus.req /\ bus'.rsp = bus.rsp
  BY <1>1, <1>2
<1> QED BY <1>3 DEF Begun

\* A thread of the bus runs only where there is one.
LEMMA BusRuns ==
  ASSUME AtCore, simc.cur = RequestThread \/ simc.cur = ResponseThread
  PROVE  /\ Wiring = "bus" /\ ~Direct /\ simc.cur \in Process
         /\ requestPEQ \in Peq /\ Consumer(requestPEQ) = RequestThread
         /\ responsePEQ \in Peq /\ Consumer(responsePEQ) = ResponseThread
         /\ RequestThread # ResponseThread
         /\ \A n \in Initiator : /\ EndRspPeq(n) \in Peq /\ EndRspPeq(n) # requestPEQ /\ EndRspPeq(n) # responsePEQ
                                 /\ EndRsp(n) # RequestThread /\ EndRsp(n) # ResponseThread
<1>1. simc.cur \in Process
  <2>1. simc.cur \in Process \union {Nobody}
    BY DEF AtCore, Types, KernelInv, KernelOK, KernelShape
  <2>2. RequestThread # Nobody /\ ResponseThread # Nobody
    BY DEF RequestThread, ResponseThread, Nobody
  <2> QED BY <2>1, <2>2
<1>2. Wiring = "bus" /\ ~Direct
  BY <1>1, AtNames, Bindings
<1>3. requestPEQ \in Peq /\ responsePEQ \in Peq
  BY <1>2, AtNames
<1>4. Consumer(requestPEQ) = RequestThread /\ Consumer(responsePEQ) = ResponseThread
  BY <1>3, ConsumerFacts
<1>5. RequestThread # ResponseThread
  BY DEF RequestThread, ResponseThread
<1>6. \A n \in Initiator : /\ EndRspPeq(n) \in Peq /\ EndRspPeq(n) # requestPEQ /\ EndRspPeq(n) # responsePEQ
                           /\ EndRsp(n) # RequestThread /\ EndRsp(n) # ResponseThread
  <2>1. \A n \in Initiator : EndRspPeq(n) \in Peq
    BY AtNames
  <2>2. \A n \in Initiator : /\ EndRspPeq(n) # requestPEQ /\ EndRspPeq(n) # responsePEQ
                             /\ EndRsp(n) # RequestThread /\ EndRsp(n) # ResponseThread
    BY DEF EndRspPeq, requestPEQ, responsePEQ, EndRsp, RequestThread, ResponseThread
  <2> QED BY <2>1, <2>2
<1> QED BY <1>1, <1>2, <1>3, <1>4, <1>5, <1>6

\* The other queues are not the initiators'.
LEMMA OtherQueue ==
  ASSUME AtCore, NEW q, \A n \in Initiator : EndRspPeq(n) \in Peq /\ EndRspPeq(n) # q,
         (\E s : peq' = [peq EXCEPT ![q] = s]) \/ peq' = PeqPop(q)
  PROVE  \A n \in Initiator : peq'[EndRspPeq(n)] = peq[EndRspPeq(n)]
<1>1. DOMAIN peq = Peq
  BY DEF AtCore, Types, PeqOK
<1> HIDE DEF Peq, EndRspPeq
<1> QED BY <1>1 DEF PeqPop

\* BEGIN_REQ at the bus.
LEMMA BusBeginReqWaits ==
  ASSUME AtCore, AtCore', AtArmed, NEW n \in Initiator, UNCHANGED <<tg, ini, tgt>>, BusBeginReq(n)
  PROVE  AtArmed' /\ Calm /\ Lately
<1>1. Called(<<"bus_fw", n>>) /\ link' = Answer("ACCEPTED", link.phase, link.delay)
  BY DEF BusBeginReq
<1>2. link \in LinkShape /\ link.txn \in Txn /\ Wiring = "bus" /\ link.delay = 0 /\ link.status = "called"
  BY <1>1, BusCalledForward
<1>3. PICK q \in Peq : q = requestPEQ
  BY <1>2, AtNames
<1>4. PICK t \in Txn, d \in 0..LongestDelay : t = link.txn /\ d = link.delay
  BY <1>2, AtNumbers
<1>5. peq' = [peq EXCEPT ![q] = PeqInsert(@, t, d)] /\ simc' = Notify(simc, q, d)
  BY <1>3, <1>4 DEF BusBeginReq
<1>6. Begun
  BY HandlersBegun
<1>7. Lately
  <2>1. link'.status # "called"
    BY <1>1, <1>2, AnswerShape
  <2>2. \A m \in Initiator : EndRspPeq(m) \in Peq /\ EndRspPeq(m) # q
    BY <1>3, EndRspQueue DEF EndRspPeq, requestPEQ
  <2>3. \A m \in Initiator : peq'[EndRspPeq(m)] = peq[EndRspPeq(m)]
    BY <1>5, <2>2, OtherQueue
  <2> QED BY <1>2, <2>1, <2>3, EndingsSame, LatelyKept
<1> HIDE DEF AtCore, AtArmed, Calm, Lately, Begun, Peq, Txn
<1> QED BY <1>5, <1>6, <1>7, PutOnlyWaits

\* END_RESP at the bus wakes ResponseThread, whose late response is over.
LEMMA BusEndRespWaits ==
  ASSUME AtCore, AtCore', AtWaits, NEW n \in Initiator, UNCHANGED <<tg, ini, tgt>>, BusEndResp(n)
  PROVE  AtWaits'
<1>0. Begun /\ AtArmed
  BY HandlersBegun DEF AtWaits
<1>1. /\ Called(<<"bus_fw", n>>) /\ link.phase = "END_RESP" /\ peq' = peq
      /\ link' = Answer("COMPLETED", link.phase, link.delay)
  BY DEF BusEndResp
<1>2. /\ link # NoCall /\ link \in LinkShape /\ link.txn \in Txn /\ Owner(link.txn) = n /\ Closing(link.txn)
      /\ Wiring = "bus" /\ link.delay = 0 /\ link.status = "called"
  BY <1>1, BusCalledForward
<1>3. PICK e \in Event, t \in 0..LongestDelay : e = mEndResponseEvent /\ e \notin Peq /\ t = 0
  BY <1>2, OtherEvents, AtNumbers
<1>4. simc' = Notify(simc, e, t)
  BY <1>2, <1>3 DEF BusEndResp
<1>5. link'.status # "called"
  BY <1>1, <1>2, AnswerShape
<1>6. /\ AtArmed' /\ GoesOnOK /\ (\A r \in Responder : WaitsFor(simc', r) = WaitsFor(simc, r))
      /\ \A f \in Event : f # e => simc'.pend[f] = simc.pend[f]
  <2> HIDE DEF AtCore, AtArmed, GoesOnOK, Calm, Begun, Peq, Event, Responder, EndOf
  <2> QED BY <1>0, <1>1, <1>3, <1>4, NotifyWaits
<1>7. ~Direct
  BY <1>2, Bindings
<1>8. simc.cur = EndRsp(n)
  BY <1>2, CallerFacts DEF Closing
<1>9. PICK r0 \in Responder : \A r \in Responder : r = r0
  BY <1>7 DEF Responder
<1>10. Serves(r0, link.txn)
  BY <1>7 DEF Serves
<1>11. \A r \in Responder : r # r0 => simc'.pend[EndOf(r)] = simc.pend[EndOf(r)]
  BY <1>9
<1> HIDE DEF AtCore, AtWaits, AtArmed, GoesOnOK, Responder, EndOf, Closing, Serves
<1> QED BY <1>1, <1>2, <1>5, <1>6, <1>8, <1>10, <1>11, EndsLate

\* END_REQ or BEGIN_RESP at the bus.
LEMMA BusBackwardWaits ==
  ASSUME AtCore, AtCore', AtArmed, NEW m \in Target, UNCHANGED <<tg, ini, tgt>>, targetNBTransport(m)
  PROVE  AtArmed' /\ Calm /\ Lately
<1>0. Begun
  BY HandlersBegun
<1>1. Called(<<"bus_bw", m>>) /\ link' = Answer("ACCEPTED", link.phase, link.delay)
  BY DEF targetNBTransport
<1>2. link \in LinkShape /\ link.txn \in Txn /\ Wiring = "bus" /\ link.delay = 0 /\ link.status = "called"
  BY <1>1, BusCalledBackward
<1>3. PICK q \in Peq : q = responsePEQ
  BY <1>2, AtNames
<1>4. PICK t \in Txn, d \in 0..LongestDelay : t = link.txn /\ d = link.delay
  BY <1>2, AtNumbers
<1>5. PICK e \in Event : e = mEndRequestEvent /\ e \notin Peq /\ \A r \in Responder : e # EndOf(r)
  BY <1>2, OtherEvents
<1>6. \/ peq' = [peq EXCEPT ![q] = PeqInsert(@, t, d)] /\ simc' = Notify(Notify(simc, e, d), q, d)
      \/ peq' = peq /\ simc' = Notify(simc, e, d)
  BY <1>3, <1>4, <1>5 DEF targetNBTransport
<1>7. Lately
  <2>1. link'.status # "called"
    BY <1>1, <1>2, AnswerShape
  <2>2. \A n \in Initiator : EndRspPeq(n) \in Peq /\ EndRspPeq(n) # q
    BY <1>3, EndRspQueue DEF EndRspPeq, responsePEQ
  <2>3. \A n \in Initiator : peq'[EndRspPeq(n)] = peq[EndRspPeq(n)]
    BY <1>6, <2>2, OtherQueue
  <2> QED BY <1>2, <2>1, <2>3, EndingsSame, LatelyKept
<1> HIDE DEF AtCore, AtArmed, Calm, Lately, Begun, Peq, Txn, Event, Responder, EndOf
<1>8. CASE peq' = [peq EXCEPT ![q] = PeqInsert(@, t, d)] /\ simc' = Notify(Notify(simc, e, d), q, d)
  BY <1>0, <1>5, <1>7, <1>8, PutWaits
<1>9. CASE peq' = peq /\ simc' = Notify(simc, e, d)
  BY <1>0, <1>5, <1>7, <1>9, NotifyWaits
<1> QED BY <1>6, <1>8, <1>9

\* A thread of the bus makes a call, or forgets one: nothing is late by it.
LEMMA BusLately ==
  ASSUME AtCore, AtCore', UNCHANGED <<tg, ini, tgt>>,
         \A n \in Initiator : peq'[EndRspPeq(n)] = peq[EndRspPeq(n)],
         \/ simc.cur = RequestThread
         \/ simc.cur = ResponseThread /\ (bus.rsp.pc # "sent" \/ link.status # "ACCEPTED"),
         simc' = simc \/ link' = link \/ link' = NoCall
  PROVE  Lately
<1>1. link.status # "ACCEPTED" \/ simc.cur \notin Responder \/ (simc.cur = ResponseThread /\ bus.rsp.pc # "sent")
  BY ResponderNames
<1>2. \A n \in Initiator : \A tx : (tx \in Queued(EndRspPeq(n)))' => tx \in Queued(EndRspPeq(n))
  BY EndingsSame
<1>3. \/ link' = link /\ \A n \in Initiator : ini'[n].mpc = ini[n].mpc
      \/ link'.status # "called"
      \/ \A n \in Initiator : simc'.cur # EndRsp(n)
  BY BusRuns DEF NoCall
<1>4. \A r \in Responder : ~Replying(r)
  BY <1>1, NotReplying
<1>5. \A r \in Responder : \A tx : (tx \in Late(r))' => tx \in Late(r)
  BY <1>2, <1>3, LateFrame
<1> QED BY <1>4, <1>5 DEF Lately

\* Either thread begins to wait for its queue.
LEMMA ThreadWaitsWaits ==
  ASSUME AtCore, AtCore', AtArmed, UNCHANGED <<tg, ini, tgt>>, RequestWaits \/ ResponseWaits
  PROVE  AtArmed' /\ Calm /\ Lately
<1>1. link' = link /\ peq' = peq /\ Begun
  <2>1. link' = link /\ peq' = peq
    BY DEF RequestWaits, ResponseWaits, ThreadWaits
  <2> QED BY <2>1, RequestBegun, ResponseBegun
<1>2. PICK q \in Peq, p \in Process, b \in {bus.req, bus.rsp} :
        /\ p = Consumer(q) /\ simc.cur = p /\ StopsBegun(p) /\ b.pc \in {"start", "next"}
        /\ simc' = Wait(IF b.pc = "next" THEN PeqRearm(simc, q) ELSE simc, p, q)
        /\ b.pc = "start" => Fresh(q)
  <2>1. CASE RequestWaits
    <3>1. simc.cur = RequestThread
      BY <2>1 DEF RequestWaits, ThreadWaits, Executing
    <3>2. PICK b : b = bus.req
      OBVIOUS
    <3>3. PICK q \in Peq, p \in Process : q = requestPEQ /\ p = RequestThread
      BY <3>1, BusRuns
    <3>4. b.pc = "start" => Fresh(q)
      BY <3>2, <3>3 DEF Fresh
    <3>5. p = Consumer(q) /\ StopsBegun(p)
      BY <2>1, <3>1, <3>3, BusRuns, RequestBegun
    <3> QED BY <2>1, <3>1, <3>2, <3>3, <3>4, <3>5 DEF RequestWaits, ThreadWaits
  <2>2. CASE ResponseWaits
    <3>1. simc.cur = ResponseThread
      BY <2>2 DEF ResponseWaits, ThreadWaits, Executing
    <3>2. PICK b : b = bus.rsp
      OBVIOUS
    <3>3. PICK q \in Peq, p \in Process : q = responsePEQ /\ p = ResponseThread
      BY <3>1, BusRuns
    <3>4. b.pc = "start" => Fresh(q)
      BY <3>2, <3>3 DEF Fresh
    <3>5. p = Consumer(q) /\ StopsBegun(p)
      BY <2>2, <3>1, <3>3, BusRuns, ResponseBegun
    <3> QED BY <2>2, <3>1, <3>2, <3>3, <3>4, <3>5 DEF ResponseWaits, ThreadWaits
  <2> QED BY <2>1, <2>2
<1>3. PICK k : k = IF b.pc = "next" THEN PeqRearm(simc, q) ELSE simc
  OBVIOUS
<1>4. k = PeqRearm(simc, q) \/ (k = simc /\ Fresh(q))
  BY <1>2, <1>3
<1>5. simc' = Yield(NextTrigger(k, p, q))
  BY <1>2, <1>3 DEF Wait
<1>6. Lately
  <2>1. \/ simc.cur = RequestThread
        \/ simc.cur = ResponseThread /\ bus.rsp.pc # "sent"
    BY DEF RequestWaits, ResponseWaits, ThreadWaits, Executing
  <2> QED BY <1>1, <2>1, BusLately
<1> HIDE DEF AtCore, AtArmed, Calm, Lately, Begun, Peq, Fresh, Consumer, Process, StopsBegun
<1> QED BY <1>1, <1>2, <1>4, <1>5, <1>6, RearmWaits

\* Either thread takes a payload from its queue and calls.
LEMMA ThreadSendsWaits ==
  ASSUME AtCore, AtCore', AtArmed, UNCHANGED <<tg, ini, tgt>>, SendToTarget \/ SendToInitiator
  PROVE  AtArmed' /\ Calm /\ Lately
<1>1. PICK q \in Peq : /\ peq' = PeqPop(q) /\ simc' = simc /\ simc.cur = Consumer(q) /\ ~Fresh(q)' /\ Begun
                       /\ \A n \in Initiator : EndRspPeq(n) \in Peq /\ EndRspPeq(n) # q
  <2>1. CASE SendToTarget
    <3>1. simc.cur = RequestThread /\ peq' = PeqPop(requestPEQ) /\ simc' = simc
      BY <2>1 DEF SendToTarget, Executing
    <3> QED BY <2>1, <3>1, BusRuns, RequestBegun
  <2>2. CASE SendToInitiator
    <3>1. simc.cur = ResponseThread /\ peq' = PeqPop(responsePEQ) /\ simc' = simc
      BY <2>2 DEF SendToInitiator, Executing
    <3> QED BY <2>2, <3>1, BusRuns, ResponseBegun
  <2> QED BY <2>1, <2>2
<1>2. Lately
  <2>1. \A n \in Initiator : peq'[EndRspPeq(n)] = peq[EndRspPeq(n)]
    BY <1>1, OtherQueue
  <2>2. \/ simc.cur = RequestThread
        \/ simc.cur = ResponseThread /\ bus.rsp.pc # "sent"
    BY DEF SendToTarget, SendToInitiator, Executing
  <2> QED BY <1>1, <2>1, <2>2, BusLately
<1> HIDE DEF AtCore, AtArmed, Calm, Lately, Begun, Peq, Fresh, Consumer
<1> QED BY <1>1, <1>2, TakeWaits

\* The calls that end a request or a response, and the returns from them.
LEMMA ThreadTellsWaits ==
  ASSUME AtCore, AtCore', AtArmed, UNCHANGED <<tg, ini, tgt>>,
         PassEndReq \/ EndReqPassed \/ PassEndResp \/ ResponseOver
  PROVE  AtArmed' /\ Calm /\ Lately
<1>1. peq' = peq /\ simc' = simc
  BY DEF PassEndReq, EndReqPassed, PassEndResp, ResponseOver
<1>2. Begun
  BY RequestBegun, ResponseBegun
<1>3. \/ simc.cur = RequestThread
      \/ simc.cur = ResponseThread /\ bus.rsp.pc # "sent"
  BY DEF PassEndReq, EndReqPassed, PassEndResp, ResponseOver, Executing
<1>4. Lately
  BY <1>1, <1>3, BusLately
<1> HIDE DEF AtCore, AtArmed, Calm, Lately, Begun
<1> QED BY <1>1, <1>2, <1>4, QuietWaits

\* What the answer to the bus's BEGIN_REQ says.
LEMMA RequestAnswers ==
  ASSUME AtCore, simc.cur = RequestThread, bus.req.pc = "sent", Answered
  PROVE  /\ link \in LinkShape /\ link.txn \in Txn
         /\ Accepted("BEGIN_REQ") \/ ReqEnds \/ Complete
         /\ link.delay \in 0..LongestDelay
<1>1. link # NoCall /\ ForwardCall
  BY CallerFacts
<1>2. link \in LinkShape /\ link.txn \in Txn
  BY <1>1, Callers
<1>3. link.delay \in 0..LongestDelay
  BY <1>2 DEF LinkShape
<1> QED BY <1>1, <1>2, <1>3 DEF ForwardCall, Open, Answered

\* The answer to BEGIN_REQ.
LEMMA RequestAnsweredWaits ==
  ASSUME AtCore, AtCore', AtArmed, UNCHANGED <<tg, ini, tgt>>, RequestOngoing \/ RequestCompletedByTarget
  PROVE  AtArmed' /\ Calm /\ Lately
<1>0. Begun /\ StopsBegun(RequestThread)
  BY RequestBegun
<1>1. simc.cur = RequestThread /\ bus.req.pc = "sent" /\ Answered /\ link' = NoCall
  BY DEF RequestOngoing, RequestCompletedByTarget, Executing
<1>2. /\ link.txn \in Txn
      /\ Accepted("BEGIN_REQ") \/ ReqEnds \/ Complete
      /\ link.delay \in 0..LongestDelay
  BY <1>1, RequestAnswers
<1>3. PICK p \in Process, q \in Peq, e \in Event :
        /\ p = RequestThread /\ q = responsePEQ /\ Consumer(q) # p /\ e = mEndRequestEvent /\ e \notin Peq
        /\ \A n \in Initiator : EndRspPeq(n) \in Peq /\ EndRspPeq(n) # q
  BY <1>1, BusRuns, OtherEvents
<1>4. PICK t \in Txn, d \in 0..LongestDelay : t = link.txn /\ d = link.delay
  BY <1>2
<1>5. CASE RequestOngoing
  <2>1. link.phase \in {"BEGIN_REQ", "END_REQ"} /\ link.status \in {"ACCEPTED", "UPDATED"}
    BY <1>2, <1>5 DEF RequestOngoing, Accepted, ReqEnds, Complete
  <2>2. peq' = peq /\ (simc' = Wait(simc, RequestThread, mEndRequestEvent) \/ simc' = WaitTime(simc, RequestThread, link.delay))
    BY <1>5, <2>1 DEF RequestOngoing
  <2>3. peq' = peq /\ (simc' = Yield(NextTrigger(simc, p, e)) \/ simc' = Yield(NextTriggerTime(simc, p, d)))
    BY <1>3, <1>4, <2>2 DEF Wait, WaitTime
  <2>4. Lately
    BY <1>1, <2>3, BusLately
  <2> HIDE DEF AtCore, AtArmed, Calm, Lately, Begun, Peq, Event, Process, StopsBegun
  <2> QED BY <1>0, <1>1, <1>3, <2>3, <2>4, StopWaits
<1>6. CASE RequestCompletedByTarget
  <2>1. /\ peq' = [peq EXCEPT ![q] = PeqInsert(@, t, d)]
        /\ simc' = Yield(NextTriggerTime(Notify(simc, q, d), p, d))
    BY <1>3, <1>4, <1>6 DEF RequestCompletedByTarget, WaitTime
  <2>2. Lately
    <3>1. \A n \in Initiator : peq'[EndRspPeq(n)] = peq[EndRspPeq(n)]
      BY <1>3, <2>1, OtherQueue
    <3> QED BY <1>1, <3>1, BusLately
  <2> HIDE DEF AtCore, AtArmed, Calm, Lately, Begun, Peq, Event, Process, StopsBegun, Consumer, Txn
  <2> QED BY <1>0, <1>1, <1>3, <2>1, <2>2, PutAndWaits
<1> QED BY <1>5, <1>6

\* The answer to BEGIN_RESP.
LEMMA ResponseAnsweredWaits ==
  ASSUME AtCore, AtCore', AtWaits, UNCHANGED <<tg, ini, tgt>>, ResponseAnswered
  PROVE  AtWaits'
<1>0. Begun /\ StopsBegun(ResponseThread) /\ AtArmed
  <2>1. AtArmed
    BY DEF AtWaits
  <2> QED BY <2>1, ResponseBegun
<1>1. simc.cur = ResponseThread /\ bus.rsp.pc = "sent" /\ Answered /\ link' = NoCall /\ peq' = peq
  BY DEF ResponseAnswered, Executing
<1>2. link # NoCall /\ ReplyCall
  BY <1>1, CallerFacts
<1>3. Accepted("BEGIN_RESP") \/ RspEnds
  BY <1>1, <1>2 DEF ReplyCall, Open, Answered
<1>4. PICK p \in Process, e \in Event : p = ResponseThread /\ e = mEndResponseEvent /\ e \notin Peq
  BY <1>1, BusRuns, OtherEvents
<1>5. CASE RspEnds
  <2>1. PICK d \in 0..LongestDelay : d = EndRspDelay
    BY AtNumbers
  <2>2. simc' = Yield(NextTriggerTime(simc, p, d)) /\ link.status = "COMPLETED"
    BY <1>4, <1>5, <2>1 DEF ResponseAnswered, RspEnds, WaitTime
  <2>3. AtArmed' /\ Calm
    <3> HIDE DEF AtCore, AtArmed, Calm, Begun, Peq, Event, Process, StopsBegun
    <3> QED BY <1>0, <1>1, <1>4, <2>2, StopWaits
  <2>4. Lately
    BY <1>1, <2>2, BusLately
  <2> QED BY <2>3, <2>4, WaitsKept
<1>6. CASE Accepted("BEGIN_RESP")
  <2>1. link.status # "COMPLETED"
    BY <1>6 DEF Accepted
  <2>2. simc' = Yield(NextTrigger(simc, p, e))
    BY <1>4, <2>1 DEF ResponseAnswered, AwaitEndResp, Wait
  <2>3. /\ AtArmed' /\ Calm
        /\ \A f \in Event : simc' = Yield(NextTrigger(simc, p, f)) => WaitsFor(simc', p) = {f}
    <3> HIDE DEF AtCore, AtArmed, Calm, Begun, Peq, Event, Process, StopsBegun
    <3> QED BY <1>0, <1>1, <1>4, <2>2, StopWaits
  <2>4. WaitsFor(simc', p) = {e}
    BY <2>2, <2>3
  <2>5. PICK r0 \in Responder : r0 = p
    BY <1>1, <1>4, BusRuns DEF Responder
  <2>6. EndOf(r0) = e
    BY <1>1, <1>4, BusRuns DEF EndOf
  <2>7. link'.status # "called"
    BY <1>1 DEF NoCall
  <2> HIDE DEF AtCore, AtWaits, AtArmed, Calm, Responder, EndOf
  <2> QED BY <1>1, <1>4, <2>3, <2>4, <2>5, <2>6, <2>7, AwaitsEnd
<1> QED BY <1>3, <1>5, <1>6

\* The bus.
LEMMA BusWaits ==
  ASSUME AtCore, AtCore', AtWaits, BusStep, UNCHANGED <<tg, ini, tgt>>
  PROVE  AtWaits'
<1>1. AtArmed
  BY DEF AtWaits
<1> HIDE DEF AtCore, AtWaits, AtArmed, Calm, Lately
<1>2. ASSUME NEW n \in Initiator, BusBeginReq(n) PROVE AtWaits'
  BY <1>1, <1>2, BusBeginReqWaits, WaitsKept
<1>3. ASSUME NEW n \in Initiator, BusEndResp(n) PROVE AtWaits'
  BY <1>3, BusEndRespWaits
<1>4. ASSUME NEW m \in Target, targetNBTransport(m) PROVE AtWaits'
  BY <1>1, <1>4, BusBackwardWaits, WaitsKept
<1>5. CASE RequestWaits \/ ResponseWaits
  BY <1>1, <1>5, ThreadWaitsWaits, WaitsKept
<1>6. CASE SendToTarget \/ SendToInitiator
  BY <1>1, <1>6, ThreadSendsWaits, WaitsKept
<1>7. CASE PassEndReq \/ EndReqPassed \/ PassEndResp \/ ResponseOver
  BY <1>1, <1>7, ThreadTellsWaits, WaitsKept
<1>8. CASE RequestOngoing \/ RequestCompletedByTarget
  BY <1>1, <1>8, RequestAnsweredWaits, WaitsKept
<1>9. CASE ResponseAnswered
  BY <1>9, ResponseAnsweredWaits
<1> QED BY <1>2, <1>3, <1>4, <1>5, <1>6, <1>7, <1>8, <1>9, Zenon DEF BusStep

-----------------------------------------------------------------------------
(* No wakeup is lost, and no response begins before its turn *)

LEMMA AtWaitsInit ==
  ASSUME Init
  PROVE  AtWaits
<1>1. /\ SharedInit(ThreadOrder) /\ BusInit /\ simc = InitKernel(ThreadOrder) /\ peq = [q \in Peq |-> << >>]
      /\ \E kinds \in IniKinds : IniInit(kinds)
  BY DEF Init, SharedInit
<1>2. AtCore
  BY AtCoreInit
<1>3. Thread \subseteq Process /\ ThreadOrder \in Line(Thread) /\ Thread = Range(ThreadOrder)
  BY ThreadFacts DEF Process
<1>4. PICK ready \in Line(Process) : ready = ThreadOrder /\ Range(ready) = Thread
  <2> HIDE DEF Thread, Process, ThreadOrder
  <2> QED BY <1>3 DEF Line
<1>5. /\ OnePlace(simc)
      /\ \A p \in Process : WaitsFor(simc, p) = {} /\ (Asleep(simc, p) <=> p \notin Thread)
  <2> HIDE DEF Process, Thread, ThreadOrder, InitKernel
  <2> QED BY <1>1, <1>4, InitPlaces
<1>6. simc.pend = [e \in Event |-> NotPending]
  <2>1. PICK b \in Nat : b = LongestDelay
    BY AtNumbers
  <2> HIDE DEF Process, Event, ThreadOrder, InitKernel
  <2> QED BY <1>1, <1>4, <2>1, InitKernelOK
<1>7. Wiring = "bus" => Starting
  <2>1. Wiring = "bus" => RequestThread \in Thread /\ ResponseThread \in Thread
    BY BusThreads
  <2> HIDE DEF Thread, Process
  <2> QED BY <1>3, <1>5, <2>1 DEF Starting
<1>8. ASSUME NEW q \in Peq PROVE Armed(q)
  BY <1>1, <1>8 DEF Armed
<1>9. ASSUME NEW r \in Responder PROVE OneLate(r)
  <2>1. Late(r) = {}
    <3> SUFFICES ASSUME NEW tx \in Late(r) PROVE FALSE
      OBVIOUS
    <3>1. tx \in Txn /\ (Ending(tx) \/ Closing(tx))
      BY DEF Late
    <3>2. PICK n \in Initiator : n = Owner(tx)
      BY <3>1, OwnerFacts
    <3>3. Queued(EndRspPeq(n)) = {}
      <4>1. EndRspPeq(n) \in Peq
        BY AtNames
      <4> HIDE DEF Peq, EndRspPeq
      <4> QED BY <1>1, <4>1 DEF Queued
    <3>4. ini[n].mpc # "sent"
      <4>1. link = NoCall
        BY <1>1 DEF SharedInit
      <4>2. ini[n].mpc = "sent" => link # NoCall
        BY <1>2, CallerFacts
      <4> QED BY <4>1, <4>2
    <3> QED BY <3>1, <3>2, <3>3, <3>4 DEF Ending, Closing
  <2>2. simc.pend[EndOf(r)] = NotPending
    <3>1. EndOf(r) \in Event
      BY ResponderFacts
    <3> HIDE DEF Event, EndOf
    <3> QED BY <1>6, <3>1
  <2> HIDE DEF Late, EndOf
  <2> QED BY <2>1, <2>2 DEF OneLate
<1> QED BY <1>5, <1>7, <1>8, <1>9 DEF AtWaits, AtArmed

LEMMA StutterWaits ==
  ASSUME AtCore, AtWaits, UNCHANGED <<simc, peq, link, bus, ini, tgt>>
  PROVE  AtWaits'
<1>1. AtArmed'
  <2>1. Begun /\ AtArmed
    BY DEF Begun, AtWaits
  <2> HIDE DEF AtCore, AtArmed, Begun
  <2> QED BY <2>1, QuietWaits
<1>2. ASSUME NEW r \in Responder PROVE OneLate(r)'
  <2>1. PICK late2 : \A tx : tx \in late2 <=> (tx \in Late(r))'
    <3>1. \A tx : (tx \in Late(r))' <=> tx \in Late(r)
      BY DEF Late, Serves, Ending, Closing, Queued, EndRspPeq
    <3> QED BY <3>1
  <2>2. late2 = Late(r)' /\ late2 = Late(r)
    BY <2>1 DEF Late, Serves, Ending, Closing, Queued, EndRspPeq
  <2>3. PICK e : e = EndOf(r)
    OBVIOUS
  <2>4. EndOf(r)' = e
    BY <2>3 DEF EndOf, mEndResponseEvent, EndRespRcvd
  <2>5. PICK w : w = WaitsFor(simc, r)
    OBVIOUS
  <2>6. WaitsFor(simc', r) = w
    BY <2>5 DEF WaitsFor, Waiters
  <2>7. Replying(r)' <=> Replying(r)
    BY DEF Replying
  <2>8. OneLate(r)
    BY DEF AtWaits
  <2> HIDE DEF Late, WaitsFor, EndOf, Replying, NotPending
  <2>9. /\ \A x, y \in late2 : x = y
        /\ late2 # {} => simc'.pend[e] = NotPending /\ (e \in WaitsFor(simc', r) \/ Replying(r)')
        /\ simc'.pend[e] # NotPending => e \in WaitsFor(simc', r)
    BY <2>2, <2>3, <2>5, <2>6, <2>7, <2>8 DEF OneLate
  <2> QED BY <2>2, <2>4, <2>9, Zenon DEF OneLate
<1> HIDE DEF OneLate, AtArmed
<1> QED BY <1>1, <1>2 DEF AtWaits, Responder, BeginResponse, ResponseThread

LEMMA AtWaitsNext == AtCore /\ AtCore' /\ AtWaits /\ [Next]_vars => AtWaits'
<1> SUFFICES ASSUME AtCore, AtCore', AtWaits, [Next]_vars PROVE AtWaits'
  OBVIOUS
<1>0. AtArmed
  BY DEF AtWaits
<1>1. CASE UNCHANGED vars
  <2>1. UNCHANGED <<simc, peq, link, bus, ini, tgt>>
    BY <1>1 DEF vars, shared
  <2> QED BY <2>1, StutterWaits
<1> HIDE DEF AtCore, AtWaits, AtArmed, Calm, Lately
<1>2. CASE Scheduler /\ UNCHANGED <<tg, ini, bus, tgt>>
  BY <1>2, SchedulerWaits
<1>3. ASSUME NEW n \in Initiator, TgStep(n), UNCHANGED <<ini, bus, tgt>> PROVE AtWaits'
  BY <1>0, <1>3, GeneratorWaits, WaitsKept
<1>4. ASSUME NEW n \in Initiator, IniStep(n), UNCHANGED <<tg, bus, tgt>> PROVE AtWaits'
  BY <1>4, InitiatorWaits
<1>5. CASE BusStep /\ UNCHANGED <<tg, ini, tgt>>
  BY <1>5, BusWaits
<1>6. ASSUME NEW m \in Target, TgtStep(m), UNCHANGED <<tg, ini, bus>> PROVE AtWaits'
  BY <1>6, TargetWaits
<1> QED BY <1>1, <1>2, <1>3, <1>4, <1>5, <1>6, Zenon DEF Next, Step

LEMMA AtWaitsInvariant == Spec => []AtWaits
<1> QED BY AtWaitsInit, AtWaitsNext, AtCoreInvariant, PTL DEF Spec

\* No wakeup of a peq_with_get is lost: PeqArmed.
THEOREM AtPeqArmed == Spec => []PeqArmed
<1>1. AtCore /\ AtWaits => PeqArmed
  <2> SUFFICES ASSUME AtCore, AtWaits, NEW q \in Peq, peq[q] # << >>, Awaits(Consumer(q), q)
               PROVE  simc.pend[q] \in 0..Head(peq[q]).left
    BY DEF PeqArmed
  <2>1. PICK c \in Process : c = Consumer(q)
    BY ConsumerFacts
  <2>2. DOMAIN simc.pend = Event
    BY DEF AtCore, Types, KernelInv, KernelOK, KernelShape
  <2>3. q \in Event
    BY AtNames
  <2>4. Asleep(simc, c)
    BY <2>1 DEF Awaits, Asleep
  <2>5. q \in WaitsFor(simc, c) \/ (c \in Method /\ WaitsFor(simc, c) = {})
    <3> HIDE DEF Event, Consumer, Method
    <3> QED BY <2>1, <2>2, <2>3 DEF Awaits, Unwaiting, WaitsFor
  <2>6. Armed(q)
    BY DEF AtWaits, AtArmed
  <2> HIDE DEF Peq, Consumer, WaitsFor, Fresh
  <2> QED BY <2>1, <2>4, <2>5, <2>6 DEF Armed, Idles
<1> QED BY <1>1, AtCoreInvariant, AtWaitsInvariant, PTL

\* What the queue of an initiator holds is late, for the one responder who serves it.
LEMMA EndingIsLate ==
  ASSUME AtCore, NEW n \in Initiator, NEW tx \in Queued(EndRspPeq(n)), NEW r \in Responder,
         Direct => r[2] = n - 1
  PROVE  tx \in Late(r)
<1>1. EndRspPeq(n) \in Peq /\ PeqOK
  BY AtNames DEF AtCore, Types
<1>2. tx \in Txn
  <2>1. PICK s \in Seq(Entry) : s = peq[EndRspPeq(n)]
    <3> HIDE DEF Peq, EndRspPeq, Entry
    <3> QED BY <1>1 DEF PeqOK
  <2>2. PICK j \in DOMAIN s : tx = s[j].txn
    BY <2>1 DEF Queued
  <2>3. s[j] \in Entry
    <3> HIDE DEF Entry
    <3> QED BY <2>2
  <2> HIDE DEF Txn
  <2> QED BY <2>2, <2>3 DEF Entry
<1>3. PayloadInv(tx)
  BY <1>2 DEF AtCore
<1>4. Fits(EndRspPeq(n), tx)
  BY <1>1, <1>2, <1>3, QueueFacts
<1>5. Owner(tx) = n
  BY <1>4 DEF Fits, EndRspPeq
<1> QED BY <1>2, <1>5 DEF Late, Ending, Serves

\* The bus erases the entry of a payload whose response is over: ResponseEnded.
THEOREM AtResponseEnded == Spec => []ResponseEnded
<1>1. AtCore /\ AtWaits => ResponseEnded
  <2> SUFFICES ASSUME AtCore, AtWaits, simc.cur = ResponseThread, bus.rsp.pc = "ended",
                      NEW n \in Initiator, bus.rsp.txn \in Queued(EndRspPeq(n))
               PROVE  FALSE
    BY DEF ResponseEnded, Executing
  <2>1. ~Direct /\ ResponseThread \in Process
    BY BusRuns
  <2>2. PICK r \in Responder : r = ResponseThread
    BY <2>1 DEF Responder
  <2>3. PICK tx \in Queued(EndRspPeq(n)) : tx = bus.rsp.txn
    OBVIOUS
  <2>4. tx \in Late(r)
    BY <2>1, EndingIsLate
  <2>5. ~Replying(r)
    BY <2>1 DEF Replying
  <2>6. WaitsFor(simc, r) = {}
    BY <2>1, <2>2 DEF AtWaits, AtArmed, OnePlace
  <2>7. OneLate(r)
    BY DEF AtWaits
  <2> HIDE DEF Late, EndOf, WaitsFor, Replying, Responder
  <2> QED BY <2>4, <2>5, <2>6, <2>7 DEF OneLate
<1> QED BY <1>1, AtCoreInvariant, AtWaitsInvariant, PTL

\* An initiator has one response in progress: ResponseExclusion.
THEOREM AtResponseExclusion == Spec => []ResponseExclusion
<1>1. AtCore /\ AtWaits => ResponseExclusion
  <2> SUFFICES ASSUME AtCore, AtWaits, NEW n \in Initiator PROVE Len(peq[EndRspPeq(n)]) <= 1
    BY DEF ResponseExclusion
  <2>1. PICK s \in Seq(Entry) : s = peq[EndRspPeq(n)] /\ Once(s)
    <3>1. EndRspPeq(n) \in Peq
      BY AtNames
    <3> HIDE DEF Peq, EndRspPeq, Once, Entry
    <3> QED BY <3>1 DEF AtCore, Types, PeqOK
  <2>2. PICK r \in Responder : Direct => r[2] = n - 1
    <3>1. CASE Direct
      <4>1. n - 1 \in Target
        BY <3>1, WiringAssumption, AtNumbers DEF Direct, Target, Initiator
      <4>2. BeginResponse(n - 1) \in Responder /\ BeginResponse(n - 1)[2] = n - 1
        BY <3>1, <4>1 DEF Responder, BeginResponse
      <4> QED BY <4>2
    <3>2. CASE ~Direct
      BY <3>2 DEF Responder
    <3> QED BY <3>1, <3>2
  <2>3. \A t, u \in Late(r) : t = u
    BY DEF AtWaits, OneLate
  <2>4. \A i, j \in DOMAIN s : i = j
    <3> SUFFICES ASSUME NEW i \in DOMAIN s, NEW j \in DOMAIN s PROVE i = j
      OBVIOUS
    <3>1. s[i].txn \in Queued(EndRspPeq(n)) /\ s[j].txn \in Queued(EndRspPeq(n))
      BY <2>1 DEF Queued
    <3>2. s[i].txn \in Late(r) /\ s[j].txn \in Late(r)
      BY <2>2, <3>1, EndingIsLate
    <3> QED BY <2>1, <2>3, <3>2 DEF Once
  <2>5. Len(s) \in Nat /\ DOMAIN s = 1..Len(s)
    OBVIOUS
  <2>6. ~(Len(s) > 1)
    <3> SUFFICES ASSUME Len(s) > 1 PROVE FALSE
      OBVIOUS
    <3>1. 1 \in DOMAIN s /\ 2 \in DOMAIN s
      BY <2>5
    <3> QED BY <2>4, <3>1
  <2> QED BY <2>1, <2>5, <2>6
<1> QED BY <1>1, AtCoreInvariant, AtWaitsInvariant, PTL
=============================================================================
