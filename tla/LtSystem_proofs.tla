---------------------------- MODULE LtSystem_proofs ----------------------------
(***************************************************************************)
(* Proofs about the loosely-timed platform, for any number of initiators   *)
(* and targets, any pool, fifo and memory sizes and delays, and both       *)
(* orders of the kernel.                                                   *)
(***************************************************************************)
EXTENDS LtSystem, TrafficGenerator_proofs

Word == -MemorySize..MemorySize
Addresses == 1..NI*TxnsPerPass

GpShape ==
  [cmd : {"none", "read", "write"}, port : Target, addr : 0..NI*TxnsPerPass, data : Word,
   status : {"none", "incomplete", "OK"}, rc : 0..1]

RegionShape ==
  {d \in [ptr : -1..NT-1, base : {AddressOffset(m) : m \in Target}, size : {0, MemorySize},
          start : Nat, end : Nat] :
     d.size # 0 => d.ptr \in Target /\ d.base = AddressOffset(d.ptr)}

LtiShape ==
  [kind : {"lt", "td", "dmi"},
   pc : {"get", "request", "inside", "returned", "sync", "ask", "respond"},
   txn : Txn \union {NoTxn}, delay : Nat, dmi_allowed : BOOLEAN, port : Target,
   keeper : [local : Nat, next : Nat], dmi : RegionShape]

LtShape ==
  [kind : {"lt", "synch", "dmi"}, mem : [1..MemorySize -> Word], dmi_enabled : BOOLEAN,
   toggle_count : Nat]

Types ==
  /\ lti \in [Initiator -> LtiShape] /\ lt \in [Target -> LtShape] /\ gp \in [Txn -> GpShape]
  /\ now \in Nat /\ spent \in [Initiator -> Nat] /\ fatal \in BOOLEAN

\* The payloads a generator holds a reference of, and those of them its initiator
\* has in hand.
Held(n) == {tx \in Payloads(n) : gp[tx].rc = 1}
Away(n) == IF lti[n].pc = "get" THEN {} ELSE {lti[n].txn}

\* On their way to a memory; they carry the port of the generator's pass.
Unserved(n) ==
  Putting(n) \union Requested(n) \union (IF lti[n].pc = "request" THEN {lti[n].txn} ELSE {})

Carries(n, tx) ==
  /\ gp[tx].cmd \in {"read", "write"} /\ gp[tx].addr \in Addresses
  /\ tx \in Unserved(n) => gp[tx].status = "incomplete" /\ gp[tx].port = PortOf(tg[n].pass)
  /\ tx \notin Unserved(n) => gp[tx].status = "OK"

Data(n) ==
  /\ Accounted(n, Away(n), Held(n))
  /\ Range(pool[n]) = Payloads(n) \ Held(n)
  /\ \A tx \in Held(n) : Carries(n, tx)

DataInv == Shapes /\ Types /\ \A n \in Initiator : Data(n)

-----------------------------------------------------------------------------
(* Addresses *)

\* The addresses of every generator are below the memory's last word.
LEMMA AddressFacts ==
  /\ NI * TxnsPerPass \in Nat /\ MemorySize \in Nat /\ Span \in Nat /\ 0 \in Target /\ Target \subseteq Nat
  /\ \A n \in Initiator : Base(n)..Base(n)+TxnsPerPass-1 \subseteq Addresses
  /\ \A a \in Addresses : /\ a < MemorySize /\ a + 1 < MemorySize /\ a \in 1..MemorySize
                          /\ a \in Word /\ -a \in Word
<1>1. NI \in Nat /\ TxnsPerPass \in Nat /\ NT \in Nat \ {0}
  BY SizesAssumption, PassAssumption
<1>2. NI * TxnsPerPass \in Nat
  BY <1>1
<1>3. MemorySize \in Nat /\ Span \in Nat
  BY MemoryAssumption, SpanAssumption
<1>4. 0 \in Target /\ Target \subseteq Nat
  BY <1>1 DEF Target
<1>5. ASSUME NEW n \in Initiator
      PROVE  Base(n)..Base(n)+TxnsPerPass-1 \subseteq Addresses
  <2>1. n \in 1..NI /\ n - 1 \in Nat
    BY <1>1 DEF Initiator
  <2>2. (n - 1) * TxnsPerPass >= 0 /\ (n - 1) * TxnsPerPass \in Int
    BY <1>1, <2>1
  <2>3. n * TxnsPerPass <= NI * TxnsPerPass
    BY <1>1, <2>1
  <2>4. n * TxnsPerPass = (n - 1) * TxnsPerPass + TxnsPerPass
    BY <1>1, <2>1
  <2> QED BY <1>1, <1>2, <2>2, <2>3, <2>4 DEF Base, Addresses
<1>6. \A a \in Addresses : /\ a < MemorySize /\ a + 1 < MemorySize /\ a \in 1..MemorySize
                           /\ a \in Word /\ -a \in Word
  BY <1>2, <1>3, MapAssumption DEF Addresses, Word
<1> QED BY <1>2, <1>3, <1>4, <1>5, <1>6

\* Regions of one Span each do not overlap: from a sum of a multiple of Span and
\* less than Span the multiple is known.
LEMMA SameMultiple ==
  ASSUME NEW s \in Nat, NEW a \in Int, NEW b \in Int, NEW r \in Int, r < s, a * s <= b * s + r
  PROVE  a <= b
<1> SUFFICES ASSUME a >= b + 1 PROVE FALSE
  OBVIOUS
<1>1. (b + 1) * s = b * s + s /\ b * s \in Int /\ a * s \in Int /\ (b + 1) * s \in Int
  OBVIOUS
<1>2. a * s >= (b + 1) * s
  OBVIOUS
<1> QED BY <1>1, <1>2

\* Where an initiator has direct access, the region it was granted is that of the
\* target the payload's address names, and the offset is the address.
LEMMA DirectAccess ==
  ASSUME NEW d \in RegionShape, NEW port \in Target, NEW addr \in Addresses,
         IsAddressDmi(d, AddressOffset(port) + addr)
  PROVE  d.ptr = port /\ AddressOffset(port) + addr - d.base = addr
<1>1. PICK full \in Int : full = AddressOffset(port) + addr
  BY AddressFacts DEF AddressOffset, Addresses
<1>2. d.base <= full /\ full + 1 <= d.base + d.size /\ d.base \in Int /\ d.size \in {0, MemorySize}
  <2>1. d.base \in Int /\ d.size \in {0, MemorySize} /\ d.size \in Int
    BY AddressFacts DEF RegionShape, AddressOffset
  <2>2. InRegion([d EXCEPT !.start = full, !.end = full + 1])
    BY <1>1 DEF IsAddressDmi, Noted
  <2>3. ~(full < d.base \/ full + 1 > d.base + d.size)
    BY <2>2 DEF InRegion, RegionShape
  <2> QED BY <1>1, <2>1, <2>3
<1>3. d.size = MemorySize /\ d.ptr \in Target /\ d.base = AddressOffset(d.ptr)
  BY <1>2, AddressFacts DEF RegionShape
<1>4. /\ d.ptr \in Int /\ port \in Int /\ addr \in Int /\ addr < Span /\ addr >= 0
      /\ MemorySize - addr - 1 < Span /\ MemorySize - addr - 1 \in Int
  <2>1. addr \in 1..MemorySize /\ MemorySize \in Nat /\ Span \in Nat /\ MemorySize < Span
    BY AddressFacts, MapAssumption
  <2>2. d.ptr \in Int /\ port \in Int
    BY <1>3, SizesAssumption DEF Target
  <2> QED BY <2>1, <2>2
<1>5. d.ptr * Span <= port * Span + addr
  BY <1>1, <1>2, <1>3 DEF AddressOffset
<1>6. port * Span <= d.ptr * Span + (MemorySize - addr - 1)
  BY <1>1, <1>2, <1>3, <1>4, AddressFacts DEF AddressOffset
<1>7. d.ptr <= port
  BY <1>4, <1>5, AddressFacts, SameMultiple
<1>8. port <= d.ptr
  BY <1>4, <1>6, AddressFacts, SameMultiple, Zenon
<1>9. d.ptr = port
  BY <1>4, <1>7, <1>8
<1> QED BY <1>3, <1>4, <1>9, AddressFacts DEF AddressOffset

\* Noting an address leaves the region as it is.
LEMMA NotedShape ==
  ASSUME NEW d \in RegionShape, NEW address \in Nat
  PROVE  Noted(d, address) \in RegionShape
<1>1. PICK e \in Nat : e = address + 1
  OBVIOUS
<1> DEFINE r == [d EXCEPT !.start = address, !.end = e]
<1>2. /\ r \in [ptr : -1..NT-1, base : {AddressOffset(m) : m \in Target}, size : {0, MemorySize},
                start : Nat, end : Nat]
      /\ r.ptr = d.ptr /\ r.base = d.base /\ r.size = d.size
  BY Zenon DEF RegionShape
<1> HIDE DEF r
<1>3. r \in RegionShape
  BY <1>2 DEF RegionShape
<1> QED BY <1>1, <1>3 DEF Noted, r

\* A grant of a target's whole memory, as the bus translates it.
LEMMA GrantShape ==
  ASSUME NEW d \in RegionShape, NEW port \in Target
  PROVE  LoadDmiPtr(d, port, LimitRange(port, 0, MemorySize).low,
                             LimitRange(port, 0, MemorySize).high) \in RegionShape
<1>1. PICK low \in {AddressOffset(m) : m \in Target}, size \in {0, MemorySize} :
        low = AddressOffset(port) /\ size = MemorySize
  OBVIOUS
<1>2. MemorySize \in Nat /\ AddressOffset(port) \in Int /\ Span \in Nat /\ MemorySize < Span
  BY AddressFacts, MapAssumption DEF AddressOffset
<1>3. LimitRange(port, 0, MemorySize).low = low /\ LimitRange(port, 0, MemorySize).high - low = size
  BY <1>1, <1>2 DEF LimitRange, AddressMask
<1> DEFINE r == [d EXCEPT !.ptr = port, !.base = low, !.size = size]
<1>4. /\ r \in [ptr : -1..NT-1, base : {AddressOffset(m) : m \in Target}, size : {0, MemorySize},
                start : Nat, end : Nat]
      /\ r.ptr = port /\ r.base = low
  <2>1. port \in -1..NT-1
    BY SizesAssumption DEF Target
  <2> QED BY <2>1, Zenon DEF RegionShape
<1> HIDE DEF r
<1>5. r \in RegionShape
  BY <1>1, <1>4 DEF RegionShape
<1> QED BY <1>3, <1>5, Zenon DEF LoadDmiPtr, r

\* invalidate_dmi_ptr touches only the scratch members of a region.
LEMMA InvalidatedShape ==
  ASSUME NEW d \in RegionShape, NEW low, NEW high
  PROVE  InvalidateDmiPtr(d, low, high) \in RegionShape
<1> DEFINE r == [d EXCEPT !.start = 1, !.end = 0]
<1>1. /\ r \in [ptr : -1..NT-1, base : {AddressOffset(m) : m \in Target}, size : {0, MemorySize},
                start : Nat, end : Nat]
      /\ r.ptr = d.ptr /\ r.base = d.base /\ r.size = d.size
  BY Zenon DEF RegionShape
<1> HIDE DEF r
<1>2. r \in RegionShape
  BY <1>1 DEF RegionShape
<1> QED BY <1>2 DEF InvalidateDmiPtr, r

-----------------------------------------------------------------------------
(* The payloads, step by step *)

\* A step that leaves the payloads of initiator m, and where they are, alone.
LEMMA DataFrame ==
  ASSUME NEW m \in Initiator, NEW away, NEW held, away = Away(m), held = Held(m),
         Data(m), Accounted(m, away, held)',
         lti'[m].pc = lti[m].pc, lti'[m].txn = lti[m].txn, pool'[m] = pool[m],
         tg'[m].pass = tg[m].pass, Putting(m)' = Putting(m), Requested(m)' = Requested(m),
         \A tx \in Payloads(m) : gp'[tx] = gp[tx]
  PROVE  Data(m)' /\ Held(m)' = held /\ Away(m)' = away
<1>1. Away(m)' = away /\ Held(m)' = held
  BY DEF Away, Held
<1>2. Unserved(m)' = Unserved(m)
  BY DEF Unserved
<1>3. \A tx \in held : Carries(m, tx)'
  BY <1>2 DEF Data, Carries, Held
<1>4. Accounted(m, Away(m), Held(m))'
  BY <1>1
<1>5. Range(pool[m])' = Payloads(m) \ Held(m)'
  BY <1>1 DEF Data
<1> QED BY <1>1, <1>3, <1>4, <1>5 DEF Data

\* The port a generator's payloads name.
LEMMA PortFacts ==
  ASSUME NEW n \in Initiator, Shapes
  PROVE  PortOf(tg[n].pass) \in Target
<1>1. tg[n].pass \in 0..1 /\ NT \in Nat \ {0}
  BY SizesAssumption DEF Shapes, TgShape
<1> QED BY <1>1 DEF PortOf, Target

\* A step of one generator leaves the payloads of the others alone.
LEMMA OthersData ==
  ASSUME DataInv, NEW n \in Initiator, TgStep(n), lti' = lti, NEW m \in Initiator, m # n,
         \A u \in Payloads(m) : gp'[u] = gp[u],
         Get(n) => Head(fifo[RspCh(n)].items) \in Payloads(n)
  PROVE  Data(m)'
<1>1. PICK a, h : a = Away(m) /\ h = Held(m)
  OBVIOUS
<1>2. Data(m) /\ Accounted(m, a, h) /\ Shapes
  BY <1>1 DEF DataInv, Data
<1>3. /\ Accounted(m, a, h)' /\ tg'[m] = tg[m] /\ pool'[m] = pool[m]
      /\ fifo'[ReqCh(m)] = fifo[ReqCh(m)]
  BY <1>2, OtherGenerators
<1>4. Putting(m)' = Putting(m) /\ Requested(m)' = Requested(m)
  BY <1>3 DEF Putting, Requested
<1> QED BY <1>1, <1>2, <1>3, <1>4, DataFrame

\* The payload the generator issues was free; it carries a request for one of the
\* generator's own addresses.
LEMMA IssueData ==
  ASSUME DataInv, NEW n \in Initiator, Issue(n), lti' = lti, lt' = lt, now' = now, spent' = spent,
         NEW tx, tx = Head(pool[n])
  PROVE  /\ DataInv' /\ tx \in Payloads(n) \ Held(n) /\ tx \in Txn /\ gp[tx].rc = 0
         /\ gp' = [gp EXCEPT ![tx] = gp'[tx]]
         /\ gp'[tx].cmd \in {"read", "write"} /\ gp'[tx].addr \in Addresses
         /\ gp'[tx].data \in Word /\ gp'[tx].status = "incomplete" /\ gp'[tx].rc = 1
<1>1. PICK away, held : away = Away(n) /\ held = Held(n)
  OBVIOUS
<1>2. /\ Shapes /\ Accounted(n, away, held) /\ Data(n) /\ Types
  BY <1>1 DEF DataInv, Data
<1>3. /\ tx \in Payloads(n) \ held /\ tx \in Range(pool[n])
      /\ tg[n].addr \in Base(n)..Base(n)+TxnsPerPass-1
      /\ Accounted(n, away, held \union {tx})' /\ Shapes'
  BY <1>2, IssueStep
<1>4. tx \in Txn /\ gp[tx] \in GpShape /\ gp[tx].rc = 0
  <2>1. tx \in Txn
    BY <1>3 DEF Payloads, Txn
  <2>2. gp[tx] \in GpShape /\ gp[tx].rc # 1
    BY <1>1, <1>2, <1>3, <2>1 DEF Types, Held
  <2> QED BY <2>1, <2>2 DEF GpShape
<1>5. tg[n].addr \in Addresses /\ tg[n].addr \in Word /\ -tg[n].addr \in Word
  BY <1>3, AddressFacts
<1>6. tg[n].cmd \in {"read", "write"} /\ PortOf(tg[n].pass) \in Target
  BY <1>2, PortFacts DEF Shapes, TgShape
<1>7. PICK r : /\ gp' = [gp EXCEPT ![tx] = r] /\ r \in GpShape
               /\ r.cmd \in {"read", "write"} /\ r.addr \in Addresses /\ r.data \in Word
               /\ r.status = "incomplete" /\ r.rc = 1 /\ r.port = PortOf(tg[n].pass)
  <2> DEFINE data == IF tg[n].cmd = "write" THEN WriteData(n) ELSE gp[tx].data
             r == [cmd |-> tg[n].cmd, port |-> PortOf(tg[n].pass), addr |-> tg[n].addr,
                   data |-> data, status |-> "incomplete", rc |-> 1]
  <2>1. data \in Word
    BY <1>4, <1>5 DEF WriteData, GpShape
  <2> HIDE DEF data
  <2>2. r \in GpShape
    <3>1. tg[n].addr \in 0..NI*TxnsPerPass /\ 1 \in 0..1
      BY <1>5, AddressFacts DEF Addresses
    <3> QED BY <1>6, <2>1, <3>1 DEF GpShape
  <2>3. gp' = [gp EXCEPT ![tx] = r]
    BY <1>4 DEF Issue, data
  <2>4. /\ r.cmd \in {"read", "write"} /\ r.addr \in Addresses /\ r.data \in Word
        /\ r.status = "incomplete" /\ r.rc = 1 /\ r.port = PortOf(tg[n].pass)
    BY <1>5, <1>6, <2>1
  <2> HIDE DEF r
  <2> QED BY <2>2, <2>3, <2>4, Zenon
<1>8. gp'[tx] = r /\ gp' \in [Txn -> GpShape] /\ \A u \in Txn : u # tx => gp'[u] = gp[u]
  BY <1>2, <1>4, <1>7 DEF Types
<1>9. Types'
  BY <1>2, <1>8 DEF Types, Issue
<1>10. /\ tg'[n].pc = "put" /\ tg'[n].txn = tx /\ tg[n].pc = "issue" /\ tg'[n].pass = tg[n].pass
       /\ pool'[n] = Tail(pool[n]) /\ fifo' = fifo
       /\ \A m \in Initiator : m # n => tg'[m] = tg[m] /\ pool'[m] = pool[m]
  <2>1. PICK s \in TgShape : s = tg[n]
    BY <1>2 DEF Shapes
  <2> DEFINE s2 == [s EXCEPT !.pc = "put", !.addr = @ + 1, !.active = @ + 1, !.txn = tx, !.sent = @ + 1]
  <2>2. tg' = [tg EXCEPT ![n] = s2] /\ s.pc = "issue"
    BY <2>1 DEF Issue, Set
  <2>3. s2.pc = "put" /\ s2.txn = tx /\ s2.pass = s.pass
    BY DEF TgShape
  <2> HIDE DEF s2
  <2>4. tg'[n] = s2 /\ \A m \in Initiator : m # n => tg'[m] = tg[m]
    BY <1>2, <2>2 DEF Shapes
  <2>5. /\ pool'[n] = Tail(pool[n]) /\ fifo' = fifo
        /\ \A m \in Initiator : m # n => pool'[m] = pool[m]
    BY <1>2 DEF Issue, Shapes
  <2> QED BY <2>1, <2>2, <2>3, <2>4, <2>5
<1>11. Data(n)'
  <2>1. Held(n)' = held \union {tx} /\ Away(n)' = away
    BY <1>1, <1>3, <1>4, <1>7, <1>8 DEF Held, Away, Payloads, Txn
  <2>2. Accounted(n, Away(n), Held(n))'
    BY <1>3, <2>1
  <2>3. Range(pool[n])' = Payloads(n) \ Held(n)'
    <3>1. pool[n] \in Line(Payloads(n)) /\ pool[n] # << >> /\ Range(pool[n]) = Payloads(n) \ held
      BY <1>1, <1>2 DEF Data, Accounted, Issue
    <3>2. Range(Tail(pool[n])) = Range(pool[n]) \ {tx}
      BY <3>1, TailOfLine
    <3> QED BY <1>10, <2>1, <3>1, <3>2
  <2>4. Unserved(n)' = Unserved(n) \union {tx}
    BY <1>10 DEF Unserved, Putting, Requested
  <2>5. ASSUME NEW u \in held \union {tx} PROVE Carries(n, u)'
    <3>1. CASE u = tx
      BY <1>7, <1>8, <1>10, <2>4, <3>1 DEF Carries
    <3>2. CASE u # tx
      <4>1. Carries(n, u) /\ gp'[u] = gp[u]
        BY <1>1, <1>2, <1>8, <2>5, <3>2 DEF Data, Held, Payloads, Txn
      <4> QED BY <1>10, <2>4, <3>2, <4>1 DEF Carries
    <3> QED BY <3>1, <3>2
  <2> QED BY <2>1, <2>2, <2>3, <2>5 DEF Data
<1>12. ASSUME NEW m \in Initiator, m # n PROVE Data(m)'
  <2>1. \A u \in Payloads(m) : gp'[u] = gp[u]
    BY <1>3, <1>8, <1>12 DEF Payloads, Txn
  <2>2. TgStep(n) /\ ~Get(n)
    BY DEF TgStep, Issue, Get
  <2> QED BY <1>12, <2>1, <2>2, OthersData
<1>13. DataInv'
  BY <1>3, <1>9, <1>11, <1>12 DEF DataInv
<1> QED BY <1>1, <1>3, <1>4, <1>7, <1>8, <1>13, Zenon

\* A step of the generator that neither issues nor accepts a payload.
LEMMA GeneratorData ==
  ASSUME DataInv, NEW n \in Initiator, TgStep(n), ~Issue(n), ~Get(n),
         lti' = lti, lt' = lt, now' = now, spent' = spent
  PROVE  /\ DataInv' /\ gp' = gp
         /\ \A m \in Initiator : tg'[m].pass # tg[m].pass => Held(m) = {}
<1>1. PICK away, held : away = Away(n) /\ held = Held(n)
  OBVIOUS
<1>2. Shapes /\ Accounted(n, away, held) /\ Data(n) /\ Types
  BY <1>1 DEF DataInv, Data
<1>3. \/ Skip(n) \/ PutBlocks(n) \/ Check(n) \/ GetBlocks(n) \/ Drain(n)
      \/ Put(n) \/ Drained(n)
  BY DEF TgStep
<1>4. /\ Accounted(n, away, held)' /\ Shapes' /\ gp' = gp /\ pool' = pool /\ fatal' = fatal
      /\ tg' = [tg EXCEPT ![n] = tg'[n]]
      /\ Putting(n)' \union Requested(n)' = Putting(n) \union Requested(n)
      /\ tg'[n].pass = tg[n].pass \/ held = {}
  <2>1. CASE Skip(n) \/ PutBlocks(n) \/ Check(n) \/ GetBlocks(n) \/ Drain(n)
    <3>1. /\ Accounted(n, away, held)' /\ Shapes' /\ gp' = gp /\ pool' = pool /\ fatal' = fatal
          /\ tg' = [tg EXCEPT ![n] = tg'[n]] /\ fifo' = fifo
          /\ Putting(n)' = Putting(n) /\ tg'[n].pass = tg[n].pass
      BY <1>2, <2>1, QuietStep
    <3> QED BY <3>1 DEF Requested
  <2>2. CASE Put(n)
    <3>1. /\ Accounted(n, away, held)' /\ Shapes' /\ gp' = gp /\ pool' = pool /\ fatal' = fatal
          /\ tg' = [tg EXCEPT ![n] = tg'[n]] /\ tg'[n].pass = tg[n].pass
          /\ Putting(n)' = {} /\ Putting(n) = {tg[n].txn}
          /\ Requested(n)' = Requested(n) \union {tg[n].txn}
      BY <1>2, <2>2, PutStep
    <3> QED BY <3>1
  <2>3. CASE Drained(n)
    <3>1. /\ held = {} /\ Accounted(n, away, held)' /\ Shapes'
          /\ gp' = gp /\ pool' = pool /\ fifo' = fifo /\ fatal' = fatal
          /\ tg' = [tg EXCEPT ![n] = tg'[n]] /\ Putting(n)' = {}
      BY <1>2, <2>3, DrainedStep
    <3> QED BY <1>2, <3>1, Zenon DEF Accounted, Requested
  <2> QED BY <1>3, <2>1, <2>2, <2>3
<1>5. \A m \in Initiator : m # n => tg'[m] = tg[m]
  BY <1>2, <1>4 DEF Shapes
<1>6. Data(n)'
  <2>1. Held(n)' = held /\ Away(n)' = away
    BY <1>1, <1>4 DEF Held, Away
  <2>2. Unserved(n)' = Unserved(n)
    BY <1>4 DEF Unserved
  <2>3. \A tx \in held : Carries(n, tx)'
    BY <1>1, <1>2, <1>4, <2>2 DEF Data, Carries
  <2> QED BY <1>1, <1>2, <1>4, <2>1, <2>3 DEF Data
<1>7. \A m \in Initiator : m # n => Data(m)'
  BY <1>4, OthersData
<1>8. Types'
  BY <1>2, <1>4 DEF Types
<1>9. DataInv'
  BY <1>4, <1>6, <1>7, <1>8 DEF DataInv
<1> QED BY <1>1, <1>4, <1>5, <1>9

\* The generator accepts a payload that was served, and frees it.
LEMMA GetData ==
  ASSUME DataInv, NEW n \in Initiator, Get(n), lti' = lti, lt' = lt, now' = now, spent' = spent,
         NEW tx, tx = Head(fifo[RspCh(n)].items)
  PROVE  /\ DataInv' /\ tx \in Held(n) /\ tx \in Txn /\ tx \notin Unserved(n)
         /\ gp' = [gp EXCEPT ![tx] = gp'[tx]] /\ gp'[tx].rc = 0
         /\ \A m \in Initiator : tg'[m].pass = tg[m].pass
<1>1. PICK away, held : away = Away(n) /\ held = Held(n)
  OBVIOUS
<1>2. Shapes /\ Accounted(n, away, held) /\ Data(n) /\ Types
  BY <1>1 DEF DataInv, Data
<1>3. /\ tx \in held /\ tx \in Responded(n) /\ tx \in Payloads(n)
      /\ Accounted(n, away, held \ {tx})' /\ Shapes'
      /\ tg' = [tg EXCEPT ![n] = tg'[n]] /\ tg'[n].pass = tg[n].pass /\ Putting(n)' = {}
      /\ pool' = IF gp[tx].rc = 1 THEN [pool EXCEPT ![n] = Append(@, tx)] ELSE pool
  BY <1>2, GetStep, Zenon
<1>4. tx \in Txn /\ gp[tx] \in GpShape /\ gp[tx].rc = 1 /\ tx \notin Range(pool[n])
      /\ pool[n] \in Line(Payloads(n))
  BY <1>1, <1>2, <1>3 DEF Payloads, Txn, Types, Held, Accounted
<1>5. PICK r \in GpShape : gp' = [gp EXCEPT ![tx] = r] /\ r.rc = 0
  <2> DEFINE r == [gp[tx] EXCEPT !.rc = 0]
  <2>1. r \in GpShape /\ r.rc = 0
    <3>1. 0 \in 0..1
      OBVIOUS
    <3> QED BY <1>4, <3>1 DEF GpShape
  <2>2. gp' = [gp EXCEPT ![tx] = r]
    BY <1>2, <1>4 DEF Get, Released, Types
  <2> QED BY <2>1, <2>2, Zenon
<1>6. gp'[tx] = r /\ gp' \in [Txn -> GpShape] /\ \A u \in Txn : u # tx => gp'[u] = gp[u]
  BY <1>2, <1>4, <1>5 DEF Types
<1>7. Types'
  <2>1. fatal' \in BOOLEAN
    BY DEF Get, GoodResponse
  <2> QED BY <1>2, <1>6, <2>1 DEF Types
<1>8. /\ Requested(n)' = Requested(n) /\ Putting(n) = {}
      /\ \A m \in Initiator : m # n => tg'[m] = tg[m]
  <2>1. fifo'[ReqCh(n)] = fifo[ReqCh(n)]
    BY <1>2, ChannelFacts DEF Get, FifoRead, Shapes
  <2> QED BY <1>2, <1>3, <2>1 DEF Requested, Putting, Get, Shapes
<1>9. tx \notin Unserved(n)
  BY <1>1, <1>2, <1>3, <1>8 DEF Unserved, Accounted, Away
<1>10. Data(n)'
  <2>1. Held(n)' = held \ {tx} /\ Away(n)' = away
    BY <1>1, <1>3, <1>5, <1>6 DEF Held, Away, Payloads, Txn
  <2>2. Range(pool[n])' = Payloads(n) \ (held \ {tx})
    <3>1. pool'[n] = Append(pool[n], tx)
      BY <1>2, <1>3, <1>4 DEF Shapes
    <3>2. Range(Append(pool[n], tx)) = Range(pool[n]) \union {tx}
      BY <1>3, <1>4, AppendToLine
    <3> QED BY <1>1, <1>2, <1>3, <3>1, <3>2 DEF Data
  <2>3. Unserved(n)' = Unserved(n)
    BY <1>3, <1>8 DEF Unserved
  <2>4. \A u \in held \ {tx} : Carries(n, u) /\ gp'[u] = gp[u]
    BY <1>1, <1>2, <1>6 DEF Data, Held, Payloads, Txn
  <2>5. \A u \in held \ {tx} : Carries(n, u)'
    BY <1>3, <2>3, <2>4 DEF Carries
  <2>6. Accounted(n, Away(n), Held(n))'
    BY <1>3, <2>1
  <2> QED BY <2>1, <2>2, <2>5, <2>6 DEF Data
<1>11. \A m \in Initiator : m # n => Data(m)'
  <2>1. TgStep(n)
    BY DEF TgStep
  <2>2. ASSUME NEW m \in Initiator, m # n PROVE \A u \in Payloads(m) : gp'[u] = gp[u]
    BY <1>3, <1>6, <2>2 DEF Payloads, Txn
  <2> QED BY <1>3, <2>1, <2>2, OthersData
<1>12. DataInv'
  BY <1>3, <1>7, <1>10, <1>11 DEF DataInv
<1> QED BY <1>1, <1>3, <1>4, <1>5, <1>6, <1>8, <1>9, <1>12, Zenon

\* A step of initiator n leaves the payloads of the others alone.
LEMMA InitiatorOthers ==
  ASSUME DataInv, NEW n \in Initiator, NEW s2, lti' = [lti EXCEPT ![n] = s2], tg' = tg, pool' = pool,
         \A m \in Initiator : m # n => /\ fifo'[ReqCh(m)] = fifo[ReqCh(m)]
                                       /\ fifo'[RspCh(m)] = fifo[RspCh(m)],
         \A m \in Initiator : m # n => \A u \in Payloads(m) : gp'[u] = gp[u],
         NEW m \in Initiator, m # n
  PROVE  Data(m)'
<1>1. PICK a, h : a = Away(m) /\ h = Held(m)
  OBVIOUS
<1>2. Data(m) /\ Accounted(m, a, h) /\ lti'[m] = lti[m]
  BY <1>1 DEF DataInv, Data, Types
<1>3. Accounted(m, a, h)'
  BY <1>2, AccountedFrame
<1>4. Putting(m)' = Putting(m) /\ Requested(m)' = Requested(m)
  BY DEF Putting, Requested
<1> QED BY <1>1, <1>2, <1>3, <1>4, DataFrame

\* A step of initiator n that takes no payload and gives none away.
LEMMA HandsData ==
  ASSUME DataInv, NEW n \in Initiator, NEW s2 \in LtiShape, lti' = [lti EXCEPT ![n] = s2],
         s2.txn = lti[n].txn, lti[n].pc \notin {"get", "request"}, s2.pc \notin {"get", "request"},
         tg' = tg, pool' = pool, fifo' = fifo, gp' = gp, lt' = lt, now' = now,
         fatal' \in BOOLEAN, spent' \in [Initiator -> Nat]
  PROVE  DataInv'
<1>1. PICK away, held : away = Away(n) /\ held = Held(n)
  OBVIOUS
<1>2. Shapes /\ Accounted(n, away, held) /\ Data(n) /\ Types
  BY <1>1 DEF DataInv, Data
<1>3. lti'[n] = s2 /\ lti' \in [Initiator -> LtiShape]
  BY <1>2 DEF Types
<1>4. Shapes' /\ Types'
  BY <1>2, <1>3 DEF Shapes, Types
<1>5. Data(n)'
  <2>1. Away(n)' = away /\ Held(n)' = held
    BY <1>1, <1>3, Zenon DEF Away, Held
  <2>2. Accounted(n, away, held)'
    BY <1>2, AccountedFrame
  <2>3. Unserved(n)' = Unserved(n)
    BY <1>3 DEF Unserved, Putting, Requested
  <2>4. \A u \in held : Carries(n, u)'
    BY <1>1, <1>2, <2>3 DEF Data, Carries
  <2> QED BY <1>1, <1>2, <2>1, <2>2, <2>4 DEF Data
<1>6. \A m \in Initiator : m # n => Data(m)'
  BY InitiatorOthers, Zenon
<1> QED BY <1>4, <1>5, <1>6 DEF DataInv

\* An initiator takes the next request.
LEMMA ReceiveData ==
  ASSUME DataInv, NEW n \in Initiator, Receive(n), tg' = tg, now' = now, spent' \in [Initiator -> Nat]
  PROVE  DataInv'
<1>1. PICK away, held : away = Away(n) /\ held = Held(n)
  OBVIOUS
<1>2. PICK tx : tx = Head(fifo[Req(n)].items)
  OBVIOUS
<1>3. PICK s \in LtiShape : s = lti[n]
  BY DEF DataInv, Types
<1>4. Shapes /\ Accounted(n, away, held) /\ Data(n) /\ Types /\ away = {} /\ s.pc = "get" /\ Req(n) = ReqCh(n)
  BY <1>1, <1>3, Zenon DEF DataInv, Data, Receive, At, Away, Req, ReqCh
<1>5. /\ tx \in Requested(n) /\ tx \in Payloads(n) /\ tx \in held /\ tx \notin Responded(n)
      /\ Accounted(n, away \union {tx}, held)' /\ Shapes'
  <2>1. NumAvailable(ReqCh(n)) # 0 /\ fifo' = FifoRead(ReqCh(n)) /\ pool' = pool
    BY <1>4 DEF Receive
  <2> QED BY <1>2, <1>4, <2>1, RequestTaken
<1> DEFINE s2 == [s EXCEPT !.pc = "request", !.txn = tx, !.delay = s.keeper.local]
<1>6. lti' = [lti EXCEPT ![n] = s2] /\ s2 \in LtiShape /\ s2.pc = "request" /\ s2.txn = tx
  <2>1. lti' = [lti EXCEPT ![n] = s2]
    BY <1>2, <1>3 DEF Receive, SetLti
  <2>2. tx \in Txn /\ s.keeper.local \in Nat
    BY <1>5 DEF Payloads, Txn, LtiShape
  <2> QED BY <2>1, <2>2, Zenon DEF LtiShape
<1> HIDE DEF s2
<1>7. lti'[n] = s2 /\ lti' \in [Initiator -> LtiShape]
  BY <1>4, <1>6 DEF Types
<1>8. gp' = gp /\ lt' = lt /\ fatal' = fatal /\ pool' = pool
  BY DEF Receive
<1>9. Types'
  BY <1>4, <1>7, <1>8 DEF Types
<1>10. Requested(n)' = Requested(n) \ {tx}
  <2>1. PICK f \in FifoShape(n) : f = fifo[ReqCh(n)]
    BY <1>4 DEF Accounted
  <2>2. fifo'[ReqCh(n)] = [f EXCEPT !.items = Tail(@), !.read = @ + 1]
    BY <1>4, <2>1, ChannelFacts, Zenon DEF Receive, FifoRead, Shapes
  <2>3. f \in FifoFields(n) /\ f.readable - f.read # 0
    BY <1>4, <2>1 DEF FifoShape, Receive, NumAvailable
  <2>4. [f EXCEPT !.items = Tail(@), !.read = @ + 1].items = Tail(f.items)
    BY <2>3 DEF FifoFields
  <2>5. Range(Tail(f.items)) = Range(f.items) \ {Head(f.items)}
    BY <2>3, ReadShape, Zenon
  <2> QED BY <1>2, <1>4, <2>1, <2>2, <2>4, <2>5 DEF Requested
<1>11. Data(n)'
  <2>1. Away(n)' = away \union {tx} /\ Held(n)' = held
    BY <1>1, <1>4, <1>6, <1>7, <1>8, Zenon DEF Away, Held
  <2>2. Unserved(n)' = Unserved(n)
    BY <1>3, <1>4, <1>5, <1>6, <1>7, <1>10 DEF Unserved, Putting
  <2>3. \A u \in held : Carries(n, u)'
    BY <1>1, <1>4, <1>8, <2>2 DEF Data, Carries
  <2> QED BY <1>1, <1>4, <1>5, <1>8, <2>1, <2>3 DEF Data
<1>12. \A m \in Initiator : m # n => Data(m)'
  <2>1. \A m \in Initiator : m # n => /\ fifo'[ReqCh(m)] = fifo[ReqCh(m)]
                                       /\ fifo'[RspCh(m)] = fifo[RspCh(m)]
    BY <1>4, ChannelFacts DEF Receive, FifoRead, Shapes
  <2> QED BY <1>6, <1>8, <2>1, InitiatorOthers, Zenon
<1> QED BY <1>5, <1>9, <1>11, <1>12 DEF DataInv

\* An initiator hands a payload back that was served.
LEMMA RespondData ==
  ASSUME DataInv, NEW n \in Initiator, Respond(n), tg' = tg, now' = now, spent' \in [Initiator -> Nat]
  PROVE  DataInv'
<1>1. PICK away, held : away = Away(n) /\ held = Held(n)
  OBVIOUS
<1>2. PICK s \in LtiShape : s = lti[n]
  BY DEF DataInv, Types
<1>3. PICK tx : tx = s.txn
  OBVIOUS
<1>4. Shapes /\ Accounted(n, away, held) /\ Data(n) /\ Types /\ away = {tx} /\ s.pc = "respond"
      /\ Rsp(n) = RspCh(n)
  BY <1>1, <1>2, <1>3, Zenon DEF DataInv, Data, Respond, At, Away, Rsp, RspCh
<1>5. Accounted(n, away \ {tx}, held)' /\ Shapes'
  <2>1. fifo' = FifoWrite(RspCh(n), tx) /\ pool' = pool /\ tx \in away
    BY <1>2, <1>3, <1>4 DEF Respond
  <2> QED BY <1>4, <2>1, ResponseGiven
<1> DEFINE s2 == [s EXCEPT !.pc = "get", !.txn = NoTxn, !.delay = 0]
<1>6. lti' = [lti EXCEPT ![n] = s2] /\ s2 \in LtiShape /\ s2.pc = "get"
  <2>1. lti' = [lti EXCEPT ![n] = s2]
    BY <1>2 DEF Respond, SetLti
  <2> QED BY <2>1, Zenon DEF LtiShape
<1> HIDE DEF s2
<1>7. lti'[n] = s2 /\ lti' \in [Initiator -> LtiShape]
  BY <1>4, <1>6 DEF Types
<1>8. gp' = gp /\ lt' = lt /\ fatal' = fatal /\ pool' = pool
  BY DEF Respond
<1>9. Types'
  BY <1>4, <1>7, <1>8 DEF Types
<1>10. fifo'[ReqCh(n)] = fifo[ReqCh(n)]
  BY <1>4, ChannelFacts DEF Respond, FifoWrite, Shapes
<1>11. Data(n)'
  <2>1. Away(n)' = away \ {tx} /\ Held(n)' = held
    BY <1>1, <1>4, <1>6, <1>7, <1>8 DEF Away, Held
  <2>2. Unserved(n)' = Unserved(n)
    BY <1>2, <1>4, <1>6, <1>7, <1>10 DEF Unserved, Putting, Requested
  <2>3. \A u \in held : Carries(n, u)'
    BY <1>1, <1>4, <1>8, <2>2 DEF Data, Carries
  <2> QED BY <1>1, <1>4, <1>5, <1>8, <2>1, <2>3 DEF Data
<1>12. \A m \in Initiator : m # n => Data(m)'
  <2>1. \A m \in Initiator : m # n => /\ fifo'[ReqCh(m)] = fifo[ReqCh(m)]
                                       /\ fifo'[RspCh(m)] = fifo[RspCh(m)]
    BY <1>4, ChannelFacts DEF Respond, FifoWrite, Shapes
  <2> QED BY <1>6, <1>8, <2>1, InitiatorOthers, Zenon
<1> QED BY <1>5, <1>9, <1>11, <1>12 DEF DataInv

-----------------------------------------------------------------------------
(* A transaction is carried out *)

\* Payload tx's transaction is carried out at target m, in one step.
CarriedOut(tx, m) ==
  LET g == gp[tx] IN
  /\ gp' = [gp EXCEPT ![tx] = gp'[tx]] /\ gp'[tx] \in GpShape
  /\ gp'[tx].cmd = g.cmd /\ gp'[tx].addr = g.addr /\ gp'[tx].rc = g.rc /\ gp'[tx].status = "OK"
  /\ gp'[tx].data = IF g.cmd = "read" THEN lt[m].mem[g.addr] ELSE g.data
  /\ lt' = [lt EXCEPT ![m].mem = IF g.cmd = "write" THEN [@ EXCEPT ![g.addr] = g.data] ELSE @]

\* What is known of the payload in the hands of an initiator about to call.
LEMMA RequestFacts ==
  ASSUME DataInv, NEW n \in Initiator, lti[n].pc = "request", NEW tx, tx = lti[n].txn
  PROVE  /\ tx \in Payloads(n) /\ tx \in Txn /\ tx \in Held(n) /\ tx \in Unserved(n) /\ gp[tx] \in GpShape
         /\ gp[tx].rc = 1 /\ gp[tx].cmd \in {"read", "write"} /\ gp[tx].addr \in Addresses
         /\ gp[tx].status = "incomplete" /\ gp[tx].port = PortOf(tg[n].pass) /\ gp[tx].port \in Target
         /\ Unserved(n) = {tx} \union Putting(n) \union Requested(n)
         /\ tx \notin Putting(n) \union Requested(n)
<1>1. Accounted(n, Away(n), Held(n)) /\ Away(n) = {tx} /\ Shapes
  BY Zenon DEF DataInv, Data, Away
<1>2. tx \in Held(n) /\ tx \in Payloads(n) /\ tx \notin Putting(n) \union Requested(n)
  BY <1>1 DEF Accounted
<1>3. Unserved(n) = {tx} \union Putting(n) \union Requested(n)
  BY DEF Unserved
<1>4. Carries(n, tx)
  BY <1>2 DEF DataInv, Data
<1>5. tx \in Txn /\ gp[tx].rc = 1
  BY <1>2 DEF Held, Payloads, Txn
<1>6. gp[tx] \in GpShape
  BY <1>5 DEF DataInv, Types
<1> QED BY <1>1, <1>2, <1>3, <1>4, <1>5, <1>6, PortFacts DEF Carries

\* memory::operation on the words of a target.
LEMMA OperationFacts ==
  ASSUME DataInv, NEW m \in Target, NEW g \in GpShape, g.cmd \in {"read", "write"}, g.addr \in Addresses
  PROVE  /\ lt[m].mem[g.addr] \in Word
         /\ g.cmd = "write" => [lt EXCEPT ![m].mem[g.addr] = g.data] \in [Target -> LtShape]
         /\ [lt EXCEPT ![m].mem[g.addr] = g.data] = [lt EXCEPT ![m].mem = [@ EXCEPT ![g.addr] = g.data]]
         /\ [lt EXCEPT ![m].mem = @] = lt /\ lt \in [Target -> LtShape]
<1>1. lt \in [Target -> LtShape] /\ lt[m] \in LtShape /\ lt[m].mem \in [1..MemorySize -> Word]
  BY DEF DataInv, Types, LtShape
<1>2. g.addr \in 1..MemorySize /\ g.data \in Word
  BY AddressFacts DEF GpShape
<1>3. PICK words \in [1..MemorySize -> Word] : words = [lt[m].mem EXCEPT ![g.addr] = g.data]
  BY <1>1, <1>2, Zenon
<1>4. [lt[m] EXCEPT !.mem = words] \in LtShape /\ [lt[m] EXCEPT !.mem = @] = lt[m]
  BY <1>1 DEF LtShape
<1>5. [lt EXCEPT ![m].mem[g.addr] = g.data] = [lt EXCEPT ![m] = [lt[m] EXCEPT !.mem = words]]
  BY <1>1, <1>3
<1>6. [lt EXCEPT ![m].mem = @] = lt
  BY <1>1, <1>4
<1> QED BY <1>1, <1>2, <1>3, <1>4, <1>5, <1>6, Zenon

\* The call of b_transport carries the transaction out at the target of its port.
LEMMA TransportServes ==
  ASSUME DataInv, NEW n \in Initiator, Transport(n), NEW tx, tx = lti[n].txn,
         NEW m, m = PortOf(tg[n].pass)
  PROVE  /\ CarriedOut(tx, m) /\ lt' \in [Target -> LtShape] /\ fatal' \in BOOLEAN
         /\ \E s2 \in LtiShape : lti' = [lti EXCEPT ![n] = s2] /\ s2.txn = tx /\ s2.pc \in {"inside", "returned"}
<1>1. PICK s \in LtiShape : s = lti[n]
  BY DEF DataInv, Types
<1>2. PICK g \in GpShape : g = gp[tx]
  BY RequestFacts DEF Transport, At
<1>3. /\ tx \in Txn /\ g.cmd \in {"read", "write"} /\ g.addr \in Addresses /\ g.port = m /\ m \in Target
      /\ s.txn = tx /\ gp \in [Txn -> GpShape]
  <2>1. lti[n].pc = "request"
    BY DEF Transport, At
  <2>2. /\ tx \in Txn /\ gp[tx].cmd \in {"read", "write"} /\ gp[tx].addr \in Addresses
        /\ gp[tx].port = PortOf(tg[n].pass) /\ gp[tx].port \in Target
    BY <2>1, RequestFacts
  <2> QED BY <1>1, <1>2, <2>2, Zenon DEF DataInv, Types
<1>4. AddressOK(tx) /\ lt[m].mem[g.addr] \in Word
  BY <1>2, <1>3, AddressFacts, OperationFacts, Zenon DEF AddressOK
<1>5. PICK d \in Word : d = IF g.cmd = "read" THEN lt[m].mem[g.addr] ELSE g.data
  BY <1>4 DEF GpShape
<1>6. PICK r \in GpShape : /\ gp' = [gp EXCEPT ![tx] = r]
                           /\ r.cmd = g.cmd /\ r.addr = g.addr /\ r.rc = g.rc /\ r.status = "OK" /\ r.data = d
  <2> DEFINE r == [g EXCEPT !.status = "OK", !.data = d, !.port = 0]
  <2>1. /\ r \in GpShape /\ r.cmd = g.cmd /\ r.addr = g.addr /\ r.rc = g.rc /\ r.status = "OK"
        /\ r.data = d
    BY AddressFacts, Zenon DEF GpShape
  <2>2. gp' = [OperationGp(lt[m].mem, tx) EXCEPT ![tx].port = 0]
    BY <1>1, <1>2, <1>3, Zenon DEF Transport, Decode
  <2>3. OperationGp(lt[m].mem, tx) = [gp EXCEPT ![tx] = [g EXCEPT !.status = "OK", !.data = d]]
    BY <1>2, <1>3, <1>4, <1>5, Zenon DEF OperationGp
  <2>4. gp' = [gp EXCEPT ![tx] = r]
    BY <1>3, <2>2, <2>3, Zenon
  <2> HIDE DEF r
  <2> QED BY <2>1, <2>4, Zenon
<1>7. lt' = [lt EXCEPT ![m].mem = IF g.cmd = "write" THEN [@ EXCEPT ![g.addr] = g.data] ELSE @]
  BY <1>1, <1>2, <1>3, <1>4, Zenon DEF Transport, Decode, OperationMem
<1>8. lt' \in [Target -> LtShape]
  BY <1>3, <1>7, OperationFacts, Zenon
<1>9. CarriedOut(tx, m)
  <2>1. gp'[tx] = r
    BY <1>3, <1>6, Zenon
  <2> QED BY <1>2, <1>5, <1>6, <1>7, <2>1, Zenon DEF CarriedOut
<1>10. fatal' \in BOOLEAN
  BY DEF Transport
<1>11. \E s2 \in LtiShape : lti' = [lti EXCEPT ![n] = s2] /\ s2.txn = tx /\ s2.pc \in {"inside", "returned"}
  <2>1. PICK pc \in {"inside", "returned"} : pc = IF lt[m].kind = "synch" THEN "inside" ELSE "returned"
    BY SMT
  <2>2. PICK delay \in Nat : delay = s.delay + TransportTime(tx)
    <3>1. TransportTime(tx) \in Nat
      BY LtDelayAssumption, MemoryAssumption DEF TransportTime, OperationTime, OperationDelay
    <3> QED BY <3>1 DEF LtiShape
  <2>3. PICK allowed \in BOOLEAN : allowed = AllowsDmi(m)
    BY <1>3, OperationFacts DEF DataInv, Types, LtShape, AllowsDmi
  <2>4. PICK region \in RegionShape :
          region = IF s.kind = "dmi" THEN Noted(s.dmi, FullAddress(tx)) ELSE s.dmi
    <3>1. PICK full \in Nat : full = FullAddress(tx)
      BY <1>2, <1>3, AddressFacts DEF FullAddress, AddressOffset, GpShape
    <3>2. s.dmi \in RegionShape
      BY DEF LtiShape
    <3> QED BY <3>1, <3>2, NotedShape
  <2> DEFINE s2 == [s EXCEPT !.pc = pc, !.delay = delay, !.dmi_allowed = allowed, !.port = m, !.dmi = region]
  <2>5. lti' = [lti EXCEPT ![n] = s2]
    BY <1>1, <1>2, <1>3, <2>1, <2>2, <2>3, <2>4, Zenon DEF Transport, Decode, SetLti
  <2>6. s2 \in LtiShape /\ s2.txn = tx /\ s2.pc = pc
    BY <1>3, Zenon DEF LtiShape
  <2> QED BY <2>5, <2>6, Zenon
<1> QED BY <1>8, <1>9, <1>10, <1>11, Zenon

\* dmi_memory::operation carries the transaction out at the same target and on the
\* same word as b_transport would have.
LEMMA DmiServes ==
  ASSUME DataInv, NEW n \in Initiator, DmiOperation(n), NEW tx, tx = lti[n].txn,
         NEW m, m = PortOf(tg[n].pass)
  PROVE  /\ CarriedOut(tx, m) /\ lt' \in [Target -> LtShape]
         /\ \E s2 \in LtiShape : lti' = [lti EXCEPT ![n] = s2] /\ s2.txn = tx /\ s2.pc = "respond"
<1>1. PICK s \in LtiShape : s = lti[n]
  BY DEF DataInv, Types
<1>2. PICK g \in GpShape : g = gp[tx]
  BY RequestFacts, Zenon DEF DmiOperation, At
<1>3. /\ tx \in Txn /\ g.cmd \in {"read", "write"} /\ g.addr \in Addresses /\ g.port = m /\ m \in Target
      /\ s.txn = tx /\ gp \in [Txn -> GpShape]
  <2>1. lti[n].pc = "request"
    BY DEF DmiOperation, At
  <2>2. /\ tx \in Txn /\ gp[tx].cmd \in {"read", "write"} /\ gp[tx].addr \in Addresses
        /\ gp[tx].port = PortOf(tg[n].pass) /\ gp[tx].port \in Target
    BY <2>1, RequestFacts
  <2> QED BY <1>1, <1>2, <2>2 DEF DataInv, Types
<1>4. FullAddress(tx) = AddressOffset(m) + g.addr /\ FullAddress(tx) \in Nat
  BY <1>2, <1>3, AddressFacts DEF FullAddress, AddressOffset, GpShape
<1>5. s.dmi.ptr = m /\ FullAddress(tx) - s.dmi.base = g.addr
  <2>1. s.dmi \in RegionShape /\ IsAddressDmi(s.dmi, AddressOffset(m) + g.addr)
    BY <1>1, <1>3, <1>4, Zenon DEF DmiOperation, HasDmi, LtiShape
  <2>2. s.dmi.ptr = m /\ AddressOffset(m) + g.addr - s.dmi.base = g.addr
    BY <1>3, <2>1, DirectAccess
  <2>3. s.dmi.base \in Int /\ AddressOffset(m) \in Int /\ g.addr \in Int
    BY <1>3, <2>1, AddressFacts DEF RegionShape, AddressOffset, GpShape
  <2> QED BY <1>4, <2>2, <2>3
<1>6. lt[m].mem[g.addr] \in Word
  BY <1>3, OperationFacts, Zenon
<1>7. PICK d \in Word : d = IF g.cmd = "write" THEN g.data ELSE lt[m].mem[g.addr]
  BY <1>6 DEF GpShape
<1>8. PICK r \in GpShape : /\ gp' = [gp EXCEPT ![tx] = r]
                           /\ r.cmd = g.cmd /\ r.addr = g.addr /\ r.rc = g.rc /\ r.status = "OK" /\ r.data = d
  <2> DEFINE r == [g EXCEPT !.status = "OK", !.data = d]
  <2>1. /\ r \in GpShape /\ r.cmd = g.cmd /\ r.addr = g.addr /\ r.rc = g.rc /\ r.status = "OK"
        /\ r.data = d
    BY Zenon DEF GpShape
  <2>2. gp' = [gp EXCEPT ![tx].status = "OK",
                         ![tx].data = IF g.cmd = "write" THEN @ ELSE lt[m].mem[g.addr]]
    BY <1>1, <1>2, <1>3, <1>5, Zenon DEF DmiOperation
  <2>3. gp' = [gp EXCEPT ![tx] = r]
    BY <1>2, <1>3, <1>7, <2>2, Zenon
  <2> HIDE DEF r
  <2> QED BY <2>1, <2>3, Zenon
<1>9. lt' = [lt EXCEPT ![m].mem = IF g.cmd = "write" THEN [@ EXCEPT ![g.addr] = g.data] ELSE @]
  <2>1. lt' = IF g.cmd = "write" THEN [lt EXCEPT ![m].mem[g.addr] = g.data] ELSE lt
    BY <1>1, <1>2, <1>3, <1>5, Zenon DEF DmiOperation
  <2> QED BY <1>3, <2>1, OperationFacts, Zenon
<1>10. lt' \in [Target -> LtShape]
  BY <1>3, <1>9, OperationFacts, Zenon
<1>11. CarriedOut(tx, m)
  <2>1. gp'[tx] = r
    BY <1>3, <1>8
  <2>2. d = IF g.cmd = "read" THEN lt[m].mem[g.addr] ELSE g.data
    BY <1>3, <1>7
  <2> QED BY <1>2, <1>8, <1>9, <2>1, <2>2, Zenon DEF CarriedOut
<1>12. \E s2 \in LtiShape : lti' = [lti EXCEPT ![n] = s2] /\ s2.txn = tx /\ s2.pc = "respond"
  <2>1. PICK region \in RegionShape : region = Noted(s.dmi, FullAddress(tx))
    BY <1>4, NotedShape, Zenon DEF LtiShape
  <2> DEFINE s2 == [s EXCEPT !.pc = "respond", !.dmi = region]
  <2>2. lti' = [lti EXCEPT ![n] = s2]
    BY <1>1, <1>3, <2>1 DEF DmiOperation, SetLti
  <2>3. s2 \in LtiShape /\ s2.txn = tx /\ s2.pc = "respond"
    BY <1>3, Zenon DEF LtiShape
  <2> QED BY <2>2, <2>3, Zenon
<1> QED BY <1>10, <1>11, <1>12, Zenon

\* A payload whose transaction was carried out is on its way back.
LEMMA ServedData ==
  ASSUME DataInv, NEW n \in Initiator, lti[n].pc = "request", NEW tx, tx = lti[n].txn,
         NEW m, CarriedOut(tx, m), lt' \in [Target -> LtShape], fatal' \in BOOLEAN,
         NEW s2 \in LtiShape, lti' = [lti EXCEPT ![n] = s2], s2.txn = tx, s2.pc \notin {"get", "request"},
         tg' = tg, pool' = pool, fifo' = fifo, now' = now, spent' \in [Initiator -> Nat]
  PROVE  DataInv'
<1>1. PICK away, held : away = Away(n) /\ held = Held(n)
  OBVIOUS
<1>2. Shapes /\ Accounted(n, away, held) /\ Data(n) /\ Types
  BY <1>1 DEF DataInv, Data
<1>3. /\ tx \in Payloads(n) /\ tx \in Txn /\ gp[tx].rc = 1 /\ gp[tx].cmd \in {"read", "write"}
      /\ gp[tx].addr \in Addresses /\ Unserved(n) = {tx} \union Putting(n) \union Requested(n)
      /\ tx \notin Putting(n) \union Requested(n)
  BY RequestFacts
<1>4. /\ gp'[tx] \in GpShape /\ gp'[tx].cmd = gp[tx].cmd /\ gp'[tx].addr = gp[tx].addr
      /\ gp'[tx].rc = gp[tx].rc /\ gp'[tx].status = "OK"
      /\ gp' \in [Txn -> GpShape] /\ \A u \in Txn : u # tx => gp'[u] = gp[u]
  BY <1>2, <1>3 DEF CarriedOut, Types
<1>5. lti'[n] = s2 /\ lti' \in [Initiator -> LtiShape]
  BY <1>2 DEF Types
<1>6. Shapes' /\ Types'
  BY <1>2, <1>4, <1>5 DEF Shapes, Types
<1>7. Data(n)'
  <2>1. Away(n)' = away /\ Held(n)' = held
    BY <1>1, <1>3, <1>4, <1>5 DEF Away, Held, Payloads, Txn
  <2>2. Accounted(n, away, held)'
    BY <1>2, AccountedFrame
  <2>3. Unserved(n)' = Putting(n) \union Requested(n)
    BY <1>5 DEF Unserved, Putting, Requested
  <2>4. ASSUME NEW u \in held PROVE Carries(n, u)'
    <3>1. Carries(n, u)
      BY <1>1, <1>2, <2>4 DEF Data
    <3>2. u # tx => gp'[u] = gp[u]
      BY <1>1, <1>4, <2>4 DEF Held, Payloads, Txn
    <3> QED BY <1>3, <1>4, <2>3, <3>1, <3>2 DEF Carries
  <2> QED BY <1>1, <1>2, <2>1, <2>2, <2>4 DEF Data
<1>8. \A k \in Initiator : k # n => Data(k)'
  <2>1. \A k \in Initiator : k # n => \A u \in Payloads(k) : gp'[u] = gp[u]
    BY <1>3, <1>4 DEF Payloads, Txn
  <2> QED BY <2>1, InitiatorOthers, Zenon
<1> QED BY <1>6, <1>7, <1>8 DEF DataInv

\* The steps of an initiator after the transaction was carried out.
LEMMA MiddleData ==
  ASSUME DataInv, NEW n \in Initiator, tg' = tg, now' = now, spent' \in [Initiator -> Nat],
         SynchReturn(n) \/ ReturnedWaits(n) \/ ReturnedDecoupled(n) \/ Synced(n) \/ AskDmi(n)
  PROVE  DataInv' /\ gp' = gp /\ lt' = lt
<1>1. PICK s \in LtiShape : s = lti[n]
  BY DEF DataInv, Types
<1>2. /\ tg' = tg /\ pool' = pool /\ fifo' = fifo /\ gp' = gp /\ lt' = lt /\ fatal' \in BOOLEAN
      /\ s.pc \notin {"get", "request"}
  BY <1>1, Zenon DEF SynchReturn, ReturnedWaits, ReturnedDecoupled, Synced, AskDmi, At, shared, DataInv, Types
<1>3. \E s2 \in LtiShape : /\ lti' = [lti EXCEPT ![n] = s2] /\ s2.txn = s.txn
                            /\ s2.pc \notin {"get", "request"}
  <2>1. CASE SynchReturn(n)
    <3> DEFINE s2 == [s EXCEPT !.pc = "returned", !.delay = 0]
    <3>1. lti' = [lti EXCEPT ![n] = s2]
      BY <1>1, <2>1 DEF SynchReturn, SetLti
    <3>2. s2 \in LtiShape /\ s2.txn = s.txn /\ s2.pc = "returned"
      BY Zenon DEF LtiShape
    <3> QED BY <3>1, <3>2, Zenon
  <2>2. CASE ReturnedWaits(n)
    <3>1. PICK pc \in {"ask", "respond"} : pc = IF s.kind = "dmi" THEN "ask" ELSE "respond"
      BY SMT
    <3> DEFINE s2 == [s EXCEPT !.pc = pc]
    <3>2. lti' = [lti EXCEPT ![n] = s2]
      BY <1>1, <2>2, <3>1 DEF ReturnedWaits, SetLti
    <3>3. s2 \in LtiShape /\ s2.txn = s.txn /\ s2.pc = pc
      BY DEF LtiShape
    <3> QED BY <3>2, <3>3, Zenon
  <2>3. CASE ReturnedDecoupled(n)
    <3>1. PICK keeper \in [local : Nat, next : Nat] :
            keeper = [s.keeper EXCEPT !.local = IF Succeeded(n) THEN s.delay ELSE @]
      BY Zenon DEF LtiShape
    <3>2. PICK pc \in {"sync", "respond"} :
            pc = IF Succeeded(n) /\ NeedSync(keeper, now) THEN "sync" ELSE "respond"
      BY SMT
    <3> DEFINE s2 == [s EXCEPT !.keeper = keeper, !.pc = pc]
    <3>3. lti' = [lti EXCEPT ![n] = s2]
      BY <1>1, <2>3, <3>1, <3>2 DEF ReturnedDecoupled, SetLti
    <3>4. s2 \in LtiShape /\ s2.txn = s.txn /\ s2.pc = pc
      BY Zenon DEF LtiShape
    <3> QED BY <3>3, <3>4, Zenon
  <2>4. CASE Synced(n)
    <3>1. PICK keeper \in [local : Nat, next : Nat] : keeper = Reset(s.keeper, now)
      <4>1. now \in Nat /\ Quantum \in Nat \ {0}
        BY QuantumAssumption DEF DataInv, Types
      <4>2. (now \div Quantum + 1) * Quantum \in Nat
        BY <4>1
      <4>3. now + ((now \div Quantum + 1) * Quantum - now) = (now \div Quantum + 1) * Quantum
        BY <4>1, <4>2
      <4> QED BY <4>2, <4>3, Zenon DEF Reset, LocalQuantum
    <3> DEFINE s2 == [s EXCEPT !.pc = "respond", !.keeper = keeper]
    <3>2. lti' = [lti EXCEPT ![n] = s2]
      BY <1>1, <2>4, <3>1 DEF Synced, SetLti
    <3>3. s2 \in LtiShape /\ s2.txn = s.txn /\ s2.pc = "respond"
      BY Zenon DEF LtiShape
    <3> QED BY <3>2, <3>3, Zenon
  <2>5. CASE AskDmi(n)
    <3>2. PICK granted \in RegionShape :
            granted = LoadDmiPtr(s.dmi, s.port, LimitRange(s.port, 0, MemorySize).low,
                                                LimitRange(s.port, 0, MemorySize).high)
      BY <1>1, GrantShape DEF LtiShape
    <3>3. PICK given \in RegionShape :
             given = IF s.dmi_allowed /\ GrantsDmi(s.port, gp[s.txn].addr) THEN granted ELSE s.dmi
      BY DEF LtiShape
    <3> DEFINE s2 == [s EXCEPT !.pc = "respond", !.dmi = given]
    <3>4. lti' = [lti EXCEPT ![n] = s2]
      BY <1>1, <2>5, <3>2, <3>3 DEF AskDmi, SetLti
    <3>5. s2 \in LtiShape /\ s2.txn = s.txn /\ s2.pc = "respond"
      BY Zenon DEF LtiShape
    <3> QED BY <3>4, <3>5, Zenon
  <2> QED BY <2>1, <2>2, <2>3, <2>4, <2>5
<1>4. DataInv'
  BY <1>1, <1>2, <1>3, HandsData, Zenon
<1> QED BY <1>2, <1>4

\* A step in which no payload moves.
LEMMA StillData ==
  ASSUME DataInv, tg' = tg, pool' = pool, fifo' = fifo, gp' = gp, fatal' \in BOOLEAN, now' \in Nat,
         spent' \in [Initiator -> Nat], lt' \in [Target -> LtShape], lti' \in [Initiator -> LtiShape],
         \A n \in Initiator : lti'[n].pc = lti[n].pc /\ lti'[n].txn = lti[n].txn
  PROVE  DataInv'
<1>1. Shapes' /\ Types'
  BY DEF DataInv, Shapes, Types
<1>2. ASSUME NEW m \in Initiator PROVE Data(m)'
  <2>1. PICK a, h : a = Away(m) /\ h = Held(m)
    OBVIOUS
  <2>2. Data(m) /\ Accounted(m, a, h)
    BY <2>1 DEF DataInv, Data
  <2>3. Accounted(m, a, h)'
    BY <2>2, AccountedFrame
  <2>4. Putting(m)' = Putting(m) /\ Requested(m)' = Requested(m)
    BY DEF Putting, Requested
  <2> QED BY <2>1, <2>2, <2>3, <2>4, DataFrame
<1> QED BY <1>1, <1>2 DEF DataInv

\* The update phase moves no payload either.
LEMMA DeltaData ==
  ASSUME DataInv, DeltaCycle, UNCHANGED <<tg, lti, lt, now, spent>>
  PROVE  DataInv'
<1>1. /\ fifo' = [ch \in Channel |-> Updated(fifo[ch])] /\ gp' = gp /\ pool' = pool /\ fatal' = fatal
      /\ tg' = tg /\ Shapes
  BY DEF DeltaCycle, DataInv
<1>2. Shapes' /\ Types'
  BY <1>1, DeltaStep DEF DataInv, Types
<1>3. ASSUME NEW m \in Initiator PROVE Data(m)'
  <2>1. PICK a, h : a = Away(m) /\ h = Held(m)
    OBVIOUS
  <2>2. Data(m) /\ Accounted(m, a, h)
    BY <2>1 DEF DataInv, Data
  <2>3. Accounted(m, a, h)'
    BY <1>1, <2>2, DeltaStep
  <2>4. Putting(m)' = Putting(m) /\ Requested(m)' = Requested(m)
    <3>1. fifo'[ReqCh(m)].items = fifo[ReqCh(m)].items
      BY <1>1, <2>2, ChannelFacts, UpdatedShape DEF Accounted
    <3> QED BY <1>1, <3>1 DEF Putting, Requested
  <2> QED BY <1>1, <2>1, <2>2, <2>3, <2>4, DataFrame
<1> QED BY <1>2, <1>3 DEF DataInv

\* toggle_dmi_method, and what invalidate_dmi_ptr does in the initiators.
LEMMA ToggleData ==
  ASSUME DataInv, NEW m \in Target, toggle_dmi_method(m), UNCHANGED <<tg, now, spent>>
  PROVE  /\ DataInv' /\ gp' = gp
         /\ \A k \in Target : lt'[k].mem = lt[k].mem
         /\ \A n \in Initiator : /\ lti'[n].pc = lti[n].pc /\ lti'[n].kind = lti[n].kind
                                 /\ lti'[n].delay = lti[n].delay /\ lti'[n].keeper = lti[n].keeper
<1>1. pool' = pool /\ fifo' = fifo /\ gp' = gp /\ fatal' = fatal /\ tg' = tg
  BY DEF toggle_dmi_method
<1>2. PICK shape \in LtShape : lt' = [lt EXCEPT ![m] = shape] /\ shape.mem = lt[m].mem
  <2>1. PICK s \in LtShape : s = lt[m]
    BY DEF DataInv, Types
  <2>2. PICK c \in Nat : c = s.toggle_count + 1
    BY DEF LtShape
  <2>2a. PICK e \in BOOLEAN : e = (~s.dmi_enabled /\ c < MaxDmiToggleCount)
    BY Zenon
  <2>3. lt' = [lt EXCEPT ![m] = [s EXCEPT !.toggle_count = c, !.dmi_enabled = e]]
    BY <2>1, <2>2, <2>2a, Zenon DEF toggle_dmi_method, Toggled
  <2>4. [s EXCEPT !.toggle_count = c, !.dmi_enabled = e] \in LtShape
    BY Zenon DEF LtShape
  <2>5. [s EXCEPT !.toggle_count = c, !.dmi_enabled = e].mem = s.mem
    BY DEF LtShape
  <2> QED BY <2>1, <2>3, <2>4, <2>5, Zenon
<1>3. lt' \in [Target -> LtShape] /\ \A k \in Target : lt'[k].mem = lt[k].mem
  BY <1>2 DEF DataInv, Types
<1>4. /\ lti' \in [Initiator -> LtiShape]
      /\ \A n \in Initiator : /\ lti'[n].pc = lti[n].pc /\ lti'[n].txn = lti[n].txn
                              /\ lti'[n].kind = lti[n].kind /\ lti'[n].delay = lti[n].delay
                              /\ lti'[n].keeper = lti[n].keeper
  <2>1. ASSUME NEW s \in LtiShape, NEW low, NEW high
        PROVE  LET r == [s EXCEPT !.dmi = InvalidateDmiPtr(@, low, high)] IN
               /\ r \in LtiShape /\ r.pc = s.pc /\ r.txn = s.txn
               /\ r.kind = s.kind /\ r.delay = s.delay /\ r.keeper = s.keeper
    <3>1. PICK region \in RegionShape : region = InvalidateDmiPtr(s.dmi, low, high)
      BY InvalidatedShape DEF LtiShape
    <3> QED BY <3>1 DEF LtiShape
  <2>2. lti \in [Initiator -> LtiShape]
    BY DEF DataInv, Types
  <2>3. CASE lti' = lti
    BY <2>2, <2>3
  <2>4. CASE lti' = InvalidateDirectMemPtr(m)
    <3>1. PICK ok, low, high : /\ ok = LimitRange(m, 0, MemorySize).ok
                               /\ low = LimitRange(m, 0, MemorySize).low
                               /\ high = LimitRange(m, 0, MemorySize).high
      OBVIOUS
    <3>2. lti' = [n \in Initiator |->
                   IF ok /\ lti[n].kind = "dmi"
                     THEN [lti[n] EXCEPT !.dmi = InvalidateDmiPtr(@, low, high)]
                     ELSE lti[n]]
      BY <2>4, <3>1 DEF InvalidateDirectMemPtr
    <3>3. \A n \in Initiator : lti[n] \in LtiShape /\ lti'[n] \in {lti[n], [lti[n] EXCEPT !.dmi = InvalidateDmiPtr(@, low, high)]}
      BY <2>2, <3>2
    <3>4. ASSUME NEW n \in Initiator
          PROVE /\ lti'[n] \in LtiShape /\ lti'[n].pc = lti[n].pc /\ lti'[n].txn = lti[n].txn
                /\ lti'[n].kind = lti[n].kind /\ lti'[n].delay = lti[n].delay
                /\ lti'[n].keeper = lti[n].keeper
      <4>1. PICK s \in LtiShape : s = lti[n]
        BY <3>3
      <4>2. lti'[n] = s \/ lti'[n] = [s EXCEPT !.dmi = InvalidateDmiPtr(@, low, high)]
        BY <3>3, <4>1
      <4>3. PICK other : other = [s EXCEPT !.dmi = InvalidateDmiPtr(@, low, high)]
        OBVIOUS
      <4>4. other \in LtiShape /\ other.pc = s.pc /\ other.txn = s.txn /\ other.kind = s.kind /\ other.delay = s.delay /\ other.keeper = s.keeper
        BY <2>1, <4>3
      <4>5. lti'[n] = s \/ lti'[n] = other
        BY <4>2, <4>3
      <4> QED BY <4>1, <4>4, <4>5
    <3> QED BY <3>2, <3>4
  <2> QED BY <2>3, <2>4 DEF toggle_dmi_method
<1>5. fatal' \in BOOLEAN /\ now' \in Nat /\ spent' \in [Initiator -> Nat]
  BY <1>1 DEF DataInv, Types
<1>6. DataInv'
  BY <1>1, <1>3, <1>4, <1>5, StillData
<1> QED BY <1>1, <1>3, <1>4, <1>6

\* The time of a transaction.
LEMMA SpentType ==
  ASSUME DataInv, NEW n \in Initiator,
         spent' = IF At(n, "request") THEN [spent EXCEPT ![n] = @ + Cost(n)] ELSE spent
  PROVE  spent' \in [Initiator -> Nat]
<1>1. Cost(n) \in Nat
  <2>1. OperationDelay(lti[n].txn) \in Nat /\ AcceptDelay \in Nat
    BY MemoryAssumption, LtDelayAssumption DEF OperationDelay
  <2> QED BY <2>1 DEF Cost
<1>2. spent \in [Initiator -> Nat]
  BY DEF DataInv, Types
<1>3. spent[n] + Cost(n) \in Nat
  BY <1>1, <1>2
<1> QED BY <1>2, <1>3

-----------------------------------------------------------------------------
(* What the steps of an initiator do to its place in the thread and its time *)

\* The time of a transaction.
LEMMA CostType ==
  ASSUME NEW n
  PROVE  Cost(n) \in Nat /\ Cost(n) <= AcceptDelay + ReadDelay + WriteDelay
<1>1. AcceptDelay \in Nat /\ ReadDelay \in Nat /\ WriteDelay \in Nat
  BY LtDelayAssumption, MemoryAssumption
<1>2. OperationDelay(lti[n].txn) \in {ReadDelay, WriteDelay}
  BY Zenon DEF OperationDelay
<1> QED BY <1>1, <1>2 DEF Cost

\* The call of b_transport adds the transaction's cost to its delay.
LEMMA TransportCost ==
  ASSUME DataInv, NEW n \in Initiator, Transport(n)
  PROVE  TransportTime(lti[n].txn) = Cost(n)
<1>1. PICK tx : tx = lti[n].txn
  OBVIOUS
<1>2. gp[tx].addr \in Addresses
  BY <1>1, RequestFacts, Zenon DEF Transport, At
<1>3. AddressOK(tx)
  BY <1>2, AddressFacts DEF AddressOK
<1>4. OperationDelay(tx) \in Nat /\ AcceptDelay \in Nat
  BY LtDelayAssumption, MemoryAssumption DEF OperationDelay
<1> QED BY <1>1, <1>3, <1>4 DEF TransportTime, OperationTime, Cost, Transport

\* A payload that comes back was served.
LEMMA ServedIsOK ==
  ASSUME DataInv, NEW n \in Initiator, lti[n].pc \notin {"get", "request"}
  PROVE  gp[lti[n].txn].status = "OK"
<1>1. PICK tx : tx = lti[n].txn
  OBVIOUS
<1>2. Away(n) = {tx} /\ Accounted(n, Away(n), Held(n))
  BY <1>1 DEF DataInv, Data, Away
<1>3. tx \in Held(n) /\ tx \notin Putting(n) \union Requested(n)
  BY <1>2 DEF Accounted
<1>4. tx \notin Unserved(n)
  BY <1>3 DEF Unserved
<1> QED BY <1>1, <1>3, <1>4 DEF DataInv, Data, Carries

\* Initiator n's thread goes from s to s2: its place, its delay and its keeper.
Moves(n, s, s2) ==
  \/ ReceiveBlocks(n) /\ s.pc = "get" /\ s2 = s
  \/ /\ Receive(n) /\ s.pc = "get" /\ s2.pc = "request"
     /\ s2.delay = s.keeper.local /\ s2.keeper = s.keeper
  \/ /\ Transport(n) /\ s.pc = "request" /\ s2.pc \in {"inside", "returned"}
     /\ s2.delay = s.delay + Cost(n) /\ s2.keeper = s.keeper
     /\ simc' = IF s2.pc = "inside" THEN WaitTime(simc, Ini(n), s2.delay) ELSE simc
  \/ /\ SynchReturn(n) /\ s.pc = "inside" /\ s2.pc = "returned"
     /\ s2.delay = 0 /\ s2.keeper = s.keeper /\ simc' = simc
  \/ /\ ReturnedWaits(n) /\ s.pc = "returned" /\ s.kind # "td" /\ s2.delay = s.delay
     /\ s2.pc = IF s.kind = "dmi" THEN "ask" ELSE "respond"
     /\ s2.keeper = s.keeper /\ simc' = WaitTime(simc, Ini(n), s.delay)
  \/ /\ ReturnedDecoupled(n) /\ s.pc = "returned" /\ s.kind = "td" /\ s2.delay = s.delay
     /\ s2.keeper.local = s.delay /\ s2.keeper.next = s.keeper.next
     /\ \/ s2.pc = "sync" /\ simc' = WaitTime(simc, Ini(n), s.delay)
        \/ s2.pc = "respond" /\ simc' = simc /\ ~(now + s.delay >= s.keeper.next)
  \/ /\ Synced(n) /\ s.pc = "sync" /\ s2.pc = "respond" /\ s2.delay = s.delay
     /\ s2.keeper.local = 0 /\ s2.keeper.next = now + LocalQuantum(now) /\ simc' = simc
  \/ /\ AskDmi(n) /\ s.pc = "ask" /\ s2.pc = "respond" /\ s2.delay = s.delay
     /\ s2.keeper = s.keeper /\ simc' = simc
  \/ /\ DmiOperation(n) /\ s.pc = "request" /\ s2.pc = "respond" /\ s2.delay = s.delay
     /\ s2.keeper = s.keeper /\ s.kind = "dmi"
     /\ simc' = WaitTime(simc, Ini(n), s.delay + Cost(n))
  \/ RespondBlocks(n) /\ s.pc = "respond" /\ s2 = s
  \/ /\ Respond(n) /\ s.pc = "respond" /\ s2.pc = "get" /\ s2.delay = 0
     /\ s2.keeper = s.keeper

\* Every step of an initiator is one of these.
LEMMA InitiatorSteps ==
  ASSUME DataInv, NEW n \in Initiator, LtiStep(n),
         NEW s \in LtiShape, s = lti[n], NEW s2, s2 = lti'[n]
  PROVE  /\ lti' = [lti EXCEPT ![n] = s2] /\ s2.kind = s.kind /\ Executing(Ini(n)) /\ Moves(n, s, s2)
<1>0. lti \in [Initiator -> LtiShape]
  BY DEF DataInv, Types
<1>00. s.pc \notin {"get", "request"} => gp[s.txn].status = "OK"
  BY ServedIsOK
<1>000. [lti EXCEPT ![n] = s] = lti
  BY <1>0
<1>1. CASE ReceiveBlocks(n)
  BY <1>0, <1>000, <1>1 DEF ReceiveBlocks, At, Moves
<1>2. CASE Receive(n)
  <2>1. PICK tx : tx = Head(fifo[Req(n)].items)
    OBVIOUS
  <2>2. lti' = [lti EXCEPT ![n] = [s EXCEPT !.pc = "request", !.txn = tx, !.delay = s.keeper.local]]
    BY <1>2, <2>1 DEF Receive, SetLti
  <2>3. s2 = [s EXCEPT !.pc = "request", !.txn = tx, !.delay = s.keeper.local]
    BY <1>0, <2>2
  <2> QED BY <1>2, <2>2, <2>3, Zenon DEF Receive, At, LtiShape, Moves
<1>3. CASE Transport(n)
  <2>1. PICK delay, pc, allowed, port, dmi :
          /\ delay = s.delay + TransportTime(s.txn)
          /\ pc = IF lt[Decode(s.txn)].kind = "synch" THEN "inside" ELSE "returned"
          /\ lti' = [lti EXCEPT ![n] = [s EXCEPT !.pc = pc, !.delay = delay, !.dmi_allowed = allowed,
                                                 !.port = port, !.dmi = dmi]]
          /\ simc' = IF lt[Decode(s.txn)].kind = "synch" THEN WaitTime(simc, Ini(n), delay) ELSE simc
    BY <1>3, Zenon DEF Transport, SetLti
  <2>2. s2 = [s EXCEPT !.pc = pc, !.delay = delay, !.dmi_allowed = allowed, !.port = port, !.dmi = dmi]
    BY <1>0, <2>1
  <2>3. s2.pc = pc /\ s2.delay = delay /\ s2.keeper = s.keeper /\ s2.kind = s.kind
    BY <2>2 DEF LtiShape
  <2>4. delay = s.delay + Cost(n)
    BY <1>3, <2>1, TransportCost
  <2>5. simc' = IF pc = "inside" THEN WaitTime(simc, Ini(n), delay) ELSE simc
    BY <2>1
  <2>6. pc \in {"inside", "returned"}
    BY <2>1
  <2> QED BY <1>3, <2>1, <2>2, <2>3, <2>4, <2>5, <2>6, Zenon DEF Transport, At, Moves
<1>4. CASE SynchReturn(n)
  <2>1. lti' = [lti EXCEPT ![n] = [s EXCEPT !.pc = "returned", !.delay = 0]]
    BY <1>4 DEF SynchReturn, SetLti
  <2>2. s2 = [s EXCEPT !.pc = "returned", !.delay = 0]
    BY <1>0, <2>1
  <2> QED BY <1>4, <2>1, <2>2, Zenon DEF SynchReturn, At, LtiShape, shared, Moves
<1>5. CASE ReturnedWaits(n)
  <2>1. PICK pc : pc = IF s.kind = "dmi" THEN "ask" ELSE "respond"
    OBVIOUS
  <2>2. lti' = [lti EXCEPT ![n] = [s EXCEPT !.pc = pc]]
    BY <1>5, <2>1 DEF ReturnedWaits, SetLti
  <2>3. s2 = [s EXCEPT !.pc = pc]
    BY <1>0, <2>2
  <2>4. s2.pc = pc /\ s2.keeper = s.keeper /\ s2.delay = s.delay /\ s2.kind = s.kind
    BY <2>3 DEF LtiShape
  <2>5. simc' = WaitTime(simc, Ini(n), s.delay) /\ Executing(Ini(n)) /\ s.pc = "returned" /\ s.kind # "td"
    BY <1>00, <1>5 DEF ReturnedWaits, Succeeded, At
  <2> QED BY <1>5, <2>1, <2>2, <2>3, <2>4, <2>5, Zenon DEF Moves
<1>6. CASE ReturnedDecoupled(n)
  <2>1. Succeeded(n) /\ Executing(Ini(n)) /\ s.pc = "returned" /\ s.kind = "td"
    BY <1>00, <1>6 DEF ReturnedDecoupled, Succeeded, At
  <2>2. PICK keeper, pc : /\ keeper = [s.keeper EXCEPT !.local = s.delay]
                          /\ pc = IF NeedSync(keeper, now) THEN "sync" ELSE "respond"
    BY Zenon
  <2>3. /\ lti' = [lti EXCEPT ![n] = [s EXCEPT !.keeper = keeper, !.pc = pc]]
        /\ simc' = IF NeedSync(keeper, now) THEN WaitTime(simc, Ini(n), keeper.local) ELSE simc
    BY <1>6, <2>1, <2>2 DEF ReturnedDecoupled, SetLti
  <2>4. s2 = [s EXCEPT !.keeper = keeper, !.pc = pc]
    BY <1>0, <2>3
  <2>5. s2.pc = pc /\ s2.keeper = keeper /\ s2.delay = s.delay /\ s2.kind = s.kind
    BY <2>4 DEF LtiShape
  <2>6. keeper.local = s.delay /\ keeper.next = s.keeper.next
    BY <2>2 DEF LtiShape
  <2>7. \/ pc = "sync" /\ simc' = WaitTime(simc, Ini(n), s.delay)
        \/ pc = "respond" /\ simc' = simc /\ ~(now + s.delay >= s.keeper.next)
    BY <2>2, <2>3, <2>6 DEF NeedSync
  <2> QED BY <1>6, <2>1, <2>3, <2>4, <2>5, <2>6, <2>7, Zenon DEF Moves
<1>7. CASE Synced(n)
  <2>1. lti' = [lti EXCEPT ![n] = [s EXCEPT !.pc = "respond", !.keeper = Reset(s.keeper, now)]]
    BY <1>7 DEF Synced, SetLti
  <2>2. s2 = [s EXCEPT !.pc = "respond", !.keeper = Reset(s.keeper, now)]
    BY <1>0, <2>1
  <2>3. s2.pc = "respond" /\ s2.keeper = Reset(s.keeper, now) /\ s2.delay = s.delay /\ s2.kind = s.kind
    BY <2>2 DEF LtiShape
  <2>4. s2.keeper.local = 0 /\ s2.keeper.next = now + LocalQuantum(now)
    BY <2>3 DEF Reset
  <2> QED BY <1>7, <2>1, <2>2, <2>3, <2>4, Zenon DEF Synced, At, shared, Moves
<1>8. CASE AskDmi(n)
  <2>1. PICK dmi : lti' = [lti EXCEPT ![n] = [s EXCEPT !.pc = "respond", !.dmi = dmi]]
    BY <1>8, Zenon DEF AskDmi, SetLti
  <2>2. s2 = [s EXCEPT !.pc = "respond", !.dmi = dmi]
    BY <1>0, <2>1
  <2> QED BY <1>8, <2>1, <2>2, Zenon DEF AskDmi, At, LtiShape, Moves
<1>9. CASE DmiOperation(n)
  <2>1. PICK dmi : lti' = [lti EXCEPT ![n] = [s EXCEPT !.pc = "respond", !.dmi = dmi]]
    BY <1>9, Zenon DEF DmiOperation, SetLti
  <2>2. s2 = [s EXCEPT !.pc = "respond", !.dmi = dmi]
    BY <1>0, <2>1
  <2>3. OperationDelay(s.txn) \in Nat
    BY MemoryAssumption, Zenon DEF OperationDelay
  <2>4. Cost(n) = OperationDelay(s.txn)
    BY <1>9, <2>3 DEF Cost, DmiOperation
  <2>5. simc' = WaitTime(simc, Ini(n), s.delay + Cost(n))
    BY <1>9, <2>4 DEF DmiOperation
  <2> QED BY <1>9, <2>1, <2>2, <2>5, Zenon DEF DmiOperation, At, LtiShape, HasDmi, Moves
<1>10. CASE RespondBlocks(n)
  BY <1>0, <1>000, <1>10 DEF RespondBlocks, At, Moves
<1>11. CASE Respond(n)
  <2>1. lti' = [lti EXCEPT ![n] = [s EXCEPT !.pc = "get", !.txn = NoTxn, !.delay = 0]]
    BY <1>11 DEF Respond, SetLti
  <2>2. s2 = [s EXCEPT !.pc = "get", !.txn = NoTxn, !.delay = 0]
    BY <1>0, <2>1
  <2> QED BY <1>11, <2>1, <2>2, Zenon DEF Respond, At, LtiShape, Moves
<1> QED BY <1>1, <1>2, <1>3, <1>4, <1>5, <1>6, <1>7, <1>8, <1>9, <1>10, <1>11 DEF LtiStep

\* An initiator's steps keep the payloads in their places.
LEMMA InitiatorData ==
  ASSUME DataInv, NEW n \in Initiator, LtiStep(n), tg' = tg, now' = now, spent' \in [Initiator -> Nat]
  PROVE  DataInv'
<1>1. CASE Receive(n)
  BY <1>1, ReceiveData
<1>2. CASE Respond(n)
  BY <1>2, RespondData
<1>3. CASE Transport(n)
  <2>1. PICK tx, m : tx = lti[n].txn /\ m = PortOf(tg[n].pass)
    OBVIOUS
  <2>2. /\ CarriedOut(tx, m) /\ lt' \in [Target -> LtShape] /\ fatal' \in BOOLEAN
        /\ \E s2 \in LtiShape : lti' = [lti EXCEPT ![n] = s2] /\ s2.txn = tx /\ s2.pc \in {"inside", "returned"}
    BY <1>3, <2>1, TransportServes
  <2>3. PICK s2 \in LtiShape : lti' = [lti EXCEPT ![n] = s2] /\ s2.txn = tx /\ s2.pc \in {"inside", "returned"}
    BY <2>2, Zenon
  <2>4. pool' = pool /\ fifo' = fifo /\ lti[n].pc = "request"
    BY <1>3 DEF Transport, At
  <2> QED BY <2>1, <2>2, <2>3, <2>4, ServedData, Zenon
<1>4. CASE DmiOperation(n)
  <2>1. PICK tx, m : tx = lti[n].txn /\ m = PortOf(tg[n].pass)
    OBVIOUS
  <2>2. /\ CarriedOut(tx, m) /\ lt' \in [Target -> LtShape]
        /\ \E s2 \in LtiShape : lti' = [lti EXCEPT ![n] = s2] /\ s2.txn = tx /\ s2.pc = "respond"
    BY <1>4, <2>1, DmiServes
  <2>3. PICK s2 \in LtiShape : lti' = [lti EXCEPT ![n] = s2] /\ s2.txn = tx /\ s2.pc = "respond"
    BY <2>2, Zenon
  <2>4. pool' = pool /\ fifo' = fifo /\ fatal' \in BOOLEAN /\ lti[n].pc = "request"
    BY <1>4 DEF DmiOperation, At, DataInv, Types
  <2> QED BY <2>1, <2>2, <2>3, <2>4, ServedData, Zenon
<1>5. CASE SynchReturn(n) \/ ReturnedWaits(n) \/ ReturnedDecoupled(n) \/ Synced(n) \/ AskDmi(n)
  BY <1>5, MiddleData
<1>6. CASE ReceiveBlocks(n) \/ RespondBlocks(n)
  <2>1. /\ tg' = tg /\ pool' = pool /\ fifo' = fifo /\ gp' = gp /\ fatal' = fatal /\ lt' = lt
        /\ lti' = lti
    BY <1>6 DEF ReceiveBlocks, RespondBlocks
  <2>2. fatal' \in BOOLEAN /\ now' \in Nat /\ lt' \in [Target -> LtShape] /\ lti' \in [Initiator -> LtiShape]
    BY <2>1 DEF DataInv, Types
  <2> QED BY <2>1, <2>2, StillData
<1> QED BY <1>1, <1>2, <1>3, <1>4, <1>5, <1>6 DEF LtiStep

\* A generator's steps keep them too.
LEMMA TgData ==
  ASSUME DataInv, NEW n \in Initiator, TgStep(n), UNCHANGED <<lti, lt, now, spent>>
  PROVE  DataInv'
<1>1. PICK tx : tx = Head(pool[n])
  OBVIOUS
<1>2. PICK ty : ty = Head(fifo[RspCh(n)].items)
  OBVIOUS
<1>3. CASE Issue(n)
  BY <1>1, <1>3, IssueData
<1>4. CASE Get(n)
  BY <1>2, <1>4, GetData
<1>5. CASE ~Issue(n) /\ ~Get(n)
  BY <1>5, GeneratorData
<1> QED BY <1>3, <1>4, <1>5

\* At the start all payloads are free and all memories are zero.
LEMMA DataInit ==
  ASSUME Init
  PROVE  DataInv /\ now = 0 /\ (\A tx \in Txn : gp[tx].rc = 0) /\ (\A m \in Target : lt[m].mem = ZeroMemory)
         /\ \A n \in Initiator : /\ spent[n] = 0 /\ lti[n].pc = "get" /\ lti[n].delay = 0
                                 /\ lti[n].keeper = [local |-> 0, next |-> 0]
<1>1. PICK p, ready : /\ p \in Platforms /\ LtInit(p.targets) /\ LtiInit(p.initiators) /\ TgInit
                      /\ SharedInit(ready) /\ spent = [n \in Initiator |-> 0]
  BY DEF Init
<1>2. Shapes /\ \A n \in Initiator : Accounted(n, {}, {}) /\ Range(pool[n]) = Payloads(n)
  BY <1>1, AccountedInit
<1>3. \A tx \in Txn : gp[tx] = EmptyPayload
  BY <1>1 DEF SharedInit
<1>4. EmptyPayload \in GpShape /\ EmptyPayload.rc = 0
  <2>1. 0 \in Target /\ 0 \in 0..NI*TxnsPerPass /\ 0 \in Word /\ 0 \in 0..1
    BY AddressFacts DEF Word
  <2> QED BY <2>1 DEF EmptyPayload, GpShape
<1>5. gp \in [Txn -> GpShape] /\ \A tx \in Txn : gp[tx].rc = 0
  <2>1. gp = [tx \in Txn |-> EmptyPayload]
    BY <1>1 DEF SharedInit
  <2> QED BY <1>3, <1>4, <2>1
<1>6. lt \in [Target -> LtShape] /\ \A m \in Target : lt[m].mem = ZeroMemory
  <2>1. p.targets \in [Target -> {"lt", "synch", "dmi"}]
    BY <1>1, PlatformAssumption
  <2>2. ZeroMemory \in [1..MemorySize -> Word]
    BY AddressFacts DEF ZeroMemory, Word
  <2>3. lt = [m \in Target |-> [kind |-> p.targets[m], mem |-> ZeroMemory,
                                dmi_enabled |-> p.targets[m] = "dmi", toggle_count |-> 0]]
    BY <1>1 DEF LtInit
  <2> QED BY <2>1, <2>2, <2>3 DEF LtShape
<1>7. /\ lti \in [Initiator -> LtiShape]
      /\ \A n \in Initiator : /\ lti[n].pc = "get" /\ lti[n].delay = 0
                              /\ lti[n].keeper = [local |-> 0, next |-> 0]
  <2>1. p.initiators \in [Initiator -> {"lt", "td", "dmi"}]
    BY <1>1, PlatformAssumption
  <2>2. NoRegion \in RegionShape
    <3>1. 0 \in {AddressOffset(m) : m \in Target}
      <4>1. AddressOffset(0) = 0
        BY AddressFacts DEF AddressOffset
      <4> QED BY <4>1, AddressFacts
    <3>2. -1 \in -1..NT-1
      BY SizesAssumption
    <3>3. PICK r : r = NoRegion
      OBVIOUS
    <3>4. /\ r \in [ptr : -1..NT-1, base : {AddressOffset(m) : m \in Target}, size : {0, MemorySize},
                    start : Nat, end : Nat]
          /\ r.size = 0
      BY <3>1, <3>2, <3>3 DEF NoRegion
    <3> QED BY <3>3, <3>4 DEF RegionShape
  <2>3. NewKeeper \in [local : Nat, next : Nat] /\ NewKeeper = [local |-> 0, next |-> 0]
    BY DEF NewKeeper
  <2>4. 0 \in Target
    BY AddressFacts
  <2>5. lti = [n \in Initiator |->
                [kind |-> p.initiators[n], pc |-> "get", txn |-> NoTxn, delay |-> 0, dmi_allowed |-> FALSE,
                 port |-> 0, keeper |-> NewKeeper, dmi |-> NoRegion]]
    BY <1>1 DEF LtiInit
  <2>6. ASSUME NEW n \in Initiator
        PROVE  lti[n] \in LtiShape /\ lti[n].pc = "get" /\ lti[n].delay = 0 /\ lti[n].keeper = NewKeeper
    <3>1. PICK kind \in {"lt", "td", "dmi"} : kind = p.initiators[n]
      BY <2>1
    <3> QED BY <2>2, <2>3, <2>4, <2>5, <3>1 DEF LtiShape
  <2> QED BY <2>3, <2>5, <2>6
<1>8. now = 0 /\ fatal = FALSE /\ spent \in [Initiator -> Nat] /\ \A n \in Initiator : spent[n] = 0
  BY <1>1 DEF LtiInit, SharedInit
<1>9. ASSUME NEW n \in Initiator PROVE Data(n)
  <2>1. Held(n) = {} /\ Away(n) = {}
    BY <1>5, <1>7 DEF Held, Away, Payloads, Txn
  <2> QED BY <1>2, <2>1 DEF Data
<1> QED BY <1>2, <1>5, <1>6, <1>7, <1>8, <1>9, Zenon DEF DataInv, Types

-----------------------------------------------------------------------------
(* Bounds on the delays, and the kernel's record *)

\* The next multiple of the quantum is later than now, by a quantum at most.
LEMMA QuantumFacts ==
  ASSUME NEW t \in Nat
  PROVE  /\ LocalQuantum(t) \in 1..Quantum /\ t \div Quantum \in Nat
         /\ (t \div Quantum) * Quantum <= t /\ t < (t \div Quantum + 1) * Quantum
         /\ t + LocalQuantum(t) = (t \div Quantum + 1) * Quantum
<1>1. PICK q \in Nat \ {0} : q = Quantum
  BY QuantumAssumption
<1>2. PICK k : k = t \div q
  OBVIOUS
<1>3. k \in Nat /\ k * q <= t /\ t < k * q + q
  BY <1>1, <1>2
<1>4. (k + 1) * q = k * q + q /\ k * q \in Int
  BY <1>1, <1>3
<1>5. /\ LocalQuantum(t) = k * q + q - t /\ t \div Quantum = k
      /\ (t \div Quantum) * Quantum = k * q /\ (t \div Quantum + 1) * Quantum = k * q + q
  BY <1>1, <1>2, <1>4 DEF LocalQuantum
<1> QED BY <1>1, <1>3, <1>4, <1>5

\* As time goes on the sync points do.
LEMMA QuantumMonotone ==
  ASSUME NEW t \in Nat, NEW u \in Nat, t <= u
  PROVE  t + LocalQuantum(t) <= u + LocalQuantum(u)
<1>1. PICK q \in Nat \ {0} : q = Quantum
  BY QuantumAssumption
<1>2. PICK k \in Nat, l \in Nat : k = t \div q /\ l = u \div q
  BY <1>1, QuantumFacts, Zenon
<1>3. k * q <= t /\ u < (l + 1) * q
  BY <1>1, <1>2, QuantumFacts
<1>4. k < l + 1
  <2> SUFFICES ASSUME k >= l + 1 PROVE FALSE
    OBVIOUS
  <2>1. (l + 1) * q \in Int /\ k * q \in Int /\ k * q >= (l + 1) * q
    BY <1>1
  <2> QED BY <1>3, <2>1
<1>5. (k + 1) * q <= (l + 1) * q
  <2>1. k + 1 <= l + 1 /\ k + 1 \in Nat /\ l + 1 \in Nat
    BY <1>4
  <2> QED BY <1>1, <2>1
<1> QED BY <1>1, <1>2, <1>5, QuantumFacts, Zenon

LongestWait == LongestCall + StartDmiDelay + DmiDuration

\* What an initiator is ahead of time, and the delay of its call, are bounded by
\* the quantum and one call; its sync point is no later than the next multiple of
\* the quantum.
Bounds(n) ==
  LET s == lti[n] IN
  /\ s.kind # "td" => s.keeper.local = 0
  /\ s.pc # "sync" => s.keeper.local < Quantum
  /\ s.keeper.local <= LongestCall /\ s.delay <= LongestCall
  /\ s.pc = "request" => s.delay = s.keeper.local
  /\ s.keeper.next <= now + LocalQuantum(now)

Core == DataInv /\ KernelInv(LongestWait, simc) /\ \A n \in Initiator : Bounds(n)

\* The constants are numbers.
LEMMA WaitFacts ==
  /\ LongestWait \in Nat /\ LongestCall \in Nat /\ LongestCall <= LongestWait
  /\ StartDmiDelay \in 0..LongestWait /\ DmiDuration \in 0..LongestWait
  /\ Quantum \in Nat \ {0} /\ LongestCall = Quantum + (AcceptDelay + ReadDelay + WriteDelay)
  /\ AcceptDelay + ReadDelay + WriteDelay \in Nat
<1>1. /\ AcceptDelay \in Nat /\ ReadDelay \in Nat /\ WriteDelay \in Nat
      /\ StartDmiDelay \in Nat /\ DmiDuration \in Nat /\ Quantum \in Nat \ {0}
  BY LtDelayAssumption, MemoryAssumption, QuantumAssumption
<1> QED BY <1>1 DEF LongestWait, LongestCall

\* The delays stay within their bounds.
LEMMA BoundsStep ==
  ASSUME Core, DataInv', NEW n \in Initiator, LtiStep(n), now' = now, NEW m \in Initiator
  PROVE  Bounds(m)'
<1>1. PICK s \in LtiShape, s2 \in {lti'[n]} : s = lti[n] /\ s2 = lti'[n]
  BY DEF Core, DataInv, Types
<1>2. lti' = [lti EXCEPT ![n] = s2] /\ s2 \in LtiShape /\ lti \in [Initiator -> LtiShape] /\ DataInv /\ Bounds(n)
  BY <1>1, InitiatorSteps DEF Core, DataInv, Types
<1>3. CASE m # n
  <2>1. lti'[m] = lti[m] /\ Bounds(m)
    BY <1>2, <1>3 DEF Core
  <2> QED BY <2>1 DEF Bounds
<1>4. CASE m = n
  <2>1. PICK c \in Nat, call \in Nat : c = Cost(n) /\ c <= call /\ LongestCall = Quantum + call
    BY CostType, WaitFacts
  <2>2. PICK lq \in 1..Quantum : lq = LocalQuantum(now)
    BY <1>2, QuantumFacts DEF DataInv, Types
  <2>3. /\ Quantum \in Nat \ {0} /\ now \in Nat /\ s.keeper.local \in Nat /\ s.keeper.next \in Nat
        /\ s.delay \in Nat
    BY <1>2, WaitFacts DEF DataInv, Types, LtiShape
  <2>4. /\ s.kind # "td" => s.keeper.local = 0
        /\ s.pc # "sync" => s.keeper.local < Quantum
        /\ s.keeper.local <= LongestCall /\ s.delay <= LongestCall
        /\ s.pc = "request" => s.delay = s.keeper.local
        /\ s.keeper.next <= now + lq
    BY <1>1, <1>2, <2>2 DEF Bounds
  <2>5. /\ s2.kind = s.kind
        /\ \/ s2 = s
           \/ s.pc = "get" /\ s2.pc = "request" /\ s2.delay = s.keeper.local /\ s2.keeper = s.keeper
           \/ /\ s.pc = "request" /\ s2.pc \in {"inside", "returned"}
              /\ s2.delay = s.delay + c /\ s2.keeper = s.keeper
           \/ s.pc # "sync" /\ s2.pc \notin {"request", "sync"} /\ s2.delay \in {0, s.delay} /\ s2.keeper = s.keeper
           \/ /\ s.kind = "td" /\ s2.delay = s.delay /\ s2.keeper.local = s.delay /\ s2.keeper.next = s.keeper.next
              /\ \/ s2.pc = "sync"
                 \/ s2.pc = "respond" /\ ~(now + s.delay >= s.keeper.next)
           \/ /\ s2.pc = "respond" /\ s2.delay = s.delay
              /\ s2.keeper.local = 0 /\ s2.keeper.next = now + lq
    <3>1. s2.kind = s.kind /\ Moves(n, s, s2)
      BY <1>1, <1>2, InitiatorSteps, Zenon
    <3> QED BY <2>1, <2>2, <3>1 DEF Moves
  <2>6. /\ s2.kind # "td" => s2.keeper.local = 0
        /\ s2.pc # "sync" => s2.keeper.local < Quantum
        /\ s2.keeper.local <= LongestCall /\ s2.delay <= LongestCall
        /\ s2.pc = "request" => s2.delay = s2.keeper.local
        /\ s2.keeper.next <= now + lq
    BY <2>1, <2>3, <2>4, <2>5
  <2> QED BY <1>1, <1>4, <2>2, <2>6 DEF Bounds
<1> QED BY <1>3, <1>4

\* A step of an initiator leaves the kernel's record in shape.
LEMMA InitiatorKernel ==
  ASSUME Core, NEW n \in Initiator, LtiStep(n)
  PROVE  KernelInv(LongestWait, simc')
<1>0. PICK b \in Nat : b = LongestWait
  BY WaitFacts
<1>1. PICK s \in LtiShape, s2 \in {lti'[n]} : s = lti[n] /\ s2 = lti'[n]
  BY DEF Core, DataInv, Types
<1>2. KernelInv(b, simc) /\ DataInv /\ Bounds(n)
  BY <1>0 DEF Core
<1>3. Ini(n) \in Thread /\ Req(n) \in Channel /\ Rsp(n) \in Channel
  BY ThreadFacts, ChannelFacts, Zenon DEF Ini, Req, Rsp, ReqCh, RspCh
<1>4. DataWritten(Req(n)) \in Event /\ DataRead(Rsp(n)) \in Event
  BY <1>3, EventFacts
<1>5. s.delay \in 0..b /\ (s.pc = "request" => s.delay + Cost(n) \in 0..b)
  <2>1. s.delay \in Nat /\ s.keeper.local \in Nat /\ Cost(n) \in Nat
    BY CostType DEF LtiShape
  <2> QED BY <1>0, <1>1, <1>2, <2>1, CostType, WaitFacts DEF Bounds
<1> HIDE DEF Thread, Channel, Event
<1>6. \/ simc' = simc
      \/ simc' = Wait(simc, Ini(n), DataWritten(Req(n)))
      \/ simc' = Wait(simc, Ini(n), DataRead(Rsp(n)))
      \/ simc' = RequestUpdate(simc, Req(n))
      \/ simc' = RequestUpdate(simc, Rsp(n))
      \/ simc' = WaitTime(simc, Ini(n), s.delay)
      \/ simc' = WaitTime(simc, Ini(n), s.delay + Cost(n)) /\ s.pc = "request"
  <2>1. Moves(n, s, s2)
    BY <1>1, <1>2, InitiatorSteps
  <2> QED BY <2>1 DEF Moves, ReceiveBlocks, Receive, RespondBlocks, Respond
<1>7. CASE simc' = Wait(simc, Ini(n), DataWritten(Req(n)))
  BY <1>0, <1>2, <1>3, <1>4, <1>7, WaitOK
<1>8. CASE simc' = Wait(simc, Ini(n), DataRead(Rsp(n)))
  BY <1>0, <1>2, <1>3, <1>4, <1>8, WaitOK
<1>9. CASE simc' = RequestUpdate(simc, Req(n)) \/ simc' = RequestUpdate(simc, Rsp(n))
  BY <1>0, <1>2, <1>3, <1>9, RequestUpdateOK
<1>10. CASE simc' = WaitTime(simc, Ini(n), s.delay)
  BY <1>0, <1>2, <1>3, <1>5, <1>10, WaitTimeOK, Zenon
<1>11. CASE simc' = WaitTime(simc, Ini(n), s.delay + Cost(n)) /\ s.pc = "request"
  BY <1>0, <1>2, <1>3, <1>5, <1>11, WaitTimeOK, Zenon
<1> QED BY <1>0, <1>2, <1>6, <1>7, <1>8, <1>9, <1>10, <1>11

\* So does toggle_dmi_method.
LEMMA ToggleKernel ==
  ASSUME NEW b \in Nat, KernelInv(b, simc), StartDmiDelay \in 0..b, DmiDuration \in 0..b,
         NEW m \in Target, toggle_dmi_method(m)
  PROVE  KernelInv(b, simc')
<1>1. ToggleDmi(m) \in Process
  BY MapAssumption DEF Process, Method
<1>2. Timeout[ToggleDmi(m)] \in Event
  BY <1>1, EventFacts
<1> HIDE DEF Process, Event, Timeout
<1>3. \/ simc' = Yield(simc)
      \/ \E t \in {StartDmiDelay, DmiDuration} : simc' = Yield(NextTriggerTime(simc, ToggleDmi(m), t))
  BY DEF toggle_dmi_method, ToggleReturns
<1>4. CASE simc' = Yield(simc)
  BY <1>4, YieldOK
<1>5. ASSUME NEW t \in {StartDmiDelay, DmiDuration}, simc' = Yield(NextTriggerTime(simc, ToggleDmi(m), t))
      PROVE  KernelInv(b, simc')
  <2>1. PICK k0 : k0 = Notify(simc, Timeout[ToggleDmi(m)], t)
    OBVIOUS
  <2>2. KernelInv(b, k0)
    <3>1. t \in 0..b
      BY <1>5
    <3> QED BY <1>2, <2>1, <3>1, NotifyOK, Zenon
  <2>3. PICK k1 : k1 = NextTrigger(k0, ToggleDmi(m), Timeout[ToggleDmi(m)])
    OBVIOUS
  <2>4. KernelInv(b, k1)
    BY <1>1, <1>2, <2>2, <2>3, NextTriggerOK
  <2>5. simc' = Yield(k1)
    BY <1>5, <2>1, <2>3 DEF NextTriggerTime
  <2> QED BY <2>4, <2>5, YieldOK
<1> QED BY <1>3, <1>4, <1>5

\* The processes of the first evaluation phase.
LEMMA ReadyLine ==
  ASSUME NEW p \in Platforms, NEW toggles \in Toggles(p.targets)
  PROVE  /\ toggles \o ThreadOrder \in Line(Process)
         /\ Range(toggles \o ThreadOrder) = Thread \union {ToggleDmi(m) : m \in {k \in Target : p.targets[k] = "dmi"}}
<1> DEFINE S == {ToggleDmi(m) : m \in {k \in Target : p.targets[k] = "dmi"}}
<1>1. S \subseteq Method /\ S \subseteq Process /\ Thread \subseteq Process
  BY MapAssumption DEF Method, Process
<1>2. IsFiniteSet(S)
  BY <1>1, EventsFinite, FS_Subset
<1>3. toggles \in SetToSeqs(S)
  BY DEF Toggles
<1>4. S \intersect Thread = {}
  <2>1. \A q \in S : q[1] = "toggle_dmi"
    BY DEF ToggleDmi
  <2>2. \A q \in Thread : q[1] # "toggle_dmi"
    BY ThreadFacts
  <2> QED BY <2>1, <2>2
<1>5. ThreadOrder \in Line(Thread) /\ Range(ThreadOrder) = Thread
  BY ThreadFacts
<1> HIDE DEF S, Thread, Process, ThreadOrder
<1>6. toggles \in Line(S) /\ Range(toggles) = S
  BY <1>2, <1>3, Enumerations
<1>7. toggles \o ThreadOrder \in Line(Process) /\ Range(toggles \o ThreadOrder) = Range(toggles) \union Range(ThreadOrder)
  <2>1. S \subseteq Process /\ Thread \subseteq Process /\ toggles \in Line(S) /\ ThreadOrder \in Line(Thread)
    BY <1>1, <1>5, <1>6
  <2>2. PICK A, B, C, u, v : A = S /\ B = Thread /\ C = Process /\ u = toggles /\ v = ThreadOrder
    BY Zenon
  <2>3. (\A e \in A : e \notin B) /\ A \subseteq C /\ B \subseteq C /\ u \in Line(A) /\ v \in Line(B)
    BY <1>4, <2>1, <2>2
  <2>4. u \o v \in Line(C) /\ Range(u \o v) = Range(u) \union Range(v)
    BY ONLY <2>3, LineAfterLine
  <2> QED BY <2>2, <2>4, Zenon
<1> QED BY <1>5, <1>6, <1>7 DEF S

\* The core holds when the simulation starts: the constructors' record is in shape and
\* nothing has been said to be due.
LEMMA CoreInit == Init => Core
<1> SUFFICES ASSUME Init PROVE Core
  OBVIOUS
<1>1. PICK p \in Platforms : \E toggles \in Toggles(p.targets) : SharedInit(toggles \o ThreadOrder)
  BY DEF Init
<1>2. PICK ready \in Line(Process) : SharedInit(ready)
  BY <1>1, ReadyLine
<1>3. KernelInv(LongestWait, simc)
  BY <1>2, InitKernelOK, WaitFacts DEF SharedInit
<1>4. ASSUME NEW n \in Initiator PROVE Bounds(n)
  <2>1. PICK lq \in 1..Quantum : lq = LocalQuantum(0)
    BY QuantumFacts
  <2> QED BY <2>1, DataInit, WaitFacts DEF Bounds
<1> QED BY <1>3, <1>4, DataInit DEF Core

\* The core is inductive.
LEMMA CoreNext == Core /\ [Next]_vars => Core'
<1> SUFFICES ASSUME Core, [Next]_vars PROVE Core'
  OBVIOUS
<1>0. PICK b \in Nat : b = LongestWait
  BY WaitFacts
<1>1. DataInv /\ KernelInv(b, simc) /\ Types /\ \A n \in Initiator : Bounds(n)
  BY <1>0 DEF Core, DataInv
<1>2. ASSUME lti' = lti, now' = now, NEW n \in Initiator PROVE Bounds(n)'
  BY <1>1, <1>2 DEF Bounds
<1>3. CASE UNCHANGED vars
  <2>1. /\ tg' = tg /\ pool' = pool /\ fifo' = fifo /\ gp' = gp /\ fatal' \in BOOLEAN /\ now' \in Nat
        /\ spent' \in [Initiator -> Nat] /\ lt' \in [Target -> LtShape] /\ lti' \in [Initiator -> LtiShape]
        /\ lti' = lti /\ now' = now /\ simc' = simc
    BY <1>1, <1>3 DEF vars, shared, Types
  <2>2. DataInv'
    BY <1>1, <2>1, StillData
  <2> QED BY <1>0, <1>1, <1>2, <2>1, <2>2 DEF Core
<1>4. CASE AdvanceTime /\ now' = now + NextTime(simc) /\ UNCHANGED <<tg, lti, lt, spent>>
  <2>1. now \in Nat
    BY <1>1 DEF Types
  <2>2. KernelInv(b, simc') /\ NextTime(simc) \in 1..b
    BY <1>1, <1>4, AdvanceTimeOK, Zenon
  <2>3. now' \in Nat /\ now <= now'
    BY <1>4, <2>1, <2>2
  <2>4. /\ tg' = tg /\ pool' = pool /\ fifo' = fifo /\ gp' = gp /\ fatal' \in BOOLEAN
        /\ spent' \in [Initiator -> Nat] /\ lt' \in [Target -> LtShape] /\ lti' \in [Initiator -> LtiShape]
        /\ lti' = lti
    BY <1>1, <1>4 DEF AdvanceTime, Types
  <2>5. DataInv'
    BY <1>1, <2>3, <2>4, StillData
  <2>6. ASSUME NEW n \in Initiator PROVE Bounds(n)'
    <3>1. PICK a \in Int, c \in Int : a = now + LocalQuantum(now) /\ c = now' + LocalQuantum(now')
      BY <2>1, <2>3, QuantumFacts
    <3>2. a <= c
      BY <2>1, <2>3, <3>1, QuantumMonotone
    <3>3. lti'[n] = lti[n] /\ lti[n].keeper.next \in Nat
      BY <1>1, <2>4 DEF Types, LtiShape
    <3>4. LocalQuantum(now)' = LocalQuantum(now')
      BY DEF LocalQuantum
    <3> QED BY <1>1, <3>1, <3>2, <3>3, <3>4 DEF Bounds
  <2> QED BY <1>0, <2>2, <2>5, <2>6 DEF Core
<1>5. CASE Dispatch /\ UNCHANGED <<tg, lti, lt, now, spent>>
  <2>1. /\ tg' = tg /\ pool' = pool /\ fifo' = fifo /\ gp' = gp /\ fatal' \in BOOLEAN /\ now' \in Nat
        /\ spent' \in [Initiator -> Nat] /\ lt' \in [Target -> LtShape] /\ lti' \in [Initiator -> LtiShape]
        /\ lti' = lti /\ now' = now
    BY <1>1, <1>5 DEF Dispatch, Types
  <2>2. DataInv'
    BY <1>1, <2>1, StillData
  <2>3. KernelInv(b, simc')
    BY <1>1, <1>5, RunOK DEF Dispatch
  <2> QED BY <1>0, <1>2, <2>1, <2>2, <2>3 DEF Core
<1>6. CASE DeltaCycle /\ UNCHANGED <<tg, lti, lt, now, spent>>
  <2>1. DataInv'
    BY <1>1, <1>6, DeltaData
  <2>2. KernelInv(b, simc')
    BY <1>1, <1>6, DeltaCycleOK
  <2> QED BY <1>0, <1>2, <1>6, <2>1, <2>2 DEF Core
<1>7. ASSUME NEW n \in Initiator, TgStep(n), UNCHANGED <<lti, lt, now, spent>> PROVE Core'
  <2>1. DataInv'
    BY <1>1, <1>7, TgData
  <2>2. KernelInv(b, simc')
    BY <1>1, <1>7, GeneratorKernel
  <2> QED BY <1>0, <1>2, <1>7, <2>1, <2>2 DEF Core
<1>8. ASSUME NEW n \in Initiator, LtiStep(n), UNCHANGED <<tg, now>>,
             spent' = IF At(n, "request") THEN [spent EXCEPT ![n] = @ + Cost(n)] ELSE spent
      PROVE  Core'
  <2>1. spent' \in [Initiator -> Nat]
    BY <1>1, <1>8, SpentType
  <2>2. DataInv'
    BY <1>1, <1>8, <2>1, InitiatorData
  <2>3. KernelInv(LongestWait, simc')
    BY <1>8, InitiatorKernel
  <2>4. \A m \in Initiator : Bounds(m)'
    BY <1>8, <2>2, BoundsStep
  <2> QED BY <2>2, <2>3, <2>4 DEF Core
<1>9. ASSUME NEW m \in Target, toggle_dmi_method(m), UNCHANGED <<tg, now, spent>> PROVE Core'
  <2>1. /\ DataInv'
        /\ \A n \in Initiator : /\ lti'[n].pc = lti[n].pc /\ lti'[n].kind = lti[n].kind
                                /\ lti'[n].delay = lti[n].delay /\ lti'[n].keeper = lti[n].keeper
    BY <1>1, <1>9, ToggleData
  <2>2. KernelInv(b, simc')
    BY <1>0, <1>1, <1>9, ToggleKernel, WaitFacts
  <2>3. ASSUME NEW n \in Initiator PROVE Bounds(n)'
    BY <1>1, <1>9, <2>1 DEF Bounds
  <2> QED BY <1>0, <2>1, <2>2, <2>3 DEF Core
<1> QED BY <1>3, <1>4, <1>5, <1>6, <1>7, <1>8, <1>9 DEF Next, Step

-----------------------------------------------------------------------------
(* The platform implements the memory service *)

\* What the refinement mapping makes of the memories and of the payloads.
Words == [m \in Target |-> lt[m].mem]
Requests == [tx \in Txn |-> Carried(tx)]

\* A payload that is free, or whose generator stays in its pass, carries what it carried.
LEMMA CarriedSame ==
  ASSUME NEW tx \in Txn, gp'[tx] = gp[tx], gp[tx].rc # 0 => tg'[Owner(tx)].pass = tg[Owner(tx)].pass
  PROVE  Carried(tx)' = Carried(tx)
BY DEF Carried

\* A step that changes one payload.
LEMMA RequestsChange ==
  ASSUME NEW tx \in Txn, gp' = [gp EXCEPT ![tx] = gp'[tx]], gp \in [Txn -> GpShape],
         \A u \in Txn : tg'[Owner(u)].pass = tg[Owner(u)].pass
  PROVE  Requests' = [Requests EXCEPT ![tx] = Carried(tx)']
<1>1. \A u \in Txn : u # tx => Carried(u)' = Carried(u)
  BY CarriedSame
<1> QED BY <1>1, Zenon DEF Requests

\* A step that changes neither payloads nor memories.
LEMMA ServiceStutters ==
  ASSUME Core, gp' = gp, \A m \in Target : lt'[m].mem = lt[m].mem,
         \A tx \in Txn : gp[tx].rc # 0 => tg'[Owner(tx)].pass = tg[Owner(tx)].pass
  PROVE  Words' = Words /\ Requests' = Requests
<1>1. \A tx \in Txn : Carried(tx)' = Carried(tx)
  BY CarriedSame
<1> QED BY <1>1 DEF Words, Requests

\* The generators' part: a free payload is issued, a served one accepted.
LEMMA GeneratorService ==
  ASSUME Core, NEW n \in Initiator, TgStep(n), UNCHANGED <<lti, lt, now, spent>>
  PROVE  \/ \E tx \in Txn : Memories!Issue(tx) \/ Memories!Accept(tx)
         \/ Words' = Words /\ Requests' = Requests
<1>1. DataInv /\ Types /\ Shapes /\ Words' = Words
  BY DEF Core, DataInv, Words
<1>2. CASE Issue(n)
  <2>1. PICK tx : tx = Head(pool[n])
    OBVIOUS
  <2>2. /\ DataInv' /\ tx \in Payloads(n) /\ tx \in Txn /\ gp[tx].rc = 0
        /\ gp' = [gp EXCEPT ![tx] = gp'[tx]]
        /\ gp'[tx].cmd \in {"read", "write"} /\ gp'[tx].addr \in Addresses
        /\ gp'[tx].data \in Word /\ gp'[tx].status = "incomplete" /\ gp'[tx].rc = 1
    BY <1>1, <1>2, <2>1, IssueData
  <2>3. PICK s \in TgShape : s = tg[n]
    BY <1>1 DEF Shapes
  <2>4. \A m \in Initiator : tg'[m].pass = tg[m].pass
    <3> DEFINE s2 == [s EXCEPT !.pc = "put", !.addr = @ + 1, !.active = @ + 1, !.txn = tx, !.sent = @ + 1]
    <3>1. tg' = [tg EXCEPT ![n] = s2]
      BY <1>2, <2>1, <2>3 DEF Issue, Set
    <3>2. s2.pass = s.pass
      BY DEF TgShape
    <3> HIDE DEF s2
    <3> QED BY <1>1, <2>3, <3>1, <3>2 DEF Shapes
  <2>5. \A u \in Txn : tg'[Owner(u)].pass = tg[Owner(u)].pass
    BY <2>4 DEF Owner, Txn
  <2>6. Requests' = [Requests EXCEPT ![tx] = Carried(tx)']
    BY <1>1, <2>2, <2>5, RequestsChange DEF Types
  <2>7. Requests[tx] = Memories!Idle
    BY <2>2 DEF Requests, Carried, Memories!Idle
  <2>8. PICK r : r = Carried(tx)'
    OBVIOUS
  <2>9. r \in Memories!Request
    <3>1. PICK port \in Target : port = PortOf(tg'[Owner(tx)].pass)
      <4>1. Owner(tx) = n
        BY <2>2 DEF Owner, Payloads
      <4> QED BY <1>1, <2>4, <4>1, PortFacts
    <3>2. PICK d \in Word : d = IF gp'[tx].cmd = "write" THEN gp'[tx].data ELSE 0
      <4>1. 0 \in Word
        BY AddressFacts DEF Word
      <4> QED BY <2>2, <4>1
    <3>3. r = [phase |-> "issued", cmd |-> gp'[tx].cmd, target |-> port, addr |-> gp'[tx].addr, data |-> d]
      BY <2>2, <2>8, <3>1, <3>2 DEF Carried
    <3>4. gp'[tx].addr \in 1..MemorySize
      BY <2>2, AddressFacts
    <3> QED BY <2>2, <3>2, <3>3, <3>4 DEF Memories!Request, Word
  <2>10. Requests'[tx] = r
    BY <2>2, <2>6, <2>8 DEF Requests
  <2>11. Memories!Issue(tx)
    BY <1>1, <2>6, <2>7, <2>8, <2>9, <2>10, Zenon DEF Memories!Issue, Words, Requests
  <2> QED BY <2>2, <2>11
<1>3. CASE Get(n)
  <2>1. PICK tx : tx = Head(fifo[RspCh(n)].items)
    OBVIOUS
  <2>2. /\ tx \in Held(n) /\ tx \in Txn /\ tx \notin Unserved(n)
        /\ gp' = [gp EXCEPT ![tx] = gp'[tx]] /\ gp'[tx].rc = 0
        /\ \A m \in Initiator : tg'[m].pass = tg[m].pass
    BY <1>1, <1>3, <2>1, GetData
  <2>3. gp[tx].rc = 1 /\ gp[tx].status = "OK"
    BY <1>1, <2>2, Zenon DEF DataInv, Data, Carries, Held
  <2>4. \A u \in Txn : tg'[Owner(u)].pass = tg[Owner(u)].pass
    BY <2>2 DEF Owner, Txn
  <2>5. Requests' = [Requests EXCEPT ![tx] = Carried(tx)']
    BY <1>1, <2>2, <2>4, RequestsChange DEF Types
  <2>6. Carried(tx)' = Memories!Idle
    BY <2>2 DEF Carried, Memories!Idle
  <2>7. Requests[tx].phase = "served"
    BY <2>2, <2>3 DEF Requests, Carried
  <2>8. Memories!Accept(tx)
    BY <1>1, <2>5, <2>6, <2>7 DEF Memories!Accept, Words, Requests
  <2> QED BY <2>2, <2>8
<1>4. CASE ~Issue(n) /\ ~Get(n)
  <2>1. gp' = gp /\ \A m \in Initiator : tg'[m].pass # tg[m].pass => Held(m) = {}
    BY <1>1, <1>4, GeneratorData
  <2>2. ASSUME NEW tx \in Txn, gp[tx].rc # 0 PROVE tg'[Owner(tx)].pass = tg[Owner(tx)].pass
    <3>1. gp[tx].rc = 1
      BY <1>1, <2>2 DEF Types, GpShape
    <3>2. Owner(tx) \in Initiator /\ tx \in Payloads(Owner(tx))
      BY DEF Txn, Owner, Payloads
    <3>3. tx \in Held(Owner(tx))
      BY <3>1, <3>2 DEF Held
    <3> QED BY <2>1, <3>2, <3>3
  <2>3. Words' = Words /\ Requests' = Requests
    BY <2>1, <2>2, ServiceStutters
  <2> QED BY <2>3
<1> QED BY <1>2, <1>3, <1>4

\* The initiators' part: a transaction is carried out.
LEMMA CarriedOutService ==
  ASSUME Core, NEW n \in Initiator, lti[n].pc = "request", NEW tx, tx = lti[n].txn, tg' = tg,
         NEW m, m = PortOf(tg[n].pass), CarriedOut(tx, m)
  PROVE  tx \in Txn /\ (Memories!Read(tx) \/ Memories!Write(tx))
<1>1. /\ tx \in Payloads(n) /\ tx \in Txn /\ gp[tx].rc = 1 /\ gp[tx].cmd \in {"read", "write"}
      /\ gp[tx].addr \in Addresses /\ gp[tx].status = "incomplete" /\ m \in Target
  BY RequestFacts DEF Core
<1>2. gp \in [Txn -> GpShape] /\ lt \in [Target -> LtShape]
  BY DEF Core, DataInv, Types
<1>3. PICK g : g = gp[tx]
  OBVIOUS
<1>4. /\ gp' = [gp EXCEPT ![tx] = gp'[tx]]
      /\ gp'[tx].cmd = g.cmd /\ gp'[tx].addr = g.addr /\ gp'[tx].rc = 1 /\ gp'[tx].status = "OK"
      /\ gp'[tx].data = IF g.cmd = "read" THEN lt[m].mem[g.addr] ELSE g.data
      /\ lt' = [lt EXCEPT ![m].mem = IF g.cmd = "write" THEN [@ EXCEPT ![g.addr] = g.data] ELSE @]
  BY <1>1, <1>3 DEF CarriedOut
<1>5. Owner(tx) = n
  BY <1>1 DEF Owner, Payloads
<1>6. PICK r : r = Requests[tx]
  OBVIOUS
<1>7. r = [phase |-> "issued", cmd |-> g.cmd, target |-> m, addr |-> g.addr,
           data |-> IF g.cmd = "write" THEN g.data ELSE 0]
  BY <1>1, <1>3, <1>5, <1>6 DEF Requests, Carried
<1>8. Carried(tx)' = [phase |-> "served", cmd |-> g.cmd, target |-> m, addr |-> g.addr,
                      data |-> IF g.cmd = "read" THEN lt[m].mem[g.addr] ELSE g.data]
  BY <1>4, <1>5 DEF Carried
<1>9. Requests' = [Requests EXCEPT ![tx] = Carried(tx)']
  BY <1>1, <1>2, <1>4, RequestsChange
<1>10. Words[m] = lt[m].mem
  BY <1>1 DEF Words
<1>11. CASE g.cmd = "read"
  <2>1. lt' = lt
    <3>1. lt' = [lt EXCEPT ![m].mem = @]
      BY <1>4, <1>11
    <3>2. gp[tx] \in GpShape /\ [lt EXCEPT ![m].mem = @] = lt
      <4>1. gp[tx] \in GpShape
        BY <1>1, <1>2
      <4> QED BY <1>1, <4>1, OperationFacts, Zenon DEF Core
    <3> QED BY <3>1, <3>2
  <2>2. Words' = Words
    BY <2>1 DEF Words
  <2>3. PICK w : w = Words[r.target][r.addr]
    OBVIOUS
  <2>4. /\ r = [phase |-> "issued", cmd |-> "read", target |-> m, addr |-> g.addr, data |-> 0]
        /\ w = lt[m].mem[g.addr]
        /\ Carried(tx)' = [phase |-> "served", cmd |-> "read", target |-> m, addr |-> g.addr, data |-> w]
    BY <1>7, <1>8, <1>10, <1>11, <2>3
  <2>5. Carried(tx)' = [r EXCEPT !.phase = "served", !.data = w]
    <3> DEFINE r1 == [r EXCEPT !.phase = "served"]
    <3>1. r1 = [phase |-> "served", cmd |-> "read", target |-> m, addr |-> g.addr, data |-> 0]
      BY <2>4
    <3>2. [r EXCEPT !.phase = "served", !.data = w] = [r1 EXCEPT !.data = w]
      OBVIOUS
    <3> HIDE DEF r1
    <3>3. [r1 EXCEPT !.data = w] = [phase |-> "served", cmd |-> "read", target |-> m, addr |-> g.addr, data |-> w]
      BY <3>1
    <3> QED BY <2>4, <3>2, <3>3, Zenon
  <2>6. Requests' = [Requests EXCEPT ![tx].phase = "served", ![tx].data = w]
    BY <1>6, <1>9, <2>5, Zenon
  <2>7. Memories!Read(tx) <=>
          /\ Requests[tx].phase = "issued" /\ Requests[tx].cmd = "read"
          /\ Requests' = [Requests EXCEPT ![tx].phase = "served",
                                          ![tx].data = Words[Requests[tx].target][Requests[tx].addr]]
          /\ Words' = Words
    BY DEF Memories!Read, Words, Requests
  <2>8. r.phase = "issued" /\ r.cmd = "read"
    BY <2>4
  <2>9. Requests' = [Requests EXCEPT ![tx].phase = "served",
                                     ![tx].data = Words[Requests[tx].target][Requests[tx].addr]]
    BY <1>6, <2>3, <2>6, Zenon
  <2> QED BY <1>1, <1>6, <2>2, <2>7, <2>8, <2>9, Zenon
<1>12. CASE g.cmd = "write"
  <2>1. lt' = [lt EXCEPT ![m].mem = [@ EXCEPT ![g.addr] = g.data]]
    BY <1>4, <1>12
  <2>2. Words' = [Words EXCEPT ![r.target][r.addr] = r.data]
    <3>1. r.target = m /\ r.addr = g.addr /\ r.data = g.data
      BY <1>7, <1>12
    <3>2. lt'[m].mem = [lt[m].mem EXCEPT ![g.addr] = g.data]
      BY <1>1, <1>2, <2>1 DEF LtShape
    <3>3. \A k \in Target : k # m => lt'[k] = lt[k]
      BY <1>1, <1>2, <2>1
    <3> QED BY <1>10, <3>1, <3>2, <3>3, Zenon DEF Words
  <2>3. Carried(tx)' = [r EXCEPT !.phase = "served"]
    BY <1>7, <1>8, <1>12
  <2>4. Requests' = [Requests EXCEPT ![tx].phase = "served"]
    BY <1>6, <1>9, <2>3
  <2>5. Memories!Write(tx) <=>
          /\ Requests[tx].phase = "issued" /\ Requests[tx].cmd = "write"
          /\ Words' = [Words EXCEPT ![Requests[tx].target][Requests[tx].addr] = Requests[tx].data]
          /\ Requests' = [Requests EXCEPT ![tx].phase = "served"]
    BY DEF Memories!Write, Words, Requests
  <2>6. r.phase = "issued" /\ r.cmd = "write"
    BY <1>7, <1>12
  <2> QED BY <1>1, <1>6, <2>2, <2>4, <2>5, <2>6
<1> QED BY <1>1, <1>3, <1>11, <1>12

\* At the start the memories are zero and every payload is idle.
LEMMA ServiceInit == Init => Memories!Init
<1> SUFFICES ASSUME Init PROVE Memories!Init
  OBVIOUS
<1>1. Words = [m \in Target |-> [a \in 1..MemorySize |-> 0]]
  BY DataInit, Zenon DEF Words, ZeroMemory
<1>2. \A tx \in Txn : Carried(tx) = Memories!Idle
  BY DataInit DEF Carried, Memories!Idle
<1>3. Requests = [tx \in Txn |-> Memories!Idle]
  BY <1>2 DEF Requests
<1>4. Memories!Init <=> /\ Words = [m \in Target |-> [a \in 1..MemorySize |-> 0]]
                        /\ Requests = [tx \in Txn |-> Memories!Idle]
  BY DEF Memories!Init, Words, Requests
<1> QED BY <1>1, <1>3, <1>4

\* Every step of the platform is a step of the service, or none.
LEMMA ServiceNext ==
  ASSUME Core, [Next]_vars
  PROVE  \/ \E tx \in Txn : Memories!Issue(tx) \/ Memories!Write(tx) \/ Memories!Read(tx) \/ Memories!Accept(tx)
         \/ Words' = Words /\ Requests' = Requests
<1>1. DataInv
  BY DEF Core
<1>2. ASSUME tg' = tg, gp' = gp, \A k \in Target : lt'[k].mem = lt[k].mem
      PROVE  Words' = Words /\ Requests' = Requests
  <2>1. \A tx \in Txn : gp[tx].rc # 0 => tg'[Owner(tx)].pass = tg[Owner(tx)].pass
    BY <1>2
  <2> QED BY <1>2, <2>1, ServiceStutters
<1>3. CASE UNCHANGED vars
  <2>1. tg' = tg /\ gp' = gp /\ lt' = lt
    BY <1>3 DEF vars, shared
  <2> QED BY <1>2, <2>1
<1>4. CASE (AdvanceTime \/ Dispatch \/ DeltaCycle) /\ UNCHANGED <<tg, lt>>
  <2>1. tg' = tg /\ gp' = gp /\ lt' = lt
    BY <1>4 DEF AdvanceTime, Dispatch, DeltaCycle
  <2> QED BY <1>2, <2>1
<1>5. ASSUME NEW n \in Initiator, TgStep(n), UNCHANGED <<lti, lt, now, spent>>
      PROVE  \/ \E tx \in Txn : Memories!Issue(tx) \/ Memories!Accept(tx)
             \/ Words' = Words /\ Requests' = Requests
  BY <1>5, GeneratorService
<1>6. ASSUME NEW n \in Initiator, LtiStep(n), UNCHANGED <<tg, now>>,
             spent' = IF At(n, "request") THEN [spent EXCEPT ![n] = @ + Cost(n)] ELSE spent
      PROVE  \/ \E tx \in Txn : Memories!Write(tx) \/ Memories!Read(tx)
             \/ Words' = Words /\ Requests' = Requests
  <2>1. PICK tx, m : tx = lti[n].txn /\ m = PortOf(tg[n].pass)
    OBVIOUS
  <2>2. CASE Transport(n)
    <3>1. lti[n].pc = "request" /\ CarriedOut(tx, m)
      BY <1>1, <2>1, <2>2, TransportServes, Zenon DEF Transport, At
    <3> QED BY <1>6, <2>1, <3>1, CarriedOutService
  <2>3. CASE DmiOperation(n)
    <3>1. lti[n].pc = "request" /\ CarriedOut(tx, m)
      BY <1>1, <2>1, <2>3, DmiServes, Zenon DEF DmiOperation, At
    <3> QED BY <1>6, <2>1, <3>1, CarriedOutService
  <2>4. CASE SynchReturn(n) \/ ReturnedWaits(n) \/ ReturnedDecoupled(n) \/ Synced(n) \/ AskDmi(n)
    <3>1. spent' \in [Initiator -> Nat]
      BY <1>1, <1>6, SpentType
    <3>2. gp' = gp /\ lt' = lt
      BY <1>1, <1>6, <2>4, <3>1, MiddleData
    <3> QED BY <1>2, <1>6, <3>2
  <2>5. CASE ReceiveBlocks(n) \/ Receive(n) \/ RespondBlocks(n) \/ Respond(n)
    <3>1. gp' = gp /\ lt' = lt
      BY <2>5 DEF ReceiveBlocks, Receive, RespondBlocks, Respond
    <3> QED BY <1>2, <1>6, <3>1
  <2> QED BY <1>6, <2>2, <2>3, <2>4, <2>5 DEF LtiStep
<1>7. ASSUME NEW m \in Target, toggle_dmi_method(m), UNCHANGED <<tg, now, spent>>
      PROVE  Words' = Words /\ Requests' = Requests
  BY <1>1, <1>2, <1>7, ToggleData
<1> QED BY <1>3, <1>4, <1>5, <1>6, <1>7 DEF Next, Step

\* The payloads stay accounted for, the kernel's record in shape and the delays
\* within their bounds.
THEOREM CoreInvariant == Spec => []Core
<1>1. Core /\ [Next]_vars => Core'
  BY CoreNext
<1> QED BY <1>1, CoreInit, PTL DEF Spec

\* Over b_transport or by direct access, on any platform of these initiators and
\* targets, each transaction is carried out once, on the word its address names,
\* before its generator accepts the response.
THEOREM LtImplementsMemory == Spec => ImplementsMemory
<1>1. Core /\ [Next]_vars => [Memories!Next]_<<Words, Requests>>
  BY ServiceNext DEF Memories!Next
<1>2. ImplementsMemory <=> Memories!Init /\ [][Memories!Next]_<<Words, Requests>>
  BY DEF ImplementsMemory, Memories!Spec, Words, Requests
<1> QED BY <1>1, <1>2, CoreInvariant, ServiceInit, PTL DEF Spec

-----------------------------------------------------------------------------
(* Where the initiators and the toggle methods are, and what they wait for *)

\* An initiator waits for the time of a call, for a request to come or for room
\* for its response; it does not stop while it has a request in hand that was not
\* carried out, nor with a delay it has not yet taken into account.
IniPlace(n) ==
  LET w == WaitsFor(simc, Ini(n)) IN
  /\ w \subseteq {Timeout[Ini(n)], DataWritten(Req(n)), DataRead(Rsp(n))}
  /\ Timeout[Ini(n)] \in w => lti[n].pc \in {"inside", "sync", "ask", "respond"}
  /\ Timeout[Ini(n)] \in w <=> simc.pend[Timeout[Ini(n)]] # NotPending
  /\ DataWritten(Req(n)) \in w => lti[n].pc = "get" /\ NumAvailable(Req(n)) = 0
  /\ DataRead(Rsp(n)) \in w => lti[n].pc = "respond" /\ NumFree(Rsp(n)) = 0
  /\ w = {} => ~Asleep(simc, Ini(n))
  /\ lti[n].pc \in {"request", "returned"} => simc.cur = Ini(n)

\* A toggle method waits for its next time, until it has toggled
\* MaxDmiToggleCount times.
TogglePlace(m) ==
  LET p == ToggleDmi(m)
      w == WaitsFor(simc, p)
  IN
  /\ w \subseteq {Timeout[p]}
  /\ Timeout[p] \in w <=> simc.pend[Timeout[p]] # NotPending
  /\ lt[m].toggle_count <= MaxDmiToggleCount
  /\ lt[m].toggle_count = MaxDmiToggleCount \/ lt[m].kind # "dmi" => Asleep(simc, p) /\ w = {}

\* The processes and the events of initiator n and of target m.
LEMMA LtEvents ==
  /\ \A n \in Initiator : /\ Ini(n) \in Thread /\ Ini(n) \in Process /\ Req(n) \in Channel /\ Rsp(n) \in Channel
                          /\ Timeout[Ini(n)] \in Event
                          /\ DataWritten(Req(n)) \in Event /\ DataRead(Rsp(n)) \in Event
                          /\ Timeout[Ini(n)] \notin {DataWritten(Req(n)), DataRead(Rsp(n))}
                          /\ DataWritten(Req(n)) # DataRead(Rsp(n))
                          /\ Req(n) = ReqCh(n) /\ Rsp(n) = RspCh(n) /\ Ini(n) # Tg(n)
  /\ \A m \in Target : /\ ToggleDmi(m) \in Process /\ ToggleDmi(m) \in Method /\ ToggleDmi(m) \notin Thread
                       /\ Timeout[ToggleDmi(m)] \in Event
<1>1. ASSUME NEW n \in Initiator
      PROVE  /\ Ini(n) \in Thread /\ Ini(n) \in Process /\ Req(n) \in Channel /\ Rsp(n) \in Channel
             /\ Req(n) = ReqCh(n) /\ Rsp(n) = RspCh(n) /\ Ini(n) # Tg(n)
  <2>1. Ini(n) \in Thread /\ Req(n) = ReqCh(n) /\ Rsp(n) = RspCh(n) /\ Ini(n) # Tg(n)
    BY ThreadFacts DEF Ini, Tg, Req, Rsp, ReqCh, RspCh
  <2> QED BY <2>1, ChannelFacts, Zenon DEF Process
<1>2. ASSUME NEW m \in Target
      PROVE  ToggleDmi(m) \in Process /\ ToggleDmi(m) \in Method /\ ToggleDmi(m) \notin Thread
  <2>1. ToggleDmi(m) \in Method /\ ToggleDmi(m)[1] = "toggle_dmi"
    BY MapAssumption DEF Method, ToggleDmi
  <2>2. \A q \in Thread : q[1] # "toggle_dmi"
    BY ThreadFacts
  <2> QED BY <2>1, <2>2, Zenon DEF Process
<1> HIDE DEF Process, Thread, Method, Event, Channel, Timeout
<1>3. ASSUME NEW n \in Initiator
      PROVE  /\ Timeout[Ini(n)] \in Event /\ DataWritten(Req(n)) \in Event /\ DataRead(Rsp(n)) \in Event
             /\ Timeout[Ini(n)] \notin {DataWritten(Req(n)), DataRead(Rsp(n))}
  <2>1. Timeout[Ini(n)] # DataWritten(Req(n)) /\ Timeout[Ini(n)] # DataRead(Rsp(n))
    BY <1>1, EventFacts
  <2> QED BY <1>1, <2>1, EventFacts
<1>4. ASSUME NEW n \in Initiator PROVE DataWritten(Req(n)) # DataRead(Rsp(n))
  BY DEF DataWritten, DataRead
<1>5. \A m \in Target : Timeout[ToggleDmi(m)] \in Event
  BY <1>2, EventFacts
<1> QED BY <1>1, <1>2, <1>3, <1>4, <1>5

\* A step of another process, or of the kernel, that leaves initiator n alone.
LEMMA IniFrame ==
  ASSUME NEW n \in Initiator, IniPlace(n), Stays(Ini(n)), lti'[n].pc = lti[n].pc, simc.cur # Ini(n),
         NumAvailable(Req(n))' = NumAvailable(Req(n)), NumFree(Rsp(n))' = NumFree(Rsp(n))
  PROVE  IniPlace(n)'
<1>1. WaitsFor(simc, Ini(n))' = WaitsFor(simc, Ini(n))
  BY DEF Stays, WaitsFor, Waiters, Ini
<1>2. (Asleep(simc, Ini(n))' <=> Asleep(simc, Ini(n))) /\ simc.pend[Timeout[Ini(n)]]' = simc.pend[Timeout[Ini(n)]]
  BY DEF Stays, Asleep, Ini
<1>3. lti[n].pc \notin {"request", "returned"}
  BY DEF IniPlace
<1> QED BY <1>1, <1>2, <1>3 DEF IniPlace

\* The same for a toggle method.
LEMMA ToggleFrame ==
  ASSUME NEW m \in Target, TogglePlace(m), Stays(ToggleDmi(m)),
         lt'[m].toggle_count = lt[m].toggle_count, lt'[m].kind = lt[m].kind
  PROVE  TogglePlace(m)'
<1>1. WaitsFor(simc, ToggleDmi(m))' = WaitsFor(simc, ToggleDmi(m))
  BY DEF Stays, WaitsFor, Waiters, ToggleDmi
<1>2. /\ Asleep(simc, ToggleDmi(m))' <=> Asleep(simc, ToggleDmi(m))
      /\ simc.pend[Timeout[ToggleDmi(m)]]' = simc.pend[Timeout[ToggleDmi(m)]]
  BY DEF Stays, Asleep, ToggleDmi
<1> QED BY <1>1, <1>2 DEF TogglePlace

\* A timeout that is triggered is not pending any more, the others go on.
Rings(D) ==
  \A p \in Process : simc'.pend[Timeout[p]] # NotPending <=>
                       simc.pend[Timeout[p]] # NotPending /\ Timeout[p] \notin D

\* The delta cycle and the advance of time do so.
LEMMA DeltaRings ==
  ASSUME NEW D, DeltaWakes(D)
  PROVE  Rings(D)
BY EventFacts DEF DeltaWakes, Rings

\* The events due after d are rung, as those of a delta cycle are.
LEMMA TimeRings ==
  ASSUME NEW b \in Nat, simc.pend \in [Event -> -1..b], NEW d, TimeWakes(d)
  PROVE  Rings(DueAt(simc, d))
<1> SUFFICES ASSUME NEW p \in Process
             PROVE  simc'.pend[Timeout[p]] # NotPending <=>
                      simc.pend[Timeout[p]] # NotPending /\ Timeout[p] \notin DueAt(simc, d)
  BY DEF Rings
<1>1. PICK e \in Event, t \in -1..b : e = Timeout[p] /\ t = simc.pend[e]
  BY EventFacts
<1> HIDE DEF Process, Event, Timeout
<1>2. /\ d \in Nat /\ d > 0 /\ t # 0 /\ (t > 0 => d <= t)
      /\ simc'.pend[e] = IF t > d THEN t - d ELSE NotPending
  BY <1>1 DEF TimeWakes
<1>3. e \in DueAt(simc, d) <=> t = d
  BY <1>1 DEF DueAt
<1> QED BY <1>1, <1>2, <1>3 DEF NotPending

\* An initiator's wait ends with the event it waits for.
LEMMA IniWoken ==
  ASSUME NEW n \in Initiator, IniPlace(n), OnePlace(simc), NEW D, Wakes(D), Rings(D), lti' = lti,
         simc.cur = Nobody,
         DataWritten(Req(n)) \notin D => NumAvailable(Req(n))' = NumAvailable(Req(n)),
         DataRead(Rsp(n)) \notin D => NumFree(Rsp(n))' = NumFree(Rsp(n))
  PROVE  IniPlace(n)'
<1>1. Ini(n) \in Process /\ Ini(n) # Nobody
  BY LtEvents, NobodyRuns
<1> HIDE DEF Process, Event, Timeout
<1>2. PICK w, a, T : w = WaitsFor(simc, Ini(n)) /\ a = WaitsFor(simc', Ini(n)) /\ T = Timeout[Ini(n)]
  OBVIOUS
<1>3. /\ Asleep(simc, Ini(n)) /\ a = IF w \intersect D = {} THEN w ELSE {}
      /\ Asleep(simc', Ini(n)) <=> w \intersect D = {}
  BY <1>1, <1>2 DEF Wakes
<1>4. /\ WaitsFor(simc, Ini(n))' = a /\ (Asleep(simc, Ini(n))' <=> Asleep(simc', Ini(n)))
      /\ simc.pend[Timeout[Ini(n)]]' = simc'.pend[T] /\ lti[n]' = lti[n] /\ Timeout[Ini(n)]' = T
  BY <1>2 DEF WaitsFor, Waiters, Asleep, Ini
<1>5. /\ w \subseteq {T, DataWritten(Req(n)), DataRead(Rsp(n))}
      /\ T \in w => lti[n].pc \in {"inside", "sync", "ask", "respond"}
      /\ T \in w <=> simc.pend[T] # NotPending
      /\ DataWritten(Req(n)) \in w => lti[n].pc = "get" /\ NumAvailable(Req(n)) = 0
      /\ DataRead(Rsp(n)) \in w => lti[n].pc = "respond" /\ NumFree(Rsp(n)) = 0
      /\ w # {} /\ lti[n].pc \notin {"request", "returned"}
  BY <1>1, <1>2, <1>3 DEF IniPlace
<1>6. simc'.pend[T] # NotPending <=> simc.pend[T] # NotPending /\ T \notin D
  BY <1>1, <1>2 DEF Rings
<1>7. \A e, f \in w : e = f
  BY <1>1, <1>2 DEF OnePlace
<1>8. CASE w \intersect D = {}
  <2>1. /\ DataWritten(Req(n)) \in w => NumAvailable(Req(n))' = NumAvailable(Req(n))
        /\ DataRead(Rsp(n)) \in w => NumFree(Rsp(n))' = NumFree(Rsp(n))
    BY <1>8
  <2>2. a = w /\ (T \in w <=> simc'.pend[T] # NotPending)
    BY <1>3, <1>5, <1>6, <1>8
  <2> QED BY <1>2, <1>4, <1>5, <2>1, <2>2 DEF IniPlace
<1>9. CASE w \intersect D # {}
  <2>1. a = {} /\ ~Asleep(simc', Ini(n)) /\ simc'.pend[T] = NotPending
    BY <1>3, <1>5, <1>6, <1>7, <1>9
  <2> QED BY <1>2, <1>4, <1>5, <2>1 DEF IniPlace
<1> QED BY <1>8, <1>9

\* So does a toggle method's.
LEMMA ToggleWoken ==
  ASSUME NEW m \in Target, TogglePlace(m), NEW D, Wakes(D), Rings(D), lt' = lt
  PROVE  TogglePlace(m)'
<1>1. ToggleDmi(m) \in Process
  BY LtEvents
<1> HIDE DEF Process, Event, Timeout
<1>2. PICK w, a, T, p : /\ p = ToggleDmi(m) /\ w = WaitsFor(simc, p) /\ a = WaitsFor(simc', p)
                        /\ T = Timeout[p]
  OBVIOUS
<1>3. /\ a = IF w \intersect D = {} THEN w ELSE {}
      /\ Asleep(simc', p) <=> w \intersect D = {}
  BY <1>1, <1>2 DEF Wakes
<1>4. /\ WaitsFor(simc, ToggleDmi(m))' = a /\ (Asleep(simc, ToggleDmi(m))' <=> Asleep(simc', p))
      /\ simc.pend[Timeout[ToggleDmi(m)]]' = simc'.pend[T] /\ Timeout[ToggleDmi(m)]' = T
  BY <1>2 DEF WaitsFor, Waiters, Asleep, ToggleDmi
<1>5. /\ w \subseteq {T} /\ (T \in w <=> simc.pend[T] # NotPending)
      /\ lt[m].toggle_count <= MaxDmiToggleCount
      /\ lt[m].toggle_count = MaxDmiToggleCount \/ lt[m].kind # "dmi" => Asleep(simc, p) /\ w = {}
  BY <1>2 DEF TogglePlace
<1>6. simc'.pend[T] # NotPending <=> simc.pend[T] # NotPending /\ T \notin D
  BY <1>1, <1>2 DEF Rings
<1>7. CASE w \intersect D = {}
  <2>1. a = w /\ Asleep(simc', p) /\ (T \in w <=> simc'.pend[T] # NotPending)
    BY <1>3, <1>5, <1>6, <1>7
  <2> QED BY <1>4, <1>5, <2>1 DEF TogglePlace
<1>8. CASE w \intersect D # {}
  <2>1. a = {} /\ simc'.pend[T] = NotPending /\ w # {}
    BY <1>3, <1>5, <1>6, <1>8
  <2> QED BY <1>4, <1>5, <2>1 DEF TogglePlace
<1> QED BY <1>7, <1>8

-----------------------------------------------------------------------------
(* What the steps of the initiators and of the toggle methods do to the places *)

\* What a step of an initiator does to the kernel and to its fifos.
IniActs(n) ==
  /\ OnePlace(simc') /\ DataQuiet' /\ UpdatesRequested'
  /\ simc.cur = Ini(n) /\ \A q \in Process : q # Ini(n) => Stays(q)
  /\ NumAvailable(Rsp(n))' = NumAvailable(Rsp(n)) /\ NumFree(Req(n))' = NumFree(Req(n))
  /\ \A ch \in Channel : ch \notin {Req(n), Rsp(n)} => fifo'[ch] = fifo[ch]

\* The kernel's part of a step: the thread goes on, waits for a fifo, or waits for
\* the time of a call.
KernelActs(n, s2) ==
  \/ simc' = simc /\ fifo' = fifo
  \/ Receive(n) \/ Respond(n)
  \/ /\ fifo' = fifo /\ s2.pc = "get" /\ NumAvailable(Req(n)) = 0
     /\ simc' = Wait(simc, Ini(n), DataWritten(Req(n)))
  \/ /\ fifo' = fifo /\ s2.pc = "respond" /\ NumFree(Rsp(n)) = 0
     /\ simc' = Wait(simc, Ini(n), DataRead(Rsp(n)))
  \/ /\ fifo' = fifo /\ s2.pc \in {"inside", "sync", "ask", "respond"}
     /\ \E t \in 0..LongestWait : simc' = WaitTime(simc, Ini(n), t)

\* Every step of an initiator does one of these to the kernel.
LEMMA InitiatorActs ==
  ASSUME Core, NEW n \in Initiator, LtiStep(n), NEW s2, s2 = lti'[n]
  PROVE  KernelActs(n, s2) /\ Executing(Ini(n))
<1>1. PICK s \in LtiShape : s = lti[n]
  BY DEF Core, DataInv, Types
<1>2. Moves(n, s, s2) /\ Executing(Ini(n)) /\ DataInv /\ Bounds(n)
  BY <1>1, InitiatorSteps DEF Core
<1>3. s.delay \in 0..LongestWait /\ (s.pc = "request" => s.delay + Cost(n) \in 0..LongestWait)
  <2>1. s.delay \in Nat /\ s.keeper.local \in Nat /\ Cost(n) \in Nat
    BY <1>2, CostType DEF LtiShape
  <2> QED BY <1>1, <1>2, <2>1, CostType, WaitFacts DEF Bounds
<1>4. CASE ReceiveBlocks(n) /\ s2 = s
  <2>1. fifo' = fifo /\ s.pc = "get" /\ NumAvailable(Req(n)) = 0
        /\ simc' = Wait(simc, Ini(n), DataWritten(Req(n)))
    BY <1>1, <1>4 DEF ReceiveBlocks, At
  <2> QED BY <1>2, <1>4, <2>1, Zenon DEF KernelActs
<1>5. CASE RespondBlocks(n) /\ s2 = s
  <2>1. fifo' = fifo /\ s.pc = "respond" /\ NumFree(Rsp(n)) = 0
        /\ simc' = Wait(simc, Ini(n), DataRead(Rsp(n)))
    BY <1>1, <1>5 DEF RespondBlocks, At
  <2> QED BY <1>2, <1>5, <2>1, Zenon DEF KernelActs
<1>6. CASE Receive(n) \/ Respond(n)
  BY <1>2, <1>6, Zenon DEF KernelActs
<1>7. CASE /\ ~(ReceiveBlocks(n) /\ s2 = s) /\ ~(RespondBlocks(n) /\ s2 = s)
           /\ ~(Receive(n) \/ Respond(n))
  <2>0. \/ SynchReturn(n) \/ Synced(n) \/ AskDmi(n) \/ ReturnedDecoupled(n) \/ ReturnedWaits(n)
        \/ Transport(n) \/ DmiOperation(n)
    BY <1>2, <1>7, Zenon DEF Moves
  <2>1. fifo' = fifo
    BY <2>0, Zenon DEF SynchReturn, Synced, AskDmi, ReturnedDecoupled, ReturnedWaits, Transport, DmiOperation, shared
  <2>2. \/ simc' = simc
        \/ /\ s2.pc \in {"inside", "sync", "ask", "respond"}
           /\ \E t \in 0..LongestWait : simc' = WaitTime(simc, Ini(n), t)
    <3>1. \/ simc' = simc
          \/ s2.pc = "inside" /\ simc' = WaitTime(simc, Ini(n), s2.delay) /\ s2.delay = s.delay + Cost(n) /\ s.pc = "request"
          \/ s2.pc \in {"sync", "ask", "respond"} /\ simc' = WaitTime(simc, Ini(n), s.delay)
          \/ s2.pc = "respond" /\ simc' = WaitTime(simc, Ini(n), s.delay + Cost(n)) /\ s.pc = "request"
      BY <1>2, <1>7 DEF Moves
    <3>2. ASSUME NEW t \in 0..LongestWait, simc' = WaitTime(simc, Ini(n), t)
          PROVE  \E u \in 0..LongestWait : simc' = WaitTime(simc, Ini(n), u)
      BY <3>2
    <3> QED BY <1>3, <3>1, <3>2
  <2> QED BY <1>2, <2>1, <2>2, Zenon DEF KernelActs
<1> QED BY <1>4, <1>5, <1>6, <1>7

\* A step of an initiator leaves it in its place and the others where they are.
LEMMA IniSteps ==
  ASSUME Core, OnePlace(simc), DataQuiet, UpdatesRequested, NEW n \in Initiator, LtiStep(n), IniPlace(n)
  PROVE  IniActs(n) /\ IniPlace(n)' /\ WaitsFor(simc, Ini(n)) = {}
<1>0. PICK b \in Nat : b = LongestWait
  BY WaitFacts
<1>1. PICK s2 : s2 = lti'[n]
  OBVIOUS
<1>2. KernelActs(n, s2) /\ Executing(Ini(n)) /\ KernelInv(b, simc) /\ DataInv
  BY <1>0, <1>1, InitiatorActs DEF Core
<1>3. /\ Ini(n) \in Thread /\ Ini(n) \in Process /\ Req(n) \in Channel /\ Rsp(n) \in Channel
      /\ Timeout[Ini(n)] \in Event /\ DataWritten(Req(n)) \in Event /\ DataRead(Rsp(n)) \in Event
      /\ Timeout[Ini(n)] \notin {DataWritten(Req(n)), DataRead(Rsp(n))}
      /\ DataWritten(Req(n)) # DataRead(Rsp(n)) /\ Req(n) = ReqCh(n) /\ Rsp(n) = RspCh(n)
  BY LtEvents
<1>4. simc.cur = Ini(n)
  BY <1>2 DEF Executing
<1>5. WaitsFor(simc, Ini(n)) = {} /\ Ini(n) \notin simc.runnable
  BY <1>3, <1>4, Zenon DEF OnePlace
<1>6. simc.pend[Timeout[Ini(n)]] = NotPending
  BY <1>5 DEF IniPlace
<1>7. simc.pend \in [Event -> -1..b]
  BY <1>2 DEF KernelInv, KernelOK, KernelShape
<1>8. \A q \in Process : q # Ini(n) => Timeout[q] # Timeout[Ini(n)] /\ Timeout[q] \in Event
  BY <1>3, EventFacts
<1>9. \A ch \in Channel : /\ DataWritten(ch) \in Event /\ DataRead(ch) \in Event
                          /\ DataWritten(ch) # Timeout[Ini(n)] /\ DataRead(ch) # Timeout[Ini(n)]
  BY <1>3, EventFacts
<1> HIDE DEF Thread, Process, Channel, Event, Timeout
<1>10. CASE simc' = simc /\ fifo' = fifo
  <2>1. \A q \in Process : q # Ini(n) => Stays(q)
    BY <1>10 DEF Stays, Asleep
  <2>2. WaitsFor(simc, Ini(n))' = {} /\ ~Asleep(simc, Ini(n))' /\ simc'.cur = Ini(n)' /\ simc'.pend = simc.pend
    BY <1>4, <1>5, <1>10 DEF WaitsFor, Waiters, Ini, Asleep
  <2>3. IniPlace(n)'
    BY <1>6, <2>2, Zenon DEF IniPlace, Ini, Timeout
  <2>4. IniActs(n)
    BY <1>4, <1>10, <2>1 DEF IniActs, DataQuiet, UpdatesRequested, NumAvailable, NumFree
  <2> QED BY <1>5, <2>3, <2>4
<1>11. CASE Receive(n) \/ Respond(n)
  <2>1. PICK ch \in {Req(n), Rsp(n)} :
          /\ simc' = RequestUpdate(simc, ch) /\ (\A c \in Channel : c # ch => fifo'[c] = fifo[c])
          /\ NumAvailable(Rsp(n))' = NumAvailable(Rsp(n)) /\ NumFree(Req(n))' = NumFree(Req(n))
    <3>0. DOMAIN fifo = Channel /\ fifo[Req(n)] \in FifoFields(n) /\ fifo[Rsp(n)] \in FifoFields(n) /\ Req(n) # Rsp(n)
      BY <1>2, <1>3, ChannelFacts DEF DataInv, Shapes, Data, Accounted, FifoShape
    <3>1. CASE Respond(n)
      <4>1. PICK f2 : /\ fifo' = [fifo EXCEPT ![Rsp(n)] = f2]
                      /\ f2.readable = fifo[Rsp(n)].readable /\ f2.read = fifo[Rsp(n)].read
        <5>1. PICK f \in FifoFields(n) : f = fifo[Rsp(n)]
          BY <3>0
        <5> DEFINE g == [f EXCEPT !.items = Append(@, lti[n].txn), !.written = @ + 1]
        <5>2. fifo' = [fifo EXCEPT ![Rsp(n)] = g]
          BY <3>1, <5>1, Zenon DEF Respond, FifoWrite
        <5>3. g.readable = f.readable /\ g.read = f.read
          BY Zenon DEF FifoFields
        <5> HIDE DEF g
        <5> QED BY <5>1, <5>2, <5>3, Zenon
      <4>2. fifo'[Rsp(n)] = f2 /\ \A c \in Channel : c # Rsp(n) => fifo'[c] = fifo[c]
        BY <1>3, <3>0, <4>1
      <4>3. fifo'[Req(n)] = fifo[Req(n)]
        BY <1>3, <3>0, <4>2
      <4> QED BY <3>1, <4>1, <4>2, <4>3, Zenon DEF Respond, NumAvailable, NumFree, Req, Rsp
    <3>2. CASE Receive(n)
      <4>1. PICK f2 : /\ fifo' = [fifo EXCEPT ![Req(n)] = f2]
                      /\ f2.readable = fifo[Req(n)].readable /\ f2.written = fifo[Req(n)].written
        <5>1. PICK f \in FifoFields(n) : f = fifo[Req(n)]
          BY <3>0
        <5> DEFINE g == [f EXCEPT !.items = Tail(@), !.read = @ + 1]
        <5>2. fifo' = [fifo EXCEPT ![Req(n)] = g]
          BY <3>2, <5>1, Zenon DEF Receive, FifoRead
        <5>3. g.readable = f.readable /\ g.written = f.written
          BY Zenon DEF FifoFields
        <5> HIDE DEF g
        <5> QED BY <5>1, <5>2, <5>3, Zenon
      <4>2. fifo'[Req(n)] = f2 /\ \A c \in Channel : c # Req(n) => fifo'[c] = fifo[c]
        BY <1>3, <3>0, <4>1
      <4>3. fifo'[Rsp(n)] = fifo[Rsp(n)]
        BY <1>3, <3>0, <4>2
      <4> QED BY <3>2, <4>1, <4>2, <4>3, Zenon DEF Receive, NumAvailable, NumFree, Req, Rsp
    <3> QED BY <1>11, <3>1, <3>2
  <2>2. ch \in Channel
    BY <1>3
  <2>3. OnePlace(simc') /\ GoesOn(simc, simc') /\ Range(simc'.update) = Range(simc.update) \union {ch}
    <3>1. PICK k2 : k2 = RequestUpdate(simc, ch)
      OBVIOUS
    <3>2. OnePlace(k2) /\ GoesOn(simc, k2)
      BY <1>2, <2>2, <3>1, UpdatePlaces
    <3>3. Range(k2.update) = Range(simc.update) \union {ch}
      BY <1>2, <2>2, <3>1, RequestUpdateOK
    <3> QED BY <2>1, <3>1, <3>2, <3>3
  <2>4. \A q \in Process : q # Ini(n) => Stays(q)
    BY <1>3, <1>4, <2>3, OthersStay DEF GoesOn
  <2>5. IniActs(n)
    BY <1>4, <2>1, <2>3, <2>4, Zenon DEF IniActs, DataQuiet, UpdatesRequested, GoesOn
  <2>6. WaitsFor(simc, Ini(n))' = {} /\ ~Asleep(simc, Ini(n))' /\ simc'.cur = Ini(n)' /\ simc'.pend = simc.pend
    <3>1. WaitsFor(simc', Ini(n)) = {} /\ simc'.cur = Ini(n) /\ simc'.pend = simc.pend
      BY <1>3, <1>4, <1>5, <2>3 DEF GoesOn
    <3> QED BY <3>1 DEF WaitsFor, Waiters, Ini, Asleep
  <2>7. IniPlace(n)'
    BY <1>6, <2>6, Zenon DEF IniPlace, Ini, Timeout
  <2> QED BY <1>5, <2>5, <2>7
<1>12. CASE \E e \in Event : /\ simc' = Wait(simc, Ini(n), e) /\ fifo' = fifo
                             /\ \/ s2.pc = "get" /\ NumAvailable(Req(n)) = 0 /\ e = DataWritten(Req(n))
                                \/ s2.pc = "respond" /\ NumFree(Rsp(n)) = 0 /\ e = DataRead(Rsp(n))
  <2>1. PICK e \in Event : /\ simc' = Wait(simc, Ini(n), e) /\ fifo' = fifo
                           /\ \/ s2.pc = "get" /\ NumAvailable(Req(n)) = 0 /\ e = DataWritten(Req(n))
                              \/ s2.pc = "respond" /\ NumFree(Rsp(n)) = 0 /\ e = DataRead(Rsp(n))
    BY <1>12
  <2>2. OnePlace(simc') /\ Sleeps(simc, simc', Ini(n), {e}) /\ simc'.pend = simc.pend
    BY <1>2, <1>3, <1>4, <2>1, WaitPlaces
  <2>3. \A q \in Process : q # Ini(n) => Stays(q)
    BY <1>3, <1>4, <2>2, OthersStay
  <2>4. IniActs(n)
    BY <1>4, <2>1, <2>2, <2>3 DEF IniActs, DataQuiet, UpdatesRequested, NumAvailable, NumFree, Sleeps
  <2>5. WaitsFor(simc, Ini(n))' = {e}
    <3>1. WaitsFor(simc', Ini(n)) = {e}
      BY <1>3, <2>2 DEF Sleeps
    <3> QED BY <3>1 DEF WaitsFor, Waiters, Ini
  <2>6. NumAvailable(Req(n))' = NumAvailable(Req(n)) /\ NumFree(Rsp(n))' = NumFree(Rsp(n)) /\ lti[n]' = s2
    BY <1>1, <2>1 DEF NumAvailable, NumFree, Req, Rsp
  <2>7. IniPlace(n)'
    <3>1. Timeout[Ini(n)] \notin {e} /\ simc.pend[Timeout[Ini(n)]]' = NotPending
      BY <1>3, <1>6, <2>1, <2>2 DEF Ini
    <3> QED BY <1>3, <2>1, <2>5, <2>6, <3>1 DEF IniPlace
  <2> QED BY <1>5, <2>4, <2>7
<1>13. CASE /\ fifo' = fifo /\ s2.pc \in {"inside", "sync", "ask", "respond"}
            /\ \E t \in 0..b : simc' = WaitTime(simc, Ini(n), t)
  <2>1. PICK t \in 0..b : simc' = WaitTime(simc, Ini(n), t)
    BY <1>13
  <2>2. /\ OnePlace(simc') /\ Sleeps(simc, simc', Ini(n), {Timeout[Ini(n)]})
        /\ simc'.pend = [simc.pend EXCEPT ![Timeout[Ini(n)]] = t]
    <3>1. PICK k, k2, p, e : k = simc /\ p = Ini(n) /\ k2 = WaitTime(k, p, t) /\ e = Timeout[p]
      OBVIOUS
    <3>2. /\ KernelInv(b, k) /\ OnePlace(k) /\ p \in Thread /\ k.cur = p /\ k.pend[e] = NotPending
          /\ b \in Nat /\ t \in 0..b
      BY <1>2, <1>3, <1>4, <1>6, <3>1
    <3>3. OnePlace(k2) /\ Sleeps(k, k2, p, {e}) /\ k2.pend = [k.pend EXCEPT ![e] = t]
      BY <3>1, <3>2, WaitTimePlaces
    <3> QED BY <2>1, <3>1, <3>3
  <2>3. \A e \in Event : e # Timeout[Ini(n)] => simc'.pend[e] = simc.pend[e]
    BY <1>7, <2>2
  <2>4. \A q \in Process : q # Ini(n) => Stays(q)
    BY <1>3, <1>4, <1>8, <2>2, <2>3, OthersStay
  <2>5. DataQuiet'
    BY <1>9, <2>3 DEF DataQuiet
  <2>6. IniActs(n)
    BY <1>4, <1>13, <2>2, <2>4, <2>5 DEF IniActs, UpdatesRequested, NumAvailable, NumFree, Sleeps
  <2>7. simc'.pend[Timeout[Ini(n)]] # NotPending
    BY <1>3, <1>7, <2>2 DEF NotPending
  <2>8. WaitsFor(simc, Ini(n))' = {Timeout[Ini(n)]} /\ simc.pend[Timeout[Ini(n)]]' # NotPending /\ lti[n]' = s2
    <3>1. WaitsFor(simc', Ini(n)) = {Timeout[Ini(n)]}
      BY <1>3, <2>2 DEF Sleeps
    <3> QED BY <1>1, <2>7, <3>1 DEF WaitsFor, Waiters, Ini
  <2>9. IniPlace(n)'
    BY <1>3, <1>13, <2>8 DEF IniPlace
  <2> QED BY <1>5, <2>6, <2>9
<1> QED BY <1>0, <1>2, <1>3, <1>10, <1>11, <1>12, <1>13 DEF KernelActs

\* A step of an initiator leaves the targets' counts.
LEMMA InitiatorTargets ==
  ASSUME DataInv, NEW n \in Initiator, LtiStep(n), tg' = tg, now' = now, spent' \in [Initiator -> Nat],
         NEW m \in Target
  PROVE  lt'[m].toggle_count = lt[m].toggle_count /\ lt'[m].kind = lt[m].kind
<1>1. CASE Transport(n) \/ DmiOperation(n)
  <2>1. PICK tx, k : tx = lti[n].txn /\ k = PortOf(tg[n].pass)
    OBVIOUS
  <2>2. CarriedOut(tx, k)
    BY <1>1, <2>1, TransportServes, DmiServes
  <2>3. PICK f : lt' = [lt EXCEPT ![k].mem = f]
    BY <2>2, Zenon DEF CarriedOut
  <2>4. lt \in [Target -> LtShape]
    BY DEF DataInv, Types
  <2>5. lt'[m] = lt[m] \/ lt'[m] = [lt[m] EXCEPT !.mem = f]
    BY <2>3, <2>4
  <2>6. PICK r \in LtShape : r = lt[m]
    BY <2>4
  <2> QED BY <2>5, <2>6 DEF LtShape
<1>2. CASE ~(Transport(n) \/ DmiOperation(n))
  <2>1. lt' = lt
    BY <1>2 DEF LtiStep, ReceiveBlocks, Receive, SynchReturn, ReturnedWaits, ReturnedDecoupled, Synced,
                AskDmi, RespondBlocks, Respond
  <2> QED BY <2>1
<1> QED BY <1>1, <1>2

\* A toggle method leaves itself in its place and the others where they are.
LEMMA ToggleSteps ==
  ASSUME Core, OnePlace(simc), DataQuiet, UpdatesRequested, NEW m \in Target, toggle_dmi_method(m), TogglePlace(m)
  PROVE  /\ OnePlace(simc') /\ DataQuiet' /\ UpdatesRequested' /\ fifo' = fifo
         /\ simc.cur = ToggleDmi(m) /\ \A q \in Process : q # ToggleDmi(m) => Stays(q)
         /\ \A k \in Target : k # m => lt'[k] = lt[k]
         /\ TogglePlace(m)'
<1>0. PICK b \in Nat : b = LongestWait
  BY WaitFacts
<1>1. /\ Executing(ToggleDmi(m)) /\ fifo' = fifo /\ lt' = Toggled(m) /\ simc' = ToggleReturns(m)
      /\ simc.cur = ToggleDmi(m)
  BY DEF toggle_dmi_method, Executing
<1>2. KernelInv(b, simc) /\ lt \in [Target -> LtShape]
  BY <1>0 DEF Core, DataInv, Types
<1>3. simc.pend \in [Event -> -1..b]
  BY <1>2 DEF KernelInv, KernelOK, KernelShape
<1>4. PICK p \in Process : p = ToggleDmi(m) /\ p \in Method /\ p \notin Thread /\ Timeout[p] \in Event
  BY LtEvents
<1>5. PICK T \in Event : T = Timeout[p]
  BY <1>4
<1>6. \A q \in Process : q # p => Timeout[q] # T /\ Timeout[q] \in Event
  BY <1>4, <1>5, EventFacts
<1>7. \A ch \in Channel : /\ DataWritten(ch) \in Event /\ DataRead(ch) \in Event
                          /\ DataWritten(ch) # T /\ DataRead(ch) # T
  BY <1>5, EventFacts
<1> HIDE DEF Thread, Process, Method, Channel, Event, Timeout
<1>8. WaitsFor(simc, p) = {} /\ p \notin simc.runnable /\ ~Asleep(simc, p)
  BY <1>1, <1>4, Zenon DEF OnePlace, Asleep
<1>9. PICK s \in LtShape, c \in Nat : s = lt[m] /\ c = s.toggle_count
  BY <1>2 DEF LtShape
<1>10. simc.pend[T] = NotPending /\ c < MaxDmiToggleCount /\ s.kind = "dmi"
  <2>1. simc.pend[T] = NotPending /\ c <= MaxDmiToggleCount /\ c # MaxDmiToggleCount /\ s.kind = "dmi"
    BY <1>4, <1>5, <1>8, <1>9 DEF TogglePlace
  <2> QED BY <2>1 DEF MaxDmiToggleCount
<1>11. /\ lt'[m].toggle_count = c + 1 /\ lt'[m].kind = "dmi"
       /\ \A k \in Target : k # m => lt'[k] = lt[k]
  <2>1. PICK e : e = (~s.dmi_enabled /\ c + 1 < MaxDmiToggleCount)
    OBVIOUS
  <2>2. lt' = [lt EXCEPT ![m] = [s EXCEPT !.toggle_count = c + 1, !.dmi_enabled = e]]
    BY <1>1, <1>9, <2>1, Zenon DEF Toggled
  <2>3. /\ lt'[m] = [s EXCEPT !.toggle_count = c + 1, !.dmi_enabled = e]
        /\ \A k \in Target : k # m => lt'[k] = lt[k]
    BY <1>2, <2>2, Zenon
  <2> QED BY <1>10, <2>3 DEF LtShape
<1>12. CASE c + 1 >= MaxDmiToggleCount
  <2>1. simc' = Yield(simc)
    BY <1>1, <1>9, <1>12 DEF ToggleReturns
  <2>2. OnePlace(simc') /\ Sleeps(simc, simc', p, {}) /\ simc'.pend = simc.pend
    BY <1>1, <1>2, <1>4, <2>1, YieldPlaces
  <2>3. \A q \in Process : q # p => Stays(q)
    BY <1>1, <1>4, <2>2, OthersStay
  <2>4. DataQuiet' /\ UpdatesRequested'
    BY <1>1, <2>2 DEF DataQuiet, UpdatesRequested, Sleeps
  <2>5. WaitsFor(simc, ToggleDmi(m))' = {} /\ Asleep(simc, ToggleDmi(m))' /\ simc.pend[Timeout[ToggleDmi(m)]]' = NotPending
    <3>1. WaitsFor(simc', p) = {} /\ Asleep(simc', p) /\ simc'.pend[Timeout[p]] = NotPending
      BY <1>4, <1>5, <1>8, <1>10, <2>2, NobodyRuns DEF Sleeps, Asleep
    <3> QED BY <1>4, <3>1 DEF WaitsFor, Waiters, Asleep, ToggleDmi
  <2>6. lt[m].toggle_count' <= MaxDmiToggleCount /\ lt[m]'.kind = "dmi"
    BY <1>10, <1>11 DEF MaxDmiToggleCount
  <2>7. TogglePlace(m)'
    BY <2>5, <2>6 DEF TogglePlace
  <2> QED BY <1>1, <1>4, <1>11, <2>2, <2>3, <2>4, <2>7
<1>13. CASE ~(c + 1 >= MaxDmiToggleCount)
  <2>1. PICK t \in {StartDmiDelay, DmiDuration} : simc' = Yield(NextTriggerTime(simc, p, t))
    BY <1>1, <1>4, <1>9, <1>13 DEF ToggleReturns
  <2>2. t \in 0..b
    BY <1>0, <2>1, WaitFacts
  <2>3. OnePlace(simc') /\ Sleeps(simc, simc', p, {T}) /\ simc'.pend = [simc.pend EXCEPT ![T] = t]
    <3>1. PICK k, k2 : k = simc /\ k2 = Yield(NextTriggerTime(k, p, t))
      OBVIOUS
    <3>2. /\ KernelInv(b, k) /\ OnePlace(k) /\ p \in Method /\ p \notin Thread /\ k.cur = p
          /\ k.pend[Timeout[p]] = NotPending
      BY <1>1, <1>2, <1>4, <1>5, <1>10, <3>1
    <3>3. /\ KernelInv(b, k2) /\ OnePlace(k2) /\ Sleeps(k, k2, p, {Timeout[p]})
          /\ k2.pend = [k.pend EXCEPT ![Timeout[p]] = t]
      BY <2>2, <3>1, <3>2, TriggerTimePlaces
    <3> QED BY <1>5, <2>1, <3>1, <3>3
  <2>4. (\A e \in Event : e # T => simc'.pend[e] = simc.pend[e]) /\ simc'.pend[T] # NotPending
    BY <1>3, <2>2, <2>3 DEF NotPending
  <2>5. \A q \in Process : q # p => Stays(q)
    BY <1>1, <1>4, <1>6, <2>3, <2>4, OthersStay
  <2>6. DataQuiet' /\ UpdatesRequested'
    BY <1>1, <1>7, <2>3, <2>4 DEF DataQuiet, UpdatesRequested, Sleeps
  <2>7. WaitsFor(simc, ToggleDmi(m))' = {T} /\ simc.pend[Timeout[ToggleDmi(m)]]' # NotPending
    <3>1. WaitsFor(simc', p) = {T}
      BY <1>4, <2>3 DEF Sleeps
    <3> QED BY <1>4, <1>5, <2>4, <3>1 DEF WaitsFor, Waiters, ToggleDmi
  <2>8. /\ lt[m].toggle_count' <= MaxDmiToggleCount /\ lt[m].toggle_count' # MaxDmiToggleCount
        /\ lt[m]'.kind = "dmi"
    BY <1>10, <1>11, <1>13 DEF MaxDmiToggleCount
  <2>9. TogglePlace(m)'
    BY <1>4, <1>5, <2>7, <2>8 DEF TogglePlace
  <2> QED BY <1>1, <1>4, <1>11, <2>3, <2>5, <2>6, <2>9
<1> QED BY <1>12, <1>13

\* All processes are in their places.
Places ==
  /\ OnePlace(simc) /\ DataQuiet /\ UpdatesRequested
  /\ \A n \in Initiator : GenPlace(n) /\ IniPlace(n)
  /\ \A m \in Target : TogglePlace(m)

\* When the simulation starts every process is in the place its code starts from.
LEMMA PlacesInit ==
  ASSUME Init
  PROVE  Places
<1>1. PICK p \in Platforms : /\ LtInit(p.targets) /\ TgInit
                             /\ \E toggles \in Toggles(p.targets) : SharedInit(toggles \o ThreadOrder)
  BY DEF Init
<1>2. PICK ready \in Line(Process) : /\ SharedInit(ready)
                                     /\ Range(ready) = Thread \union {ToggleDmi(m) : m \in {k \in Target : p.targets[k] = "dmi"}}
  BY <1>1, ReadyLine
<1>3. /\ OnePlace(simc) /\ \A q \in Process : WaitsFor(simc, q) = {} /\ (Asleep(simc, q) <=> q \notin Range(ready))
  BY <1>2, InitPlaces, Zenon DEF SharedInit
<1>4. simc.pend = [e \in Event |-> NotPending] /\ fifo = [ch \in Channel |-> EmptyFifo]
  <2>1. PICK b \in Nat : b = LongestWait
    BY WaitFacts
  <2> QED BY <1>2, <2>1, InitKernelOK, Zenon DEF SharedInit
<1>5. DataQuiet
  BY <1>4, EventFacts DEF DataQuiet
<1>6. UpdatesRequested
  BY <1>4 DEF UpdatesRequested, EmptyFifo
<1>7. ASSUME NEW n \in Initiator PROVE GenPlace(n)
  <2>1. Tg(n) \in Thread /\ Tg(n) \in Process
    BY ThreadFacts, Zenon DEF Process, Tg
  <2>2. tg[n].pc = "issue"
    BY <1>1 DEF TgInit
  <2>3. WaitsFor(simc, Tg(n)) = {} /\ ~Asleep(simc, Tg(n))
    BY <1>2, <1>3, <2>1
  <2> QED BY <2>2, <2>3 DEF GenPlace, TgDone
<1>8. ASSUME NEW n \in Initiator PROVE IniPlace(n)
  <2>1. WaitsFor(simc, Ini(n)) = {} /\ ~Asleep(simc, Ini(n))
    BY <1>2, <1>3, LtEvents
  <2>2. simc.pend[Timeout[Ini(n)]] = NotPending
    BY <1>4, LtEvents
  <2>3. lti[n].pc = "get"
    BY DataInit
  <2> QED BY <2>1, <2>2, <2>3 DEF IniPlace
<1>9. ASSUME NEW m \in Target PROVE TogglePlace(m)
  <2>1. ToggleDmi(m) \in Process /\ ToggleDmi(m) \notin Thread /\ Timeout[ToggleDmi(m)] \in Event
    BY LtEvents
  <2>2. WaitsFor(simc, ToggleDmi(m)) = {} /\ simc.pend[Timeout[ToggleDmi(m)]] = NotPending
    BY <1>3, <1>4, <2>1
  <2>3. lt[m].toggle_count = 0 /\ lt[m].kind = p.targets[m]
    BY <1>1 DEF LtInit
  <2>4. lt[m].kind # "dmi" => Asleep(simc, ToggleDmi(m))
    <3>1. ToggleDmi(m) \in Range(ready) => p.targets[m] = "dmi"
      BY <1>2, <2>1 DEF ToggleDmi
    <3> QED BY <1>3, <2>1, <2>3, <3>1
  <2> QED BY <2>2, <2>3, <2>4 DEF TogglePlace, MaxDmiToggleCount
<1> QED BY <1>3, <1>5, <1>6, <1>7, <1>8, <1>9 DEF Places

\* A generator with an empty pool has a payload active, and one with no active
\* payload has none on the way.
LEMMA ActiveHeld ==
  ASSUME NEW n \in Initiator, Data(n)
  PROVE  /\ pool[n] = << >> => tg[n].active > 0
         /\ tg[n].active > 0 <=> Held(n) # {}
         /\ tg[n].active \in Nat
<1>1. /\ Held(n) \in SUBSET Payloads(n) /\ IsFiniteSet(Held(n)) /\ tg[n].active = Cardinality(Held(n))
      /\ Range(pool[n]) = Payloads(n) \ Held(n)
  BY AccountedSubset DEF Data
<1>2. Cardinality(Held(n)) \in Nat /\ (Cardinality(Held(n)) = 0 <=> Held(n) = {})
  BY <1>1, FS_CardinalityType, FS_EmptySet
<1>3. pool[n] = << >> => Held(n) # {}
  <2>1. <<n, 1>> \in Payloads(n)
    BY SizesAssumption DEF Payloads
  <2>2. pool[n] = << >> => Range(pool[n]) = {}
    BY DEF Range
  <2> QED BY <1>1, <2>1, <2>2
<1> QED BY <1>1, <1>2, <1>3

\* Each step leaves all processes in their places.
LEMMA PlacesNext ==
  ASSUME Core, Places, [Next]_vars
  PROVE  Places'
<1>0. PICK b \in Nat : b = LongestWait
  BY WaitFacts
<1>1. /\ KernelInv(b, simc) /\ DataInv /\ Shapes /\ Blocking /\ simc.pend \in [Event -> -1..b]
      /\ \A n \in Initiator : Data(n)
  BY <1>0, MapAssumption DEF Core, DataInv, KernelInv, KernelOK, KernelShape
<1>2. /\ OnePlace(simc) /\ DataQuiet /\ UpdatesRequested
      /\ \A n \in Initiator : GenPlace(n) /\ IniPlace(n)
      /\ \A m \in Target : TogglePlace(m)
  BY DEF Places
<1>3. \A ch \in Channel : \E n : fifo[ch] \in FifoShape(n)
  <2> SUFFICES ASSUME NEW ch \in Channel PROVE \E n : fifo[ch] \in FifoShape(n)
    OBVIOUS
  <2>1. PICK n \in Initiator : ch = ReqCh(n) \/ ch = RspCh(n)
    BY DEF Channel, ReqCh, RspCh
  <2> QED BY <1>1, <2>1 DEF Data, Accounted
<1>4. \A n \in Initiator : /\ Ini(n) \in Process /\ Tg(n) \in Process /\ Ini(n) # Tg(n)
                           /\ Req(n) \in Channel /\ Rsp(n) \in Channel /\ ReqCh(n) = Req(n) /\ RspCh(n) = Rsp(n)
                           /\ Req(n) # Rsp(n)
                           /\ \A m \in Initiator : m # n => /\ Req(m) # Req(n) /\ Rsp(m) # Rsp(n)
                                                            /\ Req(m) # Rsp(n) /\ Rsp(m) # Req(n)
                                                            /\ Ini(m) # Ini(n) /\ Tg(m) # Tg(n)
  <2> SUFFICES ASSUME NEW n \in Initiator
               PROVE  /\ Ini(n) \in Process /\ Tg(n) \in Process /\ Ini(n) # Tg(n)
                      /\ Req(n) \in Channel /\ Rsp(n) \in Channel /\ ReqCh(n) = Req(n) /\ RspCh(n) = Rsp(n)
                      /\ Req(n) # Rsp(n)
                      /\ \A m \in Initiator : m # n => /\ Req(m) # Req(n) /\ Rsp(m) # Rsp(n)
                                                       /\ Req(m) # Rsp(n) /\ Rsp(m) # Req(n)
                                                       /\ Ini(m) # Ini(n) /\ Tg(m) # Tg(n)
    OBVIOUS
  <2>1. Tg(n) \in Process
    BY ThreadFacts, Zenon DEF Process, Tg
  <2>2. /\ Ini(n) \in Process /\ Ini(n) # Tg(n) /\ ReqCh(n) = Req(n) /\ RspCh(n) = Rsp(n)
        /\ Req(n) \in Channel /\ Rsp(n) \in Channel
    BY LtEvents
  <2>3. \A m \in Initiator : m # n => Ini(m) # Ini(n) /\ Tg(m) # Tg(n)
    BY DEF Ini, Tg
  <2>4. /\ Req(n) # Rsp(n)
        /\ \A m \in Initiator : m # n => /\ Req(m) # Req(n) /\ Rsp(m) # Rsp(n)
                                         /\ Req(m) # Rsp(n) /\ Rsp(m) # Req(n)
    BY DEF Req, Rsp
  <2> QED BY <2>1, <2>2, <2>3, <2>4
<1>5. \A m \in Target : /\ ToggleDmi(m) \in Process
                        /\ \A n \in Initiator : ToggleDmi(m) # Ini(n) /\ ToggleDmi(m) # Tg(n)
                        /\ \A k \in Target : k # m => ToggleDmi(k) # ToggleDmi(m)
  <2>1. \A m \in Target : ToggleDmi(m) \in Process
    BY LtEvents
  <2>2. \A m \in Target, n \in Initiator : ToggleDmi(m) # Ini(n) /\ ToggleDmi(m) # Tg(n)
    BY DEF ToggleDmi, Ini, Tg
  <2>3. \A m \in Target : \A k \in Target : k # m => ToggleDmi(k) # ToggleDmi(m)
    BY DEF ToggleDmi
  <2> QED BY <2>1, <2>2, <2>3
<1> HIDE DEF Process, Thread, Method, Channel, Event, Timeout
<1>6. CASE UNCHANGED vars
  <2>1. simc' = simc /\ fifo' = fifo /\ tg' = tg /\ lti' = lti /\ lt' = lt
    BY <1>6 DEF vars, shared
  <2>2. OnePlace(simc') /\ DataQuiet' /\ UpdatesRequested'
    BY <1>2, <2>1 DEF DataQuiet, UpdatesRequested
  <2>3. \A q : WaitsFor(simc, q)' = WaitsFor(simc, q) /\ (Asleep(simc, q)' <=> Asleep(simc, q))
    BY <2>1 DEF WaitsFor, Waiters, Asleep
  <2>4. \A ch : NumAvailable(ch)' = NumAvailable(ch) /\ NumFree(ch)' = NumFree(ch)
    BY <2>1 DEF NumAvailable, NumFree
  <2>5. ASSUME NEW n \in Initiator PROVE GenPlace(n)'
    <3>1. /\ WaitsFor(simc, Tg(n))' = WaitsFor(simc, Tg(n)) /\ (Asleep(simc, Tg(n))' <=> Asleep(simc, Tg(n)))
          /\ NumAvailable(RspCh(n))' = NumAvailable(RspCh(n)) /\ NumFree(ReqCh(n))' = NumFree(ReqCh(n))
      BY <2>3, <2>4 DEF Tg, RspCh, ReqCh
    <3> QED BY <1>2, <2>1, <3>1 DEF GenPlace, TgDone
  <2>6. ASSUME NEW n \in Initiator PROVE IniPlace(n)'
    <3>1. /\ WaitsFor(simc, Ini(n))' = WaitsFor(simc, Ini(n)) /\ (Asleep(simc, Ini(n))' <=> Asleep(simc, Ini(n)))
          /\ NumAvailable(Req(n))' = NumAvailable(Req(n)) /\ NumFree(Rsp(n))' = NumFree(Rsp(n))
      BY <2>3, <2>4 DEF Ini, Rsp, Req
    <3> QED BY <1>2, <2>1, <3>1 DEF IniPlace
  <2>7. ASSUME NEW m \in Target PROVE TogglePlace(m)'
    <3>1. /\ WaitsFor(simc, ToggleDmi(m))' = WaitsFor(simc, ToggleDmi(m))
          /\ Asleep(simc, ToggleDmi(m))' <=> Asleep(simc, ToggleDmi(m))
      BY <2>3 DEF ToggleDmi
    <3> QED BY <1>2, <2>1, <3>1 DEF TogglePlace
  <2> QED BY <2>2, <2>5, <2>6, <2>7 DEF Places
<1>7. CASE AdvanceTime /\ now' = now + NextTime(simc) /\ UNCHANGED <<tg, lti, lt, spent>>
  <2>1. PICK d, D : d = NextTime(simc) /\ D = DueAt(simc, d)
    OBVIOUS
  <2>2. OnePlace(simc') /\ UpdatesRequested' /\ DataQuiet' /\ TimeWakes(d) /\ fifo' = fifo
    BY <1>1, <1>2, <1>7, <2>1, TimePlaces
  <2>3. Rings(D) /\ Wakes(D) /\ simc.cur = Nobody /\ tg' = tg /\ lti' = lti /\ lt' = lt
    BY <1>1, <1>7, <2>1, <2>2, TimeRings DEF TimeWakes
  <2>4. \A ch \in Channel : NumAvailable(ch)' = NumAvailable(ch) /\ NumFree(ch)' = NumFree(ch)
    BY <2>2 DEF NumAvailable, NumFree
  <2>5. ASSUME NEW n \in Initiator PROVE GenPlace(n)' /\ IniPlace(n)'
    BY <1>2, <1>4, <2>3, <2>4, GenWoken, IniWoken
  <2>6. ASSUME NEW m \in Target PROVE TogglePlace(m)'
    BY <1>2, <2>3, ToggleWoken
  <2> QED BY <2>2, <2>5, <2>6 DEF Places
<1>8. CASE DeltaCycle /\ UNCHANGED <<tg, lti, lt, now, spent>>
  <2>1. OnePlace(simc') /\ UpdatesRequested' /\ DataQuiet' /\ \E D : DeltaWakes(D)
    BY <1>1, <1>2, <1>3, <1>8, DeltaPlaces
  <2>2. PICK D : DeltaWakes(D)
    BY <2>1
  <2>3. Rings(D) /\ Wakes(D) /\ simc.cur = Nobody /\ tg' = tg /\ lti' = lti /\ lt' = lt
    BY <1>8, <2>2, DeltaRings DEF DeltaWakes
  <2>4. \A ch \in Channel : /\ DataWritten(ch) \notin D => NumAvailable(ch)' = NumAvailable(ch)
                            /\ DataRead(ch) \notin D => NumFree(ch)' = NumFree(ch)
    BY <2>2 DEF DeltaWakes
  <2>5. ASSUME NEW n \in Initiator PROVE GenPlace(n)' /\ IniPlace(n)'
    BY <1>2, <1>4, <2>3, <2>4, GenWoken, IniWoken
  <2>6. ASSUME NEW m \in Target PROVE TogglePlace(m)'
    BY <1>2, <2>3, ToggleWoken
  <2> QED BY <2>1, <2>5, <2>6 DEF Places
<1>9. CASE Dispatch /\ UNCHANGED <<tg, lti, lt, now, spent>>
  <2>1. /\ OnePlace(simc') /\ UpdatesRequested' /\ DataQuiet' /\ simc.cur = Nobody /\ fifo' = fifo
        /\ \A q \in Process : Stays(q)
    BY <1>1, <1>2, <1>9, DispatchPlaces
  <2>2. \A ch \in Channel : NumAvailable(ch)' = NumAvailable(ch) /\ NumFree(ch)' = NumFree(ch)
    BY <2>1 DEF NumAvailable, NumFree
  <2>3. ASSUME NEW n \in Initiator PROVE GenPlace(n)'
    BY <1>2, <1>4, <1>9, <2>1, <2>2, GenFrame
  <2>4. ASSUME NEW n \in Initiator PROVE IniPlace(n)'
    <3>1. simc.cur # Ini(n)
      BY <1>4, <2>1, NobodyRuns
    <3> QED BY <1>2, <1>4, <1>9, <2>1, <2>2, <3>1, IniFrame
  <2>5. ASSUME NEW m \in Target PROVE TogglePlace(m)'
    BY <1>2, <1>5, <1>9, <2>1, ToggleFrame
  <2> QED BY <2>1, <2>3, <2>4, <2>5 DEF Places
<1>10. ASSUME NEW n \in Initiator, TgStep(n), UNCHANGED <<lti, lt, now, spent>> PROVE Places'
  <2>1. GenActs(n) /\ GenPlace(n)' /\ UpdatesRequested' /\ simc.cur = Tg(n)
    <3>1. pool[n] = << >> => tg[n].active > 0
      BY <1>1, ActiveHeld
    <3>2. Accounted(n, Away(n), Held(n))
      BY <1>1 DEF Data
    <3> QED BY <1>1, <1>2, <1>10, <3>1, <3>2, GenSteps
  <2>2. /\ OnePlace(simc') /\ simc'.pend = simc.pend
        /\ \A q \in Process : q # Tg(n) => Stays(q)
        /\ NumAvailable(Req(n))' = NumAvailable(Req(n)) /\ NumFree(Rsp(n))' = NumFree(Rsp(n))
        /\ \A ch \in Channel : ch \notin {Req(n), Rsp(n)} => fifo'[ch] = fifo[ch]
    BY <2>1 DEF GenActs, Req, Rsp, ReqCh, RspCh
  <2>3. DataQuiet'
    BY <1>2, <2>2 DEF DataQuiet
  <2>4. \A ch \in Channel : ch \notin {Req(n), Rsp(n)} =>
          NumAvailable(ch)' = NumAvailable(ch) /\ NumFree(ch)' = NumFree(ch)
    BY <2>2 DEF NumAvailable, NumFree
  <2>5. ASSUME NEW m \in Initiator, m # n
        PROVE  /\ NumAvailable(Req(m))' = NumAvailable(Req(m)) /\ NumFree(Rsp(m))' = NumFree(Rsp(m))
               /\ NumAvailable(RspCh(m))' = NumAvailable(RspCh(m)) /\ NumFree(ReqCh(m))' = NumFree(ReqCh(m))
    <3>1. Req(m) \notin {Req(n), Rsp(n)} /\ Rsp(m) \notin {Req(n), Rsp(n)}
      BY <1>4, <2>5
    <3>2. /\ NumAvailable(Req(m))' = NumAvailable(Req(m)) /\ NumFree(Rsp(m))' = NumFree(Rsp(m))
          /\ NumAvailable(Rsp(m))' = NumAvailable(Rsp(m)) /\ NumFree(Req(m))' = NumFree(Req(m))
      BY <1>4, <2>4, <3>1
    <3> QED BY <3>2 DEF Req, Rsp, ReqCh, RspCh
  <2>6. ASSUME NEW m \in Initiator PROVE GenPlace(m)'
    <3>1. CASE m = n
      BY <2>1, <3>1
    <3>2. CASE m # n
      <4>1. tg'[m] = tg[m]
        BY <1>10, <3>2 DEF TgStep, Issue, Skip, PutBlocks, Put, Check, GetBlocks, Get, Drain, Drained, Set, Shapes, Core, DataInv
      <4>2. Stays(Tg(m))
        BY <1>4, <2>2, <3>2
      <4> QED BY <1>2, <2>5, <3>2, <4>1, <4>2, GenFrame
    <3> QED BY <3>1, <3>2
  <2>7. ASSUME NEW m \in Initiator PROVE IniPlace(m)'
    <3>1. Stays(Ini(m)) /\ simc.cur # Ini(m)
      <4>1. Ini(m) # Tg(n)
        BY DEF Ini, Tg
      <4> QED BY <1>4, <2>1, <2>2, <4>1
    <3>2. NumAvailable(Req(m))' = NumAvailable(Req(m)) /\ NumFree(Rsp(m))' = NumFree(Rsp(m))
      BY <2>2, <2>5
    <3> QED BY <1>2, <1>10, <3>1, <3>2, IniFrame
  <2>8. ASSUME NEW m \in Target PROVE TogglePlace(m)'
    BY <1>2, <1>5, <1>10, <2>2, ToggleFrame
  <2> QED BY <2>1, <2>2, <2>3, <2>6, <2>7, <2>8 DEF Places
<1>11. ASSUME NEW n \in Initiator, LtiStep(n), UNCHANGED <<tg, now>>, spent' \in [Initiator -> Nat] PROVE Places'
  <2>1. IniActs(n) /\ IniPlace(n)'
    BY <1>2, <1>11, IniSteps
  <2>2. /\ OnePlace(simc') /\ DataQuiet' /\ UpdatesRequested'
        /\ simc.cur = Ini(n) /\ \A q \in Process : q # Ini(n) => Stays(q)
        /\ NumAvailable(Rsp(n))' = NumAvailable(Rsp(n)) /\ NumFree(Req(n))' = NumFree(Req(n))
        /\ \A ch \in Channel : ch \notin {Req(n), Rsp(n)} => fifo'[ch] = fifo[ch]
    BY <2>1 DEF IniActs
  <2>3. \A ch \in Channel : ch \notin {Req(n), Rsp(n)} =>
          NumAvailable(ch)' = NumAvailable(ch) /\ NumFree(ch)' = NumFree(ch)
    BY <2>2 DEF NumAvailable, NumFree
  <2>4. ASSUME NEW m \in Initiator, m # n
        PROVE  /\ NumAvailable(Req(m))' = NumAvailable(Req(m)) /\ NumFree(Rsp(m))' = NumFree(Rsp(m))
               /\ NumAvailable(Rsp(m))' = NumAvailable(Rsp(m)) /\ NumFree(Req(m))' = NumFree(Req(m))
    <3>1. Req(m) \notin {Req(n), Rsp(n)} /\ Rsp(m) \notin {Req(n), Rsp(n)}
      BY <1>4, <2>4
    <3>2. /\ NumAvailable(Req(m))' = NumAvailable(Req(m)) /\ NumFree(Rsp(m))' = NumFree(Rsp(m))
          /\ NumAvailable(Rsp(m))' = NumAvailable(Rsp(m)) /\ NumFree(Req(m))' = NumFree(Req(m))
      BY <1>4, <2>3, <3>1
    <3> QED BY <3>2
  <2>5. ASSUME NEW m \in Initiator PROVE GenPlace(m)'
    <3>1. tg'[m] = tg[m] /\ Stays(Tg(m))
      <4>1. Ini(n) # Tg(m)
        BY DEF Ini, Tg
      <4> QED BY <1>4, <1>11, <2>2, <4>1
    <3>2. NumAvailable(RspCh(m))' = NumAvailable(RspCh(m)) /\ NumFree(ReqCh(m))' = NumFree(ReqCh(m))
      BY <2>2, <2>4 DEF Req, Rsp, ReqCh, RspCh
    <3> QED BY <1>2, <3>1, <3>2, GenFrame
  <2>6. ASSUME NEW m \in Initiator PROVE IniPlace(m)'
    <3>1. CASE m = n
      BY <2>1, <3>1
    <3>2. CASE m # n
      <4>1. lti'[m] = lti[m]
        <5>1. PICK s \in LtiShape, s2 \in {lti'[n]} : s = lti[n] /\ s2 = lti'[n]
          BY <1>1 DEF DataInv, Types
        <5>2. lti' = [lti EXCEPT ![n] = s2] /\ lti \in [Initiator -> LtiShape]
          BY <1>1, <1>11, <5>1, InitiatorSteps DEF DataInv, Types
        <5> QED BY <3>2, <5>2
      <4>2. Stays(Ini(m)) /\ simc.cur # Ini(m)
        BY <1>4, <2>2, <3>2
      <4> QED BY <1>2, <2>4, <3>2, <4>1, <4>2, IniFrame
    <3> QED BY <3>1, <3>2
  <2>7. ASSUME NEW m \in Target PROVE TogglePlace(m)'
    <3>1. lt'[m].toggle_count = lt[m].toggle_count /\ lt'[m].kind = lt[m].kind
      BY <1>1, <1>11, InitiatorTargets
    <3> QED BY <1>2, <1>5, <2>2, <3>1, ToggleFrame
  <2> QED BY <2>2, <2>5, <2>6, <2>7 DEF Places
<1>12. ASSUME NEW m \in Target, toggle_dmi_method(m), UNCHANGED <<tg, now, spent>> PROVE Places'
  <2>1. /\ OnePlace(simc') /\ DataQuiet' /\ UpdatesRequested' /\ fifo' = fifo
        /\ simc.cur = ToggleDmi(m) /\ \A q \in Process : q # ToggleDmi(m) => Stays(q)
        /\ \A k \in Target : k # m => lt'[k] = lt[k]
        /\ TogglePlace(m)'
    BY <1>2, <1>12, ToggleSteps
  <2>2. \A ch \in Channel : NumAvailable(ch)' = NumAvailable(ch) /\ NumFree(ch)' = NumFree(ch)
    BY <2>1 DEF NumAvailable, NumFree
  <2>3. \A n \in Initiator : lti'[n].pc = lti[n].pc
    BY <1>1, <1>12, ToggleData
  <2>4. ASSUME NEW n \in Initiator PROVE GenPlace(n)'
    BY <1>2, <1>4, <1>5, <1>12, <2>1, <2>2, GenFrame
  <2>5. ASSUME NEW n \in Initiator PROVE IniPlace(n)'
    BY <1>2, <1>4, <1>5, <2>1, <2>2, <2>3, IniFrame
  <2>6. ASSUME NEW k \in Target PROVE TogglePlace(k)'
    <3>1. CASE k = m
      BY <2>1, <3>1
    <3>2. CASE k # m
      BY <1>2, <1>5, <2>1, <3>2, ToggleFrame
    <3> QED BY <3>1, <3>2
  <2> QED BY <2>1, <2>4, <2>5, <2>6 DEF Places
<1>13. ASSUME NEW n \in Initiator, LtiStep(n), UNCHANGED <<tg, now>>,
              spent' = IF At(n, "request") THEN [spent EXCEPT ![n] = @ + Cost(n)] ELSE spent
       PROVE  Places'
  BY <1>1, <1>11, <1>13, SpentType
<1> QED BY <1>6, <1>7, <1>8, <1>9, <1>10, <1>12, <1>13 DEF Next, Step

-----------------------------------------------------------------------------
(* Time does not pass while a transaction waits for a fifo *)

\* A line has as many elements as it is long.
LEMMA LineSize ==
  ASSUME NEW S, NEW s \in Line(S)
  PROVE  IsFiniteSet(Range(s)) /\ Cardinality(Range(s)) = Len(s)
<1>1. s \in Seq(S) /\ IsInjective(s) /\ Len(s) \in Nat /\ DOMAIN s = 1..Len(s)
  BY DEF Line
<1>2. PICK D, R : D = 1..Len(s) /\ R = Range(s)
  OBVIOUS
<1>3. s \in [D -> R]
  BY <1>1, <1>2 DEF Range
<1>4. s \in Surjection(D, R) /\ s \in Injection(D, R)
  BY <1>1, <1>2, <1>3 DEF Surjection, Injection, Range
<1>5. IsFiniteSet(D) /\ Cardinality(D) = Len(s)
  <2>1. Len(s) \in Int /\ 1 \in Int
    BY <1>1
  <2>2. IsFiniteSet(1..Len(s)) /\ Cardinality(1..Len(s)) = IF 1 > Len(s) THEN 0 ELSE Len(s) - 1 + 1
    BY ONLY <2>1, FS_Interval
  <2> QED BY <1>1, <1>2, <2>2
<1>6. IsFiniteSet(R) /\ (Cardinality(R) = Cardinality(D) <=> s \in Injection(D, R))
  BY ONLY <1>4, <1>5, FS_Surjection
<1> QED BY <1>2, <1>4, <1>5, <1>6

\* Disjoint finite sets.
LEMMA DisjointSize ==
  ASSUME NEW S, NEW T, IsFiniteSet(S), IsFiniteSet(T), \A x \in S : x \notin T
  PROVE  IsFiniteSet(S \union T) /\ Cardinality(S \union T) = Cardinality(S) + Cardinality(T)
<1>1. S \cap T = {}
  OBVIOUS
<1>2. Cardinality(S \cap T) = 0
  BY <1>1, FS_EmptySet
<1>3. IsFiniteSet(S \cup T) /\ Cardinality(S \cup T) = Cardinality(S) + Cardinality(T) - Cardinality(S \cap T)
  BY ONLY FS_Union, IsFiniteSet(S), IsFiniteSet(T)
<1>4. Cardinality(S) \in Nat /\ Cardinality(T) \in Nat
  BY FS_CardinalityType
<1> QED BY <1>2, <1>3, <1>4

\* A generator that waits to put a payload and an initiator that waits to put a
\* response cannot both find their fifos full: there are too few payloads.
LEMMA NotBothFull ==
  ASSUME NEW n \in Initiator, NEW away, NEW held, Accounted(n, away, held),
         NEW tx, NEW ty, Putting(n) = {tx}, away = {ty}
  PROVE  ~(Len(fifo[ReqCh(n)].items) = FifoDepth /\ Len(fifo[RspCh(n)].items) = FifoDepth)
<1> SUFFICES ASSUME Len(fifo[ReqCh(n)].items) = FifoDepth, Len(fifo[RspCh(n)].items) = FifoDepth
             PROVE  FALSE
  OBVIOUS
<1>1. PICK p, q, r : p = Putting(n) /\ q = Requested(n) /\ r = Responded(n)
  OBVIOUS
<1>2. /\ held = p \union q \union r \union away
      /\ p \intersect (q \union r \union away) = {} /\ q \intersect (r \union away) = {}
      /\ r \intersect away = {}
  BY <1>1 DEF Accounted
<1>3. IsFiniteSet(q) /\ Cardinality(q) = FifoDepth /\ IsFiniteSet(r) /\ Cardinality(r) = FifoDepth
  <2>1. fifo[ReqCh(n)].items \in Line(Payloads(n)) /\ fifo[RspCh(n)].items \in Line(Payloads(n))
    BY DEF Accounted, FifoShape, FifoFields
  <2> QED BY <1>1, <2>1, LineSize DEF Requested, Responded
<1>4. IsFiniteSet(p) /\ Cardinality(p) = 1 /\ IsFiniteSet(away) /\ Cardinality(away) = 1
  BY <1>1, FS_Singleton
<1>5. IsFiniteSet(r \union away) /\ Cardinality(r \union away) = FifoDepth + 1
  <2>1. \A x \in r : x \notin away
    BY <1>2
  <2> QED BY ONLY <1>3, <1>4, <2>1, DisjointSize
<1>6. IsFiniteSet(q \union (r \union away)) /\ Cardinality(q \union (r \union away)) = FifoDepth + (FifoDepth + 1)
  <2>1. \A x \in q : x \notin (r \union away)
    BY <1>2
  <2>2. PICK u : u = r \union away
    OBVIOUS
  <2>3. IsFiniteSet(q \union u) /\ Cardinality(q \union u) = Cardinality(q) + Cardinality(u)
    BY ONLY <1>3, <1>5, <2>1, <2>2, DisjointSize
  <2> QED BY <1>3, <1>5, <2>2, <2>3
<1>7. Cardinality(p \union (q \union (r \union away))) = 1 + (FifoDepth + (FifoDepth + 1))
  <2>1. PICK u : u = q \union (r \union away)
    OBVIOUS
  <2>2. \A x \in p : x \notin u
    BY <1>2, <2>1
  <2>3. IsFiniteSet(p \union u) /\ Cardinality(p \union u) = Cardinality(p) + Cardinality(u)
    BY ONLY <1>4, <1>6, <2>1, <2>2, DisjointSize
  <2> QED BY <1>4, <1>6, <2>1, <2>3
<1>8. held = p \union (q \union (r \union away))
  BY <1>2
<1>9. held \in SUBSET Payloads(n)
  BY AccountedSubset
<1>10. IsFiniteSet(Payloads(n)) /\ Cardinality(Payloads(n)) = MaxTxns
  <2>1. MaxTxns \in Nat \ {0}
    BY SizesAssumption
  <2>2. IsFiniteSet(1..MaxTxns) /\ Cardinality(1..MaxTxns) = IF 1 > MaxTxns THEN 0 ELSE MaxTxns - 1 + 1
    BY ONLY <2>1, FS_Interval
  <2>3. IsFiniteSet({n}) /\ Cardinality({n}) = 1
    BY FS_Singleton
  <2>4. PICK S, T : S = {n} /\ T = 1..MaxTxns
    OBVIOUS
  <2>5. IsFiniteSet(S) /\ IsFiniteSet(T) /\ Cardinality(S) = 1 /\ Cardinality(T) = MaxTxns
    BY <2>1, <2>2, <2>3, <2>4
  <2>6. IsFiniteSet(S \X T) /\ Cardinality(S \X T) = Cardinality(S) * Cardinality(T)
    BY ONLY <2>5, FS_Product
  <2>7. IsFiniteSet(S \X T) /\ Cardinality(S \X T) = MaxTxns
    BY <2>1, <2>5, <2>6
  <2> QED BY <2>4, <2>7 DEF Payloads
<1>11. Cardinality(held) <= Cardinality(Payloads(n))
  BY ONLY <1>9, <1>10, FS_Subset
<1>12. MaxTxns \in Nat /\ FifoDepth \in Nat /\ MaxTxns <= 2 * FifoDepth + 1
  BY SizesAssumption, DepthAssumption, PoolAssumption
<1> QED BY <1>7, <1>8, <1>10, <1>11, <1>12

\* What the counts of a fifo say of its items when it is not to be updated.
LEMMA SettledFifo ==
  ASSUME UpdatesRequested, simc.update = << >>, NEW n, NEW ch \in Channel, fifo[ch] \in FifoShape(n)
  PROVE  NumAvailable(ch) = Len(fifo[ch].items) /\ NumFree(ch) = FifoDepth - Len(fifo[ch].items)
         /\ Len(fifo[ch].items) \in Nat
<1>1. PICK f \in FifoFields(n) : f = fifo[ch] /\ f.read <= f.readable /\ Len(f.items) = f.readable - f.read + f.written
  BY DEF FifoShape
<1>2. f.readable \in Nat /\ f.read \in Nat /\ f.written \in Nat
  BY DEF FifoFields
<1>3. Range(simc.update) = {}
  BY DEF Range
<1>4. ~(f.read > 0 \/ f.written > 0)
  BY <1>1, <1>3 DEF UpdatesRequested
<1>5. f.read = 0 /\ f.written = 0 /\ Len(f.items) = f.readable
  BY <1>1, <1>2, <1>4
<1> QED BY <1>1, <1>2, <1>5, DepthAssumption DEF NumAvailable, NumFree

\* With nothing to run and nothing to update, an initiator whose generator is not
\* done waits for the time of a call, never for a fifo.
LEMMA WaitsForTime ==
  ASSUME Core, Places, simc.update = << >>, NEW n \in Initiator, ~TgDone(n),
         Asleep(simc, Ini(n)), Asleep(simc, Tg(n))
  PROVE  Timeout[Ini(n)] \in WaitsFor(simc, Ini(n))
<1> HIDE DEF Timeout, Channel
<1>1. /\ UpdatesRequested /\ GenPlace(n) /\ IniPlace(n) /\ Data(n)
      /\ Accounted(n, Away(n), Held(n)) /\ ReqCh(n) \in Channel /\ RspCh(n) \in Channel
      /\ Req(n) = ReqCh(n) /\ Rsp(n) = RspCh(n)
  BY LtEvents, Zenon DEF Places, Core, DataInv, Data
<1>2. PICK a \in Nat, c \in Nat :
        /\ a = Len(fifo[ReqCh(n)].items) /\ c = Len(fifo[RspCh(n)].items)
        /\ NumAvailable(ReqCh(n)) = a /\ NumFree(ReqCh(n)) = FifoDepth - a
        /\ NumAvailable(RspCh(n)) = c /\ NumFree(RspCh(n)) = FifoDepth - c
  <2>1. fifo[ReqCh(n)] \in FifoShape(n) /\ fifo[RspCh(n)] \in FifoShape(n)
    BY <1>1 DEF Accounted
  <2>2. /\ NumAvailable(ReqCh(n)) = Len(fifo[ReqCh(n)].items) /\ Len(fifo[ReqCh(n)].items) \in Nat
        /\ NumFree(ReqCh(n)) = FifoDepth - Len(fifo[ReqCh(n)].items)
    BY <1>1, <2>1, SettledFifo
  <2>3. /\ NumAvailable(RspCh(n)) = Len(fifo[RspCh(n)].items) /\ Len(fifo[RspCh(n)].items) \in Nat
        /\ NumFree(RspCh(n)) = FifoDepth - Len(fifo[RspCh(n)].items)
    BY <1>1, <2>1, SettledFifo
  <2> QED BY <2>2, <2>3
<1>3. /\ fifo[ReqCh(n)].items \in Line(Payloads(n)) /\ fifo[RspCh(n)].items \in Line(Payloads(n))
      /\ a = 0 => Requested(n) = {}
      /\ c = 0 => Responded(n) = {}
  <2>1. fifo[ReqCh(n)].items \in Line(Payloads(n)) /\ fifo[RspCh(n)].items \in Line(Payloads(n))
    BY <1>1 DEF Accounted, FifoShape, FifoFields
  <2>2. (a = 0 => fifo[ReqCh(n)].items = << >>) /\ (c = 0 => fifo[RspCh(n)].items = << >>)
    BY <1>2, <2>1, RangeOfLine
  <2> QED BY <2>1, <2>2 DEF Requested, Responded, Range
<1>4. FifoDepth \in Nat /\ FifoDepth # 0
  BY DepthAssumption
\* What the generator waits for.
<1>5. \/ tg[n].pc = "get" /\ c = 0 /\ tg[n].active > 0
      \/ tg[n].pc = "put" /\ FifoDepth - a = 0
  BY <1>1, <1>2 DEF GenPlace
<1>6. Putting(n) = {tg[n].txn} \/ (Putting(n) = {} /\ tg[n].pc # "put")
  BY DEF Putting
\* What the initiator waits for, if not for time.
<1> SUFFICES ASSUME Timeout[Ini(n)] \notin WaitsFor(simc, Ini(n)) PROVE FALSE
  OBVIOUS
<1>7. \/ lti[n].pc = "get" /\ a = 0
      \/ lti[n].pc = "respond" /\ FifoDepth - c = 0
  BY <1>1, <1>2 DEF IniPlace
<1>8. CASE lti[n].pc = "get" /\ a = 0
  <2>1. tg[n].pc = "get" /\ c = 0 /\ tg[n].active > 0
    BY <1>4, <1>5, <1>8
  <2>2. Held(n) # {}
    BY <1>1, <2>1, ActiveHeld
  <2>3. Held(n) = Putting(n) \union Requested(n) \union Responded(n) \union Away(n)
    BY <1>1 DEF Accounted
  <2>4. Away(n) = {} /\ Putting(n) = {}
    BY <1>8, <2>1 DEF Away, Putting
  <2> QED BY <1>3, <1>8, <2>1, <2>2, <2>3, <2>4
<1>9. CASE lti[n].pc = "respond" /\ FifoDepth - c = 0
  <2>1. tg[n].pc = "put" /\ a = FifoDepth /\ c = FifoDepth
    BY <1>2, <1>4, <1>5, <1>9
  <2>2. Putting(n) = {tg[n].txn} /\ Away(n) = {lti[n].txn}
    BY <1>9, <2>1 DEF Putting, Away
  <2>3. PICK away, held, tx, ty : /\ away = Away(n) /\ held = Held(n) /\ tx = tg[n].txn /\ ty = lti[n].txn
    OBVIOUS
  <2>4. Accounted(n, away, held) /\ Putting(n) = {tx} /\ away = {ty}
    BY <1>1, <2>2, <2>3
  <2>5. Len(fifo[ReqCh(n)].items) = FifoDepth /\ Len(fifo[RspCh(n)].items) = FifoDepth
    BY <1>2, <2>1
  <2> QED BY <2>4, <2>5, NotBothFull
<1> QED BY <1>7, <1>8, <1>9

-----------------------------------------------------------------------------
(* The initiators' own time *)

\* What is left of an initiator's wait for a time.
Left(n) == LET t == simc.pend[Timeout[Ini(n)]] IN IF t = NotPending THEN 0 ELSE t

\* How far an initiator's own time is ahead of the kernel's: the delay of its call,
\* what is left of its wait, and its local time.
Ahead(n) ==
  LET s == lti[n] IN
  CASE s.pc \in {"request", "returned"} -> s.delay
    [] s.pc \in {"inside", "sync"} -> Left(n)
    [] OTHER -> Left(n) + s.keeper.local

\* An initiator's own time is the time of its transactions; it goes on without
\* synchronizing only before its sync point.
Times(n) ==
  LET s == lti[n] IN
  /\ s.kind = "td" => s.pc # "ask" /\ (s.pc = "respond" => Left(n) = 0)
  /\ s.kind # "td" => s.pc # "sync"
  /\ s.pc \in {"get", "request", "respond"} /\ ~TgDone(n) =>
       s.keeper.local = 0 \/ now + s.keeper.local < s.keeper.next
  /\ ~TgDone(n) => spent[n] = now + Ahead(n)

\* A step that leaves initiator n and its time alone.
LEMMA TimesFrame ==
  ASSUME NEW n \in Initiator, Times(n), Left(n)' = Left(n), now' = now, spent'[n] = spent[n],
         lti'[n].pc = lti[n].pc, lti'[n].kind = lti[n].kind, lti'[n].delay = lti[n].delay,
         lti'[n].keeper = lti[n].keeper, TgDone(n) => TgDone(n)'
  PROVE  Times(n)'
<1>1. Ahead(n)' = Ahead(n)
  BY DEF Ahead
<1> QED BY <1>1 DEF Times

\* Where an initiator's wait is not disturbed, neither is what is left of it.
LEMMA LeftFrame ==
  ASSUME NEW n, Stays(Ini(n))
  PROVE  Left(n)' = Left(n)
<1>1. simc.pend[Timeout[Ini(n)]]' = simc.pend[Timeout[Ini(n)]]
  BY DEF Stays, Ini
<1> QED BY <1>1 DEF Left

\* After its step an initiator waits for the time it asked for, or for none.
LEMMA LeftAfter ==
  ASSUME Core, Places, NEW n \in Initiator, LtiStep(n)
  PROVE  /\ Left(n) = 0
         /\ simc'.pend = simc.pend => Left(n)' = 0
         /\ \A t \in 0..LongestWait : simc' = WaitTime(simc, Ini(n), t) => Left(n)' = t
<1>0. PICK b \in Nat : b = LongestWait
  BY WaitFacts
<1>1. /\ KernelInv(b, simc) /\ OnePlace(simc) /\ IniPlace(n)
      /\ Ini(n) \in Thread /\ Timeout[Ini(n)] \in Event /\ simc.pend \in [Event -> -1..b]
  BY <1>0, LtEvents DEF Core, Places, KernelInv, KernelOK, KernelShape
<1>2. WaitsFor(simc, Ini(n)) = {} /\ simc.cur = Ini(n)
  BY IniSteps DEF Places, IniActs
<1>3. simc.pend[Timeout[Ini(n)]] = NotPending
  BY <1>1, <1>2 DEF IniPlace
<1> HIDE DEF Thread, Event, Timeout
<1>4. Left(n) = 0
  BY <1>3 DEF Left
<1>5. ASSUME simc'.pend = simc.pend PROVE Left(n)' = 0
  <2>1. simc.pend[Timeout[Ini(n)]]' = NotPending
    BY <1>3, <1>5 DEF Ini, Timeout
  <2> QED BY <2>1 DEF Left
<1>6. ASSUME NEW t \in 0..b, simc' = WaitTime(simc, Ini(n), t) PROVE Left(n)' = t
  <2>1. PICK k, k2, p, e : k = simc /\ p = Ini(n) /\ k2 = WaitTime(k, p, t) /\ e = Timeout[p]
    OBVIOUS
  <2>2. /\ KernelInv(b, k) /\ OnePlace(k) /\ p \in Thread /\ k.cur = p /\ k.pend[e] = NotPending
        /\ b \in Nat /\ t \in 0..b
    BY <1>1, <1>2, <1>3, <2>1
  <2>3. OnePlace(k2) /\ Sleeps(k, k2, p, {e}) /\ k2.pend = [k.pend EXCEPT ![e] = t]
    BY <2>1, <2>2, WaitTimePlaces
  <2>4. simc'.pend[Timeout[Ini(n)]] = t
    BY <1>1, <1>6, <2>1, <2>3
  <2>5. simc.pend[Timeout[Ini(n)]]' = t /\ t # NotPending
    BY <2>4 DEF Ini, Timeout, NotPending
  <2> QED BY <2>5 DEF Left
<1> QED BY <1>0, <1>4, <1>5, <1>6

\* A step of an initiator accounts for the time of its transaction.
LEMMA TimesStep ==
  ASSUME Core, Core', Places, NEW n \in Initiator, LtiStep(n), UNCHANGED <<tg, now>>, Times(n),
         spent' = IF At(n, "request") THEN [spent EXCEPT ![n] = @ + Cost(n)] ELSE spent
  PROVE  Times(n)'
<1>1. PICK s \in LtiShape, s2 \in LtiShape : s = lti[n] /\ s2 = lti'[n]
  BY DEF Core, DataInv, Types
<1>2. Moves(n, s, s2) /\ s2.kind = s.kind /\ Executing(Ini(n))
  BY <1>1, InitiatorSteps DEF Core
<1>3. PICK L2 \in Nat : L2 = Left(n)'
  <2>1. PICK b \in Nat : b = LongestWait
    BY WaitFacts
  <2>2. KernelInv(LongestWait, simc)'
    BY DEF Core
  <2>3. KernelInv(b, simc')
    BY <2>1, <2>2 DEF KernelInv, KernelOK, KernelShape, Enqueued, Listed, DeltaPending, LongestWait, LongestCall
  <2>4. simc'.pend \in [Event -> -1..b]
    BY <2>3 DEF KernelInv, KernelOK, KernelShape
  <2>5. PICK u \in -1..b : u = simc'.pend[Timeout[Ini(n)]]
    BY <2>4, LtEvents
  <2>6. simc.pend[Timeout[Ini(n)]]' = u
    BY <2>5 DEF Ini, Timeout
  <2>7. Left(n)' \in Nat
    BY <2>5, <2>6 DEF Left, NotPending
  <2> QED BY <2>7
<1>4. PICK c \in Nat : c = Cost(n)
  BY CostType
<1>5. PICK d \in Nat, loc \in Nat, nxt \in Nat, d2 \in Nat, loc2 \in Nat, nxt2 \in Nat :
        /\ d = s.delay /\ loc = s.keeper.local /\ nxt = s.keeper.next
        /\ d2 = s2.delay /\ loc2 = s2.keeper.local /\ nxt2 = s2.keeper.next
  BY DEF LtiShape
<1>6. /\ d \in 0..LongestWait /\ (s.pc = "request" => d + c \in 0..LongestWait)
      /\ s.kind # "td" => loc = 0
      /\ s.pc = "request" => d = loc
  <2>1. Bounds(n)
    BY DEF Core
  <2>2. /\ s.kind # "td" => loc = 0
        /\ s.pc = "request" => d = loc
        /\ loc <= LongestCall /\ d <= LongestCall
        /\ s.pc # "sync" => loc < Quantum
    BY <1>1, <1>5, <2>1 DEF Bounds
  <2> QED BY <1>4, <1>5, <2>2, CostType, WaitFacts
<1>7. /\ Left(n) = 0
      /\ simc'.pend = simc.pend => L2 = 0
      /\ \A t \in 0..LongestWait : simc' = WaitTime(simc, Ini(n), t) => L2 = t
  BY <1>3, LeftAfter
<1>8. Receive(n) \/ Respond(n) \/ ReceiveBlocks(n) \/ RespondBlocks(n) => simc'.pend = simc.pend
  <2>1. PICK b \in Nat : b = LongestWait
    BY WaitFacts
  <2>2. KernelInv(b, simc) /\ OnePlace(simc) /\ simc.cur = Ini(n)
    BY <1>2, <2>1 DEF Core, Places, Executing
  <2>3. /\ Ini(n) \in Thread /\ Req(n) \in Channel /\ Rsp(n) \in Channel
        /\ DataWritten(Req(n)) \in Event /\ DataRead(Rsp(n)) \in Event
    BY LtEvents
  <2> HIDE DEF Thread, Channel, Event
  <2>4. CASE Receive(n) \/ Respond(n)
    <3>1. PICK ch \in Channel : simc' = RequestUpdate(simc, ch)
      BY <2>3, <2>4 DEF Receive, Respond
    <3> QED BY <2>2, <3>1, UpdatePlaces DEF GoesOn
  <2>5. CASE ReceiveBlocks(n) \/ RespondBlocks(n)
    <3>1. PICK e \in Event : simc' = Wait(simc, Ini(n), e)
      BY <2>3, <2>5 DEF ReceiveBlocks, RespondBlocks
    <3> QED BY <2>2, <2>3, <3>1, WaitPlaces
  <2> QED BY <2>4, <2>5
<1>9. /\ s.pc \in {"get", "request", "inside", "returned", "sync", "ask", "respond"}
      /\ \/ s2 = s /\ L2 = 0 /\ s.pc \in {"get", "respond"}
         \/ s.pc = "get" /\ s2.pc = "request" /\ d2 = loc /\ loc2 = loc /\ nxt2 = nxt /\ L2 = 0
         \/ s.pc = "request" /\ s2.pc = "inside" /\ d2 = d + c /\ loc2 = loc /\ nxt2 = nxt /\ L2 = d + c
         \/ s.pc = "request" /\ s2.pc = "returned" /\ d2 = d + c /\ loc2 = loc /\ nxt2 = nxt /\ L2 = 0
         \/ s.pc = "inside" /\ s2.pc = "returned" /\ d2 = 0 /\ loc2 = loc /\ nxt2 = nxt /\ L2 = 0
         \/ s.pc = "returned" /\ s.kind # "td" /\ s2.pc \in {"ask", "respond"} /\ loc2 = loc /\ nxt2 = nxt /\ L2 = d
         \/ s.pc = "returned" /\ s.kind = "td" /\ s2.pc = "sync" /\ loc2 = d /\ nxt2 = nxt /\ L2 = d
         \/ /\ s.pc = "returned" /\ s.kind = "td" /\ s2.pc = "respond" /\ loc2 = d /\ nxt2 = nxt /\ L2 = 0
            /\ ~(now + d >= nxt)
         \/ s.pc = "sync" /\ s2.pc = "respond" /\ loc2 = 0 /\ L2 = 0
         \/ s.pc = "ask" /\ s2.pc = "respond" /\ loc2 = loc /\ nxt2 = nxt /\ L2 = 0
         \/ s.pc = "request" /\ s2.pc = "respond" /\ s.kind = "dmi" /\ loc2 = loc /\ nxt2 = nxt /\ L2 = d + c
         \/ s.pc = "respond" /\ s2.pc = "get" /\ loc2 = loc /\ nxt2 = nxt /\ L2 = 0
  <2>1. s.pc \in {"get", "request", "inside", "returned", "sync", "ask", "respond"}
    BY DEF LtiShape
  <2>2. simc' = simc => L2 = 0
    BY <1>7
  <2>3. simc' = WaitTime(simc, Ini(n), d) => L2 = d
    BY <1>6, <1>7
  <2>4. s.pc = "request" /\ simc' = WaitTime(simc, Ini(n), d + c) => L2 = d + c
    BY <1>6, <1>7
  <2>5. Receive(n) \/ Respond(n) \/ ReceiveBlocks(n) \/ RespondBlocks(n) => L2 = 0
    BY <1>7, <1>8
  <2> QED BY <1>2, <1>4, <1>5, <2>1, <2>2, <2>3, <2>4, <2>5 DEF Moves
<1>10. PICK t \in Nat, sp \in Nat : /\ t = now /\ t = now' /\ sp = spent[n]
                                    /\ spent'[n] = IF s.pc = "request" THEN sp + c ELSE sp
  <2>1. now \in Nat /\ spent \in [Initiator -> Nat]
    BY DEF Core, DataInv, Types
  <2>2. At(n, "request") <=> s.pc = "request"
    BY <1>1, <1>2 DEF At
  <2> QED BY <1>4, <2>1, <2>2
<1>11. /\ s.kind = "td" => s.pc # "ask"
       /\ s.kind # "td" => s.pc # "sync"
       /\ s.pc \in {"get", "request", "respond"} /\ ~TgDone(n) => loc = 0 \/ t + loc < nxt
       /\ ~TgDone(n) => sp = t + (CASE s.pc \in {"request", "returned"} -> d
                                    [] s.pc \in {"inside", "sync"} -> 0
                                    [] OTHER -> 0 + loc)
  BY <1>1, <1>5, <1>7, <1>10 DEF Times, Ahead
<1>12. TgDone(n)' <=> TgDone(n)
  BY DEF TgDone
<1>13. PICK done \in BOOLEAN : done <=> TgDone(n)
  BY Zenon
<1>14. PICK pc, pc2, kd : pc = s.pc /\ pc2 = s2.pc /\ kd = s.kind
  OBVIOUS
<1>15. /\ kd = "td" => pc2 # "ask" /\ (pc2 = "respond" => L2 = 0)
       /\ kd # "td" => pc2 # "sync"
       /\ pc2 \in {"get", "request", "respond"} /\ ~done => loc2 = 0 \/ t + loc2 < nxt2
  <2>1. /\ s2 = s => loc2 = loc /\ nxt2 = nxt /\ pc2 = pc
        /\ kd # "td" => loc = 0 /\ pc # "sync"
        /\ kd = "td" => pc # "ask"
        /\ pc \in {"get", "request", "respond"} /\ ~done => loc = 0 \/ t + loc < nxt
    BY <1>5, <1>6, <1>11, <1>13, <1>14
  <2>2. kd = "td" => pc2 # "ask" /\ (pc2 = "respond" => L2 = 0)
    BY <1>9, <1>14, <2>1
  <2>3. kd # "td" => pc2 # "sync"
    BY <1>9, <1>14, <2>1
  <2>4. pc2 \in {"get", "request", "respond"} /\ ~done => loc2 = 0 \/ t + loc2 < nxt2
    BY <1>9, <1>10, <1>14, <2>1
  <2> QED BY <2>2, <2>3, <2>4
<1>16. ~done => (IF pc = "request" THEN sp + c ELSE sp)
                  = t + (CASE pc2 \in {"request", "returned"} -> d2
                           [] pc2 \in {"inside", "sync"} -> L2
                           [] OTHER -> L2 + loc2)
  BY <1>5, <1>6, <1>9, <1>11, <1>13, <1>14
<1> QED BY <1>1, <1>2, <1>3, <1>5, <1>10, <1>12, <1>13, <1>14, <1>15, <1>16 DEF Times, Ahead

\* The invariant of the platform: the payloads are accounted for, the kernel's
\* record is in shape, the processes are in their places and the initiators' times
\* are those of their transactions.
Invariant == Core /\ Places /\ \A n \in Initiator : Times(n)

\* A delta cycle or an advance of time by d takes d from what is left of every
\* wait and gives it to the time.
LEMMA TimesPass ==
  ASSUME Core, Places, [Next]_vars, lti' = lti, tg' = tg, spent' = spent, NEW n \in Initiator, Times(n),
         \/ AdvanceTime /\ now' = now + NextTime(simc)
         \/ DeltaCycle /\ now' = now
  PROVE  Times(n)'
<1>1. PICK b \in Nat : b = LongestWait
  BY WaitFacts
<1>2. PICK s, T, u, t, sp :
        /\ s = lti[n] /\ T = Timeout[Ini(n)] /\ u = simc.pend[T] /\ t = now /\ sp = spent[n]
        /\ s \in LtiShape /\ T \in Event /\ u \in -1..b /\ t \in Nat /\ sp \in Nat
  <2>1. simc.pend \in [Event -> -1..b]
    BY <1>1 DEF Core, KernelInv, KernelOK, KernelShape
  <2>2. simc.pend[Timeout[Ini(n)]] \in -1..b /\ Timeout[Ini(n)] \in Event
    BY <2>1, LtEvents
  <2>3. lti[n] \in LtiShape /\ now \in Nat /\ spent[n] \in Nat
    BY DEF Core, DataInv, Types
  <2>4. PICK T : T = Timeout[Ini(n)] /\ T \in Event
    BY <2>2
  <2>5. PICK u : u = simc.pend[T] /\ u \in -1..b
    BY <2>2, <2>4
  <2>6. PICK s, t, sp : s = lti[n] /\ t = now /\ sp = spent[n] /\ s \in LtiShape /\ t \in Nat /\ sp \in Nat
    BY <2>3
  <2> QED BY <2>4, <2>5, <2>6
<1>3. PICK loc \in Nat, nxt \in Nat, d \in Nat : loc = s.keeper.local /\ nxt = s.keeper.next /\ d = s.delay
  BY <1>2 DEF LtiShape
<1>4. TgDone(n)' <=> TgDone(n)
  BY DEF TgDone
<1>5. Evaluated(simc) /\ KernelInv(b, simc)
  BY <1>1 DEF AdvanceTime, DeltaCycle, Core
<1>6. \A q \in Process : Asleep(simc, q)
  BY <1>5, NobodyRuns DEF Evaluated, Asleep
<1>7. /\ Ini(n) \in Process /\ Tg(n) \in Process
  <2>1. Tg(n) \in Process
    BY ThreadFacts, Zenon DEF Process, Tg
  <2> QED BY <2>1, LtEvents
<1>8. s.pc \notin {"request", "returned"}
  BY <1>2, <1>5, <1>7, NobodyRuns DEF Places, IniPlace, Evaluated
<1>9. PICK left \in Nat : left = Left(n) /\ left = IF u = -1 THEN 0 ELSE u
  BY <1>2 DEF Left, NotPending
<1>10. /\ s.kind = "td" => s.pc # "ask" /\ (s.pc = "respond" => left = 0)
       /\ s.kind # "td" => s.pc # "sync"
       /\ s.pc \in {"get", "request", "respond"} /\ ~TgDone(n) => loc = 0 \/ t + loc < nxt
       /\ ~TgDone(n) => sp = t + (IF s.pc \in {"inside", "sync"} THEN left ELSE left + loc)
       /\ s.kind # "td" => loc = 0
  <2>1. s.kind # "td" => loc = 0
    BY <1>2, <1>3 DEF Core, Bounds
  <2> QED BY <1>2, <1>3, <1>8, <1>9, <2>1 DEF Times, Ahead
<1> HIDE DEF Process, Event, Timeout
<1>11. CASE DeltaCycle /\ now' = now
  <2>1. \E D : DeltaWakes(D)
    <3>1. \A ch \in Channel : \E k : fifo[ch] \in FifoShape(k)
      <4> SUFFICES ASSUME NEW ch \in Channel PROVE \E k : fifo[ch] \in FifoShape(k)
        OBVIOUS
      <4>1. PICK k \in Initiator : ch = ReqCh(k) \/ ch = RspCh(k)
        BY DEF Channel, ReqCh, RspCh
      <4> QED BY <4>1 DEF Core, DataInv, Data, Accounted
    <3> QED BY <1>5, <1>11, <3>1, DeltaPlaces, MapAssumption DEF Places
  <2>2. PICK D : DeltaWakes(D)
    BY <2>1
  <2>3. /\ simc'.pend = [e \in Event |-> IF e \in D THEN NotPending ELSE simc.pend[e]]
        /\ T \in D <=> u = 0
    BY <1>2, <1>7, <2>2 DEF DeltaWakes
  <2>4. simc'.pend[T] = IF u = 0 THEN -1 ELSE u
    BY <1>2, <2>3 DEF NotPending
  <2>5. simc.pend[Timeout[Ini(n)]]' = IF u = 0 THEN -1 ELSE u
    BY <1>2, <2>4 DEF Ini, Timeout
  <2>6. Left(n)' = Left(n)
    BY <1>9, <2>5 DEF Left, NotPending
  <2> QED BY <1>4, <1>11, <2>6, TimesFrame
<1>12. CASE AdvanceTime /\ now' = now + NextTime(simc)
  <2>1. PICK step : step = NextTime(simc)
    OBVIOUS
  <2>2. TimeWakes(step)
    BY <1>5, <1>12, <2>1, TimePlaces, MapAssumption DEF Places
  <2>3. /\ step \in Nat /\ step > 0 /\ simc.update = << >> /\ u # 0 /\ (u > 0 => step <= u)
        /\ simc'.pend[T] = IF u > step THEN u - step ELSE NotPending
    BY <1>2, <2>2 DEF TimeWakes
  <2>4. PICK left2 \in Nat : left2 = Left(n)' /\ (u > 0 => left2 = u - step) /\ (u = -1 => left2 = 0)
    <3>1. simc.pend[Timeout[Ini(n)]]' = IF u > step THEN u - step ELSE -1
      BY <1>2, <2>3 DEF Ini, Timeout, NotPending
    <3>2. Left(n)' = IF u > step THEN u - step ELSE 0
      <4>1. u > step => u - step # -1
        BY <1>2, <2>3
      <4> QED BY <3>1, <4>1 DEF Left, NotPending
    <3>3. PICK left2 : left2 = Left(n)' /\ left2 = IF u > step THEN u - step ELSE 0
      BY <3>2
    <3>4. u \in Int /\ step \in Nat /\ (u > 0 => step <= u)
      BY <1>1, <1>2, <2>3
    <3>5. left2 \in Nat
      BY <3>3, <3>4
    <3>6. u > 0 => left2 = u - step
      BY <3>3, <3>4
    <3>7. u = -1 => left2 = 0
      BY <3>3, <3>4
    <3> QED BY <3>3, <3>5, <3>6, <3>7
  <2>5. CASE TgDone(n)
    <3>1. TgDone(n)' /\ lti'[n] = s
      BY <1>2, <1>4, <2>5
    <3>2. s.kind = "td" /\ s.pc = "respond" => left2 = 0
      BY <1>9, <1>10, <2>3, <2>4
    <3> QED BY <1>10, <2>4, <3>1, <3>2 DEF Times
  <2>6. CASE ~TgDone(n)
    <3>1. T \in WaitsFor(simc, Ini(n))
      BY <1>2, <1>6, <1>7, <2>3, <2>6, WaitsForTime
    <3>2. s.pc \in {"inside", "sync", "ask", "respond"} /\ u # -1
      BY <1>2, <3>1 DEF Places, IniPlace, NotPending
    <3>3. u > 0 /\ left = u /\ left2 = left - step /\ step <= left
      BY <1>2, <1>9, <2>3, <2>4, <3>2
    <3>4. s.pc = "respond" => s.kind # "td" /\ loc = 0
      BY <1>10, <3>3
    <3>5. PICK t2 \in Nat : t2 = now' /\ t2 = t + step
      BY <1>2, <1>12, <2>1, <2>3
    <3>6. sp = t2 + (IF s.pc \in {"inside", "sync"} THEN left2 ELSE left2 + loc)
      <4>1. sp = t + (IF s.pc \in {"inside", "sync"} THEN left ELSE left + loc)
        BY <1>10, <2>6
      <4>2. left2 = left - step /\ step <= left /\ left \in Nat /\ left2 \in Nat /\ step \in Nat /\ loc \in Nat
            /\ t \in Nat /\ t2 = t + step
        BY <1>2, <1>3, <1>9, <2>3, <2>4, <3>3, <3>5
      <4>3. CASE s.pc \in {"inside", "sync"}
        <5>1. sp = t + left
          BY <4>1, <4>3
        <5>2. sp = t2 + left2
          BY <4>2, <5>1
        <5> QED BY <4>3, <5>2
      <4>4. CASE s.pc \notin {"inside", "sync"}
        <5>1. sp = t + (left + loc)
          BY <4>1, <4>4
        <5>2. sp = t2 + (left2 + loc)
          BY <4>2, <5>1
        <5> QED BY <4>4, <5>2
      <4> QED BY <4>3, <4>4
    <3>7. /\ s.kind = "td" => s.pc # "ask" /\ s.pc # "respond"
          /\ s.kind # "td" => s.pc # "sync"
          /\ s.pc \in {"get", "request", "respond"} => loc = 0
      BY <1>10, <3>2, <3>4
    <3>8. lti'[n] = s /\ spent'[n] = sp
      BY <1>2
    <3>9. Ahead(n)' = IF s.pc \in {"inside", "sync"} THEN left2 ELSE left2 + loc
      BY <1>3, <2>4, <3>2, <3>8 DEF Ahead
    <3> QED BY <1>3, <2>4, <3>5, <3>6, <3>7, <3>8, <3>9 DEF Times
  <2> QED BY <2>5, <2>6
<1> QED BY <1>11, <1>12

\* Each step keeps the initiators' times.
LEMMA TimesNext ==
  ASSUME Invariant, [Next]_vars, Core', NEW n \in Initiator
  PROVE  Times(n)'
<1>1. Core /\ Places /\ Times(n) /\ \A m \in Initiator : Times(m)
  BY DEF Invariant
<1>2. ASSUME Stays(Ini(n)), now' = now, spent'[n] = spent[n], TgDone(n) => TgDone(n)',
             lti'[n].pc = lti[n].pc, lti'[n].kind = lti[n].kind, lti'[n].delay = lti[n].delay,
             lti'[n].keeper = lti[n].keeper
      PROVE  Times(n)'
  BY <1>1, <1>2, LeftFrame, TimesFrame
<1>3. KernelInv(LongestWait, simc) /\ LongestWait \in Nat /\ OnePlace(simc) /\ DataQuiet /\ UpdatesRequested
      /\ DataInv /\ Ini(n) \in Process
  BY <1>1, WaitFacts, LtEvents DEF Core, Places
<1>4. CASE UNCHANGED vars
  <2>1. simc' = simc /\ now' = now /\ spent' = spent /\ lti' = lti /\ tg' = tg
    BY <1>4 DEF vars, shared
  <2>2. Stays(Ini(n))
    BY <2>1 DEF Stays, Asleep
  <2>3. TgDone(n) => TgDone(n)'
    BY <2>1 DEF TgDone
  <2> QED BY <1>2, <2>1, <2>2, <2>3
<1>5. CASE AdvanceTime /\ now' = now + NextTime(simc) /\ UNCHANGED <<tg, lti, lt, spent>>
  BY <1>1, <1>5, TimesPass
<1>6. CASE DeltaCycle /\ UNCHANGED <<tg, lti, lt, now, spent>>
  BY <1>1, <1>6, TimesPass
<1>7. CASE Dispatch /\ UNCHANGED <<tg, lti, lt, now, spent>>
  <2>1. \A q \in Process : Stays(q)
    BY <1>3, <1>7, DispatchPlaces
  <2>2. TgDone(n) => TgDone(n)'
    BY <1>7 DEF TgDone
  <2> QED BY <1>2, <1>3, <1>7, <2>1, <2>2
<1>8. ASSUME NEW m \in Initiator, TgStep(m), UNCHANGED <<lti, lt, now, spent>> PROVE Times(n)'
  <2>1. GenActs(m) /\ ~TgDone(m)
    <3>1. Shapes /\ Accounted(m, Away(m), Held(m)) /\ GenPlace(m) /\ Data(m)
      BY <1>1 DEF Core, DataInv, Data, Places
    <3>2. pool[m] = << >> => tg[m].active > 0
      BY <3>1, ActiveHeld
    <3> QED BY <1>3, <1>8, <3>1, <3>2, GenSteps
  <2>2. Stays(Ini(n))
    <3>1. Ini(n) # Tg(m)
      BY DEF Ini, Tg
    <3> QED BY <1>3, <2>1, <3>1 DEF GenActs
  <2>3. TgDone(n) => TgDone(n)'
    <3>1. CASE m = n
      BY <2>1, <3>1
    <3>2. CASE m # n
      <4>1. tg'[n] = tg[n]
        BY <1>3, <1>8, <3>2 DEF TgStep, Issue, Skip, PutBlocks, Put, Check, GetBlocks, Get, Drain, Drained, Set, Shapes, DataInv
      <4> QED BY <4>1 DEF TgDone
    <3> QED BY <3>1, <3>2
  <2> QED BY <1>2, <1>8, <2>2, <2>3
<1>9. ASSUME NEW m \in Initiator, LtiStep(m), UNCHANGED <<tg, now>>,
             spent' = IF At(m, "request") THEN [spent EXCEPT ![m] = @ + Cost(m)] ELSE spent
      PROVE  Times(n)'
  <2>1. CASE m = n
    BY <1>1, <1>9, <2>1, TimesStep
  <2>2. CASE m # n
    <3>1. IniActs(m)
      BY <1>1, <1>3, <1>9, IniSteps DEF Places
    <3>2. Stays(Ini(n))
      <4>1. Ini(n) # Ini(m)
        BY <2>2 DEF Ini
      <4> QED BY <1>3, <3>1, <4>1 DEF IniActs
    <3>3. lti'[n] = lti[n]
      <4>1. PICK s \in LtiShape, s2 \in {lti'[m]} : s = lti[m] /\ s2 = lti'[m]
        BY <1>3 DEF DataInv, Types
      <4>2. lti' = [lti EXCEPT ![m] = s2] /\ lti \in [Initiator -> LtiShape]
        BY <1>3, <1>9, <4>1, InitiatorSteps DEF DataInv, Types
      <4> QED BY <2>2, <4>2
    <3>4. spent'[n] = spent[n]
      BY <1>3, <1>9, <2>2 DEF DataInv, Types
    <3>5. TgDone(n) => TgDone(n)'
      BY <1>9 DEF TgDone
    <3> QED BY <1>2, <1>9, <3>2, <3>3, <3>4, <3>5
  <2> QED BY <2>1, <2>2
<1>10. ASSUME NEW m \in Target, toggle_dmi_method(m), UNCHANGED <<tg, now, spent>> PROVE Times(n)'
  <2>1. \A q \in Process : q # ToggleDmi(m) => Stays(q)
    BY <1>1, <1>3, <1>10, ToggleSteps DEF Places
  <2>2. Stays(Ini(n))
    <3>1. Ini(n) # ToggleDmi(m)
      BY DEF Ini, ToggleDmi
    <3> QED BY <1>3, <2>1, <3>1
  <2>3. /\ lti'[n].pc = lti[n].pc /\ lti'[n].kind = lti[n].kind
        /\ lti'[n].delay = lti[n].delay /\ lti'[n].keeper = lti[n].keeper
    BY <1>3, <1>10, ToggleData
  <2>4. TgDone(n) => TgDone(n)'
    BY <1>10 DEF TgDone
  <2> QED BY <1>2, <1>10, <2>2, <2>3, <2>4
<1> QED BY <1>4, <1>5, <1>6, <1>7, <1>8, <1>9, <1>10 DEF Next, Step

\* The invariant holds when the simulation starts: the places and the counts do, and
\* every initiator is in its get with no local time.
LEMMA InvariantInit == Init => Invariant
<1> SUFFICES ASSUME Init PROVE Invariant
  OBVIOUS
<1>1. Core /\ Places
  BY CoreInit, PlacesInit
<1>2. ASSUME NEW n \in Initiator PROVE Times(n)
  <2>1. /\ spent[n] = 0 /\ lti[n].pc = "get" /\ lti[n].keeper.local = 0 /\ now = 0
    BY DataInit
  <2>2. Left(n) = 0
    <3>1. Timeout[Ini(n)] \notin WaitsFor(simc, Ini(n))
      BY <1>1, <2>1 DEF Places, IniPlace
    <3> QED BY <1>1, <3>1 DEF Places, IniPlace, Left
  <2> QED BY <2>1, <2>2 DEF Times, Ahead
<1> QED BY <1>1, <1>2 DEF Invariant

\* The invariant is inductive: the core and the places do not need the times.
LEMMA InvariantNext == Invariant /\ [Next]_vars => Invariant'
<1> SUFFICES ASSUME Invariant, [Next]_vars PROVE Invariant'
  OBVIOUS
<1>1. Core'
  BY CoreNext DEF Invariant
<1>2. Places'
  BY PlacesNext DEF Invariant
<1>3. \A n \in Initiator : Times(n)'
  BY <1>1, TimesNext
<1> QED BY <1>1, <1>2, <1>3 DEF Invariant

\* Within the quantum: a time before the next multiple has the same quotient.
LEMMA SameQuantum ==
  ASSUME NEW t \in Nat, NEW u \in Nat, t <= u, u < t + LocalQuantum(t)
  PROVE  u \div Quantum = t \div Quantum
<1>1. PICK q \in Nat \ {0} : q = Quantum
  BY QuantumAssumption
<1>2. PICK k \in Nat, l \in Nat : k = t \div q /\ l = u \div q
  BY <1>1, QuantumFacts, Zenon
<1>3. k * q <= t /\ u < (k + 1) * q /\ l * q <= u /\ u < (l + 1) * q
  BY <1>1, <1>2, QuantumFacts
<1>4. l < k + 1
  <2> SUFFICES ASSUME l >= k + 1 PROVE FALSE
    OBVIOUS
  <2>1. (k + 1) * q \in Int /\ l * q \in Int /\ l * q >= (k + 1) * q
    BY <1>1
  <2> QED BY <1>3, <2>1
<1>5. k < l + 1
  <2> SUFFICES ASSUME k >= l + 1 PROVE FALSE
    OBVIOUS
  <2>1. (l + 1) * q \in Int /\ k * q \in Int /\ k * q >= (l + 1) * q
    BY <1>1
  <2> QED BY <1>3, <2>1
<1> QED BY <1>1, <1>2, <1>4, <1>5

\* The ranges of the state's parts are those of the record's shape and the bounds.
LEMMA InvariantTypeOK == Invariant => TypeOK
<1> SUFFICES ASSUME Invariant PROVE TypeOK
  OBVIOUS
<1>1. simc \in KernelShape(LongestWait)
  BY DEF Invariant, Core, KernelInv, KernelOK
<1>2. /\ simc.cur \in Process \union {Nobody} /\ simc.runnable \subseteq Process
      /\ simc.pend \in [Event -> -1..LongestWait]
  BY <1>1 DEF KernelShape
<1>3. ASSUME NEW n \in Initiator
      PROVE  /\ lti[n].delay \in 0..LongestCall /\ lti[n].keeper.local \in 0..LongestCall
             /\ lti[n].dmi.ptr \in -1..NT-1 /\ lti[n].dmi.base \in {AddressOffset(m) : m \in Target}
             /\ lti[n].dmi.size \in {0, MemorySize}
  <2>1. lti[n] \in LtiShape /\ Bounds(n)
    BY DEF Invariant, Core, DataInv, Types
  <2>2. PICK s \in LtiShape : s = lti[n] /\ s.keeper.local <= LongestCall /\ s.delay <= LongestCall
    BY <2>1 DEF Bounds
  <2>3. s.delay \in Nat /\ s.keeper.local \in Nat /\ s.dmi \in RegionShape
    BY DEF LtiShape
  <2>4. s.dmi.ptr \in -1..NT-1 /\ s.dmi.base \in {AddressOffset(m) : m \in Target} /\ s.dmi.size \in {0, MemorySize}
    BY <2>3, Zenon DEF RegionShape
  <2> QED BY <2>2, <2>3, <2>4, WaitFacts
<1>4. ASSUME NEW m \in Target PROVE lt[m].toggle_count \in 0..MaxDmiToggleCount
  <2>1. lt[m].toggle_count \in Nat /\ lt[m].toggle_count <= MaxDmiToggleCount
    BY DEF Invariant, Core, DataInv, Types, LtShape, Places, TogglePlace
  <2> QED BY <2>1 DEF MaxDmiToggleCount
<1>5. \A tx \in Txn : gp[tx].rc \in 0..1
  BY DEF Invariant, Core, DataInv, Types, GpShape
<1> QED BY <1>2, <1>3, <1>4, <1>5 DEF TypeOK, LongestWait

\* An initiator that goes on is before its sync point, which is in the quantum.
LEMMA InvariantKeeps == Invariant => KeepsToQuantum
<1> SUFFICES ASSUME Invariant, NEW n \in Initiator, lti[n].pc \in {"get", "request", "respond"}, ~TgDone(n)
             PROVE  (now + lti[n].keeper.local) \div Quantum = now \div Quantum
  BY DEF KeepsToQuantum
<1>1. Bounds(n) /\ Times(n) /\ now \in Nat /\ lti[n] \in LtiShape
  BY DEF Invariant, Core, DataInv, Types
<1>2. PICK t \in Nat, loc \in Nat, nxt \in Nat : t = now /\ loc = lti[n].keeper.local /\ nxt = lti[n].keeper.next
  BY <1>1 DEF LtiShape
<1>3. PICK lq \in 1..Quantum : lq = LocalQuantum(t)
  BY QuantumFacts
<1>4. (loc = 0 \/ t + loc < nxt) /\ nxt <= t + lq
  BY <1>1, <1>2, <1>3 DEF Times, Bounds
<1>5. t + loc \in Nat /\ t <= t + loc /\ t + loc < t + lq
  BY <1>3, <1>4, QuantumAssumption
<1>6. (t + loc) \div Quantum = t \div Quantum
  BY <1>3, <1>5, SameQuantum
<1> QED BY <1>2, <1>6

\* At its get an initiator waits for no time: its time is now and its local time.
LEMMA InvariantTiming == Invariant => TimingPreserved
<1> SUFFICES ASSUME Invariant, NEW n \in Initiator, lti[n].pc = "get", ~TgDone(n)
             PROVE  now + lti[n].keeper.local = spent[n]
  BY DEF TimingPreserved
<1>1. Times(n) /\ IniPlace(n) /\ lti[n] \in LtiShape
  BY DEF Invariant, Core, DataInv, Types, Places
<1>2. Left(n) = 0
  BY <1>1 DEF IniPlace, Left
<1>3. lti[n].keeper.local \in Nat
  BY <1>1 DEF LtiShape
<1> QED BY <1>1, <1>2, <1>3 DEF Times, Ahead

\* The state of the platform has the shape its code can give it: TypeOK.
THEOREM LtTypeCorrect == Spec => []TypeOK
<1> QED BY InvariantInit, InvariantNext, InvariantTypeOK, PTL DEF Spec

\* Between two transactions an initiator's own time is within the current quantum:
\* KeepsToQuantum.
THEOREM LtKeepsToQuantum == Spec => []KeepsToQuantum
<1> QED BY InvariantInit, InvariantNext, InvariantKeeps, PTL DEF Spec

\* An initiator's own time is the sum of the times of its transactions, whatever
\* waits and direct accesses they were carried out with: TimingPreserved.
THEOREM LtTimingPreserved == Spec => []TimingPreserved
<1> QED BY InvariantInit, InvariantNext, InvariantTiming, PTL DEF Spec
=============================================================================
