---------------------------- MODULE MemoryService ----------------------------
(***************************************************************************)
(* What a platform of generators and memories promises, whatever lies      *)
(* between them: a transaction that was issued is carried out exactly      *)
(* once, atomically, on the word it names, before its issuer accepts the   *)
(* response.                                                               *)
(***************************************************************************)
EXTENDS Integers

CONSTANTS Txn, Target, Address, Word

VARIABLES
  mem,    \* mem[m][a]: the word at address a of target m
  req     \* req[tx]: the transaction a payload carries

Idle == [phase |-> "idle", cmd |-> "none", target |-> 0, addr |-> 0, data |-> 0]

Init ==
  /\ mem = [m \in Target |-> [a \in Address |-> 0]]
  /\ req = [tx \in Txn |-> Idle]

Request ==
  {r \in [phase : {"issued"}, cmd : {"read", "write"}, target : Target, addr : Address, data : Word] :
     r.cmd = "read" => r.data = 0}

Issue(tx) ==
  /\ req[tx] = Idle
  /\ req'[tx] \in Request
  /\ req' = [req EXCEPT ![tx] = req'[tx]]
  /\ UNCHANGED mem

Write(tx) ==
  /\ req[tx].phase = "issued" /\ req[tx].cmd = "write"
  /\ mem' = [mem EXCEPT ![req[tx].target][req[tx].addr] = req[tx].data]
  /\ req' = [req EXCEPT ![tx].phase = "served"]

Read(tx) ==
  /\ req[tx].phase = "issued" /\ req[tx].cmd = "read"
  /\ req' = [req EXCEPT ![tx].phase = "served",
                        ![tx].data = mem[req[tx].target][req[tx].addr]]
  /\ UNCHANGED mem

Accept(tx) ==
  /\ req[tx].phase = "served"
  /\ req' = [req EXCEPT ![tx] = Idle]
  /\ UNCHANGED mem

Next == \E tx \in Txn : Issue(tx) \/ Write(tx) \/ Read(tx) \/ Accept(tx)

Spec == Init /\ [][Next]_<<mem, req>>
=============================================================================
