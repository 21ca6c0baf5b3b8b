-------------------------------- MODULE Memory --------------------------------
(***************************************************************************)
(* memory: the word array behind a target, `words' of it, and the          *)
(* operation a target carries out on it for a payload.                     *)
(***************************************************************************)
EXTENDS TlmBase

CONSTANTS
  ReadDelay, WriteDelay,
  MemorySize       \* words of the memory

ASSUME MemoryAssumption == {ReadDelay, WriteDelay, MemorySize} \subseteq Nat

ZeroMemory == [a \in 1..MemorySize |-> 0]

\* get_delay
OperationDelay(tx) == IF gp[tx].cmd = "write" THEN WriteDelay ELSE ReadDelay

\* check_address: the word must end below the last one.
AddressOK(tx) == gp[tx].addr < MemorySize /\ gp[tx].addr + 1 < MemorySize

\* Faulty: the test of the command is inverted.
OperationMemMutant(words, tx) ==
  IF AddressOK(tx) /\ gp[tx].cmd # "write"
    THEN [words EXCEPT ![gp[tx].addr] = gp[tx].data] ELSE words
\* operation: what it leaves in the memory, in the payload, and the time it takes.
OperationMem(words, tx) ==
  IF AddressOK(tx) /\ gp[tx].cmd = "write"
    THEN [words EXCEPT ![gp[tx].addr] = gp[tx].data] ELSE words
OperationGp(words, tx) ==
  [gp EXCEPT ![tx].status = IF AddressOK(tx) THEN "OK" ELSE "address error",
             ![tx].data = IF AddressOK(tx) /\ gp[tx].cmd = "read" THEN words[gp[tx].addr] ELSE @]
OperationTime(tx) == IF AddressOK(tx) THEN OperationDelay(tx) ELSE 0
=============================================================================
