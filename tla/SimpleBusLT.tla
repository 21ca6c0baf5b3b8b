----------------------------- MODULE SimpleBusLT -----------------------------
(***************************************************************************)
(* SimpleBusLT: it keeps no state.  The upper bits of an address select    *)
(* the target, which sees the lower ones.                                  *)
(***************************************************************************)
EXTENDS Memory, DmiMemory

CONSTANTS Span     \* addresses per port, 2^28 bytes in the source

ASSUME SpanAssumption == Span \in Nat \ {0}

AddressOffset(port) == port * Span
AddressMask == Span - 1

\* The address a payload carries, with the port as its upper bits.
FullAddress(tx) == AddressOffset(gp[tx].port) + gp[tx].addr

\* Faulty: only the low end is moved to the port's range.
LimitRangeMutant(port, low, high) ==
  [ok |-> low <= AddressMask, low |-> low + AddressOffset(port), high |-> high]
\* limitRange: a target's range in the address map of the bus.
LimitRange(port, low, high) ==
  IF low > AddressMask THEN [ok |-> FALSE, low |-> low, high |-> high]
  ELSE [ok |-> TRUE, low |-> low + AddressOffset(port),
        high |-> AddressOffset(port) + IF high > AddressMask THEN AddressMask ELSE high]
=============================================================================
