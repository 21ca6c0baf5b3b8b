------------------------------ MODULE DmiMemory ------------------------------
(***************************************************************************)
(* dmi_memory: what an initiator keeps of a direct memory interface (DMI): *)
(* the region it was granted, and where its first byte lies.  Addresses    *)
(* count words; they are unsigned, modulo AddressSpace.                    *)
(***************************************************************************)
EXTENDS Integers

CONSTANTS AddressSpace     \* 2^64 bytes in the source

ASSUME AddressSpaceAssumption == AddressSpace \in Nat \ {0}

\* Before the first grant the size is 0, so no word fits in the region.  start
\* and end are the scratch members m_start_address and m_end_address; ptr is
\* the target whose memory m_dmi_ptr points into, -1 when never set.
NoRegion == [ptr |-> -1, base |-> 0, size |-> 0, start |-> 0, end |-> 0]

\* is_address_dmi: it notes the word's range, and compares that.  Access is
\* granted for reads and writes alike.
Noted(d, address) == [d EXCEPT !.start = address, !.end = address + 1]
InRegion(d) == ~(d.start < d.base \/ d.end > d.base + d.size)
IsAddressDmi(d, address) == InRegion(Noted(d, address))

\* load_dmi_ptr: the end address of the grant, inclusive by its standard, ends
\* the region exclusively.
LoadDmiPtr(d, ptr, low, high) == [d EXCEPT !.ptr = ptr, !.base = low, !.size = high - low]

\* invalidate_dmi_ptr
InvalidateDmiPtr(d, low, high) ==
  IF low <= high /\ low >= d.base /\ high <= (d.base - d.size) % AddressSpace
    THEN [d EXCEPT !.start = 1, !.end = 0]
    ELSE d
=============================================================================
