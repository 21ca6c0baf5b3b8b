------------------------------- MODULE LtTarget -------------------------------
(***************************************************************************)
(* The loosely-timed targets of common/src: lt_target ("lt"),              *)
(* lt_synch_target ("synch"), which waits inside the call, and             *)
(* lt_dmi_target ("dmi"), which grants direct access to its memory for a   *)
(* limited time.                                                           *)
(***************************************************************************)
EXTENDS SimpleBusLT

CONSTANTS AcceptDelay, StartDmiDelay, DmiDuration

ASSUME LtDelayAssumption == {AcceptDelay, StartDmiDelay, DmiDuration} \subseteq Nat

VARIABLE lt     \* lt[m]: target m

MaxDmiToggleCount == 3

LtInit(kinds) ==
  lt = [m \in Target |-> [kind |-> kinds[m], mem |-> ZeroMemory,
                          dmi_enabled |-> kinds[m] = "dmi", toggle_count |-> 0]]

\* What custom_b_transport adds to the delay of the call.
TransportTime(tx) == AcceptDelay + OperationTime(tx)

\* Whether the payload comes back with dmi_allowed.
AllowsDmi(m) == lt[m].dmi_enabled

\* get_direct_mem_ptr: the whole memory, from 0 to the size.
GrantsDmi(m, address) == lt[m].dmi_enabled /\ address < MemorySize + 1

-----------------------------------------------------------------------------
(* toggle_dmi_method: enabled at the start, it disables DMI at once,        *)
(* enables it later and then disables it for good.                          *)

Toggled(m) ==
  LET count == lt[m].toggle_count + 1 IN
  [lt EXCEPT ![m].toggle_count = count,
             ![m].dmi_enabled = ~@ /\ count < MaxDmiToggleCount]

\* The last next_trigger() leaves the method with nothing to wait for.
ToggleReturns(m) ==
  Yield(IF lt[m].toggle_count + 1 >= MaxDmiToggleCount THEN simc
        ELSE NextTriggerTime(simc, ToggleDmi(m),
                             IF lt[m].dmi_enabled THEN StartDmiDelay ELSE DmiDuration))
=============================================================================
