---------------------------- MODULE QuantumKeeper ----------------------------
(***************************************************************************)
(* tlm_quantumkeeper and tlm_global_quantum: how far an initiator may run  *)
(* ahead of the simulation.  keeper.local is the time it is ahead and      *)
(* keeper.next the time at which it must let the others catch up.          *)
(***************************************************************************)
EXTENDS Integers

CONSTANTS Quantum     \* the global quantum, 500 ns in lt_td_initiator

ASSUME QuantumAssumption == Quantum \in Nat \ {0}

\* The first transaction synchronises: nobody calls reset() before it.
NewKeeper == [local |-> 0, next |-> 0]

\* compute_local_quantum: what is left until the next multiple of the quantum,
\* a whole quantum when time is on one.
LocalQuantum(now) == (now \div Quantum + 1) * Quantum - now

\* Faulty: an initiator exactly at the sync point goes on.
NeedSyncMutant(keeper, now) == now + keeper.local > keeper.next
\* need_sync
NeedSync(keeper, now) == now + keeper.local >= keeper.next

\* Faulty: the local time is kept over the wait.
ResetMutant(keeper, now) == [keeper EXCEPT !.next = now + LocalQuantum(now)]
\* reset, after the wait of sync().
Reset(keeper, now) == [local |-> 0, next |-> now + LocalQuantum(now)]
=============================================================================
