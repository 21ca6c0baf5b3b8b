------------------------------- MODULE RvdPort -------------------------------
(***************************************************************************)
(* What sc_rvd.h does to the three signals of a channel.  A channel is a   *)
(* record of two values for each signal: `cur', which every thread reads,  *)
(* and `new', the last value written, which becomes `cur' at the update.   *)
(***************************************************************************)

Signals == [data |-> 0, ready |-> FALSE, valid |-> FALSE]
Channel == [cur |-> Signals, new |-> Signals]

\* sc_signal::update of the three signals.
Updated(c) == [c EXCEPT !.cur = c.new]

\* write(): before its wait, and after it.
Offer(c, x) == [c EXCEPT !.new.data = x, !.new.valid = TRUE]
\* Faulty: write() leaves m_valid set.
WithdrawMutant(c) == c
Withdraw(c) == [c EXCEPT !.new.valid = FALSE]

\* read(): before its wait, and after it.
Request(c) == [c EXCEPT !.new.ready = TRUE]
\* Faulty: read() leaves m_ready set.
RetireMutant(c) == c
Retire(c) == [c EXCEPT !.new.ready = FALSE]

\* The conditions the loops of write() and read() wait for.
Taken(c) == c.cur.ready
\* Faulty: a value that is seen with m_ready still set is held for the one before.
AvailableMutant(c) == c.cur.valid /\ ~c.cur.ready
Available(c) == c.cur.valid
=============================================================================
