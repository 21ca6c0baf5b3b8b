---------------------------- MODULE MCAtTestbench ----------------------------
(***************************************************************************)
(* The testbench at_1_phase with the parameters it is built with, in the   *)
(* order of this kernel, and a clock to compare with results/expected.log. *)
(***************************************************************************)
EXTENDS AtSystem

Selects == {[n \in Initiator |-> "select"]}
Kinds1 == [m \in Target |-> 1]

VARIABLE now     \* sc_time_stamp(), in ns

ClockInit == Init /\ now = 0

ClockNext ==
  /\ Next
  /\ now' = IF ENABLED AdvanceTime THEN now + NextTime(simc) ELSE now

ClockSpec == ClockInit /\ [][ClockNext]_<<vars, now>>

\* The generators end when expected.log says they do: 101 at 6087 ns and 102,
\* with the simulation, at 6147 ns.
LoggedTimes ==
  /\ TgDone(1) => now >= 6087
  /\ TgDone(2) => now = 6147
  /\ ~TgDone(1) => now <= 6087
  /\ ~TgDone(2) => now <= 6147
=============================================================================
