-------------------------------- MODULE MCAt --------------------------------
(* AtSystem with the targets' kinds for the runs. *)
EXTENDS AtSystem

Selects == {[n \in Initiator |-> "select"]}
AnyInitiators == [Initiator -> {"select", "explicit", "annotated"}]

Kinds1  == [m \in Target |-> 1]
Kinds4  == [m \in Target |-> 4]
Kinds124 == [m \in Target |-> <<1, 2, 4>>[m + 1]]
Kinds14 == [m \in Target |-> IF m = 0 THEN 1 ELSE 4]
=============================================================================
