-------------------------------- MODULE MCLt --------------------------------
(* LtSystem with the platforms of the runs. *)
EXTENDS LtSystem

Uniform(ikind, tkind) == [initiators |-> [n \in Initiator |-> ikind],
                          targets |-> [m \in Target |-> tkind]]

\* Every mixture.
AllPlatforms == [initiators : [Initiator -> {"lt", "td", "dmi"}],
                 targets : [Target -> {"lt", "synch", "dmi"}]]
\* The platform of the example lt_dmi.
DmiPlatform == {Uniform("dmi", "dmi")}
=============================================================================
