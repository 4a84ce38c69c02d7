------------------------------ MODULE MCHealth ------------------------------
(***************************************************************************)
(* Two backends, probed in turn, with every layer on but the probe's own   *)
(* login, and with only that and the passive count.                        *)
(***************************************************************************)
EXTENDS HealthProperties

MCOrder == <<"b1", "b2">>

MCConfigs ==
    { [info |-> TRUE,  jf |-> TRUE,  passive |-> TRUE, auth |-> FALSE],
      [info |-> FALSE, jf |-> FALSE, passive |-> TRUE, auth |-> TRUE] }
=============================================================================
