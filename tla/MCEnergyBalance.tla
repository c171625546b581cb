-------------------------- MODULE MCEnergyBalance --------------------------
(* EnergyBalance with a battery of 20 units, reported in steps of 2, and   *)
(* powers that let it charge by at most 1 and discharge by at most 2 a     *)
(* cycle; the renewables fall short of the load by 4 or 1 or exceed it by 1.*)
EXTENDS EnergyBalance

MCSurpluses == {-4, -1, 1}
AllFaults   == FaultKinds
LostStatus  == {"statusResponse"}
=============================================================================
