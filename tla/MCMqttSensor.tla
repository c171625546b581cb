---------------------------- MODULE MCMqttSensor ----------------------------
(* MqttSensor as the solar node builds it: 800 ms by default, 15 s at most *)
(* and the 128 ticks a second of the nRF52840.  The PUTs: no number, the   *)
(* default, the congested interval of the cloud, and one to be clamped.    *)
EXTENDS MqttSensor

SolarBodies == {0, 800, 5000, 60000}
=============================================================================
