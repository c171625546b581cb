--------------------------- MODULE MCDelayMonitor ---------------------------
(* DelayMonitor with the window and the threshold of the cloud: messages   *)
(* sent on a full second, in the middle and at its end, that take 50 ms or *)
(* 1600 ms.                                                                *)
EXTENDS DelayMonitor

MCUptimes  == {3000, 3450, 3900}
MCTransits == {50, 1600}
=============================================================================
