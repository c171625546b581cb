------------------------ MODULE MCCongestionControl ------------------------
(* CongestionControl with a solar node, which publishes every 800 ms by    *)
(* default, and a diesel node, whose default is the congested interval.    *)
EXTENDS CongestionControl

CONSTANTS solar, diesel

Defaults   == [n \in Nodes |-> IF n = solar THEN 800 ELSE 5000]
AllFaults  == FaultKinds
NodeReboot == {"reboot"}
=============================================================================
