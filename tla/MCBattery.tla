----------------------------- MODULE MCBattery -----------------------------
(* Battery with a unit of 0.05 kWh: 200 units are the 10 kWh of            *)
(* project-conf.h, and a GET reports multiples of 2 units.  The PUTs are   *)
(* coarser than the 4 Wh the cloud sends, so that the lock is reached,     *)
(* overshot and released in few steps.                                     *)
EXTENDS Battery

MCDeltas  == {-50, -7, 0, 2, 5}
BothPaths == Paths
=============================================================================
