--------------------------- MODULE MCNodeRegistry ---------------------------
(* NodeRegistry with three nodes: one that fails while another is probed   *)
(* and a third waits for its turn.                                         *)
EXTENDS NodeRegistry

AllFaults == FaultKinds
CrashOnly == {"crash"}
=============================================================================
