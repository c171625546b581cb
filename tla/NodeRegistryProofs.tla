------------------------- MODULE NodeRegistryProofs -------------------------
(***************************************************************************)
(* The heartbeat for every set of nodes and any number of faults.          *)
(***************************************************************************)
EXTENDS NodeRegistry, TLAPS

\* Between two passes nothing is left to probe.
Idle == pc = "sleep" => todo = {} /\ probing = {}

\* A dead node that is still registered is yet to be probed, is being probed,
\* or has come in since the pass began.
DeadAccounted == registered \cap dead \subseteq added \cup todo \cup probing

DeadIsDown == dead \subseteq Nodes /\ \A n \in dead : status[n] = "down"

IInv == TypeOK /\ Idle /\ DeadAccounted /\ DeadIsDown

LEMMA InitIInv == Init => IInv
<1> SUFFICES ASSUME Init PROVE IInv
  OBVIOUS
<1>1. TypeOK
  BY RegistryAssumption DEF Init, TypeOK
<1> QED
  BY <1>1 DEF Init, IInv, Idle, DeadAccounted, DeadIsDown

\* A fault is counted, and never beyond the bound.
LEMMA FaultCounts ==
    ASSUME TypeOK, NEW kind, Fault(kind)
    PROVE  faults' \in 0..MaxFaults
  BY RegistryAssumption DEF TypeOK, Fault

LEMMA StepTypeOK == TypeOK /\ [Next]_rvars => TypeOK'
<1> SUFFICES ASSUME TypeOK, [Next]_rvars PROVE TypeOK'
  OBVIOUS
<1>1. CASE StartPass \/ EndPass
  BY <1>1 DEF TypeOK, StartPass, EndPass, nodes
<1>2. ASSUME NEW n \in Nodes, Probe(n) \/ ProbeTimesOut(n) PROVE TypeOK'
  BY <1>2 DEF TypeOK, Probe, ProbeTimesOut, EndProbe, remove_node, nodes
<1>3. CASE ProbeRepeated
  BY <1>3 DEF TypeOK, ProbeRepeated, nodes
<1>4. ASSUME NEW n \in Nodes, ProbeAnswered(n) \/ ProbeRefused(n) PROVE TypeOK'
  BY <1>4 DEF TypeOK, ProbeAnswered, ProbeRefused, EndProbe, remove_node, nodes
<1>5. ASSUME NEW n \in Nodes, ProbeLost(n) PROVE TypeOK'
  <2>1. faults' \in 0..MaxFaults
    BY <1>5, FaultCounts DEF ProbeLost, TypeOK
  <2> QED
    BY <1>5, <2>1 DEF TypeOK, ProbeLost, nodes
<1>6. ASSUME NEW n \in Nodes, NodeStep(n) PROVE TypeOK'
  BY <1>6 DEF TypeOK, NodeStep, Boot, Announce, Register, add_node, nodes, heartbeat
<1>7. ASSUME NEW n \in Nodes, Crash(n) \/ PostLost(n) \/ Unregister(n) PROVE TypeOK'
  <2>1. faults' \in 0..MaxFaults
    BY <1>7, FaultCounts DEF Crash, PostLost, Unregister
  <2> QED
    BY <1>7, <2>1 DEF TypeOK, Crash, PostLost, Unregister, remove_node, nodes, heartbeat
<1>8. CASE CloudRestarts
  <2>1. faults' \in 0..MaxFaults
    BY <1>8, FaultCounts DEF CloudRestarts
  <2> QED
    BY <1>8, <2>1 DEF TypeOK, CloudRestarts, EndProbe, nodes
<1>9. CASE UNCHANGED rvars
  BY <1>9 DEF TypeOK, rvars, nodes, heartbeat
<1> QED
  BY <1>1, <1>2, <1>3, <1>4, <1>5, <1>6, <1>7, <1>8, <1>9 DEF Next, HeartbeatStep, NetworkStep

LEMMA StepIInv == IInv /\ [Next]_rvars => IInv'
<1> SUFFICES ASSUME IInv, [Next]_rvars PROVE IInv'
  OBVIOUS
<1>0. TypeOK'
  BY StepTypeOK DEF IInv
<1> USE DEF IInv, Idle, DeadAccounted, DeadIsDown
<1>1. CASE StartPass
  BY <1>0, <1>1 DEF StartPass, nodes
<1>2. CASE EndPass
  BY <1>0, <1>2 DEF EndPass, nodes
<1>3. ASSUME NEW n \in Nodes, Probe(n) PROVE IInv'
  BY <1>0, <1>3 DEF Probe, nodes
<1>4. ASSUME NEW n \in Nodes, ProbeTimesOut(n) \/ ProbeRefused(n) PROVE IInv'
  BY <1>0, <1>4 DEF ProbeTimesOut, ProbeRefused, EndProbe, remove_node, nodes
<1>5. CASE ProbeRepeated
  BY <1>0, <1>5 DEF ProbeRepeated, nodes
<1>6. ASSUME NEW n \in Nodes, ProbeAnswered(n) PROVE IInv'
  <2>1. n \notin dead
    BY <1>6 DEF ProbeAnswered
  <2> QED
    BY <1>0, <1>6, <2>1 DEF ProbeAnswered, EndProbe, nodes
<1>7. ASSUME NEW n \in Nodes, ProbeLost(n) PROVE IInv'
  BY <1>0, <1>7 DEF ProbeLost, nodes
<1>8. ASSUME NEW n \in Nodes, NodeStep(n) PROVE IInv'
  <2>1. CASE Boot(n)
    BY <1>0, <2>1 DEF Boot, heartbeat, TypeOK
  <2>2. CASE Announce(n)
    BY <1>0, <2>2 DEF Announce, heartbeat, TypeOK
  <2>3. CASE Register(n)
    BY <1>0, <2>3 DEF Register, add_node, heartbeat
  <2> QED
    BY <1>8, <2>1, <2>2, <2>3 DEF NodeStep
<1>9. ASSUME NEW n \in Nodes, Crash(n) PROVE IInv'
  BY <1>0, <1>9 DEF Crash, heartbeat, TypeOK
<1>10. ASSUME NEW n \in Nodes, PostLost(n) \/ Unregister(n) PROVE IInv'
  BY <1>0, <1>10 DEF PostLost, Unregister, remove_node, nodes, heartbeat
<1>11. CASE CloudRestarts
  BY <1>0, <1>11 DEF CloudRestarts, EndProbe, nodes
<1>12. CASE UNCHANGED rvars
  BY <1>0, <1>12 DEF rvars, nodes, heartbeat
<1> QED
  BY <1>1, <1>2, <1>3, <1>4, <1>5, <1>6, <1>7, <1>8, <1>9, <1>10, <1>11, <1>12
     DEF Next, HeartbeatStep, NetworkStep

(* The registry, the snapshot and the probe in flight stay what they are:  *)
(* no probe is sent more than twice.                                       *)
THEOREM RegistryTypeCorrect == Spec => []TypeOK
<1> QED
  BY InitIInv, StepTypeOK, PTL DEF Spec, IInv

(* Whatever is lost, repeated or restarted, and however often: when a pass *)
(* of the heartbeat ends, a node that was down from its beginning is       *)
(* registered only if a POST of its came in during the pass.               *)
THEOREM DeadAlwaysGoneAfterPass == Spec => []DeadGoneAfterPass
<1>1. IInv => DeadGoneAfterPass
  BY DEF IInv, Idle, DeadAccounted, DeadGoneAfterPass
<1> QED
  BY <1>1, InitIInv, StepIInv, PTL DEF Spec

\* Nothing is lost on the way to a node that runs, nor from it.
Reliable == Faults \cap {"probe", "post"} = {}

\* A probe is then lost only on a node that did not run; one that runs by now
\* has booted since, and its POST is under way or came in during the pass.
ComesBack == \A n \in probing : flight = "lost" /\ status[n] = "up" => n \in posts \cup added

(* Unless the network loses a message, the heartbeat gives up a node that  *)
(* runs only if it came back while its old entry was probed: its POST is   *)
(* still to arrive, or has arrived and is undone.                          *)
GivenUpOnlyInRace ==
    [][\A n \in Nodes : ProbeTimesOut(n) /\ status[n] = "up" => n \in posts \cup added]_rvars

LEMMA StepComesBack ==
    ASSUME Reliable, IInv, ComesBack, [Next]_rvars
    PROVE  ComesBack'
<1> USE DEF ComesBack
<1>1. CASE StartPass
  BY <1>1 DEF StartPass, IInv, Idle
<1>2. CASE EndPass
  BY <1>2 DEF EndPass
<1>3. ASSUME NEW n \in Nodes, Probe(n) PROVE ComesBack'
  BY <1>3 DEF Probe
<1>4. ASSUME NEW n \in Nodes, ProbeTimesOut(n) \/ ProbeRefused(n) \/ ProbeAnswered(n)
      PROVE  ComesBack'
  BY <1>4 DEF ProbeTimesOut, ProbeRefused, ProbeAnswered, EndProbe
<1>5. CASE ProbeRepeated
  BY <1>5 DEF ProbeRepeated
<1>6. ASSUME NEW n \in Nodes, ProbeLost(n) PROVE ComesBack'
  <2>1. status[n] # "up"
    BY <1>6 DEF ProbeLost, Fault, Reliable
  <2> QED
    BY <1>6, <2>1 DEF ProbeLost, nodes
<1>7. ASSUME NEW n \in Nodes, Boot(n) \/ Crash(n) PROVE ComesBack'
  BY <1>7 DEF Boot, Crash, heartbeat, IInv, TypeOK
<1>8. ASSUME NEW n \in Nodes, Announce(n) PROVE ComesBack'
  BY <1>8 DEF Announce, heartbeat, IInv, TypeOK
<1>9. ASSUME NEW n \in Nodes, Register(n) PROVE ComesBack'
  BY <1>9 DEF Register, add_node, heartbeat
<1>10. ASSUME NEW n \in Nodes, PostLost(n) \/ Unregister(n) PROVE ComesBack'
  BY <1>10 DEF PostLost, Fault, Reliable, Unregister, nodes, heartbeat
<1>11. CASE CloudRestarts
  BY <1>11 DEF CloudRestarts, EndProbe
<1>12. CASE UNCHANGED rvars
  BY <1>12 DEF rvars, nodes, heartbeat
<1> QED
  BY <1>1, <1>2, <1>3, <1>4, <1>5, <1>6, <1>7, <1>8, <1>9, <1>10, <1>11, <1>12
     DEF Next, HeartbeatStep, NetworkStep, NodeStep

(* The race of the heartbeat with a reboot is the only way a node that     *)
(* runs is given up, for every set of nodes and any number of crashes,     *)
(* restarts of the cloud and calls of /unregister.                         *)
THEOREM AliveGivenUpOnlyInRace == Reliable => (Spec => GivenUpOnlyInRace)
<1> SUFFICES ASSUME Reliable PROVE Spec => GivenUpOnlyInRace
  OBVIOUS
<1>1. Init => ComesBack
  BY DEF Init, ComesBack
<1>2. IInv /\ ComesBack /\ [Next]_rvars => ComesBack'
  BY StepComesBack
<1>3. ComesBack => [\A n \in Nodes : ProbeTimesOut(n) /\ status[n] = "up"
                                         => n \in posts \cup added]_rvars
  BY DEF ComesBack, ProbeTimesOut
<1> QED
  BY InitIInv, StepIInv, <1>1, <1>2, <1>3, PTL DEF Spec, GivenUpOnlyInRace
=============================================================================
